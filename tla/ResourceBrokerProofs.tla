------------------------ MODULE ResourceBrokerProofs ------------------------
(***************************************************************************)
(* Every safety invariant of ResourceBroker, for every set of workers,     *)
(* attempts, requests and resources and for all capacities.                *)
(***************************************************************************)
EXTENDS ResourceBrokerLoops

-----------------------------------------------------------------------------
(* The invariant of the specification. *)

Current(b) == {who \in Identity : b.workers[who.worker] = who.epoch}

Conserving(b) ==
  b.queue # <<>> =>
    /\ ~Fits(b, Head(b.queue).res)
    /\ \A p \in Entries(b) : LeasesOf(b, p.attempt) # {} => ~Fits(b, p.res)

IInv(b) == Good(b) /\ OwnersIn(b, Current(b)) /\ Conserving(b)

\* A method that ends in #drain leaves the invariant behind.
LEMMA DrainEstablishes ==
  ASSUME NEW b, Good(b), OwnersIn(b, Current(b))
  PROVE  IInv(Drain(b))
<1> DEFINE c == Drain(b)
<1>1. Good(c) /\ Later(b, c) /\ DrainStep(c) = c
  BY DrainGood
<1> HIDE DEF c
<1>2. Conserving(c)
  BY <1>1, DrainedConserves DEF Conserving
<1>3. Current(c) = Current(b)
  BY <1>1 DEF Later, SameWorkers, Current
<1>4. OwnersIn(c, Current(c))
  BY <1>1, <1>3 DEF Later
<1> QED BY <1>1, <1>2, <1>4 DEF IInv, c

\* The broker starts empty.
LEMMA InitIInv == Init => IInv(broker)
<1> SUFFICES ASSUME Init PROVE IInv(broker)
  OBVIOUS
<1>1. /\ broker.workers = [w \in Workers |-> NoEpoch]
      /\ broker.highestEpoch = [w \in Workers |-> NoEpoch]
      /\ broker.attempts = [a \in Attempts |-> Absent]
      /\ broker.leases = {} /\ broker.queue = <<>> /\ broker.used = Zero
      /\ broker.late = {} /\ broker.promise = [q \in Requests |-> "unused"]
      /\ Shape(broker)
  BY DEF Init, Shape
<1>2. Entries(broker) = {} /\ \A a : EntriesOf(broker, a) = {} /\ LeasesOf(broker, a) = {}
  BY <1>1 DEF Entries, EntriesOf, LeasesOf
<1>3. Absent \in AttemptState /\ Zero \in Vector
  BY DEF Absent, AttemptState, Zero, Vector
<1>4. Typed(broker)
  <2>1. broker \in BrokerState
    <3>1. /\ broker.workers \in [Workers -> Nat \cup {NoEpoch}]
          /\ broker.highestEpoch \in [Workers -> Nat \cup {NoEpoch}]
          /\ broker.attempts \in [Attempts -> AttemptState]
      BY <1>1, <1>3
    <3>2. /\ broker.leases \subseteq Lease /\ broker.queue \in Seq(Pending)
          /\ broker.used \in Vector /\ broker.late \subseteq Requests
      BY <1>1, <1>3
    <3>3. broker.promise \in [Requests -> {"unused", "waiting", "granted", "rejected"}]
      BY <1>1
    <3> QED BY <1>1, <3>1, <3>2, <3>3, MakeState
  <2> QED BY <1>1, <2>1, FS_EmptySet DEF Typed
<1>5. Identified(broker) /\ Owned(broker)
  BY <1>1, <1>2 DEF Identified, Owned
<1>6. Bounded(broker)
  BY <1>1, <1>2, CapacityAssumption DEF Bounded, Zero
<1>7. Counted(broker)
  <2>1. Cardinality({}) = 0
    BY FS_EmptySet
  <2>2. \A r \in Resources : UnitsOf({}, r) = 0 /\ Zero[r] = 0
    BY UnitsEmpty DEF Zero
  <2>3. \A a \in Attempts : /\ broker.attempts[a].queued = 0
                           /\ broker.attempts[a].reservation = Zero
    BY <1>1 DEF Absent
  <2> QED BY <1>1, <1>2, <2>1, <2>2, <2>3 DEF Counted
<1>8. Tidy(broker, Attempts, Requests)
  BY <1>1 DEF Tidy
<1>9. OwnersIn(broker, Current(broker)) /\ Conserving(broker)
  BY <1>1, <1>2 DEF OwnersIn, Conserving
<1> QED BY <1>4, <1>5, <1>6, <1>7, <1>8, <1>9 DEF IInv, Good, Sound

\* What registerWorker writes itself.
LEMMA ConnectedFields ==
  ASSUME NEW b, Typed(b), NEW w \in Workers, NEW e \in Epochs
  PROVE  /\ SameButWorkers(b, Connected(b, w, e))
         /\ Connected(b, w, e).workers = [b.workers EXCEPT ![w] = e]
<1>1. /\ b.workers \in [Workers -> Nat \cup {NoEpoch}] /\ Shape(b)
      /\ b.highestEpoch \in [Workers -> Nat \cup {NoEpoch}] /\ e \in Nat
  BY Fields, EpochsAssumption
<1> SUFFICES ASSUME NEW c, c = [b EXCEPT !.workers[w] = e, !.highestEpoch[w] = e]
             PROVE  SameButWorkers(b, c) /\ c.workers = [b.workers EXCEPT ![w] = e]
  BY DEF Connected
<1>2. /\ c.workers = [b.workers EXCEPT ![w] = e]
      /\ c.highestEpoch = [b.highestEpoch EXCEPT ![w] = e]
      /\ c.attempts = b.attempts /\ c.leases = b.leases /\ c.queue = b.queue
      /\ c.used = b.used /\ c.late = b.late /\ c.promise = b.promise /\ Shape(c)
  BY <1>1, Zenon DEF Shape
<1>3. /\ c.workers \in [Workers -> Nat \cup {NoEpoch}]
      /\ c.highestEpoch \in [Workers -> Nat \cup {NoEpoch}]
  BY <1>1, <1>2
<1> QED BY <1>2, <1>3, Zenon DEF SameButWorkers

\* registerWorker of a worker that is not connected.
LEMMA RegisterWorkerIInv ==
  ASSUME IInv(broker), NEW w \in Workers, NEW e \in Epochs, RegisterWorker(w, e)
  PROVE  IInv(broker')
<1>1. Good(broker) /\ Typed(broker) /\ OwnersIn(broker, Current(broker)) /\ Conserving(broker)
  BY DEF IInv, Good, Sound
<1>2. SameButWorkers(broker, broker') /\ broker'.workers = [broker.workers EXCEPT ![w] = e]
  BY <1>1, ConnectedFields DEF RegisterWorker
<1>3. Good(broker') /\ OwnersIn(broker', Current(broker))
  BY <1>1, <1>2, WorkersGood
<1>4. Current(broker) \subseteq Current(broker')
  <2>1. broker.workers \in [Workers -> Nat \cup {NoEpoch}] /\ broker.workers[w] = NoEpoch
    BY <1>1, Fields DEF RegisterWorker
  <2>2. \A who \in Current(broker) : who.worker \in Workers /\ who.epoch \in Nat /\ who.worker # w
    BY <2>1 DEF Current, Identity, NoEpoch
  <2> QED BY <1>2, <2>1, <2>2 DEF Current
<1>5. OwnersIn(broker', Current(broker'))
  BY <1>3, <1>4 DEF OwnersIn
<1>6. Conserving(broker')
  BY <1>1, <1>2 DEF Conserving, SameButWorkers, Fits, LeasesOf, Entries
<1> QED BY <1>3, <1>5, <1>6 DEF IInv

\* registerWorker or disconnectWorker of a connected worker: what it owned is
\* gone before anyone else is served.
LEMMA ReclaimIInv ==
  ASSUME IInv(broker), NEW who \in Identity, CurrentEpoch(broker, who), NEW c,
         SameButWorkers(ReclaimWorker(broker, who), c),
         \A w \in Workers : w # who.worker => c.workers[w] = broker.workers[w]
  PROVE  IInv(Drain(c))
<1> DEFINE r == ReclaimWorker(broker, who)
<1>1. Good(broker) /\ OwnersIn(broker, Current(broker))
  BY DEF IInv
<1>2. Good(r) /\ SameWorkers(broker, r) /\ OwnersIn(r, Current(broker) \ {who})
  BY <1>1, ReclaimWorkerGood
<1> HIDE DEF r
<1>3. Good(c) /\ OwnersIn(c, Current(broker) \ {who})
  BY <1>2, WorkersGood DEF r
<1>4. Current(broker) \ {who} \subseteq Current(c)
  <2> SUFFICES ASSUME NEW u \in Current(broker), u # who PROVE u \in Current(c)
    OBVIOUS
  <2>1. u \in Identity /\ broker.workers[u.worker] = u.epoch
    BY DEF Current
  <2>2. broker.workers[who.worker] = who.epoch
    BY DEF CurrentEpoch
  <2>3. u.worker \in Workers /\ u.worker # who.worker
    BY <2>1, <2>2 DEF Identity
  <2> QED BY <2>1, <2>3 DEF Current
<1>5. OwnersIn(c, Current(c))
  BY <1>3, <1>4 DEF OwnersIn
<1> QED BY <1>3, <1>5, DrainEstablishes

\* registerWorker with a newer epoch of a connected worker.
LEMMA SupersedeWorkerIInv ==
  ASSUME IInv(broker), NEW w \in Workers, NEW e \in Epochs, SupersedeWorker(w, e)
  PROVE  IInv(broker')
<1> DEFINE old == [worker |-> w, epoch |-> broker.workers[w]]
           r == ReclaimWorker(broker, old)
           c == Connected(r, w, e)
<1>1. Good(broker) /\ Typed(broker)
  BY DEF IInv, Good, Sound
<1>2. broker.workers \in [Workers -> Nat \cup {NoEpoch}] /\ e \in Nat
      /\ broker.workers[w] # NoEpoch
  BY <1>1, Fields, EpochsAssumption DEF SupersedeWorker
<1>3. old \in Identity /\ CurrentEpoch(broker, old) /\ old.worker = w
  BY <1>2 DEF Identity, CurrentEpoch
<1>4. Good(r) /\ SameWorkers(broker, r)
  BY <1>1, <1>3, ReclaimWorkerGood
<1>5. broker' = Drain(c)
  BY DEF SupersedeWorker
<1> HIDE DEF r, old
<1>6. SameButWorkers(r, c) /\ \A u \in Workers : u # w => c.workers[u] = broker.workers[u]
  <2>1. r.workers \in [Workers -> Nat \cup {NoEpoch}] /\ Typed(r)
    BY <1>4, Fields DEF Good, Sound
  <2>2. SameButWorkers(r, c) /\ c.workers = [r.workers EXCEPT ![w] = e]
    BY <2>1, ConnectedFields
  <2> QED BY <1>4, <2>1, <2>2 DEF SameWorkers
<1> HIDE DEF c
<1> QED BY <1>3, <1>5, <1>6, ReclaimIInv DEF r

\* disconnectWorker of the current epoch.
LEMMA DisconnectWorkerIInv ==
  ASSUME IInv(broker), NEW who \in Callers, DisconnectWorker(who)
  PROVE  IInv(broker')
<1> DEFINE r == ReclaimWorker(broker, who)
           c == [r EXCEPT !.workers[who.worker] = NoEpoch]
<1>1. Good(broker)
  BY DEF IInv
<1>2. who \in Identity /\ who.worker \in Workers /\ CurrentEpoch(broker, who)
  BY EpochsAssumption DEF Callers, Identity, DisconnectWorker
<1>3. Good(r) /\ SameWorkers(broker, r)
  BY <1>1, <1>2, ReclaimWorkerGood
<1>4. broker' = Drain(c)
  BY DEF DisconnectWorker
<1> HIDE DEF r
<1>5. SameButWorkers(r, c) /\ \A u \in Workers : u # who.worker => c.workers[u] = broker.workers[u]
  <2>1. /\ r.workers \in [Workers -> Nat \cup {NoEpoch}] /\ Shape(r)
        /\ r.highestEpoch \in [Workers -> Nat \cup {NoEpoch}]
    BY <1>3, Fields DEF Good, Sound
  <2>2. SameButWorkers(r, c) /\ c.workers = [r.workers EXCEPT ![who.worker] = NoEpoch]
    BY <1>2, <2>1 DEF SameButWorkers, Shape
  <2> QED BY <1>3, <2>1, <2>2 DEF SameWorkers
<1> HIDE DEF c
<1> QED BY <1>2, <1>4, <1>5, ReclaimIInv DEF r

\* acquire refused before the broker has an entry for the attempt.
LEMMA AcquireRefusedIInv ==
  ASSUME IInv(broker), NEW who, NEW a, NEW q \in Requests, NEW v, NEW expired,
         AcquireRefused(who, a, q, v, expired)
  PROVE  IInv(broker')
<1> DEFINE c == RejectPromise(broker, q)
<1>1. Sound(broker) /\ Tidy(broker, Attempts, Requests) /\ Identified(broker)
  BY DEF IInv, Good, Sound
<1>2. q \notin Waiting(broker) /\ \A l \in broker.leases : l.id # q
  BY <1>1 DEF AcquireRefused, Fresh, Identified, Waiting
<1>3. Tidy(broker, Attempts, Requests \ {q})
  BY <1>1 DEF Tidy
<1>4. Sound(c) /\ Tidy(c, Attempts, Requests) /\ SameButPromise(broker, c)
  BY <1>1, <1>2, <1>3, RejectPromiseSound
<1>5. broker' = c
  BY DEF AcquireRefused, RejectPromise
<1> HIDE DEF c
<1>6. OwnersIn(broker, Current(broker)) /\ Conserving(broker)
  BY DEF IInv
<1>7. OwnersIn(c, Current(c))
  BY <1>4, <1>6 DEF SameButPromise, SameWorkers, OwnersIn, Current
<1>8. Conserving(c)
  BY <1>4, <1>6 DEF SameButPromise, Conserving, Fits, LeasesOf
<1> QED BY <1>4, <1>5, <1>7, <1>8 DEF IInv, Good

\* What acquire has once it passed its checks and #attempt returned.
Ready(d, who, a, q, v) ==
  /\ Sound(d) /\ SameButAttempts(broker, d) /\ Tidy(d, Attempts \ {a}, Requests)
  /\ d.attempts[a].owner = who /\ who \in Identity /\ who \in Current(broker)
  /\ q \notin Waiting(d) /\ \A l \in d.leases : l.id # q
  /\ v \in Vector /\ \A r \in Resources : v[r] <= Capacity[r]
  /\ OwnersIn(d, Current(broker))

LEMMA AcquireReady ==
  ASSUME IInv(broker), NEW who \in Callers, NEW a \in Attempts, NEW q \in Requests,
         NEW v \in Vectors, Fresh(q), Admissible(who, a, v)
  PROVE  Ready(WithAttempt(broker, who, a), who, a, q, v)
<1> DEFINE d == WithAttempt(broker, who, a)
<1>1. Good(broker) /\ Identified(broker) /\ OwnersIn(broker, Current(broker))
  BY DEF IInv, Good, Sound
<1>2. who \in Identity
  BY EpochsAssumption DEF Callers, Identity
<1>3. who \in Current(broker)
  BY <1>2 DEF Admissible, CurrentEpoch, Current
<1>4. /\ Sound(d) /\ SameButAttempts(broker, d) /\ Tidy(d, Attempts \ {a}, Requests)
      /\ d.attempts[a].owner = who
  BY <1>1, <1>2, WithAttemptSound DEF Admissible
<1> HIDE DEF d
<1>5. q \notin Waiting(broker) /\ \A l \in broker.leases : l.id # q
  BY <1>1 DEF Fresh, Identified, Waiting
<1>6. q \notin Waiting(d) /\ \A l \in d.leases : l.id # q
  BY <1>4, <1>5 DEF SameButAttempts, Waiting
<1>7. v \in Vector /\ \A r \in Resources : v[r] <= Capacity[r]
  BY VectorsAssumption DEF Admissible, ValidVector, Vector
<1>8. OwnersIn(d, Current(broker))
  BY <1>1, <1>4 DEF SameButAttempts, OwnersIn
<1> QED BY <1>2, <1>3, <1>4, <1>6, <1>7, <1>8 DEF Ready, d

\* acquire granted at once, which it is only when nobody waits.
LEMMA AcquireGrantedIInv ==
  ASSUME IInv(broker), NEW who \in Callers, NEW a \in Attempts, NEW q \in Requests,
         NEW v \in Vectors, AcquireGranted(who, a, q, v)
  PROVE  IInv(broker')
<1> DEFINE d == WithAttempt(broker, who, a)
           c == Grant(d, q, a, v)
<1>1. Ready(d, who, a, q, v) /\ broker' = c /\ broker.queue = <<>> /\ Fits(broker, v)
  BY AcquireReady DEF AcquireGranted
<1> HIDE DEF d
<1>2. Fits(d, v) /\ d.queue = <<>> /\ SameWorkers(broker, d)
  BY <1>1 DEF Ready, SameButAttempts, Fits
<1>3. Tidy(d, Attempts \ {a}, Requests \ {q})
  BY <1>1 DEF Ready, Tidy
<1>4. /\ Sound(c) /\ Tidy(c, Attempts, Requests) /\ SameQueue(d, c)
      /\ OwnersIn(c, Current(broker))
  BY <1>1, <1>2, <1>3, GrantSound DEF Ready
<1> HIDE DEF c
<1>5. Current(c) = Current(broker) /\ c.queue = <<>>
  BY <1>2, <1>4 DEF SameQueue, SameWorkers, Current
<1> QED BY <1>1, <1>4, <1>5 DEF IInv, Good, Conserving

\* acquire refused because the queue is full: the entry it made is removed again.
LEMMA AcquireQueueFullIInv ==
  ASSUME IInv(broker), NEW who \in Callers, NEW a \in Attempts, NEW q \in Requests,
         NEW v \in Vectors, AcquireQueueFull(who, a, q, v)
  PROVE  IInv(broker')
<1> DEFINE d == WithAttempt(broker, who, a)
           x == DeleteAttemptIfEmpty(d, a)
           c == RejectPromise(x, q)
<1>1. Ready(d, who, a, q, v) /\ broker' = c
  BY AcquireReady DEF AcquireQueueFull, RejectPromise
<1> HIDE DEF d
<1>2. Sound(x) /\ Tidy(x, Attempts, Requests) /\ SameButAttempts(d, x)
  BY <1>1, DeleteSound, DeleteFields DEF Ready, Sound
<1> HIDE DEF x
<1>3. q \notin Waiting(x) /\ (\A l \in x.leases : l.id # q) /\ Tidy(x, Attempts, Requests \ {q})
  BY <1>1, <1>2 DEF Ready, SameButAttempts, Waiting, Tidy
<1>4. Sound(c) /\ Tidy(c, Attempts, Requests) /\ SameButPromise(x, c)
  BY <1>2, <1>3, RejectPromiseSound
<1> HIDE DEF c
<1>5. /\ c.workers = broker.workers /\ c.leases = broker.leases /\ c.used = broker.used
      /\ c.queue = broker.queue /\ Entries(c) = Entries(broker)
  BY <1>1, <1>2, <1>4 DEF Ready, SameButAttempts, SameButPromise, SameWorkers
<1>6. OwnersIn(broker, Current(broker)) /\ Conserving(broker)
  BY DEF IInv
<1>7. OwnersIn(c, Current(c))
  BY <1>5, <1>6 DEF OwnersIn, Current
<1>8. Conserving(c)
  BY <1>5, <1>6 DEF Conserving, Fits, LeasesOf
<1> QED BY <1>1, <1>4, <1>7, <1>8 DEF IInv, Good

\* acquire that joins the queue.
LEMMA AcquireQueuedIInv ==
  ASSUME IInv(broker), NEW who \in Callers, NEW a \in Attempts, NEW q \in Requests,
         NEW v \in Vectors, AcquireQueued(who, a, q, v)
  PROVE  IInv(broker')
<1> DEFINE d == WithAttempt(broker, who, a)
           c == Enqueue(d, who, a, q, v)
<1>1. Ready(d, who, a, q, v) /\ broker' = Drain(c)
  BY AcquireReady DEF AcquireQueued
<1> HIDE DEF d
<1>2. Good(c) /\ SameWorkers(d, c) /\ OwnersIn(c, Current(broker))
  BY <1>1, EnqueueGood DEF Ready
<1> HIDE DEF c
<1>3. Current(c) = Current(broker)
  BY <1>1, <1>2 DEF Ready, SameButAttempts, SameWorkers, Current
<1> QED BY <1>1, <1>2, <1>3, DrainEstablishes

\* lease.release().
LEMMA ReleaseIInv ==
  ASSUME IInv(broker), NEW l \in broker.leases, Release(l)
  PROVE  IInv(broker')
<1> DEFINE a == l.attempt
           s == FreeLeases(broker, a, {l})
           c == DeleteAttemptIfEmpty(s, a)
<1>1. Sound(broker) /\ Typed(broker) /\ Tidy(broker, Attempts, Requests)
  BY DEF IInv, Good, Sound
<1>2. a \in Attempts /\ {l} \subseteq LeasesOf(broker, a)
  BY <1>1, Members DEF LeasesOf
<1>3. broker' = Drain(c)
  BY DEF Release, FreeLeases
<1> HIDE DEF a
<1>4. Sound(s) /\ Freed(broker, {l}, s) /\ Tidy(s, Attempts \ {a}, Requests)
  BY <1>1, <1>2, FreeSound
<1> HIDE DEF s
<1>5. Sound(c) /\ Tidy(c, Attempts, Requests) /\ SameButAttempts(s, c)
  BY <1>2, <1>4, DeleteSound, DeleteFields DEF Sound
<1> HIDE DEF c
<1>6. /\ c.workers = broker.workers /\ c.leases \subseteq broker.leases
      /\ Entries(c) = Entries(broker)
  BY <1>4, <1>5 DEF Freed, SameButAttempts, SameQueue, SameWorkers
<1>7. OwnersIn(broker, Current(broker))
  BY DEF IInv
<1>8. OwnersIn(c, Current(c))
  BY <1>6, <1>7 DEF OwnersIn, Current
<1> QED BY <1>3, <1>5, <1>8, DrainEstablishes DEF Good

\* The abort signal or the timer of a waiting request.
LEMMA CancelIInv ==
  ASSUME IInv(broker), NEW i \in DOMAIN broker.queue, broker' = Cancel(broker, i)
  PROVE  IInv(broker')
<1> DEFINE c == Cancel(broker, i)
<1>1. Good(broker) /\ OwnersIn(broker, Current(broker))
  BY DEF IInv
<1>2. Good(c) /\ Advance(broker, c) /\ DrainStep(c) = c
  BY <1>1, CancelGood
<1> HIDE DEF c
<1>3. Current(c) = Current(broker)
  BY <1>2 DEF Advance, SameWorkers, Current
<1>4. OwnersIn(c, Current(c))
  BY <1>1, <1>2, <1>3 DEF Advance
<1>5. Conserving(c)
  BY <1>2, DrainedConserves DEF Conserving
<1> QED BY <1>2, <1>4, <1>5 DEF IInv, c

\* Exchanging a lease for one with the same vector holds the same units.
LEMMA SwapUnits ==
  ASSUME NEW M, IsFiniteSet(M), NEW l \in M, NEW k, k \notin M \ {l}, NEW r \in Resources,
         k.res = l.res, l.res[r] \in Nat, l.res[r] <= Capacity[r]
  PROVE  UnitsOf((M \ {l}) \cup {k}, r) = UnitsOf(M, r)
<1> DEFINE N == M \ {l}
<1>1. IsFiniteSet(N) /\ IsFiniteSet({l}) /\ IsFiniteSet({k})
  BY FS_Difference, FS_Singleton, Zenon
<1>2. M = N \cup {l} /\ N \cap {l} = {} /\ N \cap {k} = {}
  OBVIOUS
<1> HIDE DEF N
<1>3. UnitsOf(N \cup {l}, r) = UnitsOf(N, r) + UnitsOf({l}, r)
  BY <1>1, <1>2, UnitsUnion
<1>4. UnitsOf(N \cup {k}, r) = UnitsOf(N, r) + UnitsOf({k}, r)
  BY <1>1, <1>2, UnitsUnion
<1>5. UnitsOf({l}, r) = l.res[r] /\ UnitsOf({k}, r) = k.res[r]
  BY UnitsOne
<1> QED BY <1>2, <1>3, <1>4, <1>5 DEF N

\* lease.attach() changes what a lease names, and nothing that is counted.
LEMMA AttachIInv ==
  ASSUME IInv(broker), NEW l \in broker.leases, NEW S \in SUBSET Resources, Attach(l, S)
  PROVE  IInv(broker')
<1> DEFINE k == [l EXCEPT !.attached = S]
           L == (broker.leases \ {l}) \cup {k}
           c == [broker EXCEPT !.leases = L]
<1>1. /\ Typed(broker) /\ Identified(broker) /\ Owned(broker) /\ Bounded(broker)
      /\ Counted(broker) /\ Tidy(broker, Attempts, Requests) /\ Shape(broker)
      /\ OwnersIn(broker, Current(broker)) /\ Conserving(broker)
  BY Fields DEF IInv, Good, Sound
<1>2. broker' = c
  BY DEF Attach
<1>3. l \in Lease /\ broker.leases \subseteq Lease
  BY <1>1, Fields
<1>4. /\ k \in Lease /\ k.id = l.id /\ k.attempt = l.attempt /\ k.owner = l.owner
      /\ k.res = l.res
  BY <1>3 DEF Lease
<1> HIDE DEF k
<1>5. k \notin broker.leases \ {l}
  BY <1>1, <1>4 DEF Identified
<1>6. /\ L \subseteq Lease /\ IsFiniteSet(L)
      /\ \A x \in L : \E y \in broker.leases :
           /\ x.id = y.id /\ x.attempt = y.attempt /\ x.owner = y.owner /\ x.res = y.res
  <2>1. IsFiniteSet(broker.leases \ {l}) /\ IsFiniteSet({k})
    BY <1>1, FS_Difference, FS_Singleton, Zenon DEF Typed
  <2>2. IsFiniteSet(L)
    BY <2>1, FS_Union, Zenon
  <2> QED BY <1>3, <1>4, <2>2
<1>7. \A x, y \in L : x.id = y.id => x = y
  BY <1>1, <1>4 DEF Identified
<1>8. \A d \in Attempts : /\ d # l.attempt => LeasesOf([leases |-> L], d) = LeasesOf(broker, d)
                          /\ d = l.attempt => LeasesOf([leases |-> L], d) =
                               (LeasesOf(broker, d) \ {l}) \cup {k}
  BY <1>4 DEF LeasesOf
<1> HIDE DEF L
<1>9. /\ c.leases = L /\ c.workers = broker.workers /\ c.highestEpoch = broker.highestEpoch
      /\ c.attempts = broker.attempts /\ c.queue = broker.queue /\ c.used = broker.used
      /\ c.late = broker.late /\ c.promise = broker.promise /\ Shape(c)
      /\ Entries(c) = Entries(broker) /\ Waiting(c) = Waiting(broker)
      /\ \A d : EntriesOf(c, d) = EntriesOf(broker, d)
  BY <1>1 DEF Shape, Entries, Waiting, EntriesOf
<1>10. \A d : LeasesOf(c, d) = LeasesOf([leases |-> L], d)
  BY <1>9 DEF LeasesOf
<1> HIDE DEF c
<1>11. Typed(c)
  <2>1. c \in BrokerState
    BY <1>1, <1>6, <1>9, Fields, MakeState
  <2> QED BY <1>6, <1>9, <2>1 DEF Typed
<1>12. Identified(c)
  <2>1. ASSUME NEW x \in c.leases PROVE c.promise[x.id] = "granted"
    <3>1. PICK y \in broker.leases : x.id = y.id
      BY <1>6, <1>9
    <3>2. broker.promise[y.id] = "granted"
      BY <1>1 DEF Identified
    <3> QED BY <1>9, <3>1, <3>2
  <2>2. \A i, j \in DOMAIN c.queue : c.queue[i].id = c.queue[j].id => i = j
    BY <1>1, <1>9 DEF Identified
  <2>3. /\ \A p \in Entries(c) : c.promise[p.id] = "waiting"
        /\ c.late \subseteq Waiting(c)
    BY <1>1, <1>9 DEF Identified
  <2>4. \A x, y \in c.leases : x.id = y.id => x = y
    BY <1>7, <1>9
  <2> QED BY <2>1, <2>2, <2>3, <2>4 DEF Identified
<1>13. Owned(c)
  BY <1>1, <1>6, <1>9 DEF Owned
<1>14. Bounded(c)
  BY <1>1, <1>6, <1>9 DEF Bounded
<1>15. Counted(c)
  <2>1. ASSUME NEW r \in Resources, NEW M \in SUBSET broker.leases, l \in M
        PROVE  UnitsOf((M \ {l}) \cup {k}, r) = UnitsOf(M, r)
    <3>1. l.res[r] \in Nat /\ l.res[r] <= Capacity[r]
      BY <1>1, <1>3 DEF Bounded, Lease, Vector
    <3>2. IsFiniteSet(M)
      BY <1>1, <2>1, FS_Subset, Zenon DEF Typed
    <3>3. k \notin M \ {l}
      BY <1>5, <2>1
    <3> QED BY <1>4, <2>1, <3>1, <3>2, <3>3, SwapUnits
  <2>2. \A r \in Resources : UnitsOf(L, r) = UnitsOf(broker.leases, r)
    BY <2>1 DEF L
  <2>3. \A d \in Attempts, r \in Resources :
          UnitsOf(LeasesOf(c, d), r) = UnitsOf(LeasesOf(broker, d), r)
    <3> SUFFICES ASSUME NEW d \in Attempts, NEW r \in Resources
                 PROVE  UnitsOf(LeasesOf(c, d), r) = UnitsOf(LeasesOf(broker, d), r)
      OBVIOUS
    <3>1. CASE d # l.attempt
      BY <1>8, <1>10, <3>1
    <3>2. CASE d = l.attempt
      <4>1. LeasesOf(broker, d) \in SUBSET broker.leases /\ l \in LeasesOf(broker, d)
        BY <3>2 DEF LeasesOf
      <4>2. LeasesOf(c, d) = (LeasesOf(broker, d) \ {l}) \cup {k}
        BY <1>8, <1>10, <3>2
      <4> QED BY <2>1, <4>1, <4>2
    <3> QED BY <3>1, <3>2
  <2> QED BY <1>1, <1>9, <2>2, <2>3 DEF Counted
<1>16. \A d \in Attempts : LeasesOf(c, d) = {} <=> LeasesOf(broker, d) = {}
  <2>1. l \in LeasesOf(broker, l.attempt)
    BY DEF LeasesOf
  <2> QED BY <1>8, <1>10, <2>1
<1>17. Tidy(c, Attempts, Requests)
  BY <1>1, <1>9, <1>16 DEF Tidy
<1>18. OwnersIn(c, Current(c))
  BY <1>1, <1>6, <1>9 DEF OwnersIn, Current
<1>19. Conserving(c)
  <2>1. \A p \in Entries(broker) : p.attempt \in Attempts
    BY <1>1, Members
  <2> QED BY <1>1, <1>9, <1>16, <2>1 DEF Conserving, Fits
<1> QED BY <1>2, <1>11, <1>12, <1>13, <1>14, <1>15, <1>17, <1>18, <1>19 DEF IInv, Good, Sound

\* A deadline passes; only the next #drain or the timer acts on it.
LEMMA DeadlineReachedIInv ==
  ASSUME IInv(broker), NEW q \in Requests, DeadlineReached(q)
  PROVE  IInv(broker')
<1> DEFINE c == [broker EXCEPT !.late = @ \cup {q}]
<1>1. /\ Typed(broker) /\ Identified(broker) /\ Owned(broker) /\ Bounded(broker)
      /\ Counted(broker) /\ Tidy(broker, Attempts, Requests) /\ Shape(broker)
      /\ OwnersIn(broker, Current(broker)) /\ Conserving(broker)
  BY Fields DEF IInv, Good, Sound
<1>2. broker' = c /\ q \in Waiting(broker)
  BY DEF DeadlineReached
<1>3. /\ c.workers = broker.workers /\ c.highestEpoch = broker.highestEpoch
      /\ c.attempts = broker.attempts /\ c.queue = broker.queue /\ c.used = broker.used
      /\ c.leases = broker.leases /\ c.promise = broker.promise /\ Shape(c)
      /\ c.late = broker.late \cup {q}
  BY <1>1 DEF Shape
<1> HIDE DEF c
<1>4. /\ Entries(c) = Entries(broker) /\ Waiting(c) = Waiting(broker)
      /\ \A d : EntriesOf(c, d) = EntriesOf(broker, d) /\ LeasesOf(c, d) = LeasesOf(broker, d)
  BY <1>3 DEF Entries, Waiting, EntriesOf, LeasesOf
<1>5. Typed(c)
  <2>1. c \in BrokerState
    BY <1>1, <1>3, Fields, MakeState
  <2> QED BY <1>1, <1>3, <2>1 DEF Typed
<1>6. Identified(c)
  BY <1>1, <1>2, <1>3, <1>4 DEF Identified
<1>7. Owned(c) /\ Bounded(c) /\ Counted(c) /\ Tidy(c, Attempts, Requests)
  BY <1>1, <1>3, <1>4 DEF Owned, Bounded, Counted, Tidy
<1>8. OwnersIn(c, Current(c)) /\ Conserving(c)
  BY <1>1, <1>3, <1>4 DEF OwnersIn, Current, Conserving, Fits
<1> QED BY <1>2, <1>5, <1>6, <1>7, <1>8 DEF IInv, Good, Sound

\* IInv is inductive: one case for each method of the class.
THEOREM Invariance == Spec => []IInv(broker)
<1>1. IInv(broker) /\ [Next]_broker => IInv(broker)'
  <2> SUFFICES ASSUME IInv(broker), [Next]_broker PROVE IInv(broker')
    OBVIOUS
  <2>1. CASE \E w \in Workers, e \in Epochs : RegisterWorker(w, e) \/ SupersedeWorker(w, e)
    BY <2>1, RegisterWorkerIInv, SupersedeWorkerIInv, Zenon
  <2>2. CASE \E who \in Callers : DisconnectWorker(who)
    BY <2>2, DisconnectWorkerIInv, Zenon
  <2>3. CASE \E who \in Callers, a \in Attempts, q \in Requests, v \in Vectors :
               Acquire(who, a, q, v)
    <3>1. PICK who \in Callers, a \in Attempts, q \in Requests, v \in Vectors :
            Acquire(who, a, q, v)
      BY <2>3
    <3> QED BY <3>1, AcquireRefusedIInv, AcquireGrantedIInv, AcquireQueueFullIInv,
               AcquireQueuedIInv, Zenon DEF Acquire
  <2>4. CASE \E l \in broker.leases : Release(l) \/ \E S \in SUBSET Resources : Attach(l, S)
    BY <2>4, ReleaseIInv, AttachIInv, Zenon
  <2>5. CASE \E i \in DOMAIN broker.queue : Abort(i) \/ TimerFires(i)
    BY <2>5, CancelIInv, Zenon DEF Abort, TimerFires
  <2>6. CASE \E q \in Requests : DeadlineReached(q)
    BY <2>6, DeadlineReachedIInv, Zenon
  <2>7. CASE UNCHANGED broker
    BY <2>7
  <2> QED BY <2>1, <2>2, <2>3, <2>4, <2>5, <2>6, <2>7 DEF Next
<1> QED BY <1>1, InitIInv, PTL DEF Spec

\* The private state always has the shape the class declares.
THEOREM TypeCorrect == Spec => []TypeOK
<1>1. IInv(broker) => TypeOK
  BY DEF IInv, Good, Sound, Typed, TypeOK
<1> QED BY <1>1, Invariance, PTL

\* #used and every reservation are the exact sums of the live leases, although
\* #grant and #recomputeReservation only add differences.
THEOREM AccountingExact == Spec => []ExactAccounting
<1>1. IInv(broker) => ExactAccounting
  BY DEF IInv, Good, Sound, Counted, ExactAccounting
<1> QED BY <1>1, Invariance, PTL

\* No sequence of calls makes the leases exceed the capacities of the host.
THEOREM NoOvercommit == Spec => []NeverOvercommitted
<1>1. IInv(broker) => NeverOvercommitted
  <2> SUFFICES ASSUME IInv(broker) PROVE NeverOvercommitted
    OBVIOUS
  <2>1. Counted(broker) /\ Bounded(broker)
    BY DEF IInv, Good, Sound
  <2> QED BY <2>1 DEF Counted, Bounded, NeverOvercommitted
<1> QED BY <1>1, Invariance, PTL

\* After registerWorker and disconnectWorker nothing belongs to an older epoch.
THEOREM NothingOutlivesItsWorker == Spec => []OwnersAreCurrent
<1>1. IInv(broker) => OwnersAreCurrent
  <2> SUFFICES ASSUME IInv(broker) PROVE OwnersAreCurrent
    OBVIOUS
  <2>1. Owned(broker) /\ Tidy(broker, Attempts, Requests) /\ OwnersIn(broker, Current(broker))
    BY DEF IInv, Good, Sound
  <2>2. /\ \A l \in broker.leases : CurrentEpoch(broker, l.owner)
        /\ \A p \in Entries(broker) : CurrentEpoch(broker, p.owner)
    BY <2>1 DEF OwnersIn, Current, CurrentEpoch
  <2>3. ASSUME NEW a \in Attempts, broker.attempts[a] # Absent
        PROVE  CurrentEpoch(broker, broker.attempts[a].owner)
    <3>1. EntriesOf(broker, a) # {} \/ LeasesOf(broker, a) # {}
      BY <2>1, <2>3 DEF Tidy
    <3> QED BY <2>1, <2>2, <3>1 DEF EntriesOf, LeasesOf, Owned
  <2> QED BY <2>2, <2>3 DEF OwnersAreCurrent
<1> QED BY <1>1, Invariance, PTL

\* No early return leaks or loses an attempt, a queue entry or a promise.
THEOREM BookkeepingExact == Spec => []Bookkeeping
<1>1. IInv(broker) => Bookkeeping
  <2> SUFFICES ASSUME IInv(broker) PROVE Bookkeeping
    OBVIOUS
  <2>1. /\ Typed(broker) /\ Owned(broker) /\ Counted(broker) /\ Identified(broker)
        /\ Tidy(broker, Attempts, Requests) /\ OwnersIn(broker, Current(broker))
    BY DEF IInv, Good, Sound
  <2>2. \A a \in Attempts : broker.attempts[a] = Absent
                              => EntriesOf(broker, a) = {} /\ LeasesOf(broker, a) = {}
    <3>1. \A who \in Current(broker) : who # NoOwner
      BY NoOwnerAssumption DEF Current
    <3> QED BY <2>1, <3>1 DEF OwnersIn, Owned, EntriesOf, LeasesOf, Absent
  <2>3. \A q \in Requests : broker.promise[q] = "waiting" <=> q \in Waiting(broker)
    BY <2>1 DEF Identified, Tidy, Waiting
  <2> QED BY <2>1, <2>2, <2>3 DEF Bookkeeping, Counted, Identified, Tidy
<1> QED BY <1>1, Invariance, PTL

\* Every method that frees capacity or shortens the queue serves whoever can be
\* served: neither the head nor a continuation that fits is left waiting.
THEOREM NoIdleCapacity == Spec => []WorkConserving
<1>1. IInv(broker) => WorkConserving
  BY DEF IInv, Conserving, WorkConserving
<1> QED BY <1>1, Invariance, PTL
=============================================================================
