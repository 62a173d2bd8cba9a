--------------------------- MODULE ResourceBroker ---------------------------
(***************************************************************************)
(* The host's resource scheduler, packages/resource-broker/src/index.ts.   *)
(*                                                                         *)
(* Workers register with an epoch; their attempts acquire vectors of       *)
(* resources, wait in one queue when a vector does not fit, and release    *)
(* the leases they were granted.  Every public method runs to completion   *)
(* on one thread, so each is one action, with the #drain it ends in.       *)
(*                                                                         *)
(* The private fields of the class are the fields of the variable broker.  *)
(* A request is named by an element of Requests, which also names its      *)
(* pending entry, its promise and the lease it is granted.  Time appears   *)
(* only as broker.late, the waiting requests whose deadline #now() has     *)
(* reached.                                                                *)
(***************************************************************************)
EXTENDS Integers, Sequences, FiniteSets

CONSTANTS
  Workers,     \* worker ids
  Epochs,      \* the epochs a worker may announce
  Attempts,    \* attempt ids
  Requests,    \* names of acquire calls
  Resources,   \* RESOURCE_CLASSES
  Capacity,    \* units the host owns of each resource
  MaxQueued,   \* bound on the queue
  Vectors,     \* the vectors the workers ask for
  NoOwner      \* the owner of an attempt the broker does not know

ASSUME CapacityAssumption == Capacity \in [Resources -> Nat]
ASSUME MaxQueuedAssumption == MaxQueued \in Nat \ {0}
ASSUME EpochsAssumption == Epochs \subseteq Nat
ASSUME VectorsAssumption == Vectors \subseteq [Resources -> Nat]
ASSUME AttemptsAssumption == IsFiniteSet(Attempts)

Identity == [worker : Workers, epoch : Nat]

ASSUME NoOwnerAssumption == NoOwner \notin Identity

VARIABLE broker

-----------------------------------------------------------------------------
(* Types.  NoEpoch stands for a missing entry of #workers and #highestEpoch. *)

NoEpoch == -1
Vector == [Resources -> Nat]
Zero == [r \in Resources |-> 0]
Absent == [owner |-> NoOwner, reservation |-> Zero, queued |-> 0]

AttemptState ==
  [owner : Identity \cup {NoOwner}, reservation : Vector, queued : Nat]
Lease ==
  [id : Requests, attempt : Attempts, owner : Identity, res : Vector,
   attached : SUBSET Resources]
Pending ==
  [id : Requests, attempt : Attempts, owner : Identity, res : Vector]

BrokerState ==
  [workers      : [Workers -> Nat \cup {NoEpoch}],
   highestEpoch : [Workers -> Nat \cup {NoEpoch}],
   attempts     : [Attempts -> AttemptState],
   leases       : SUBSET Lease,
   queue        : Seq(Pending),
   used         : Vector,
   late         : SUBSET Requests,
   promise      : [Requests -> {"unused", "waiting", "granted", "rejected"}]]

-----------------------------------------------------------------------------
(* Helpers of the class, on a value b of its private state. *)

Plus(u, v) == [r \in Resources |-> u[r] + v[r]]

Fits(b, v) == \A r \in Resources : b.used[r] + v[r] <= Capacity[r]

LeasesOf(b, a) == {l \in b.leases : l.attempt = a}

\* The units of r that the leases in L hold together: one pair for each unit.
UnitsOf(L, r) == Cardinality({u \in L \X (1..Capacity[r]) : u[2] <= u[1].res[r]})

Smallest(I) == CHOOSE i \in I : \A j \in I : i <= j

Without(s, i) ==
  [j \in 1..(Len(s) - 1) |-> IF j < i THEN s[j] ELSE s[j + 1]]

Entries(b) == {b.queue[i] : i \in DOMAIN b.queue}
EntriesOf(b, a) == {p \in Entries(b) : p.attempt = a}
Waiting(b) == {p.id : p \in Entries(b)}

CurrentEpoch(b, who) == b.workers[who.worker] = who.epoch

\* normalizeVector: within the capacities, and not empty.
ValidVector(v) ==
  /\ \A r \in Resources : v[r] <= Capacity[r]
  /\ \E r \in Resources : v[r] > 0

DeleteAttemptIfEmpty(b, a) ==
  IF LeasesOf(b, a) = {} /\ b.attempts[a].queued = 0
  THEN [b EXCEPT !.attempts[a] = Absent]
  ELSE b

\* #attempt: the attempt's entry, created on its first request.
WithAttempt(b, who, a) ==
  IF b.attempts[a] = Absent THEN [b EXCEPT !.attempts[a].owner = who] ELSE b

\* Faulty variant: the reservation becomes the attempt's largest request.
Grant_Maximum(b, q, a, v) ==
  [b EXCEPT !.used = Plus(@, v),
            !.attempts[a].reservation = [r \in Resources |-> IF v[r] > @[r] THEN v[r] ELSE @[r]],
            !.leases = @ \cup {[id |-> q, attempt |-> a, owner |-> b.attempts[a].owner,
                                res |-> v, attached |-> {}]},
            !.promise[q] = "granted"]

Grant(b, q, a, v) ==
  [b EXCEPT !.used = Plus(@, v),
            !.attempts[a].reservation = Plus(@, v),
            !.leases = @ \cup {[id |-> q, attempt |-> a, owner |-> b.attempts[a].owner,
                                res |-> v, attached |-> {}]},
            !.promise[q] = "granted"]

\* #settlePending and the splice before it: the request leaves the queue.
Settle(b, i) ==
  LET p == b.queue[i]
  IN  [b EXCEPT !.queue = Without(@, i),
                !.late = @ \ {p.id},
                !.attempts[p.attempt].queued =
                    IF b.attempts[p.attempt] = Absent THEN @ ELSE @ - 1]

\* Faulty variant: the attempt's entry stays when its last request goes.
Reject_KeepsAttempt(b, i) ==
  [Settle(b, i) EXCEPT !.promise[b.queue[i].id] = "rejected"]

\* #cancel up to its call of #drain.
Reject(b, i) ==
  LET p == b.queue[i]
  IN  [DeleteAttemptIfEmpty(Settle(b, i), p.attempt) EXCEPT !.promise[p.id] = "rejected"]

\* Faulty variant: the first request that fits, whoever asked for it.
NextDrainableIndex_FirstFit(b) ==
  LET fitting == {i \in DOMAIN b.queue : Fits(b, b.queue[i].res)}
  IN  IF fitting = {} THEN 1 ELSE Smallest(fitting)

\* The first request that fits and extends an attempt that holds a lease, else the head.
NextDrainableIndex(b) ==
  LET continuations == {i \in DOMAIN b.queue : /\ Fits(b, b.queue[i].res)
                                               /\ LeasesOf(b, b.queue[i].attempt) # {}}
  IN  IF continuations = {} THEN 1 ELSE Smallest(continuations)

\* Faulty variant: the loop does not look at the capacities.
DrainStep_NoFitCheck(b) ==
  LET i == NextDrainableIndex(b)
      p == b.queue[i]
  IN  IF b.queue = <<>> THEN b
      ELSE IF p.id \in b.late THEN Reject(b, i)
      ELSE Grant(Settle(b, i), p.id, p.attempt, p.res)

\* One iteration of the loop in #drain; the identity when the loop would return.
DrainStep(b) ==
  LET i == NextDrainableIndex(b)
      p == b.queue[i]
  IN  IF b.queue = <<>> THEN b
      ELSE IF p.id \in b.late \/ b.attempts[p.attempt] = Absent THEN Reject(b, i)
      ELSE IF ~Fits(b, p.res) THEN b
      ELSE Grant(Settle(b, i), p.id, p.attempt, p.res)

DrainLoop == INSTANCE Loop WITH Body <- DrainStep

\* Every iteration that changes anything removes a request, so Len(queue) suffice.
Drain(b) == DrainLoop!Run(b)[Len(b.queue)]

\* Faulty variant: a cancelled request does not let the next one in.
Cancel_NoDrain(b, i) == Reject(b, i)

Cancel(b, i) == Drain(Reject(b, i))

\* Faulty variant: the attempt keeps its old reservation.
RecomputeReservation_Stale(b, a) ==
  LET next == [r \in Resources |-> UnitsOf(LeasesOf(b, a), r)]
  IN  [b EXCEPT !.used = [r \in Resources |->
                             @[r] + (next[r] - b.attempts[a].reservation[r])]]

RecomputeReservation(b, a) ==
  LET next == [r \in Resources |-> UnitsOf(LeasesOf(b, a), r)]
  IN  [b EXCEPT !.used = [r \in Resources |->
                             @[r] + (next[r] - b.attempts[a].reservation[r])],
                !.attempts[a].reservation = next]

-----------------------------------------------------------------------------
(* #reclaimWorker: first every waiting request of the worker is cancelled,   *)
(* each cancellation draining the queue, then every lease it holds is freed. *)

CancelNextOf(s) ==
  LET mine == {i \in DOMAIN s.broker.queue : s.broker.queue[i].owner = s.owner}
  IN  IF mine = {} THEN s ELSE [s EXCEPT !.broker = Cancel(@, Smallest(mine))]

ReclaimAttempt(b, a) ==
  DeleteAttemptIfEmpty(
    RecomputeReservation([b EXCEPT !.leases = @ \ LeasesOf(b, a)], a), a)

\* Faulty variant: compares the epochs and not the workers.
ReclaimNextOf_AnyWorker(s) ==
  LET mine == {a \in Attempts : /\ s.broker.attempts[a] # Absent
                                /\ s.broker.attempts[a].owner.epoch = s.owner.epoch}
  IN  IF mine = {} THEN s
      ELSE [s EXCEPT !.broker = ReclaimAttempt(@, CHOOSE a \in mine : TRUE)]

ReclaimNextOf(s) ==
  LET mine == {a \in Attempts : s.broker.attempts[a].owner = s.owner}
  IN  IF mine = {} THEN s
      ELSE [s EXCEPT !.broker = ReclaimAttempt(@, CHOOSE a \in mine : TRUE)]

CancelLoop == INSTANCE Loop WITH Body <- CancelNextOf
ReclaimLoop == INSTANCE Loop WITH Body <- ReclaimNextOf

\* Faulty variant: frees the leases first and cancels the waiting requests afterwards.
ReclaimWorker_LeasesFirst(b, who) ==
  LET freed == ReclaimLoop!Run([broker |-> b, owner |-> who])[Cardinality(Attempts)]
  IN  CancelLoop!Run(freed)[Len(b.queue)].broker

ReclaimWorker(b, who) ==
  LET cancelled == CancelLoop!Run([broker |-> b, owner |-> who])[Len(b.queue)]
  IN  ReclaimLoop!Run(cancelled)[Cardinality(Attempts)].broker

-----------------------------------------------------------------------------
(* The public methods. *)

Init ==
  broker = [workers      |-> [w \in Workers |-> NoEpoch],
            highestEpoch |-> [w \in Workers |-> NoEpoch],
            attempts     |-> [a \in Attempts |-> Absent],
            leases       |-> {},
            queue        |-> <<>>,
            used         |-> Zero,
            late         |-> {},
            promise      |-> [q \in Requests |-> "unused"]]

Connected(b, w, e) ==
  [b EXCEPT !.workers[w] = e, !.highestEpoch[w] = e]

\* A worker's first registration, or one after a disconnect.
RegisterWorker(w, e) ==
  /\ e > broker.highestEpoch[w]
  /\ broker.workers[w] = NoEpoch
  /\ broker' = Connected(broker, w, e)

\* A newer epoch of a connected worker takes its place.
SupersedeWorker(w, e) ==
  /\ e > broker.highestEpoch[w]
  /\ broker.workers[w] # NoEpoch
  /\ LET old == [worker |-> w, epoch |-> broker.workers[w]]
     IN  broker' = Drain(Connected(ReclaimWorker(broker, old), w, e))

\* Ignored unless it names the current epoch.
DisconnectWorker(who) ==
  /\ CurrentEpoch(broker, who)
  /\ broker' = Drain([ReclaimWorker(broker, who) EXCEPT !.workers[who.worker] = NoEpoch])

\* q names no request that waits and no lease that lives.
Fresh(q) ==
  /\ broker.promise[q] # "waiting"
  /\ \A l \in broker.leases : l.id # q

Admissible(who, a, v) ==
  /\ CurrentEpoch(broker, who)
  /\ ValidVector(v)
  /\ broker.attempts[a] = Absent \/ broker.attempts[a].owner = who

\* The identity, the vector or the attempt's owner is refused, or the signal is
\* already aborted or the deadline already reached (expired).
AcquireRefused(who, a, q, v, expired) ==
  /\ Fresh(q)
  /\ expired \/ ~Admissible(who, a, v)
  /\ broker' = [broker EXCEPT !.promise[q] = "rejected"]

AcquireGranted(who, a, q, v) ==
  /\ Fresh(q)
  /\ Admissible(who, a, v)
  /\ broker.queue = <<>>
  /\ Fits(broker, v)
  /\ broker' = Grant(WithAttempt(broker, who, a), q, a, v)

\* Faulty variant: the entry #attempt() made for the refused request stays.
AcquireQueueFull_KeepsAttempt(who, a, q, v) ==
  /\ Fresh(q)
  /\ Admissible(who, a, v)
  /\ ~(broker.queue = <<>> /\ Fits(broker, v))
  /\ Len(broker.queue) >= MaxQueued
  /\ broker' = [WithAttempt(broker, who, a) EXCEPT !.promise[q] = "rejected"]

AcquireQueueFull(who, a, q, v) ==
  /\ Fresh(q)
  /\ Admissible(who, a, v)
  /\ ~(broker.queue = <<>> /\ Fits(broker, v))
  /\ Len(broker.queue) >= MaxQueued
  /\ broker' = [DeleteAttemptIfEmpty(WithAttempt(broker, who, a), a)
                  EXCEPT !.promise[q] = "rejected"]

Enqueue(b, who, a, q, v) ==
  [b EXCEPT !.attempts[a].queued = @ + 1,
            !.queue = Append(@, [id |-> q, attempt |-> a, owner |-> who, res |-> v]),
            !.promise[q] = "waiting"]

AcquireQueued(who, a, q, v) ==
  /\ Fresh(q)
  /\ Admissible(who, a, v)
  /\ ~(broker.queue = <<>> /\ Fits(broker, v))
  /\ Len(broker.queue) < MaxQueued
  /\ broker' = Drain(Enqueue(WithAttempt(broker, who, a), who, a, q, v))

\* lease.attach(): every attachment names a resource the lease owns.
Attach(l, S) ==
  /\ CurrentEpoch(broker, l.owner)
  /\ \A r \in S : l.res[r] # 0
  /\ broker' = [broker EXCEPT !.leases = (@ \ {l}) \cup {[l EXCEPT !.attached = S]}]

\* lease.release() by the epoch that holds the lease.
Release(l) ==
  /\ CurrentEpoch(broker, l.owner)
  /\ LET removed == [broker EXCEPT !.leases = @ \ {l}]
     IN  broker' = Drain(DeleteAttemptIfEmpty(
                           RecomputeReservation(removed, l.attempt), l.attempt))

\* The abort signal of a waiting request.
Abort(i) == broker' = Cancel(broker, i)

\* #now() reaches the deadline of a waiting request; its timer fires later.
DeadlineReached(q) ==
  /\ q \in Waiting(broker) \ broker.late
  /\ broker' = [broker EXCEPT !.late = @ \cup {q}]

\* Faulty variant: the deadline of a request that extends a lease is ignored.
TimerFires_NotForHolders(i) ==
  /\ broker.queue[i].id \in broker.late
  /\ LeasesOf(broker, broker.queue[i].attempt) = {}
  /\ broker' = Cancel(broker, i)

TimerFires(i) ==
  /\ broker.queue[i].id \in broker.late
  /\ broker' = Cancel(broker, i)

Acquire(who, a, q, v) ==
  \/ \E expired \in BOOLEAN : AcquireRefused(who, a, q, v, expired)
  \/ AcquireGranted(who, a, q, v)
  \/ AcquireQueueFull(who, a, q, v)
  \/ AcquireQueued(who, a, q, v)

Callers == [worker : Workers, epoch : Epochs]

Next ==
  \/ \E w \in Workers, e \in Epochs : RegisterWorker(w, e) \/ SupersedeWorker(w, e)
  \/ \E who \in Callers : DisconnectWorker(who)
  \/ \E who \in Callers, a \in Attempts, q \in Requests, v \in Vectors : Acquire(who, a, q, v)
  \/ \E l \in broker.leases : Release(l) \/ \E S \in SUBSET Resources : Attach(l, S)
  \/ \E i \in DOMAIN broker.queue : Abort(i) \/ TimerFires(i)
  \/ \E q \in Requests : DeadlineReached(q)

Spec == Init /\ [][Next]_broker

-----------------------------------------------------------------------------
(* Properties. *)

\* The private state of the class has its declared shape.
TypeOK == broker \in BrokerState

\* AttemptState.reservation is "the exact sum of live leases; never a per-attempt
\* maximum", and #used is the sum over all leases, although #grant and
\* #recomputeReservation only ever adjust both by differences.
ExactAccounting ==
  /\ \A r \in Resources : broker.used[r] = UnitsOf(broker.leases, r)
  /\ \A a \in Attempts, r \in Resources :
       broker.attempts[a].reservation[r] = UnitsOf(LeasesOf(broker, a), r)

\* The live leases together never hold more units than the host owns, whatever
\* #drain grants while workers come, go and are superseded.
NeverOvercommitted ==
  \A r \in Resources : UnitsOf(broker.leases, r) <= Capacity[r]

\* Nothing outlives its worker: once registerWorker or disconnectWorker returns,
\* no lease, no waiting request and no attempt belongs to an older epoch, not even
\* one that #cancel granted by draining in the middle of #reclaimWorker.
OwnersAreCurrent ==
  /\ \A l \in broker.leases : CurrentEpoch(broker, l.owner)
  /\ \A p \in Entries(broker) : CurrentEpoch(broker, p.owner)
  /\ \A a \in Attempts :
       broker.attempts[a] # Absent => CurrentEpoch(broker, broker.attempts[a].owner)

\* The attempt map holds exactly the attempts with a lease or a waiting request,
\* its queued counters are right and so are the promises: no early return of
\* acquire, #cancel or #release leaks or loses an entry.
Bookkeeping ==
  /\ \A a \in Attempts :
       /\ broker.attempts[a].queued = Cardinality(EntriesOf(broker, a))
       /\ broker.attempts[a] = Absent
            <=> EntriesOf(broker, a) = {} /\ LeasesOf(broker, a) = {}
  /\ \A i, j \in DOMAIN broker.queue : broker.queue[i].id = broker.queue[j].id => i = j
  /\ \A q \in Requests : broker.promise[q] = "waiting" <=> q \in Waiting(broker)
  /\ \A l \in broker.leases : broker.promise[l.id] = "granted"
  /\ broker.late \subseteq Waiting(broker)

\* No capacity lies idle: between two calls the head of the queue does not fit, and
\* neither does any request that extends an attempt holding a lease.
WorkConserving ==
  broker.queue # <<>> =>
    /\ ~Fits(broker, Head(broker.queue).res)
    /\ \A p \in Entries(broker) : LeasesOf(broker, p.attempt) # {} => ~Fits(broker, p.res)

\* An attempt without a lease is admitted in the order of the queue: when it gets
\* its first lease from the queue, no older request is left waiting ("New attempts
\* use FIFO head-of-line order").
AdmittedInOrder ==
  \A l \in broker'.leases :
    LET own == {i \in DOMAIN broker.queue : broker.queue[i].id = l.id}
        ahead == {broker.queue[j] : j \in {j \in DOMAIN broker.queue : \A i \in own : j < i}}
    IN  (/\ LeasesOf(broker, l.attempt) = {}
         /\ \A p \in ahead : p.attempt # l.attempt)
        => \A p \in ahead : p.id \notin Waiting(broker')

NewAttemptsAreFIFO == [][AdmittedInOrder]_broker

\* A lease disappears only by its own release or with its worker's epoch; nobody
\* else's call frees it.
LeaseLost(l) == ~\E k \in broker'.leases : k.id = l.id
LeasesAreKept ==
  [][\A l \in broker.leases :
       LeaseLost(l) => Release(l) \/ broker'.workers[l.owner.worker] # l.owner.epoch]_broker
-----------------------------------------------------------------------------
(* Progress. *)

TimerOf(q) == \E i \in DOMAIN broker.queue : broker.queue[i].id = q /\ TimerFires(i)

\* acquire refuses a deadline that is not finite, the clock it reads is monotonic
\* and the runtime fires a timer that is due: both steps are fair.
TimedSpec ==
  /\ Spec
  /\ \A q \in Requests : WF_broker(DeadlineReached(q)) /\ WF_broker(TimerOf(q))

\* Every acquire that waits is settled, also when all holders wait for each other:
\* its deadline gets it out of the queue.
EveryRequestSettles ==
  \A q \in Requests : broker.promise[q] = "waiting" ~> broker.promise[q] # "waiting"

ReleaseOf(q) == \E l \in broker.leases : l.id = q /\ Release(l)

\* Workers that stay, wait without giving up and release every lease in the end,
\* whose attempts do not ask for more while they hold or wait for something.
PatientNext ==
  \/ \E w \in Workers, e \in Epochs : RegisterWorker(w, e)
  \/ \E who \in Callers, a \in Attempts, q \in Requests, v \in Vectors :
       /\ broker.attempts[a] = Absent
       /\ AcquireGranted(who, a, q, v) \/ AcquireQueued(who, a, q, v)
  \/ \E q \in Requests : ReleaseOf(q)

PatientSpec ==
  /\ Init /\ [][PatientNext]_broker
  /\ \A q \in Requests : WF_broker(ReleaseOf(q))

\* The head of the queue is granted however many requests keep arriving, when its
\* attempt holds nothing itself: "Smaller requests cannot bypass the head and starve
\* an older multi-resource request".
HeadOfNewAttempt(q) ==
  /\ broker.queue # <<>>
  /\ Head(broker.queue).id = q
  /\ LeasesOf(broker, Head(broker.queue).attempt) = {}

NoStarvation ==
  \A q \in Requests : HeadOfNewAttempt(q) ~> broker.promise[q] = "granted"

\* Continuation priority "prevents a hold-and-wait deadlock": when no attempt asks
\* for more than the host could give it alone, the attempts that hold leases are
\* not all waiting.
NoHoldAndWait ==
  (/\ broker.queue # <<>>
   /\ \A i \in DOMAIN broker.queue, r \in Resources :
        LET p == broker.queue[i]
        IN  broker.attempts[p.attempt].reservation[r] + p.res[r] <= Capacity[r])
  => \E l \in broker.leases :
       \A i \in DOMAIN broker.queue : broker.queue[i].attempt # l.attempt
=============================================================================
