------------------------- MODULE ResourceBrokerLoops ------------------------
(***************************************************************************)
(* What the loops of ResourceBroker establish: #drain, #cancel and the two *)
(* loops of #reclaimWorker end, keep the broker's books right, and leave   *)
(* what the methods rely on.                                               *)
(***************************************************************************)
EXTENDS ResourceBrokerUpdates

-----------------------------------------------------------------------------
(* #drain *)

DL == INSTANCE LoopProofs WITH Body <- DrainStep

\* The loop of the specification is the loop that LoopProofs reasons about.
LEMMA DrainLoopIsDL == \A b : DrainLoop!Run(b) = DL!Run(b)
  BY DEF DrainLoop!Run, DL!Run, DrainLoop!Apply, DL!Apply

\* A set of positions that is not empty has a first one.
LEMMA SmallestExists ==
  ASSUME NEW I, I \subseteq Nat, I # {}
  PROVE  Smallest(I) \in I /\ \A j \in I : Smallest(I) <= j
<1>1. PICK m \in I : \A n \in I : ~(<<n, m>> \in OpToRel(<, Nat))
  BY WFMin, NatLessThanWellFounded
<1>2. ASSUME NEW n \in I PROVE m <= n
  <2>1. n \in Nat /\ m \in Nat
    OBVIOUS
  <2>2. n < m => <<n, m>> \in OpToRel(<, Nat)
    BY <2>1 DEF OpToRel
  <2>3. ~(n < m)
    BY <1>1, <2>2, Zenon
  <2> QED BY <2>1, <2>3
<1> QED BY <1>2 DEF Smallest

\* Induction over the natural numbers, for a property given as a set.
LEMMA SetInduction ==
  ASSUME NEW S, 0 \in S, \A n \in Nat : n \in S => n + 1 \in S
  PROVE  \A n \in Nat : n \in S
<1>1. SUFFICES ASSUME NEW k \in Nat, k \notin S PROVE FALSE
  OBVIOUS
<1> DEFINE T == {n \in Nat : n \notin S}
           m == Smallest(T)
<1>2. m \in T /\ \A j \in T : m <= j
  BY <1>1, SmallestExists
<1> HIDE DEF m
<1>3. m # 0 /\ m - 1 \in Nat /\ m - 1 < m
  BY <1>2
<1>4. m - 1 \in S
  BY <1>2, <1>3
<1> QED BY <1>2, <1>3, <1>4

\* The hypothesis of the theorems about #drain's loop.
LEMMA DrainInduction == DL!Induction
  BY SetInduction DEF DL!Induction

Continuations(b) ==
  {i \in DOMAIN b.queue : Fits(b, b.queue[i].res) /\ LeasesOf(b, b.queue[i].attempt) # {}}

\* #nextDrainableIndex names an entry of the queue, and a continuation if there is one.
LEMMA NextIndex ==
  ASSUME NEW b, Typed(b), b.queue # <<>>
  PROVE  /\ NextDrainableIndex(b) \in DOMAIN b.queue
         /\ Continuations(b) # {} => NextDrainableIndex(b) \in Continuations(b)
         /\ Continuations(b) = {} => NextDrainableIndex(b) = 1
<1>1. b.queue \in Seq(Pending) /\ DOMAIN b.queue = 1..Len(b.queue) /\ Len(b.queue) \in Nat
  BY Fields
<1>2. 1 \in DOMAIN b.queue
  BY <1>1
<1>3. NextDrainableIndex(b) = IF Continuations(b) = {} THEN 1 ELSE Smallest(Continuations(b))
  BY DEF NextDrainableIndex, Continuations
<1>4. Continuations(b) \subseteq DOMAIN b.queue /\ Continuations(b) \subseteq Nat
  BY <1>1 DEF Continuations
<1>5. Continuations(b) # {} => Smallest(Continuations(b)) \in Continuations(b)
  BY <1>4, SmallestExists
<1> QED BY <1>2, <1>3, <1>4, <1>5

\* An iteration of the loop keeps the state consistent, and unless it changes
\* nothing it shortens the queue.
LEMMA DrainStepGood ==
  ASSUME NEW b, Good(b)
  PROVE  /\ Good(DrainStep(b))
         /\ DrainStep(b) = b \/ Advance(b, DrainStep(b))
<1> DEFINE i == NextDrainableIndex(b)
           p == b.queue[i]
<1>1. CASE b.queue = <<>>
  BY <1>1 DEF DrainStep
<1>2. CASE b.queue # <<>> /\ (p.id \in b.late \/ b.attempts[p.attempt] = Absent)
  <2>1. i \in DOMAIN b.queue
    BY <1>2, NextIndex DEF Good, Sound
  <2>2. DrainStep(b) = Reject(b, i)
    BY <1>2 DEF DrainStep
  <2> QED BY <2>1, <2>2, RejectGood
<1>3. CASE /\ b.queue # <<>> /\ ~(p.id \in b.late \/ b.attempts[p.attempt] = Absent)
           /\ ~Fits(b, p.res)
  BY <1>3 DEF DrainStep
<1>4. CASE /\ b.queue # <<>> /\ ~(p.id \in b.late \/ b.attempts[p.attempt] = Absent)
           /\ Fits(b, p.res)
  <2> DEFINE s == Settle(b, i)
             c == Grant(s, p.id, p.attempt, p.res)
  <2>1. DrainStep(b) = c
    BY <1>4 DEF DrainStep
  <2>2. i \in DOMAIN b.queue
    BY <1>4, NextIndex DEF Good, Sound
  <2>3. Sound(b) /\ Typed(b) /\ Tidy(b, Attempts, Requests)
    BY DEF Good, Sound
  <2>4. Settled(b, p, s)
    BY <2>2, <2>3, SettleFields
  <2>f. Fits(b, p.res)
    BY <1>4
  <2> HIDE DEF i, p, s
  <2>5. /\ Sound(s) /\ Tidy(s, Attempts \ {p.attempt}, Requests \ {p.id})
        /\ s.attempts[p.attempt].owner = p.owner
    BY <2>3, <2>4, SettleSound
  <2>6. /\ p \in Entries(b) /\ p.attempt \in Attempts /\ p.id \in Requests
        /\ p.owner \in Identity /\ p.res \in Vector
    BY <2>3, <2>4, Members DEF Settled
  <2>7. p.id \notin Waiting(s) /\ s.leases = b.leases /\ s.used = b.used
        /\ Entries(s) = Entries(b) \ {p} /\ SameWorkers(b, s)
        /\ Len(s.queue) = Len(b.queue) - 1
    BY <2>4 DEF Settled
  <2>8. \A l \in s.leases : l.id # p.id
    <3>1. b.promise[p.id] = "waiting" /\ \A l \in b.leases : b.promise[l.id] = "granted"
      BY <2>3, <2>6 DEF Sound, Identified
    <3> QED BY <2>7, <3>1
  <2>9. (\A r \in Resources : p.res[r] <= Capacity[r]) /\ Fits(s, p.res)
    BY <2>3, <2>f, <2>6, <2>7 DEF Sound, Bounded, Fits
  <2>10. /\ Sound(c) /\ Tidy(c, Attempts, Requests) /\ SameQueue(s, c)
         /\ \A O : OwnersIn(s, O) /\ s.attempts[p.attempt].owner \in O => OwnersIn(c, O)
    BY <2>5, <2>6, <2>7, <2>8, <2>9, GrantSound
  <2> HIDE DEF c
  <2>11. Len(c.queue) < Len(b.queue)
    <3>1. Len(b.queue) \in Nat
      BY <2>3, Fields
    <3> QED BY <2>7, <2>10, <3>1 DEF SameQueue
  <2>12. \A O : OwnersIn(b, O) => OwnersIn(c, O)
    <3>1. \A O : OwnersIn(b, O) => OwnersIn(s, O) /\ p.owner \in O
      BY <2>6, <2>7 DEF OwnersIn
    <3> QED BY <2>5, <2>10, <3>1
  <2>13. Good(c)
    BY <2>10 DEF Good
  <2>14. SameWorkers(b, c) /\ Entries(c) \subseteq Entries(b)
    BY <2>7, <2>10 DEF SameWorkers, SameQueue
  <2> QED BY <2>1, <2>11, <2>12, <2>13, <2>14 DEF Advance
<1> QED BY <1>1, <1>2, <1>3, <1>4

\* c is b or a later state of the same method.
Later(b, c) ==
  /\ SameWorkers(b, c)
  /\ Len(c.queue) <= Len(b.queue)
  /\ Entries(c) \subseteq Entries(b)
  /\ \A O : OwnersIn(b, O) => OwnersIn(c, O)

\* The states of a method are ordered.
LEMMA LaterOrder ==
  ASSUME NEW b, Good(b)
  PROVE  /\ Later(b, b)
         /\ \A c, d : Good(c) /\ Good(d) /\ Later(b, c) /\ (c = d \/ Advance(c, d)) => Later(b, d)
         /\ \A c, d : Good(c) /\ Good(d) /\ Later(b, c) /\ Later(c, d) => Later(b, d)
<1>1. \A x : Good(x) => Len(x.queue) \in Nat
  BY Fields DEF Good, Sound
<1>2. Later(b, b)
  BY <1>1 DEF Later, SameWorkers
<1>3. ASSUME NEW c, NEW d, Good(c), Good(d), Later(b, c), Advance(c, d)
      PROVE  Later(b, d)
  <2>1. Len(d.queue) <= Len(b.queue)
    BY <1>1, <1>3 DEF Later, Advance
  <2> QED BY <1>3, <2>1 DEF Later, Advance, SameWorkers
<1>4. ASSUME NEW c, NEW d, Good(c), Good(d), Later(b, c), Later(c, d)
      PROVE  Later(b, d)
  <2>1. Len(d.queue) <= Len(b.queue)
    BY <1>1, <1>4 DEF Later
  <2> QED BY <1>4, <2>1 DEF Later, SameWorkers
<1> QED BY <1>2, <1>3, <1>4

\* #drain keeps the state consistent and stops where no iteration would change it.
LEMMA DrainGood ==
  ASSUME NEW b, Good(b)
  PROVE  Good(Drain(b)) /\ Later(b, Drain(b)) /\ DrainStep(Drain(b)) = Drain(b)
<1> DEFINE S == {c \in BrokerState : Good(c) /\ Later(b, c)}
           f == [c \in S |-> Len(c.queue)]
<1>1. b \in S
  BY LaterOrder DEF Good, Sound, Typed
<1>2. \A c \in S : /\ DrainStep(c) \in S
                   /\ DrainStep(c) = c \/ Advance(c, DrainStep(c))
  <2> SUFFICES ASSUME NEW c \in S
               PROVE  /\ DrainStep(c) \in S
                      /\ DrainStep(c) = c \/ Advance(c, DrainStep(c))
    OBVIOUS
  <2>1. Good(DrainStep(c)) /\ (DrainStep(c) = c \/ Advance(c, DrainStep(c)))
    BY DrainStepGood
  <2>2. Later(b, DrainStep(c))
    BY <2>1, LaterOrder
  <2>3. DrainStep(c) \in BrokerState
    BY <2>1 DEF Good, Sound, Typed
  <2> QED BY <2>1, <2>2, <2>3
<1>3. f \in [S -> Nat]
  BY Fields DEF Good, Sound
<1>4. \A c \in S : DrainStep(c) = c \/ f[DrainStep(c)] < f[c]
  BY <1>2 DEF Advance
<1>5. Len(b.queue) \in Nat /\ f[b] <= Len(b.queue)
  BY <1>1, <1>3
<1> HIDE DEF S, f
<1>6. DL!Run(b)[Len(b.queue)] \in S
  BY <1>1, <1>2, <1>5, DrainInduction, DL!RunStays
<1>7. DrainStep(DL!Run(b)[Len(b.queue)]) = DL!Run(b)[Len(b.queue)]
  BY <1>1, <1>2, <1>3, <1>4, <1>5, DrainInduction, DL!RunTerminates
<1>8. Drain(b) = DL!Run(b)[Len(b.queue)]
  BY DrainLoopIsDL DEF Drain
<1>9. Good(Drain(b)) /\ Later(b, Drain(b))
  BY <1>6, <1>8 DEF S
<1> QED BY <1>7, <1>8, <1>9

\* Where the loop stops, the head of the queue and every continuation must wait.
LEMMA DrainedConserves ==
  ASSUME NEW b, Good(b), DrainStep(b) = b, b.queue # <<>>
  PROVE  /\ ~Fits(b, Head(b.queue).res)
         /\ \A p \in Entries(b) : LeasesOf(b, p.attempt) # {} => ~Fits(b, p.res)
<1> DEFINE i == NextDrainableIndex(b)
           p == b.queue[i]
<1>t. Typed(b) /\ Sound(b) /\ Tidy(b, Attempts, Requests)
  BY DEF Good, Sound
<1>1. i \in DOMAIN b.queue
  BY <1>t, NextIndex
<1>2. ASSUME Fits(b, p.res) PROVE FALSE
  <2>1. ~Advance(b, b)
    <3>1. Len(b.queue) \in Nat
      BY <1>t, Fields
    <3> QED BY <3>1 DEF Advance
  <2>2. CASE p.id \in b.late \/ b.attempts[p.attempt] = Absent
    <3>1. DrainStep(b) = Reject(b, i)
      BY <2>2 DEF DrainStep
    <3> QED BY <1>1, <2>1, <3>1, RejectGood
  <2>3. CASE ~(p.id \in b.late \/ b.attempts[p.attempt] = Absent)
    <3>1. DrainStep(b) = Grant(Settle(b, i), p.id, p.attempt, p.res)
      BY <1>2, <2>3 DEF DrainStep
    <3>2. Settled(b, p, Settle(b, i))
      BY <1>t, <1>1, SettleFields
    <3>3. p.id \in Requests /\ b.promise \in [Requests -> {"unused", "waiting", "granted", "rejected"}]
          /\ b.promise[p.id] = "waiting"
      BY <1>t, <3>2, Members, Fields DEF Settled, Sound, Identified
    <3> DEFINE s == Settle(b, i)
    <3>4. s.promise = b.promise /\ Shape(s)
      BY <3>2 DEF Settled
    <3> HIDE DEF p, s
    <3>5. Grant(s, p.id, p.attempt, p.res).promise[p.id] = "granted"
      BY <3>3, <3>4 DEF Grant, Shape
    <3> QED BY <3>1, <3>3, <3>5 DEF s
  <2> QED BY <2>2, <2>3
<1>3. Continuations(b) = {}
  BY <1>t, <1>2, NextIndex DEF Continuations
<1>4. i = 1
  BY <1>t, <1>3, NextIndex
<1>5. Head(b.queue) = p
  <2>1. b.queue \in Seq(Pending)
    BY <1>t, Fields
  <2> QED BY <1>4, <2>1
<1>6. \A x \in Entries(b) : LeasesOf(b, x.attempt) # {} => ~Fits(b, x.res)
  BY <1>3 DEF Continuations, Entries
<1> QED BY <1>2, <1>5, <1>6

\* #cancel keeps the state consistent and shortens the queue.
LEMMA CancelGood ==
  ASSUME NEW b, Good(b), NEW i \in DOMAIN b.queue
  PROVE  /\ Good(Cancel(b, i)) /\ Advance(b, Cancel(b, i))
         /\ DrainStep(Cancel(b, i)) = Cancel(b, i)
<1> DEFINE c == Reject(b, i)
           d == Drain(c)
<1>1. Good(c) /\ Advance(b, c)
  BY RejectGood
<1>2. Good(d) /\ Later(c, d) /\ DrainStep(d) = d
  BY <1>1, DrainGood
<1>3. Cancel(b, i) = d
  BY DEF Cancel
<1>4. Len(b.queue) \in Nat /\ Len(c.queue) \in Nat /\ Len(d.queue) \in Nat
  BY <1>1, <1>2, Fields DEF Good, Sound
<1> HIDE DEF c, d
<1>5. Len(d.queue) < Len(b.queue)
  BY <1>1, <1>2, <1>4 DEF Advance, Later
<1>6. Advance(b, d)
  BY <1>1, <1>2, <1>5 DEF Advance, Later, SameWorkers
<1> QED BY <1>2, <1>3, <1>6

-----------------------------------------------------------------------------
(* #reclaimWorker *)

CL == INSTANCE LoopProofs WITH Body <- CancelNextOf
RL == INSTANCE LoopProofs WITH Body <- ReclaimNextOf

\* The loops of #reclaimWorker are loops that LoopProofs reasons about.
LEMMA ReclaimLoops ==
  \A s : CancelLoop!Run(s) = CL!Run(s) /\ ReclaimLoop!Run(s) = RL!Run(s)
  BY DEF CancelLoop!Run, CL!Run, CancelLoop!Apply, CL!Apply,
         ReclaimLoop!Run, RL!Run, ReclaimLoop!Apply, RL!Apply

\* The hypothesis of the theorems about both loops.
LEMMA ReclaimInduction == CL!Induction /\ RL!Induction
  BY SetInduction DEF CL!Induction, RL!Induction

\* After the first loop of #reclaimWorker nothing of the worker waits, although
\* each cancellation drains the queue.
LEMMA CancelAllGood ==
  ASSUME NEW b, Good(b), NEW who
  PROVE  LET s == CancelLoop!Run([broker |-> b, owner |-> who])[Len(b.queue)]
         IN  /\ s.owner = who
             /\ s = [broker |-> s.broker, owner |-> s.owner]
             /\ Good(s.broker) /\ Later(b, s.broker)
             /\ \A p \in Entries(s.broker) : p.owner # who
<1> DEFINE S == {s \in [broker : BrokerState, owner : {who}] : Good(s.broker) /\ Later(b, s.broker)}
           f == [s \in S |-> Len(s.broker.queue)]
           x == [broker |-> b, owner |-> who]
           mine(s) == {i \in DOMAIN s.broker.queue : s.broker.queue[i].owner = s.owner}
<1>1. x \in S
  BY LaterOrder DEF Good, Sound, Typed
<1>2. ASSUME NEW s \in S
      PROVE  /\ CancelNextOf(s) \in S
             /\ mine(s) = {} => CancelNextOf(s) = s
             /\ mine(s) # {} => Advance(s.broker, CancelNextOf(s).broker)
  <2>1. CASE mine(s) = {}
    BY <2>1 DEF CancelNextOf
  <2>2. CASE mine(s) # {}
    <3> DEFINE i == Smallest(mine(s))
               c == Cancel(s.broker, i)
    <3>1. CancelNextOf(s) = [s EXCEPT !.broker = c]
      BY <2>2 DEF CancelNextOf
    <3>2. Typed(s.broker)
      BY DEF Good, Sound
    <3>3. DOMAIN s.broker.queue \subseteq Nat
      BY <3>2, Fields
    <3>4. mine(s) \subseteq Nat
      BY <3>3
    <3>5. i \in mine(s)
      <4> HIDE DEF mine
      <4> QED BY <2>2, <3>4, SmallestExists
    <3>6. i \in DOMAIN s.broker.queue
      BY <3>5
    <3> HIDE DEF i
    <3>7. Good(c) /\ Advance(s.broker, c)
      BY <3>6, CancelGood
    <3>8. c \in BrokerState
      BY <3>7 DEF Good, Sound, Typed
    <3>9. Later(b, c)
      BY <3>7, LaterOrder
    <3> HIDE DEF c
    <3>10. CancelNextOf(s) \in [broker : BrokerState, owner : {who}] /\ CancelNextOf(s).broker = c
      BY <3>1, <3>8
    <3> QED BY <2>2, <3>7, <3>9, <3>10
  <2> QED BY <2>1, <2>2
<1>3. f \in [S -> Nat]
  BY Fields DEF Good, Sound
<1>4. \A s \in S : CancelNextOf(s) = s \/ f[CancelNextOf(s)] < f[s]
  BY <1>2 DEF Advance
<1>5. Len(b.queue) \in Nat /\ f[x] <= Len(b.queue)
  <2>1. Len(b.queue) \in Nat
    BY Fields DEF Good, Sound
  <2> QED BY <1>1, <2>1
<1> DEFINE t == CL!Run(x)[Len(b.queue)]
<1> HIDE DEF S, f
<1>6. t \in S
  BY <1>1, <1>2, <1>5, ReclaimInduction, CL!RunStays
<1>7. CancelNextOf(t) = t
  BY <1>1, <1>2, <1>3, <1>4, <1>5, ReclaimInduction, CL!RunTerminates
<1> HIDE DEF t, x
<1>8. mine(t) = {}
  <2>1. Len(t.broker.queue) \in Nat
    BY <1>6, Fields DEF S, Good, Sound
  <2>2. ~Advance(t.broker, t.broker)
    BY <2>1 DEF Advance
  <2> QED BY <1>2, <1>6, <1>7, <2>2
<1>9. t.owner = who /\ t = [broker |-> t.broker, owner |-> t.owner]
      /\ Good(t.broker) /\ Later(b, t.broker)
  BY <1>6 DEF S
<1>10. \A p \in Entries(t.broker) : p.owner # who
  BY <1>8, <1>9 DEF Entries
<1>11. CancelLoop!Run([broker |-> b, owner |-> who])[Len(b.queue)] = t
  BY ReclaimLoops DEF t, x
<1> QED BY <1>9, <1>10, <1>11

\* Freeing one attempt of a worker that has nothing in the queue forgets the attempt.
LEMMA ReclaimAttemptGood ==
  ASSUME NEW b, Good(b), NEW a \in Attempts, EntriesOf(b, a) = {}
  PROVE  /\ Good(ReclaimAttempt(b, a)) /\ SameQueue(b, ReclaimAttempt(b, a))
         /\ ReclaimAttempt(b, a).leases \subseteq b.leases
         /\ ReclaimAttempt(b, a).attempts[a] = Absent
         /\ \A d \in Attempts : \/ ReclaimAttempt(b, a).attempts[d].owner = b.attempts[d].owner
                                \/ ReclaimAttempt(b, a).attempts[d] = Absent
<1> DEFINE R == LeasesOf(b, a)
           s == FreeLeases(b, a, R)
           c == DeleteAttemptIfEmpty(s, a)
<1>1. ReclaimAttempt(b, a) = c
  BY DEF ReclaimAttempt, FreeLeases
<1>2. Sound(b) /\ Typed(b) /\ Tidy(b, Attempts, Requests)
  BY DEF Good, Sound
<1>3. Sound(s) /\ Freed(b, R, s) /\ Tidy(s, Attempts \ {a}, Requests)
  BY <1>2, FreeSound
<1> HIDE DEF s
<1>4. Typed(s) /\ Sound(c) /\ Tidy(c, Attempts, Requests) /\ SameButAttempts(s, c)
  BY <1>3, DeleteSound, DeleteFields DEF Sound
<1> HIDE DEF c
<1>5. Good(c)
  BY <1>4 DEF Good
<1>6. SameQueue(b, c) /\ c.leases = b.leases \ R
  BY <1>3, <1>4 DEF Freed, SameButAttempts, SameQueue, SameWorkers
<1>7. EntriesOf(c, a) = {} /\ LeasesOf(c, a) = {}
  BY <1>6 DEF SameQueue, EntriesOf, LeasesOf
<1>8. c.attempts[a] = Absent
  BY <1>4, <1>7 DEF Tidy
<1>9. \A d \in Attempts \ {a} : EntriesOf(c, d) = EntriesOf(b, d) /\ LeasesOf(c, d) = LeasesOf(b, d)
  BY <1>6 DEF SameQueue, EntriesOf, LeasesOf
<1>10. ASSUME NEW d \in Attempts, d # a, c.attempts[d] # Absent
       PROVE  c.attempts[d].owner = b.attempts[d].owner
  <2>1. EntriesOf(c, d) # {} \/ LeasesOf(c, d) # {}
    BY <1>4, <1>10 DEF Tidy
  <2>2. \A l \in b.leases : b.attempts[l.attempt].owner = l.owner
    BY <1>2 DEF Sound, Owned
  <2>3. \A l \in c.leases : c.attempts[l.attempt].owner = l.owner
    BY <1>4 DEF Sound, Owned
  <2>4. \A p \in Entries(b) : b.attempts[p.attempt].owner = p.owner
    BY <1>2 DEF Sound, Owned
  <2>5. \A p \in Entries(c) : c.attempts[p.attempt].owner = p.owner
    BY <1>4 DEF Sound, Owned
  <2>6. CASE EntriesOf(c, d) # {}
    BY <1>6, <2>4, <2>5, <2>6 DEF EntriesOf, SameQueue
  <2>7. CASE LeasesOf(c, d) # {}
    BY <1>6, <2>2, <2>3, <2>7 DEF LeasesOf
  <2> QED BY <2>1, <2>6, <2>7
<1> QED BY <1>1, <1>5, <1>6, <1>8, <1>10

\* #reclaimWorker leaves nothing of the worker behind, not even what its own
\* cancellations granted.
LEMMA ReclaimWorkerGood ==
  ASSUME NEW b, Good(b), NEW who \in Identity
  PROVE  /\ Good(ReclaimWorker(b, who)) /\ SameWorkers(b, ReclaimWorker(b, who))
         /\ \A O : OwnersIn(b, O) => OwnersIn(ReclaimWorker(b, who), O \ {who})
<1> DEFINE x == CancelLoop!Run([broker |-> b, owner |-> who])[Len(b.queue)]
           e == x.broker
           S == {s \in [broker : BrokerState, owner : {who}] :
                   Good(s.broker) /\ SameQueue(e, s.broker) /\ s.broker.leases \subseteq e.leases}
           mine(s) == {a \in Attempts : s.broker.attempts[a].owner = who}
           f == [s \in S |-> Cardinality(mine(s))]
           n == Cardinality(Attempts)
<1>1. /\ x.owner = who /\ x = [broker |-> e, owner |-> x.owner]
      /\ Good(e) /\ Later(b, e) /\ \A p \in Entries(e) : p.owner # who
  BY CancelAllGood
<1> HIDE DEF x
<1>2. x \in S
  BY <1>1 DEF Good, Sound, Typed, SameQueue, SameWorkers
<1>3. ASSUME NEW s \in S
      PROVE  /\ ReclaimNextOf(s) \in S
             /\ mine(s) = {} => ReclaimNextOf(s) = s
             /\ mine(s) # {} => /\ mine(ReclaimNextOf(s)) \subseteq mine(s)
                                /\ mine(ReclaimNextOf(s)) # mine(s)
  <2>o. s.owner = who /\ Good(s.broker) /\ SameQueue(e, s.broker) /\ s.broker.leases \subseteq e.leases
    OBVIOUS
  <2>1. CASE mine(s) = {}
    BY <2>o, <2>1 DEF ReclaimNextOf
  <2>2. CASE mine(s) # {}
    <3> DEFINE a == CHOOSE d \in mine(s) : TRUE
               c == ReclaimAttempt(s.broker, a)
    <3>1. ReclaimNextOf(s) = [s EXCEPT !.broker = c]
      BY <2>o, <2>2 DEF ReclaimNextOf
    <3>2. a \in mine(s)
      BY <2>2
    <3>3. a \in Attempts /\ s.broker.attempts[a].owner = who
      BY <3>2
    <3> HIDE DEF a
    <3>4. EntriesOf(s.broker, a) = {}
      <4>1. \A p \in Entries(s.broker) : s.broker.attempts[p.attempt].owner = p.owner
        BY <2>o DEF Good, Sound, Owned
      <4>2. Entries(s.broker) = Entries(e)
        BY <2>o DEF SameQueue
      <4> QED BY <1>1, <3>3, <4>1, <4>2 DEF EntriesOf
    <3>5. /\ Good(c) /\ SameQueue(s.broker, c) /\ c.leases \subseteq s.broker.leases
          /\ c.attempts[a] = Absent
          /\ \A d \in Attempts : c.attempts[d].owner = s.broker.attempts[d].owner \/ c.attempts[d] = Absent
      BY <2>o, <3>3, <3>4, ReclaimAttemptGood
    <3> HIDE DEF c
    <3>6. c \in BrokerState
      BY <3>5 DEF Good, Sound, Typed
    <3>7. ReclaimNextOf(s) \in [broker : BrokerState, owner : {who}] /\ ReclaimNextOf(s).broker = c
      BY <3>1, <3>6
    <3>8. ReclaimNextOf(s) \in S
      BY <2>o, <3>5, <3>7 DEF SameQueue, SameWorkers
    <3>9. Absent.owner # who
      BY NoOwnerAssumption DEF Absent
    <3>10. mine(ReclaimNextOf(s)) \subseteq mine(s) /\ a \notin mine(ReclaimNextOf(s))
      BY <3>5, <3>7, <3>9
    <3> QED BY <2>2, <3>2, <3>8, <3>10
  <2> QED BY <2>1, <2>2
<1>4. \A s \in S : IsFiniteSet(mine(s)) /\ Cardinality(mine(s)) \in Nat /\ Cardinality(mine(s)) <= n
  <2>1. \A s \in S : mine(s) \in SUBSET Attempts
    OBVIOUS
  <2> HIDE DEF mine
  <2> QED BY <2>1, AttemptsAssumption, FS_Subset, FS_CardinalityType
<1>5. f \in [S -> Nat] /\ n \in Nat /\ f[x] <= n
  BY <1>2, <1>4, AttemptsAssumption, FS_CardinalityType
<1>6. ASSUME NEW s \in S PROVE ReclaimNextOf(s) = s \/ f[ReclaimNextOf(s)] < f[s]
  <2>1. CASE mine(s) = {}
    BY <1>3, <2>1
  <2>2. CASE mine(s) # {}
    <3>1. /\ mine(ReclaimNextOf(s)) \in SUBSET mine(s) /\ mine(ReclaimNextOf(s)) # mine(s)
          /\ ReclaimNextOf(s) \in S
      BY <1>3, <2>2
    <3> HIDE DEF mine, S
    <3>2. /\ Cardinality(mine(ReclaimNextOf(s))) <= Cardinality(mine(s))
          /\ Cardinality(mine(ReclaimNextOf(s))) # Cardinality(mine(s))
      BY <1>4, <3>1, FS_Subset
    <3>3. Cardinality(mine(ReclaimNextOf(s))) \in Nat /\ Cardinality(mine(s)) \in Nat
      BY <1>4, <3>1
    <3> QED BY <3>1, <3>2, <3>3
  <2> QED BY <2>1, <2>2
<1> DEFINE t == RL!Run(x)[n]
<1> HIDE DEF S, f, n
<1>7. t \in S
  BY <1>2, <1>3, <1>5, ReclaimInduction, RL!RunStays
<1>9. ReclaimNextOf(t) = t
  BY <1>2, <1>3, <1>5, <1>6, ReclaimInduction, RL!RunTerminates
<1>10. ReclaimWorker(b, who) = t.broker
  BY ReclaimLoops DEF ReclaimWorker, x, n
<1> HIDE DEF t
<1>11. mine(t) = {}
  BY <1>3, <1>7, <1>9
<1>12. Good(t.broker) /\ SameQueue(e, t.broker) /\ t.broker.leases \subseteq e.leases
  BY <1>7 DEF S
<1>13. SameWorkers(b, t.broker)
  BY <1>1, <1>12 DEF SameQueue, SameWorkers, Later
<1>14. ASSUME NEW O, OwnersIn(b, O) PROVE OwnersIn(t.broker, O \ {who})
  <2>1. OwnersIn(e, O)
    BY <1>1, <1>14 DEF Later
  <2>2. \A p \in Entries(t.broker) : p.owner \in O \ {who}
    BY <1>1, <1>12, <2>1 DEF SameQueue, OwnersIn
  <2>3. \A l \in t.broker.leases : l.owner \in O
    BY <1>12, <2>1 DEF OwnersIn
  <2>4. \A l \in t.broker.leases : l.owner # who
    <3>1. \A l \in t.broker.leases : l.attempt \in Attempts /\ t.broker.attempts[l.attempt].owner = l.owner
      BY <1>12, Members DEF Good, Sound, Owned
    <3> QED BY <1>11, <3>1
  <2> QED BY <2>2, <2>3, <2>4 DEF OwnersIn
<1> QED BY <1>10, <1>12, <1>13, <1>14
=============================================================================
