----------------------- MODULE ResourceBrokerLemmas -----------------------
(***************************************************************************)
(* The inductive invariant of ResourceBroker, and that the helpers which   *)
(* take requests out of the queue preserve it: #settlePending,             *)
(* #deleteAttemptIfEmpty, and #cancel up to its #drain.                    *)
(***************************************************************************)
EXTENDS ResourceBroker, FiniteSetTheorems, TLAPS

-----------------------------------------------------------------------------
(* Units: the sum over leases is additive. *)

UnitSet(L, r) == {u \in L \X (1..Capacity[r]) : u[2] <= u[1].res[r]}

\* The units of finitely many leases are finitely many.
LEMMA UnitsFinite ==
  ASSUME NEW L, IsFiniteSet(L), NEW r \in Resources
  PROVE  /\ IsFiniteSet(UnitSet(L, r))
         /\ UnitsOf(L, r) = Cardinality(UnitSet(L, r))
         /\ UnitsOf(L, r) \in Nat
<1>1. Capacity[r] \in Nat
  BY CapacityAssumption
<1>2. IsFiniteSet(1..Capacity[r])
  BY <1>1, FS_Interval
<1>3. IsFiniteSet(L \X (1..Capacity[r]))
  BY <1>2, FS_Product, Zenon
<1>4. UnitSet(L, r) \in SUBSET (L \X (1..Capacity[r]))
  BY DEF UnitSet
<1>5. IsFiniteSet(UnitSet(L, r))
  BY <1>3, <1>4, FS_Subset
<1>6. UnitsOf(L, r) = Cardinality(UnitSet(L, r))
  BY DEF UnitsOf, UnitSet
<1> QED BY <1>5, <1>6, FS_CardinalityType

\* No lease, no units.
LEMMA UnitsEmpty ==
  ASSUME NEW r \in Resources
  PROVE  UnitsOf({}, r) = 0
<1>1. UnitSet({}, r) = {}
  BY DEF UnitSet
<1> QED BY <1>1, FS_EmptySet, UnitsFinite

\* One lease holds the units of its vector.
LEMMA UnitsOne ==
  ASSUME NEW x, NEW r \in Resources, x.res[r] \in Nat, x.res[r] <= Capacity[r]
  PROVE  UnitsOf({x}, r) = x.res[r]
<1> DEFINE k == x.res[r]
<1>1. Capacity[r] \in Nat
  BY CapacityAssumption
<1>2. UnitSet({x}, r) = {x} \X (1..k)
  BY <1>1 DEF UnitSet
<1>6. k \in Nat
  OBVIOUS
<1> HIDE DEF k
<1>3. IsFiniteSet(1..k) /\ Cardinality(1..k) = k
  BY <1>6, FS_Interval
<1>4. IsFiniteSet({x}) /\ Cardinality({x}) = 1
  BY FS_Singleton
<1>5. Cardinality({x} \X (1..k)) = 1 * k
  <2>1. Cardinality({x} \X (1..k)) = Cardinality({x}) * Cardinality(1..k)
    BY <1>3, <1>4, FS_Product
  <2> QED BY <1>3, <1>4, <2>1, Zenon
<1>7. Cardinality(UnitSet({x}, r)) = k
  BY <1>2, <1>5, <1>6
<1> QED BY <1>4, <1>7, UnitsFinite DEF k

\* Disjoint sets of leases hold the sum of their units.
LEMMA UnitsUnion ==
  ASSUME NEW L, NEW M, IsFiniteSet(L), IsFiniteSet(M), L \cap M = {}, NEW r \in Resources
  PROVE  UnitsOf(L \cup M, r) = UnitsOf(L, r) + UnitsOf(M, r)
<1>1. UnitSet(L \cup M, r) = UnitSet(L, r) \cup UnitSet(M, r)
  BY DEF UnitSet
<1>2. UnitSet(L, r) \cap UnitSet(M, r) = {}
  BY DEF UnitSet
<1>3. IsFiniteSet(L \cup M)
  BY FS_Union, Zenon
<1>4. IsFiniteSet(UnitSet(L, r)) /\ IsFiniteSet(UnitSet(M, r))
  BY UnitsFinite
<1>5. Cardinality(UnitSet(L, r) \cup UnitSet(M, r)) =
        Cardinality(UnitSet(L, r)) + Cardinality(UnitSet(M, r)) - Cardinality({})
  BY <1>2, <1>4, FS_Union
<1>6. Cardinality(UnitSet(L, r)) \in Nat /\ Cardinality(UnitSet(M, r)) \in Nat
  BY <1>4, FS_CardinalityType
<1>7. UnitsOf(L \cup M, r) = Cardinality(UnitSet(L, r)) + Cardinality(UnitSet(M, r)) - 0
  BY <1>1, <1>3, <1>5, FS_EmptySet, UnitsFinite, Zenon
<1>8. UnitsOf(L, r) = Cardinality(UnitSet(L, r)) /\ UnitsOf(M, r) = Cardinality(UnitSet(M, r))
  BY UnitsFinite
<1> QED BY <1>6, <1>7, <1>8

-----------------------------------------------------------------------------
(* The queue: taking one entry out. *)

\* Without removes one element and keeps the order of the others.
LEMMA WithoutProperties ==
  ASSUME NEW S, NEW s \in Seq(S), NEW i \in DOMAIN s
  PROVE  /\ Without(s, i) \in Seq(S)
         /\ Len(Without(s, i)) = Len(s) - 1
         /\ Len(s) - 1 \in Nat
         /\ \A j \in DOMAIN Without(s, i) :
              /\ j \in DOMAIN s /\ j + 1 \in DOMAIN s
              /\ Without(s, i)[j] = IF j < i THEN s[j] ELSE s[j + 1]
<1>1. Len(s) \in Nat /\ DOMAIN s = 1..Len(s) /\ i \in 1..Len(s)
  OBVIOUS
<1>2. Len(s) - 1 \in Nat
  BY <1>1
<1> DEFINE w == Without(s, i)
<1>3. w = [j \in 1..(Len(s) - 1) |-> IF j < i THEN s[j] ELSE s[j + 1]]
  BY DEF Without
<1>4. \A j \in 1..(Len(s) - 1) : s[j] \in S /\ s[j + 1] \in S
  BY <1>1
<1>5. w \in [1..(Len(s) - 1) -> S]
  BY <1>3, <1>4
<1>6. w \in Seq(S) /\ Len(w) = Len(s) - 1
  BY <1>2, <1>3, <1>5
<1> QED BY <1>1, <1>2, <1>3, <1>6

-----------------------------------------------------------------------------
(* The inductive invariant, on a value b of the private state.  Sound holds    *)
(* between any two statements of a method; Tidy(b, A, Q) adds that the         *)
(* attempts A leave no empty entry behind and that every request of Q that is  *)
(* not settled is queued, which an unfinished method breaks for its own.       *)

Typed(b) == b \in BrokerState /\ IsFiniteSet(b.leases)

Identified(b) ==
  /\ \A i, j \in DOMAIN b.queue : b.queue[i].id = b.queue[j].id => i = j
  /\ \A l, k \in b.leases : l.id = k.id => l = k
  /\ \A p \in Entries(b) : b.promise[p.id] = "waiting"
  /\ \A l \in b.leases : b.promise[l.id] = "granted"
  /\ b.late \subseteq Waiting(b)

Owned(b) ==
  /\ \A l \in b.leases : b.attempts[l.attempt].owner = l.owner
  /\ \A p \in Entries(b) : b.attempts[p.attempt].owner = p.owner

Bounded(b) ==
  /\ \A l \in b.leases, r \in Resources : l.res[r] <= Capacity[r]
  /\ \A p \in Entries(b), r \in Resources : p.res[r] <= Capacity[r]
  /\ \A r \in Resources : b.used[r] <= Capacity[r]

Counted(b) ==
  /\ \A a \in Attempts : b.attempts[a].queued = Cardinality(EntriesOf(b, a))
  /\ \A r \in Resources : b.used[r] = UnitsOf(b.leases, r)
  /\ \A a \in Attempts, r \in Resources :
       b.attempts[a].reservation[r] = UnitsOf(LeasesOf(b, a), r)

Sound(b) == Typed(b) /\ Identified(b) /\ Owned(b) /\ Bounded(b) /\ Counted(b)

Tidy(b, A, Q) ==
  /\ \A a \in A : b.attempts[a] = Absent \/ EntriesOf(b, a) # {} \/ LeasesOf(b, a) # {}
  /\ \A q \in Q : b.promise[q] = "waiting" => q \in Waiting(b)

Good(b) == Sound(b) /\ Tidy(b, Attempts, Requests)

\* b is a record with the fields of the class.
Shape(b) ==
  b = [workers |-> b.workers, highestEpoch |-> b.highestEpoch, attempts |-> b.attempts,
       leases |-> b.leases, queue |-> b.queue, used |-> b.used, late |-> b.late,
       promise |-> b.promise]

\* The workers and epochs, which nothing but registerWorker and disconnectWorker changes.
SameWorkers(b, c) == c.workers = b.workers /\ c.highestEpoch = b.highestEpoch

-----------------------------------------------------------------------------
(* Consequences of soundness. *)

\* What the types say, field by field.
LEMMA Fields ==
  ASSUME NEW b, Typed(b)
  PROVE  /\ b.workers \in [Workers -> Nat \cup {NoEpoch}]
         /\ b.highestEpoch \in [Workers -> Nat \cup {NoEpoch}]
         /\ b.attempts \in [Attempts -> AttemptState]
         /\ b.leases \subseteq Lease
         /\ b.queue \in Seq(Pending)
         /\ b.used \in Vector
         /\ b.late \subseteq Requests
         /\ b.promise \in [Requests -> {"unused", "waiting", "granted", "rejected"}]
         /\ IsFiniteSet(b.leases)
         /\ Entries(b) \subseteq Pending
         /\ DOMAIN b.queue = 1..Len(b.queue) /\ Len(b.queue) \in Nat
         /\ Shape(b)
<1>1. Shape(b)
  BY DEF Typed, BrokerState, Shape
<1> QED BY <1>1 DEF Typed, BrokerState, Entries

\* A record with these fields of these types is a state of the broker.
LEMMA MakeState ==
  ASSUME NEW c, Shape(c),
         c.workers \in [Workers -> Nat \cup {NoEpoch}],
         c.highestEpoch \in [Workers -> Nat \cup {NoEpoch}],
         c.attempts \in [Attempts -> AttemptState],
         c.leases \subseteq Lease,
         c.queue \in Seq(Pending),
         c.used \in Vector,
         c.late \subseteq Requests,
         c.promise \in [Requests -> {"unused", "waiting", "granted", "rejected"}]
  PROVE  c \in BrokerState
  BY DEF Shape, BrokerState

\* The members of the leases, of the queue and of the attempt map.
LEMMA Members ==
  ASSUME NEW b, Typed(b)
  PROVE  /\ \A l \in b.leases : /\ l.id \in Requests /\ l.attempt \in Attempts
                                /\ l.owner \in Identity /\ l.owner # NoOwner
                                /\ l.res \in Vector
         /\ \A p \in Entries(b) : /\ p.id \in Requests /\ p.attempt \in Attempts
                                 /\ p.owner \in Identity /\ p.owner # NoOwner
                                 /\ p.res \in Vector
         /\ \A a \in Attempts : /\ b.attempts[a].owner \in Identity \cup {NoOwner}
                                /\ b.attempts[a].reservation \in Vector
                                /\ b.attempts[a].queued \in Nat
<1>1. b.leases \subseteq Lease /\ Entries(b) \subseteq Pending
      /\ b.attempts \in [Attempts -> AttemptState]
  BY Fields
<1>2. \A l \in Lease : /\ l.id \in Requests /\ l.attempt \in Attempts
                       /\ l.owner \in Identity /\ l.owner # NoOwner /\ l.res \in Vector
  BY NoOwnerAssumption DEF Lease
<1>3. \A p \in Pending : /\ p.id \in Requests /\ p.attempt \in Attempts
                         /\ p.owner \in Identity /\ p.owner # NoOwner /\ p.res \in Vector
  BY NoOwnerAssumption DEF Pending
<1>4. \A x \in AttemptState : /\ x.owner \in Identity \cup {NoOwner}
                              /\ x.reservation \in Vector /\ x.queued \in Nat
  BY DEF AttemptState
<1> QED BY <1>1, <1>2, <1>3, <1>4

\* The queue has finitely many entries.
LEMMA EntriesFinite ==
  ASSUME NEW b, Typed(b)
  PROVE  /\ IsFiniteSet(Entries(b))
         /\ \A a : IsFiniteSet(EntriesOf(b, a)) /\ Cardinality(EntriesOf(b, a)) \in Nat
<1>1. Len(b.queue) \in Nat /\ DOMAIN b.queue = 1..Len(b.queue)
  BY Fields
<1>2. IsFiniteSet(1..Len(b.queue))
  <2>1. \A n \in Nat : IsFiniteSet(1..n)
    BY FS_Interval
  <2> QED BY <1>1, <2>1
<1> DEFINE f == [i \in 1..Len(b.queue) |-> b.queue[i]]
<1>3. f \in Surjection(1..Len(b.queue), Entries(b))
  BY <1>1 DEF Surjection, Entries
<1>4. IsFiniteSet(Entries(b))
  BY <1>2, <1>3, FS_Surjection
<1>5. \A a : EntriesOf(b, a) \in SUBSET Entries(b)
  BY DEF EntriesOf
<1>6. \A a : IsFiniteSet(EntriesOf(b, a))
  BY <1>4, <1>5, FS_Subset
<1> QED BY <1>4, <1>6, FS_CardinalityType

\* The owner tells a missing attempt from a known one.
LEMMA AbsentByOwner ==
  ASSUME NEW b, Sound(b), NEW a \in Attempts
  PROVE  /\ b.attempts[a] = Absent <=> b.attempts[a].owner = NoOwner
         /\ b.attempts[a] = Absent => EntriesOf(b, a) = {} /\ LeasesOf(b, a) = {}
<1> USE DEF Sound
<1>1. b.attempts[a] \in AttemptState
  BY Fields
<1>2. ASSUME b.attempts[a].owner = NoOwner
      PROVE  EntriesOf(b, a) = {} /\ LeasesOf(b, a) = {}
  <2>1. b.leases \subseteq Lease /\ Entries(b) \subseteq Pending
    BY Fields
  <2> QED BY <1>2, <2>1, NoOwnerAssumption DEF Owned, EntriesOf, LeasesOf, Lease, Pending
<1>3. ASSUME b.attempts[a].owner = NoOwner
      PROVE  b.attempts[a] = Absent
  <2>1. b.attempts[a].queued = 0
    BY <1>2, <1>3, FS_EmptySet DEF Counted
  <2>2. \A r \in Resources : b.attempts[a].reservation[r] = 0
    BY <1>2, <1>3, UnitsEmpty DEF Counted
  <2>3. b.attempts[a].reservation = Zero
    BY <1>1, <2>2 DEF AttemptState, Vector, Zero
  <2> QED BY <1>1, <1>3, <2>1, <2>3 DEF AttemptState, Absent
<1>4. b.attempts[a] = Absent => b.attempts[a].owner = NoOwner
  BY SMTT(30) DEF Absent
<1> QED BY <1>2, <1>3, <1>4

-----------------------------------------------------------------------------
(* #settlePending *)

\* The entry p, and nothing else, has left the queue.
Settled(b, p, c) ==
  /\ p \in Entries(b) /\ p \in Pending
  /\ Entries(c) = Entries(b) \ {p}
  /\ c.queue \in Seq(Pending) /\ Len(c.queue) = Len(b.queue) - 1
  /\ \A j, k \in DOMAIN c.queue : c.queue[j].id = c.queue[k].id => j = k
  /\ p.id \notin Waiting(c)
  /\ c.late = b.late \ {p.id}
  /\ c.attempts = [b.attempts EXCEPT ![p.attempt].queued = @ - 1]
  /\ c.leases = b.leases /\ c.promise = b.promise /\ c.used = b.used
  /\ SameWorkers(b, c) /\ Shape(c)

\* #settlePending takes exactly its entry out of the queue.
LEMMA SettleFields ==
  ASSUME NEW b, Sound(b), NEW i \in DOMAIN b.queue
  PROVE  Settled(b, b.queue[i], Settle(b, i))
<1> SUFFICES ASSUME NEW p, p = b.queue[i], NEW c, c = Settle(b, i)
             PROVE  Settled(b, p, c)
  OBVIOUS
<1> USE DEF Sound
<1>1. b \in BrokerState /\ b.queue \in Seq(Pending) /\ Entries(b) \subseteq Pending
      /\ b.attempts \in [Attempts -> AttemptState] /\ i \in 1..Len(b.queue)
      /\ Len(b.queue) \in Nat /\ DOMAIN b.queue = 1..Len(b.queue)
  BY Fields DEF Typed
<1>2. p \in Entries(b) /\ p \in Pending
  BY <1>1 DEF Entries
<1>3. b.attempts[p.attempt] # Absent
  BY <1>2, AbsentByOwner, NoOwnerAssumption, SMTT(30) DEF Owned, Pending
<1>4. /\ c.queue = Without(b.queue, i)
      /\ c.late = b.late \ {p.id}
      /\ c.attempts = [b.attempts EXCEPT ![p.attempt].queued = @ - 1]
      /\ c.leases = b.leases /\ c.promise = b.promise /\ c.used = b.used
      /\ SameWorkers(b, c) /\ Shape(c)
  BY <1>1, <1>3, Zenon DEF Settle, BrokerState, SameWorkers, Shape
<1> DEFINE w == Without(b.queue, i)
<1>5. /\ w \in Seq(Pending) /\ Len(w) = Len(b.queue) - 1
      /\ DOMAIN w = 1..(Len(b.queue) - 1)
      /\ \A j \in DOMAIN w : /\ j \in DOMAIN b.queue /\ j + 1 \in DOMAIN b.queue
                             /\ w[j] = IF j < i THEN b.queue[j] ELSE b.queue[j + 1]
  <2>1. /\ w \in Seq(Pending) /\ Len(w) = Len(b.queue) - 1
        /\ \A j \in DOMAIN w : /\ j \in DOMAIN b.queue /\ j + 1 \in DOMAIN b.queue
                               /\ w[j] = IF j < i THEN b.queue[j] ELSE b.queue[j + 1]
    BY <1>1, WithoutProperties, Zenon
  <2> HIDE DEF w
  <2>2. DOMAIN w = 1..Len(w)
    BY <2>1
  <2> QED BY <2>1, <2>2, Zenon
<1>6. \A j, k \in DOMAIN b.queue : b.queue[j].id = b.queue[k].id => j = k
  BY DEF Identified
<1> HIDE DEF w
<1>7. \A j, k \in DOMAIN w : w[j].id = w[k].id => j = k
  <2> SUFFICES ASSUME NEW j \in DOMAIN w, NEW k \in DOMAIN w, w[j].id = w[k].id
               PROVE  j = k
    OBVIOUS
  <2> DEFINE up(n) == IF n < i THEN n ELSE n + 1
  <2>1. up(j) \in DOMAIN b.queue /\ w[j] = b.queue[up(j)]
    BY <1>5
  <2>2. up(k) \in DOMAIN b.queue /\ w[k] = b.queue[up(k)]
    BY <1>5
  <2>3. up(j) = up(k)
    BY <2>1, <2>2, <1>6
  <2>4. j \in Int /\ k \in Int /\ i \in Int
    BY <1>1, <1>5
  <2> QED BY <2>3, <2>4
<1>8. \A j \in DOMAIN w : w[j] \in Entries(b) /\ w[j].id # p.id
  <2> SUFFICES ASSUME NEW j \in DOMAIN w PROVE w[j] \in Entries(b) /\ w[j].id # p.id
    OBVIOUS
  <2> DEFINE n == IF j < i THEN j ELSE j + 1
  <2>1. n \in DOMAIN b.queue /\ w[j] = b.queue[n] /\ n # i
    BY <1>1, <1>5
  <2> QED BY <2>1, <1>6 DEF Entries
<1>9. ASSUME NEW e \in Entries(b), e # p PROVE \E j \in DOMAIN w : w[j] = e
  <2>1. PICK n \in DOMAIN b.queue : e = b.queue[n]
    BY DEF Entries
  <2>2. n # i
    BY <2>1, <1>9
  <2> DEFINE j == IF n < i THEN n ELSE n - 1
  <2>3. j \in DOMAIN w
    BY <1>1, <1>5, <2>2
  <2>4. w[j] = b.queue[n]
    BY <1>1, <1>5, <2>2, <2>3, SMTT(30)
  <2> QED BY <2>1, <2>3, <2>4
<1>10. Entries(c) = {w[j] : j \in DOMAIN w}
  <2>1. c.queue = w
    BY <1>4 DEF w
  <2> QED BY <2>1 DEF Entries
<1>11. Entries(c) = Entries(b) \ {p}
  BY <1>8, <1>9, <1>10
<1>12. p.id \notin Waiting(c)
  BY <1>8, <1>10 DEF Waiting
<1>13. /\ c.queue \in Seq(Pending) /\ Len(c.queue) = Len(b.queue) - 1
       /\ \A j, k \in DOMAIN c.queue : c.queue[j].id = c.queue[k].id => j = k
  <2>1. c.queue = w
    BY <1>4 DEF w
  <2> QED BY <1>5, <1>7, <2>1, Zenon
<1> QED BY <1>2, <1>4, <1>11, <1>12, <1>13, Zenon DEF Settled

\* #settlePending keeps the state sound.
LEMMA SettleSound ==
  ASSUME NEW b, Sound(b), NEW p, NEW c, Settled(b, p, c)
  PROVE  /\ Sound(c)
         /\ c.attempts[p.attempt].owner = p.owner
         /\ Tidy(b, Attempts, Requests)
              => Tidy(c, Attempts \ {p.attempt}, Requests \ {p.id})
<1>t. Typed(b) /\ Identified(b) /\ Owned(b) /\ Bounded(b) /\ Counted(b)
  BY DEF Sound
<1>p. p \in Entries(b) /\ p.attempt \in Attempts /\ p.id \in Requests
  BY <1>t, Members DEF Settled
<1>e. Entries(c) = Entries(b) \ {p}
  BY DEF Settled
<1>w. p.id \notin Waiting(c) /\ c.late = b.late \ {p.id}
  BY DEF Settled
<1>q. /\ c.queue \in Seq(Pending)
      /\ \A j, k \in DOMAIN c.queue : c.queue[j].id = c.queue[k].id => j = k
  BY DEF Settled
<1>a. c.attempts = [b.attempts EXCEPT ![p.attempt].queued = @ - 1]
  BY DEF Settled
<1>s. /\ c.leases = b.leases /\ c.promise = b.promise /\ c.used = b.used
      /\ SameWorkers(b, c) /\ Shape(c)
  BY DEF Settled
<1>1. \A a : EntriesOf(c, a) = EntriesOf(b, a) \ {p}
  BY <1>e DEF EntriesOf
<1>2. \A a : LeasesOf(c, a) = LeasesOf(b, a)
  BY <1>s DEF LeasesOf
<1>3. /\ IsFiniteSet(EntriesOf(b, p.attempt)) /\ p \in EntriesOf(b, p.attempt)
      /\ Cardinality(EntriesOf(b, p.attempt)) \in Nat
      /\ Cardinality(EntriesOf(b, p.attempt)) # 0
  <2>1. IsFiniteSet(EntriesOf(b, p.attempt)) /\ Cardinality(EntriesOf(b, p.attempt)) \in Nat
    BY <1>t, EntriesFinite
  <2>2. p \in EntriesOf(b, p.attempt)
    BY <1>p DEF EntriesOf
  <2> QED BY <2>1, <2>2, FS_EmptySet
<1>4. /\ Cardinality(EntriesOf(c, p.attempt)) = b.attempts[p.attempt].queued - 1
      /\ b.attempts[p.attempt].queued - 1 \in Nat
  <2>1. Cardinality(EntriesOf(c, p.attempt)) = Cardinality(EntriesOf(b, p.attempt)) - 1
    BY <1>1, <1>3, FS_RemoveElement
  <2>2. b.attempts[p.attempt].queued = Cardinality(EntriesOf(b, p.attempt))
    BY <1>t, <1>p DEF Counted
  <2> QED BY <1>3, <2>1, <2>2
<1>5. \A a \in Attempts : a # p.attempt => EntriesOf(c, a) = EntriesOf(b, a)
  BY <1>1 DEF EntriesOf
<1>6. \A a \in Attempts : a # p.attempt => c.attempts[a] = b.attempts[a]
  <2>1. b.attempts \in [Attempts -> AttemptState]
    BY <1>t, Fields
  <2> QED BY <1>a, <2>1
<1>7. /\ c.attempts[p.attempt].queued = b.attempts[p.attempt].queued - 1
      /\ c.attempts[p.attempt].owner = b.attempts[p.attempt].owner
      /\ c.attempts[p.attempt].reservation = b.attempts[p.attempt].reservation
      /\ c.attempts \in [Attempts -> AttemptState]
  <2>1. b.attempts \in [Attempts -> AttemptState]
    BY <1>t, Fields
  <2>2. c.attempts[p.attempt] = [b.attempts[p.attempt] EXCEPT !.queued = @ - 1]
    BY <1>a, <1>p, <2>1
  <2>3. b.attempts[p.attempt] \in AttemptState
    BY <1>p, <2>1
  <2>4. c.attempts[p.attempt] \in AttemptState
    BY <1>4, <2>2, <2>3 DEF AttemptState
  <2>5. c.attempts \in [Attempts -> AttemptState]
    BY <1>a, <2>1, <2>4, Zenon
  <2> QED BY <2>2, <2>3, <2>5 DEF AttemptState
<1>8. \A a \in Attempts : /\ c.attempts[a].owner = b.attempts[a].owner
                          /\ c.attempts[a].reservation = b.attempts[a].reservation
  BY <1>6, <1>7
<1>9. Typed(c)
  <2>1. /\ b.workers \in [Workers -> Nat \cup {NoEpoch}]
        /\ b.highestEpoch \in [Workers -> Nat \cup {NoEpoch}]
        /\ b.leases \subseteq Lease /\ b.used \in Vector /\ b.late \subseteq Requests
        /\ b.promise \in [Requests -> {"unused", "waiting", "granted", "rejected"}]
        /\ IsFiniteSet(b.leases)
    BY <1>t, Fields
  <2>2. c \in BrokerState
    BY <1>s, <1>q, <1>w, <1>7, <2>1, MakeState DEF SameWorkers
  <2> QED BY <1>s, <2>1, <2>2 DEF Typed
<1>10. Identified(c)
  <2>1. Waiting(c) = Waiting(b) \ {p.id}
    BY <1>e, <1>w DEF Waiting
  <2>2. c.late \subseteq Waiting(c)
    BY <1>t, <1>w, <2>1 DEF Identified
  <2>3. \A x \in Entries(c) : c.promise[x.id] = "waiting"
    BY <1>t, <1>e, <1>s DEF Identified
  <2>4. /\ \A l, k \in c.leases : l.id = k.id => l = k
        /\ \A l \in c.leases : c.promise[l.id] = "granted"
    BY <1>t, <1>s DEF Identified
  <2> QED BY <1>q, <2>2, <2>3, <2>4 DEF Identified
<1>11. Owned(c)
  <2>1. \A l \in c.leases : c.attempts[l.attempt].owner = l.owner
    BY <1>t, <1>s, <1>8, Members DEF Owned
  <2>2. \A x \in Entries(c) : c.attempts[x.attempt].owner = x.owner
    BY <1>t, <1>e, <1>8, Members DEF Owned
  <2> QED BY <2>1, <2>2 DEF Owned
<1>12. Bounded(c)
  BY <1>t, <1>e, <1>s DEF Bounded
<1>13. Counted(c)
  <2>1. \A a \in Attempts : c.attempts[a].queued = Cardinality(EntriesOf(c, a))
    BY <1>t, <1>4, <1>5, <1>6, <1>7 DEF Counted
  <2>2. \A a \in Attempts, r \in Resources :
          c.attempts[a].reservation[r] = UnitsOf(LeasesOf(c, a), r)
    BY <1>t, <1>2, <1>8 DEF Counted
  <2>3. \A r \in Resources : c.used[r] = UnitsOf(c.leases, r)
    BY <1>t, <1>s DEF Counted
  <2> QED BY <2>1, <2>2, <2>3 DEF Counted
<1>14. c.attempts[p.attempt].owner = p.owner
  BY <1>t, <1>p, <1>8 DEF Owned
<1>15. ASSUME Tidy(b, Attempts, Requests)
       PROVE  Tidy(c, Attempts \ {p.attempt}, Requests \ {p.id})
  <2>1. \A a \in Attempts \ {p.attempt} :
          c.attempts[a] = Absent \/ EntriesOf(c, a) # {} \/ LeasesOf(c, a) # {}
    BY <1>15, <1>2, <1>5, <1>6 DEF Tidy
  <2>2. \A q \in Requests \ {p.id} : b.promise[q] = "waiting" => q \in Waiting(c)
    BY <1>15, <1>e DEF Tidy, Waiting
  <2> QED BY <1>s, <2>1, <2>2 DEF Tidy
<1> QED BY <1>9, <1>10, <1>11, <1>12, <1>13, <1>14, <1>15 DEF Sound

-----------------------------------------------------------------------------
(* #deleteAttemptIfEmpty *)

\* Everything but the attempt map is the same.
SameButAttempts(b, c) ==
  /\ c.leases = b.leases /\ c.promise = b.promise /\ c.used = b.used
  /\ c.queue = b.queue /\ c.late = b.late /\ Entries(c) = Entries(b)
  /\ SameWorkers(b, c) /\ Shape(c)

\* #deleteAttemptIfEmpty changes nothing but the attempt's entry.
LEMMA DeleteFields ==
  ASSUME NEW b, Typed(b), NEW a \in Attempts
  PROVE  SameButAttempts(b, DeleteAttemptIfEmpty(b, a))
<1> SUFFICES ASSUME NEW c, c = DeleteAttemptIfEmpty(b, a)
             PROVE  SameButAttempts(b, c)
  OBVIOUS
<1>1. Shape(b)
  BY Fields
<1>2. CASE c = b
  BY <1>1, <1>2 DEF SameButAttempts, SameWorkers
<1>3. CASE c = [b EXCEPT !.attempts[a] = Absent]
  <2>1. /\ c.leases = b.leases /\ c.promise = b.promise /\ c.used = b.used
        /\ c.queue = b.queue /\ c.late = b.late
        /\ SameWorkers(b, c) /\ Shape(c)
    BY <1>1, <1>3 DEF SameWorkers, Shape
  <2> QED BY <2>1 DEF SameButAttempts, Entries
<1> QED BY <1>2, <1>3 DEF DeleteAttemptIfEmpty

\* #deleteAttemptIfEmpty keeps the state sound and tidies the attempt.
LEMMA DeleteSound ==
  ASSUME NEW b, Sound(b), NEW a \in Attempts
  PROVE  /\ Sound(DeleteAttemptIfEmpty(b, a))
         /\ \A Q : Tidy(b, Attempts \ {a}, Q)
                     => Tidy(DeleteAttemptIfEmpty(b, a), Attempts, Q)
<1> SUFFICES ASSUME NEW c, c = DeleteAttemptIfEmpty(b, a)
             PROVE  /\ Sound(c)
                    /\ \A Q : Tidy(b, Attempts \ {a}, Q) => Tidy(c, Attempts, Q)
  OBVIOUS
<1>t. Typed(b) /\ Identified(b) /\ Owned(b) /\ Bounded(b) /\ Counted(b)
  BY DEF Sound
<1>s. SameButAttempts(b, c)
  BY <1>t, DeleteFields
<1>b. b.attempts \in [Attempts -> AttemptState]
  BY <1>t, Fields
<1>1. CASE ~(LeasesOf(b, a) = {} /\ b.attempts[a].queued = 0)
  <2>1. c = b
    BY <1>1 DEF DeleteAttemptIfEmpty
  <2>2. LeasesOf(b, a) # {} \/ EntriesOf(b, a) # {}
    BY <1>t, <1>1, FS_EmptySet DEF Counted
  <2>3. \A Q : Tidy(b, Attempts \ {a}, Q) => Tidy(b, Attempts, Q)
    BY <2>2 DEF Tidy
  <2> QED BY <2>1, <2>3
<1>2. CASE LeasesOf(b, a) = {} /\ b.attempts[a].queued = 0
  <2>1. c = [b EXCEPT !.attempts[a] = Absent]
    BY <1>2 DEF DeleteAttemptIfEmpty
  <2>2. c.attempts = [b.attempts EXCEPT ![a] = Absent]
    <3>1. Shape(b)
      BY <1>t, Fields
    <3> QED BY <2>1, <3>1 DEF Shape
  <2>3. \A d : EntriesOf(c, d) = EntriesOf(b, d) /\ LeasesOf(c, d) = LeasesOf(b, d)
    BY <1>s DEF SameButAttempts, EntriesOf, LeasesOf
  <2>4. EntriesOf(b, a) = {}
    <3>1. Cardinality(EntriesOf(b, a)) = 0 /\ IsFiniteSet(EntriesOf(b, a))
      BY <1>t, <1>2, EntriesFinite DEF Counted
    <3> QED BY <3>1, FS_EmptySet
  <2>5. Absent \in AttemptState
    BY DEF Absent, AttemptState, Zero, Vector
  <2>6. /\ c.attempts \in [Attempts -> AttemptState] /\ c.attempts[a] = Absent
        /\ \A d \in Attempts \ {a} : c.attempts[d] = b.attempts[d]
    BY <1>b, <2>2, <2>5
  <2>7. Typed(c)
    <3>1. c \in BrokerState
      BY <1>t, <1>s, <2>6, Fields, MakeState DEF SameButAttempts, SameWorkers
    <3> QED BY <1>t, <1>s, <3>1 DEF Typed, SameButAttempts
  <2>8. Identified(c)
    <3>1. Waiting(c) = Waiting(b)
      BY <1>s DEF SameButAttempts, Waiting
    <3> QED BY <1>t, <1>s, <3>1 DEF Identified, SameButAttempts
  <2>9. Owned(c)
    <3>1. \A l \in b.leases : l.attempt \in Attempts \ {a}
      BY <1>t, <1>2, Members DEF LeasesOf
    <3>2. \A p \in Entries(b) : p.attempt \in Attempts \ {a}
      BY <1>t, <2>4, Members DEF EntriesOf
    <3> QED BY <1>t, <1>s, <2>6, <3>1, <3>2 DEF Owned, SameButAttempts
  <2>10. Bounded(c)
    BY <1>t, <1>s DEF Bounded, SameButAttempts
  <2>11. Counted(c)
    <3>1. \A d \in Attempts : c.attempts[d].queued = Cardinality(EntriesOf(c, d))
      <4>1. c.attempts[a].queued = Cardinality(EntriesOf(c, a))
        BY <2>3, <2>4, <2>6, FS_EmptySet DEF Absent
      <4>2. \A d \in Attempts \ {a} : c.attempts[d].queued = Cardinality(EntriesOf(c, d))
        BY <1>t, <2>3, <2>6 DEF Counted
      <4> QED BY <4>1, <4>2
    <3>2. \A d \in Attempts, r \in Resources :
            c.attempts[d].reservation[r] = UnitsOf(LeasesOf(c, d), r)
      <4>1. \A r \in Resources : c.attempts[a].reservation[r] = UnitsOf(LeasesOf(c, a), r)
        BY <1>2, <2>3, <2>6, UnitsEmpty DEF Absent, Zero
      <4>2. \A d \in Attempts \ {a}, r \in Resources :
              c.attempts[d].reservation[r] = UnitsOf(LeasesOf(c, d), r)
        BY <1>t, <2>3, <2>6 DEF Counted
      <4> QED BY <4>1, <4>2
    <3> QED BY <1>t, <1>s, <3>1, <3>2 DEF Counted, SameButAttempts
  <2>12. \A Q : Tidy(b, Attempts \ {a}, Q) => Tidy(c, Attempts, Q)
    <3>1. Waiting(c) = Waiting(b) /\ c.promise = b.promise
      BY <1>s DEF SameButAttempts, Waiting
    <3> QED BY <2>3, <2>6, <3>1 DEF Tidy
  <2> QED BY <2>7, <2>8, <2>9, <2>10, <2>11, <2>12 DEF Sound
<1> QED BY <1>1, <1>2

-----------------------------------------------------------------------------
(* Settling a promise, and #cancel up to its call of #drain. *)

RejectPromise(b, q) == [b EXCEPT !.promise[q] = "rejected"]

\* Everything but the promises is the same.
SameButPromise(b, c) ==
  /\ c.attempts = b.attempts /\ c.leases = b.leases /\ c.used = b.used
  /\ c.queue = b.queue /\ c.late = b.late /\ Entries(c) = Entries(b)
  /\ SameWorkers(b, c)

\* Rejecting the promise of a request that is neither queued nor granted.
LEMMA RejectPromiseSound ==
  ASSUME NEW b, Sound(b), NEW q \in Requests, q \notin Waiting(b),
         \A l \in b.leases : l.id # q
  PROVE  /\ Sound(RejectPromise(b, q))
         /\ \A A : Tidy(b, A, Requests \ {q}) => Tidy(RejectPromise(b, q), A, Requests)
         /\ SameButPromise(b, RejectPromise(b, q))
<1> SUFFICES ASSUME NEW c, c = RejectPromise(b, q)
             PROVE  /\ Sound(c)
                    /\ \A A : Tidy(b, A, Requests \ {q}) => Tidy(c, A, Requests)
                    /\ SameButPromise(b, c)
  OBVIOUS
<1>t. Typed(b) /\ Identified(b) /\ Owned(b) /\ Bounded(b) /\ Counted(b)
  BY DEF Sound
<1>1. Shape(b)
  BY <1>t, Fields
<1>2. /\ c.attempts = b.attempts /\ c.leases = b.leases /\ c.used = b.used
      /\ c.queue = b.queue /\ c.late = b.late
      /\ SameWorkers(b, c) /\ Shape(c)
      /\ c.promise = [b.promise EXCEPT ![q] = "rejected"]
  BY <1>1 DEF RejectPromise, Shape, SameWorkers
<1>3. /\ Entries(c) = Entries(b) /\ Waiting(c) = Waiting(b)
      /\ \A a : EntriesOf(c, a) = EntriesOf(b, a) /\ LeasesOf(c, a) = LeasesOf(b, a)
  BY <1>2 DEF Entries, Waiting, EntriesOf, LeasesOf
<1>4. /\ c.promise \in [Requests -> {"unused", "waiting", "granted", "rejected"}]
      /\ c.promise[q] = "rejected"
      /\ \A x \in Requests : x # q => c.promise[x] = b.promise[x]
  <2>1. b.promise \in [Requests -> {"unused", "waiting", "granted", "rejected"}]
    BY <1>t, Fields
  <2> QED BY <1>2, <2>1
<1>5. Typed(c)
  <2>1. c \in BrokerState
    BY <1>t, <1>2, <1>4, Fields, MakeState, SMTT(30) DEF SameWorkers
  <2> QED BY <1>t, <1>2, <2>1 DEF Typed
<1>6. Identified(c)
  <2>1. \A p \in Entries(b) : p.id \in Requests /\ p.id # q
    BY <1>t, Members DEF Waiting
  <2>2. \A l \in b.leases : l.id \in Requests /\ l.id # q
    BY <1>t, Members
  <2>3. \A p \in Entries(c) : c.promise[p.id] = "waiting"
    BY <1>t, <1>3, <1>4, <2>1, SMTT(30) DEF Identified
  <2>4. \A l \in c.leases : c.promise[l.id] = "granted"
    BY <1>t, <1>2, <1>4, <2>2, SMTT(30) DEF Identified
  <2> QED BY <1>t, <1>2, <1>3, <2>3, <2>4 DEF Identified
<1>7. Owned(c) /\ Bounded(c) /\ Counted(c)
  <2>1. Owned(c)
    BY <1>t, <1>2, <1>3 DEF Owned
  <2>2. Bounded(c)
    BY <1>t, <1>2, <1>3 DEF Bounded
  <2>3. Counted(c)
    BY <1>t, <1>2, <1>3 DEF Counted
  <2> QED BY <2>1, <2>2, <2>3
<1>8. \A A : Tidy(b, A, Requests \ {q}) => Tidy(c, A, Requests)
  BY <1>2, <1>3, <1>4 DEF Tidy
<1> QED BY <1>2, <1>3, <1>5, <1>6, <1>7, <1>8, Zenon DEF Sound, SameButPromise

OwnersIn(b, O) ==
  /\ \A l \in b.leases : l.owner \in O
  /\ \A p \in Entries(b) : p.owner \in O

\* c is a later state of the same method: the queue has only lost entries, and
\* everything that is owned is owned by an owner of before.
Advance(b, c) ==
  /\ SameWorkers(b, c)
  /\ Len(c.queue) < Len(b.queue)
  /\ Entries(c) \subseteq Entries(b)
  /\ \A O : OwnersIn(b, O) => OwnersIn(c, O)

\* Rejecting a waiting request leaves a consistent state behind.
LEMMA RejectGood ==
  ASSUME NEW b, Good(b), NEW i \in DOMAIN b.queue
  PROVE  Good(Reject(b, i)) /\ Advance(b, Reject(b, i))
<1> DEFINE p == b.queue[i]
           s == Settle(b, i)
           d == DeleteAttemptIfEmpty(s, p.attempt)
           c == RejectPromise(d, p.id)
<1>1. Reject(b, i) = c
  BY DEF Reject, RejectPromise
<1>2. Sound(b) /\ Tidy(b, Attempts, Requests) /\ Typed(b)
  BY DEF Good, Sound
<1>3. Settled(b, p, s)
  BY <1>2, SettleFields
<1> HIDE DEF p, s
<1>4. Sound(s) /\ Typed(s) /\ Tidy(s, Attempts \ {p.attempt}, Requests \ {p.id})
  BY <1>2, <1>3, SettleSound DEF Sound
<1>5. p \in Entries(b) /\ p.attempt \in Attempts /\ p.id \in Requests
  BY <1>2, <1>3, Members DEF Settled
<1>6. Sound(d) /\ Tidy(d, Attempts, Requests \ {p.id}) /\ SameButAttempts(s, d)
  BY <1>4, <1>5, DeleteSound, DeleteFields
<1> HIDE DEF d
<1>7. p.id \notin Waiting(d)
  BY <1>3, <1>6 DEF Settled, SameButAttempts, Waiting
<1>8. \A l \in d.leases : l.id # p.id
  <2>1. d.leases = b.leases
    BY <1>3, <1>6 DEF Settled, SameButAttempts
  <2>2. b.promise[p.id] = "waiting" /\ \A l \in b.leases : b.promise[l.id] = "granted"
    BY <1>2, <1>5 DEF Sound, Identified
  <2> QED BY <2>1, <2>2
<1>9. Sound(c) /\ Tidy(c, Attempts, Requests) /\ SameButPromise(d, c)
  BY <1>5, <1>6, <1>7, <1>8, RejectPromiseSound
<1> HIDE DEF c
<1>10. SameWorkers(b, c)
  BY <1>3, <1>6, <1>9 DEF Settled, SameButAttempts, SameButPromise, SameWorkers
<1>11. Entries(c) = Entries(b) \ {p} /\ c.leases = b.leases
  BY <1>3, <1>6, <1>9 DEF Settled, SameButAttempts, SameButPromise
<1>12. Len(c.queue) < Len(b.queue)
  <2>1. c.queue = s.queue /\ Len(s.queue) = Len(b.queue) - 1
    BY <1>3, <1>6, <1>9 DEF Settled, SameButAttempts, SameButPromise
  <2>2. Len(b.queue) \in Nat
    BY <1>2, Fields
  <2> QED BY <2>1, <2>2
<1>13. \A O : OwnersIn(b, O) => OwnersIn(c, O)
  BY <1>11 DEF OwnersIn
<1> QED BY <1>1, <1>9, <1>10, <1>11, <1>12, <1>13 DEF Good, Advance
=============================================================================
