----------------------- MODULE ResourceBrokerUpdates -----------------------
(***************************************************************************)
(* The helpers that change leases, reservations and attempts preserve the  *)
(* inductive invariant: #grant, #recomputeReservation, #attempt and what   *)
(* acquire does to queue a request.                                        *)
(***************************************************************************)
EXTENDS ResourceBrokerLemmas

-----------------------------------------------------------------------------
(* #grant *)

SameQueue(b, c) ==
  SameWorkers(b, c) /\ c.queue = b.queue /\ Entries(c) = Entries(b)

\* A grant that fits keeps the books exact and within the capacities.
LEMMA GrantSound ==
  ASSUME NEW b, Sound(b), NEW a \in Attempts, b.attempts[a].owner \in Identity,
         NEW q \in Requests, q \notin Waiting(b), \A l \in b.leases : l.id # q,
         NEW v \in Vector, \A r \in Resources : v[r] <= Capacity[r], Fits(b, v)
  PROVE  /\ Sound(Grant(b, q, a, v))
         /\ Tidy(b, Attempts \ {a}, Requests \ {q}) => Tidy(Grant(b, q, a, v), Attempts, Requests)
         /\ SameQueue(b, Grant(b, q, a, v))
         /\ \A O : OwnersIn(b, O) /\ b.attempts[a].owner \in O => OwnersIn(Grant(b, q, a, v), O)
<1> SUFFICES ASSUME NEW c, c = Grant(b, q, a, v)
             PROVE  /\ Sound(c)
                    /\ Tidy(b, Attempts \ {a}, Requests \ {q}) => Tidy(c, Attempts, Requests)
                    /\ SameQueue(b, c)
                    /\ \A O : OwnersIn(b, O) /\ b.attempts[a].owner \in O => OwnersIn(c, O)
  BY Zenon
<1>t. Typed(b) /\ Identified(b) /\ Owned(b) /\ Bounded(b) /\ Counted(b)
  BY DEF Sound
<1> DEFINE x == [id |-> q, attempt |-> a, owner |-> b.attempts[a].owner,
                 res |-> v, attached |-> {}]
<1>1. Shape(b)
  BY <1>t, Fields
<1>2. /\ c.queue = b.queue /\ c.late = b.late /\ SameWorkers(b, c) /\ Shape(c)
      /\ c.used = Plus(b.used, v)
      /\ c.attempts = [b.attempts EXCEPT ![a].reservation = Plus(@, v)]
      /\ c.leases = b.leases \cup {x}
      /\ c.promise = [b.promise EXCEPT ![q] = "granted"]
  BY <1>1, Zenon DEF Grant, Shape, SameWorkers
<1>x. /\ x \in Lease /\ x \notin b.leases /\ x.id = q /\ x.attempt = a /\ x.res = v
      /\ x.owner = b.attempts[a].owner
  BY DEF Lease
<1> HIDE DEF x
<1>3. /\ Entries(c) = Entries(b) /\ Waiting(c) = Waiting(b)
      /\ \A d : EntriesOf(c, d) = EntriesOf(b, d)
  BY <1>2 DEF Entries, Waiting, EntriesOf
<1>4. /\ LeasesOf(c, a) = LeasesOf(b, a) \cup {x} /\ x \notin LeasesOf(b, a)
      /\ \A d : d # a => LeasesOf(c, d) = LeasesOf(b, d)
  BY <1>2, <1>x DEF LeasesOf
<1>5. /\ b.used \in Vector /\ b.attempts \in [Attempts -> AttemptState]
      /\ b.promise \in [Requests -> {"unused", "waiting", "granted", "rejected"}]
      /\ IsFiniteSet(b.leases) /\ b.leases \subseteq Lease
  BY <1>t, Fields
<1>6. IsFiniteSet(c.leases) /\ c.leases \subseteq Lease /\ \A d : IsFiniteSet(LeasesOf(b, d))
  <2>1. IsFiniteSet(c.leases)
    <3>1. IsFiniteSet(b.leases \cup {x})
      BY <1>5, FS_AddElement
    <3> QED BY <1>2, <3>1, Zenon
  <2>2. \A d : LeasesOf(b, d) \in SUBSET b.leases
    BY DEF LeasesOf
  <2> QED BY <1>2, <1>5, <1>x, <2>1, <2>2, FS_Subset
<1>7. \A r \in Resources : UnitsOf({x}, r) = v[r]
  <2>1. \A r \in Resources : x.res[r] \in Nat /\ x.res[r] <= Capacity[r]
    BY <1>x DEF Vector
  <2> QED BY <1>x, <2>1, UnitsOne, Zenon
<1>8. IsFiniteSet({x})
  BY FS_Singleton, Zenon
<1>9. \A r \in Resources : UnitsOf(c.leases, r) = UnitsOf(b.leases, r) + v[r]
  BY <1>2, <1>5, <1>7, <1>8, <1>x, UnitsUnion
<1>10. \A r \in Resources : UnitsOf(LeasesOf(c, a), r) = UnitsOf(LeasesOf(b, a), r) + v[r]
  BY <1>4, <1>6, <1>7, <1>8, UnitsUnion
<1>11. c.used \in Vector /\ \A r \in Resources : c.used[r] = b.used[r] + v[r]
  BY <1>2, <1>5 DEF Plus, Vector
<1>12. /\ c.attempts \in [Attempts -> AttemptState]
       /\ \A d \in Attempts : d # a => c.attempts[d] = b.attempts[d]
       /\ \A d \in Attempts : /\ c.attempts[d].owner = b.attempts[d].owner
                              /\ c.attempts[d].queued = b.attempts[d].queued
       /\ c.attempts[a].reservation = Plus(b.attempts[a].reservation, v)
  <2>1. b.attempts[a] \in AttemptState
    BY <1>5
  <2>2. c.attempts[a] = [b.attempts[a] EXCEPT !.reservation = Plus(@, v)]
    BY <1>2, <1>5
  <2>3. Plus(b.attempts[a].reservation, v) \in Vector
    BY <2>1 DEF AttemptState, Plus, Vector
  <2>4. /\ c.attempts[a] \in AttemptState
        /\ c.attempts[a].owner = b.attempts[a].owner
        /\ c.attempts[a].queued = b.attempts[a].queued
        /\ c.attempts[a].reservation = Plus(b.attempts[a].reservation, v)
    BY <2>1, <2>2, <2>3 DEF AttemptState
  <2>5. \A d \in Attempts : d # a => c.attempts[d] = b.attempts[d]
    BY <1>2, <1>5
  <2>6. c.attempts \in [Attempts -> AttemptState]
    BY <1>2, <1>5, <2>4
  <2> QED BY <2>4, <2>5, <2>6
<1>13. /\ c.promise \in [Requests -> {"unused", "waiting", "granted", "rejected"}]
       /\ c.promise[q] = "granted"
       /\ \A y \in Requests : y # q => c.promise[y] = b.promise[y]
  BY <1>2, <1>5
<1>14. Typed(c)
  <2>1. c \in BrokerState
    BY <1>t, <1>2, <1>6, <1>11, <1>12, <1>13, Fields, MakeState, Zenon DEF SameWorkers
  <2> QED BY <1>6, <2>1 DEF Typed
<1>15. Identified(c)
  <2>1. \A p \in Entries(b) : p.id \in Requests /\ p.id # q
    BY <1>t, Members DEF Waiting
  <2>2. \A l \in b.leases : l.id \in Requests /\ l.id # q
    BY <1>t, Members
  <2>3. \A p \in Entries(c) : c.promise[p.id] = "waiting"
    BY <1>t, <1>3, <1>13, <2>1, SMTT(30) DEF Identified
  <2>4. \A l \in b.leases : c.promise[l.id] = "granted"
    BY <1>t, <1>13, <2>2 DEF Identified
  <2>5. \A l \in c.leases : c.promise[l.id] = "granted"
    BY <1>2, <1>13, <1>x, <2>4
  <2>6. \A l, k \in c.leases : l.id = k.id => l = k
    BY <1>t, <1>2, <1>x, <2>2, SMTT(30) DEF Identified
  <2> QED BY <1>t, <1>2, <1>3, <2>3, <2>5, <2>6 DEF Identified
<1>16. Owned(c)
  <2>1. \A l \in b.leases : c.attempts[l.attempt].owner = l.owner
    BY <1>t, <1>12, Members, SMTT(30) DEF Owned
  <2>2. \A p \in Entries(b) : c.attempts[p.attempt].owner = p.owner
    BY <1>t, <1>12, Members DEF Owned
  <2>3. \A l \in c.leases : c.attempts[l.attempt].owner = l.owner
    BY <1>2, <1>12, <1>x, <2>1, SMTT(30)
  <2> QED BY <1>3, <2>2, <2>3, SMTT(30) DEF Owned
<1>17. Bounded(c)
  <2>1. \A r \in Resources : c.used[r] <= Capacity[r]
    BY <1>11 DEF Fits
  <2>2. \A l \in c.leases, r \in Resources : l.res[r] <= Capacity[r]
    BY <1>t, <1>2, <1>x, SMTT(30) DEF Bounded
  <2> QED BY <1>t, <1>3, <2>1, <2>2 DEF Bounded
<1>18. Counted(c)
  <2>1. \A d \in Attempts : c.attempts[d].queued = Cardinality(EntriesOf(c, d))
    BY <1>t, <1>3, <1>12 DEF Counted
  <2>2. \A r \in Resources : c.used[r] = UnitsOf(c.leases, r)
    BY <1>t, <1>9, <1>11, SMTT(30) DEF Counted
  <2>3. \A r \in Resources : c.attempts[a].reservation[r] = UnitsOf(LeasesOf(c, a), r)
    BY <1>t, <1>10, <1>12, SMTT(30) DEF Counted, Plus
  <2>4. \A d \in Attempts, r \in Resources :
          d # a => c.attempts[d].reservation[r] = UnitsOf(LeasesOf(c, d), r)
    BY <1>t, <1>4, <1>12, SMTT(30) DEF Counted
  <2> QED BY <2>1, <2>2, <2>3, <2>4, SMTT(30) DEF Counted
<1>19. Tidy(b, Attempts \ {a}, Requests \ {q}) => Tidy(c, Attempts, Requests)
  <2>1. LeasesOf(c, a) # {}
    BY <1>4
  <2> QED BY <1>3, <1>4, <1>12, <1>13, <2>1 DEF Tidy
<1>20. \A O : OwnersIn(b, O) /\ b.attempts[a].owner \in O => OwnersIn(c, O)
  BY <1>2, <1>3, <1>x DEF OwnersIn
<1> QED BY <1>2, <1>3, <1>14, <1>15, <1>16, <1>17, <1>18, <1>19, <1>20, SMTT(30)
       DEF Sound, SameQueue

-----------------------------------------------------------------------------
(* #recomputeReservation *)

\* The leases R of one attempt are taken away and its reservation is recomputed,
\* as in #release and in #reclaimWorker.
FreeLeases(b, a, R) == RecomputeReservation([b EXCEPT !.leases = @ \ R], a)

\* What FreeLeases changes: the leases R, and no other, are gone.
Freed(b, R, c) ==
  /\ c.leases = b.leases \ R /\ c.promise = b.promise /\ c.late = b.late
  /\ SameQueue(b, c) /\ Shape(c)

\* Freeing leases keeps the books exact, although only differences are added.
LEMMA FreeSound ==
  ASSUME NEW b, Sound(b), NEW a \in Attempts, NEW R, R \subseteq LeasesOf(b, a)
  PROVE  /\ Sound(FreeLeases(b, a, R)) /\ Freed(b, R, FreeLeases(b, a, R))
         /\ Tidy(b, Attempts, Requests) => Tidy(FreeLeases(b, a, R), Attempts \ {a}, Requests)
<1> SUFFICES ASSUME NEW c, c = FreeLeases(b, a, R)
             PROVE  /\ Sound(c) /\ Freed(b, R, c)
                    /\ Tidy(b, Attempts, Requests) => Tidy(c, Attempts \ {a}, Requests)
  OBVIOUS
<1>t. Typed(b) /\ Identified(b) /\ Owned(b) /\ Bounded(b) /\ Counted(b)
  BY DEF Sound
<1> DEFINE L == b.leases \ R
           K == LeasesOf(b, a) \ R
           next == [r \in Resources |-> UnitsOf(K, r)]
           d == [b EXCEPT !.leases = L]
<1>1. Shape(b)
  BY <1>t, Fields
<1>2. /\ d.leases = L /\ d.attempts = b.attempts /\ d.used = b.used /\ d.queue = b.queue
      /\ d.promise = b.promise /\ d.late = b.late /\ SameWorkers(b, d) /\ Shape(d)
  BY <1>1 DEF Shape, SameWorkers
<1>3. LeasesOf(d, a) = K
  BY <1>2 DEF LeasesOf
<1>4. c = RecomputeReservation(d, a)
  BY DEF FreeLeases
<1> HIDE DEF d, K, L
<1> DEFINE u == [r \in Resources |-> d.used[r] + (next[r] - d.attempts[a].reservation[r])]
<1>c. c = [d EXCEPT !.used = u, !.attempts[a].reservation = next]
  BY <1>3, <1>4, Zenon DEF RecomputeReservation
<1> HIDE DEF u, next
<1>5. /\ c.leases = L /\ c.promise = b.promise /\ c.late = b.late /\ c.queue = b.queue
      /\ SameWorkers(b, c) /\ Shape(c)
      /\ c.used = [r \in Resources |-> b.used[r] + (next[r] - b.attempts[a].reservation[r])]
      /\ c.attempts = [b.attempts EXCEPT ![a].reservation = next]
  <2>1. /\ c.leases = d.leases /\ c.promise = d.promise /\ c.late = d.late
        /\ c.queue = d.queue /\ SameWorkers(d, c) /\ Shape(c)
        /\ c.used = u /\ c.attempts = [d.attempts EXCEPT ![a].reservation = next]
    BY <1>2, <1>c, Zenon DEF Shape, SameWorkers
  <2> QED BY <1>2, <2>1 DEF SameWorkers, u
<1> USE DEF K, L
<1>6. /\ Entries(c) = Entries(b) /\ Waiting(c) = Waiting(b)
      /\ \A e : EntriesOf(c, e) = EntriesOf(b, e)
  BY <1>5 DEF Entries, Waiting, EntriesOf
<1>7. LeasesOf(c, a) = K /\ \A e : e # a => LeasesOf(c, e) = LeasesOf(b, e)
  BY <1>5 DEF LeasesOf
<1>8. Freed(b, R, c)
  BY <1>5, <1>6 DEF Freed, SameQueue
<1>9. /\ IsFiniteSet(b.leases) /\ IsFiniteSet(L) /\ IsFiniteSet(R) /\ IsFiniteSet(K)
      /\ R \subseteq b.leases
  <2>1. IsFiniteSet(b.leases)
    BY <1>t, Fields
  <2>2. R \in SUBSET b.leases /\ L \in SUBSET b.leases /\ K \in SUBSET b.leases
    BY DEF LeasesOf
  <2> QED BY <2>1, <2>2, FS_Subset
<1>10. \A r \in Resources :
         /\ UnitsOf(b.leases, r) = UnitsOf(L, r) + UnitsOf(R, r)
         /\ UnitsOf(LeasesOf(b, a), r) = UnitsOf(K, r) + UnitsOf(R, r)
         /\ UnitsOf(L, r) \in Nat /\ UnitsOf(K, r) \in Nat /\ UnitsOf(R, r) \in Nat
  <2>1. b.leases = L \cup R /\ L \cap R = {}
    BY <1>9
  <2>2. LeasesOf(b, a) = K \cup R /\ K \cap R = {}
    OBVIOUS
  <2> HIDE DEF K, L
  <2>3. \A r \in Resources : UnitsOf(L \cup R, r) = UnitsOf(L, r) + UnitsOf(R, r)
    BY <1>9, <2>1, UnitsUnion
  <2>4. \A r \in Resources : UnitsOf(K \cup R, r) = UnitsOf(K, r) + UnitsOf(R, r)
    BY <1>9, <2>2, UnitsUnion
  <2>5. \A r \in Resources : UnitsOf(L, r) \in Nat /\ UnitsOf(K, r) \in Nat /\ UnitsOf(R, r) \in Nat
    BY <1>9, UnitsFinite
  <2> QED BY <2>1, <2>2, <2>3, <2>4, <2>5, Zenon
<1>11. \A r \in Resources : c.used[r] = UnitsOf(L, r)
  <2>1. \A r \in Resources : /\ b.used[r] = UnitsOf(b.leases, r)
                             /\ b.attempts[a].reservation[r] = UnitsOf(LeasesOf(b, a), r)
    BY <1>t DEF Counted
  <2>2. \A r \in Resources : c.used[r] = b.used[r] + (next[r] - b.attempts[a].reservation[r])
    BY <1>5
  <2>3. \A r \in Resources : next[r] = UnitsOf(K, r)
    BY DEF next
  <2> HIDE DEF K, L
  <2> QED BY <1>10, <2>1, <2>2, <2>3, SMTT(30)
<1>12. c.used \in Vector
  <2>1. DOMAIN c.used = Resources /\ c.used = [r \in DOMAIN c.used |-> c.used[r]]
    BY <1>5
  <2>2. \A r \in Resources : c.used[r] \in Nat
    BY <1>10, <1>11, Zenon
  <2> QED BY <2>1, <2>2 DEF Vector
<1>13. next \in Vector
  <2> HIDE DEF K
  <2> QED BY <1>10 DEF next, Vector
<1>14. /\ c.attempts \in [Attempts -> AttemptState]
       /\ \A e \in Attempts : e # a => c.attempts[e] = b.attempts[e]
       /\ \A e \in Attempts : /\ c.attempts[e].owner = b.attempts[e].owner
                              /\ c.attempts[e].queued = b.attempts[e].queued
       /\ c.attempts[a].reservation = next
  <2>1. b.attempts \in [Attempts -> AttemptState] /\ b.attempts[a] \in AttemptState
    BY <1>t, Fields
  <2>2. c.attempts[a] = [b.attempts[a] EXCEPT !.reservation = next]
    BY <1>5, <2>1
  <2>3. /\ c.attempts[a] \in AttemptState /\ c.attempts[a].owner = b.attempts[a].owner
        /\ c.attempts[a].queued = b.attempts[a].queued /\ c.attempts[a].reservation = next
    BY <1>13, <2>1, <2>2 DEF AttemptState
  <2>4. \A e \in Attempts : e # a => c.attempts[e] = b.attempts[e]
    BY <1>5, <2>1
  <2>5. c.attempts \in [Attempts -> AttemptState]
    BY <1>5, <2>1, <2>3
  <2> QED BY <2>3, <2>4, <2>5
<1> HIDE DEF K, L
<1>15. Typed(c)
  <2>1. c.leases \subseteq Lease
    BY <1>t, <1>5, Fields DEF L
  <2>2. c \in BrokerState
    BY <1>t, <1>5, <1>12, <1>14, <2>1, Fields, MakeState, Zenon DEF SameWorkers
  <2> QED BY <1>5, <1>9, <2>2 DEF Typed
<1>16. Identified(c)
  BY <1>t, <1>5, <1>6 DEF Identified, L
<1>17. Owned(c)
  <2>1. \A l \in b.leases : c.attempts[l.attempt].owner = l.owner
    BY <1>t, <1>14, Members DEF Owned
  <2>2. \A p \in Entries(b) : c.attempts[p.attempt].owner = p.owner
    BY <1>t, <1>14, Members DEF Owned
  <2> QED BY <1>5, <1>6, <2>1, <2>2 DEF Owned, L
<1>18. Bounded(c)
  <2>1. \A r \in Resources : c.used[r] <= Capacity[r]
    <3>1. \A r \in Resources : b.used[r] = UnitsOf(b.leases, r) /\ b.used[r] <= Capacity[r]
      BY <1>t DEF Counted, Bounded
    <3>2. \A r \in Resources : Capacity[r] \in Nat
      BY CapacityAssumption
    <3> QED BY <1>10, <1>11, <3>1, <3>2, SMTT(30)
  <2> QED BY <1>t, <1>5, <1>6, <2>1, SMTT(30) DEF Bounded, L
<1>19. Counted(c)
  <2>1. \A e \in Attempts : c.attempts[e].queued = Cardinality(EntriesOf(c, e))
    BY <1>t, <1>6, <1>14 DEF Counted
  <2>2. \A r \in Resources : c.attempts[a].reservation[r] = UnitsOf(LeasesOf(c, a), r)
    BY <1>7, <1>14, SMTT(30) DEF next
  <2>3. \A e \in Attempts, r \in Resources :
          e # a => c.attempts[e].reservation[r] = UnitsOf(LeasesOf(c, e), r)
    BY <1>t, <1>7, <1>14 DEF Counted
  <2> QED BY <1>5, <1>11, <2>1, <2>2, <2>3, SMTT(30) DEF Counted
<1>20. Tidy(b, Attempts, Requests) => Tidy(c, Attempts \ {a}, Requests)
  BY <1>5, <1>6, <1>7, <1>14 DEF Tidy
<1> QED BY <1>8, <1>15, <1>16, <1>17, <1>18, <1>19, <1>20 DEF Sound

-----------------------------------------------------------------------------
(* The remaining pieces of the methods. *)

\* Everything but the connected workers is the same.
SameButWorkers(b, c) ==
  /\ c.attempts = b.attempts /\ c.leases = b.leases /\ c.queue = b.queue /\ c.used = b.used
  /\ c.late = b.late /\ c.promise = b.promise /\ Shape(c)
  /\ c.workers \in [Workers -> Nat \cup {NoEpoch}]
  /\ c.highestEpoch \in [Workers -> Nat \cup {NoEpoch}]

\* Connecting or forgetting a worker does not touch the schedule.
LEMMA WorkersGood ==
  ASSUME NEW b, Good(b), NEW c, SameButWorkers(b, c)
  PROVE  Good(c) /\ \A O : OwnersIn(b, O) => OwnersIn(c, O)
<1>1. Typed(b) /\ Sound(b) /\ Tidy(b, Attempts, Requests)
  BY DEF Good, Sound
<1>2. /\ Entries(c) = Entries(b) /\ Waiting(c) = Waiting(b)
      /\ \A a : EntriesOf(c, a) = EntriesOf(b, a) /\ LeasesOf(c, a) = LeasesOf(b, a)
  BY DEF SameButWorkers, Entries, Waiting, EntriesOf, LeasesOf
<1>3. Typed(c)
  <2>1. c \in BrokerState
    BY <1>1, Fields, MakeState, Zenon DEF SameButWorkers
  <2> QED BY <1>1, <2>1 DEF Typed, SameButWorkers
<1>4. Identified(c)
  BY <1>1, <1>2 DEF Sound, Identified, SameButWorkers
<1>5. Owned(c) /\ Bounded(c)
  BY <1>1, <1>2 DEF Sound, Owned, Bounded, SameButWorkers
<1>6. Counted(c)
  BY <1>1, <1>2 DEF Sound, Counted, SameButWorkers
<1>7. Tidy(c, Attempts, Requests)
  BY <1>1, <1>2 DEF Tidy, SameButWorkers
<1>8. \A O : OwnersIn(b, O) => OwnersIn(c, O)
  BY <1>2 DEF OwnersIn, SameButWorkers
<1> QED BY <1>3, <1>4, <1>5, <1>6, <1>7, <1>8 DEF Good, Sound

\* #attempt returns an entry that belongs to the caller.
LEMMA WithAttemptSound ==
  ASSUME NEW b, Good(b), NEW who \in Identity, NEW a \in Attempts,
         b.attempts[a] = Absent \/ b.attempts[a].owner = who
  PROVE  /\ Sound(WithAttempt(b, who, a)) /\ SameButAttempts(b, WithAttempt(b, who, a))
         /\ Tidy(WithAttempt(b, who, a), Attempts \ {a}, Requests)
         /\ WithAttempt(b, who, a).attempts[a].owner = who
<1> SUFFICES ASSUME NEW c, c = WithAttempt(b, who, a)
             PROVE  /\ Sound(c) /\ SameButAttempts(b, c)
                    /\ Tidy(c, Attempts \ {a}, Requests) /\ c.attempts[a].owner = who
  OBVIOUS
<1>t. Typed(b) /\ Sound(b) /\ Tidy(b, Attempts, Requests)
  BY DEF Good, Sound
<1>1. Shape(b)
  BY <1>t, Fields
<1>2. CASE b.attempts[a] # Absent
  <2>1. c = b
    BY <1>2 DEF WithAttempt
  <2> QED BY <1>t, <1>1, <1>2, <2>1 DEF SameButAttempts, SameWorkers, Tidy
<1>3. CASE b.attempts[a] = Absent
  <2>1. c = [b EXCEPT !.attempts[a].owner = who]
    BY <1>3 DEF WithAttempt
  <2>2. /\ c.leases = b.leases /\ c.promise = b.promise /\ c.used = b.used
        /\ c.queue = b.queue /\ c.late = b.late /\ SameWorkers(b, c) /\ Shape(c)
        /\ c.attempts = [b.attempts EXCEPT ![a].owner = who]
    BY <1>1, <2>1 DEF Shape, SameWorkers
  <2>3. /\ Entries(c) = Entries(b) /\ Waiting(c) = Waiting(b)
        /\ \A d : EntriesOf(c, d) = EntriesOf(b, d) /\ LeasesOf(c, d) = LeasesOf(b, d)
    BY <2>2 DEF Entries, Waiting, EntriesOf, LeasesOf
  <2>4. /\ c.attempts \in [Attempts -> AttemptState] /\ c.attempts[a].owner = who
        /\ \A d \in Attempts \ {a} : c.attempts[d] = b.attempts[d]
        /\ \A d \in Attempts : /\ c.attempts[d].reservation = b.attempts[d].reservation
                               /\ c.attempts[d].queued = b.attempts[d].queued
    <3>1. b.attempts \in [Attempts -> AttemptState] /\ b.attempts[a] \in AttemptState
      BY <1>t, Fields
    <3>2. c.attempts[a] = [b.attempts[a] EXCEPT !.owner = who]
      BY <2>2, <3>1
    <3>3. /\ c.attempts[a] \in AttemptState /\ c.attempts[a].owner = who
          /\ c.attempts[a].reservation = b.attempts[a].reservation
          /\ c.attempts[a].queued = b.attempts[a].queued
      BY <3>1, <3>2 DEF AttemptState
    <3>4. \A d \in Attempts \ {a} : c.attempts[d] = b.attempts[d]
      BY <2>2, <3>1
    <3>5. c.attempts \in [Attempts -> AttemptState]
      BY <2>2, <3>1, <3>3
    <3> QED BY <3>3, <3>4, <3>5
  <2>5. EntriesOf(b, a) = {} /\ LeasesOf(b, a) = {}
    BY <1>t, <1>3, AbsentByOwner
  <2>6. Typed(c)
    <3>1. c \in BrokerState
      BY <1>t, <2>2, <2>4, Fields, MakeState DEF SameWorkers
    <3> QED BY <1>t, <2>2, <3>1 DEF Typed
  <2>7. Identified(c) /\ Bounded(c)
    BY <1>t, <2>2, <2>3 DEF Sound, Identified, Bounded
  <2>8. Owned(c)
    <3>1. \A l \in b.leases : l.attempt \in Attempts \ {a} /\ b.attempts[l.attempt].owner = l.owner
      BY <1>t, <2>5, Members DEF LeasesOf, Sound, Owned
    <3>2. \A p \in Entries(b) : p.attempt \in Attempts \ {a} /\ b.attempts[p.attempt].owner = p.owner
      BY <1>t, <2>5, Members DEF EntriesOf, Sound, Owned
    <3> QED BY <2>2, <2>3, <2>4, <3>1, <3>2 DEF Owned
  <2>9. Counted(c)
    BY <1>t, <2>2, <2>3, <2>4 DEF Sound, Counted
  <2>10. Tidy(c, Attempts \ {a}, Requests)
    BY <1>t, <2>2, <2>3, <2>4 DEF Tidy
  <2> QED BY <2>2, <2>3, <2>4, <2>6, <2>7, <2>8, <2>9, <2>10 DEF Sound, SameButAttempts
<1> QED BY <1>2, <1>3

\* A request that joins the queue is counted and can be told from all others.
LEMMA EnqueueGood ==
  ASSUME NEW b, Sound(b), NEW who \in Identity, NEW a \in Attempts, b.attempts[a].owner = who,
         Tidy(b, Attempts \ {a}, Requests), NEW q \in Requests, q \notin Waiting(b),
         \A l \in b.leases : l.id # q,
         NEW v \in Vector, \A r \in Resources : v[r] <= Capacity[r]
  PROVE  /\ Good(Enqueue(b, who, a, q, v)) /\ SameWorkers(b, Enqueue(b, who, a, q, v))
         /\ \A O : OwnersIn(b, O) /\ who \in O => OwnersIn(Enqueue(b, who, a, q, v), O)
<1> SUFFICES ASSUME NEW c, c = Enqueue(b, who, a, q, v)
             PROVE  /\ Good(c) /\ SameWorkers(b, c)
                    /\ \A O : OwnersIn(b, O) /\ who \in O => OwnersIn(c, O)
  OBVIOUS
<1>t. Typed(b) /\ Identified(b) /\ Owned(b) /\ Bounded(b) /\ Counted(b)
  BY DEF Sound
<1> DEFINE x == [id |-> q, attempt |-> a, owner |-> who, res |-> v]
<1>1. Shape(b)
  BY <1>t, Fields
<1>2. /\ c.leases = b.leases /\ c.used = b.used /\ c.late = b.late
      /\ SameWorkers(b, c) /\ Shape(c)
      /\ c.attempts = [b.attempts EXCEPT ![a].queued = @ + 1]
      /\ c.queue = Append(b.queue, x)
      /\ c.promise = [b.promise EXCEPT ![q] = "waiting"]
  BY <1>1, Zenon DEF Enqueue, Shape, SameWorkers
<1>x. x \in Pending /\ x.id = q /\ x.attempt = a /\ x.owner = who /\ x.res = v
  BY DEF Pending
<1> HIDE DEF x
<1>3. /\ b.queue \in Seq(Pending) /\ DOMAIN b.queue = 1..Len(b.queue) /\ Len(b.queue) \in Nat
      /\ b.attempts \in [Attempts -> AttemptState]
      /\ b.promise \in [Requests -> {"unused", "waiting", "granted", "rejected"}]
  BY <1>t, Fields
<1>4. /\ c.queue \in Seq(Pending) /\ DOMAIN c.queue = 1..(Len(b.queue) + 1)
      /\ \A i \in DOMAIN b.queue : c.queue[i] = b.queue[i]
      /\ c.queue[Len(b.queue) + 1] = x
  BY <1>2, <1>3, <1>x
<1>5. Entries(c) = Entries(b) \cup {x}
  BY <1>3, <1>4 DEF Entries
<1>6. x \notin Entries(b) /\ Waiting(c) = Waiting(b) \cup {q}
  BY <1>5, <1>x DEF Waiting
<1>7. /\ EntriesOf(c, a) = EntriesOf(b, a) \cup {x} /\ x \notin EntriesOf(b, a)
      /\ \A d \in Attempts \ {a} : EntriesOf(c, d) = EntriesOf(b, d)
      /\ \A d : LeasesOf(c, d) = LeasesOf(b, d)
  BY <1>2, <1>5, <1>6, <1>x DEF EntriesOf, LeasesOf
<1>8. Cardinality(EntriesOf(c, a)) = b.attempts[a].queued + 1
  <2>1. IsFiniteSet(EntriesOf(b, a)) /\ b.attempts[a].queued = Cardinality(EntriesOf(b, a))
    BY <1>t, EntriesFinite DEF Counted
  <2> QED BY <1>7, <2>1, FS_AddElement
<1>9. /\ c.attempts \in [Attempts -> AttemptState]
      /\ c.attempts[a].queued = b.attempts[a].queued + 1
      /\ \A d \in Attempts \ {a} : c.attempts[d] = b.attempts[d]
      /\ \A d \in Attempts : /\ c.attempts[d].reservation = b.attempts[d].reservation
                             /\ c.attempts[d].owner = b.attempts[d].owner
  <2>1. b.attempts[a] \in AttemptState
    BY <1>3
  <2>2. c.attempts[a] = [b.attempts[a] EXCEPT !.queued = @ + 1]
    BY <1>2, <1>3
  <2>3. /\ c.attempts[a] \in AttemptState /\ c.attempts[a].queued = b.attempts[a].queued + 1
        /\ c.attempts[a].reservation = b.attempts[a].reservation
        /\ c.attempts[a].owner = b.attempts[a].owner
    BY <2>1, <2>2 DEF AttemptState
  <2>4. \A d \in Attempts \ {a} : c.attempts[d] = b.attempts[d]
    BY <1>2, <1>3
  <2>5. c.attempts \in [Attempts -> AttemptState]
    BY <1>2, <1>3, <2>3
  <2> QED BY <2>3, <2>4, <2>5
<1>10. /\ c.promise \in [Requests -> {"unused", "waiting", "granted", "rejected"}]
       /\ c.promise[q] = "waiting" /\ \A y \in Requests \ {q} : c.promise[y] = b.promise[y]
  BY <1>2, <1>3
<1>11. Typed(c)
  <2>1. c \in BrokerState
    BY <1>t, <1>2, <1>4, <1>9, <1>10, Fields, MakeState DEF SameWorkers
  <2> QED BY <1>t, <1>2, <2>1 DEF Typed
<1>12. Identified(c)
  <2>1. \A p \in Entries(b) : p.id \in Requests \ {q}
    BY <1>t, Members DEF Waiting
  <2>2. \A l \in b.leases : l.id \in Requests \ {q}
    BY <1>t, Members
  <2>3. \A p \in Entries(c) : c.promise[p.id] = "waiting"
    BY <1>t, <1>5, <1>10, <1>x, <2>1 DEF Identified
  <2>4. \A l \in c.leases : c.promise[l.id] = "granted"
    BY <1>t, <1>2, <1>10, <2>2 DEF Identified
  <2>5. \A i, j \in DOMAIN c.queue : c.queue[i].id = c.queue[j].id => i = j
    <3>1. \A i \in DOMAIN c.queue : i \in DOMAIN b.queue \/ i = Len(b.queue) + 1
      BY <1>3, <1>4
    <3>2. \A i \in DOMAIN b.queue : b.queue[i].id # q
      BY <2>1 DEF Entries
    <3>3. \A i, j \in DOMAIN b.queue : b.queue[i].id = b.queue[j].id => i = j
      BY <1>t DEF Identified
    <3> QED BY <1>4, <1>x, <3>1, <3>2, <3>3
  <2> QED BY <1>t, <1>2, <1>6, <2>3, <2>4, <2>5 DEF Identified
<1>13. Owned(c)
  <2>1. \A l \in b.leases : c.attempts[l.attempt].owner = l.owner
    BY <1>t, <1>9, Members DEF Owned
  <2>2. \A p \in Entries(b) : c.attempts[p.attempt].owner = p.owner
    BY <1>t, <1>9, Members DEF Owned
  <2> QED BY <1>2, <1>5, <1>9, <1>x, <2>1, <2>2 DEF Owned
<1>14. Bounded(c)
  BY <1>t, <1>2, <1>5, <1>x DEF Bounded
<1>15. Counted(c)
  <2>1. \A d \in Attempts : c.attempts[d].queued = Cardinality(EntriesOf(c, d))
    <3>1. \A d \in Attempts \ {a} : c.attempts[d].queued = Cardinality(EntriesOf(c, d))
      BY <1>t, <1>7, <1>9 DEF Counted
    <3> QED BY <1>8, <1>9, <3>1
  <2> QED BY <1>t, <1>2, <1>7, <1>9, <2>1 DEF Counted
<1>16. Tidy(c, Attempts, Requests)
  <2>1. EntriesOf(c, a) # {}
    BY <1>7
  <2>2. \A d \in Attempts \ {a} :
          c.attempts[d] = Absent \/ EntriesOf(c, d) # {} \/ LeasesOf(c, d) # {}
    BY <1>7, <1>9 DEF Tidy
  <2>3. \A y \in Requests : c.promise[y] = "waiting" => y \in Waiting(c)
    BY <1>6, <1>10 DEF Tidy
  <2> QED BY <2>1, <2>2, <2>3 DEF Tidy
<1>17. \A O : OwnersIn(b, O) /\ who \in O => OwnersIn(c, O)
  BY <1>2, <1>5, <1>x DEF OwnersIn
<1> QED BY <1>2, <1>11, <1>12, <1>13, <1>14, <1>15, <1>16, <1>17 DEF Good, Sound
=============================================================================
