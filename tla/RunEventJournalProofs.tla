------------------------ MODULE RunEventJournalProofs -----------------------
(***************************************************************************)
(* What the journal hands to its sink, proved for every number of          *)
(* producers and events and for every limit.                               *)
(***************************************************************************)
EXTENDS RunEventJournal, WellFoundedInduction, TLAPS

\* Every ordinal that occurs is a natural number below next, and one entry has it.
Ordinals ==
  /\ next \in Nat /\ sealed \in Int /\ flushed \in Int
  /\ -1 <= flushed /\ flushed <= sealed /\ sealed < next
  /\ accepted \subseteq Entry
  /\ \A x \in accepted : x.ord < next
  /\ \A x, y \in accepted : x.ord = y.ord => x = y

\* A gap stands where an evicted diagnostic was; the open one is not sealed yet.
GapOrdinals ==
  /\ \A g \in gaps \cup DeliveredGaps : \E x \in evicted : x.ord = g.ord
  /\ \A g \in gaps : g.ord <= sealed
  /\ openGap # None => openGap.ord > sealed /\ \E x \in evicted : x.ord = openGap.ord

\* What may still be replaced is not sealed.
CurrentUnsealed ==
  /\ current \in [Keys -> Nat \cup {None}]
  /\ \A k \in Keys : current[k] # None => current[k] < next
  /\ \A k \in Keys : \A x \in entries :
       current[k] # None /\ x.ord = current[k] => x.ord > sealed /\ x.class = "state"

\* The barriers that are left lie between what is flushed and what is sealed.
BarrierMarks == \A b \in barriers : b.mark \in Int /\ flushed <= b.mark /\ b.mark <= sealed

\* The journal still holds the batch that is with the sink, and nothing else below its mark.
FlightCurrent ==
  flight # None =>
    /\ flight.mark \in Int /\ flushed <= flight.mark /\ flight.mark <= sealed
    /\ flight.entries = Through(entries, flight.mark)
    /\ flight.gaps = Through(gaps, flight.mark)

\* flushedThrough separates what was delivered from what waits.
FlushedSplits ==
  /\ \A x \in entries \cup gaps : x.ord > flushed
  /\ \A x \in DeliveredEntries \cup DeliveredGaps : x.ord <= flushed

Stamped ==
  /\ lastStamp \in [Producers -> Nat]
  /\ \A x \in accepted : x.stamp <= lastStamp[x.producer]

HistorySeq == \E B : delivered \in Seq(B)

IInv ==
  /\ Ordinals /\ GapOrdinals /\ CurrentUnsealed /\ BarrierMarks /\ FlightCurrent
  /\ FlushedSplits /\ Stamped /\ HistorySeq
  /\ NothingLost /\ DeliveredInOrder /\ ProducerOrder

-----------------------------------------------------------------------------
(* Helpers. *)

\* The smallest ordinal of a nonempty set is one of the set.
LEMMA MinIsMember ==
  ASSUME NEW S \in SUBSET Nat, S # {}
  PROVE  Min(S) \in S
<1>1. PICK m \in S : \A n \in S : ~(<<n, m>> \in OpToRel(<, Nat))
  BY WFMin, NatLessThanWellFounded
<1>2. ASSUME NEW n \in S PROVE m <= n
  <2>1. n \in Nat /\ m \in Nat
    OBVIOUS
  <2>2. n < m => <<n, m>> \in OpToRel(<, Nat)
    BY <2>1 DEF OpToRel
  <2>3. ~(n < m)
    BY <1>1, <2>2, Zenon
  <2> QED BY <2>1, <2>3
<1>3. \E x \in S : \A y \in S : x <= y
  BY <1>2
<1> QED BY <1>3 DEF Min

\* What Append adds to a sequence of batches.
LEMMA AppendBatch ==
  ASSUME NEW B, NEW s \in Seq(B), NEW b
  PROVE  /\ DOMAIN Append(s, b) = DOMAIN s \cup {Len(s) + 1}
         /\ Append(s, b)[Len(s) + 1] = b
         /\ \A i \in DOMAIN s : i \in Int /\ i < Len(s) + 1 /\ Append(s, b)[i] = s[i]
<1>1. Len(s) \in Nat /\ DOMAIN s = 1..Len(s)
  OBVIOUS
<1> QED BY <1>1

-----------------------------------------------------------------------------
(* An append: e comes in and the unsealed entries of D go. *)

Appended(e, D) ==
  /\ InOrder(e)
  /\ Accept(e)
  /\ D \subseteq entries
  /\ \A x \in D : x.ord > sealed
  /\ entries' = (entries \ D) \cup {EntryOf(e)}
  /\ \/ evicted' = evicted /\ replaced' = replaced \cup D /\ \A x \in D : x.class = "state"
     \/ evicted' = evicted \cup D /\ replaced' = replaced /\ \A x \in D : x.class = "diagnostic"
  /\ \/ openGap' = openGap
     \/ openGap'.ord > sealed /\ \E x \in evicted' : x.ord = openGap'.ord
  /\ \/ current' = current
     \/ e.class = "state" /\ \E k \in Keys : current' = [current EXCEPT ![k] = next]

LEMMA AppendedOrdinals ==
  ASSUME IInv, NEW e \in Event, NEW D, Appended(e, D)
  PROVE  Ordinals' /\ EntryOf(e).ord = next /\ EntryOf(e) \notin accepted /\ EntryOf(e) \in Entry
<1>1. Ordinals
  BY DEF IInv
<1>2. EntryOf(e) \in Entry /\ EntryOf(e).ord = next
  BY <1>1 DEF EntryOf, Event, Entry, Ordinals
<1>3. \A x \in accepted : x.ord \in Nat /\ x.ord # next
  BY <1>1 DEF Ordinals, Entry
<1>4. accepted' = accepted \cup {EntryOf(e)} /\ next' = next + 1
  BY DEF Appended, Accept
<1>5. sealed' = sealed /\ flushed' = flushed
  BY DEF Appended, Accept
<1> QED BY <1>1, <1>2, <1>3, <1>4, <1>5 DEF Ordinals

\* Every entry and every gap has an ordinal of an accepted event.
LEMMA Ords ==
  ASSUME IInv
  PROVE  /\ \A x \in entries \cup DeliveredEntries \cup evicted \cup replaced :
              x \in accepted /\ x.ord \in Nat /\ x.ord < next
         /\ \A g \in gaps \cup DeliveredGaps : g.ord \in Nat /\ g.ord < next
<1>1. \A x \in accepted : x.ord \in Nat /\ x.ord < next
  BY DEF IInv, Ordinals, Entry
<1>2. \A x \in entries \cup DeliveredEntries \cup evicted \cup replaced : x \in accepted
  BY DEF IInv, NothingLost
<1>3. \A g \in gaps \cup DeliveredGaps : \E x \in evicted : x.ord = g.ord
  BY DEF IInv, GapOrdinals
<1> QED BY <1>1, <1>2, <1>3

\* No append changes what has been delivered.
LEMMA AppendedHistory ==
  ASSUME NEW e, NEW D, Appended(e, D)
  PROVE  /\ delivered' = delivered /\ gaps' = gaps /\ barriers' = barriers /\ flight' = flight
         /\ sealed' = sealed /\ flushed' = flushed
         /\ DeliveredEntries' = DeliveredEntries /\ DeliveredGaps' = DeliveredGaps
<1>1. /\ delivered' = delivered /\ gaps' = gaps /\ barriers' = barriers /\ flight' = flight
      /\ sealed' = sealed /\ flushed' = flushed
  BY DEF Appended, Accept
<1> QED BY <1>1 DEF DeliveredEntries, DeliveredGaps

\* Below the sealed mark an append changes nothing.
LEMMA AppendedThrough ==
  ASSUME IInv, NEW e \in Event, NEW D, Appended(e, D), NEW m \in Int, m <= sealed
  PROVE  Through(entries', m) = Through(entries, m)
<1>1. sealed \in Int /\ next \in Nat /\ sealed < next
  BY DEF IInv, Ordinals
<1>2. EntryOf(e).ord = next
  BY AppendedOrdinals
<1>3. entries' = (entries \ D) \cup {EntryOf(e)} /\ \A x \in D : x \in entries /\ x.ord > sealed
  BY DEF Appended
<1>4. \A x \in entries : x.ord \in Nat
  BY Ords
<1>5. ~(next <= m) /\ \A x \in D : ~(x.ord <= m)
  BY <1>1, <1>3, <1>4
<1> QED BY <1>2, <1>3, <1>5, Zenon DEF Through

LEMMA AppendedPreserves ==
  ASSUME IInv, NEW e \in Event, NEW D, Appended(e, D)
  PROVE  IInv'
<1> DEFINE new == EntryOf(e)
<1>1. /\ delivered' = delivered /\ gaps' = gaps /\ barriers' = barriers /\ flight' = flight
      /\ sealed' = sealed /\ flushed' = flushed
      /\ DeliveredEntries' = DeliveredEntries /\ DeliveredGaps' = DeliveredGaps
  BY AppendedHistory
<1>2. Ordinals' /\ new.ord = next /\ new \notin accepted /\ new \in Entry
  BY AppendedOrdinals
<1>3. entries' = (entries \ D) \cup {new} /\ accepted' = accepted \cup {new}
  BY DEF Appended, Accept
<1>4. sealed \in Int /\ flushed \in Int /\ next \in Nat /\ flushed <= sealed /\ sealed < next
  BY DEF IInv, Ordinals
<1>5. evicted \subseteq evicted' /\ D \subseteq entries
  BY DEF Appended
<1>6. new.class = e.class /\ new.producer = e.producer /\ new.stamp = e.stamp
  BY DEF EntryOf
<1> HIDE DEF new
<1>7. GapOrdinals'
  BY <1>1, <1>5 DEF IInv, GapOrdinals, Appended
<1>8. CurrentUnsealed'
  <2>1. CurrentUnsealed
    BY DEF IInv
  <2>2. \A x \in entries : x.ord \in Nat /\ x.ord < next
    BY Ords
  <2>3. /\ current' \in [Keys -> Nat \cup {None}]
        /\ \A k \in Keys : current'[k] # None => current'[k] < next'
    <3>1. next' = next + 1
      BY DEF Appended, Accept
    <3>2. \A k \in Keys : current[k] # None => current[k] \in Nat /\ current[k] < next'
      BY <1>4, <2>1, <3>1 DEF CurrentUnsealed
    <3> QED BY <1>4, <2>1, <3>1, <3>2 DEF Appended, CurrentUnsealed
  <2> SUFFICES ASSUME NEW k \in Keys, NEW x \in entries', current'[k] # None, x.ord = current'[k]
               PROVE  x.ord > sealed /\ x.class = "state"
    BY <1>1, <2>3 DEF CurrentUnsealed
  <2>4. CASE current' = current
    <3>1. current[k] \in Nat /\ current[k] < next
      BY <2>1, <2>4 DEF CurrentUnsealed
    <3>2. x \in entries
      BY <1>2, <1>3, <1>4, <2>4, <3>1
    <3> QED BY <2>1, <2>4, <3>2 DEF CurrentUnsealed
  <2>5. ASSUME NEW j \in Keys, e.class = "state", current' = [current EXCEPT ![j] = next]
        PROVE  x.ord > sealed /\ x.class = "state"
    <3>1. CASE k = j
      <4>1. x.ord = next
        BY <2>1, <2>5, <3>1 DEF CurrentUnsealed
      <4>2. x = new
        BY <1>3, <2>2, <4>1
      <4> QED BY <1>4, <1>6, <2>5, <4>1, <4>2
    <3>2. CASE k # j
      <4>1. current'[k] = current[k]
        BY <2>1, <2>5, <3>2 DEF CurrentUnsealed
      <4>2. CASE x = new
        BY <1>2, <1>4, <1>6, <2>5, <4>2
      <4>3. CASE x \in entries
        BY <2>1, <4>1, <4>3 DEF CurrentUnsealed
      <4> QED BY <1>3, <4>2, <4>3
    <3> QED BY <3>1, <3>2
  <2> QED BY <2>4, <2>5 DEF Appended
<1>9. BarrierMarks'
  BY <1>1 DEF IInv, BarrierMarks
<1>10. FlightCurrent'
  <2>1. CASE flight = None
    BY <1>1, <2>1 DEF FlightCurrent
  <2>2. CASE flight # None
    <3>1. /\ flight.mark \in Int /\ flushed <= flight.mark /\ flight.mark <= sealed
          /\ flight.entries = Through(entries, flight.mark)
          /\ flight.gaps = Through(gaps, flight.mark)
      BY <2>2 DEF IInv, FlightCurrent
    <3>2. Through(entries', flight.mark) = Through(entries, flight.mark)
      BY <3>1, AppendedThrough
    <3> QED BY <1>1, <3>1, <3>2 DEF FlightCurrent
  <2> QED BY <2>1, <2>2
<1>11. FlushedSplits'
  BY <1>1, <1>2, <1>3, <1>4 DEF IInv, FlushedSplits
<1>12. Stamped'
  <2>1. /\ lastStamp' = [lastStamp EXCEPT ![e.producer] = e.stamp]
        /\ e.stamp > lastStamp[e.producer]
    BY DEF Appended, Accept, InOrder
  <2>2. e.stamp \in Nat /\ e.producer \in Producers
    BY StampsAssumption DEF Event
  <2>3. \A x \in accepted : x.producer \in Producers /\ x.stamp \in Nat
    BY StampsAssumption DEF IInv, Ordinals, Entry
  <2>4. Stamped
    BY DEF IInv
  <2> QED BY <1>3, <1>6, <2>1, <2>2, <2>3, <2>4 DEF Stamped
<1>13. HistorySeq'
  BY <1>1 DEF IInv, HistorySeq
<1>14. NothingLost'
  <2>1. NothingLost
    BY DEF IInv
  <2>2. new \notin entries /\ new \notin DeliveredEntries /\ new \notin evicted /\ new \notin replaced
    BY <1>2, <2>1 DEF NothingLost
  <2>3. evicted' \cup replaced' = (evicted \cup replaced) \cup D
    BY DEF Appended
  <2>4. D \cap DeliveredEntries = {}
    BY <1>5, <2>1 DEF NothingLost
  <2>5. (\A x \in evicted' : x.class = "diagnostic") /\ (\A x \in replaced' : x.class = "state")
    BY <2>1 DEF NothingLost, Appended
  <2>6. accepted' = entries' \cup DeliveredEntries \cup evicted' \cup replaced'
    BY <1>3, <1>5, <2>1, <2>3 DEF NothingLost
  <2>7. /\ entries' \cap DeliveredEntries = {}
        /\ (evicted' \cup replaced') \cap (entries' \cup DeliveredEntries) = {}
    BY <1>3, <1>5, <2>1, <2>2, <2>3, <2>4 DEF NothingLost
  <2> QED BY <1>1, <2>5, <2>6, <2>7 DEF NothingLost
<1>15. DeliveredInOrder'
  BY <1>1 DEF IInv, DeliveredInOrder
<1>16. ProducerOrder'
  <2>1. e.stamp > lastStamp[e.producer] /\ e.stamp \in Nat /\ e.producer \in Producers
    BY StampsAssumption DEF Appended, InOrder, Event
  <2>2. \A x \in accepted : x.ord \in Nat /\ x.ord < next /\ x.stamp \in Nat
    BY StampsAssumption DEF IInv, Ordinals, Entry
  <2>3. Stamped /\ ProducerOrder
    BY DEF IInv
  <2> SUFFICES ASSUME NEW x \in accepted', NEW y \in accepted', x.producer = y.producer,
                      x.ord < y.ord
               PROVE  x.stamp < y.stamp
    BY DEF ProducerOrder
  <2>4. CASE x \in accepted /\ y \in accepted
    BY <2>3, <2>4 DEF ProducerOrder
  <2>5. CASE x \in accepted /\ y = new
    BY <1>6, <2>1, <2>2, <2>3, <2>5 DEF Stamped
  <2>6. CASE x = new
    BY <1>2, <1>3, <1>4, <2>2, <2>6
  <2> QED BY <1>3, <2>4, <2>5, <2>6
<1> QED
  BY <1>2, <1>7, <1>8, <1>9, <1>10, <1>11, <1>12, <1>13, <1>14, <1>15, <1>16 DEF IInv

\* An authoritative event drops nothing.
LEMMA AuthoritativeAppends ==
  ASSUME NEW e \in Event, AppendAuthoritative(e)
  PROVE  Appended(e, {})
BY DEF AppendAuthoritative, Appended

\* A state event drops at most the entry that is current for its key.
LEMMA StateAppends ==
  ASSUME IInv, NEW e \in Event, AppendState(e)
  PROVE  Appended(e, Previous(e.key))
<1>1. e.key \in Keys
  BY DEF AppendState, Event
<1>2. \A x \in Previous(e.key) : x \in entries /\ x.ord > sealed /\ x.class = "state"
  BY <1>1 DEF IInv, CurrentUnsealed, Previous
<1>3. e.class = "state" /\ current' = [current EXCEPT ![e.key] = next]
  BY DEF AppendState
<1>4. /\ InOrder(e) /\ Accept(e)
      /\ entries' = (entries \ Previous(e.key)) \cup {EntryOf(e)}
      /\ replaced' = replaced \cup Previous(e.key)
      /\ openGap' = openGap /\ evicted' = evicted
  BY DEF AppendState
<1> QED BY <1>1, <1>2, <1>3, <1>4, Zenon DEF Appended

\* A diagnostic drops the oldest unsealed ones, and the gap begins with one of them.
LEMMA DiagnosticAppends ==
  ASSUME IInv, NEW e \in Event, AppendDiagnostic(e)
  PROVE  \E D : Appended(e, D)
<1>1. PICK D \in Oldest :
        /\ InOrder(e) /\ Accept(e)
        /\ entries' = (entries \ D) \cup {EntryOf(e)}
        /\ evicted' = evicted \cup D
        /\ openGap' = Recorded(D)
        /\ current' = current /\ replaced' = replaced
  BY DEF AppendDiagnostic
<1>2. \A x \in D : x \in entries /\ x.ord > sealed /\ x.class = "diagnostic"
  BY DEF Oldest, Candidates
<1>3. \/ openGap' = openGap
      \/ openGap'.ord > sealed /\ \E x \in evicted' : x.ord = openGap'.ord
  <2> DEFINE ords == {x.ord : x \in D}
  <2>1. CASE D = {}
    BY <1>1, <2>1 DEF Recorded
  <2>2. CASE D # {} /\ openGap = None
    <3>1. ords # {} /\ ords \in SUBSET Nat
      BY <1>2, <2>2, Ords
    <3>2. Min(ords) \in ords
      BY <3>1, MinIsMember
    <3>3. openGap'.ord = Min(ords)
      BY <1>1, <2>2 DEF Recorded
    <3> QED BY <1>1, <1>2, <3>2, <3>3
  <2>3. CASE D # {} /\ openGap # None
    <3>1. openGap'.ord = openGap.ord
      BY <1>1, <2>3 DEF Recorded
    <3>2. openGap.ord > sealed /\ \E x \in evicted : x.ord = openGap.ord
      BY <2>3 DEF IInv, GapOrdinals
    <3> QED BY <1>1, <3>1, <3>2
  <2> QED BY <2>1, <2>2, <2>3
<1>4. Appended(e, D)
  BY <1>1, <1>2, <1>3, Zenon DEF Appended
<1> QED BY <1>4

-----------------------------------------------------------------------------
(* The other steps. *)

\* A barrier moves the sealed mark up to the newest ordinal.
LEMMA BarrierMark ==
  ASSUME IInv, NEW size, Barrier(size)
  PROVE  sealed' = next - 1 /\ sealed <= next - 1
BY DEF IInv, Ordinals, Barrier, SealedThrough, Greatest

\* The event that a barrier makes of the open gap lies behind all older barriers.
LEMMA SealedGapAbove ==
  ASSUME IInv, NEW size, NEW g \in SealedGap(size)
  PROVE  openGap # None /\ g.ord = openGap.ord /\ g.ord \in Nat /\ g.ord > sealed /\ g.ord < next
<1>1. openGap # None /\ g.ord = openGap.ord
  BY DEF SealedGap
<1>2. openGap.ord > sealed /\ \E x \in evicted : x.ord = openGap.ord
  BY <1>1 DEF IInv, GapOrdinals
<1> QED BY <1>1, <1>2, Ords

\* Below an older mark a barrier changes nothing.
LEMMA BarrierThrough ==
  ASSUME IInv, NEW size, NEW m \in Int, m <= sealed
  PROVE  Through(gaps \cup SealedGap(size), m) = Through(gaps, m)
<1>1. \A g \in SealedGap(size) : ~(g.ord <= m)
  BY SealedGapAbove DEF IInv, Ordinals
<1> QED BY <1>1, Zenon DEF Through

LEMMA BarrierPreserves ==
  ASSUME IInv, NEW size, Barrier(size)
  PROVE  IInv'
<1>1. sealed' = next - 1 /\ sealed <= next - 1
  BY BarrierMark
<1>2. /\ current' = [k \in Keys |-> None] /\ gaps' = gaps \cup SealedGap(size) /\ openGap' = None
      /\ barriers' = barriers \cup {[token |-> nextToken, mark |-> next - 1]}
      /\ entries' = entries /\ next' = next /\ flushed' = flushed /\ flight' = flight
      /\ lastStamp' = lastStamp /\ accepted' = accepted /\ evicted' = evicted
      /\ replaced' = replaced /\ delivered' = delivered
  BY DEF Barrier
<1>3. DeliveredEntries' = DeliveredEntries /\ DeliveredGaps' = DeliveredGaps
  BY <1>2 DEF DeliveredEntries, DeliveredGaps
<1>4. next \in Nat /\ sealed \in Int /\ flushed \in Int /\ flushed <= sealed /\ sealed < next
  BY DEF IInv, Ordinals
<1>5. Ordinals'
  BY <1>1, <1>2, <1>4 DEF IInv, Ordinals
<1>6. GapOrdinals'
  <2>1. \A g \in SealedGap(size) : \E x \in evicted : x.ord = g.ord
    BY SealedGapAbove DEF IInv, GapOrdinals
  <2>2. \A g \in gaps \cup SealedGap(size) : g.ord <= next - 1
    BY <1>4, Ords, SealedGapAbove
  <2> QED BY <1>1, <1>2, <1>3, <2>1, <2>2 DEF IInv, GapOrdinals
<1>7. CurrentUnsealed'
  BY <1>2 DEF CurrentUnsealed
<1>8. BarrierMarks'
  <2> SUFFICES ASSUME NEW b \in barriers'
               PROVE  b.mark \in Int /\ flushed <= b.mark /\ b.mark <= next - 1
    BY <1>1, <1>2 DEF BarrierMarks
  <2>1. CASE b \in barriers
    BY <1>1, <1>4, <2>1 DEF IInv, BarrierMarks
  <2>2. CASE b.mark = next - 1
    BY <1>1, <1>4, <2>2
  <2> QED BY <1>2, <2>1, <2>2
<1>9. FlightCurrent'
  <2> SUFFICES ASSUME flight # None
               PROVE  /\ flight.mark \in Int /\ flushed <= flight.mark /\ flight.mark <= next - 1
                      /\ flight.entries = Through(entries, flight.mark)
                      /\ flight.gaps = Through(gaps \cup SealedGap(size), flight.mark)
    BY <1>1, <1>2 DEF FlightCurrent
  <2>1. /\ flight.mark \in Int /\ flushed <= flight.mark /\ flight.mark <= sealed
        /\ flight.entries = Through(entries, flight.mark)
        /\ flight.gaps = Through(gaps, flight.mark)
    BY DEF IInv, FlightCurrent
  <2>2. Through(gaps \cup SealedGap(size), flight.mark) = Through(gaps, flight.mark)
    BY <2>1, BarrierThrough
  <2> QED BY <1>1, <1>4, <2>1, <2>2
<1>10. FlushedSplits'
  <2>1. \A g \in SealedGap(size) : g.ord > flushed
    BY <1>4, SealedGapAbove
  <2> QED BY <1>2, <1>3, <2>1 DEF IInv, FlushedSplits
<1>11. Stamped' /\ HistorySeq' /\ DeliveredInOrder' /\ ProducerOrder'
  <2>1. Stamped' /\ HistorySeq'
    BY <1>2 DEF IInv, Stamped, HistorySeq
  <2>2. DeliveredInOrder'
    BY <1>2 DEF IInv, DeliveredInOrder
  <2>3. ProducerOrder'
    BY <1>2 DEF IInv, ProducerOrder
  <2> QED BY <2>1, <2>2, <2>3
<1>12. NothingLost'
  BY <1>2, <1>3 DEF IInv, NothingLost
<1> QED
  BY <1>5, <1>6, <1>7, <1>8, <1>9, <1>10, <1>11, <1>12 DEF IInv

\* Starting a flush and a rejected sink touch only the flush itself.
LEMMA OnlyFlight ==
  ASSUME IInv, FlightCurrent',
         UNCHANGED <<entries, current, gaps, openGap, barriers, next, flushed, sealed, lastStamp,
                     accepted, evicted, replaced, delivered>>
  PROVE  IInv'
<1>1. DeliveredEntries' = DeliveredEntries /\ DeliveredGaps' = DeliveredGaps
  BY DEF DeliveredEntries, DeliveredGaps
<1>2. Ordinals' /\ GapOrdinals' /\ CurrentUnsealed' /\ BarrierMarks'
  BY <1>1 DEF IInv, Ordinals, GapOrdinals, CurrentUnsealed, BarrierMarks
<1>3. FlushedSplits' /\ Stamped' /\ HistorySeq'
  BY <1>1 DEF IInv, FlushedSplits, Stamped, HistorySeq
<1>4. NothingLost' /\ DeliveredInOrder' /\ ProducerOrder'
  <2>1. NothingLost'
    BY <1>1 DEF IInv, NothingLost
  <2>2. DeliveredInOrder'
    BY DEF IInv, DeliveredInOrder
  <2>3. ProducerOrder'
    BY DEF IInv, ProducerOrder
  <2> QED BY <2>1, <2>2, <2>3
<1> QED BY <1>2, <1>3, <1>4 DEF IInv

LEMMA StartFlushPreserves ==
  ASSUME IInv, NEW b \in barriers, StartFlush(b)
  PROVE  IInv'
<1>1. b.mark \in Int /\ flushed <= b.mark /\ b.mark <= sealed
  BY DEF IInv, BarrierMarks
<1>2. FlightCurrent'
  BY <1>1 DEF StartFlush, FlightCurrent, Through
<1> QED BY <1>2, OnlyFlight DEF StartFlush

LEMMA SinkFailsPreserves ==
  ASSUME IInv, SinkFails
  PROVE  IInv'
<1>1. FlightCurrent'
  BY DEF SinkFails, FlightCurrent
<1> QED BY <1>1, OnlyFlight DEF SinkFails

\* A successful sink takes exactly what lies at or below its mark.
LEMMA SinkTakes ==
  ASSUME IInv, SinkSucceeds
  PROVE  /\ flight.mark \in Int /\ flushed <= flight.mark /\ flight.mark <= sealed
         /\ flushed' = flight.mark /\ delivered' = Append(delivered, flight)
         /\ flight.entries = Through(entries, flight.mark)
         /\ flight.gaps = Through(gaps, flight.mark)
         /\ entries' = entries \ flight.entries
         /\ gaps' = gaps \ flight.gaps
         /\ DeliveredEntries' = DeliveredEntries \cup flight.entries
         /\ DeliveredGaps' = DeliveredGaps \cup flight.gaps
<1>1. /\ flight.mark \in Int /\ flushed <= flight.mark /\ flight.mark <= sealed
      /\ flight.entries = Through(entries, flight.mark)
      /\ flight.gaps = Through(gaps, flight.mark)
  BY DEF IInv, FlightCurrent, SinkSucceeds
<1>2. /\ flushed' = flight.mark /\ delivered' = Append(delivered, flight)
      /\ entries' = entries \ flight.entries /\ gaps' = gaps \ flight.gaps
  BY DEF SinkSucceeds
<1>3. PICK B : delivered \in Seq(B)
  BY DEF IInv, HistorySeq
<1>4. /\ DOMAIN delivered' = DOMAIN delivered \cup {Len(delivered) + 1}
      /\ delivered'[Len(delivered) + 1] = flight
      /\ \A i \in DOMAIN delivered : delivered'[i] = delivered[i]
  BY <1>2, <1>3, AppendBatch
<1>5. /\ DeliveredEntries' = DeliveredEntries \cup flight.entries
      /\ DeliveredGaps' = DeliveredGaps \cup flight.gaps
  BY <1>4 DEF DeliveredEntries, DeliveredGaps
<1> QED BY <1>1, <1>2, <1>5

LEMMA SinkSucceedsPreserves ==
  ASSUME IInv, SinkSucceeds
  PROVE  IInv'
<1> DEFINE mark == flight.mark
<1>1. /\ mark \in Int /\ flushed <= mark /\ mark <= sealed
      /\ flushed' = mark /\ delivered' = Append(delivered, flight)
      /\ flight.entries = Through(entries, mark)
      /\ flight.gaps = Through(gaps, mark)
      /\ entries' = entries \ flight.entries
      /\ gaps' = gaps \ flight.gaps
      /\ DeliveredEntries' = DeliveredEntries \cup flight.entries
      /\ DeliveredGaps' = DeliveredGaps \cup flight.gaps
  BY SinkTakes
<1>2. /\ flight' = None /\ barriers' = {b \in barriers : b.mark > mark}
      /\ current' = current /\ openGap' = openGap /\ next' = next /\ sealed' = sealed
      /\ lastStamp' = lastStamp /\ accepted' = accepted /\ evicted' = evicted
      /\ replaced' = replaced
  BY DEF SinkSucceeds
<1>3. next \in Nat /\ sealed \in Int /\ flushed \in Int /\ flushed <= sealed /\ sealed < next
  BY DEF IInv, Ordinals
<1>4. /\ \A x \in flight.entries : x \in entries /\ x.ord <= mark
      /\ \A g \in flight.gaps : g \in gaps /\ g.ord <= mark
  BY <1>1 DEF Through
<1> HIDE DEF mark
<1>5. Ordinals'
  BY <1>1, <1>2, <1>3, SMTT(30) DEF IInv, Ordinals
<1>6. GapOrdinals'
  BY <1>1, <1>2, <1>4 DEF IInv, GapOrdinals
<1>7. CurrentUnsealed'
  BY <1>1, <1>2 DEF IInv, CurrentUnsealed
<1>8. BarrierMarks'
  BY <1>1, <1>2, <1>3, SMTT(30) DEF IInv, BarrierMarks
<1>9. FlightCurrent'
  BY <1>2 DEF FlightCurrent
<1>10. FlushedSplits'
  <2>1. \A x \in entries \cup gaps \cup DeliveredEntries \cup DeliveredGaps : x.ord \in Nat
    BY Ords
  <2>2. \A x \in entries' \cup gaps' : x.ord > mark
    BY <1>1, <2>1 DEF Through
  <2>3. \A x \in DeliveredEntries \cup DeliveredGaps : x.ord <= mark
    BY <1>1, <1>3, <2>1 DEF IInv, FlushedSplits
  <2> QED BY <1>1, <1>4, <2>2, <2>3 DEF FlushedSplits
<1>11. Stamped' /\ ProducerOrder'
  BY <1>2 DEF IInv, Stamped, ProducerOrder
<1>12. PICK B : delivered \in Seq(B)
  BY DEF IInv, HistorySeq
<1>13. HistorySeq'
  <2>1. delivered \in Seq(B \cup {flight})
    BY <1>12
  <2>2. delivered' \in Seq(B \cup {flight})
    BY <1>1, <2>1
  <2> QED BY <2>2 DEF HistorySeq
<1>14. NothingLost'
  <2>1. NothingLost
    BY DEF IInv
  <2> QED BY <1>1, <1>2, <1>4, <2>1 DEF NothingLost
<1>15. DeliveredInOrder'
  <2>1. /\ DOMAIN delivered' = DOMAIN delivered \cup {Len(delivered) + 1}
        /\ delivered'[Len(delivered) + 1] = flight
        /\ \A i \in DOMAIN delivered : /\ i \in Int /\ i < Len(delivered) + 1
                                       /\ delivered'[i] = delivered[i]
    BY <1>1, <1>12, AppendBatch
  <2>2. Len(delivered) \in Nat
    BY <1>12
  <2> SUFFICES ASSUME NEW i \in DOMAIN delivered', NEW j \in DOMAIN delivered',
                      NEW x \in delivered'[i].entries \cup delivered'[i].gaps,
                      NEW y \in delivered'[j].entries \cup delivered'[j].gaps, i < j
               PROVE  x.ord < y.ord
    BY DEF DeliveredInOrder
  <2>3. CASE i \in DOMAIN delivered /\ j \in DOMAIN delivered
    BY <2>1, <2>3 DEF IInv, DeliveredInOrder
  <2>4. CASE i \in DOMAIN delivered /\ j = Len(delivered) + 1
    <3>1. x \in DeliveredEntries \cup DeliveredGaps
      BY <2>1, <2>4 DEF DeliveredEntries, DeliveredGaps
    <3>2. y \in entries \cup gaps
      BY <1>4, <2>1, <2>4
    <3>3. x.ord <= flushed /\ y.ord > flushed
      BY <3>1, <3>2 DEF IInv, FlushedSplits
    <3>4. x.ord \in Nat /\ y.ord \in Nat
      BY <3>1, <3>2, Ords
    <3> QED BY <1>3, <3>3, <3>4
  <2>5. CASE i = Len(delivered) + 1
    BY <2>1, <2>2, <2>5
  <2> QED BY <2>1, <2>3, <2>4, <2>5
<1> QED
  BY <1>5, <1>6, <1>7, <1>8, <1>9, <1>10, <1>11, <1>13, <1>14, <1>15 DEF IInv

-----------------------------------------------------------------------------

LEMMA InitIInv == Init => IInv
<1> SUFFICES ASSUME Init PROVE IInv
  OBVIOUS
<1>1. /\ entries = {} /\ gaps = {} /\ barriers = {} /\ openGap = None /\ flight = None
      /\ current = [k \in Keys |-> None] /\ next = 0 /\ flushed = -1 /\ sealed = -1
      /\ lastStamp = [p \in Producers |-> 0]
      /\ accepted = {} /\ evicted = {} /\ replaced = {} /\ delivered = <<>>
  BY DEF Init
<1>2. DeliveredEntries = {} /\ DeliveredGaps = {}
  BY <1>1 DEF DeliveredEntries, DeliveredGaps
<1>3. Ordinals /\ GapOrdinals /\ CurrentUnsealed /\ BarrierMarks /\ FlightCurrent
  <2>1. Ordinals /\ BarrierMarks
    BY <1>1, <1>2 DEF Ordinals, BarrierMarks
  <2>2. GapOrdinals
    BY <1>1, <1>2 DEF GapOrdinals
  <2>3. CurrentUnsealed /\ FlightCurrent
    BY <1>1, <1>2 DEF CurrentUnsealed, FlightCurrent
  <2> QED BY <2>1, <2>2, <2>3
<1>4. FlushedSplits /\ Stamped /\ NothingLost /\ DeliveredInOrder /\ ProducerOrder
  <2>1. FlushedSplits /\ Stamped /\ ProducerOrder
    BY <1>1, <1>2 DEF FlushedSplits, Stamped, ProducerOrder
  <2>2. NothingLost
    BY <1>1, <1>2 DEF NothingLost
  <2>3. DeliveredInOrder
    BY <1>1 DEF DeliveredInOrder
  <2> QED BY <2>1, <2>2, <2>3
<1>5. delivered \in Seq({})
  BY <1>1
<1> QED BY <1>3, <1>4, <1>5 DEF IInv, HistorySeq

LEMMA StepIInv == IInv /\ [Next]_vars => IInv'
<1> SUFFICES ASSUME IInv, [Next]_vars PROVE IInv'
  OBVIOUS
<1>1. ASSUME NEW e \in Event, AppendAuthoritative(e) PROVE IInv'
  BY <1>1, AuthoritativeAppends, AppendedPreserves
<1>2. ASSUME NEW e \in Event, AppendState(e) PROVE IInv'
  BY <1>2, StateAppends, AppendedPreserves
<1>3. ASSUME NEW e \in Event, AppendDiagnostic(e) PROVE IInv'
  BY <1>3, DiagnosticAppends, AppendedPreserves
<1>4. ASSUME NEW size \in GapSizes, Barrier(size) PROVE IInv'
  BY <1>4, BarrierPreserves
<1>5. ASSUME NEW b \in barriers, StartFlush(b) PROVE IInv'
  BY <1>5, StartFlushPreserves
<1>6. CASE SinkFails
  BY <1>6, SinkFailsPreserves
<1>7. CASE SinkSucceeds
  BY <1>7, SinkSucceedsPreserves
<1>8. CASE UNCHANGED vars
  <2>1. UNCHANGED <<entries, current, gaps, openGap, barriers, next, flushed, sealed, lastStamp,
                    accepted, evicted, replaced, delivered>> /\ flight' = flight
    BY <1>8 DEF vars, journal
  <2>2. FlightCurrent'
    BY <2>1 DEF IInv, FlightCurrent
  <2> QED BY <2>1, <2>2, OnlyFlight
<1> QED BY <1>1, <1>2, <1>3, <1>4, <1>5, <1>6, <1>7, <1>8 DEF Next

\* The journal always satisfies its inductive invariant.
THEOREM Invariance == Spec => []IInv
BY InitIInv, StepIInv, PTL DEF Spec

\* Whatever append accepted is waiting, delivered, or was lawfully replaced or evicted;
\* an authoritative event is never lost.
THEOREM NoEventLost == Spec => []NothingLost
<1>1. IInv => NothingLost
  BY DEF IInv
<1> QED BY <1>1, Invariance, PTL

\* flushThrough hands over batches in the order of the ordinals, nothing twice.
THEOREM OrderedDelivery == Spec => []DeliveredInOrder
<1>1. IInv => DeliveredInOrder
  BY DEF IInv
<1> QED BY <1>1, Invariance, PTL

\* The ordinals of a producer's events follow its epochs and sequence numbers.
THEOREM ProducersInOrder == Spec => []ProducerOrder
<1>1. IInv => ProducerOrder
  BY DEF IInv
<1> QED BY <1>1, Invariance, PTL

-----------------------------------------------------------------------------
(* Every step by its effect on what the barriers cover and on the log. *)

\* An append is a Put of the log, and leaves every barrier's batch alone.
LEMMA AppendedEffect ==
  ASSUME IInv, NEW e \in Event, NEW D, Appended(e, D)
  PROVE  BatchStep /\ Log!Put
<1>1. /\ delivered' = delivered /\ gaps' = gaps /\ barriers' = barriers /\ sealed' = sealed
  BY AppendedHistory
<1>2. BatchStep
  <2>1. \A b \in barriers : Through(entries', b.mark) = Through(entries, b.mark)
    BY AppendedThrough DEF IInv, BarrierMarks
  <2> QED BY <1>1, <2>1 DEF BatchStep
<1>3. EntryOf(e).ord = next /\ EntryOf(e) \notin accepted
  BY AppendedOrdinals
<1>4. /\ entries' = (entries \ D) \cup {EntryOf(e)} /\ D \subseteq entries
      /\ \A x \in D : x.ord > sealed
      /\ next' = next + 1
  BY DEF Appended, Accept
<1>5. EntryOf(e) \notin entries
  BY <1>3 DEF IInv, NothingLost
<1>6. EntryOf(e) \notin gaps
  <2>1. \A g \in gaps : g.ord \in Nat /\ g.ord < next
    BY Ords
  <2>2. next \in Nat
    BY DEF IInv, Ordinals
  <2> QED BY <1>3, <2>1, <2>2
<1>7. (entries \cup gaps)' \ (entries \cup gaps) = {EntryOf(e)}
  BY <1>1, <1>4, <1>5, <1>6
<1>8. \A y \in (entries \cup gaps) \ (entries \cup gaps)' : y.ord > sealed
  BY <1>1, <1>4
<1>9. EntryOf(e) \in (entries \cup gaps)'
  BY <1>4
<1> QED BY <1>1, <1>2, <1>3, <1>4, <1>7, <1>8, <1>9 DEF Log!Put

\* A barrier is a Seal of the log; the marker it adds has the ordinal of an evicted event.
LEMMA BarrierEffect ==
  ASSUME IInv, NEW size, Barrier(size)
  PROVE  BatchStep /\ Log!Seal
<1>1. sealed' = next - 1
  BY BarrierMark
<1>2. /\ gaps' = gaps \cup SealedGap(size) /\ entries' = entries /\ delivered' = delivered
      /\ next' = next /\ barriers \subseteq barriers'
  BY DEF Barrier
<1>3. BatchStep
  <2>1. \A b \in barriers : Through(gaps', b.mark) = Through(gaps, b.mark)
    BY <1>2, BarrierThrough DEF IInv, BarrierMarks
  <2> QED BY <1>2, <2>1 DEF BatchStep
<1>4. next \in Nat /\ sealed \in Int
  BY DEF IInv, Ordinals
<1>5. ASSUME NEW m \in (entries \cup gaps)' \ (entries \cup gaps)
      PROVE  /\ m.ord \in (sealed + 1)..(next - 1)
             /\ \A y \in entries \cup gaps : y.ord # m.ord
  <2>1. m \in SealedGap(size) /\ m.ord = openGap.ord
    BY <1>2, SealedGapAbove
  <2>2. m.ord \in Nat /\ m.ord > sealed /\ m.ord < next /\ openGap # None
    BY <2>1, SealedGapAbove
  <2>3. ASSUME NEW y \in entries, y.ord = m.ord PROVE FALSE
    <3>1. PICK x \in evicted : x.ord = m.ord
      BY <2>1, <2>2 DEF IInv, GapOrdinals
    <3>2. x \in accepted /\ y \in accepted
      BY Ords
    <3>3. x = y
      BY <2>3, <3>1, <3>2 DEF IInv, Ordinals
    <3> QED BY <3>3 DEF IInv, NothingLost
  <2>4. ASSUME NEW y \in gaps PROVE y.ord # m.ord
    <3>1. y.ord <= sealed /\ y.ord \in Nat
      BY Ords DEF IInv, GapOrdinals
    <3> QED BY <1>4, <2>2, <3>1
  <2>5. m.ord \in (sealed + 1)..(next - 1)
    BY <1>4, <2>2
  <2> QED BY <2>3, <2>4, <2>5
<1> QED BY <1>1, <1>2, <1>3, <1>5 DEF Log!Seal

\* A successful flush is a Deliver of the log.
LEMMA SinkEffect ==
  ASSUME IInv, SinkSucceeds
  PROVE  BatchStep /\ Log!Deliver
<1> DEFINE mark == flight.mark
           all(i) == delivered[i].entries \cup delivered[i].gaps
           batch == {x \in entries \cup gaps : x.ord <= mark}
<1>1. /\ mark \in Int /\ flushed <= mark /\ mark <= sealed
      /\ delivered' = Append(delivered, flight)
      /\ flight.entries = Through(entries, mark) /\ flight.gaps = Through(gaps, mark)
      /\ entries' = entries \ flight.entries /\ gaps' = gaps \ flight.gaps
  BY SinkTakes
<1>2. next' = next /\ sealed' = sealed
  BY DEF SinkSucceeds
<1>3. PICK B : delivered \in Seq(B)
  BY DEF IInv, HistorySeq
<1>4. /\ DOMAIN delivered' = 1..(Len(delivered) + 1) /\ DOMAIN delivered = 1..Len(delivered)
      /\ Len(delivered) \in Nat
      /\ delivered'[Len(delivered) + 1] = flight
      /\ \A i \in DOMAIN delivered : delivered'[i] = delivered[i]
  BY <1>1, <1>3, SMTT(30)
<1>5. BatchStep
  <2>1. delivered' # delivered
    BY <1>4
  <2> QED BY <2>1 DEF BatchStep
<1>6. flight.entries \cup flight.gaps = batch
  BY <1>1 DEF Through
<1>7. (entries \cup gaps)' = (entries \cup gaps) \ batch
  BY <1>1 DEF Through
<1>8. [i \in DOMAIN delivered |-> all(i)]' = Append([i \in DOMAIN delivered |-> all(i)], batch)
  <2> DEFINE log == [i \in DOMAIN delivered |-> all(i)]
             logP == [i \in DOMAIN delivered' |-> delivered'[i].entries \cup delivered'[i].gaps]
  <2>1. log \in Seq({all(i) : i \in DOMAIN delivered}) /\ Len(log) = Len(delivered)
    BY <1>4
  <2>2. /\ DOMAIN Append(log, batch) = 1..(Len(delivered) + 1)
        /\ Append(log, batch)[Len(delivered) + 1] = batch
        /\ \A i \in 1..Len(delivered) : Append(log, batch)[i] = log[i]
        /\ Append(log, batch) = [i \in 1..(Len(delivered) + 1) |-> Append(log, batch)[i]]
    BY <1>4, <2>1, SMTT(30)
  <2>3. ASSUME NEW i \in 1..(Len(delivered) + 1)
        PROVE  logP[i] = Append(log, batch)[i]
    <3>1. CASE i \in 1..Len(delivered)
      BY <1>4, <2>2, <3>1
    <3>2. CASE i = Len(delivered) + 1
      BY <1>4, <1>6, <2>2, <3>2
    <3> QED BY <1>4, <3>1, <3>2, SMTT(30)
  <2>4. logP = Append(log, batch)
    BY <1>4, <2>2, <2>3
  <2> QED BY <2>4
<1>9. mark \in -1..sealed
  BY <1>1, SMTT(30) DEF IInv, Ordinals
<1> QED BY <1>2, <1>5, <1>7, <1>8, <1>9 DEF Log!Deliver

\* The other steps change nothing that the log or a barrier can see.
LEMMA HiddenEffect ==
  ASSUME UNCHANGED <<entries, gaps, barriers, next, sealed, delivered>>
  PROVE  BatchStep /\ UNCHANGED Log!vars
BY DEF BatchStep, Log!vars

LEMMA StepEffect == IInv /\ [Next]_vars => BatchStep /\ [Log!Next]_(Log!vars)
<1> SUFFICES ASSUME IInv, [Next]_vars PROVE BatchStep /\ [Log!Next]_(Log!vars)
  OBVIOUS
<1> USE DEF Log!Next
<1>1. ASSUME NEW e \in Event, AppendAuthoritative(e) PROVE BatchStep /\ Log!Next
  BY <1>1, AuthoritativeAppends, AppendedEffect
<1>2. ASSUME NEW e \in Event, AppendState(e) PROVE BatchStep /\ Log!Next
  BY <1>2, StateAppends, AppendedEffect
<1>3. ASSUME NEW e \in Event, AppendDiagnostic(e) PROVE BatchStep /\ Log!Next
  BY <1>3, DiagnosticAppends, AppendedEffect
<1>4. ASSUME NEW size \in GapSizes, Barrier(size) PROVE BatchStep /\ Log!Next
  BY <1>4, BarrierEffect
<1>5. ASSUME NEW b \in barriers, StartFlush(b) PROVE BatchStep /\ UNCHANGED Log!vars
  BY <1>5, HiddenEffect DEF StartFlush
<1>6. CASE SinkFails
  BY <1>6, HiddenEffect DEF SinkFails
<1>7. CASE SinkSucceeds
  BY <1>7, SinkEffect
<1>8. CASE UNCHANGED vars
  BY <1>8, HiddenEffect DEF vars, journal
<1> HIDE DEF Log!Next
<1> QED BY <1>1, <1>2, <1>3, <1>4, <1>5, <1>6, <1>7, <1>8 DEF Next

\* Only a successful flush changes what a barrier covers.
THEOREM StableBatches == Spec => BatchesAreStable
<1>1. IInv /\ [Next]_vars => [BatchStep]_vars
  BY StepEffect
<1> QED BY <1>1, Invariance, PTL DEF Spec, BatchesAreStable

\* The journal implements the ordered log.
THEOREM Refinement == Spec => ImplementsEventLog
<1>1. Init => Log!Init
  BY DEF Init, Log!Init
<1>2. IInv /\ [Next]_vars => [Log!Next]_(Log!vars)
  BY StepEffect
<1> QED BY <1>1, <1>2, Invariance, PTL DEF Spec, ImplementsEventLog, Log!Spec
=============================================================================
