--------------------------- MODULE RunEventJournal --------------------------
(***************************************************************************)
(* The ordering core of the test host, packages/protocol/src/run-journal.ts*)
(*                                                                         *)
(* Producers append events of three classes.  Authoritative events are     *)
(* lossless, state events coalesce by key, diagnostics are bounded and     *)
(* every eviction is counted in a gap.  barrier() closes the groups that   *)
(* may still change, flushThrough() hands everything up to a barrier to a  *)
(* sink and forgets it only when the sink succeeds; append and barrier may *)
(* run while the sink does.                                                *)
(*                                                                         *)
(* #entries and #gaps are arrays in the order of the ordinals, here sets   *)
(* of records with their ordinals.  An event is its class, its coalescing  *)
(* key, its serialized size, its producer and its stamp, the place of the  *)
(* pair (epoch, seq) in lexicographic order.  accepted, evicted, replaced  *)
(* and delivered record history; the code has no such fields.              *)
(***************************************************************************)
EXTENDS Integers, Sequences, FiniteSetsExt

CONSTANTS
  Producers,          \* producer ids
  Stamps,             \* the (epoch, seq) pairs a producer may use, in order
  Keys,               \* coalescing keys of state events
  Sizes,              \* serialized sizes of events
  GapSizes,           \* serialized sizes of a sealed gap event
  GapReservation,     \* DIAGNOSTIC_GAP_RESERVATION_BYTES
  MaxAuthoritative,   \* maxAuthoritativeEvents
  MaxStateKeys,       \* maxStateKeys
  MaxDiagnostic,      \* maxDiagnosticEvents
  MaxBytes,           \* maxPendingBytes
  MaxBarriers,        \* bound on the calls of barrier()
  None                \* undefined

ASSUME StampsAssumption == Stamps \subseteq Nat /\ 0 \notin Stamps
ASSUME SizesAssumption ==
  /\ Sizes \subseteq Nat
  /\ GapSizes \subseteq 0..GapReservation
  /\ GapReservation \in Nat
ASSUME LimitsAssumption ==
  {MaxAuthoritative, MaxStateKeys, MaxDiagnostic, MaxBytes, MaxBarriers} \subseteq Nat \ {0}

Classes == {"authoritative", "state", "diagnostic"}

Event ==
  [class : Classes, key : Keys \cup {None}, bytes : Sizes, producer : Producers, stamp : Stamps]
Entry ==
  [ord : Nat, class : Classes, key : Keys \cup {None}, bytes : Sizes, producer : Producers,
   stamp : Stamps]
Gap == [ord : Nat, count : Nat, last : Nat, bytes : Nat]

ASSUME NoneAssumption == None \notin Nat /\ None \notin Keys /\ None \notin Gap

VARIABLES
  entries,       \* #entries
  current,       \* #currentState, each key's entry by its ordinal
  gaps,          \* #gaps
  openGap,       \* #openGap
  barriers,      \* #barriers, a set of [token, mark]
  counts,        \* #counts
  pendingBytes,  \* #pendingBytes
  next,          \* #nextOrdinal
  nextToken,     \* #nextBarrierToken
  flushed,       \* #flushedThrough
  sealed,        \* #sealedThrough
  flight,        \* the flush that waits for its sink; #flushActive is flight # None
  lastStamp,     \* #validator: the newest stamp of each producer
  accepted, evicted, replaced, delivered

journal ==
  <<entries, current, gaps, openGap, barriers, counts, pendingBytes, next,
    nextToken, flushed, sealed, flight, lastStamp>>
vars == <<journal, accepted, evicted, replaced, delivered>>

-----------------------------------------------------------------------------

Bytes(S) == MapThenSumSet(LAMBDA x : x.bytes, S)
Greatest(a, b) == IF a > b THEN a ELSE b
Through(S, mark) == {x \in S : x.ord <= mark}

Init ==
  /\ entries = {} /\ gaps = {} /\ barriers = {}
  /\ current = [k \in Keys |-> None]
  /\ openGap = None /\ flight = None
  /\ counts = [c \in Classes |-> 0]
  /\ pendingBytes = 0
  /\ next = 0 /\ nextToken = 0 /\ flushed = -1 /\ sealed = -1
  /\ lastStamp = [p \in Producers |-> 0]
  /\ accepted = {} /\ evicted = {} /\ replaced = {} /\ delivered = <<>>

\* Faulty variant: a repeated sequence number is accepted.
InOrder_Repeats(e) == e.stamp >= lastStamp[e.producer]

\* RunEventStreamValidator.accept: a producer's epoch and sequence only grow.
InOrder(e) == e.stamp > lastStamp[e.producer]

EntryOf(e) ==
  [ord |-> next, class |-> e.class, key |-> e.key, bytes |-> e.bytes, producer |-> e.producer,
   stamp |-> e.stamp]

\* What every accepted append does.
Accept(e) ==
  /\ lastStamp' = [lastStamp EXCEPT ![e.producer] = e.stamp]
  /\ next' = next + 1
  /\ accepted' = accepted \cup {EntryOf(e)}
  /\ UNCHANGED <<gaps, barriers, nextToken, flushed, sealed, flight, delivered>>

\* Faulty variant: a replacing event is not counted.
Counted_Net(class, D) ==
  [counts EXCEPT ![class] = IF D = {} THEN @ + 1 ELSE @ - Cardinality(D)]

\* counts after the entries of D made room for a new one.
Counted(class, D) == [counts EXCEPT ![class] = @ - Cardinality(D) + 1]

AppendAuthoritative(e) ==
  /\ e.class = "authoritative" /\ e.key = None
  /\ pendingBytes + e.bytes <= MaxBytes
  /\ counts["authoritative"] < MaxAuthoritative
  /\ InOrder(e)
  /\ Accept(e)
  /\ entries' = entries \cup {EntryOf(e)}
  /\ counts' = Counted("authoritative", {})
  /\ pendingBytes' = pendingBytes + e.bytes
  /\ UNCHANGED <<current, openGap, evicted, replaced>>

\* Faulty variant: the map of current states survives a barrier.
Previous_AcrossBarriers(k) ==
  {x \in entries : x.key = k /\ \A y \in entries : y.key = k => y.ord <= x.ord}

\* The entry that a state event with key k would replace.
Previous(k) == {x \in entries : current[k] # None /\ x.ord = current[k]}

AppendState(e) ==
  /\ e.class = "state" /\ e.key # None
  /\ LET old == Previous(e.key)
         bytes == pendingBytes - Bytes(old) + e.bytes
     IN  /\ e.bytes <= MaxBytes /\ bytes <= MaxBytes
         /\ \/ current[e.key] # None
            \/ Cardinality({k \in Keys : current[k] # None}) < MaxStateKeys
         /\ InOrder(e)
         /\ Accept(e)
         /\ entries' = (entries \ old) \cup {EntryOf(e)}
         /\ replaced' = replaced \cup old
         /\ current' = [current EXCEPT ![e.key] = next]
         /\ counts' = Counted("state", old)
         /\ pendingBytes' = bytes
  /\ UNCHANGED <<openGap, evicted>>

\* Faulty variant: diagnostics behind a barrier may be dropped as well.
Candidates_Sealed == {x \in entries : x.class = "diagnostic"}

\* The diagnostics that no barrier has sealed yet.
Candidates == {x \in entries : x.class = "diagnostic" /\ x.ord > sealed}

\* The reservation for the gap that the first eviction opens.
Opening(D) == IF D # {} /\ openGap = None THEN GapReservation ELSE 0

\* Faulty variant: the room for the gap event is not reserved.
FitsWithout_NoReservation(e, D) ==
  /\ counts["diagnostic"] - Cardinality(D) < MaxDiagnostic
  /\ pendingBytes + e.bytes - Bytes(D) <= MaxBytes

\* e fits when the diagnostics in D are dropped.
FitsWithout(e, D) ==
  /\ counts["diagnostic"] - Cardinality(D) < MaxDiagnostic
  /\ pendingBytes + e.bytes - Bytes(D) + Opening(D) <= MaxBytes

\* The oldest candidates, as few as will do.
Oldest == {{x \in Candidates : x.ord < o} : o \in 0..next}
ToDrop(e, D) ==
  /\ FitsWithout(e, D)
  /\ \A E \in Oldest : FitsWithout(e, E) => D \subseteq E

\* Faulty variant: only the drop that opens a gap is counted.
Recorded_CountsOnce(D) ==
  LET ords == {x.ord : x \in D}
  IN  IF D = {} THEN openGap
      ELSE IF openGap = None
      THEN [ord |-> Min(ords), count |-> 1, last |-> Max(ords), bytes |-> GapReservation]
      ELSE [ord |-> openGap.ord, count |-> openGap.count, last |-> Max(ords),
            bytes |-> openGap.bytes]

\* #recordDiagnosticGap for every entry of D, oldest first.
Recorded(D) ==
  LET ords == {x.ord : x \in D}
  IN  IF D = {} THEN openGap
      ELSE IF openGap = None
      THEN [ord |-> Min(ords), count |-> Cardinality(D), last |-> Max(ords),
            bytes |-> GapReservation]
      ELSE [ord |-> openGap.ord, count |-> openGap.count + Cardinality(D), last |-> Max(ords),
            bytes |-> openGap.bytes]

AppendDiagnostic(e) ==
  /\ e.class = "diagnostic" /\ e.key = None
  /\ InOrder(e)
  /\ \E D \in Oldest :
       /\ ToDrop(e, D)
       /\ Accept(e)
       /\ entries' = (entries \ D) \cup {EntryOf(e)}
       /\ evicted' = evicted \cup D
       /\ openGap' = Recorded(D)
       /\ counts' = Counted("diagnostic", D)
       /\ pendingBytes' = pendingBytes + e.bytes - Bytes(D) + Opening(D)
  /\ UNCHANGED <<current, replaced>>

\* Faulty variant: a barrier does not move the sealed mark.
SealedThrough_Stale == sealed

SealedThrough == Greatest(sealed, next - 1)

\* #sealGap, with the serialized size of the event it emits.
SealedGap(size) ==
  IF openGap = None THEN {}
  ELSE {[ord |-> openGap.ord, count |-> openGap.count, last |-> openGap.last, bytes |-> size]}

\* barrier(); size is the serialized size of the gap event it may emit.
Barrier(size) ==
  /\ nextToken < MaxBarriers
  /\ current' = [k \in Keys |-> None]
  /\ gaps' = gaps \cup SealedGap(size)
  /\ pendingBytes' = IF openGap = None THEN pendingBytes ELSE pendingBytes + size - openGap.bytes
  /\ openGap' = None
  /\ barriers' = barriers \cup {[token |-> nextToken, mark |-> next - 1]}
  /\ nextToken' = nextToken + 1
  /\ sealed' = SealedThrough
  /\ UNCHANGED <<entries, counts, next, flushed, flight, lastStamp,
                 accepted, evicted, replaced, delivered>>

\* flushThrough(b, sink) up to its await; it throws when a flush is active or b is stale.
StartFlush(b) ==
  /\ flight = None
  /\ b.mark >= flushed
  /\ flight' = [mark |-> b.mark, entries |-> Through(entries, b.mark),
                gaps |-> Through(gaps, b.mark)]
  /\ UNCHANGED <<entries, current, gaps, openGap, barriers, counts, pendingBytes,
                 next, nextToken, flushed, sealed, lastStamp, accepted, evicted, replaced,
                 delivered>>

\* The sink rejects.
SinkFails ==
  /\ flight # None
  /\ flight' = None
  /\ UNCHANGED <<entries, current, gaps, openGap, barriers, counts, pendingBytes,
                 next, nextToken, flushed, sealed, lastStamp, accepted, evicted, replaced,
                 delivered>>

\* Faulty variant: the gaps of the batch stay in the journal.
SinkSucceeds_KeepsGaps ==
  /\ flight # None
  /\ flight' = None
  /\ entries' = entries \ flight.entries
  /\ pendingBytes' = pendingBytes - Bytes(entries \cap flight.entries)
  /\ counts' = [c \in Classes |->
                  counts[c] - Cardinality({x \in entries \cap flight.entries : x.class = c})]
  /\ flushed' = flight.mark
  /\ barriers' = {b \in barriers : b.mark > flight.mark}
  /\ delivered' = Append(delivered, flight)
  /\ UNCHANGED <<current, gaps, openGap, next, nextToken, sealed, lastStamp, accepted,
                 evicted, replaced>>

\* The sink resolves and the rest of flushThrough runs.
SinkSucceeds ==
  /\ flight # None
  /\ flight' = None
  /\ entries' = entries \ flight.entries
  /\ gaps' = gaps \ flight.gaps
  /\ pendingBytes' = pendingBytes - Bytes(entries \cap flight.entries)
                                  - Bytes(gaps \cap flight.gaps)
  /\ counts' = [c \in Classes |->
                  counts[c] - Cardinality({x \in entries \cap flight.entries : x.class = c})]
  /\ flushed' = flight.mark
  /\ barriers' = {b \in barriers : b.mark > flight.mark}
  /\ delivered' = Append(delivered, flight)
  /\ UNCHANGED <<current, openGap, next, nextToken, sealed, lastStamp, accepted,
                 evicted, replaced>>

Next ==
  \/ \E e \in Event : AppendAuthoritative(e) \/ AppendState(e) \/ AppendDiagnostic(e)
  \/ \E size \in GapSizes : Barrier(size)
  \/ \E b \in barriers : StartFlush(b)
  \/ SinkFails
  \/ SinkSucceeds

Spec == Init /\ [][Next]_vars

-----------------------------------------------------------------------------
(* Properties. *)

Batch == [mark : Int, entries : SUBSET Entry, gaps : SUBSET Gap]

\* The private state of the class has its declared shape; no counter is negative.
TypeOK ==
  /\ entries \subseteq Entry /\ gaps \subseteq Gap
  /\ current \in [Keys -> Nat \cup {None}]
  /\ openGap \in Gap \cup {None}
  /\ \A b \in barriers : b.token \in Nat /\ b.mark \in Int
  /\ counts \in [Classes -> Nat]
  /\ pendingBytes \in Nat
  /\ next \in Nat /\ nextToken \in Nat
  /\ flushed \in Nat \cup {-1} /\ sealed \in Nat \cup {-1}
  /\ flight = None \/ flight \in Batch
  /\ lastStamp \in [Producers -> Stamps \cup {0}]

DeliveredEntries == UNION {delivered[i].entries : i \in DOMAIN delivered}
DeliveredGaps == UNION {delivered[i].gaps : i \in DOMAIN delivered}

\* "Authoritative events are never dropped": whatever was appended is waiting or has
\* been delivered, unless it is a state event that was replaced or a diagnostic that
\* was evicted; and nothing is in two of these places.
NothingLost ==
  /\ accepted = entries \cup DeliveredEntries \cup evicted \cup replaced
  /\ entries \cap DeliveredEntries = {}
  /\ (evicted \cup replaced) \cap (entries \cup DeliveredEntries) = {}
  /\ \A x \in evicted : x.class = "diagnostic"
  /\ \A x \in replaced : x.class = "state"

\* Batches reach the sink in the order of the ordinals and no event or gap twice, although
\* flushes fail, are retried, and may be asked for with any live barrier.
DeliveredInOrder ==
  \A i, j \in DOMAIN delivered :
    \A x \in delivered[i].entries \cup delivered[i].gaps,
       y \in delivered[j].entries \cup delivered[j].gaps : i < j => x.ord < y.ord

\* The sink sees the events of a producer in the order of its epochs and sequence numbers.
ProducerOrder ==
  \A x, y \in accepted : x.producer = y.producer /\ x.ord < y.ord => x.stamp < y.stamp

AllGaps == gaps \cup DeliveredGaps \cup (IF openGap = None THEN {} ELSE {openGap})

\* "every eviction is represented by a lossless synthetic journal.diagnostic-gap event":
\* the evicted diagnostics are exactly those between the first and the last of some gap,
\* and each gap counts its own.
EvictionsAreCounted ==
  /\ \A x \in evicted : \E g \in AllGaps : g.ord <= x.ord /\ x.ord <= g.last
  /\ \A g \in AllGaps :
       /\ g.count = Cardinality({x \in evicted : g.ord <= x.ord /\ x.ord <= g.last})
       /\ \E x, y \in evicted : x.ord = g.ord /\ y.ord = g.last

\* Everything the limits bound stays within them and the incremental counters are exact,
\* the reservation of an open gap included.
WithinLimits ==
  /\ pendingBytes = Bytes(entries) + Bytes(gaps) + (IF openGap = None THEN 0 ELSE openGap.bytes)
  /\ pendingBytes <= MaxBytes
  /\ \A c \in Classes : counts[c] = Cardinality({x \in entries : x.class = c})
  /\ counts["authoritative"] <= MaxAuthoritative
  /\ counts["diagnostic"] <= MaxDiagnostic

BatchStep ==
  delivered' = delivered =>
    \A b \in barriers : /\ b \in barriers'
                        /\ Through(entries', b.mark) = Through(entries, b.mark)
                        /\ Through(gaps', b.mark) = Through(gaps, b.mark)

\* "A rejected sink leaves the exact batch available for retry": what a barrier covers
\* changes by nothing but a successful flush, whatever is appended in the meantime.
BatchesAreStable == [][BatchStep]_vars

\* What a delivered batch holds, for the abstract log.
Log ==
  INSTANCE EventLog WITH
    pending <- entries \cup gaps,
    log <- [i \in DOMAIN delivered |-> delivered[i].entries \cup delivered[i].gaps]

\* The journal is an ordered log: each sealed event and gap is handed over once, whole batches
\* at a time and never changed by appends, barriers and rejected sinks in between.
ImplementsEventLog == Log!Spec
=============================================================================
