----------------------------- MODULE RunHistory -----------------------------
(***************************************************************************)
(* The transaction that stores one run, packages/run-history/src/index.ts, *)
(* on a file system that may fail any call and loses at a crash what was   *)
(* not synced, and a reader that runs beside it.                           *)
(*                                                                         *)
(* The run has one directory, which is staging and then final.  A file is  *)
(* absent, torn (its creation failed half way) or whole; events.ndjson is  *)
(* the number of its whole batches and whether a torn one follows.  The    *)
(* manifest binds the number of batches, and its digest stands for its     *)
(* content: a whole marker matches a whole manifest.  Calls of the         *)
(* transaction come one at a time, in any order.                           *)
(***************************************************************************)
EXTENDS Integers

CONSTANTS
  MaxBatches     \* bound on the calls of appendEvents

ASSUME MaxBatchesAssumption == MaxBatches \in Nat

None == 1
Staging == 2
Final == 3
Files == {"start", "events", "manifest", "marker"}

VARIABLES
  pc,        \* what the transaction does next; "idle" between calls, "gone" after a crash
  state,     \* the local state of beginRunManifest
  place,     \* where the directory is: None, Staging or Final
  file,      \* what each file of the directory is
  count,     \* eventCount
  stored,    \* whole batches in events.ndjson
  tail,      \* a torn batch follows them
  bound,     \* eventStream.count of the manifest
  durable,   \* what a crash cannot undo: place, names of files, batches
  returned,  \* commitPrepared has returned
  reader,    \* the reader: its next step and the path it looks at
  seen,      \* what the last read said
  raced,     \* the directory was renamed during that read
  faulty     \* a call has failed or the machine has crashed

txn == <<pc, state, count, bound, returned>>
disk == <<place, file, stored, tail, durable>>
reading == <<reader, seen, raced>>
vars == <<txn, disk, reading, faulty>>

Init ==
  /\ pc = "mkdir" /\ state = "opening"
  /\ place = None /\ file = [f \in Files |-> "absent"]
  /\ count = 0 /\ stored = 0 /\ tail = FALSE /\ bound = 0
  /\ durable = [place |-> None, names |-> {}, stored |-> 0]
  /\ returned = FALSE
  /\ reader = [step |-> "idle", path |-> None] /\ seen = "nothing" /\ raced = FALSE
  /\ faulty = FALSE

-----------------------------------------------------------------------------
(* The transaction. *)

\* The call fails; the promise rejects and the transaction is idle or was never handed out.
Fails(next) == pc' = next /\ faulty' = TRUE

\* Faulty variant: the transaction is handed out before its first files are written.
MakeStaging_OpensEarly ==
  /\ pc = "mkdir"
  /\ pc' = "start" /\ place' = Staging /\ state' = "open"
  /\ UNCHANGED <<faulty, file, count, stored, tail, bound, durable, returned, reading>>

MakeStaging ==
  /\ pc = "mkdir"
  /\ \/ /\ pc' = "start" /\ place' = Staging
        /\ UNCHANGED faulty
     \/ /\ Fails("dead")
        /\ UNCHANGED place
  /\ UNCHANGED <<state, file, count, stored, tail, bound, durable, returned, reading>>

\* writeExclusive: create, write, sync and close; it refuses a file that exists.
WriteExclusive(f, next, otherwise) ==
  \/ /\ file[f] = "absent"
     /\ file' = [file EXCEPT ![f] = "whole"]
     /\ pc' = next
     /\ UNCHANGED faulty
  \/ /\ \/ UNCHANGED file
        \/ file[f] = "absent" /\ \E c \in {"torn", "whole"} : file' = [file EXCEPT ![f] = c]
     /\ Fails(otherwise)

WriteStart ==
  /\ pc = "start"
  /\ WriteExclusive("start", "events", "dead")
  /\ UNCHANGED <<state, place, count, stored, tail, bound, durable, returned, reading>>

WriteEvents ==
  /\ pc = "events"
  /\ WriteExclusive("events", "idle", "dead")
  /\ state' = IF pc' = "idle" THEN "open" ELSE state
  /\ UNCHANGED <<place, count, stored, tail, bound, durable, returned, reading>>

\* appendEvents.
AppendEvents ==
  /\ pc = "idle" /\ state = "open" /\ count < MaxBatches
  /\ stored' = stored + 1 /\ count' = count + 1
  /\ UNCHANGED <<pc, state, place, file, tail, bound, durable, returned, reading, faulty>>

\* Faulty variant: an append that failed half way leaves the transaction open.
AppendFails_StaysOpen ==
  /\ pc = "idle" /\ state = "open" /\ count < MaxBatches
  /\ \/ stored' = stored /\ tail' \in BOOLEAN
     \/ stored' = stored + 1 /\ UNCHANGED tail
  /\ Fails("idle")
  /\ UNCHANGED <<state, place, file, count, bound, durable, returned, reading>>

\* The batch has invalid events and is refused; or it is out of order, or the file system fails
\* after some of it, or all, was written.
AppendFails ==
  /\ pc = "idle" /\ state = "open" /\ count < MaxBatches
  /\ \/ UNCHANGED <<state, stored, tail>>
     \/ state' = "failed" /\ stored' = stored /\ tail' \in BOOLEAN
     \/ state' = "failed" /\ stored' = stored + 1 /\ UNCHANGED tail
  /\ Fails("idle")
  /\ UNCHANGED <<place, file, count, bound, durable, returned, reading>>

\* prepare, up to its first await.
SyncEvents ==
  /\ pc = "idle" /\ state = "open"
  /\ \/ /\ pc' = "manifest" /\ durable' = [durable EXCEPT !.stored = stored]
        /\ UNCHANGED faulty
     \/ /\ Fails("idle")
        /\ UNCHANGED durable
  /\ UNCHANGED <<state, place, file, count, stored, tail, bound, returned, reading>>

WriteManifest ==
  /\ pc = "manifest"
  /\ WriteExclusive("manifest", "marker", "idle")
  /\ bound' = IF file["manifest"] = "absent" THEN count ELSE bound
  /\ UNCHANGED <<state, place, count, stored, tail, durable, returned, reading>>

WriteMarker ==
  /\ pc = "marker"
  /\ WriteExclusive("marker", "syncStaging", "idle")
  /\ UNCHANGED <<state, place, count, stored, tail, bound, durable, returned, reading>>

\* Faulty variant: the entries of the staging directory are not synced.
SyncStaging_Skipped ==
  /\ pc = "syncStaging"
  /\ pc' = "idle" /\ state' = "prepared"
  /\ UNCHANGED <<durable, faulty, place, file, count, stored, tail, bound, returned, reading>>

SyncStaging ==
  /\ pc = "syncStaging"
  /\ \/ /\ pc' = "idle" /\ state' = "prepared"
        /\ durable' = [durable EXCEPT !.names = {f \in Files : file[f] # "absent"}]
        /\ UNCHANGED faulty
     \/ /\ Fails("idle")
        /\ UNCHANGED <<state, durable>>
  /\ UNCHANGED <<place, file, count, stored, tail, bound, returned, reading>>

\* commitPrepared; the final path is free, for no other run has this RunId.
Rename ==
  /\ pc = "idle" /\ state = "prepared"
  /\ \/ /\ pc' = "syncRuns" /\ state' = "committed" /\ place' = Final
        /\ raced' = (raced \/ reader.step # "idle")
        /\ UNCHANGED faulty
     \/ /\ Fails("idle")
        /\ UNCHANGED <<state, place, raced>>
  /\ UNCHANGED <<file, count, stored, tail, bound, durable, returned, reader, seen>>

\* Faulty variant: commitPrepared returns without syncing the parent.
SyncRuns_Skipped ==
  /\ pc = "syncRuns"
  /\ pc' = "idle" /\ returned' = TRUE
  /\ UNCHANGED <<durable, faulty, state, place, file, count, stored, tail, bound, reading>>

SyncRuns ==
  /\ pc = "syncRuns"
  /\ \/ /\ pc' = "idle" /\ returned' = TRUE
        /\ durable' = [durable EXCEPT !.place = place]
        /\ UNCHANGED faulty
     \/ /\ Fails("idle")
        /\ UNCHANGED <<returned, durable>>
  /\ UNCHANGED <<state, place, file, count, stored, tail, bound, reading>>

\* The machine stops and comes back; what was not synced survives or not.
Crash ==
  /\ pc # "gone"
  /\ pc' = "gone" /\ faulty' = TRUE
  /\ place' \in durable.place..place
  /\ \E names \in SUBSET Files :
       /\ durable.names \subseteq names
       /\ file' = [f \in Files |-> IF f \in names THEN file[f] ELSE "absent"]
  /\ \/ stored' = stored /\ UNCHANGED tail
     \/ stored' \in durable.stored..(stored - 1) /\ tail' \in BOOLEAN
     \/ stored' = stored /\ tail' = FALSE
  /\ reader' = [step |-> "idle", path |-> None] /\ raced' = FALSE
  /\ UNCHANGED <<state, count, bound, durable, returned, seen>>

-----------------------------------------------------------------------------
(* The reader: readRunManifest and readDirectory. *)

\* readDirectory of a final directory: manifest, marker and events, checked by their digests.
Committed ==
  IF /\ file["manifest"] = "whole" /\ file["marker"] = "whole"
     /\ file["events"] = "whole" /\ stored = bound /\ ~tail
  THEN "complete" ELSE "corrupt"

ReadBegins ==
  /\ reader.step = "idle"
  /\ raced' = FALSE
  /\ reader' = IF place = Final THEN [step |-> "read", path |-> Final]
               ELSE [step |-> "exists", path |-> None]
  /\ UNCHANGED <<txn, disk, seen, faulty>>

\* readRunHistory lists the directory first.
ListBegins ==
  /\ reader.step = "idle" /\ place # None
  /\ raced' = FALSE
  /\ reader' = [step |-> "read", path |-> place]
  /\ UNCHANGED <<txn, disk, seen, faulty>>

ReadLooksForStaging ==
  /\ reader.step = "exists"
  /\ IF place = Staging
     THEN reader' = [step |-> "read", path |-> Staging] /\ UNCHANGED seen
     ELSE reader' = [step |-> "idle", path |-> None] /\ seen' = "corrupt"
  /\ UNCHANGED <<txn, disk, raced, faulty>>

\* Faulty variant: a staging directory with its marker counts as a run.
ReadEnds_TrustsMarker ==
  /\ reader.step = "read"
  /\ reader' = [step |-> "idle", path |-> None]
  /\ seen' = IF file["marker"] = "whole" THEN Committed
             ELSE IF place = Staging /\ file["start"] = "whole" THEN "incomplete" ELSE "corrupt"
  /\ UNCHANGED <<txn, disk, raced, faulty>>

\* A staging directory has only its start file read, and that may be gone by now.
ReadEnds ==
  /\ reader.step = "read"
  /\ reader' = [step |-> "idle", path |-> None]
  /\ seen' = IF reader.path = Final THEN Committed
             ELSE IF place = Staging /\ file["start"] = "whole" THEN "incomplete" ELSE "corrupt"
  /\ UNCHANGED <<txn, disk, raced, faulty>>

Next ==
  \/ MakeStaging \/ WriteStart \/ WriteEvents
  \/ AppendEvents \/ AppendFails
  \/ SyncEvents \/ WriteManifest \/ WriteMarker \/ SyncStaging
  \/ Rename \/ SyncRuns
  \/ Crash
  \/ ReadBegins \/ ListBegins \/ ReadLooksForStaging \/ ReadEnds

Spec == Init /\ [][Next]_vars

-----------------------------------------------------------------------------
(* Properties. *)

\* The locals of the transaction and the reader keep their types; no retry after a failed append
\* makes events.ndjson longer than the batches that were handed in.
TypeOK ==
  /\ pc \in {"mkdir", "start", "events", "idle", "manifest", "marker", "syncStaging", "syncRuns",
             "dead", "gone"}
  /\ state \in {"opening", "open", "prepared", "committed", "failed"}
  /\ place \in 1..3 /\ file \in [Files -> {"absent", "torn", "whole"}]
  /\ {count, stored, bound} \subseteq 0..MaxBatches /\ {tail, returned, raced, faulty} \subseteq BOOLEAN
  /\ durable \in [place : 1..3, names : SUBSET Files, stored : 0..MaxBatches]
  /\ reader \in [step : {"idle", "exists", "read"}, path : 1..3]
  /\ seen \in {"nothing", "complete", "incomplete", "corrupt"}

\* "one atomic rename are the certification commit": whatever failed before it and whenever the
\* machine stops, a directory under its final name reads as complete with all its events.
FinalIsComplete == place = Final => Committed = "complete" /\ stored = count

\* Once commitPrepared has returned, no crash takes the run back.
CommitIsDurable == returned => place = Final

\* "They never reinterpret a partial transaction ... as a successful run."
CompleteIsCommitted == seen = "complete" => state = "committed"

\* A read ends with corrupt only when a call failed, the machine stopped, the directory was not
\* complete yet, or it moved between two calls of the reader.
CorruptIsExplained ==
  [][reader.step # "idle" /\ reader'.step = "idle" /\ seen' = "corrupt" =>
       faulty' \/ raced \/ state = "opening"]_vars
=============================================================================
