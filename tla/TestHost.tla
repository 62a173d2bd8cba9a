------------------------------ MODULE TestHost ------------------------------
(***************************************************************************)
(* One run of the test host, #drive in packages/termwright-cli/src/        *)
(* test-host.ts with HostRunBudget and RunEventPersistence: startup,       *)
(* collection, execution and a finalization that closes the transports,    *)
(* decides the verdict, flushes the journal and commits the run to its     *)
(* history.  stop() may come at any await, workers and the console append  *)
(* events, and the two deadlines race every answer; what was awaited too   *)
(* long goes on in the background.                                         *)
(*                                                                         *)
(* run holds the locals of #drive, the ActiveRun and the store; the code   *)
(* between two awaits is one operator from such records to such records.   *)
(* The journal is the sequence of its accepted events, of which the first  *)
(* flushed ones have left it and the first stored ones are in the store.   *)
(***************************************************************************)
EXTENDS Integers, FiniteSetsExt, SequencesExt

CONSTANTS
  Tasks,             \* the tests that are collected
  JournalCapacity,   \* maxAuthoritativeEvents
  Failing,           \* operations that may fail
  Slow,              \* operations that a deadline may overtake
  MaxOutput,         \* bound on the console output
  None               \* undefined

Operations ==
  {"history", "broker", "journal", "abort", "collect", "costs", "run", "classify", "leak", "cancel", "closeBroker",
   "closeJournal", "append", "stream", "projection", "prepare", "rename", "sync", "update"}

ASSUME OperationsAssumption == Failing \subseteq Operations /\ Slow \subseteq Operations
ASSUME LimitsAssumption == JournalCapacity \in Nat /\ MaxOutput \in Nat
ASSUME NoneAssumption == None \notin [mark : Nat, step : {"append", "projection"}]

VARIABLES
  clock,   \* "execution", "reserve" or "over": which deadlines of HostRunBudget have passed
  run

vars == <<clock, run>>

Verdicts == {"passed", "passed-with-skips", "failed", "skipped", "flaky"}
TerminalStates == Verdicts \cup {"cancelled", "infrastructure-failed", "crashed", "incomplete"}
Certified == {"passed", "passed-with-skips"}

\* RUN_STATE_TRANSITIONS.
Transitions(state) ==
  CASE state = "requested" -> {"collecting", "cancelling", "infrastructure-failed"}
    [] state = "collecting" ->
         {"scheduled", "cancelling", "infrastructure-failed", "incomplete"}
    [] state = "scheduled" ->
         {"running", "cancelling", "finalizing", "infrastructure-failed", "incomplete"}
    [] state = "running" ->
         {"cancelling", "finalizing", "infrastructure-failed", "crashed", "incomplete"}
    [] state = "cancelling" ->
         {"finalizing", "cancelled", "infrastructure-failed", "incomplete"}
    [] state = "finalizing" -> TerminalStates
    [] OTHER -> {}

\* requestRun, up to the first await of #drive.
Init ==
  /\ clock = "execution"
  /\ run = [pc |-> "history", state |-> "requested", stopping |-> FALSE,
            terminal |-> "infrastructure-failed", failure |-> "none", threw |-> FALSE,
            have |-> {}, expected |-> {},
            attempts |-> [t \in Tasks |-> "none"], native |-> [t \in Tasks |-> "none"],
            leases |-> {}, leaked |-> FALSE, control |-> FALSE,
            events |-> <<"configuration", "requested">>, flushed |-> 0, stored |-> 0,
            flight |-> None,
            store |-> "opening", op |-> "none", bound |-> 0, status |-> "none"]

-----------------------------------------------------------------------------
(* The journal and the state of the run. *)

Authoritative(events) == SelectSeq(events, LAMBDA e : e # "output")

\* append of an authoritative event; every caller throws when it is refused.
Record(r, event) ==
  IF Len(Authoritative(SubSeq(r.events, r.flushed + 1, Len(r.events)))) < JournalCapacity
  THEN [r EXCEPT !.events = Append(@, event)]
  ELSE [r EXCEPT !.threw = TRUE]

\* #transition: the state changes before its event is refused.
Transition(r, next) ==
  IF r.state = next THEN r
  ELSE IF next \in Transitions(r.state) THEN Record([r EXCEPT !.state = next], next)
  ELSE [r EXCEPT !.threw = TRUE]

TransitionIfLegal(r, next) == IF next \in Transitions(r.state) THEN Transition(r, next) ELSE r

\* A failure is noted and decides the verdict.
Failed(r, terminal) == [r EXCEPT !.failure = "error", !.terminal = terminal, !.threw = FALSE]

\* An exception leaves #drive: the promise of the run never settles.
OrRejected(r, next) == IF r.threw THEN [r EXCEPT !.pc = "rejected"] ELSE next

-----------------------------------------------------------------------------
(* The end of #drive, from its last await back to its first. *)

Done(r) == [r EXCEPT !.pc = "done"]

\* RunEventPersistence.flush up to its await, at the point pc of #drive.
StartFlush(r, pc) ==
  [r EXCEPT !.pc = pc, !.flight = [mark |-> Len(r.events), step |-> "append"]]

PersistenceFailed(r) ==
  [Record(Failed(r, "incomplete"), "persistence-failed") EXCEPT !.threw = FALSE]

\* Faulty variant: the verdict stands although the history could not be committed.
StoreFailed_KeepsVerdict(r) == Done(r)

\* prepare or commitPrepared failed; a flush that is refused is caught.
StoreFailed(r) ==
  LET full == Record(Failed(r, "incomplete"), "persistence-failed").threw
      f == PersistenceFailed(r)
  IN  IF full \/ f.flight # None THEN Done(f) ELSE StartFlush(f, "correction")

BeginUpdate(r) == IF clock = "over" THEN Done(r) ELSE [r EXCEPT !.pc = "update"]

BeginCommit(r) ==
  IF clock = "over" THEN StoreFailed(r) ELSE [r EXCEPT !.pc = "commit", !.op = "rename"]

BeginPrepare(r) ==
  IF "history" \notin r.have THEN Done(r)
  ELSE IF clock = "over" \/ r.store \notin {"open", "full"} THEN StoreFailed(r)
  ELSE [r EXCEPT !.pc = "prepare", !.op = "prepare", !.bound = r.stored, !.status = r.terminal]

TerminalFlushFailed(r) ==
  LET f == PersistenceFailed(r)
  IN  IF f.flight # None THEN BeginPrepare(f) ELSE StartFlush(f, "retry")

\* Faulty variant: only a finalizing run gets its terminal state.
BeginTerminalFlush_IfFinalizing(r) ==
  LET t == IF r.state = "finalizing" THEN TransitionIfLegal(r, r.terminal) ELSE r
  IN  OrRejected(t, IF clock = "over" \/ t.flight # None THEN TerminalFlushFailed(t)
                    ELSE StartFlush(t, "terminal"))

BeginTerminalFlush(r) ==
  LET t == TransitionIfLegal(r, r.terminal)
  IN  OrRejected(t, IF clock = "over" \/ t.flight # None THEN TerminalFlushFailed(t)
                    ELSE StartFlush(t, "terminal"))

\* Faulty variant: the verdict enters the journal before the facts are stored.
BeginFlush_VerdictFirst(r) ==
  LET t == TransitionIfLegal(r, r.terminal)
  IN  OrRejected(t, IF clock = "over" THEN BeginTerminalFlush(Failed(t, "incomplete"))
                    ELSE StartFlush(t, "facts"))

BeginFlush(r) ==
  IF clock = "over" \/ r.flight # None THEN BeginTerminalFlush(Failed(r, "incomplete"))
  ELSE StartFlush(r, "facts")

\* Faulty variant: an attempt that started is evidence enough.
Unattested_StartedIsEnough(r) ==
  \E t \in r.expected : r.attempts[t] = "none" /\ r.native[t] \notin {"skipped", "failed"}

\* A selected test lacks the evidence that its outcome needs.
Unattested(r) ==
  \E t \in r.expected :
    \/ r.attempts[t] = "started"
    \/ r.attempts[t] = "none" /\ r.native[t] \notin {"skipped", "failed"}

\* Faulty variant: the skip policy is recorded only for a run that executes tests.
Barrier_PolicyWhenExecuted(r) ==
  LET a == IF r.control \/ (~r.stopping /\ ~r.leaked /\ Unattested(r))
           THEN Failed(r, "infrastructure-failed") ELSE r
      b == IF a.expected = {} THEN a ELSE Record(a, "skip-policy")
  IN  BeginFlush(IF b.threw THEN Failed(b, "incomplete") ELSE b)

\* The attempt barrier, the control failures and the skip evidence.
Barrier(r) ==
  LET a == IF ~r.stopping /\ ~r.leaked /\ Unattested(r)
           THEN Failed(r, "infrastructure-failed") ELSE r
      b == IF a.control THEN Failed(a, "infrastructure-failed") ELSE a
      c == Record(b, "skip-policy")
      d == IF c.threw THEN Failed(c, "incomplete") ELSE c
      e == IF \/ d.failure # "none" /\ d.terminal = "infrastructure-failed"
              \/ d.failure = "cleanup"
           THEN Record(d, "infrastructure") ELSE d
  IN  OrRejected(e, BeginFlush(e))

BeginJournalClose(r) ==
  IF "journal" \in r.have THEN [r EXCEPT !.pc = "closeJournal"] ELSE Barrier(r)

\* What follows the try block.
Finalize(r) ==
  LET a == IF r.state = "cancelling" THEN Transition(r, "finalizing") ELSE r
      b == IF "broker" \in a.have /\ a.leases # {} /\ ~a.leaked
           THEN Failed(a, "infrastructure-failed") ELSE a
  IN  OrRejected(a, IF "broker" \in b.have THEN [b EXCEPT !.pc = "closeBroker"]
                    ELSE BeginJournalClose(b))

\* The catch block, for an error of this kind.
Catch(r, kind) ==
  LET terminal == IF kind \in {"no-space", "cleanup"} THEN "incomplete"
                  ELSE IF r.stopping THEN "cancelled" ELSE "infrastructure-failed"
      a == [Failed(r, terminal) EXCEPT !.failure = IF kind = "cleanup" THEN kind ELSE @]
      b == TransitionIfLegal(a, "finalizing")
  IN  OrRejected(b, IF kind = "timeout" THEN [b EXCEPT !.pc = "cancel"] ELSE Finalize(b))

OrCaught(r, next) == IF r.threw THEN Catch(r, "error") ELSE next

-----------------------------------------------------------------------------
(* Startup, collection and execution.  An action ends one await. *)

ErrorKinds == {"error", "no-space"}

HistoryOpens ==
  /\ run.store = "opening"
  /\ run' = [run EXCEPT !.store = "open"]

HistoryBreaks ==
  /\ run.store = "opening"
  /\ run' = [run EXCEPT !.store = "broken"]

HistoryReady ==
  /\ run.pc = "history" /\ run.store = "open"
  /\ run' = [run EXCEPT !.pc = "broker", !.have = @ \cup {"history"}]

HistoryFails ==
  /\ run.pc = "history" /\ run.store = "broken"
  /\ \E kind \in ErrorKinds : run' = Catch(run, kind)

BrokerStarts ==
  /\ run.pc = "broker"
  /\ run' = [run EXCEPT !.pc = "journal", !.have = @ \cup {"broker"}]

JournalStarts ==
  /\ run.pc = "journal"
  /\ LET r == Transition([run EXCEPT !.have = @ \cup {"journal"}], "collecting")
     IN  run' = OrCaught(r, [r EXCEPT !.pc = "collect"])

\* startResource: the abort of a startup that was too slow, and its cleanup.
StartupTimesOut ==
  /\ run.pc \in {"broker", "journal"} /\ clock # "execution"
  /\ run' \in {[run EXCEPT !.pc = "abort"], Catch(run, "timeout")}

AbortEnds ==
  /\ run.pc = "abort"
  /\ run' = Catch(run, "timeout")

AbortFails ==
  /\ run.pc = "abort"
  /\ run' = Catch(run, "cleanup")

Collected ==
  /\ run.pc = "collect"
  /\ run' = [run EXCEPT !.pc = "costs"]

\* The operation op rejects.
Rejects(op) ==
  /\ run.pc = op
  /\ \E kind \in ErrorKinds : run' = Catch(run, kind)

\* The execution deadline passes while op is awaited, or before it starts.
ExecutionTimesOut ==
  /\ run.pc \in {"history", "collect", "costs", "run"} /\ clock # "execution"
  /\ run' = Catch(run, "timeout")

CostsLoaded ==
  /\ run.pc = "costs"
  /\ \E execute \in BOOLEAN, selected \in {{}, Tasks} :
       LET scheduled == Transition(run, "scheduled")
           next == IF execute /\ selected # {} THEN "running" ELSE "finalizing"
           r == Transition([scheduled EXCEPT !.expected = IF execute THEN selected ELSE {}], next)
       IN  run' =
             IF run.stopping THEN Finalize([run EXCEPT !.terminal = "cancelled"])
             ELSE IF scheduled.threw THEN Catch(scheduled, "error")
             ELSE IF r.threw THEN Catch(r, "error")
             ELSE IF next = "running" THEN [r EXCEPT !.pc = "run"]
             ELSE Finalize([r EXCEPT !.terminal = "skipped"])

\* classifyVitestResult.
Verdict(native, expected, retried) ==
  LET outcomes == {native[t] : t \in expected}
  IN  IF outcomes \subseteq {"skipped"} THEN "skipped"
      ELSE IF "failed" \in outcomes THEN "failed"
      ELSE IF retried /\ "passed" \in outcomes THEN "flaky"
      ELSE IF "skipped" \in outcomes THEN "passed-with-skips"
      ELSE "passed"

\* Faulty variant: a stop during the execution is not looked at again.
Classify_ForgetsStop(r, unhandled, retried) ==
  LET t == Transition(r, "finalizing")
  IN  OrCaught(t, Finalize([t EXCEPT !.terminal = Verdict(r.native, r.expected, retried)]))

\* The verdict, after the execution and without a leak.
Classify(r, unhandled, retried) ==
  LET t == Transition(r, IF r.stopping THEN "cancelling" ELSE "finalizing")
  IN  OrCaught(t, Finalize(
        IF r.stopping THEN [t EXCEPT !.terminal = "cancelled"]
        ELSE IF unhandled THEN Failed(t, "infrastructure-failed")
        ELSE [t EXCEPT !.terminal = Verdict(r.native, r.expected, retried)]))

Executed ==
  /\ run.pc = "run"
  /\ \E native \in [Tasks -> {"passed", "failed", "skipped"}], unhandled, retried \in BOOLEAN :
       LET failures == {t \in run.expected : native[t] = "failed"}
           r == FoldSet(LAMBDA t, acc : IF acc.threw THEN acc ELSE Record(acc, "test-failed"),
                        [run EXCEPT !.native = native], failures)
       IN  run' = OrCaught(r, IF r.leaked THEN [r EXCEPT !.pc = "leak"]
                              ELSE Classify(r, unhandled, retried))

\* The result does not cover the selected tests, which is found after the transition.
ClassifyFails ==
  /\ run.pc = "run" /\ ~run.leaked /\ ~run.stopping
  /\ run' = Catch(Transition(run, "finalizing"), "error")

\* The cancellation after a leak ends, fails or takes too long: the run fails anyway.
LeakCancelled ==
  /\ run.pc = "leak"
  /\ run' = Catch(run, "error")

-----------------------------------------------------------------------------
(* Finalization. *)

\* The engine is cancelled after a timeout.
Cancelled ==
  /\ run.pc = "cancel"
  /\ run' = Finalize(run)

CancelFails ==
  /\ run.pc = "cancel"
  /\ run' = Finalize(Failed(run, "incomplete"))

BrokerCloses ==
  /\ run.pc = "closeBroker"
  /\ run' = BeginJournalClose(run)

BrokerCloseFails ==
  /\ run.pc = "closeBroker"
  /\ run' = BeginJournalClose(Failed(run, "incomplete"))

JournalCloses ==
  /\ run.pc = "closeJournal"
  /\ run' = Barrier([run EXCEPT !.have = @ \ {"journal"}])

JournalCloseFails ==
  /\ run.pc = "closeJournal"
  /\ run' = Barrier(Failed(run, "incomplete"))

\* A flush has ended; #drive goes on if it still waits for it.
AfterFlush(r, ok) ==
  CASE r.pc = "facts" -> BeginTerminalFlush(IF ok THEN r ELSE Failed(r, "incomplete"))
    [] r.pc = "terminal" -> IF ok THEN BeginPrepare(r) ELSE TerminalFlushFailed(r)
    [] r.pc = "retry" -> BeginPrepare(r)
    [] r.pc = "correction" -> Done(r)
    [] OTHER -> r

\* The sink: appendEvents of the store, then the projection, whose errors are ignored.
Appended ==
  /\ run.flight # None /\ run.flight.step = "append" /\ run.store = "open"
  /\ run' = [run EXCEPT !.stored = run.flight.mark, !.flight.step = "projection"]

\* Faulty variant: what was accepted during the flush leaves the journal with it.
Projected_TakesAll ==
  /\ run.flight # None /\ run.flight.step = "projection"
  /\ run' = AfterFlush([run EXCEPT !.flushed = Len(run.events), !.flight = None], TRUE)

Projected ==
  /\ run.flight # None /\ run.flight.step = "projection"
  /\ run' = AfterFlush([run EXCEPT !.flushed = run.flight.mark, !.flight = None], TRUE)

\* appendEvents rejects at once when the transaction is not open or its stream is full.
AppendRefused ==
  /\ run.flight # None /\ run.flight.step = "append"
  /\ run.store \notin {"opening", "open"}
  /\ run' = AfterFlush([run EXCEPT !.flight = None], FALSE)

AppendFails ==
  /\ run.flight # None /\ run.flight.step = "append" /\ run.store = "open"
  /\ run' = AfterFlush([run EXCEPT !.flight = None, !.store = "failed"], FALSE)

\* The batch exceeds the capacity of the stream, and so does every later one; the transaction can
\* still be prepared.
StreamFull ==
  /\ run.flight # None /\ run.flight.step = "append" /\ run.store = "open"
  /\ run' = AfterFlush([run EXCEPT !.flight = None, !.store = "full"], FALSE)

Prepared ==
  /\ run.op = "prepare"
  /\ LET r == [run EXCEPT !.op = "none", !.store = "prepared"]
     IN  run' = IF r.pc = "prepare" THEN BeginCommit(r) ELSE r

Renamed ==
  /\ run.op = "rename"
  /\ run' = [run EXCEPT !.op = "sync", !.store = "committed"]

Synced ==
  /\ run.op = "sync"
  /\ LET r == [run EXCEPT !.op = "none"]
     IN  run' = IF r.pc = "commit" THEN BeginUpdate(r) ELSE r

\* One of the calls of prepare and commitPrepared fails.
StoreOpFails(op) ==
  /\ run.op = op
  /\ LET r == [run EXCEPT !.op = "none"]
     IN  run' = IF r.pc \in {"prepare", "commit"} THEN StoreFailed(r) ELSE r

Updated ==
  /\ run.pc = "update"
  /\ run' = Done(run)

\* Faulty variant: the calls of the run history are not bounded.
TotalTimesOut_NotForHistory ==
  /\ clock = "over"
  /\ \/ AbortFails \/ LeakCancelled \/ CancelFails \/ BrokerCloseFails \/ JournalCloseFails
     \/ Updated
     \/ run.pc \in {"facts", "terminal"} /\ run' = AfterFlush(run, FALSE)

\* The total deadline passes; the operation goes on by itself.
TotalTimesOut ==
  /\ clock = "over"
  /\ \/ AbortFails \/ LeakCancelled \/ CancelFails \/ BrokerCloseFails \/ JournalCloseFails
     \/ Updated
     \/ run.pc \in {"facts", "terminal"} /\ run' = AfterFlush(run, FALSE)
     \/ run.pc \in {"prepare", "commit"} /\ run' = StoreFailed(run)

-----------------------------------------------------------------------------
(* The others: a client, the workers, the console and time. *)

Active == run.pc \notin {"done", "rejected"}

\* stop(); the event of the transition may be refused after the state has changed.
Stop ==
  /\ Active /\ ~run.stopping
  /\ run' = [TransitionIfLegal([run EXCEPT !.stopping = TRUE], "cancelling")
               EXCEPT !.threw = FALSE]
  /\ UNCHANGED clock

\* An event of a worker; it is observed before the journal may refuse it.
WorkerStarts(t) ==
  /\ Active /\ "journal" \in run.have
  /\ t \in run.expected /\ run.attempts[t] = "none"
  /\ run' = [Record([run EXCEPT !.attempts[t] = "started"], "attempt") EXCEPT !.threw = FALSE]
  /\ UNCHANGED clock

WorkerFinishes(t) ==
  /\ Active /\ "journal" \in run.have
  /\ run.attempts[t] = "started"
  /\ LET r == Record([run EXCEPT !.attempts[t] = "finished"], "attempt")
     IN  run' = [r EXCEPT !.threw = FALSE, !.leaked = @ \/ (~r.threw /\ t \in r.leases)]
  /\ UNCHANGED clock

WorkerAcquires(t) ==
  /\ run.pc \in {"run", "leak", "cancel", "closeBroker"} /\ run.attempts[t] = "started"
  /\ run' = [run EXCEPT !.leases = @ \cup {t}]
  /\ UNCHANGED clock

WorkerReleases(t) ==
  /\ t \in run.leases
  /\ run' = [run EXCEPT !.leases = @ \ {t}]
  /\ UNCHANGED clock

\* #recordUserConsoleLog; output of a test without an attempt is a control failure.
ConsoleOutput(t) ==
  /\ Active /\ Len(SelectSeq(run.events, LAMBDA e : e = "output")) < MaxOutput
  /\ run' = [run EXCEPT !.events = Append(@, "output"),
                        !.control = @ \/ (t \in run.expected /\ run.attempts[t] = "none")]
  /\ UNCHANGED clock

\* The operation that #drive waits for.
Awaited ==
  CASE run.pc \in {"facts", "terminal", "retry", "correction"} ->
         IF run.store = "opening" THEN "history" ELSE run.flight.step
    [] run.pc = "commit" -> run.op
    [] OTHER -> run.pc

Tick ==
  /\ Active /\ Awaited \in Slow /\ clock # "over"
  /\ clock' = IF clock = "execution" THEN "reserve" ELSE "over"
  /\ UNCHANGED run

\* op answers.
Answers(op) ==
  \/ op = "history" /\ (HistoryOpens \/ HistoryReady \/ HistoryFails)
  \/ op = "broker" /\ BrokerStarts
  \/ op = "journal" /\ JournalStarts
  \/ op = "abort" /\ AbortEnds
  \/ op = "collect" /\ Collected
  \/ op = "costs" /\ CostsLoaded
  \/ op = "run" /\ Executed
  \/ op = "leak" /\ LeakCancelled
  \/ op = "cancel" /\ Cancelled
  \/ op = "closeBroker" /\ BrokerCloses
  \/ op = "closeJournal" /\ JournalCloses
  \/ op = "append" /\ (Appended \/ AppendRefused)
  \/ op = "projection" /\ Projected
  \/ op = "prepare" /\ Prepared
  \/ op = "rename" /\ Renamed
  \/ op = "sync" /\ Synced
  \/ op = "update" /\ Updated

\* op fails.
Breaks(op) ==
  \/ op = "history" /\ HistoryBreaks
  \/ op \in {"broker", "journal", "collect", "costs", "run"} /\ Rejects(op)
  \/ op = "abort" /\ AbortFails
  \/ op = "classify" /\ ClassifyFails
  \/ op = "cancel" /\ CancelFails
  \/ op = "closeBroker" /\ BrokerCloseFails
  \/ op = "closeJournal" /\ JournalCloseFails
  \/ op = "append" /\ AppendFails
  \/ op = "stream" /\ StreamFull
  \/ op \in {"prepare", "rename", "sync"} /\ StoreOpFails(op)

TimesOut == StartupTimesOut \/ ExecutionTimesOut \/ TotalTimesOut

Next ==
  \/ \E op \in Operations : Answers(op) /\ UNCHANGED clock
  \/ \E op \in Failing : Breaks(op) /\ UNCHANGED clock
  \/ TimesOut /\ UNCHANGED clock
  \/ Tick
  \/ Stop
  \/ \E t \in Tasks : WorkerStarts(t) \/ WorkerFinishes(t) \/ WorkerAcquires(t)
                      \/ WorkerReleases(t) \/ ConsoleOutput(t)

\* Time passes, timers fire, and what is not slow answers.
Fairness ==
  /\ WF_vars(Tick \/ (TimesOut /\ UNCHANGED clock))
  /\ \A op \in Operations \ Slow :
       WF_vars(Answers(op) /\ UNCHANGED clock)

Spec == Init /\ [][Next]_vars
FairSpec == Spec /\ Fairness

-----------------------------------------------------------------------------
(* Properties. *)

Points ==
  {"history", "broker", "journal", "abort", "collect", "costs", "run", "leak", "cancel",
   "closeBroker", "closeJournal", "facts", "terminal", "retry", "prepare", "commit", "update",
   "correction", "done", "rejected"}
States == TerminalStates \cup {"requested", "collecting", "scheduled", "running", "cancelling",
                               "finalizing"}

\* The fields of #drive keep their types, an exception never stays pending across an await, and what
\* has left the journal is in the store.
TypeOK ==
  /\ clock \in {"execution", "reserve", "over"}
  /\ run.pc \in Points /\ run.state \in States /\ run.terminal \in TerminalStates
  /\ run.threw => run.pc = "rejected"
  /\ run.failure \in {"none", "error", "cleanup"}
  /\ run.have \subseteq {"history", "broker", "journal"} /\ run.expected \in {{}, Tasks}
  /\ run.store \in {"opening", "broken", "open", "full", "failed", "prepared", "committed"}
  /\ run.op \in {"none", "prepare", "rename", "sync"}
  /\ {run.flushed, run.stored} \subseteq 0..Len(run.events) /\ run.flushed <= run.stored
  /\ run.flight # None => run.flight.mark \in 0..Len(run.events)

\* What validateManifest makes of the events that the store holds.
LastTerminal ==
  LET is == {i \in 1..run.stored : run.events[i] \in TerminalStates} IN
  IF is = {} THEN 0 ELSE Max(is)
Readable ==
  /\ run.stored = run.bound
  /\ LastTerminal # 0
  /\ \E i \in 1..run.stored : run.events[i] = "skip-policy"
  /\ IF run.status = "incomplete"
     THEN \/ run.events[LastTerminal] = "incomplete"
          \/ \E i \in LastTerminal..run.stored : run.events[i] = "persistence-failed"
     ELSE run.events[LastTerminal] = run.status

\* What a reader of the run's history finds.
Reads ==
  IF run.store # "committed" THEN "incomplete" ELSE IF Readable THEN "complete" ELSE "corrupt"

\* A verdict that the host returns is committed, readable, and the same in the history, whatever
\* deadline, stop or late answer came in between.
ReturnedIsStored ==
  run.pc = "done" /\ run.terminal \in Verdicts => Reads = "complete" /\ run.status = run.terminal

\* "cannot certify a run whose worker never closes an authoritative attempt": a certified run has
\* a finished attempt for every test that was not skipped, and none that only started.
LostWorkerIsNotCertified ==
  run.pc = "done" /\ run.terminal \in Certified =>
    \A t \in run.expected :
      run.attempts[t] = "finished" \/ (run.attempts[t] = "none" /\ run.native[t] = "skipped")

\* The same for a run that nobody tried to stop.
CertifiedIsAttested == ~run.stopping => LostWorkerIsNotCertified

\* "The manifest embeds the canonical journal, including terminal and projection-failure events":
\* a committed run is accepted by its reader.
CommittedIsReadable == run.store = "committed" => Reads = "complete"

\* The same for a run that got as far as collecting and whose journal had room for its skip policy.
CollectedIsReadable ==
  {"collecting", "skip-policy"} \subseteq Range(run.events) => CommittedIsReadable

\* "The canonical store remains staging/incomplete" when the host returns incomplete because
\* prepare or commitPrepared failed.
FailedCommitStaysStaging ==
  run.pc = "done" /\ run.terminal = "incomplete" /\ run.store = "committed"
    => run.status = "incomplete"

\* A run that went through cancelling never ends with a verdict about its tests.
StoppedIsNoVerdict ==
  run.pc = "done" /\ Contains(run.events, "cancelling") => run.terminal \notin Verdicts

\* "Before the terminal run.state, the canonical journal records the complete decision input": at
\* most one terminal state is accepted, and a verdict follows the skip policy it was decided with.
DecisionPrecedesVerdict ==
  \A i \in DOMAIN run.events : run.events[i] \in TerminalStates =>
    /\ \A j \in DOMAIN run.events : run.events[j] \in TerminalStates => i = j
    /\ run.events[i] \in Verdicts => \E j \in 1..(i - 1) : run.events[j] = "skip-policy"

\* "Persist every causal fact through finalization before appending a successful terminal state":
\* when a verdict is accepted, everything before it except console output is in the store.
FactsAreStoredFirst ==
  [][\A i \in DOMAIN run'.events \ DOMAIN run.events :
       run'.events[i] \in Verdicts =>
         Len(Authoritative(SubSeq(run.events, run.stored + 1, Len(run.events)))) = 0]_vars

\* "One total monotonic budget for collection, execution and finalization": the run settles.
Settles == <>(run.pc = "done")
=============================================================================
