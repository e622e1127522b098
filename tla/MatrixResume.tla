---------------------------- MODULE MatrixResume ----------------------------
(***************************************************************************)
(* The controller of the user-workload matrix                              *)
(* (scripts/user-workloads/run_user_workload_matrix.py): a fixed schedule  *)
(* of lanes and then comparisons, each a child process, recorded in the    *)
(* files of one output directory so that a controller that stops can be    *)
(* relaunched with --resume.                                               *)
(*                                                                         *)
(* Every file is written by atomic_write_json (temporary file, fsync,      *)
(* rename, fsync of the directory): a write has happened entirely or not   *)
(* at all when a controller dies, and steps are split between any two of   *)
(* them.  A controller that is killed, or hit by a KeyboardInterrupt,      *)
(* which `except Exception' does not catch, runs no handler: Crash.        *)
(* Everything else that goes wrong (a child that fails or times out,       *)
(* SIGTERM while one runs, changed hardware or inputs) is an exception:    *)
(* Fault.  report.json stands for report.md as well, and the output of an  *)
(* item for its runtime directory.                                         *)
(***************************************************************************)
EXTENDS Naturals, Sequences, SequencesExt

CONSTANTS
  Launchers,     \* processes in which the matrix command is started
  Lanes,         \* number of lanes of the schedule
  Comparisons,   \* number of comparisons that follow them
  MaxCrashes,    \* bound on the controllers that are killed
  MaxFaults,     \* bound on the exceptions
  MaxAttempts    \* bound: no resume is started after that many attempts

ASSUME MatrixAssumption ==
  /\ Lanes \in Nat \ {0} /\ Comparisons \in Nat
  /\ {MaxCrashes, MaxFaults, MaxAttempts} \subseteq Nat

Items == 1..(Lanes + Comparisons)
Outcomes == {"PASS", "FAIL", "DEVELOPMENT_ONLY"}

VARIABLES
  created,     \* the output directory and its LOCK exist
  owner,       \* the launchers that hold the flock of LOCK: none or one
  journal,     \* JOURNAL.json: its events, <<>> if there is no file
  checkpoint,  \* CHECKPOINT.json: {} or {<<the run that completed each item>>}
  marks,       \* which of RUNNING, FAILED and DEVELOPMENT exist
  report,      \* report.json: {} or {the checkpoint and history it binds}
  complete,    \* COMPLETE: {} or {the report and journal it binds}
  output,      \* per item, {} or {the run that wrote it, and whether it ended well}
  logs,        \* the items whose log file exists
  history,     \* resume-history: per attempt, whether it has ARCHIVED.json
  verdict,     \* what the gates say of the recorded timings
  pc, done, events,  \* per launcher: where it is, completed items, its journal
  crashes, faults    \* how many there were

closure == <<marks, report, complete>>
artifacts == <<output, logs>>
files == <<created, journal, checkpoint, closure, artifacts, history>>
memory == <<done, events>>
budget == <<verdict, crashes, faults>>
vars == <<files, owner, pc, memory, budget>>

Init ==
  /\ created = FALSE /\ owner = {} /\ journal = <<>> /\ checkpoint = {}
  /\ marks = {} /\ report = {} /\ complete = {}
  /\ output = [i \in Items |-> {}] /\ logs = {} /\ history = <<>>
  /\ verdict \in Outcomes
  /\ pc = [l \in Launchers |-> "idle"]
  /\ done = [l \in Launchers |-> <<>>] /\ events = [l \in Launchers |-> <<>>]
  /\ crashes = 0 /\ faults = 0

------------------------------------------------------------------------------
(* The events of a controller whose completed items were written by runs d. *)
EventsOf(i, run) == (IF i <= Lanes THEN << <<"started", i>> >> ELSE <<>>)
                    \o << <<"ended", i, run>>, <<"validated", i, run>> >>
ExpectedEvents(d) ==
  << <<"controller">> >> \o FlattenSeq([i \in 1..Len(d) |-> EventsOf(i, d[i])])

(* validate_resumed_lane and validate_resumed_comparison, and with         *)
(* validate_resume_journal_prefix all that a resume asks of the files.     *)
ResultsIntact(d) == \A i \in 1..Len(d) :
  output[i] = {[run |-> d[i], ok |-> TRUE]} /\ i \in logs
Resumable == \E d \in checkpoint :
  ResultsIntact(d) /\ IsPrefix(ExpectedEvents(d), journal)

Terminal == complete # {} \/ "DEVELOPMENT" \in marks
EveryAttemptArchived == \A a \in DOMAIN history : history[a]

(* verify_matrix_complete: every record that COMPLETE reaches. *)
Verifiable == \E d \in checkpoint :
  /\ complete = {[report |-> report, journal |-> journal]}
  /\ report = {[checkpoint |-> checkpoint, history |-> history]}
  /\ EveryAttemptArchived
  /\ Len(d) = Lanes + Comparisons /\ ResultsIntact(d)
  /\ journal = ExpectedEvents(d)

Item(l) == Len(done[l]) + 1
Run == Len(history)   \* a run is named by the attempt that started it

Goto(l, where) == pc' = [pc EXCEPT ![l] = where]
Step(l, from, to) == pc[l] = from /\ Goto(l, to)

Forget(l) == done' = [done EXCEPT ![l] = <<>>] /\ events' = [events EXCEPT ![l] = <<>>]

(* append_journal writes the journal of the controller, not of the file. *)
AppendJournal(l, event) ==
  /\ events' = [events EXCEPT ![l] = Append(@, event)]
  /\ journal' = events'[l]

------------------------------------------------------------------------------
(* The beginning of main.  The test for a terminal matrix precedes the lock. *)
Fresh(l) ==
  /\ ~created /\ created' = TRUE
  /\ Step(l, "idle", "lock fresh")
  /\ UNCHANGED <<journal, checkpoint, closure, artifacts, history, owner, memory, budget>>

Resume(l) ==
  /\ created /\ ~Terminal /\ Len(history) < MaxAttempts
  /\ Step(l, "idle", "lock resume")
  /\ UNCHANGED <<files, owner, memory, budget>>

Acquire(l) ==
  /\ owner = {} /\ owner' = {l}
  /\ \/ Step(l, "lock fresh", "mark fresh")
     \/ Step(l, "lock resume", "load")
  /\ UNCHANGED <<files, memory, budget>>

LockIsHeld(l) ==
  /\ owner # {} /\ pc[l] \in {"lock fresh", "lock resume"} /\ Goto(l, "idle")
  /\ UNCHANGED <<files, owner, memory, budget>>

(* A new matrix.  An exception before the try block of the first checkpoint *)
(* writes nothing and so has the effect of Crash.                           *)
MarkFresh(l) ==
  /\ Step(l, "mark fresh", "start journal")
  /\ marks' = marks \cup {"RUNNING"}
  /\ UNCHANGED <<created, journal, checkpoint, report, complete, artifacts, history>>
  /\ UNCHANGED <<owner, memory, budget>>

StartJournal(l) ==
  /\ Step(l, "start journal", "first checkpoint")
  /\ events' = [events EXCEPT ![l] = ExpectedEvents(<<>>)]
  /\ done' = [done EXCEPT ![l] = <<>>]
  /\ journal' = events'[l]
  /\ UNCHANGED <<created, checkpoint, closure, artifacts, history, owner, budget>>

FirstCheckpoint(l) ==
  /\ Step(l, "first checkpoint", "next") /\ checkpoint' = {<<>>}
  /\ UNCHANGED <<created, journal, closure, artifacts, history, owner, memory, budget>>

(* A resumed matrix: load_checkpoint and the validations, then             *)
(* archive_interrupted_attempt file by file, then the truncated journal.   *)
(* Mutant of Load: a resumed matrix begins again at its first item. *)
LoadFromStart(l) ==
  /\ pc[l] = "load"
  /\ Goto(l, IF Resumable THEN "new attempt" ELSE IF journal = <<>> THEN "exit" ELSE "fail")
  /\ events' = [events EXCEPT ![l] = journal] /\ done' = done
  /\ UNCHANGED <<files, owner, budget>>

Load(l) ==
  /\ pc[l] = "load"
  /\ IF Resumable
     THEN /\ done' = [done EXCEPT ![l] = CHOOSE d \in checkpoint : TRUE]
          /\ Goto(l, "new attempt")
     ELSE done' = done /\ Goto(l, IF journal = <<>> THEN "exit" ELSE "fail")
  /\ events' = [events EXCEPT ![l] = journal]
  /\ UNCHANGED <<files, owner, budget>>

NewAttempt(l) ==
  /\ Step(l, "new attempt", "archive")
  /\ history' = Append(history, FALSE)
  /\ UNCHANGED <<created, journal, checkpoint, closure, artifacts, owner, memory, budget>>

(* Mutants of Candidates: a file of the interrupted item is left where it is. *)
CandidatesWithoutOutput == <<"FAILED", "RUNNING", "report", "DEVELOPMENT", "log">>
CandidatesWithoutLog == <<"FAILED", "RUNNING", "report", "DEVELOPMENT", "output">>

(* The files of the interrupted attempt in the order they are moved, the   *)
(* partial results of the first unfinished item last.                      *)
Candidates == <<"FAILED", "RUNNING", "report", "DEVELOPMENT", "output", "log">>
Present(l, name) ==
  CASE name = "report" -> report # {}
    [] name = "output" -> Item(l) \in Items /\ output[Item(l)] # {}
    [] name = "log" -> Item(l) \in logs
    [] OTHER -> name \in marks
Remaining(l) == {i \in DOMAIN Candidates : Present(l, Candidates[i])}

ArchiveFile(l) ==
  /\ pc[l] = "archive" /\ Remaining(l) # {}
  /\ LET name == Candidates[Min(Remaining(l))] IN
     /\ marks' = marks \ {name}
     /\ report' = IF name = "report" THEN {} ELSE report
     /\ output' = IF name = "output" THEN [output EXCEPT ![Item(l)] = {}] ELSE output
     /\ logs' = IF name = "log" THEN logs \ {Item(l)} ELSE logs
  /\ UNCHANGED <<created, journal, checkpoint, complete, history, owner, pc, memory, budget>>

SealArchive(l) ==
  /\ Remaining(l) = {} /\ Step(l, "archive", "truncate")
  /\ history' = [history EXCEPT ![Len(history)] = TRUE]
  /\ UNCHANGED <<created, journal, checkpoint, closure, artifacts, owner, memory, budget>>

(* Mutant of TruncateJournal: the events of the interrupted run stay in the journal. *)
KeepJournalTail(l) ==
  /\ Step(l, "truncate", "mark resumed")
  /\ UNCHANGED <<files, owner, memory, budget>>

TruncateJournal(l) ==
  /\ Step(l, "truncate", "mark resumed")
  /\ events' = [events EXCEPT ![l] = ExpectedEvents(done[l])]
  /\ journal' = events'[l]
  /\ UNCHANGED <<created, checkpoint, closure, artifacts, history, owner, done, budget>>

MarkResumed(l) ==
  /\ Step(l, "mark resumed", "next")
  /\ marks' = marks \cup {"RUNNING"}
  /\ UNCHANGED <<created, journal, checkpoint, report, complete, artifacts, history>>
  /\ UNCHANGED <<owner, memory, budget>>

------------------------------------------------------------------------------
(* The loops over the lanes and the comparisons. *)
StartLane(l) ==
  /\ Item(l) <= Lanes /\ Step(l, "next", "spawn")
  /\ AppendJournal(l, <<"started", Item(l)>>)
  /\ UNCHANGED <<created, checkpoint, closure, artifacts, history, owner, done, budget>>

StartComparison(l) ==
  /\ Item(l) \in Items /\ Item(l) > Lanes /\ Step(l, "next", "spawn")
  /\ UNCHANGED <<files, owner, memory, budget>>

(* run_bounded: the log is opened with "xb", the child makes its directory. *)
Spawn(l) ==
  /\ pc[l] = "spawn"
  /\ IF Item(l) \in logs \/ output[Item(l)] # {}
     THEN Goto(l, "fail") /\ UNCHANGED artifacts
     ELSE /\ logs' = logs \cup {Item(l)}
          /\ output' = [output EXCEPT ![Item(l)] = {[run |-> Run, ok |-> FALSE]}]
          /\ Goto(l, "run")
  /\ UNCHANGED <<created, journal, checkpoint, closure, history, owner, memory, budget>>

ChildEnds(l) ==
  /\ Step(l, "run", "ended")
  /\ \/ /\ output' = [output EXCEPT ![Item(l)] = {[run |-> Run, ok |-> TRUE]}]
        /\ faults' = faults
     \/ /\ faults < MaxFaults /\ faults' = faults + 1
        /\ output' = output
  /\ UNCHANGED <<created, journal, checkpoint, closure, logs, history, owner, memory>>
  /\ UNCHANGED <<verdict, crashes>>

RecordEnd(l) ==
  /\ pc[l] = "ended"
  /\ AppendJournal(l, <<"ended", Item(l), Run>>)
  /\ Goto(l, IF output[Item(l)] = {[run |-> Run, ok |-> TRUE]} THEN "validate" ELSE "fail")
  /\ UNCHANGED <<created, checkpoint, closure, artifacts, history, owner, done, budget>>

Validate(l) ==
  /\ Step(l, "validate", "checkpoint")
  /\ AppendJournal(l, <<"validated", Item(l), Run>>)
  /\ done' = [done EXCEPT ![l] = Append(@, Run)]
  /\ UNCHANGED <<created, checkpoint, closure, artifacts, history, owner, budget>>

WriteCheckpoint(l) ==
  /\ Step(l, "checkpoint", "next")
  /\ checkpoint' = {done[l]}
  /\ UNCHANGED <<created, journal, closure, artifacts, history, owner, memory, budget>>

------------------------------------------------------------------------------
(* The end of main: reports, the gates, and the verified completion. *)
(* Mutant of WriteReport: attempts without a marker are bound as they are. *)
WriteReportUnmarked(l) ==
  /\ Item(l) \notin Items /\ Step(l, "next", "unmark")
  /\ report' = {[checkpoint |-> checkpoint, history |-> history]}
  /\ UNCHANGED <<created, journal, checkpoint, marks, complete, artifacts, history>>
  /\ UNCHANGED <<owner, memory, budget>>

WriteReport(l) ==
  /\ pc[l] = "next" /\ Item(l) \notin Items
  /\ IF EveryAttemptArchived   \* resume_history_records
     THEN /\ report' = {[checkpoint |-> checkpoint, history |-> history]}
          /\ Goto(l, "unmark")
     ELSE report' = report /\ Goto(l, "fail")
  /\ UNCHANGED <<created, journal, checkpoint, marks, complete, artifacts, history>>
  /\ UNCHANGED <<owner, memory, budget>>

Unmark(l) ==
  /\ Step(l, "unmark", "close") /\ marks' = marks \ {"RUNNING"}
  /\ UNCHANGED <<created, journal, checkpoint, report, complete, artifacts, history>>
  /\ UNCHANGED <<owner, memory, budget>>

Close(l) ==
  /\ \/ /\ verdict = "PASS" /\ Step(l, "close", "verify")
        /\ complete' = {[report |-> report, journal |-> journal]} /\ marks' = marks
     \/ /\ verdict = "FAIL" /\ Step(l, "close", "release")
        /\ marks' = marks \cup {"FAILED"} /\ complete' = complete
     \/ /\ verdict = "DEVELOPMENT_ONLY" /\ Step(l, "close", "release")
        /\ marks' = marks \cup {"DEVELOPMENT"} /\ complete' = complete
  /\ UNCHANGED <<created, journal, checkpoint, report, artifacts, history>>
  /\ UNCHANGED <<owner, memory, budget>>

Verify(l) ==
  /\ pc[l] = "verify" /\ Goto(l, IF Verifiable THEN "release" ELSE "fail")
  /\ UNCHANGED <<files, owner, memory, budget>>

(* Failures.  The states in which an exception reaches the handler. *)
Guarded == {"first checkpoint", "load", "new attempt", "archive", "truncate",
            "mark resumed", "next", "spawn", "run", "ended", "validate",
            "checkpoint", "unmark", "close", "verify", "release"}
Fault(l) ==
  /\ pc[l] \in Guarded /\ Goto(l, "fail")
  /\ faults < MaxFaults /\ faults' = faults + 1
  /\ UNCHANGED <<files, owner, memory, verdict, crashes>>

HandlerUnlinks(l) ==
  /\ Step(l, "fail", "write failure")
  /\ marks' = marks \ {"RUNNING", "DEVELOPMENT"} /\ complete' = {}
  /\ UNCHANGED <<created, journal, checkpoint, report, artifacts, history>>
  /\ UNCHANGED <<owner, memory, budget>>

WriteFailure(l) ==
  /\ Step(l, "write failure", "exit") /\ marks' = marks \cup {"FAILED"}
  /\ UNCHANGED <<created, journal, checkpoint, report, complete, artifacts, history>>
  /\ UNCHANGED <<owner, memory, budget>>

Exit(l) ==
  /\ pc[l] \in {"release", "exit"} /\ Goto(l, "idle")
  /\ owner' = owner \ {l} /\ Forget(l)
  /\ UNCHANGED <<files, budget>>

Crash(l) ==
  /\ pc[l] # "idle" /\ Goto(l, "idle") /\ owner' = owner \ {l}
  /\ crashes < MaxCrashes /\ crashes' = crashes + 1
  /\ Forget(l) /\ UNCHANGED <<files, verdict, faults>>

------------------------------------------------------------------------------
Proceed(l) ==
  \/ Acquire(l) \/ LockIsHeld(l) \/ MarkFresh(l) \/ StartJournal(l) \/ FirstCheckpoint(l)
  \/ Load(l) \/ NewAttempt(l) \/ ArchiveFile(l) \/ SealArchive(l)
  \/ TruncateJournal(l) \/ MarkResumed(l)
  \/ StartLane(l) \/ StartComparison(l) \/ Spawn(l) \/ ChildEnds(l) \/ RecordEnd(l)
  \/ Validate(l) \/ WriteCheckpoint(l) \/ WriteReport(l) \/ Unmark(l) \/ Close(l)
  \/ Verify(l) \/ HandlerUnlinks(l) \/ WriteFailure(l) \/ Exit(l)

Next == \E l \in Launchers :
  Fresh(l) \/ Resume(l) \/ Proceed(l) \/ Fault(l) \/ Crash(l)

Spec == Init /\ [][Next]_vars

(* A controller that runs goes on (its child ends: the time limit of       *)
(* run_bounded), and somebody starts the command and, as the user guide    *)
(* asks, restarts it with --resume until the matrix is closed.             *)
Fairness == /\ \A l \in Launchers : WF_vars(Proceed(l))
            /\ WF_vars(\E l \in Launchers : Fresh(l) \/ Resume(l))
FairSpec == Spec /\ Fairness

------------------------------------------------------------------------------
(* Whenever no controller is at work, whatever killed the last one between *)
(* any two writes, a matrix with a checkpoint passes all that a resume     *)
(* asks of the journal and of the completed results                        *)
(* (run_user_workload_matrix.py:2116-2153).                                *)
CheckpointIsResumable == owner = {} /\ checkpoint # {} => Resumable

(* A child is only started where nothing of an interrupted run is left:    *)
(* its log is opened exclusively and its directory must not exist          *)
(* (run_bounded, 752; archive_interrupted_attempt, 1887).                  *)
RunsStartClean == \A l \in Launchers :
  pc[l] = "spawn" => Item(l) \notin logs /\ output[Item(l)] = {}

(* COMPLETE always passes verify_matrix_complete, also when the controller *)
(* died before it could verify, as long as no later attempt was archived.  *)
CompletionIsVerifiable ==
  (\E c \in complete : \E r \in c.report : r.history = history) => Verifiable

(* No step, of any controller, loses a result that was checkpointed or     *)
(* takes it out of the checkpoint (README.md of the user workloads, 108).  *)
CheckpointedWorkIsKept ==
  [][\A d \in checkpoint : \E e \in checkpoint' :
        IsPrefix(d, e) /\ \A i \in 1..Len(d) : output'[i] = output[i]]_vars

(* A matrix that is restarted after every stop comes to its outcome,       *)
(* unless a controller died before the first checkpoint, or while it       *)
(* archived an attempt (README.md of the user workloads, 108-113).         *)
Closed == Terminal \/ (verdict = "FAIL" /\ "FAILED" \in marks /\ report # {})
RestartsCloseTheMatrix ==
  <>Closed \/ <>[](checkpoint = {}) \/ <>(owner = {} /\ ~EveryAttemptArchived)

(* When a controller comes to its report, every attempt in the history has *)
(* the archive marker that the report has to bind (README.md, 108-115).    *)
ReportsBindEveryArchive == \A l \in Launchers :
  pc[l] = "next" /\ Item(l) \notin Items => EveryAttemptArchived

==============================================================================
