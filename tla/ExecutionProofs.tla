---------------------------- MODULE ExecutionProofs ----------------------------
(***************************************************************************)
(* Theorems about Execution: any number of runs and processes, any CI job, *)
(* any number of crashes, failed removals and failed writes.               *)
(***************************************************************************)
EXTENDS Execution, TLAPS

\* What the record tells of the end of a run, what cleanup reports, and what a caller may get.
Kills == {"", "timeout", "cancelled"}
Cleanups == {"", "removed", "failed"}
Returns == {"none", "zero", "nonzero", "timeout", "cancelled", "error"}

RunRecord ==
  [pc : Running \cup {"new", "done", "crashed"}, pid : Pids \cup {None},
   ctx : {"live", "timeout", "cancelled"},
   child : {"none", "running", "zero", "nonzero", "killed"},
   kid : {"none", "group", "session"}, sink : {"ok", "stalled", "broken"}, files : BOOLEAN,
   err : {"none", "exit", "context", "waitdelay", "copy", "start"},
   cleanup : Cleanups, kill : Kills, ret : Returns]

Line ==
  [run : Runs, prev : Runs \cup {None}, kill : Kills, exit : {"zero", "nonzero"},
   cleanup : Cleanups, whole : BOOLEAN]

-----------------------------------------------------------------------------
(* The inductive invariant.                                                *)

\* What the point where a run is says of its processes, of the error it got and of the
\* outcome it makes of it.
Stage(s) ==
  /\ s.pc \in {"new", "resolve", "check", "crashed"} => s.child = "none" /\ s.kid = "none"
  /\ s.pc = "new" => s.files = FALSE
  /\ s.child = "running" => s.pc = "supervise"
  /\ s.pc \in {"flush", "cleanup", "audit", "append", "done"} => s.kid # "group"
  /\ s.pc = "supervise" => s.child # "none"
  /\ s.pc \in Running /\ s.child = "killed" => s.ctx # "live"
  /\ s.pc \in {"sweep", "flush", "cleanup"} =>
       s.err = "start" \/ (s.child \in {"zero", "nonzero", "killed"} /\ (s.err = "exit" <=> s.child # "zero"))
  /\ s.pc \in {"audit", "append"} =>
       /\ s.ret # "none"
       /\ s.ret \in {"zero", "nonzero"} => s.child = s.ret
       /\ s.ret \in {"timeout", "cancelled"} => s.ctx = s.ret
  /\ s.pc = "append" => s.kill = KillReason(s) /\ s.ret # "error"

\* The directory of a run whose removal did not fail is gone.
Removed == \A r \in Runs : run[r].pc \in {"audit", "append"} /\ run[r].cleanup # "failed" => r \notin dirs

\* The file lock is held by the run that appends, which knows the last record.
Lock ==
  /\ \A r \in Runs : run[r].pc = "append" => appender = r
  /\ appender # None => appender \in Runs /\ run[appender].pc = "append" /\ lastSeen[appender] = LastHash
  /\ terminated \in BOOLEAN /\ (terminated = FALSE => lines # <<>>)

\* Only runs that are over have a record.
RecordsAreLate == \A i \in DOMAIN lines : run[lines[i].run].pc = "done"

Types ==
  /\ ci \in CIs /\ proc \in [Pids -> {"free", "ironrun", "foreign"}]
  /\ run \in [Runs -> RunRecord]
  /\ dirs \subseteq Runs /\ old \subseteq Runs /\ faults \in 0 .. MaxFaults

Owners == \A r \in Runs : Active(r) => run[r].pid \in Pids /\ proc[run[r].pid] = "ironrun"

Stages == \A r \in Runs : Stage(run[r])

\* What the runs do, and what the log says of them.
RunInv ==
  /\ Types /\ Owners /\ Stages /\ Removed
  /\ LiveRunsKeepTheirFiles /\ ForksGetNoSecrets /\ ResultsAreClean

RecordInv == LogTypeOK /\ Lock /\ RecordsAreLate /\ RecordsTellTheOutcome /\ ChainHolds

IInv == RunInv /\ RecordInv

LEMMA FreshType ==
  /\ Fresh \in RunRecord /\ Fresh.pc = "new" /\ Fresh.child = "none" /\ Fresh.kid = "none"
  /\ Fresh.ret = "none" /\ Fresh.files = FALSE
BY DEF Fresh, RunRecord, Running, Kills, Cleanups, Returns

LEMMA Starts == ExecInit => IInv
<1> SUFFICES ASSUME ExecInit PROVE IInv
  OBVIOUS
<1>1. /\ \A r \in Runs : run[r] = Fresh
      /\ run \in [Runs -> RunRecord] /\ dirs = {} /\ old = {} /\ ci \in CIs /\ faults = 0
      /\ proc \in [Pids -> {"free", "ironrun", "foreign"}]
  BY FreshType DEF ExecInit
<1>2. lines = <<>> /\ appender = None /\ lastSeen \in [Runs -> Runs \cup {None}] /\ terminated = TRUE
  BY DEF ExecInit, LogInit
<1>3. RunInv
  <2>1. Types /\ Removed
    BY <1>1, ExecutionAssumption DEF Types, Removed
  <2>2. Owners /\ Stages /\ LiveRunsKeepTheirFiles /\ ForksGetNoSecrets /\ ResultsAreClean
    BY <1>1, FreshType DEF Owners, Active, Running, Stages, Stage, LiveRunsKeepTheirFiles,
                           ForksGetNoSecrets, ResultsAreClean, At
  <2>3. QED
    BY <2>1, <2>2 DEF RunInv
<1>4. RecordInv
  <2>1. LogTypeOK
    BY <1>2 DEF LogTypeOK
  <2>2. Lock
    BY <1>1, <1>2, FreshType DEF Lock
  <2>3. DOMAIN lines = {}
    BY <1>2
  <2>4. QED
    BY <2>1, <2>2, <2>3 DEF RecordInv, RecordsAreLate, RecordsTellTheOutcome, ChainHolds, Intact
<1>5. QED
  BY <1>3, <1>4 DEF IInv

-----------------------------------------------------------------------------
(* What the steps have in common.                                          *)

\* One run changes its record.
LEMMA SetOne ==
  ASSUME Types, NEW r \in Runs, NEW new \in RunRecord, Set(r, new)
  PROVE  /\ run' \in [Runs -> RunRecord] /\ run'[r] = new
         /\ \A q \in Runs : q # r => run'[q] = run[q]
BY DEF Types, Set

LEMMA LinesHaveRuns ==
  ASSUME LogTypeOK
  PROVE  \A i \in DOMAIN lines : lines[i] \in Line /\ lines[i].run \in Runs
<1>1. lines \in Seq(Line)
  BY DEF LogTypeOK, Line, Kills, Cleanups
<1>2. \A i \in DOMAIN lines : lines[i] \in Line
  BY <1>1
<1>3. QED
  BY <1>2 DEF Line

\* The records tell the same as long as the runs they are of, and the directories, stay.
LEMMA StillTold ==
  ASSUME RecordsTellTheOutcome, lines' = lines,
         \A i \in DOMAIN lines : run'[lines[i].run] = run[lines[i].run],
         \A i \in DOMAIN lines : lines[i].run \in dirs' => lines[i].run \in dirs
  PROVE  RecordsTellTheOutcome'
<1> SUFFICES ASSUME NEW i \in DOMAIN lines', lines'[i].whole, run'[lines'[i].run].pc = "done"
             PROVE  /\ run'[lines'[i].run].ret \in {"timeout", "cancelled"} =>
                         lines'[i].kill = run'[lines'[i].run].ret
                    /\ lines'[i].kill = "" \/ lines'[i].exit = "nonzero" =>
                         lines'[i].exit = run'[lines'[i].run].child
                    /\ lines'[i].cleanup = "removed" => lines'[i].run \notin dirs'
                    /\ lines'[i].cleanup = "failed" => run'[lines'[i].run].ret \notin {"zero", "nonzero"}
  BY DEF RecordsTellTheOutcome
<1>1. i \in DOMAIN lines /\ lines'[i] = lines[i] /\ run'[lines[i].run] = run[lines[i].run]
  OBVIOUS
<1>2. /\ run[lines[i].run].ret \in {"timeout", "cancelled"} => lines[i].kill = run[lines[i].run].ret
      /\ lines[i].kill = "" \/ lines[i].exit = "nonzero" => lines[i].exit = run[lines[i].run].child
      /\ lines[i].cleanup = "removed" => lines[i].run \notin dirs
      /\ lines[i].cleanup = "failed" => run[lines[i].run].ret \notin {"zero", "nonzero"}
  BY <1>1 DEF RecordsTellTheOutcome
<1>3. QED
  BY <1>1, <1>2

\* What a run does between its start and its record does not touch the log.
LEMMA LogStays ==
  ASSUME RecordInv, UNCHANGED logVars,
         \A q \in Runs : run[q].pc \in {"append", "done"} => run'[q] = run[q],
         \A q \in Runs : run'[q].pc = "append" => run[q].pc = "append",
         \A q \in Runs : run[q].pc = "done" => (q \in dirs' => q \in dirs)
  PROVE  RecordInv'
<1>1. LogTypeOK'
  BY DEF RecordInv, LogTypeOK, logVars
<1>2. Lock'
  <2>1. /\ LastHash' = LastHash /\ appender' = appender /\ lastSeen' = lastSeen
        /\ terminated' = terminated /\ lines' = lines
    BY DEF logVars, LastHash
  <2>2. QED
    BY <2>1 DEF RecordInv, Lock
<1>3. \A i \in DOMAIN lines : lines[i].run \in Runs
  BY LinesHaveRuns DEF RecordInv
<1>4. RecordsAreLate' /\ RecordsTellTheOutcome'
  <2>1. lines' = lines /\ DOMAIN lines' = DOMAIN lines
    BY DEF logVars
  <2>2. \A i \in DOMAIN lines : run'[lines[i].run] = run[lines[i].run]
    BY <1>3 DEF RecordInv, RecordsAreLate
  <2>3. RecordsAreLate'
    BY <2>1, <2>2 DEF RecordInv, RecordsAreLate
  <2>4. \A i \in DOMAIN lines : lines[i].run \in dirs' => lines[i].run \in dirs
    BY <1>3 DEF RecordInv, RecordsAreLate
  <2>5. RecordsTellTheOutcome'
    BY <2>1, <2>2, <2>4, StillTold DEF RecordInv
  <2>6. QED
    BY <2>3, <2>5
<1>5. ChainHolds'
  BY DEF RecordInv, ChainHolds, Intact, logVars
<1>6. QED
  BY <1>1, <1>2, <1>4, <1>5 DEF RecordInv

\* A run in progress goes on: nothing but its own record changes.
LEMMA GoesOn ==
  ASSUME IInv, NEW r \in Runs, NEW new \in RunRecord, Set(r, new),
         UNCHANGED <<ci, proc, dirs, old, faults, logVars>>,
         Active(r), run[r].pc # "append", new.pc \in Running, new.pc # "append",
         new.pid = run[r].pid, new.files = run[r].files, Stage(new),
         new.pc = "audit" => run[r].pc = "audit" /\ new.cleanup = run[r].cleanup
  PROVE  IInv'
<1>1. /\ run' \in [Runs -> RunRecord] /\ run'[r] = new
      /\ \A q \in Runs : q # r => run'[q] = run[q]
  BY SetOne DEF IInv, RunInv
<1>2. Types' /\ Owners' /\ Stages'
  BY <1>1 DEF IInv, RunInv, Types, Owners, Stages, Active
<1>3. Removed' /\ LiveRunsKeepTheirFiles'
  BY <1>1 DEF IInv, RunInv, Removed, LiveRunsKeepTheirFiles, Active
<1>4. ForksGetNoSecrets'
  BY <1>1 DEF IInv, RunInv, ForksGetNoSecrets, Active, Running
<1>5. ResultsAreClean'
  BY <1>1 DEF IInv, RunInv, ResultsAreClean, Active, At, Running
<1>6. RecordInv'
  BY <1>1, LogStays DEF IInv, Active, Running, logVars
<1>7. QED
  BY <1>2, <1>3, <1>4, <1>5, <1>6 DEF IInv, RunInv

-----------------------------------------------------------------------------
(* The steps of a run that change nothing but its record.                  *)

LEMMA ContextSteps ==
  ASSUME IInv, NEW r \in Runs,
         Consumer(r) \/ Fork(r) \/ \E reason \in {"timeout", "cancelled"} : EndContext(r, reason)
  PROVE  IInv'
<1> DEFINE s == run[r]
<1>1. s \in RunRecord /\ Stage(s)
  BY DEF IInv, RunInv, Types, Stages
<1>2. CASE Consumer(r)
  <2>1. PICK k \in {"ok", "stalled", "broken"}, c \in {"live", "timeout", "cancelled"} :
          /\ Set(r, [s EXCEPT !.sink = k, !.ctx = c])
          /\ s.pc \in {"supervise", "flush"} /\ (s.ctx # "live" => c = s.ctx)
    <3>1. CASE \E k \in {"ok", "stalled"} : Set(r, [s EXCEPT !.sink = k])
      <4>1. PICK k \in {"ok", "stalled"} : Set(r, [s EXCEPT !.sink = k])
        BY <3>1
      <4>2. [s EXCEPT !.sink = k] = [s EXCEPT !.sink = k, !.ctx = s.ctx] /\ s.ctx \in {"live", "timeout", "cancelled"}
        BY <1>1 DEF RunRecord
      <4>3. QED
        BY <1>2, <4>1, <4>2 DEF Consumer
    <3>2. CASE Set(r, [s EXCEPT !.sink = "broken", !.ctx = CancelOnErr(@)])
      BY <1>1, <1>2, <3>2 DEF Consumer, CancelOnErr, RunRecord
    <3>3. QED
      BY <1>2, <3>1, <3>2 DEF Consumer
  <2> DEFINE new == [s EXCEPT !.sink = k, !.ctx = c]
  <2>2. /\ new \in RunRecord /\ new.pc = s.pc /\ new.pid = s.pid /\ new.files = s.files
        /\ new.cleanup = s.cleanup /\ new.child = s.child /\ new.kid = s.kid /\ new.err = s.err
        /\ new.ctx = c
    BY <1>1, ZenonT(60) DEF RunRecord
  <2>3. Stage(new)
    BY <1>1, <2>1, <2>2 DEF Stage, Running
  <2>4. QED
    BY <1>2, <2>1, <2>2, <2>3, GoesOn DEF Consumer, Active, Running
<1>3. CASE Fork(r)
  <2>1. PICK k \in {"group", "session"} :
          /\ Set(r, [s EXCEPT !.kid = k]) /\ s.pc \in {"supervise", "sweep"}
          /\ k = "group" => s.pc = "supervise"
    BY <1>1, <1>3 DEF Fork, Alive, Stage
  <2> DEFINE new == [s EXCEPT !.kid = k]
  <2>2. /\ new \in RunRecord /\ new.pc = s.pc /\ new.pid = s.pid /\ new.files = s.files
        /\ new.cleanup = s.cleanup /\ new.child = s.child /\ new.ctx = s.ctx /\ new.err = s.err
        /\ new.kid = k
    BY <1>1 DEF RunRecord
  <2>3. Stage(new)
    BY <1>1, <2>1, <2>2 DEF Stage, Running
  <2>4. QED
    BY <1>3, <2>1, <2>2, <2>3, GoesOn DEF Fork, Active, Running
<1>4. ASSUME NEW reason \in {"timeout", "cancelled"}, EndContext(r, reason) PROVE IInv'
  <2> DEFINE new == [s EXCEPT !.ctx = reason]
  <2>1. /\ new \in RunRecord /\ new.pc = s.pc /\ new.pid = s.pid /\ new.files = s.files
        /\ new.cleanup = s.cleanup /\ new.child = s.child /\ new.kid = s.kid /\ new.err = s.err
        /\ new.ctx = reason /\ new.ret = s.ret
    BY <1>1 DEF RunRecord
  <2>2. s.pc \in Running \ {"resolve", "append"} /\ s.ctx = "live" /\ Set(r, new)
    BY <1>4 DEF EndContext
  <2>3. Stage(new)
    BY <1>1, <2>1, <2>2 DEF Stage, Running
  <2>4. QED
    BY <1>4, <2>1, <2>2, <2>3, GoesOn DEF EndContext, Active, Running
<1>5. QED
  BY <1>2, <1>3, <1>4

LEMMA ChildSteps ==
  ASSUME IInv, NEW r \in Runs,
         \/ StartChild(r) \/ Kill(r) \/ WaitEnds(r) \/ Sweep(r) \/ Flush(r)
         \/ \E code \in {"zero", "nonzero"} : ChildExits(r, code)
  PROVE  IInv'
<1> DEFINE s == run[r]
<1>1. s \in RunRecord /\ Stage(s)
  BY DEF IInv, RunInv, Types, Stages
<1>2. ASSUME StartChild(r) PROVE IInv'
  <2>1. s.pc = "check" /\ s.child = "none" /\ s.kid = "none"
    BY <1>1, <1>2 DEF StartChild, At, Stage
  <2>2. CASE Set(r, [s EXCEPT !.pc = "supervise", !.child = "running"])
    <3> DEFINE new == [s EXCEPT !.pc = "supervise", !.child = "running"]
    <3>1. /\ new \in RunRecord /\ new.pid = s.pid /\ new.files = s.files
          /\ new.pc = "supervise" /\ new.child = "running" /\ new.kid = "none"
      BY <1>1, <2>1 DEF RunRecord, Running
    <3>2. Stage(new)
      BY <3>1 DEF Stage, Running
    <3>3. QED
      BY <1>2, <2>1, <2>2, <3>1, <3>2, GoesOn DEF StartChild, Active, Running
  <2>3. CASE Set(r, [s EXCEPT !.pc = "sweep", !.err = "start"])
    <3> DEFINE new == [s EXCEPT !.pc = "sweep", !.err = "start"]
    <3>1. /\ new \in RunRecord /\ new.pid = s.pid /\ new.files = s.files
          /\ new.pc = "sweep" /\ new.child = "none" /\ new.kid = "none" /\ new.err = "start"
      BY <1>1, <2>1 DEF RunRecord, Running
    <3>2. Stage(new)
      BY <3>1 DEF Stage, Running
    <3>3. QED
      BY <1>2, <2>1, <2>3, <3>1, <3>2, GoesOn DEF StartChild, Active, Running
  <2>4. QED
    BY <1>2, <2>2, <2>3 DEF StartChild
<1>3. ASSUME NEW code \in {"zero", "nonzero"}, ChildExits(r, code) PROVE IInv'
  <2> DEFINE new == [s EXCEPT !.child = code]
  <2>1. s.child = "running" /\ Set(r, new)
    BY <1>3 DEF ChildExits, Alive
  <2>2. /\ new \in RunRecord /\ new.pid = s.pid /\ new.files = s.files /\ new.pc = s.pc /\ new.child = code
        /\ new.kid = s.kid /\ new.ctx = s.ctx /\ new.err = s.err
    BY <1>1, <2>1 DEF RunRecord, Running, GroupKilled
  <2>3. Stage(new)
    BY <1>1, <2>1, <2>2 DEF Stage, Running
  <2>4. QED
    BY <1>1, <1>3, <2>1, <2>2, <2>3, GoesOn DEF ChildExits, Active, Running, Stage
<1>4. ASSUME Kill(r) PROVE IInv'
  <2> DEFINE new == GroupKilled(s)
  <2>1. s.pc = "supervise" /\ s.child = "running" /\ s.ctx # "live" /\ Set(r, new)
    BY <1>4 DEF Kill, At, Alive
  <2>2. /\ new \in RunRecord /\ new.pid = s.pid /\ new.files = s.files /\ new.pc = s.pc
        /\ new.child = "killed" /\ new.ctx = s.ctx /\ new.err = s.err
    BY <1>1, <2>1 DEF RunRecord, Running, GroupKilled
  <2>3. Stage(new)
    BY <1>1, <2>1, <2>2 DEF Stage, Running
  <2>4. QED
    BY <1>4, <2>1, <2>2, <2>3, GoesOn DEF Kill, At, Alive, Active, Running
<1>5. ASSUME WaitEnds(r) PROVE IInv'
  <2>1. PICK e \in {"none", "exit", "context", "waitdelay", "copy"} :
          (e = "exit" <=> s.child # "zero") /\ Set(r, [s EXCEPT !.pc = "sweep", !.err = e])
    BY <1>5 DEF WaitEnds
  <2>2. s.pc = "supervise" /\ s.child # "running"
    BY <1>5 DEF WaitEnds, At, Alive
  <2> DEFINE new == [s EXCEPT !.pc = "sweep", !.err = e]
  <2>3. /\ new \in RunRecord /\ new.pid = s.pid /\ new.files = s.files /\ new.pc = "sweep"
        /\ new.child = s.child /\ new.kid = s.kid /\ new.ctx = s.ctx /\ new.err = e
    <3>1. s \in RunRecord /\ e \in {"none", "exit", "context", "waitdelay", "copy", "start"}
      BY <1>1, <2>1
    <3>2. "sweep" \in Running \cup {"new", "done", "crashed"}
      BY DEF Running
    <3>3. new \in RunRecord
      BY <3>1, <3>2, ZenonT(60) DEF RunRecord
    <3>4. /\ new.pid = s.pid /\ new.files = s.files /\ new.pc = "sweep"
          /\ new.child = s.child /\ new.kid = s.kid /\ new.ctx = s.ctx /\ new.err = e
      BY <3>1 DEF RunRecord
    <3>5. QED
      BY <3>3, <3>4
  <2>4. s.child \in {"zero", "nonzero", "killed"}
    BY <1>1, <2>2 DEF Stage, RunRecord
  <2>5. Stage(new)
    BY <1>1, <2>1, <2>2, <2>3, <2>4 DEF Stage, Running
  <2>6. QED
    BY <1>5, <2>1, <2>2, <2>3, <2>5, GoesOn DEF WaitEnds, Active, Running
<1>6. ASSUME Sweep(r) PROVE IInv'
  <2> DEFINE new == [GroupKilled(s) EXCEPT !.pc = "flush"]
  <2>1. s.pc = "sweep" /\ s.child # "running" /\ Set(r, new)
    BY <1>6, <1>1 DEF Sweep, At, Stage
  <2>2. /\ new \in RunRecord /\ new.pid = s.pid /\ new.files = s.files /\ new.pc = "flush"
        /\ new.child = s.child /\ new.kid # "group" /\ new.ctx = s.ctx /\ new.err = s.err
    BY <1>1, <2>1, <1>1, ZenonT(60) DEF RunRecord, Running, GroupKilled
  <2>3. Stage(new)
    BY <1>1, <2>1, <2>2, <1>1 DEF Stage, Running
  <2>4. QED
    BY <1>6, <2>1, <2>2, <2>3, GoesOn DEF Sweep, At, Stage, Active, Running
<1>7. ASSUME Flush(r) PROVE IInv'
  <2> DEFINE new == [s EXCEPT !.pc = "cleanup"]
  <2>1. s.pc = "flush" /\ Set(r, new)
    BY <1>7 DEF Flush, At, Goto
  <2>2. /\ new \in RunRecord /\ new.pid = s.pid /\ new.files = s.files /\ new.pc = "cleanup"
        /\ new.child = s.child /\ new.kid = s.kid /\ new.ctx = s.ctx /\ new.err = s.err
    BY <1>1, <2>1 DEF RunRecord, Running, GroupKilled
  <2>3. Stage(new)
    BY <1>1, <2>1, <2>2 DEF Stage, Running
  <2>4. QED
    BY <1>7, <2>1, <2>2, <2>3, GoesOn DEF Flush, At, Goto, Active, Running
<1>8. QED
  BY <1>2, <1>3, <1>4, <1>5, <1>6, <1>7

-----------------------------------------------------------------------------
(* The directories, and the ends of a run.                                 *)

\* The owner of an active run is alive: no sweep takes its directory.
LEMMA ActiveIsNotStale ==
  ASSUME IInv, NEW r \in Runs, Active(r), NEW p
  PROVE  r \notin Stale(p)
BY DEF IInv, RunInv, Owners, Stale, ProcessAlive

\* A run ends; at most its own directory goes.
LEMMA Ends ==
  ASSUME IInv, NEW r \in Runs, NEW new \in RunRecord, Set(r, new), UNCHANGED <<ci, proc, old>>,
         faults' \in 0 .. MaxFaults, dirs' \in {dirs, dirs \ {r}},
         new.pc = "done", run[r].pc # "done", Stage(new),
         new.child # "none" => run[r].pc # "new",
         new.ret \in {"zero", "nonzero"} =>
           new.child = new.ret /\ new.sink # "broken" /\ r \notin dirs'
  PROVE  RunInv'
<1>1. /\ run' \in [Runs -> RunRecord] /\ run'[r] = new
      /\ \A q \in Runs : q # r => run'[q] = run[q]
  BY SetOne DEF IInv, RunInv
<1>2. Types' /\ Owners' /\ Stages'
  BY <1>1 DEF IInv, RunInv, Types, Owners, Stages, Active, Running
<1>3. Removed' /\ LiveRunsKeepTheirFiles'
  BY <1>1 DEF IInv, RunInv, Removed, LiveRunsKeepTheirFiles, Active, Running
<1>4. ForksGetNoSecrets'
  BY <1>1 DEF IInv, RunInv, ForksGetNoSecrets
<1>5. ResultsAreClean'
  BY <1>1 DEF IInv, RunInv, ResultsAreClean, At, Stages, Stage
<1>6. QED
  BY <1>2, <1>3, <1>4, <1>5 DEF RunInv

LEMMA FaultType == Types /\ (Fault \/ UNCHANGED faults) => faults' \in 0 .. MaxFaults
BY ExecutionAssumption DEF Types, Fault

LEMMA EndedFields ==
  ASSUME NEW s, s.pid \in Pids \cup {None},
         s.child \in {"none", "running", "zero", "nonzero", "killed"},
         s.kid \in {"none", "group", "session"}, s.sink \in {"ok", "stalled", "broken"},
         NEW ret \in Returns
  PROVE  Ended(s, ret) \in RunRecord
BY DEF Ended, Fresh, RunRecord, Kills, Cleanups, Returns

LEMMA EndedType ==
  ASSUME NEW s \in RunRecord,
         NEW ret \in Returns
  PROVE  /\ Ended(s, ret) \in RunRecord /\ Ended(s, ret).pc = "done" /\ Ended(s, ret).ret = ret
         /\ Ended(s, ret).child = s.child /\ Ended(s, ret).kid = s.kid /\ Ended(s, ret).sink = s.sink
         /\ s.child # "running" /\ s.kid # "group" => Stage(Ended(s, ret))
<1> DEFINE e == Ended(s, ret)
<1>1. /\ s.pid \in Pids \cup {None} /\ s.child \in {"none", "running", "zero", "nonzero", "killed"}
      /\ s.kid \in {"none", "group", "session"} /\ s.sink \in {"ok", "stalled", "broken"}
  BY DEF RunRecord
<1>2. e \in RunRecord
  BY <1>1, EndedFields
<1>3. e.pc = "done" /\ e.ret = ret /\ e.child = s.child /\ e.kid = s.kid /\ e.sink = s.sink
  BY DEF Ended, Fresh
<1> HIDE DEF e
<1>4. e.child # "running" /\ e.kid # "group" => Stage(e)
  BY <1>3 DEF Stage, Running
<1>5. QED
  BY <1>2, <1>3, <1>4 DEF e

LEMMA RefuseStep == ASSUME IInv, NEW r \in Runs, Refuse(r) PROVE IInv'
<1> DEFINE new == Ended(run[r], "error")
<1>1. /\ run[r] \in RunRecord /\ run[r].pc \in {"resolve", "check"} /\ run[r].child = "none"
      /\ run[r].kid = "none"
  BY DEF IInv, RunInv, Types, Stages, Stage, Refuse
<1>2. new \in RunRecord /\ new.pc = "done" /\ new.ret = "error" /\ new.child = "none" /\ Stage(new)
  BY <1>1, EndedType DEF Returns
<1>3. dirs' \in {dirs, dirs \ {r}} /\ (Fault \/ UNCHANGED faults)
  BY DEF Refuse, CloseFiles
<1>4. RunInv'
  <2>1. faults' \in 0 .. MaxFaults
    BY <1>3, FaultType DEF IInv, RunInv
  <2> HIDE DEF new
  <2>2. Set(r, new) /\ UNCHANGED <<ci, proc, old, logVars>>
    BY DEF Refuse, new
  <2>3. QED
    BY <1>1, <1>2, <1>3, <2>1, <2>2, Ends
<1>5. RecordInv'
  <2> HIDE DEF new
  <2>1. Set(r, new) /\ UNCHANGED logVars
    BY DEF Refuse, new
  <2>2. run'[r] = new /\ \A q \in Runs : q # r => run'[q] = run[q]
    BY <1>2, <2>1, SetOne DEF IInv, RunInv
  <2>3. QED
    BY <1>1, <1>2, <1>3, <2>1, <2>2, LogStays DEF IInv
<1>6. QED
  BY <1>4, <1>5 DEF IInv

LEMMA RejectStep == ASSUME IInv, NEW r \in Runs, NEW p \in Pids, Reject(r, p) PROVE IInv'
<1> DEFINE new == [Fresh EXCEPT !.pc = "done", !.pid = p, !.ret = "error"]
<1>1. run[r] \in RunRecord /\ run[r].pc = "new"
  BY DEF IInv, RunInv, Types, Reject, At
<1>2. /\ new \in RunRecord /\ new.pc = "done" /\ new.ret = "error" /\ new.child = "none"
      /\ new.kid = "none"
  BY DEF Fresh, RunRecord, Kills, Cleanups, Returns
<1>3. Set(r, new) /\ UNCHANGED <<ci, proc, dirs, old, faults, logVars>>
  BY DEF Reject
<1> HIDE DEF new
<1>4. Stage(new)
  BY <1>2 DEF Stage, Running
<1>5. RunInv'
  BY <1>1, <1>2, <1>3, <1>4, Ends DEF IInv, RunInv, Types
<1>6. RecordInv'
  <2>1. run'[r] = new /\ \A q \in Runs : q # r => run'[q] = run[q]
    BY <1>2, <1>3, SetOne DEF IInv, RunInv
  <2>2. QED
    BY <1>1, <1>2, <1>3, <2>1, LogStays DEF IInv
<1>7. QED
  BY <1>5, <1>6 DEF IInv

-----------------------------------------------------------------------------
(* Processes.                                                              *)

LEMMA BeginStep == ASSUME IInv, NEW r \in Runs, NEW p \in Pids, Begin(r, p) PROVE IInv'
<1> DEFINE new == [run[r] EXCEPT !.pc = "resolve", !.pid = p]
<1>1. run[r] \in RunRecord /\ run[r].pc = "new" /\ Stage(run[r])
  BY DEF IInv, RunInv, Types, Begin, At, Stages
<1>2. /\ new \in RunRecord /\ new.pc = "resolve" /\ new.pid = p /\ new.child = "none"
      /\ new.kid = "none" /\ new.files = FALSE
  BY <1>1 DEF RunRecord, Running, Stage
<1>3. /\ Set(r, new) /\ proc[p] = "ironrun" /\ Trusted(ci)
      /\ UNCHANGED <<ci, proc, dirs, old, faults, logVars>>
  BY DEF Begin
<1> HIDE DEF new
<1>4. Stage(new)
  BY <1>2 DEF Stage, Running
<1>5. run' \in [Runs -> RunRecord] /\ run'[r] = new /\ \A q \in Runs : q # r => run'[q] = run[q]
  BY <1>2, <1>3, SetOne DEF IInv, RunInv
<1>6. ci.origin = "base" \/ (ci.event = "pull_request_target" /\ ci.optIn)
  <2>1. ci \in CIJobs
    BY CIAssumption DEF IInv, RunInv, Types
  <2>2. ci.origin \in {"base", "fork"} /\ (ci.event = "push" => ci.origin = "base")
        /\ (ci.system = "none" => ci.event = "push")
    BY <2>1 DEF CIJobs
  <2>3. QED
    BY <1>3, <2>2 DEF Trusted, SameRepository
<1>7. Types' /\ Owners' /\ Stages'
  BY <1>1, <1>2, <1>3, <1>4, <1>5 DEF IInv, RunInv, Types, Owners, Stages, Active
<1>8. Removed' /\ LiveRunsKeepTheirFiles'
  BY <1>1, <1>2, <1>3, <1>5 DEF IInv, RunInv, Removed, LiveRunsKeepTheirFiles, Active
<1>9. ForksGetNoSecrets' /\ ResultsAreClean'
  BY <1>2, <1>3, <1>5, <1>6 DEF IInv, RunInv, ForksGetNoSecrets, ResultsAreClean, At
<1>10. RecordInv'
  BY <1>1, <1>2, <1>3, <1>5, LogStays DEF IInv
<1>11. QED
  BY <1>7, <1>8, <1>9, <1>10 DEF IInv, RunInv

\* The runs stay as they are while processes come and go.
LEMMA RunsStay ==
  ASSUME IInv, UNCHANGED <<ci, run, logVars>>, Owners', faults' \in 0 .. MaxFaults,
         proc' \in [Pids -> {"free", "ironrun", "foreign"}], old' \subseteq Runs,
         dirs' \subseteq dirs, \A r \in Runs : Active(r) /\ r \in dirs => r \in dirs'
  PROVE  IInv'
<1>1. Types' /\ Stages'
  BY DEF IInv, RunInv, Types, Stages
<1>2. Removed' /\ LiveRunsKeepTheirFiles'
  BY DEF IInv, RunInv, Removed, LiveRunsKeepTheirFiles, Active
<1>3. ForksGetNoSecrets' /\ ResultsAreClean'
  BY DEF IInv, RunInv, ForksGetNoSecrets, ResultsAreClean, At
<1>4. RecordInv'
  BY LogStays DEF IInv
<1>5. QED
  BY <1>1, <1>2, <1>3, <1>4 DEF IInv, RunInv

LEMMA ProcessSteps ==
  ASSUME IInv,
         \/ \E p \in Pids : StartProcess(p) \/ ExitProcess(p) \/ Foreign(p)
         \/ \E r \in Runs : Age(r)
  PROVE  IInv'
<1>1. /\ proc \in [Pids -> {"free", "ironrun", "foreign"}] /\ dirs \subseteq Runs /\ old \subseteq Runs
      /\ Types /\ faults \in 0 .. MaxFaults /\ Owners
  BY DEF IInv, RunInv, Types
<1>2. ASSUME NEW p \in Pids, StartProcess(p) PROVE IInv'
  <2>1. proc[p] = "free" /\ proc' \in {proc, [proc EXCEPT ![p] = "ironrun"]} /\ UNCHANGED <<ci, run, old, logVars>>
    BY <1>2 DEF StartProcess
  <2>2. dirs' \subseteq dirs /\ dirs \ dirs' \subseteq Stale(p) /\ (Fault \/ UNCHANGED faults)
    BY <1>2 DEF StartProcess, CleanupStale
  <2>3. \A r \in Runs : Active(r) => r \notin Stale(p)
    BY ActiveIsNotStale
  <2>4. Owners'
    BY <1>1, <2>1 DEF Owners, Active
  <2>5. proc' \in [Pids -> {"free", "ironrun", "foreign"}] /\ faults' \in 0 .. MaxFaults
    BY <1>1, <2>1, <2>2, FaultType
  <2>6. QED
    BY <1>1, <2>1, <2>2, <2>3, <2>4, <2>5, RunsStay
<1>3. ASSUME NEW p \in Pids, ExitProcess(p) PROVE IInv'
  <2>1. Owners'
    BY <1>1, <1>3 DEF ExitProcess, Owners, Active
  <2>2. QED
    BY <1>1, <1>3, <2>1, RunsStay DEF ExitProcess
<1>4. ASSUME NEW p \in Pids, Foreign(p) PROVE IInv'
  <2>1. Owners'
    BY <1>1, <1>4 DEF Foreign, Owners, Active
  <2>2. QED
    BY <1>1, <1>4, <2>1, RunsStay DEF Foreign
<1>5. ASSUME NEW r \in Runs, Age(r) PROVE IInv'
  <2>1. Owners'
    BY <1>1, <1>5 DEF Age, Owners, Active
  <2>2. QED
    BY <1>1, <1>5, <2>1, RunsStay DEF Age
<1>6. QED
  BY <1>2, <1>3, <1>4, <1>5

LEMMA CrashStep == ASSUME IInv, NEW p \in Pids, Crash(p) PROVE IInv'
<1> DEFINE Lost == {r \in Runs : Active(r) /\ run[r].pid = p}
           dead == [Fresh EXCEPT !.pc = "crashed", !.pid = p]
<1>1. /\ proc' = [proc EXCEPT ![p] = "free"] /\ run' = [r \in Runs |-> IF r \in Lost THEN dead ELSE run[r]]
      /\ LockGoes(Lost) /\ Fault /\ UNCHANGED <<ci, dirs, old, lines, terminated, lastSeen>>
  BY DEF Crash
<1>2. /\ dead \in RunRecord /\ dead.pc = "crashed" /\ dead.child = "none" /\ dead.kid = "none"
  BY DEF Fresh, RunRecord, Kills, Cleanups, Returns
<1> HIDE DEF dead
<1>3. Stage(dead)
  BY <1>2 DEF Stage, Running
<1>4. \A r \in Runs : r \in Lost => Active(r) /\ run[r].pid = p
  OBVIOUS
<1>5. \A r \in Runs : (r \in Lost /\ run'[r] = dead) \/ (r \notin Lost /\ run'[r] = run[r])
  BY <1>1
<1> HIDE DEF Lost
<1>6. Types'
  BY <1>1, <1>2, FaultType DEF IInv, RunInv, Types
<1>7. Owners'
  <2> SUFFICES ASSUME NEW r \in Runs, run'[r].pc \in Running
               PROVE  run'[r].pid \in Pids /\ proc'[run'[r].pid] = "ironrun"
    BY DEF Owners, Active
  <2>1. run'[r] = run[r] /\ r \notin Lost /\ Active(r)
    BY <1>2, <1>5 DEF Active, Running
  <2>2. run[r].pid \in Pids /\ proc[run[r].pid] = "ironrun" /\ run[r].pid # p
    BY <2>1 DEF IInv, RunInv, Owners, Lost
  <2>3. QED
    BY <1>1, <2>1, <2>2 DEF IInv, RunInv, Types
<1>8. Stages' /\ Removed' /\ LiveRunsKeepTheirFiles'
  BY <1>1, <1>2, <1>3, <1>5 DEF IInv, RunInv, Stages, Removed, LiveRunsKeepTheirFiles, Active, Running
<1>9. ForksGetNoSecrets' /\ ResultsAreClean'
  BY <1>1, <1>2, <1>4, <1>5 DEF IInv, RunInv, ForksGetNoSecrets, ResultsAreClean, Active, Running, At
<1>10. RecordInv'
  <2>1. LastHash' = LastHash /\ appender' = (IF appender \in Lost THEN None ELSE appender)
    BY <1>1 DEF LastHash, LockGoes
  <2>2. \A r \in Runs : run'[r].pc = "append" => run'[r] = run[r] /\ r \notin Lost
    BY <1>2, <1>5
  <2>3. LogTypeOK'
    BY <1>1, <2>1 DEF IInv, RecordInv, LogTypeOK
  <2>4. Lock'
    BY <1>1, <1>5, <2>1, <2>2 DEF IInv, RecordInv, Lock
  <2>5. \A r \in Runs : run[r].pc = "done" => run'[r] = run[r]
    BY <1>4, <1>5 DEF Active, Running
  <2>6. \A i \in DOMAIN lines : run'[lines[i].run] = run[lines[i].run]
    BY <2>5, LinesHaveRuns DEF IInv, RecordInv, RecordsAreLate
  <2>7. RecordsAreLate' /\ RecordsTellTheOutcome' /\ ChainHolds'
    BY <1>1, <2>6, StillTold DEF IInv, RecordInv, RecordsAreLate, ChainHolds, Intact
  <2>8. QED
    BY <2>3, <2>4, <2>7 DEF RecordInv
<1>11. QED
  BY <1>6, <1>7, <1>8, <1>9, <1>10 DEF IInv, RunInv

-----------------------------------------------------------------------------
(* The file secrets and the record.                                        *)

LEMMA ResolveStep == ASSUME IInv, NEW r \in Runs, Resolve(r) PROVE IInv'
<1>1. PICK f \in BOOLEAN :
        /\ Set(r, [run[r] EXCEPT !.pc = "check", !.files = f])
        /\ NewFileWorkspace(r) \/ (f = run[r].files /\ dirs' = dirs)
  <2>1. run[r] \in RunRecord
    BY DEF IInv, RunInv, Types
  <2>2. CASE Goto(r, "check") /\ UNCHANGED dirs
    <3>1. [run[r] EXCEPT !.pc = "check"] = [run[r] EXCEPT !.pc = "check", !.files = run[r].files]
      BY <2>1 DEF RunRecord
    <3>2. run[r].files \in BOOLEAN
      BY <2>1 DEF RunRecord
    <3>3. QED
      BY <2>2, <3>1, <3>2 DEF Goto
  <2>3. CASE NewFileWorkspace(r) /\ Set(r, [run[r] EXCEPT !.pc = "check", !.files = TRUE])
    BY <2>3
  <2>4. QED
    BY <2>2, <2>3 DEF Resolve
<1> DEFINE new == [run[r] EXCEPT !.pc = "check", !.files = f]
<1>2. run[r] \in RunRecord /\ run[r].pc = "resolve" /\ Stage(run[r])
  BY DEF IInv, RunInv, Types, Resolve, At, Stages
<1>3. /\ new \in RunRecord /\ new.pc = "check" /\ new.pid = run[r].pid /\ new.child = "none"
      /\ new.kid = "none" /\ new.files = f
  BY <1>1, <1>2 DEF RunRecord, Running, Stage
<1> HIDE DEF new
<1>4. Stage(new)
  BY <1>3 DEF Stage, Running
<1>5. run' \in [Runs -> RunRecord] /\ run'[r] = new /\ \A q \in Runs : q # r => run'[q] = run[q]
  BY <1>1, <1>3, SetOne DEF IInv, RunInv, new
<1>6. /\ dirs' \subseteq dirs \cup {r} /\ UNCHANGED <<ci, proc, old, faults, logVars>>
      /\ \A q \in Runs : Active(q) /\ q \in dirs => q \in dirs'
      /\ new.files => r \in dirs' \/ run[r].files
  BY <1>1, <1>3, ActiveIsNotStale DEF Resolve, NewFileWorkspace
<1>7. Types' /\ Owners' /\ Stages'
  BY <1>2, <1>3, <1>4, <1>5, <1>6 DEF IInv, RunInv, Types, Owners, Stages, Active, Running
<1>8. Removed' /\ LiveRunsKeepTheirFiles'
  BY <1>2, <1>3, <1>5, <1>6 DEF IInv, RunInv, Removed, LiveRunsKeepTheirFiles, Active, Running
<1>9. ForksGetNoSecrets' /\ ResultsAreClean'
  BY <1>2, <1>3, <1>5, <1>6 DEF IInv, RunInv, ForksGetNoSecrets, ResultsAreClean, At
<1>10. RecordInv'
  BY <1>2, <1>3, <1>5, <1>6, LogStays DEF IInv
<1>11. QED
  BY <1>7, <1>8, <1>9, <1>10 DEF IInv, RunInv

LEMMA CleanupStep == ASSUME IInv, NEW r \in Runs, Cleanup(r) PROVE IInv'
<1> DEFINE s == run[r]
<1>1. s \in RunRecord /\ s.pc = "cleanup" /\ Stage(s)
  BY DEF IInv, RunInv, Types, Cleanup, At, Stages
<1>2. PICK c \in {"", "removed", "failed"} :
        /\ Set(r, [s EXCEPT !.pc = "audit", !.files = FALSE, !.ret = Outcome(s), !.cleanup = c])
        /\ dirs' \subseteq dirs /\ dirs \ dirs' \subseteq {r} /\ (c # "failed" => r \notin dirs')
        /\ Fault \/ UNCHANGED faults
  BY DEF Cleanup
<1> DEFINE new == [s EXCEPT !.pc = "audit", !.files = FALSE, !.ret = Outcome(s), !.cleanup = c]
<1>3. /\ Outcome(s) \in {"zero", "nonzero", "timeout", "cancelled", "error"}
      /\ Outcome(s) \in {"zero", "nonzero"} => s.child = Outcome(s)
      /\ Outcome(s) \in {"timeout", "cancelled"} => s.ctx = Outcome(s)
  <2>1. s.ctx \in {"live", "timeout", "cancelled"}
    BY <1>1 DEF RunRecord
  <2>2. /\ s.child = "killed" => s.ctx # "live"
        /\ s.err = "start" \/ (s.child \in {"zero", "nonzero", "killed"} /\ (s.err = "exit" <=> s.child # "zero"))
    BY <1>1 DEF Stage, Running
  <2>3. QED
    BY <2>1, <2>2 DEF Outcome
<1>4. /\ new \in RunRecord /\ new.pc = "audit" /\ new.pid = s.pid /\ new.child = s.child
      /\ new.kid = s.kid /\ new.ctx = s.ctx /\ new.files = FALSE /\ new.ret = Outcome(s)
      /\ new.cleanup = c
  <2>1. Outcome(s) \in Returns /\ c \in Cleanups
    BY <1>2, <1>3 DEF Returns, Cleanups
  <2>2. s \in RunRecord /\ "audit" \in Running
    BY <1>1 DEF Running
  <2>3. QED
    BY <2>1, <2>2 DEF RunRecord
<1> HIDE DEF new
<1>5. Stage(new)
  BY <1>1, <1>3, <1>4 DEF Stage, Running
<1>6. run' \in [Runs -> RunRecord] /\ run'[r] = new /\ \A q \in Runs : q # r => run'[q] = run[q]
  BY <1>2, <1>4, SetOne DEF IInv, RunInv, new
<1>7. UNCHANGED <<ci, proc, old, logVars>> /\ faults' \in 0 .. MaxFaults
  <2>1. Types
    BY DEF IInv, RunInv
  <2>2. faults' \in 0 .. MaxFaults
    BY <1>2, <2>1, FaultType
  <2>3. UNCHANGED <<ci, proc, old, logVars>>
    BY DEF Cleanup
  <2>4. QED
    BY <2>2, <2>3
<1>8. Types' /\ Owners' /\ Stages'
  <2>1. Types'
    BY <1>2, <1>6, <1>7 DEF IInv, RunInv, Types
  <2>2. Owners' /\ Stages'
    BY <1>1, <1>4, <1>5, <1>6, <1>7, ZenonT(60) DEF IInv, RunInv, Owners, Stages, Active, Running
  <2>3. QED
    BY <2>1, <2>2
<1>9. Removed' /\ LiveRunsKeepTheirFiles'
  BY <1>2, <1>4, <1>6 DEF IInv, RunInv, Removed, LiveRunsKeepTheirFiles, Active, Running
<1>10. ForksGetNoSecrets' /\ ResultsAreClean'
  BY <1>1, <1>2, <1>4, <1>6, <1>7, ZenonT(60) DEF IInv, RunInv, ForksGetNoSecrets, ResultsAreClean, At
<1>11. RecordInv'
  BY <1>1, <1>2, <1>4, <1>6, <1>7, LogStays DEF IInv
<1>12. QED
  BY <1>8, <1>9, <1>10, <1>11 DEF IInv, RunInv

\* What the caller of a run gets.
LEMMA ReturnFacts ==
  ASSUME IInv, NEW r \in Runs, run[r].pc \in {"audit", "append"}
  PROVE  /\ Result(run[r]) \in Returns
         /\ Result(run[r]) \in {"zero", "nonzero"} =>
              /\ run[r].child = Result(run[r]) /\ run[r].sink # "broken" /\ run[r].cleanup # "failed"
              /\ r \notin dirs
         /\ Result(run[r]) \in {"timeout", "cancelled"} => run[r].ctx = Result(run[r])
<1>1. run[r] \in RunRecord /\ Stage(run[r])
  BY DEF IInv, RunInv, Types, Stages
<1>2. /\ run[r].ret \in Returns
      /\ run[r].ret \in {"zero", "nonzero"} => run[r].child = run[r].ret
      /\ run[r].ret \in {"timeout", "cancelled"} => run[r].ctx = run[r].ret
  BY <1>1 DEF RunRecord, Stage, Returns
<1>3. run[r].cleanup # "failed" => r \notin dirs
  BY DEF IInv, RunInv, Removed
<1>4. QED
  BY <1>2, <1>3 DEF Result, Returns

LEMMA ReturnStep ==
  ASSUME IInv, NEW r \in Runs, run[r].pc \in {"audit", "append"}, Return(r),
         UNCHANGED <<ci, proc, dirs, old>>, faults' \in 0 .. MaxFaults
  PROVE  /\ RunInv' /\ run'[r].pc = "done" /\ run'[r].ret = Result(run[r])
         /\ run'[r].child = run[r].child
         /\ \A q \in Runs : q # r => run'[q] = run[q]
<1> DEFINE new == Ended(run[r], Result(run[r]))
<1>1. run[r] \in RunRecord /\ run[r].child # "running" /\ run[r].kid # "group"
  BY DEF IInv, RunInv, Types, Stages, Stage
<1>2. /\ new \in RunRecord /\ new.pc = "done" /\ new.ret = Result(run[r])
      /\ new.child = run[r].child /\ new.sink = run[r].sink /\ Stage(new)
  BY <1>1, ReturnFacts, EndedType
<1> HIDE DEF new
<1>3. Set(r, new)
  BY DEF Return, new
<1>4. RunInv'
  BY <1>2, <1>3, ReturnFacts, Ends
<1>5. QED
  BY <1>2, <1>3, <1>4, SetOne DEF IInv, RunInv

LEMMA AuditStep == ASSUME IInv, NEW r \in Runs, Audit(r) PROVE IInv'
<1> DEFINE s == run[r]
<1>1. /\ s \in RunRecord /\ s.pc = "audit" /\ Stage(s) /\ Types
      /\ UNCHANGED <<ci, proc, dirs, old, faults>>
  BY DEF IInv, RunInv, Types, Stages, Audit, At
<1>2. CASE Return(r) /\ UNCHANGED logVars
  <2>1. RunInv' /\ run'[r].pc = "done" /\ \A q \in Runs : q # r => run'[q] = run[q]
    BY <1>1, <1>2, ReturnStep DEF Types
  <2>2. RecordInv'
    BY <1>1, <1>2, <2>1, LogStays DEF IInv
  <2>3. QED
    BY <2>1, <2>2 DEF IInv
<1>3. CASE s.ret # "error" /\ ReadLast(r) /\ Set(r, [s EXCEPT !.pc = "append", !.kill = KillReason(s)])
  <2> DEFINE new == [s EXCEPT !.pc = "append", !.kill = KillReason(s)]
  <2>1. KillReason(s) \in Kills
    BY <1>1 DEF KillReason, RunRecord, Kills
  <2>2. s \in RunRecord /\ "append" \in Running
    BY <1>1 DEF Running
  <2>3. /\ new \in RunRecord /\ new.pc = "append" /\ new.pid = s.pid /\ new.child = s.child
        /\ new.kid = s.kid /\ new.ctx = s.ctx /\ new.files = s.files /\ new.ret = s.ret
        /\ new.cleanup = s.cleanup /\ new.kill = KillReason(s)
    BY <2>1, <2>2 DEF RunRecord
  <2> HIDE DEF new
  <2>4. Stage(new)
    <3>1. KillReason(new) = KillReason(s)
      BY <2>3 DEF KillReason
    <3>2. QED
      BY <1>1, <1>3, <2>3, <3>1 DEF Stage, Running
  <2>5. run' \in [Runs -> RunRecord] /\ run'[r] = new /\ \A q \in Runs : q # r => run'[q] = run[q]
    BY <1>1, <1>3, <2>3, SetOne DEF new
  <2>6. Types' /\ Owners' /\ Stages'
    BY <1>1, <2>2, <2>3, <2>4, <2>5 DEF IInv, RunInv, Types, Owners, Stages, Active, Running
  <2>7. Removed' /\ LiveRunsKeepTheirFiles'
    BY <1>1, <2>3, <2>5 DEF IInv, RunInv, Removed, LiveRunsKeepTheirFiles, Active, Running
  <2>8. ForksGetNoSecrets' /\ ResultsAreClean'
    BY <1>1, <2>3, <2>5 DEF IInv, RunInv, ForksGetNoSecrets, ResultsAreClean, At
  <2>9. /\ appender = None /\ appender' = r /\ lastSeen' = [lastSeen EXCEPT ![r] = LastHash]
        /\ UNCHANGED <<lines, terminated>> /\ LastHash' = LastHash
    BY <1>3 DEF ReadLast, LastHash
  <2>10. LogTypeOK'
    <3>1. LastHash \in Runs \cup {None}
      <4>1. lines # <<>> => Len(lines) \in DOMAIN lines
        <5>1. lines \in Seq(Line)
          BY DEF IInv, RecordInv, LogTypeOK, Line, Kills, Cleanups
        <5>2. QED
          BY <5>1
      <4>2. QED
        BY <4>1, LinesHaveRuns DEF IInv, RecordInv, LastHash
    <3>2. QED
      BY <2>9, <3>1 DEF IInv, RecordInv, LogTypeOK
  <2>11. Lock'
    <3>1. lastSeen'[r] = LastHash'
      BY <2>9 DEF IInv, RecordInv, LogTypeOK
    <3>2. \A q \in Runs : run[q].pc # "append"
      BY <2>9, ExecutionAssumption DEF IInv, RecordInv, Lock
    <3>3. QED
      BY <2>3, <2>5, <2>9, <3>1, <3>2 DEF IInv, RecordInv, Lock
  <2>12. \A i \in DOMAIN lines : run'[lines[i].run] = run[lines[i].run]
    BY <1>1, <2>5, LinesHaveRuns DEF IInv, RecordInv, RecordsAreLate
  <2>13. RecordsAreLate' /\ RecordsTellTheOutcome' /\ ChainHolds'
    BY <1>1, <2>9, <2>12 DEF IInv, RecordInv, RecordsAreLate, RecordsTellTheOutcome, ChainHolds, Intact
  <2>14. QED
    BY <2>6, <2>7, <2>8, <2>10, <2>11, <2>13 DEF IInv, RunInv, RecordInv
<1>4. QED
  BY <1>2, <1>3 DEF Audit, LastUnreadable

\* What a write leaves: the lines there were, the last one perhaps spoiled, or one more.
LEMMA WrittenFacts ==
  ASSUME LogTypeOK, NEW record \in Line, terminated = FALSE => lines # <<>>
  PROVE  /\ Written(record) \in Seq(Line) /\ Written(record) # <<>>
         /\ \A i \in DOMAIN Written(record) :
              \/ /\ i \in DOMAIN lines /\ Written(record)[i].run = lines[i].run
                 /\ Written(record)[i].kill = lines[i].kill
                 /\ Written(record)[i].exit = lines[i].exit
                 /\ Written(record)[i].cleanup = lines[i].cleanup
                 /\ Written(record)[i].whole => lines[i].whole
              \/ Written(record)[i] = record
         /\ terminated = FALSE =>
              \E i \in DOMAIN Written(record) : Written(record)[i].whole = FALSE
<1>1. lines \in Seq(Line) /\ terminated \in BOOLEAN
  BY DEF LogTypeOK, Line, Kills, Cleanups
<1>2. CASE terminated = TRUE
  <2>1. Written(record) = Append(lines, record)
    BY <1>2 DEF Written
  <2>2. QED
    BY <1>1, <1>2, <2>1
<1>3. CASE terminated = FALSE
  <2> DEFINE n == Len(lines)
             last == [lines[n] EXCEPT !.whole = FALSE]
  <2>1. Written(record) = [lines EXCEPT ![n] = last]
    BY <1>3 DEF Written
  <2>2. n \in DOMAIN lines /\ lines[n] \in Line
    BY <1>1, <1>3
  <2>3. /\ last \in Line /\ last.run = lines[n].run /\ last.kill = lines[n].kill /\ last.exit = lines[n].exit
        /\ last.cleanup = lines[n].cleanup /\ last.whole = FALSE
    BY <2>2 DEF Line
  <2> HIDE DEF last
  <2>4. Written(record) \in Seq(Line) /\ DOMAIN Written(record) = DOMAIN lines
    BY <1>1, <2>1, <2>2, <2>3
  <2>5. \A i \in DOMAIN lines : Written(record)[i] = IF i = n THEN last ELSE lines[i]
    BY <1>1, <2>1, <2>2
  <2>6. QED
    BY <1>1, <2>2, <2>3, <2>4, <2>5
<1>4. QED
  BY <1>1, <1>2, <1>3

LEMMA AppendStep == ASSUME IInv, NEW r \in Runs, AppendRecord(r) PROVE IInv'
<1> DEFINE s == run[r]
           record(w) == [run |-> r, prev |-> lastSeen[r], kill |-> s.kill, exit |-> ExitCode(s),
                         cleanup |-> s.cleanup, whole |-> w]
<1>1. /\ s \in RunRecord /\ s.pc = "append" /\ Stage(s) /\ Types /\ LogTypeOK /\ Lock
      /\ Return(r) /\ UNCHANGED <<ci, proc, dirs, old>>
  BY DEF IInv, RunInv, RecordInv, Types, Stages, AppendRecord, At
<1>2. \E w \in BOOLEAN :
        /\ \/ lines' = lines /\ terminated' = terminated
           \/ lines' = Written(record(w)) /\ (w = TRUE \/ terminated' = FALSE) /\ terminated' \in BOOLEAN
        /\ appender' = None /\ lastSeen' = [lastSeen EXCEPT ![r] = None] /\ (Fault \/ UNCHANGED faults)
  BY DEF AppendRecord, WriteRecord, WriteTorn
<1>3. /\ RunInv' /\ run'[r].pc = "done" /\ run'[r].ret = Result(s) /\ run'[r].child = s.child
      /\ \A q \in Runs : q # r => run'[q] = run[q]
  <2>1. faults' \in 0 .. MaxFaults
    BY <1>1, <1>2, FaultType
  <2>2. QED
    BY <1>1, <2>1, ReturnStep
<1>4. appender = r /\ lastSeen[r] = LastHash /\ lastSeen[r] \in Runs \cup {None}
  BY <1>1, ExecutionAssumption DEF Lock, LogTypeOK
<1>5. ASSUME NEW w \in BOOLEAN PROVE record(w) \in Line
  BY <1>1, <1>4 DEF RunRecord, Line, ExitCode
<1>6. \A i \in DOMAIN lines : lines[i].run \in Runs /\ lines[i].run # r
  BY <1>1, LinesHaveRuns DEF IInv, RecordInv, RecordsAreLate
<1>7. /\ s.kill = KillReason(s) /\ (s.cleanup # "failed" => r \notin dirs)
      /\ Result(s) \in {"timeout", "cancelled"} => s.kill = Result(s)
      /\ s.cleanup = "failed" => Result(s) \notin {"zero", "nonzero"}
      /\ s.kill = "" \/ ExitCode(s) = "nonzero" => ExitCode(s) = s.child
  <2>1. /\ s.kill = KillReason(s) /\ (s.cleanup # "failed" => r \notin dirs)
        /\ Result(s) \in {"timeout", "cancelled"} => s.kill = Result(s)
        /\ s.cleanup = "failed" => Result(s) \notin {"zero", "nonzero"}
    BY <1>1, ReturnFacts DEF Stage, KillReason, IInv, RunInv, Removed
  <2>2. /\ s.ret \in Returns /\ s.ret \notin {"none", "error"}
        /\ s.ret \in {"zero", "nonzero"} => s.child = s.ret
        /\ s.ret \in {"timeout", "cancelled"} => s.ctx = s.ret
    BY <1>1 DEF Stage, RunRecord
  <2>3. s.kill = "" => s.ret \in {"zero", "nonzero"}
    BY <2>1, <2>2 DEF KillReason, Returns
  <2>4. QED
    BY <2>1, <2>2, <2>3 DEF ExitCode
<1>8. lastSeen' \in [Runs -> Runs \cup {None}] /\ appender' = None
  BY <1>1, <1>2 DEF LogTypeOK
<1>9. CASE lines' = lines /\ terminated' = terminated
  <2>1. LogTypeOK'
    BY <1>1, <1>8, <1>9 DEF LogTypeOK
  <2>2. Lock'
    BY <1>1, <1>3, <1>4, <1>8, <1>9 DEF Lock
  <2>3. \A i \in DOMAIN lines : run'[lines[i].run] = run[lines[i].run]
    BY <1>3, <1>6
  <2>4. RecordsAreLate' /\ RecordsTellTheOutcome' /\ ChainHolds'
    BY <1>1, <1>9, <2>3 DEF IInv, RecordInv, RecordsAreLate, RecordsTellTheOutcome, ChainHolds, Intact
  <2>5. QED
    BY <1>3, <2>1, <2>2, <2>4 DEF IInv, RecordInv
<1>10. ASSUME NEW w \in BOOLEAN, lines' = Written(record(w)), w = TRUE \/ terminated' = FALSE,
              terminated' \in BOOLEAN
       PROVE  IInv'
  <2> DEFINE rec == record(w)
  <2>1. /\ rec \in Line /\ rec.run = r /\ rec.kill = s.kill /\ rec.cleanup = s.cleanup
        /\ rec.prev = lastSeen[r] /\ rec.exit = ExitCode(s)
    BY <1>5
  <2> HIDE DEF rec
  <2>2. lines' = Written(rec)
    BY <1>10 DEF rec
  <2>3. /\ lines' \in Seq(Line) /\ lines' # <<>>
        /\ \A i \in DOMAIN lines' :
             \/ /\ i \in DOMAIN lines /\ lines'[i].run = lines[i].run /\ lines'[i].kill = lines[i].kill
                /\ lines'[i].exit = lines[i].exit /\ lines'[i].cleanup = lines[i].cleanup
                /\ lines'[i].whole => lines[i].whole
             \/ lines'[i] = rec
        /\ terminated = FALSE => \E i \in DOMAIN lines' : lines'[i].whole = FALSE
    BY <1>1, <2>1, <2>2, WrittenFacts DEF Lock
  <2>4. LogTypeOK'
    BY <1>8, <1>10, <2>3 DEF LogTypeOK, Line, Kills, Cleanups
  <2>5. Lock'
    BY <1>1, <1>3, <1>4, <1>8, <1>10, <2>3 DEF Lock
  <2>6. RecordsAreLate'
    BY <1>3, <1>6, <2>1, <2>3 DEF IInv, RecordInv, RecordsAreLate
  <2>7. RecordsTellTheOutcome'
    <3> SUFFICES ASSUME NEW i \in DOMAIN lines', lines'[i].whole, run'[lines'[i].run].pc = "done"
                 PROVE  /\ run'[lines'[i].run].ret \in {"timeout", "cancelled"} =>
                             lines'[i].kill = run'[lines'[i].run].ret
                        /\ lines'[i].kill = "" \/ lines'[i].exit = "nonzero" =>
                             lines'[i].exit = run'[lines'[i].run].child
                        /\ lines'[i].cleanup = "removed" => lines'[i].run \notin dirs
                        /\ lines'[i].cleanup = "failed" =>
                             run'[lines'[i].run].ret \notin {"zero", "nonzero"}
      BY <1>1 DEF RecordsTellTheOutcome
    <3>1. CASE lines'[i] = rec
      BY <1>3, <1>7, <2>1, <3>1
    <3>2. CASE /\ i \in DOMAIN lines /\ lines'[i].run = lines[i].run /\ lines'[i].kill = lines[i].kill
               /\ lines'[i].exit = lines[i].exit /\ lines'[i].cleanup = lines[i].cleanup
               /\ lines[i].whole
      <4>1. run'[lines'[i].run] = run[lines[i].run]
        BY <1>3, <1>6, <3>2
      <4>2. QED
        BY <3>2, <4>1 DEF IInv, RecordInv, RecordsTellTheOutcome
    <3>3. QED
      BY <2>3, <3>1, <3>2
  <2>8. ChainHolds'
    <3> SUFFICES ASSUME \A i \in DOMAIN lines' : lines'[i].whole PROVE Intact'
      BY DEF ChainHolds
    <3>1. terminated # FALSE
      BY <2>3
    <3>2. terminated = TRUE /\ lines \in Seq(Line)
      BY <1>1, <3>1 DEF Lock, LogTypeOK, Line, Kills, Cleanups
    <3>3. lines' = Append(lines, rec)
      BY <2>2, <3>2 DEF Written
    <3>4. \A i \in DOMAIN lines : lines'[i] = lines[i] /\ i \in DOMAIN lines'
      BY <3>2, <3>3
    <3>5. Intact
      BY <3>4 DEF IInv, RecordInv, ChainHolds
    <3>6. DOMAIN lines' = 1 .. Len(lines) + 1 /\ lines'[Len(lines) + 1] = rec
      BY <2>1, <3>2, <3>3
    <3>7. rec.prev = IF Len(lines) = 0 THEN None ELSE lines[Len(lines)].run
      BY <1>4, <2>1, <3>2 DEF LastHash
    <3>8. QED
      BY <3>2, <3>4, <3>5, <3>6, <3>7 DEF Intact
  <2>9. QED
    BY <1>3, <2>4, <2>5, <2>6, <2>7, <2>8 DEF IInv, RecordInv
<1>11. QED
  BY <1>2, <1>9, <1>10

-----------------------------------------------------------------------------
(* The theorems.                                                           *)

LEMMA Continues == IInv /\ [ExecNext]_execVars => IInv'
<1> SUFFICES ASSUME IInv, [ExecNext]_execVars PROVE IInv'
  OBVIOUS
<1>1. CASE \E p \in Pids : StartProcess(p) \/ ExitProcess(p) \/ Foreign(p) \/ Crash(p)
  BY <1>1, ProcessSteps, CrashStep
<1>2. ASSUME NEW r \in Runs,
             \/ \E p \in Pids : Begin(r, p) \/ Reject(r, p)
             \/ RunStep(r) \/ Refuse(r) \/ Fork(r) \/ Consumer(r) \/ Age(r)
             \/ \E reason \in {"timeout", "cancelled"} : EndContext(r, reason)
             \/ \E code \in {"zero", "nonzero"} : ChildExits(r, code)
      PROVE  IInv'
  <2>1. CASE \E p \in Pids : Begin(r, p) \/ Reject(r, p)
    BY <2>1, BeginStep, RejectStep
  <2>2. CASE Resolve(r) \/ Cleanup(r) \/ Audit(r) \/ AppendRecord(r) \/ Refuse(r)
    BY <2>2, ResolveStep, CleanupStep, AuditStep, AppendStep, RefuseStep
  <2>3. CASE \/ StartChild(r) \/ Kill(r) \/ WaitEnds(r) \/ Sweep(r) \/ Flush(r)
             \/ \E code \in {"zero", "nonzero"} : ChildExits(r, code)
    BY <2>3, ChildSteps
  <2>4. CASE \/ Fork(r) \/ Consumer(r)
             \/ \E reason \in {"timeout", "cancelled"} : EndContext(r, reason)
    BY <2>4, ContextSteps
  <2>5. CASE Age(r)
    BY <2>5, ProcessSteps
  <2>6. QED
    BY <1>2, <2>1, <2>2, <2>3, <2>4, <2>5 DEF RunStep
<1>3. CASE UNCHANGED execVars
  <2>1. Owners'
    BY <1>3 DEF IInv, RunInv, Owners, Active, execVars
  <2>2. UNCHANGED <<ci, proc, run, dirs, old, faults, logVars>>
    BY <1>3 DEF execVars
  <2>3. QED
    BY <2>1, <2>2, RunsStay DEF IInv, RunInv, Types
<1>4. QED
  BY <1>1, <1>2, <1>3 DEF ExecNext

\* A directory goes with the run that owns it, or when its owner is dead.
LEMMA Removals ==
  ASSUME IInv, [ExecNext]_execVars, NEW r \in Runs, Active(r), r \in dirs \ dirs'
  PROVE  run[r].kid # "group" /\ ~Alive(r)
<1>1. Stage(run[r])
  BY DEF IInv, RunInv, Stages
<1>2. CASE Refuse(r) \/ Cleanup(r)
  <2>1. run[r].pc \in {"resolve", "check", "cleanup"}
    BY <1>2 DEF Refuse, Cleanup, At
  <2>2. QED
    BY <1>1, <2>1 DEF Stage, Alive
<1>3. ASSUME NEW p \in Pids, StartProcess(p) PROVE FALSE
  BY <1>3, ActiveIsNotStale DEF StartProcess, CleanupStale
<1>4. ASSUME NEW q \in Runs, Resolve(q) PROVE FALSE
  BY <1>4, ActiveIsNotStale DEF Resolve, NewFileWorkspace
<1>5. ASSUME NEW q \in Runs, q # r, Refuse(q) \/ Cleanup(q) PROVE FALSE
  BY <1>5 DEF Refuse, CloseFiles, Cleanup
<1>6. ASSUME NEW p \in Pids, ExitProcess(p) \/ Foreign(p) \/ Crash(p) PROVE FALSE
  BY <1>6 DEF ExitProcess, Foreign, Crash
<1>7. ASSUME NEW q \in Runs,
             \/ \E p \in Pids : Begin(q, p) \/ Reject(q, p)
             \/ StartChild(q) \/ Kill(q) \/ WaitEnds(q) \/ Sweep(q) \/ Flush(q) \/ Audit(q)
             \/ AppendRecord(q) \/ Fork(q) \/ Consumer(q) \/ Age(q)
             \/ \E reason \in {"timeout", "cancelled"} : EndContext(q, reason)
             \/ \E code \in {"zero", "nonzero"} : ChildExits(q, code)
      PROVE  FALSE
  BY <1>7 DEF Begin, Reject, StartChild, Kill, WaitEnds, Sweep, Flush, Audit, AppendRecord, Fork,
              Consumer, Age, EndContext, ChildExits
<1>8. CASE UNCHANGED execVars
  BY <1>8 DEF execVars
<1>9. QED
  BY <1>2, <1>3, <1>4, <1>5, <1>6, <1>7, <1>8 DEF ExecNext, RunStep

\* The log only changes by what the run inside appends.
LEMMA LogMoves ==
  ASSUME IInv, [ExecNext]_execVars
  PROVE  \/ UNCHANGED lines
         \/ \E record \in Line : run[record.run].pc = "append" /\ lines' = Written(record)
<1>1. ASSUME NEW r \in Runs, AppendRecord(r), lines' # lines
      PROVE  \E record \in Line : run[record.run].pc = "append" /\ lines' = Written(record)
  <2> DEFINE s == run[r]
             record(w) == [run |-> r, prev |-> lastSeen[r], kill |-> s.kill, exit |-> ExitCode(s),
                           cleanup |-> s.cleanup, whole |-> w]
  <2>1. s \in RunRecord /\ s.pc = "append" /\ lastSeen[r] \in Runs \cup {None}
    BY <1>1 DEF IInv, RunInv, RecordInv, Types, LogTypeOK, AppendRecord, At
  <2>2. \E w \in BOOLEAN : lines' = Written(record(w))
    BY <1>1 DEF AppendRecord, WriteRecord, WriteTorn
  <2>3. \A w \in BOOLEAN : record(w) \in Line /\ record(w).run = r
    BY <2>1 DEF Line, RunRecord, ExitCode
  <2>4. QED
    BY <2>1, <2>2, <2>3
<1>2. ASSUME NEW p \in Pids, StartProcess(p) \/ ExitProcess(p) \/ Foreign(p) \/ Crash(p)
      PROVE  UNCHANGED lines
  BY <1>2 DEF StartProcess, ExitProcess, Foreign, Crash, logVars
<1>3. ASSUME NEW r \in Runs,
             \/ \E p \in Pids : Begin(r, p) \/ Reject(r, p)
             \/ Resolve(r) \/ StartChild(r) \/ Kill(r) \/ WaitEnds(r) \/ Sweep(r) \/ Flush(r)
             \/ Cleanup(r) \/ Audit(r) \/ Refuse(r) \/ Fork(r) \/ Consumer(r) \/ Age(r)
             \/ \E reason \in {"timeout", "cancelled"} : EndContext(r, reason)
             \/ \E code \in {"zero", "nonzero"} : ChildExits(r, code)
      PROVE  UNCHANGED lines
  BY <1>3 DEF Begin, Reject, Resolve, StartChild, Kill, WaitEnds, Sweep, Flush, Cleanup, Audit,
              ReadLast, LastUnreadable, Refuse, Fork, Consumer, Age, EndContext, ChildExits, logVars
<1>4. CASE UNCHANGED execVars
  BY <1>4 DEF execVars, logVars
<1>5. QED
  BY <1>1, <1>2, <1>3, <1>4 DEF ExecNext, RunStep

\* A record that follows: where it goes, and what it leaves.
LEMMA WrittenPlace ==
  ASSUME LogTypeOK, NEW record \in Line, terminated = FALSE => lines # <<>>
  PROVE  /\ Written(record) \in Seq(Line)
         /\ \A i \in DOMAIN lines :
              /\ i \in DOMAIN Written(record)
              /\ Written(record)[i].run = lines[i].run
              /\ Written(record)[i] = lines[i] \/ (i = Len(lines) /\ ~terminated)
         /\ \A i \in DOMAIN Written(record) \ DOMAIN lines :
              i = Len(lines) + 1 /\ Written(record)[i] = record
<1>1. lines \in Seq(Line) /\ terminated \in BOOLEAN
  BY DEF LogTypeOK, Line, Kills, Cleanups
<1>2. CASE terminated = TRUE
  <2>1. Written(record) = Append(lines, record)
    BY <1>2 DEF Written
  <2>2. QED
    BY <1>1, <2>1
<1>3. CASE terminated = FALSE
  <2> DEFINE n == Len(lines)
             last == [lines[n] EXCEPT !.whole = FALSE]
  <2>1. Written(record) = [lines EXCEPT ![n] = last]
    BY <1>3 DEF Written
  <2>2. n \in DOMAIN lines /\ lines[n] \in Line
    BY <1>1, <1>3
  <2>3. last \in Line /\ last.run = lines[n].run
    BY <2>2 DEF Line
  <2> HIDE DEF last
  <2>4. Written(record) \in Seq(Line) /\ DOMAIN Written(record) = DOMAIN lines
    BY <1>1, <2>1, <2>2, <2>3
  <2>5. \A i \in DOMAIN lines : Written(record)[i] = IF i = n THEN last ELSE lines[i]
    BY <1>1, <2>1, <2>2
  <2>6. QED
    BY <1>3, <2>3, <2>4, <2>5
<1>4. QED
  BY <1>1, <1>2, <1>3

\* A run that appends has no record yet: the runs that have one are over.
LEMMA OneRecordStep == IInv /\ OneRecordEach /\ [ExecNext]_execVars => OneRecordEach'
<1> SUFFICES ASSUME IInv, OneRecordEach, [ExecNext]_execVars PROVE OneRecordEach'
  OBVIOUS
<1>1. CASE UNCHANGED lines
  BY <1>1 DEF OneRecordEach
<1>2. ASSUME NEW record \in Line, run[record.run].pc = "append", lines' = Written(record)
      PROVE  OneRecordEach'
  <2>1. LogTypeOK /\ (terminated = FALSE => lines # <<>>)
    BY DEF IInv, RecordInv, Lock
  <2>2. \A i \in DOMAIN lines : lines[i].run # record.run
    BY <1>2 DEF IInv, RecordInv, RecordsAreLate
  <2>3. /\ \A i \in DOMAIN lines : lines'[i].run = lines[i].run
        /\ \A i \in DOMAIN lines' \ DOMAIN lines : i = Len(lines) + 1 /\ lines'[i] = record
    BY <1>2, <2>1, WrittenPlace
  <2>4. ASSUME NEW i \in DOMAIN lines', NEW j \in DOMAIN lines', lines'[i].run = lines'[j].run
        PROVE  i = j
    <3>1. CASE i \in DOMAIN lines /\ j \in DOMAIN lines
      BY <2>3, <2>4, <3>1 DEF OneRecordEach
    <3>2. CASE i \notin DOMAIN lines /\ j \notin DOMAIN lines
      BY <2>3, <3>2
    <3>3. QED
      BY <2>2, <2>3, <2>4, <3>1, <3>2
  <2>5. QED
    BY <2>4 DEF OneRecordEach
<1>3. QED
  BY <1>1, <1>2, LogMoves

LEMMA RecordsStayStep ==
  ASSUME IInv, [ExecNext]_execVars, NEW i \in DOMAIN lines
  PROVE  i \in DOMAIN lines' /\ (lines'[i] = lines[i] \/ (i = Len(lines) /\ ~terminated))
<1>1. LogTypeOK /\ (terminated = FALSE => lines # <<>>)
  BY DEF IInv, RecordInv, Lock
<1>2. QED
  BY <1>1, LogMoves, WrittenPlace

LEMMA Always == ExecSpec => []IInv
BY Starts, Continues, PTL DEF ExecSpec

\* No sweep takes the files of a run in progress, whoever sweeps, and no secret is resolved
\* for the code of a fork (files.go:105, runner.go:572).
THEOREM RunsAreSafe == ExecSpec => []ExecInv
<1>1. IInv => ExecInv
  <2> SUFFICES ASSUME IInv PROVE ExecInv
    OBVIOUS
  <2>1. ExecTypeOK
    BY DEF IInv, RunInv, RecordInv, Types, Owners, Lock, ExecTypeOK, RunRecord, Kills, Cleanups, Returns
  <2>2. QED
    BY <2>1 DEF IInv, RunInv, ExecInv
<1>2. QED
  BY <1>1, Always, PTL

\* A status a caller gets is the one the command ended with and goes with clean output; a
\* record of a run that was ended says why, one without a reason has the command's own
\* status, and its word on the file secrets is true; there is one record for each run, in an
\* unbroken chain: at every crash and after every write that was cut short (runner.go:317,
\* runner.go:420, runner.go:82, audit.go:138).  A record may give a reason for a run that came
\* to its end by itself, see KillMeansEnded.
THEOREM OutcomesTrue == ExecSpec => []OutcomesAreTrue
<1>1. ExecInit => OneRecordEach
  BY DEF ExecInit, LogInit, OneRecordEach
<1>2. IInv /\ OneRecordEach => OutcomesAreTrue
  BY DEF IInv, RunInv, RecordInv, OutcomesAreTrue
<1>3. QED
  BY <1>1, <1>2, OneRecordStep, Always, PTL DEF ExecSpec

\* The file secrets of a run go only when its command and what is left of its process
\* group are gone, and no record is touched by a later one unless it was torn before its
\* newline (runner.go:323, audit.go:1).
THEOREM NothingGoes == ExecSpec => NothingNeededGoes
<1>1. IInv /\ [ExecNext]_execVars
        => [\A r \in Runs : Active(r) /\ r \in dirs \ dirs' => run[r].kid # "group" /\ ~Alive(r)]_execVars
  BY Removals
<1>2. IInv /\ [ExecNext]_execVars
        => [\A i \in DOMAIN lines :
              i \in DOMAIN lines' /\ (lines'[i] = lines[i] \/ (i = Len(lines) /\ ~terminated))]_execVars
  BY RecordsStayStep
<1>3. QED
  BY <1>1, <1>2, Always, PTL DEF ExecSpec, NothingNeededGoes, FilesOutliveReaders, RecordsStay

================================================================================
