------------------------------ MODULE Execution ------------------------------
(***************************************************************************)
(* The sealed-run path: ironrun processes that run commands, the directory *)
(* that holds the file secrets of a run, the supervised child with the     *)
(* processes it forks, and the audit record.  A process may be killed at   *)
(* any moment; its pid may then be given to another process.               *)
(*                                                                         *)
(* All processes share one pid namespace.  Directories of the layout       *)
(* without an owner pid are left out.                                      *)
(***************************************************************************)
EXTENDS AuditLog, FiniteSets

CONSTANTS
  Pids,       \* process identifiers
  Plain,      \* bound: runs whose command does not fork, and whose caller waits and reads
  Reused,     \* bound: pids another program may be given
  CIs,        \* the CI jobs ironrun may find itself in, see Trusted
  MaxFaults   \* bound: crashes, failed removals, failed writes

ASSUME ExecutionAssumption == None \notin Runs /\ MaxFaults \in Nat

VARIABLES
  ci,      \* the CI job: constant
  proc,    \* pid -> "free", "ironrun" (a CLI command or a server) or "foreign"
  run,     \* run -> its record, see Fresh
  dirs,    \* runs whose directory is on disk
  old,     \* of these, remnants of a crash older than staleRunAge
  faults

execVars == <<ci, proc, run, dirs, old, faults, logVars>>

\* pc: where the run is.  child: the direct child.  kid: what the child left, in its
\* process group or in a session of its own.  sink: the consumer of the output.
\* err: what exec.Cmd.Run returned.  ret: the result for the caller.
Fresh == [pc |-> "new", pid |-> None, ctx |-> "live", child |-> "none", kid |-> "none",
          sink |-> "ok", files |-> FALSE, err |-> "none", cleanup |-> "", kill |-> "",
          ret |-> "none"]

\* What the run's own goroutine has yet to do, in order.
Running == {"resolve", "check", "supervise", "sweep", "flush", "cleanup", "audit", "append"}
Active(r) == run[r].pc \in Running

ExecTypeOK ==
  /\ ci \in CIs /\ proc \in [Pids -> {"free", "ironrun", "foreign"}]
  /\ run \in [Runs -> [pc : Running \cup {"new", "done", "crashed"}, pid : Pids \cup {None},
                       ctx : {"live", "timeout", "cancelled"},
                       child : {"none", "running", "zero", "nonzero", "killed"},
                       kid : {"none", "group", "session"}, sink : {"ok", "stalled", "broken"}, files : BOOLEAN,
                       err : {"none", "exit", "context", "waitdelay", "copy", "start"},
                       cleanup : {"", "removed", "failed"}, kill : {"", "timeout", "cancelled"},
                       ret : {"none", "zero", "nonzero", "timeout", "cancelled", "error"}]]
  /\ dirs \subseteq Runs /\ old \subseteq Runs /\ faults \in 0 .. MaxFaults
  /\ LogTypeOK
  /\ \A r \in Runs : Active(r) => proc[run[r].pid] = "ironrun"
  /\ appender # None => run[appender].pc = "append"

ExecInit ==
  /\ ci \in CIs /\ proc = [p \in Pids |-> "free"] /\ run = [r \in Runs |-> Fresh]
  /\ dirs = {} /\ old = {} /\ faults = 0 /\ LogInit

Fault == faults < MaxFaults /\ faults' = faults + 1
At(r, pc) == run[r].pc = pc
Set(r, new) == run' = [run EXCEPT ![r] = new]
Goto(r, pc) == Set(r, [run[r] EXCEPT !.pc = pc])
Alive(r) == run[r].child = "running"

-----------------------------------------------------------------------------
(* Processes.                                                              *)

\* processAlive: signal 0 reaches whoever has the pid.
ProcessAlive(p) == proc[p] # "free"

\* Mutant: only the directories of the sweeping process are known to be in use.
StaleOthers(p) == {r \in dirs : run[r].pid # p}

\* The directories whose owner is gone, as the process p sees them.
Stale(p) == {r \in dirs : ~ProcessAlive(run[r].pid)}

\* Every command starts with CleanupStale, which may fail to remove a directory.
CleanupStale(p) ==
  \/ dirs' = dirs \ Stale(p) /\ UNCHANGED faults
  \/ Fault /\ \E Kept \in SUBSET Stale(p) \ {{}} : dirs' = dirs \ (Stale(p) \ Kept)

\* A command or a server starts; with an audit log that does not verify it stops there.
StartProcess(p) ==
  /\ proc[p] = "free"
  /\ CleanupStale(p)
  /\ proc' = IF Intact THEN [proc EXCEPT ![p] = "ironrun"] ELSE proc
  /\ UNCHANGED <<ci, run, old, logVars>>

\* The command or server ends with nothing under way; its pid is free again.
ExitProcess(p) ==
  /\ proc[p] = "ironrun" /\ \A r \in Runs : Active(r) => run[r].pid # p
  /\ proc' = [proc EXCEPT ![p] = "free"]
  /\ UNCHANGED <<ci, run, dirs, old, faults, logVars>>

\* Another program is given, or gives back, the pid.
Foreign(p) ==
  /\ proc[p] # "ironrun" /\ p \in Reused
  /\ proc' = [proc EXCEPT ![p] = IF @ = "free" THEN "foreign" ELSE "free"]
  /\ UNCHANGED <<ci, run, dirs, old, faults, logVars>>

\* The process is killed; what becomes of the children of its runs is left out.
Crash(p) ==
  LET Lost == {r \in Runs : Active(r) /\ run[r].pid = p} IN
  /\ proc[p] = "ironrun" /\ Lost # {} /\ Fault
  /\ proc' = [proc EXCEPT ![p] = "free"]
  /\ run' = [r \in Runs |-> IF r \in Lost
                            THEN [Fresh EXCEPT !.pc = "crashed", !.pid = p] ELSE run[r]]
  /\ LockGoes(Lost)
  /\ UNCHANGED <<ci, dirs, old, lines, terminated, lastSeen>>

\* A day passes.
Age(r) ==
  /\ At(r, "crashed") /\ r \in dirs \ old
  /\ old' = old \cup {r}
  /\ UNCHANGED <<ci, proc, run, dirs, faults, logVars>>

-----------------------------------------------------------------------------
(* What the environment variables of a CI job tell.  system: whose job it  *)
(* is; event: what started it; origin: where the code under test is from;  *)
(* visible: both repositories are named; optIn: the operator's flag.       *)

CISystems == {"none", "github", "gitlab", "circle", "jenkins"}
CIJobs ==
  {j \in [system : CISystems, event : {"push", "pull_request", "pull_request_target"},
          origin : {"base", "fork"}, visible : BOOLEAN, optIn : BOOLEAN] :
     /\ j.event = "push" => j.origin = "base"
     /\ j.event = "pull_request_target" => j.system = "github"
     /\ j.system = "none" => j.event = "push"}

ASSUME CIAssumption == CIs \subseteq CIJobs

\* The head repository is named and is the base repository.
SameRepository(j) == j.visible /\ j.origin = "base"

\* CheckCITrust.  CircleCI sets its variables for a fork only, Jenkins cannot tell.
Trusted(j) ==
  \/ j.system = "none" \/ j.event = "push"
  \/ j.event = "pull_request_target" /\ j.optIn
  \/ j.event = "pull_request" /\ j.system \in {"github", "gitlab"} /\ SameRepository(j)
  \/ j.event = "pull_request" /\ j.system = "circle" /\ j.origin = "base"

-----------------------------------------------------------------------------
(* Around the child.                                                       *)

\* execution.Run starts with the CI check.
Begin(r, p) ==
  /\ At(r, "new") /\ proc[p] = "ironrun" /\ Trusted(ci)
  /\ Set(r, [run[r] EXCEPT !.pc = "resolve", !.pid = p])
  /\ UNCHANGED <<ci, proc, dirs, old, faults, logVars>>

\* The directory of the run, named after its process; stale ones are swept before.
NewFileWorkspace(r) == dirs' = (dirs \ Stale(run[r].pid)) \cup {r}

\* The secrets of the command; the first file secret creates the directory.
Resolve(r) ==
  /\ At(r, "resolve")
  /\ \/ Goto(r, "check") /\ UNCHANGED dirs
     \/ NewFileWorkspace(r) /\ Set(r, [run[r] EXCEPT !.pc = "check", !.files = TRUE])
  /\ UNCHANGED <<ci, proc, old, faults, logVars>>

\* The run is back at its caller; what its result does not tell is forgotten.
Ended(s, ret) == [Fresh EXCEPT !.pc = "done", !.pid = s.pid, !.child = s.child, !.kid = s.kid,
                               !.sink = s.sink, !.ret = ret]

\* Close at the end of Run, whatever the outcome; the error is dropped.
CloseFiles(r) == (dirs' = dirs \ {r} /\ UNCHANGED faults) \/ (r \in dirs /\ Fault /\ UNCHANGED dirs)

\* An untrusted CI job, or a workspace run whose environment has expired.
Reject(r, p) ==
  /\ At(r, "new") /\ proc[p] = "ironrun"
  /\ Set(r, [Fresh EXCEPT !.pc = "done", !.pid = p, !.ret = "error"])
  /\ UNCHANGED <<ci, proc, dirs, old, faults, logVars>>

\* An entry, a value or a file cannot be had; or the runner refuses the command: a
\* shell, no binary, no isolation, no shim.
Refuse(r) ==
  /\ run[r].pc \in {"resolve", "check"}
  /\ CloseFiles(r)
  /\ Set(r, Ended(run[r], "error"))
  /\ UNCHANGED <<ci, proc, old, logVars>>

StartChild(r) ==
  /\ At(r, "check")
  /\ \/ run[r].ctx = "live" /\ Set(r, [run[r] EXCEPT !.pc = "supervise", !.child = "running"])
     \/ Set(r, [run[r] EXCEPT !.pc = "sweep", !.err = "start"])
  /\ UNCHANGED <<ci, proc, dirs, old, faults, logVars>>

\* The deadline passes, or the caller gives up.
EndContext(r, reason) ==
  /\ r \notin Plain /\ run[r].pc \in Running \ {"resolve", "append"} /\ run[r].ctx = "live"
  /\ Set(r, [run[r] EXCEPT !.ctx = reason])
  /\ UNCHANGED <<ci, proc, dirs, old, faults, logVars>>

\* cancelOnErr: a write the consumer no longer takes cancels the run.
CancelOnErr(ctx) == IF ctx = "live" THEN "cancelled" ELSE ctx

\* The consumer stops reading, reads on, or is gone when the next write comes.
Consumer(r) ==
  /\ r \notin Plain /\ run[r].pc \in {"supervise", "flush"}
  /\ \/ run[r].sink = "ok" /\ Set(r, [run[r] EXCEPT !.sink = "stalled"])
     \/ run[r].sink = "stalled" /\ Set(r, [run[r] EXCEPT !.sink = "ok"])
     \/ /\ run[r].sink # "broken"
        /\ Set(r, [run[r] EXCEPT !.sink = "broken", !.ctx = CancelOnErr(@)])
  /\ UNCHANGED <<ci, proc, dirs, old, faults, logVars>>

\* The command forks, and what it forked may leave the group.
Fork(r) ==
  /\ r \notin Plain
  /\ \/ Alive(r) /\ run[r].kid = "none" /\ Set(r, [run[r] EXCEPT !.kid = "group"])
     \/ /\ run[r].kid = "group" /\ run[r].pc \in {"supervise", "sweep"}
        /\ Set(r, [run[r] EXCEPT !.kid = "session"])
  /\ UNCHANGED <<ci, proc, dirs, old, faults, logVars>>

ChildExits(r, code) ==
  /\ Alive(r) /\ run[r].sink = "ok"
  /\ Set(r, [run[r] EXCEPT !.child = code])
  /\ UNCHANGED <<ci, proc, dirs, old, faults, logVars>>

\* killProcessGroup reaches the child and what is still in its group.
GroupKilled(s) == [s EXCEPT !.child = IF @ = "running" THEN "killed" ELSE @,
                                !.kid = IF @ = "group" THEN "none" ELSE @]

\* exec.Cmd's Cancel: the context is done while the child is being waited for.
Kill(r) ==
  /\ At(r, "supervise") /\ Alive(r) /\ run[r].ctx # "live"
  /\ Set(r, GroupKilled(run[r]))
  /\ UNCHANGED <<ci, proc, dirs, old, faults, logVars>>

\* Mutant: no WaitDelay, Wait ends with the last holder of the output pipe.
WaitEndsAtEOF(r) ==
  /\ At(r, "supervise") /\ ~Alive(r) /\ run[r].sink # "stalled" /\ run[r].kid = "none"
  /\ Set(r, [run[r] EXCEPT !.pc = "sweep", !.err = IF run[r].child = "zero" THEN "none" ELSE "exit"])
  /\ UNCHANGED <<ci, proc, dirs, old, faults, logVars>>

\* exec.Cmd's Wait: the child is reaped, the pipes are drained or WaitDelay has passed.  An
\* output that is not being taken holds it up.
WaitEnds(r) ==
  /\ At(r, "supervise") /\ ~Alive(r) /\ run[r].sink # "stalled"
  /\ \E e \in {"none", "exit", "context", "waitdelay", "copy"} :
       /\ e = "exit" <=> run[r].child # "zero"
       /\ e = "context" => run[r].ctx # "live"
       /\ e = "waitdelay" => run[r].kid # "none"
       /\ e = "copy" => run[r].sink = "broken"
       /\ e = "none" => run[r].sink # "broken"
       /\ Set(r, [run[r] EXCEPT !.pc = "sweep", !.err = e])
  /\ UNCHANGED <<ci, proc, dirs, old, faults, logVars>>

\* Mutant: the group is killed only when the context is done.
SweepIfCancelled(r) ==
  /\ At(r, "sweep")
  /\ Set(r, [(IF run[r].ctx = "live" THEN run[r] ELSE GroupKilled(run[r])) EXCEPT !.pc = "flush"])
  /\ UNCHANGED <<ci, proc, dirs, old, faults, logVars>>

Sweep(r) ==
  /\ At(r, "sweep")
  /\ Set(r, [GroupKilled(run[r]) EXCEPT !.pc = "flush"])
  /\ UNCHANGED <<ci, proc, dirs, old, faults, logVars>>

\* Both redactors write what they held back.
Flush(r) ==
  /\ At(r, "flush") /\ run[r].sink # "stalled"
  /\ Goto(r, "cleanup")
  /\ UNCHANGED <<ci, proc, dirs, old, faults, logVars>>

\* A child that was killed reports the end of the context, a child that left a pipe open
\* its own status.
Outcome(s) ==
  IF s.err # "none" /\ s.ctx # "live" THEN s.ctx
  ELSE IF s.err \in {"start", "copy"} THEN "error"
  ELSE IF s.child = "zero" THEN "zero" ELSE "nonzero"

\* The file secrets go, and a removal that fails is not tried again; then what Wait
\* returned is made the outcome.
Cleanup(r) ==
  /\ At(r, "cleanup")
  /\ \/ /\ dirs' = dirs \ {r} /\ UNCHANGED faults
        /\ Set(r, [run[r] EXCEPT !.pc = "audit", !.files = FALSE, !.ret = Outcome(run[r]),
                                 !.cleanup = IF run[r].files THEN "removed" ELSE ""])
     \/ /\ run[r].files /\ Fault /\ UNCHANGED dirs
        /\ Set(r, [run[r] EXCEPT !.pc = "audit", !.files = FALSE, !.ret = Outcome(run[r]),
                                 !.cleanup = "failed"])
  /\ UNCHANGED <<ci, proc, old, logVars>>

\* Mutant: the kill reason from the result of Wait.
KillReasonOfWait(s) == IF s.err = "context" THEN s.ctx ELSE ""

KillReason(s) == IF s.ctx = "live" THEN "" ELSE s.ctx

\* exit_code: that of the command, and 0 for a run that was ended.
ExitCode(s) == IF s.ret = "nonzero" THEN "nonzero" ELSE "zero"

\* A flush or a removal that failed makes an error of a status, never of an error.
Result(s) ==
  IF (s.cleanup = "failed" \/ s.sink = "broken") /\ s.ret \in {"zero", "nonzero"} THEN "error" ELSE s.ret

Return(r) == Set(r, Ended(run[r], Result(run[r])))

\* Append begins.  A run whose child never started leaves no record, nor does one that finds
\* the last record unreadable: that is a warning.
Audit(r) ==
  /\ At(r, "audit")
  /\ \/ /\ run[r].ret # "error" /\ ReadLast(r)
        /\ Set(r, [run[r] EXCEPT !.pc = "append", !.kill = KillReason(run[r])])
     \/ run[r].ret # "error" /\ LastUnreadable /\ Return(r)
     \/ run[r].ret = "error" /\ Return(r) /\ UNCHANGED logVars
  /\ UNCHANGED <<ci, proc, dirs, old, faults>>

\* Append ends, and with it the run; an error of the write is a warning too.
AppendRecord(r) ==
  /\ At(r, "append") /\ Return(r)
  /\ \/ WriteRecord(r, run[r].kill, ExitCode(run[r]), run[r].cleanup) /\ UNCHANGED faults
     \/ WriteTorn(r, run[r].kill, ExitCode(run[r]), run[r].cleanup) /\ Fault
  /\ UNCHANGED <<ci, proc, dirs, old>>

-----------------------------------------------------------------------------
\* What the goroutines of a run do by themselves.
RunStep(r) ==
  \/ Resolve(r) \/ StartChild(r) \/ Kill(r) \/ WaitEnds(r) \/ Sweep(r) \/ Flush(r)
  \/ Cleanup(r) \/ Audit(r) \/ AppendRecord(r)

ExecNext ==
  \/ \E p \in Pids : StartProcess(p) \/ ExitProcess(p) \/ Foreign(p) \/ Crash(p)
  \/ \E r \in Runs :
       \/ \E p \in Pids : Begin(r, p) \/ Reject(r, p)
       \/ RunStep(r) \/ Refuse(r) \/ Fork(r) \/ Consumer(r) \/ Age(r)
       \/ \E reason \in {"timeout", "cancelled"} : EndContext(r, reason)
       \/ \E code \in {"zero", "nonzero"} : ChildExits(r, code)

\* A run that can take a step takes it: its goroutines are scheduled.
ExecSpec == ExecInit /\ [][ExecNext]_execVars /\ \A r \in Runs : WF_execVars(RunStep(r))

-----------------------------------------------------------------------------
(* Properties.                                                             *)

\* No sweep deletes the directory of a run in progress, whoever sweeps: the owner of a
\* directory is the process named in it, for as long as that pid exists (files.go:105).
LiveRunsKeepTheirFiles == \A r \in Runs : Active(r) /\ run[r].files => r \in dirs

\* A run that returns an exit status has delivered the output, left nothing in the process
\* group and no file secret, and the status is the one the command ended with (runner.go:317).
ResultsAreClean ==
  \A r \in Runs : At(r, "done") /\ run[r].ret \in {"zero", "nonzero"} =>
    /\ run[r].child = run[r].ret /\ run[r].sink # "broken"
    /\ run[r].kid # "group" /\ r \notin dirs

\* No secret is resolved and no command started for the code of a fork, but for a
\* pull_request_target job the operator opted in (runner.go:572).
ForksGetNoSecrets ==
  \A r \in Runs : run[r].pc \notin {"new", "done"} \/ run[r].child # "none" =>
    ci.origin = "base" \/ (ci.event = "pull_request_target" /\ ci.optIn)

\* While runs are in progress: each keeps its own files, and none serves a fork.
ExecInv == ExecTypeOK /\ LiveRunsKeepTheirFiles /\ ForksGetNoSecrets

\* No process of the group is reading a file secret when its run removes it (runner.go:323).
FilesOutliveReaders ==
  [][\A r \in Runs : Active(r) /\ r \in dirs \ dirs' => run[r].kid # "group" /\ ~Alive(r)]_execVars

\* What may be read off the audit record of a run.  A run that was ended says why; one whose
\* record gives no reason left the status its command ended with, also when the caller got
\* an error for it; a status other than 0 is the command's in any case; a directory said to
\* be removed is gone, a failed removal is not a success (runner.go:420).
RecordsTellTheOutcome ==
  \A i \in DOMAIN lines : LET s == run[lines[i].run] IN
    lines[i].whole /\ s.pc = "done" =>
      /\ s.ret \in {"timeout", "cancelled"} => lines[i].kill = s.ret
      /\ lines[i].kill = "" \/ lines[i].exit = "nonzero" => lines[i].exit = s.child
      /\ lines[i].cleanup = "removed" => lines[i].run \notin dirs
      /\ lines[i].cleanup = "failed" => s.ret \notin {"zero", "nonzero"}

\* The converse, that a record with a reason is that of a run which was ended, is not so:
\* Run looks at the context again after the flush and the removal, and a deadline that
\* passes there is recorded although the command has ended and its caller gets its status.
KillMeansEnded ==
  \A i \in DOMAIN lines : LET s == run[lines[i].run] IN
    lines[i].whole /\ s.pc = "done" /\ lines[i].kill # "" => s.ret = lines[i].kill

\* As long as no write was cut short the chain verifies, in whatever order concurrent runs of
\* several processes append (audit.go:138).
ChainHolds == (\A i \in DOMAIN lines : lines[i].whole) => Intact

\* The log holds "one append-only entry per run" (runner.go:82): no interleaving of the runs
\* of several processes, and no write that fails, leaves two.
OneRecordEach == \A i, j \in DOMAIN lines : lines[i].run = lines[j].run => i = j

\* What a caller and a later auditor are told: the result, what may be read off the record of
\* it, one for each run, and the order of the records.
OutcomesAreTrue == ResultsAreClean /\ RecordsTellTheOutcome /\ ChainHolds /\ OneRecordEach

\* A record once written stays what and where it is, whatever is appended, fails or crashes
\* after it; only one without its newline is spoiled by the next (audit.go:1 "append-only").
RecordsStay ==
  [][\A i \in DOMAIN lines :
       i \in DOMAIN lines' /\ (lines'[i] = lines[i] \/ (i = Len(lines) /\ ~terminated))]_execVars

\* What is still needed is not taken: a file secret by its run, a record by a later one.
NothingNeededGoes == FilesOutliveReaders /\ RecordsStay

\* A run whose context is done, or whose command has exited, comes back to its caller, even
\* if a process that left the group holds the output open; only a consumer that neither
\* reads nor goes can hold it up (runner.go:100).
RunsEnd ==
  \A r \in Runs :
    (Active(r) /\ (run[r].ctx # "live" \/ run[r].child \in {"zero", "nonzero"}))
      ~> (run[r].pc \in {"done", "crashed"} \/ run[r].sink = "stalled")

\* A remnant older than a day does not survive a sweep that works, even if its pid has been
\* given to another process: "PID reuse ... only delays cleanup to the age fallback"
\* (proc_unix.go:14).
AgeFallbackWorks ==
  [][\A p \in Pids : StartProcess(p) /\ faults' = faults => old \cap dirs' = {}]_execVars
===============================================================================
