------------------------------- MODULE AuditLog -------------------------------
(***************************************************************************)
(* The hash-chained audit log: one line per run, appended under an         *)
(* exclusive file lock.  A record's hash is taken to be the record itself  *)
(* (no collisions), and a run appends at most once, so the name of the run *)
(* stands for the hash of its record.                                      *)
(***************************************************************************)
EXTENDS Naturals, Sequences

CONSTANTS Runs, None

VARIABLES
  lines,       \* the file: [run, prev, kill, exit, cleanup, whole]
  terminated,  \* the last line ends with a newline
  appender,    \* the run that holds the file lock
  lastSeen     \* run -> what it read before it writes: the run whose hash it chains to

logVars == <<lines, terminated, appender, lastSeen>>

LogTypeOK ==
  /\ lines \in Seq([run : Runs, prev : Runs \cup {None}, kill : {"", "timeout", "cancelled"},
                    exit : {"zero", "nonzero"}, cleanup : {"", "removed", "failed"}, whole : BOOLEAN])
  /\ terminated \in BOOLEAN /\ appender \in Runs \cup {None}
  /\ lastSeen \in [Runs -> Runs \cup {None}]

LogInit == lines = <<>> /\ terminated = TRUE /\ appender = None
           /\ lastSeen = [r \in Runs |-> None]

\* Verify: every line parses, links to the one before and hashes to what it says.
Intact == \A i \in DOMAIN lines :
             lines[i].whole /\ lines[i].prev = (IF i = 1 THEN None ELSE lines[i - 1].run)

\* What lastHash needs.  It looks at the last 64 KiB only: records are taken to be shorter.
LastIsReadable == lines # <<>> => lines[Len(lines)].whole

LastHash == IF lines = <<>> THEN None ELSE lines[Len(lines)].run

\* Append, first half: the lock, then the hash of the last record.
ReadLast(r) ==
  /\ appender = None /\ LastIsReadable
  /\ appender' = r /\ lastSeen' = [lastSeen EXCEPT ![r] = LastHash]
  /\ UNCHANGED <<lines, terminated>>

\* The last record does not parse: nothing is appended.
LastUnreadable == appender = None /\ ~LastIsReadable /\ UNCHANGED logVars

\* A write begins where the file ends, be that in the middle of a line.
Written(record) ==
  IF terminated THEN Append(lines, record) ELSE [lines EXCEPT ![Len(lines)].whole = FALSE]

\* Append, second half.
WriteRecord(r, kill, exit, cleanup) ==
  /\ lines' = Written([run |-> r, prev |-> lastSeen[r], kill |-> kill, exit |-> exit,
                       cleanup |-> cleanup, whole |-> TRUE])
  /\ terminated' = TRUE /\ appender' = None /\ lastSeen' = [lastSeen EXCEPT ![r] = None]

\* The disk is full or the machine stops: nothing, part of the record, or all but the newline.
WriteTorn(r, kill, exit, cleanup) ==
  /\ \/ UNCHANGED <<lines, terminated>>
     \/ /\ \E whole \in BOOLEAN :
             lines' = Written([run |-> r, prev |-> lastSeen[r], kill |-> kill, exit |-> exit,
                               cleanup |-> cleanup, whole |-> whole])
        /\ terminated' = FALSE
  /\ appender' = None /\ lastSeen' = [lastSeen EXCEPT ![r] = None]

\* The lock goes with the process that holds it.
LockGoes(Dead) == appender' = (IF appender \in Dead THEN None ELSE appender)
===============================================================================
