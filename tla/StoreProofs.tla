------------------------------ MODULE StoreProofs ------------------------------
(***************************************************************************)
(* Theorems about LockedStore, for any number of calls and any times, and  *)
(* about LeakGuard, and with it Migration, for any number of aliases,      *)
(* sets, migrations, branches and remotes, and any mishaps.                 *)
(***************************************************************************)
EXTENDS LockedStore, LeakGuard, FiniteSetTheorems, TLAPS

-----------------------------------------------------------------------------
(* The lock.  Until it is spoiled, whoever is inside owns the directory,   *)
(* and the one call that is about to remove a directory as stale removes   *)
(* that of a call that has ended.                                          *)

\* The one inside has the directory.
Held == \A p \in Procs : pc[p] \in Critical => lock # Free /\ lock.owner = p

\* A stealing lock does not grow stale under a live owner, one call at most is about to remove it,
\* and its owner is not inside.
StaleIsDead ==
  /\ kind = "stealing" /\ lock # Free /\ pc[lock.owner] \in Critical => now <= lock.mtime + StaleAfter
  /\ \A p \in Procs : pc[p] = "steal" => lock # Free /\ pc[lock.owner] \notin Critical
  /\ \A p, q \in Procs : pc[p] = "steal" /\ pc[q] = "steal" => p = q

\* The copy of the one inside is the file, and a claim in it has passed its check.
Fresh ==
  \A p \in Procs :
    /\ pc[p] \in {"apply", "save"} => copy[p] = file
    /\ pc[p] = "save" /\ p \in Claimers => file \cap Claimers = {}

\* One claim at most is in the file.
OneClaim == \A p, q \in file \cap Claimers : p = q

Sound == Held /\ StaleIsDead /\ Fresh /\ NoLostUpdate /\ OneClaim

\* The outcome comes with the end of the transaction.
Outcomes ==
  \A p \in Procs :
    /\ pc[p] \in {"idle", "load", "apply", "save"} \cup Waiting => outcome[p] = "none"
    /\ pc[p] \in {"unlock", "done"} => outcome[p] # "none"

\* The calls that have come to their save.
Saved == {p \in Procs : outcome[p] \in {"ok", "failed"}}

\* The file and the copies hold changes of such calls only.
Written == file \subseteq Saved /\ \A p \in Procs : copy[p] \subseteq Saved

\* A kept lock is never removed as stale, and so never spoiled.
Kept == kind = "kept" => ~spoiled /\ \A p \in Procs : pc[p] # "steal"

Basics == TypeOK /\ Outcomes /\ Written /\ Kept

LockIInv == Basics /\ (~spoiled => Sound)

LEMMA LockStarts == Init => LockIInv
<1> SUFFICES ASSUME Init PROVE LockIInv
  OBVIOUS
<1>1. Basics
  BY LockAssumption DEF Init, Basics, TypeOK, PC, Waiting, Critical, Outcomes, Written, Kept
<1>2. Sound
  BY DEF Init, Sound, Held, StaleIsDead, Fresh, NoLostUpdate, OneClaim, Critical
<1>3. QED
  BY <1>1, <1>2 DEF LockIInv

\* A step from one point to another that touches neither lock nor file.
LEMMA Moves ==
  ASSUME LockIInv, NEW p \in Procs, NEW from \in PC, NEW to \in PC, Advance(p, from, to),
         UNCHANGED <<kind, now, lock, copy, file, outcome, mishaps, jammed, spoiled>>,
         deadline' \in [Procs -> Nat],
         to \notin {"idle", "steal"}, from \in Critical <=> to \in Critical,
         from \notin {"unlock", "done"}, to \notin {"unlock", "done"},
         to \in {"apply", "save"} => from = "apply" /\ to = "save" /\
           (p \in Claimers => copy[p] \cap Claimers = {})
  PROVE  LockIInv'
<1>1. pc \in [Procs -> PC] /\ pc' \in [Procs -> PC] /\ pc'[p] = to /\ pc[p] = from
      /\ \A q \in Procs : q # p => pc'[q] = pc[q]
  BY DEF Advance, LockIInv, Basics, TypeOK
<1>2. TypeOK'
  BY <1>1 DEF LockIInv, Basics, TypeOK
<1>3. Outcomes' /\ Written' /\ Kept'
  BY <1>1 DEF LockIInv, Basics, Outcomes, Written, Saved, Kept, PC, Waiting, Critical
<1>4. ASSUME ~spoiled PROVE Sound'
  <2>1. Sound
    BY <1>4 DEF LockIInv
  <2>2. Held' /\ Fresh'
    BY <1>1, <2>1 DEF Sound, Held, Fresh
  <2>3. StaleIsDead'
    BY <1>1, <2>1 DEF LockIInv, Basics, Sound, StaleIsDead, TypeOK
  <2>4. NoLostUpdate' /\ OneClaim'
    BY <2>1 DEF Sound, NoLostUpdate, OneClaim
  <2>5. QED
    BY <2>2, <2>3, <2>4 DEF Sound
<1>5. QED
  BY <1>2, <1>3, <1>4 DEF LockIInv, Basics

LEMMA AcquireStep == ASSUME LockIInv, NEW p \in Procs, Acquire(p) PROVE LockIInv'
<1>1. /\ pc \in [Procs -> PC] /\ pc' \in [Procs -> PC] /\ pc'[p] = "load" /\ pc[p] = "mkdir"
      /\ \A q \in Procs : q # p => pc'[q] = pc[q]
  BY DEF Acquire, Advance, LockIInv, Basics, TypeOK, PC, Critical
<1>2. /\ lock = Free /\ lock' = [owner |-> p, mtime |-> now]
      /\ deadline' \in [Procs -> Nat]
      /\ UNCHANGED <<kind, now, copy, file, outcome, mishaps, jammed, spoiled>>
  BY DEF Acquire, LockIInv, Basics, TypeOK
<1>3. lock' \in [owner : Procs, mtime : Nat] /\ lock' # Free /\ lock'.owner = p /\ lock'.mtime = now
  BY <1>2, LockAssumption DEF LockIInv, Basics, TypeOK
<1>4. TypeOK'
  BY <1>1, <1>2, <1>3 DEF LockIInv, Basics, TypeOK
<1>5. Outcomes' /\ Written' /\ Kept'
  BY <1>1, <1>2 DEF LockIInv, Basics, Outcomes, Written, Saved, Kept, Waiting
<1>6. ASSUME ~spoiled PROVE Sound'
  <2>1. Sound
    BY <1>6 DEF LockIInv
  <2>2. Held'
    BY <1>1, <1>2, <1>3, <2>1 DEF Sound, Held
  <2>3. StaleIsDead'
    <3>1. now <= now + StaleAfter
      BY LockAssumption DEF LockIInv, Basics, TypeOK
    <3>2. QED
      BY <1>1, <1>2, <1>3, <2>1, <3>1 DEF Sound, StaleIsDead, Critical
  <2>4. Fresh' /\ NoLostUpdate' /\ OneClaim'
    BY <1>1, <1>2, <2>1 DEF Sound, Fresh, NoLostUpdate, OneClaim
  <2>5. QED
    BY <2>2, <2>3, <2>4 DEF Sound
<1>7. QED
  BY <1>4, <1>5, <1>6, <1>2 DEF LockIInv, Basics

\* A call that finds the lock stale finds nobody inside, or the lock is spoiled.
LEMMA JudgeStep == ASSUME LockIInv, NEW p \in Procs, JudgeStale(p) PROVE LockIInv'
<1>1. /\ pc \in [Procs -> PC] /\ pc' \in [Procs -> PC] /\ pc'[p] = "steal" /\ pc[p] = "stat"
      /\ \A q \in Procs : q # p => pc'[q] = pc[q]
  BY DEF JudgeStale, Advance, LockIInv, Basics, TypeOK, PC, Waiting
<1>2. /\ kind = "stealing" /\ lock # Free /\ now > lock.mtime + StaleAfter
      /\ spoiled' = (spoiled \/ \E q \in Procs : pc[q] = "steal")
      /\ UNCHANGED <<kind, now, lock, deadline, copy, file, outcome, mishaps, jammed>>
  BY DEF JudgeStale, IsStale
<1>3. lock.owner \in Procs /\ lock.mtime \in Nat /\ now \in Nat /\ StaleAfter \in Nat
  BY <1>2, LockAssumption DEF LockIInv, Basics, TypeOK
<1>4. TypeOK'
  BY <1>1, <1>2 DEF LockIInv, Basics, TypeOK
<1>5. Outcomes' /\ Written' /\ Kept'
  BY <1>1, <1>2 DEF LockIInv, Basics, Outcomes, Written, Saved, Kept, Waiting
<1>6. ASSUME ~spoiled' PROVE Sound'
  <2>1. Sound /\ \A q \in Procs : pc[q] # "steal"
    BY <1>2, <1>6 DEF LockIInv
  <2>2. pc[lock.owner] \notin Critical
    BY <1>2, <1>3, <2>1 DEF Sound, StaleIsDead
  <2>3. StaleIsDead'
    BY <1>1, <1>2, <1>3, <2>1, <2>2 DEF StaleIsDead, Critical
  <2>4. Held' /\ Fresh' /\ NoLostUpdate' /\ OneClaim'
    BY <1>1, <1>2, <2>1 DEF Sound, Held, Fresh, NoLostUpdate, OneClaim, Critical
  <2>5. QED
    BY <2>3, <2>4 DEF Sound
<1>7. QED
  BY <1>4, <1>5, <1>6 DEF LockIInv, Basics

LEMMA StealStep == ASSUME LockIInv, NEW p \in Procs, Steal(p) PROVE LockIInv'
<1>1. /\ pc \in [Procs -> PC] /\ pc' \in [Procs -> PC] /\ pc'[p] = "mkdir" /\ pc[p] = "steal"
      /\ \A q \in Procs : q # p => pc'[q] = pc[q]
  BY DEF Steal, Advance, LockIInv, Basics, TypeOK, PC, Waiting
<1>2. /\ lock' = Free \/ lock' = lock
      /\ UNCHANGED <<kind, now, deadline, copy, file, outcome, mishaps, jammed, spoiled>>
  BY DEF Steal, RemoveLock
<1>3. TypeOK'
  BY <1>1, <1>2 DEF LockIInv, Basics, TypeOK
<1>4. Outcomes' /\ Written' /\ Kept'
  BY <1>1, <1>2 DEF LockIInv, Basics, Outcomes, Written, Saved, Kept, Waiting
<1>5. ASSUME ~spoiled PROVE Sound'
  <2>1. Sound
    BY <1>5 DEF LockIInv
  <2>2. /\ \A q \in Procs : pc'[q] # "steal"
        /\ \A q \in Procs : pc'[q] \notin Critical
    BY <1>1, <2>1 DEF Sound, Held, StaleIsDead, Critical
  <2>3. Held' /\ StaleIsDead'
    BY <1>2, <1>3, <2>2, LockAssumption DEF Held, StaleIsDead, TypeOK
  <2>4. Fresh' /\ NoLostUpdate' /\ OneClaim'
    BY <1>1, <1>2, <2>1 DEF Sound, Fresh, NoLostUpdate, OneClaim
  <2>5. QED
    BY <2>3, <2>4 DEF Sound
<1>6. QED
  BY <1>2, <1>3, <1>4, <1>5 DEF LockIInv, Basics

\* The steps of a call that waits.
LEMMA WaitingSteps ==
  ASSUME LockIInv, NEW p \in Procs,
         StartCall(p) \/ Acquire(p) \/ Blocked(p) \/ JudgeStale(p) \/ Steal(p) \/ Retry(p)
  PROVE  LockIInv'
<1>1. CASE StartCall(p)
  <2>1. deadline' \in [Procs -> Nat]
    BY <1>1, LockAssumption DEF StartCall, LockIInv, Basics, TypeOK
  <2>2. QED
    BY <1>1, <2>1, Moves DEF StartCall, PC, Waiting, Critical
<1>2. CASE Blocked(p)
  BY <1>2, Moves DEF Blocked, PC, Waiting, Critical, LockIInv, Basics, TypeOK
<1>3. CASE Retry(p)
  BY <1>3, Moves DEF Retry, PC, Waiting, Critical, LockIInv, Basics, TypeOK
<1>4. QED
  BY <1>1, <1>2, <1>3, AcquireStep, JudgeStep, StealStep

LEMMA LoadStep == ASSUME LockIInv, NEW p \in Procs, Load(p) PROVE LockIInv'
<1>1. /\ pc \in [Procs -> PC] /\ pc' \in [Procs -> PC] /\ pc'[p] = "apply" /\ pc[p] = "load"
      /\ \A q \in Procs : q # p => pc'[q] = pc[q]
  BY DEF Load, Advance, LockIInv, Basics, TypeOK, PC, Critical
<1>2. /\ copy' \in [Procs -> SUBSET Procs] /\ copy'[p] = file
      /\ \A q \in Procs : q # p => copy'[q] = copy[q]
      /\ UNCHANGED <<kind, now, lock, deadline, file, outcome, mishaps, jammed, spoiled>>
  BY DEF Load, LockIInv, Basics, TypeOK
<1>3. TypeOK'
  BY <1>1, <1>2 DEF LockIInv, Basics, TypeOK
<1>4. Outcomes' /\ Written' /\ Kept'
  BY <1>1, <1>2 DEF LockIInv, Basics, Outcomes, Written, Saved, Kept, Waiting
<1>5. ASSUME ~spoiled PROVE Sound'
  <2>1. Sound
    BY <1>5 DEF LockIInv
  <2>2. Held' /\ StaleIsDead'
    BY <1>1, <1>2, <2>1 DEF LockIInv, Basics, TypeOK, Sound, Held, StaleIsDead, Critical
  <2>3. Fresh' /\ NoLostUpdate' /\ OneClaim'
    BY <1>1, <1>2, <2>1 DEF Sound, Fresh, NoLostUpdate, OneClaim
  <2>4. QED
    BY <2>2, <2>3 DEF Sound
<1>6. QED
  BY <1>2, <1>3, <1>4, <1>5 DEF LockIInv, Basics

LEMMA ApplyStep == ASSUME LockIInv, NEW p \in Procs, Apply(p) PROVE LockIInv'
BY Moves DEF Apply, PC, Waiting, Critical, LockIInv, Basics, TypeOK

\* The call has come to something other than "ok", and has changed nothing.
LEMMA Failures ==
  ASSUME LockIInv, NEW p \in Procs, NEW from \in PC, NEW to \in {"unlock", "done"}, Advance(p, from, to),
         NEW o \in {"refused", "failed"}, outcome' = [outcome EXCEPT ![p] = o],
         UNCHANGED <<kind, now, lock, deadline, copy, file, mishaps, jammed, spoiled>>,
         outcome[p] = "none", from # "done", from \in Critical <=> to \in Critical
  PROVE  LockIInv'
<1>1. /\ pc \in [Procs -> PC] /\ pc' \in [Procs -> PC] /\ pc'[p] = to /\ pc[p] = from
      /\ \A q \in Procs : q # p => pc'[q] = pc[q]
  BY DEF Advance, LockIInv, Basics, TypeOK, PC, Critical
<1>2. /\ outcome' \in [Procs -> {"none", "ok", "refused", "failed"}] /\ outcome'[p] = o
      /\ \A q \in Procs : q # p => outcome'[q] = outcome[q]
  BY DEF LockIInv, Basics, TypeOK
<1>3. TypeOK'
  BY <1>1, <1>2 DEF LockIInv, Basics, TypeOK
<1>4. Outcomes' /\ Written' /\ Kept'
  <2>1. Saved \subseteq Saved'
    BY <1>2 DEF Saved
  <2>2. Written'
    BY <2>1 DEF LockIInv, Basics, Written
  <2>3. QED
    BY <1>1, <1>2, <2>2 DEF LockIInv, Basics, Outcomes, Kept, Waiting
<1>5. ASSUME ~spoiled PROVE Sound'
  <2>1. Sound
    BY <1>5 DEF LockIInv
  <2>2. Held' /\ StaleIsDead'
    BY <1>1, <2>1 DEF LockIInv, Basics, TypeOK, Sound, Held, StaleIsDead
  <2>3. Fresh' /\ NoLostUpdate' /\ OneClaim'
    BY <1>1, <1>2, <2>1 DEF Sound, Fresh, NoLostUpdate, OneClaim
  <2>4. QED
    BY <2>2, <2>3 DEF Sound
<1>6. QED
  BY <1>3, <1>4, <1>5 DEF LockIInv, Basics

LEMMA FailingSteps ==
  ASSUME LockIInv, NEW p \in Procs, AcquireFails(p) \/ TimeOut(p) \/ BodyFails(p) \/ Refuse(p)
  PROVE  LockIInv'
<1>1. CASE AcquireFails(p) \/ TimeOut(p)
  <2>1. outcome[p] = "none"
    BY <1>1 DEF AcquireFails, TimeOut, Advance, LockIInv, Basics, Outcomes, Waiting
  <2>2. QED
    BY <1>1, <2>1, Failures DEF AcquireFails, TimeOut, PC, Waiting, Critical
<1>2. CASE BodyFails(p) \/ Refuse(p)
  <2>1. outcome[p] = "none"
    BY <1>2 DEF BodyFails, Refuse, Advance, LockIInv, Basics, Outcomes, Waiting
  <2>2. QED
    BY <1>2, <2>1, Failures DEF BodyFails, Refuse, PC, Waiting, Critical
<1>3. QED
  BY <1>1, <1>2

\* Nobody else is inside when the file is replaced.
LEMMA SaveSteps ==
  ASSUME LockIInv, NEW p \in Procs, Save(p) \/ SaveFails(p)
  PROVE  LockIInv'
<1>1. /\ pc \in [Procs -> PC] /\ pc' \in [Procs -> PC] /\ pc'[p] = "unlock" /\ pc[p] = "save"
      /\ \A q \in Procs : q # p => pc'[q] = pc[q]
  BY DEF Save, SaveFails, Advance, LockIInv, Basics, TypeOK, PC, Critical
<1>2. PICK o \in {"ok", "failed"} :
        /\ outcome' = [outcome EXCEPT ![p] = o]
        /\ file' = copy[p] \cup {p} \/ (o = "failed" /\ file' = file)
        /\ UNCHANGED <<kind, now, lock, deadline, copy, mishaps, jammed, spoiled>>
  BY DEF Save, SaveFails
<1>3. /\ outcome' \in [Procs -> {"none", "ok", "refused", "failed"}] /\ outcome'[p] = o
      /\ \A q \in Procs : q # p => outcome'[q] = outcome[q]
  BY <1>2 DEF LockIInv, Basics, TypeOK
<1>4. TypeOK'
  BY <1>1, <1>2, <1>3 DEF LockIInv, Basics, TypeOK
<1>5. Outcomes' /\ Written' /\ Kept'
  <2>1. Saved \subseteq Saved' /\ p \in Saved'
    BY <1>3 DEF Saved
  <2>2. Written'
    BY <1>2, <2>1 DEF LockIInv, Basics, Written
  <2>3. QED
    BY <1>1, <1>2, <1>3, <2>2 DEF LockIInv, Basics, Outcomes, Kept, Waiting
<1>6. ASSUME ~spoiled PROVE Sound'
  <2>1. Sound
    BY <1>6 DEF LockIInv
  <2>2. /\ file' = file \cup {p} \/ (o = "failed" /\ file' = file)
        /\ p \in Claimers => file \cap Claimers = {}
    BY <1>1, <1>2, <2>1 DEF Sound, Fresh
  <2>3. \A q \in Procs : q # p => pc[q] \notin Critical
    BY <1>1, <2>1 DEF Sound, Held, Critical
  <2>4. Held' /\ StaleIsDead'
    BY <1>1, <1>2, <2>1 DEF LockIInv, Basics, TypeOK, Sound, Held, StaleIsDead, Critical
  <2>5. Fresh'
    BY <1>1, <2>3 DEF Fresh, Critical
  <2>6. NoLostUpdate' /\ OneClaim'
    BY <1>3, <2>1, <2>2 DEF Sound, NoLostUpdate, OneClaim
  <2>7. QED
    BY <2>4, <2>5, <2>6 DEF Sound
<1>7. QED
  BY <1>2, <1>4, <1>5, <1>6 DEF LockIInv, Basics

\* The copy of a call that ends is gone.
LEMMA Dropped ==
  ASSUME Basics, NEW p \in Procs, copy' = [copy EXCEPT ![p] = {}]
  PROVE  /\ copy' \in [Procs -> SUBSET Procs]
         /\ \A q \in Procs : q # p => copy'[q] = copy[q]
         /\ \A q \in Procs : copy'[q] \subseteq Saved
BY DEF Basics, TypeOK, Written

LEMMA UnlockStep == ASSUME LockIInv, NEW p \in Procs, Unlock(p) PROVE LockIInv'
<1>1. /\ pc \in [Procs -> PC] /\ pc' \in [Procs -> PC] /\ pc'[p] = "done" /\ pc[p] = "unlock"
      /\ \A q \in Procs : q # p => pc'[q] = pc[q]
  BY DEF Unlock, Advance, LockIInv, Basics, TypeOK, PC, Critical
<1>2. /\ lock' = Free \/ lock' = lock
      /\ UNCHANGED <<kind, now, deadline, file, outcome, mishaps, jammed, spoiled>>
  BY DEF Unlock, RemoveLock
<1>3. /\ copy' \in [Procs -> SUBSET Procs]
      /\ \A q \in Procs : q # p => copy'[q] = copy[q]
      /\ \A q \in Procs : copy'[q] \subseteq Saved
  BY Dropped DEF Unlock, LockIInv
<1>4. TypeOK'
  BY <1>1, <1>2, <1>3 DEF LockIInv, Basics, TypeOK
<1>5. Outcomes' /\ Written' /\ Kept'
  BY <1>1, <1>2, <1>3 DEF LockIInv, Basics, Outcomes, Written, Saved, Kept, Waiting
<1>6. ASSUME ~spoiled PROVE Sound'
  <2>1. Sound
    BY <1>6 DEF LockIInv
  <2>2. /\ \A q \in Procs : pc'[q] \notin Critical
        /\ \A q \in Procs : pc'[q] # "steal"
    BY <1>1, <2>1 DEF Sound, Held, StaleIsDead, Critical
  <2>3. Held' /\ StaleIsDead'
    BY <1>2, <1>4, <2>2, LockAssumption DEF Held, StaleIsDead, TypeOK
  <2>4. Fresh' /\ NoLostUpdate' /\ OneClaim'
    BY <1>1, <1>2, <1>3, <2>1 DEF Sound, Fresh, NoLostUpdate, OneClaim
  <2>5. QED
    BY <2>3, <2>4 DEF Sound
<1>7. QED
  BY <1>2, <1>4, <1>5, <1>6 DEF LockIInv, Basics

\* A dead process leaves its directory behind.
LEMMA CrashStep == ASSUME LockIInv, NEW p \in Procs, Crash(p) PROVE LockIInv'
<1>1. /\ pc \in [Procs -> PC] /\ pc' \in [Procs -> PC] /\ pc'[p] = "done"
      /\ \A q \in Procs : q # p => pc'[q] = pc[q]
  BY DEF Crash, LockIInv, Basics, TypeOK, PC
<1>2. /\ outcome' \in [Procs -> {"none", "ok", "refused", "failed"}] /\ outcome'[p] # "none"
      /\ outcome'[p] = "ok" => outcome[p] = "ok"
      /\ \A q \in Procs : q # p => outcome'[q] = outcome[q]
      /\ Saved \subseteq Saved'
      /\ UNCHANGED <<kind, now, lock, deadline, file, jammed, spoiled>> /\ mishaps' \in Nat
  BY DEF Crash, LockIInv, Basics, TypeOK, Saved
<1>3. /\ copy' \in [Procs -> SUBSET Procs]
      /\ \A q \in Procs : q # p => copy'[q] = copy[q]
      /\ \A q \in Procs : copy'[q] \subseteq Saved
  BY Dropped DEF Crash, LockIInv
<1>4. TypeOK'
  BY <1>1, <1>2, <1>3 DEF LockIInv, Basics, TypeOK
<1>5. Outcomes' /\ Kept'
  BY <1>1, <1>2 DEF LockIInv, Basics, Outcomes, Kept, Waiting
<1>6. Written'
  BY <1>2, <1>3 DEF LockIInv, Basics, Written
<1>7. ASSUME ~spoiled PROVE Sound'
  <2>1. Sound
    BY <1>7 DEF LockIInv
  <2>2. Held' /\ StaleIsDead'
    BY <1>1, <1>2, <2>1 DEF LockIInv, Basics, TypeOK, Sound, Held, StaleIsDead, Critical
  <2>3. Fresh' /\ NoLostUpdate' /\ OneClaim'
    BY <1>1, <1>2, <1>3, <2>1 DEF Sound, Fresh, NoLostUpdate, OneClaim
  <2>4. QED
    BY <2>2, <2>3 DEF Sound
<1>8. QED
  BY <1>2, <1>4, <1>5, <1>6, <1>7 DEF LockIInv, Basics

\* Time makes the lock stale under a live holder only by spoiling it.
LEMMA TickStep == ASSUME LockIInv, Tick PROVE LockIInv'
<1>1. /\ UNCHANGED <<kind, lock, pc, deadline, copy, file, outcome, mishaps, jammed>> /\ now' = now + 1
      /\ now \in Nat /\ spoiled' = (spoiled \/ Overstayed)
  BY DEF Tick, LockIInv, Basics, TypeOK
<1>2. Basics'
  <2>1. TypeOK'
    BY <1>1 DEF LockIInv, Basics, TypeOK
  <2>2. Kept'
    BY <1>1 DEF LockIInv, Basics, Kept, Overstayed
  <2>3. QED
    BY <1>1, <2>1, <2>2 DEF LockIInv, Basics, Outcomes, Written, Saved
<1>3. ASSUME ~spoiled' PROVE Sound'
  <2>1. Sound /\ ~Overstayed
    BY <1>1, <1>3 DEF LockIInv
  <2>2. StaleIsDead'
    <3>1. kind = "stealing" /\ lock # Free /\ pc[lock.owner] \in Critical => now + 1 <= lock.mtime + StaleAfter
      BY <1>1, <2>1, LockAssumption DEF Overstayed, LockIInv, Basics, TypeOK
    <3>2. QED
      BY <1>1, <2>1, <3>1 DEF Sound, StaleIsDead
  <2>3. QED
    BY <1>1, <2>1, <2>2 DEF Sound, Held, Fresh, NoLostUpdate, OneClaim
<1>4. QED
  BY <1>2, <1>3 DEF LockIInv

LEMMA LockContinues == LockIInv /\ [Next]_vars => LockIInv'
<1> SUFFICES ASSUME LockIInv, [Next]_vars PROVE LockIInv'
  OBVIOUS
<1>1. CASE Tick
  BY <1>1, TickStep
<1>2. CASE Jam
  BY <1>2 DEF Jam, LockIInv, Basics, TypeOK, Outcomes, Written, Saved, Kept, Sound, Held, StaleIsDead,
       Fresh, NoLostUpdate, OneClaim
<1>3. ASSUME NEW p \in Procs, StartCall(p) \/ Step(p) \/ Crash(p) PROVE LockIInv'
  BY <1>3, WaitingSteps, LoadStep, ApplyStep, FailingSteps, SaveSteps, UnlockStep, CrashStep DEF Step
<1>4. CASE UNCHANGED vars
  BY <1>4 DEF vars, LockIInv, Basics, TypeOK, Outcomes, Written, Saved, Kept, Sound, Held, StaleIsDead,
       Fresh, NoLostUpdate, OneClaim
<1>5. QED
  BY <1>1, <1>2, <1>3, <1>4 DEF Next

LEMMA ClaimsAreOne == Sound => OneClaimSucceeds
<1> DEFINE S == {p \in Claimers : outcome[p] = "ok"}
<1> SUFFICES ASSUME Sound PROVE Cardinality(S) <= 1
  BY DEF OneClaimSucceeds
<1>1. \A p, q \in S : p = q
  BY LockAssumption DEF Sound, NoLostUpdate, OneClaim
<1>2. CASE S = {}
  BY <1>2, FS_EmptySet
<1>3. CASE S # {}
  <2>1. PICK x : S = {x}
    BY <1>1, <1>3
  <2>2. QED
    BY <2>1, FS_Singleton
<1>4. QED
  BY <1>2, <1>3

\* withLock, WithLock and Update: until a live holder outlives the stale timeout or two calls judge
\* one directory stale, no two calls are inside together, no reported change is lost and one claim
\* of a request succeeds.  Update, which does not steal, promises it always.
THEOREM LocksHold == Spec => []LockInv
<1>1. LockIInv => LockInv
  <2> SUFFICES ASSUME LockIInv PROVE LockInv
    OBVIOUS
  <2>1. Sound => MutualExclusion /\ NoLostUpdate
    BY DEF Sound, Held, MutualExclusion
  <2>2. QED
    BY <2>1, ClaimsAreOne DEF LockIInv, Basics, Kept, LockInv
<1>2. LockIInv /\ [Next]_vars => LockIInv'
  BY LockContinues
<1>3. QED
  BY <1>1, <1>2, LockStarts, PTL DEF Spec

-----------------------------------------------------------------------------
(* The refinement.                                                         *)

\* A save puts the change of p on top of the file, or of an earlier state of it.
LEMMA SavesAdd ==
  ASSUME LockIInv, NEW p \in Procs, pc[p] = "save", file' = copy[p] \cup {p}
  PROVE  Abstract!Adds(p) \/ Abstract!Overwrites(p)
<1>1. CASE spoiled
  <2>1. copy[p] \in SUBSET Saved
    BY DEF LockIInv, Basics, Written
  <2>2. QED
    BY <1>1, <2>1 DEF Abstract!Overwrites, Saved
<1>2. CASE ~spoiled
  <2>1. copy[p] = file /\ (p \in Claimers => file \cap Claimers = {})
    BY <1>2 DEF LockIInv, Sound, Fresh
  <2>2. QED
    BY <2>1 DEF Abstract!Adds
<1>3. QED
  BY <1>1, <1>2

\* A step of the lock is the commit, the refusal or the failure of one call, the end of exclusion,
\* or none of them.
LEMMA Simulates ==
  ASSUME LockIInv, [Next]_vars
  PROVE  [Abstract!Next]_(Abstract!vars)
<1> USE DEF Abstract!vars
<1>1. ASSUME NEW p \in Procs, Save(p) PROVE Abstract!Commit(p)
  <2>1. outcome[p] = "none" /\ pc[p] = "save"
    BY <1>1 DEF Save, Advance, LockIInv, Basics, Outcomes
  <2>2. Abstract!Adds(p) \/ Abstract!Overwrites(p)
    BY <1>1, <2>1, SavesAdd DEF Save
  <2>3. QED
    BY <1>1, <2>1, <2>2 DEF Save, Abstract!Commit, Abstract!Ends
<1>2. ASSUME NEW p \in Procs, SaveFails(p) PROVE Abstract!Fail(p)
  <2>1. outcome[p] = "none" /\ pc[p] = "save"
    BY <1>2 DEF SaveFails, Advance, LockIInv, Basics, Outcomes
  <2>2. UNCHANGED file \/ Abstract!Adds(p) \/ Abstract!Overwrites(p)
    BY <1>2, <2>1, SavesAdd DEF SaveFails
  <2>3. QED
    BY <1>2, <2>1, <2>2 DEF SaveFails, Abstract!Fail, Abstract!Ends
<1>3. ASSUME NEW p \in Procs, Refuse(p) PROVE Abstract!Refuse(p)
  <2>1. outcome[p] = "none" /\ (spoiled \/ copy[p] = file)
    BY <1>3 DEF Refuse, Advance, LockIInv, Basics, Outcomes, Sound, Fresh
  <2>2. QED
    BY <1>3, <2>1 DEF Refuse, Abstract!Refuse, Abstract!Ends
<1>4. ASSUME NEW p \in Procs, AcquireFails(p) \/ TimeOut(p) \/ BodyFails(p)
      PROVE  Abstract!Fail(p)
  <2>1. outcome[p] = "none"
    BY <1>4 DEF AcquireFails, TimeOut, BodyFails, Advance, LockIInv, Basics, Outcomes, Waiting
  <2>2. QED
    BY <1>4, <2>1 DEF AcquireFails, TimeOut, BodyFails, Abstract!Fail, Abstract!Ends
<1>5. ASSUME NEW p \in Procs, Crash(p) PROVE Abstract!Fail(p) \/ UNCHANGED <<file, outcome, spoiled>>
  BY <1>5 DEF Crash, Abstract!Fail, Abstract!Ends
<1>6. ASSUME NEW p \in Procs,
             \/ StartCall(p) \/ Acquire(p) \/ Blocked(p) \/ Steal(p) \/ Retry(p)
             \/ Load(p) \/ Apply(p) \/ Unlock(p)
      PROVE  UNCHANGED <<file, outcome, spoiled>>
  BY <1>6 DEF StartCall, Acquire, Blocked, Steal, Retry, Load, Apply, Unlock
<1>7. ASSUME (\E p \in Procs : JudgeStale(p)) \/ Tick
      PROVE  Abstract!Break \/ UNCHANGED <<file, outcome, spoiled>>
  <2>1. spoiled' \in {spoiled, TRUE} /\ UNCHANGED <<file, outcome>>
    BY <1>7 DEF JudgeStale, Tick, LockIInv, Basics, TypeOK
  <2>2. QED
    BY <2>1 DEF Abstract!Break
<1>8. CASE Jam \/ UNCHANGED vars
  BY <1>8 DEF Jam, vars
<1>9. QED
  BY <1>1, <1>2, <1>3, <1>4, <1>5, <1>6, <1>7, <1>8 DEF Next, Step, Abstract!Next

\* The locked read-modify-write takes effect in one step, or not at all, until the lock is spoiled;
\* from then on it may put an older file back, and still invents nothing.
THEOREM StoreIsAtomic == Spec => ImplementsAtomicStore
<1>1. Init => Abstract!Init
  BY DEF Init, Abstract!Init
<1>2. LockIInv /\ [Next]_vars => LockIInv'
  BY LockContinues
<1>3. LockIInv /\ [Next]_vars => [Abstract!Next]_(Abstract!vars)
  BY Simulates
<1>4. QED
  BY <1>1, <1>2, <1>3, LockStarts, PTL DEF Spec, ImplementsAtomicStore, Abstract!Spec

-----------------------------------------------------------------------------
(* The migration.                                                          *)

Manifest == [environment : Envs, status : Statuses]

Points ==
  {"idle", "prepare", "copy", "verify", "restore", "undo", "failed", "remove", "erase"}

Command ==
  [op : {"none", "apply", "rollback", "cleanup"}, pc : Points,
   id : Nat, todo : SUBSET Aliases, added : SUBSET Aliases, before : SUBSET Aliases,
   odd : SUBSET Aliases]

MigTypes ==
  /\ policy \in {"v1", "v2"} /\ attached \in BOOLEAN /\ stranded \in BOOLEAN
  /\ old \in SUBSET Aliases /\ env \in [Envs -> SUBSET Aliases] /\ active \in Envs
  /\ manifests \in Seq(Manifest)
  /\ cmd \in Command
  /\ cmd.op # "none" => cmd.id \in 1 .. Len(manifests)
  /\ expired \in SUBSET Envs /\ edited \in SUBSET Aliases /\ cleaned \in SUBSET Aliases

\* While Apply runs: what the target holds is what it held, what has been copied and what
\* could not be taken back; version 1 is in force until everything is copied, and again, or
\* for ever lost, when copies are taken back.
ApplyInv ==
  cmd.op = "apply" =>
    /\ cmd.pc \in {"prepare", "copy", "verify", "restore", "undo", "failed"}
    /\ cmd.pc \in {"prepare", "copy"} =>
         policy = "v1" /\ cmd.odd = {} /\ Aliases \subseteq env[Target] \cup cmd.todo \cup edited
    /\ cmd.pc \in {"undo", "failed"} => policy = "v1" \/ stranded
    /\ cmd.pc = "failed" => cmd.added = {}
    /\ cmd.before \subseteq env[Target] \cup edited
    /\ env[Target] \subseteq cmd.before \cup cmd.added \cup cmd.odd \cup edited
    /\ cmd.before \cap (cmd.todo \cup cmd.added) = {}

\* Copies leave under version 1, aliases under version 2.
UndoInv ==
  /\ cmd.op = "none" => cmd.pc = "idle" /\ cmd.id = 0
  /\ cmd.op = "rollback" => cmd.pc = "restore" \/ (cmd.pc = "remove" /\ policy = "v1")
  /\ cmd.op = "cleanup" => cmd.pc = "erase" /\ policy = "v2"

\* Once Apply has begun, a value that commands copy or delete has its alias still, unless a
\* cleanup or the human has deleted that; no cleanup does while Apply runs.
LegacyInv ==
  /\ cmd.todo \cup cmd.added \subseteq Mapped
  /\ manifests # <<>> => Mapped \subseteq old \cup cleaned \cup edited
  /\ cmd.op = "apply" => cleaned = {}

\* The inductive strengthening of NewPolicyFindsItsValues.
MigrationInv == MigTypes /\ NewPolicyFindsItsValues /\ ApplyInv /\ UndoInv

USE DEF users

LEMMA TargetType ==
  ASSUME MigTypes, cmd.op # "none"
  PROVE  Target \in Envs
<1>1. manifests \in Seq(Manifest) /\ cmd.id \in 1 .. Len(manifests)
  BY DEF MigTypes
<1>2. manifests[cmd.id] \in Manifest
  BY <1>1
<1>3. QED
  BY <1>2 DEF Manifest, Target

\* A status that is written changes no environment.
LEMMA StatusStep ==
  ASSUME MigTypes, NEW s \in Statuses, cmd.op # "none", Status(s)
  PROVE  /\ manifests' \in Seq(Manifest) /\ Len(manifests') = Len(manifests)
         /\ manifests'[cmd.id].environment = Target
<1>1. manifests \in Seq(Manifest) /\ cmd.id \in 1 .. Len(manifests)
  BY DEF MigTypes
<1>2. manifests[cmd.id] \in Manifest
  BY <1>1
<1>3. [manifests[cmd.id] EXCEPT !.status = s] \in Manifest
  BY <1>2 DEF Manifest
<1>4. manifests' = [manifests EXCEPT ![cmd.id] = [manifests[cmd.id] EXCEPT !.status = s]]
  BY DEF Status
<1>5. manifests' \in Seq(Manifest) /\ Len(manifests') = Len(manifests)
  BY <1>1, <1>3, <1>4
<1>6. manifests'[cmd.id] = [manifests[cmd.id] EXCEPT !.status = s]
  BY <1>1, <1>4
<1>7. [manifests[cmd.id] EXCEPT !.status = s].environment = manifests[cmd.id].environment
  BY <1>2 DEF Manifest
<1>8. QED
  BY <1>5, <1>6, <1>7 DEF Target

\* So does a save that is cut short.
LEMMA InterruptedStep ==
  ASSUME MigTypes, cmd.op # "none", SaveInterrupted
  PROVE  /\ manifests' \in Seq(Manifest) /\ Len(manifests') = Len(manifests)
         /\ manifests'[cmd.id].environment = Target
<1>1. CASE UNCHANGED manifests
  BY <1>1 DEF MigTypes, Target
<1>2. ASSUME NEW s \in {Final, "torn"}, Status(s)
      PROVE  /\ manifests' \in Seq(Manifest) /\ Len(manifests') = Len(manifests)
             /\ manifests'[cmd.id].environment = Target
  BY <1>2, StatusStep DEF MigTypes, Command, Final, Statuses
<1>3. QED
  BY <1>1, <1>2 DEF SaveInterrupted

LEMMA IdleType ==
  NoCommand \in Command /\ NoCommand.op = "none" /\ NoCommand.pc = "idle" /\ NoCommand.id = 0
BY DEF NoCommand, Command, Points

\* The end of a command that leaves the stores alone.
LEMMA EndStep ==
  ASSUME MigrationInv, cmd' = NoCommand, manifests' \in Seq(Manifest),
         UNCHANGED <<policy, attached, old, env, active, stranded, expired, edited, cleaned>>
  PROVE  MigrationInv'
BY IdleType DEF MigrationInv, MigTypes, NewPolicyFindsItsValues, ApplyInv, UndoInv

\* The steps of Apply before and after the loops.
LEMMA StartApplyStep == MigrationInv /\ StartApply => MigrationInv'
<1> SUFFICES ASSUME MigrationInv, StartApply PROVE MigrationInv'
  OBVIOUS
<1> DEFINE e == IF attached THEN active ELSE Dev
           m == [environment |-> e, status |-> "torn"]
           n == Len(manifests) + 1
<1>1. /\ MigTypes /\ cmd = NoCommand /\ policy = "v1"
      /\ IF attached THEN Aliases \subseteq env[e] ELSE env[e] \cap Aliases = {}
      /\ manifests' = Append(manifests, m)
      /\ cmd' = [NoCommand EXCEPT !.op = "apply", !.pc = "prepare", !.id = n,
                                  !.todo = Mapped, !.before = env[e]]
      /\ edited' = {} /\ cleaned' = {}
      /\ UNCHANGED <<policy, attached, old, env, active, stranded, expired>>
  BY DEF MigrationInv, StartApply
<1>2. e \in Envs /\ env[e] \in SUBSET Aliases
  BY <1>1, MigrationAssumption DEF MigTypes
<1>3. m \in Manifest
  BY <1>2 DEF Manifest, Statuses
<1>4. manifests' \in Seq(Manifest) /\ Len(manifests') = n /\ manifests'[n] = m /\ n \in Nat
  BY <1>1, <1>3 DEF MigTypes
<1>5. /\ cmd'.op = "apply" /\ cmd'.pc = "prepare" /\ cmd'.id = n /\ cmd'.todo = Mapped
      /\ cmd'.before = env[e] /\ cmd'.added = {} /\ cmd'.odd = {}
  BY <1>1 DEF NoCommand
<1>6. cmd' \in Command
  BY <1>1, <1>2, <1>4 DEF NoCommand, Command, Points, Mapped
<1>7. Target' = e
  BY <1>4, <1>5 DEF Target
<1>8. MigTypes'
  BY <1>1, <1>4, <1>5, <1>6 DEF MigTypes
<1>9. ApplyInv'
  BY <1>1, <1>2, <1>5, <1>7 DEF ApplyInv, Mapped
<1>10. QED
  BY <1>1, <1>5, <1>8, <1>9 DEF MigrationInv, NewPolicyFindsItsValues, UndoInv

LEMMA GotoStep ==
  ASSUME MigTypes, NEW point \in Points, Goto(point)
  PROVE  /\ cmd' \in Command /\ cmd'.pc = point
         /\ cmd'.op = cmd.op /\ cmd'.id = cmd.id /\ cmd'.todo = cmd.todo
         /\ cmd'.added = cmd.added /\ cmd'.before = cmd.before /\ cmd'.odd = cmd.odd
BY DEF MigTypes, Command, Goto

\* The steps of Apply that leave the stores alone.
LEMMA ApplyGoesOn ==
  MigrationInv /\ (Prepare \/ SwitchPolicy \/ SwitchFails \/ FinishApplyFails \/ Restore \/ ApplyFailed)
    => MigrationInv'
<1> USE DEF MigrationInv, At, Points
<1>1. ASSUME MigrationInv, Prepare PROVE MigrationInv'
  <2>1. cmd.op = "apply" /\ cmd.pc = "prepare"
    BY <1>1 DEF Prepare
  <2>2. /\ manifests' \in Seq(Manifest) /\ Len(manifests') = Len(manifests)
        /\ manifests'[cmd.id].environment = Target
    BY <1>1, <2>1, StatusStep DEF Prepare, Statuses
  <2>3. /\ cmd' \in Command /\ cmd'.pc = "copy"
        /\ cmd'.op = cmd.op /\ cmd'.id = cmd.id /\ cmd'.todo = cmd.todo
        /\ cmd'.added = cmd.added /\ cmd'.before = cmd.before /\ cmd'.odd = cmd.odd
    BY <1>1, GotoStep DEF Prepare
  <2>4. UNCHANGED <<policy, attached, old, env, active, stranded, expired, edited, cleaned>> /\ Target' = Target
    BY <1>1, <2>2, <2>3 DEF Prepare, Target
  <2>5. MigTypes' /\ NewPolicyFindsItsValues' /\ UndoInv'
    BY <1>1, <2>1, <2>2, <2>3, <2>4 DEF MigTypes, NewPolicyFindsItsValues, UndoInv
  <2>6. ApplyInv'
    BY <1>1, <2>1, <2>3, <2>4 DEF ApplyInv
  <2>7. QED
    BY <2>5, <2>6
<1>2. ASSUME MigrationInv, SwitchPolicy PROVE MigrationInv'
  <2>1. cmd.op = "apply" /\ cmd.pc = "copy" /\ cmd.todo = {} /\ policy' = "v2"
    BY <1>2 DEF SwitchPolicy
  <2>2. /\ cmd' \in Command /\ cmd'.pc = "verify"
        /\ cmd'.op = cmd.op /\ cmd'.id = cmd.id /\ cmd'.todo = cmd.todo
        /\ cmd'.added = cmd.added /\ cmd'.before = cmd.before /\ cmd'.odd = cmd.odd
    BY <1>2, GotoStep DEF SwitchPolicy
  <2>3. UNCHANGED <<attached, old, env, active, manifests, stranded, expired, edited, cleaned>> /\ Target' = Target
    BY <1>2, <2>2 DEF SwitchPolicy, Target
  <2>4. Target \in Envs
    BY <1>2, <2>1, TargetType
  <2>5. NewPolicyFindsItsValues'
    BY <1>2, <2>1, <2>3, <2>4 DEF ApplyInv, NewPolicyFindsItsValues
  <2>6. QED
    BY <1>2, <2>1, <2>2, <2>3, <2>5 DEF MigTypes, ApplyInv, UndoInv
<1>3. ASSUME MigrationInv, SwitchFails PROVE MigrationInv'
  <2>1. cmd.op = "apply" /\ cmd.pc = "copy"
    BY <1>3 DEF SwitchFails
  <2>2. /\ cmd' \in Command /\ cmd'.pc = "undo"
        /\ cmd'.op = cmd.op /\ cmd'.id = cmd.id /\ cmd'.todo = cmd.todo
        /\ cmd'.added = cmd.added /\ cmd'.before = cmd.before /\ cmd'.odd = cmd.odd
    BY <1>3, GotoStep DEF SwitchFails
  <2>3. UNCHANGED <<policy, attached, old, env, active, manifests, stranded, expired, edited, cleaned>> /\ Target' = Target
    BY <1>3, <2>2 DEF SwitchFails, Target
  <2>4. QED
    BY <1>3, <2>1, <2>2, <2>3 DEF MigTypes, NewPolicyFindsItsValues, ApplyInv, UndoInv
<1>4. ASSUME MigrationInv, FinishApplyFails PROVE MigrationInv'
  <2>1. cmd.op = "apply" /\ cmd.pc = "verify"
    BY <1>4 DEF FinishApplyFails
  <2>2. /\ manifests' \in Seq(Manifest) /\ Len(manifests') = Len(manifests)
        /\ manifests'[cmd.id].environment = Target
    BY <1>4, <2>1, InterruptedStep DEF FinishApplyFails
  <2>3. /\ cmd' \in Command /\ cmd'.pc = "restore"
        /\ cmd'.op = cmd.op /\ cmd'.id = cmd.id /\ cmd'.todo = cmd.todo
        /\ cmd'.added = cmd.added /\ cmd'.before = cmd.before /\ cmd'.odd = cmd.odd
    BY <1>4, GotoStep DEF FinishApplyFails
  <2>4. UNCHANGED <<policy, attached, old, env, active, stranded, expired, edited, cleaned>> /\ Target' = Target
    BY <1>4, <2>2, <2>3 DEF FinishApplyFails, Target
  <2>5. QED
    BY <1>4, <2>1, <2>2, <2>3, <2>4 DEF MigTypes, NewPolicyFindsItsValues, ApplyInv, UndoInv
<1>5. ASSUME MigrationInv, Restore PROVE MigrationInv'
  <2>1. cmd.op = "apply" /\ cmd.pc = "restore"
    BY <1>5 DEF Restore
  <2>2. /\ cmd' \in Command /\ cmd'.pc = "undo"
        /\ cmd'.op = cmd.op /\ cmd'.id = cmd.id /\ cmd'.todo = cmd.todo
        /\ cmd'.added = cmd.added /\ cmd'.before = cmd.before /\ cmd'.odd = cmd.odd
    BY <1>5, GotoStep DEF Restore
  <2>3. UNCHANGED <<attached, old, env, active, manifests, expired, edited, cleaned>> /\ Target' = Target
    BY <1>5, <2>2 DEF Restore, Target
  <2>4. (policy' = "v1" /\ stranded' = stranded) \/ (policy' = policy /\ stranded' = TRUE)
    BY <1>5 DEF Restore
  <2>5. QED
    BY <1>5, <2>1, <2>2, <2>3, <2>4 DEF MigTypes, NewPolicyFindsItsValues, ApplyInv, UndoInv
<1>6. ASSUME MigrationInv, ApplyFailed PROVE MigrationInv'
  <2>1. cmd.op = "apply" /\ cmd.pc = "undo" /\ cmd.added = {}
    BY <1>6 DEF ApplyFailed
  <2>2. /\ cmd' \in Command /\ cmd'.pc = "failed"
        /\ cmd'.op = cmd.op /\ cmd'.id = cmd.id /\ cmd'.todo = cmd.todo
        /\ cmd'.added = cmd.added /\ cmd'.before = cmd.before /\ cmd'.odd = cmd.odd
    BY <1>6, GotoStep DEF ApplyFailed
  <2>3. UNCHANGED <<policy, attached, old, env, active, manifests, stranded, expired, edited, cleaned>> /\ Target' = Target
    BY <1>6, <2>2 DEF ApplyFailed, Target
  <2>4. QED
    BY <1>6, <2>1, <2>2, <2>3 DEF MigTypes, NewPolicyFindsItsValues, ApplyInv, UndoInv
<1>7. QED
  BY <1>1, <1>2, <1>3, <1>4, <1>5, <1>6

\* The loop of Apply, and the one that takes back what it did.
LEMMA CopyStep == ASSUME NEW a \in Aliases PROVE MigrationInv /\ Copy(a) => MigrationInv'
<1> SUFFICES ASSUME MigrationInv, Copy(a) PROVE MigrationInv'
  OBVIOUS
<1>1. MigTypes /\ cmd.op = "apply" /\ cmd.pc = "copy" /\ a \in cmd.todo
  BY DEF MigrationInv, Copy, At
<1>2. /\ cmd' \in Command /\ cmd'.pc = cmd.pc
      /\ cmd'.op = cmd.op /\ cmd'.id = cmd.id /\ cmd'.before = cmd.before /\ cmd'.odd = cmd.odd
      /\ cmd'.todo = cmd.todo \ {a} /\ cmd'.added = cmd.added \cup {a}
  BY <1>1 DEF MigTypes, Command, Copy
<1>3. Target \in Envs /\ env \in [Envs -> SUBSET Aliases]
  BY <1>1, TargetType DEF MigTypes
<1>4. /\ UNCHANGED <<policy, attached, old, active, manifests, stranded, expired, edited, cleaned>> /\ Target' = Target
      /\ env' = [env EXCEPT ![Target] = env[Target] \cup {a}]
  BY <1>2 DEF Copy, Target
<1>5. /\ env' \in [Envs -> SUBSET Aliases] /\ env'[Target] = env[Target] \cup {a}
      /\ \A e \in Envs : env[e] \subseteq env'[e]
  BY <1>3, <1>4
<1>6. MigTypes' /\ NewPolicyFindsItsValues'
  BY <1>1, <1>2, <1>4, <1>5 DEF MigTypes, MigrationInv, NewPolicyFindsItsValues
<1>7. ApplyInv' /\ UndoInv'
  BY <1>1, <1>2, <1>4, <1>5 DEF MigrationInv, ApplyInv, UndoInv
<1>8. QED
  BY <1>6, <1>7 DEF MigrationInv

LEMMA CopyFailsStep == ASSUME NEW a \in Aliases PROVE MigrationInv /\ CopyFails(a) => MigrationInv'
<1> SUFFICES ASSUME MigrationInv, CopyFails(a) PROVE MigrationInv'
  OBVIOUS
<1>1. MigTypes /\ cmd.op = "apply" /\ cmd.pc = "copy" /\ a \in cmd.todo
  BY DEF MigrationInv, CopyFails, At
<1>2. UNCHANGED <<policy, attached, old, active, manifests, stranded, expired, edited, cleaned>>
  BY DEF CopyFails
<1>3. Target \in Envs /\ env \in [Envs -> SUBSET Aliases]
  BY <1>1, TargetType DEF MigTypes
<1>4. /\ cmd' \in Command /\ cmd'.pc = "undo"
      /\ cmd'.op = cmd.op /\ cmd'.id = cmd.id /\ cmd'.before = cmd.before
      /\ cmd'.todo = cmd.todo /\ cmd'.added = cmd.added
      /\ env' \in [Envs -> SUBSET Aliases] /\ \A e \in Envs : env[e] \subseteq env'[e]
      /\ \/ env' = env /\ cmd'.odd = cmd.odd
         \/ env'[Target] = env[Target] \cup {a} /\ cmd'.odd = {a}
  <2>1. CASE UNCHANGED env /\ Goto("undo")
    BY <1>1, <1>3, <2>1, GotoStep DEF Points
  <2>2. CASE /\ env' = [env EXCEPT ![Target] = @ \cup {a}]
             /\ cmd' = [cmd EXCEPT !.pc = "undo", !.odd = {a}]
    BY <1>1, <1>3, <2>2 DEF MigTypes, Command, Points
  <2>3. QED
    BY <2>1, <2>2 DEF CopyFails
<1>5. Target' = Target
  BY <1>2, <1>4 DEF Target
<1>6. MigTypes' /\ NewPolicyFindsItsValues' /\ UndoInv'
  BY <1>1, <1>2, <1>4 DEF MigTypes, MigrationInv, NewPolicyFindsItsValues, UndoInv
<1>7. ApplyInv'
  BY <1>1, <1>2, <1>4, <1>5 DEF MigrationInv, ApplyInv
<1>8. QED
  BY <1>6, <1>7 DEF MigrationInv

LEMMA UndoStep == ASSUME NEW a \in Aliases PROVE MigrationInv /\ Undo(a) => MigrationInv'
<1> SUFFICES ASSUME MigrationInv, Undo(a) PROVE MigrationInv'
  OBVIOUS
<1>1. MigTypes /\ cmd.op = "apply" /\ cmd.pc = "undo" /\ a \in cmd.added
  BY DEF MigrationInv, Undo, At
<1>2. UNCHANGED <<policy, attached, old, active, manifests, stranded, expired, edited, cleaned>>
  BY DEF Undo
<1>3. Target \in Envs /\ env \in [Envs -> SUBSET Aliases]
  BY <1>1, TargetType DEF MigTypes
<1>4. /\ cmd' \in Command /\ cmd'.pc = cmd.pc
      /\ cmd'.op = cmd.op /\ cmd'.id = cmd.id /\ cmd'.before = cmd.before
      /\ cmd'.todo = cmd.todo /\ cmd'.added = cmd.added \ {a}
      /\ env' \in [Envs -> SUBSET Aliases]
      /\ \/ env'[Target] = env[Target] \ {a} /\ cmd'.odd = cmd.odd
         \/ env' = env /\ cmd'.odd = cmd.odd \cup {a}
  <2>1. CASE /\ env' = [env EXCEPT ![Target] = @ \ {a}]
             /\ cmd' = [cmd EXCEPT !.added = @ \ {a}]
    BY <1>1, <1>3, <2>1 DEF MigTypes, Command
  <2>2. CASE UNCHANGED env /\ cmd' = [cmd EXCEPT !.added = @ \ {a}, !.odd = @ \cup {a}]
    BY <1>1, <1>3, <2>2 DEF MigTypes, Command
  <2>3. QED
    BY <2>1, <2>2 DEF Undo
<1>5. Target' = Target
  BY <1>2, <1>4 DEF Target
<1>6. MigTypes' /\ UndoInv'
  BY <1>1, <1>2, <1>4 DEF MigTypes, MigrationInv, UndoInv
<1>7. NewPolicyFindsItsValues'
  BY <1>1, <1>2 DEF MigrationInv, NewPolicyFindsItsValues, ApplyInv
<1>8. ApplyInv'
  BY <1>1, <1>2, <1>4, <1>5 DEF MigrationInv, ApplyInv
<1>9. QED
  BY <1>6, <1>7, <1>8 DEF MigrationInv

\* The commands that end: with the manifest as it was, or with a status of theirs.
LEMMA CommandEnds ==
  MigrationInv /\ (PrepareFails \/ FinishApply \/ FinishRollback \/ FinishCleanup \/ CommandFails \/ MigCrash \/ Leave)
    => MigrationInv'
<1> USE DEF MigrationInv, At
<1>1. ASSUME MigrationInv, PrepareFails PROVE MigrationInv'
  <2>1. manifests' \in Seq(Manifest)
    BY <1>1, StatusStep DEF PrepareFails, Statuses, MigTypes
  <2>2. QED
    BY <1>1, <2>1, EndStep DEF PrepareFails
<1>2. ASSUME MigrationInv, FinishApply \/ FinishRollback \/ FinishCleanup PROVE MigrationInv'
  <2>1. cmd.op \in {"apply", "rollback", "cleanup"} /\ Status(Final)
    BY <1>2 DEF FinishApply, FinishRollback, FinishCleanup
  <2>2. Final \in Statuses
    BY <2>1 DEF Final, Statuses
  <2>3. manifests' \in Seq(Manifest)
    BY <1>2, <2>1, <2>2, StatusStep
  <2>4. QED
    BY <1>2, <2>3, EndStep DEF FinishApply, FinishRollback, FinishCleanup
<1>3. ASSUME MigrationInv, CommandFails \/ MigCrash PROVE MigrationInv'
  <2>1. cmd.op # "none" /\ SaveInterrupted
    BY <1>3 DEF CommandFails, MigCrash
  <2>2. manifests' \in Seq(Manifest)
    BY <1>3, <2>1, InterruptedStep
  <2>3. QED
    BY <1>3, <2>2, EndStep DEF CommandFails, MigCrash
<1>4. ASSUME MigrationInv, Leave PROVE MigrationInv'
  BY <1>4, EndStep DEF Leave, MigTypes
<1>5. QED
  BY <1>1, <1>2, <1>3, <1>4

\* Rollback and cleanup.
LEMMA BeginStep ==
  ASSUME MigrationInv, NEW op \in {"rollback", "cleanup"}, NEW point \in {"restore", "erase"},
         NEW id \in 1 .. Len(manifests), Begin(op, point, id),
         op = "rollback" => point = "restore",
         op = "cleanup" => point = "erase" /\ policy = "v2"
  PROVE  MigrationInv'
<1>1. cmd' \in Command /\ cmd'.op = op /\ cmd'.pc = point /\ cmd'.id = id
  <2>1. id \in Nat
    BY DEF MigrationInv, MigTypes
  <2>2. Mapped \in SUBSET Aliases
    BY DEF Mapped
  <2>3. cmd' = [op |-> op, pc |-> point, id |-> id, todo |-> Mapped, added |-> {}, before |-> {}, odd |-> {}]
    BY DEF Begin, NoCommand
  <2>4. QED
    BY <2>1, <2>2, <2>3 DEF Command, Points
<1>2. UNCHANGED <<policy, attached, old, env, active, manifests, stranded, expired, edited, cleaned>>
  BY DEF Begin
<1>3. MigTypes' /\ NewPolicyFindsItsValues'
  BY <1>1, <1>2 DEF MigrationInv, MigTypes, NewPolicyFindsItsValues
<1>4. ApplyInv' /\ UndoInv'
  BY <1>1, <1>2 DEF ApplyInv, UndoInv
<1>5. QED
  BY <1>3, <1>4 DEF MigrationInv

LEMMA RollbackStep ==
  ASSUME MigrationInv,
         RollbackPolicy \/ \E a \in Aliases : RollbackValue(a) \/ CleanupAlias(a)
  PROVE  MigrationInv'
<1> USE DEF MigrationInv, At
<1>1. CASE RollbackPolicy
  <2>1. cmd' \in Command /\ cmd'.pc = "remove" /\ cmd'.op = cmd.op /\ cmd'.id = cmd.id
    BY <1>1, GotoStep DEF RollbackPolicy, Points
  <2>2. QED
    BY <1>1, <2>1 DEF RollbackPolicy, MigTypes, NewPolicyFindsItsValues, ApplyInv, UndoInv
<1>2. ASSUME NEW a \in Aliases, RollbackValue(a) \/ CleanupAlias(a)
      PROVE  /\ cmd' \in Command /\ cmd'.pc = cmd.pc /\ cmd'.op = cmd.op /\ cmd'.id = cmd.id
             /\ UNCHANGED <<policy, attached, active, manifests, stranded, expired, edited>>
             /\ cleaned' \in SUBSET Aliases
  BY <1>2 DEF RollbackValue, CleanupAlias, MigTypes, Command
<1>3. ASSUME NEW a \in Aliases, RollbackValue(a) PROVE MigrationInv'
  <2>1. policy = "v1" /\ cmd.op = "rollback"
    BY <1>3 DEF RollbackValue, UndoInv
  <2>2. env' \in [Envs -> SUBSET Aliases] /\ old' = old
    BY <1>3, <2>1, TargetType DEF RollbackValue, MigTypes
  <2>3. QED
    BY <1>2, <1>3, <2>1, <2>2 DEF MigTypes, NewPolicyFindsItsValues, ApplyInv, UndoInv
<1>4. ASSUME NEW a \in Aliases, CleanupAlias(a) PROVE MigrationInv'
  <2>1. cmd.op = "cleanup" /\ env' = env /\ old' \in SUBSET Aliases
    BY <1>4 DEF CleanupAlias, MigTypes
  <2>2. QED
    BY <1>2, <1>4, <2>1 DEF MigTypes, NewPolicyFindsItsValues, ApplyInv, UndoInv
<1>5. QED
  BY <1>1, <1>3, <1>4

\* What the human changes is exempt from then on.
LEMMA EditStep == ASSUME MigrationInv, NEW a \in Aliases, Edit(a) PROVE MigrationInv'
<1>1. /\ UNCHANGED <<policy, attached, active, manifests, cmd, stranded, expired, cleaned>>
      /\ edited' = edited \cup {a} /\ Target' = Target
  BY DEF Edit, Target
<1>2. /\ old' \in SUBSET Aliases /\ env' \in [Envs -> SUBSET Aliases]
      /\ \A e \in Envs : env[e] \subseteq env'[e] \cup {a} /\ env'[e] \subseteq env[e] \cup {a}
  BY DEF MigrationInv, MigTypes, Edit, Toggled
<1>3. cmd.op # "none" => Target \in Envs
  BY TargetType DEF MigrationInv
<1>4. MigTypes' /\ UndoInv'
  BY <1>1, <1>2 DEF MigrationInv, MigTypes, UndoInv
<1>5. NewPolicyFindsItsValues'
  BY <1>1, <1>2 DEF MigrationInv, NewPolicyFindsItsValues
<1>6. ApplyInv'
  BY <1>1, <1>2, <1>3 DEF MigrationInv, ApplyInv
<1>7. QED
  BY <1>4, <1>5, <1>6 DEF MigrationInv

LEMMA MigrationStep == MigrationInv /\ [MigNext]_migVars => MigrationInv'
<1> SUFFICES ASSUME MigrationInv, [MigNext]_migVars PROVE MigrationInv'
  OBVIOUS
<1>1. CASE Applying
  <2>1. CASE StartApply
    BY <2>1, StartApplyStep
  <2>2. CASE Prepare \/ SwitchPolicy \/ SwitchFails \/ FinishApplyFails \/ Restore \/ ApplyFailed
    BY <2>2, ApplyGoesOn
  <2>3. CASE PrepareFails \/ FinishApply \/ Leave
    BY <2>3, CommandEnds
  <2>4. CASE \E a \in Aliases : Copy(a) \/ CopyFails(a) \/ Undo(a)
    BY <2>4, CopyStep, CopyFailsStep, UndoStep
  <2>5. QED
    BY <1>1, <2>1, <2>2, <2>3, <2>4 DEF Applying
<1>2. CASE FinishRollback \/ FinishCleanup \/ CommandFails \/ MigCrash
  BY <1>2, CommandEnds
<1>3. CASE \E id \in 1 .. Len(manifests) : StartRollback(id) \/ StartCleanup(id)
  BY <1>3, BeginStep DEF StartRollback, StartCleanup
<1>4. CASE RollbackPolicy \/ \E a \in Aliases : RollbackValue(a) \/ CleanupAlias(a)
  BY <1>4, RollbackStep
<1>5. CASE \E e \in Envs : UseActive(e) \/ Expire(e)
  BY <1>5 DEF UseActive, Expire, MigrationInv, MigTypes, NewPolicyFindsItsValues, ApplyInv, UndoInv, Target
<1>6. CASE UNCHANGED migVars
  BY <1>6 DEF migVars, MigrationInv, MigTypes, NewPolicyFindsItsValues, ApplyInv, UndoInv, Target
<1>7. CASE \E a \in Aliases : Edit(a)
  BY <1>7, EditStep
<1>8. QED
  BY <1>1, <1>2, <1>3, <1>4, <1>5, <1>6, <1>7 DEF MigNext

LEMMA LegacyStep ==
  ASSUME MigrationInv, LegacyInv, [MigNext]_migVars
  PROVE  LegacyInv'
<1> USE DEF LegacyInv, MigrationInv, Mapped
<1>1. MigTypes /\ cmd \in Command /\ manifests \in Seq(Manifest)
  BY DEF MigTypes
<1>2. ASSUME cmd' = NoCommand, manifests # <<>>, UNCHANGED <<attached, old, edited, cleaned>>
      PROVE  LegacyInv'
  BY <1>2 DEF NoCommand
<1>4. cmd.op # "none" => manifests # <<>>
  BY <1>1 DEF MigTypes
<1>5. CASE StartApply
  BY <1>5 DEF StartApply, NoCommand
<1>6. CASE \/ Prepare \/ SwitchPolicy \/ SwitchFails \/ FinishApplyFails \/ Restore \/ ApplyFailed
           \/ \E a \in Aliases : Copy(a) \/ CopyFails(a) \/ Undo(a)
  <2>1. cmd.op = "apply" /\ manifests # <<>> /\ UNCHANGED <<attached, old, edited, cleaned>>
    BY <1>4, <1>6
    DEF At, Prepare, SwitchPolicy, SwitchFails, FinishApplyFails, Restore, ApplyFailed, Copy, CopyFails, Undo
  <2>2. cmd'.op = cmd.op /\ cmd'.todo \cup cmd'.added \subseteq cmd.todo \cup cmd.added
    <3>1. CASE \E point \in Points : Goto(point)
      BY <1>1, <3>1 DEF Command, Goto
    <3>2. CASE \E a \in Aliases : Copy(a) \/ CopyFails(a) \/ Undo(a)
      <4>1. PICK a \in Aliases : Copy(a) \/ CopyFails(a) \/ Undo(a)
        BY <3>2
      <4>2. CASE Copy(a)
        BY <1>1, <4>2 DEF Command, Copy
      <4>3. CASE CopyFails(a)
        BY <1>1, <4>3 DEF Command, CopyFails, Goto
      <4>4. CASE Undo(a)
        <5>1. \/ cmd' = [cmd EXCEPT !.added = @ \ {a}]
              \/ cmd' = [cmd EXCEPT !.added = @ \ {a}, !.odd = @ \cup {a}]
          BY <4>4 DEF Undo
        <5>2. QED
          BY <1>1, <5>1 DEF Command
      <4>5. QED
        BY <4>1, <4>2, <4>3, <4>4
    <3>3. QED
      BY <1>6, <3>1, <3>2 DEF Points, Prepare, SwitchPolicy, SwitchFails, FinishApplyFails, Restore, ApplyFailed
  <2>3. QED
    BY <2>1, <2>2
<1>7. CASE \/ PrepareFails \/ FinishApply \/ FinishRollback \/ FinishCleanup \/ CommandFails \/ MigCrash
           \/ Leave
  <2>1. cmd.op # "none" /\ cmd' = NoCommand /\ UNCHANGED <<attached, old, edited, cleaned>>
    BY <1>7 DEF At, PrepareFails, FinishApply, FinishRollback, FinishCleanup, CommandFails, MigCrash,
                Leave, MigrationInv, UndoInv
  <2>2. QED
    BY <1>2, <1>4, <2>1
<1>8. CASE \E id \in 1 .. Len(manifests) : StartRollback(id) \/ StartCleanup(id)
  <2>1. /\ cmd'.op \in {"rollback", "cleanup"} /\ cmd'.todo = Mapped /\ cmd'.added = {}
        /\ UNCHANGED <<attached, old, edited, cleaned, manifests>>
    <3>1. ASSUME NEW op \in {"rollback", "cleanup"}, NEW at, NEW id, Begin(op, at, id)
          PROVE  /\ cmd'.op \in {"rollback", "cleanup"} /\ cmd'.todo = Mapped /\ cmd'.added = {}
                 /\ UNCHANGED <<attached, old, edited, cleaned, manifests>>
      BY <3>1 DEF Begin, NoCommand
    <3>2. QED
      BY <1>8, <3>1 DEF StartRollback, StartCleanup
  <2>2. QED
    BY <2>1
<1>9. CASE RollbackPolicy \/ \E a \in Aliases : RollbackValue(a)
  <2>1. /\ cmd'.op = cmd.op /\ cmd'.todo \cup cmd'.added \subseteq cmd.todo \cup cmd.added
        /\ UNCHANGED <<attached, old, edited, cleaned, manifests>>
    BY <1>1, <1>9 DEF Command, Goto, RollbackPolicy, RollbackValue
  <2>2. QED
    BY <2>1
<1>10. CASE \E a \in Aliases : CleanupAlias(a)
  <2>1. /\ cmd.op = "cleanup" /\ cmd'.op = cmd.op /\ cmd'.todo \cup cmd'.added \subseteq cmd.todo \cup cmd.added
        /\ UNCHANGED <<attached, edited, manifests>> /\ old \cup cleaned \subseteq old' \cup cleaned'
    BY <1>1, <1>10 DEF Command, At, CleanupAlias
  <2>2. QED
    BY <2>1
<1>11. CASE \E a \in Aliases : Edit(a)
  <2>1. PICK a \in Aliases : Edit(a)
    BY <1>11
  <2>2. UNCHANGED <<attached, manifests, cmd, cleaned>> /\ edited' = edited \cup {a} /\ old \subseteq old' \cup {a}
    BY <2>1 DEF Edit, Toggled
  <2>3. QED
    BY <2>2
<1>12. CASE \E e \in Envs : UseActive(e) \/ Expire(e)
  <2>1. UNCHANGED <<attached, old, edited, cleaned, manifests, cmd>>
    BY <1>12 DEF UseActive, Expire
  <2>2. QED
    BY <2>1
<1>13. CASE UNCHANGED migVars
  BY <1>13 DEF migVars
<1>14. QED
  BY <1>5, <1>6, <1>7, <1>8, <1>9, <1>10, <1>11, <1>12, <1>13 DEF MigNext, Applying

LEMMA SurvivingMeans ==
  /\ \A a \in Aliases : a \in Surviving <=> a \in old \/ \E e \in Envs : a \in env[e]
  /\ \A a \in Aliases : a \in Surviving' <=> a \in old' \/ \E e \in Envs : a \in env'[e]
BY DEF Surviving

\* Only five steps take a value from anywhere.
LEMMA LossStep ==
  ASSUME MigrationInv, LegacyInv, [MigNext]_migVars, NEW a \in Aliases, a \notin edited', ~stranded,
         a \in Surviving
  PROVE  a \in Surviving' \/ (cmd.op = "rollback" /\ a \in cleaned)
<1> USE SurvivingMeans
<1>1. MigTypes
  BY DEF MigrationInv
<1>2. CASE UNCHANGED <<old, env>>
  BY <1>2
<1>4. ASSUME NEW b \in Aliases, Copy(b) \/ CopyFails(b) PROVE a \in Surviving'
  <2>1. Target \in Envs /\ env \in [Envs -> SUBSET Aliases]
    BY <1>1, <1>4, TargetType DEF Copy, CopyFails, At, MigTypes
  <2>2. old' = old /\ \A e \in Envs : env[e] \subseteq env'[e]
    BY <1>4, <2>1 DEF Copy, CopyFails
  <2>3. QED
    BY <2>2
<1>5. ASSUME NEW b \in Aliases, Undo(b) PROVE a \in Surviving'
  <2>1. cmd.op = "apply" /\ b \in cmd.added /\ UNCHANGED <<old, edited>> /\ Target \in Envs
    BY <1>1, <1>5, TargetType DEF Undo, At
  <2>2. b \in old \cup edited
    BY <1>1, <2>1 DEF LegacyInv, MigTypes
  <2>3. \A e \in Envs : env[e] \subseteq env'[e] \cup {b}
    BY <1>1, <1>5 DEF MigTypes, Undo
  <2>4. QED
    BY <2>1, <2>2, <2>3
<1>6. ASSUME NEW b \in Aliases, RollbackValue(b)
      PROVE  a \in Surviving' \/ (cmd.op = "rollback" /\ a \in cleaned)
  <2>1. cmd.op = "rollback" /\ b \in cmd.todo /\ UNCHANGED <<old, edited>>
    BY <1>6 DEF RollbackValue, At
  <2>2. b \in old \cup cleaned \cup edited
    BY <1>1, <2>1 DEF LegacyInv, MigTypes
  <2>3. \A e \in Envs : env[e] \subseteq env'[e] \cup {b}
    BY <1>1, <1>6 DEF MigTypes, RollbackValue
  <2>4. QED
    BY <2>1, <2>2, <2>3
<1>7. ASSUME NEW b \in Aliases, CleanupAlias(b) PROVE a \in Surviving'
  <2>1. policy = "v2" /\ UNCHANGED <<env, edited>> /\ old' = old \ {b}
    BY <1>7 DEF CleanupAlias, At, MigrationInv, UndoInv
  <2>2. \E e \in Envs : a \in env[e]
    BY <2>1 DEF MigrationInv, NewPolicyFindsItsValues
  <2>3. QED
    BY <2>1, <2>2
<1>8. ASSUME NEW b \in Aliases, Edit(b) PROVE a \in Surviving'
  <2>1. a # b
    BY <1>8 DEF Edit
  <2>2. old \ {b} \subseteq old' /\ \A e \in Envs : env[e] \ {b} \subseteq env'[e]
    BY <1>1, <1>8 DEF Edit, Toggled, MigTypes
  <2>3. QED
    BY <2>1, <2>2
<1>9. \/ UNCHANGED <<old, env>>
      \/ \E b \in Aliases :
           Copy(b) \/ CopyFails(b) \/ Undo(b) \/ RollbackValue(b) \/ CleanupAlias(b) \/ Edit(b)
  BY DEF MigNext, migVars, Applying, StartApply, Prepare, PrepareFails, SwitchPolicy, SwitchFails,
         FinishApply, FinishApplyFails, Restore, ApplyFailed, Leave,
         RollbackPolicy, FinishRollback, FinishCleanup, CommandFails, MigCrash, StartRollback,
         StartCleanup, Begin, UseActive, Expire
<1>10. QED
  BY <1>2, <1>4, <1>5, <1>6, <1>7, <1>8, <1>9

-----------------------------------------------------------------------------
(* The hooks.                                                              *)

SetupType ==
  [op : {"none", "install", "uninstall"}, todo : SUBSET Hooks, force : BOOLEAN, disturbed : BOOLEAN]

\* Why InstalledIsGuarded holds: the hooks that a running install has passed are ours while
\* nobody disturbs it, and an uninstall that has passed one has taken the guard down.
HookInv ==
  /\ hook \in [Hooks -> {"none", "foreign", "ironrun"}] /\ guarded \in BOOLEAN
  /\ ignored \in {"none", "user", "section"}
  /\ setup \in SetupType
  /\ InstalledIsGuarded
  /\ setup.op = "install" /\ ~setup.disturbed => \A h \in Hooks \ setup.todo : hook[h] = "ironrun"
  /\ setup.op = "uninstall" /\ setup.todo # Hooks => ~guarded

LEMMA NoSetupType == NoSetup \in SetupType /\ NoSetup.op = "none"
BY DEF NoSetup, SetupType

LEMMA GitKeeps ==
  GitCommand => UNCHANGED <<policy, attached, old, env, active, manifests, cmd, stranded, users, hooks>>
BY DEF GitCommand, Commit, MergeBranch, Switch, DeleteRemote, Push, migVars

LEMMA SetupKeeps ==
  Setup => UNCHANGED <<policy, attached, old, env, active, manifests, cmd, stranded, users>>
BY DEF Setup, StartSetup, InstallHook, FinishInstall, UninstallHook, FinishUninstall, SetupFails,
       OtherTool, migVars, migOthers

LEMMA SetupStep == HookInv /\ Setup => HookInv'
<1> USE DEF HookInv, InstalledIsGuarded
<1>1. ASSUME HookInv, NEW op \in {"install", "uninstall"}, NEW f \in BOOLEAN, StartSetup(op, f)
      PROVE  HookInv'
  <2>1. setup' = [op |-> op, todo |-> Hooks, force |-> f, disturbed |-> FALSE]
    BY <1>1 DEF StartSetup, NoSetup
  <2>2. setup' \in SetupType
    BY <2>1 DEF SetupType
  <2>3. QED
    BY <1>1, <2>1, <2>2 DEF StartSetup
<1>2. ASSUME HookInv, NEW h \in Hooks, InstallHook(h) PROVE HookInv'
  <2>1. CASE setup' = NoSetup /\ UNCHANGED hook
    BY <1>2, <2>1, NoSetupType DEF InstallHook
  <2>2. CASE setup' = [setup EXCEPT !.todo = @ \ {h}] /\ hook' = [hook EXCEPT ![h] = "ironrun"]
    BY <1>2, <2>2 DEF InstallHook, SetupType
  <2>3. QED
    BY <1>2, <2>1, <2>2 DEF InstallHook
<1>3. ASSUME HookInv, FinishInstall PROVE HookInv'
  <2>1. ~setup.disturbed => \A h \in Hooks : hook[h] = "ironrun"
    BY <1>3 DEF FinishInstall
  <2>2. ignored' \in {"user", "section"} /\ hook' = hook /\ guarded' = ~setup.disturbed /\ setup' = NoSetup
    BY <1>3 DEF FinishInstall
  <2>3. QED
    BY <1>3, <2>1, <2>2, NoSetupType DEF SetupType
<1>4. ASSUME HookInv, NEW h \in Hooks, UninstallHook(h) PROVE HookInv'
  <2>1. /\ setup' = [setup EXCEPT !.todo = @ \ {h}] /\ setup.op = "uninstall" /\ guarded' = FALSE
        /\ hook' \in {hook, [hook EXCEPT ![h] = IF @ = "ironrun" THEN "none" ELSE @]}
        /\ ignored' = ignored
    BY <1>4 DEF UninstallHook
  <2>2. setup' \in SetupType /\ setup'.op = "uninstall"
    BY <1>4, <2>1 DEF SetupType
  <2>3. QED
    BY <1>4, <2>1, <2>2
<1>5. ASSUME HookInv, FinishUninstall PROVE HookInv'
  <2>1. setup.op = "uninstall" /\ setup.todo = {} /\ Hooks # {}
    BY <1>5 DEF FinishUninstall, Hooks
  <2>2. QED
    BY <1>5, <2>1, NoSetupType DEF FinishUninstall
<1>6. ASSUME HookInv, SetupFails PROVE HookInv'
  BY <1>6, NoSetupType DEF SetupFails
<1>7. ASSUME HookInv, OtherTool PROVE HookInv'
  <2>1. /\ guarded' = FALSE /\ hook' \in [Hooks -> {"none", "foreign", "ironrun"}]
        /\ ignored' \in {"none", "user", "section"}
    BY <1>7 DEF OtherTool
  <2>2. setup' \in SetupType /\ (setup' = NoSetup \/ setup'.disturbed)
    BY <1>7 DEF OtherTool, SetupType
  <2>3. QED
    BY <2>1, <2>2, NoSetupType
<1>8. QED
  BY <1>1, <1>2, <1>3, <1>4, <1>5, <1>6, <1>7 DEF Setup

-----------------------------------------------------------------------------
(* The repository.                                                         *)

CommitType == [parents : SUBSET Nat, tree : SUBSET Aliases]

RepoTypes ==
  /\ work \in 0 .. MaxWork /\ faults \in Nat
  /\ commits \in Seq(CommitType)
  /\ \A c \in 1 .. Len(commits) : commits[c].parents \subseteq 1 .. (c - 1)
  /\ branch \in [Branches -> 0 .. Len(commits)]
  /\ head \in Branches /\ branch[head] # 0
  /\ published \subseteq 1 .. Len(commits)

\* Why GuardTypeOK and PublishedIsScanned hold: what is out is out with its history, so that
\* what a push adds is not among the ancestors of any ref of a remote, stale ones included.
RepoInv ==
  /\ RepoTypes
  /\ Closed(published)
  /\ remote \in [Remotes -> [Branches -> published \cup {0}]]
  /\ tracking \in [Remotes -> [Branches -> published \cup {0}]]

\* Ancestors(c) is the least closed set with c.
LEMMA AncestorsAreLeast ==
  ASSUME RepoTypes, NEW c \in 0 .. Len(commits)
  PROVE  /\ Ancestors(c) \subseteq 1 .. Len(commits)
         /\ c # 0 => c \in Ancestors(c)
         /\ Closed(Ancestors(c))
         /\ \A P : Closed(P) /\ c \in P => Ancestors(c) \subseteq P
         /\ c = 0 => Ancestors(c) = {}
<1>1. Len(commits) \in Nat
  BY DEF RepoTypes
<1>2. Ancestors(c) \subseteq 1 .. c /\ (c # 0 => c \in Ancestors(c))
  BY <1>1 DEF Ancestors
<1>3. ASSUME NEW y \in Ancestors(c) PROVE commits[y].parents \subseteq Ancestors(c)
  <2>1. y \in 1 .. Len(commits) /\ y <= c
    BY <1>1, <1>2
  <2>2. commits[y].parents \subseteq 1 .. c
    BY <1>1, <2>1 DEF RepoTypes
  <2>3. ASSUME NEW x \in commits[y].parents, NEW S \in SUBSET (1 .. c), c \in S, Closed(S)
        PROVE  x \in S
    BY <1>3, <2>3 DEF Ancestors, Closed
  <2>4. QED
    BY <2>2, <2>3 DEF Ancestors
<1>4. ASSUME NEW P, Closed(P), c \in P PROVE Ancestors(c) \subseteq P
  <2> DEFINE S == P \cap (1 .. c)
  <2>1. CASE c = 0
    BY <1>2, <2>1
  <2>2. CASE c # 0
    <3>1. S \in SUBSET (1 .. c) /\ c \in S
      BY <1>1, <1>4, <2>2
    <3>2. ASSUME NEW y \in S PROVE commits[y].parents \subseteq S
      <4>1. y \in 1 .. Len(commits) /\ y <= c
        BY <1>1
      <4>2. commits[y].parents \subseteq 1 .. c
        BY <1>1, <4>1 DEF RepoTypes
      <4>3. commits[y].parents \subseteq P
        BY <1>4 DEF Closed
      <4>4. QED
        BY <4>2, <4>3
    <3>3. Closed(S)
      BY <3>2 DEF Closed
    <3>4. QED
      BY <3>1, <3>3 DEF Ancestors
  <2>3. QED
    BY <2>1, <2>2
<1>5. QED
  BY <1>1, <1>2, <1>3, <1>4 DEF Closed

\* A new commit changes nothing of what is there.
LEMMA CommitStep ==
  ASSUME RepoInv, NEW parents \in SUBSET (1 .. Len(commits)), NEW tree \in SUBSET Aliases,
         MakeCommit(parents, tree), work' \in 0 .. MaxWork, faults' \in Nat
  PROVE  RepoInv'
<1> DEFINE new == [parents |-> parents, tree |-> tree]
<1>1. commits \in Seq(CommitType) /\ Len(commits) \in Nat
  BY DEF RepoInv, RepoTypes
<1>2. new \in CommitType
  BY <1>1 DEF CommitType
<1>3. commits' = Append(commits, new)
  BY DEF MakeCommit
<1>4. commits' \in Seq(CommitType) /\ Len(commits') = Len(commits) + 1
  BY <1>1, <1>2, <1>3
<1>5. /\ \A c \in 1 .. Len(commits) : commits'[c] = commits[c]
      /\ commits'[Len(commits) + 1] = new
  BY <1>1, <1>2, <1>3
<1>6. ASSUME NEW c \in 1 .. Len(commits') PROVE commits'[c].parents \subseteq 1 .. (c - 1)
  <2>1. CASE c \in 1 .. Len(commits)
    <3>1. commits[c].parents \subseteq 1 .. (c - 1)
      BY <2>1 DEF RepoInv, RepoTypes
    <3>2. QED
      BY <1>5, <2>1, <3>1
  <2>2. CASE c = Len(commits) + 1
    <3>1. commits'[c].parents = parents /\ c - 1 = Len(commits)
      BY <1>1, <1>5, <2>2
    <3>2. QED
      BY <3>1
  <2>3. QED
    BY <1>1, <1>4, <2>1, <2>2
<1>7. branch' \in [Branches -> 0 .. Len(commits')] /\ head' \in Branches /\ branch'[head'] # 0
  BY <1>1, <1>4 DEF RepoInv, RepoTypes, MakeCommit
<1>8. UNCHANGED <<remote, tracking, published>>
  BY DEF MakeCommit
<1>9. published' \subseteq 1 .. Len(commits')
  BY <1>1, <1>4, <1>8 DEF RepoInv, RepoTypes
<1>10. Closed(published)'
  BY <1>5, <1>8 DEF RepoInv, RepoTypes, Closed
<1>11. QED
  BY <1>4, <1>6, <1>7, <1>8, <1>9, <1>10 DEF RepoInv, RepoTypes

\* The guard of every git and hook command.
LEMMA WorkStep ==
  ASSUME RepoTypes, MigTypes, Work
  PROVE  work' \in 0 .. MaxWork
<1>1. Len(manifests) \in Nat
  BY DEF MigTypes
<1>2. QED
  BY <1>1, GuardAssumption DEF RepoTypes, Work

LEMMA StagedStep ==
  ASSUME faults \in Nat, NEW tree, NEW bypass, Staged(tree, bypass)
  PROVE  faults' \in Nat
BY DEF Staged, CountFault

LEMMA PushStep ==
  ASSUME RepoInv, MigTypes, NEW r \in Remotes, NEW b \in Branches, NEW bypass \in BOOLEAN,
         Push(r, b, bypass)
  PROVE  RepoInv'
<1> DEFINE anc == Ancestors(branch[b])
<1>1. RepoTypes /\ Len(commits) \in Nat /\ branch[b] \in 1 .. Len(commits)
  BY DEF RepoInv, RepoTypes, Push
<1>2. anc \subseteq 1 .. Len(commits) /\ branch[b] \in anc /\ Closed(anc)
  BY <1>1, AncestorsAreLeast
<1>3. work' \in 0 .. MaxWork /\ faults' \in Nat
  <2>1. work' \in 0 .. MaxWork
    BY <1>1, WorkStep DEF Push
  <2>2. faults' = faults \/ faults' = faults + 1
    BY DEF Push, CountFault
  <2>3. QED
    BY <1>1, <2>1, <2>2 DEF RepoTypes
<1>4. UNCHANGED <<commits, branch, head>> /\ published' = published \cup anc
  BY DEF Push
<1>5. RepoTypes'
  BY <1>1, <1>2, <1>3, <1>4 DEF RepoTypes
<1>6. Closed(published)'
  BY <1>2, <1>4 DEF RepoInv, Closed
<1>7. /\ remote' \in [Remotes -> [Branches -> published' \cup {0}]]
      /\ tracking' \in [Remotes -> [Branches -> published' \cup {0}]]
  BY <1>2, <1>4 DEF RepoInv, Push
<1>8. QED
  BY <1>5, <1>6, <1>7 DEF RepoInv

LEMMA GitStep == RepoInv /\ MigTypes /\ GitCommand => RepoInv'
<1> SUFFICES ASSUME RepoInv, MigTypes, GitCommand PROVE RepoInv'
  OBVIOUS
<1>1. /\ RepoTypes /\ Len(commits) \in Nat /\ faults \in Nat
      /\ branch[head] \in 1 .. Len(commits)
  BY DEF RepoInv, RepoTypes
<1>2. ASSUME NEW tree \in SUBSET Aliases, NEW bypass \in BOOLEAN, Commit(tree, bypass)
      PROVE  RepoInv'
  BY <1>1, <1>2, WorkStep, StagedStep, CommitStep DEF Commit
<1>3. ASSUME NEW tree \in SUBSET Aliases, NEW bypass \in BOOLEAN, NEW b \in Branches,
             MergeBranch(b, tree, bypass)
      PROVE  RepoInv'
  <2>1. branch[b] \in 1 .. Len(commits)
    BY <1>1, <1>3 DEF RepoTypes, MergeBranch
  <2>2. faults' \in Nat /\ work' \in 0 .. MaxWork
    BY <1>1, <1>3, WorkStep, StagedStep DEF MergeBranch
  <2>3. {branch[head], branch[b]} \in SUBSET (1 .. Len(commits))
    BY <1>1, <2>1
  <2>4. QED
    BY <1>3, <2>2, <2>3, CommitStep DEF MergeBranch
<1>4. ASSUME NEW b \in Branches, Switch(b) PROVE RepoInv'
  <2>1. work' \in 0 .. MaxWork /\ UNCHANGED <<faults, commits, remote, tracking, published>>
    BY <1>1, <1>4, WorkStep DEF Switch, migVars
  <2>2. head' = b /\ branch' \in [Branches -> 0 .. Len(commits)] /\ branch'[b] # 0
    BY <1>1, <1>4 DEF Switch, RepoTypes
  <2>3. QED
    BY <2>1, <2>2 DEF RepoInv, RepoTypes, Closed
<1>5. ASSUME NEW r \in Remotes, NEW b \in Branches, DeleteRemote(r, b) PROVE RepoInv'
  <2>1. work' \in 0 .. MaxWork /\ UNCHANGED <<faults, commits, branch, head, published>>
    BY <1>1, <1>5, WorkStep DEF DeleteRemote, migVars
  <2>2. /\ remote' \in [Remotes -> [Branches -> published \cup {0}]]
        /\ tracking' \in [Remotes -> [Branches -> published \cup {0}]]
    BY <1>5, SMTT(30) DEF RepoInv, DeleteRemote
  <2>3. QED
    BY <2>1, <2>2 DEF RepoInv, RepoTypes, Closed
<1>6. QED
  BY <1>2, <1>3, <1>4, <1>5, PushStep DEF GitCommand

\* Hooks and migrations leave the repository alone.
LEMMA OtherStep ==
  ASSUME RepoInv, MigTypes, UNCHANGED repo, (work' = work \/ Work), faults' \in Nat
  PROVE  RepoInv'
BY WorkStep DEF RepoInv, RepoTypes, Closed, repo

LEMMA SetupCounts ==
  ASSUME RepoInv, Setup
  PROVE  UNCHANGED repo /\ (work' = work \/ Work) /\ faults' \in Nat
BY DEF Setup, StartSetup, InstallHook, FinishInstall, UninstallHook, FinishUninstall, SetupFails,
       OtherTool, migVars, Fault, Mishap, Smooth, RepoInv, RepoTypes

LEMMA MigrationCounts ==
  ASSUME faults \in Nat, [MigNext]_migVars
  PROVE  faults' \in Nat
<1>1. Fault => faults' \in Nat
  BY DEF Fault
<1>2. CASE Applying
  BY <1>1, <1>2 DEF Applying, StartApply, Prepare, PrepareFails, SwitchPolicy, SwitchFails,
     FinishApply, FinishApplyFails, Restore, ApplyFailed, Leave, Copy, CopyFails, Undo
<1>3. CASE \/ RollbackPolicy \/ FinishRollback \/ FinishCleanup \/ CommandFails \/ MigCrash
           \/ \E id \in 1 .. Len(manifests) : StartRollback(id) \/ StartCleanup(id)
           \/ \E a \in Aliases : RollbackValue(a) \/ CleanupAlias(a) \/ Edit(a)
           \/ \E e \in Envs : UseActive(e) \/ Expire(e)
  BY <1>1, <1>3 DEF RollbackPolicy, FinishRollback, FinishCleanup, CommandFails, MigCrash,
     StartRollback, StartCleanup, Begin, RollbackValue, CleanupAlias, UseActive, Edit, Expire
<1>4. CASE UNCHANGED migVars
  BY <1>4 DEF migVars
<1>5. QED
  BY <1>2, <1>3, <1>4 DEF MigNext

-----------------------------------------------------------------------------
(* Both.                                                                   *)

GuardIInv == MigrationInv /\ LegacyInv /\ HookInv /\ RepoInv

LEMMA RepoStarts == GuardInit => RepoInv
<1> SUFFICES ASSUME GuardInit PROVE RepoInv
  OBVIOUS
<1>1. /\ head = Main /\ Main \in Branches /\ published = {} /\ faults = 0
      /\ remote = [r \in Remotes |-> [b \in Branches |-> 0]] /\ tracking = remote
  BY GuardAssumption DEF GuardInit, MigInit
<1>2. Closed(published) /\ published \subseteq 1 .. Len(commits)
  BY <1>1 DEF Closed
<1>3. Root \in CommitType /\ Root.parents = {}
  BY DEF Root, CommitType
<1>4. CASE work = 0 /\ commits = <<Root>> /\ branch = [b \in Branches |-> IF b = Main THEN 1 ELSE 0]
  <2>1. commits \in Seq(CommitType) /\ Len(commits) = 1 /\ commits[1] = Root
    BY <1>3, <1>4
  <2>2. QED
    BY <1>1, <1>2, <1>3, <1>4, <2>1, GuardAssumption DEF RepoInv, RepoTypes
<1>5. ASSUME NEW tree \in SUBSET Aliases, work = 0,
             commits = <<Root, [parents |-> {1}, tree |-> tree], [parents |-> {1}, tree |-> {}]>>,
             branch = [b \in Branches |-> IF b = Main THEN 3 ELSE 2]
      PROVE  RepoInv
  <2> DEFINE two == [parents |-> {1}, tree |-> tree]
             three == [parents |-> {1}, tree |-> {}]
  <2>1. two \in CommitType /\ three \in CommitType
    BY DEF CommitType
  <2>2. commits = <<Root, two, three>>
    BY <1>5
  <2>3. /\ commits \in Seq(CommitType) /\ Len(commits) = 3
        /\ commits[1] = Root /\ commits[2] = two /\ commits[3] = three
    BY <1>3, <2>1, <2>2
  <2>4. \A c \in 1 .. Len(commits) : commits[c].parents \subseteq 1 .. (c - 1)
    BY <1>3, <2>3
  <2>5. QED
    BY <1>1, <1>2, <1>5, <2>3, <2>4, GuardAssumption DEF RepoInv, RepoTypes
<1>6. QED
  BY <1>4, <1>5 DEF GuardInit

LEMMA GuardStarts == GuardInit => GuardIInv
<1> SUFFICES ASSUME GuardInit PROVE GuardIInv
  OBVIOUS
<1>1. MigrationInv
  <2>1. policy = "v1" /\ cmd = NoCommand /\ manifests = <<>> /\ manifests \in Seq(Manifest)
    BY DEF GuardInit, MigInit
  <2>2. QED
    BY <2>1, IdleType
    DEF GuardInit, MigInit, MigrationInv, MigTypes, NewPolicyFindsItsValues, ApplyInv, UndoInv
<1>2. HookInv
  BY NoSetupType DEF GuardInit, HookInv, InstalledIsGuarded
<1>3. LegacyInv
  BY DEF GuardInit, MigInit, LegacyInv, NoCommand, Mapped
<1>4. QED
  BY <1>1, <1>2, <1>3, RepoStarts DEF GuardIInv

LEMMA GuardContinues == GuardIInv /\ [GuardNext]_allVars => GuardIInv'
<1> SUFFICES ASSUME MigrationInv, LegacyInv, HookInv, RepoInv, [GuardNext]_allVars
             PROVE  MigrationInv' /\ LegacyInv' /\ HookInv' /\ RepoInv'
  BY DEF GuardIInv
<1>1. ASSUME UNCHANGED <<policy, attached, old, env, active, manifests, cmd, stranded, users>>
      PROVE  MigrationInv' /\ LegacyInv'
  BY <1>1 DEF MigrationInv, MigTypes, NewPolicyFindsItsValues, ApplyInv, UndoInv, Target, LegacyInv, Mapped
<1>2. ASSUME UNCHANGED hooks PROVE HookInv'
  BY <1>2 DEF hooks, HookInv, InstalledIsGuarded
<1>3. MigTypes /\ faults \in Nat
  BY DEF MigrationInv, RepoInv, RepoTypes
<1>4. CASE GitCommand
  BY <1>1, <1>2, <1>3, <1>4, GitKeeps, GitStep
<1>5. CASE Setup
  BY <1>1, <1>3, <1>5, SetupKeeps, SetupStep, SetupCounts, OtherStep
<1>6. CASE Migrating
  <2>1. UNCHANGED hooks /\ UNCHANGED repo /\ work' = work /\ MigNext
    BY <1>6 DEF Migrating, guardVars
  <2>2. QED
    BY <1>2, <1>3, <2>1, MigrationStep, LegacyStep, MigrationCounts, OtherStep
<1>7. CASE UNCHANGED allVars
  <2>1. UNCHANGED hooks /\ UNCHANGED repo /\ work' = work /\ UNCHANGED migVars
    BY <1>7 DEF allVars, guardVars
  <2>2. faults' = faults
    BY <2>1 DEF migVars
  <2>3. QED
    BY <1>1, <1>2, <1>3, <2>1, <2>2, OtherStep DEF migVars
<1>8. QED
  BY <1>4, <1>5, <1>6, <1>7 DEF GuardNext

\* Hooks and .gitignore stay as a successful install-hooks left them while nobody else
\* writes them, also through later installs and uninstalls that fail half-way.
THEOREM HooksGuard == GuardSpec => []InstalledIsGuarded
<1>1. GuardIInv => InstalledIsGuarded
  BY DEF GuardIInv, HookInv
<1>2. QED
  BY <1>1, GuardStarts, GuardContinues, PTL DEF GuardSpec

\* A value that the human leaves alone loses its last copy only in a rollback after a cleanup
\* that has deleted the alias, or once version 1 could not be put back: Apply takes back only
\* copies, and Cleanup, though it does not look for the copy (migration.go:254-258), finds
\* version 2 in force only while an environment holds it.
THEOREM LossNeedsCleanup == GuardSpec => OnlyRollbackLoses
<1> DEFINE Spared == \A a \in Aliases \ edited' :
                       ~stranded /\ a \in Surviving => a \in Surviving' \/ (cmd.op = "rollback" /\ a \in cleaned)
<1>1. GuardIInv /\ [GuardNext]_allVars => [Spared]_migVars
  <2> SUFFICES ASSUME MigrationInv, LegacyInv, [GuardNext]_allVars PROVE Spared
    BY DEF GuardIInv
  <2>1. CASE GitCommand \/ Setup
    BY <2>1, GitKeeps, SetupKeeps, SurvivingMeans
  <2>2. CASE Migrating
    BY <2>2, LossStep DEF Migrating
  <2>3. CASE UNCHANGED allVars
    BY <2>3, SurvivingMeans DEF allVars, migVars
  <2>4. QED
    BY <2>1, <2>2, <2>3 DEF GuardNext
<1>2. QED
  BY <1>1, GuardStarts, GuardContinues, PTL DEF GuardSpec, OnlyRollbackLoses

\* The hooks, refs and files of a migration are well formed, whatever git commands, installs,
\* migrations and edits of the human do between each other.  Installed hooks stay.  Version 2
\* is in force only while some one environment holds every value the human has left alone, and
\* an apply that reports an error has put version 1 and the entries it found back, but for
\* those it could not verify or delete and those the human has changed; both unless writing
\* version 1 back failed too (Apply and Rollback of migration.go).
THEOREM GuardHolds == GuardSpec => []GuardInv
<1>1. GuardIInv => GuardTypeOK
  <2> SUFFICES ASSUME HookInv, RepoInv PROVE GuardTypeOK
    BY DEF GuardIInv
  <2>1. ASSUME NEW c \in 1 .. Len(commits)
        PROVE  commits[c].parents \subseteq 1 .. (c - 1) /\ commits[c].tree \subseteq Aliases
    <3>1. commits[c] \in CommitType
      BY DEF RepoInv, RepoTypes
    <3>2. QED
      BY <3>1 DEF RepoInv, RepoTypes, CommitType
  <2>2. setup.todo \subseteq Hooks /\ ignored \in {"none", "user", "section"}
    BY DEF HookInv, SetupType
  <2>3. ASSUME NEW r \in Remotes, NEW b \in Branches
        PROVE  {remote[r][b], tracking[r][b]} \subseteq published \cup {0}
    BY DEF RepoInv
  <2>4. QED
    BY <2>1, <2>2, <2>3 DEF GuardTypeOK, HookInv, RepoInv, RepoTypes
<1>2. GuardIInv => MigTypeOK
  <2> SUFFICES ASSUME MigTypes, UndoInv PROVE MigTypeOK
    BY DEF GuardIInv, MigrationInv
  <2>1. ASSUME NEW id \in 1 .. Len(manifests)
        PROVE  manifests[id].environment \in Envs /\ manifests[id].status \in Statuses
    <3>1. manifests[id] \in Manifest
      BY DEF MigTypes
    <3>2. QED
      BY <3>1 DEF Manifest
  <2>2. Len(manifests) \in Nat /\ cmd.id \in 0 .. Len(manifests)
    BY DEF MigTypes, UndoInv
  <2>3. QED
    BY <2>1, <2>2 DEF MigTypes, MigTypeOK, Command
<1>3. GuardIInv => NewPolicyFindsItsValues /\ FailedApplyIsUndone /\ InstalledIsGuarded
  BY DEF GuardIInv, MigrationInv, HookInv, ApplyInv, UndoInv, FailedApplyIsUndone, MigTypes, Command
<1>4. GuardIInv => GuardInv
  BY <1>1, <1>2, <1>3 DEF GuardInv, MigInv
<1>5. QED
  BY <1>4, GuardStarts, GuardContinues, PTL DEF GuardSpec

\* pushRange (gitcmd.go) covers all that is new to every remote: a push that the hook lets
\* pass, all values of unexpired sets loaded, brings out no commit that adds one, stale tracking refs, new
\* branches and the fallback to HEAD included.
THEOREM PushesAreScanned == GuardSpec => PublishedIsScanned
<1>1. ASSUME GuardIInv, [GuardNext]_allVars, scanned', NEW c \in published' \ published
      PROVE  Added(c) \cap Sought = {}
  <2>1. PICK r \in Remotes, b \in Branches, bypass \in BOOLEAN : Push(r, b, bypass)
    <3>1. published' # published
      BY <1>1
    <3>2. UNCHANGED repo => published' = published
      BY DEF repo
    <3>3. Setup => UNCHANGED repo
      BY <1>1, SetupCounts DEF GuardIInv
    <3>4. Migrating \/ UNCHANGED allVars => UNCHANGED repo
      BY DEF Migrating, guardVars, allVars
    <3>5. GitCommand
      BY <1>1, <3>1, <3>2, <3>3, <3>4 DEF GuardNext
    <3>6. QED
      BY <3>1, <3>5 DEF GitCommand, Commit, MergeBranch, MakeCommit, Switch, DeleteRemote
  <2> DEFINE anc == Ancestors(branch[b])
  <2>2. published' = published \cup anc /\ c \in anc /\ c \notin published
    BY <1>1, <2>1 DEF Push
  <2>3. PICK loaded \in Loadable :
          /\ Passes(loaded, UNION {Added(x) : x \in PushRange(r, b)})
          /\ scanned' = (loaded = Sought)
    BY <1>1, <2>1 DEF Push
  <2>4. Sought \cap UNION {Added(x) : x \in PushRange(r, b)} = {}
    BY <1>1, <2>3 DEF Passes
  <2>5. RepoInv /\ RepoTypes
    BY <1>1 DEF GuardIInv, RepoInv
  <2>6. ASSUME NEW p \in published \cup {0} PROVE Ancestors(p) \subseteq published
    <3>1. p \in 0 .. Len(commits)
      BY <2>5 DEF RepoTypes
    <3>2. QED
      BY <2>5, <3>1, AncestorsAreLeast DEF RepoInv
  <2>7. remote[r][b] \in published \cup {0}
    BY <2>5 DEF RepoInv
  <2>8. \A s \in Remotes, x \in Branches : tracking[s][x] \in published \cup {0}
    BY <2>5 DEF RepoInv
  <2>9. OnRemotes \subseteq published
    BY <2>6, <2>8 DEF OnRemotes
  <2>10. c \in PushRange(r, b)
    BY <2>2, <2>6, <2>7, <2>9 DEF PushRange
  <2>11. QED
    BY <2>4, <2>10
<1>2. GuardIInv /\ [GuardNext]_allVars
        => [scanned' => \A c \in published' \ published : Added(c) \cap Sought = {}]_allVars
  BY <1>1
<1>3. QED
  BY <1>2, GuardStarts, GuardContinues, PTL DEF GuardSpec, PublishedIsScanned

==============================================================================
