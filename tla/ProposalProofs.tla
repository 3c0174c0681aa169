---------------------------- MODULE ProposalProofs ----------------------------
(***************************************************************************)
(* Theorems about proposals reviewed on the command line and in the        *)
(* dashboard, for any number of ids, reviewers, proposers and faults.      *)
(***************************************************************************)
EXTENDS Dashboard, SequenceTheorems, FiniteSetTheorems, TLAPS

-----------------------------------------------------------------------------
(* Sequences.                                                              *)

\* A list of commands stays one when more commands have been confirmed.
LEMMA SeqGrows ==
  ASSUME NEW S, NEW T, S \subseteq T, NEW s \in Seq(S)
  PROVE  s \in Seq(T)
OBVIOUS

\* A cut-off file holds nothing but a prefix of the new text.
LEMMA CutOffInSeq ==
  ASSUME NEW S, NEW text \in Seq(S), CutOff(text)
  PROVE  policy' \in Seq(S) /\ torn' = TRUE
<1>1. PICK n \in 0 .. Len(text) : policy' = SubSeq(text, 1, n)
  BY DEF CutOff
<1>2. SubSeq(text, 1, n) \in Seq(S)
  BY <1>1
<1>3. QED
  BY <1>1, <1>2 DEF CutOff

-----------------------------------------------------------------------------
(* The inductive invariant: what a process past the human's answer carries *)
(* was confirmed, and so was every command of every text it writes.        *)

FilesInv ==
  /\ now \in 0 .. MaxTime
  /\ torn \in BOOLEAN
  /\ pending \in [Ids -> Proposal \cup {None}]
  /\ lock \in Reviewers \cup {None}
  /\ draft \in [Proposers -> [id : Ids, proposal : Proposal] \cup {None}]
  /\ spoiled \in BOOLEAN /\ faults \in 0 .. MaxFaults
  /\ confirmed \subseteq Entry /\ reported \subseteq confirmed
  /\ policy \in Seq(confirmed)

Carries(r) == rev[r].id \in Ids /\ rev[r].shown \in Proposal

RevInv ==
  /\ rev \in [Reviewers -> ReviewState]
  /\ \A r \in Reviewers :
       /\ rev[r].orig \in Seq(confirmed)
       /\ rev[r].pc = "prompt" => Carries(r)
       /\ rev[r].pc \in Active => Carries(r) /\ EntryOf(r) \in confirmed

PropInv == FilesInv /\ RevInv

\* What the dashboard shows and asks about are proposals.
ShownInv ==
  /\ plist \in [Ids -> Proposal \cup {None}]
  /\ mode = "command" => reviewed \in [id : Ids, proposal : Proposal]

ReviewInv == PropInv /\ ShownInv

LEMMA EntryTyped ==
  ASSUME NEW r \in Reviewers, Carries(r)
  PROVE  EntryOf(r) \in Entry
BY DEF Carries, EntryOf, Entry, Proposal

LEMMA IdleTyped == IdleReview \in ReviewState /\ \A S : IdleReview.orig \in Seq(S)
BY DEF IdleReview, ReviewState, Active, Locked

LEMMA PropInvInit == PropInit => PropInv
<1> SUFFICES ASSUME PropInit PROVE PropInv
  OBVIOUS
<1>1. policy \in Seq(Range(policy)) /\ Range(policy) \subseteq Entry
  <2>1. CASE policy = <<>>
    BY <2>1 DEF Range
  <2>2. CASE policy # <<>>
    <3>1. PICK e \in Entry : policy = <<e>>
      BY <2>2 DEF PropInit
    <3>2. Range(policy) = {e}
      BY <3>1 DEF Range
    <3>3. QED
      BY <3>1, <3>2
  <2>3. QED
    BY <2>1, <2>2
<1>2. FilesInv
  <2>1. 0 \in 0 .. MaxTime /\ 0 \in 0 .. MaxFaults
    BY ProposalAssumption
  <2>2. QED
    BY <1>1, <2>1 DEF PropInit, FilesInv
<1>3. RevInv
  <2>1. rev = [r \in Reviewers |-> IdleReview]
    BY DEF PropInit
  <2>2. IdleReview.pc = "idle"
    BY DEF IdleReview
  <2>3. QED
    BY <2>1, <2>2, IdleTyped DEF RevInv, Active, Locked
<1>4. QED
  BY <1>2, <1>3 DEF PropInv

-----------------------------------------------------------------------------
(* The local state of an approve process.                                  *)

\* Nothing a process carries is invalidated by new confirmations.
LEMMA RevGrows ==
  ASSUME RevInv, rev' = rev, confirmed \subseteq confirmed'
  PROVE  RevInv'
<1>1. \A r \in Reviewers : rev[r].orig \in Seq(confirmed')
  BY SeqGrows DEF RevInv
<1>2. QED
  BY <1>1 DEF RevInv, Carries, EntryOf

\* What a process must carry to be allowed its new local state.
Sound(new, S) ==
  /\ new.orig \in Seq(S)
  /\ new.pc = "prompt" => new.id \in Ids /\ new.shown \in Proposal
  /\ new.pc \in Active => /\ new.id \in Ids /\ new.shown \in Proposal
                          /\ [id |-> new.id, content |-> new.shown.content] \in S

LEMMA RevReplaced ==
  ASSUME RevInv, NEW r \in Reviewers, NEW new \in ReviewState,
         rev' = [rev EXCEPT ![r] = new], confirmed \subseteq confirmed',
         Sound(new, confirmed')
  PROVE  RevInv'
<1>1. rev' \in [Reviewers -> ReviewState]
  BY DEF RevInv
<1>2. rev'[r] = new /\ \A q \in Reviewers \ {r} : rev'[q] = rev[q]
  BY DEF RevInv
<1>3. ASSUME NEW q \in Reviewers
      PROVE  /\ rev'[q].orig \in Seq(confirmed')
             /\ rev'[q].pc = "prompt" => Carries(q)'
             /\ rev'[q].pc \in Active => Carries(q)' /\ EntryOf(q)' \in confirmed'
  <2>1. CASE q = r
    BY <2>1, <1>2 DEF Sound, Carries, EntryOf
  <2>2. CASE q # r
    <3>1. rev[q].orig \in Seq(confirmed')
      BY SeqGrows DEF RevInv
    <3>2. QED
      BY <3>1, <2>2, <1>2 DEF RevInv, Carries, EntryOf
  <2>3. QED
    BY <2>1, <2>2
<1>4. QED
  BY <1>1, <1>3 DEF RevInv

\* A process that moves on without a new answer needs no new confirmation.
LEMMA GotoKeeps ==
  ASSUME RevInv, NEW r \in Reviewers, NEW pc \in Active,
         rev[r].pc \in Active, Goto(r, pc), confirmed' = confirmed
  PROVE  RevInv'
<1> DEFINE new == [rev[r] EXCEPT !.pc = pc]
<1>1. rev[r] \in ReviewState
  BY DEF RevInv
<1>2. new \in ReviewState
  BY <1>1 DEF ReviewState
<1>3. /\ new.orig = rev[r].orig /\ new.id = rev[r].id
      /\ new.shown = rev[r].shown /\ new.pc = pc
  BY <1>1 DEF ReviewState
<1>4. Sound(new, confirmed')
  BY <1>3 DEF RevInv, Sound, Carries, EntryOf, Active, Locked
<1>5. rev' = [rev EXCEPT ![r] = new]
  BY DEF Goto, RevInv
<1> HIDE DEF new
<1>6. QED
  BY <1>2, <1>4, <1>5, RevReplaced

\* A process that ends carries nothing.
LEMMA FinishKeeps ==
  ASSUME RevInv, NEW r \in Reviewers, Finish(r), confirmed' = confirmed
  PROVE  RevInv'
<1>1. Sound(IdleReview, confirmed')
  BY DEF Sound, IdleReview, Active, Locked
<1>2. QED
  BY <1>1, IdleTyped, RevReplaced DEF Finish

-----------------------------------------------------------------------------
(* Every step of the command line and the agents.                          *)

\* The steps that leave every approve process alone.
LEMMA OtherSteps ==
  ASSUME PropInv,
         \/ PropTick \/ RemoveLock
         \/ \E id \in Ids : Reject(id)
         \/ \E a \in Proposers : ProposeFails(a) \/ ProposeCreate(a)
         \/ \E a \in Proposers, id \in Ids, c \in Contents : ProposeLookup(a, id, c)
  PROVE  PropInv'
<1>1. rev' = rev /\ confirmed' = confirmed
  BY DEF PropTick, RemoveLock, Reject, ProposeFails, ProposeCreate, ProposeLookup
<1>2. RevInv'
  BY <1>1, RevGrows DEF PropInv
<1>3. FilesInv'
  <2>1. CASE PropTick
    BY <2>1, ProposalAssumption DEF PropTick, PropInv, FilesInv
  <2>2. CASE RemoveLock
    BY <2>2 DEF RemoveLock, PropInv, FilesInv
  <2>3. CASE \E id \in Ids : Reject(id)
    BY <2>3 DEF Reject, PropInv, FilesInv
  <2>4. ASSUME NEW a \in Proposers, ProposeFails(a) PROVE FilesInv'
    BY <2>4 DEF ProposeFails, PropInv, FilesInv
  <2>5. ASSUME NEW a \in Proposers, ProposeCreate(a) PROVE FilesInv'
    <3>1. draft[a] \in [id : Ids, proposal : Proposal]
      BY <2>5 DEF ProposeCreate, PropInv, FilesInv
    <3>2. Staged(pending[draft[a].id], draft[a].proposal) \in Proposal \cup {None}
      BY <3>1 DEF Staged, PropInv, FilesInv
    <3>3. pending' \in [Ids -> Proposal \cup {None}]
      BY <2>5, <3>1, <3>2 DEF ProposeCreate, PropInv, FilesInv
    <3>4. QED
      BY <2>5, <3>3 DEF ProposeCreate, PropInv, FilesInv
  <2>6. ASSUME NEW a \in Proposers, NEW id \in Ids, NEW c \in Contents, ProposeLookup(a, id, c)
        PROVE  FilesInv'
    <3>1. [id |-> id, proposal |-> [content |-> c, at |-> now]] \in [id : Ids, proposal : Proposal]
      BY DEF Proposal, PropInv, FilesInv
    <3>2. QED
      BY <2>6, <3>1 DEF ProposeLookup, PropInv, FilesInv
  <2>7. QED
    BY <2>1, <2>2, <2>3, <2>4, <2>5, <2>6
<1>4. QED
  BY <1>2, <1>3 DEF PropInv

\* The human's side: what is printed is what is confirmed.
LEMMA HumanSteps ==
  ASSUME PropInv, NEW r \in Reviewers, Answer(r) \/ \E id \in Ids : Review(r, id)
  PROVE  PropInv'
<1>0. rev[r] \in ReviewState
  BY DEF PropInv, RevInv
<1>1. ASSUME NEW id \in Ids, Review(r, id) PROVE PropInv'
  <2> DEFINE new == [rev[r] EXCEPT !.pc = "prompt", !.id = id, !.shown = pending[id]]
  <2>1. pending[id] \in Proposal
    BY <1>1 DEF Review, Approvable, PropInv, FilesInv
  <2>2. new \in ReviewState
    BY <1>0, <2>1 DEF ReviewState
  <2>3. new.orig = rev[r].orig /\ new.id = id /\ new.shown = pending[id] /\ new.pc = "prompt"
    BY <1>0 DEF ReviewState
  <2>4. confirmed' = confirmed
    BY <1>1 DEF Review
  <2>5. Sound(new, confirmed')
    BY <2>1, <2>3, <2>4 DEF Sound, PropInv, RevInv, Active, Locked
  <2>6. rev' = [rev EXCEPT ![r] = new]
    BY <1>1 DEF Review, PropInv, RevInv
  <2> HIDE DEF new
  <2>7. RevInv'
    BY <2>2, <2>4, <2>5, <2>6, RevReplaced DEF PropInv
  <2>8. FilesInv'
    BY <1>1 DEF Review, Private, PropInv, FilesInv
  <2>9. QED
    BY <2>7, <2>8 DEF PropInv
<1>2. ASSUME At(r, "prompt"), Goto(r, "begin"), confirmed' = confirmed \cup {EntryOf(r)},
             Private, UNCHANGED reported
      PROVE  PropInv'
  <2> DEFINE new == [rev[r] EXCEPT !.pc = "begin"]
  <2>1. Carries(r)
    BY <1>2 DEF At, PropInv, RevInv
  <2>2. new \in ReviewState
    BY <1>0 DEF ReviewState, Active
  <2>3. new.orig = rev[r].orig /\ new.id = rev[r].id /\ new.shown = rev[r].shown /\ new.pc = "begin"
    BY <1>0 DEF ReviewState
  <2>4. confirmed \subseteq confirmed' /\ EntryOf(r) \in confirmed'
    BY <1>2
  <2>5. new.orig \in Seq(confirmed')
    BY <2>3, <2>4, SeqGrows DEF PropInv, RevInv
  <2>6. Sound(new, confirmed')
    BY <2>1, <2>3, <2>4, <2>5 DEF Sound, Carries, EntryOf
  <2>7. rev' = [rev EXCEPT ![r] = new]
    BY <1>2 DEF Goto, PropInv, RevInv
  <2> HIDE DEF new
  <2>8. RevInv'
    BY <2>2, <2>4, <2>6, <2>7, RevReplaced DEF PropInv
  <2>9. policy \in Seq(confirmed')
    BY <2>4, SeqGrows DEF PropInv, FilesInv
  <2>10. FilesInv'
    BY <1>2, <2>1, <2>4, <2>9, EntryTyped DEF Private, PropInv, FilesInv
  <2>11. QED
    BY <2>8, <2>10 DEF PropInv
<1>3. ASSUME Finish(r), UNCHANGED confirmed, Private, UNCHANGED reported PROVE PropInv'
  BY <1>3, FinishKeeps DEF Private, PropInv, FilesInv
<1>4. QED
  BY <1>1, <1>2, <1>3 DEF Answer

\* The process that holds the lock rewrites the policy with confirmed texts only.
LEMMA RewriteSteps ==
  ASSUME PropInv, NEW r \in Reviewers,
         AppendCommand(r) \/ AppendDone(r) \/ RollBack(r) \/ RolledBack(r)
  PROVE  PropInv'
<1>1. rev[r].pc \in Active /\ confirmed' = confirmed
  BY DEF AppendCommand, AppendDone, RollBack, RolledBack, At, Active, Locked, Rewriting
<1>2. rev[r].orig \in Seq(confirmed) /\ Merged(r) \in Seq(confirmed)
  BY <1>1 DEF PropInv, RevInv, Merged
<1>3. policy' \in Seq(confirmed) /\ torn' \in BOOLEAN
  BY <1>2, CutOffInSeq DEF AppendCommand, AppendDone, RollBack, RolledBack, Fill
<1>4. RevInv'
  <2>1. "write" \in Active /\ "check" \in Active /\ "restore" \in Active
    BY DEF Active, Locked
  <2>2. QED
    BY <1>1, <2>1, GotoKeeps, FinishKeeps
    DEF PropInv, AppendCommand, AppendDone, RollBack, RolledBack
<1>5. FilesInv'
  <2>1. lock' \in Reviewers \cup {None}
    BY DEF AppendCommand, AppendDone, RollBack, RolledBack, Rewriting, PropInv, FilesInv
  <2>2. UNCHANGED <<now, pending, draft, confirmed, reported, spoiled, faults>>
    BY DEF AppendCommand, AppendDone, RollBack, RolledBack, Rewriting
  <2>3. QED
    BY <1>3, <2>1, <2>2 DEF PropInv, FilesInv
<1>6. QED
  BY <1>4, <1>5 DEF PropInv

\* The transaction starts with the very proposal that was confirmed.
LEMMA LockStep ==
  ASSUME PropInv, NEW r \in Reviewers, Lock(r)
  PROVE  PropInv'
<1> DEFINE new == [rev[r] EXCEPT !.pc = "append", !.orig = policy, !.shown = pending[rev[r].id]]
<1>1. rev[r] \in ReviewState /\ rev[r].pc \in Active
  BY DEF Lock, At, Active, PropInv, RevInv
<1>2. Carries(r) /\ EntryOf(r) \in confirmed /\ pending[rev[r].id] = rev[r].shown
  BY <1>1 DEF Lock, Unchanged, PropInv, RevInv
<1>3. confirmed' = confirmed /\ policy \in Seq(confirmed) /\ policy \in Seq(Entry)
  BY SeqGrows DEF Lock, PropInv, FilesInv
<1>4. new \in ReviewState
  BY <1>1, <1>2, <1>3 DEF ReviewState, Carries, Active, Locked
<1>5. new.orig = policy /\ new.id = rev[r].id /\ new.shown = rev[r].shown /\ new.pc = "append"
  BY <1>1, <1>2 DEF ReviewState
<1>6. Sound(new, confirmed')
  BY <1>2, <1>3, <1>5 DEF Sound, Carries, EntryOf
<1>7. rev' = [rev EXCEPT ![r] = new]
  BY DEF Lock, PropInv, RevInv
<1> HIDE DEF new
<1>8. RevInv'
  BY <1>3, <1>4, <1>6, <1>7, RevReplaced DEF PropInv
<1>9. FilesInv'
  BY DEF Lock, PropInv, FilesInv
<1>10. QED
  BY <1>8, <1>9 DEF PropInv

\* The remaining steps of an approve process.
LEMMA ClosingSteps ==
  ASSUME PropInv, NEW r \in Reviewers,
         \/ StartExpecting(r) \/ LockRefused(r) \/ AppendFails(r) \/ CheckPasses(r)
         \/ SavePending(r) \/ SavePendingFails(r) \/ Crash(r)
  PROVE  PropInv'
<1>1. confirmed' = confirmed
  BY DEF StartExpecting, LockRefused, AppendFails, CheckPasses, SavePending, SavePendingFails,
         Crash, Rewriting
<1>2. Finish(r) \/ (rev[r].pc \in Active /\ \E pc \in Active : Goto(r, pc))
  BY DEF StartExpecting, LockRefused, AppendFails, CheckPasses, SavePending, SavePendingFails,
         Crash, At, Active, Locked
<1>3. RevInv'
  BY <1>1, <1>2, FinishKeeps, GotoKeeps DEF PropInv
<1>4. FilesInv'
  <2>1. CASE StartExpecting(r) \/ LockRefused(r)
    BY <2>1 DEF StartExpecting, LockRefused, Private, PropInv, FilesInv
  <2>2. CASE AppendFails(r) \/ SavePendingFails(r)
    <3>1. faults' \in 0 .. MaxFaults
      BY <2>2, ProposalAssumption DEF AppendFails, SavePendingFails, PropInv, FilesInv
    <3>2. lock' = None /\ spoiled' \in BOOLEAN
      BY <2>2, Zenon DEF AppendFails, SavePendingFails, PropInv, FilesInv
    <3>3. UNCHANGED <<now, policy, torn, pending, draft, confirmed, reported>>
      BY <2>2 DEF AppendFails, SavePendingFails
    <3>4. QED
      BY <3>1, <3>2, <3>3 DEF PropInv, FilesInv
  <2>3. CASE CheckPasses(r)
    BY <2>3 DEF CheckPasses, Rewriting, PropInv, FilesInv
  <2>4. CASE SavePending(r)
    <3>1. EntryOf(r) \in confirmed
      BY <2>4 DEF SavePending, At, Active, Locked, PropInv, RevInv
    <3>2. pending' \in [Ids -> Proposal \cup {None}]
      BY <2>4 DEF SavePending, PropInv, FilesInv
    <3>3. QED
      BY <2>4, <3>1, <3>2 DEF SavePending, PropInv, FilesInv
  <2>5. CASE Crash(r)
    <3>1. spoiled' \in BOOLEAN
      BY <2>5 DEF Crash, PropInv, FilesInv
    <3>2. QED
      BY <2>5, <3>1, ProposalAssumption DEF Crash, PropInv, FilesInv
  <2>6. QED
    BY <2>1, <2>2, <2>3, <2>4, <2>5
<1>5. QED
  BY <1>3, <1>4 DEF PropInv

LEMMA PropStep == PropInv /\ [PropNext]_propVars => PropInv'
<1> SUFFICES ASSUME PropInv, [PropNext]_propVars PROVE PropInv'
  OBVIOUS
<1>1. CASE PropNext
  BY <1>1, OtherSteps, HumanSteps, RewriteSteps, LockStep, ClosingSteps DEF PropNext, ApproveStep
<1>2. CASE UNCHANGED propVars
  BY <1>2 DEF propVars, PropInv, FilesInv, RevInv, Carries, EntryOf
<1>3. QED
  BY <1>1, <1>2

-----------------------------------------------------------------------------
(* The dashboard.                                                          *)

\* The dashboard's own steps leave the two files alone, except for the confirmation
\* that starts its approve process; a read error is the one fault it adds.
LEMMA DashboardSteps ==
  ASSUME [DashNext]_allVars
  PROVE  [PropNext]_propVars \/ ConfirmProposal \/ ReloadBreaksOff
BY DEF DashNext, allVars, Others, WatcherFires, Loop, Keys, Refresh, ReloadFails, ReloadProposals,
       ReloadRequests, ReloadRest, ApproveFinished, MoveCursor, OpenRequest, Escape,
       AnswerRequest, AnswerFails, OpenProposal, Looking

\* A reload that breaks off has only read.
LEMMA BreakOffStep ==
  ASSUME PropInv, ReloadBreaksOff
  PROVE  PropInv'
<1>1. rev' = rev /\ confirmed' = confirmed
  BY DEF ReloadBreaksOff
<1>2. RevInv'
  BY <1>1, RevGrows DEF PropInv
<1>3. faults' \in 0 .. MaxFaults
  BY ProposalAssumption DEF ReloadBreaksOff, PropInv, FilesInv
<1>4. FilesInv'
  BY <1>3 DEF ReloadBreaksOff, PropInv, FilesInv
<1>5. QED
  BY <1>2, <1>4 DEF PropInv

LEMMA ConfirmStep ==
  ASSUME ReviewInv, ConfirmProposal
  PROVE  PropInv'
<1> DEFINE new == [rev[Dash] EXCEPT !.pc = "exec", !.id = reviewed.id, !.shown = reviewed.proposal]
           e == [id |-> reviewed.id, content |-> reviewed.proposal.content]
<1>1. reviewed.id \in Ids /\ reviewed.proposal \in Proposal
  BY DEF ConfirmProposal, Ready, ReviewInv, ShownInv
<1>2. rev[Dash] \in ReviewState /\ Dash \in Reviewers
  BY DashAssumption DEF ReviewInv, PropInv, RevInv
<1>3. new \in ReviewState
  BY <1>1, <1>2 DEF ReviewState, Active
<1>4. /\ new.orig = rev[Dash].orig /\ new.id = reviewed.id
      /\ new.shown = reviewed.proposal /\ new.pc = "exec"
  BY <1>2 DEF ReviewState
<1>5. confirmed' = confirmed \cup {e} /\ e \in Entry
  BY <1>1 DEF ConfirmProposal, Entry, Proposal
<1>6. new.orig \in Seq(confirmed') /\ policy \in Seq(confirmed')
  BY <1>2, <1>4, <1>5, SeqGrows DEF ReviewInv, PropInv, RevInv, FilesInv
<1>7. Sound(new, confirmed')
  BY <1>1, <1>4, <1>5, <1>6 DEF Sound
<1>8. rev' = [rev EXCEPT ![Dash] = new]
  BY <1>2 DEF ConfirmProposal, ReviewInv, PropInv, RevInv
<1> HIDE DEF new, e
<1>9. RevInv'
  BY <1>2, <1>3, <1>5, <1>7, <1>8, RevReplaced DEF ReviewInv, PropInv
<1>10. FilesInv'
  BY <1>5, <1>6 DEF ConfirmProposal, ReviewInv, PropInv, FilesInv
<1>11. QED
  BY <1>9, <1>10 DEF PropInv

\* The list of proposals only takes over what is in the file, a prompt only what is listed.
LEMMA ShownStep ==
  ASSUME ReviewInv, [DashNext]_allVars
  PROVE  ShownInv'
<1>1. CASE ReloadProposals
  BY <1>1 DEF ReloadProposals, Looking, propVars, ReviewInv, PropInv, FilesInv, ShownInv
<1>2. ASSUME NEW id \in Ids, OpenProposal(id) PROVE ShownInv'
  BY <1>2 DEF OpenProposal, ReviewInv, ShownInv
<1>3. CASE OpenRequest \/ AnswerRequest \/ AnswerFails \/ Escape \/ ConfirmProposal
  BY <1>3 DEF OpenRequest, AnswerRequest, AnswerFails, Escape, ConfirmProposal, Close,
              ReviewInv, ShownInv
<1>4. CASE UNCHANGED <<plist, mode, reviewed>>
  BY <1>4 DEF ReviewInv, ShownInv
<1>5. QED
  BY <1>1, <1>2, <1>3, <1>4
  DEF DashNext, allVars, dashVars, uiVars, Others, Elsewhere, WatcherFires, Loop, Keys, Refresh,
      ReloadFails, ReloadBreaksOff, ReloadRequests, ReloadRest, ApproveFinished, MoveCursor

LEMMA ReviewInvariant == DashSpec => []ReviewInv
<1>1. DashInit => ReviewInv
  BY PropInvInit DEF DashInit, ReviewInv, ShownInv, PropInv, FilesInv
<1>2. ReviewInv /\ [DashNext]_allVars => ReviewInv'
  BY PropStep, DashboardSteps, ConfirmStep, BreakOffStep, ShownStep DEF ReviewInv
<1>3. QED
  BY <1>1, <1>2, PTL DEF DashSpec

\* The two files, the calls in flight and the approve processes keep their types.
THEOREM ProposalsTypeCorrect == DashSpec => []PropTypeOK
<1>1. ReviewInv => PropTypeOK
  BY SeqGrows DEF ReviewInv, PropInv, FilesInv, RevInv, PropTypeOK
<1>2. QED
  BY <1>1, ReviewInvariant, PTL

\* Only what a human was shown in full and confirmed, on the command line or in the
\* dashboard, is ever in ironrun.yml, cut off or whole: by the digest check inside the
\* lock, and because every text written consists of confirmed commands.
THEOREM OnlyReviewedCommands == DashSpec => []PolicyIsReviewed
<1>1. ReviewInv => PolicyIsReviewed
  <2> SUFFICES ASSUME ReviewInv, NEW i \in DOMAIN policy PROVE policy[i] \in confirmed
    BY DEF PolicyIsReviewed, Range
  <2>1. policy \in Seq(confirmed)
    BY DEF ReviewInv, PropInv, FilesInv
  <2>2. QED
    BY <2>1
<1>2. QED
  BY <1>1, ReviewInvariant, PTL

-----------------------------------------------------------------------------
(* The policy file survives its rewrites: who holds the lock, and what is  *)
(* on the disk at each point of a rewrite.                                 *)

\* Everything that was reported is in a policy file that is whole.
Whole == ~torn /\ Parses(policy) /\ reported \subseteq Range(policy)

\* The transaction of r starts from a whole file and changes it in this order.
Work(r) ==
  /\ Parses(rev[r].orig) /\ reported \subseteq Range(rev[r].orig)
  /\ rev[r].pc = "append" => ~torn /\ policy = rev[r].orig
  /\ rev[r].pc \in {"write", "restore"} => torn
  /\ rev[r].pc \in {"check", "save"} => ~torn /\ policy = Merged(r)
  /\ rev[r].pc = "save" => Parses(policy)

HoldInv ==
  /\ \A r \in Reviewers : rev[r].pc \in Locked => lock = r
  /\ ~spoiled => /\ (\A r \in Reviewers : rev[r].pc \notin Locked) => Whole
                 /\ \A r \in Reviewers : rev[r].pc \in Locked => Work(r)

\* The dashboard's slot is taken only while its subprocess runs.
SlotInv == phase # "exec" => rev[Dash].pc = "idle"

\* While one process is in its transaction nobody else is.
LEMMA Alone ==
  ASSUME HoldInv, NEW r \in Reviewers, rev[r].pc \in Locked \/ lock = None, NEW q \in Reviewers, q # r
  PROVE  rev[q].pc \notin Locked
BY ProposalAssumption DEF HoldInv

\* Steps outside the transactions.
LEMMA OutsideHolds ==
  ASSUME HoldInv, UNCHANGED <<policy, torn, reported>>, spoiled' = spoiled,
         \A r \in Reviewers : rev[r].pc \in Locked \/ rev'[r].pc \in Locked => rev'[r] = rev[r],
         lock' = lock \/ \A r \in Reviewers : rev[r].pc \notin Locked
  PROVE  HoldInv'
<1>1. ASSUME NEW r \in Reviewers, rev'[r].pc \in Locked PROVE lock' = r
  BY <1>1 DEF HoldInv
<1>2. ASSUME ~spoiled', \A r \in Reviewers : rev'[r].pc \notin Locked PROVE Whole'
  BY <1>2 DEF HoldInv, Whole
<1>3. ASSUME ~spoiled', NEW r \in Reviewers, rev'[r].pc \in Locked PROVE Work(r)'
  <2>1. rev'[r] = rev[r] /\ Work(r)
    BY <1>3 DEF HoldInv
  <2>2. QED
    BY <2>1 DEF Work, Merged, EntryOf
<1>4. QED
  BY <1>1, <1>2, <1>3 DEF HoldInv

\* A step of the one transaction: it goes on ...
LEMMA InsideHolds ==
  ASSUME HoldInv, RevInv, NEW r \in Reviewers, rev[r].pc \in Locked \/ lock = None,
         NEW new, rev' = [rev EXCEPT ![r] = new], lock' = r, ~spoiled' => Work(r)', new.pc \in Locked
  PROVE  HoldInv'
<1>1. rev'[r] = new /\ \A q \in Reviewers \ {r} : rev'[q] = rev[q]
  BY DEF RevInv
<1>2. \A q \in Reviewers \ {r} : rev'[q].pc \notin Locked
  BY <1>1, Alone
<1>3. QED
  BY <1>1, <1>2 DEF HoldInv

\* ... or it ends.
LEMMA FinishHolds ==
  ASSUME HoldInv, RevInv, NEW r \in Reviewers, rev[r].pc \in Locked, Finish(r), ~spoiled' => Whole'
  PROVE  HoldInv'
<1>1. rev'[r] = IdleReview /\ \A q \in Reviewers \ {r} : rev'[q] = rev[q]
  BY DEF RevInv, Finish
<1>2. \A q \in Reviewers : rev'[q].pc \notin Locked
  BY <1>1, Alone DEF IdleReview, Locked
<1>3. QED
  BY <1>2 DEF HoldInv

\* The merged text has the commands it started from and the approved one.
LEMMA MergedHas ==
  ASSUME NEW r \in Reviewers, RevInv
  PROVE  /\ Range(rev[r].orig) \subseteq Range(Merged(r))
         /\ EntryOf(r) \in Range(Merged(r))
<1>1. rev[r].orig \in Seq(confirmed)
  BY DEF RevInv
<1>2. DOMAIN rev[r].orig = 1 .. Len(rev[r].orig) /\ Len(rev[r].orig) \in Nat
  BY <1>1
<1> DEFINE t == Merged(r)
<1>3. /\ DOMAIN t = 1 .. Len(rev[r].orig) + 1
      /\ t[Len(rev[r].orig) + 1] = EntryOf(r)
      /\ \A i \in 1 .. Len(rev[r].orig) : t[i] = rev[r].orig[i]
  BY <1>1 DEF Merged
<1> HIDE DEF t
<1>4. QED
  BY <1>2, <1>3 DEF Range, t

\* A step of a process that keeps what it carries.
LEMMA GotoCarries ==
  ASSUME RevInv, NEW r \in Reviewers, NEW pc, Goto(r, pc)
  PROVE  /\ rev' = [rev EXCEPT ![r] = [rev[r] EXCEPT !.pc = pc]]
         /\ rev'[r].pc = pc /\ rev'[r].orig = rev[r].orig
         /\ Merged(r)' = Merged(r) /\ EntryOf(r)' = EntryOf(r)
<1>1. rev[r] \in ReviewState
  BY DEF RevInv
<1>2. rev' = [rev EXCEPT ![r] = [rev[r] EXCEPT !.pc = pc]]
  BY DEF Goto, RevInv
<1>3. /\ rev'[r].pc = pc /\ rev'[r].orig = rev[r].orig
      /\ rev'[r].id = rev[r].id /\ rev'[r].shown = rev[r].shown
  BY <1>1, <1>2 DEF RevInv, ReviewState
<1>4. QED
  BY <1>2, <1>3 DEF Merged, EntryOf

LEMMA LockHolds ==
  ASSUME HoldInv, PropInv, NEW r \in Reviewers, Lock(r)
  PROVE  HoldInv'
<1> DEFINE new == [rev[r] EXCEPT !.pc = "append", !.orig = policy, !.shown = pending[rev[r].id]]
<1>1. rev[r] \in ReviewState /\ RevInv
  BY DEF PropInv, RevInv
<1>2. new.pc = "append" /\ new.orig = policy
  BY <1>1 DEF ReviewState
<1>3. rev' = [rev EXCEPT ![r] = new] /\ rev'[r] = new
  BY <1>1 DEF Lock, RevInv
<1>4. \A q \in Reviewers : rev[q].pc \notin Locked
  BY ProposalAssumption DEF Lock, HoldInv
<1> HIDE DEF new
<1>5. ~spoiled' => Work(r)'
  BY <1>2, <1>3, <1>4 DEF Lock, HoldInv, Whole, Work
<1>6. QED
  BY <1>1, <1>2, <1>3, <1>5, InsideHolds DEF Lock, Locked

\* The rewrite: truncate, fill, check, roll back.
LEMMA RewriteHolds ==
  ASSUME HoldInv, PropInv, NEW r \in Reviewers,
         \/ AppendCommand(r) \/ AppendDone(r) \/ CheckPasses(r) \/ RollBack(r)
  PROVE  HoldInv'
<1>1. RevInv /\ rev[r].pc \in Locked /\ lock' = r
  BY DEF PropInv, HoldInv, AppendCommand, AppendDone, CheckPasses, RollBack, At, Locked, Rewriting
<1>2. PICK pc \in {"write", "check", "save", "restore"} :
        /\ Goto(r, pc)
        /\ pc \in {"write", "restore"} => torn'
        /\ pc \in {"check", "save"} => policy' = Merged(r) \/ (policy' = policy /\ rev[r].pc = "check")
        /\ pc = "check" => ~torn'
        /\ pc = "save" => rev[r].pc = "check" /\ Parses(policy) /\ UNCHANGED <<policy, torn>>
  BY DEF AppendCommand, AppendDone, CheckPasses, RollBack, CutOff, Fill, MergedParses, At
<1>3. /\ rev'[r].pc = pc /\ rev'[r].orig = rev[r].orig /\ Merged(r)' = Merged(r)
      /\ rev' = [rev EXCEPT ![r] = [rev[r] EXCEPT !.pc = pc]]
  BY <1>1, <1>2, GotoCarries
<1>4. reported' = reported /\ spoiled' = spoiled
  BY DEF AppendCommand, AppendDone, CheckPasses, RollBack, Rewriting
<1>5. ASSUME ~spoiled' PROVE Work(r)'
  <2>1. Work(r)
    BY <1>1, <1>4, <1>5 DEF HoldInv
  <2>2. Parses(rev'[r].orig) /\ reported' \subseteq Range(rev'[r].orig)
    BY <1>3, <1>4, <2>1 DEF Work
  <2>3. pc \in {"check", "save"} => ~torn' /\ policy' = Merged(r)'
    BY <1>2, <1>3, <2>1 DEF Work
  <2>4. pc = "save" => Parses(policy)'
    BY <1>2 DEF Parses
  <2>5. QED
    BY <1>2, <1>3, <2>2, <2>3, <2>4 DEF Work
<1>6. [rev[r] EXCEPT !.pc = pc].pc \in Locked
  BY <1>1, <1>2 DEF RevInv, ReviewState, Locked
<1>7. QED
  BY <1>1, <1>3, <1>5, <1>6, InsideHolds

\* The ends of a transaction.
LEMMA EndHolds ==
  ASSUME HoldInv, PropInv, NEW r \in Reviewers,
         \/ RolledBack(r) \/ SavePending(r) \/ SavePendingFails(r) \/ AppendFails(r)
         \/ Crash(r) /\ rev[r].pc \in Locked
  PROVE  HoldInv'
<1>1. RevInv /\ rev[r].pc \in Locked /\ lock = r /\ Finish(r)
  BY DEF PropInv, HoldInv, RolledBack, SavePending, SavePendingFails, AppendFails, Crash, At, Locked
<1>2. ASSUME ~spoiled' PROVE Whole'
  <2>1. Work(r)
    BY <1>1, <1>2 DEF HoldInv, RolledBack, SavePending, SavePendingFails, AppendFails, Crash
  <2>2. CASE RolledBack(r)
    BY <2>1, <2>2 DEF RolledBack, Fill, Whole, Work, Parses
  <2>3. CASE SavePending(r)
    BY <1>1, <2>1, <2>3, MergedHas DEF SavePending, At, Whole, Work, Parses
  <2>4. CASE SavePendingFails(r)
    BY <1>1, <2>1, <2>4, MergedHas DEF SavePendingFails, At, Whole, Work, Parses
  <2>5. CASE AppendFails(r)
    BY <1>2, <2>5 DEF AppendFails
  <2>6. CASE Crash(r) /\ rev[r].pc \in Locked
    <3>1. UNCHANGED <<policy, torn, reported>> /\ ~torn /\ Parses(policy)
      BY <1>1, <1>2, <2>6 DEF Crash
    <3>2. rev[r].pc \in {"append", "check", "save"}
      BY <1>1, <2>1, <3>1 DEF Work, Locked
    <3>3. reported \subseteq Range(policy)
      BY <1>1, <2>1, <3>2, MergedHas DEF Work
    <3>4. QED
      BY <3>1, <3>3 DEF Whole, Parses
  <2>7. QED
    BY <2>2, <2>3, <2>4, <2>5, <2>6
<1>3. QED
  BY <1>1, <1>2, FinishHolds

\* A process that is not in its transaction.
LEMMA AsideHolds ==
  ASSUME HoldInv, RevInv, NEW r \in Reviewers, rev[r].pc \notin Locked,
         NEW new, new.pc \notin Locked, rev' = [rev EXCEPT ![r] = new],
         UNCHANGED <<policy, torn, reported, lock>>, spoiled' = spoiled
  PROVE  HoldInv'
<1>1. rev'[r] = new /\ \A q \in Reviewers \ {r} : rev'[q] = rev[q]
  BY DEF RevInv
<1>2. QED
  BY <1>1, OutsideHolds

LEMMA AsideSteps ==
  ASSUME HoldInv, PropInv, NEW r \in Reviewers,
         \/ \E id \in Ids : Review(r, id)
         \/ Answer(r) \/ StartExpecting(r) \/ LockRefused(r)
         \/ Crash(r) /\ rev[r].pc \notin Locked
  PROVE  HoldInv'
<1>1. RevInv /\ rev[r] \in ReviewState /\ rev[r].pc \notin Locked
  BY DEF PropInv, RevInv, Review, Answer, StartExpecting, LockRefused, At, Locked
<1>2. \E new : new.pc \notin Locked /\ rev' = [rev EXCEPT ![r] = new]
  <2>1. CASE \E id \in Ids : Review(r, id)
    <3>1. PICK id \in Ids : Review(r, id)
      BY <2>1
    <3> DEFINE new == [rev[r] EXCEPT !.pc = "prompt", !.id = id, !.shown = pending[id]]
    <3>2. new.pc \notin Locked
      BY <1>1 DEF ReviewState, Locked
    <3>3. rev' = [rev EXCEPT ![r] = new]
      BY <1>1, <3>1 DEF Review, RevInv
    <3>4. QED
      BY <3>2, <3>3
  <2>2. CASE Goto(r, "begin")
    <3> DEFINE new == [rev[r] EXCEPT !.pc = "begin"]
    <3>1. new.pc \notin Locked
      BY <1>1 DEF ReviewState, Locked
    <3>2. rev' = [rev EXCEPT ![r] = new]
      BY <1>1, <2>2 DEF Goto, RevInv
    <3>3. QED
      BY <3>1, <3>2
  <2>3. CASE Finish(r)
    BY <2>3 DEF Finish, IdleReview, Locked
  <2>4. QED
    BY <2>1, <2>2, <2>3 DEF Answer, StartExpecting, LockRefused, Crash
<1>3. UNCHANGED <<policy, torn, reported, lock>>
  BY DEF Review, Answer, StartExpecting, LockRefused, Crash, Private
<1>4. spoiled' = spoiled
  <2>1. CASE Crash(r)
    <3>1. ~spoiled => ~(lock = r /\ (torn \/ ~Parses(policy)))
      <4> SUFFICES ASSUME ~spoiled, lock = r PROVE ~torn /\ Parses(policy)
        OBVIOUS
      <4>1. \A q \in Reviewers : rev[q].pc \notin Locked
        BY <1>1 DEF HoldInv
      <4>2. QED
        BY <4>1 DEF HoldInv, Whole
    <3>2. spoiled \in BOOLEAN
      BY DEF PropInv, FilesInv
    <3>3. QED
      BY <2>1, <3>1, <3>2, Zenon DEF Crash
  <2>2. CASE ~Crash(r)
    BY <2>2 DEF Review, Answer, StartExpecting, LockRefused, Private
  <2>3. QED
    BY <2>1, <2>2
<1>5. QED
  BY <1>1, <1>2, <1>3, <1>4, AsideHolds

\* The steps of agents and of the operator.
LEMMA BystanderSteps ==
  ASSUME HoldInv, PropInv,
         \/ PropTick \/ RemoveLock
         \/ \E id \in Ids : Reject(id)
         \/ \E a \in Proposers : ProposeFails(a) \/ ProposeCreate(a)
         \/ \E a \in Proposers, id \in Ids, c \in Contents : ProposeLookup(a, id, c)
  PROVE  HoldInv'
<1>1. UNCHANGED <<policy, torn, reported, rev>> /\ spoiled' = spoiled
  BY DEF PropTick, RemoveLock, Reject, ProposeFails, ProposeCreate, ProposeLookup
<1>2. lock' = lock \/ \A r \in Reviewers : rev[r].pc \notin Locked
  BY DEF PropTick, RemoveLock, Reject, ProposeFails, ProposeCreate, ProposeLookup, HoldInv
<1>3. QED
  BY <1>1, <1>2, OutsideHolds

LEMMA HoldStep == HoldInv /\ PropInv /\ [PropNext]_propVars => HoldInv'
<1> SUFFICES ASSUME HoldInv, PropInv, [PropNext]_propVars PROVE HoldInv'
  OBVIOUS
<1>1. CASE UNCHANGED propVars
  <2>1. UNCHANGED <<policy, torn, reported, rev, lock>> /\ spoiled' = spoiled
    BY <1>1 DEF propVars
  <2>2. QED
    BY <2>1, OutsideHolds
<1>2. CASE PropNext
  BY <1>2, BystanderSteps, AsideSteps, LockHolds, RewriteHolds, EndHolds DEF PropNext, ApproveStep
<1>3. QED
  BY <1>1, <1>2

\* The dashboard runs one approval at a time, and does not confirm in between.
LEMMA SlotStep == SlotInv /\ RevInv /\ [DashNext]_allVars => SlotInv'
<1> SUFFICES ASSUME SlotInv, RevInv, [DashNext]_allVars, phase' # "exec" PROVE rev'[Dash].pc = "idle"
  BY DEF SlotInv
<1>1. CASE rev[Dash].pc = "idle"
  <2>1. CASE rev' = rev
    BY <1>1, <2>1
  <2>2. CASE PropNext /\ rev'[Dash].pc # "prompt"
    <3>1. Dash \in Reviewers
      BY DashAssumption
    <3>2. ASSUME NEW r \in Reviewers, Answer(r) \/ ApproveStep(r) \/ Crash(r)
          PROVE  rev'[Dash] = rev[Dash]
      <4>1. rev[r].pc # "idle"
        BY <3>2
        DEF ApproveStep, Answer, StartExpecting, Lock, LockRefused, AppendCommand, AppendDone,
            AppendFails, CheckPasses, RollBack, RolledBack, SavePending, SavePendingFails,
            Crash, At
      <4>2. r # Dash
        BY <1>1, <4>1
      <4>3. \A q \in Reviewers : q # r => rev'[q] = rev[q]
        BY <3>2
        DEF ApproveStep, Answer, StartExpecting, Lock, LockRefused, AppendCommand, AppendDone,
            AppendFails, CheckPasses, RollBack, RolledBack, SavePending, SavePendingFails,
            Crash, Goto, Finish, RevInv
      <4>4. QED
        BY <3>1, <4>2, <4>3
    <3>3. ASSUME NEW r \in Reviewers, NEW id \in Ids, Review(r, id)
          PROVE  rev'[Dash] = rev[Dash]
      <4>1. rev'[r].pc = "prompt" /\ \A q \in Reviewers : q # r => rev'[q] = rev[q]
        BY <3>3 DEF Review, RevInv, ReviewState
      <4>2. QED
        BY <2>2, <3>1, <4>1
    <3>4. rev'[Dash] = rev[Dash]
      BY <2>2, <3>2, <3>3
      DEF PropNext, PropTick, RemoveLock, Reject, ProposeFails, ProposeCreate, ProposeLookup
    <3>5. QED
      BY <1>1, <3>4
  <2>3. QED
    BY <2>1, <2>2
    DEF DashNext, allVars, propVars, Others, WatcherFires, Loop, Keys, Refresh, ReloadFails,
        ReloadBreaksOff, ReloadProposals, ReloadRequests, ReloadRest, ApproveFinished, MoveCursor,
        OpenRequest, Escape, AnswerRequest, AnswerFails, ConfirmProposal, OpenProposal, Looking
<1>2. CASE rev[Dash].pc # "idle"
  <2>1. phase = "exec" /\ ~ApproveFinished
    BY <1>2 DEF SlotInv, ApproveFinished
  <2>2. QED
    BY <2>1
    DEF DashNext, allVars, dashVars, uiVars, Others, Elsewhere, WatcherFires, Loop, Keys, Refresh,
        ReloadFails, ReloadBreaksOff, ReloadProposals, ReloadRequests, ReloadRest, MoveCursor,
        OpenRequest, Escape, AnswerRequest, AnswerFails, ConfirmProposal, OpenProposal, Ready
<1>3. QED
  BY <1>1, <1>2

\* A confirmation in the dashboard starts no transaction yet.
LEMMA ConfirmHolds == HoldInv /\ SlotInv /\ ReviewInv /\ ConfirmProposal => HoldInv'
<1> SUFFICES ASSUME HoldInv, SlotInv, ReviewInv, ConfirmProposal PROVE HoldInv'
  OBVIOUS
<1> DEFINE new == [rev[Dash] EXCEPT !.pc = "exec", !.id = reviewed.id, !.shown = reviewed.proposal]
<1>1. RevInv /\ Dash \in Reviewers /\ rev[Dash] \in ReviewState /\ rev[Dash].pc = "idle"
  BY DashAssumption DEF ReviewInv, PropInv, RevInv, SlotInv, ConfirmProposal, Ready
<1>2. new.pc \notin Locked /\ rev[Dash].pc \notin Locked
  BY <1>1 DEF ReviewState, Locked
<1>3. rev' = [rev EXCEPT ![Dash] = new]
  BY <1>1 DEF ConfirmProposal, RevInv
<1> HIDE DEF new
<1>4. UNCHANGED <<policy, torn, reported, lock>> /\ spoiled' = spoiled
  BY DEF ConfirmProposal
<1>5. QED
  BY <1>1, <1>2, <1>3, <1>4, AsideHolds

LEMMA BreakOffHolds == HoldInv /\ ReloadBreaksOff => HoldInv'
<1> SUFFICES ASSUME HoldInv, ReloadBreaksOff PROVE HoldInv'
  OBVIOUS
<1>1. UNCHANGED <<policy, torn, reported, rev, lock>> /\ spoiled' = spoiled
  BY DEF ReloadBreaksOff
<1>2. QED
  BY <1>1, OutsideHolds

LEMMA HoldInvariant == DashSpec => [](HoldInv /\ SlotInv)
<1>1. DashInit => HoldInv /\ SlotInv
  <2> SUFFICES ASSUME DashInit PROVE HoldInv /\ SlotInv
    OBVIOUS
  <2>1. \A r \in Reviewers : rev[r].pc = "idle"
    BY DEF DashInit, PropInit, IdleReview
  <2>2. Parses(policy)
    BY DEF DashInit, PropInit, Parses
  <2>3. QED
    BY <2>1, <2>2, DashAssumption DEF DashInit, PropInit, HoldInv, SlotInv, Whole, Locked
<1>2. HoldInv /\ SlotInv /\ ReviewInv /\ [DashNext]_allVars => (HoldInv /\ SlotInv)'
  BY DashboardSteps, HoldStep, ConfirmHolds, BreakOffHolds, SlotStep DEF ReviewInv, PropInv
<1>3. QED
  BY <1>1, <1>2, ReviewInvariant, PTL DEF DashSpec

\* Outside its transactions ironrun.yml is whole and parses, and no transaction drops what
\* was reported as approved, unless a rewrite of the file never finished (approve.go: the
\* lock around AppendCommand, the parse, the roll-back and the save of pending.yml).
THEOREM PolicyFileHolds == DashSpec => []PolicyHolds
<1>1. HoldInv /\ SlotInv /\ ReviewInv => PolicyHolds
  <2> SUFFICES ASSUME HoldInv, ReviewInv, ~spoiled
               PROVE  /\ lock = None => ~torn /\ Parses(policy)
                      /\ ~torn => reported \subseteq Range(policy)
    BY DEF PolicyHolds, PolicyStaysReadable, ReportedStays
  <2>1. CASE \A r \in Reviewers : rev[r].pc \notin Locked
    BY <2>1 DEF HoldInv, Whole
  <2>2. ASSUME NEW r \in Reviewers, rev[r].pc \in Locked
        PROVE  lock # None /\ (~torn => reported \subseteq Range(policy))
    <3>1. lock # None /\ Work(r) /\ RevInv
      BY <2>2, ProposalAssumption DEF HoldInv, ReviewInv, PropInv
    <3>2. QED
      BY <2>2, <3>1, MergedHas DEF Work, Locked
  <2>3. QED
    BY <2>1, <2>2
<1>2. QED
  BY <1>1, HoldInvariant, ReviewInvariant, PTL

\* Nothing that happens in pending.yml replaces a proposal by another one under the same
\* id in one step: it has to be approved or rejected first (pending.Create).
THEOREM PendingImmutable == DashSpec => PendingIsImmutable
<1>1. ASSUME ReviewInv, [DashNext]_allVars, NEW id \in Ids, pending[id] # None, pending'[id] # None
      PROVE  pending'[id] = pending[id]
  <2>1. PropInv
    BY <1>1 DEF ReviewInv
  <2>2. CASE ConfirmProposal \/ ReloadBreaksOff
    BY <2>2 DEF ConfirmProposal, ReloadBreaksOff
  <2>3. CASE [PropNext]_propVars
    <3>1. CASE pending' = pending
      BY <3>1
    <3>2. ASSUME NEW a \in Proposers, ProposeCreate(a) PROVE pending'[id] = pending[id]
      BY <1>1, <2>1, <3>2 DEF ProposeCreate, Staged, PropInv, FilesInv
    <3>3. ASSUME NEW j \in Ids \cup {None}, pending' = [pending EXCEPT ![j] = None]
          PROVE  pending'[id] = pending[id]
      BY <1>1, <2>1, <3>3 DEF PropInv, FilesInv
    <3>4. ASSUME NEW j \in Ids, Reject(j) PROVE pending'[id] = pending[id]
      BY <3>3, <3>4 DEF Reject
    <3>5. ASSUME NEW r \in Reviewers, SavePending(r) PROVE pending'[id] = pending[id]
      <4>1. rev[r].id \in Ids \cup {None}
        BY <2>1 DEF PropInv, RevInv, ReviewState
      <4>2. QED
        BY <3>3, <3>5, <4>1 DEF SavePending
    <3>6. ASSUME NEW r \in Reviewers, ApproveStep(r) PROVE pending'[id] = pending[id]
      BY <3>1, <3>5, <3>6
      DEF ApproveStep, StartExpecting, Lock, LockRefused, AppendCommand, AppendDone, AppendFails,
          CheckPasses, RollBack, RolledBack, SavePendingFails, Private, Rewriting
    <3>7. CASE UNCHANGED propVars
      BY <3>1, <3>7 DEF propVars
    <3>8. CASE PropNext
      BY <3>1, <3>2, <3>4, <3>6, <3>8
      DEF PropNext, PropTick, RemoveLock, ProposeFails, ProposeLookup, Review, Answer, Crash,
          Private
    <3>9. QED
      BY <2>3, <3>7, <3>8
  <2>4. QED
    BY <1>1, <2>2, <2>3, DashboardSteps
<1>2. ReviewInv /\ [DashNext]_allVars =>
        [\A id \in Ids : pending[id] # None /\ pending'[id] # None => pending'[id] = pending[id]]_propVars
  BY <1>1
<1>3. QED
  BY <1>2, ReviewInvariant, PTL DEF DashSpec, PendingIsImmutable

-----------------------------------------------------------------------------
(* What a frame of the dashboard shows.                                    *)

\* The cursor is on the list of requests, except while a reload reads the rest of the files, and
\* when the dashboard could not be drawn.
SelectionInv ==
  phase \notin {"rest", "down"} /\ rlist # <<>> => cursor \in DOMAIN rlist

\* A confirmation is open on what is listed.
FrameInv ==
  /\ DashTypeOK
  /\ SelectionInv
  /\ mode = "command" => plist[reviewed.id] = reviewed.proposal
  /\ StaysUp

LEMMA NewestFirstType ==
  ASSUME NEW S, S \subseteq Requests, NEW list \in NewestFirst(S)
  PROVE  list \in Seq(Requests) /\ Len(list) \in Nat /\ DOMAIN list = 1 .. Len(list)
<1>1. IsFiniteSet(Requests)
  BY FS_Interval, DashAssumption DEF Requests
<1>2. Cardinality(S) \in Nat
  BY <1>1, FS_Subset, FS_CardinalityType
<1>3. list \in [1 .. Cardinality(S) -> Requests]
  BY DEF NewestFirst
<1>4. QED
  BY <1>2, <1>3

\* The end of a reload leaves a frame, or the dashboard is down.
LEMMA EndReloadTypes ==
  ASSUME DashTypeOK, NEW w \in BOOLEAN, EndReload(w)
  PROVE  /\ phase' \in {"idle", "down"} /\ {rearm', behindWatch', refresh'} \subseteq BOOLEAN
         /\ phase' = "idle" /\ rlist' # <<>> => cursor' \in DOMAIN rlist'
         /\ phase' = "down" => ~Drawable
BY DEF EndReload, DashTypeOK, Drawable

\* The cursor is put back on the list.
LEMMA ClampOnList ==
  ASSUME NEW list \in Seq(Requests), NEW c \in Nat \ {0}
  PROVE  /\ Clamp(c, Len(list)) \in Nat \ {0}
         /\ list # <<>> => Clamp(c, Len(list)) \in DOMAIN list
BY DEF Clamp

\* The steps of a reload.
LEMMA ReloadFrames ==
  ASSUME FrameInv, ReviewInv, PropTypeOK',
         ReloadFails \/ ReloadBreaksOff \/ ReloadProposals \/ ReloadRequests \/ ReloadRest
  PROVE  FrameInv'
<1> USE DEF FrameInv, DashTypeOK, SelectionInv, StaysUp
<1>1. CASE ReloadFails
  <2>1. UNCHANGED <<rlist, cursor>> /\ phase = "reload" /\ EndReload(behindSnap)
    BY <1>1 DEF ReloadFails
  <2>2. Drawable
    BY <2>1 DEF Drawable
  <2>3. QED
    BY <1>1, <2>1, <2>2, EndReloadTypes DEF ReloadFails
<1>2. CASE ReloadBreaksOff
  <2>1. UNCHANGED <<rlist, cursor>> /\ EndReload(behindSnap)
    BY <1>2 DEF ReloadBreaksOff
  <2>2. halfway' \in BOOLEAN /\ (phase = "rest" => halfway')
    BY <1>2, Zenon DEF ReloadBreaksOff
  <2>3. phase # "rest" => Drawable
    BY <1>2, <2>1 DEF ReloadBreaksOff, Drawable
  <2>4. QED
    BY <1>2, <2>1, <2>2, <2>3, EndReloadTypes DEF ReloadBreaksOff
<1>3. CASE ReloadProposals
  BY <1>3 DEF ReloadProposals, StillReviewed, Looking, ReviewInv, PropInv, FilesInv
<1>4. CASE ReloadRequests
  <2>1. rlist' \in Seq(Requests)
    BY <1>4, NewestFirstType DEF ReloadRequests
  <2>2. QED
    BY <1>4, <2>1 DEF ReloadRequests
<1>5. CASE ReloadRest
  <2>1. cursor' \in Nat \ {0} /\ (rlist' # <<>> => cursor' \in DOMAIN rlist')
    BY <1>5, ClampOnList DEF ReloadRest
  <2>2. EndReload(FALSE) /\ Drawable
    BY <1>5, <2>1 DEF ReloadRest, Drawable
  <2>3. missed' \in BOOLEAN
    BY <1>5, Zenon DEF ReloadRest
  <2>4. QED
    BY <1>5, <2>1, <2>2, <2>3, EndReloadTypes DEF ReloadRest
<1>6. QED
  BY <1>1, <1>2, <1>3, <1>4, <1>5

LEMMA FrameStep ==
  ASSUME FrameInv, ReviewInv, PropTypeOK', [DashNext]_allVars
  PROVE  FrameInv'
<1> USE DEF FrameInv, DashTypeOK, SelectionInv, StaysUp
<1>1. CASE Others
  <2>1. reqs' \subseteq Requests /\ created' \in 0 .. MaxRequests
    <3>1. CASE Ask
      <4>1. created \in 0 .. MaxRequests /\ reqs \subseteq 1 .. MaxRequests
        BY DEF Requests
      <4>2. created' \in 1 .. MaxRequests
        BY <3>1, <4>1, DashAssumption DEF Ask
      <4>3. reqs' = reqs \cup {created'}
        BY <3>1 DEF Ask
      <4>4. reqs' \subseteq 1 .. MaxRequests
        BY <4>1, <4>2, <4>3
      <4>5. created' \in 0 .. MaxRequests
        BY <4>2
      <4>6. QED
        BY <4>4, <4>5 DEF Requests
    <3>2. CASE ResolvedElsewhere
      BY <3>2 DEF ResolvedElsewhere
    <3>3. CASE Elsewhere
      BY <3>3 DEF Elsewhere
    <3>4. QED
      BY <1>1, <3>1, <3>2, <3>3 DEF Others
  <2>2. UNCHANGED uiVars /\ Touch
    BY <1>1 DEF Others, Elsewhere, uiVars
  <2>3. behindSnap' \in BOOLEAN /\ behindWatch' \in BOOLEAN
    BY <2>2, Zenon DEF Touch
  <2>4. QED
    BY <2>1, <2>2, <2>3 DEF uiVars
<1>2. CASE WatcherFires \/ Refresh \/ ApproveFinished
  BY <1>2 DEF WatcherFires, Refresh, ApproveFinished, Looking
<1>3. CASE MoveCursor
  BY <1>3 DEF MoveCursor, Ready, Looking
<1>4. CASE OpenRequest
  <2>1. rlist[cursor] \in Requests
    BY <1>4 DEF OpenRequest, Ready
  <2>2. QED
    BY <1>4, <2>1 DEF OpenRequest, Ready, Looking
<1>5. CASE Escape \/ AnswerFails
  BY <1>5 DEF Escape, AnswerFails, Close, Looking
<1>6. CASE AnswerRequest
  <2>1. behindSnap' \in BOOLEAN /\ behindWatch' \in BOOLEAN
    BY <1>6, Zenon DEF AnswerRequest, Touch
  <2>2. QED
    BY <1>6, <2>1 DEF AnswerRequest, Close
<1>7. CASE ConfirmProposal
  BY <1>7 DEF ConfirmProposal, Ready
<1>8. ASSUME NEW id \in Ids, OpenProposal(id) PROVE FrameInv'
  BY <1>8 DEF OpenProposal, Looking
<1>9. CASE UNCHANGED allVars
  BY <1>9 DEF allVars, dashVars
<1>10. QED
  BY <1>1, <1>2, <1>3, <1>4, <1>5, <1>6, <1>7, <1>8, <1>9, ReloadFrames DEF DashNext, Loop, Keys

LEMMA FrameInvariant == DashSpec => []FrameInv
<1>1. DashInit /\ PropTypeOK => FrameInv
  <2> SUFFICES ASSUME DashInit, PropTypeOK PROVE FrameInv
    OBVIOUS
  <2>1. plist \in [Ids -> Proposal \cup {None}]
    BY DEF DashInit, PropTypeOK
  <2>2. 0 \in 0 .. MaxRequests /\ <<>> \in Seq(Requests) /\ 1 \in Nat \ {0}
    BY DashAssumption
  <2>3. QED
    BY <2>1, <2>2 DEF DashInit, FrameInv, DashTypeOK, SelectionInv, StaysUp
<1>2. FrameInv /\ ReviewInv /\ PropTypeOK' /\ [DashNext]_allVars => FrameInv'
  BY FrameStep
<1>3. QED
  BY <1>1, <1>2, ReviewInvariant, ProposalsTypeCorrect, PTL DEF DashSpec

\* An open confirmation shows what is listed, and the state keeps its types, however the lists
\* move under it (dashboard.go reload, moveCursor, Update).
THEOREM FramesAreSound == DashSpec => []DashInv
<1>1. FrameInv => DashInv
  BY DEF FrameInv, DashInv, ConfirmationIsCurrent
<1>2. QED
  BY <1>1, FrameInvariant, PTL

\* The cursor can be drawn on the list of requests however it shrinks, except after a reload that
\* broke off between reading the requests and clamping the cursor (dashboard.go 911 to 954).
THEOREM DashboardStaysUp == DashSpec => []StaysUp
<1>1. FrameInv => StaysUp
  BY DEF FrameInv
<1>2. QED
  BY <1>1, FrameInvariant, PTL

-----------------------------------------------------------------------------
(* The watcher.                                                            *)

\* What the lists do not show is noticed by the watcher that runs now, and would be by one that is
\* started on the present snapshot.
NoticeInv ==
  /\ UpToDate \/ behindSnap \/ missed
  /\ StaleIsNoticed

\* A step that changes a file is seen by both snapshots.
LEMMA TouchNotices ==
  ASSUME NoticeInv, Touch, UNCHANGED <<plist, rlist, missed>>, refresh' = refresh
  PROVE  NoticeInv'
<1>1. CASE Files' = Files
  <2>1. UNCHANGED <<pending, reqs>>
    BY <1>1 DEF Files
  <2>2. UpToDate' <=> UpToDate
    BY <2>1 DEF UpToDate
  <2>3. (behindSnap => behindSnap') /\ (behindWatch => behindWatch')
    BY Zenon DEF Touch
  <2>4. QED
    BY <2>2, <2>3 DEF NoticeInv, StaleIsNoticed
<1>2. CASE Files' # Files
  <2>1. behindSnap' /\ behindWatch'
    BY <1>2, Zenon DEF Touch
  <2>2. QED
    BY <2>1 DEF NoticeInv, StaleIsNoticed
<1>3. QED
  BY <1>1, <1>2

\* A reload that fails leaves the old snapshot to the watcher it starts.
LEMMA FailedReloadNotices ==
  ASSUME NoticeInv, EndReload(behindSnap),
         UNCHANGED <<plist, rlist, missed, pending, reqs>>, behindSnap' = behindSnap
  PROVE  NoticeInv'
<1>1. UpToDate' <=> UpToDate
  BY DEF UpToDate
<1>2. CASE rearm
  BY <1>1, <1>2, Zenon DEF EndReload, NoticeInv, StaleIsNoticed
<1>3. CASE ~rearm
  BY <1>1, <1>3, Zenon DEF EndReload, NoticeInv, StaleIsNoticed
<1>4. QED
  BY <1>2, <1>3

LEMMA NoticeStep == NoticeInv /\ [DashNext]_allVars => NoticeInv'
<1> SUFFICES ASSUME NoticeInv, [DashNext]_allVars PROVE NoticeInv'
  OBVIOUS
<1>1. CASE Others \/ AnswerRequest
  BY <1>1, TouchNotices DEF Others, Elsewhere, uiVars, AnswerRequest
<1>2. CASE ReloadFails \/ ReloadBreaksOff
  BY <1>2, FailedReloadNotices DEF ReloadFails, ReloadBreaksOff, propVars
<1>3. CASE ReloadProposals
  <2>1. UpToDate => UpToDate'
    BY <1>3 DEF ReloadProposals, Looking, propVars, UpToDate
  <2>2. QED
    BY <1>3, <2>1 DEF ReloadProposals, Looking, NoticeInv, StaleIsNoticed
<1>4. CASE ReloadRequests
  BY <1>4 DEF ReloadRequests, NoticeInv, StaleIsNoticed
<1>5. CASE ReloadRest
  <2>1. UNCHANGED <<plist, rlist, pending, reqs>> /\ missed' = (plist # pending \/ Range(rlist) # reqs)
    BY <1>5 DEF ReloadRest, propVars
  <2>2. UpToDate' \/ missed'
    BY <2>1, Zenon DEF UpToDate
  <2>3. QED
    BY <2>2 DEF NoticeInv, StaleIsNoticed
<1>6. CASE UNCHANGED <<plist, rlist, missed, pending, reqs>>
           /\ UNCHANGED <<behindSnap, behindWatch>> /\ (refresh => refresh')
  BY <1>6 DEF NoticeInv, StaleIsNoticed, UpToDate
<1>7. QED
  BY <1>1, <1>2, <1>3, <1>4, <1>5, <1>6
  DEF DashNext, allVars, dashVars, propVars, WatcherFires, Loop, Keys, Refresh, ApproveFinished,
      MoveCursor, OpenRequest, Escape, AnswerFails, ConfirmProposal, OpenProposal, Looking

\* Lists that do not show the files are about to be reloaded, whatever changes them and whichever
\* reloads fail, except for what changed between reading them and taking the snapshot
\* (dashboard.go reload, watchCmd).
THEOREM ChangesAreNoticed == DashSpec => []StaleIsNoticed
<1>1. DashInit => NoticeInv
  BY DEF DashInit, NoticeInv, StaleIsNoticed, UpToDate, Range
<1>2. NoticeInv => StaleIsNoticed
  BY DEF NoticeInv
<1>3. QED
  BY <1>1, <1>2, NoticeStep, PTL DEF DashSpec

=============================================================================
