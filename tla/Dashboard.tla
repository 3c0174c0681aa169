------------------------------ MODULE Dashboard ------------------------------
(***************************************************************************)
(* The terminal dashboard as a reviewer, composed with Proposals: its      *)
(* lists of proposals and pending access requests, the cursor, the         *)
(* confirmation prompts, the reload and the file watcher.                  *)
(*                                                                         *)
(* The event loop handles one message at a time (a key, a refresh, the end *)
(* of a subprocess); a reload reads the files one after the other inside   *)
(* one message, while other processes write them.  A watcher goroutine     *)
(* compares the modification times of the files with the ones it was       *)
(* started with and sends one refresh when they differ.  A reload that     *)
(* fails stops where it is: what it has read by then is on the lists, the  *)
(* cursor is not put back on them, and the old snapshot stays.             *)
(*                                                                         *)
(* Requests are numbered in the order of creation; what answering one      *)
(* means is the subject of Access.  Workspace requests behave like lease   *)
(* requests here.                                                          *)
(***************************************************************************)
EXTENDS Proposals, FiniteSets

CONSTANTS
  MaxRequests,  \* bound: requests agents make
  Room,         \* bound: what else may happen, by the number of requests made so far
  Kind,         \* request -> "secret" or "lease"
  Dash          \* the approve process slot the dashboard uses

ASSUME DashAssumption ==
  /\ MaxRequests \in Nat /\ Room \in [0 .. MaxRequests -> Nat]
  /\ Kind \in [1 .. MaxRequests -> {"secret", "lease"}]
  /\ Dash \in Reviewers

VARIABLES
  reqs,        \* the pending requests of access.json
  created,     \* the number of requests made so far
  plist,       \* m.proposals
  rlist,       \* m.requests, newest first
  cursor,      \* m.cursor[focusRequests] (from 1; 1 also when the list is empty)
  mode,        \* m.mode
  reviewed,    \* m.reviewedProposal: its id and content, or None
  phase,       \* where the event loop is
  rearm,       \* the message being handled is the refresh: it restarts the watcher
  behindSnap,  \* the files changed since m.snapshot was taken
  behindWatch, \* the files changed since the snapshot the watcher compares with
  refresh,     \* a refreshMsg is queued (the watcher has returned)
  subject,     \* history: the request the open prompt was opened on, or None
  missed,      \* history: m.snapshot already covered a change that the lists do not show
  halfway      \* history: a reload failed after the requests were read, none succeeded since

dashVars == <<reqs, created, plist, rlist, cursor, mode, reviewed, phase, rearm,
              behindSnap, behindWatch, refresh, subject, missed, halfway>>
allVars == <<propVars, dashVars>>

uiVars == <<plist, rlist, cursor, mode, reviewed, phase, rearm, refresh, subject, missed, halfway>>

Requests == 1 .. MaxRequests

\* access.Requests: sorted by creation time, newest first (the one such list).
NewestFirst(S) ==
  {list \in [1 .. Cardinality(S) -> S] : \A i, j \in DOMAIN list : i < j => list[j] < list[i]}

\* The files the watcher looks at.
Files == <<policy, torn, pending, reqs>>

\* Mutant: the watcher does not look at pending.yml.
TouchBlind ==
  /\ behindSnap' = (behindSnap \/ Files' # Files)
  /\ behindWatch' = (behindWatch \/ <<policy, torn, reqs>>' # <<policy, torn, reqs>>)

\* A step that changed a file leaves the snapshots behind.
Touch ==
  /\ behindSnap' = (behindSnap \/ Files' # Files)
  /\ behindWatch' = (behindWatch \/ Files' # Files)

DashInit ==
  /\ PropInit
  /\ reqs = {} /\ created = 0
  /\ plist = pending /\ rlist = <<>> /\ cursor = 1
  /\ mode = "normal" /\ reviewed = None
  /\ phase = "idle" /\ rearm = FALSE
  /\ behindSnap = FALSE /\ behindWatch = FALSE /\ refresh = FALSE
  /\ subject = None /\ missed = FALSE /\ halfway = FALSE

-----------------------------------------------------------------------------
(* Other processes.                                                        *)

Ask ==
  /\ created < MaxRequests
  /\ created' = created + 1
  /\ reqs' = reqs \cup {created'}

\* Answered from a CLI or lapsed.
ResolvedElsewhere ==
  /\ \E q \in reqs : reqs' = reqs \ {q}
  /\ UNCHANGED created

\* A step on pending.yml and ironrun.yml by another process.
Elsewhere == UNCHANGED <<reqs, created, uiVars>> /\ Touch

Others ==
  \/ (Ask \/ ResolvedElsewhere) /\ UNCHANGED <<propVars, uiVars>> /\ Touch
  \/ PropNext /\ rev'[Dash].pc # "prompt" /\ Elsewhere

-----------------------------------------------------------------------------
(* reload and the watcher.                                                 *)

\* No file changes in a step of the event loop that only reads, and no reload ends.
Looking == UNCHANGED <<propVars, reqs, created, behindSnap, behindWatch, missed, halfway>>

\* 200 ms polling in a goroutine: one message, then it is over.
WatcherFires ==
  /\ behindWatch /\ ~refresh
  /\ refresh' = TRUE
  /\ UNCHANGED <<plist, rlist, cursor, mode, reviewed, phase, rearm, subject>>
  /\ Looking

Refresh ==
  /\ phase = "idle" /\ refresh
  /\ phase' = "reload" /\ rearm' = TRUE
  /\ UNCHANGED <<plist, rlist, cursor, mode, reviewed, refresh, subject>>
  /\ Looking

\* renderWaitingReview indexes the list with the cursor as soon as there is a list.
Drawable == rlist' # <<>> => cursor' \in DOMAIN rlist'

\* End of the message: the frame is drawn (a panic if it cannot be), and the refresh handler starts
\* a watcher on m.snapshot.
EndReload(watched) ==
  /\ phase' = IF Drawable THEN "idle" ELSE "down"
  /\ rearm' = FALSE
  /\ behindWatch' = IF rearm THEN watched ELSE behindWatch
  /\ refresh' = IF rearm THEN FALSE ELSE refresh

\* The policy does not load: the reload ends, the old snapshot stays.
ReloadFails ==
  /\ phase = "reload" /\ (torn \/ ~Parses(policy))
  /\ UNCHANGED <<plist, rlist, cursor, mode, reviewed, subject>>
  /\ EndReload(behindSnap)
  /\ UNCHANGED <<propVars, reqs, created, behindSnap, missed, halfway>>

\* pending.yml, access.json or the environments cannot be read: the reload ends where it is.
ReloadBreaksOff ==
  /\ phase \in {"reload", "requests", "rest"} /\ faults < MaxFaults
  /\ faults' = faults + 1
  /\ UNCHANGED <<plist, rlist, cursor, mode, reviewed, subject, missed>>
  /\ EndReload(behindSnap)
  /\ halfway' = (halfway \/ phase = "rest")
  /\ UNCHANGED <<now, policy, torn, pending, lock, draft, rev, confirmed, reported, spoiled>>
  /\ UNCHANGED <<reqs, created, behindSnap>>

\* Mutant: a proposal is recognised by its id.
StillThere(list) == list[reviewed.id] # None

\* A confirmation survives a reload only if the reviewed proposal is still there,
\* with the same digest.
StillReviewed(list) == list[reviewed.id] = reviewed.proposal

ReloadProposals ==
  /\ phase = "reload" /\ Parses(policy)
  /\ plist' = pending
  /\ mode' = IF mode = "command" /\ ~StillReviewed(plist') THEN "normal" ELSE mode
  /\ phase' = "requests"
  /\ UNCHANGED <<rlist, cursor, reviewed, rearm, refresh, subject>>
  /\ Looking

\* Mutant: the cursor is left alone.
ClampNothing(c, n) == c

\* The cursor stays on its position, inside the list.
Clamp(c, n) == IF n = 0 THEN 1 ELSE IF c > n THEN n ELSE c

\* Requests sweeps and so rewrites access.json before it reads it; when the list was empty the
\* first request is selected.
ReloadRequests ==
  /\ phase = "requests"
  /\ rlist' \in NewestFirst(reqs)
  /\ cursor' = IF rlist = <<>> THEN 1 ELSE cursor
  /\ phase' = "rest"
  /\ behindSnap' = TRUE /\ behindWatch' = TRUE
  /\ UNCHANGED <<plist, mode, reviewed, rearm, refresh, subject, missed, halfway>>
  /\ UNCHANGED <<propVars, reqs, created>>

\* Leases, grants and environments are read; the cursor is put back on the list; the snapshot is
\* taken last: it includes what changed since the files were read.
ReloadRest ==
  /\ phase = "rest"
  /\ cursor' = Clamp(cursor, Len(rlist))
  /\ UNCHANGED <<plist, rlist, mode, reviewed, subject>>
  /\ EndReload(FALSE)
  /\ behindSnap' = FALSE /\ halfway' = FALSE
  /\ missed' = (plist # pending \/ Range(rlist) # reqs)
  /\ UNCHANGED <<propVars, reqs, created>>

-----------------------------------------------------------------------------
(* Keys.                                                                   *)

Ready(m) == phase = "idle" /\ mode = m

MoveCursor ==
  /\ Ready("normal")
  /\ \E d \in {1, -1} : cursor + d \in 1 .. Len(rlist) /\ cursor' = cursor + d
  /\ UNCHANGED <<plist, rlist, mode, reviewed, phase, rearm, refresh, subject>>
  /\ Looking

\* a, Enter or d on the selected request opens a prompt.
OpenRequest ==
  /\ Ready("normal") /\ rlist # <<>>
  /\ \/ mode' = IF Kind[rlist[cursor]] = "secret" THEN "secret" ELSE "approve"
     \/ mode' = "deny"
  /\ subject' = rlist[cursor]
  /\ UNCHANGED <<plist, rlist, cursor, reviewed, phase, rearm, refresh>>
  /\ Looking

OpenProposal(id) ==
  /\ Ready("normal") /\ plist[id] # None
  /\ mode' = "command"
  /\ reviewed' = [id |-> id, proposal |-> plist[id]]
  /\ UNCHANGED <<plist, rlist, cursor, phase, rearm, refresh, subject>>
  /\ Looking

\* The prompt is over.
Close == mode' = "normal" /\ subject' = None

Escape ==
  /\ phase = "idle" /\ mode # "normal"
  /\ Close
  /\ UNCHANGED <<plist, rlist, cursor, reviewed, phase, rearm, refresh>>
  /\ Looking

\* m.selectedRequest(); 0 stands for the zero Request of an empty list.
Selected == IF rlist = <<>> THEN 0 ELSE rlist[cursor]

\* resolveRequest: still pending, and of the kind the operation is for.
Answerable(q) ==
  /\ q \in reqs
  /\ mode = "approve" => Kind[q] = "lease"
  /\ mode = "secret" => Kind[q] = "secret"

\* y or Enter: the operation is applied to the request selected now, then a reload.
AnswerRequest ==
  /\ phase = "idle" /\ mode \in {"approve", "deny", "secret"}
  /\ Answerable(Selected)
  /\ reqs' = reqs \ {Selected}
  /\ Close /\ phase' = "reload"
  /\ UNCHANGED <<plist, rlist, cursor, reviewed, rearm, refresh, missed, halfway>>
  /\ UNCHANGED <<propVars, created>>
  /\ Touch

\* Not answerable any more, or the store refuses: an error message, no reload.
AnswerFails ==
  /\ phase = "idle" /\ mode \in {"approve", "deny", "secret"}
  /\ Close
  /\ UNCHANGED <<plist, rlist, cursor, reviewed, phase, rearm, refresh>>
  /\ Looking

\* y on a proposal: ironrun approve --yes --expected-digest, in the foreground.
ConfirmProposal ==
  /\ Ready("command")
  /\ rev' = [rev EXCEPT ![Dash].pc = "exec", ![Dash].id = reviewed.id,
                        ![Dash].shown = reviewed.proposal]
  /\ confirmed' = confirmed \cup {[id |-> reviewed.id, content |-> reviewed.proposal.content]}
  /\ mode' = "normal" /\ phase' = "exec"
  /\ UNCHANGED <<now, policy, torn, pending, lock, draft, reported, spoiled, faults>>
  /\ UNCHANGED <<plist, rlist, cursor, reviewed, rearm, refresh, subject>>
  /\ UNCHANGED <<reqs, created, behindSnap, behindWatch, missed, halfway>>

\* actionFinishedMsg: the subprocess is over, reload.
ApproveFinished ==
  /\ phase = "exec" /\ rev[Dash].pc = "idle"
  /\ phase' = "reload"
  /\ UNCHANGED <<plist, rlist, cursor, mode, reviewed, rearm, refresh, subject>>
  /\ Looking

\* The steps of the event loop that wait for no key.
Loop ==
  \/ Refresh \/ ReloadFails \/ ReloadBreaksOff \/ ReloadProposals \/ ReloadRequests \/ ReloadRest
  \/ ApproveFinished

Keys ==
  \/ MoveCursor \/ OpenRequest \/ Escape \/ AnswerRequest \/ AnswerFails \/ ConfirmProposal
  \/ \E id \in Ids : OpenProposal(id)

\* Faults and seconds so far, and the proposals and reviews that are under way.
Busy ==
  faults + now + Cardinality({a \in Proposers : draft[a] # None})
    + Cardinality({i \in Ids : pending[i] # None}) + Cardinality({r \in Reviewers : rev[r].pc # "idle"})

DashNext == (Others \/ WatcherFires \/ Loop \/ Keys) /\ Busy' <= Room[created']

DashSpec == DashInit /\ [][DashNext]_allVars

-----------------------------------------------------------------------------
(* Properties.                                                             *)

DashTypeOK ==
  /\ PropTypeOK
  /\ reqs \subseteq Requests /\ created \in 0 .. MaxRequests
  /\ plist \in [Ids -> Proposal \cup {None}]
  /\ rlist \in Seq(Requests) /\ cursor \in Nat \ {0}
  /\ mode \in {"normal", "approve", "deny", "secret", "command"}
  /\ phase \in {"idle", "reload", "requests", "rest", "exec", "down"}
  /\ {behindSnap, behindWatch, refresh, rearm, missed, halfway} \subseteq BOOLEAN
  /\ subject \in Requests \cup {None}

\* However the list of requests shrinks under the cursor, the dashboard can be drawn, unless a
\* reload has failed between the reading of the requests and the clamping of the cursor.
StaysUp == phase = "down" => halfway

\* SECURITY.md: the dashboard preserves the reviewed proposal across refreshes and
\* cancels the confirmation if it changed.
ConfirmationIsCurrent ==
  phase = "idle" /\ mode = "command" => plist[reviewed.id] = reviewed.proposal

\* What a frame of the dashboard may rely on.
DashInv == DashTypeOK /\ ConfirmationIsCurrent

\* The lists show what is on file.
UpToDate == plist = pending /\ Range(rlist) = reqs

\* Whatever other processes do to pending.yml and access.json, and whichever reloads fail: lists
\* that no longer show it are about to be reloaded, because the watcher is behind or its refresh
\* is queued.  The exception is a change that came between the reading of the files and the
\* snapshot: nothing reloads it before the next change.
StaleIsNoticed == UpToDate \/ behindWatch \/ refresh \/ missed

\* The changelog: authorization is pinned to the reviewed request: an answer applies
\* to the request whose prompt the human opened.
AnswersTheReviewed == [][AnswerRequest => Selected = subject]_allVars

\* README.md: requests appear automatically.
RequestsAppear == UpToDate \/ behindWatch \/ refresh

\* The dashboard can always be drawn.
NeverDown == phase # "down"

=============================================================================
