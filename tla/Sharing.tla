-------------------------------- MODULE Sharing --------------------------------
(***************************************************************************)
(* The human's side across projects: the registry commands and the home    *)
(* screens, next to the project whose secret requests travel through       *)
(* Capsules.  A home screen, and the daemon's inbox, read the registry and *)
(* then the requests of every project whose checkout is there, and reading *)
(* saves the expiry sweep.                                                 *)
(*                                                                         *)
(* Proposals are further inbox items and left out.  When a home screen     *)
(* reloads (key r, or a change watchHome has seen) is open.                *)
(***************************************************************************)
EXTENDS Capsules

CONSTANTS
  Users, Servers, ServerKind, Paths, MaxIds, MaxStarts,  \* of Registry
  Homes,    \* processes with a home screen
  Root,     \* the path of the project whose access.json is modelled
  MaxWork   \* bound: calls, and starts, which count as two calls each

ASSUME SharingAssumption ==
  /\ ServerKind \in [Servers -> {"api", "daemon"}] /\ None \notin Paths \cup Servers
  /\ IsFiniteSet(Paths) /\ MaxIds \in Nat /\ Cardinality(Paths) <= MaxIds /\ MaxStarts \in Nat
  /\ Root \in Paths /\ MaxWork \in Nat

VARIABLES file, checkouts, user, nextId, socket, private, server, raced, starts, home

R == INSTANCE Registry

homeVars == <<file, checkouts, user, nextId, socket, private, server, raced, starts>>
shareVars == <<vars, capVars, homeVars, home>>

Closed == [pc |-> "closed", tab |-> "projects", projects |-> {}, inbox |-> {}, cursor |-> 0]

ShareInit == CapInit /\ R!RegInit /\ home = [h \in Homes |-> Closed]

ItemCount(h) == Cardinality(IF h.tab = "inbox" THEN h.inbox ELSE h.projects)

\* The pending requests a project contributes after the sweep.
Inbox(projects) ==
  IF \E x \in projects : x.path = Root /\ Root \in checkouts
  THEN {id \in ReqIds : LivePending(id)} ELSE {}

\* A list that has shrunk takes the cursor with it.
CursorWithin(h) ==
  IF h.cursor < ItemCount(h) THEN h.cursor ELSE IF ItemCount(h) = 0 THEN 0 ELSE ItemCount(h) - 1

\* runGlobalWorkspace, after registering the working directory; a screen that closes
\* and one that reloads read the registry first ...
ReadProjects(h) ==
  /\ \/ home[h].pc = "closed" /\ R!Started
     \/ home[h].pc = "shown" /\ UNCHANGED starts
  /\ home' = [home EXCEPT ![h].pc = "listed", ![h].projects = file]
  /\ UNCHANGED <<vars, capVars, file, checkouts, user, nextId, socket, private, server, raced>>

\* ... and then the requests; what an unreadable project has is left out.
ReadInbox(h) ==
  /\ home[h].pc = "listed"
  /\ \E readable \in BOOLEAN :
       /\ IF readable THEN ListRequests ELSE UNCHANGED vars
       /\ LET items == IF readable THEN Inbox(home[h].projects) ELSE {}
              read == [home[h] EXCEPT !.pc = "shown", !.inbox = items]
          IN home' = [home EXCEPT ![h] = [read EXCEPT !.cursor = CursorWithin(read)]]
  /\ UNCHANGED <<capVars, homeVars>>

\* tab and the arrow keys.
Key(h) ==
  /\ home[h].pc = "shown"
  /\ \/ home' = [home EXCEPT ![h].tab = IF @ = "inbox" THEN "projects" ELSE "inbox", ![h].cursor = 0]
     \/ home[h].cursor > 0 /\ home' = [home EXCEPT ![h].cursor = @ - 1]
     \/ home[h].cursor + 1 < ItemCount(home[h]) /\ home' = [home EXCEPT ![h].cursor = @ + 1]
  /\ UNCHANGED <<vars, capVars, homeVars>>

\* enter on a project whose checkout is there opens its dashboard; q leaves.
Leave(h) ==
  /\ home[h].pc = "shown" /\ home' = [home EXCEPT ![h] = Closed]
  /\ UNCHANGED <<vars, capVars, homeVars>>

\* GET /v1/inbox of the daemon sweeps the requests too.
DaemonInbox(s) ==
  /\ server[s] = "serving" /\ ServerKind[s] = "daemon" /\ Inbox(file) # {}
  /\ ListRequests
  /\ UNCHANGED <<capVars, homeVars, home>>

ShareNext ==
  /\ \/ CapNext /\ UNCHANGED <<homeVars, home>>
     \/ R!RegNext /\ UNCHANGED <<vars, capVars, home>>
     \/ \E h \in Homes : ReadProjects(h) \/ ReadInbox(h) \/ Key(h) \/ Leave(h)
     \/ \E s \in Servers : DaemonInbox(s)
  /\ calls' + 2 * starts' <= MaxWork

ShareSpec == ShareInit /\ [][ShareNext]_shareVars
-----------------------------------------------------------------------------
(* Properties.                                                             *)

\* Every process is in a known state and the histories refer to each other.
ShareTypeOK ==
  /\ CapTypeOK /\ R!RegTypeOK
  /\ \A h \in Homes : home[h].inbox \subseteq ReqIds /\ home[h].projects \subseteq [id : 1..nextId, path : Paths]

\* home.go: whatever went away between two reloads, the cursor of a home screen is on an
\* item of the list it shows, or at the top of an empty one.
CursorIsOnAnItem ==
  \A h \in Homes : home[h].pc = "shown" =>
    home[h].cursor < ItemCount(home[h]) \/ (home[h].cursor = 0 /\ ItemCount(home[h]) = 0)

\* The registry and what the home screen makes of it and of the inboxes.
HomeIsSound == ShareTypeOK /\ R!ProjectsAreDistinct /\ CursorIsOnAnItem

\* The socket of the daemon and of the local API, which share one way to open it.
SocketIsSafe == R!StaleSocketIsNoObstacle /\ R!SocketIsOwners
===============================================================================
