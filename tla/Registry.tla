------------------------------- MODULE Registry -------------------------------
(***************************************************************************)
(* What the per-user Ironrun home holds for all projects: the registry     *)
(* projects.json, and the socket of a server (ironrun daemon run, ironrun  *)
(* serve).                                                                 *)
(*                                                                         *)
(* A registry command loads the file and replaces it in one rename; its    *)
(* mutex is its own, so that commands of two processes overlap.  Project   *)
(* names, remotes and times are display only.                              *)
(***************************************************************************)
EXTENDS Naturals, FiniteSets

CONSTANTS
  Users,      \* processes that run registry commands
  Servers,    \* processes that serve the socket
  ServerKind,       \* server -> "api" (ironrun serve) or "daemon"
  Paths,      \* canonical project directories
  MaxIds,     \* bound: ids drawn
  MaxStarts,  \* bound: commands and servers started
  None

VARIABLES
  file,       \* projects.json: its [id, path] entries
  checkouts,  \* the directories that exist
  user,       \* process -> the command it is in
  nextId,     \* ids drawn so far
  socket,     \* the socket path: what is there, whose, and who may connect
  private,    \* its directory is closed to others
  server,     \* server -> where it is
  raced,      \* history: servers for which another one has bound since their preparation
  starts

regVars == <<file, checkouts, user, nextId, socket, private, server, raced, starts>>

NoCommand == [op |-> "none", pc |-> "idle", id |-> 0, path |-> None, copy |-> {}]

NoSocket == [what |-> "none", owner |-> None, mode |-> None]

Distinct(entries) == \A x, y \in entries : x.id = y.id \/ x.path = y.path => x = y

\* The projects are registered; nothing runs.
RegInit ==
  /\ file \in {f \in SUBSET [id : 1..Cardinality(Paths), path : Paths] :
                Distinct(f) /\ Cardinality(f) = Cardinality(Paths)}
  /\ nextId = Cardinality(file)
  /\ checkouts = Paths
  /\ user = [u \in Users |-> NoCommand]
  /\ socket = NoSocket /\ private = FALSE
  /\ server = [s \in Servers |-> "off"] /\ raced = {} /\ starts = 0

Started == starts < MaxStarts /\ starts' = starts + 1

-----------------------------------------------------------------------------
(* The registry.                                                           *)

\* A checkout is moved away, or is back.
MoveCheckout(path) ==
  /\ Started
  /\ checkouts' = IF path \in checkouts THEN checkouts \ {path} ELSE checkouts \cup {path}
  /\ UNCHANGED <<file, user, nextId, socket, private, server, raced>>

\* load(): a command on a path begins with canonicalPath, which needs the directory.
Load(u, op, id, path) ==
  /\ user[u] = NoCommand /\ Started
  /\ op \in {"register", "repair"} => path \in checkouts
  /\ user' = [user EXCEPT ![u] = [op |-> op, pc |-> "loaded", id |-> id, path |-> path, copy |-> file]]
  /\ UNCHANGED <<file, checkouts, nextId, socket, private, server, raced>>

Finish(u, entries) == file' = entries /\ user' = [user EXCEPT ![u] = NoCommand]

Known(u) == \E x \in user[u].copy : x.path = user[u].path

\* Register: an entry of this path keeps its id, another one gets a random one.
Register(u) ==
  /\ user[u].op = "register"
  /\ IF Known(u) THEN Finish(u, user[u].copy) /\ UNCHANGED nextId
     ELSE /\ nextId < MaxIds /\ nextId' = nextId + 1
          /\ Finish(u, user[u].copy \cup {[id |-> nextId + 1, path |-> user[u].path]})
  /\ UNCHANGED <<checkouts, socket, private, server, raced, starts>>

\* Mutant: the path may belong to another project.
RepairableAnyPath(c) == \E x \in c.copy : x.id = c.id

\* The id is registered and no other project has the path.
Repairable(c) ==
  /\ \E x \in c.copy : x.id = c.id
  /\ \A x \in c.copy : x.path = c.path => x.id = c.id

Repair(u) ==
  LET c == user[u] IN
  /\ c.op = "repair" /\ Repairable(c)
  /\ Finish(u, {x \in c.copy : x.id # c.id} \cup {[id |-> c.id, path |-> c.path]})
  /\ UNCHANGED <<checkouts, nextId, socket, private, server, raced, starts>>

Remove(u) ==
  LET c == user[u] IN
  /\ c.op = "remove" /\ \E x \in c.copy : x.id = c.id
  /\ Finish(u, {x \in c.copy : x.id # c.id})
  /\ UNCHANGED <<checkouts, nextId, socket, private, server, raced, starts>>

\* No such project, path taken, or the save fails before its rename.
CommandFails(u) ==
  /\ user[u].pc = "loaded" /\ Finish(u, file)
  /\ UNCHANGED <<checkouts, nextId, socket, private, server, raced, starts>>

-----------------------------------------------------------------------------
(* The socket.                                                             *)

Goto(s, pc) == server' = [server EXCEPT ![s] = pc]

\* Mutant: what a crash has left is kept.
ClearedNever(s) == socket

\* Whatever socket is there is removed, a live one too.
Cleared(s) == NoSocket

\* prepareSocket: the daemon closes the directory, serve only makes a missing one so; a
\* path that is not a socket is refused.
PrepareSocket(s) ==
  /\ server[s] = "off" /\ Started
  /\ private' = (private \/ ServerKind[s] = "daemon")
  /\ IF socket.what = "file" THEN UNCHANGED <<socket, server>>
     ELSE socket' = Cleared(s) /\ Goto(s, "prepared")
  /\ raced' = raced \ {s}
  /\ UNCHANGED <<file, checkouts, user, nextId>>

\* The mode a new socket has: serve narrows the umask around the call.
BoundMode(s) == IF ServerKind[s] = "api" THEN "owner" ELSE "wide"

\* net.Listen fails when the path exists.
Listen(s) ==
  /\ server[s] = "prepared"
  /\ IF socket.what # "none" THEN Goto(s, "inUse") /\ UNCHANGED <<socket, raced>>
     ELSE /\ socket' = [what |-> "socket", owner |-> s, mode |-> BoundMode(s)]
          /\ Goto(s, "bound")
          /\ raced' = raced \cup (Servers \ {s})
  /\ UNCHANGED <<file, checkouts, user, nextId, private, starts>>

\* Chmod 0600 of whatever is at the path; a missing path ends the server.
Secure(s) ==
  /\ server[s] = "bound"
  /\ IF socket.what = "none" THEN Goto(s, "off") /\ UNCHANGED socket
     ELSE socket' = [socket EXCEPT !.mode = "owner"] /\ Goto(s, "serving")
  /\ UNCHANGED <<file, checkouts, user, nextId, private, raced, starts>>

\* Shutdown: Close and the deferred Remove take away whatever is at the path.
Stop(s) ==
  /\ server[s] \in {"bound", "serving"} /\ Goto(s, "off") /\ socket' = NoSocket
  /\ UNCHANGED <<file, checkouts, user, nextId, private, raced, starts>>

\* The process is killed: the socket stays.  Or it has reported the bind error.
Die(s) ==
  /\ server[s] # "off" /\ Goto(s, "off")
  /\ UNCHANGED <<file, checkouts, user, nextId, socket, private, raced, starts>>

\* Something else is put at the path.
ForeignFile ==
  /\ socket = NoSocket /\ Started /\ socket' = [NoSocket EXCEPT !.what = "file"]
  /\ raced' = Servers
  /\ UNCHANGED <<file, checkouts, user, nextId, private, server>>

RegNext ==
  \/ \E path \in Paths : MoveCheckout(path)
  \/ \E u \in Users :
       \/ \E path \in Paths : Load(u, "register", 0, path) \/ \E id \in 1..nextId : Load(u, "repair", id, path)
       \/ \E id \in 1..nextId : Load(u, "remove", id, None)
       \/ Register(u) \/ Repair(u) \/ Remove(u) \/ CommandFails(u)
  \/ \E s \in Servers : PrepareSocket(s) \/ Listen(s) \/ Secure(s) \/ Stop(s) \/ Die(s)
  \/ ForeignFile

RegSpec == RegInit /\ [][RegNext]_regVars
-----------------------------------------------------------------------------
(* Properties.                                                             *)

RegTypeOK ==
  /\ file \subseteq [id : 1..MaxIds, path : Paths] /\ checkouts \subseteq Paths
  /\ socket.owner \in Servers \cup {None} /\ nextId \in 0..MaxIds /\ starts \in 0..MaxStarts
  /\ \A u \in Users : user[u].copy \subseteq [id : 1..nextId, path : Paths]

\* Repair and Register: a path belongs to one project and an id to one entry, in the file
\* and in every copy about to replace it, however commands overlap (Resolve returns the
\* first match, and a home screen would list the project twice).
ProjectsAreDistinct == Distinct(file) /\ \A u \in Users : Distinct(user[u].copy)

\* prepareSocket: what a killed server leaves behind never keeps the next one from
\* starting; a bind fails only when something was put at the path since the preparation.
StaleSocketIsNoObstacle == \A s \in Servers : server[s] = "inUse" => s \in raced

\* localapi/server.go: the socket "is never visible with wider permissions, even briefly":
\* whenever one of these servers' sockets is there, its mode or its directory keeps other
\* users out, whichever server prepared the path last.
SocketIsOwners ==
  socket.what = "socket" => socket.mode = "owner" \/ private

=============================================================================
