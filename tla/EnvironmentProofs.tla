--------------------------- MODULE EnvironmentProofs ---------------------------
(***************************************************************************)
(* Theorems about Environments for any number of processes, sets, entries, *)
(* values, calls and faults.                                               *)
(***************************************************************************)
EXTENDS Environments, TLAPS

-----------------------------------------------------------------------------
(* Types, and what a call works on at each point.                          *)

\* A metadata file whose active set is there, and that selects one when it has one.
Metadata ==
  {m \in [active : Names \cup {None}, sets : [Names -> SetRecord \cup {None}]] :
     /\ m.active # None => HasSet(m, m.active)
     /\ (\E n \in Names : HasSet(m, n)) => m.active # None}

Cells == [Slots -> Cell \cup {None}]

Documents == [revision : Nat, cells : Cells, sealedBy : Procs \cup {None}]

Ops == {"create", "use", "put", "delete", "remove", "prune", "get", "pull"}

CallRecord ==
  [op : Ops \cup {None}, name : Names \cup {None}, key : Keys \cup {None},
   kind : Kinds \cup {None}, value : Values \cup BOOLEAN \cup Documents \cup {None},
   todo : SUBSET Keys]

Points ==
  {"closed", "init", "key", "create", "load", "ready", "lock", "apply", "store", "erase",
   "eraseLegacy", "commit", "read", "readLegacy", "migrate", "dropLegacy", "replace"}

ProcRecord == [pc : Points, view : Metadata, root : Procs \cup {None}, call : CallRecord]

Listed(m, s) == HasSet(m, s[1]) /\ m.sets[s[1]].entries[s[2]] # None

\* The points of a mutation under the lock, without and with its last one.
Changing == {"apply", "store", "erase", "eraseLegacy"}
Holding == Changing \cup {"commit"}
Reads == {"read", "readLegacy", "migrate", "dropLegacy"}
Initializing == {"key", "create", "load"}

\* A call to Put, and to Delete.
IsPut(c) == c.key \in Keys /\ c.kind \in Kinds /\ c.value \in Values
IsErase(c) == c.op \in {"delete", "remove", "prune"} /\ (c.op = "delete" => c.key \in Keys /\ c.todo \subseteq {c.key})

Shape(r) ==
  LET c == r.call IN
  /\ r.pc \in {"lock", "apply"} =>
       /\ c.name \in Names /\ c.op \in {"create", "use", "put", "delete", "remove", "prune"}
       /\ c.op = "create" => c.value \in BOOLEAN
       /\ c.op = "put" => IsPut(c)
       /\ c.op = "delete" => c.key \in Keys /\ c.todo = {c.key}
  /\ r.pc = "store" => c.name \in Names /\ IsPut(c) /\ HasSet(r.view, c.name)
  /\ r.pc \in {"erase", "eraseLegacy"} => c.name \in Names /\ IsErase(c) /\ HasSet(r.view, c.name)
  /\ r.pc = "eraseLegacy" => c.key \in Keys
  /\ r.pc \in Reads => c.name \in Names /\ c.key \in Keys /\ c.kind \in Kinds
  /\ r.pc = "migrate" => c.value \in Values
  /\ r.pc = "replace" => c.value \in Documents
  /\ r.pc \notin {"closed", "init", "key", "create"} => r.root \in Procs

StoreTypes ==
  /\ now \in Nat /\ calls \in Nat /\ faults \in Nat
  /\ meta \in Metadata
  /\ vault \in Cells /\ revision \in Nat
  /\ legacy \in [Slots -> Values \cup {None}] /\ latest \in [Slots -> Values \cup {None}]
  /\ rootKey \in Procs \cup {None} /\ sealedBy \in Procs \cup {None}
  /\ lock \in Procs \cup {None} /\ initLock \in Procs \cup {None}
  /\ remote \in SUBSET {doc \in Documents : doc.sealedBy \in Procs}
  /\ present \in BOOLEAN /\ upgraded \in BOOLEAN
  /\ lost \in BOOLEAN /\ keyLost \in BOOLEAN /\ misread \in BOOLEAN /\ fromCache \in BOOLEAN

ProcTypes == proc \in [Procs -> ProcRecord] /\ \A p \in Procs : Shape(proc[p])

TypeInv == StoreTypes /\ ProcTypes

-----------------------------------------------------------------------------
(* Metadata files stay metadata files.                                     *)

LEMMA NoMetadata == NoMeta \in Metadata
BY EnvAssumption DEF NoMeta, Metadata, HasSet

\* A new set is a set.
LEMMA NewIsSet ==
  ASSUME NEW x \in Nat \cup {None}
  PROVE  NewSet(x) \in SetRecord
BY EnvAssumption DEF NewSet, SetRecord

\* Create adds a set, and selects it when it is the first.
LEMMA Created ==
  ASSUME NEW m \in Metadata, NEW n \in Names, NEW s \in SetRecord
  PROVE  [active |-> IF m.active = None THEN n ELSE m.active,
          sets |-> [m.sets EXCEPT ![n] = s]] \in Metadata
BY EnvAssumption DEF Metadata, HasSet

\* Use selects a set that is there.
LEMMA Used ==
  ASSUME NEW m \in Metadata, NEW n \in Names, HasSet(m, n)
  PROVE  [m EXCEPT !.active = n] \in Metadata
BY EnvAssumption DEF Metadata, HasSet

\* Put and Delete change one entry of one set, and nothing else.
LEMMA Entered ==
  ASSUME NEW m \in Metadata, NEW n \in Names, HasSet(m, n), NEW k \in Keys,
         NEW kind \in Kinds \cup {None}
  PROVE  /\ WithEntry(m, n, k, kind) \in Metadata
         /\ HasSet(WithEntry(m, n, k, kind), n)
         /\ \A s \in Slots : Listed(WithEntry(m, n, k, kind), s)
              <=> IF s = <<n, k>> THEN kind # None ELSE Listed(m, s)
<1> DEFINE en == [m.sets[n].entries EXCEPT ![k] = kind]
           t == [m.sets[n] EXCEPT !.entries = en]
           ss == [m.sets EXCEPT ![n] = t]
<1>1. m.sets[n] \in SetRecord  BY DEF Metadata, HasSet
<1>2. en \in [Keys -> Kinds \cup {None}] /\ \A j \in Keys : en[j] = IF j = k THEN kind ELSE m.sets[n].entries[j]
  BY <1>1 DEF SetRecord
<1> HIDE DEF en
<1>3. t \in SetRecord /\ t.entries = en  BY <1>1, <1>2 DEF SetRecord
<1> HIDE DEF t
<1>4. /\ ss \in [Names -> SetRecord \cup {None}]
      /\ \A j \in Names : ss[j] = IF j = n THEN t ELSE m.sets[j]
  BY <1>3 DEF Metadata
<1>5. WithEntry(m, n, k, kind) = [m EXCEPT !.sets = ss]  BY DEF WithEntry, en, t
<1> HIDE DEF ss
<1>6. /\ WithEntry(m, n, k, kind).sets = ss /\ WithEntry(m, n, k, kind).active = m.active
      /\ WithEntry(m, n, k, kind) \in [active : Names \cup {None}, sets : [Names -> SetRecord \cup {None}]]
  BY <1>4, <1>5 DEF Metadata
<1>7. \A j \in Names : HasSet(WithEntry(m, n, k, kind), j) <=> HasSet(m, j)
  BY <1>3, <1>4, <1>6, EnvAssumption DEF HasSet
<1>8. WithEntry(m, n, k, kind) \in Metadata
  BY <1>6, <1>7, EnvAssumption DEF Metadata
<1>9. \A s \in Slots : Listed(WithEntry(m, n, k, kind), s)
              <=> IF s = <<n, k>> THEN kind # None ELSE Listed(m, s)
  BY <1>2, <1>3, <1>4, <1>6, <1>7 DEF Listed, Slots
<1> QED  BY <1>7, <1>8, <1>9

\* Remove drops a set; the active set is then another one, or none when none is left.
LEMMA Dropped ==
  ASSUME NEW m \in Metadata, NEW n \in Names, NEW a \in ActiveAfter(m, n)
  PROVE  [active |-> a, sets |-> [m.sets EXCEPT ![n] = None]] \in Metadata
BY EnvAssumption DEF Metadata, HasSet, ActiveAfter

-----------------------------------------------------------------------------
(* What a step does to its process: the record it becomes.                 *)

Becomes(p, d) == d \in ProcRecord /\ proc' = [proc EXCEPT ![p] = d]

SetsView(p, pc, m) == proc' = [proc EXCEPT ![p].pc = pc, ![p].view = m]
SetsRoot(p, pc, x) == proc' = [proc EXCEPT ![p].pc = pc, ![p].root = x]
SetsCall(p, pc, c) == proc' = [proc EXCEPT ![p].pc = pc, ![p].call = c]

\* Only the point changes.
LEMMA GotoMoves ==
  ASSUME proc \in [Procs -> ProcRecord], NEW p \in Procs, NEW pc \in Points, Goto(p, pc)
  PROVE  \E d : /\ Becomes(p, d) /\ d.pc = pc
                /\ d.view = proc[p].view /\ d.root = proc[p].root /\ d.call = proc[p].call
<1> DEFINE d == [proc[p] EXCEPT !.pc = pc]
<1>1. proc' = [proc EXCEPT ![p] = d]  BY DEF Goto
<1>2. /\ d \in ProcRecord /\ d.pc = pc
      /\ d.view = proc[p].view /\ d.root = proc[p].root /\ d.call = proc[p].call
  BY DEF ProcRecord
<1> HIDE DEF d
<1> QED  BY <1>1, <1>2 DEF Becomes

\* The point and the cached metadata change.
LEMMA ViewMoves ==
  ASSUME proc \in [Procs -> ProcRecord], NEW p \in Procs, NEW pc \in Points, NEW m \in Metadata,
         SetsView(p, pc, m)
  PROVE  \E d : /\ Becomes(p, d) /\ d.pc = pc
                /\ d.view = m /\ d.root = proc[p].root /\ d.call = proc[p].call
<1> DEFINE e == [proc[p] EXCEPT !.pc = pc]
           d == [e EXCEPT !.view = m]
<1>1. proc' = [proc EXCEPT ![p] = d]  BY DEF SetsView
<1>2. /\ e \in ProcRecord /\ e.pc = pc
      /\ e.root = proc[p].root /\ e.call = proc[p].call
  BY DEF ProcRecord
<1> HIDE DEF e
<1>3. d \in ProcRecord /\ d.pc = pc /\ d.view = m /\ d.root = proc[p].root /\ d.call = proc[p].call
  BY <1>2 DEF ProcRecord
<1> HIDE DEF d
<1> QED  BY <1>1, <1>3 DEF Becomes

\* The point and the root key change.
LEMMA RootMoves ==
  ASSUME proc \in [Procs -> ProcRecord], NEW p \in Procs, NEW pc \in Points,
         NEW x \in Procs \cup {None}, SetsRoot(p, pc, x)
  PROVE  \E d : /\ Becomes(p, d) /\ d.pc = pc
                /\ d.view = proc[p].view /\ d.root = x /\ d.call = proc[p].call
<1> DEFINE e == [proc[p] EXCEPT !.pc = pc]
           d == [e EXCEPT !.root = x]
<1>1. proc' = [proc EXCEPT ![p] = d]  BY DEF SetsRoot
<1>2. /\ e \in ProcRecord /\ e.pc = pc
      /\ e.view = proc[p].view /\ e.call = proc[p].call
  BY DEF ProcRecord
<1> HIDE DEF e
<1>3. d \in ProcRecord /\ d.pc = pc /\ d.view = proc[p].view /\ d.root = x /\ d.call = proc[p].call
  BY <1>2 DEF ProcRecord
<1> HIDE DEF d
<1> QED  BY <1>1, <1>3 DEF Becomes

\* The point and what the call works on change.
LEMMA CallMoves ==
  ASSUME proc \in [Procs -> ProcRecord], NEW p \in Procs, NEW pc \in Points,
         NEW c \in CallRecord, SetsCall(p, pc, c)
  PROVE  \E d : /\ Becomes(p, d) /\ d.pc = pc
                /\ d.view = proc[p].view /\ d.root = proc[p].root /\ d.call = c
<1> DEFINE e == [proc[p] EXCEPT !.pc = pc]
           d == [e EXCEPT !.call = c]
<1>1. proc' = [proc EXCEPT ![p] = d]  BY DEF SetsCall
<1>2. /\ e \in ProcRecord /\ e.pc = pc
      /\ e.view = proc[p].view /\ e.root = proc[p].root
  BY DEF ProcRecord
<1> HIDE DEF e
<1>3. d \in ProcRecord /\ d.pc = pc /\ d.view = proc[p].view /\ d.root = proc[p].root /\ d.call = c
  BY <1>2 DEF ProcRecord
<1> HIDE DEF d
<1> QED  BY <1>1, <1>3 DEF Becomes

\* The resting call.
LEMMA NoCallIsCall == NoCall \in CallRecord
BY DEF NoCall, CallRecord

\* A call is over: the Manager is ready, with its metadata and its key.
LEMMA FinishMoves ==
  ASSUME proc \in [Procs -> ProcRecord], NEW p \in Procs, Finish(p)
  PROVE  \E d : /\ Becomes(p, d) /\ d.pc = "ready"
                /\ d.view = proc[p].view /\ d.root = proc[p].root /\ d.call = NoCall
<1>1. "ready" \in Points  BY DEF Points
<1>2. SetsCall(p, "ready", NoCall)  BY DEF Finish, SetsCall
<1> QED  BY <1>1, <1>2, NoCallIsCall, CallMoves

\* The process is gone.
LEMMA CloseMoves ==
  ASSUME proc \in [Procs -> ProcRecord], NEW p \in Procs, Close(p)
  PROVE  \E d : Becomes(p, d) /\ d.pc = "closed" /\ d.root = None /\ d.view = NoMeta
<1> DEFINE d == [pc |-> "closed", view |-> NoMeta, root |-> None, call |-> NoCall]
<1>1. d \in ProcRecord  BY NoCallIsCall, NoMetadata DEF ProcRecord, Points
<1>2. proc' = [proc EXCEPT ![p] = d] /\ d.pc = "closed" /\ d.root = None /\ d.view = NoMeta
  BY DEF Close
<1> HIDE DEF d
<1> QED  BY <1>1, <1>2 DEF Becomes

\* The step leaves the record well formed, and the other processes alone.
Moved(p, d) == Becomes(p, d) /\ Shape(d)

LEMMA OneProc ==
  ASSUME ProcTypes, NEW p \in Procs, NEW d, Moved(p, d)
  PROVE  /\ ProcTypes'
         /\ d \in ProcRecord /\ Shape(d) /\ proc'[p] = d
         /\ \A q \in Procs : proc'[q] = IF q = p THEN d ELSE proc[q]
<1>1. proc' = [proc EXCEPT ![p] = d] /\ d \in ProcRecord  BY DEF Moved, Becomes
<1>2. \A q \in Procs : proc'[q] = IF q = p THEN d ELSE proc[q]  BY <1>1 DEF ProcTypes
<1>3. proc' \in [Procs -> ProcRecord]  BY <1>1 DEF ProcTypes
<1>4. Shape(d) /\ \A q \in Procs : Shape(proc[q])  BY DEF ProcTypes, Moved
<1>5. \A q \in Procs : Shape(proc'[q])  BY <1>2, <1>4
<1> QED  BY <1>1, <1>2, <1>3, <1>4, <1>5 DEF ProcTypes

\* What the remote may answer with.
LEMMA Answers ==
  ASSUME StoreTypes
  PROVE  remote \cup {Foreign} \subseteq Documents
BY EnvAssumption DEF StoreTypes, Foreign, Documents, Cells

\* Every call begins in one way.
LEMMA CallBegins ==
  ASSUME NEW p \in Procs, Start(p) \/ \E doc \in remote \cup {Foreign} : StartPull(p, doc)
  PROVE  \E pc, c : Begin(p, pc, c)
BY ZenonT(60) DEF Start, StartCreate, StartUse, StartPut, StartDelete, StartRemove, StartPrune, StartGet, StartPull

\* A call begins: the Manager is as it was.
LEMMA BeginMoves ==
  ASSUME TypeInv, NEW p \in Procs,
         Start(p) \/ \E doc \in remote \cup {Foreign} : StartPull(p, doc)
  PROVE  \E d : /\ Moved(p, d) /\ d.view = proc[p].view /\ d.root = proc[p].root
                /\ \/ d.pc \in {"lock", "read"}
                   \/ d.pc = "replace" /\ d.call.value \in remote \cup {Foreign}
<1>1. proc[p] \in ProcRecord /\ Shape(proc[p]) /\ proc[p].pc = "ready" /\ proc[p].root \in Procs
  BY ZenonT(60) DEF TypeInv, ProcTypes, ProcRecord, Shape, Start, Begin, At, StartCreate, StartUse, StartPut,
         StartDelete, StartRemove, StartPrune, StartGet, StartPull
<1>2. ASSUME NEW pc \in {"lock", "read", "replace"}, NEW c \in CallRecord, Begin(p, pc, c),
             \A d \in ProcRecord : d.pc = pc /\ d.call = c /\ d.root \in Procs => Shape(d)
      PROVE  \E d : Moved(p, d) /\ d.pc = pc /\ d.view = proc[p].view /\ d.root = proc[p].root /\ d.call = c
  <2>1. pc \in Points  BY DEF Points
  <2>2. \E d : /\ Becomes(p, d) /\ d.pc = pc
               /\ d.view = proc[p].view /\ d.root = proc[p].root /\ d.call = c
    <3>1. SetsCall(p, pc, c)  BY <1>2 DEF Begin, SetsCall
    <3>2. proc \in [Procs -> ProcRecord]  BY DEF TypeInv, ProcTypes
    <3> QED  BY <2>1, <3>1, <3>2, CallMoves
  <2> QED  BY <2>2, <1>1, <1>2 DEF Moved, Becomes
<1>3. CASE \E n \in Names, temporary \in BOOLEAN : StartCreate(p, n, temporary)
  <2>1. PICK n \in Names, temporary \in BOOLEAN : StartCreate(p, n, temporary)  BY <1>3
  <2> DEFINE c == [NoCall EXCEPT !.op = "create", !.name = n, !.value = temporary]
  <2>2. c \in CallRecord /\ c.op = "create" /\ c.name = n /\ c.value = temporary
    BY DEF NoCall, CallRecord, Ops
  <2>3. Begin(p, "lock", c)  BY <2>1 DEF StartCreate
  <2> HIDE DEF c
  <2>4. \A d \in ProcRecord : d.pc = "lock" /\ d.call = c /\ d.root \in Procs => Shape(d)
    BY <2>2 DEF Shape, Reads
  <2> QED  BY <1>1, <1>2, <2>2, <2>3, <2>4
<1>4. CASE \E n \in Names : StartUse(p, n) \/ StartRemove(p, n) \/ StartPrune(p, n)
  <2>1. PICK n \in Names, op \in {"use", "remove", "prune"} : Begin(p, "lock", [NoCall EXCEPT !.op = op, !.name = n])
    BY <1>4 DEF StartUse, StartRemove, StartPrune
  <2> DEFINE c == [NoCall EXCEPT !.op = op, !.name = n]
  <2>2. c \in CallRecord /\ c.op = op /\ c.name = n
    BY DEF NoCall, CallRecord, Ops
  <2>3. Begin(p, "lock", c)  BY <2>1
  <2> HIDE DEF c
  <2>4. \A d \in ProcRecord : d.pc = "lock" /\ d.call = c /\ d.root \in Procs => Shape(d)
    BY <2>2 DEF Shape, Reads
  <2> QED  BY <1>1, <1>2, <2>2, <2>3, <2>4
<1>5. CASE \E n \in Names, k \in Keys : StartDelete(p, n, k)
  <2>1. PICK n \in Names, k \in Keys : StartDelete(p, n, k)  BY <1>5
  <2> DEFINE c == [NoCall EXCEPT !.op = "delete", !.name = n, !.key = k, !.todo = {k}]
  <2>2. c \in CallRecord /\ c.op = "delete" /\ c.name = n /\ c.key = k /\ c.todo = {k}
    BY DEF NoCall, CallRecord, Ops
  <2>3. Begin(p, "lock", c)  BY <2>1 DEF StartDelete
  <2> HIDE DEF c
  <2>4. \A d \in ProcRecord : d.pc = "lock" /\ d.call = c /\ d.root \in Procs => Shape(d)
    BY <2>2 DEF Shape, Reads
  <2> QED  BY <1>1, <1>2, <2>2, <2>3, <2>4
<1>6. CASE \E n \in Names, k \in Keys, kind \in Kinds, v \in Values : StartPut(p, n, k, kind, v)
  <2>1. PICK n \in Names, k \in Keys, kind \in Kinds, v \in Values : StartPut(p, n, k, kind, v)  BY <1>6
  <2> DEFINE c == [NoCall EXCEPT !.op = "put", !.name = n, !.key = k, !.kind = kind, !.value = v]
  <2>2. c \in CallRecord /\ c.op = "put" /\ c.name = n /\ c.key = k /\ c.kind = kind /\ c.value = v
    BY DEF NoCall, CallRecord, Ops
  <2>3. Begin(p, "lock", c)  BY <2>1 DEF StartPut
  <2> HIDE DEF c
  <2>4. \A d \in ProcRecord : d.pc = "lock" /\ d.call = c /\ d.root \in Procs => Shape(d)
    BY <2>2 DEF Shape, Reads, IsPut
  <2> QED  BY <1>1, <1>2, <2>2, <2>3, <2>4
<1>7. CASE \E n \in Names, k \in Keys : StartGet(p, n, k)
  <2>1. PICK n \in Names, k \in Keys : StartGet(p, n, k)  BY <1>7
  <2> DEFINE m == proc[p].view
             kind == IF m.sets[n].entries[k] = None THEN "env" ELSE m.sets[n].entries[k]
             c == [NoCall EXCEPT !.op = "get", !.name = n, !.key = k, !.kind = kind]
  <2>2. kind \in Kinds
    <3>1. m.sets[n] \in SetRecord
      BY <2>1, <1>1 DEF StartGet, ProcRecord, Metadata, HasSet
    <3> QED  BY <3>1 DEF SetRecord, Kinds
  <2>3. Begin(p, "read", c)  BY <2>1 DEF StartGet
  <2> HIDE DEF kind
  <2>4. c \in CallRecord /\ c.name = n /\ c.key = k /\ c.kind = kind
    BY <2>2 DEF NoCall, CallRecord, Ops
  <2> HIDE DEF c
  <2>5. \A d \in ProcRecord : d.pc = "read" /\ d.call = c /\ d.root \in Procs => Shape(d)
    BY <2>2, <2>4 DEF Shape, Reads
  <2> QED  BY <1>1, <1>2, <2>3, <2>4, <2>5
<1>8. CASE \E doc \in remote \cup {Foreign} : StartPull(p, doc)
  <2>1. PICK doc \in remote \cup {Foreign} : StartPull(p, doc)  BY <1>8
  <2> DEFINE c == [NoCall EXCEPT !.op = "pull", !.value = doc]
  <2>2. doc \in Documents  BY Answers DEF TypeInv
  <2>3. c \in CallRecord /\ c.value = doc
    BY <2>2 DEF NoCall, CallRecord, Ops
  <2>4. Begin(p, "replace", c)  BY <2>1 DEF StartPull
  <2> HIDE DEF c
  <2>5. \A d \in ProcRecord : d.pc = "replace" /\ d.call = c /\ d.root \in Procs => Shape(d)
    BY <2>2, <2>3 DEF Shape, Reads
  <2> QED  BY <1>1, <1>2, <2>3, <2>4, <2>5
<1> QED  BY <1>3, <1>4, <1>5, <1>6, <1>7, <1>8 DEF Start

\* The lookup of the key answers.
FindsKey(p) == rootKey # None /\ UNCHANGED <<faults, misread>> /\ proc'[p].pc = "load"

\* Opening a Manager, ending it, and the death of its process.
LEMMA OpeningMoves ==
  ASSUME TypeInv, NEW p \in Procs, Opening(p) \/ Exit(p) \/ EnvCrash(p)
  PROVE  \E d : /\ Moved(p, d) /\ d.view \in {meta, NoMeta, proc[p].view}
                /\ \/ OpenMeta(p) /\ d.pc = "init" /\ d.root = proc[p].root
                   \/ LockInit(p) /\ d.pc = "key" /\ d.root = proc[p].root
                   \/ LoadKey(p) /\ FindsKey(p) /\ rootKey # None /\ d.pc = "load" /\ d.root = rootKey
                   \/ LoadKey(p) /\ ~FindsKey(p) /\ d.pc = "create" /\ d.root = proc[p].root
                   \/ CreateKey(p) /\ d.pc = "load" /\ d.root = p
                   \/ LoadVault(p) /\ d.pc = "ready" /\ d.root = proc[p].root
                   \/ (OpenFails(p) \/ Exit(p) \/ EnvCrash(p)) /\ d.pc = "closed" /\ d.root = None
<1>1. proc \in [Procs -> ProcRecord] /\ proc[p] \in ProcRecord /\ Shape(proc[p])
  BY DEF TypeInv, ProcTypes
<1>2. {"init", "key", "load", "create", "ready", "closed"} \subseteq Points  BY DEF Points
<1>3. CASE OpenMeta(p)
  <2>1. \E d : Becomes(p, d) /\ d.pc = "init" /\ d.root = proc[p].root /\ d.view = meta
    <3>1. SetsView(p, "init", meta)  BY <1>3 DEF OpenMeta, SetsView
    <3>2. meta \in Metadata  BY DEF TypeInv, StoreTypes
    <3> QED  BY <1>1, <1>2, <3>1, <3>2, ViewMoves
  <2> QED  BY <2>1, <1>3 DEF Moved, Shape, Reads
<1>4. CASE LockInit(p)
  <2>1. \E d : Becomes(p, d) /\ d.pc = "key" /\ d.root = proc[p].root /\ d.view = proc[p].view
    BY <1>1, <1>2, <1>4, GotoMoves DEF LockInit
  <2> QED  BY <2>1, <1>4 DEF Moved, Shape, Reads
<1>5. CASE LoadKey(p) /\ SetsRoot(p, "load", rootKey) /\ rootKey # None /\ UNCHANGED <<faults, misread>>
  <2>1. rootKey \in Procs  BY <1>5 DEF TypeInv, StoreTypes
  <2>2. PICK d : Becomes(p, d) /\ d.pc = "load" /\ d.root = rootKey /\ d.view = proc[p].view
    BY <1>1, <1>2, <1>5, <2>1, RootMoves
  <2>3. proc'[p] = d  BY <1>1, <2>2 DEF Becomes
  <2>4. FindsKey(p)  BY <1>5, <2>2, <2>3 DEF FindsKey
  <2> QED  BY <2>1, <2>2, <2>4, <1>5 DEF Moved, Shape, Reads
<1>6. CASE LoadKey(p) /\ Goto(p, "create")
  <2>1. PICK d : Becomes(p, d) /\ d.pc = "create" /\ d.root = proc[p].root /\ d.view = proc[p].view
    BY <1>1, <1>2, <1>6, GotoMoves
  <2>2. proc'[p] = d  BY <1>1, <2>1 DEF Becomes
  <2>3. ~FindsKey(p)  BY <2>1, <2>2 DEF FindsKey
  <2> QED  BY <2>1, <2>3, <1>6 DEF Moved, Shape, Reads
<1>7. CASE CreateKey(p)
  <2>1. \E d : Becomes(p, d) /\ d.pc = "load" /\ d.root = p /\ d.view = proc[p].view
    <3>1. SetsRoot(p, "load", p)  BY <1>7 DEF CreateKey, SetsRoot
    <3> QED  BY <1>1, <1>2, <3>1, RootMoves
  <2> QED  BY <2>1, <1>7 DEF Moved, Shape, Reads
<1>8. CASE LoadVault(p)
  <2>1. \E d : Becomes(p, d) /\ d.pc = "ready" /\ d.root = proc[p].root /\ d.view = proc[p].view
    BY <1>1, <1>2, <1>8, GotoMoves DEF LoadVault
  <2>2. proc[p].root \in Procs  BY <1>1, <1>8 DEF LoadVault, At, Shape
  <2> QED  BY <2>1, <2>2, <1>8 DEF Moved, Shape, Reads
<1>9. CASE OpenFails(p) \/ Exit(p) \/ EnvCrash(p)
  <2>1. Close(p)  BY <1>9 DEF OpenFails, Exit, EnvCrash
  <2>2. \E d : Becomes(p, d) /\ d.pc = "closed" /\ d.root = None /\ d.view = NoMeta
    BY <1>1, <2>1, CloseMoves
  <2> QED  BY <2>2, <1>9 DEF Moved, Shape, Reads
<1>10. LoadKey(p) => \/ SetsRoot(p, "load", rootKey) /\ rootKey # None /\ UNCHANGED <<faults, misread>>
                     \/ Goto(p, "create")
  BY DEF LoadKey, SetsRoot
<1> QED  BY <1>3, <1>4, <1>5, <1>6, <1>7, <1>8, <1>9, <1>10 DEF Opening

\* A call ends, with or without success.
LEMMA EndMoves ==
  ASSUME TypeInv, NEW p \in Procs, Finish(p), proc[p].pc \in Points \ {"closed", "init", "key", "create"}
  PROVE  \E d : Moved(p, d) /\ d.pc = "ready" /\ d.view = proc[p].view /\ d.root = proc[p].root
<1>1. proc \in [Procs -> ProcRecord] /\ proc[p] \in ProcRecord /\ Shape(proc[p])
  BY DEF TypeInv, ProcTypes
<1>2. \E d : /\ Becomes(p, d) /\ d.pc = "ready" /\ d.view = proc[p].view
             /\ d.root = proc[p].root
  BY <1>1, FinishMoves
<1>3. proc[p].root \in Procs  BY <1>1 DEF Shape
<1> QED  BY <1>2, <1>3 DEF Moved, Shape, Reads

\* Mutations up to the value store.
LEMMA ApplyMoves ==
  ASSUME TypeInv, NEW p \in Procs,
         LockMeta(p) \/ ApplyCreate(p) \/ ApplyUse(p) \/ ApplyValues(p)
  PROVE  \E d : /\ Moved(p, d) /\ d.root = proc[p].root
                /\ \/ /\ LockMeta(p) /\ d.pc = "apply"
                      /\ d.view = IF present THEN meta ELSE proc[p].view
                   \/ /\ ApplyCreate(p) /\ d.pc = "commit" /\ ~HasSet(proc[p].view, proc[p].call.name)
                      /\ \E s : /\ s.entries = [k \in Keys |-> None]
                                /\ d.view.sets = [proc[p].view.sets EXCEPT ![proc[p].call.name] = s]
                   \/ ApplyUse(p) /\ d.pc = "commit" /\ d.view.sets = proc[p].view.sets
                   \/ /\ ApplyValues(p) /\ d.pc \in {"store", "erase"} /\ d.view = proc[p].view
                      /\ d.call.op = proc[p].call.op /\ d.call.name = proc[p].call.name
                      /\ d.call.key = proc[p].call.key /\ HasSet(d.view, d.call.name)
                      /\ d.pc = "erase" =>
                           IF d.call.op = "delete" THEN d.call.todo = {d.call.key}
                           ELSE d.call.todo = EntryKeys(d.view.sets[d.call.name])
<1> DEFINE c == proc[p].call  m == proc[p].view
<1>1. /\ proc \in [Procs -> ProcRecord] /\ proc[p] \in ProcRecord /\ Shape(proc[p])
      /\ c \in CallRecord /\ m \in Metadata
  BY DEF TypeInv, ProcTypes, ProcRecord
<1>2. {"apply", "commit", "store", "erase"} \subseteq Points  BY DEF Points
<1>3. proc[p].root \in Procs  BY <1>1 DEF Shape, LockMeta, ApplyCreate, ApplyUse, ApplyValues, At
<1>4. CASE LockMeta(p)
  <2> DEFINE v == IF present THEN meta ELSE m
  <2>1. \E d : Becomes(p, d) /\ d.pc = "apply" /\ d.view = v /\ d.root = proc[p].root /\ d.call = c
    <3>1. SetsView(p, "apply", v)  BY <1>4 DEF LockMeta, SetsView
    <3>2. v \in Metadata  BY <1>1 DEF TypeInv, StoreTypes
    <3> HIDE DEF v
    <3> QED  BY <1>1, <1>2, <3>1, <3>2, ViewMoves
  <2> QED  BY <1>1, <1>3, <1>4, <2>1 DEF Moved, Shape, Reads, LockMeta, At
<1>5. CASE ApplyCreate(p)
  <2> DEFINE x == IF c.value THEN now + TTL ELSE None
             n == [active |-> IF m.active = None THEN c.name ELSE m.active,
                   sets |-> [m.sets EXCEPT ![c.name] = NewSet(x)]]
  <2>1. c.value \in BOOLEAN /\ c.name \in Names /\ ~HasSet(m, c.name)
    BY <1>1, <1>5 DEF ApplyCreate, At, Shape
  <2>2. x \in Nat \cup {None}  BY <2>1, EnvAssumption DEF TypeInv, StoreTypes
  <2>3. SetsView(p, "commit", n)  BY <1>5 DEF ApplyCreate, ChangeMeta, SetsView
  <2> HIDE DEF x
  <2>4. n \in Metadata  BY <1>1, <2>1, <2>2, NewIsSet, Created
  <2>5. NewSet(x).entries = [k \in Keys |-> None] /\ n.sets = [m.sets EXCEPT ![c.name] = NewSet(x)]
    BY DEF NewSet
  <2> HIDE DEF n, c, m
  <2>6. \E d : Becomes(p, d) /\ d.pc = "commit" /\ d.view = n /\ d.root = proc[p].root
    BY <1>1, <1>2, <2>3, <2>4, ViewMoves
  <2>7. PICK d : Becomes(p, d) /\ d.pc = "commit" /\ d.view = n /\ d.root = proc[p].root  BY <2>6
  <2>8. Moved(p, d)  BY <1>3, <2>7 DEF Moved, Shape, Reads
  <2> QED  BY <1>5, <2>1, <2>5, <2>7, <2>8 DEF c, m
<1>6. CASE ApplyUse(p)
  <2> DEFINE n == [m EXCEPT !.active = c.name]
  <2>1. c.name \in Names /\ HasSet(m, c.name)
    BY <1>1, <1>6 DEF ApplyUse, At, Shape
  <2>2. n \in Metadata /\ n.sets = m.sets  BY <1>1, <2>1, Used DEF Metadata
  <2>3. SetsView(p, "commit", n)  BY <1>6 DEF ApplyUse, ChangeMeta, SetsView
  <2> HIDE DEF n
  <2>4. \E d : Becomes(p, d) /\ d.pc = "commit" /\ d.view = n /\ d.root = proc[p].root
    BY <1>1, <1>2, <2>2, <2>3, ViewMoves
  <2> QED  BY <1>3, <1>6, <2>2, <2>4 DEF Moved, Shape, Reads
<1>7. CASE ApplyValues(p)
  <2> DEFINE pc == IF c.op = "put" THEN "store" ELSE "erase"
             todo == IF c.op \in {"remove", "prune"} THEN EntryKeys(m.sets[c.name]) ELSE c.todo
             e == [c EXCEPT !.todo = todo]
  <2>1. /\ c.name \in Names /\ HasSet(m, c.name) /\ c.op \in {"put", "delete", "remove", "prune"}
        /\ c.op = "put" => IsPut(c)
        /\ c.op = "delete" => c.key \in Keys /\ c.todo = {c.key}
    BY <1>1, <1>7 DEF ApplyValues, At, Shape
  <2>2. todo \in SUBSET Keys  BY <1>1 DEF CallRecord, EntryKeys
  <2>3. SetsCall(p, pc, e)  BY <1>7 DEF ApplyValues, SetsCall
  <2>4. e \in CallRecord /\ e.todo = todo /\ e.op = c.op /\ e.name = c.name /\ e.key = c.key
        /\ e.kind = c.kind /\ e.value = c.value
    <3> HIDE DEF todo
    <3> QED  BY <1>1, <2>2 DEF CallRecord
  <2> HIDE DEF e
  <2>5. PICK d : Becomes(p, d) /\ d.pc = pc /\ d.view = m /\ d.root = proc[p].root /\ d.call = e
    <3>1. pc \in Points  BY <1>2
    <3> HIDE DEF pc
    <3> QED  BY <1>1, <3>1, <2>3, <2>4, CallMoves
  <2>6. Shape(d)
    BY <1>3, <2>1, <2>4, <2>5 DEF Shape, IsPut, IsErase, Reads
  <2>7. d.pc = "erase" => IF d.call.op = "delete" THEN d.call.todo = {d.call.key}
                          ELSE d.call.todo = EntryKeys(d.view.sets[d.call.name])
    BY <2>1, <2>4, <2>5
  <2> QED  BY <1>7, <2>1, <2>4, <2>5, <2>6, <2>7 DEF Moved
<1> QED  BY <1>4, <1>5, <1>6, <1>7

\* Mutations at the value store.
LEMMA ValueMoves ==
  ASSUME TypeInv, NEW p \in Procs,
         StoreValue(p) \/ (\E k \in Keys : EraseVault(p, k)) \/ EraseLegacy(p) \/ Erased(p)
  PROVE  \E d : /\ Moved(p, d) /\ d.root = proc[p].root
                /\ \/ /\ StoreValue(p) /\ d.pc = "commit"
                      /\ LET c == proc[p].call IN d.view = WithEntry(proc[p].view, c.name, c.key, c.kind)
                   \/ /\ \E k \in Keys : EraseVault(p, k) /\ d.call.key = k
                      /\ d.pc = "eraseLegacy" /\ d.view = proc[p].view
                      /\ d.call.op = proc[p].call.op /\ d.call.name = proc[p].call.name
                      /\ d.call.todo = proc[p].call.todo
                   \/ /\ EraseLegacy(p) /\ d.pc = "erase" /\ d.view = proc[p].view
                      /\ d.call.op = proc[p].call.op /\ d.call.name = proc[p].call.name
                      /\ d.call.key = proc[p].call.key
                      /\ d.call.todo = proc[p].call.todo \ {proc[p].call.key}
                   \/ /\ Erased(p) /\ d.pc = "commit"
                      /\ LET c == proc[p].call IN
                           IF c.op = "delete" THEN d.view = WithEntry(proc[p].view, c.name, c.key, None)
                           ELSE d.view.sets = [proc[p].view.sets EXCEPT ![c.name] = None]
<1> DEFINE c == proc[p].call  m == proc[p].view
<1>1. /\ proc \in [Procs -> ProcRecord] /\ proc[p] \in ProcRecord /\ Shape(proc[p])
      /\ c \in CallRecord /\ m \in Metadata
  BY DEF TypeInv, ProcTypes, ProcRecord
<1>2. {"commit", "erase", "eraseLegacy"} \subseteq Points  BY DEF Points
<1>3. proc[p].root \in Procs
  BY <1>1 DEF Shape, StoreValue, EraseVault, EraseLegacy, Erased, At
<1>4. CASE StoreValue(p)
  <2> DEFINE n == WithEntry(m, c.name, c.key, c.kind)
  <2>1. c.name \in Names /\ c.key \in Keys /\ c.kind \in Kinds /\ HasSet(m, c.name)
    BY <1>1, <1>4 DEF StoreValue, At, Shape, IsPut
  <2>2. n \in Metadata  BY <1>1, <2>1, Entered
  <2>3. SetsView(p, "commit", n)  BY <1>4 DEF StoreValue, SetsView
  <2> HIDE DEF n
  <2>4. \E d : Becomes(p, d) /\ d.pc = "commit" /\ d.view = n /\ d.root = proc[p].root
    BY <1>1, <1>2, <2>2, <2>3, ViewMoves
  <2>5. PICK d : Becomes(p, d) /\ d.pc = "commit" /\ d.view = n /\ d.root = proc[p].root  BY <2>4
  <2>6. Moved(p, d)  BY <1>3, <2>5 DEF Moved, Shape, Reads
  <2> QED  BY <1>4, <2>5, <2>6 DEF n
<1>5. CASE \E k \in Keys : EraseVault(p, k)
  <2>1. PICK k \in Keys : EraseVault(p, k)  BY <1>5
  <2> DEFINE e == [c EXCEPT !.key = k]
  <2>2. /\ c.name \in Names /\ HasSet(m, c.name) /\ IsErase(c) /\ k \in c.todo
    BY <1>1, <2>1 DEF EraseVault, At, Shape
  <2>3. SetsCall(p, "eraseLegacy", e)  BY <2>1 DEF EraseVault, SetsCall
  <2>4. e \in CallRecord /\ e.key = k /\ e.op = c.op /\ e.name = c.name /\ e.todo = c.todo
    BY <1>1 DEF CallRecord
  <2> HIDE DEF e
  <2>5. \E d : Becomes(p, d) /\ d.pc = "eraseLegacy" /\ d.view = m /\ d.root = proc[p].root /\ d.call = e
    BY <1>1, <1>2, <2>3, <2>4, CallMoves
  <2>6. PICK d : Becomes(p, d) /\ d.pc = "eraseLegacy" /\ d.view = m /\ d.root = proc[p].root /\ d.call = e
    BY <2>5
  <2>7. Shape(d)
    BY <1>3, <2>2, <2>4, <2>6 DEF Shape, IsErase, Reads
  <2> QED  BY <2>1, <2>4, <2>6, <2>7 DEF Moved
<1>6. CASE EraseLegacy(p)
  <2> DEFINE todo == c.todo \ {c.key}
             e == [c EXCEPT !.todo = todo]
  <2>1. /\ c.name \in Names /\ HasSet(m, c.name) /\ IsErase(c)
    BY <1>1, <1>6 DEF EraseLegacy, At, Shape
  <2>2. SetsCall(p, "erase", e)  BY <1>6 DEF EraseLegacy, SetsCall
  <2>3. todo \in SUBSET Keys  BY <1>1 DEF CallRecord
  <2>4. e \in CallRecord /\ e.key = c.key /\ e.op = c.op /\ e.name = c.name /\ e.todo = todo
    <3> HIDE DEF todo
    <3> QED  BY <1>1, <2>3 DEF CallRecord
  <2> HIDE DEF e
  <2>5. \E d : Becomes(p, d) /\ d.pc = "erase" /\ d.view = m /\ d.root = proc[p].root /\ d.call = e
    BY <1>1, <1>2, <2>2, <2>4, CallMoves
  <2>6. PICK d : Becomes(p, d) /\ d.pc = "erase" /\ d.view = m /\ d.root = proc[p].root /\ d.call = e
    BY <2>5
  <2>7. Shape(d)
    BY <1>3, <2>1, <2>4, <2>6 DEF Shape, IsErase, Reads
  <2> QED  BY <1>6, <2>4, <2>6, <2>7 DEF Moved
<1>7. CASE Erased(p)
  <2>1. /\ c.name \in Names /\ HasSet(m, c.name) /\ IsErase(c)
    BY <1>1, <1>7 DEF Erased, At, Shape
  <2>2. ASSUME NEW n \in Metadata, ChangeMeta(p, n)
        PROVE  \E d : Moved(p, d) /\ d.pc = "commit" /\ d.view = n /\ d.root = proc[p].root
    <3>1. SetsView(p, "commit", n)  BY <2>2 DEF ChangeMeta, SetsView
    <3>2. \E d : Becomes(p, d) /\ d.pc = "commit" /\ d.view = n /\ d.root = proc[p].root
      BY <1>1, <1>2, <3>1, ViewMoves
    <3> QED  BY <1>3, <3>2 DEF Moved, Shape, Reads
  <2>3. CASE c.op = "delete"
    <3> DEFINE n == WithEntry(m, c.name, c.key, None)
    <3>1. n \in Metadata  BY <1>1, <2>1, <2>3, Entered DEF IsErase
    <3>2. ChangeMeta(p, n)  BY <1>7, <2>3 DEF Erased
    <3> HIDE DEF n
    <3>3. PICK d : Moved(p, d) /\ d.pc = "commit" /\ d.view = n /\ d.root = proc[p].root
      BY <2>2, <3>1, <3>2
    <3> QED  BY <1>7, <2>3, <3>3 DEF n
  <2>4. CASE c.op # "delete"
    <3>1. PICK a \in ActiveAfter(m, c.name) :
            ChangeMeta(p, [active |-> a, sets |-> [m.sets EXCEPT ![c.name] = None]])
      BY <1>7, <2>4 DEF Erased
    <3> DEFINE n == [active |-> a, sets |-> [m.sets EXCEPT ![c.name] = None]]
    <3>2. n \in Metadata /\ n.sets = [m.sets EXCEPT ![c.name] = None]  BY <1>1, <2>1, Dropped
    <3>3. ChangeMeta(p, n)  BY <3>1
    <3> HIDE DEF n
    <3>4. PICK d : Moved(p, d) /\ d.pc = "commit" /\ d.view = n /\ d.root = proc[p].root
      BY <2>2, <3>2, <3>3
    <3> QED  BY <1>7, <2>4, <3>2, <3>4
  <2> QED  BY <2>3, <2>4
<1> QED  BY <1>4, <1>5, <1>6, <1>7

\* The call of a mutation, of a read or of a pull returns.
Returning(p) ==
  \/ ApplyRefused(p) \/ CommitMeta(p) \/ UpdateFails(p) \/ DropLegacy(p) \/ MigrateFails(p) \/ Replace(p)
  \/ ReadVault(p) /\ Finish(p)
  \/ ReadLegacy(p) /\ Finish(p)

LEMMA ReturnMoves ==
  ASSUME TypeInv, NEW p \in Procs, Returning(p)
  PROVE  \E d : Moved(p, d) /\ d.pc = "ready" /\ d.view = proc[p].view /\ d.root = proc[p].root
<1>1. Finish(p)
  BY DEF Returning, ApplyRefused, CommitMeta, UpdateFails, DropLegacy, MigrateFails, Replace
<1>2. proc[p].pc \in Points \ {"closed", "init", "key", "create"}
  BY DEF Returning, ApplyRefused, CommitMeta, UpdateFails, DropLegacy, MigrateFails, Replace,
         ReadVault, ReadLegacy, At, Points
<1> QED  BY <1>1, <1>2, EndMoves

\* Reads that go on.
LEMMA ReadMoves ==
  ASSUME TypeInv, NEW p \in Procs, ReadVault(p) \/ ReadLegacy(p) \/ MigrateValue(p)
  PROVE  \/ Returning(p)
         \/ \E d : /\ Moved(p, d) /\ d.root = proc[p].root /\ d.view = proc[p].view
                   /\ \/ ReadVault(p) /\ d.pc = "readLegacy"
                      \/ /\ ReadLegacy(p) /\ d.pc = "migrate"
                         /\ legacy[<<proc[p].call.name, proc[p].call.key>>] # None
                      \/ MigrateValue(p) /\ d.pc = "dropLegacy" /\ d.call = proc[p].call
<1> DEFINE c == proc[p].call
<1>1. /\ proc \in [Procs -> ProcRecord] /\ proc[p] \in ProcRecord /\ Shape(proc[p])
      /\ c \in CallRecord
  BY DEF TypeInv, ProcTypes, ProcRecord
<1>2. {"readLegacy", "migrate", "dropLegacy"} \subseteq Points  BY DEF Points
<1>3. /\ proc[p].root \in Procs /\ c.name \in Names /\ c.key \in Keys /\ c.kind \in Kinds
  BY <1>1 DEF Shape, ReadVault, ReadLegacy, MigrateValue, At, Reads
<1>4. CASE ReadVault(p)
  <2>1. CASE Finish(p)  BY <2>1, <1>4 DEF Returning
  <2>2. CASE Goto(p, "readLegacy")
    <3>1. \E d : Becomes(p, d) /\ d.pc = "readLegacy" /\ d.root = proc[p].root /\ d.view = proc[p].view /\ d.call = c
      BY <1>1, <1>2, <2>2, GotoMoves
    <3> QED  BY <3>1, <1>3, <1>4 DEF Moved, Shape, Reads
  <2> QED  BY <1>4, <2>1, <2>2 DEF ReadVault
<1>5. CASE ReadLegacy(p) /\ ~Finish(p)
  <2> DEFINE v == legacy[<<c.name, c.key>>]
             e == [c EXCEPT !.value = v]
  <2>1. v # None /\ SetsCall(p, "migrate", e)
    BY <1>5 DEF ReadLegacy, Slot, SetsCall
  <2>2. v \in Values  BY <1>3, <2>1 DEF TypeInv, StoreTypes, Slots
  <2>3. e \in CallRecord /\ e.value = v /\ e.name = c.name /\ e.key = c.key /\ e.kind = c.kind
    <3> HIDE DEF v
    <3> QED  BY <1>1, <2>2 DEF CallRecord
  <2> HIDE DEF e
  <2>4. \E d : Becomes(p, d) /\ d.pc = "migrate" /\ d.root = proc[p].root /\ d.view = proc[p].view /\ d.call = e
    BY <1>1, <1>2, <2>1, <2>3, CallMoves
  <2> QED  BY <1>3, <1>5, <2>1, <2>2, <2>3, <2>4 DEF Moved, Shape, Reads
<1>6. CASE MigrateValue(p)
  <2>1. \E d : Becomes(p, d) /\ d.pc = "dropLegacy" /\ d.root = proc[p].root /\ d.view = proc[p].view /\ d.call = c
    BY <1>1, <1>2, <1>6, GotoMoves DEF MigrateValue
  <2> QED  BY <2>1, <1>3, <1>6 DEF Moved, Shape, Reads
<1> QED  BY <1>4, <1>5, <1>6 DEF Returning

-----------------------------------------------------------------------------
(* Type correctness.                                                       *)

\* A value placed, taken out, or dropped from the keychain, leaves maps of values.
LEMMA SlotWrites ==
  ASSUME StoreTypes, NEW s \in Slots
  PROVE  /\ \A kind, v : v \in Values =>
              [vault EXCEPT ![s] = [form |-> Form(kind), value |-> v]] \in Cells
         /\ [vault EXCEPT ![s] = None] \in Cells
         /\ [legacy EXCEPT ![s] = None] \in [Slots -> Values \cup {None}]
         /\ \A v \in Values \cup {None} : [latest EXCEPT ![s] = v] \in [Slots -> Values \cup {None}]
<1>1. \A kind, v : v \in Values => [form |-> Form(kind), value |-> v] \in Cell
  BY DEF Cell, Form
<1>2. \A kind, v : v \in Values =>
              [vault EXCEPT ![s] = [form |-> Form(kind), value |-> v]] \in Cells
  <2>1. \A x \in Cell : [vault EXCEPT ![s] = x] \in Cells  BY DEF StoreTypes, Cells
  <2> QED  BY <1>1, <2>1
<1> QED  BY <1>2 DEF StoreTypes, Cells

\* A failed call leaves stores of values: with what it has done, or without.
LEMMA FailureTypes ==
  ASSUME TypeInv, NEW p \in Procs, UpdateFails(p) \/ MigrateFails(p)
  PROVE  /\ meta' \in Metadata /\ present' \in BOOLEAN
         /\ vault' \in Cells /\ revision' \in Nat /\ revision' \in {revision, revision + 1}
         /\ sealedBy' \in Procs \cup {None}
         /\ sealedBy' = sealedBy \/ (sealedBy' = proc[p].root /\ Authenticates(p) /\ proc[p].root \in Procs)
         /\ legacy' \in [Slots -> Values \cup {None}] /\ latest' \in [Slots -> Values \cup {None}]
<1>1. StoreTypes /\ ProcTypes /\ proc[p] \in ProcRecord /\ Shape(proc[p])  BY DEF TypeInv, ProcTypes
<1>2. CASE UNCHANGED <<meta, present, vault, revision, sealedBy, legacy, latest>>
  BY <1>1, <1>2 DEF StoreTypes
<1>3. ASSUME NEW s \in Slots, NEW v \in Values, NEW kind, PutVault(p, s, kind, v), Authenticates(p),
             proc[p].root \in Procs
      PROVE  /\ vault' \in Cells /\ revision' \in Nat /\ revision' \in {revision, revision + 1}
             /\ sealedBy' = proc[p].root
  <2>1. [vault EXCEPT ![s] = [form |-> Form(kind), value |-> v]] \in Cells  BY <1>1, SlotWrites
  <2>2. revision \in Nat  BY <1>1 DEF StoreTypes
  <2> QED  BY <1>3, <2>1, <2>2 DEF PutVault, Seal
<1>4. CASE UpdateFails(p) /\ StoresAnyway(p)
  <2>1. Slot(p) \in Slots /\ proc[p].call.value \in Values /\ proc[p].root \in Procs
    BY <1>1, <1>4 DEF StoresAnyway, At, Shape, IsPut, Slots, Slot
  <2>2. latest' \in [Slots -> Values \cup {None}]
    BY <1>1, <1>4, <2>1, SlotWrites DEF StoresAnyway
  <2> QED  BY <1>1, <1>3, <1>4, <2>1, <2>2 DEF StoresAnyway, StoreTypes
<1>5. CASE UpdateFails(p) /\ CommitsAnyway(p)
  BY <1>1, <1>5 DEF CommitsAnyway, StoreTypes, ProcRecord
<1>6. CASE UpdateFails(p) /\ ErasesAnyway(p)
  <2>1. PICK k \in proc[p].call.todo, gone \in BOOLEAN :
       LET s == <<proc[p].call.name, k>>
       IN /\ legacy' = [legacy EXCEPT ![s] = None]
          /\ IF gone /\ Authenticates(p) /\ vault[s] # None
             THEN Seal(p, [vault EXCEPT ![s] = None])
             ELSE UNCHANGED <<vault, revision, sealedBy>>
          /\ latest' = IF vault'[s] = None THEN [latest EXCEPT ![s] = None] ELSE latest
    BY <1>6 DEF ErasesAnyway
  <2>2. <<proc[p].call.name, k>> \in Slots /\ proc[p].root \in Procs
    BY <1>1, <1>6, <2>1 DEF ErasesAnyway, At, Shape, Slots, ProcRecord, CallRecord
  <2>3. legacy' \in [Slots -> Values \cup {None}] /\ latest' \in [Slots -> Values \cup {None}]
    BY <1>1, <2>1, <2>2, SlotWrites DEF StoreTypes
  <2>4. /\ vault' \in Cells /\ revision' \in Nat /\ revision' \in {revision, revision + 1}
        /\ sealedBy' = sealedBy \/ (sealedBy' = proc[p].root /\ Authenticates(p))
    BY <1>1, <2>1, <2>2, SlotWrites DEF StoreTypes, Seal
  <2> QED  BY <1>1, <1>6, <2>2, <2>3, <2>4 DEF ErasesAnyway, StoreTypes
<1>7. CASE MigrateFails(p)
  <2>1. Slot(p) \in Slots /\ proc[p].call.value \in Values /\ proc[p].root \in Procs
    BY <1>1, <1>7 DEF MigrateFails, At, Shape, Slots, Slot, Reads
  <2>2. UNCHANGED <<meta, present, legacy, latest>>  BY <1>7 DEF MigrateFails, history
  <2> QED  BY <1>1, <1>3, <1>7, <2>1, <2>2 DEF MigrateFails, StoreTypes
<1> QED  BY <1>2, <1>4, <1>5, <1>6, <1>7 DEF UpdateFails

LEMMA TypesStep ==
  ASSUME TypeInv, EnvNext
  PROVE  TypeInv'
<1> USE DEF stores, sync, history
<1>1. StoreTypes /\ ProcTypes  BY DEF TypeInv
<1>2. CASE EnvTick
  BY <1>1, <1>2 DEF EnvTick, TypeInv, StoreTypes, ProcTypes
<1>3. CASE LoseKey
  BY <1>1, <1>3, EnvAssumption DEF LoseKey, Fault, TypeInv, StoreTypes, ProcTypes
<1>4. CASE LoseVault
  <2>1. vault' \in Cells  BY <1>4 DEF LoseVault, Cells
  <2> QED  BY <1>1, <1>4, <2>1 DEF LoseVault, Fault, TypeInv, StoreTypes, ProcTypes
<1>13. CASE LoseMeta
  <2>1. fromCache' \in BOOLEAN  BY <1>1, <1>13 DEF LoseMeta, StoreTypes
  <2>2. meta' \in Metadata  BY <1>13, NoMetadata DEF LoseMeta
  <2>3. ProcTypes'  BY <1>1, <1>13 DEF LoseMeta, ProcTypes
  <2>4. /\ UNCHANGED <<now, remote, lost, keyLost, misread, vault, revision, legacy, rootKey, sealedBy, lock,
                        initLock, calls, latest, upgraded>>
        /\ faults' = faults + 1
    BY <1>13 DEF LoseMeta, Fault
  <2>5. present' \in BOOLEAN  BY <1>13, Zenon DEF LoseMeta
  <2>6. StoreTypes'  BY <1>1, <2>1, <2>2, <2>4, <2>5 DEF StoreTypes
  <2> QED  BY <2>3, <2>6 DEF TypeInv
<1>5. ASSUME NEW p \in Procs, Push(p)  PROVE TypeInv'
  <2>1. Document \in Documents /\ Document.sealedBy = sealedBy /\ sealedBy \in Procs
    BY <1>1, <1>5 DEF StoreTypes, Push, Document, Documents
  <2>2. remote' \in SUBSET {doc \in Documents : doc.sealedBy \in Procs}
    BY <1>1, <1>5, <2>1 DEF StoreTypes, Push
  <2> QED  BY <1>1, <1>5, <2>2 DEF Push, TypeInv, StoreTypes, ProcTypes
<1>6. ASSUME NEW p \in Procs, Start(p) \/ \E doc \in remote \cup {Foreign} : StartPull(p, doc)
      PROVE  TypeInv'
  <2>1. ProcTypes'  BY <1>1, <1>6, BeginMoves, OneProc
  <2>2. PICK pc, c : Begin(p, pc, c)  BY <1>6, CallBegins
  <2>3. StoreTypes'
    BY <1>1, <2>2 DEF StoreTypes, Begin
  <2> QED  BY <2>1, <2>3 DEF TypeInv
<1>7. ASSUME NEW p \in Procs, Opening(p) \/ Exit(p) \/ EnvCrash(p)
      PROVE  TypeInv'
  <2>1. ProcTypes'  BY <1>1, <1>7, OpeningMoves, OneProc
  <2>2. CASE Opening(p)
    <3>1. rootKey' \in Procs \cup {None} /\ initLock' \in Procs \cup {None} /\ misread' \in BOOLEAN
      BY <1>1, <2>2 DEF StoreTypes, Opening, OpenMeta, LockInit, LoadKey, CreateKey, OpenFails, LoadVault
    <3> QED
      BY <1>1, <2>1, <2>2, <3>1 DEF TypeInv, StoreTypes, Opening, OpenMeta, LockInit, LoadKey, CreateKey,
         OpenFails, LoadVault, Fault
  <2>3. CASE Exit(p) \/ EnvCrash(p)
    BY <1>1, <2>1, <2>3 DEF TypeInv, StoreTypes, Exit, EnvCrash, Fault
  <2> QED  BY <1>7, <2>1, <2>2, <2>3 DEF TypeInv, StoreTypes
<1>8. ASSUME NEW p \in Procs, LockMeta(p) \/ ApplyCreate(p) \/ ApplyUse(p) \/ ApplyValues(p)
      PROVE  TypeInv'
  <2>1. ProcTypes'  BY <1>1, <1>8, ApplyMoves, OneProc
  <2>2. StoreTypes'
    BY <1>1, <1>8 DEF StoreTypes, LockMeta, ApplyCreate, ApplyUse, ApplyValues, ChangeMeta
  <2> QED  BY <2>1, <2>2 DEF TypeInv
<1>9. ASSUME NEW p \in Procs,
             StoreValue(p) \/ (\E k \in Keys : EraseVault(p, k)) \/ EraseLegacy(p) \/ Erased(p)
      PROVE  TypeInv'
  <2>1. ProcTypes'  BY <1>1, <1>9, ValueMoves, OneProc
  <2>2. proc[p] \in ProcRecord /\ Shape(proc[p])  BY <1>1 DEF ProcTypes
  <2>3. CASE StoreValue(p)
    <3>1. <<proc[p].call.name, proc[p].call.key>> \in Slots /\ proc[p].call.value \in Values
          /\ proc[p].root \in Procs
      BY <2>2, <2>3 DEF StoreValue, At, Shape, IsPut, Slots
    <3>2. vault' \in Cells /\ latest' \in [Slots -> Values \cup {None}]
      BY <1>1, <2>3, <3>1, SlotWrites DEF StoreValue, PutVault, Seal
    <3> QED  BY <1>1, <2>1, <2>3, <3>1, <3>2 DEF StoreValue, PutVault, Seal, TypeInv, StoreTypes
  <2>4. CASE \E k \in Keys : EraseVault(p, k)
    <3>1. PICK k \in Keys : EraseVault(p, k)  BY <2>4
    <3>2. <<proc[p].call.name, k>> \in Slots  BY <2>2, <3>1 DEF EraseVault, At, Shape, Slots
    <3>3. vault' \in Cells /\ latest' \in [Slots -> Values \cup {None}]
      BY <1>1, <3>1, <3>2, SlotWrites DEF EraseVault
    <3> QED  BY <1>1, <2>1, <3>1, <3>3 DEF EraseVault, TypeInv, StoreTypes
  <2>5. CASE EraseLegacy(p)
    <3>1. <<proc[p].call.name, proc[p].call.key>> \in Slots  BY <2>2, <2>5 DEF EraseLegacy, At, Shape, Slots
    <3>2. legacy' \in [Slots -> Values \cup {None}]
      BY <1>1, <2>5, <3>1, SlotWrites DEF EraseLegacy
    <3> QED  BY <1>1, <2>1, <2>5, <3>2 DEF EraseLegacy, TypeInv, StoreTypes
  <2>6. CASE Erased(p)
    BY <1>1, <2>1, <2>6 DEF Erased, ChangeMeta, TypeInv, StoreTypes
  <2> QED  BY <1>9, <2>3, <2>4, <2>5, <2>6
<1>10. ASSUME NEW p \in Procs, Returning(p)
       PROVE  TypeInv'
  <2>1. ProcTypes'  BY <1>1, <1>10, ReturnMoves, OneProc
  <2>2. proc[p] \in ProcRecord /\ Shape(proc[p])  BY <1>1 DEF ProcTypes
  <2>3. CASE ApplyRefused(p)
    BY <1>1, <2>1, <2>3 DEF ApplyRefused, Fault, TypeInv, StoreTypes
  <2>4. CASE CommitMeta(p)
    BY <1>1, <2>1, <2>2, <2>4 DEF CommitMeta, TypeInv, StoreTypes, ProcRecord
  <2>5. CASE UpdateFails(p)
    BY <1>1, <2>1, <2>5, FailureTypes DEF UpdateFails, Fault, TypeInv, StoreTypes
  <2>9. CASE MigrateFails(p)
    BY <1>1, <2>1, <2>9, FailureTypes DEF MigrateFails, Fault, TypeInv, StoreTypes
  <2>6. CASE DropLegacy(p)
    <3>1. Slot(p) \in Slots  BY <2>2, <2>6 DEF DropLegacy, At, Shape, Slots, Slot, Reads
    <3>2. legacy' \in [Slots -> Values \cup {None}]
      BY <1>1, <2>6, <3>1, SlotWrites DEF DropLegacy, StoreTypes
    <3> QED  BY <1>1, <2>1, <2>6, <3>2 DEF DropLegacy, Fault, TypeInv, StoreTypes
  <2>7. CASE Replace(p)
    <3>1. proc[p].call.value \in Documents  BY <2>2, <2>7 DEF Replace, At, Shape
    <3>2. vault' \in Cells /\ revision' \in Nat /\ sealedBy' \in Procs \cup {None}
      BY <1>1, <2>7, <3>1 DEF Replace, Documents, StoreTypes
    <3> QED  BY <1>1, <2>1, <2>7, <3>2 DEF Replace, TypeInv, StoreTypes
  <2>8. CASE ReadVault(p) \/ ReadLegacy(p)
    BY <1>1, <2>1, <2>8 DEF ReadVault, ReadLegacy, TypeInv, StoreTypes
  <2> QED  BY <1>10, <2>3, <2>4, <2>5, <2>6, <2>7, <2>8, <2>9 DEF Returning
<1>11. ASSUME NEW p \in Procs, ReadVault(p) \/ ReadLegacy(p) \/ MigrateValue(p), ~Returning(p)
       PROVE  TypeInv'
  <2>1. ProcTypes'  BY <1>1, <1>11, ReadMoves, OneProc
  <2>2. proc[p] \in ProcRecord /\ Shape(proc[p])  BY <1>1 DEF ProcTypes
  <2>3. CASE MigrateValue(p)
    <3>1. Slot(p) \in Slots /\ proc[p].call.value \in Values /\ proc[p].root \in Procs
      BY <2>2, <2>3 DEF MigrateValue, At, Shape, Slots, Slot, Reads
    <3>2. vault' \in Cells
      BY <1>1, <2>3, <3>1, SlotWrites DEF MigrateValue, PutVault, Seal
    <3> QED  BY <1>1, <2>1, <2>3, <3>1, <3>2 DEF MigrateValue, PutVault, Seal, TypeInv, StoreTypes
  <2>4. CASE ReadVault(p) \/ ReadLegacy(p)
    BY <1>1, <2>1, <2>4 DEF ReadVault, ReadLegacy, TypeInv, StoreTypes
  <2> QED  BY <1>11, <2>3, <2>4
<1>12. ASSUME NEW p \in Procs, Replace(p)  PROVE TypeInv'
  BY <1>10, <1>12 DEF Returning
<1> QED
  BY <1>2, <1>3, <1>4, <1>5, <1>6, <1>7, <1>8, <1>9, <1>10, <1>11, <1>13
  DEF EnvNext, Mutating, Reading, Syncing, Returning

\* A fresh project, or one whose values an older version left in the keychain.
LEMMA TypesInit ==
  ASSUME EnvInit
  PROVE  TypeInv
<1>1. meta \in Metadata /\ legacy \in [Slots -> Values \cup {None}] /\ upgraded \in BOOLEAN
  <2>1. CASE upgraded = FALSE
    BY <2>1, NoMetadata DEF EnvInit
  <2>2. CASE upgraded # FALSE
    <3>1. PICK n \in Names, v \in Values :
            /\ meta = [active |-> n, sets |-> [NoMeta.sets EXCEPT ![n] =
                                                 [expires |-> None, entries |-> [k \in Keys |-> "env"]]]]
            /\ legacy = [s \in Slots |-> IF s[1] = n THEN v ELSE None]
            /\ upgraded = TRUE
      BY <2>2 DEF EnvInit
    <3> DEFINE new == [expires |-> None, entries |-> [k \in Keys |-> "env"]]
    <3>2. new \in SetRecord  BY DEF SetRecord, Kinds
    <3>3. NoMeta \in Metadata /\ NoMeta.active = None  BY NoMetadata DEF NoMeta
    <3>4. meta = [active |-> IF NoMeta.active = None THEN n ELSE NoMeta.active,
                  sets |-> [NoMeta.sets EXCEPT ![n] = new]]
      BY <3>1, <3>3
    <3> HIDE DEF new
    <3> QED  BY <3>1, <3>2, <3>3, <3>4, Created
  <2> QED  BY <2>1, <2>2
<1>2. ProcTypes
  <2> DEFINE d == [pc |-> "closed", view |-> NoMeta, root |-> None, call |-> NoCall]
  <2>1. d \in ProcRecord  BY NoCallIsCall, NoMetadata DEF ProcRecord, Points
  <2>2. proc = [p \in Procs |-> d] /\ d.pc = "closed"  BY DEF EnvInit
  <2> HIDE DEF d
  <2>3. Shape(d)  BY <2>2 DEF Shape, Reads
  <2> QED  BY <2>1, <2>2, <2>3 DEF ProcTypes
<1>3. vault \in Cells  BY DEF EnvInit, Cells
<1>4. now \in Nat /\ calls \in Nat /\ faults \in Nat /\ revision \in Nat
      /\ lost \in BOOLEAN /\ keyLost \in BOOLEAN /\ misread \in BOOLEAN /\ fromCache \in BOOLEAN
      /\ present \in BOOLEAN
      /\ rootKey = None /\ sealedBy = None /\ lock = None /\ initLock = None
      /\ remote = {} /\ latest = legacy
  BY DEF EnvInit
<1> QED  BY <1>1, <1>2, <1>3, <1>4 DEF TypeInv, StoreTypes

-----------------------------------------------------------------------------
(* Who holds which lock.                                                   *)

LocksGood(p, r) ==
  /\ r.pc \in Holding => lock = p
  /\ r.pc \in Changing /\ ~fromCache => r.view = meta
  /\ r.pc \in Initializing => initLock = p
  /\ r.pc = "create" => rootKey = None \/ misread

\* Without environments.json there is no metadata.
FileInv == ~present => meta = NoMeta

LockInv == \A p \in Procs : LocksGood(p, proc[p])

LEMMA LockStep ==
  ASSUME TypeInv, FileInv, LockInv, EnvNext
  PROVE  LockInv'
<1> USE DEF stores, sync, history
<1>1. ProcTypes  BY DEF TypeInv
<1>2. CASE EnvTick \/ LoseKey \/ LoseVault
  BY <1>2 DEF EnvTick, LoseKey, LoseVault, LockInv, LocksGood
<1>10. CASE LoseMeta
  <2>1. UNCHANGED <<proc, lock, initLock, rootKey, misread>> /\ (lock # None => fromCache')
    BY <1>10 DEF LoseMeta
  <2> QED  BY <2>1, EnvAssumption DEF LockInv, LocksGood, Holding
<1>3. ASSUME NEW p \in Procs, Push(p)  PROVE LockInv'
  BY <1>3 DEF Push, LockInv, LocksGood
<1>4. ASSUME NEW p \in Procs, Start(p) \/ \E doc \in remote \cup {Foreign} : StartPull(p, doc)
      PROVE  LockInv'
  <2>1. PICK pc, c : Begin(p, pc, c)  BY <1>4, CallBegins
  <2>2. PICK d : Moved(p, d) /\ d.pc \in {"lock", "read", "replace"}
    BY <1>4, BeginMoves
  <2>3. \A q \in Procs : proc'[q] = IF q = p THEN d ELSE proc[q]
    BY <1>1, <2>2, OneProc
  <2>4. UNCHANGED <<lock, meta, initLock, rootKey, misread, fromCache>>  BY <2>1 DEF Begin
  <2> QED  BY <2>2, <2>3, <2>4 DEF LockInv, LocksGood, Holding, Changing, Initializing
<1>5. ASSUME NEW p \in Procs, Opening(p) \/ Exit(p) \/ EnvCrash(p)
      PROVE  LockInv'
  <2>1. PICK d : /\ Moved(p, d)
                 /\ \/ OpenMeta(p) /\ d.pc = "init"
                    \/ LockInit(p) /\ d.pc = "key"
                    \/ LoadKey(p) /\ FindsKey(p) /\ d.pc = "load"
                    \/ LoadKey(p) /\ ~FindsKey(p) /\ d.pc = "create"
                    \/ CreateKey(p) /\ d.pc = "load"
                    \/ LoadVault(p) /\ d.pc = "ready"
                    \/ (OpenFails(p) \/ Exit(p) \/ EnvCrash(p)) /\ d.pc = "closed"
    BY <1>5, OpeningMoves
  <2>2. \A q \in Procs : proc'[q] = IF q = p THEN d ELSE proc[q]
    BY <1>1, <2>1, OneProc
  <2>3. UNCHANGED <<meta, fromCache>> /\ misread' \in {misread, TRUE}
    BY <1>5 DEF Opening, OpenMeta, LockInit, LoadKey, CreateKey, OpenFails, LoadVault, Exit, EnvCrash
  <2>4. \A q \in Procs \ {p} :
          /\ lock = q => lock' = q
          /\ q # None /\ initLock = q => initLock' = q \/ proc[p].pc \in Initializing
    BY <1>5, EnvAssumption DEF Opening, OpenMeta, LockInit, LoadKey, CreateKey, OpenFails, LoadVault,
         Exit, EnvCrash, At, Initializing
  <2>5. d.pc \in Initializing => initLock' = p
    BY <2>1 DEF LockInit, LoadKey, CreateKey, At, LockInv, LocksGood, Initializing
  <2>6. rootKey' = rootKey \/ proc[p].pc = "create"
    BY <1>5 DEF Opening, OpenMeta, LockInit, LoadKey, CreateKey, OpenFails, LoadVault, Exit, EnvCrash, At
  <2>7. d.pc = "create" => rootKey' = None \/ misread'
    <3>1. CASE LoadKey(p) /\ ~FindsKey(p) /\ d.pc = "create"
      <4>1. proc'[p].pc = "create"  BY <2>2, <3>1
      <4> QED  BY <3>1, <4>1, <1>1 DEF LoadKey, ProcTypes, ProcRecord
    <3> QED  BY <2>1, <3>1
  <2>8. d.pc \notin Holding  BY <2>1 DEF Holding, Changing
  <2>9. ASSUME NEW q \in Procs, q # p  PROVE LocksGood(q, proc[q])'
    <3>1. LocksGood(q, proc[q]) /\ LocksGood(p, proc[p]) /\ proc'[q] = proc[q]  BY <2>2, <2>9 DEF LockInv
    <3>2. q # None  BY EnvAssumption
    <3> QED  BY <2>3, <2>4, <2>6, <2>9, <3>1, <3>2 DEF LocksGood, Initializing
  <2>10. LocksGood(p, proc[p])'
    BY <2>2, <2>5, <2>7, <2>8 DEF LocksGood, Holding
  <2> QED  BY <2>9, <2>10 DEF LockInv
<1>6. ASSUME NEW p \in Procs, LockMeta(p) \/ ApplyCreate(p) \/ ApplyUse(p) \/ ApplyValues(p)
      PROVE  LockInv'
  <2>1. PICK d : /\ Moved(p, d)
                 /\ \/ LockMeta(p) /\ d.pc = "apply" /\ d.view = IF present THEN meta ELSE proc[p].view
                    \/ (ApplyCreate(p) \/ ApplyUse(p)) /\ d.pc = "commit"
                    \/ ApplyValues(p) /\ d.pc \in {"store", "erase"} /\ d.view = proc[p].view
    BY <1>6, ApplyMoves
  <2>2. \A q \in Procs : proc'[q] = IF q = p THEN d ELSE proc[q]
    BY <1>1, <2>1, OneProc
  <2>3. UNCHANGED <<meta, initLock, rootKey, misread>> /\ lock' = p /\ (lock = p \/ lock = None)
    BY <1>6 DEF LockMeta, ApplyCreate, ApplyUse, ApplyValues, ChangeMeta, At, LockInv, LocksGood, Holding, Changing
  <2>6. fromCache' = fromCache \/ (LockMeta(p) /\ fromCache' = TRUE)
    BY <1>6 DEF LockMeta, ApplyCreate, ApplyUse, ApplyValues, ChangeMeta
  <2>4. LocksGood(p, proc[p])'
    <3>1. CASE LockMeta(p) /\ d.pc = "apply" /\ d.view = IF present THEN meta ELSE proc[p].view
      <4>1. ~fromCache' => d.view = meta  BY <3>1 DEF LockMeta, FileInv
      <4> QED  BY <3>1, <4>1, <2>2, <2>3 DEF LocksGood, Holding, Changing, Initializing
    <3>2. CASE ~LockMeta(p)
      BY <2>1, <2>2, <2>3, <2>6, <3>2 DEF LocksGood, LockInv, Holding, Changing, Initializing, ApplyValues, At
    <3> QED  BY <2>1, <3>1, <3>2 DEF LockMeta, ApplyCreate, ApplyUse, ApplyValues, At
  <2>5. ASSUME NEW q \in Procs, q # p  PROVE LocksGood(q, proc[q])'
    BY <2>2, <2>3, <2>5, <2>6, EnvAssumption DEF LocksGood, LockInv, Holding
  <2> QED  BY <2>4, <2>5 DEF LockInv
<1>7. ASSUME NEW p \in Procs,
             StoreValue(p) \/ (\E k \in Keys : EraseVault(p, k)) \/ EraseLegacy(p) \/ Erased(p)
      PROVE  LockInv'
  <2>1. PICK d : /\ Moved(p, d)
                 /\ \/ d.pc = "commit"
                    \/ d.pc \in {"erase", "eraseLegacy"} /\ d.view = proc[p].view
    BY <1>7, ValueMoves
  <2>2. \A q \in Procs : proc'[q] = IF q = p THEN d ELSE proc[q]
    BY <1>1, <2>1, OneProc
  <2>3. UNCHANGED <<meta, initLock, rootKey, lock, misread, fromCache>> /\ proc[p].pc \in Changing
    BY <1>7 DEF StoreValue, PutVault, Seal, EraseVault, EraseLegacy, Erased, ChangeMeta, At, Changing
  <2> QED  BY <2>1, <2>2, <2>3 DEF LocksGood, LockInv, Holding, Changing, Initializing
<1>8. ASSUME NEW p \in Procs, Returning(p)
      PROVE  LockInv'
  <2>1. PICK d : Moved(p, d) /\ d.pc = "ready"  BY <1>8, ReturnMoves
  <2>2. \A q \in Procs : proc'[q] = IF q = p THEN d ELSE proc[q]
    BY <1>1, <2>1, OneProc
  <2>3. UNCHANGED <<initLock, rootKey, misread, fromCache>>
        /\ (UNCHANGED <<meta, lock>> \/ lock = p)
    <3>1. CASE UpdateFails(p)
      <4>1. proc[p].pc \in Holding  BY <3>1 DEF UpdateFails, Holding, Changing
      <4> QED  BY <3>1, <4>1 DEF UpdateFails, LockInv, LocksGood
    <3> QED
      BY <1>8, <3>1 DEF Returning, ApplyRefused, CommitMeta, DropLegacy, MigrateFails, Replace,
         ReadVault, ReadLegacy, At, LockInv, LocksGood, Holding, Changing
  <2>4. ASSUME NEW q \in Procs, q # p  PROVE LocksGood(q, proc[q])'
    BY <2>2, <2>3, <2>4 DEF LocksGood, LockInv, Holding
  <2>5. LocksGood(p, proc[p])'
    BY <2>1, <2>2 DEF LocksGood, Holding, Changing, Initializing
  <2> QED  BY <2>4, <2>5 DEF LockInv
<1>9. ASSUME NEW p \in Procs, ReadVault(p) \/ ReadLegacy(p) \/ MigrateValue(p), ~Returning(p)
      PROVE  LockInv'
  <2>1. PICK d : Moved(p, d) /\ d.pc \in {"readLegacy", "migrate", "dropLegacy"}  BY <1>9, ReadMoves
  <2>2. \A q \in Procs : proc'[q] = IF q = p THEN d ELSE proc[q]
    BY <1>1, <2>1, OneProc
  <2>3. UNCHANGED <<initLock, rootKey, meta, lock, misread, fromCache>>
    BY <1>9 DEF ReadVault, ReadLegacy, MigrateValue, PutVault, Seal
  <2> QED  BY <2>1, <2>2, <2>3 DEF LocksGood, LockInv, Holding, Changing, Initializing
<1> QED
  BY <1>2, <1>3, <1>4, <1>5, <1>6, <1>7, <1>8, <1>9, <1>10
  DEF EnvNext, Mutating, Reading, Syncing, Returning

-----------------------------------------------------------------------------
(* Which key is in use.                                                    *)

\* The key and the vault file have not both been lost.
OneLoss == ~(lost /\ keyLost)

\* Where the keychain has answered truly: a key that was not lost is there from the first seal
\* on; a Manager has a key only from the keychain; and the file keeps no other key alive than the
\* one in the keychain.
TrueKeys ==
  /\ ~keyLost /\ (sealedBy # None \/ lost) => rootKey # None
  /\ ~keyLost /\ rootKey = None => \A p \in Procs : proc[p].root = None
  /\ keyLost /\ ~lost => sealedBy # None
  /\ OneLoss /\ rootKey # None =>
       sealedBy \in {None, rootKey} /\ \A p \in Procs : proc[p].root \in {None, rootKey}

KeyInv ==
  /\ lost \/ keyLost \/ misread => faults >= 1
  /\ ~misread => TrueKeys

LEMMA KeyInit ==
  ASSUME EnvInit
  PROVE  KeyInv
BY DEF EnvInit, KeyInv, TrueKeys, OneLoss

\* Nothing happens to the key and the file; a Manager may end.
LEMMA KeyKept ==
  ASSUME TypeInv, KeyInv, UNCHANGED <<rootKey, sealedBy, lost, keyLost, misread>>, faults' \in {faults, faults + 1},
         \A q \in Procs : proc'[q].root \in {None, proc[q].root}
  PROVE  KeyInv'
<1>1. faults \in Nat  BY DEF TypeInv, StoreTypes
<1>2. OneLoss' <=> OneLoss  BY DEF OneLoss
<1> QED  BY <1>1, <1>2 DEF KeyInv, TrueKeys

\* The keychain fails to answer.
LEMMA KeyMisread ==
  ASSUME TypeInv, misread' = TRUE, faults' = faults + 1
  PROVE  KeyInv'
BY DEF TypeInv, StoreTypes, KeyInv

\* A document is saved under the key of a Manager, where the file authenticates under it.
LEMMA KeySealed ==
  ASSUME TypeInv, KeyInv, UNCHANGED <<rootKey, lost, keyLost, misread>>, faults' \in {faults, faults + 1},
         NEW p \in Procs, Authenticates(p), proc[p].root \in Procs, sealedBy' \in {sealedBy, proc[p].root},
         \A q \in Procs : proc'[q].root = proc[q].root
  PROVE  KeyInv'
<1>1. faults \in Nat  BY DEF TypeInv, StoreTypes
<1>2. OneLoss' <=> OneLoss  BY DEF OneLoss
<1>3. sealedBy \in {None, proc[p].root} /\ None \notin Procs  BY EnvAssumption DEF Authenticates
<1>4. lost' \/ keyLost' \/ misread' => faults' >= 1  BY <1>1 DEF KeyInv
<1>5. ~misread => TrueKeys'  BY <1>2, <1>3 DEF KeyInv, TrueKeys, OneLoss
<1> QED  BY <1>4, <1>5 DEF KeyInv

LEMMA KeyStep ==
  ASSUME TypeInv, LockInv, KeyInv, EnvNext
  PROVE  KeyInv'
<1> USE DEF stores, sync, history
<1>1. ProcTypes /\ faults \in Nat /\ faults + 1 \in Nat
  BY DEF TypeInv, StoreTypes
<1>2. CASE EnvTick
  BY <1>2, KeyKept DEF EnvTick
<1>3. CASE LoseKey
  <2>1. /\ UNCHANGED <<sealedBy, lost, proc, misread>> /\ rootKey' = None /\ keyLost' = TRUE
        /\ faults' = faults + 1 /\ sealedBy # None
    BY <1>3 DEF LoseKey, Fault
  <2> QED  BY <1>1, <2>1 DEF KeyInv, TrueKeys
<1>4. CASE LoseVault
  <2>1. /\ UNCHANGED <<rootKey, proc, keyLost, misread>> /\ lost' = TRUE /\ sealedBy' = None
        /\ faults' = faults + 1 /\ sealedBy # None
    BY <1>4 DEF LoseVault, Fault
  <2> QED  BY <1>1, <2>1 DEF KeyInv, TrueKeys, OneLoss
<1>12. CASE LoseMeta
  <2>1. UNCHANGED <<rootKey, sealedBy, lost, keyLost, misread, proc>> /\ faults' = faults + 1
    BY <1>12 DEF LoseMeta, Fault
  <2> QED  BY <2>1, KeyKept
<1>5. ASSUME NEW p \in Procs, Push(p)  PROVE KeyInv'
  BY <1>5, KeyKept DEF Push
<1>6. ASSUME NEW p \in Procs, Start(p) \/ \E doc \in remote \cup {Foreign} : StartPull(p, doc)
      PROVE  KeyInv'
  <2>1. PICK pc, c : Begin(p, pc, c)  BY <1>6, CallBegins
  <2>2. PICK d : Moved(p, d) /\ d.root = proc[p].root
    BY <1>6, BeginMoves
  <2>3. \A q \in Procs : proc'[q] = IF q = p THEN d ELSE proc[q]
    BY <1>1, <2>2, OneProc
  <2>4. UNCHANGED <<rootKey, sealedBy, lost, keyLost, misread, faults>>  BY <2>1 DEF Begin
  <2> QED  BY <2>2, <2>3, <2>4, KeyKept
<1>7. ASSUME NEW p \in Procs, Opening(p) \/ Exit(p) \/ EnvCrash(p)
      PROVE  KeyInv'
  <2>1. PICK d : /\ Moved(p, d)
                 /\ \/ /\ d.root \in {None, proc[p].root}
                       /\ OpenMeta(p) \/ LockInit(p) \/ LoadVault(p) \/ OpenFails(p) \/ Exit(p) \/ EnvCrash(p)
                    \/ LoadKey(p) /\ FindsKey(p) /\ d.root = rootKey
                    \/ LoadKey(p) /\ ~FindsKey(p) /\ d.pc = "create" /\ d.root = proc[p].root
                    \/ CreateKey(p) /\ d.root = p
    BY <1>7, OpeningMoves
  <2>2. \A q \in Procs : proc'[q] = IF q = p THEN d ELSE proc[q]
    BY <1>1, <2>1, OneProc
  <2>3. CASE CreateKey(p) /\ d.root = p
    <3>1. UNCHANGED <<sealedBy, lost, keyLost, misread, faults>> /\ rootKey' = p /\ sealedBy = None
          /\ (rootKey = None \/ misread) /\ p # None
      BY <2>3, EnvAssumption DEF CreateKey, LockInv, LocksGood, At
    <3>2. OneLoss' <=> OneLoss  BY <3>1 DEF OneLoss
    <3> QED  BY <1>1, <2>2, <2>3, <3>1, <3>2 DEF KeyInv, TrueKeys, OneLoss
  <2>4. CASE LoadKey(p) /\ FindsKey(p) /\ d.root = rootKey
    <3>1. UNCHANGED <<rootKey, sealedBy, lost, keyLost, misread, faults>> /\ rootKey # None
      BY <2>4 DEF LoadKey, FindsKey
    <3>2. OneLoss' <=> OneLoss  BY <3>1 DEF OneLoss
    <3> QED  BY <2>2, <2>4, <3>1, <3>2 DEF KeyInv, TrueKeys
  <2>5. CASE LoadKey(p) /\ ~FindsKey(p) /\ d.pc = "create" /\ d.root = proc[p].root
    <3>1. proc'[p].pc = "create"  BY <2>2, <2>5
    <3>2. Goto(p, "create") => IF rootKey = None THEN UNCHANGED <<faults, misread>>
                               ELSE faults' = faults + 1 /\ misread' = TRUE
      <4>1. ~(rootKey # None /\ proc' = [proc EXCEPT ![p].pc = "load", ![p].root = rootKey])
        BY <3>1, <1>1 DEF ProcTypes, ProcRecord
      <4> QED  BY <2>5, <4>1 DEF LoadKey, Fault
    <3>3. Goto(p, "create") /\ UNCHANGED <<rootKey, sealedBy, lost, keyLost>>
      BY <2>5, <3>1, <1>1 DEF LoadKey, ProcTypes, ProcRecord
    <3>4. CASE UNCHANGED <<faults, misread>>
      BY <2>2, <2>5, <3>3, <3>4, KeyKept
    <3> QED  BY <3>2, <3>3, <3>4, KeyMisread
  <2>6. CASE OpenFails(p) /\ rootKey' # rootKey
    <3>1. /\ UNCHANGED <<sealedBy, lost, keyLost, misread>> /\ faults' = faults + 1
          /\ rootKey' = p /\ sealedBy = None
          /\ (rootKey = None \/ misread) /\ p # None
      BY <2>6, EnvAssumption DEF OpenFails, LockInv, LocksGood, At, Fault
    <3>2. OneLoss' <=> OneLoss  BY <3>1 DEF OneLoss
    <3>3. d.root \in {None, proc[p].root}
      BY <1>1, <2>2, <2>6 DEF OpenFails, Close, ProcTypes
    <3>4. ~misread /\ OneLoss => \A q \in Procs : proc[q].root = None
      BY <3>1 DEF KeyInv, TrueKeys, OneLoss
    <3>5. ~misread => TrueKeys'  BY <2>2, <3>1, <3>2, <3>3, <3>4 DEF KeyInv, TrueKeys
    <3>6. lost' \/ keyLost' \/ misread' => faults' >= 1  BY <1>1, <3>1 DEF KeyInv
    <3> QED  BY <3>1, <3>5, <3>6 DEF KeyInv
  <2>7. CASE /\ d.root \in {None, proc[p].root} /\ rootKey' = rootKey
             /\ OpenMeta(p) \/ LockInit(p) \/ LoadVault(p) \/ OpenFails(p) \/ Exit(p) \/ EnvCrash(p)
    <3>1. UNCHANGED <<rootKey, sealedBy, lost, keyLost, misread>> /\ faults' \in {faults, faults + 1}
      BY <2>7 DEF OpenMeta, LockInit, OpenFails, LoadVault, Exit, EnvCrash, Fault
    <3> QED  BY <2>2, <2>7, <3>1, KeyKept
  <2>8. OpenMeta(p) \/ LockInit(p) \/ LoadVault(p) \/ Exit(p) \/ EnvCrash(p) => rootKey' = rootKey
    BY DEF OpenMeta, LockInit, LoadVault, Exit, EnvCrash
  <2> QED  BY <2>1, <2>3, <2>4, <2>5, <2>6, <2>7, <2>8
<1>8. ASSUME NEW p \in Procs, LockMeta(p) \/ ApplyCreate(p) \/ ApplyUse(p) \/ ApplyValues(p)
      PROVE  KeyInv'
  <2>1. PICK d : Moved(p, d) /\ d.root = proc[p].root
    BY <1>8, ApplyMoves
  <2>2. \A q \in Procs : proc'[q] = IF q = p THEN d ELSE proc[q]
    BY <1>1, <2>1, OneProc
  <2>3. UNCHANGED <<rootKey, sealedBy, lost, keyLost, misread, faults>>
    BY <1>8 DEF LockMeta, ApplyCreate, ApplyUse, ApplyValues, ChangeMeta
  <2> QED  BY <2>1, <2>2, <2>3, KeyKept
<1>9. ASSUME NEW p \in Procs,
             StoreValue(p) \/ (\E k \in Keys : EraseVault(p, k)) \/ EraseLegacy(p) \/ Erased(p)
      PROVE  KeyInv'
  <2>1. PICK d : Moved(p, d) /\ d.root = proc[p].root
    BY <1>9, ValueMoves
  <2>2. \A q \in Procs : proc'[q] = IF q = p THEN d ELSE proc[q]
    BY <1>1, <2>1, OneProc
  <2>3. \A q \in Procs : proc'[q].root = proc[q].root  BY <2>1, <2>2
  <2>4. CASE StoreValue(p)
    <3>1. proc[p].root \in Procs  BY <1>1, <2>4 DEF ProcTypes, StoreValue, At, Shape
    <3> QED  BY <2>3, <2>4, <3>1, KeySealed DEF StoreValue, PutVault, Seal
  <2>5. CASE (\E k \in Keys : EraseVault(p, k)) \/ EraseLegacy(p) \/ Erased(p)
    <3>1. UNCHANGED <<rootKey, sealedBy, lost, keyLost, misread, faults>>
      BY <2>5 DEF EraseVault, EraseLegacy, Erased, ChangeMeta
    <3> QED  BY <2>3, <3>1, KeyKept
  <2> QED  BY <1>9, <2>4, <2>5
<1>10. ASSUME NEW p \in Procs, Returning(p)
       PROVE  KeyInv'
  <2>1. PICK d : Moved(p, d) /\ d.root = proc[p].root
    BY <1>10, ReturnMoves
  <2>2. \A q \in Procs : proc'[q] = IF q = p THEN d ELSE proc[q]
    BY <1>1, <2>1, OneProc
  <2>3. \A q \in Procs : proc'[q].root = proc[q].root  BY <2>1, <2>2
  <2>4. CASE Replace(p) /\ sealedBy' # sealedBy
    <3>1. proc[p].root \in Procs  BY <1>1, <2>4 DEF ProcTypes, Replace, At, Shape
    <3>2. /\ Authenticates(p) /\ sealedBy' = proc[p].root
          /\ UNCHANGED <<rootKey, faults, lost, keyLost, misread>>
      BY <2>4 DEF Replace, Replaceable
    <3> QED  BY <2>3, <3>1, <3>2, KeySealed
  <2>6. CASE UpdateFails(p) \/ MigrateFails(p)
    <3>1. UNCHANGED <<rootKey, lost, keyLost, misread>> /\ faults' \in {faults, faults + 1}
      BY <2>6 DEF UpdateFails, MigrateFails, Fault
    <3>2. sealedBy' = sealedBy \/ (sealedBy' = proc[p].root /\ Authenticates(p) /\ proc[p].root \in Procs)
      BY <2>6, FailureTypes
    <3> QED  BY <2>3, <3>1, <3>2, KeyKept, KeySealed
  <2>5. CASE ~(Replace(p) /\ sealedBy' # sealedBy) /\ ~(UpdateFails(p) \/ MigrateFails(p))
    <3>1. UNCHANGED <<rootKey, sealedBy, lost, keyLost, misread>> /\ faults' \in {faults, faults + 1}
      BY <1>10, <2>5 DEF Returning, ApplyRefused, CommitMeta, DropLegacy, Replace,
           ReadVault, ReadLegacy, Fault
    <3> QED  BY <2>3, <3>1, KeyKept
  <2> QED  BY <2>4, <2>5, <2>6
<1>11. ASSUME NEW p \in Procs, ReadVault(p) \/ ReadLegacy(p) \/ MigrateValue(p), ~Returning(p)
       PROVE  KeyInv'
  <2>1. PICK d : Moved(p, d) /\ d.root = proc[p].root
    BY <1>11, ReadMoves
  <2>2. \A q \in Procs : proc'[q] = IF q = p THEN d ELSE proc[q]
    BY <1>1, <2>1, OneProc
  <2>3. \A q \in Procs : proc'[q].root = proc[q].root  BY <2>1, <2>2
  <2>4. CASE MigrateValue(p)
    <3>1. proc[p].root \in Procs  BY <1>1, <2>4 DEF ProcTypes, MigrateValue, At, Shape
    <3> QED  BY <2>3, <2>4, <3>1, KeySealed DEF MigrateValue, PutVault, Seal
  <2>5. CASE ReadVault(p) \/ ReadLegacy(p)
    <3>1. UNCHANGED <<rootKey, sealedBy, lost, keyLost, misread, faults>>  BY <2>5 DEF ReadVault, ReadLegacy
    <3> QED  BY <2>3, <3>1, KeyKept
  <2> QED  BY <1>11, <2>4, <2>5
<1> QED
  BY <1>2, <1>3, <1>4, <1>5, <1>6, <1>7, <1>8, <1>9, <1>10, <1>11, <1>12
  DEF EnvNext, Mutating, Reading, Syncing, Returning

-----------------------------------------------------------------------------
(* Copies of the vault.                                                    *)

NotNewer(doc, r) == doc.sealedBy # None => doc.revision <= r

CopyInv ==
  ~lost =>
    /\ \A doc \in remote : NotNewer(doc, revision)
    /\ \A p \in Procs : At(p, "replace") => NotNewer(proc[p].call.value, revision)

LEMMA CopyInit ==
  ASSUME EnvInit
  PROVE  CopyInv
BY DEF EnvInit, CopyInv, At

\* The revision does not go back, and no call has a document of elsewhere.
LEMMA CopyKept ==
  ASSUME TypeInv, CopyInv, UNCHANGED <<remote, lost>>, revision' \in Nat, revision' >= revision,
         \A q \in Procs : proc'[q].pc = "replace" =>
           proc'[q] = proc[q] \/ proc'[q].call.value \in remote \cup {Foreign}
  PROVE  CopyInv'
<1>1. revision \in Nat /\ remote \subseteq Documents  BY DEF TypeInv, StoreTypes
<1>2. Foreign \in Documents /\ Foreign.sealedBy = None
  BY Answers DEF TypeInv, Foreign
<1>3. \A doc \in Documents : NotNewer(doc, revision) => NotNewer(doc, revision')
  BY <1>1 DEF NotNewer, Documents
<1>4. \A q \in Procs : proc[q].pc = "replace" => proc[q].call.value \in Documents
  BY DEF TypeInv, ProcTypes, Shape
<1>5. NotNewer(Foreign, revision)  BY <1>2 DEF NotNewer
<1>6. SUFFICES ASSUME ~lost
      PROVE  /\ \A doc \in remote : NotNewer(doc, revision')
             /\ \A p \in Procs : At(p, "replace")' => NotNewer(proc'[p].call.value, revision')
  BY DEF CopyInv
<1>7. /\ \A doc \in remote : NotNewer(doc, revision)
      /\ \A p \in Procs : proc[p].pc = "replace" => NotNewer(proc[p].call.value, revision)
  BY <1>6 DEF CopyInv, At
<1>8. \A doc \in remote : NotNewer(doc, revision')  BY <1>1, <1>3, <1>7
<1>9. ASSUME NEW p \in Procs, proc'[p].pc = "replace"
      PROVE  NotNewer(proc'[p].call.value, revision')
  <2>1. CASE proc'[p] = proc[p]
    <3>1. proc[p].call.value \in Documents /\ NotNewer(proc[p].call.value, revision)
      BY <1>4, <1>7, <1>9, <2>1
    <3>2. PICK doc \in Documents : doc = proc[p].call.value  BY <3>1
    <3>3. NotNewer(doc, revision')  BY <1>3, <3>1, <3>2
    <3>4. doc = proc'[p].call.value  BY <2>1, <3>2
    <3> QED  BY <3>3, <3>4 DEF NotNewer
  <2>2. CASE proc'[p].call.value \in remote \cup {Foreign}
    <3>1. PICK doc \in remote \cup {Foreign} : doc = proc'[p].call.value  BY <2>2
    <3>2. NotNewer(doc, revision')  BY <1>1, <1>2, <1>3, <1>5, <1>7, <3>1
    <3> QED  BY <3>1, <3>2 DEF NotNewer
  <2> QED  BY <1>9, <2>1, <2>2
<1> QED  BY <1>8, <1>9 DEF At

LEMMA CopyStep ==
  ASSUME TypeInv, CopyInv, EnvNext
  PROVE  CopyInv'
<1> USE DEF stores, sync, history
<1>1. ProcTypes /\ revision \in Nat /\ revision + 1 \in Nat /\ revision + 1 >= revision /\ revision >= revision
  BY DEF TypeInv, StoreTypes
<1>2. CASE EnvTick
  BY <1>1, <1>2, CopyKept DEF EnvTick
<1>3. CASE LoseKey
  BY <1>1, <1>3, CopyKept DEF LoseKey
<1>4. CASE LoseVault
  BY <1>4 DEF LoseVault, CopyInv
<1>13. CASE LoseMeta
  BY <1>1, <1>13, CopyKept DEF LoseMeta
<1>5. ASSUME NEW p \in Procs, Push(p)  PROVE CopyInv'
  <2>1. NotNewer(Document, revision)  BY <1>1 DEF NotNewer, Document
  <2> QED  BY <1>5, <2>1 DEF Push, CopyInv, NotNewer, At
<1>6. ASSUME NEW p \in Procs, Start(p) \/ \E doc \in remote \cup {Foreign} : StartPull(p, doc)
      PROVE  CopyInv'
  <2>1. PICK pc, c : Begin(p, pc, c)  BY <1>6, CallBegins
  <2>2. PICK d : Moved(p, d) /\ (d.pc = "replace" => d.call.value \in remote \cup {Foreign})
    BY <1>6, BeginMoves
  <2>3. \A q \in Procs : proc'[q] = IF q = p THEN d ELSE proc[q]
    BY <1>1, <2>2, OneProc
  <2>4. UNCHANGED <<remote, lost, revision>>  BY <2>1 DEF Begin
  <2> QED  BY <1>1, <2>2, <2>3, <2>4, CopyKept
<1>7. ASSUME NEW p \in Procs, NEW d, Moved(p, d), d.pc # "replace", UNCHANGED <<remote, lost>>,
             revision' \in Nat, revision' >= revision
      PROVE  CopyInv'
  <2>1. \A q \in Procs : proc'[q] = IF q = p THEN d ELSE proc[q]
    BY <1>1, <1>7, OneProc
  <2> QED  BY <1>7, <2>1, CopyKept
<1>8. ASSUME NEW p \in Procs, Opening(p) \/ Exit(p) \/ EnvCrash(p)
      PROVE  CopyInv'
  <2>1. PICK d : Moved(p, d) /\ d.pc # "replace"  BY <1>8, OpeningMoves
  <2>2. UNCHANGED <<remote, lost, revision>>
    BY <1>8 DEF Opening, OpenMeta, LockInit, LoadKey, CreateKey, OpenFails, LoadVault, Exit, EnvCrash
  <2> QED  BY <1>1, <1>7, <2>1, <2>2
<1>9. ASSUME NEW p \in Procs, LockMeta(p) \/ ApplyCreate(p) \/ ApplyUse(p) \/ ApplyValues(p)
      PROVE  CopyInv'
  <2>1. PICK d : Moved(p, d) /\ d.pc # "replace"  BY <1>9, ApplyMoves
  <2>2. UNCHANGED <<remote, lost, revision>>
    BY <1>9 DEF LockMeta, ApplyCreate, ApplyUse, ApplyValues, ChangeMeta
  <2> QED  BY <1>1, <1>7, <2>1, <2>2
<1>10. ASSUME NEW p \in Procs,
              StoreValue(p) \/ (\E k \in Keys : EraseVault(p, k)) \/ EraseLegacy(p) \/ Erased(p)
       PROVE  CopyInv'
  <2>1. PICK d : Moved(p, d) /\ d.pc # "replace"  BY <1>10, ValueMoves
  <2>2. UNCHANGED <<remote, lost>> /\ revision' \in {revision, revision + 1}
    BY <1>10 DEF StoreValue, PutVault, Seal, EraseVault, EraseLegacy, Erased, ChangeMeta
  <2> QED  BY <1>1, <1>7, <2>1, <2>2
<1>11. ASSUME NEW p \in Procs, Returning(p)
       PROVE  CopyInv'
  <2>1. PICK d : Moved(p, d) /\ d.pc # "replace"  BY <1>11, ReturnMoves
  <2>2. CASE Replace(p)
    <3>1. proc[p].call.value \in Documents  BY <1>1, <2>2 DEF ProcTypes, Replace, At, Shape
    <3>2. UNCHANGED <<remote, lost>> /\ revision' \in Nat /\ revision' >= revision
      BY <1>1, <2>2, <3>1 DEF Replace, Replaceable, Documents
    <3> QED  BY <1>7, <2>1, <3>2
  <2>4. CASE UpdateFails(p) \/ MigrateFails(p)
    <3>1. UNCHANGED <<remote, lost>>  BY <2>4 DEF UpdateFails, MigrateFails
    <3>2. revision' \in {revision, revision + 1}  BY <2>4, FailureTypes
    <3> QED  BY <1>1, <1>7, <2>1, <3>1, <3>2
  <2>3. CASE ~Replace(p) /\ ~(UpdateFails(p) \/ MigrateFails(p))
    <3>1. UNCHANGED <<remote, lost, revision>>
      BY <1>11, <2>3 DEF Returning, ApplyRefused, CommitMeta, DropLegacy, ReadVault, ReadLegacy
    <3> QED  BY <1>1, <1>7, <2>1, <3>1
  <2> QED  BY <2>2, <2>3, <2>4
<1>12. ASSUME NEW p \in Procs, ReadVault(p) \/ ReadLegacy(p) \/ MigrateValue(p), ~Returning(p)
       PROVE  CopyInv'
  <2>1. PICK d : Moved(p, d) /\ d.pc # "replace"  BY <1>12, ReadMoves
  <2>2. UNCHANGED <<remote, lost>> /\ revision' \in {revision, revision + 1}
    BY <1>12 DEF ReadVault, ReadLegacy, MigrateValue, PutVault, Seal
  <2> QED  BY <1>1, <1>7, <2>1, <2>2
<1> QED
  BY <1>2, <1>3, <1>4, <1>5, <1>6, <1>8, <1>9, <1>10, <1>11, <1>12, <1>13
  DEF EnvNext, Mutating, Reading, Syncing, Returning

\* A pull changes nothing, as long as the file has not been lost.
LEMMA PullsNothing ==
  ASSUME TypeInv, CopyInv, ~lost, NEW p \in Procs, Replace(p)
  PROVE  UNCHANGED <<vault, revision, sealedBy>>
<1>1. /\ proc[p].call.value \in Documents /\ NotNewer(proc[p].call.value, revision)
      /\ proc[p].root \in Procs /\ revision \in Nat
  BY DEF TypeInv, StoreTypes, ProcTypes, Replace, At, Shape, CopyInv
<1> QED  BY <1>1, EnvAssumption DEF Replace, Replaceable, NotNewer, Documents

\* Whose step it was.
Acts(q) ==
  \/ Start(q) \/ Opening(q) \/ Mutating(q) \/ Reading(q) \/ Exit(q) \/ EnvCrash(q) \/ Replace(q)
  \/ \E doc \in remote \cup {Foreign} : StartPull(q, doc)

LEMMA OnlyActor ==
  ASSUME TypeInv, EnvNext, NEW q \in Procs, proc'[q] # proc[q]
  PROVE  Acts(q)
<1>1. ProcTypes  BY DEF TypeInv
<1>2. CASE EnvTick \/ LoseKey \/ LoseVault \/ LoseMeta
  BY <1>2 DEF EnvTick, LoseKey, LoseVault, LoseMeta
<1>3. CASE \E p \in Procs : Push(p)
  BY <1>3 DEF Push
<1>4. ASSUME NEW p \in Procs, Acts(p)  PROVE \E d : Moved(p, d)
  BY <1>4, BeginMoves, OpeningMoves, ApplyMoves, ValueMoves, ReturnMoves, ReadMoves, ZenonT(60)
  DEF Acts, Mutating, Reading, Returning
<1>5. PICK p \in Procs : Acts(p)
  BY <1>2, <1>3 DEF EnvNext, Acts, Syncing
<1>6. PICK d : Moved(p, d)  BY <1>4, <1>5
<1>7. proc'[q] = IF q = p THEN d ELSE proc[q]  BY <1>1, <1>6, OneProc
<1> QED  BY <1>5, <1>7

\* The metadata file changes by a commit, reported or not, and where it is lost.
Commits(p) == CommitMeta(p) \/ (UpdateFails(p) /\ CommitsAnyway(p))

LEMMA MetaStep ==
  ASSUME EnvNext
  PROVE  UNCHANGED <<meta, present>> \/ LoseMeta \/ \E p \in Procs : Commits(p)
<1> USE DEF stores, sync, history
<1>1. CASE EnvTick \/ LoseKey \/ LoseVault
  BY <1>1 DEF EnvTick, LoseKey, LoseVault
<1>2. ASSUME NEW p \in Procs, Push(p) \/ Replace(p) \/ Exit(p) \/ EnvCrash(p) \/ Opening(p)
      PROVE  UNCHANGED <<meta, present>>
  BY <1>2 DEF Push, Replace, Exit, EnvCrash, Opening, OpenMeta, LockInit, LoadKey, CreateKey, OpenFails, LoadVault
<1>3. ASSUME NEW p \in Procs, Start(p) \/ \E doc \in remote \cup {Foreign} : StartPull(p, doc)
      PROVE  UNCHANGED <<meta, present>>
  <2>1. PICK pc, c : Begin(p, pc, c)  BY <1>3, CallBegins
  <2> QED  BY <2>1 DEF Begin
<1>5. ASSUME NEW p \in Procs, UpdateFails(p), ~CommitsAnyway(p)  PROVE UNCHANGED <<meta, present>>
  BY <1>5 DEF UpdateFails, StoresAnyway, ErasesAnyway
<1>4. ASSUME NEW p \in Procs, Mutating(p) \/ Reading(p), ~CommitMeta(p), ~UpdateFails(p)
      PROVE  UNCHANGED <<meta, present>>
  BY <1>4 DEF Mutating, Reading, LockMeta, ApplyCreate, ApplyUse, ApplyValues, ApplyRefused, ChangeMeta,
       StoreValue, PutVault, Seal, EraseVault, EraseLegacy, Erased,
       ReadVault, ReadLegacy, MigrateValue, DropLegacy, MigrateFails
<1> QED  BY <1>1, <1>2, <1>3, <1>4, <1>5 DEF EnvNext, Syncing, Commits

LEMMA FileStep ==
  ASSUME FileInv, EnvNext
  PROVE  FileInv'
<1>1. CASE UNCHANGED <<meta, present>>  BY <1>1 DEF FileInv
<1>2. CASE LoseMeta  BY <1>2 DEF LoseMeta, FileInv, NoMeta
<1>3. ASSUME NEW p \in Procs, Commits(p)  PROVE FileInv'
  BY <1>3 DEF Commits, CommitMeta, CommitsAnyway, FileInv
<1> QED  BY <1>1, <1>2, <1>3, MetaStep

\* A file that was lost has been lost for ever.
LEMMA LostStays ==
  ASSUME EnvNext, ~lost'
  PROVE  ~lost
<1> USE DEF stores, sync, history
<1>1. \A p \in Procs : (Start(p) \/ \E doc \in remote \cup {Foreign} : StartPull(p, doc)) => lost' = lost
  BY CallBegins DEF Begin
<1>2. \A p \in Procs : Opening(p) \/ Exit(p) \/ EnvCrash(p) => lost' = lost
  BY DEF Opening, OpenMeta, LockInit, LoadKey, CreateKey, OpenFails, LoadVault, Exit, EnvCrash
<1>3. \A p \in Procs : Mutating(p) => lost' = lost
  BY ZenonT(60) DEF Mutating, LockMeta, ApplyCreate, ApplyUse, ApplyValues, ApplyRefused, ChangeMeta,
     StoreValue, PutVault, Seal, EraseVault, EraseLegacy, Erased, CommitMeta, UpdateFails
<1>4. \A p \in Procs : Reading(p) \/ Push(p) \/ Replace(p) => lost' = lost
  BY DEF Reading, ReadVault, ReadLegacy, MigrateValue, PutVault, Seal, DropLegacy, MigrateFails, Push, Replace
<1>5. EnvTick \/ LoseKey \/ LoseVault \/ LoseMeta => lost' = lost \/ lost' = TRUE
  BY DEF EnvTick, LoseKey, LoseVault, LoseMeta
<1> QED  BY <1>1, <1>2, <1>3, <1>4, <1>5 DEF EnvNext, Syncing

\* A stored value is a value.
LEMMA CellIsNotNone ==
  ASSUME NEW kind, NEW v \in Values
  PROVE  [form |-> Form(kind), value |-> v] \in Cell /\ [form |-> Form(kind), value |-> v] # None
BY EnvAssumption DEF Form, Cell

\* The values of a slot, in one step: what the vault holds leaves it by the erasing step of
\* a deletion, and what was stored last is forgotten by a deletion and known from a put.
Erases(p, s) ==
  proc[p].call.name = s[1] /\ (EraseVault(p, s[2]) \/ (UpdateFails(p) /\ ErasesAnyway(p)))

LEMMA ValuesStep ==
  ASSUME TypeInv, CopyInv, EnvNext, ~lost', NEW s \in Slots
  PROVE  /\ vault[s] # None => vault'[s] # None \/ (latest'[s] = None /\ \E p \in Procs : Erases(p, s))
         /\ latest'[s] \in {None, latest[s]} \/ vault'[s] # None
<1> USE DEF stores, sync, history
<1>0. ~lost /\ \A p \in Procs : Replace(p) => UNCHANGED vault
  BY LostStays, PullsNothing
<1>1. StoreTypes /\ ProcTypes  BY DEF TypeInv
<1>2. SUFFICES ASSUME ~UNCHANGED <<vault, latest>>
      PROVE  /\ vault[s] # None => vault'[s] # None \/ (latest'[s] = None /\ \E p \in Procs : Erases(p, s))
             /\ latest'[s] \in {None, latest[s]} \/ vault'[s] # None
  BY <1>0
<1>3. PICK p \in Procs : \/ StoreValue(p) \/ (\E k \in Keys : EraseVault(p, k)) \/ UpdateFails(p)
                         \/ MigrateValue(p) \/ MigrateFails(p)
  <2>1. \A p \in Procs : ~(Start(p) \/ \E doc \in remote \cup {Foreign} : StartPull(p, doc))
    BY <1>2, CallBegins DEF Begin
  <2>2. \A p \in Procs : ~(Opening(p) \/ Exit(p) \/ EnvCrash(p) \/ Push(p))
    BY <1>2 DEF Opening, OpenMeta, LockInit, LoadKey, CreateKey, OpenFails, LoadVault, Exit, EnvCrash, Push
  <2>3. \A p \in Procs : Mutating(p) =>
          StoreValue(p) \/ (\E k \in Keys : EraseVault(p, k)) \/ UpdateFails(p)
    BY <1>2 DEF Mutating, LockMeta, ApplyCreate, ApplyUse, ApplyValues, ApplyRefused, ChangeMeta,
         EraseLegacy, Erased, CommitMeta
  <2>4. \A p \in Procs : Reading(p) => MigrateValue(p) \/ MigrateFails(p)
    BY <1>2 DEF Reading, ReadVault, ReadLegacy, DropLegacy
  <2>5. \A p \in Procs : ~Replace(p)
    BY <1>0, <1>2 DEF Replace
  <2>6. ~(EnvTick \/ LoseKey \/ LoseVault \/ LoseMeta)
    BY <1>0, <1>2 DEF EnvTick, LoseKey, LoseVault, LoseMeta
  <2> QED  BY <2>1, <2>2, <2>3, <2>4, <2>5, <2>6 DEF EnvNext, Syncing
<1>4. Shape(proc[p]) /\ proc[p] \in ProcRecord  BY <1>1 DEF ProcTypes
<1>6. CASE StoreValue(p) \/ (UpdateFails(p) /\ StoresAnyway(p))
  <2>1. PICK t \in Slots, x \in Cell : /\ vault' = [vault EXCEPT ![t] = x] /\ x # None
                             /\ latest' = [latest EXCEPT ![t] = proc[p].call.value]
    <3>1. <<proc[p].call.name, proc[p].call.key>> \in Slots /\ proc[p].call.value \in Values
      BY <1>4, <1>6 DEF StoreValue, StoresAnyway, At, Shape, IsPut, Slots
    <3> DEFINE x == [form |-> Form(proc[p].call.kind), value |-> proc[p].call.value]
    <3>2. x \in Cell /\ x # None  BY <3>1, CellIsNotNone
    <3>3. /\ vault' = [vault EXCEPT ![<<proc[p].call.name, proc[p].call.key>>] = x]
          /\ latest' = [latest EXCEPT ![<<proc[p].call.name, proc[p].call.key>>] = proc[p].call.value]
      BY <1>6 DEF StoreValue, StoresAnyway, Slot, PutVault, Seal
    <3> HIDE DEF x
    <3> QED  BY <3>1, <3>2, <3>3
  <2> QED  BY <1>1, <2>1 DEF StoreTypes, Cells
<1>7. CASE \E k \in Keys : EraseVault(p, k)
  <2>1. PICK k \in Keys : EraseVault(p, k)  BY <1>7
  <2>2. PICK t \in Slots : /\ vault' = [vault EXCEPT ![t] = None] /\ latest' = [latest EXCEPT ![t] = None]
                           /\ t[1] = proc[p].call.name /\ t[2] = k
    <3>1. <<proc[p].call.name, k>> \in Slots
      BY <1>4, <2>1 DEF EraseVault, At, Shape, Slots
    <3> QED  BY <2>1, <3>1 DEF EraseVault
  <2>3. s = t => Erases(p, s)  BY <2>1, <2>2 DEF Erases
  <2> QED  BY <1>1, <2>2, <2>3 DEF StoreTypes, Cells
<1>8. CASE UpdateFails(p) /\ ~StoresAnyway(p) /\ ~ErasesAnyway(p)
  BY <1>2, <1>8 DEF UpdateFails, CommitsAnyway
<1>10. CASE UpdateFails(p) /\ ErasesAnyway(p)
  <2>1. PICK t \in Slots :
          /\ t[1] = proc[p].call.name
          /\ vault' = vault \/ vault' = [vault EXCEPT ![t] = None]
          /\ latest' = IF vault'[t] = None THEN [latest EXCEPT ![t] = None] ELSE latest
    <3>1. PICK k \in proc[p].call.todo, gone \in BOOLEAN :
            LET t == <<proc[p].call.name, k>>
            IN /\ vault' = vault \/ vault' = [vault EXCEPT ![t] = None]
               /\ latest' = IF vault'[t] = None THEN [latest EXCEPT ![t] = None] ELSE latest
      BY <1>10 DEF ErasesAnyway, Seal
    <3>2. <<proc[p].call.name, k>> \in Slots
      BY <1>4, <1>10, <3>1 DEF ErasesAnyway, At, Shape, Slots, ProcRecord, CallRecord
    <3> QED  BY <3>1, <3>2
  <2>2. s = t => Erases(p, s)  BY <1>10, <2>1 DEF Erases
  <2>3. vault'[s] = vault[s] \/ (s = t /\ vault'[s] = None /\ latest'[s] = None)
    BY <1>1, <2>1 DEF StoreTypes, Cells
  <2>4. latest'[s] \in {None, latest[s]}
    BY <1>1, <2>1 DEF StoreTypes
  <2> QED  BY <2>2, <2>3, <2>4
<1>9. CASE MigrateValue(p) \/ MigrateFails(p)
  <2>1. PICK t \in Slots, x \in Cell : vault' = [vault EXCEPT ![t] = x] /\ x # None /\ UNCHANGED latest
    <3>1. Slot(p) \in Slots /\ proc[p].call.value \in Values
      BY <1>4, <1>9 DEF MigrateValue, MigrateFails, At, Shape, Slots, Slot, Reads
    <3> DEFINE x == [form |-> Form(proc[p].call.kind), value |-> proc[p].call.value]
    <3>2. x \in Cell /\ x # None  BY <3>1, CellIsNotNone
    <3>3. vault' = [vault EXCEPT ![Slot(p)] = x] /\ UNCHANGED latest
      BY <1>2, <1>9 DEF MigrateValue, MigrateFails, PutVault, Seal
    <3> HIDE DEF x
    <3> QED  BY <3>1, <3>2, <3>3
  <2> QED  BY <1>1, <2>1 DEF StoreTypes, Cells
<1> QED  BY <1>3, <1>6, <1>7, <1>8, <1>9, <1>10

\* A value that is about to leave the keychain is in the vault, and one that is about to be
\* listed, unless it has been deleted since.
KeptGood(r) ==
  /\ r.pc = "dropLegacy" =>
       LET s == <<r.call.name, r.call.key>> IN vault[s] # None \/ latest[s] = None
  /\ r.pc = "commit" /\ ~fromCache =>
       \A s \in Slots : Listed(r.view, s) => Listed(meta, s) \/ vault[s] # None

KeptInv == ~lost => \A p \in Procs : KeptGood(proc[p])

LEMMA KeptInit ==
  ASSUME EnvInit
  PROVE  KeptInv
BY DEF EnvInit, KeptInv, KeptGood

\* What a mutation has prepared is listed already, or the entry of its put.
LEMMA PreparedViews ==
  ASSUME TypeInv, LockInv, ~fromCache, NEW p \in Procs,
         ApplyCreate(p) \/ ApplyUse(p) \/ StoreValue(p) \/ Erased(p), NEW d, Moved(p, d), d.pc = "commit",
         NEW s \in Slots, Listed(d.view, s)
  PROVE  Listed(meta, s) \/ (StoreValue(p) /\ s = <<proc[p].call.name, proc[p].call.key>>)
<1> DEFINE c == proc[p].call
<1>1. /\ proc \in [Procs -> ProcRecord] /\ proc[p] \in ProcRecord /\ Shape(proc[p])
      /\ c \in CallRecord /\ meta \in Metadata
  BY DEF TypeInv, StoreTypes, ProcTypes, ProcRecord
<1>2. proc[p].view = meta
  BY DEF LockInv, LocksGood, Changing, ApplyCreate, ApplyUse, StoreValue, Erased, At
<1>3. proc'[p] = d  BY OneProc DEF TypeInv
<1>4. meta.sets \in [Names -> SetRecord \cup {None}]  BY <1>1 DEF Metadata
<1>5. CASE ApplyCreate(p)
  <2>1. PICK t : t.entries = [k \in Keys |-> None] /\ d.view.sets = [meta.sets EXCEPT ![c.name] = t]
    <3>1. proc'[p].view.sets = [meta.sets EXCEPT ![c.name] = NewSet(IF c.value THEN now + TTL ELSE None)]
      BY <1>1, <1>2, <1>5 DEF ApplyCreate, ChangeMeta, ProcRecord
    <3> QED  BY <1>3, <3>1 DEF NewSet
  <2> QED  BY <1>4, <2>1 DEF Listed, HasSet, Slots
<1>6. CASE ApplyUse(p)
  <2>1. d.view.sets = meta.sets
    BY <1>1, <1>2, <1>3, <1>6 DEF ApplyUse, ChangeMeta, ProcRecord, Metadata
  <2> QED  BY <2>1 DEF Listed, HasSet, Slots
<1>7. CASE StoreValue(p)
  <2>1. c.name \in Names /\ c.key \in Keys /\ c.kind \in Kinds /\ HasSet(meta, c.name)
    BY <1>1, <1>2, <1>7 DEF StoreValue, At, Shape, IsPut
  <2>2. d.view = WithEntry(meta, c.name, c.key, c.kind)
    BY <1>1, <1>2, <1>3, <1>7 DEF StoreValue, ProcRecord
  <2> QED  BY <1>1, <1>7, <2>1, <2>2, Entered
<1>8. CASE Erased(p)
  <2>1. c.name \in Names /\ HasSet(meta, c.name) /\ (c.op = "delete" => c.key \in Keys)
    BY <1>1, <1>2, <1>8 DEF Erased, At, Shape, IsErase
  <2>2. CASE c.op = "delete"
    <3>1. d.view = WithEntry(meta, c.name, c.key, None)
      BY <1>1, <1>2, <1>3, <1>8, <2>2 DEF Erased, ChangeMeta, ProcRecord
    <3> QED  BY <1>1, <2>1, <2>2, <3>1, Entered
  <2>3. CASE c.op # "delete"
    <3>1. d.view.sets = [meta.sets EXCEPT ![c.name] = None]
      BY <1>1, <1>2, <1>3, <1>8, <2>3 DEF Erased, ChangeMeta, ProcRecord
    <3> QED  BY <1>4, <3>1 DEF Listed, HasSet, Slots
  <2> QED  BY <2>2, <2>3
<1> QED  BY <1>5, <1>6, <1>7, <1>8

\* What a mutation took from a cache, it took for ever.
LEMMA CacheStays ==
  ASSUME EnvNext, ~fromCache', ~LoseMeta
  PROVE  ~fromCache
<1> USE DEF stores, sync, history
<1>1. \A p \in Procs : (Start(p) \/ \E doc \in remote \cup {Foreign} : StartPull(p, doc)) => UNCHANGED fromCache
  BY CallBegins DEF Begin
<1>2. \A p \in Procs : Opening(p) \/ Exit(p) \/ EnvCrash(p) => UNCHANGED fromCache
  BY DEF Opening, OpenMeta, LockInit, LoadKey, CreateKey, OpenFails, LoadVault, Exit, EnvCrash
<1>3. \A p \in Procs : Mutating(p) => UNCHANGED fromCache \/ fromCache'
  <2>1. \A p \in Procs : LockMeta(p) => UNCHANGED fromCache \/ fromCache'  BY DEF LockMeta
  <2>2. \A p \in Procs : UpdateFails(p) => UNCHANGED fromCache  BY DEF UpdateFails
  <2> QED
    BY <2>1, <2>2 DEF Mutating, ApplyCreate, ApplyUse, ApplyValues, ApplyRefused, ChangeMeta,
     StoreValue, PutVault, Seal, EraseVault, EraseLegacy, Erased, CommitMeta
<1>4. \A p \in Procs : Reading(p) \/ Push(p) \/ Replace(p) => UNCHANGED fromCache
  BY DEF Reading, ReadVault, ReadLegacy, MigrateValue, PutVault, Seal, DropLegacy, MigrateFails, Push, Replace
<1>5. EnvTick \/ LoseKey \/ LoseVault => UNCHANGED fromCache
  BY DEF EnvTick, LoseKey, LoseVault
<1> QED  BY <1>1, <1>2, <1>3, <1>4, <1>5 DEF EnvNext, Syncing

\* A process that does not move keeps what it was promised.
LEMMA KeptOther ==
  ASSUME TypeInv, LockInv, CopyInv, EnvNext, ~lost', NEW q \in Procs, proc'[q] = proc[q], KeptGood(proc[q])
  PROVE  KeptGood(proc[q])'
<1>1. Shape(proc[q])  BY DEF TypeInv, ProcTypes
<1>2. \A s \in Slots : /\ vault[s] # None => vault'[s] # None \/ (latest'[s] = None /\ \E p \in Procs : Erases(p, s))
                       /\ latest'[s] \in {None, latest[s]} \/ vault'[s] # None
  BY ValuesStep
<1>3. CASE proc[q].pc = "dropLegacy"
  <2>1. <<proc[q].call.name, proc[q].call.key>> \in Slots  BY <1>1, <1>3 DEF Shape, Reads, Slots
  <2> QED  BY <1>2, <1>3, <2>1 DEF KeptGood
<1>4. CASE proc[q].pc = "commit" /\ ~fromCache'
  <2>1. lock = q /\ q # None  BY <1>4, EnvAssumption DEF LockInv, LocksGood, Holding
  <2>4. ~LoseMeta /\ ~fromCache
    <3>1. ~LoseMeta  BY <1>4, <2>1 DEF LoseMeta
    <3> QED  BY <1>4, <3>1, CacheStays
  <2>2. meta' = meta
    <3>1. ASSUME NEW p \in Procs, Commits(p)  PROVE FALSE
      <4>1. p = q  BY <2>1, <3>1 DEF Commits, CommitMeta, CommitsAnyway, At, LockInv, LocksGood, Holding
      <4>2. PICK d : Moved(p, d) /\ d.pc = "ready"  BY <3>1, ReturnMoves DEF Returning, Commits
      <4>3. proc'[q] = d  BY <4>1, <4>2, OneProc DEF TypeInv
      <4> QED  BY <1>4, <4>2, <4>3
    <3> QED  BY <2>4, <3>1, MetaStep
  <2>3. \A p \in Procs, s \in Slots : ~Erases(p, s)
    BY <1>4, <2>1 DEF Erases, EraseVault, ErasesAnyway, At, LockInv, LocksGood, Holding, Changing
  <2> QED  BY <1>2, <1>4, <2>2, <2>3, <2>4 DEF KeptGood, Listed, HasSet
<1> QED  BY <1>3, <1>4 DEF KeptGood

LEMMA KeptStep ==
  ASSUME TypeInv, LockInv, CopyInv, KeptInv, EnvNext
  PROVE  KeptInv'
<1>1. ProcTypes /\ vault \in Cells  BY DEF TypeInv, StoreTypes
<1>2. SUFFICES ASSUME ~lost', NEW q \in Procs  PROVE KeptGood(proc[q])'
  BY DEF KeptInv
<1>3. KeptGood(proc[q])  BY <1>2, LostStays DEF KeptInv
<1>4. CASE proc'[q] = proc[q]
  BY <1>2, <1>3, <1>4, KeptOther
<1>5. CASE proc'[q] # proc[q]
  <2>1. Acts(q)  BY <1>5, OnlyActor
  <2>2. ASSUME NEW d, Moved(q, d), d.pc \notin {"dropLegacy", "commit"}  PROVE KeptGood(proc[q])'
    <3>1. proc'[q] = d  BY <1>1, <2>2, OneProc
    <3> QED  BY <2>2, <3>1 DEF KeptGood
  <2>3. CASE Start(q) \/ \E doc \in remote \cup {Foreign} : StartPull(q, doc)
    <3>1. PICK d : Moved(q, d) /\ d.pc \in {"lock", "read", "replace"}  BY <2>3, BeginMoves
    <3> QED  BY <2>2, <3>1
  <2>4. CASE Opening(q) \/ Exit(q) \/ EnvCrash(q)
    <3>1. PICK d : Moved(q, d) /\ d.pc \notin {"dropLegacy", "commit"}  BY <2>4, OpeningMoves
    <3> QED  BY <2>2, <3>1
  <2>5. CASE Returning(q)
    <3>1. PICK d : Moved(q, d) /\ d.pc = "ready"  BY <2>5, ReturnMoves
    <3> QED  BY <2>2, <3>1
  <2>6. CASE LockMeta(q) \/ ApplyValues(q)
    <3>1. ~ApplyCreate(q) /\ ~ApplyUse(q)
      BY <2>6 DEF LockMeta, ApplyValues, ApplyCreate, ApplyUse, At
    <3>2. PICK d : Moved(q, d) /\ d.pc \in {"apply", "store", "erase"}
      BY <2>6, <3>1, ApplyMoves
    <3> QED  BY <2>2, <3>2
  <2>7. CASE (\E k \in Keys : EraseVault(q, k)) \/ EraseLegacy(q)
    <3>1. ~StoreValue(q) /\ ~Erased(q)
      BY <1>1, <2>7 DEF EraseVault, EraseLegacy, StoreValue, Erased, At
    <3>2. PICK d : Moved(q, d) /\ d.pc \in {"eraseLegacy", "erase"}
      BY <2>7, <3>1, ValueMoves
    <3> QED  BY <2>2, <3>2
  <2>8. CASE ApplyCreate(q) \/ ApplyUse(q) \/ StoreValue(q) \/ Erased(q)
    <3>1. PICK d : Moved(q, d) /\ d.pc = "commit"
      <4>1. CASE ApplyCreate(q) \/ ApplyUse(q)
        <5>1. ~LockMeta(q) /\ ~ApplyValues(q)
          BY <4>1 DEF LockMeta, ApplyValues, ApplyCreate, ApplyUse, At
        <5> QED  BY <4>1, <5>1, ApplyMoves
      <4>2. CASE StoreValue(q) \/ Erased(q)
        <5>1. ~EraseLegacy(q) /\ ~(\E k \in Keys : EraseVault(q, k))
          BY <4>2 DEF EraseVault, EraseLegacy, StoreValue, Erased, At
        <5> QED  BY <4>2, <5>1, ValueMoves
      <4> QED  BY <2>8, <4>1, <4>2
    <3>2. proc'[q] = d  BY <1>1, <3>1, OneProc
    <3>3. UNCHANGED <<meta, fromCache>>
      BY <2>8 DEF stores, sync, ApplyCreate, ApplyUse, StoreValue, Erased, ChangeMeta
    <3>4. StoreValue(q) => vault'[<<proc[q].call.name, proc[q].call.key>>] # None
      <4>1. SUFFICES ASSUME StoreValue(q)  PROVE vault'[<<proc[q].call.name, proc[q].call.key>>] # None
        OBVIOUS
      <4>2. <<proc[q].call.name, proc[q].call.key>> \in Slots /\ proc[q].call.value \in Values
        BY <1>1, <4>1 DEF ProcTypes, StoreValue, At, Shape, IsPut, Slots
      <4> QED  BY <1>1, <4>1, <4>2, CellIsNotNone DEF StoreValue, PutVault, Seal, Cells
    <3>5. ASSUME NEW s \in Slots, Listed(d.view, s), ~fromCache
          PROVE  Listed(meta, s) \/ vault'[s] # None
      BY <2>8, <3>1, <3>4, <3>5, PreparedViews
    <3> QED  BY <3>1, <3>2, <3>3, <3>5 DEF KeptGood, Listed, HasSet
  <2>9. CASE (ReadVault(q) \/ ReadLegacy(q) \/ MigrateValue(q)) /\ ~Returning(q)
    <3>1. PICK d : /\ Moved(q, d)
                   /\ \/ d.pc \in {"readLegacy", "migrate"}
                      \/ MigrateValue(q) /\ d.pc = "dropLegacy" /\ d.call = proc[q].call
      BY <2>9, ReadMoves
    <3>2. CASE MigrateValue(q) /\ d.pc = "dropLegacy" /\ d.call = proc[q].call
      <4>1. Slot(q) \in Slots /\ proc[q].call.value \in Values
        BY <1>1, <3>2 DEF ProcTypes, MigrateValue, At, Shape, Reads, Slots, Slot
      <4>2. vault'[Slot(q)] # None
        BY <1>1, <3>2, <4>1, CellIsNotNone DEF MigrateValue, PutVault, Seal, Cells
      <4>3. proc'[q] = d  BY <1>1, <3>1, OneProc
      <4> QED  BY <3>2, <4>2, <4>3 DEF KeptGood, Slot
    <3> QED  BY <2>2, <3>1, <3>2
  <2> QED
    BY <2>1, <2>3, <2>4, <2>5, <2>6, <2>7, <2>8, <2>9 DEF Acts, Mutating, Reading, Returning
<1> QED  BY <1>4, <1>5

-----------------------------------------------------------------------------
(* Metadata and vault agree between mutations.                             *)

Agree(m) == \A s \in Slots : Listed(m, s) <=> vault[s] # None

\* The slots a call erases.
Doomed(c) == IF c.op = "delete" THEN {<<c.name, c.key>>} ELSE {<<c.name, k>> : k \in Keys}

WorkGood(r) ==
  LET c == r.call IN
  /\ r.pc \in {"apply", "store"} => Agree(meta)
  /\ r.pc \in {"erase", "eraseLegacy"} =>
       \A s \in Slots : IF s \in Doomed(c) THEN s[2] \notin c.todo => vault[s] = None
                        ELSE Listed(meta, s) <=> vault[s] # None
  /\ r.pc = "eraseLegacy" => vault[<<c.name, c.key>>] = None
  /\ r.pc = "commit" => Agree(r.view)
  /\ ~present /\ r.pc # "commit" => r.view = NoMeta

AgreeInv ==
  ~upgraded =>
    /\ \A s \in Slots : legacy[s] = None
    /\ \A p \in Procs : proc[p].pc \notin {"migrate", "dropLegacy"}
    /\ faults = 0 => ~fromCache /\ (lock = None => Agree(meta)) /\ \A p \in Procs : WorkGood(proc[p])

LEMMA AgreeInit ==
  ASSUME EnvInit
  PROVE  AgreeInv
<1>1. CASE upgraded  BY <1>1 DEF AgreeInv
<1>2. CASE ~upgraded
  <2>1. meta = NoMeta /\ legacy = [s \in Slots |-> None]  BY <1>2 DEF EnvInit
  <2>2. ~fromCache /\ \A p \in Procs : proc[p].pc = "closed" /\ proc[p].view = NoMeta  BY DEF EnvInit
  <2>3. vault = [s \in Slots |-> None]  BY DEF EnvInit
  <2>4. Agree(meta)  BY <2>1, <2>3 DEF Agree, Listed, HasSet, NoMeta, Slots
  <2> QED  BY <2>1, <2>2, <2>4 DEF AgreeInv, WorkGood
<1> QED  BY <1>1, <1>2

\* Without faults every Manager opens the vault.
LEMMA NoRefusal ==
  ASSUME TypeInv, KeyInv, faults = 0, NEW p \in Procs, proc[p].root \in Procs
  PROVE  Authenticates(p)
BY EnvAssumption DEF KeyInv, TrueKeys, OneLoss, Authenticates, TypeInv, StoreTypes

\* No call fails then.
LEMMA NoFailure ==
  ASSUME TypeInv, KeyInv, faults' = 0, faults = 0, NEW p \in Procs
  PROVE  ~UpdateFails(p)
<1>1. ASSUME UpdateFails(p)  PROVE FALSE
  <2>1. ~Authenticates(p) /\ proc[p].pc \in {"store", "erase"}  BY <1>1 DEF UpdateFails, Fault
  <2>2. proc[p].root \in Procs  BY <2>1 DEF TypeInv, ProcTypes, Shape
  <2> QED  BY <2>1, <2>2, NoRefusal
<1> QED  BY <1>1

\* What starts with no faults, or without keychain values, stays so.
LEMMA FrameStep ==
  ASSUME TypeInv, EnvNext
  PROVE  /\ upgraded' = upgraded
         /\ faults' = faults \/ (\E x \in Nat : faults' = x + 1)
         /\ (\A s \in Slots : legacy[s] = None) => \A s \in Slots : legacy'[s] = None
<1> USE DEF stores, sync, history
<1>0. faults \in Nat /\ legacy \in [Slots -> Values \cup {None}]  BY DEF TypeInv, StoreTypes
<1>1. CASE EnvTick \/ LoseKey \/ LoseVault \/ LoseMeta
  BY <1>0, <1>1 DEF EnvTick, LoseKey, LoseVault, LoseMeta, Fault
<1>2. ASSUME NEW p \in Procs, Push(p) \/ Replace(p) \/ Exit(p) \/ EnvCrash(p) \/ Opening(p)
      PROVE  upgraded' = upgraded /\ legacy' = legacy /\ faults' \in {faults, faults + 1}
  BY <1>2 DEF Push, Replace, Exit, EnvCrash, Opening, OpenMeta, LockInit, LoadKey, CreateKey, OpenFails,
       LoadVault, Fault
<1>3. ASSUME NEW p \in Procs, Start(p) \/ \E doc \in remote \cup {Foreign} : StartPull(p, doc)
      PROVE  upgraded' = upgraded /\ legacy' = legacy /\ faults' = faults
  BY <1>3, CallBegins DEF Begin
<1>4. ASSUME NEW p \in Procs, Mutating(p) \/ Reading(p)
      PROVE  upgraded' = upgraded /\ faults' \in {faults, faults + 1}
  BY <1>4 DEF Mutating, Reading, LockMeta, ApplyCreate, ApplyUse, ApplyValues, ApplyRefused, ChangeMeta,
       StoreValue, PutVault, Seal, EraseVault, EraseLegacy, Erased, CommitMeta, UpdateFails, Fault,
       ReadVault, ReadLegacy, MigrateValue, DropLegacy, MigrateFails
<1>5. ASSUME NEW p \in Procs, Mutating(p) \/ Reading(p)
      PROVE  legacy' = legacy \/ \E s : legacy' = [legacy EXCEPT ![s] = None]
  <2>1. CASE EraseLegacy(p)  BY <2>1 DEF EraseLegacy
  <2>2. CASE UpdateFails(p)
    BY <2>2 DEF UpdateFails, StoresAnyway, CommitsAnyway, ErasesAnyway
  <2>3. CASE DropLegacy(p)  BY <2>3 DEF DropLegacy
  <2>4. CASE ~(EraseLegacy(p) \/ UpdateFails(p) \/ DropLegacy(p))
    BY <1>5, <2>4 DEF Mutating, Reading, LockMeta, ApplyCreate, ApplyUse, ApplyValues, ApplyRefused,
       ChangeMeta, StoreValue, PutVault, Seal, EraseVault, Erased, CommitMeta, ReadVault, ReadLegacy,
       MigrateValue, MigrateFails
  <2> QED  BY <2>1, <2>2, <2>3, <2>4
<1> QED  BY <1>0, <1>1, <1>2, <1>3, <1>4, <1>5 DEF EnvNext, Syncing

\* Who changes the vault.
LEMMA VaultStep ==
  ASSUME TypeInv, CopyInv, EnvNext, ~lost, vault' # vault
  PROVE  LoseVault \/ \E p \in Procs : \/ StoreValue(p) \/ MigrateValue(p) \/ \E k \in Keys : EraseVault(p, k)
                                     \/ UpdateFails(p) \/ MigrateFails(p)
<1> USE DEF stores, sync, history
<1>1. CASE EnvTick \/ LoseKey \/ LoseMeta
  BY <1>1 DEF EnvTick, LoseKey, LoseMeta
<1>2. ASSUME NEW p \in Procs, Push(p) \/ Replace(p) \/ Exit(p) \/ EnvCrash(p) \/ Opening(p)
      PROVE  vault' = vault
  BY <1>2, PullsNothing DEF Push, Exit, EnvCrash, Opening, OpenMeta, LockInit, LoadKey, CreateKey, OpenFails,
       LoadVault
<1>3. ASSUME NEW p \in Procs, Start(p) \/ \E doc \in remote \cup {Foreign} : StartPull(p, doc)
      PROVE  vault' = vault
  BY <1>3, CallBegins DEF Begin
<1>4. ASSUME NEW p \in Procs, Mutating(p) \/ Reading(p),
             ~(StoreValue(p) \/ MigrateValue(p) \/ \E k \in Keys : EraseVault(p, k)),
             ~(UpdateFails(p) \/ MigrateFails(p))
      PROVE  vault' = vault
  BY <1>4 DEF Mutating, Reading, LockMeta, ApplyCreate, ApplyUse, ApplyValues, ApplyRefused, ChangeMeta,
       EraseLegacy, Erased, CommitMeta, ReadVault, ReadLegacy, DropLegacy
<1> QED  BY <1>1, <1>2, <1>3, <1>4 DEF EnvNext, Syncing

\* The vault and the metadata change by the holder of the lock only.
LEMMA HolderWrites ==
  ASSUME TypeInv, LockInv, KeyInv, CopyInv, AgreeInv, EnvNext, ~upgraded, faults' = 0,
         vault' # vault \/ ~UNCHANGED <<meta, present>>
  PROVE  \E p \in Procs : /\ lock = p /\ proc'[p] # proc[p]
                          /\ StoreValue(p) \/ CommitMeta(p) \/ \E k \in Keys : EraseVault(p, k)
<1>1. faults = 0 /\ ~lost /\ ProcTypes  BY FrameStep DEF TypeInv, StoreTypes, KeyInv
<1>2. ~LoseVault /\ ~LoseMeta /\ \A p \in Procs : ~UpdateFails(p)
  BY <1>1, NoFailure DEF LoseVault, LoseMeta, Fault
<1>3. \A p \in Procs : ~MigrateValue(p) /\ ~MigrateFails(p)
  BY DEF AgreeInv, MigrateValue, MigrateFails, At
<1>4. PICK p \in Procs : StoreValue(p) \/ CommitMeta(p) \/ \E k \in Keys : EraseVault(p, k)
  BY <1>1, <1>2, <1>3, VaultStep, MetaStep DEF Commits
<1>5. lock = p
  BY <1>4 DEF LockInv, LocksGood, Holding, Changing, StoreValue, CommitMeta, EraseVault, At
<1>6. \E d : Moved(p, d) /\ d.pc # proc[p].pc
  <2>1. CASE CommitMeta(p)
    BY <2>1, ReturnMoves DEF Returning, CommitMeta, At
  <2>2. CASE StoreValue(p) \/ \E k \in Keys : EraseVault(p, k)
    <3>1. PICK d : Moved(p, d) /\ (d.pc \in {"commit", "eraseLegacy"} \/ EraseLegacy(p) \/ Erased(p))
      BY <2>2, ValueMoves
    <3>2. proc[p].pc \in {"store", "erase"} /\ ~EraseLegacy(p)
      BY <2>2 DEF StoreValue, EraseVault, EraseLegacy, At
    <3>3. ~Erased(p)  BY <2>2 DEF StoreValue, EraseVault, Erased, At
    <3> QED  BY <3>1, <3>2, <3>3
  <2> QED  BY <1>4, <2>1, <2>2
<1>7. proc'[p] # proc[p]  BY <1>1, <1>6, OneProc
<1> QED  BY <1>4, <1>5, <1>7

\* A process that does not move goes on with what it has found.
LEMMA WorkOther ==
  ASSUME TypeInv, LockInv, KeyInv, CopyInv, AgreeInv, EnvNext, ~upgraded, faults' = 0,
         NEW q \in Procs, proc'[q] = proc[q]
  PROVE  WorkGood(proc[q])'
<1>1. faults = 0 /\ WorkGood(proc[q])  BY FrameStep DEF TypeInv, StoreTypes, AgreeInv
<1>2. CASE vault' = vault /\ UNCHANGED <<meta, present>>
  BY <1>1, <1>2 DEF WorkGood, Agree, Listed, HasSet, NoMeta
<1>3. CASE vault' # vault \/ ~UNCHANGED <<meta, present>>
  <2>1. PICK p \in Procs : lock = p /\ proc'[p] # proc[p]  BY <1>3, HolderWrites
  <2>2. proc[q].pc \notin Holding  BY <2>1 DEF LockInv, LocksGood
  <2>3. ~present' => ~present
    <3>1. ~LoseMeta  BY <1>1 DEF LoseMeta, Fault
    <3> QED  BY <3>1, MetaStep DEF Commits, CommitMeta, CommitsAnyway
  <2>4. ~present' => proc[q].view = NoMeta
    BY <1>1, <2>2, <2>3 DEF WorkGood, Holding, Changing
  <2> QED  BY <2>2, <2>4 DEF WorkGood, Holding, Changing, NoMeta
<1> QED  BY <1>2, <1>3

\* A mutation on its way: what it has changed in the metadata or in the vault is what the
\* other of them does not know yet.
LEMMA WorkApply ==
  ASSUME TypeInv, FileInv, LockInv, AgreeInv, ~upgraded, faults = 0, NEW p \in Procs,
         LockMeta(p) \/ ApplyCreate(p) \/ ApplyUse(p) \/ ApplyValues(p)
  PROVE  WorkGood(proc[p])'
<1> DEFINE c == proc[p].call  m == proc[p].view
<1>1. /\ ProcTypes /\ proc[p] \in ProcRecord /\ Shape(proc[p]) /\ WorkGood(proc[p])
      /\ m \in Metadata /\ vault \in Cells
  BY DEF TypeInv, ProcTypes, AgreeInv, ProcRecord, StoreTypes
<1>2. vault' = vault /\ meta' = meta /\ present' = present /\ ~fromCache
  BY DEF stores, LockMeta, ApplyCreate, ApplyUse, ApplyValues, ChangeMeta, AgreeInv
<1>11. ~present => m = NoMeta
  BY <1>1 DEF WorkGood, LockMeta, ApplyCreate, ApplyUse, ApplyValues, At
<1>3. PICK d : /\ Moved(p, d)
               /\ \/ LockMeta(p) /\ d.pc = "apply" /\ d.view = (IF present THEN meta ELSE m)
                  \/ /\ ApplyCreate(p) /\ d.pc = "commit" /\ ~HasSet(m, c.name)
                     /\ \E s : /\ s.entries = [k \in Keys |-> None]
                               /\ d.view.sets = [m.sets EXCEPT ![c.name] = s]
                  \/ ApplyUse(p) /\ d.pc = "commit" /\ d.view.sets = m.sets
                  \/ /\ ApplyValues(p) /\ d.pc \in {"store", "erase"} /\ d.view = m
                     /\ d.call.op = c.op /\ d.call.name = c.name
                     /\ d.call.key = c.key /\ HasSet(d.view, d.call.name)
                     /\ d.pc = "erase" =>
                          IF d.call.op = "delete" THEN d.call.todo = {d.call.key}
                          ELSE d.call.todo = EntryKeys(d.view.sets[d.call.name])
  BY ApplyMoves, ZenonT(60)
<1>4. proc'[p] = d /\ Shape(d)  BY <1>1, <1>3, OneProc
<1>5. SUFFICES WorkGood(d)'  BY <1>4 DEF WorkGood, Agree, Doomed
<1>6. CASE LockMeta(p) /\ d.pc = "apply" /\ d.view = (IF present THEN meta ELSE m)
  BY <1>2, <1>6, <1>11 DEF LockMeta, AgreeInv, WorkGood, Agree, Listed, HasSet, NoMeta
<1>7. (m = meta /\ Agree(meta)) \/ LockMeta(p)
  BY <1>1, <1>2, <1>3 DEF ApplyCreate, ApplyUse, ApplyValues, At, WorkGood, LockInv, LocksGood, Changing
<1>8. CASE ApplyCreate(p) /\ d.pc = "commit" /\ ~HasSet(m, c.name)
           /\ \E s : s.entries = [k \in Keys |-> None] /\ d.view.sets = [m.sets EXCEPT ![c.name] = s]
  <2>1. PICK t : t.entries = [k \in Keys |-> None] /\ d.view.sets = [m.sets EXCEPT ![c.name] = t]
    BY <1>8
  <2>2. m = meta /\ Agree(meta)  BY <1>7, <1>8 DEF LockMeta, ApplyCreate, At
  <2>3. m.sets \in [Names -> SetRecord \cup {None}]  BY <1>1 DEF Metadata
  <2>4. \A s \in Slots : Listed(d.view, s) <=> Listed(m, s)
    BY <1>8, <2>1, <2>3 DEF Listed, HasSet, Slots
  <2> QED  BY <1>2, <1>8, <2>2, <2>4 DEF WorkGood, Agree
<1>9. CASE ApplyUse(p) /\ d.pc = "commit" /\ d.view.sets = m.sets
  <2>1. m = meta /\ Agree(meta)  BY <1>7, <1>9 DEF LockMeta, ApplyUse, At
  <2>2. \A s \in Slots : Listed(d.view, s) <=> Listed(m, s)
    BY <1>9 DEF Listed, HasSet, Slots
  <2> QED  BY <1>2, <1>9, <2>1, <2>2 DEF WorkGood, Agree
<1>10. CASE /\ ApplyValues(p) /\ d.pc \in {"store", "erase"} /\ d.view = m
            /\ HasSet(d.view, d.call.name)
            /\ d.pc = "erase" =>
                 IF d.call.op = "delete" THEN d.call.todo = {d.call.key}
                 ELSE d.call.todo = EntryKeys(d.view.sets[d.call.name])
  <2>1. m = meta /\ Agree(meta)  BY <1>7, <1>10 DEF LockMeta, ApplyValues, At
  <2>2. d.pc = "erase" => \A s \in Slots :
          s \in Doomed(d.call) => (s[2] \notin d.call.todo => vault[s] = None)
    BY <1>10, <2>1 DEF Doomed, EntryKeys, Agree, Listed, HasSet, Slots
  <2>3. present \/ d.view = NoMeta  BY <1>10, <1>11
  <2>4. UNCHANGED <<vault, meta, present, NoMeta>>  BY <1>2 DEF NoMeta
  <2>5. /\ d.pc = "store" => Agree(meta)
        /\ d.pc = "erase" => \A s \in Slots : IF s \in Doomed(d.call) THEN s[2] \notin d.call.todo => vault[s] = None
                                              ELSE Listed(meta, s) <=> vault[s] # None
    BY <2>1, <2>2 DEF Agree
  <2>6. /\ d.pc = "store" => Agree(meta)'
        /\ d.pc = "erase" => \A s \in Slots : IF s \in Doomed(d.call) THEN s[2] \notin d.call.todo => vault'[s] = None
                                              ELSE Listed(meta, s)' <=> vault'[s] # None
    BY <2>4, <2>5 DEF Agree, Listed, HasSet
  <2> QED  BY <1>10, <2>3, <2>4, <2>6 DEF WorkGood, Doomed, Listed, HasSet, Agree
<1> QED  BY <1>3, <1>6, <1>8, <1>9, <1>10

LEMMA WorkValues ==
  ASSUME TypeInv, LockInv, AgreeInv, ~upgraded, faults = 0, NEW p \in Procs,
         StoreValue(p) \/ (\E k \in Keys : EraseVault(p, k)) \/ EraseLegacy(p) \/ Erased(p)
  PROVE  WorkGood(proc[p])'
<1> DEFINE c == proc[p].call  m == proc[p].view
<1>1. /\ ProcTypes /\ proc[p] \in ProcRecord /\ Shape(proc[p]) /\ WorkGood(proc[p])
      /\ m \in Metadata /\ vault \in Cells
  BY DEF TypeInv, ProcTypes, AgreeInv, ProcRecord, StoreTypes
<1>2. meta' = meta /\ m = meta /\ present' = present
  BY DEF stores, StoreValue, EraseVault, EraseLegacy, Erased, ChangeMeta, At, LockInv, LocksGood, Changing,
         AgreeInv
<1>8. (present' \/ m = NoMeta) /\ NoMeta' = NoMeta
  BY <1>1, <1>2 DEF WorkGood, StoreValue, EraseVault, EraseLegacy, Erased, At, NoMeta
<1>3. c.name \in Names
  BY <1>1 DEF Shape, StoreValue, EraseVault, EraseLegacy, Erased, At
<1>4. CASE StoreValue(p)
  <2>1. PICK d : Moved(p, d) /\ d.pc = "commit" /\ d.view = WithEntry(m, c.name, c.key, c.kind)
    <3>1. ~EraseLegacy(p) /\ ~(\E k \in Keys : EraseVault(p, k)) /\ ~Erased(p)
      BY <1>4 DEF EraseVault, EraseLegacy, StoreValue, Erased, At
    <3> QED  BY <1>4, <3>1, ValueMoves
  <2>2. proc'[p] = d  BY <1>1, <2>1, OneProc
  <2>3. c.key \in Keys /\ c.kind \in Kinds /\ c.value \in Values /\ HasSet(m, c.name)
    BY <1>1, <1>4 DEF StoreValue, At, Shape, IsPut
  <2>4. \A s \in Slots : Listed(d.view, s) <=> IF s = <<c.name, c.key>> THEN TRUE ELSE Listed(m, s)
    BY <1>1, <1>3, <2>1, <2>3, Entered, EnvAssumption
  <2>5. \A s \in Slots : vault'[s] # None <=> IF s = <<c.name, c.key>> THEN TRUE ELSE vault[s] # None
    <3>1. <<c.name, c.key>> \in Slots  BY <1>3, <2>3 DEF Slots
    <3> DEFINE x == [form |-> Form(c.kind), value |-> c.value]
    <3>2. x # None  BY <2>3, CellIsNotNone
    <3>3. vault' = [vault EXCEPT ![<<c.name, c.key>>] = x]  BY <1>4 DEF StoreValue, PutVault, Seal
    <3> HIDE DEF x
    <3> QED  BY <1>1, <3>1, <3>2, <3>3 DEF Cells
  <2>6. Agree(meta)  BY <1>1, <1>4 DEF WorkGood, StoreValue, At
  <2> QED  BY <1>2, <2>1, <2>2, <2>4, <2>5, <2>6 DEF WorkGood, Agree
<1>5. CASE \E k \in Keys : EraseVault(p, k)
  <2>1. PICK d : /\ Moved(p, d) /\ d.pc = "eraseLegacy" /\ d.view = m
                 /\ d.call.op = c.op /\ d.call.name = c.name /\ d.call.todo = c.todo
                 /\ \E k \in Keys : EraseVault(p, k) /\ d.call.key = k
    <3>1. ~EraseLegacy(p) /\ ~StoreValue(p) /\ ~Erased(p)
      BY <1>5 DEF EraseVault, EraseLegacy, StoreValue, Erased, At
    <3> QED  BY <1>5, <3>1, ValueMoves
  <2>2. PICK k \in Keys : EraseVault(p, k) /\ d.call.key = k  BY <2>1
  <2>3. proc'[p] = d  BY <1>1, <2>1, OneProc
  <2>4. IsErase(c) /\ k \in c.todo /\ vault' = [vault EXCEPT ![<<c.name, k>>] = None]
    BY <1>1, <2>2 DEF EraseVault, At, Shape
  <2>5. Doomed(d.call) = Doomed(c)  BY <2>1, <2>2, <2>4 DEF Doomed, IsErase
  <2>6. <<c.name, k>> \in Slots /\ <<c.name, k>> \in Doomed(c)
    BY <1>3, <2>4 DEF Slots, Doomed, IsErase
  <2>7. \A s \in Slots : IF s \in Doomed(c) THEN s[2] \notin c.todo => vault[s] = None
                         ELSE Listed(meta, s) <=> vault[s] # None
    BY <1>1, <2>2 DEF WorkGood, EraseVault, At
  <2>8. /\ vault'[<<c.name, k>>] = None
        /\ \A s \in Slots : s # <<c.name, k>> => vault'[s] = vault[s]
    BY <1>1, <2>4, <2>6 DEF Cells
  <2>9. \A s \in Slots : IF s \in Doomed(c) THEN s[2] \notin c.todo => vault'[s] = None
                         ELSE Listed(meta, s) <=> vault'[s] # None
    BY <2>6, <2>7, <2>8
  <2>10. /\ \A s \in Slots : IF s \in Doomed(d.call) THEN s[2] \notin d.call.todo => vault'[s] = None
                             ELSE Listed(meta', s) <=> vault'[s] # None
         /\ vault'[<<d.call.name, d.call.key>>] = None
    BY <1>2, <2>1, <2>2, <2>5, <2>8, <2>9
  <2> QED  BY <1>8, <2>1, <2>3, <2>10 DEF WorkGood, Doomed, Listed, HasSet
<1>6. CASE EraseLegacy(p)
  <2>1. PICK d : /\ Moved(p, d) /\ d.pc = "erase" /\ d.view = m
                 /\ d.call.op = c.op /\ d.call.name = c.name /\ d.call.key = c.key
                 /\ d.call.todo = c.todo \ {c.key}
    <3>1. ~(\E k \in Keys : EraseVault(p, k)) /\ ~StoreValue(p) /\ ~Erased(p)
      BY <1>6 DEF EraseVault, EraseLegacy, StoreValue, Erased, At
    <3> QED  BY <1>6, <3>1, ValueMoves
  <2>2. proc'[p] = d /\ vault' = vault  BY <1>1, <1>6, <2>1, OneProc DEF EraseLegacy
  <2>3. Doomed(d.call) = Doomed(c)  BY <2>1 DEF Doomed
  <2>4. /\ \A s \in Slots : IF s \in Doomed(c) THEN s[2] \notin c.todo => vault[s] = None
                            ELSE Listed(meta, s) <=> vault[s] # None
        /\ vault[<<c.name, c.key>>] = None
    BY <1>1, <1>6 DEF WorkGood, EraseLegacy, At
  <2>5. \A s \in Slots : s \in Doomed(c) => s = <<c.name, s[2]>>
    BY DEF Doomed, Slots
  <2>6. \A s \in Slots : IF s \in Doomed(d.call) THEN s[2] \notin d.call.todo => vault'[s] = None
                         ELSE Listed(meta', s) <=> vault'[s] # None
    BY <1>2, <2>1, <2>2, <2>3, <2>4, <2>5
  <2> QED  BY <1>8, <2>1, <2>2, <2>6 DEF WorkGood, Doomed, Listed, HasSet
<1>7. CASE Erased(p)
  <2>1. PICK d : /\ Moved(p, d) /\ d.pc = "commit"
                 /\ IF c.op = "delete" THEN d.view = WithEntry(m, c.name, c.key, None)
                    ELSE d.view.sets = [m.sets EXCEPT ![c.name] = None]
    <3>1. ~EraseLegacy(p) /\ ~(\E k \in Keys : EraseVault(p, k)) /\ ~StoreValue(p)
      BY <1>7 DEF EraseVault, EraseLegacy, StoreValue, Erased, At
    <3> QED  BY <1>7, <3>1, ValueMoves
  <2>2. proc'[p] = d /\ vault' = vault  BY <1>1, <1>7, <2>1, OneProc DEF stores, Erased, ChangeMeta
  <2>3. /\ \A s \in Slots : IF s \in Doomed(c) THEN vault[s] = None
                            ELSE Listed(meta, s) <=> vault[s] # None
        /\ HasSet(m, c.name) /\ IsErase(c)
    BY <1>1, <1>7 DEF WorkGood, Erased, At, Shape
  <2>4. \A s \in Slots : Listed(d.view, s) <=> s \notin Doomed(c) /\ Listed(m, s)
    <3>1. CASE c.op = "delete"
      <4>1. c.key \in Keys  BY <2>3, <3>1 DEF IsErase
      <4>2. \A s \in Slots : Listed(d.view, s) <=> IF s = <<c.name, c.key>> THEN FALSE ELSE Listed(m, s)
        BY <1>1, <1>3, <2>1, <2>3, <3>1, <4>1, Entered
      <4> QED  BY <3>1, <4>2 DEF Doomed
    <3>2. CASE c.op # "delete"
      <4>1. d.view.sets = [m.sets EXCEPT ![c.name] = None] /\ m.sets \in [Names -> SetRecord \cup {None}]
        BY <1>1, <2>1, <3>2 DEF Metadata
      <4>2. \A s \in Slots : s \in Doomed(c) <=> s[1] = c.name
        BY <3>2 DEF Doomed, Slots
      <4> QED  BY <1>3, <4>1, <4>2 DEF Listed, HasSet, Slots
    <3> QED  BY <3>1, <3>2
  <2>5. \A s \in Slots : Listed(d.view, s) <=> vault'[s] # None
    BY <1>2, <2>2, <2>3, <2>4
  <2> QED  BY <2>1, <2>2, <2>5 DEF WorkGood, Agree
<1> QED  BY <1>4, <1>5, <1>6, <1>7

\* The lock is free after the step: metadata and vault agree.
LEMMA FreeAgrees ==
  ASSUME TypeInv, LockInv, KeyInv, CopyInv, AgreeInv, EnvNext, ~upgraded, faults' = 0, lock' = None
  PROVE  Agree(meta)'
<1> USE DEF stores, sync, history
<1>1. faults = 0 /\ ProcTypes /\ faults \in Nat  BY FrameStep DEF TypeInv, StoreTypes
<1>2. CASE lock = None
  <2>1. vault' = vault /\ UNCHANGED <<meta, present>>  BY <1>2, HolderWrites, EnvAssumption
  <2> QED  BY <1>1, <1>2, <2>1 DEF AgreeInv, Agree, Listed, HasSet
<1>3. CASE lock # None
  <2>1. PICK p \in Procs : ApplyRefused(p) \/ CommitMeta(p) \/ UpdateFails(p)
    <3>1. ~(EnvTick \/ LoseKey \/ LoseVault \/ LoseMeta)
      BY <1>1, <1>3 DEF EnvTick, LoseKey, LoseVault, LoseMeta
    <3>2. \A p \in Procs : ~(Push(p) \/ Replace(p) \/ Exit(p) \/ EnvCrash(p) \/ Opening(p))
      BY <1>1, <1>3 DEF Push, Replace, Exit, EnvCrash, Opening, OpenMeta, LockInit, LoadKey, CreateKey,
           OpenFails, LoadVault, Fault
    <3>3. \A p \in Procs : ~(Start(p) \/ \E doc \in remote \cup {Foreign} : StartPull(p, doc))
      BY <1>3, CallBegins DEF Begin
    <3>4. \A p \in Procs : Mutating(p) => ApplyRefused(p) \/ CommitMeta(p) \/ UpdateFails(p)
      BY <1>3, EnvAssumption, ZenonT(60) DEF Mutating, LockMeta, ApplyCreate, ApplyUse, ApplyValues, ChangeMeta,
           StoreValue, PutVault, Seal, EraseVault, EraseLegacy, Erased
    <3>5. \A p \in Procs : ~Reading(p)
      BY <1>3 DEF Reading, ReadVault, ReadLegacy, MigrateValue, PutVault, Seal, DropLegacy, MigrateFails
    <3> QED  BY <3>1, <3>2, <3>3, <3>4, <3>5 DEF EnvNext, Syncing
  <2>2. WorkGood(proc[p]) /\ Shape(proc[p])  BY <1>1 DEF AgreeInv, ProcTypes
  <2>3. CASE ApplyRefused(p)
    <3>1. vault' = vault /\ meta' = meta /\ Agree(meta)  BY <2>2, <2>3 DEF ApplyRefused, WorkGood, At
    <3> QED  BY <3>1 DEF Agree, Listed, HasSet
  <2>4. CASE CommitMeta(p)
    <3>1. vault' = vault /\ meta' = proc[p].view /\ Agree(proc[p].view)
      BY <2>2, <2>4 DEF CommitMeta, WorkGood, At
    <3> QED  BY <3>1 DEF Agree, Listed, HasSet
  <2>5. CASE UpdateFails(p)
    BY <1>1, <2>5, NoFailure
  <2> QED  BY <2>1, <2>3, <2>4, <2>5
<1> QED  BY <1>2, <1>3

\* The process that moves.
LEMMA WorkActor ==
  ASSUME TypeInv, FileInv, LockInv, KeyInv, AgreeInv, ~upgraded, faults = 0, faults' = 0, NEW q \in Procs, Acts(q)
  PROVE  WorkGood(proc[q])'
<1>1. ProcTypes /\ WorkGood(proc[q]) /\ NoMeta' = NoMeta  BY DEF TypeInv, AgreeInv, NoMeta
<1>2. ASSUME NEW d, Moved(q, d), d.pc \notin Holding, present' \/ d.view = NoMeta  PROVE WorkGood(proc[q])'
  <2>1. proc'[q] = d  BY <1>1, <1>2, OneProc
  <2> QED  BY <1>1, <1>2, <2>1 DEF WorkGood, Holding, Changing
<1>7. ASSUME UNCHANGED present, proc[q].pc # "commit"  PROVE present' \/ proc[q].view = NoMeta
  BY <1>1, <1>7 DEF WorkGood
<1>3. CASE Start(q) \/ \E doc \in remote \cup {Foreign} : StartPull(q, doc)
  <2>1. PICK d : Moved(q, d) /\ d.pc \in {"lock", "read", "replace"} /\ d.view = proc[q].view
    BY <1>3, BeginMoves
  <2>2. PICK pc, c : Begin(q, pc, c)  BY <1>3, CallBegins
  <2>3. UNCHANGED present /\ proc[q].pc # "commit"  BY <2>2 DEF Begin, At, stores
  <2> QED  BY <1>2, <1>7, <2>1, <2>3 DEF Holding, Changing
<1>4. CASE Opening(q) \/ Exit(q) \/ EnvCrash(q)
  <2>1. PICK d : /\ Moved(q, d) /\ d.pc \in {"init", "key", "load", "create", "ready", "closed"}
                 /\ d.view \in {meta, NoMeta, proc[q].view}
    BY <1>4, OpeningMoves
  <2>2. ~EnvCrash(q)  BY DEF EnvCrash, Fault
  <2>3. UNCHANGED present /\ proc[q].pc # "commit"
    BY <1>4, <2>2 DEF stores, Opening, OpenMeta, LockInit, LoadKey, CreateKey, OpenFails, LoadVault, Exit, At
  <2>4. present' \/ d.view = NoMeta  BY <1>7, <2>1, <2>3 DEF FileInv
  <2> QED  BY <1>2, <2>1, <2>4 DEF Holding, Changing
<1>5. CASE Returning(q)
  <2>1. PICK d : Moved(q, d) /\ d.pc = "ready" /\ d.view = proc[q].view  BY <1>5, ReturnMoves
  <2>2. ~UpdateFails(q)  BY NoFailure
  <2>3. present' \/ (UNCHANGED present /\ proc[q].pc # "commit")
    BY <1>5, <2>2 DEF stores, Returning, ApplyRefused, CommitMeta, DropLegacy, MigrateFails, Replace,
         ReadVault, ReadLegacy, At
  <2> QED  BY <1>2, <1>7, <2>1, <2>3 DEF Holding, Changing
<1>6. CASE (ReadVault(q) \/ ReadLegacy(q) \/ MigrateValue(q)) /\ ~Returning(q)
  <2>1. PICK d : Moved(q, d) /\ d.pc \in {"readLegacy", "migrate", "dropLegacy"} /\ d.view = proc[q].view
    BY <1>6, ReadMoves
  <2>2. UNCHANGED present /\ proc[q].pc # "commit"
    BY <1>6 DEF stores, ReadVault, ReadLegacy, MigrateValue, At
  <2> QED  BY <1>2, <1>7, <2>1, <2>2 DEF Holding, Changing
<1> QED
  BY <1>3, <1>4, <1>5, <1>6, WorkApply, WorkValues DEF Acts, Mutating, Reading, Returning

\* Without faults every mutation finds the file, or has never seen one.
LEMMA NeverFromCache ==
  ASSUME TypeInv, AgreeInv, EnvNext, ~upgraded, faults = 0, faults' = 0
  PROVE  ~fromCache'
<1> USE DEF stores, sync, history
<1>0. ~fromCache /\ \A p \in Procs : WorkGood(proc[p])  BY DEF AgreeInv
<1>1. \A p \in Procs : (Start(p) \/ \E doc \in remote \cup {Foreign} : StartPull(p, doc)) => UNCHANGED fromCache
  BY CallBegins DEF Begin
<1>2. \A p \in Procs : Opening(p) \/ Exit(p) \/ EnvCrash(p) => UNCHANGED fromCache
  BY DEF Opening, OpenMeta, LockInit, LoadKey, CreateKey, OpenFails, LoadVault, Exit, EnvCrash
<1>3. \A p \in Procs : Mutating(p) => UNCHANGED fromCache
  <2>1. \A p \in Procs : LockMeta(p) => UNCHANGED fromCache
    BY <1>0 DEF LockMeta, WorkGood, At
  <2>2. \A p \in Procs : UpdateFails(p) => UNCHANGED fromCache  BY DEF UpdateFails
  <2> QED
    BY <2>1, <2>2 DEF Mutating, ApplyCreate, ApplyUse, ApplyValues, ApplyRefused, ChangeMeta,
     StoreValue, PutVault, Seal, EraseVault, EraseLegacy, Erased, CommitMeta
<1>4. \A p \in Procs : Reading(p) \/ Push(p) \/ Replace(p) => UNCHANGED fromCache
  BY DEF Reading, ReadVault, ReadLegacy, MigrateValue, PutVault, Seal, DropLegacy, MigrateFails, Push, Replace
<1>5. EnvTick \/ LoseKey \/ LoseVault => UNCHANGED fromCache
  BY DEF EnvTick, LoseKey, LoseVault
<1>6. ~LoseMeta  BY DEF LoseMeta, Fault
<1> QED  BY <1>0, <1>1, <1>2, <1>3, <1>4, <1>5, <1>6 DEF EnvNext, Syncing

\* No process is about to migrate a value.
LEMMA NothingMigrates ==
  ASSUME TypeInv, AgreeInv, ~upgraded, NEW q \in Procs, Acts(q)
  PROVE  proc'[q].pc \notin {"migrate", "dropLegacy"}
<1>1. ProcTypes  BY DEF TypeInv
<1>2. ASSUME NEW d, Moved(q, d), d.pc \notin {"migrate", "dropLegacy"}
      PROVE  proc'[q].pc \notin {"migrate", "dropLegacy"}
  <2>1. proc'[q] = d  BY <1>1, <1>2, OneProc
  <2> QED  BY <1>2, <2>1
<1>3. CASE Start(q) \/ \E doc \in remote \cup {Foreign} : StartPull(q, doc)
  <2>1. PICK d : Moved(q, d) /\ d.pc \in {"lock", "read", "replace"}  BY <1>3, BeginMoves
  <2> QED  BY <1>2, <2>1
<1>4. CASE Opening(q) \/ Exit(q) \/ EnvCrash(q)
  <2>1. PICK d : Moved(q, d) /\ d.pc \in {"init", "key", "load", "create", "ready", "closed"}
    BY <1>4, OpeningMoves
  <2> QED  BY <1>2, <2>1
<1>5. CASE Returning(q)
  <2>1. PICK d : Moved(q, d) /\ d.pc = "ready"  BY <1>5, ReturnMoves
  <2> QED  BY <1>2, <2>1
<1>6. CASE (ReadVault(q) \/ ReadLegacy(q) \/ MigrateValue(q)) /\ ~Returning(q)
  <2>1. ~MigrateValue(q)  BY DEF AgreeInv, MigrateValue, At
  <2>2. proc[q].pc = "readLegacy" => <<proc[q].call.name, proc[q].call.key>> \in Slots
    BY <1>1 DEF ProcTypes, Shape, Reads, Slots
  <2>3. ~(ReadLegacy(q) /\ legacy[<<proc[q].call.name, proc[q].call.key>>] # None)
    BY <2>2 DEF AgreeInv, ReadLegacy, At
  <2>4. PICK d : Moved(q, d) /\ d.pc = "readLegacy"
    BY <1>6, <2>1, <2>3, ReadMoves
  <2> QED  BY <1>2, <2>4
<1>7. CASE LockMeta(q) \/ ApplyCreate(q) \/ ApplyUse(q) \/ ApplyValues(q)
  <2>1. PICK d : Moved(q, d) /\ d.pc \in {"apply", "commit", "store", "erase"}  BY <1>7, ApplyMoves
  <2> QED  BY <1>2, <2>1
<1>8. CASE StoreValue(q) \/ (\E k \in Keys : EraseVault(q, k)) \/ EraseLegacy(q) \/ Erased(q)
  <2>1. PICK d : Moved(q, d) /\ d.pc \in {"commit", "erase", "eraseLegacy"}  BY <1>8, ValueMoves
  <2> QED  BY <1>2, <2>1
<1> QED
  BY <1>3, <1>4, <1>5, <1>6, <1>7, <1>8 DEF Acts, Mutating, Reading, Returning

LEMMA AgreeStep ==
  ASSUME TypeInv, FileInv, LockInv, KeyInv, CopyInv, AgreeInv, EnvNext
  PROVE  AgreeInv'
<1>1. SUFFICES ASSUME ~upgraded
      PROVE  /\ \A s \in Slots : legacy'[s] = None
             /\ \A p \in Procs : proc'[p].pc \notin {"migrate", "dropLegacy"}
             /\ faults' = 0 => /\ ~fromCache' /\ (lock' = None => Agree(meta)')
                              /\ \A p \in Procs : WorkGood(proc[p])'
  BY FrameStep DEF AgreeInv
<1>2. \A s \in Slots : legacy'[s] = None  BY <1>1, FrameStep DEF AgreeInv
<1>3. \A q \in Procs : proc'[q].pc \notin {"migrate", "dropLegacy"}
  BY <1>1, OnlyActor, NothingMigrates DEF AgreeInv
<1>4. ASSUME faults' = 0, lock' = None  PROVE Agree(meta)'
  BY <1>1, <1>4, FreeAgrees
<1>5. ASSUME faults' = 0, NEW q \in Procs  PROVE WorkGood(proc[q])'
  <2>1. faults = 0  BY <1>5, FrameStep DEF TypeInv, StoreTypes
  <2> QED  BY <1>1, <1>5, <2>1, OnlyActor, WorkActor, WorkOther
<1>6. ASSUME faults' = 0  PROVE ~fromCache'
  <2>1. faults = 0  BY <1>6, FrameStep DEF TypeInv, StoreTypes
  <2> QED  BY <1>1, <1>6, <2>1, NeverFromCache
<1> QED  BY <1>2, <1>3, <1>4, <1>5, <1>6

-----------------------------------------------------------------------------
(* Theorems.                                                               *)

EnvIInv == TypeInv /\ FileInv /\ LockInv /\ KeyInv /\ CopyInv /\ KeptInv /\ AgreeInv

LEMMA IInvInit ==
  ASSUME EnvInit
  PROVE  EnvIInv
<1>1. FileInv /\ LockInv
  BY DEF EnvInit, FileInv, LockInv, LocksGood, Holding, Changing, Initializing
<1> QED  BY <1>1, TypesInit, KeyInit, CopyInit, KeptInit, AgreeInit DEF EnvIInv

LEMMA IInvStep ==
  ASSUME EnvIInv, [EnvNext]_envVars
  PROVE  EnvIInv'
<1>1. CASE EnvNext
  BY <1>1, TypesStep, FileStep, LockStep, KeyStep, CopyStep, KeptStep, AgreeStep DEF EnvIInv
<1>2. CASE UNCHANGED envVars
  <2>1. TypeInv'
    BY <1>2 DEF envVars, stores, sync, history, EnvIInv, TypeInv, StoreTypes, ProcTypes
  <2>2. FileInv' /\ LockInv' /\ KeyInv' /\ CopyInv'
    BY <1>2 DEF envVars, stores, sync, history, EnvIInv, FileInv, NoMeta, LockInv, LocksGood, KeyInv, TrueKeys,
       OneLoss, CopyInv, At
  <2>3. KeptInv'
    BY <1>2 DEF envVars, stores, sync, history, EnvIInv, KeptInv, KeptGood, Listed, HasSet
  <2>4. AgreeInv'
    BY <1>2 DEF envVars, stores, sync, history, EnvIInv, AgreeInv, WorkGood, Agree, Listed, HasSet,
       NoMeta
  <2> QED  BY <2>1, <2>2, <2>3, <2>4 DEF EnvIInv
<1> QED  BY <1>1, <1>2

LEMMA IInvAlways == EnvSpec => []EnvIInv
<1>1. EnvInit => EnvIInv  BY IInvInit
<1>2. EnvIInv /\ [EnvNext]_envVars => EnvIInv'  BY IInvStep
<1> QED  BY <1>1, <1>2, PTL DEF EnvSpec

\* Two first opens of a project settle on one root key, which the vault file and every open
\* Manager use, whoever crashes, and a lost key is never replaced by another one
\* (vault/store.go:102-104, openProjectVault), as long as every lookup of a key that is in the
\* keychain finds it.
THEOREM OneRootKey == EnvSpec => []KeyOpensVault
<1>1. EnvIInv => KeyOpensVault
  <2>1. ASSUME EnvIInv, NEW p \in Procs, At(p, "ready")  PROVE proc[p].root \in Procs
    BY <2>1 DEF EnvIInv, TypeInv, ProcTypes, At, Shape
  <2> QED  BY <2>1, EnvAssumption DEF EnvIInv, KeyInv, TrueKeys, OneLoss, KeyOpensVault, FirstOpensAgree
<1> QED  BY <1>1, IInvAlways, PTL

\* environments.json selects a set that exists whenever it has one, and between mutations
\* lists exactly the values of the vault in a project without keychain values and faults:
\* concurrent writers drop nothing of each other (manager.go:183-186, update).
THEOREM MetadataMatchesVault == EnvSpec => []EnvInv
<1>1. EnvIInv => EnvTypeOK
  <2> SUFFICES ASSUME EnvIInv  PROVE EnvTypeOK
    OBVIOUS
  <2>1. StoreTypes /\ proc \in [Procs -> ProcRecord]  BY DEF EnvIInv, TypeInv, ProcTypes
  <2>2. {s \in Slots : vault[s] # None /\ vault[s].form \notin {"text", "blob"}} = {}
    BY <2>1 DEF StoreTypes, Cells, Cell
  <2>3. /\ meta.active \in Names \cup {None}
        /\ \A n \in Names : meta.sets[n] # None =>
             /\ meta.sets[n].expires \in Nat \cup {None}
             /\ meta.sets[n].entries \in [Keys -> Kinds \cup {None}]
    BY <2>1 DEF StoreTypes, Metadata, SetRecord
  <2>4. revision \in Nat /\ {doc.sealedBy : doc \in remote} \subseteq Procs
    BY <2>1 DEF StoreTypes
  <2>5. \A p \in Procs : proc[p].root \in Procs \cup {None} /\ proc[p].call.todo \subseteq Keys
    BY <2>1 DEF ProcRecord, CallRecord
  <2>6. /\ {rootKey, sealedBy, lock, initLock} \subseteq Procs \cup {None}
        /\ legacy \in [Slots -> Values \cup {None}] /\ latest \in [Slots -> Values \cup {None}]
    BY <2>1 DEF StoreTypes
  <2>7. {present, misread, fromCache} \subseteq BOOLEAN  BY <2>1 DEF StoreTypes
  <2> QED  BY <2>2, <2>3, <2>4, <2>5, <2>6, <2>7 DEF EnvTypeOK
<1>2. EnvIInv => ActiveIsASet
  BY DEF EnvIInv, TypeInv, StoreTypes, Metadata, ActiveIsASet
<1>3. EnvIInv => NoOrphans
  BY DEF EnvIInv, AgreeInv, Agree, Listed, Slots, NoOrphans
<1> QED  BY <1>1, <1>2, <1>3, IInvAlways, PTL DEF EnvInv

\* A slot has a value in the vault or in the keychain.
LEMMA StoredSomewhere ==
  ASSUME NEW cells \in Cells, NEW values \in [Slots -> Values \cup {None}], NEW s \in Slots
  PROVE  (IF cells[s] # None THEN cells[s].value ELSE values[s]) = None
           <=> cells[s] = None /\ values[s] = None
BY EnvAssumption DEF Cells, Cell

\* putEntry stores before it lists: whatever crashes or fails in between, an entry that
\* appears in environments.json has its value already (manager.go, putEntry and update), as long
\* as the vault file is not lost and no mutation goes on from its cache where there is no
\* environments.json (manager.go:195-203).
THEOREM StoredBeforeListed == EnvSpec => ListedAfterStored
<1> DEFINE Step == \A n \in Names, k \in Keys :
       HasSet(meta', n) /\ meta'.sets[n].entries[k] # None
         => \/ Stored(<<n, k>>)' # None
            \/ HasSet(meta, n) /\ meta.sets[n].entries[k] # None
            \/ lost \/ fromCache
<1>1. EnvIInv /\ EnvIInv' /\ [EnvNext]_envVars => [Step]_envVars
  <2> SUFFICES ASSUME EnvIInv, EnvIInv', EnvNext, NEW n \in Names, NEW k \in Keys,
                      HasSet(meta', n), meta'.sets[n].entries[k] # None,
                      ~(HasSet(meta, n) /\ meta.sets[n].entries[k] # None), ~lost, ~fromCache
               PROVE  Stored(<<n, k>>)' # None
    OBVIOUS
  <2>1. meta' # meta  OBVIOUS
  <2>7. ~LoseMeta  BY DEF LoseMeta, HasSet, NoMeta
  <2>2. PICK p \in Procs : Commits(p)  BY <2>1, <2>7, MetaStep
  <2>3. KeptGood(proc[p])  BY DEF EnvIInv, KeptInv
  <2>4. <<n, k>> \in Slots /\ Listed(proc[p].view, <<n, k>>) /\ ~Listed(meta, <<n, k>>)
    BY <2>2 DEF Commits, CommitMeta, CommitsAnyway, Listed, Slots
  <2>5. vault[<<n, k>>] # None /\ vault' = vault
    BY <2>2, <2>3, <2>4 DEF KeptGood, Commits, CommitMeta, CommitsAnyway, At
  <2>6. vault' \in Cells /\ legacy' \in [Slots -> Values \cup {None}]
    BY DEF EnvIInv, TypeInv, StoreTypes
  <2> QED  BY <2>4, <2>5, <2>6, StoredSomewhere DEF Stored
<1>2. EnvSpec => [][Step]_envVars
  BY <1>1, IInvAlways, PTL DEF EnvSpec
<1> QED  BY <1>2 DEF ListedAfterStored

\* Who takes a value out of the keychain.
LEMMA LegacyStep ==
  ASSUME TypeInv, EnvNext, NEW s \in Slots, legacy[s] # None, legacy'[s] = None
  PROVE  \E p \in Procs : Deletes(p, s) \/ (DropLegacy(p) /\ s = Slot(p))
<1> USE DEF stores, sync, history
<1>1. StoreTypes /\ ProcTypes  BY DEF TypeInv
<1>2. PICK p \in Procs : EraseLegacy(p) \/ UpdateFails(p) \/ DropLegacy(p)
  <2>1. ~(EnvTick \/ LoseKey \/ LoseVault \/ LoseMeta)
    BY DEF EnvTick, LoseKey, LoseVault, LoseMeta
  <2>2. \A p \in Procs : ~(Push(p) \/ Replace(p) \/ Exit(p) \/ EnvCrash(p) \/ Opening(p))
    BY DEF Push, Replace, Exit, EnvCrash, Opening, OpenMeta, LockInit, LoadKey, CreateKey, OpenFails, LoadVault
  <2>3. \A p \in Procs : ~(Start(p) \/ \E doc \in remote \cup {Foreign} : StartPull(p, doc))
    BY CallBegins DEF Begin
  <2>4. \A p \in Procs : Mutating(p) => EraseLegacy(p) \/ UpdateFails(p)
    BY ZenonT(60) DEF Mutating, LockMeta, ApplyCreate, ApplyUse, ApplyValues, ApplyRefused, ChangeMeta, StoreValue,
       PutVault, Seal, EraseVault, Erased, CommitMeta
  <2>5. \A p \in Procs : Reading(p) => DropLegacy(p)
    BY DEF Reading, ReadVault, ReadLegacy, MigrateValue, PutVault, Seal, MigrateFails
  <2> QED  BY <2>1, <2>2, <2>3, <2>4, <2>5 DEF EnvNext, Syncing
<1>3. Shape(proc[p]) /\ proc[p] \in ProcRecord  BY <1>1 DEF ProcTypes
<1>4. CASE EraseLegacy(p)
  <2>1. s = <<proc[p].call.name, proc[p].call.key>>
    BY <1>1, <1>4 DEF EraseLegacy, StoreTypes
  <2> QED  BY <1>3, <1>4, <2>1 DEF Deletes, EraseLegacy, At, Shape, IsErase
<1>5. CASE UpdateFails(p)
  <2>0. ErasesAnyway(p)  BY <1>5 DEF UpdateFails, StoresAnyway, CommitsAnyway
  <2>1. PICK k \in proc[p].call.todo : legacy' = [legacy EXCEPT ![<<proc[p].call.name, k>>] = None]
    BY <2>0 DEF ErasesAnyway
  <2>2. s = <<proc[p].call.name, k>>  BY <1>1, <2>1 DEF StoreTypes
  <2>3. At(p, "erase")  BY <2>0 DEF ErasesAnyway
  <2> QED  BY <1>3, <2>2, <2>3 DEF Deletes, At, Shape, IsErase
<1>6. CASE DropLegacy(p)
  <2>1. s = Slot(p)  BY <1>1, <1>6 DEF DropLegacy, StoreTypes
  <2> QED  BY <1>6, <2>1
<1> QED  BY <1>2, <1>4, <1>5, <1>6

\* A value leaves the store by a deletion only: whatever interrupts the read-through
\* migration, and however late a pull is answered, a value that was stored and not deleted
\* is in the vault or in the keychain (vault_store.go:79, CHANGELOG.md:93-95).
THEOREM NothingIsLost == EnvSpec => ValuesStay
<1> DEFINE Copies == \A s \in Slots : ~lost' /\ latest[s] # None /\ Stored(s) # None /\ Stored(s)' = None
                       => \E p \in Procs : Deletes(p, s)
           Newer == \A p \in Procs : At(p, "replace") /\ proc'[p].pc # "replace" /\ vault' # vault => lost
<1>1. EnvIInv /\ EnvIInv' /\ [EnvNext]_envVars => [Copies]_envVars
  <2> SUFFICES ASSUME EnvIInv, EnvIInv', EnvNext, NEW s \in Slots, ~lost', latest[s] # None,
                      Stored(s) # None, Stored(s)' = None
               PROVE  \E p \in Procs : Deletes(p, s)
    OBVIOUS
  <2>1. TypeInv /\ TypeInv' /\ CopyInv /\ KeptInv  BY DEF EnvIInv
  <2>2. vault'[s] = None /\ legacy'[s] = None
    BY <2>1, StoredSomewhere DEF TypeInv, StoreTypes, Stored
  <2>3. CASE vault[s] # None
    <3>1. PICK p \in Procs : Erases(p, s)  BY <2>1, <2>2, <2>3, ValuesStep
    <3>2. Shape(proc[p])  BY <2>1 DEF TypeInv, ProcTypes
    <3> QED  BY <3>1, <3>2 DEF Erases, EraseVault, ErasesAnyway, Deletes, At, Shape, IsErase
  <2>4. CASE vault[s] = None
    <3>1. legacy[s] # None  BY <2>1, <2>4, StoredSomewhere DEF TypeInv, StoreTypes, Stored
    <3>2. PICK p \in Procs : Deletes(p, s) \/ (DropLegacy(p) /\ s = Slot(p))
      BY <2>1, <2>2, <3>1, LegacyStep
    <3>3. ~(DropLegacy(p) /\ s = Slot(p))
      BY <2>1, <2>4, LostStays DEF KeptInv, KeptGood, DropLegacy, At, Slot
    <3> QED  BY <3>2, <3>3
  <2> QED  BY <2>3, <2>4
<1>2. EnvIInv /\ [EnvNext]_envVars => [Newer]_envVars
  <2> SUFFICES ASSUME EnvIInv, EnvNext, NEW p \in Procs, At(p, "replace"), proc'[p].pc # "replace",
                      vault' # vault, ~lost
               PROVE  FALSE
    OBVIOUS
  <2>1. proc'[p] # proc[p] /\ TypeInv /\ CopyInv  BY DEF At, EnvIInv
  <2>2. ~LoseVault  BY <2>1 DEF LoseVault
  <2>3. PICK q \in Procs : \/ StoreValue(q) \/ MigrateValue(q) \/ \E k \in Keys : EraseVault(q, k)
                          \/ UpdateFails(q) \/ MigrateFails(q)
    BY <2>1, <2>2, VaultStep
  <2>4. \E d : Moved(q, d)
    BY <2>1, <2>3, ValueMoves, ReadMoves, ReturnMoves DEF Returning
  <2>5. p = q  BY <2>1, <2>4, OneProc DEF TypeInv
  <2> QED  BY <2>3, <2>5 DEF StoreValue, MigrateValue, EraseVault, UpdateFails, MigrateFails, At
<1>3. EnvSpec => [][Copies]_envVars  BY <1>1, IInvAlways, PTL DEF EnvSpec
<1>4. EnvSpec => [][Newer]_envVars  BY <1>2, IInvAlways, PTL DEF EnvSpec
<1> QED  BY <1>3, <1>4 DEF ValuesStay, MigrationKeepsACopy, PullKeepsNewer

=============================================================================
