---------------------------- MODULE CharaProofs ----------------------------
(***************************************************************************)
(* Proofs about Chara.                                                     *)
(*   TypeCorrect          the types and the two mutexes (Inv);             *)
(*   ClosesOnce           no channel is used after it was closed (ActInv); *)
(*   SuccessIsSaved       a client told of the success has its character   *)
(*                        stored by EnrollStop (ToldInv);                  *)
(*   OfferedIsStored      what is offered for authentication is stored by  *)
(*                        the driver (HolderInv, TurnInv, SaveInv,         *)
(*                        FileInv);                                        *)
(*   ForgottenIsStopped   a driver whose action is forgotten is told to    *)
(*                        end it (GoneInv, StoppedInv);                    *)
(*   LostIsReleased       at rest, a sender that left the bus holds no     *)
(*                        enrolment (HearingInv, LostInv).                 *)
(* The last three are about clients that are not hasty: their calls of     *)
(* EnrollStart and EnrollStop do not overlap.                              *)
(***************************************************************************)
EXTENDS Chara, SequenceTheorems, TLAPS

InChange == {"changeList", "changeInfos", "changeActions", "send"}

Ops == {"none", "EnrollStart", "EnrollStop", "Rename", "Delete", "List", "listen", "status",
        "types", "names"}

Place(r) ==
    \/ r.op = "none" /\ r.pc = "idle"
    \/ r.op = "EnrollStart" /\ r.pc \in {"check", "checkName", "getDriver", "genId", "start", "undo",
                                       "store", "stop", "release"} \cup InChange
    \/ r.op = "EnrollStop" /\ r.pc \in {"find", "getDriver", "stop", "save", "saveInfo", "release"}
                                     \cup InChange
    \/ r.op = "Rename" /\ r.pc = "rename"
    \/ r.op = "Delete" /\ r.pc \in {"lookUp", "getDriver", "delete", "forget"} \cup InChange
    \/ r.op = "List" /\ r.pc \in {"lockInfos", "getDriver", "unlockInfos"} \cup InChange
    \/ r.op = "listen" /\ r.pc \in {"spawned", "waitForEver", "receive", "look", "getDriver", "stop",
                                  "release"} \cup InChange
    \/ r.op = "types" /\ r.pc \in InChange
    \/ r.op \in {"status", "names"} /\ r.pc = "send"

OpsOf(g) == IF g \in Calls THEN {"none", "EnrollStart", "EnrollStop", "Rename", "Delete", "List"}
            ELSE IF g \in Ids THEN {"none", "listen"}
            ELSE IF g = "signals" THEN {"none", "status", "types"}
            ELSE {"none", "names"}

Pcs == {"idle", "check", "checkName", "getDriver", "genId", "start", "undo", "store", "find", "stop",
        "save", "saveInfo", "rename", "lookUp", "delete", "forget", "lockInfos", "unlockInfos",
        "spawned", "waitForEver", "receive", "look", "release"} \cup InChange

Frames == [pc : Pcs, op : Ops, sender : Senders \cup {None},
           type : Types \cup {"none"}, name : Names \cup {None}, newName : Names \cup {None},
           id : Ids \cup {None}, claim : BOOLEAN, code : Codes, sends : SUBSET (Ids \X Codes),
           from : SUBSET Types, into : SUBSET Types, list : SUBSET Ids, told : BOOLEAN]

Loops == {"status", "names"}
Sending(r) == r.pc = "send" /\ r.op \in Loops
Reading(r) == \/ r.pc = "checkName"
              \/ r.pc = "send" /\ r.op \notin Loops /\ ~(r.from \subseteq r.into)
Updating(r) == \/ r.op = "List" /\ r.pc # "lockInfos"
               \/ /\ r.op \notin Loops \cup {"List"} /\ r.pc \in {"changeActions", "send"}
                  /\ ~(r.into \subseteq r.from)
Starting(r) == r.op = "EnrollStart" /\ r.pc \in {"start", "store"}

OfAction(r) == r.op \in {"listen", "status"} \/ (r.op = "EnrollStop" /\ r.pc # "find")

(* What the local variables of a goroutine hold at each place.             *)
Shape(g, r) ==
    /\ r.op \in OpsOf(g) /\ Place(r)
    /\ g \in Calls /\ r.op # "none" => r.sender \in Senders
    /\ r.op \in {"EnrollStart", "Rename", "Delete", "List"} => r.type \in Types
    /\ r.op \in {"EnrollStart", "Rename"} => r.name \in Names
    /\ r.op = "Rename" => r.newName \in Names
    /\ r.op = "EnrollStart" /\ r.pc \in {"start", "undo", "store", "stop", "release"}
          => r.id \in Ids
    /\ r.op = "EnrollStop" /\ r.pc # "find" => r.id \in Ids /\ r.type \in Types
    /\ r.op = "Delete" /\ r.pc # "lookUp" => r.id \in Ids
    /\ r.op = "listen" => r.id = g /\ g \in Ids /\ r.type \in Types
    /\ r.op = "status" => r.id \in Ids
    /\ r.op = "List" /\ r.pc \in {"changeActions", "send"} => r.into \subseteq r.from
    /\ r.pc = "changeInfos" => ~(r.into \subseteq r.from)
    /\ r.sends # {} => Sending(r) \/ (Reading(r) /\ r.pc = "send")

FrameInv == run \in [Goroutines -> Frames] /\ \A g \in Goroutines : Shape(g, run[g])

(* A mutex is held by the goroutine that is at a place under it.           *)
LockInv ==
    /\ mu \in Goroutines \cup {None} /\ infoMu \in Goroutines \cup {None}
    /\ readers \subseteq Goroutines
    /\ mu # None => readers = {}
    /\ \A g \in Goroutines : /\ mu = g <=> Sending(run[g])
                             /\ g \in readers <=> Reading(run[g])
                             /\ infoMu = g <=> Updating(run[g])

(* An action is registered, then closed, and never comes back; what is     *)
(* about to be sent goes to a registered one.                              *)
Acted(i) == action[i].type \in Types

ActInv ==
    /\ action \in [Ids -> [sender : Senders \cup {None}, type : Types \cup {"none"},
                           name : Names \cup {None}, code : Codes]]
    /\ \A i \in Ids : action[i] = NoAction \/ (Acted(i) /\ action[i].sender \in Senders)
    /\ registered \subseteq Ids /\ closed \subseteq Ids /\ registered \cap closed = {}
    /\ \A i \in registered \cup closed : Acted(i)
    /\ panicked = FALSE
    /\ \A g \in Goroutines : \A m \in run[g].sends : m[1] \in registered

(* The action of a goroutine has begun, and the listener of an action is   *)
(* started once.                                                           *)
ListenInv ==
    /\ \A i \in Ids : ~Acted(i) => run[i].pc = "idle"
    /\ \A g \in Goroutines : OfAction(run[g]) \/ Starting(run[g]) => Acted(run[g].id)
    /\ \A c \in Calls : Starting(run[c]) =>
          /\ run[run[c].id].pc = "idle"
          /\ \A d \in Calls : Starting(run[d]) /\ run[d].id = run[c].id => d = c

Signals == [kind : {"status"}, id : Ids, code : Codes] \cup [kind : {"list"}, list : SUBSET Ids]
           \cup [kind : {"types"}, types : SUBSET Types]

DataInv ==
    /\ driver \in [alive : BOOLEAN, offers : SUBSET Types, stored : SUBSET Ids,
                   enrolling : Ids \cup {None}, regained : SUBSET Ids]
    /\ driverType \subseteq Types
    /\ signals \in Seq(Signals)
    /\ gone \subseteq Senders /\ lost \subseteq gone \cup {Driver}
    /\ codeChans \cup told \cup saved \cup misplaced \subseteq Ids
    /\ chan \in [Ids -> Seq(Codes)] /\ \A i \in Ids : Len(chan[i]) <= Cap

Info == [user : Range(user), type : Types, name : Names, avail : BOOLEAN]
InfoInv == DOMAIN infos \subseteq Ids /\ \A i \in DOMAIN infos : infos[i] \in Info

Inv == FrameInv /\ LockInv /\ ActInv /\ ListenInv /\ DataInv /\ InfoInv

-----------------------------------------------------------------------------
LEMMA CodesTyped ==
    /\ {"Invalid", "Progress", "Success", "FaceGone"} \subseteq Codes
    /\ \A t \in Types : GoneCode[t] \in Codes /\ LostCode[t] \in Codes
    BY DEF Codes

LEMMA FrameTyped == Frame \in Frames /\ \A g : Shape(g, Frame)
<1>1. Frame \in Frames
  <2>1. {} \in SUBSET (Ids \X Codes) /\ {} \in SUBSET Types /\ {} \in SUBSET Ids /\ "Invalid" \in Codes
      BY CodesTyped
  <2>2. "none" \in Ops /\ "idle" \in Pcs
      BY DEF Ops, Pcs
  <2> QED BY <2>1, <2>2 DEF Frame, Frames
<1>2. ASSUME NEW g PROVE Shape(g, Frame)
  <2>1. /\ Frame.op = "none" /\ Frame.pc = "idle" /\ Frame.sends = {}
      BY DEF Frame
  <2>2. "none" \in OpsOf(g)
      BY DEF OpsOf
  <2> HIDE DEF Frame
  <2> QED BY <2>1, <2>2 DEF Shape, Place
<1> QED BY <1>1, <1>2

LEMMA GoroutinesTyped ==
    /\ None \notin Goroutines
    /\ \A c \in Calls : c \in Goroutines /\ c \notin Ids /\ c # "signals" /\ c # "names"
    /\ \A i \in Ids : i \in Goroutines /\ i \notin Calls /\ i # "signals" /\ i # "names"
    /\ "signals" \in Goroutines /\ "names" \in Goroutines
    BY CharaAssumption DEF Goroutines

(* The parts make up the type invariant.                                   *)
LEMMA InvTypeOK == Inv => TypeOK
<1> SUFFICES ASSUME Inv PROVE TypeOK
    OBVIOUS
<1>1. \A i \in DOMAIN signals : signals[i].kind \in {"status", "list", "types"}
  <2>1. \A i \in DOMAIN signals : signals[i] \in Signals
      BY ElementOfSeq, LenProperties DEF Inv, DataInv
  <2> QED BY <2>1 DEF Signals
<1>2. \A i \in Ids : Len(chan[i]) <= Cap /\ Range(chan[i]) \subseteq Codes
  <2> TAKE i \in Ids
  <2>1. chan[i] \in Seq(Codes) /\ Len(chan[i]) <= Cap
      BY DEF Inv, DataInv
  <2>2. \A k \in DOMAIN chan[i] : chan[i][k] \in Codes
      BY <2>1, ElementOfSeq, LenProperties
  <2> QED BY <2>1, <2>2 DEF Range
<1>3. mu \in {"signals", "names", None} /\ (mu # None => readers = {} /\ At(mu, "send"))
    BY GoroutinesTyped DEF Inv, LockInv, FrameInv, Sending, Shape, OpsOf, Loops, At, Goroutines
<1>4. infoMu \in Goroutines \cup {None} /\ (infoMu # None => ~At(infoMu, "idle"))
    BY GoroutinesTyped DEF Inv, LockInv, FrameInv, Updating, Shape, Place, InChange, Loops, At
<1>5. readers \subseteq Goroutines /\ \A g \in readers : run[g].pc \in {"checkName", "send"}
    BY DEF Inv, LockInv, Reading
<1>6. /\ registered \cup closed \cup codeChans \cup told \cup saved \cup misplaced \subseteq Ids
      /\ action \in [Ids -> [sender : Senders \cup {None}, type : Types \cup {"none"},
                             name : Names \cup {None}, code : Codes]]
    BY DEF Inv, ActInv, DataInv
<1>7. DOMAIN infos \subseteq Ids /\ \A i \in DOMAIN infos : infos[i] \in Info
    BY DEF Inv, InfoInv
<1>8. /\ driver \in [alive : BOOLEAN, offers : SUBSET Types, stored : SUBSET Ids,
                     enrolling : Ids \cup {None}, regained : SUBSET Ids]
      /\ driverType \subseteq Types
      /\ gone \subseteq Senders /\ lost \subseteq gone \cup {Driver}
    BY DEF Inv, DataInv
<1> QED
    BY <1>1, <1>2, <1>3, <1>4, <1>5, <1>6, <1>7, <1>8 DEF TypeOK, Info

-----------------------------------------------------------------------------
(* One goroutine goes on, from the frame r to the frame f.                 *)
LEMMA FrameChanged ==
    ASSUME FrameInv, NEW g \in Goroutines, NEW f \in Frames, Shape(g, f), run' = [run EXCEPT ![g] = f]
    PROVE  FrameInv' /\ run'[g] = f /\ \A h \in Goroutines : h # g => run'[h] = run[h]
    BY DEF FrameInv

(* What the mutexes, the actions and the listeners see of that.            *)
LockMoves(g, f) ==
    /\ mu' = IF Sending(f) THEN g ELSE IF Sending(run[g]) THEN None ELSE mu
    /\ readers' = IF Reading(f) THEN readers \cup {g} ELSE readers \ {g}
    /\ infoMu' = IF Updating(f) THEN g ELSE IF Updating(run[g]) THEN None ELSE infoMu
    /\ Sending(f) /\ ~Sending(run[g]) => CanWrite /\ ~Reading(run[g])
    /\ Reading(f) /\ ~Reading(run[g]) => CanRead
    /\ Updating(f) /\ ~Updating(run[g]) => infoMu = None

Same(r, f) ==
    /\ Sending(f) <=> Sending(r)
    /\ Reading(f) <=> Reading(r)
    /\ Updating(f) <=> Updating(r)

ActMoves(g, f) ==
    /\ OfAction(f) => Acted(f.id)
    /\ Starting(f) => Starting(run[g]) /\ f.id = run[g].id
    /\ g \in Ids /\ run[g].pc = "idle" => f.pc = "idle"
    /\ \A m \in f.sends : m[1] \in registered

LEMMA LocksFollow ==
    ASSUME FrameInv, LockInv, NEW g \in Goroutines, NEW f, run'[g] = f,
           \A h \in Goroutines : h # g => run'[h] = run[h], LockMoves(g, f)
    PROVE  LockInv'
<1>1. ASSUME NEW h \in Goroutines, h # g
      PROVE  /\ Sending(run'[h]) <=> mu = h
             /\ Reading(run'[h]) <=> h \in readers
             /\ Updating(run'[h]) <=> infoMu = h
    BY <1>1 DEF LockInv
<1>2. ~(Sending(f) /\ Reading(f))
    BY DEF Sending, Reading
<1>3. /\ Sending(run[g]) <=> mu = g
      /\ Reading(run[g]) <=> g \in readers
      /\ Updating(run[g]) <=> infoMu = g
    BY DEF LockInv
<1> HIDE DEF Sending, Reading, Updating
<1>4. mu' \in Goroutines \cup {None} /\ infoMu' \in Goroutines \cup {None} /\ readers' \subseteq Goroutines
    BY DEF LockMoves, LockInv
<1>5. mu' # None => readers' = {}
    BY <1>2, <1>3, GoroutinesTyped DEF LockMoves, LockInv, CanRead, CanWrite
<1>6. ASSUME NEW h \in Goroutines
      PROVE  /\ mu' = h <=> Sending(run'[h])
             /\ h \in readers' <=> Reading(run'[h])
             /\ infoMu' = h <=> Updating(run'[h])
  <2>1. CASE h = g
      BY <1>2, <1>3, <2>1, GoroutinesTyped DEF LockMoves
  <2>2. CASE h # g
      BY <1>1, <1>2, <1>3, <2>2, GoroutinesTyped DEF LockMoves, LockInv, CanWrite
  <2> QED BY <2>1, <2>2
<1> QED
    BY <1>4, <1>5, <1>6 DEF LockInv

LEMMA LocksKept ==
    ASSUME FrameInv, LockInv, NEW g \in Goroutines, NEW f, Same(run[g], f), UNCHANGED <<lock, infoMu>>
    PROVE  LockMoves(g, f)
<1>1. /\ Sending(run[g]) <=> mu = g
      /\ Reading(run[g]) <=> g \in readers
      /\ Updating(run[g]) <=> infoMu = g
    BY DEF LockInv
<1> HIDE DEF Sending, Reading, Updating
<1> QED
    BY <1>1 DEF LockMoves, Same, lock

LEMMA ActsFollow ==
    ASSUME ActInv, NEW g \in Goroutines, NEW f, run'[g] = f,
           \A h \in Goroutines : h # g => run'[h] = run[h], ActMoves(g, f),
           UNCHANGED <<registered, action, closed, panicked>>
    PROVE  ActInv'
    BY DEF ActInv, ActMoves, Acted

LEMMA ListenersFollow ==
    ASSUME FrameInv, FrameInv', ListenInv, NEW g \in Goroutines, NEW f, run'[g] = f,
           \A h \in Goroutines : h # g => run'[h] = run[h], ActMoves(g, f),
           \A i \in Ids : action'[i].type = action[i].type
    PROVE  ListenInv'
<1>2. \A i \in Ids : ~Acted(i)' => run'[i].pc = "idle"
    BY GoroutinesTyped DEF ListenInv, ActMoves, Acted
<1>3. \A h \in Goroutines : OfAction(run'[h]) => action'[run'[h].id].type \in Types
  <2> TAKE h \in Goroutines
  <2> HAVE OfAction(run'[h])
  <2>1. run'[h].id \in Ids
      BY DEF FrameInv, Shape, OfAction
  <2>2. CASE h = g
      BY <2>1, <2>2 DEF ActMoves, Acted
  <2>3. CASE h # g
    <3>1. run'[h] = run[h] /\ OfAction(run[h])
        BY <2>3
    <3> QED BY <2>1, <3>1 DEF ListenInv, Acted
  <2> QED BY <2>2, <2>3
<1>4. \A h \in Goroutines : Starting(run'[h]) => Starting(run[h]) /\ run'[h].id = run[h].id
    BY DEF ActMoves
<1>5. \A h \in Goroutines : Starting(run[h]) => run[h].id \in Ids
    BY DEF FrameInv, Shape, Starting
<1>6. \A i \in Ids : run[i].pc = "idle" => run'[i].pc = "idle"
    BY GoroutinesTyped DEF ActMoves
<1>7. \A h \in Goroutines : Starting(run'[h]) => action'[run'[h].id].type \in Types
  <2> TAKE h \in Goroutines
  <2>1. Starting(run[h]) => action[run[h].id].type \in Types
      BY DEF ListenInv, Acted
  <2> HIDE DEF Starting
  <2> QED BY <1>4, <1>5, <2>1 DEF Acted
<1>8. \A c \in Calls : Starting(run'[c]) =>
          /\ run'[run'[c].id].pc = "idle"
          /\ \A d \in Calls : Starting(run'[d]) /\ run'[d].id = run'[c].id => d = c
    BY <1>4, <1>5, <1>6, GoroutinesTyped DEF ListenInv
<1> QED
    BY <1>2, <1>3, <1>7, <1>8 DEF ListenInv, OfAction, Starting, Acted

LEMMA Moves ==
    ASSUME FrameInv, LockInv, ActInv, ListenInv, NEW g \in Goroutines, NEW f \in Frames, Shape(g, f),
           run' = [run EXCEPT ![g] = f], LockMoves(g, f), ActMoves(g, f),
           UNCHANGED <<registered, action, closed, panicked>>
    PROVE  FrameInv' /\ LockInv' /\ ActInv' /\ ListenInv'
<1>1. FrameInv' /\ run'[g] = f /\ \A h \in Goroutines : h # g => run'[h] = run[h]
    BY FrameChanged, Zenon
<1> QED
    BY <1>1, LocksFollow, ActsFollow, ListenersFollow

-----------------------------------------------------------------------------
RunInv == FrameInv /\ LockInv /\ ActInv /\ ListenInv

LEMMA GotoFrame ==
    ASSUME NEW r \in Frames, NEW p \in Pcs, NEW f, f = [r EXCEPT !.pc = p]
    PROVE  /\ f \in Frames /\ f.pc = p /\ f.op = r.op /\ f.sender = r.sender /\ f.type = r.type
           /\ f.name = r.name /\ f.newName = r.newName /\ f.id = r.id /\ f.code = r.code
           /\ f.sends = r.sends /\ f.from = r.from /\ f.into = r.into /\ f.told = r.told
    BY DEF Frames

(* The call or the listener returns.                                       *)
LEMMA Returns ==
    ASSUME RunInv, NEW g \in Goroutines, Return(g), LockMoves(g, Frame),
           UNCHANGED <<registered, action, closed, panicked>>
    PROVE  RunInv'
<1>1. Frame.op = "none" /\ Frame.pc = "idle" /\ Frame.sends = {}
    BY DEF Frame
<1> HIDE DEF Frame
<1>2. ActMoves(g, Frame)
    BY <1>1 DEF ActMoves, OfAction, Starting
<1> QED
    BY <1>2, FrameTyped, Moves, Zenon DEF RunInv, Return

LEMMA LocksReturned ==
    ASSUME RunInv, NEW g \in Goroutines, UNCHANGED <<lock, infoMu>>,
           ~Sending(run[g]), ~Reading(run[g]), ~Updating(run[g])
    PROVE  LockMoves(g, Frame)
<1>1. Frame.op = "none" /\ Frame.pc = "idle"
    BY DEF Frame
<1> HIDE DEF Frame
<1>2. Same(run[g], Frame)
    BY <1>1 DEF Same, Sending, Reading, Updating, Loops
<1> QED
    BY <1>2, LocksKept DEF RunInv

(* It goes on to the place p; nothing else changes for the others.         *)
LEMMA Goes ==
    ASSUME RunInv, NEW g \in Goroutines, NEW p \in Pcs, Goto(g, p),
           NEW f, f = [run[g] EXCEPT !.pc = p],
           Shape(g, f), LockMoves(g, f), run[g].sends = {},
           OfAction(f) => OfAction(run[g]),
           Starting(f) => Starting(run[g]), run[g].pc # "idle",
           UNCHANGED <<registered, action, closed, panicked>>
    PROVE  RunInv'
<1>1. run[g] \in Frames
    BY DEF RunInv, FrameInv
<1>2. f \in Frames /\ f.pc = p /\ f.op = run[g].op /\ f.id = run[g].id /\ f.sends = run[g].sends
    BY <1>1, GotoFrame
<1>3. ActMoves(g, f)
    BY <1>2 DEF ActMoves, RunInv, ListenInv
<1>4. run' = [run EXCEPT ![g] = f]
    BY DEF Goto
<1> QED
    BY <1>2, <1>3, <1>4, Moves, Zenon DEF RunInv

-----------------------------------------------------------------------------
(* The steps of a call.                                                    *)
LEMMA Starts ==
    ASSUME RunInv, NEW c \in Calls, At(c, "idle"),
           UNCHANGED <<lock, infoMu, registered, action, closed, panicked>>,
           NEW op, NEW first, NEW s \in Senders, NEW t \in Types \cup {"none"},
           NEW n \in Names \cup {None}, NEW m \in Names \cup {None}, Start(c, op, first, s, t, n, m),
           \/ op = "EnrollStart" /\ first = "check" /\ t \in Types /\ n \in Names
           \/ op = "EnrollStop" /\ first = "find"
           \/ op = "Rename" /\ first = "rename" /\ t \in Types /\ n \in Names /\ m \in Names
           \/ op = "Delete" /\ first = "lookUp" /\ t \in Types
           \/ op = "List" /\ first = "lockInfos" /\ t \in Types
    PROVE  RunInv'
<1>1. \/ op = "EnrollStart" /\ first = "check" /\ t \in Types /\ n \in Names
      \/ op = "EnrollStop" /\ first = "find"
      \/ op = "Rename" /\ first = "rename" /\ t \in Types /\ n \in Names /\ m \in Names
      \/ op = "Delete" /\ first = "lookUp" /\ t \in Types
      \/ op = "List" /\ first = "lockInfos" /\ t \in Types
    OBVIOUS
<1> DEFINE f == [Frame EXCEPT !.op = op, !.pc = first, !.sender = s, !.type = t, !.name = n, !.newName = m]
<1>2. c \in Goroutines /\ c \notin Ids
    BY GoroutinesTyped
<1>3. /\ f \in Frames /\ f.op = op /\ f.pc = first /\ f.sender = s /\ f.type = t /\ f.name = n
      /\ f.newName = m /\ f.sends = {}
  <2>1. op \in Ops /\ first \in Pcs
      BY DEF Ops, Pcs
  <2>2. Frame \in Frames /\ Frame.sends = {}
      BY FrameTyped DEF Frame
  <2> HIDE DEF Frame
  <2> QED BY <1>1, <2>1, <2>2, Zenon DEF Frames
<1>4. run' = [run EXCEPT ![c] = f]
    BY DEF Start
<1> HIDE DEF f
<1>5. run[c].pc = "idle" /\ run[c].op = "none"
    BY <1>2 DEF At, RunInv, FrameInv, Shape, Place, InChange
<1>6. Shape(c, f)
    BY <1>1, <1>3 DEF Shape, Place, OpsOf
<1>7. Same(run[c], f)
    BY <1>1, <1>3, <1>5 DEF Same, Sending, Reading, Updating, Loops
<1>8. ActMoves(c, f)
    BY <1>1, <1>2, <1>3, <1>5 DEF ActMoves, OfAction, Starting
<1> QED
    BY <1>2, <1>3, <1>4, <1>6, <1>7, <1>8, LocksKept, Moves, Zenon DEF RunInv

LEMMA BeginMoves ==
    ASSUME RunInv, NEW c \in Calls, Begin(c)
    PROVE  RunInv'
<1>1. PICK s \in Senders, t \in Types, n \in Names :
          \/ Start(c, "EnrollStart", "check", s, t, n, None)
          \/ Start(c, "EnrollStop", "find", s, "none", None, None)
          \/ \E m \in Names : Start(c, "Rename", "rename", s, t, n, m)
          \/ Start(c, "Delete", "lookUp", s, t, n, None)
          \/ Start(c, "List", "lockInfos", s, t, None, None)
    BY DEF Begin
<1>2. At(c, "idle") /\ UNCHANGED <<lock, infoMu, registered, action, closed, panicked>>
    BY DEF Begin, store, acts
<1>3. ASSUME NEW m \in Names, Start(c, "Rename", "rename", s, t, n, m) PROVE RunInv'
    BY <1>2, <1>3, Starts
<1>4. CASE Start(c, "EnrollStart", "check", s, t, n, None)
    BY <1>2, <1>4, Starts
<1>5. CASE Start(c, "EnrollStop", "find", s, "none", None, None)
    BY <1>2, <1>5, Starts
<1>6. CASE Start(c, "Delete", "lookUp", s, t, n, None)
    BY <1>2, <1>6, Starts
<1>7. CASE Start(c, "List", "lockInfos", s, t, None, None)
    BY <1>2, <1>7, Starts
<1> QED
    BY <1>1, <1>3, <1>4, <1>5, <1>6, <1>7

(* What its place says of a goroutine, and of the mutexes.                 *)
LEMMA AtCall ==
    ASSUME FrameInv, NEW g \in Goroutines, NEW r, r = run[g]
    PROVE  /\ r \in Frames /\ Shape(g, r)
           /\ r.pc \in {"check", "checkName", "genId", "start", "undo", "store"} => r.op = "EnrollStart"
           /\ r.pc \in {"find", "save", "saveInfo"} => r.op = "EnrollStop"
           /\ r.pc = "rename" => r.op = "Rename"
           /\ r.pc \in {"lookUp", "delete", "forget"} => r.op = "Delete"
           /\ r.pc \in {"lockInfos", "unlockInfos"} => r.op = "List"
           /\ r.pc \in {"spawned", "receive", "look"} => r.op = "listen"
           /\ r.pc \in {"stop", "release"} => r.op \in {"EnrollStart", "EnrollStop", "listen"}
           /\ r.pc = "getDriver" => r.op \in {"EnrollStart", "EnrollStop", "Delete", "List", "listen"}
           /\ r.pc \notin {"checkName", "send"} => ~Sending(r) /\ ~Reading(r) /\ r.sends = {}
           /\ r.pc = "idle" => r.op = "none"
    BY DEF FrameInv, Shape, Place, InChange, Sending, Reading

(* A step from a place to a place, without a mutex.                        *)
LEMMA Passes ==
    ASSUME RunInv, NEW g \in Goroutines, NEW p \in Pcs, Goto(g, p),
           ~Updating(run[g]), run[g].pc \notin {"checkName", "send", "idle"},
           p \notin {"checkName", "changeActions", "send"}, run[g].op # "List",
           NEW f, f = [run[g] EXCEPT !.pc = p],
           Shape(g, f), OfAction(f) => OfAction(run[g]), Starting(f) => Starting(run[g]),
           UNCHANGED <<lock, infoMu, registered, action, closed, panicked>>
    PROVE  RunInv'
<1>1. run[g] \in Frames /\ run[g].sends = {} /\ ~Sending(run[g]) /\ ~Reading(run[g])
    BY AtCall DEF RunInv
<1>2. f \in Frames /\ f.pc = p /\ f.op = run[g].op /\ f.id = run[g].id /\ f.sends = run[g].sends
    BY <1>1, GotoFrame
<1>3. Same(run[g], f)
    BY <1>1, <1>2 DEF Same, Sending, Reading, Updating
<1>4. LockMoves(g, f)
    BY <1>3, LocksKept DEF RunInv
<1> QED
    BY <1>1, <1>4, Goes

LEMMA checkMoves ==
    ASSUME RunInv, NEW c \in Calls, check(c)
    PROVE  RunInv'
<1>1. c \in Goroutines
    BY GoroutinesTyped
<1>2. run[c] \in Frames /\ Shape(c, run[c]) /\ run[c].op = "EnrollStart" /\ run[c].pc = "check"
    BY <1>1, AtCall DEF RunInv, check, At
<1>3. ~Sending(run[c]) /\ ~Reading(run[c]) /\ ~Updating(run[c]) /\ run[c].sends = {}
    BY <1>1, <1>2, AtCall DEF RunInv, Updating
<1>4. CanRead /\ UNCHANGED <<registered, action, closed, panicked, mu, infoMu>>
    BY DEF check, store, acts
<1>5. CASE Return(c) /\ UNCHANGED readers
    BY <1>1, <1>3, <1>4, <1>5, LocksReturned, Returns DEF lock
<1>6. CASE Goto(c, "checkName") /\ readers' = readers \cup {c}
  <2> DEFINE f == [run[c] EXCEPT !.pc = "checkName"]
  <2>1. "checkName" \in Pcs
      BY DEF Pcs
  <2>2. f \in Frames /\ f.pc = "checkName" /\ f.op = "EnrollStart" /\ f.sender = run[c].sender
        /\ f.type = run[c].type /\ f.name = run[c].name /\ f.sends = {}
      BY <1>2, <1>3, <2>1, GotoFrame
  <2> HIDE DEF f
  <2>3. Shape(c, f)
      BY <1>2, <2>2 DEF Shape, Place
  <2>4. LockMoves(c, f)
      BY <1>3, <1>4, <1>6, <2>2 DEF LockMoves, Sending, Reading, Updating
  <2> QED
      BY <1>1, <1>2, <1>3, <1>4, <1>6, <2>1, <2>2, <2>3, <2>4, Goes, Zenon DEF f, OfAction, Starting
<1> QED
    BY <1>5, <1>6 DEF check

LEMMA checkNameMoves ==
    ASSUME RunInv, NEW c \in Calls, checkName(c)
    PROVE  RunInv'
<1>1. c \in Goroutines
    BY GoroutinesTyped
<1>2. run[c] \in Frames /\ Shape(c, run[c]) /\ run[c].op = "EnrollStart" /\ run[c].pc = "checkName"
    BY <1>1, AtCall DEF RunInv, checkName, At
<1>3. ~Sending(run[c]) /\ Reading(run[c]) /\ ~Updating(run[c]) /\ run[c].sends = {}
    BY <1>2 DEF Shape, Sending, Reading, Updating
<1>4. UNCHANGED <<registered, action, closed, panicked, mu, infoMu>> /\ readers' = readers \ {c}
    BY DEF checkName, store, acts
<1>5. CASE Return(c)
  <2>1. Frame.op = "none" /\ Frame.pc = "idle"
      BY DEF Frame
  <2> HIDE DEF Frame
  <2>2. LockMoves(c, Frame)
      BY <1>3, <1>4, <2>1 DEF LockMoves, Sending, Reading, Updating
  <2> QED
      BY <1>1, <1>4, <1>5, <2>2, Returns
<1>6. CASE Goto(c, "getDriver")
  <2> DEFINE f == [run[c] EXCEPT !.pc = "getDriver"]
  <2>1. "getDriver" \in Pcs
      BY DEF Pcs
  <2>2. f \in Frames /\ f.pc = "getDriver" /\ f.op = "EnrollStart" /\ f.sender = run[c].sender
        /\ f.type = run[c].type /\ f.name = run[c].name /\ f.sends = {}
      BY <1>2, <1>3, <2>1, GotoFrame
  <2> HIDE DEF f
  <2>3. Shape(c, f)
      BY <1>2, <2>2 DEF Shape, Place
  <2>4. LockMoves(c, f)
      BY <1>3, <1>4, <2>2 DEF LockMoves, Sending, Reading, Updating
  <2> QED
      BY <1>1, <1>2, <1>3, <1>4, <1>6, <2>1, <2>2, <2>3, <2>4, Goes, Zenon DEF f, OfAction, Starting
<1> QED
    BY <1>5, <1>6 DEF checkName

(* A step that releases an action: nobody is about to send to it.          *)
LEMMA Releases ==
    ASSUME RunInv, NEW g \in Goroutines, NEW f \in Frames, Shape(g, f), run' = [run EXCEPT ![g] = f],
           LockMoves(g, f), ActMoves(g, f), f.sends = {}, CanWrite, NEW i \in Ids, Release(i),
           UNCHANGED action
    PROVE  RunInv'
<1>1. FrameInv' /\ run'[g] = f /\ \A h \in Goroutines : h # g => run'[h] = run[h]
    BY FrameChanged, Zenon DEF RunInv
<1>2. LockInv' /\ ListenInv'
    BY <1>1, LocksFollow, ListenersFollow DEF RunInv
<1>3. \A h \in Goroutines : ~Sending(run[h]) /\ ~Reading(run[h])
    BY GoroutinesTyped DEF RunInv, LockInv, CanWrite
<1>4. \A h \in Goroutines : run[h].sends = {}
    BY <1>3 DEF RunInv, FrameInv, Shape
<1>5. \A h \in Goroutines : run'[h].sends = {}
    BY <1>1, <1>4
<1>6. ActInv
    BY DEF RunInv
<1>7. ActInv'
    BY <1>5, <1>6, Zenon DEF ActInv, Release, Acted
<1> QED
    BY <1>1, <1>2, <1>7 DEF RunInv

LEMMA genIdMoves ==
    ASSUME RunInv, NEW c \in Calls, genId(c)
    PROVE  RunInv'
<1>1. c \in Goroutines /\ c \notin Ids
    BY GoroutinesTyped
<1>2. run[c] \in Frames /\ Shape(c, run[c]) /\ run[c].op = "EnrollStart" /\ run[c].pc = "genId"
    BY <1>1, AtCall DEF RunInv, genId, At
<1>3. ~Sending(run[c]) /\ ~Reading(run[c]) /\ ~Updating(run[c]) /\ run[c].sends = {}
    BY <1>1, <1>2, AtCall DEF RunInv, Updating
<1>4. UNCHANGED <<closed, panicked, lock, infoMu>>
    BY DEF genId, store
<1>5. CASE Return(c) /\ UNCHANGED <<registered, action>>
    BY <1>1, <1>3, <1>4, <1>5, LocksReturned, Returns
<1>6. ASSUME NEW i \in Unused, registered' = registered \cup {i},
             action' = [action EXCEPT ![i] = [NoAction EXCEPT !.sender = run[c].sender, !.type = run[c].type]],
             run' = [run EXCEPT ![c].pc = "start", ![c].id = i]
      PROVE  RunInv'
  <2> DEFINE f == [run[c] EXCEPT !.pc = "start", !.id = i]
             a == [NoAction EXCEPT !.sender = run[c].sender, !.type = run[c].type]
  <2>1. i \in Ids /\ ~Acted(i) /\ action[i] = NoAction
      BY CharaAssumption DEF Unused, NoAction, Acted
  <2>2. f \in Frames /\ f.pc = "start" /\ f.op = "EnrollStart" /\ f.sender = run[c].sender
        /\ f.type = run[c].type /\ f.name = run[c].name /\ f.id = i /\ f.sends = {}
    <3>1. "start" \in Pcs
        BY DEF Pcs
    <3> QED BY <1>2, <1>3, <2>1, <3>1, Zenon DEF Frames
  <2>3. run' = [run EXCEPT ![c] = f]
      BY <1>6, Zenon
  <2>4. /\ a \in [sender : Senders, type : Types, name : {None}, code : Codes]
      BY <1>1, <1>2, CodesTyped, Zenon DEF Shape, NoAction
  <2>5. action' = [action EXCEPT ![i] = a]
      BY <1>6
  <2> HIDE DEF f, a
  <2>6. Shape(c, f)
      BY <1>2, <2>1, <2>2 DEF Shape, Place
  <2>7. FrameInv' /\ run'[c] = f /\ \A h \in Goroutines : h # c => run'[h] = run[h]
      BY <1>1, <2>2, <2>3, <2>6, FrameChanged, Zenon DEF RunInv
  <2>8. Same(run[c], f)
      BY <1>3, <2>2 DEF Same, Sending, Reading, Updating
  <2>9. LockInv'
      BY <1>1, <1>4, <2>7, <2>8, LocksFollow, LocksKept DEF RunInv
  <2>10. i \notin registered \cup closed
      BY <2>1 DEF RunInv, ActInv
  <2>11. action'[i] = a /\ \A j \in Ids : j # i => action'[j] = action[j]
      BY <2>1, <2>5 DEF RunInv, ActInv
  <2>12. ActInv'
    <3>1. ActInv
        BY DEF RunInv
    <3>2. \A g \in Goroutines : run'[g].sends \subseteq run[g].sends
        BY <2>2, <2>7
    <3>3. action' \in [Ids -> [sender : Senders \cup {None}, type : Types \cup {"none"},
                           name : Names \cup {None}, code : Codes]]
        BY <2>4, <2>5, <3>1, Zenon DEF ActInv
    <3>4. \A j \in Ids : action'[j] = NoAction \/ (action'[j].type \in Types /\ action'[j].sender \in Senders)
        BY <2>4, <2>11, <3>1 DEF ActInv, Acted
    <3>5. \A j \in registered' \cup closed' : action'[j].type \in Types
        BY <1>4, <1>6, <2>4, <2>11, <3>1, Zenon DEF ActInv, Acted
    <3>6. registered' \subseteq Ids /\ closed' \subseteq Ids /\ registered' \cap closed' = {}
        BY <1>4, <1>6, <2>1, <2>10, <3>1 DEF ActInv
    <3> QED BY <1>4, <1>6, <3>1, <3>2, <3>3, <3>4, <3>5, <3>6, Zenon DEF ActInv, Acted
  <2>13. \A j \in Ids : j # i => (action'[j].type \in Types <=> Acted(j))
      BY <2>11 DEF Acted
  <2>14. run[i].pc = "idle" /\ \A g \in Goroutines : OfAction(run[g]) \/ Starting(run[g])
                                                        => run[g].id # i /\ run[g].id \in Ids
      BY <2>1 DEF RunInv, ListenInv, FrameInv, Shape, OfAction, Starting
  <2>15. ListenInv'
    <3>1. \A j \in Ids : action'[j].type \notin Types => run'[j].pc = "idle"
        BY <1>1, <2>4, <2>7, <2>11, <2>13, GoroutinesTyped DEF RunInv, ListenInv
    <3>2. \A g \in Goroutines : OfAction(run'[g]) \/ Starting(run'[g]) => action'[run'[g].id].type \in Types
      <4> TAKE g \in Goroutines
      <4>1. CASE g = c
          BY <2>2, <2>4, <2>7, <2>11, <4>1
      <4>2. CASE g # c
          BY <2>7, <2>13, <2>14, <4>2 DEF RunInv, ListenInv
      <4> QED BY <4>1, <4>2
    <3>3. \A d \in Calls : Starting(run'[d]) =>
            /\ run'[run'[d].id].pc = "idle"
            /\ \A e \in Calls : Starting(run'[e]) /\ run'[e].id = run'[d].id => e = d
      <4>1. ASSUME NEW d \in Calls, d # c, Starting(run'[d])
            PROVE  /\ run'[d] = run[d] /\ Starting(run[d])
                   /\ run[d].id \in Ids \ {i} /\ run[run[d].id].pc = "idle"
        <5>1. run'[d] = run[d]
            BY <2>7, <4>1, GoroutinesTyped
        <5>2. Starting(run[d])
            BY <4>1, <5>1
        <5> QED BY <2>14, <5>1, <5>2, GoroutinesTyped DEF RunInv, ListenInv
      <4> HIDE DEF Starting
      <4>2. \A j \in Ids : run'[j] = run[j]
          BY <1>1, <2>7, GoroutinesTyped
      <4> TAKE d \in Calls
      <4> HAVE Starting(run'[d])
      <4>3. CASE d = c
          BY <2>1, <2>2, <2>7, <2>14, <4>1, <4>2, <4>3
      <4>4. CASE d # c
        <5>1. run'[run'[d].id].pc = "idle"
            BY <4>1, <4>2, <4>4
        <5>2. ASSUME NEW e \in Calls, Starting(run'[e]), run'[e].id = run'[d].id PROVE e = d
          <6>1. e # c
              BY <2>2, <2>7, <4>1, <4>4, <5>2
          <6>2. Starting(run[e]) /\ Starting(run[d]) /\ run[e].id = run[d].id
              BY <4>1, <4>4, <5>2, <6>1
          <6> QED BY <6>2 DEF RunInv, ListenInv
        <5> QED BY <5>1, <5>2
      <4> QED BY <4>3, <4>4
    <3> QED BY <3>1, <3>2, <3>3 DEF ListenInv, Acted, OfAction, Starting
  <2> QED BY <2>7, <2>9, <2>12, <2>15 DEF RunInv
<1> QED
    BY <1>5, <1>6 DEF genId

LEMMA startMoves ==
    ASSUME RunInv, NEW c \in Calls, start(c)
    PROVE  RunInv'
<1>1. c \in Goroutines
    BY GoroutinesTyped
<1>2. run[c] \in Frames /\ Shape(c, run[c]) /\ run[c].op = "EnrollStart" /\ run[c].pc = "start"
    BY <1>1, AtCall DEF RunInv, start, At
<1>3. ~Sending(run[c]) /\ ~Reading(run[c]) /\ ~Updating(run[c]) /\ run[c].sends = {}
    BY <1>1, <1>2, AtCall DEF RunInv, Updating
<1>4. UNCHANGED <<registered, action, closed, panicked, lock, infoMu>>
    BY DEF start, store, acts
<1>5. CASE Goto(c, "store")
  <2> DEFINE f == [run[c] EXCEPT !.pc = "store"]
  <2>1. "store" \in Pcs
      BY DEF Pcs
  <2>2. f \in Frames /\ f.pc = "store" /\ f.op = run[c].op /\ f.sender = run[c].sender
        /\ f.type = run[c].type /\ f.name = run[c].name /\ f.id = run[c].id /\ f.sends = {}
      BY <1>2, <1>3, <2>1, GotoFrame
  <2> HIDE DEF f
  <2>3. Shape(c, f)
      BY <1>2, <2>2 DEF Shape, Place
  <2> QED
      BY <1>1, <1>2, <1>3, <1>4, <1>5, <2>1, <2>2, <2>3, Passes, Zenon DEF f, OfAction, Starting
<1>6. CASE Goto(c, "undo")
  <2> DEFINE f == [run[c] EXCEPT !.pc = "undo"]
  <2>1. "undo" \in Pcs
      BY DEF Pcs
  <2>2. f \in Frames /\ f.pc = "undo" /\ f.op = run[c].op /\ f.sender = run[c].sender
        /\ f.type = run[c].type /\ f.name = run[c].name /\ f.id = run[c].id /\ f.sends = {}
      BY <1>2, <1>3, <2>1, GotoFrame
  <2> HIDE DEF f
  <2>3. Shape(c, f)
      BY <1>2, <2>2 DEF Shape, Place
  <2> QED
      BY <1>1, <1>2, <1>3, <1>4, <1>6, <2>1, <2>2, <2>3, Passes, Zenon DEF f, OfAction, Starting
<1> QED
    BY <1>5, <1>6 DEF start

LEMMA checkCodeMoves ==
    ASSUME RunInv, NEW c \in Calls, checkCode(c)
    PROVE  RunInv'
<1>1. c \in Goroutines
    BY GoroutinesTyped
<1>2. run[c] \in Frames /\ Shape(c, run[c]) /\ run[c].op = "EnrollStop" /\ run[c].pc = "save"
    BY <1>1, AtCall DEF RunInv, checkCode, At
<1>3. ~Sending(run[c]) /\ ~Reading(run[c]) /\ ~Updating(run[c]) /\ run[c].sends = {}
    BY <1>1, <1>2, AtCall DEF RunInv, Updating
<1>4. UNCHANGED <<registered, action, closed, panicked, lock, infoMu>>
    BY DEF checkCode, store, acts
<1>5. CASE Goto(c, "release")
  <2> DEFINE f == [run[c] EXCEPT !.pc = "release"]
  <2>1. "release" \in Pcs
      BY DEF Pcs
  <2>2. f \in Frames /\ f.pc = "release" /\ f.op = run[c].op /\ f.sender = run[c].sender
        /\ f.type = run[c].type /\ f.name = run[c].name /\ f.id = run[c].id /\ f.sends = {}
      BY <1>2, <1>3, <2>1, GotoFrame
  <2> HIDE DEF f
  <2>3. Shape(c, f)
      BY <1>2, <2>2 DEF Shape, Place
  <2> QED
      BY <1>1, <1>2, <1>3, <1>4, <1>5, <2>1, <2>2, <2>3, Passes, Zenon DEF f, OfAction, Starting
<1>6. CASE Goto(c, "saveInfo")
  <2> DEFINE f == [run[c] EXCEPT !.pc = "saveInfo"]
  <2>1. "saveInfo" \in Pcs
      BY DEF Pcs
  <2>2. f \in Frames /\ f.pc = "saveInfo" /\ f.op = run[c].op /\ f.sender = run[c].sender
        /\ f.type = run[c].type /\ f.name = run[c].name /\ f.id = run[c].id /\ f.sends = {}
      BY <1>2, <1>3, <2>1, GotoFrame
  <2> HIDE DEF f
  <2>3. Shape(c, f)
      BY <1>2, <2>2 DEF Shape, Place
  <2> QED
      BY <1>1, <1>2, <1>3, <1>4, <1>6, <2>1, <2>2, <2>3, Passes, Zenon DEF f, OfAction, Starting
<1> QED
    BY <1>5, <1>6 DEF checkCode

LEMMA saveInfoMoves ==
    ASSUME RunInv, NEW c \in Calls, saveInfo(c)
    PROVE  RunInv'
<1>1. c \in Goroutines
    BY GoroutinesTyped
<1>2. run[c] \in Frames /\ Shape(c, run[c]) /\ run[c].op = "EnrollStop" /\ run[c].pc = "saveInfo"
    BY <1>1, AtCall DEF RunInv, saveInfo, At
<1>3. ~Sending(run[c]) /\ ~Reading(run[c]) /\ ~Updating(run[c]) /\ run[c].sends = {}
    BY <1>1, <1>2, AtCall DEF RunInv, Updating
<1>4. UNCHANGED <<registered, action, closed, panicked, lock, infoMu>>
    BY DEF saveInfo, store, acts
<1>5. CASE Goto(c, "release")
  <2> DEFINE f == [run[c] EXCEPT !.pc = "release"]
  <2>1. "release" \in Pcs
      BY DEF Pcs
  <2>2. f \in Frames /\ f.pc = "release" /\ f.op = run[c].op /\ f.sender = run[c].sender
        /\ f.type = run[c].type /\ f.name = run[c].name /\ f.id = run[c].id /\ f.sends = {}
      BY <1>2, <1>3, <2>1, GotoFrame
  <2> HIDE DEF f
  <2>3. Shape(c, f)
      BY <1>2, <2>2 DEF Shape, Place
  <2> QED
      BY <1>1, <1>2, <1>3, <1>4, <1>5, <2>1, <2>2, <2>3, Passes, Zenon DEF f, OfAction, Starting
<1> QED
    BY <1>5 DEF saveInfo

LEMMA renameMoves ==
    ASSUME RunInv, NEW c \in Calls, rename(c)
    PROVE  RunInv'
<1>1. c \in Goroutines
    BY GoroutinesTyped
<1>2. run[c] \in Frames /\ Shape(c, run[c]) /\ run[c].op = "Rename" /\ run[c].pc = "rename"
    BY <1>1, AtCall DEF RunInv, rename, At
<1>3. ~Sending(run[c]) /\ ~Reading(run[c]) /\ ~Updating(run[c]) /\ run[c].sends = {}
    BY <1>1, <1>2, AtCall DEF RunInv, Updating
<1>4. UNCHANGED <<registered, action, closed, panicked, lock, infoMu>>
    BY DEF rename, store, acts
<1>5. CASE Return(c)
    BY <1>1, <1>3, <1>4, <1>5, LocksReturned, Returns
<1> QED
    BY <1>5 DEF rename

LEMMA deleteInDriverMoves ==
    ASSUME RunInv, NEW c \in Calls, deleteInDriver(c)
    PROVE  RunInv'
<1>1. c \in Goroutines
    BY GoroutinesTyped
<1>2. run[c] \in Frames /\ Shape(c, run[c]) /\ run[c].op = "Delete" /\ run[c].pc = "delete"
    BY <1>1, AtCall DEF RunInv, deleteInDriver, At
<1>3. ~Sending(run[c]) /\ ~Reading(run[c]) /\ ~Updating(run[c]) /\ run[c].sends = {}
    BY <1>1, <1>2, AtCall DEF RunInv, Updating
<1>4. UNCHANGED <<registered, action, closed, panicked, lock, infoMu>>
    BY DEF deleteInDriver, store, acts
<1>5. CASE Goto(c, "forget")
  <2> DEFINE f == [run[c] EXCEPT !.pc = "forget"]
  <2>1. "forget" \in Pcs
      BY DEF Pcs
  <2>2. f \in Frames /\ f.pc = "forget" /\ f.op = run[c].op /\ f.sender = run[c].sender
        /\ f.type = run[c].type /\ f.name = run[c].name /\ f.id = run[c].id /\ f.sends = {}
      BY <1>2, <1>3, <2>1, GotoFrame
  <2> HIDE DEF f
  <2>3. Shape(c, f)
      BY <1>2, <2>2 DEF Shape, Place
  <2> QED
      BY <1>1, <1>2, <1>3, <1>4, <1>5, <2>1, <2>2, <2>3, Passes, Zenon DEF f, OfAction, Starting
<1>6. CASE Return(c)
    BY <1>1, <1>3, <1>4, <1>6, LocksReturned, Returns
<1> QED
    BY <1>5, <1>6 DEF deleteInDriver

LEMMA forgetMoves ==
    ASSUME RunInv, NEW c \in Calls, forget(c)
    PROVE  RunInv'
<1>1. c \in Goroutines
    BY GoroutinesTyped
<1>2. run[c] \in Frames /\ Shape(c, run[c]) /\ run[c].op = "Delete" /\ run[c].pc = "forget"
    BY <1>1, AtCall DEF RunInv, forget, At
<1>3. ~Sending(run[c]) /\ ~Reading(run[c]) /\ ~Updating(run[c]) /\ run[c].sends = {}
    BY <1>1, <1>2, AtCall DEF RunInv, Updating
<1>4. UNCHANGED <<registered, action, closed, panicked, lock, infoMu>>
    BY DEF forget, store, acts
<1>5. CASE Return(c)
    BY <1>1, <1>3, <1>4, <1>5, LocksReturned, Returns
<1> QED
    BY <1>5 DEF forget

LEMMA spawnedMoves ==
    ASSUME RunInv, NEW i \in Ids, spawned(i)
    PROVE  RunInv'
<1>1. i \in Goroutines
    BY GoroutinesTyped
<1>2. run[i] \in Frames /\ Shape(i, run[i]) /\ run[i].op = "listen" /\ run[i].pc = "spawned"
    BY <1>1, AtCall DEF RunInv, spawned, At
<1>3. ~Sending(run[i]) /\ ~Reading(run[i]) /\ ~Updating(run[i]) /\ run[i].sends = {}
    BY <1>1, <1>2, AtCall DEF RunInv, Updating
<1>4. UNCHANGED <<registered, action, closed, panicked, lock, infoMu>>
    BY DEF spawned, store, acts
<1>5. CASE Goto(i, "receive")
  <2> DEFINE f == [run[i] EXCEPT !.pc = "receive"]
  <2>1. "receive" \in Pcs
      BY DEF Pcs
  <2>2. f \in Frames /\ f.pc = "receive" /\ f.op = run[i].op /\ f.sender = run[i].sender
        /\ f.type = run[i].type /\ f.name = run[i].name /\ f.id = run[i].id /\ f.sends = {}
      BY <1>2, <1>3, <2>1, GotoFrame
  <2> HIDE DEF f
  <2>3. Shape(i, f)
      BY <1>2, <2>2 DEF Shape, Place
  <2> QED
      BY <1>1, <1>2, <1>3, <1>4, <1>5, <2>1, <2>2, <2>3, Passes, Zenon DEF f, OfAction, Starting
<1>6. CASE Goto(i, "waitForEver")
  <2> DEFINE f == [run[i] EXCEPT !.pc = "waitForEver"]
  <2>1. "waitForEver" \in Pcs
      BY DEF Pcs
  <2>2. f \in Frames /\ f.pc = "waitForEver" /\ f.op = run[i].op /\ f.sender = run[i].sender
        /\ f.type = run[i].type /\ f.name = run[i].name /\ f.id = run[i].id /\ f.sends = {}
      BY <1>2, <1>3, <2>1, GotoFrame
  <2> HIDE DEF f
  <2>3. Shape(i, f)
      BY <1>2, <2>2 DEF Shape, Place
  <2> QED
      BY <1>1, <1>2, <1>3, <1>4, <1>6, <2>1, <2>2, <2>3, Passes, Zenon DEF f, OfAction, Starting
<1> QED
    BY <1>5, <1>6 DEF spawned

LEMMA stopMoves ==
    ASSUME RunInv, NEW g \in Goroutines, stop(g)
    PROVE  RunInv'
<1>1. g \in Goroutines
    OBVIOUS
<1>2. run[g] \in Frames /\ Shape(g, run[g]) /\ run[g].op \in {"EnrollStart", "EnrollStop", "listen"} /\ run[g].pc = "stop"
    BY <1>1, AtCall DEF RunInv, stop, At
<1>3. ~Sending(run[g]) /\ ~Reading(run[g]) /\ ~Updating(run[g]) /\ run[g].sends = {}
    BY <1>1, <1>2, AtCall DEF RunInv, Updating
<1>4. UNCHANGED <<registered, action, closed, panicked, lock, infoMu>>
    BY DEF stop, store, acts
<1>5. CASE Return(g)
    BY <1>1, <1>3, <1>4, <1>5, LocksReturned, Returns
<1>6. CASE Goto(g, "release")
  <2> DEFINE f == [run[g] EXCEPT !.pc = "release"]
  <2>1. "release" \in Pcs
      BY DEF Pcs
  <2>2. f \in Frames /\ f.pc = "release" /\ f.op = run[g].op /\ f.sender = run[g].sender
        /\ f.type = run[g].type /\ f.name = run[g].name /\ f.id = run[g].id /\ f.sends = {}
      BY <1>2, <1>3, <2>1, GotoFrame
  <2> HIDE DEF f
  <2>3. Shape(g, f)
      BY <1>2, <2>2 DEF Shape, Place
  <2> QED
      BY <1>1, <1>2, <1>3, <1>4, <1>6, <2>1, <2>2, <2>3, Passes, Zenon DEF f, OfAction, Starting
<1>7. CASE Goto(g, "save") /\ run[g].op = "EnrollStop"
  <2> DEFINE f == [run[g] EXCEPT !.pc = "save"]
  <2>1. "save" \in Pcs
      BY DEF Pcs
  <2>2. f \in Frames /\ f.pc = "save" /\ f.op = "EnrollStop" /\ f.sender = run[g].sender
        /\ f.type = run[g].type /\ f.name = run[g].name /\ f.id = run[g].id /\ f.sends = {}
      BY <1>2, <1>3, <1>7, <2>1, GotoFrame
  <2> HIDE DEF f
  <2>3. Shape(g, f)
      BY <1>2, <1>7, <2>2 DEF Shape, Place
  <2> QED
      BY <1>1, <1>2, <1>3, <1>4, <1>7, <2>1, <2>2, <2>3, Passes, Zenon DEF f, OfAction, Starting
<1> QED
    BY <1>5, <1>6, <1>7 DEF stop

LEMMA undoMoves ==
    ASSUME RunInv, NEW c \in Calls, undo(c)
    PROVE  RunInv'
<1>1. c \in Goroutines
    BY GoroutinesTyped
<1>2. run[c] \in Frames /\ Shape(c, run[c]) /\ run[c].op = "EnrollStart" /\ run[c].pc = "undo"
    BY <1>1, AtCall DEF RunInv, undo, At
<1>3. ~Sending(run[c]) /\ ~Reading(run[c]) /\ ~Updating(run[c]) /\ run[c].sends = {}
    BY <1>1, <1>2, AtCall DEF RunInv, Updating
<1>4. CanWrite /\ UNCHANGED <<action, lock, infoMu>> /\ Release(run[c].id) /\ run[c].id \in Ids
    BY <1>2 DEF undo, store, Shape
<1>5. Frame.op = "none" /\ Frame.pc = "idle" /\ Frame.sends = {}
    BY DEF Frame
<1>6. run' = [run EXCEPT ![c] = Frame]
    BY DEF undo, Return
<1> HIDE DEF Frame
<1>7. ActMoves(c, Frame)
    BY <1>5 DEF ActMoves, OfAction, Starting
<1>8. LockMoves(c, Frame)
    BY <1>1, <1>3, <1>4, LocksReturned
<1> QED
    BY <1>1, <1>4, <1>5, <1>6, <1>7, <1>8, FrameTyped, Releases, Zenon

LEMMA releaseMoves ==
    ASSUME RunInv, NEW g \in Goroutines, release(g)
    PROVE  RunInv'
<1>1. g \in Goroutines
    OBVIOUS
<1>2. run[g] \in Frames /\ Shape(g, run[g]) /\ run[g].op \in {"EnrollStart", "EnrollStop", "listen"} /\ run[g].pc = "release"
    BY <1>1, AtCall DEF RunInv, release, At
<1>3. ~Sending(run[g]) /\ ~Reading(run[g]) /\ ~Updating(run[g]) /\ run[g].sends = {}
    BY <1>1, <1>2, AtCall DEF RunInv, Updating
<1>4. CanWrite /\ UNCHANGED <<action, lock, infoMu>> /\ Release(run[g].id) /\ run[g].id \in Ids
    BY <1>2 DEF release, store, Shape
<1>5. CASE Return(g)
  <2>1. Frame.op = "none" /\ Frame.pc = "idle" /\ Frame.sends = {}
      BY DEF Frame
  <2>2. run' = [run EXCEPT ![g] = Frame]
      BY <1>5 DEF Return
  <2> HIDE DEF Frame
  <2>3. ActMoves(g, Frame)
      BY <2>1 DEF ActMoves, OfAction, Starting
  <2>4. LockMoves(g, Frame)
      BY <1>1, <1>3, <1>4, LocksReturned
  <2> QED
      BY <1>1, <1>4, <2>1, <2>2, <2>3, <2>4, FrameTyped, Releases, Zenon
<1>6. CASE run[g].op = "listen" /\ run' = [run EXCEPT ![g].pc = "receive", ![g].code = "Invalid"]
  <2> DEFINE f == [run[g] EXCEPT !.pc = "receive", !.code = "Invalid"]
  <2>1. "receive" \in Pcs
      BY DEF Pcs
  <2>2. f \in Frames /\ f.pc = "receive" /\ f.op = "listen" /\ f.type = run[g].type /\ f.id = run[g].id
        /\ f.sends = {}
      BY <1>2, <1>3, <1>6, <2>1, CodesTyped, Zenon DEF Frames
  <2>3. run' = [run EXCEPT ![g] = f]
      BY <1>6, Zenon
  <2> HIDE DEF f
  <2>4. Shape(g, f)
      BY <1>2, <1>6, <2>2 DEF Shape, Place, OpsOf
  <2>5. Same(run[g], f)
      BY <1>3, <2>2 DEF Same, Sending, Reading, Updating
  <2>6. ActMoves(g, f)
      BY <1>1, <1>2, <1>6, <2>2 DEF ActMoves, OfAction, Starting, RunInv, ListenInv
  <2>7. LockMoves(g, f)
      BY <1>1, <1>4, <2>5, LocksKept DEF RunInv
  <2> QED
      BY <1>1, <1>4, <2>2, <2>3, <2>4, <2>6, <2>7, Releases, Zenon
<1> QED
    BY <1>5, <1>6 DEF release

LEMMA findMoves ==
    ASSUME RunInv, NEW c \in Calls, find(c)
    PROVE  RunInv'
<1>1. c \in Goroutines
    BY GoroutinesTyped
<1>2. run[c] \in Frames /\ Shape(c, run[c]) /\ run[c].op = "EnrollStop" /\ run[c].pc = "find"
    BY <1>1, AtCall, Zenon DEF RunInv, find, At
<1>3. ~Sending(run[c]) /\ ~Reading(run[c]) /\ ~Updating(run[c]) /\ run[c].sends = {}
    BY <1>1, <1>2, AtCall DEF RunInv, Updating
<1>4. UNCHANGED <<registered, action, closed, panicked, lock, infoMu>>
    BY Zenon DEF find, store, acts
<1>5. CASE Return(c)
    BY <1>1, <1>3, <1>4, <1>5, LocksReturned, Returns
<1>6. \A i \in registered : i \in Ids /\ action[i].type \in Types
    BY DEF RunInv, ActInv, Acted
<1>7. ASSUME NEW i \in registered,
             run' = [run EXCEPT ![c].pc = "getDriver", ![c].id = i, ![c].type = action[i].type,
                                ![c].told = i \in told]
      PROVE  RunInv'
  <2> DEFINE b == i \in told
             f == [run[c] EXCEPT !.pc = "getDriver", !.id = i, !.type = action[i].type, !.told = b]
  <2>9. run' = [run EXCEPT ![c] = f]
      BY <1>7, Zenon
  <2>0. b \in BOOLEAN
      OBVIOUS
  <2> HIDE DEF b
  <2>1. "getDriver" \in Pcs
      BY DEF Pcs
  <2>2. f \in Frames /\ f.pc = "getDriver" /\ f.op = run[c].op /\ f.sender = run[c].sender
        /\ f.type = action[i].type /\ f.id = i /\ f.sends = {}
      BY <1>2, <1>3, <1>6, <2>0, <2>1, Zenon DEF Frames
  <2>3. run' = [run EXCEPT ![c] = f]
      BY <2>9
  <2> HIDE DEF f
  <2>4. Shape(c, f)
      BY <1>2, <1>6, <2>2 DEF Shape, Place, InChange
  <2>5. Same(run[c], f)
      BY <1>2, <1>3, <2>2 DEF Same, Sending, Reading, Updating
  <2>6. ActMoves(c, f)
      BY <1>1, <1>2, <1>6, <2>2 DEF ActMoves, OfAction, Starting, Acted, RunInv, ListenInv
  <2> QED
      BY <1>1, <1>4, <2>2, <2>3, <2>4, <2>5, <2>6, LocksKept, Moves, Zenon DEF RunInv
<1> QED
    BY <1>5, <1>7, Zenon DEF find

LEMMA lookUpMoves ==
    ASSUME RunInv, InfoInv, NEW c \in Calls, lookUp(c)
    PROVE  RunInv'
<1>1. c \in Goroutines
    BY GoroutinesTyped
<1>2. run[c] \in Frames /\ Shape(c, run[c]) /\ run[c].op = "Delete" /\ run[c].pc = "lookUp"
    BY <1>1, AtCall DEF RunInv, lookUp, At
<1>3. ~Sending(run[c]) /\ ~Reading(run[c]) /\ ~Updating(run[c]) /\ run[c].sends = {}
    BY <1>1, <1>2, AtCall DEF RunInv, Updating
<1>4. UNCHANGED <<registered, action, closed, panicked, lock, infoMu>>
    BY DEF lookUp, store, acts
<1>5. CASE Return(c)
    BY <1>1, <1>3, <1>4, <1>5, LocksReturned, Returns
<1>6. ASSUME NEW i \in Ids, run' = [run EXCEPT ![c].pc = "getDriver", ![c].id = i]
      PROVE  RunInv'
  <2> DEFINE f == [run[c] EXCEPT !.pc = "getDriver", !.id = i]
  <2>1. "getDriver" \in Pcs
      BY DEF Pcs
  <2>2. f \in Frames /\ f.pc = "getDriver" /\ f.op = run[c].op /\ f.sender = run[c].sender
        /\ f.type = run[c].type /\ f.id = i /\ f.sends = {}
      BY <1>2, <1>3, <2>1, Zenon DEF Frames
  <2>3. run' = [run EXCEPT ![c] = f]
      BY <1>6, Zenon
  <2> HIDE DEF f
  <2>4. Shape(c, f)
      BY <1>2, <2>2 DEF Shape, Place, InChange
  <2>5. Same(run[c], f)
      BY <1>2, <1>3, <2>2 DEF Same, Sending, Reading, Updating
  <2>6. ActMoves(c, f)
      BY <1>1, <1>2, <2>2 DEF ActMoves, OfAction, Starting, Acted, RunInv, ListenInv
  <2> QED
      BY <1>1, <1>4, <2>2, <2>3, <2>4, <2>5, <2>6, LocksKept, Moves, Zenon DEF RunInv
<1>7. \A i \in Named(run[c].sender, run[c].type, run[c].name) : i \in Ids
    BY DEF Named, InfoInv
<1> QED
    BY <1>5, <1>6, <1>7 DEF lookUp

LEMMA keepInfoMoves ==
    ASSUME RunInv, NEW c \in Calls, keepInfo(c)
    PROVE  RunInv'
<1>1. c \in Goroutines
    BY GoroutinesTyped
<1>2. run[c] \in Frames /\ Shape(c, run[c]) /\ run[c].op = "EnrollStart" /\ run[c].pc = "store"
    BY <1>1, AtCall DEF RunInv, keepInfo, At
<1>3. ~Sending(run[c]) /\ ~Reading(run[c]) /\ ~Updating(run[c]) /\ run[c].sends = {}
    BY <1>1, <1>2, AtCall DEF RunInv, Updating
<1>4. UNCHANGED <<registered, closed, panicked, lock, infoMu>>
    BY DEF keepInfo, store
<1>5. CASE Goto(c, "stop") /\ UNCHANGED action
  <2> DEFINE f == [run[c] EXCEPT !.pc = "stop"]
  <2>1. "stop" \in Pcs
      BY DEF Pcs
  <2>2. f \in Frames /\ f.pc = "stop" /\ f.op = run[c].op /\ f.sender = run[c].sender
        /\ f.type = run[c].type /\ f.name = run[c].name /\ f.id = run[c].id /\ f.sends = {}
      BY <1>2, <1>3, <2>1, GotoFrame
  <2> HIDE DEF f
  <2>3. Shape(c, f)
      BY <1>2, <2>2 DEF Shape, Place
  <2> QED
      BY <1>1, <1>2, <1>3, <1>4, <1>5, <2>1, <2>2, <2>3, Passes, Zenon DEF f, OfAction, Starting
<1>6. CASE /\ run[c].id \in registered
           /\ action' = [action EXCEPT ![run[c].id].name = run[c].name]
           /\ run' = [run EXCEPT ![c] = Frame,
                        ![run[c].id] = [Frame EXCEPT !.op = "listen", !.pc = "spawned",
                                                     !.id = run[c].id, !.type = run[c].type]]
  <2> DEFINE i == run[c].id
             f == [Frame EXCEPT !.op = "listen", !.pc = "spawned", !.id = i, !.type = run[c].type]
  <2>1. /\ i \in Ids /\ i \in Goroutines /\ i # c /\ i \notin Calls /\ run[i].pc = "idle" /\ Acted(i)
        /\ run[c].type \in Types /\ run[c].name \in Names
        /\ \A d \in Calls : Starting(run[d]) /\ run[d].id = i => d = c
      BY <1>1, <1>2, GoroutinesTyped DEF Shape, RunInv, ListenInv, Starting
  <2>2. Frame \in Frames /\ Frame.op = "none" /\ Frame.pc = "idle" /\ Frame.sends = {} /\ Shape(c, Frame)
      BY FrameTyped, Zenon DEF Frame
  <2>3. run' = [run EXCEPT ![c] = Frame, ![i] = f]
      BY <1>6
  <2> HIDE DEF Frame, i
  <2>4. f \in Frames /\ f.pc = "spawned" /\ f.op = "listen" /\ f.type = run[c].type /\ f.id = i
        /\ f.sends = {}
    <3>1. "spawned" \in Pcs /\ "listen" \in Ops
        BY DEF Pcs, Ops
    <3> QED BY <2>1, <2>2, <3>1, Zenon DEF Frames
  <2> HIDE DEF f
  <2>5. Shape(i, f)
      BY <2>1, <2>4 DEF Shape, Place, OpsOf
  <2>6. /\ run'[c] = Frame /\ run'[i] = f
        /\ \A h \in Goroutines : h # c /\ h # i => run'[h] = run[h]
      BY <1>1, <2>1, <2>3 DEF RunInv, FrameInv
  <2>7. FrameInv'
      BY <1>1, <2>1, <2>2, <2>3, <2>4, <2>5, <2>6 DEF RunInv, FrameInv
  <2>8. /\ ~Sending(run[i]) /\ ~Reading(run[i]) /\ ~Updating(run[i])
        /\ ~Sending(Frame) /\ ~Reading(Frame) /\ ~Updating(Frame)
        /\ ~Sending(f) /\ ~Reading(f) /\ ~Updating(f)
    <3>1. run[i].op = "none"
        BY <2>1, AtCall DEF RunInv
    <3> QED BY <2>1, <2>2, <2>4, <3>1 DEF Sending, Reading, Updating
  <2>9. LockInv'
    <3>1. ASSUME NEW h \in Goroutines
          PROVE  /\ Sending(run'[h]) <=> Sending(run[h])
                 /\ Reading(run'[h]) <=> Reading(run[h])
                 /\ Updating(run'[h]) <=> Updating(run[h])
      <4>1. CASE h = c BY <1>3, <2>6, <2>8, <4>1
      <4>2. CASE h = i BY <2>6, <2>8, <4>2
      <4>3. CASE h # c /\ h # i BY <2>6, <4>3
      <4> QED BY <4>1, <4>2, <4>3
    <3> QED BY <1>4, <3>1 DEF RunInv, LockInv, lock
  <2>10. /\ action' = [action EXCEPT ![i].name = run[c].name]
         /\ \A j \in Ids : action'[j].type = action[j].type /\ action'[j].sender = action[j].sender
         /\ \A j \in Ids \ {i} : action'[j] = action[j]
    <3>1. action' = [action EXCEPT ![i].name = run[c].name]
        BY <1>6 DEF i
    <3> QED BY <2>1, <3>1 DEF RunInv, ActInv
  <2>11. ActInv'
    <3>1. ActInv
        BY DEF RunInv
    <3>2. \A g \in Goroutines : run'[g].sends \subseteq run[g].sends
        BY <2>2, <2>4, <2>6
    <3>3. action' \in [Ids -> [sender : Senders \cup {None}, type : Types \cup {"none"},
                           name : Names \cup {None}, code : Codes]]
        BY <2>1, <2>10, <3>1 DEF ActInv
    <3>4. \A j \in Ids : action'[j] = NoAction \/ (action'[j].type \in Types /\ action'[j].sender \in Senders)
      <4>1. action[i].sender \in Senders
          BY <2>1, <3>1, CharaAssumption DEF ActInv, Acted, NoAction
      <4> QED BY <2>1, <2>10, <3>1, <4>1 DEF ActInv, Acted
    <3>5. \A j \in registered' \cup closed' : action'[j].type \in Types
        BY <1>4, <2>10, <3>1 DEF ActInv, Acted
    <3> QED BY <1>4, <3>1, <3>2, <3>3, <3>4, <3>5 DEF ActInv, Acted
  <2>12. ListenInv'
    <3>1. \A j \in Ids : action'[j].type \notin Types => run'[j].pc = "idle"
        BY <1>1, <2>1, <2>6, <2>10, GoroutinesTyped DEF RunInv, ListenInv, Acted
    <3>2. \A g \in Goroutines : OfAction(run'[g]) \/ Starting(run'[g]) => action'[run'[g].id].type \in Types
      <4> TAKE g \in Goroutines
      <4>1. CASE g = c
          BY <2>2, <2>6, <4>1 DEF OfAction, Starting
      <4>2. CASE g = i
          BY <2>1, <2>4, <2>6, <2>10, <4>2 DEF Acted
      <4>3. CASE g # c /\ g # i
        <5>1. OfAction(run[g]) \/ Starting(run[g]) => run[g].id \in Ids /\ Acted(run[g].id)
            BY DEF RunInv, FrameInv, Shape, ListenInv, OfAction, Starting
        <5> QED BY <2>6, <2>10, <4>3, <5>1 DEF Acted
      <4> QED BY <4>1, <4>2, <4>3
    <3>3. \A d \in Calls : Starting(run'[d]) =>
            /\ run'[run'[d].id].pc = "idle"
            /\ \A e \in Calls : Starting(run'[e]) /\ run'[e].id = run'[d].id => e = d
      <4>1. ASSUME NEW d \in Calls, Starting(run'[d])
            PROVE  d # c /\ run'[d] = run[d] /\ Starting(run[d]) /\ run[d].id \in Ids \ {i}
        <5>1. d # c
            BY <2>2, <2>6, <4>1 DEF Starting
        <5>2. run'[d] = run[d]
            BY <2>1, <2>6, <5>1, GoroutinesTyped
        <5>3. Starting(run[d])
            BY <4>1, <5>2
        <5>4. run[d].id \in Ids
            BY <5>3, GoroutinesTyped DEF RunInv, FrameInv, Shape, Starting
        <5> QED BY <2>1, <5>1, <5>2, <5>3, <5>4
      <4>2. \A j \in Ids \ {i} : run'[j] = run[j]
          BY <1>1, <2>6, GoroutinesTyped
      <4> HIDE DEF Starting
      <4> TAKE d \in Calls
      <4> HAVE Starting(run'[d])
      <4>3. run'[run'[d].id].pc = "idle"
          BY <4>1, <4>2 DEF RunInv, ListenInv
      <4>4. ASSUME NEW e \in Calls, Starting(run'[e]), run'[e].id = run'[d].id PROVE e = d
        <5>1. Starting(run[e]) /\ Starting(run[d]) /\ run[e].id = run[d].id
            BY <4>1, <4>4
        <5> QED BY <5>1 DEF RunInv, ListenInv
      <4> QED BY <4>3, <4>4
    <3> QED BY <3>1, <3>2, <3>3 DEF ListenInv, Acted, OfAction, Starting
  <2> QED BY <2>7, <2>9, <2>11, <2>12 DEF RunInv
<1> QED
    BY <1>5, <1>6 DEF keepInfo, acts

(* What the answer of GetDriver leads to.                                  *)
LEMMA WithDriverTyped ==
    ASSUME NEW g, NEW q, Shape(g, q), q.pc \in {"getDriver", "send"}, q.op \notin Loops \cup {"none"},
           NEW r \in Frames, r.op = q.op, r.sender = q.sender, r.type = q.type, r.name = q.name,
           r.id = q.id, r.sends = {}, NEW found, NEW f, f = WithDriver(g, r, found)
    PROVE  /\ f \in Frames /\ Shape(g, f) /\ f.sends = {}
           /\ ~Sending(f) /\ ~Reading(f) /\ (Updating(f) <=> q.op = "List")
           /\ ~Starting(f) /\ (OfAction(f) => OfAction(q) /\ f.id = q.id)
<1> DEFINE On(p) == [r EXCEPT !.pc = p, !.claim = FALSE]
<1>1. ASSUME NEW p \in Pcs
      PROVE  /\ On(p) \in Frames /\ On(p).pc = p /\ On(p).op = r.op /\ On(p).sender = r.sender
             /\ On(p).type = r.type /\ On(p).name = r.name /\ On(p).id = r.id /\ On(p).sends = {}
    BY Zenon DEF Frames
<1>2. \/ f = On("genId") /\ r.op = "EnrollStart"
      \/ f = On("stop") /\ r.op \in {"EnrollStop", "listen"}
      \/ f = On("release") /\ r.op = "listen"
      \/ f = On("delete") /\ r.op = "Delete"
      \/ f = On("unlockInfos") /\ r.op = "List"
      \/ f = Frame /\ r.op # "List"
    BY Zenon DEF WithDriver
<1>3. {"genId", "stop", "release", "delete", "unlockInfos"} \subseteq Pcs
    BY DEF Pcs
<1> HIDE DEF On
<1>4. CASE f = Frame /\ r.op # "List"
  <2>1. Frame.op = "none" /\ Frame.pc = "idle" /\ Frame.sends = {}
      BY DEF Frame
  <2> HIDE DEF Frame
  <2> QED BY <1>4, <2>1, FrameTyped DEF Sending, Reading, Updating, Starting, OfAction
<1>5. CASE /\ f \in Frames /\ f.op = r.op /\ f.sender = r.sender /\ f.type = r.type /\ f.name = r.name
           /\ f.id = r.id /\ f.sends = {}
           /\ \/ f.pc = "genId" /\ r.op = "EnrollStart"
              \/ f.pc = "stop" /\ r.op \in {"EnrollStop", "listen"}
              \/ f.pc = "release" /\ r.op = "listen"
              \/ f.pc = "delete" /\ r.op = "Delete"
              \/ f.pc = "unlockInfos" /\ r.op = "List"
  <2>1. Shape(g, f)
      BY <1>5 DEF Shape, Place, OpsOf, OfAction
  <2>2. ~Sending(f) /\ ~Reading(f) /\ (Updating(f) <=> q.op = "List")
      BY <1>5 DEF Sending, Reading, Updating
  <2>3. ~Starting(f) /\ (OfAction(f) => OfAction(q) /\ f.id = q.id)
      BY <1>5 DEF Starting, OfAction
  <2> QED BY <1>5, <2>1, <2>2, <2>3
<1> QED
    BY <1>1, <1>2, <1>3, <1>4, <1>5

LEMMA getDriverMoves ==
    ASSUME RunInv, DataInv, NEW g \in Goroutines, getDriver(g)
    PROVE  RunInv'
<1>1. g \in Goroutines
    OBVIOUS
<1>2. run[g] \in Frames /\ Shape(g, run[g]) /\ run[g].op \in {"EnrollStart", "EnrollStop", "Delete", "List", "listen"} /\ run[g].pc = "getDriver"
    BY <1>1, AtCall DEF RunInv, getDriver, At
<1>3. ~Sending(run[g]) /\ ~Reading(run[g]) /\ (Updating(run[g]) <=> run[g].op = "List") /\ run[g].sends = {}
    BY <1>1, <1>2, AtCall DEF RunInv, Updating
<1>4. UNCHANGED <<registered, action, closed, panicked, lock, infoMu>>
    BY DEF getDriver, store, acts
<1> DEFINE busy == driver.enrolling # None
           r == [run[g] EXCEPT !.claim = busy]
<1>9. busy \in BOOLEAN
    OBVIOUS
<1>6. \/ run' = [run EXCEPT ![g] = WithDriver(g, r, FALSE)]
      \/ run' = [run EXCEPT ![g] = [r EXCEPT !.pc = "changeList", !.from = driverType,
                                             !.into = driver.offers]]
      \/ run' = [run EXCEPT ![g] = WithDriver(g, r, r.type \in driverType)]
    BY Zenon DEF getDriver
<1> HIDE DEF busy
<1>5. /\ r \in Frames /\ r.op = run[g].op /\ r.sender = run[g].sender /\ r.type = run[g].type
      /\ r.name = run[g].name /\ r.id = run[g].id /\ r.sends = {} /\ r.pc = "getDriver"
    BY <1>2, <1>3, <1>9 DEF Frames
<1> HIDE DEF r
<1>7. ASSUME NEW found, run' = [run EXCEPT ![g] = WithDriver(g, r, found)] PROVE RunInv'
  <2> DEFINE f == WithDriver(g, r, found)
  <2>1. /\ f \in Frames /\ Shape(g, f) /\ f.sends = {}
        /\ ~Sending(f) /\ ~Reading(f) /\ (Updating(f) <=> run[g].op = "List")
        /\ ~Starting(f) /\ (OfAction(f) => OfAction(run[g]) /\ f.id = run[g].id)
      BY <1>2, <1>5, WithDriverTyped DEF Loops
  <2> HIDE DEF f
  <2>2. Same(run[g], f)
      BY <1>3, <2>1 DEF Same
  <2>3. ActMoves(g, f)
      BY <1>1, <1>2, <2>1 DEF ActMoves, RunInv, ListenInv
  <2>4. run' = [run EXCEPT ![g] = f]
      BY <1>7 DEF f
  <2> QED
      BY <1>1, <1>4, <2>1, <2>2, <2>3, <2>4, LocksKept, Moves, Zenon DEF RunInv
<1>8. CASE run' = [run EXCEPT ![g] = [r EXCEPT !.pc = "changeList", !.from = driverType, !.into = driver.offers]]
  <2> DEFINE f == [r EXCEPT !.pc = "changeList", !.from = driverType, !.into = driver.offers]
  <2>1. "changeList" \in Pcs
      BY DEF Pcs, InChange
  <2>2. driverType \subseteq Types /\ driver.offers \subseteq Types
      BY DEF DataInv
  <2>3. /\ f \in Frames /\ f.op = run[g].op /\ f.sender = run[g].sender /\ f.type = run[g].type
        /\ f.name = run[g].name /\ f.id = run[g].id /\ f.sends = {} /\ f.pc = "changeList"
      BY <1>5, <2>1, <2>2, Zenon DEF Frames
  <2>4. run' = [run EXCEPT ![g] = f]
      BY <1>8
  <2> HIDE DEF f
  <2>5. Shape(g, f)
      BY <1>2, <2>3 DEF Shape, Place, InChange
  <2>6. Same(run[g], f)
      BY <1>2, <1>3, <2>3 DEF Same, Sending, Reading, Updating, Loops
  <2>7. ActMoves(g, f)
      BY <1>1, <1>2, <2>3 DEF ActMoves, OfAction, Starting, RunInv, ListenInv
  <2> QED
      BY <1>1, <1>4, <2>3, <2>4, <2>5, <2>6, <2>7, LocksKept, Moves, Zenon DEF RunInv
<1> QED
    BY <1>6, <1>7, <1>8, Zenon

LEMMA lockInfosMoves ==
    ASSUME RunInv, NEW c \in Calls, lockInfos(c)
    PROVE  RunInv'
<1>1. c \in Goroutines
    BY GoroutinesTyped
<1>2. run[c] \in Frames /\ Shape(c, run[c]) /\ run[c].op = "List" /\ run[c].pc = "lockInfos"
    BY <1>1, AtCall DEF RunInv, lockInfos, At
<1>3. ~Sending(run[c]) /\ ~Reading(run[c]) /\ ~Updating(run[c]) /\ run[c].sends = {}
    BY <1>1, <1>2, AtCall DEF RunInv, Updating
<1>4. UNCHANGED <<registered, action, closed, panicked, lock>> /\ infoMu = None /\ infoMu' = c
    BY DEF lockInfos, acts
<1> DEFINE f == [run[c] EXCEPT !.pc = "getDriver"]
<1>5. "getDriver" \in Pcs
    BY DEF Pcs
<1>6. /\ f \in Frames /\ f.pc = "getDriver" /\ f.op = "List" /\ f.sender = run[c].sender
      /\ f.type = run[c].type /\ f.sends = {}
    BY <1>2, <1>3, <1>5, GotoFrame
<1> HIDE DEF f
<1>7. Shape(c, f)
    BY <1>2, <1>6 DEF Shape, Place
<1>8. LockMoves(c, f)
    BY <1>3, <1>4, <1>6, GoroutinesTyped DEF LockMoves, Sending, Reading, Updating, lock, RunInv, LockInv
<1> QED
    BY <1>1, <1>2, <1>3, <1>4, <1>5, <1>6, <1>7, <1>8, Goes, Zenon DEF f, lockInfos, OfAction, Starting

LEMMA unlockInfosMoves ==
    ASSUME RunInv, NEW c \in Calls, unlockInfos(c)
    PROVE  RunInv'
<1>1. c \in Goroutines
    BY GoroutinesTyped
<1>2. run[c] \in Frames /\ Shape(c, run[c]) /\ run[c].op = "List" /\ run[c].pc = "unlockInfos"
    BY <1>1, AtCall DEF RunInv, unlockInfos, At
<1>3. ~Sending(run[c]) /\ ~Reading(run[c]) /\ Updating(run[c])
    BY <1>2 DEF Sending, Reading, Updating
<1>4. UNCHANGED <<registered, action, closed, panicked, lock>> /\ infoMu' = None
    BY DEF unlockInfos, acts
<1>5. Frame.op = "none" /\ Frame.pc = "idle"
    BY DEF Frame
<1> HIDE DEF Frame
<1>6. LockMoves(c, Frame)
    BY <1>1, <1>3, <1>4, <1>5 DEF LockMoves, Sending, Reading, Updating, lock, RunInv, LockInv
<1> QED
    BY <1>1, <1>4, <1>6, Returns DEF unlockInfos

LEMMA receiveMoves ==
    ASSUME RunInv, DataInv, NEW i \in Ids, receive(i)
    PROVE  RunInv'
<1>1. i \in Goroutines
    BY GoroutinesTyped
<1>2. run[i] \in Frames /\ Shape(i, run[i]) /\ run[i].op = "listen" /\ run[i].pc = "receive"
    BY <1>1, AtCall DEF RunInv, receive, At
<1>3. ~Sending(run[i]) /\ ~Reading(run[i]) /\ ~Updating(run[i]) /\ run[i].sends = {}
    BY <1>1, <1>2, AtCall DEF RunInv, Updating
<1>4. UNCHANGED <<registered, action, closed, panicked, lock, infoMu>>
    BY DEF receive, store, acts
<1>5. CASE Return(i)
    BY <1>1, <1>3, <1>4, <1>5, LocksReturned, Returns
<1>7. chan[i] # <<>> => Head(chan[i]) \in Codes
  <2>1. chan[i] \in Seq(Codes)
      BY DEF DataInv
  <2> QED BY <2>1
<1>6. CASE chan[i] # <<>> /\ run' = [run EXCEPT ![i].pc = "look", ![i].code = Head(chan[i])]
  <2> DEFINE f == [run[i] EXCEPT !.pc = "look", !.code = Head(chan[i])]
  <2>1. "look" \in Pcs
      BY DEF Pcs
  <2>2. f \in Frames /\ f.pc = "look" /\ f.op = run[i].op /\ f.sender = run[i].sender
        /\ f.type = run[i].type /\ f.id = run[i].id /\ f.sends = {}
      BY <1>2, <1>3, <1>6, <1>7, <2>1, Zenon DEF Frames
  <2>3. run' = [run EXCEPT ![i] = f]
      BY <1>6, Zenon
  <2> HIDE DEF f
  <2>4. Shape(i, f)
      BY <1>2, <1>7, <2>2 DEF Shape, Place, InChange
  <2>5. Same(run[i], f)
      BY <1>2, <1>3, <2>2 DEF Same, Sending, Reading, Updating
  <2>6. ActMoves(i, f)
      BY <1>1, <1>2, <1>7, <2>2 DEF ActMoves, OfAction, Starting, Acted, RunInv, ListenInv
  <2> QED
      BY <1>1, <1>4, <2>2, <2>3, <2>4, <2>5, <2>6, LocksKept, Moves, Zenon DEF RunInv
<1> QED
    BY <1>5, <1>6 DEF receive

LEMMA lookMoves ==
    ASSUME RunInv, NEW i \in Ids, look(i)
    PROVE  RunInv'
<1>1. i \in Goroutines
    BY GoroutinesTyped
<1>2. run[i] \in Frames /\ Shape(i, run[i]) /\ run[i].op = "listen" /\ run[i].pc = "look"
    BY <1>1, AtCall DEF RunInv, look, At
<1>3. ~Sending(run[i]) /\ ~Reading(run[i]) /\ ~Updating(run[i]) /\ run[i].sends = {}
    BY <1>1, <1>2, AtCall DEF RunInv, Updating
<1>4. UNCHANGED <<registered, action, closed, panicked, lock, infoMu>>
    BY DEF look, store, acts
<1>5. CASE Return(i)
    BY <1>1, <1>3, <1>4, <1>5, LocksReturned, Returns
<1>6. CASE run' = [run EXCEPT ![i].pc = next(i)[1], ![i].code = next(i)[2]]
  <2> DEFINE p == next(i)[1]
             k == next(i)[2]
             f == [run[i] EXCEPT !.pc = p, !.code = k]
  <2>1. p \in {"getDriver", "release", "receive"} /\ p \in Pcs /\ k \in Codes
    <3>1. run[i].code \in Codes
        BY <1>2 DEF Frames
    <3>2. next(i) \in {<<"getDriver", run[i].code>>, <<"release", run[i].code>>, <<"receive", "Invalid">>}
        BY DEF next
    <3> QED BY <3>1, <3>2, CodesTyped DEF Pcs
  <2>2. run' = [run EXCEPT ![i] = f]
      BY <1>6, Zenon
  <2> HIDE DEF p, k
  <2>3. f \in Frames /\ f.pc = p /\ f.op = "listen" /\ f.type = run[i].type /\ f.id = run[i].id /\ f.sends = {}
      BY <1>2, <1>3, <2>1, Zenon DEF Frames
  <2> HIDE DEF f
  <2>4. Shape(i, f)
      BY <1>2, <2>1, <2>3 DEF Shape, Place, OpsOf
  <2>5. Same(run[i], f)
      BY <1>2, <1>3, <2>1, <2>3 DEF Same, Sending, Reading, Updating
  <2>6. ActMoves(i, f)
      BY <1>1, <1>2, <2>1, <2>3 DEF ActMoves, OfAction, Starting, RunInv, ListenInv
  <2> QED
      BY <1>1, <1>4, <2>2, <2>3, <2>4, <2>5, <2>6, LocksKept, Moves, Zenon DEF RunInv
<1> QED
    BY <1>5, <1>6 DEF look

-----------------------------------------------------------------------------
(* A loop that is idle takes the frame f.                                  *)
LEMMA LoopStarts ==
    ASSUME RunInv, NEW g \in {"signals", "names"}, At(g, "idle"), NEW f \in Frames, Shape(g, f),
           run' = [run EXCEPT ![g] = f],
           UNCHANGED <<registered, action, closed, panicked, readers, infoMu>>,
           ~Reading(f), ~Updating(f), Sending(f) => CanWrite /\ mu' = g, ~Sending(f) => UNCHANGED mu,
           OfAction(f) => Acted(f.id), \A m \in f.sends : m[1] \in registered
    PROVE  RunInv'
<1>1. g \in Goroutines /\ g \notin Ids /\ g \notin Calls
    BY GoroutinesTyped
<1>2. ~Sending(run[g]) /\ ~Reading(run[g]) /\ ~Updating(run[g])
  <2>1. run[g].op = "none" /\ run[g].pc = "idle"
      BY <1>1, AtCall DEF RunInv, At
  <2> QED BY <2>1 DEF Sending, Reading, Updating
<1>3. LockMoves(g, f)
    BY <1>1, <1>2 DEF LockMoves, RunInv, LockInv
<1>4. ~Starting(f)
    BY <1>1, GoroutinesTyped DEF Shape, OpsOf, Starting
<1>5. ActMoves(g, f)
    BY <1>1, <1>4 DEF ActMoves
<1> QED
    BY <1>1, <1>3, <1>5, Moves, Zenon DEF RunInv

LEMMA HeadTyped ==
    ASSUME DataInv, signals # <<>>
    PROVE  Head(signals) \in Signals /\ Tail(signals) \in Seq(Signals)
    BY DEF DataInv

LEMMA takeStatusMoves ==
    ASSUME RunInv, DataInv, takeStatus
    PROVE  RunInv'
<1> DEFINE h == Head(signals)
           f == [Frame EXCEPT !.op = "status", !.pc = "send", !.id = h.id, !.code = h.code,
                              !.sends = {<<h.id, h.code>>}]
<1>1. h.id \in Ids /\ h.code \in Codes /\ At("signals", "idle") /\ CanWrite
  <2>1. h \in Signals /\ h.kind = "status"
      BY HeadTyped DEF takeStatus
  <2> HIDE DEF h
  <2>2. h.id \in Ids /\ h.code \in Codes
      BY <2>1 DEF Signals
  <2>3. At("signals", "idle") /\ CanWrite
      BY DEF takeStatus
  <2> QED BY <2>2, <2>3
<1>2. UNCHANGED <<registered, action, closed, panicked, readers, infoMu>>
    BY DEF takeStatus, store, acts
<1>3. \/ UNCHANGED <<mu, run>>
      \/ h.id \in registered /\ mu' = "signals" /\ run' = [run EXCEPT !["signals"] = f]
    BY DEF takeStatus
<1>4. CASE UNCHANGED <<mu, run>>
    BY <1>2, <1>4 DEF RunInv, FrameInv, LockInv, ActInv, ListenInv, Acted
<1>5. CASE h.id \in registered /\ mu' = "signals" /\ run' = [run EXCEPT !["signals"] = f]
  <2> HIDE DEF h
  <2>1. /\ f \in Frames /\ f.op = "status" /\ f.pc = "send" /\ f.id = h.id /\ f.sends = {<<h.id, h.code>>}
        /\ f.from = {} /\ f.into = {}
    <3>1. "send" \in Pcs /\ "status" \in Ops
        BY DEF Pcs, Ops, InChange
    <3>2. Frame \in Frames /\ Frame.from = {} /\ Frame.into = {}
        BY FrameTyped DEF Frame
    <3>3. <<h.id, h.code>> \in Ids \X Codes
        BY <1>1
    <3> HIDE DEF Frame
    <3> DEFINE x == {<<h.id, h.code>>}
    <3>4. x \in SUBSET (Ids \X Codes)
        BY <3>3
    <3> HIDE DEF x
    <3>5. f = [Frame EXCEPT !.op = "status", !.pc = "send", !.id = h.id, !.code = h.code, !.sends = x]
        BY DEF x
    <3> HIDE DEF f
    <3>6. /\ f \in Frames /\ f.op = "status" /\ f.pc = "send" /\ f.id = h.id /\ f.sends = x
          /\ f.from = {} /\ f.into = {}
        BY <1>1, <3>1, <3>2, <3>4, <3>5, Zenon DEF Frames
    <3> QED BY <3>6 DEF x
  <2> HIDE DEF f
  <2>2. Shape("signals", f) /\ Sending(f) /\ ~Reading(f) /\ ~Updating(f)
      BY <1>1, <2>1, GoroutinesTyped DEF Shape, Place, OpsOf, Sending, Reading, Updating, Loops, Goroutines, InChange
  <2>3. Acted(f.id)
      BY <1>5, <2>1 DEF RunInv, ActInv
  <2>4. \A m \in f.sends : m[1] \in registered
      BY <1>5, <2>1
  <2> QED BY <1>1, <1>2, <1>5, <2>1, <2>2, <2>3, <2>4, LoopStarts, Zenon
<1> QED BY <1>3, <1>4, <1>5

LEMMA takeTypesMoves ==
    ASSUME RunInv, DataInv, takeTypes
    PROVE  RunInv'
<1> DEFINE new == Head(signals).types
           f == [Frame EXCEPT !.op = "types", !.pc = "changeList", !.from = driverType, !.into = new]
<1>1. new \subseteq Types /\ driverType \subseteq Types
  <2>1. Head(signals) \in Signals /\ Head(signals).kind = "types"
      BY HeadTyped DEF takeTypes
  <2>2. new \subseteq Types
      BY <2>1 DEF Signals
  <2> QED BY <2>2 DEF DataInv
<1>2. UNCHANGED <<registered, action, closed, panicked, mu, readers, infoMu>> /\ At("signals", "idle")
    BY DEF takeTypes, store, acts, lock
<1>3. UNCHANGED run \/ run' = [run EXCEPT !["signals"] = f]
    BY DEF takeTypes
<1>4. CASE UNCHANGED run
    BY <1>2, <1>4 DEF RunInv, FrameInv, LockInv, ActInv, ListenInv, Acted
<1>5. CASE run' = [run EXCEPT !["signals"] = f]
  <2> HIDE DEF new
  <2>1. f \in Frames /\ f.op = "types" /\ f.pc = "changeList" /\ f.sends = {}
    <3>1. "changeList" \in Pcs /\ "types" \in Ops
        BY DEF Pcs, Ops, InChange
    <3>2. Frame \in Frames /\ Frame.sends = {}
        BY FrameTyped DEF Frame
    <3> HIDE DEF Frame
    <3> QED BY <1>1, <3>1, <3>2, Zenon DEF Frames
  <2> HIDE DEF f
  <2>2. Shape("signals", f) /\ ~Sending(f) /\ ~Reading(f) /\ ~Updating(f) /\ ~OfAction(f)
      BY <2>1, GoroutinesTyped DEF Shape, Place, OpsOf, OfAction, Sending, Reading, Updating, InChange
  <2> QED BY <1>2, <1>5, <2>1, <2>2, LoopStarts, Zenon
<1> QED BY <1>3, <1>4, <1>5

LEMMA takeLostMoves ==
    ASSUME RunInv, takeLost
    PROVE  RunInv'
<1>1. PICK n \in lost : run' = [run EXCEPT !["names"] = [Frame EXCEPT !.op = "names", !.pc = "send", !.sends =
                {<<i, LostCode[action[i].type]>> : i \in {j \in registered : action[j].sender = n}}
                \cup {<<i, GoneCode[action[i].type]>> : i \in {j \in registered : n = Driver}}]]
    BY Zenon DEF takeLost
<1> DEFINE x == {<<i, LostCode[action[i].type]>> : i \in {j \in registered : action[j].sender = n}}
                \cup {<<i, GoneCode[action[i].type]>> : i \in {j \in registered : n = Driver}}
           f == [Frame EXCEPT !.op = "names", !.pc = "send", !.sends = x]
<1>2. run' = [run EXCEPT !["names"] = f]
    BY <1>1
<1>3. x \in SUBSET (Ids \X Codes) /\ \A m \in x : m[1] \in registered
  <2>1. \A i \in registered : i \in Ids /\ LostCode[action[i].type] \in Codes /\ GoneCode[action[i].type] \in Codes
      BY CodesTyped DEF RunInv, ActInv, Acted
  <2> QED BY <2>1
<1> HIDE DEF x
<1>4. f \in Frames /\ f.op = "names" /\ f.pc = "send" /\ f.sends = x
  <2>1. "send" \in Pcs /\ "names" \in Ops
      BY DEF Pcs, Ops, InChange
  <2>2. Frame \in Frames
      BY FrameTyped
  <2> HIDE DEF Frame
  <2> QED BY <1>3, <2>1, <2>2, Zenon DEF Frames
<1> HIDE DEF f
<1>5. Shape("names", f) /\ Sending(f) /\ ~Reading(f) /\ ~Updating(f) /\ ~OfAction(f)
    BY <1>4, GoroutinesTyped DEF Shape, Place, OpsOf, OfAction, Sending, Reading, Updating, Loops, Goroutines,
                                 InChange
<1>6. UNCHANGED <<registered, action, closed, panicked, readers, infoMu>> /\ At("names", "idle") /\ CanWrite
      /\ mu' = "names"
    BY DEF takeLost, store, acts
<1> QED
    BY <1>2, <1>3, <1>4, <1>5, <1>6, LoopStarts, Zenon

-----------------------------------------------------------------------------
(* A change of the driver's types.                                         *)
Changing(r) == r.op \in {"EnrollStart", "EnrollStop", "Delete", "List", "listen", "types"}

LEMMA AtChange ==
    ASSUME FrameInv, NEW g \in Goroutines, run[g].pc \in InChange
    PROVE  /\ run[g] \in Frames /\ Shape(g, run[g]) /\ run[g].op \in Ops
           /\ run[g].pc = "send" \/ Changing(run[g])
           /\ run[g].pc = "send" => Sending(run[g]) \/ Changing(run[g])
           /\ run[g].pc # "send" => ~Sending(run[g]) /\ ~Reading(run[g]) /\ run[g].sends = {}
           /\ run[g].op \in {"none", "status", "names"} => ~Changing(run[g])
           /\ run[g].op \in {"EnrollStart", "EnrollStop", "Delete", "List"} => g \in Calls
           /\ run[g].from \subseteq Types /\ run[g].into \subseteq Types
           /\ run[g].sends \in SUBSET (Ids \X Codes)
    BY DEF FrameInv, Frames, Shape, Place, InChange, OpsOf, Sending, Reading, Changing, Loops

(* A change goes on to its next part with the sends x.                     *)
LEMMA ChangeShape ==
    ASSUME NEW g, NEW r, Shape(g, r), r.pc \in InChange, Changing(r),
           NEW f, f.op = r.op, f.sender = r.sender, f.type = r.type, f.name = r.name, f.id = r.id,
           f.into = r.into, f.from = r.from, f.pc \in InChange,
           r.op = "List" /\ f.pc \in {"changeActions", "send"} => r.into \subseteq r.from,
           f.pc = "changeInfos" => ~(r.into \subseteq r.from),
           f.sends # {} => f.pc = "send" /\ ~(r.from \subseteq r.into)
    PROVE  Shape(g, f) /\ ~Sending(f) /\ ~Starting(f) /\ (OfAction(f) => OfAction(r))
<1>1. f.op \notin Loops
    BY DEF Changing, Loops
<1>2. Place(f) /\ f.op \in OpsOf(g)
    BY DEF Shape, Place, InChange, Changing
<1>3. f.sends # {} => Reading(f)
    BY <1>1 DEF Reading
<1>4. Shape(g, f)
    BY <1>2, <1>3 DEF Shape, InChange, Changing
<1> QED
    BY <1>1, <1>4 DEF Sending, Starting, OfAction, InChange

LEMMA changeListMoves ==
    ASSUME RunInv, DataInv, NEW g \in Goroutines, changeList(g)
    PROVE  RunInv'
<1>1. run[g].pc = "changeList" /\ run[g].pc \in InChange
    BY DEF changeList, At, InChange
<1>2. /\ run[g] \in Frames /\ Shape(g, run[g]) /\ Changing(run[g])
      /\ ~Sending(run[g]) /\ ~Reading(run[g]) /\ run[g].sends = {}
    BY <1>1, AtChange DEF RunInv
<1>3. Updating(run[g]) <=> run[g].op = "List"
    BY <1>1 DEF Updating
<1>4. UNCHANGED <<registered, action, closed, panicked, lock, infoMu>>
    BY DEF changeList, store, acts
<1>5. CASE run[g].into \subseteq run[g].from /\ Goto(g, "changeActions")
  <2> DEFINE f == [run[g] EXCEPT !.pc = "changeActions"]
  <2>1. "changeActions" \in Pcs /\ "changeActions" \in InChange
      BY DEF Pcs, InChange
  <2>2. /\ f \in Frames /\ f.pc = "changeActions" /\ f.op = run[g].op /\ f.sender = run[g].sender
        /\ f.type = run[g].type /\ f.name = run[g].name /\ f.id = run[g].id /\ f.sends = {}
        /\ f.from = run[g].from /\ f.into = run[g].into
      BY <1>2, <2>1, GotoFrame
  <2>3. run' = [run EXCEPT ![g] = f]
      BY <1>5 DEF Goto
  <2> HIDE DEF f
  <2>4. Shape(g, f) /\ ~Sending(f) /\ ~Starting(f) /\ (OfAction(f) => OfAction(run[g]))
      BY <1>1, <1>2, <1>5, <2>1, <2>2, ChangeShape
  <2>5. Same(run[g], f)
      BY <1>2, <1>3, <1>5, <2>2, <2>4 DEF Same, Reading, Updating
  <2>6. ActMoves(g, f)
      BY <1>1, <2>2, <2>4 DEF ActMoves, RunInv, ListenInv
  <2> QED
      BY <1>4, <2>2, <2>3, <2>4, <2>5, <2>6, LocksKept, Moves, Zenon DEF RunInv
<1>6. CASE ~(run[g].into \subseteq run[g].from)
           /\ run' = [run EXCEPT ![g].pc = "changeInfos", ![g].list = driver.stored]
  <2> DEFINE f == [run[g] EXCEPT !.pc = "changeInfos", !.list = driver.stored]
  <2>1. "changeInfos" \in Pcs /\ "changeInfos" \in InChange /\ driver.stored \in SUBSET Ids
      BY DEF Pcs, InChange, DataInv
  <2>2. /\ f \in Frames /\ f.pc = "changeInfos" /\ f.op = run[g].op /\ f.sender = run[g].sender
        /\ f.type = run[g].type /\ f.name = run[g].name /\ f.id = run[g].id /\ f.sends = {}
        /\ f.from = run[g].from /\ f.into = run[g].into
      BY <1>2, <2>1, Zenon DEF Frames
  <2>3. run' = [run EXCEPT ![g] = f]
      BY <1>6, Zenon
  <2> HIDE DEF f
  <2>4. Shape(g, f) /\ ~Sending(f) /\ ~Starting(f) /\ (OfAction(f) => OfAction(run[g]))
      BY <1>1, <1>2, <1>6, <2>1, <2>2, ChangeShape
  <2>5. Same(run[g], f)
      BY <1>2, <1>3, <2>2, <2>4 DEF Same, Reading, Updating
  <2>6. ActMoves(g, f)
      BY <1>1, <2>2, <2>4 DEF ActMoves, RunInv, ListenInv
  <2> QED
      BY <1>4, <2>2, <2>3, <2>4, <2>5, <2>6, LocksKept, Moves, Zenon DEF RunInv
<1> QED
    BY <1>5, <1>6 DEF changeList

LEMMA changeInfosMoves ==
    ASSUME RunInv, NEW g \in Goroutines, changeInfos(g)
    PROVE  RunInv'
<1>1. run[g].pc = "changeInfos" /\ run[g].pc \in InChange
    BY DEF changeInfos, At, InChange
<1>2. /\ run[g] \in Frames /\ Shape(g, run[g]) /\ Changing(run[g])
      /\ ~Sending(run[g]) /\ ~Reading(run[g]) /\ run[g].sends = {}
    BY <1>1, AtChange DEF RunInv
<1>3. infoMu = None /\ infoMu' = g /\ UNCHANGED <<registered, action, closed, panicked, lock>>
    BY DEF changeInfos, acts
<1>4. ~Updating(run[g]) /\ run[g].op # "List" /\ ~(run[g].into \subseteq run[g].from)
    BY <1>1, <1>2, <1>3, GoroutinesTyped DEF RunInv, LockInv, Updating, Shape
<1> DEFINE f == [run[g] EXCEPT !.pc = "changeActions"]
<1>5. "changeActions" \in Pcs /\ "changeActions" \in InChange
    BY DEF Pcs, InChange
<1>6. /\ f \in Frames /\ f.pc = "changeActions" /\ f.op = run[g].op /\ f.sender = run[g].sender
      /\ f.type = run[g].type /\ f.name = run[g].name /\ f.id = run[g].id /\ f.sends = {}
      /\ f.from = run[g].from /\ f.into = run[g].into
    BY <1>2, <1>5, GotoFrame
<1>7. run' = [run EXCEPT ![g] = f]
    BY DEF changeInfos, Goto
<1> HIDE DEF f
<1>8. Shape(g, f) /\ ~Sending(f) /\ ~Starting(f) /\ (OfAction(f) => OfAction(run[g]))
    BY <1>1, <1>2, <1>4, <1>5, <1>6, ChangeShape
<1>9. ~Reading(f) /\ Updating(f)
    BY <1>2, <1>4, <1>6 DEF Reading, Updating, Changing, Loops
<1>10. LockMoves(g, f)
    BY <1>2, <1>3, <1>4, <1>8, <1>9 DEF LockMoves, lock, RunInv, LockInv
<1>11. ActMoves(g, f)
    BY <1>1, <1>6, <1>8 DEF ActMoves, RunInv, ListenInv
<1> QED
    BY <1>3, <1>6, <1>7, <1>8, <1>10, <1>11, Moves, Zenon DEF RunInv

LEMMA changeActionsMoves ==
    ASSUME RunInv, NEW g \in Goroutines, changeActions(g)
    PROVE  RunInv'
<1> DEFINE left == run[g].from \ run[g].into
           hit == {i \in registered : action[i].type \in left}
           x == {<<i, "FaceGone">> : i \in hit}
           f == [run[g] EXCEPT !.pc = "send", !.sends = x]
<1>1. run[g].pc = "changeActions" /\ run[g].pc \in InChange
    BY DEF changeActions, At, InChange
<1>2. /\ run[g] \in Frames /\ Shape(g, run[g]) /\ Changing(run[g])
      /\ ~Sending(run[g]) /\ ~Reading(run[g]) /\ run[g].sends = {}
    BY <1>1, AtChange DEF RunInv
<1>3. UNCHANGED <<registered, action, closed, panicked, mu, infoMu>>
      /\ (left # {} => CanRead) /\ readers' = IF left = {} THEN readers ELSE readers \cup {g}
    BY DEF changeActions, acts
<1>4. run' = [run EXCEPT ![g] = f]
    BY Zenon DEF changeActions
<1>5. x \in SUBSET (Ids \X Codes) /\ (\A m \in x : m[1] \in registered) /\ (left = {} => x = {})
  <2>1. \A i \in registered : i \in Ids
      BY DEF RunInv, ActInv
  <2> QED BY <2>1, CodesTyped
<1>6. left = {} <=> run[g].from \subseteq run[g].into
    OBVIOUS
<1> HIDE DEF left, x
<1>7. "send" \in Pcs /\ "send" \in InChange
    BY DEF Pcs, InChange
<1>8. /\ f \in Frames /\ f.pc = "send" /\ f.op = run[g].op /\ f.sender = run[g].sender
      /\ f.type = run[g].type /\ f.name = run[g].name /\ f.id = run[g].id /\ f.sends = x
      /\ f.from = run[g].from /\ f.into = run[g].into
    BY <1>2, <1>5, <1>7, Zenon DEF Frames
<1> HIDE DEF f
<1>9. run[g].op = "List" => run[g].into \subseteq run[g].from
    BY <1>1, <1>2 DEF Shape
<1>10. Shape(g, f) /\ ~Sending(f) /\ ~Starting(f) /\ (OfAction(f) => OfAction(run[g]))
    BY <1>1, <1>2, <1>5, <1>6, <1>7, <1>8, <1>9, ChangeShape
<1>11. (Reading(f) <=> left # {}) /\ (Updating(f) <=> Updating(run[g]))
    BY <1>1, <1>2, <1>6, <1>8 DEF Reading, Updating, Changing, Loops
<1>12. LockMoves(g, f)
    BY <1>2, <1>3, <1>10, <1>11 DEF LockMoves, RunInv, LockInv
<1>13. ActMoves(g, f)
    BY <1>1, <1>5, <1>8, <1>10 DEF ActMoves, RunInv, ListenInv
<1> QED
    BY <1>3, <1>4, <1>8, <1>10, <1>12, <1>13, Moves, Zenon DEF RunInv

(* What is sent goes to a registered action, whose channel is open.        *)
LEMMA sendMoves ==
    ASSUME RunInv, NEW g \in Goroutines, send(g)
    PROVE  RunInv'
<1>1. PICK m \in run[g].sends : /\ panicked' = (panicked \/ m[1] \in closed)
                                /\ run' = [run EXCEPT ![g].sends = @ \ {m}]
    BY Zenon DEF send
<1>2. run[g].pc = "send" /\ run[g].pc \in InChange
    BY DEF send, At, InChange
<1>3. run[g] \in Frames /\ Shape(g, run[g]) /\ run[g].sends \in SUBSET (Ids \X Codes)
    BY <1>2, AtChange DEF RunInv
<1>4. (\A k \in run[g].sends : k[1] \in registered) /\ m[1] \notin closed /\ ~panicked
    BY <1>1 DEF RunInv, ActInv
<1>5. UNCHANGED <<registered, action, closed, panicked, lock, infoMu>>
    BY <1>1, <1>4, Zenon DEF send, store, RunInv, ActInv
<1> DEFINE x == run[g].sends \ {m}
           f == [run[g] EXCEPT !.sends = x]
<1>6. run' = [run EXCEPT ![g] = f]
    BY <1>1
<1>7. x \in SUBSET (Ids \X Codes) /\ (\A k \in x : k[1] \in registered) /\ (x # {} => run[g].sends # {})
    BY <1>3, <1>4
<1> HIDE DEF x
<1>8. /\ f \in Frames /\ f.pc = "send" /\ f.op = run[g].op /\ f.sender = run[g].sender
      /\ f.type = run[g].type /\ f.name = run[g].name /\ f.newName = run[g].newName
      /\ f.id = run[g].id /\ f.sends = x /\ f.from = run[g].from /\ f.into = run[g].into
    BY <1>2, <1>3, <1>7 DEF Frames
<1> HIDE DEF f
<1>9. Same(run[g], f) /\ (OfAction(f) => OfAction(run[g])) /\ ~Starting(f)
    BY <1>2, <1>8 DEF Same, Sending, Reading, Updating, OfAction, Starting
<1>10. Shape(g, f)
    BY <1>2, <1>3, <1>7, <1>8, <1>9 DEF Shape, Place, Same
<1>11. ActMoves(g, f)
    BY <1>2, <1>7, <1>8, <1>9 DEF ActMoves, RunInv, ListenInv
<1> QED
    BY <1>5, <1>6, <1>8, <1>9, <1>10, <1>11, LocksKept, Moves, Zenon DEF RunInv

LEMMA sentMoves ==
    ASSUME RunInv, NEW g \in Goroutines, sent(g)
    PROVE  RunInv'
<1>1. run[g].pc = "send" /\ run[g].pc \in InChange /\ run[g].op \in Loops
    BY DEF sent, At, InChange, Loops
<1>2. run[g] \in Frames /\ Shape(g, run[g]) /\ Sending(run[g]) /\ ~Reading(run[g]) /\ ~Updating(run[g])
    BY <1>1, AtChange DEF RunInv, Sending, Reading, Updating, Loops
<1>3. UNCHANGED <<registered, closed, panicked, readers, infoMu>> /\ mu' = None
    BY DEF sent, store
<1>4. Frame.op = "none" /\ Frame.pc = "idle" /\ Frame.sends = {}
    BY DEF Frame
<1>5. run' = [run EXCEPT ![g] = Frame]
    BY DEF sent, Return
<1> HIDE DEF Frame
<1>6. FrameInv' /\ run'[g] = Frame /\ \A h \in Goroutines : h # g => run'[h] = run[h]
    BY <1>5, FrameTyped, FrameChanged, Zenon DEF RunInv
<1>7. ~Sending(Frame) /\ ~Reading(Frame) /\ ~Updating(Frame)
    BY <1>4 DEF Sending, Reading, Updating
<1>8. LockMoves(g, Frame)
    BY <1>2, <1>3, <1>7 DEF LockMoves, RunInv, LockInv
<1>9. ActMoves(g, Frame)
    BY <1>1, <1>4 DEF ActMoves, OfAction, Starting
<1>10. /\ action' \in [Ids -> [sender : Senders \cup {None}, type : Types \cup {"none"},
                               name : Names \cup {None}, code : Codes]]
       /\ \A i \in Ids : /\ action'[i].type = action[i].type /\ action'[i].sender = action[i].sender
                         /\ action'[i] = action[i] \/ Acted(i)
  <2>1. ActInv
      BY DEF RunInv
  <2>2. CASE run[g].op = "status"
    <3>1. run[g].id \in Ids /\ Acted(run[g].id) /\ run[g].code \in Codes
      <4>1. run[g].id \in Ids
          BY <1>2, <2>2 DEF Shape
      <4>2. run[g].code \in Codes
          BY <1>2 DEF Frames
      <4>3. OfAction(run[g])
          BY <2>2 DEF OfAction
      <4>4. \A h \in Goroutines : OfAction(run[h]) \/ Starting(run[h]) => Acted(run[h].id)
          BY DEF RunInv, ListenInv
      <4>5. Acted(run[g].id)
          BY <4>3, <4>4, Zenon
      <4> QED BY <4>1, <4>2, <4>5
    <3>2. action' = [action EXCEPT ![run[g].id].code = run[g].code]
        BY <2>2 DEF sent
    <3> QED BY <2>1, <3>1, <3>2 DEF ActInv
  <2>3. CASE run[g].op # "status"
    <3>1. action' = action
        BY <2>3 DEF sent
    <3> QED BY <2>1, <3>1 DEF ActInv
  <2> QED BY <2>2, <2>3
<1>11. ActInv'
  <2>1. ActInv
      BY DEF RunInv
  <2>2. \A h \in Goroutines : run'[h].sends \subseteq run[h].sends
      BY <1>4, <1>6
  <2>3. \A i \in Ids : action'[i] = NoAction \/ (action'[i].type \in Types /\ action'[i].sender \in Senders)
      BY <1>10, <2>1, CharaAssumption DEF ActInv, Acted, NoAction
  <2> QED BY <1>3, <1>10, <2>1, <2>2, <2>3 DEF ActInv, Acted
<1> QED
    BY <1>6, <1>8, <1>9, <1>10, <1>11, LocksFollow, ListenersFollow DEF RunInv

LEMMA changedMoves ==
    ASSUME RunInv, NEW g \in Goroutines, changed(g)
    PROVE  RunInv'
<1>1. run[g].pc = "send" /\ run[g].pc \in InChange /\ run[g].op \notin Loops /\ run[g].sends = {}
    BY DEF changed, At, InChange, Loops
<1>2. run[g] \in Frames /\ Shape(g, run[g]) /\ Changing(run[g]) /\ ~Sending(run[g])
    BY <1>1, AtChange DEF RunInv, Sending
<1>3. /\ UNCHANGED <<registered, action, closed, panicked, mu>> /\ readers' = readers \ {g}
      /\ infoMu' = IF run[g].into \subseteq run[g].from THEN infoMu ELSE None
    BY DEF changed, acts
<1> DEFINE r == [run[g] EXCEPT !.from = {}, !.into = {}, !.list = {}]
           f == WithDriver(g, r, run[g].type \in run[g].into)
<1>4. run' = [run EXCEPT ![g] = f]
    BY DEF changed
<1>5. /\ r \in Frames /\ r.op = run[g].op /\ r.sender = run[g].sender /\ r.type = run[g].type
      /\ r.name = run[g].name /\ r.id = run[g].id /\ r.sends = {}
    BY <1>1, <1>2, Zenon DEF Frames
<1> HIDE DEF r
<1>6. run[g].pc \in {"getDriver", "send"} /\ run[g].op \notin Loops \cup {"none"}
    BY <1>1, <1>2 DEF Changing
<1>7. /\ f \in Frames /\ Shape(g, f) /\ f.sends = {}
      /\ ~Sending(f) /\ ~Reading(f) /\ (Updating(f) <=> run[g].op = "List")
      /\ ~Starting(f) /\ (OfAction(f) => OfAction(run[g]) /\ f.id = run[g].id)
    BY <1>2, <1>5, <1>6, WithDriverTyped
<1> HIDE DEF f
<1>8. /\ run[g].op = "List" => run[g].into \subseteq run[g].from
      /\ Updating(run[g]) <=> run[g].op = "List" \/ ~(run[g].into \subseteq run[g].from)
    BY <1>1, <1>2 DEF Shape, Updating
<1>9. LockMoves(g, f)
    BY <1>2, <1>3, <1>7, <1>8 DEF LockMoves, RunInv, LockInv
<1>10. ActMoves(g, f)
    BY <1>1, <1>7 DEF ActMoves, RunInv, ListenInv
<1> QED
    BY <1>3, <1>4, <1>7, <1>9, <1>10, Moves, Zenon DEF RunInv

-----------------------------------------------------------------------------
(* The data of the environment and of the channels.                        *)
LEMMA AppendTyped ==
    ASSUME NEW S, NEW s \in Seq(S), NEW e \in S
    PROVE  Append(s, e) \in Seq(S) /\ Len(Append(s, e)) = Len(s) + 1
    BY AppendProperties

LEMMA ListTyped ==
    ASSUME NEW l \in SUBSET Ids
    PROVE  Listed(l) \in Signals
    BY DEF Listed, Signals

(* The driver begins to enroll.                                            *)
Busied(i) == [driver EXCEPT !.enrolling = i, !.regained = @ \cup {j \in {i} : Losing(j)}]

LEMMA DriverKept ==
    ASSUME DataInv, driver' \in [alive : BOOLEAN, offers : SUBSET Types, stored : SUBSET Ids,
                                 enrolling : Ids \cup {None}, regained : SUBSET Ids],
           signals' \in Seq(Signals), driverType' \subseteq Types,
           gone' \subseteq Senders, lost' \subseteq gone' \cup {Driver},
           UNCHANGED <<codeChans, told, saved, misplaced, chan>>
    PROVE  DataInv'
    BY DEF DataInv

LEMMA CallData ==
    ASSUME FrameInv, DataInv, NEW c \in Calls, Begin(c) \/ CallStep(c)
    PROVE  DataInv'
<1>1. c \in Goroutines
    BY GoroutinesTyped
<1>2. CASE UNCHANGED <<data, codeChans, told, saved, misplaced, chan>>
    BY <1>2 DEF DataInv, data
<1>3. CASE start(c)
  <2>1. run[c].id \in Ids
      BY <1>1, <1>3, AtCall DEF start, At, Shape
  <2>2. driver' \in [alive : BOOLEAN, offers : SUBSET Types, stored : SUBSET Ids, enrolling : Ids \cup {None}, regained : SUBSET Ids]
    <3>1. driver' = driver \/ driver' = Busied(run[c].id)
        BY <1>3, Zenon DEF start, Busied
    <3> DEFINE x == driver.regained \cup {j \in {run[c].id} : Losing(j)}
    <3>2. Busied(run[c].id) = [driver EXCEPT !.enrolling = run[c].id, !.regained = x]
        BY DEF Busied, DataInv
    <3>3. x \in SUBSET Ids
        BY <2>1 DEF DataInv
    <3> HIDE DEF x
    <3> QED
        BY <2>1, <3>1, <3>2, <3>3 DEF DataInv
  <2> QED BY <1>3, <2>1, <2>2 DEF start, store, DataInv
<1>4. CASE undo(c)
    BY <1>4, <1>2 DEF undo, store
<1>5. CASE saveInfo(c)
  <2>1. run[c].id \in Ids
      BY <1>1, <1>5, AtCall DEF saveInfo, At, Shape
  <2> QED BY <1>5, <2>1 DEF saveInfo, data, acts, DataInv
<1>6. CASE deleteInDriver(c)
  <2> DEFINE left == driver.stored \ {run[c].id}
  <2>1. CASE UNCHANGED <<driver, signals>>
      BY <1>6, <2>1, <1>2 DEF deleteInDriver, store, acts, data
  <2>2. CASE driver' = [driver EXCEPT !.stored = left] /\ signals' = Append(signals, Listed(left))
    <3>1. left \in SUBSET Ids
        BY DEF DataInv
    <3> HIDE DEF left
    <3>2. signals' \in Seq(Signals)
        BY <2>2, <3>1, AppendTyped, ListTyped DEF DataInv
    <3>3. driver' \in [alive : BOOLEAN, offers : SUBSET Types, stored : SUBSET Ids, enrolling : Ids \cup {None}, regained : SUBSET Ids]
        BY <2>2, <3>1, Zenon DEF DataInv
    <3>4. UNCHANGED <<codeChans, told, saved, misplaced, chan, driverType, gone, lost>>
        BY <1>6 DEF deleteInDriver, store, acts
    <3> QED BY <3>2, <3>3, <3>4, DriverKept DEF DataInv
  <2> QED BY <1>6, <2>1, <2>2 DEF deleteInDriver
<1>7. CASE forget(c)
  <2>1. run[c].id \in Ids
      BY <1>1, <1>7, AtCall DEF forget, At, Shape
  <2>2. misplaced' \subseteq misplaced \cup {run[c].id}
      BY <1>7, Zenon DEF forget
  <2> QED BY <1>7, <2>1, <2>2 DEF forget, data, acts, DataInv
<1> QED
    BY <1>2, <1>3, <1>4, <1>5, <1>6, <1>7, Zenon
       DEF CallStep, Begin, check, checkName, genId, keepInfo, find, checkCode, rename, lookUp,
           lockInfos, unlockInfos, store, acts

LEMMA ListenerData ==
    ASSUME FrameInv, DataInv, NEW i \in Ids, spawned(i) \/ receive(i) \/ look(i)
    PROVE  DataInv'
<1>1. CASE UNCHANGED <<data, codeChans, told, saved, misplaced, chan>>
    BY <1>1 DEF DataInv, data
<1>2. CASE receive(i)
  <2>1. CASE chan[i] # <<>> /\ chan' = [chan EXCEPT ![i] = Tail(@)]
    <3>1. chan[i] \in Seq(Codes) /\ Len(chan[i]) <= Cap
        BY DEF DataInv
    <3>2. Tail(chan[i]) \in Seq(Codes) /\ Len(Tail(chan[i])) <= Cap
      <4>1. Tail(chan[i]) \in Seq(Codes) /\ Len(Tail(chan[i])) = Len(chan[i]) - 1
          BY <2>1, <3>1, HeadTailProperties
      <4>2. Len(chan[i]) \in Nat /\ Cap \in Nat
          BY <3>1, LenProperties, CharaAssumption
      <4> QED BY <3>1, <4>1, <4>2
    <3> QED BY <1>2, <2>1, <3>2 DEF receive, store, acts, data, DataInv
  <2>2. CASE UNCHANGED chan
      BY <1>2, <2>2, <1>1 DEF receive, store, acts
  <2> QED BY <1>2, <2>1, <2>2 DEF receive
<1>3. CASE look(i)
    BY <1>3 DEF look, store, acts, data, DataInv
<1>4. CASE spawned(i)
    BY <1>1, <1>4 DEF spawned, store, acts
<1> QED
    BY <1>2, <1>3, <1>4

LEMMA LoopData ==
    ASSUME DataInv, takeStatus \/ takeList \/ takeTypes \/ takeLost
    PROVE  DataInv'
<1>1. CASE signals # <<>> /\ signals' = Tail(signals)
           /\ UNCHANGED <<driver, lost, gone, codeChans, told, saved, misplaced, chan>> /\ driverType' \subseteq Types
    BY <1>1, HeadTyped, DriverKept DEF DataInv
<1>2. CASE takeStatus
    BY <1>1, <1>2 DEF takeStatus, store, acts, DataInv
<1>3. CASE takeList
    BY <1>1, <1>3 DEF takeList, acts, DataInv
<1>4. CASE takeTypes
  <2>1. Head(signals).types \subseteq Types
      BY <1>4, HeadTyped DEF takeTypes, Signals
  <2> QED BY <1>1, <1>4, <2>1 DEF takeTypes, store, acts
<1>5. CASE takeLost
    BY <1>5, Zenon DEF takeLost, store, acts, DataInv
<1> QED
    BY <1>2, <1>3, <1>4, <1>5

LEMMA SharedData ==
    ASSUME FrameInv, DataInv, NEW g \in Goroutines,
           \/ getDriver(g) \/ stop(g) \/ release(g) \/ changeList(g) \/ changeInfos(g) \/ changeActions(g)
           \/ send(g) \/ sent(g) \/ changed(g)
    PROVE  DataInv'
<1>1. CASE UNCHANGED <<data, codeChans, told, saved, misplaced, chan>>
    BY <1>1 DEF DataInv, data
<1>2. CASE stop(g)
  <2>1. driver' \in [alive : BOOLEAN, offers : SUBSET Types, stored : SUBSET Ids, enrolling : Ids \cup {None}, regained : SUBSET Ids]
      BY <1>2, Zenon DEF stop, DataInv
  <2> QED BY <1>2, <2>1, Zenon DEF stop, store, acts, DataInv
<1>3. CASE release(g)
    BY <1>3 DEF release, store, data, DataInv
<1>4. CASE send(g)
  <2>1. PICK m \in run[g].sends :
          /\ Len(chan[m[1]]) < Cap \/ m[1] \in closed
          /\ chan' = [chan EXCEPT ![m[1]] = IF m[1] \in closed THEN @ ELSE Append(@, m[2])]
      BY <1>4, Zenon DEF send
  <2>2. m[1] \in Ids /\ m[2] \in Codes
    <3>1. run[g].sends \in SUBSET (Ids \X Codes)
        BY DEF FrameInv, Frames
    <3> QED BY <3>1
  <2> DEFINE i == m[1]
             q == IF i \in closed THEN chan[i] ELSE Append(chan[i], m[2])
  <2>3. chan' = [chan EXCEPT ![i] = q]
      BY <2>1
  <2>4. chan[i] \in Seq(Codes) /\ Len(chan[i]) <= Cap /\ Len(chan[i]) \in Nat /\ Cap \in Nat
      BY <2>2, LenProperties, CharaAssumption DEF DataInv
  <2>5. q \in Seq(Codes) /\ Len(q) <= Cap
    <3>1. CASE i \in closed
        BY <2>4, <3>1
    <3>2. CASE i \notin closed
        BY <2>1, <2>2, <2>4, <3>2, AppendTyped
    <3> QED BY <3>1, <3>2
  <2> HIDE DEF i, q
  <2>6. i \in Ids
      BY <2>2 DEF i
  <2>7. chan' \in [Ids -> Seq(Codes)] /\ \A j \in Ids : Len(chan'[j]) <= Cap
      BY <2>3, <2>5, <2>6 DEF DataInv
  <2> QED BY <1>4, <2>7 DEF send, store, data, DataInv
<1>5. CASE changed(g)
  <2>1. run[g].into \subseteq Types
      BY DEF FrameInv, Frames
  <2>2. driverType' \subseteq Types
      BY <1>5, <2>1 DEF changed, DataInv
  <2> QED BY <1>5, <2>2 DEF changed, acts, DataInv
<1> QED
    BY <1>1, <1>2, <1>3, <1>4, <1>5, Zenon
       DEF getDriver, changeList, changeInfos, changeActions, sent, store, acts

LEMMA DriverTyped ==
    ASSUME DataInv
    PROVE  /\ driver.stored \in SUBSET Ids /\ driver.offers \in SUBSET Types
           /\ driver.alive \in BOOLEAN /\ driver.enrolling \in Ids \cup {None}
    BY DEF DataInv

LEMMA OutsideData ==
    ASSUME DataInv, Report \/ ChangeTypes \/ LoseDriver \/ LoseSender
    PROVE  DataInv'
<1> DEFINE Drivers == [alive : BOOLEAN, offers : SUBSET Types, stored : SUBSET Ids, enrolling : Ids \cup {None}, regained : SUBSET Ids]
<1>1. CASE Report
  <2> DEFINE i == driver.enrolling
             Status(k) == [kind |-> "status", id |-> i, code |-> k]
             stored == driver.stored \cup {i}
  <2>7. \/ signals' = Append(signals, [Status("Success") EXCEPT !.code = "Progress"]) /\ UNCHANGED driver
        \/ /\ signals' \in {signals \o <<Status("Success"), Listed(stored)>>,
                           signals \o <<Listed(stored), Status("Success")>>}
           /\ driver' = [driver EXCEPT !.stored = stored]
      BY <1>1, Zenon DEF Report
  <2>8. [Status("Success") EXCEPT !.code = "Progress"] = Status("Progress")
      OBVIOUS
  <2>1. i \in Ids
      BY <1>1, DriverTyped DEF Report
  <2> HIDE DEF i
  <2>2. Status("Progress") \in Signals /\ Status("Success") \in Signals
      BY <2>1, CodesTyped DEF Signals
  <2>3. stored \in SUBSET Ids /\ Listed(stored) \in Signals
      BY <2>1, DriverTyped, ListTyped
  <2>4. UNCHANGED <<driverType, lost, gone, codeChans, told, saved, misplaced, chan>>
      BY <1>1 DEF Report, store, acts
  <2> HIDE DEF Status, stored
  <2>5. CASE signals' = Append(signals, Status("Progress")) /\ UNCHANGED driver
      BY <2>2, <2>4, <2>5, AppendTyped, DriverKept DEF DataInv
  <2>6. CASE signals' \in {signals \o <<Status("Success"), Listed(stored)>>,
                           signals \o <<Listed(stored), Status("Success")>>}
             /\ driver' = [driver EXCEPT !.stored = stored]
    <3>1. <<Status("Success"), Listed(stored)>> \in Seq(Signals)
          /\ <<Listed(stored), Status("Success")>> \in Seq(Signals)
      <4>1. \A a, b \in Signals : <<a, b>> \in Seq(Signals)
          OBVIOUS
      <4> QED BY <2>2, <2>3, <4>1
    <3>2. signals' \in Seq(Signals)
      <4>1. \A q \in Seq(Signals) : signals \o q \in Seq(Signals)
          BY ConcatProperties DEF DataInv
      <4> QED BY <2>6, <3>1, <4>1, Zenon
    <3>3. driver' \in Drivers
        BY <2>3, <2>6, Zenon DEF DataInv
    <3> QED BY <2>4, <3>2, <3>3, DriverKept DEF DataInv
  <2> QED BY <2>5, <2>6, <2>7, <2>8, Zenon
<1>2. CASE ChangeTypes
  <2>1. PICK types \in SUBSET Types :
          /\ driver' = [driver EXCEPT !.offers = types,
                !.enrolling = IF @ # None /\ action[@].type \notin types THEN None ELSE @]
          /\ signals' = Append(signals, [kind |-> "types", types |-> types])
      BY <1>2, Zenon DEF ChangeTypes
  <2>2. driver' \in Drivers
    <3>1. \A e : (IF e # None /\ action[e].type \notin types THEN None ELSE e) \in {e, None}
        OBVIOUS
    <3>2. PICK e \in {driver.enrolling, None} :
             driver' = [driver EXCEPT !.offers = types, !.enrolling = e]
        BY <2>1, <3>1, Zenon
    <3>3. e \in Ids \cup {None}
        BY DriverTyped, <3>2
    <3> QED BY <3>2, <3>3, Zenon DEF DataInv
  <2>3. signals' \in Seq(Signals)
    <3>1. [kind |-> "types", types |-> types] \in Signals
        BY DEF Signals
    <3> QED BY <2>1, <3>1, AppendTyped DEF DataInv
  <2> QED BY <1>2, <2>2, <2>3, DriverKept, Zenon DEF ChangeTypes, store, acts, DataInv
<1>3. CASE LoseDriver
  <2>1. driver' \in Drivers
      BY <1>3, Zenon DEF LoseDriver, DataInv
  <2> QED BY <1>3, <2>1 DEF LoseDriver, store, acts, DataInv
<1>4. CASE LoseSender
    BY <1>4 DEF LoseSender, store, acts, DataInv
<1> QED
    BY <1>1, <1>2, <1>3, <1>4

-----------------------------------------------------------------------------
(* The characters.                                                         *)
LEMMA AvailRemade ==
    ASSUME InfoInv, DOMAIN infos' = DOMAIN infos,
           \A i \in DOMAIN infos : \E b \in BOOLEAN : infos'[i] = [infos[i] EXCEPT !.avail = b]
    PROVE  InfoInv'
<1>1. \A x \in Info, b \in BOOLEAN : [x EXCEPT !.avail = b] \in Info
    BY DEF Info
<1>2. \A i \in DOMAIN infos : infos'[i] \in Info
    BY <1>1 DEF InfoInv
<1> QED
    BY <1>2 DEF InfoInv, Info

LEMMA MatchedTyped ==
    ASSUME InfoInv, NEW l, infos' = Matched(l)
    PROVE  InfoInv'
<1>1. DOMAIN infos' = DOMAIN infos /\ \A i \in DOMAIN infos : infos'[i] = [infos[i] EXCEPT !.avail = i \in l]
    BY DEF Matched
<1>2. ASSUME NEW i \in DOMAIN infos PROVE \E b \in BOOLEAN : infos'[i] = [infos[i] EXCEPT !.avail = b]
  <2> DEFINE b == i \in l
  <2>1. infos'[i] = [infos[i] EXCEPT !.avail = b]
      BY <1>1
  <2>2. b \in BOOLEAN
      OBVIOUS
  <2> HIDE DEF b
  <2> QED BY <2>1, <2>2
<1> QED
    BY <1>1, <1>2, AvailRemade

LEMMA CallInfos ==
    ASSUME RunInv, InfoInv, NEW c \in Calls, Begin(c) \/ CallStep(c)
    PROVE  InfoInv'
<1>1. c \in Goroutines
    BY GoroutinesTyped
<1>2. CASE UNCHANGED infos
    BY <1>2 DEF InfoInv, Info
<1>3. CASE saveInfo(c)
  <2>1. CASE action[run[c].id].name # None
    <3> DEFINE i == run[c].id
               a == action[i]
               others == {j \in DOMAIN infos : infos[j].name = a.name /\ infos[j].type = a.type
                                        /\ infos[j].user = user[a.sender] /\ ~infos[j].avail}
               new == [user |-> user[a.sender], type |-> a.type, name |-> a.name, avail |-> TRUE]
    <3>1. run[c].pc = "saveInfo" /\ run[c].op = "EnrollStop" /\ i \in Ids
        BY <1>1, <1>3, AtCall DEF saveInfo, At, RunInv, Shape
    <3>2. Acted(i)
        BY <1>1, <3>1 DEF RunInv, ListenInv, OfAction
    <3>3. a.sender \in Senders /\ a.type \in Types /\ a.name \in Names
        BY <2>1, <3>1, <3>2, CharaAssumption DEF RunInv, ActInv, Acted, NoAction
    <3>4. user[a.sender] \in Range(user)
        BY <3>3, CharaAssumption DEF Range
    <3>5. infos' = [j \in {i} \cup (DOMAIN infos \ others) |-> IF j = i THEN new ELSE infos[j]]
        BY <1>3, <2>1 DEF saveInfo
    <3> HIDE DEF i, a
    <3>6. new \in Info
        BY <3>3, <3>4 DEF Info
    <3> HIDE DEF new, others
    <3>7. DOMAIN infos' \subseteq Ids /\ \A j \in DOMAIN infos' : infos'[j] \in Info
        BY <3>1, <3>5, <3>6 DEF InfoInv
    <3> QED BY <3>7 DEF InfoInv, Info
  <2>2. CASE action[run[c].id].name = None
      BY <1>2, <1>3, <2>2 DEF saveInfo
  <2> QED BY <2>1, <2>2
<1>4. CASE rename(c)
  <2> DEFINE r == run[c]
             old == Taken(r.sender, r.type, r.name)
             new == Taken(r.sender, r.type, r.newName)
             rest == DOMAIN infos \ (Named(r.sender, r.type, r.name) \ old)
             Renamed(S) == [i \in DOMAIN infos |-> IF i \in S THEN [infos[i] EXCEPT !.name = r.newName]
                                                   ELSE infos[i]]
  <2>1. r.newName \in Names
      BY <1>1, <1>4, AtCall DEF rename, At, RunInv, Shape
  <2>2. ASSUME NEW S
        PROVE  DOMAIN Renamed(S) = DOMAIN infos /\ \A i \in DOMAIN infos : Renamed(S)[i] \in Info
    <3>1. \A x \in Info : [x EXCEPT !.name = r.newName] \in Info
        BY <2>1 DEF Info
    <3> QED BY <3>1 DEF InfoInv
  <2>3. \/ \E S : infos' = Renamed(S)
        \/ UNCHANGED infos
        \/ infos' = Restrict(Renamed(old), rest)
      BY <1>4, Zenon DEF rename
  <2> HIDE DEF Renamed, old, rest
  <2>4. ASSUME NEW S, infos' = Renamed(S) PROVE InfoInv'
      BY <2>2, <2>4 DEF InfoInv, Info
  <2>5. CASE infos' = Restrict(Renamed(old), rest)
    <3>1. rest \in SUBSET DOMAIN infos
        BY DEF rest
    <3>2. DOMAIN infos' \subseteq Ids /\ \A i \in DOMAIN infos' : infos'[i] \in Info
        BY <2>2, <2>5, <3>1 DEF InfoInv, Restrict
    <3> QED BY <3>2 DEF InfoInv, Info
  <2> QED BY <1>2, <2>3, <2>4, <2>5
<1>5. CASE forget(c)
  <2>1. ASSUME NEW j, infos' = Restrict(infos, DOMAIN infos \ {j}) PROVE InfoInv'
    <3>1. DOMAIN infos' \subseteq Ids /\ \A i \in DOMAIN infos' : infos'[i] \in Info
        BY <2>1 DEF InfoInv, Restrict
    <3> QED BY <3>1 DEF InfoInv, Info
  <2> QED BY <1>2, <1>5, <2>1, Zenon DEF forget
<1> QED
    BY <1>2, <1>3, <1>4, <1>5, Zenon
       DEF CallStep, Begin, check, checkName, genId, start, undo, keepInfo, find, checkCode, lookUp,
           deleteInDriver, lockInfos, unlockInfos, store

LEMMA StepInfos ==
    ASSUME RunInv, InfoInv, NEW g \in Goroutines, Step(g)
    PROVE  InfoInv'
<1>1. CASE UNCHANGED infos
    BY <1>1 DEF InfoInv, Info
<1>2. CASE takeList
    BY <1>2, MatchedTyped DEF takeList
<1>3. CASE changeInfos(g)
    BY <1>3, MatchedTyped DEF changeInfos
<1>4. CASE changeActions(g)
  <2> DEFINE left == run[g].from \ run[g].into
             hit == {i \in registered : action[i].type \in left}
             B(i) == infos[i].avail /\ (hit = {} \/ infos[i].type \notin left)
  <2>1. infos' = [i \in DOMAIN infos |-> [infos[i] EXCEPT !.avail = B(i)]]
      BY <1>4 DEF changeActions
  <2>2. \A i : B(i) \in BOOLEAN
      OBVIOUS
  <2> HIDE DEF B
  <2>3. DOMAIN infos' = DOMAIN infos /\ \A i \in DOMAIN infos : infos'[i] = [infos[i] EXCEPT !.avail = B(i)]
      BY <2>1
  <2> QED BY <2>2, <2>3, AvailRemade
<1>5. CASE g \in Calls /\ CallStep(g)
    BY <1>5, CallInfos
<1> QED
    BY <1>1, <1>2, <1>3, <1>4, <1>5, Zenon
       DEF Step, spawned, receive, look, takeStatus, takeTypes, takeLost, getDriver, stop, release,
           changeList, send, sent, changed, store

-----------------------------------------------------------------------------
(* The inductive invariant.                                                *)
LEMMA InitInv ==
    ASSUME Init
    PROVE  Inv
<1>1. RunInv
  <2>1. Frame.op = "none" /\ Frame.pc = "idle" /\ Frame.sends = {}
      BY DEF Frame
  <2>2. run = [g \in Goroutines |-> Frame]
      BY DEF Init
  <2> HIDE DEF Frame
  <2>3. FrameInv
      BY <2>2, FrameTyped DEF FrameInv
  <2>4. LockInv
      BY <2>1, <2>2, GoroutinesTyped DEF Init, LockInv, Sending, Reading, Updating
  <2>5. NoAction \in [sender : Senders \cup {None}, type : Types \cup {"none"},
                      name : Names \cup {None}, code : Codes]
      BY CodesTyped DEF NoAction
  <2>6. ActInv
      BY <2>1, <2>2, <2>5 DEF Init, ActInv
  <2>7. ListenInv
      BY <2>1, <2>2, GoroutinesTyped DEF Init, ListenInv, OfAction, Starting
  <2> QED BY <2>3, <2>4, <2>6, <2>7 DEF RunInv
<1>2. PICK offers \in SUBSET Types, stored \in SUBSET Known :
          /\ driver = [alive |-> TRUE, offers |-> offers, stored |-> stored, enrolling |-> None, regained |-> {}]
          /\ driverType = offers
          /\ \E name \in [Known -> Names], s \in Senders, t \in Types :
                /\ IsInjective(name)
                /\ infos = [i \in Known |-> [user |-> user[s], type |-> t,
                                             name |-> name[i], avail |-> i \in stored]]
    BY Zenon DEF Init
<1>3. DataInv
  <2>1. \A i \in Ids : chan[i] = <<>> /\ <<>> \in Seq(Codes) /\ Len(<<>>) <= Cap
      BY CharaAssumption DEF Init
  <2>2. chan \in [Ids -> Seq(Codes)] /\ \A i \in Ids : Len(chan[i]) <= Cap
      BY <2>1 DEF Init
  <2>3. signals \in Seq(Signals)
      BY DEF Init
  <2> QED BY <1>2, <2>2, <2>3, CharaAssumption DEF Init, DataInv
<1>4. InfoInv
  <2>1. PICK name \in [Known -> Names], s \in Senders, t \in Types :
          infos = [i \in Known |-> [user |-> user[s], type |-> t, name |-> name[i], avail |-> i \in stored]]
      BY <1>2
  <2> DEFINE b(i) == i \in stored
  <2>2. infos = [i \in Known |-> [user |-> user[s], type |-> t, name |-> name[i], avail |-> b(i)]]
      BY <2>1
  <2>3. \A i : b(i) \in BOOLEAN
      OBVIOUS
  <2>4. user[s] \in Range(user)
      BY CharaAssumption DEF Range
  <2> HIDE DEF b
  <2> QED BY <2>2, <2>3, <2>4, CharaAssumption DEF InfoInv, Info
<1> QED
    BY <1>1, <1>3, <1>4 DEF Inv, RunInv

LEMMA StepInv ==
    ASSUME Inv, NEW g \in Goroutines, Step(g)
    PROVE  Inv'
<1>1. RunInv /\ DataInv /\ InfoInv /\ FrameInv
    BY DEF Inv, RunInv
<1>2. RunInv'
  <2>1. CASE g \in Calls /\ CallStep(g)
      BY <1>1, <2>1, checkMoves, checkNameMoves, genIdMoves, startMoves, undoMoves, keepInfoMoves, findMoves,
         checkCodeMoves, saveInfoMoves, renameMoves, lookUpMoves, deleteInDriverMoves, forgetMoves,
         lockInfosMoves, unlockInfosMoves DEF CallStep
  <2>2. CASE g \in Ids /\ (spawned(g) \/ receive(g) \/ look(g))
      BY <1>1, <2>2, spawnedMoves, receiveMoves, lookMoves
  <2>3. CASE takeStatus \/ takeTypes \/ takeLost
      BY <1>1, <2>3, takeStatusMoves, takeTypesMoves, takeLostMoves
  <2>4. CASE takeList
      BY <1>1, <2>4 DEF takeList, acts, lock, RunInv, FrameInv, LockInv, ActInv, ListenInv, Acted
  <2>5. CASE getDriver(g) \/ stop(g) \/ release(g)
      BY <1>1, <2>5, getDriverMoves, stopMoves, releaseMoves
  <2>6. CASE \/ changeList(g) \/ changeInfos(g) \/ changeActions(g)
             \/ send(g) \/ sent(g) \/ changed(g)
      BY <1>1, <2>6, changeListMoves, changeInfosMoves, changeActionsMoves, sendMoves, sentMoves, changedMoves
  <2> QED BY <2>1, <2>2, <2>3, <2>4, <2>5, <2>6 DEF Step
<1>3. DataInv'
    BY <1>1, CallData, ListenerData, LoopData, SharedData DEF Step
<1>4. InfoInv'
    BY <1>1, StepInfos
<1> QED
    BY <1>2, <1>3, <1>4 DEF Inv, RunInv

LEMMA NextInv ==
    ASSUME Inv, [Next]_vars
    PROVE  Inv'
<1>1. CASE \E c \in Calls : Begin(c)
  <2>1. PICK c \in Calls : Begin(c)
      BY <1>1
  <2> QED BY <2>1, BeginMoves, CallData, CallInfos DEF Inv, RunInv
<1>2. CASE \E g \in Goroutines : Step(g)
    BY <1>2, StepInv
<1>3. CASE Report \/ ChangeTypes \/ LoseDriver \/ LoseSender
  <2>1. UNCHANGED <<infos, infoMu, acts, lock, run>>
      BY <1>3, Zenon DEF Report, ChangeTypes, LoseDriver, LoseSender, store
  <2>2. DataInv'
      BY <1>3, OutsideData DEF Inv
  <2> QED BY <2>1, <2>2 DEF Inv, FrameInv, LockInv, ActInv, ListenInv, Acted, InfoInv, Info, acts, lock
<1>4. CASE UNCHANGED vars
    BY <1>4 DEF vars, data, store, acts, lock, Inv, FrameInv, LockInv, ActInv, ListenInv, Acted, DataInv,
                InfoInv, Info
<1> QED
    BY <1>1, <1>2, <1>3, <1>4 DEF Next

(* The types, and the discipline of the two mutexes that calls, listeners  *)
(* and the loops of signals and lost names share, for any number of them.  *)
THEOREM TypeCorrect == Spec => []TypeOK
<1>1. Init => Inv
    BY InitInv
<1>2. Inv /\ [Next]_vars => Inv'
    BY NextInv
<1> QED
    BY <1>1, <1>2, InvTypeOK, PTL DEF Spec

(* ReleasseActionId closes a channel once, and no loop sends to a closed   *)
(* one, however the calls, the listeners and the loops interleave.         *)
THEOREM ClosesOnce == Spec => []NoClosedChannel
<1>1. Init => Inv
    BY InitInv
<1>2. Inv /\ [Next]_vars => Inv'
    BY NextInv
<1>3. Inv => NoClosedChannel
    BY DEF Inv, ActInv, NoClosedChannel
<1> QED
    BY <1>1, <1>2, <1>3, PTL DEF Spec

-----------------------------------------------------------------------------
(* What the client was told: where ids come from, in which order the       *)
(* driver reports, and what the listener of an action may have said.       *)

(* A status that the loop of signals is passing on.                        *)
Handling(i) == run["signals"].op = "status" /\ run["signals"].id = i
Passing(i) == Handling(i) /\ run["signals"].code = "Success"

StatusOf(s, i) == s.kind = "status" /\ s.id = i
Success(s, i) == StatusOf(s, i) /\ s.code = "Success"
Late(s, i) == StatusOf(s, i) /\ s.code # "Success"

(* The code that EnrollStop looks for, unless it has stored the character. *)
Kept(i) == action[i].code = "Success" \/ i \in saved

(* An id is that of a character on file, or of an action; what is deleted  *)
(* is on file or was saved.                                                *)
OriginInv ==
    /\ \A i \in Known : ~Acted(i)
    /\ driver.enrolling # None => Acted(driver.enrolling)
    /\ \A k \in DOMAIN signals : signals[k].kind = "status" => Acted(signals[k].id)
    /\ DOMAIN infos \subseteq Known \cup saved
    /\ \A g \in Goroutines : run[g].op = "Delete" /\ run[g].pc # "lookUp"
                                => run[g].id \in Known \cup saved

(* Until a character is saved the driver keeps it, and reports nothing     *)
(* after its success.                                                      *)
OrderInv ==
    \A i \in Ids \ saved :
        /\ action[i].code = "Success" \/ Passing(i) =>
              /\ i \in driver.stored /\ (Handling(i) => Passing(i))
              /\ \A k \in DOMAIN signals : ~Late(signals[k], i)
        /\ \A k \in DOMAIN signals : Success(signals[k], i) =>
              /\ i \in driver.stored
              /\ \A l \in DOMAIN signals : k < l => ~Late(signals[l], i)

(* A success on its way to the client is kept, or will be before the       *)
(* listener may look at it.                                                *)
Coming(i) == \/ \E k \in DOMAIN chan[i] : chan[i][k] = "Success"
             \/ At(i, "look") /\ run[i].code = "Success"

HeardInv ==
    /\ \A i \in told : Kept(i)
    /\ \A i \in Ids : Coming(i) => Kept(i) \/ Passing(i)
    /\ \A g \in Goroutines : \A m \in run[g].sends :
          m[2] = "Success" => g = "signals" /\ Passing(m[1])
    /\ \A g \in Goroutines : run[g].op = "EnrollStop" /\ run[g].pc # "find" /\ run[g].told =>
          /\ run[g].id \in told
          /\ At(g, "release") /\ run[g].id \in registered => run[g].id \in saved

ToldInv == OriginInv /\ OrderInv /\ HeardInv

-----------------------------------------------------------------------------
(* What most steps do to the data: no code changes and no action is        *)
(* forgotten, the driver keeps what is not saved, characters on file come  *)
(* from saving, and signals are taken in order.                            *)
ActsAside ==
    /\ \A i \in Ids : action'[i].code = action[i].code /\ (Acted(i) => Acted(i)')
    /\ \A i \in Known : Acted(i)' => Acted(i)
    /\ \A i \in registered' : i \in registered \/ ~Acted(i)

DriverAside ==
    /\ driver'.enrolling # None => action'[driver'.enrolling].type \in Types
    /\ \A i \in driver.stored : i \in driver'.stored \/ i \in Known \cup saved

StoreAside == saved \subseteq saved' /\ DOMAIN infos' \subseteq DOMAIN infos \cup saved'

SignalsAside ==
    /\ \A k \in DOMAIN signals' : signals'[k].kind = "status" =>
          \E j \in DOMAIN signals : signals[j] = signals'[k]
    /\ \A k, l \in DOMAIN signals' : k < l /\ signals'[k].kind = "status"
                                     /\ signals'[l].kind = "status" =>
          \E j, m \in DOMAIN signals : j < m /\ signals[j] = signals'[k] /\ signals[m] = signals'[l]

ToldAside == told \subseteq told' /\ \A i \in told' : i \in told \/ (i \in Ids /\ Kept(i))

ChanAside == \A i \in Ids : Coming(i)' => Coming(i) \/ Kept(i) \/ Passing(i)

Aside == ActsAside /\ DriverAside /\ StoreAside /\ SignalsAside /\ ToldAside

(* A goroutine that goes on to f touches none of it either.                *)
Calm(g, f) ==
    /\ \A m \in f.sends : m[2] = "Success" => m \in run[g].sends
    /\ g = "signals" => /\ f.op = "status" <=> run[g].op = "status"
                        /\ f.op = "status" => f.id = run[g].id /\ f.code = run[g].code
    /\ f.op = "Delete" /\ f.pc # "lookUp" => f.id \in Known \cup saved
    /\ f.op = "EnrollStop" /\ f.pc # "find" /\ f.told =>
          /\ f.id \in told
          /\ f.pc = "release" /\ f.id \in registered' => f.id \in saved'

AllCalm == \A g \in Goroutines : run'[g] = run[g] \/ Calm(g, run'[g])

(* What has a success or a status is an action.                            *)
LEMMA StatusActed ==
    ASSUME Inv, OriginInv, NEW i \in Ids
    PROVE  /\ action[i].code = "Success" => Acted(i)
           /\ Handling(i) => Acted(i)
           /\ \A k \in DOMAIN signals : StatusOf(signals[k], i) => Acted(i)
<1>1. action[i].code = "Success" => Acted(i)
  <2>1. NoAction.code # "Success"
      BY DEF NoAction
  <2> QED
      BY <2>1 DEF Inv, ActInv
<1>2. Handling(i) => Acted(i)
    BY GoroutinesTyped DEF Inv, ListenInv, Handling, OfAction
<1>3. \A k \in DOMAIN signals : StatusOf(signals[k], i) => Acted(i)
    BY DEF OriginInv, StatusOf
<1> QED
    BY <1>1, <1>2, <1>3

LEMMA HandlingKept ==
    ASSUME AllCalm
    PROVE  \A i : (Handling(i)' <=> Handling(i)) /\ (Passing(i)' <=> Passing(i))
<1>1. \/ run'["signals"] = run["signals"]
      \/ Calm("signals", run'["signals"])
    BY GoroutinesTyped DEF AllCalm
<1> QED
    BY <1>1 DEF Calm, Handling, Passing

LEMMA OriginMoves ==
    ASSUME Inv, ToldInv, Aside, AllCalm
    PROVE  OriginInv'
<1>1. \A i \in Known : ~Acted(i)'
    BY DEF ToldInv, OriginInv, Aside, ActsAside
<1>2. \A k \in DOMAIN signals' : signals'[k].kind = "status" => action'[signals'[k].id].type \in Types
  <2> SUFFICES ASSUME NEW k \in DOMAIN signals', signals'[k].kind = "status"
               PROVE  action'[signals'[k].id].type \in Types
      OBVIOUS
  <2>1. PICK j \in DOMAIN signals : signals[j] = signals'[k]
      BY DEF Aside, SignalsAside
  <2>2. signals[j] \in Signals
      BY ElementOfSeq, LenProperties DEF Inv, DataInv
  <2>3. signals[j].id \in Ids /\ Acted(signals[j].id)
      BY <2>1, <2>2 DEF Signals, ToldInv, OriginInv
  <2> QED
      BY <2>1, <2>3 DEF Aside, ActsAside, Acted
<1>3. DOMAIN infos' \subseteq Known \cup saved'
    BY DEF ToldInv, OriginInv, Aside, StoreAside
<1>4. ASSUME NEW g \in Goroutines, run'[g].op = "Delete", run'[g].pc # "lookUp"
      PROVE  run'[g].id \in Known \cup saved'
    BY <1>4 DEF ToldInv, OriginInv, AllCalm, Calm, Aside, StoreAside
<1>5. driver'.enrolling # None => action'[driver'.enrolling].type \in Types
    BY DEF Aside, DriverAside
<1> QED
    BY <1>1, <1>2, <1>3, <1>4, <1>5 DEF OriginInv, Acted

LEMMA OrderMoves ==
    ASSUME Inv, ToldInv, Aside, AllCalm
    PROVE  OrderInv'
<1> SUFFICES ASSUME NEW i \in Ids, i \notin saved'
             PROVE  /\ action'[i].code = "Success" \/ Passing(i)' =>
                          /\ i \in driver'.stored /\ (Handling(i)' => Passing(i)')
                          /\ \A k \in DOMAIN signals' : ~Late(signals'[k], i)
                    /\ \A k \in DOMAIN signals' : Success(signals'[k], i) =>
                          /\ i \in driver'.stored
                          /\ \A l \in DOMAIN signals' : k < l => ~Late(signals'[l], i)
    BY DEF OrderInv, Late, Success, StatusOf
<1>1. i \notin saved /\ OrderInv /\ OriginInv
    BY DEF Aside, StoreAside, ToldInv
<1>2. Acted(i) /\ i \in driver.stored => i \in driver'.stored
    BY <1>1 DEF Aside, DriverAside, OriginInv
<1>3. (Handling(i)' <=> Handling(i)) /\ (Passing(i)' <=> Passing(i)) /\ action'[i].code = action[i].code
    BY HandlingKept DEF Aside, ActsAside
<1>4. \A s : Late(s, i) \/ Success(s, i) => s.kind = "status"
    BY DEF Late, Success, StatusOf
<1>5. ASSUME action[i].code = "Success" \/ Passing(i)
      PROVE  /\ i \in driver'.stored /\ (Handling(i) => Passing(i))
             /\ \A k \in DOMAIN signals' : ~Late(signals'[k], i)
  <2>1. Acted(i)
      BY <1>1, <1>5, StatusActed DEF Passing
  <2>2. \A k \in DOMAIN signals' : ~Late(signals'[k], i)
      BY <1>1, <1>4, <1>5 DEF OrderInv, Aside, SignalsAside
  <2> QED
      BY <1>1, <1>2, <1>5, <2>1, <2>2 DEF OrderInv
<1>6. ASSUME NEW k \in DOMAIN signals', Success(signals'[k], i)
      PROVE  /\ i \in driver'.stored
             /\ \A l \in DOMAIN signals' : k < l => ~Late(signals'[l], i)
  <2>1. PICK j \in DOMAIN signals : signals[j] = signals'[k]
      BY <1>4, <1>6 DEF Aside, SignalsAside
  <2>2. Acted(i)
      BY <1>1, <1>6, <2>1, StatusActed DEF Success
  <2>3. i \in driver'.stored
      BY <1>1, <1>2, <1>6, <2>1, <2>2 DEF OrderInv
  <2>4. ASSUME NEW l \in DOMAIN signals', k < l, Late(signals'[l], i)
        PROVE  FALSE
    <3>1. PICK n, m \in DOMAIN signals : /\ n < m /\ signals[n] = signals'[k]
                                         /\ signals[m] = signals'[l]
        BY <1>4, <1>6, <2>4 DEF Aside, SignalsAside
    <3> QED
        BY <1>1, <1>6, <2>4, <3>1 DEF OrderInv
  <2> QED
      BY <2>3, <2>4
<1> QED
    BY <1>3, <1>5, <1>6

LEMMA HeardMoves ==
    ASSUME Inv, ToldInv, Aside, AllCalm, ChanAside
    PROVE  HeardInv'
<1>1. HeardInv
    BY DEF ToldInv
<1>2. \A i \in Ids : Kept(i) => Kept(i)'
    BY DEF Kept, Aside, ActsAside, StoreAside
<1>3. \A i \in told' : i \in Ids
    BY DEF Inv, DataInv, Aside, ToldAside
<1>4. \A i \in told' : Kept(i)'
    BY <1>1, <1>2, <1>3 DEF HeardInv, Aside, ToldAside
<1>5. \A i \in Ids : Coming(i)' => Kept(i)' \/ Passing(i)'
    BY <1>1, <1>2, HandlingKept DEF HeardInv, ChanAside
<1>6. ASSUME NEW g \in Goroutines, NEW m \in run'[g].sends, m[2] = "Success"
      PROVE  g = "signals" /\ Passing(m[1])'
  <2>1. m \in run[g].sends
      BY <1>6 DEF AllCalm, Calm
  <2> QED
      BY <1>1, <1>6, <2>1, HandlingKept DEF HeardInv
<1>7. ASSUME NEW g \in Goroutines, run'[g].op = "EnrollStop", run'[g].pc # "find", run'[g].told
      PROVE  /\ run'[g].id \in told'
             /\ run'[g].pc = "release" /\ run'[g].id \in registered' => run'[g].id \in saved'
  <2>1. CASE run'[g] = run[g]
    <3>1. /\ run[g].id \in told
          /\ run[g].pc = "release" /\ run[g].id \in registered => run[g].id \in saved
        BY <1>1, <1>7, <2>1 DEF HeardInv, At
    <3>2. Acted(run[g].id)
        BY <1>7, <2>1 DEF Inv, ListenInv, OfAction
    <3> QED
        BY <2>1, <3>1, <3>2 DEF Aside, ActsAside, ToldAside, StoreAside
  <2>2. CASE Calm(g, run'[g])
      BY <1>7, <2>2 DEF Calm, Aside, ToldAside
  <2> QED
      BY <2>1, <2>2 DEF AllCalm
<1> QED
    BY <1>4, <1>5, <1>6, <1>7 DEF HeardInv, At

LEMMA CalmMoves ==
    ASSUME Inv, ToldInv, Aside, AllCalm, ChanAside
    PROVE  ToldInv'
    BY OriginMoves, OrderMoves, HeardMoves DEF ToldInv

-----------------------------------------------------------------------------
(* What a step leaves alone.                                               *)
LEMMA ActsStill ==
    ASSUME UNCHANGED action, registered' \subseteq registered
    PROVE  ActsAside
    BY DEF ActsAside, Acted

LEMMA DriverStill ==
    ASSUME OriginInv, UNCHANGED action, driver' = driver
    PROVE  DriverAside
    BY DEF DriverAside, OriginInv, Acted

LEMMA StoreStill ==
    ASSUME saved' = saved, DOMAIN infos' \subseteq DOMAIN infos
    PROVE  StoreAside
    BY DEF StoreAside

LEMMA SignalsStill ==
    ASSUME signals' = signals
    PROVE  SignalsAside
    BY DEF SignalsAside

LEMMA SignalsTail ==
    ASSUME DataInv, signals # <<>>, signals' = Tail(signals)
    PROVE  SignalsAside
<1>1. signals \in Seq(Signals) /\ Len(signals) \in Nat /\ DOMAIN signals = 1..Len(signals)
    BY LenProperties DEF DataInv
<1>2. /\ Tail(signals) \in Seq(Signals) /\ Len(Tail(signals)) = Len(signals) - 1
      /\ \A k \in 1..Len(Tail(signals)) : Tail(signals)[k] = signals[k + 1]
    BY <1>1, HeadTailProperties
<1>3. DOMAIN signals' = 1..(Len(signals) - 1)
    BY <1>2, LenProperties
<1>4. \A k \in DOMAIN signals' : k \in Int /\ k + 1 \in DOMAIN signals /\ signals'[k] = signals[k + 1]
    BY <1>1, <1>2, <1>3
<1>5. \A k, l \in DOMAIN signals' : k < l => k + 1 < l + 1
    BY <1>4
<1> QED
    BY <1>4, <1>5 DEF SignalsAside

LEMMA SignalsAppend ==
    ASSUME DataInv, NEW s \in Signals, s.kind # "status", signals' = Append(signals, s)
    PROVE  SignalsAside
<1>1. /\ signals \in Seq(Signals) /\ Len(signals) \in Nat /\ DOMAIN signals = 1..Len(signals)
      /\ signals' \in Seq(Signals) /\ Len(signals') = Len(signals) + 1
      /\ \A k \in 1..Len(signals) : signals'[k] = signals[k]
      /\ signals'[Len(signals) + 1] = s
    BY LenProperties, AppendProperties DEF DataInv
<1>2. DOMAIN signals' = 1..(Len(signals) + 1)
    BY <1>1, LenProperties
<1>3. \A k \in DOMAIN signals' : signals'[k].kind = "status" =>
          k \in DOMAIN signals /\ signals[k] = signals'[k]
    BY <1>1, <1>2
<1> QED
    BY <1>3 DEF SignalsAside

LEMMA ToldStill ==
    ASSUME told' = told
    PROVE  ToldAside
    BY DEF ToldAside

LEMMA AsideStill ==
    ASSUME OriginInv, UNCHANGED <<driver, signals, infos, saved, action, told>>,
           registered' \subseteq registered
    PROVE  Aside
    BY ActsStill, DriverStill, StoreStill, SignalsStill, ToldStill DEF Aside

LEMMA ChanStill ==
    ASSUME chan' = chan, \A i \in Ids : run'[i] = run[i] \/ run'[i].pc # "look"
    PROVE  ChanAside
    BY DEF ChanAside, Coming, At

-----------------------------------------------------------------------------
(* A goroutine goes on to f.                                               *)
LEMMA OneCalm ==
    ASSUME Inv, NEW g \in Goroutines, NEW f, run' = [run EXCEPT ![g] = f], Calm(g, f)
    PROVE  AllCalm
<1>1. \A h \in Goroutines : run'[h] = IF h = g THEN f ELSE run[h]
    BY DEF Inv, FrameInv
<1> QED
    BY <1>1 DEF AllCalm

LEMMA OneTold ==
    ASSUME Inv, ToldInv, NEW g \in Goroutines, NEW f, run' = [run EXCEPT ![g] = f], Calm(g, f),
           Aside, chan' = chan, f.pc # "look"
    PROVE  ToldInv'
<1>1. \A h \in Goroutines : run'[h] = IF h = g THEN f ELSE run[h]
    BY DEF Inv, FrameInv
<1>2. ChanAside
    BY <1>1, ChanStill, GoroutinesTyped
<1> QED
    BY <1>2, OneCalm, CalmMoves, Zenon

(* It returns.                                                             *)
LEMMA FrameCalm == \A g : g # "signals" \/ run[g].op # "status" => Calm(g, Frame)
<1>1. Frame.op = "none" /\ Frame.sends = {}
    BY DEF Frame
<1> HIDE DEF Frame
<1> QED
    BY <1>1 DEF Calm

LEMMA ReturnTold ==
    ASSUME Inv, ToldInv, NEW g \in Goroutines, Return(g), Aside, chan' = chan,
           g # "signals" \/ run[g].op # "status"
    PROVE  ToldInv'
<1>1. Frame.pc = "idle"
    BY DEF Frame
<1>2. run' = [run EXCEPT ![g] = Frame]
    BY DEF Return
<1> HIDE DEF Frame
<1> QED
    BY <1>1, <1>2, FrameCalm, OneTold, Zenon

(* It goes on to the place p.                                              *)
GotoCalm(g, p) ==
    /\ p # "look"
    /\ run[g].op = "Delete" => run[g].pc # "lookUp"
    /\ run[g].op = "EnrollStop" =>
          /\ run[g].pc # "find"
          /\ p = "release" /\ run[g].told /\ run[g].id \in registered' => run[g].id \in saved'

(* r differs from the goroutine g in what the invariant is not about.      *)
Alike(g, r) ==
    /\ r.op = run[g].op /\ r.id = run[g].id /\ r.code = run[g].code /\ r.told = run[g].told
    /\ r.sends \subseteq run[g].sends

LEMMA AlikeCalm ==
    ASSUME Inv, ToldInv, NEW g \in Goroutines, NEW r, Alike(g, r), GotoCalm(g, r.pc)
    PROVE  Calm(g, r)
    BY DEF Calm, Alike, GotoCalm, ToldInv, OriginInv, HeardInv

LEMMA AlikeTold ==
    ASSUME Inv, ToldInv, NEW g \in Goroutines, NEW r, run' = [run EXCEPT ![g] = r], Alike(g, r),
           GotoCalm(g, r.pc), Aside, chan' = chan
    PROVE  ToldInv'
<1>1. Calm(g, r) /\ r.pc # "look"
    BY AlikeCalm DEF GotoCalm
<1> QED
    BY <1>1, OneTold, Zenon

LEMMA GotoTold ==
    ASSUME Inv, ToldInv, NEW g \in Goroutines, NEW p \in Pcs, Goto(g, p), GotoCalm(g, p), Aside,
           chan' = chan
    PROVE  ToldInv'
<1> DEFINE r == [run[g] EXCEPT !.pc = p]
<1>1. run' = [run EXCEPT ![g] = r] /\ run[g] \in Frames
    BY DEF Goto, Inv, FrameInv
<1>2. r.pc = p /\ Alike(g, r)
    BY <1>1, GotoFrame DEF Alike
<1> HIDE DEF r
<1> QED
    BY <1>1, <1>2, AlikeTold, Zenon

-----------------------------------------------------------------------------
LEMMA OpAt ==
    ASSUME Inv, NEW g \in Goroutines
    PROVE  /\ run[g].pc \in {"check", "checkName", "genId", "start", "undo", "store"}
                  => run[g].op = "EnrollStart"
           /\ run[g].pc \in {"find", "save", "saveInfo"} => run[g].op = "EnrollStop"
           /\ run[g].pc = "rename" => run[g].op = "Rename"
           /\ run[g].pc \in {"lookUp", "delete", "forget"} => run[g].op = "Delete"
           /\ run[g].pc \in {"lockInfos", "unlockInfos"} => run[g].op = "List"
           /\ run[g].pc \in {"spawned", "receive", "look"} => run[g].op = "listen"
           /\ run[g].pc \in {"stop", "release"} => run[g].op \in {"EnrollStart", "EnrollStop", "listen"}
           /\ run[g].op \in Loops => run[g].pc = "send"
           /\ run[g].op = "status" => g = "signals" /\ mu = "signals"
           /\ g \in Calls => g # "signals" /\ g \notin Ids
<1>1. Shape(g, run[g])
    BY DEF Inv, FrameInv
<1>2. /\ run[g].op \in Loops => run[g].pc = "send"
      /\ run[g].op = "status" => g = "signals"
    BY <1>1 DEF Shape, Place, OpsOf, Loops
<1>3. run[g].op = "status" => Sending(run[g])
    BY <1>2 DEF Sending, Loops
<1>4. run[g].op = "status" => mu = "signals"
    BY <1>2, <1>3 DEF Inv, LockInv
<1>5. g \in Calls => g # "signals" /\ g \notin Ids
    BY GoroutinesTyped
<1>6. Place(run[g])
    BY <1>1 DEF Shape
<1> QED
    BY <1>2, <1>4, <1>5, <1>6 DEF Place, InChange

(* Steps of a call that only move it.                                      *)
LEMMA BeginTold ==
    ASSUME Inv, ToldInv, NEW c \in Calls, Begin(c)
    PROVE  ToldInv'
<1>1. PICK s \in Senders \ gone, t \in Types, n \in Names :
          \/ Start(c, "EnrollStart", "check", s, t, n, None)
          \/ Start(c, "EnrollStop", "find", s, "none", None, None)
          \/ \E m \in Names : Start(c, "Rename", "rename", s, t, n, m)
          \/ Start(c, "Delete", "lookUp", s, t, n, None)
          \/ Start(c, "List", "lockInfos", s, t, None, None)
    BY DEF Begin
<1>2. ASSUME NEW op, NEW first, NEW y, NEW n1, NEW m, Start(c, op, first, s, y, n1, m),
             <<op, first>> \in {<<"EnrollStart", "check">>, <<"EnrollStop", "find">>,
                               <<"Rename", "rename">>, <<"Delete", "lookUp">>, <<"List", "lockInfos">>}
      PROVE  ToldInv'
  <2> DEFINE f == [Frame EXCEPT !.op = op, !.pc = first, !.sender = s, !.type = y,
                                !.name = n1, !.newName = m]
  <2>1. f.op = op /\ f.pc = first /\ f.sends = {}
      BY DEF Frame
  <2>2. run' = [run EXCEPT ![c] = f]
      BY <1>2 DEF Start
  <2> HIDE DEF f
  <2>3. Calm(c, f)
      BY <1>2, <2>1, GoroutinesTyped DEF Calm
  <2>4. Aside /\ chan' = chan
      BY AsideStill DEF Begin, data, store, acts, ToldInv
  <2> QED
      BY <1>2, <2>1, <2>2, <2>3, <2>4, OneTold, GoroutinesTyped, Zenon
<1> QED
    BY <1>1, <1>2

LEMMA checkTold ==
    ASSUME Inv, ToldInv, NEW c \in Calls, check(c) \/ checkName(c)
    PROVE  ToldInv'
<1>1. Aside /\ chan' = chan /\ run[c].op = "EnrollStart" /\ c \in Goroutines
    BY AsideStill, OpAt, GoroutinesTyped DEF check, checkName, data, store, acts, ToldInv, At
<1>2. \/ Return(c)
      \/ \E p \in {"checkName", "getDriver"} : Goto(c, p)
    BY DEF check, checkName
<1> QED
    BY <1>1, <1>2, ReturnTold, GotoTold DEF GotoCalm, Pcs

LEMMA findTold ==
    ASSUME Inv, ToldInv, NEW c \in Calls, find(c)
    PROVE  ToldInv'
<1>1. /\ Aside /\ chan' = chan /\ run[c].op = "EnrollStop" /\ c \in Goroutines
      /\ run[c] \in Frames
    BY AsideStill, OpAt, GoroutinesTyped, Zenon DEF find, data, store, acts, ToldInv, At, Inv, FrameInv
<1>2. CASE Return(c)
    BY <1>1, <1>2, ReturnTold
<1>3. ASSUME NEW i \in registered,
             run' = [run EXCEPT ![c].pc = "getDriver", ![c].id = i, ![c].type = action[i].type,
                                ![c].told = i \in told]
      PROVE  ToldInv'
  <2> DEFINE b == i \in told
             f == [run[c] EXCEPT !.pc = "getDriver", !.id = i, !.type = action[i].type, !.told = b]
  <2>1. b \in BOOLEAN
      OBVIOUS
  <2>2. run' = [run EXCEPT ![c] = f]
      BY <1>3, Zenon DEF Inv, FrameInv
  <2>3. b => i \in told
      OBVIOUS
  <2> HIDE DEF b
  <2>4. f.op = run[c].op /\ f.pc = "getDriver" /\ f.id = i /\ f.told = b /\ f.sends = run[c].sends
      BY <1>1 DEF Frames
  <2> HIDE DEF f
  <2>5. Calm(c, f)
      BY <1>1, <2>3, <2>4, GoroutinesTyped DEF Calm
  <2> QED
      BY <1>1, <2>2, <2>4, <2>5, OneTold, Zenon
<1> QED
    BY <1>2, <1>3, Zenon DEF find

LEMMA lookUpTold ==
    ASSUME Inv, ToldInv, NEW c \in Calls, lookUp(c)
    PROVE  ToldInv'
<1>1. /\ Aside /\ chan' = chan /\ run[c].op = "Delete" /\ c \in Goroutines
      /\ run[c] \in Frames
    BY AsideStill, OpAt, GoroutinesTyped DEF lookUp, data, store, acts, ToldInv, At, Inv, FrameInv
<1>2. CASE Return(c)
    BY <1>1, <1>2, ReturnTold
<1>3. ASSUME NEW i \in Named(run[c].sender, run[c].type, run[c].name),
             run' = [run EXCEPT ![c].pc = "getDriver", ![c].id = i]
      PROVE  ToldInv'
  <2> DEFINE f == [run[c] EXCEPT !.pc = "getDriver", !.id = i]
  <2>1. run' = [run EXCEPT ![c] = f]
      BY <1>3, Zenon DEF Inv, FrameInv
  <2>2. i \in DOMAIN infos
      BY DEF Named
  <2>3. i \in Known \cup saved
      BY <2>2 DEF ToldInv, OriginInv
  <2>4. f.op = run[c].op /\ f.pc = "getDriver" /\ f.id = i /\ f.sends = run[c].sends
      BY <1>1 DEF Frames
  <2> HIDE DEF f
  <2>5. Calm(c, f)
      BY <1>1, <2>3, <2>4, GoroutinesTyped DEF Calm
  <2> QED
      BY <1>1, <2>1, <2>4, <2>5, OneTold, Zenon
<1> QED
    BY <1>2, <1>3 DEF lookUp

LEMMA listTold ==
    ASSUME Inv, ToldInv, NEW c \in Calls, lockInfos(c) \/ unlockInfos(c)
    PROVE  ToldInv'
<1>1. Aside /\ chan' = chan /\ run[c].op = "List" /\ c \in Goroutines
    BY AsideStill, OpAt, GoroutinesTyped DEF lockInfos, unlockInfos, data, store, acts, ToldInv, At
<1>2. Return(c) \/ Goto(c, "getDriver")
    BY DEF lockInfos, unlockInfos
<1> QED
    BY <1>1, <1>2, ReturnTold, GotoTold DEF GotoCalm, Pcs

(* A success that the client was told of is the code that EnrollStop finds.*)
LEMMA checkCodeTold ==
    ASSUME Inv, ToldInv, NEW c \in Calls, checkCode(c)
    PROVE  ToldInv'
<1>1. /\ Aside /\ chan' = chan /\ run[c].op = "EnrollStop" /\ c \in Goroutines
      /\ run[c].pc = "save" /\ UNCHANGED <<registered, saved>>
    BY AsideStill, OpAt, GoroutinesTyped DEF checkCode, data, store, acts, ToldInv, At
<1>2. CASE Goto(c, "saveInfo")
    BY <1>1, <1>2, GotoTold DEF GotoCalm, Pcs
<1>3. CASE Goto(c, "release") /\ (action[run[c].id].code # "Success" \/ run[c].id \notin registered)
  <2>1. run[c].told => Kept(run[c].id)
      BY <1>1 DEF ToldInv, HeardInv
  <2>2. GotoCalm(c, "release")
      BY <1>1, <1>3, <2>1 DEF GotoCalm, Kept
  <2> QED
      BY <1>1, <1>3, <2>2, GotoTold DEF Pcs
<1> QED
    BY <1>2, <1>3 DEF checkCode

LEMMA saveInfoTold ==
    ASSUME Inv, ToldInv, NEW c \in Calls, saveInfo(c)
    PROVE  ToldInv'
<1>1. /\ chan' = chan /\ run[c].op = "EnrollStop" /\ c \in Goroutines
      /\ run[c].pc = "saveInfo" /\ saved' = saved \cup {run[c].id} /\ Goto(c, "release")
      /\ UNCHANGED <<driver, signals, action, registered, told>>
    BY OpAt, GoroutinesTyped DEF saveInfo, data, acts, At
<1>2. DOMAIN infos' \subseteq DOMAIN infos \cup {run[c].id}
    BY DEF saveInfo
<1>3. Aside
    BY <1>1, <1>2, ActsStill, DriverStill, SignalsStill, ToldStill DEF Aside, StoreAside, ToldInv
<1> QED
    BY <1>1, <1>3, GotoTold DEF GotoCalm, Pcs

LEMMA renameTold ==
    ASSUME Inv, ToldInv, NEW c \in Calls, rename(c) \/ forget(c)
    PROVE  ToldInv'
<1>1. /\ chan' = chan /\ run[c].op \in {"Rename", "Delete"} /\ c \in Goroutines /\ Return(c)
      /\ UNCHANGED <<driver, signals, saved, action, registered, told>>
    BY OpAt, GoroutinesTyped DEF rename, forget, data, acts, At
<1>2. DOMAIN infos' \subseteq DOMAIN infos
    BY Zenon DEF rename, forget, Restrict
<1>3. Aside
    BY <1>1, <1>2, ActsStill, DriverStill, StoreStill, SignalsStill, ToldStill DEF Aside, ToldInv
<1> QED
    BY <1>1, <1>3, ReturnTold

(* A new action is one that nothing was ever said of.                      *)
LEMMA genIdTold ==
    ASSUME Inv, ToldInv, NEW c \in Calls, genId(c)
    PROVE  ToldInv'
<1>1. /\ chan' = chan /\ run[c].op = "EnrollStart" /\ c \in Goroutines
      /\ run[c] \in Frames /\ UNCHANGED <<driver, signals, infos, saved, told>>
      /\ run[c].sender \in Senders /\ run[c].type \in Types
  <2>1. c \in Goroutines /\ run[c].op = "EnrollStart"
      BY OpAt, GoroutinesTyped DEF genId, At
  <2>2. Shape(c, run[c]) /\ run[c] \in Frames
      BY <2>1 DEF Inv, FrameInv
  <2> QED
      BY <2>1, <2>2 DEF genId, data, store, Shape
<1>2. CASE Return(c) /\ UNCHANGED <<registered, action>>
    BY <1>1, <1>2, AsideStill, ReturnTold DEF ToldInv
<1>3. ASSUME NEW i \in Unused, registered' = registered \cup {i},
             action' = [action EXCEPT ![i] = [NoAction EXCEPT !.sender = run[c].sender,
                                                             !.type = run[c].type]],
             run' = [run EXCEPT ![c].pc = "start", ![c].id = i]
      PROVE  ToldInv'
  <2> DEFINE a == [NoAction EXCEPT !.sender = run[c].sender, !.type = run[c].type]
             f == [run[c] EXCEPT !.pc = "start", !.id = i]
  <2>1. a.code = "Invalid" /\ a.type \in Types
      BY <1>1 DEF NoAction
  <2>2. i \in Ids /\ i \notin Known /\ action[i].code = "Invalid" /\ ~Acted(i)
    <3>1. NoAction.code = "Invalid" /\ NoAction.type = "none" /\ "none" \notin Types
        BY CharaAssumption DEF NoAction
    <3> QED
        BY <1>3, <3>1 DEF Unused, Acted
  <2> HIDE DEF a
  <2>3. \A j \in Ids : action'[j] = IF j = i THEN a ELSE action[j]
      BY <1>3, <2>2 DEF a, Inv, ActInv
  <2>4. ActsAside
      BY <1>3, <2>1, <2>2, <2>3, CharaAssumption, Zenon DEF ActsAside, Acted
  <2>5. DriverAside
    <3>1. driver.enrolling \in Ids \cup {None}
        BY DEF Inv, DataInv
    <3> QED
        BY <1>1, <2>1, <2>3, <3>1 DEF DriverAside, ToldInv, OriginInv, Acted
  <2>6. Aside
      BY <1>1, <2>4, <2>5, StoreStill, SignalsStill, ToldStill DEF Aside
  <2>7. run' = [run EXCEPT ![c] = f]
      BY <1>3, Zenon DEF Inv, FrameInv
  <2>8. f.op = run[c].op /\ f.pc = "start" /\ f.sends = run[c].sends
      BY <1>1 DEF Frames
  <2> HIDE DEF f
  <2>9. Calm(c, f)
      BY <1>1, <2>8, GoroutinesTyped DEF Calm
  <2> QED
      BY <1>1, <2>6, <2>7, <2>8, <2>9, OneTold, Zenon
<1> QED
    BY <1>2, <1>3 DEF genId

LEMMA startTold ==
    ASSUME Inv, ToldInv, NEW c \in Calls, start(c)
    PROVE  ToldInv'
<1>1. /\ chan' = chan /\ run[c].op = "EnrollStart" /\ c \in Goroutines /\ run[c].pc = "start"
      /\ UNCHANGED <<signals, infos, saved, action, registered, told>>
    BY OpAt, GoroutinesTyped DEF start, store, At
<1>2. Acted(run[c].id)
    BY <1>1 DEF Inv, ListenInv, Starting
<1>3. \/ driver' = Busied(run[c].id) /\ Goto(c, "store")
      \/ driver' = driver /\ Goto(c, "undo")
    BY Zenon DEF start, Busied
<1>4. DriverAside
  <2>1. driver' = Busied(run[c].id) =>
            driver'.enrolling = run[c].id /\ driver'.stored = driver.stored
      BY DEF Inv, DataInv, Busied
  <2> QED
      BY <1>1, <1>2, <1>3, <2>1 DEF DriverAside, ToldInv, OriginInv, Acted
<1>5. Aside
    BY <1>1, <1>4, ActsStill, StoreStill, SignalsStill, ToldStill DEF Aside
<1> QED
    BY <1>1, <1>3, <1>5, GotoTold DEF GotoCalm, Pcs

LEMMA undoTold ==
    ASSUME Inv, ToldInv, NEW c \in Calls, undo(c)
    PROVE  ToldInv'
<1>1. /\ Aside /\ chan' = chan /\ Return(c) /\ c \in Goroutines /\ c # "signals"
    BY AsideStill, GoroutinesTyped DEF undo, Release, data, store, ToldInv
<1> QED
    BY <1>1, ReturnTold

(* The listener of the action starts with nothing to look at.              *)
LEMMA keepInfoTold ==
    ASSUME Inv, ToldInv, NEW c \in Calls, keepInfo(c)
    PROVE  ToldInv'
<1>1. /\ chan' = chan /\ run[c].op = "EnrollStart" /\ c \in Goroutines /\ run[c].pc = "store"
      /\ UNCHANGED <<driver, signals, infos, saved, registered, told>>
    BY OpAt, GoroutinesTyped DEF keepInfo, data, store, At
<1>2. CASE Goto(c, "stop") /\ UNCHANGED action
    BY <1>1, <1>2, AsideStill, GotoTold DEF GotoCalm, Pcs, ToldInv
<1>3. CASE /\ action' = [action EXCEPT ![run[c].id].name = run[c].name]
           /\ run' = [run EXCEPT ![c] = Frame,
                         ![run[c].id] = [Frame EXCEPT !.op = "listen", !.pc = "spawned",
                                                      !.id = run[c].id, !.type = run[c].type]]
  <2> DEFINE i == run[c].id
             f == [Frame EXCEPT !.op = "listen", !.pc = "spawned", !.id = i, !.type = run[c].type]
  <2>1. i \in Ids
    <3>1. Shape(c, run[c])
        BY <1>1 DEF Inv, FrameInv
    <3> QED
        BY <1>1, <3>1 DEF Shape
  <2>2. f.op = "listen" /\ f.pc = "spawned" /\ f.sends = {} /\ Frame.op = "none" /\ Frame.pc = "idle"
      BY DEF Frame
  <2>3. \A g \in Goroutines : run'[g] = IF g = i THEN f ELSE IF g = c THEN Frame ELSE run[g]
      BY <1>1, <1>3, <2>1, GoroutinesTyped DEF Inv, FrameInv
  <2>4. Calm(c, Frame)
      BY <1>1, FrameCalm
  <2> HIDE DEF f, i
  <2>5. Calm(i, f)
      BY <2>1, <2>2, GoroutinesTyped DEF Calm
  <2>6. AllCalm
      BY <2>3, <2>4, <2>5 DEF AllCalm
  <2>7. ChanAside
      BY <1>1, <2>2, <2>3, ChanStill, GoroutinesTyped
  <2>8. \A j \in Ids : action'[j].code = action[j].code /\ action'[j].type = action[j].type
      BY <1>3 DEF Inv, ActInv
  <2>9. ActsAside /\ DriverAside
    <3>1. driver.enrolling \in Ids \cup {None}
        BY DEF Inv, DataInv
    <3> QED
        BY <1>1, <2>8, <3>1, CharaAssumption DEF ActsAside, DriverAside, ToldInv, OriginInv, Acted
  <2> QED
      BY <1>1, <2>6, <2>7, <2>9, StoreStill, SignalsStill, ToldStill, CalmMoves DEF Aside
<1> QED
    BY <1>2, <1>3 DEF keepInfo

LEMMA deleteInDriverTold ==
    ASSUME Inv, ToldInv, NEW c \in Calls, deleteInDriver(c)
    PROVE  ToldInv'
<1>1. /\ chan' = chan /\ run[c].op = "Delete" /\ c \in Goroutines /\ run[c].pc = "delete"
      /\ UNCHANGED <<infos, saved, action, registered, told>>
    BY OpAt, GoroutinesTyped DEF deleteInDriver, store, acts, At
<1>2. CASE Return(c) /\ UNCHANGED <<driver, signals>>
    BY <1>1, <1>2, AsideStill, ReturnTold DEF ToldInv
<1>3. CASE /\ driver' = [driver EXCEPT !.stored = driver.stored \ {run[c].id}]
           /\ signals' = Append(signals, Listed(driver.stored \ {run[c].id}))
           /\ Goto(c, "forget")
  <2>1. run[c].id \in Known \cup saved
      BY <1>1 DEF ToldInv, OriginInv
  <2>2. /\ driver.stored \subseteq Ids /\ driver'.enrolling = driver.enrolling
        /\ driver'.stored = driver.stored \ {run[c].id}
      BY <1>3 DEF Inv, DataInv
  <2>3. DriverAside
      BY <1>1, <2>1, <2>2 DEF DriverAside, ToldInv, OriginInv, Acted
  <2>4. Listed(driver.stored \ {run[c].id}) \in Signals
      BY <2>2 DEF Listed, Signals
  <2>5. Listed(driver.stored \ {run[c].id}).kind # "status"
      BY DEF Listed
  <2>6. SignalsAside
      BY <1>3, <2>4, <2>5, SignalsAppend, Zenon DEF Inv
  <2>7. Aside
      BY <1>1, <2>3, <2>6, ActsStill, StoreStill, ToldStill DEF Aside
  <2> QED
      BY <1>1, <1>3, <2>7, GotoTold DEF GotoCalm, Pcs
<1> QED
    BY <1>2, <1>3 DEF deleteInDriver

-----------------------------------------------------------------------------
(* Steps of the listener.                                                  *)
LEMMA spawnedTold ==
    ASSUME Inv, ToldInv, NEW i \in Ids, spawned(i)
    PROVE  ToldInv'
<1>1. Aside /\ chan' = chan /\ run[i].op = "listen" /\ i \in Goroutines
    BY AsideStill, OpAt, GoroutinesTyped DEF spawned, data, store, acts, ToldInv, At
<1>2. \E p \in {"receive", "waitForEver"} : Goto(i, p)
    BY DEF spawned
<1> QED
    BY <1>1, <1>2, GotoTold DEF GotoCalm, Pcs

LEMMA receiveTold ==
    ASSUME Inv, ToldInv, NEW i \in Ids, receive(i)
    PROVE  ToldInv'
<1>1. /\ Aside /\ run[i].op = "listen" /\ i \in Goroutines /\ i # "signals" /\ run[i] \in Frames
    BY AsideStill, OpAt, GoroutinesTyped DEF receive, data, store, acts, ToldInv, At, Inv, FrameInv
<1>2. CASE Return(i) /\ chan' = chan
    BY <1>1, <1>2, ReturnTold
<1>3. CASE /\ chan[i] # <<>>
           /\ run' = [run EXCEPT ![i].pc = "look", ![i].code = Head(chan[i])]
           /\ chan' = [chan EXCEPT ![i] = Tail(@)]
  <2> DEFINE f == [run[i] EXCEPT !.pc = "look", !.code = Head(chan[i])]
  <2>1. run' = [run EXCEPT ![i] = f]
      BY <1>3, Zenon DEF Inv, FrameInv
  <2>2. f.op = "listen" /\ f.sends = run[i].sends /\ f.code = Head(chan[i])
      BY <1>1 DEF Frames
  <2> HIDE DEF f
  <2>3. AllCalm
    <3>1. Calm(i, f)
        BY <1>1, <2>2 DEF Calm
    <3> QED
        BY <1>1, <2>1, <3>1, OneCalm, Zenon
  <2>4. /\ chan[i] \in Seq(Codes) /\ Len(chan[i]) \in Nat /\ DOMAIN chan[i] = 1..Len(chan[i])
      BY LenProperties DEF Inv, DataInv
  <2>5. /\ Tail(chan[i]) \in Seq(Codes) /\ Len(Tail(chan[i])) = Len(chan[i]) - 1
        /\ \A k \in 1..Len(Tail(chan[i])) : Tail(chan[i])[k] = chan[i][k + 1]
        /\ Head(chan[i]) = chan[i][1] /\ 1 \in DOMAIN chan[i]
      BY <1>3, <2>4, HeadTailProperties, EmptySeq
  <2>6. \A k \in DOMAIN Tail(chan[i]) : k + 1 \in DOMAIN chan[i] /\ Tail(chan[i])[k] = chan[i][k + 1]
    <3>1. DOMAIN Tail(chan[i]) = 1..(Len(chan[i]) - 1)
        BY <2>5, LenProperties
    <3> QED
        BY <2>4, <2>5, <3>1
  <2>7. chan'[i] = Tail(chan[i]) /\ run'[i] = f /\ \A j \in Ids : j # i => chan'[j] = chan[j] /\ run'[j] = run[j]
    <3>1. chan'[i] = Tail(chan[i]) /\ \A j \in Ids : j # i => chan'[j] = chan[j]
        BY <1>1, <1>3, GoroutinesTyped, Zenon DEF Inv, DataInv
    <3>2. run'[i] = f /\ \A j \in Ids : j # i => run'[j] = run[j]
        BY <1>1, <2>1, GoroutinesTyped, Zenon DEF Inv, FrameInv
    <3> QED
        BY <3>1, <3>2
  <2>8. ChanAside
    <3>1. ASSUME NEW j \in Ids, j # i, Coming(j)'
          PROVE  Coming(j)
        BY <2>7, <3>1 DEF Coming, At
    <3>2. ASSUME Coming(i)'
          PROVE  Coming(i)
      <4>1. \/ \E k \in DOMAIN Tail(chan[i]) : Tail(chan[i])[k] = "Success"
            \/ f.code = "Success"
          BY <2>7, <3>2 DEF Coming, At
      <4>2. \E k \in DOMAIN chan[i] : chan[i][k] = "Success"
          BY <2>2, <2>5, <2>6, <4>1
      <4> QED
          BY <4>2 DEF Coming
    <3> QED
        BY <3>1, <3>2 DEF ChanAside
  <2> QED
      BY <1>1, <2>3, <2>8, CalmMoves
<1> QED
    BY <1>2, <1>3 DEF receive

(* The listener looks when no status is passed on: the success it has read *)
(* is kept by then.                                                        *)
LEMMA lookTold ==
    ASSUME Inv, ToldInv, NEW i \in Ids, look(i)
    PROVE  ToldInv'
<1>1. /\ chan' = chan /\ run[i].op = "listen" /\ run[i].pc = "look"
      /\ i \in Goroutines /\ i # "signals" /\ run[i] \in Frames
      /\ UNCHANGED <<driver, signals, infos, saved, action, registered>> /\ mu = None
    BY OpAt, GoroutinesTyped DEF look, CanRead, data, store, acts, At, Inv, FrameInv
<1>2. run[i].code = "Success" => Kept(i)
  <2>1. ~Passing(i)
      BY <1>1, OpAt, GoroutinesTyped DEF Passing, Handling
  <2> QED
      BY <1>1, <2>1 DEF ToldInv, HeardInv, Coming, At
<1>3. CASE Return(i) /\ UNCHANGED told
    BY <1>1, <1>3, AsideStill, ReturnTold DEF ToldInv
<1>4. CASE /\ run' = [run EXCEPT ![i].pc = next(i)[1], ![i].code = next(i)[2]]
           /\ told' = IF run[i].code = "Success" THEN told \cup {i} ELSE told
  <2> DEFINE f == [run[i] EXCEPT !.pc = next(i)[1], !.code = next(i)[2]]
  <2>1. run' = [run EXCEPT ![i] = f]
      BY <1>4, Zenon DEF Inv, FrameInv
  <2>2. next(i)[1] # "look"
      BY DEF next
  <2>3. f.op = "listen" /\ f.sends = run[i].sends /\ f.pc # "look"
      BY <1>1, <2>2 DEF Frames
  <2> HIDE DEF f
  <2>4. Calm(i, f)
      BY <1>1, <2>3 DEF Calm
  <2>5. ToldAside
      BY <1>2, <1>4 DEF ToldAside
  <2>6. Aside
      BY <1>1, <2>5, ActsStill, DriverStill, StoreStill, SignalsStill DEF Aside, ToldInv
  <2> QED
      BY <1>1, <2>1, <2>3, <2>4, <2>6, OneTold, Zenon
<1> QED
    BY <1>3, <1>4 DEF look

-----------------------------------------------------------------------------
(* Steps of the loops.                                                     *)
LEMMA SignalTaken ==
    ASSUME Inv, signals # <<>>, signals' = Tail(signals)
    PROVE  /\ Head(signals) = signals[1] /\ 1 \in DOMAIN signals
           /\ \A k \in DOMAIN signals' : /\ k \in Int /\ 1 < k + 1 /\ k + 1 \in DOMAIN signals
                                         /\ signals'[k] = signals[k + 1]
<1>1. signals \in Seq(Signals) /\ Len(signals) \in Nat /\ DOMAIN signals = 1..Len(signals)
    BY LenProperties DEF Inv, DataInv
<1>2. /\ Tail(signals) \in Seq(Signals) /\ Len(Tail(signals)) = Len(signals) - 1
      /\ \A k \in 1..Len(Tail(signals)) : Tail(signals)[k] = signals[k + 1]
      /\ Head(signals) = signals[1] /\ 1 \in DOMAIN signals
    BY <1>1, HeadTailProperties, EmptySeq
<1>3. DOMAIN signals' = 1..(Len(signals) - 1)
    BY <1>2, LenProperties
<1> QED
    BY <1>1, <1>2, <1>3

(* The loop takes the driver's next status: what it reports is in order.   *)
LEMMA takeStatusTold ==
    ASSUME Inv, ToldInv, takeStatus
    PROVE  ToldInv'
<1>1. /\ chan' = chan /\ run["signals"].pc = "idle" /\ "signals" \in Goroutines
      /\ signals # <<>> /\ signals' = Tail(signals) /\ Head(signals).kind = "status"
      /\ UNCHANGED <<driver, infos, saved, action, registered, told>>
    BY GoroutinesTyped DEF takeStatus, store, acts, At
<1>2. run["signals"].op # "status" /\ \A i : ~Handling(i) /\ ~Passing(i)
    BY <1>1, OpAt DEF Loops, Handling, Passing
<1>3. SignalsAside
    BY <1>1, SignalsTail DEF Inv
<1>4. Aside
    BY <1>1, <1>3, ActsStill, DriverStill, StoreStill, ToldStill DEF Aside, ToldInv
<1>5. CASE run' = run
  <2>1. AllCalm /\ ChanAside
      BY <1>1, <1>5, ChanStill DEF AllCalm
  <2> QED
      BY <1>4, <2>1, CalmMoves
<1>6. CASE run' = [run EXCEPT !["signals"] = [Frame EXCEPT !.op = "status", !.pc = "send",
                      !.id = Head(signals).id, !.code = Head(signals).code,
                      !.sends = {<<Head(signals).id, Head(signals).code>>}]]
  <2> DEFINE h == Head(signals)
             f == [Frame EXCEPT !.op = "status", !.pc = "send", !.id = h.id, !.code = h.code,
                                !.sends = {<<h.id, h.code>>}]
  <2>1. f.op = "status" /\ f.id = h.id /\ f.code = h.code /\ f.sends = {<<h.id, h.code>>}
      BY DEF Frame
  <2>2. /\ h = signals[1] /\ 1 \in DOMAIN signals
        /\ \A k \in DOMAIN signals' : /\ k \in Int /\ 1 < k + 1 /\ k + 1 \in DOMAIN signals
                                      /\ signals'[k] = signals[k + 1]
      BY <1>1, SignalTaken
  <2>3. h.kind = "status"
      BY <1>1
  <2> HIDE DEF h, f
  <2>4. \A g \in Goroutines : run'[g] = IF g = "signals" THEN f ELSE run[g]
      BY <1>6 DEF f, h, Inv, FrameInv
  <2>5. \A i : /\ Handling(i)' <=> h.id = i
               /\ Passing(i)' <=> h.id = i /\ h.code = "Success"
      BY <1>1, <2>1, <2>4 DEF Handling, Passing
  <2>6. OriginInv'
    <3>1. \A k \in DOMAIN signals' : signals'[k].kind = "status" => Acted(signals'[k].id)
        BY <2>2 DEF ToldInv, OriginInv
    <3> QED
        BY <1>1, <2>1, <2>4, <3>1 DEF ToldInv, OriginInv, Acted
  <2>7. OrderInv'
    <3> SUFFICES ASSUME NEW i \in Ids, i \notin saved
                 PROVE  /\ action[i].code = "Success" \/ Passing(i)' =>
                              /\ i \in driver.stored /\ (Handling(i)' => Passing(i)')
                              /\ \A k \in DOMAIN signals' : ~Late(signals'[k], i)
                        /\ \A k \in DOMAIN signals' : Success(signals'[k], i) =>
                              /\ i \in driver.stored
                              /\ \A l \in DOMAIN signals' : k < l => ~Late(signals'[l], i)
        BY <1>1 DEF OrderInv, Late, Success, StatusOf
    <3>1. /\ action[i].code = "Success" =>
                i \in driver.stored /\ \A k \in DOMAIN signals : ~Late(signals[k], i)
          /\ \A k \in DOMAIN signals : Success(signals[k], i) =>
                i \in driver.stored /\ \A l \in DOMAIN signals : k < l => ~Late(signals[l], i)
        BY DEF ToldInv, OrderInv
    <3>2. action[i].code = "Success" => (Handling(i)' => Passing(i)')
        BY <2>2, <2>3, <2>5, <3>1 DEF Late, StatusOf
    <3>3. Passing(i)' => Success(signals[1], i)
        BY <2>2, <2>3, <2>5 DEF Success, StatusOf
    <3>4. Passing(i)' => i \in driver.stored /\ \A k \in DOMAIN signals' : ~Late(signals'[k], i)
        BY <2>2, <3>1, <3>3
    <3>5. Passing(i)' => (Handling(i)' => Passing(i)')
        OBVIOUS
    <3>6. action[i].code = "Success" => \A k \in DOMAIN signals' : ~Late(signals'[k], i)
        BY <2>2, <3>1
    <3>7. ASSUME NEW k \in DOMAIN signals', Success(signals'[k], i)
          PROVE  i \in driver.stored /\ \A l \in DOMAIN signals' : k < l => ~Late(signals'[l], i)
      <4>1. \A l \in DOMAIN signals' : k < l => k + 1 < l + 1
          BY <2>2
      <4> QED
          BY <2>2, <3>1, <3>7, <4>1
    <3> QED
        BY <3>1, <3>2, <3>4, <3>6, <3>7
  <2>8. HeardInv'
    <3>1. \A i \in Ids : Kept(i)' <=> Kept(i)
        BY <1>1 DEF Kept
    <3>2. \A i \in Ids : Coming(i)' => Kept(i)'
        BY <1>1, <1>2, <2>4, <3>1, GoroutinesTyped DEF Coming, At, ToldInv, HeardInv
    <3>3. ASSUME NEW g \in Goroutines, NEW m \in run'[g].sends, m[2] = "Success"
          PROVE  g = "signals" /\ Passing(m[1])'
        BY <1>2, <2>1, <2>4, <2>5, <3>3 DEF ToldInv, HeardInv
    <3>4. \A i \in told' : Kept(i)'
        BY <1>1, <3>1 DEF ToldInv, HeardInv, Inv, DataInv
    <3>5. ASSUME NEW g \in Goroutines, run'[g].op = "EnrollStop", run'[g].pc # "find", run'[g].told
          PROVE  /\ run'[g].id \in told'
                 /\ run'[g].pc = "release" /\ run'[g].id \in registered' => run'[g].id \in saved'
        BY <1>1, <2>1, <2>4, <3>5 DEF ToldInv, HeardInv, At
    <3> QED
        BY <3>2, <3>3, <3>4, <3>5 DEF HeardInv, At
  <2> QED
      BY <2>6, <2>7, <2>8 DEF ToldInv
<1> QED
    BY <1>5, <1>6 DEF takeStatus

LEMMA takeListTold ==
    ASSUME Inv, ToldInv, takeList
    PROVE  ToldInv'
<1>1. /\ chan' = chan /\ run' = run /\ signals # <<>> /\ signals' = Tail(signals)
      /\ UNCHANGED <<driver, saved, action, registered, told>>
    BY DEF takeList, acts
<1>2. DOMAIN infos' = DOMAIN infos
    BY DEF takeList, Matched
<1>3. Aside
    BY <1>1, <1>2, SignalsTail, ActsStill, DriverStill, StoreStill, ToldStill DEF Aside, ToldInv, Inv
<1>4. AllCalm /\ ChanAside
    BY <1>1, ChanStill DEF AllCalm
<1> QED
    BY <1>3, <1>4, CalmMoves

LEMMA takeTypesTold ==
    ASSUME Inv, ToldInv, takeTypes
    PROVE  ToldInv'
<1>1. /\ chan' = chan /\ run["signals"].pc = "idle" /\ "signals" \in Goroutines
      /\ signals # <<>> /\ signals' = Tail(signals)
      /\ UNCHANGED <<driver, infos, saved, action, registered, told>>
    BY GoroutinesTyped DEF takeTypes, store, acts, At
<1>2. run["signals"].op # "status"
    BY <1>1, OpAt DEF Loops
<1>3. Aside
    BY <1>1, SignalsTail, ActsStill, DriverStill, StoreStill, ToldStill DEF Aside, ToldInv, Inv
<1>4. CASE run' = run
  <2>1. AllCalm /\ ChanAside
      BY <1>1, <1>4, ChanStill DEF AllCalm
  <2> QED
      BY <1>3, <2>1, CalmMoves
<1>5. CASE run' = [run EXCEPT !["signals"] = [Frame EXCEPT !.op = "types", !.pc = "changeList",
                      !.from = driverType, !.into = Head(signals).types]]
  <2> DEFINE f == [Frame EXCEPT !.op = "types", !.pc = "changeList", !.from = driverType,
                                !.into = Head(signals).types]
  <2>1. f.op = "types" /\ f.pc = "changeList" /\ f.sends = {}
      BY DEF Frame
  <2>2. run' = [run EXCEPT !["signals"] = f]
      BY <1>5
  <2> HIDE DEF f
  <2>3. Calm("signals", f)
      BY <1>2, <2>1 DEF Calm
  <2> QED
      BY <1>1, <1>3, <2>1, <2>2, <2>3, OneTold, Zenon
<1> QED
    BY <1>4, <1>5 DEF takeTypes

(* No code for a loss is a success.                                        *)
LEMMA takeLostTold ==
    ASSUME Inv, ToldInv, takeLost
    PROVE  ToldInv'
<1>1. /\ chan' = chan /\ run["names"].pc = "idle" /\ "names" \in Goroutines /\ "names" # "signals"
      /\ UNCHANGED <<driver, signals, infos, saved, action, registered, told>>
    BY GoroutinesTyped DEF takeLost, store, acts, At
<1>2. PICK n \in lost : run' = [run EXCEPT !["names"] = [Frame EXCEPT !.op = "names", !.pc = "send",
          !.sends = {<<i, LostCode[action[i].type]>> : i \in {j \in registered : action[j].sender = n}}
                    \cup {<<i, GoneCode[action[i].type]>> : i \in {j \in registered : n = Driver}}]]
    BY Zenon DEF takeLost
<1> DEFINE S == {<<i, LostCode[action[i].type]>> : i \in {j \in registered : action[j].sender = n}}
                \cup {<<i, GoneCode[action[i].type]>> : i \in {j \in registered : n = Driver}}
           f == [Frame EXCEPT !.op = "names", !.pc = "send", !.sends = S]
<1>3. \A m \in S : m[2] # "Success"
  <2>1. \A i \in registered : action[i].type \in Types
      BY DEF Inv, ActInv, Acted
  <2>2. \A t \in Types : LostCode[t] # "Success" /\ GoneCode[t] # "Success"
      BY DEF LostCode, GoneCode
  <2> QED
      BY <2>1, <2>2
<1>4. run' = [run EXCEPT !["names"] = f]
    BY <1>2
<1> HIDE DEF S
<1>5. f.op = "names" /\ f.pc = "send" /\ f.sends = S
    BY DEF Frame
<1> HIDE DEF f
<1>6. Calm("names", f)
    BY <1>1, <1>3, <1>5 DEF Calm
<1> QED
    BY <1>1, <1>4, <1>5, <1>6, AsideStill, OneTold, Zenon DEF ToldInv

-----------------------------------------------------------------------------
(* Steps that calls, listeners and loops share.                            *)
LEMMA WithDriverTold ==
    ASSUME Inv, ToldInv, NEW g \in Goroutines, NEW r \in Frames, Alike(g, r), NEW found,
           run[g].op # "status", run[g].pc \in {"getDriver", "send"},
           run' = [run EXCEPT ![g] = WithDriver(g, r, found)], Aside, chan' = chan
    PROVE  ToldInv'
<1> DEFINE f == WithDriver(g, r, found)
           On(p) == [r EXCEPT !.pc = p, !.claim = FALSE]
<1>1. \/ f = On("genId")
      \/ f = On("stop")
      \/ f = On("release") /\ r.op = "listen"
      \/ f = On("delete")
      \/ f = On("unlockInfos")
      \/ f = Frame
    BY Zenon DEF WithDriver
<1>2. run' = [run EXCEPT ![g] = f]
    OBVIOUS
<1>3. ASSUME NEW p \in Pcs
      PROVE  /\ On(p).pc = p /\ On(p).op = r.op /\ On(p).id = r.id /\ On(p).code = r.code
             /\ On(p).told = r.told /\ On(p).sends = r.sends
    BY DEF Frames
<1> HIDE DEF f, On
<1>4. CASE f = Frame
    BY <1>2, <1>4, ReturnTold, Zenon DEF Return
<1>5. ASSUME NEW p \in Pcs, f = On(p), p # "look", p = "release" => r.op = "listen"
      PROVE  ToldInv'
  <2>1. Alike(g, f) /\ GotoCalm(g, f.pc)
      BY <1>3, <1>5 DEF Alike, GotoCalm
  <2> QED
      BY <1>2, <2>1, AlikeTold, Zenon
<1> QED
    BY <1>1, <1>4, <1>5 DEF Pcs

LEMMA getDriverTold ==
    ASSUME Inv, ToldInv, NEW g \in Goroutines, getDriver(g)
    PROVE  ToldInv'
<1>1. /\ Aside /\ chan' = chan /\ run[g].pc = "getDriver" /\ run[g] \in Frames /\ run[g].op # "status"
    BY AsideStill, OpAt DEF getDriver, data, store, acts, ToldInv, At, Inv, FrameInv, Loops
<1> DEFINE busy == driver.enrolling # None
           r == [run[g] EXCEPT !.claim = busy]
<1>2. busy \in BOOLEAN
    OBVIOUS
<1>3. \/ run' = [run EXCEPT ![g] = WithDriver(g, r, FALSE)]
      \/ run' = [run EXCEPT ![g] = [r EXCEPT !.pc = "changeList", !.from = driverType,
                                             !.into = driver.offers]]
      \/ run' = [run EXCEPT ![g] = WithDriver(g, r, r.type \in driverType)]
    BY Zenon, Zenon DEF getDriver
<1> HIDE DEF busy
<1>4. r \in Frames /\ Alike(g, r)
    BY <1>1, <1>2 DEF Frames, Alike
<1> HIDE DEF r
<1>5. CASE run' = [run EXCEPT ![g] = [r EXCEPT !.pc = "changeList", !.from = driverType,
                                               !.into = driver.offers]]
  <2> DEFINE f == [r EXCEPT !.pc = "changeList", !.from = driverType, !.into = driver.offers]
  <2>1. /\ f.pc = "changeList" /\ f.op = r.op /\ f.id = r.id /\ f.code = r.code /\ f.told = r.told
        /\ f.sends = r.sends
      BY <1>4 DEF Frames
  <2>2. run' = [run EXCEPT ![g] = f]
      BY <1>5
  <2> HIDE DEF f
  <2>3. Alike(g, f) /\ GotoCalm(g, f.pc)
      BY <1>1, <1>4, <2>1 DEF Alike, GotoCalm
  <2> QED
      BY <1>1, <2>2, <2>3, AlikeTold, Zenon
<1> QED
    BY <1>1, <1>3, <1>4, <1>5, WithDriverTold, Zenon

LEMMA stopTold ==
    ASSUME Inv, ToldInv, NEW g \in Goroutines, stop(g)
    PROVE  ToldInv'
<1>1. /\ chan' = chan /\ run[g].pc = "stop" /\ run[g].op \in {"EnrollStart", "EnrollStop", "listen"}
      /\ UNCHANGED <<signals, infos, saved, action, registered, told>>
    BY OpAt DEF stop, store, acts, At
<1>2. \/ run[g].op = "EnrollStop" /\ Goto(g, "save")
      \/ Return(g)
      \/ run[g].op # "EnrollStop" /\ Goto(g, "release")
    BY DEF stop
<1>3. DriverAside
  <2>1. driver' = driver \/ driver' = [driver EXCEPT !.enrolling = None]
      BY DEF stop
  <2>2. driver' = [driver EXCEPT !.enrolling = None] => driver'.enrolling = None /\ driver'.stored = driver.stored
      BY DEF Inv, DataInv
  <2> QED
      BY <1>1, <2>1, <2>2 DEF DriverAside, ToldInv, OriginInv, Acted
<1>4. Aside
    BY <1>1, <1>3, ActsStill, StoreStill, SignalsStill, ToldStill DEF Aside
<1> QED
    BY <1>1, <1>2, <1>4, ReturnTold, GotoTold DEF GotoCalm, Pcs

LEMMA releaseTold ==
    ASSUME Inv, ToldInv, NEW g \in Goroutines, release(g)
    PROVE  ToldInv'
<1>1. /\ Aside /\ chan' = chan /\ run[g].pc = "release" /\ run[g] \in Frames
      /\ run[g].op \in {"EnrollStart", "EnrollStop", "listen"}
    BY AsideStill, OpAt DEF release, Release, data, store, ToldInv, At, Inv, FrameInv
<1>2. CASE Return(g)
    BY <1>1, <1>2, ReturnTold
<1>3. CASE /\ run[g].op = "listen"
           /\ run' = [run EXCEPT ![g].pc = "receive", ![g].code = "Invalid"]
  <2> DEFINE f == [run[g] EXCEPT !.pc = "receive", !.code = "Invalid"]
  <2>1. f.op = "listen" /\ f.pc = "receive" /\ f.sends = run[g].sends
      BY <1>1, <1>3 DEF Frames
  <2>2. run' = [run EXCEPT ![g] = f]
      BY <1>3, Zenon DEF Inv, FrameInv
  <2> HIDE DEF f
  <2>3. g # "signals"
    <3>1. Shape(g, run[g])
        BY DEF Inv, FrameInv
    <3> QED
        BY <1>3, <3>1, GoroutinesTyped DEF Shape
  <2>4. Calm(g, f)
      BY <2>1, <2>3 DEF Calm
  <2> QED
      BY <1>1, <2>1, <2>2, <2>4, OneTold, Zenon
<1> QED
    BY <1>2, <1>3 DEF release

LEMMA changeTold ==
    ASSUME Inv, ToldInv, NEW g \in Goroutines, changeList(g) \/ changeInfos(g)
    PROVE  ToldInv'
<1>1. /\ chan' = chan /\ run[g].pc \in {"changeList", "changeInfos"} /\ run[g] \in Frames
      /\ UNCHANGED <<driver, signals, saved, action, registered, told>>
    BY DEF changeList, changeInfos, data, store, acts, At, Inv, FrameInv
<1>2. DOMAIN infos' = DOMAIN infos
    BY DEF changeList, changeInfos, Matched, store
<1>3. Aside
    BY <1>1, <1>2, ActsStill, DriverStill, StoreStill, SignalsStill, ToldStill DEF Aside, ToldInv
<1>4. \A p \in {"changeInfos", "changeActions"} : GotoCalm(g, p) /\ p \in Pcs
    BY <1>1 DEF GotoCalm, Pcs, InChange
<1>5. CASE Goto(g, "changeActions")
    BY <1>1, <1>3, <1>4, <1>5, GotoTold
<1>6. CASE run' = [run EXCEPT ![g].pc = "changeInfos", ![g].list = driver.stored]
  <2> DEFINE f == [run[g] EXCEPT !.pc = "changeInfos", !.list = driver.stored]
  <2>1. run' = [run EXCEPT ![g] = f]
      BY <1>6, Zenon DEF Inv, FrameInv
  <2>2. /\ f.pc = "changeInfos" /\ f.op = run[g].op /\ f.id = run[g].id /\ f.code = run[g].code
        /\ f.told = run[g].told /\ f.sends = run[g].sends
      BY <1>1 DEF Frames
  <2> HIDE DEF f
  <2> QED
      BY <1>1, <1>3, <1>4, <2>1, <2>2, AlikeTold, Zenon DEF Alike
<1> QED
    BY <1>5, <1>6 DEF changeList, changeInfos

LEMMA changeActionsTold ==
    ASSUME Inv, ToldInv, NEW g \in Goroutines, changeActions(g)
    PROVE  ToldInv'
<1>1. /\ chan' = chan /\ run[g].pc = "changeActions" /\ run[g] \in Frames /\ run[g].op # "status"
      /\ UNCHANGED <<driver, signals, saved, action, registered, told>>
    BY OpAt DEF changeActions, data, acts, At, Inv, FrameInv, Loops
<1>2. DOMAIN infos' = DOMAIN infos
    BY DEF changeActions
<1>3. Aside
    BY <1>1, <1>2, ActsStill, DriverStill, StoreStill, SignalsStill, ToldStill DEF Aside, ToldInv
<1> DEFINE S == {<<i, "FaceGone">> : i \in {j \in registered : action[j].type \in run[g].from \ run[g].into}}
           f == [run[g] EXCEPT !.pc = "send", !.sends = S]
<1>4. \A m \in S : m[2] # "Success"
    OBVIOUS
<1>5. run' = [run EXCEPT ![g] = f]
    BY Zenon DEF changeActions, Inv, FrameInv
<1> HIDE DEF S
<1>6. f.pc = "send" /\ f.sends = S /\ f.op = run[g].op /\ f.id = run[g].id /\ f.told = run[g].told
    BY <1>1 DEF Frames
<1> HIDE DEF f
<1>7. Calm(g, f)
    BY <1>1, <1>4, <1>6 DEF Calm, ToldInv, OriginInv, HeardInv
<1> QED
    BY <1>1, <1>3, <1>5, <1>6, <1>7, OneTold, Zenon

(* A success that is sent is that of the status that is passed on.         *)
LEMMA sendTold ==
    ASSUME Inv, ToldInv, NEW g \in Goroutines, send(g)
    PROVE  ToldInv'
<1>1. /\ Aside /\ run[g].pc = "send" /\ run[g] \in Frames
    BY AsideStill DEF send, data, store, ToldInv, At, Inv, FrameInv
<1>2. PICK m \in run[g].sends :
          /\ chan' = [chan EXCEPT ![m[1]] = IF m[1] \in closed THEN @ ELSE Append(@, m[2])]
          /\ run' = [run EXCEPT ![g].sends = @ \ {m}]
    BY Zenon DEF send
<1> DEFINE f == [run[g] EXCEPT !.sends = @ \ {m}]
<1>3. m[1] \in Ids /\ m[2] \in Codes
    BY <1>1, <1>2 DEF Frames
<1>4. run' = [run EXCEPT ![g] = f]
    BY <1>2 DEF Inv, FrameInv
<1>5. /\ f.pc = "send" /\ f.op = run[g].op /\ f.id = run[g].id /\ f.code = run[g].code
      /\ f.told = run[g].told /\ f.sends \subseteq run[g].sends
    BY <1>1 DEF Frames
<1> HIDE DEF f
<1>6. AllCalm
  <2>1. GotoCalm(g, f.pc) /\ Alike(g, f)
      BY <1>1, <1>5 DEF GotoCalm, Alike
  <2> QED
      BY <1>4, <2>1, AlikeCalm, OneCalm, Zenon
<1>7. \A j \in Ids : ~(At(j, "look"))' \/ run'[j] = run[j]
    BY <1>4, <1>5, GoroutinesTyped DEF At, Inv, FrameInv
<1>8. ChanAside
  <2> SUFFICES ASSUME NEW j \in Ids, Coming(j)'
               PROVE  Coming(j) \/ Passing(j)
      BY DEF ChanAside
  <2>1. CASE chan'[j] = chan[j]
      BY <1>7, <2>1 DEF Coming, At
  <2>2. CASE j = m[1] /\ chan'[j] = Append(chan[j], m[2])
    <3>1. /\ chan[j] \in Seq(Codes) /\ Len(chan[j]) \in Nat /\ DOMAIN chan[j] = 1..Len(chan[j])
        BY LenProperties DEF Inv, DataInv
    <3>2. /\ Append(chan[j], m[2]) \in Seq(Codes) /\ Len(Append(chan[j], m[2])) = Len(chan[j]) + 1
          /\ \A k \in 1..Len(chan[j]) : Append(chan[j], m[2])[k] = chan[j][k]
          /\ Append(chan[j], m[2])[Len(chan[j]) + 1] = m[2]
        BY <1>3, <3>1, AppendProperties
    <3>3. DOMAIN Append(chan[j], m[2]) = 1..(Len(chan[j]) + 1)
        BY <3>2, LenProperties
    <3>4. ASSUME NEW k \in DOMAIN chan'[j], chan'[j][k] = "Success"
          PROVE  m[2] = "Success" \/ \E l \in DOMAIN chan[j] : chan[j][l] = "Success"
        BY <2>2, <3>1, <3>2, <3>3, <3>4
    <3>5. m[2] = "Success" => Passing(j)
        BY <2>2 DEF ToldInv, HeardInv
    <3> QED
        BY <1>7, <3>4, <3>5 DEF Coming, At
  <2>3. chan'[j] = chan[j] \/ (j = m[1] /\ chan'[j] = Append(chan[j], m[2]))
      BY <1>2, <1>3 DEF Inv, DataInv
  <2> QED
      BY <2>1, <2>2, <2>3
<1> QED
    BY <1>1, <1>6, <1>8, CalmMoves

LEMMA sentAside ==
    ASSUME Inv, ToldInv, NEW g \in Goroutines, sent(g), run[g].op # "status"
    PROVE  ToldInv'
<1>1. Aside /\ chan' = chan /\ Return(g)
    BY AsideStill DEF sent, data, store, ToldInv
<1> QED
    BY <1>1, ReturnTold

(* The code of a status is kept once it was sent to the listener.          *)
LEMMA sentStatus ==
    ASSUME Inv, ToldInv, NEW g \in Goroutines, sent(g), run[g].op = "status"
    PROVE  ToldInv'
<1> DEFINE j == run[g].id
<1>1. /\ g = "signals" /\ chan' = chan /\ run' = [run EXCEPT !["signals"] = Frame]
      /\ action' = [action EXCEPT ![j].code = run[g].code]
      /\ UNCHANGED <<driver, signals, infos, saved, registered, told>>
    BY OpAt, Zenon DEF sent, Return, data, store
<1>2. Frame.op = "none" /\ Frame.sends = {}
    BY DEF Frame
<1>3. /\ \A h \in Goroutines : run'[h] = IF h = "signals" THEN Frame ELSE run[h]
      /\ \A i \in Ids : run'[i] = run[i]
    BY <1>1, GoroutinesTyped DEF Inv, FrameInv
<1> HIDE DEF Frame
<1>4. /\ \A i \in Ids : action'[i].type = action[i].type
      /\ \A i \in Ids : action'[i].code = IF i = j THEN run[g].code ELSE action[i].code
    BY <1>1 DEF Inv, ActInv
<1>5. \A i \in Ids : (Acted(i)' <=> Acted(i))
    BY <1>4 DEF Acted
<1>6. \A i : (Handling(i) <=> i = j) /\ ~Handling(i)' /\ ~Passing(i)'
    BY <1>1, <1>2, <1>3, GoroutinesTyped DEF Handling, Passing
<1>7. \A i : Passing(i) <=> i = j /\ run[g].code = "Success"
    BY <1>1, <1>6 DEF Passing
<1> HIDE DEF j
<1>8. OriginInv'
  <2>1. \A k \in DOMAIN signals : signals[k].kind = "status" => signals[k].id \in Ids
    <3>1. \A k \in DOMAIN signals : signals[k] \in Signals
        BY ElementOfSeq, LenProperties DEF Inv, DataInv
    <3> QED
        BY <3>1 DEF Signals
  <2>2. \A i \in Known : ~Acted(i)'
      BY <1>5, CharaAssumption DEF ToldInv, OriginInv
  <2>3. driver.enrolling # None => action'[driver.enrolling].type \in Types
      BY <1>4 DEF ToldInv, OriginInv, Acted, Inv, DataInv
  <2>4. \A k \in DOMAIN signals : signals[k].kind = "status" => action'[signals[k].id].type \in Types
      BY <1>4, <2>1 DEF ToldInv, OriginInv, Acted
  <2> QED
      BY <1>1, <1>2, <1>3, <2>2, <2>3, <2>4 DEF ToldInv, OriginInv, Acted
<1>9. OrderInv'
    BY <1>1, <1>4, <1>6, <1>7 DEF ToldInv, OrderInv, Late, Success, StatusOf
<1>10. HeardInv'
  <2>1. \A i \in Ids : Kept(i) \/ Passing(i) => Kept(i)'
      BY <1>1, <1>4, <1>6, <1>7 DEF Kept, ToldInv, OrderInv
  <2>2. \A i \in Ids : Coming(i)' => Kept(i)'
      BY <1>1, <1>3, <2>1 DEF Coming, At, ToldInv, HeardInv
  <2>3. \A i \in told' : Kept(i)'
      BY <1>1, <2>1 DEF ToldInv, HeardInv, Inv, DataInv
  <2>4. ASSUME NEW h \in Goroutines, NEW m \in run'[h].sends, m[2] = "Success"
        PROVE  h = "signals" /\ Passing(m[1])'
      BY <1>2, <1>3, <2>4 DEF ToldInv, HeardInv
  <2>5. ASSUME NEW h \in Goroutines, run'[h].op = "EnrollStop", run'[h].pc # "find", run'[h].told
        PROVE  /\ run'[h].id \in told'
               /\ run'[h].pc = "release" /\ run'[h].id \in registered' => run'[h].id \in saved'
      BY <1>1, <1>2, <1>3, <2>5 DEF ToldInv, HeardInv, At
  <2> QED
      BY <2>2, <2>3, <2>4, <2>5 DEF HeardInv, At
<1> QED
    BY <1>8, <1>9, <1>10 DEF ToldInv

LEMMA changedTold ==
    ASSUME Inv, ToldInv, NEW g \in Goroutines, changed(g)
    PROVE  ToldInv'
<1>1. /\ Aside /\ chan' = chan /\ run[g].pc = "send" /\ run[g].op # "status" /\ run[g] \in Frames
    BY AsideStill DEF changed, data, store, acts, ToldInv, At, Inv, FrameInv
<1> DEFINE r == [run[g] EXCEPT !.from = {}, !.into = {}, !.list = {}]
           found == run[g].type \in run[g].into
<1>2. r \in Frames /\ Alike(g, r)
    BY <1>1, Zenon DEF Frames, Alike
<1>3. run' = [run EXCEPT ![g] = WithDriver(g, r, found)]
    BY Zenon, Zenon DEF changed
<1> HIDE DEF r, found
<1> QED
    BY <1>1, <1>2, <1>3, WithDriverTold, Zenon

-----------------------------------------------------------------------------
(* Steps of the driver and of the bus.                                     *)
LEMMA ReportedLast ==
    ASSUME Inv, Report, NEW i, i = driver.enrolling
    PROVE  /\ \A k \in DOMAIN signals' :
                 \/ k \in DOMAIN signals /\ signals'[k] = signals[k]
                 \/ /\ \A l \in DOMAIN signals : l < k
                    /\ \A j : StatusOf(signals'[k], j) => j = i
                    /\ \A j : Success(signals'[k], j) =>
                          /\ i \in driver'.stored
                          /\ \A l \in DOMAIN signals' : k < l => ~Late(signals'[l], j)
           /\ driver.stored \subseteq driver'.stored /\ driver'.enrolling = driver.enrolling
<1> DEFINE status == [kind |-> "status", id |-> i, code |-> "Success"]
           progress == [status EXCEPT !.code = "Progress"]
           n == Len(signals)
           stored == driver.stored \cup {i}
<1>1. i \in Ids
    BY DEF Report, Inv, DataInv
<1>2. /\ status \in Signals /\ progress \in Signals /\ Listed(stored) \in Signals
      /\ status.id = i /\ progress.id = i /\ progress.code = "Progress"
      /\ status.code = "Success" /\ Listed(stored).kind = "list"
    BY <1>1, CodesTyped DEF Signals, Listed, Inv, DataInv
<1>3. signals \in Seq(Signals) /\ n \in Nat /\ DOMAIN signals = 1..n
    BY LenProperties DEF Inv, DataInv
<1>4. \/ signals' = Append(signals, progress) /\ driver' = driver
      \/ /\ \/ signals' = signals \o <<status, Listed(stored)>>
            \/ signals' = signals \o <<Listed(stored), status>>
         /\ driver' = [driver EXCEPT !.stored = stored]
    BY Zenon DEF Report
<1> HIDE DEF status, progress, stored, n
<1>5. CASE signals' = Append(signals, progress) /\ driver' = driver
  <2>1. /\ DOMAIN signals' = 1..(n + 1) /\ \A k \in 1..n : signals'[k] = signals[k]
        /\ signals'[n + 1] = progress
      BY <1>2, <1>3, <1>5, AppendProperties, LenProperties DEF n
  <2>2. \A k \in DOMAIN signals' : k \in DOMAIN signals \/ k = n + 1
      BY <1>3, <2>1
  <2>3. \A j : (StatusOf(progress, j) => j = i) /\ ~Success(progress, j)
      BY <1>2 DEF StatusOf, Success
  <2> QED
      BY <1>3, <1>5, <2>1, <2>2, <2>3
<1>6. ASSUME NEW s \in Signals, NEW t \in Signals, signals' = signals \o <<s, t>>,
             driver' = [driver EXCEPT !.stored = stored],
             \/ s = status /\ t = Listed(stored)
             \/ s = Listed(stored) /\ t = status
      PROVE  /\ \A k \in DOMAIN signals' :
                   \/ k \in DOMAIN signals /\ signals'[k] = signals[k]
                   \/ /\ \A l \in DOMAIN signals : l < k
                      /\ \A j : StatusOf(signals'[k], j) => j = i
                      /\ \A j : Success(signals'[k], j) =>
                            /\ i \in driver'.stored
                            /\ \A l \in DOMAIN signals' : k < l => ~Late(signals'[l], j)
             /\ driver.stored \subseteq driver'.stored /\ driver'.enrolling = driver.enrolling
  <2>1. <<s, t>> \in Seq(Signals) /\ Len(<<s, t>>) = 2 /\ <<s, t>>[1] = s /\ <<s, t>>[2] = t
      BY <1>6
  <2>2. /\ signals' \in Seq(Signals) /\ Len(signals') = n + 2
        /\ \A k \in 1..(n + 2) : signals'[k] = IF k <= n THEN signals[k] ELSE <<s, t>>[k - n]
      BY <1>3, <1>6, <2>1, ConcatProperties DEF n
  <2>3. /\ DOMAIN signals' = 1..(n + 2) /\ \A k \in 1..n : signals'[k] = signals[k]
        /\ signals'[n + 1] = s /\ signals'[n + 2] = t
      BY <1>3, <2>1, <2>2, LenProperties
  <2>4. \A k \in DOMAIN signals' : k \in DOMAIN signals \/ k = n + 1 \/ k = n + 2
      BY <1>3, <2>3
  <2>5. \A j : /\ (StatusOf(s, j) => j = i) /\ (StatusOf(t, j) => j = i)
               /\ ~Late(s, j) /\ ~Late(t, j)
      BY <1>2, <1>6 DEF StatusOf, Late
  <2>6. \A k \in DOMAIN signals' : \A l \in DOMAIN signals' :
            k \notin DOMAIN signals /\ k < l => l \notin DOMAIN signals
      BY <1>3, <2>3
  <2>7. \A k \in DOMAIN signals' : k \notin DOMAIN signals =>
            \A j : ~Late(signals'[k], j)
      BY <2>3, <2>4, <2>5
  <2>8. driver'.stored = stored /\ driver'.enrolling = driver.enrolling
      BY <1>6 DEF Inv, DataInv
  <2>9. i \in stored /\ driver.stored \subseteq stored
      BY DEF stored
  <2>10. \A k \in DOMAIN signals' : k \notin DOMAIN signals =>
            /\ \A l \in DOMAIN signals : l < k
            /\ \A j : StatusOf(signals'[k], j) => j = i
      BY <1>3, <2>3, <2>4, <2>5
  <2> QED
      BY <1>3, <2>3, <2>6, <2>7, <2>8, <2>9, <2>10
<1> QED
    BY <1>2, <1>4, <1>5, <1>6, Zenon

(* Nothing was reported of the success before it: the driver had not       *)
(* stored the character.                                                   *)
LEMMA ReportTold ==
    ASSUME Inv, ToldInv, Report
    PROVE  ToldInv'
<1> DEFINE i == driver.enrolling
<1>1. /\ i \in Ids /\ i \notin driver.stored /\ Acted(i)
      /\ UNCHANGED <<infos, saved, registered, action, chan, run, told>>
    BY DEF Report, store, acts, ToldInv, OriginInv, Inv, DataInv
<1>2. /\ \A k \in DOMAIN signals' :
            \/ k \in DOMAIN signals /\ signals'[k] = signals[k]
            \/ /\ \A l \in DOMAIN signals : l < k
               /\ \A j : StatusOf(signals'[k], j) => j = i
               /\ \A j : Success(signals'[k], j) =>
                     /\ i \in driver'.stored
                     /\ \A l \in DOMAIN signals' : k < l => ~Late(signals'[l], j)
      /\ driver.stored \subseteq driver'.stored /\ driver'.enrolling = i
    BY ReportedLast
<1> HIDE DEF i
<1>3. OriginInv'
  <2>1. \A k \in DOMAIN signals' : signals'[k].kind = "status" => Acted(signals'[k].id)
      BY <1>1, <1>2 DEF ToldInv, OriginInv, StatusOf
  <2>2. Acted(driver'.enrolling)
      BY <1>1, <1>2
  <2> QED
      BY <1>1, <2>1, <2>2 DEF ToldInv, OriginInv, Acted
<1>4. OrderInv'
  <2> SUFFICES ASSUME NEW j \in Ids, j \notin saved
               PROVE  /\ action[j].code = "Success" \/ Passing(j) =>
                            /\ j \in driver'.stored /\ (Handling(j) => Passing(j))
                            /\ \A k \in DOMAIN signals' : ~Late(signals'[k], j)
                      /\ \A k \in DOMAIN signals' : Success(signals'[k], j) =>
                            /\ j \in driver'.stored
                            /\ \A l \in DOMAIN signals' : k < l => ~Late(signals'[l], j)
      BY <1>1 DEF OrderInv, Passing, Handling, Late, Success, StatusOf
  <2>1. /\ action[j].code = "Success" \/ Passing(j) =>
              /\ j \in driver.stored /\ (Handling(j) => Passing(j))
              /\ \A k \in DOMAIN signals : ~Late(signals[k], j)
        /\ \A k \in DOMAIN signals : Success(signals[k], j) =>
              /\ j \in driver.stored
              /\ \A l \in DOMAIN signals : k < l => ~Late(signals[l], j)
      BY DEF ToldInv, OrderInv
  <2>2. \A s : (Late(s, j) => StatusOf(s, j)) /\ (Success(s, j) => StatusOf(s, j))
      BY DEF Late, Success
  <2>3. j \in driver.stored => \A k \in DOMAIN signals' :
            Late(signals'[k], j) => k \in DOMAIN signals /\ signals'[k] = signals[k]
      BY <1>1, <1>2, <2>2
  <2>4. ASSUME NEW k \in DOMAIN signals', Success(signals'[k], j)
        PROVE  /\ j \in driver'.stored
               /\ \A l \in DOMAIN signals' : k < l => ~Late(signals'[l], j)
    <3>1. CASE k \in DOMAIN signals /\ signals'[k] = signals[k]
        BY <1>2, <2>1, <2>3, <2>4, <3>1
    <3>2. CASE ~(k \in DOMAIN signals /\ signals'[k] = signals[k])
        BY <1>2, <2>2, <2>4, <3>2
    <3> QED
        BY <3>1, <3>2
  <2> QED
      BY <1>2, <2>1, <2>3, <2>4
<1>5. HeardInv'
    BY <1>1 DEF ToldInv, HeardInv, Kept, Coming, Passing, Handling, At
<1> QED
    BY <1>3, <1>4, <1>5 DEF ToldInv

LEMMA OutsideTold ==
    ASSUME Inv, ToldInv, ChangeTypes \/ LoseDriver \/ LoseSender \/ UNCHANGED vars
    PROVE  ToldInv'
<1>1. UNCHANGED <<infos, saved, registered, action, chan, run, told>>
    BY Zenon DEF ChangeTypes, LoseDriver, LoseSender, vars, data, store, acts
<1>2. DriverAside
  <2>1. \/ driver' = driver
        \/ \E types \in SUBSET Types : driver' = [driver EXCEPT !.offers = types,
              !.enrolling = IF @ # None /\ action[@].type \notin types THEN None ELSE @]
        \/ driver' = [driver EXCEPT !.alive = FALSE, !.enrolling = None]
      BY Zenon DEF ChangeTypes, LoseDriver, LoseSender, vars, data
  <2>2. driver'.stored = driver.stored /\ driver'.enrolling \in {None, driver.enrolling}
      BY <2>1, Zenon DEF Inv, DataInv
  <2> QED
      BY <1>1, <2>2 DEF DriverAside, ToldInv, OriginInv, Acted
<1>3. SignalsAside
  <2>1. CASE signals' = signals
      BY <2>1, SignalsStill
  <2>2. CASE \E types \in SUBSET Types : signals' = Append(signals, [kind |-> "types", types |-> types])
    <3>1. PICK types \in SUBSET Types : signals' = Append(signals, [kind |-> "types", types |-> types])
        BY <2>2, Zenon
    <3>2. [kind |-> "types", types |-> types] \in Signals
        BY DEF Signals
    <3> QED
        BY <3>1, <3>2, SignalsAppend DEF Inv
  <2> QED
      BY <2>1, <2>2, Zenon DEF ChangeTypes, LoseDriver, LoseSender, vars, data
<1>4. Aside
    BY <1>1, <1>2, <1>3, ActsStill, StoreStill, ToldStill DEF Aside
<1>5. AllCalm /\ ChanAside
    BY <1>1, ChanStill DEF AllCalm
<1> QED
    BY <1>4, <1>5, CalmMoves

-----------------------------------------------------------------------------
LEMMA InitTold == Init => ToldInv
<1> SUFFICES ASSUME Init PROVE ToldInv
    OBVIOUS
<1>1. Frame.op = "none" /\ Frame.pc = "idle" /\ Frame.sends = {} /\ Frame.code = "Invalid"
    BY DEF Frame
<1>2. /\ \A g \in Goroutines : run[g] = Frame
      /\ signals = <<>> /\ told = {} /\ saved = {} /\ driver.enrolling = None
      /\ \A i \in Ids : action[i] = NoAction /\ chan[i] = <<>>
      /\ DOMAIN infos = Known
    BY DEF Init
<1> HIDE DEF Frame
<1>3. \A i \in Ids : ~Acted(i) /\ action[i].code = "Invalid"
    BY <1>2, CharaAssumption DEF Acted, NoAction
<1>4. OriginInv
    BY <1>1, <1>2, <1>3, CharaAssumption DEF OriginInv
<1>5. OrderInv
    BY <1>1, <1>2, <1>3, GoroutinesTyped DEF OrderInv, Passing, Handling
<1>6. HeardInv
    BY <1>1, <1>2, GoroutinesTyped DEF HeardInv, Coming, At
<1> QED
    BY <1>4, <1>5, <1>6 DEF ToldInv

LEMMA StepTold ==
    ASSUME Inv, ToldInv, NEW g \in Goroutines, Step(g)
    PROVE  ToldInv'
<1>1. CASE g \in Calls /\ CallStep(g)
    BY <1>1, checkTold, genIdTold, startTold, undoTold, keepInfoTold, findTold, checkCodeTold,
       saveInfoTold, renameTold, lookUpTold, deleteInDriverTold, listTold DEF CallStep
<1>2. CASE g \in Ids /\ (spawned(g) \/ receive(g) \/ look(g))
    BY <1>2, spawnedTold, receiveTold, lookTold
<1>3. CASE takeStatus \/ takeList \/ takeTypes \/ takeLost
    BY <1>3, takeStatusTold, takeListTold, takeTypesTold, takeLostTold
<1>4. CASE getDriver(g) \/ stop(g) \/ release(g)
    BY <1>4, getDriverTold, stopTold, releaseTold
<1>5. CASE changeList(g) \/ changeInfos(g) \/ changeActions(g)
    BY <1>5, changeTold, changeActionsTold
<1>6. CASE send(g) \/ sent(g) \/ changed(g)
    BY <1>6, sendTold, sentAside, sentStatus, changedTold
<1> QED
    BY <1>1, <1>2, <1>3, <1>4, <1>5, <1>6 DEF Step

LEMMA NextTold ==
    ASSUME Inv, ToldInv, [Next]_vars
    PROVE  ToldInv'
    BY BeginTold, StepTold, ReportTold, OutsideTold DEF Next

LEMMA ToldInvIsSaved == Inv /\ ToldInv => ToldIsSaved
<1> SUFFICES ASSUME Inv, ToldInv, NEW c \in Calls, At(c, "release"), run[c].op = "EnrollStop",
                    run[c].told, run[c].id \in registered
             PROVE  run[c].id \in saved
    BY DEF ToldIsSaved
<1> QED
    BY GoroutinesTyped DEF ToldInv, HeardInv, At

(* A client that calls EnrollStop after its listener was told of the       *)
(* success finds that code still kept, however the loop of signals, the    *)
(* listener and other calls interleave: its character is stored before the *)
(* action is released.                                                     *)
THEOREM SuccessIsSaved == Spec => []ToldIsSaved
<1>1. Init => Inv /\ ToldInv
    BY InitInv, InitTold
<1>2. Inv /\ ToldInv /\ [Next]_vars => (Inv /\ ToldInv)'
    BY NextInv, NextTold
<1>3. Inv /\ ToldInv => ToldIsSaved
    BY ToldInvIsSaved
<1> QED
    BY <1>1, <1>2, <1>3, PTL DEF Spec

-----------------------------------------------------------------------------
(* A goroutine goes on with what it does, returns, or begins.              *)
Others(g) == \A h \in Goroutines : h # g => run'[h] = run[h]

Walk(r, f) ==
    /\ f.op = r.op /\ f.sender = r.sender /\ f.type = r.type /\ f.id = r.id /\ r.op # "none"
    /\ f.list \subseteq r.list \cup driver.stored
    /\ f.code \in {r.code, "Invalid"} \/ r.pc = "receive"
    /\ f.pc \in InChange => r.pc \in InChange \cup {"getDriver"}
    /\ r.op = "EnrollStart" =>
          /\ f.pc \in {"undo", "store"} => r.pc = "start"
          /\ f.pc = "stop" => r.pc = "store"
          /\ f.pc = "release" => r.pc = "stop"
          /\ f.pc # "start"
    /\ r.op = "EnrollStop" =>
          /\ r.pc \notin {"find", "release"} /\ f.pc # "find"
          /\ f.pc = "save" => r.pc = "stop"
          /\ f.pc = "saveInfo" => r.pc = "save"
          /\ f.pc = "release" => r.pc \in {"save", "saveInfo"}
    /\ r.op = "Delete" => r.pc \notin {"lookUp", "forget"} /\ (f.pc = "forget" => r.pc = "delete")
    /\ r.op = "listen" => /\ f.pc \notin {"idle", "spawned"}
                          /\ f.pc = "release" => r.pc \in {"look", "getDriver", "stop", "send"}

Walks(g) == Others(g) /\ (run'[g] = Frame \/ Walk(run[g], run'[g]))

LEMMA FrameParts ==
    /\ Frame.pc = "idle" /\ Frame.op = "none" /\ Frame.sender = None /\ Frame.type = "none"
    /\ Frame.code = "Invalid" /\ Frame.sends = {} /\ Frame.list = {} /\ Frame.into = {}
    /\ Frame.id = None
    BY DEF Frame

LEMMA OneRuns ==
    ASSUME Inv, NEW g \in Goroutines, NEW f, run' = [run EXCEPT ![g] = f]
    PROVE  run'[g] = f /\ Others(g)
    BY DEF Inv, FrameInv, Others

LEMMA ReturnWalks ==
    ASSUME Inv, NEW g \in Goroutines, Return(g)
    PROVE  Walks(g) /\ run'[g] = Frame
    BY OneRuns, Zenon, Zenon DEF Return, Walks

(* It only changes its place.                                              *)
Places(g, p) ==
    /\ run'[g].pc = p /\ run'[g].op = run[g].op /\ run'[g].sender = run[g].sender
    /\ run'[g].type = run[g].type /\ run'[g].id = run[g].id /\ run'[g].code = run[g].code
    /\ run'[g].sends = run[g].sends /\ run'[g].list = run[g].list /\ run'[g].into = run[g].into

LEMMA GotoPlaces ==
    ASSUME Inv, NEW g \in Goroutines, NEW p \in Pcs, Goto(g, p)
    PROVE  Others(g) /\ Places(g, p)
<1> DEFINE f == [run[g] EXCEPT !.pc = p]
<1>1. run' = [run EXCEPT ![g] = f] /\ run[g] \in Frames
    BY DEF Goto, Inv, FrameInv
<1>2. f.list = run[g].list
    BY <1>1 DEF Frames
<1>3. /\ f.pc = p /\ f.op = run[g].op /\ f.sender = run[g].sender /\ f.type = run[g].type
      /\ f.id = run[g].id /\ f.code = run[g].code /\ f.sends = run[g].sends /\ f.into = run[g].into
    BY <1>1, GotoFrame
<1> HIDE DEF f
<1>4. run'[g] = f /\ Others(g)
    BY <1>1, OneRuns, Zenon
<1> QED
    BY <1>2, <1>3, <1>4 DEF Places

(* The steps of calls that neither begin nor choose an action.             *)
LEMMA CallWalks ==
    ASSUME Inv, NEW c \in Calls,
           \/ check(c) \/ checkName(c) \/ start(c) \/ undo(c) \/ checkCode(c) \/ saveInfo(c)
           \/ rename(c) \/ deleteInDriver(c) \/ forget(c) \/ lockInfos(c) \/ unlockInfos(c)
    PROVE  Walks(c)
<1>1. c \in Goroutines
    BY GoroutinesTyped
<1>2. CASE Return(c)
    BY <1>1, <1>2, ReturnWalks
<1>3. ASSUME NEW p \in Pcs, Goto(c, p), run[c].op # "none", p \notin InChange,
             run[c].op = "EnrollStart" =>
                \/ p \in {"checkName", "getDriver"}
                \/ p \in {"undo", "store"} /\ run[c].pc = "start",
             run[c].op = "EnrollStop" => \/ p = "saveInfo" /\ run[c].pc = "save"
                                         \/ p = "release" /\ run[c].pc \in {"save", "saveInfo"},
             run[c].op = "Delete" => p = "forget" /\ run[c].pc = "delete",
             run[c].op # "listen"
      PROVE  Walks(c)
  <2>1. Others(c) /\ Places(c, p)
      BY <1>1, <1>3, GotoPlaces
  <2> QED
      BY <1>3, <2>1 DEF Walks, Walk, Places
<1>4. CASE check(c)
  <2>1. run[c].op = "EnrollStart"
      BY <1>1, <1>4, OpAt DEF check, At
  <2> QED
      BY <1>2, <1>3, <1>4, <2>1 DEF check, Pcs, InChange
<1>5. CASE checkName(c)
  <2>1. run[c].op = "EnrollStart"
      BY <1>1, <1>5, OpAt DEF checkName, At
  <2> QED
      BY <1>2, <1>3, <1>5, <2>1 DEF checkName, Pcs, InChange
<1>6. CASE start(c)
  <2>1. run[c].op = "EnrollStart" /\ run[c].pc = "start"
      BY <1>1, <1>6, OpAt DEF start, At
  <2>2. Goto(c, "store") \/ Goto(c, "undo")
      BY <1>6 DEF start
  <2> QED
      BY <1>3, <2>1, <2>2 DEF Pcs, InChange
<1>7. CASE checkCode(c)
  <2>1. run[c].op = "EnrollStop" /\ run[c].pc = "save"
      BY <1>1, <1>7, OpAt DEF checkCode, At
  <2>2. Goto(c, "release") \/ Goto(c, "saveInfo")
      BY <1>7 DEF checkCode
  <2> QED
      BY <1>3, <2>1, <2>2 DEF Pcs, InChange
<1>8. CASE saveInfo(c)
  <2>1. run[c].op = "EnrollStop" /\ run[c].pc = "saveInfo"
      BY <1>1, <1>8, OpAt DEF saveInfo, At
  <2>2. Goto(c, "release")
      BY <1>8 DEF saveInfo
  <2> QED
      BY <1>3, <2>1, <2>2 DEF Pcs, InChange
<1>9. CASE deleteInDriver(c)
  <2>1. run[c].op = "Delete" /\ run[c].pc = "delete"
      BY <1>1, <1>9, OpAt DEF deleteInDriver, At
  <2>2. Goto(c, "forget") \/ Return(c)
      BY <1>9, Zenon, Zenon DEF deleteInDriver
  <2> QED
      BY <1>2, <1>3, <2>1, <2>2 DEF Pcs, InChange
<1>10. CASE lockInfos(c)
  <2>1. run[c].op = "List"
      BY <1>1, <1>10, OpAt DEF lockInfos, At
  <2>2. Goto(c, "getDriver")
      BY <1>10 DEF lockInfos
  <2> QED
      BY <1>3, <2>1, <2>2 DEF Pcs, InChange
<1> QED
    BY <1>2, <1>4, <1>5, <1>6, <1>7, <1>8, <1>9, <1>10 DEF undo, rename, forget, unlockInfos

(* The steps of listeners.                                                 *)
LEMMA ListenerWalks ==
    ASSUME Inv, NEW i \in Ids, spawned(i) \/ receive(i) \/ look(i)
    PROVE  /\ Walks(i) /\ run[i].op = "listen" /\ run[i].id = i
           /\ spawned(i) => Places(i, IF i \in codeChans THEN "receive" ELSE "waitForEver")
<1>1. i \in Goroutines
    BY GoroutinesTyped
<1>2. run[i].op = "listen" /\ run[i].pc \in {"spawned", "receive", "look"}
    BY <1>1, OpAt DEF spawned, receive, look, At
<1>3. run[i] \in Frames /\ run[i].id = i
    BY <1>1, <1>2 DEF Inv, FrameInv, Shape
<1>4. ASSUME NEW p, NEW q, run' = [run EXCEPT ![i].pc = p, ![i].code = q],
             p \notin {"idle", "spawned"} \cup InChange, p = "release" => run[i].pc = "look",
             q \in {run[i].code, "Invalid"} \/ run[i].pc = "receive"
      PROVE  Walks(i)
  <2> DEFINE f == [[run[i] EXCEPT !.pc = p] EXCEPT !.code = q]
  <2>1. /\ f.pc = p /\ f.op = run[i].op /\ f.sender = run[i].sender /\ f.type = run[i].type
        /\ f.id = run[i].id /\ f.list = run[i].list /\ f.code = q
      BY <1>3 DEF Frames
  <2>2. run' = [run EXCEPT ![i] = f]
      BY <1>1, <1>4, Zenon DEF Inv, FrameInv
  <2> HIDE DEF f
  <2>3. run'[i] = f /\ Others(i)
      BY <1>1, <2>2, OneRuns, Zenon
  <2> QED
      BY <1>2, <1>4, <2>1, <2>3, Zenon DEF Walks, Walk
<1>5. CASE spawned(i)
  <2>1. PICK p \in {"receive", "waitForEver"} :
           p = (IF i \in codeChans THEN "receive" ELSE "waitForEver") /\ Goto(i, p)
      BY <1>5 DEF spawned
  <2>2. Others(i) /\ Places(i, p)
      BY <1>1, <2>1, GotoPlaces DEF Pcs
  <2>3. Walks(i)
      BY <1>2, <2>1, <2>2 DEF Walks, Walk, Places, InChange
  <2> QED
      BY <1>2, <1>3, <2>1, <2>2, <2>3
<1>6. CASE receive(i)
  <2>1. Return(i) \/ run' = [run EXCEPT ![i].pc = "look", ![i].code = Head(chan[i])]
      BY <1>6 DEF receive
  <2>2. ~spawned(i)
      BY <1>6 DEF receive, spawned, At
  <2> QED
      BY <1>1, <1>2, <1>3, <1>4, <1>6, <2>1, <2>2, ReturnWalks DEF InChange, receive, At
<1>7. CASE look(i)
  <2>1. Return(i) \/ run' = [run EXCEPT ![i].pc = next(i)[1], ![i].code = next(i)[2]]
      BY <1>7 DEF look
  <2>2. ~spawned(i) /\ run[i].pc = "look"
      BY <1>7 DEF look, spawned, At
  <2>3. next(i)[1] \in {"getDriver", "release", "receive"} /\ next(i)[2] \in {run[i].code, "Invalid"}
      BY DEF next
  <2> QED
      BY <1>1, <1>2, <1>3, <1>4, <2>1, <2>2, <2>3, ReturnWalks, Zenon DEF InChange
<1> QED
    BY <1>5, <1>6, <1>7

(* The driver's end of an action, and its release.                         *)
LEMMA stopWalks ==
    ASSUME Inv, NEW g \in Goroutines, stop(g)
    PROVE  /\ Walks(g) /\ run[g].pc = "stop" /\ run[g].op \in {"EnrollStart", "EnrollStop", "listen"}
           /\ \/ run[g].op = "EnrollStop" /\ run'[g] = Frame /\ driver.enrolling # run[g].id
              \/ run[g].op = "EnrollStop" /\ Places(g, "save")
              \/ run[g].op # "EnrollStop" /\ Places(g, "release")
<1>1. run[g].pc = "stop" /\ run[g].op \in {"EnrollStart", "EnrollStop", "listen"}
    BY OpAt DEF stop, At
<1>2. \/ run[g].op = "EnrollStop" /\ Goto(g, "save")
      \/ run[g].op = "EnrollStop" /\ driver.enrolling # run[g].id /\ Return(g)
      \/ run[g].op # "EnrollStop" /\ Goto(g, "release")
    BY Zenon, Zenon DEF stop
<1>3. CASE run[g].op = "EnrollStop" /\ Goto(g, "save")
  <2>1. Others(g) /\ Places(g, "save")
      BY <1>3, GotoPlaces DEF Pcs
  <2> QED
      BY <1>1, <1>3, <2>1 DEF Walks, Walk, Places, InChange
<1>4. CASE run[g].op = "EnrollStop" /\ driver.enrolling # run[g].id /\ Return(g)
    BY <1>1, <1>4, ReturnWalks
<1>5. CASE run[g].op # "EnrollStop" /\ Goto(g, "release")
  <2>1. Others(g) /\ Places(g, "release")
      BY <1>5, GotoPlaces DEF Pcs
  <2> QED
      BY <1>1, <1>5, <2>1 DEF Walks, Walk, Places, InChange
<1> QED
    BY <1>2, <1>3, <1>4, <1>5

LEMMA releaseWalks ==
    ASSUME Inv, NEW g \in Goroutines, release(g)
    PROVE  /\ Walks(g) /\ run[g].pc = "release" /\ run[g].op \in {"EnrollStart", "EnrollStop", "listen"}
           /\ \/ run'[g] = Frame
              \/ /\ run[g].op = "listen" /\ run[g].code = GoneCode[run[g].type]
                 /\ run'[g].pc = "receive" /\ run'[g].code = "Invalid" /\ run'[g].sends = run[g].sends
                 /\ run'[g].list = run[g].list
<1>1. run[g].pc = "release" /\ run[g].op \in {"EnrollStart", "EnrollStop", "listen"}
    BY OpAt DEF release, At
<1>2. \/ Return(g)
      \/ /\ run[g].op = "listen" /\ run[g].code = GoneCode[run[g].type]
         /\ run' = [run EXCEPT ![g].pc = "receive", ![g].code = "Invalid"]
    BY DEF release
<1>3. CASE /\ run[g].op = "listen" /\ run[g].code = GoneCode[run[g].type]
           /\ run' = [run EXCEPT ![g].pc = "receive", ![g].code = "Invalid"]
  <2> DEFINE f == [[run[g] EXCEPT !.pc = "receive"] EXCEPT !.code = "Invalid"]
  <2>1. /\ f.pc = "receive" /\ f.op = run[g].op /\ f.sender = run[g].sender /\ f.type = run[g].type
        /\ f.id = run[g].id /\ f.code = "Invalid" /\ f.sends = run[g].sends /\ f.list = run[g].list
      BY DEF Inv, FrameInv, Frames
  <2>2. run' = [run EXCEPT ![g] = f]
      BY <1>3, Zenon DEF Inv, FrameInv
  <2> HIDE DEF f
  <2>3. run'[g] = f /\ Others(g)
      BY <2>2, OneRuns, Zenon
  <2> QED
      BY <1>1, <1>3, <2>1, <2>3, Zenon DEF Walks, Walk, InChange
<1> QED
    BY <1>1, <1>2, <1>3, ReturnWalks

(* GetDriver has answered.                                                 *)
Answered(g, found) ==
    /\ run[g].op \in {"EnrollStart", "EnrollStop", "Delete", "List", "listen"}
    /\ \/ run'[g] = Frame
       \/ /\ run'[g].op = run[g].op /\ run'[g].sender = run[g].sender /\ run'[g].type = run[g].type
          /\ run'[g].id = run[g].id /\ run'[g].code = run[g].code /\ run'[g].sends = {}
          /\ run'[g].list \subseteq run[g].list
          /\ \/ run[g].op = "EnrollStart" /\ run'[g].pc = "genId"
             \/ run[g].op = "EnrollStop" /\ run'[g].pc = "stop"
             \/ run[g].op = "Delete" /\ run'[g].pc = "delete"
             \/ run[g].op = "List" /\ run'[g].pc = "unlockInfos"
             \/ run[g].op = "listen" /\ run'[g].pc = IF found THEN "stop" ELSE "release"
    /\ run[g].op = "listen" => run'[g] # Frame

LEMMA WithDriverAnswers ==
    ASSUME Inv, NEW g \in Goroutines, run[g].pc \in {"getDriver", "send"}, run[g].sends = {},
           run[g].op \in {"EnrollStart", "EnrollStop", "Delete", "List", "listen", "types"},
           NEW r \in Frames, r.op = run[g].op, r.sender = run[g].sender, r.type = run[g].type,
           r.id = run[g].id, r.code = run[g].code, r.sends = {}, r.list \subseteq run[g].list,
           NEW found, run' = [run EXCEPT ![g] = WithDriver(g, r, found)]
    PROVE  /\ Walks(g) /\ (run[g].op = "types" => run'[g] = Frame)
           /\ run[g].op # "types" => Answered(g, found)
<1> DEFINE f == WithDriver(g, r, found)
           On(p) == [r EXCEPT !.pc = p, !.claim = FALSE]
<1>1. \/ f = On("genId") /\ r.op = "EnrollStart"
      \/ f = On("stop") /\ r.op = "EnrollStop"
      \/ f = On("delete") /\ r.op = "Delete"
      \/ f = On("unlockInfos") /\ r.op = "List"
      \/ r.op = "listen" /\ f = On(IF found THEN "stop" ELSE "release")
      \/ f = Frame /\ r.op # "listen"
    BY DEF WithDriver
<1>2. ASSUME NEW p
      PROVE  /\ On(p).pc = p /\ On(p).op = r.op /\ On(p).sender = r.sender /\ On(p).type = r.type
             /\ On(p).id = r.id /\ On(p).code = r.code /\ On(p).sends = {} /\ On(p).list = r.list
    BY DEF Frames
<1>3. run' = [run EXCEPT ![g] = f]
    OBVIOUS
<1> HIDE DEF f, On
<1>4. run'[g] = f /\ Others(g)
    BY <1>3, OneRuns, Zenon
<1>5. CASE f = Frame /\ r.op # "listen"
    BY <1>4, <1>5 DEF Walks, Answered
<1>6. ASSUME NEW p, f = On(p),
             \/ p = "genId" /\ r.op = "EnrollStart"
             \/ p = "stop" /\ r.op = "EnrollStop"
             \/ p = "delete" /\ r.op = "Delete"
             \/ p = "unlockInfos" /\ r.op = "List"
             \/ p = (IF found THEN "stop" ELSE "release") /\ r.op = "listen"
      PROVE  Walks(g) /\ Answered(g, found) /\ run[g].op # "types"
  <2>1. /\ f.pc = p /\ f.op = r.op /\ f.sender = r.sender /\ f.type = r.type
        /\ f.id = r.id /\ f.code = r.code /\ f.sends = {} /\ f.list = r.list
      BY <1>2, <1>6
  <2>2. p \in {"genId", "stop", "delete", "unlockInfos", "release"}
      BY <1>6
  <2>3. Walk(run[g], f)
      BY <1>6, <2>1, <2>2 DEF Walk, InChange
  <2>4. f # Frame
      BY <2>1, FrameParts
  <2> QED
      BY <1>4, <1>6, <2>1, <2>3, <2>4 DEF Walks, Answered
<1> QED
    BY <1>1, <1>5, <1>6

(* GetDriver: the driver is not there, or its types have changed, or it is *)
(* asked for the type.                                                     *)
LEMMA getDriverWalks ==
    ASSUME Inv, NEW g \in Goroutines, getDriver(g)
    PROVE  /\ Walks(g) /\ run[g].pc = "getDriver"
           /\ \/ (~driver.alive \/ driver.offers = {}) /\ Answered(g, FALSE)
              \/ /\ driver.offers # driverType
                 /\ run'[g].pc = "changeList" /\ run'[g].into = driver.offers
                 /\ run'[g].op = run[g].op /\ run'[g].sends = {} /\ run'[g].list = run[g].list
                 /\ run'[g].code = run[g].code
              \/ driver.offers = driverType /\ Answered(g, run[g].type \in driverType)
<1>1. /\ run[g].pc = "getDriver" /\ run[g] \in Frames
      /\ run[g].op \in {"EnrollStart", "EnrollStop", "Delete", "List", "listen"} /\ run[g].sends = {}
    BY AtCall DEF getDriver, At, Inv, FrameInv
<1> DEFINE busy == driver.enrolling # None
           r == [run[g] EXCEPT !.claim = busy]
<1>2. busy \in BOOLEAN
    OBVIOUS
<1>3. \/ (~driver.alive \/ driver.offers = {}) /\ run' = [run EXCEPT ![g] = WithDriver(g, r, FALSE)]
      \/ /\ driver.offers # driverType
         /\ run' = [run EXCEPT ![g] = [r EXCEPT !.pc = "changeList", !.from = driverType,
                                                !.into = driver.offers]]
      \/ /\ driver.offers = driverType
         /\ run' = [run EXCEPT ![g] = WithDriver(g, r, r.type \in driverType)]
    BY Zenon, Zenon DEF getDriver
<1> HIDE DEF busy
<1>4. /\ r \in Frames /\ r.op = run[g].op /\ r.sender = run[g].sender /\ r.type = run[g].type
      /\ r.id = run[g].id /\ r.code = run[g].code /\ r.sends = {} /\ r.list = run[g].list
    BY <1>1, <1>2 DEF Frames
<1> HIDE DEF r
<1>5. ASSUME NEW found, run' = [run EXCEPT ![g] = WithDriver(g, r, found)]
      PROVE  Walks(g) /\ Answered(g, found)
    BY <1>1, <1>4, <1>5, WithDriverAnswers, Zenon
<1>6. CASE /\ driver.offers # driverType
           /\ run' = [run EXCEPT ![g] = [r EXCEPT !.pc = "changeList", !.from = driverType,
                                                  !.into = driver.offers]]
  <2> DEFINE f == [r EXCEPT !.pc = "changeList", !.from = driverType, !.into = driver.offers]
  <2>1. /\ f.pc = "changeList" /\ f.into = driver.offers /\ f.op = r.op /\ f.sender = r.sender
        /\ f.type = r.type /\ f.id = r.id /\ f.code = r.code /\ f.sends = {} /\ f.list = r.list
      BY <1>4 DEF Frames
  <2>2. run' = [run EXCEPT ![g] = f]
      BY <1>6
  <2> HIDE DEF f
  <2>3. run'[g] = f /\ Others(g)
      BY <2>2, OneRuns, Zenon
  <2> QED
      BY <1>1, <1>4, <1>6, <2>1, <2>3, Zenon DEF Walks, Walk, InChange
<1> QED
    BY <1>1, <1>3, <1>4, <1>5, <1>6, Zenon

(* A change of the driver's types goes on.                                 *)
Hit(g) == {i \in registered : action[i].type \in run[g].from \ run[g].into}

LEMMA changeWalks ==
    ASSUME Inv, NEW g \in Goroutines, changeList(g) \/ changeInfos(g) \/ changeActions(g)
    PROVE  /\ Walks(g) /\ run[g].pc \in {"changeList", "changeInfos", "changeActions"}
           /\ Changing(run[g]) /\ run[g].sends = {}
           /\ run'[g].pc \in {"changeInfos", "changeActions", "send"}
           /\ run'[g].op = run[g].op /\ run'[g].type = run[g].type /\ run'[g].id = run[g].id
           /\ run'[g].code = run[g].code /\ run'[g].into = run[g].into
           /\ run'[g].list \in {run[g].list, driver.stored}
           /\ run'[g].sends = IF run'[g].pc = "send" THEN {<<i, "FaceGone">> : i \in Hit(g)} ELSE {}
<1>1. run[g].pc \in {"changeList", "changeInfos", "changeActions"} /\ run[g].pc \in InChange
    BY DEF changeList, changeInfos, changeActions, At, InChange
<1>2. run[g] \in Frames /\ Shape(g, run[g]) /\ Changing(run[g]) /\ run[g].sends = {}
    BY <1>1, AtChange DEF Inv
<1> DEFINE S == {<<i, "FaceGone">> : i \in Hit(g)}
           f1 == [run[g] EXCEPT !.pc = "changeActions"]
           f2 == [run[g] EXCEPT !.pc = "changeInfos", !.list = driver.stored]
           f3 == [run[g] EXCEPT !.pc = "send", !.sends = S]
<1>3. \E f \in {f1, f2, f3} : run' = [run EXCEPT ![g] = f]
  <2>1. changeList(g) \/ changeInfos(g) => run' = [run EXCEPT ![g] = f1] \/ run' = [run EXCEPT ![g] = f2]
      BY Zenon DEF changeList, changeInfos, Goto, Inv, FrameInv
  <2>2. changeActions(g) => run' = [run EXCEPT ![g] = f3]
      BY Zenon DEF changeActions, Hit, Inv, FrameInv
  <2> QED
      BY <2>1, <2>2
<1> HIDE DEF S
<1>4. /\ f1.pc = "changeActions" /\ f1.op = run[g].op /\ f1.sender = run[g].sender
      /\ f1.type = run[g].type /\ f1.id = run[g].id /\ f1.code = run[g].code /\ f1.sends = {}
      /\ f1.list = run[g].list /\ f1.into = run[g].into
    BY <1>2 DEF Frames
<1>5. /\ f2.pc = "changeInfos" /\ f2.op = run[g].op /\ f2.sender = run[g].sender
      /\ f2.type = run[g].type /\ f2.id = run[g].id /\ f2.code = run[g].code /\ f2.sends = {}
      /\ f2.list = driver.stored /\ f2.into = run[g].into
    BY <1>2 DEF Frames
<1>6. /\ f3.pc = "send" /\ f3.op = run[g].op /\ f3.sender = run[g].sender
      /\ f3.type = run[g].type /\ f3.id = run[g].id /\ f3.code = run[g].code /\ f3.sends = S
      /\ f3.list = run[g].list /\ f3.into = run[g].into
    BY <1>2 DEF Frames
<1> HIDE DEF f1, f2, f3
<1>7. PICK f \in {f1, f2, f3} : run'[g] = f /\ Others(g)
    BY <1>3, OneRuns, Zenon
<1>8. Walk(run[g], f)
    BY <1>1, <1>2, <1>4, <1>5, <1>6, <1>7 DEF Walk, Changing, InChange
<1> QED
    BY <1>1, <1>2, <1>4, <1>5, <1>6, <1>7, <1>8, Zenon DEF Walks, S

LEMMA changedWalks ==
    ASSUME Inv, NEW g \in Goroutines, changed(g)
    PROVE  /\ Walks(g) /\ run[g].pc = "send" /\ run[g].op \notin Loops
           /\ run[g].op = "types" => run'[g] = Frame
           /\ run[g].op # "types" => Answered(g, run[g].type \in run[g].into)
<1>1. run[g].pc = "send" /\ run[g].pc \in InChange /\ run[g].op \notin Loops /\ run[g].sends = {}
    BY DEF changed, At, InChange, Loops
<1>2. run[g] \in Frames /\ Changing(run[g])
    BY <1>1, AtChange DEF Inv, Sending
<1> DEFINE r == [run[g] EXCEPT !.from = {}, !.into = {}, !.list = {}]
<1>3. run' = [run EXCEPT ![g] = WithDriver(g, r, run[g].type \in run[g].into)]
    BY DEF changed
<1>4. /\ r \in Frames /\ r.op = run[g].op /\ r.sender = run[g].sender /\ r.type = run[g].type
      /\ r.id = run[g].id /\ r.code = run[g].code /\ r.sends = {} /\ r.list = {}
    BY <1>1, <1>2, Zenon DEF Frames
<1> HIDE DEF r
<1> QED
    BY <1>1, <1>2, <1>3, <1>4, WithDriverAnswers, Zenon DEF Changing

-----------------------------------------------------------------------------
(* What is queued for an action.                                           *)
Queued(i, x) == \E k \in DOMAIN chan[i] : chan[i][k] = x

LEMMA QueuedFirst ==
    ASSUME NEW q \in Seq(Codes), q # <<>>, NEW x
    PROVE  /\ Tail(q) \in Seq(Codes) /\ Head(q) \in Codes
           /\ (\E k \in DOMAIN q : q[k] = x) <=> Head(q) = x \/ \E k \in DOMAIN Tail(q) : Tail(q)[k] = x
<1>1. /\ Len(q) \in Nat /\ Len(q) # 0 /\ DOMAIN q = 1..Len(q) /\ Head(q) = q[1]
    BY LenProperties, EmptySeq
<1>2. /\ Tail(q) \in Seq(Codes) /\ Len(Tail(q)) = Len(q) - 1 /\ Head(q) \in Codes
      /\ \A k \in 1..Len(Tail(q)) : Tail(q)[k] = q[k + 1]
    BY HeadTailProperties
<1>3. DOMAIN Tail(q) = 1..(Len(q) - 1)
    BY <1>2, LenProperties
<1>4. ASSUME NEW k \in DOMAIN q, q[k] = x
      PROVE  Head(q) = x \/ \E l \in DOMAIN Tail(q) : Tail(q)[l] = x
  <2>1. CASE k = 1
      BY <1>1, <1>4, <2>1
  <2>2. CASE k # 1
    <3>1. k - 1 \in DOMAIN Tail(q) /\ Tail(q)[k - 1] = q[k]
        BY <1>1, <1>2, <1>3, <2>2
    <3> QED BY <1>4, <3>1
  <2> QED BY <2>1, <2>2
<1>5. ASSUME NEW l \in DOMAIN Tail(q), Tail(q)[l] = x
      PROVE  \E k \in DOMAIN q : q[k] = x
  <2>1. l + 1 \in DOMAIN q /\ q[l + 1] = x
      BY <1>1, <1>2, <1>3, <1>5
  <2> QED BY <2>1
<1>6. Head(q) = x => \E k \in DOMAIN q : q[k] = x
    BY <1>1
<1> QED
    BY <1>2, <1>4, <1>5, <1>6

LEMMA QueuedLast ==
    ASSUME NEW q \in Seq(Codes), NEW y \in Codes, NEW x
    PROVE  (\E k \in DOMAIN Append(q, y) : Append(q, y)[k] = x) <=> y = x \/ \E k \in DOMAIN q : q[k] = x
<1>1. /\ Len(q) \in Nat /\ DOMAIN q = 1..Len(q)
      /\ Append(q, y) \in Seq(Codes) /\ Len(Append(q, y)) = Len(q) + 1
      /\ \A k \in 1..Len(q) : Append(q, y)[k] = q[k]
      /\ Append(q, y)[Len(q) + 1] = y
    BY LenProperties, AppendProperties
<1>2. DOMAIN Append(q, y) = 1..(Len(q) + 1)
    BY <1>1, LenProperties
<1> QED
    BY <1>1, <1>2

LEMMA receiveQueued ==
    ASSUME Inv, NEW i \in Ids, receive(i)
    PROVE  /\ run[i].pc = "receive"
           /\ \A j \in Ids : j # i => chan'[j] = chan[j]
           /\ \/ run'[i] = Frame /\ chan' = chan /\ i \in closed
              \/ /\ run'[i].pc = "look" /\ run'[i].sends = {} /\ run'[i].list = run[i].list /\ chan[i] # <<>>
                 /\ \A x : Queued(i, x) <=> run'[i].code = x \/ Queued(i, x)'
<1>1. i \in Goroutines /\ run[i].pc = "receive" /\ run[i] \in Frames /\ run[i].sends = {}
    BY GoroutinesTyped, AtCall DEF receive, At, Inv, FrameInv
<1>2. CASE Return(i) /\ UNCHANGED chan /\ i \in closed
    BY <1>1, <1>2, ReturnWalks
<1>3. CASE /\ chan[i] # <<>>
           /\ run' = [run EXCEPT ![i].pc = "look", ![i].code = Head(chan[i])]
           /\ chan' = [chan EXCEPT ![i] = Tail(@)]
  <2> DEFINE f == [[run[i] EXCEPT !.pc = "look"] EXCEPT !.code = Head(chan[i])]
  <2>1. f.pc = "look" /\ f.sends = {} /\ f.list = run[i].list /\ f.code = Head(chan[i])
      BY <1>1 DEF Frames
  <2>2. run' = [run EXCEPT ![i] = f]
      BY <1>1, <1>3, Zenon DEF Inv, FrameInv
  <2> HIDE DEF f
  <2>3. run'[i] = f
      BY <1>1, <2>2, OneRuns, Zenon
  <2>4. chan'[i] = Tail(chan[i]) /\ chan[i] \in Seq(Codes) /\ \A j \in Ids : j # i => chan'[j] = chan[j]
      BY <1>3 DEF Inv, DataInv
  <2>5. ASSUME NEW x PROVE Queued(i, x) <=> run'[i].code = x \/ Queued(i, x)'
    <3> DEFINE q == chan[i]
    <3>1. (\E k \in DOMAIN q : q[k] = x) <=> Head(q) = x \/ \E k \in DOMAIN Tail(q) : Tail(q)[k] = x
        BY <1>3, <2>4, QueuedFirst, Zenon
    <3> QED
        BY <2>1, <2>3, <2>4, <3>1 DEF Queued
  <2> QED
      BY <1>1, <1>3, <2>1, <2>3, <2>4, <2>5, Zenon
<1> QED
    BY <1>2, <1>3, Zenon, Zenon DEF receive

LEMMA sendQueued ==
    ASSUME Inv, NEW g \in Goroutines, send(g)
    PROVE  /\ Walks(g) /\ run[g].pc = "send" /\ run'[g].pc = "send" /\ run'[g].op = run[g].op
           /\ run'[g].code = run[g].code /\ run'[g].list = run[g].list /\ run'[g].into = run[g].into
           /\ run'[g].id = run[g].id
           /\ \E m \in run[g].sends :
                 /\ m[1] \in Ids /\ m = <<m[1], m[2]>> /\ run'[g].sends = run[g].sends \ {m}
                 /\ \A i \in Ids : i # m[1] => chan'[i] = chan[i]
                 /\ \A x : Queued(m[1], x)' <=> Queued(m[1], x) \/ (m[2] = x /\ m[1] \notin closed)
<1>1. run[g].pc = "send" /\ run[g] \in Frames /\ run[g].op # "none"
    BY DEF send, At, Inv, FrameInv, Shape, Place
<1>2. PICK m \in run[g].sends :
          /\ chan' = [chan EXCEPT ![m[1]] = IF m[1] \in closed THEN @ ELSE Append(@, m[2])]
          /\ run' = [run EXCEPT ![g].sends = @ \ {m}]
    BY Zenon DEF send
<1> DEFINE f == [run[g] EXCEPT !.sends = @ \ {m}]
<1>3. m[1] \in Ids /\ m[2] \in Codes /\ m = <<m[1], m[2]>>
  <2>1. m \in Ids \X Codes
      BY <1>1, <1>2 DEF Frames
  <2> QED BY <2>1
<1>4. run' = [run EXCEPT ![g] = f]
    BY <1>2 DEF Inv, FrameInv
<1>5. /\ f.pc = "send" /\ f.op = run[g].op /\ f.sender = run[g].sender /\ f.type = run[g].type
      /\ f.id = run[g].id /\ f.code = run[g].code /\ f.list = run[g].list /\ f.into = run[g].into
      /\ f.sends = run[g].sends \ {m}
    BY <1>1 DEF Frames
<1> HIDE DEF f
<1>6. run'[g] = f /\ Others(g)
    BY <1>4, OneRuns, Zenon
<1>7. Walks(g)
    BY <1>1, <1>5, <1>6 DEF Walks, Walk, InChange
<1>8. /\ \A i \in Ids : i # m[1] => chan'[i] = chan[i]
      /\ \A x : Queued(m[1], x)' <=> Queued(m[1], x) \/ (m[2] = x /\ m[1] \notin closed)
  <2>1. /\ chan'[m[1]] = IF m[1] \in closed THEN chan[m[1]] ELSE Append(chan[m[1]], m[2])
        /\ \A i \in Ids : i # m[1] => chan'[i] = chan[i]
        /\ chan[m[1]] \in Seq(Codes)
      BY <1>2, <1>3 DEF Inv, DataInv
  <2>2. ASSUME NEW x PROVE Queued(m[1], x)' <=> Queued(m[1], x) \/ (m[2] = x /\ m[1] \notin closed)
    <3>1. CASE m[1] \in closed
        BY <2>1, <3>1 DEF Queued
    <3>2. CASE m[1] \notin closed
      <4> DEFINE q == chan[m[1]]
                 y == m[2]
      <4>1. q \in Seq(Codes) /\ y \in Codes
          BY <1>3, <2>1
      <4>2. chan'[m[1]] = Append(q, y)
          BY <2>1, <3>2
      <4>3. Queued(m[1], x) <=> \E k \in DOMAIN q : q[k] = x
          BY DEF Queued
      <4>4. Queued(m[1], x)' <=> \E k \in DOMAIN Append(q, y) : Append(q, y)[k] = x
          BY <4>2 DEF Queued
      <4> HIDE DEF q
      <4>5. y = m[2]
          OBVIOUS
      <4> HIDE DEF y
      <4>6. (\E k \in DOMAIN Append(q, y) : Append(q, y)[k] = x) <=> y = x \/ \E k \in DOMAIN q : q[k] = x
          BY <4>1, QueuedLast
      <4> QED
          BY <3>2, <4>3, <4>4, <4>5, <4>6
    <3> QED
        BY <3>1, <3>2
  <2> QED
      BY <2>1, <2>2
<1> QED
    BY <1>1, <1>2, <1>3, <1>5, <1>6, <1>7, <1>8

-----------------------------------------------------------------------------
(* A call begins, or finds the action or the character that it is about.   *)
Begun(c) ==
    /\ Others(c) /\ run[c].pc = "idle" /\ run'[c].sender \in Senders /\ run'[c].list = {}
    /\ run'[c].sends = {} /\ run'[c].code = "Invalid"
    /\ LET s == run'[c].sender
       IN  \/ run'[c].op = "EnrollStart" /\ run'[c].pc = "check"
              /\ (s \in Hasty \/ ~Busy(s, "EnrollStop"))
           \/ run'[c].op = "EnrollStop" /\ run'[c].pc = "find"
              /\ (s \in Hasty \/ ~(Busy(s, "EnrollStart") \/ Busy(s, "EnrollStop")))
           \/ <<run'[c].op, run'[c].pc>> \in {<<"Rename", "rename">>, <<"Delete", "lookUp">>,
                                              <<"List", "lockInfos">>}

LEMMA BeginWalks ==
    ASSUME Inv, NEW c \in Calls, Begin(c)
    PROVE  Begun(c)
<1>1. c \in Goroutines /\ run[c].pc = "idle"
    BY GoroutinesTyped DEF Begin, At
<1>2. PICK s \in Senders \ gone, t \in Types, n \in Names :
          \/ /\ s \in Hasty \/ ~Busy(s, "EnrollStop")
             /\ Start(c, "EnrollStart", "check", s, t, n, None)
          \/ /\ s \in Hasty \/ ~(Busy(s, "EnrollStart") \/ Busy(s, "EnrollStop"))
             /\ Start(c, "EnrollStop", "find", s, "none", None, None)
          \/ \E m \in Names : Start(c, "Rename", "rename", s, t, n, m)
          \/ Start(c, "Delete", "lookUp", s, t, n, None)
          \/ Start(c, "List", "lockInfos", s, t, None, None)
    BY Zenon, Zenon DEF Begin
<1>3. ASSUME NEW op, NEW first, NEW y, NEW n1, NEW m, Start(c, op, first, s, y, n1, m)
      PROVE  /\ Others(c) /\ run'[c].op = op /\ run'[c].pc = first /\ run'[c].sender = s
             /\ run'[c].list = {} /\ run'[c].sends = {} /\ run'[c].code = "Invalid"
  <2> DEFINE f == [Frame EXCEPT !.op = op, !.pc = first, !.sender = s, !.type = y,
                                !.name = n1, !.newName = m]
  <2>1. f.op = op /\ f.pc = first /\ f.sender = s /\ f.list = {} /\ f.sends = {} /\ f.code = "Invalid"
      BY DEF Frame
  <2>2. run' = [run EXCEPT ![c] = f]
      BY <1>3 DEF Start
  <2> HIDE DEF f
  <2> QED
      BY <1>1, <2>1, <2>2, OneRuns, Zenon
<1>4. CASE /\ s \in Hasty \/ ~Busy(s, "EnrollStop")
           /\ Start(c, "EnrollStart", "check", s, t, n, None)
    BY <1>1, <1>3, <1>4 DEF Begun
<1>5. CASE /\ s \in Hasty \/ ~(Busy(s, "EnrollStart") \/ Busy(s, "EnrollStop"))
           /\ Start(c, "EnrollStop", "find", s, "none", None, None)
    BY <1>1, <1>3, <1>5 DEF Begun
<1>6. ASSUME NEW op, NEW first, NEW n1, NEW m, Start(c, op, first, s, t, n1, m),
             <<op, first>> \in {<<"Rename", "rename">>, <<"Delete", "lookUp">>, <<"List", "lockInfos">>}
      PROVE  Begun(c)
    BY <1>1, <1>3, <1>6 DEF Begun
<1> QED
    BY <1>2, <1>4, <1>5, <1>6

(* It goes on from p with i, and does not change what it is.               *)
Chosen(c, p, i) ==
    /\ Others(c) /\ run'[c].pc = p /\ run'[c].id = i /\ run'[c].op = run[c].op
    /\ run'[c].sender = run[c].sender /\ run'[c].code = run[c].code
    /\ run'[c].sends = run[c].sends /\ run'[c].list = run[c].list

LEMMA genIdWalks ==
    ASSUME Inv, NEW c \in Calls, genId(c)
    PROVE  /\ run[c].op = "EnrollStart" /\ run[c].pc = "genId" /\ run[c].sends = {}
           /\ \/ Walks(c) /\ run'[c] = Frame /\ UNCHANGED <<registered, action>>
              \/ \E i \in Ids :
                    /\ ~Acted(i) /\ registered' = registered \cup {i} /\ driver.alive
                    /\ \A j \in Ids : j # i => action'[j] = action[j]
                    /\ action'[i].sender = run[c].sender /\ action'[i].type = run[c].type
                    /\ Chosen(c, "start", i) /\ run'[c].type = run[c].type
<1>1. /\ c \in Goroutines /\ run[c].op = "EnrollStart" /\ run[c].pc = "genId" /\ run[c] \in Frames
      /\ run[c].sends = {}
    BY GoroutinesTyped, AtCall DEF genId, At, Inv, FrameInv
<1>2. CASE Return(c) /\ UNCHANGED <<registered, action>>
    BY <1>1, <1>2, ReturnWalks
<1>3. ASSUME NEW i \in Unused, registered' = registered \cup {i}, driver.alive,
             action' = [action EXCEPT ![i] = [NoAction EXCEPT !.sender = run[c].sender, !.type = run[c].type]],
             run' = [run EXCEPT ![c].pc = "start", ![c].id = i]
      PROVE  \E j \in Ids :
                /\ ~Acted(j) /\ registered' = registered \cup {j} /\ driver.alive
                /\ \A k \in Ids : k # j => action'[k] = action[k]
                /\ action'[j].sender = run[c].sender /\ action'[j].type = run[c].type
                /\ Chosen(c, "start", j) /\ run'[c].type = run[c].type
  <2>1. i \in Ids /\ ~Acted(i)
      BY CharaAssumption DEF Unused, NoAction, Acted
  <2> DEFINE f == [run[c] EXCEPT !.pc = "start", !.id = i]
             a == [NoAction EXCEPT !.sender = run[c].sender, !.type = run[c].type]
  <2>2. a.sender = run[c].sender /\ a.type = run[c].type
      BY DEF NoAction
  <2>3. /\ f.pc = "start" /\ f.id = i /\ f.op = run[c].op /\ f.sender = run[c].sender
        /\ f.code = run[c].code /\ f.sends = run[c].sends /\ f.list = run[c].list
        /\ f.type = run[c].type
      BY <1>1 DEF Frames
  <2>4. run' = [run EXCEPT ![c] = f] /\ action' = [action EXCEPT ![i] = a]
      BY <1>3, Zenon DEF Inv, FrameInv
  <2> HIDE DEF f, a
  <2>5. run'[c] = f /\ Others(c)
      BY <1>1, <2>4, OneRuns, Zenon
  <2>6. action'[i] = a /\ \A k \in Ids : k # i => action'[k] = action[k]
      BY <2>1, <2>4 DEF Inv, ActInv
  <2> QED
      BY <1>3, <2>1, <2>2, <2>3, <2>5, <2>6 DEF Chosen
<1>4. \/ Return(c) /\ UNCHANGED <<registered, action>>
      \/ /\ driver.alive
         /\ \E i \in Unused :
               /\ registered' = registered \cup {i}
               /\ action' = [action EXCEPT ![i] = [NoAction EXCEPT !.sender = run[c].sender, !.type = run[c].type]]
               /\ run' = [run EXCEPT ![c].pc = "start", ![c].id = i]
    BY DEF genId
<1> QED
    BY <1>1, <1>2, <1>3, <1>4

LEMMA findWalks ==
    ASSUME Inv, NEW c \in Calls, find(c)
    PROVE  /\ run[c].op = "EnrollStop" /\ run[c].pc = "find" /\ run[c].sends = {}
           /\ \/ Walks(c) /\ run'[c] = Frame
              \/ \E i \in registered : /\ action[i].sender = run[c].sender
                                       /\ Chosen(c, "getDriver", i) /\ run'[c].type = action[i].type
<1>1. /\ c \in Goroutines /\ run[c].op = "EnrollStop" /\ run[c].pc = "find" /\ run[c] \in Frames
      /\ run[c].sends = {}
    BY GoroutinesTyped, AtCall, Zenon DEF find, At, Inv, FrameInv
<1>2. CASE Return(c)
    BY <1>1, <1>2, ReturnWalks
<1>3. ASSUME NEW i \in registered, action[i].sender = run[c].sender,
             run' = [run EXCEPT ![c].pc = "getDriver", ![c].id = i, ![c].type = action[i].type,
                                ![c].told = i \in told]
      PROVE  Chosen(c, "getDriver", i) /\ run'[c].type = action[i].type
  <2> DEFINE b == i \in told
             f == [run[c] EXCEPT !.pc = "getDriver", !.id = i, !.type = action[i].type, !.told = b]
  <2>1. run' = [run EXCEPT ![c] = f]
      BY <1>3, Zenon DEF Inv, FrameInv
  <2> HIDE DEF b
  <2>2. /\ f.pc = "getDriver" /\ f.id = i /\ f.op = run[c].op /\ f.sender = run[c].sender
        /\ f.code = run[c].code /\ f.sends = run[c].sends /\ f.list = run[c].list
        /\ f.type = action[i].type
      BY <1>1 DEF Frames
  <2> HIDE DEF f
  <2>3. run'[c] = f /\ Others(c)
      BY <1>1, <2>1, OneRuns, Zenon
  <2> QED
      BY <2>2, <2>3 DEF Chosen
<1> QED
    BY <1>1, <1>2, <1>3, Zenon DEF find

LEMMA lookUpWalks ==
    ASSUME Inv, NEW c \in Calls, lookUp(c)
    PROVE  /\ run[c].op = "Delete" /\ run[c].pc = "lookUp" /\ run[c].sends = {}
           /\ \/ Walks(c) /\ run'[c] = Frame
              \/ \E i \in Named(run[c].sender, run[c].type, run[c].name) :
                    Chosen(c, "getDriver", i) /\ run'[c].type = run[c].type
<1>1. /\ c \in Goroutines /\ run[c].op = "Delete" /\ run[c].pc = "lookUp" /\ run[c] \in Frames
      /\ run[c].sends = {}
    BY GoroutinesTyped, AtCall DEF lookUp, At, Inv, FrameInv
<1>2. CASE Return(c)
    BY <1>1, <1>2, ReturnWalks
<1>3. ASSUME NEW i \in Named(run[c].sender, run[c].type, run[c].name),
             run' = [run EXCEPT ![c].pc = "getDriver", ![c].id = i]
      PROVE  Chosen(c, "getDriver", i) /\ run'[c].type = run[c].type
  <2> DEFINE f == [run[c] EXCEPT !.pc = "getDriver", !.id = i]
  <2>1. run' = [run EXCEPT ![c] = f]
      BY <1>3, Zenon DEF Inv, FrameInv
  <2>2. /\ f.pc = "getDriver" /\ f.id = i /\ f.op = run[c].op /\ f.sender = run[c].sender
        /\ f.code = run[c].code /\ f.sends = run[c].sends /\ f.list = run[c].list
        /\ f.type = run[c].type
      BY <1>1 DEF Frames
  <2> HIDE DEF f
  <2>3. run'[c] = f /\ Others(c)
      BY <1>1, <2>1, OneRuns, Zenon
  <2> QED
      BY <2>2, <2>3 DEF Chosen
<1> QED
    BY <1>1, <1>2, <1>3 DEF lookUp

(* EnrollStart ends and leaves its action to the listener.                 *)
Listens(c, i) ==
    /\ run'[c] = Frame /\ run'[i].op = "listen" /\ run'[i].pc = "spawned" /\ run'[i].id = i
    /\ run'[i].type = run[c].type /\ run'[i].list = {} /\ run'[i].sends = {} /\ run'[i].code = "Invalid"
    /\ \A h \in Goroutines : h \notin {c, i} => run'[h] = run[h]

LEMMA keepInfoWalks ==
    ASSUME Inv, NEW c \in Calls, keepInfo(c)
    PROVE  /\ run[c].op = "EnrollStart" /\ run[c].pc = "store" /\ run[c].id \in Ids
           /\ \/ /\ Walks(c) /\ Places(c, "stop") /\ action' = action
                 /\ run[c].id \notin registered \/ run[c].sender \in gone
              \/ /\ run[c].id \in registered /\ run[c].sender \notin gone
                 /\ Listens(c, run[c].id)
                 /\ \A j \in Ids : /\ action'[j].sender = action[j].sender
                                   /\ action'[j].type = action[j].type
                                   /\ action'[j].code = action[j].code
<1>1. /\ c \in Goroutines /\ run[c].op = "EnrollStart" /\ run[c].pc = "store" /\ run[c].id \in Ids
  <2>1. c \in Goroutines /\ run[c].op = "EnrollStart" /\ run[c].pc = "store"
      BY GoroutinesTyped, OpAt DEF keepInfo, At
  <2>2. Shape(c, run[c])
      BY <2>1 DEF Inv, FrameInv
  <2> QED
      BY <2>1, <2>2 DEF Shape
<1>2. CASE Goto(c, "stop") /\ UNCHANGED action /\ ~(run[c].id \in registered /\ run[c].sender \notin gone)
  <2>1. Others(c) /\ Places(c, "stop")
      BY <1>1, <1>2, GotoPlaces DEF Pcs
  <2>2. Walks(c)
      BY <1>1, <2>1 DEF Walks, Walk, Places, InChange
  <2> QED
      BY <1>1, <1>2, <2>1, <2>2
<1>3. CASE /\ run[c].id \in registered /\ run[c].sender \notin gone
           /\ action' = [action EXCEPT ![run[c].id].name = run[c].name]
           /\ run' = [run EXCEPT ![c] = Frame,
                         ![run[c].id] = [Frame EXCEPT !.op = "listen", !.pc = "spawned",
                                                      !.id = run[c].id, !.type = run[c].type]]
  <2> DEFINE i == run[c].id
             f == [Frame EXCEPT !.op = "listen", !.pc = "spawned", !.id = i, !.type = run[c].type]
  <2>1. /\ f.op = "listen" /\ f.pc = "spawned" /\ f.id = i /\ f.type = run[c].type /\ f.list = {}
        /\ f.sends = {} /\ f.code = "Invalid"
      BY DEF Frame
  <2>2. \A g \in Goroutines : run'[g] = IF g = i THEN f ELSE IF g = c THEN Frame ELSE run[g]
      BY <1>1, <1>3, GoroutinesTyped DEF Inv, FrameInv
  <2> HIDE DEF f
  <2>3. Listens(c, i)
      BY <1>1, <2>1, <2>2, GoroutinesTyped DEF Listens
  <2>4. \A j \in Ids : /\ action'[j].sender = action[j].sender /\ action'[j].type = action[j].type
                       /\ action'[j].code = action[j].code
      BY <1>3 DEF Inv, ActInv
  <2> QED
      BY <1>1, <1>3, <2>3, <2>4
<1> QED
    BY <1>2, <1>3 DEF keepInfo

-----------------------------------------------------------------------------
(* The loops take a status, new types, a lost name.                        *)
Looped(g) ==
    /\ g \in {"signals", "names"} /\ Others(g) /\ run[g].pc = "idle"
    /\ run'[g].op \in {"status", "types", "names"} /\ run'[g].list = {}

LEMMA takeStatusWalks ==
    ASSUME Inv, takeStatus
    PROVE  LET h == Head(signals)
           IN  /\ signals # <<>> /\ signals' = Tail(signals) /\ h.kind = "status" /\ run["signals"].pc = "idle"
               /\ \/ run' = run
                  \/ /\ Looped("signals") /\ run'["signals"].op = "status" /\ run'["signals"].pc = "send"
                     /\ run'["signals"].id = h.id /\ run'["signals"].code = h.code
                     /\ run'["signals"].sends = {<<h.id, h.code>>} /\ h.id \in registered
<1> DEFINE h == Head(signals)
           f == [Frame EXCEPT !.op = "status", !.pc = "send", !.id = h.id, !.code = h.code,
                              !.sends = {<<h.id, h.code>>}]
<1>1. /\ signals # <<>> /\ signals' = Tail(signals) /\ h.kind = "status" /\ run["signals"].pc = "idle"
      /\ run' = run \/ (run' = [run EXCEPT !["signals"] = f] /\ h.id \in registered)
    BY DEF takeStatus, At
<1>2. /\ f.op = "status" /\ f.pc = "send" /\ f.id = h.id /\ f.code = h.code
      /\ f.sends = {<<h.id, h.code>>} /\ f.list = {}
    BY DEF Frame
<1> HIDE DEF f, h
<1>3. CASE run' = [run EXCEPT !["signals"] = f] /\ h.id \in registered
  <2>1. run'["signals"] = f /\ Others("signals")
      BY <1>3, OneRuns, GoroutinesTyped, Zenon
  <2> QED
      BY <1>1, <1>2, <1>3, <2>1 DEF Looped, h
<1> QED
    BY <1>1, <1>3 DEF h

LEMMA takeTypesWalks ==
    ASSUME Inv, takeTypes
    PROVE  LET new == Head(signals).types
           IN  /\ signals # <<>> /\ signals' = Tail(signals) /\ Head(signals).kind = "types"
               /\ run["signals"].pc = "idle" /\ driverType' = new
               /\ \/ run' = run
                  \/ /\ Looped("signals") /\ run'["signals"].op = "types"
                     /\ run'["signals"].pc = "changeList" /\ run'["signals"].into = new
                     /\ run'["signals"].sends = {} /\ run'["signals"].code = "Invalid"
<1> DEFINE new == Head(signals).types
           f == [Frame EXCEPT !.op = "types", !.pc = "changeList", !.from = driverType, !.into = new]
<1>1. /\ signals # <<>> /\ signals' = Tail(signals) /\ Head(signals).kind = "types"
      /\ run["signals"].pc = "idle" /\ driverType' = new
      /\ run' = run \/ run' = [run EXCEPT !["signals"] = f]
    BY DEF takeTypes, At
<1>2. /\ f.op = "types" /\ f.pc = "changeList" /\ f.into = new /\ f.sends = {} /\ f.list = {}
      /\ f.code = "Invalid"
    BY DEF Frame
<1> HIDE DEF f, new
<1>3. CASE run' = [run EXCEPT !["signals"] = f]
  <2>1. run'["signals"] = f /\ Others("signals")
      BY <1>3, OneRuns, GoroutinesTyped, Zenon
  <2> QED
      BY <1>1, <1>2, <2>1 DEF Looped, new
<1> QED
    BY <1>1, <1>3 DEF new

LEMMA takeLostWalks ==
    ASSUME Inv, takeLost
    PROVE  /\ Looped("names") /\ run'["names"].op = "names" /\ run'["names"].pc = "send"
           /\ run'["names"].code = "Invalid" /\ run["names"].sends = {}
           /\ \E n \in lost :
                 /\ lost' = lost \ {n}
                 /\ run'["names"].sends =
                       {<<i, LostCode[action[i].type]>> : i \in {j \in registered : action[j].sender = n}}
                       \cup {<<i, GoneCode[action[i].type]>> : i \in {j \in registered : n = Driver}}
<1>1. PICK n \in lost :
          /\ lost' = lost \ {n}
          /\ run' = [run EXCEPT !["names"] = [Frame EXCEPT !.op = "names", !.pc = "send", !.sends =
                {<<i, LostCode[action[i].type]>> : i \in {j \in registered : action[j].sender = n}}
                \cup {<<i, GoneCode[action[i].type]>> : i \in {j \in registered : n = Driver}}]]
    BY Zenon DEF takeLost
<1>2. run["names"].pc = "idle" /\ run["names"].sends = {}
    BY AtCall, GoroutinesTyped DEF takeLost, At, Inv
<1> DEFINE S == {<<i, LostCode[action[i].type]>> : i \in {j \in registered : action[j].sender = n}}
                \cup {<<i, GoneCode[action[i].type]>> : i \in {j \in registered : n = Driver}}
           f == [Frame EXCEPT !.op = "names", !.pc = "send", !.sends = S]
<1>3. run' = [run EXCEPT !["names"] = f]
    BY <1>1
<1> HIDE DEF S
<1>4. f.op = "names" /\ f.pc = "send" /\ f.sends = S /\ f.list = {} /\ f.code = "Invalid"
    BY DEF Frame
<1> HIDE DEF f
<1>5. run'["names"] = f /\ Others("names")
    BY <1>3, OneRuns, GoroutinesTyped, Zenon
<1> QED
    BY <1>1, <1>2, <1>4, <1>5, Zenon DEF Looped, S

(* What a call does that chooses its action.                               *)
Generates(c) ==
    /\ run[c].op = "EnrollStart" /\ run[c].pc = "genId"
    /\ \E i \in Ids : /\ ~Acted(i) /\ registered' = registered \cup {i}
                      /\ action'[i].sender = run[c].sender /\ action'[i].type = run[c].type
                      /\ Chosen(c, "start", i) /\ run'[c].type = run[c].type
Finds(c) ==
    /\ run[c].op = "EnrollStop" /\ run[c].pc = "find"
    /\ \E i \in registered : /\ action[i].sender = run[c].sender
                             /\ Chosen(c, "getDriver", i) /\ run'[c].type = action[i].type
LooksUp(c) ==
    /\ run[c].op = "Delete" /\ run[c].pc = "lookUp"
    /\ \E i \in Named(run[c].sender, run[c].type, run[c].name) :
          Chosen(c, "getDriver", i) /\ run'[c].type = run[c].type
Leaves(c) ==
    /\ run[c].op = "EnrollStart" /\ run[c].pc = "store" /\ run[c].id \in registered
    /\ run[c].sender \notin gone /\ Listens(c, run[c].id)

LEMMA StepWalks ==
    ASSUME Inv, NEW g \in Goroutines, Step(g)
    PROVE  \/ Walks(g)
           \/ run' = run
           \/ Looped(g)
           \/ g \in Calls /\ (Generates(g) \/ Finds(g) \/ LooksUp(g) \/ Leaves(g))
<1>1. CASE g \in Calls /\ CallStep(g)
  <2>1. CASE genId(g)
      BY <1>1, <2>1, genIdWalks DEF Generates
  <2>2. CASE find(g)
      BY <1>1, <2>2, findWalks DEF Finds
  <2>3. CASE lookUp(g)
      BY <1>1, <2>3, lookUpWalks DEF LooksUp
  <2>4. CASE keepInfo(g)
      BY <1>1, <2>4, keepInfoWalks DEF Leaves
  <2> QED
      BY <1>1, <2>1, <2>2, <2>3, <2>4, CallWalks DEF CallStep
<1>2. CASE g \in Ids /\ (spawned(g) \/ receive(g) \/ look(g))
    BY <1>2, ListenerWalks
<1>3. CASE g = "signals" /\ (takeStatus \/ takeList \/ takeTypes)
    BY <1>3, takeStatusWalks, takeTypesWalks DEF takeList
<1>4. CASE g = "names" /\ takeLost
    BY <1>4, takeLostWalks
<1>5. CASE getDriver(g) \/ stop(g) \/ release(g)
    BY <1>5, getDriverWalks, stopWalks, releaseWalks, Zenon
<1>6. CASE changeList(g) \/ changeInfos(g) \/ changeActions(g)
    BY <1>6, changeWalks, Zenon
<1>7. CASE send(g) \/ sent(g) \/ changed(g)
    BY <1>7, sendQueued, changedWalks, ReturnWalks DEF sent
<1> QED
    BY <1>1, <1>2, <1>3, <1>4, <1>5, <1>6, <1>7, Zenon, Zenon DEF Step

(* The place of a goroutine tells which step it takes.                     *)
LEMMA StepAt ==
    ASSUME Inv, NEW g \in Goroutines, Step(g)
    PROVE  /\ run[g].pc = "release" => release(g)
           /\ run[g].pc = "save" => checkCode(g)
           /\ run[g].pc = "saveInfo" => saveInfo(g)
           /\ run[g].pc = "forget" => forget(g)
           /\ run[g].pc = "stop" => stop(g)
           /\ run[g].pc = "start" => start(g)
           /\ run[g].pc = "undo" => undo(g)
           /\ run[g].pc = "store" => keepInfo(g)
           /\ run[g].pc = "lookUp" => lookUp(g)
           /\ run[g].pc = "getDriver" => getDriver(g)
           /\ run[g].pc \in {"changeList", "changeInfos", "changeActions"} =>
                 changeList(g) \/ changeInfos(g) \/ changeActions(g)
           /\ run[g].pc = "send" => send(g) \/ sent(g) \/ changed(g)
<1>1. CallStep(g) =>
          \/ run[g].pc \in {"check", "checkName", "genId", "find", "rename", "delete",
                            "lockInfos", "unlockInfos"}
          \/ run[g].pc = "start" /\ start(g)
          \/ run[g].pc = "undo" /\ undo(g)
          \/ run[g].pc = "store" /\ keepInfo(g)
          \/ run[g].pc = "save" /\ checkCode(g)
          \/ run[g].pc = "saveInfo" /\ saveInfo(g)
          \/ run[g].pc = "forget" /\ forget(g)
          \/ run[g].pc = "lookUp" /\ lookUp(g)
    BY Zenon DEF CallStep, check, checkName, genId, find, rename, lookUp, deleteInDriver, lockInfos,
           unlockInfos, start, undo, keepInfo, checkCode, saveInfo, forget, At
<1>2. spawned(g) \/ receive(g) \/ look(g) => run[g].pc \in {"spawned", "receive", "look"}
    BY DEF spawned, receive, look, At
<1>3. g = "signals" /\ (takeStatus \/ takeList \/ takeTypes) => run[g].pc = "idle"
    BY DEF takeStatus, takeList, takeTypes, At
<1>4. g = "names" /\ takeLost => run[g].pc = "idle"
    BY DEF takeLost, At
<1>5. /\ getDriver(g) => run[g].pc = "getDriver"
      /\ stop(g) => run[g].pc = "stop"
      /\ release(g) => run[g].pc = "release"
    BY Zenon DEF getDriver, stop, release, At
<1>6. /\ changeList(g) \/ changeInfos(g) \/ changeActions(g)
            => run[g].pc \in {"changeList", "changeInfos", "changeActions"}
      /\ send(g) \/ sent(g) \/ changed(g) => run[g].pc = "send"
    BY DEF changeList, changeInfos, changeActions, send, sent, changed, At
<1>7. Step(g) => \/ CallStep(g)
                 \/ spawned(g) \/ receive(g) \/ look(g)
                 \/ g = "signals" /\ (takeStatus \/ takeList \/ takeTypes)
                 \/ g = "names" /\ takeLost
                 \/ getDriver(g) \/ stop(g) \/ release(g)
                 \/ changeList(g) \/ changeInfos(g) \/ changeActions(g)
                 \/ send(g) \/ sent(g) \/ changed(g)
    BY Zenon, Zenon DEF Step
<1> HIDE DEF Step
<1> QED
    BY <1>1, <1>2, <1>3, <1>4, <1>5, <1>6, <1>7 DEF InChange

(* An action keeps its sender and its type, and its code but for the       *)
(* status that is passed on.                                               *)
LEMMA ActionKept ==
    ASSUME Inv, [Next]_vars, NEW j \in Ids, Acted(j)
    PROVE  /\ action'[j].sender = action[j].sender /\ action'[j].type = action[j].type
           /\ \/ action'[j].code = action[j].code
              \/ Handling(j) /\ action'[j].code = run["signals"].code
<1>1. CASE action' = action
    BY <1>1
<1>2. ASSUME NEW c \in Calls, genId(c) \/ keepInfo(c)
      PROVE  action'[j].sender = action[j].sender /\ action'[j].type = action[j].type
             /\ action'[j].code = action[j].code
    BY <1>2, genIdWalks, keepInfoWalks
<1>3. ASSUME NEW g \in Goroutines, sent(g)
      PROVE  /\ action'[j].sender = action[j].sender /\ action'[j].type = action[j].type
             /\ \/ action'[j].code = action[j].code
                \/ Handling(j) /\ action'[j].code = run["signals"].code
  <2>1. CASE run[g].op = "status"
    <3>1. g = "signals" /\ action' = [action EXCEPT ![run[g].id].code = run[g].code]
        BY <1>3, <2>1, OpAt DEF sent
    <3> QED
        BY <2>1, <3>1 DEF Handling, Inv, ActInv
  <2> QED
      BY <1>3, <2>1 DEF sent
<1>4. ASSUME NEW g \in Goroutines, Step(g)
      PROVE  \/ action' = action
             \/ g \in Calls /\ (genId(g) \/ keepInfo(g))
             \/ sent(g)
  <2>1. CallStep(g) => action' = action \/ genId(g) \/ keepInfo(g)
      BY Zenon DEF CallStep, check, checkName, start, undo, find, checkCode, saveInfo, rename, lookUp,
             deleteInDriver, forget, lockInfos, unlockInfos, acts
  <2>2. spawned(g) \/ receive(g) \/ look(g) => action' = action
      BY DEF spawned, receive, look, acts
  <2>3. takeStatus \/ takeList \/ takeTypes \/ takeLost => action' = action
      BY Zenon DEF takeStatus, takeList, takeTypes, takeLost, acts
  <2>4. getDriver(g) \/ stop(g) \/ release(g) => action' = action
      BY Zenon DEF getDriver, stop, release, acts
  <2>5. \/ changeList(g) \/ changeInfos(g) \/ changeActions(g) \/ send(g) \/ changed(g)
            => action' = action
      BY DEF changeList, changeInfos, changeActions, send, changed, acts
  <2> QED
      BY <1>4, <2>1, <2>2, <2>3, <2>4, <2>5, Zenon, Zenon DEF Step
<1>5. ASSUME \/ \E c \in Calls : Begin(c)
             \/ Report \/ ChangeTypes \/ LoseDriver \/ LoseSender \/ UNCHANGED vars
      PROVE  action' = action
    BY <1>5, Zenon DEF Begin, Report, ChangeTypes, LoseDriver, LoseSender, vars, acts
<1>6. \/ \E c \in Calls : Begin(c)
      \/ \E g \in Goroutines : Step(g)
      \/ Report \/ ChangeTypes \/ LoseDriver \/ LoseSender \/ UNCHANGED vars
    BY Zenon, Zenon DEF Next
<1> QED
    BY <1>1, <1>2, <1>3, <1>4, <1>5, <1>6

-----------------------------------------------------------------------------
(* Who holds what: an EnrollStart its new action, which has no listener    *)
(* yet, an EnrollStop and a listener the action of their sender and type.  *)
Holds(r) == r.op = "EnrollStart" /\ r.pc \in {"start", "undo", "store", "stop", "release"}

HolderInv ==
    /\ \A c \in Calls : Holds(run[c]) =>
          /\ action[run[c].id].sender = run[c].sender /\ action[run[c].id].type = run[c].type
          /\ run[run[c].id].pc = "idle"
          /\ \A d \in Calls : Holds(run[d]) /\ run[d].id = run[c].id => d = c
    /\ \A c \in Calls : run[c].op = "EnrollStop" /\ run[c].pc # "find"
                           => action[run[c].id].sender = run[c].sender
    /\ \A i \in Ids : run[i].op = "listen" => run[i].type = action[i].type

(* The action that is held has begun.                                      *)
LEMMA HeldActed ==
    ASSUME Inv, HolderInv, NEW c \in Calls
    PROVE  /\ Holds(run[c]) => run[c].id \in Ids /\ Acted(run[c].id)
           /\ run[c].op = "EnrollStop" /\ run[c].pc # "find" => run[c].id \in Ids /\ Acted(run[c].id)
           /\ run[c].op # "listen"
<1>1. c \in Goroutines /\ Shape(c, run[c])
    BY GoroutinesTyped DEF Inv, FrameInv
<1>2. run[c].op = "EnrollStop" /\ run[c].pc # "find" => Acted(run[c].id)
    BY <1>1 DEF Inv, ListenInv, OfAction
<1>3. Holds(run[c]) => run[c].id \in Ids /\ run[c].type \in Types
    BY <1>1 DEF Shape, Holds
<1> QED
    BY <1>1, <1>2, <1>3 DEF Shape, HolderInv, Acted, OpsOf

(* Steps that choose no action.                                            *)
LEMMA HolderMoves ==
    ASSUME Inv, HolderInv, NEW g \in Goroutines, Others(g),
           run'[g].op = "none" \/ Walk(run[g], run'[g]) \/ run[g].pc = "idle",
           run'[g].op = "none" => run'[g].pc = "idle",
           run[g].pc = "idle" => ~Holds(run'[g]) /\ (run'[g].op = "EnrollStop" => run'[g].pc = "find"),
           run[g].pc = "idle" => g \notin Ids,
           \A j \in Ids : Acted(j) => action'[j].sender = action[j].sender /\ action'[j].type = action[j].type
    PROVE  HolderInv'
<1>1. ASSUME NEW c \in Calls, Holds(run'[c])
      PROVE  Holds(run[c]) /\ run'[c].id = run[c].id /\ run'[c].sender = run[c].sender
             /\ run'[c].type = run[c].type
  <2>1. c \in Goroutines /\ run'[c].op # "none" /\ run'[c].pc # "idle"
      BY <1>1, GoroutinesTyped DEF Holds
  <2>2. run'[c] = run[c] \/ Walk(run[c], run'[c])
      BY <1>1, <2>1 DEF Others
  <2> QED
      BY <1>1, <2>2 DEF Holds, Walk
<1>2. ASSUME NEW c \in Calls, run'[c].op = "EnrollStop", run'[c].pc # "find"
      PROVE  run[c].op = "EnrollStop" /\ run[c].pc # "find" /\ run'[c].id = run[c].id
             /\ run'[c].sender = run[c].sender
  <2>1. c \in Goroutines
      BY GoroutinesTyped
  <2>2. run'[c] = run[c] \/ Walk(run[c], run'[c])
      BY <1>2, <2>1 DEF Others
  <2> QED
      BY <1>2, <2>2 DEF Walk
<1>3. ASSUME NEW i \in Ids
      PROVE  /\ run[i].pc = "idle" => run'[i].pc = "idle"
             /\ run'[i].op = "listen" => run[i].op = "listen" /\ run'[i].type = run[i].type
  <2>1. i \in Goroutines /\ (run[i].pc = "idle" => run[i].op = "none")
      BY GoroutinesTyped, AtCall DEF Inv
  <2>2. run'[i] = run[i] \/ run'[i].op = "none" \/ Walk(run[i], run'[i])
      BY <2>1 DEF Others
  <2> QED
      BY <2>1, <2>2 DEF Walk, Others
<1>4. ASSUME NEW c \in Calls, Holds(run'[c])
      PROVE  /\ action'[run'[c].id].sender = run'[c].sender /\ action'[run'[c].id].type = run'[c].type
             /\ run'[run'[c].id].pc = "idle"
             /\ \A d \in Calls : Holds(run'[d]) /\ run'[d].id = run'[c].id => d = c
  <2>1. run[c].id \in Ids /\ Acted(run[c].id)
      BY <1>1, <1>4, HeldActed
  <2> QED
      BY <1>1, <1>3, <1>4, <2>1 DEF HolderInv
<1>5. ASSUME NEW c \in Calls, run'[c].op = "EnrollStop", run'[c].pc # "find"
      PROVE  action'[run'[c].id].sender = run'[c].sender
    BY <1>2, <1>5, HeldActed DEF HolderInv
<1>6. ASSUME NEW i \in Ids, run'[i].op = "listen" PROVE run'[i].type = action'[i].type
  <2>1. run[i].op = "listen" /\ run'[i].type = run[i].type /\ i \in Goroutines
      BY <1>3, <1>6, GoroutinesTyped
  <2>2. run[i].id = i /\ Acted(run[i].id)
      BY <2>1 DEF Inv, FrameInv, Shape, ListenInv, OfAction
  <2> QED
      BY <2>1, <2>2 DEF HolderInv
<1> QED
    BY <1>4, <1>5, <1>6 DEF HolderInv, Holds

LEMMA HolderGenerates ==
    ASSUME Inv, HolderInv, NEW c \in Calls, Generates(c),
           \A j \in Ids : Acted(j) => action'[j].sender = action[j].sender /\ action'[j].type = action[j].type
    PROVE  HolderInv'
<1>1. PICK i \in Ids : /\ ~Acted(i) /\ action'[i].sender = run[c].sender /\ action'[i].type = run[c].type
                       /\ Chosen(c, "start", i) /\ run'[c].type = run[c].type
    BY DEF Generates
<1>2. /\ run[c].op = "EnrollStart" /\ run'[c].op = "EnrollStart" /\ run'[c].pc = "start"
      /\ run'[c].id = i /\ run'[c].sender = run[c].sender /\ run'[c].type = run[c].type
      /\ \A h \in Goroutines : h # c => run'[h] = run[h]
    BY <1>1 DEF Generates, Chosen, Others
<1>3. run[i].pc = "idle" /\ run'[i] = run[i]
    BY <1>1, <1>2, GoroutinesTyped DEF Inv, ListenInv
<1>4. ASSUME NEW d \in Calls, d # c, Holds(run'[d])
      PROVE  run'[d] = run[d] /\ Holds(run[d]) /\ run[d].id \in Ids /\ Acted(run[d].id) /\ run[d].id # i
    BY <1>1, <1>2, <1>4, HeldActed, GoroutinesTyped
<1>5. ASSUME NEW d \in Calls, Holds(run'[d])
      PROVE  /\ action'[run'[d].id].sender = run'[d].sender /\ action'[run'[d].id].type = run'[d].type
             /\ run'[run'[d].id].pc = "idle"
             /\ \A e \in Calls : Holds(run'[e]) /\ run'[e].id = run'[d].id => e = d
  <2>1. CASE d = c
      BY <1>1, <1>2, <1>3, <1>4, <2>1
  <2>2. CASE d # c
    <3>1. run'[run[d].id] = run[run[d].id]
        BY <1>2, <1>4, <1>5, <2>2, GoroutinesTyped
    <3> QED
        BY <1>2, <1>4, <1>5, <2>2, <3>1 DEF HolderInv
  <2> QED
      BY <2>1, <2>2
<1>6. ASSUME NEW d \in Calls, run'[d].op = "EnrollStop", run'[d].pc # "find"
      PROVE  action'[run'[d].id].sender = run'[d].sender
  <2>1. run'[d] = run[d]
      BY <1>2, <1>6, GoroutinesTyped
  <2> QED
      BY <1>6, <2>1, HeldActed DEF HolderInv
<1>7. ASSUME NEW j \in Ids, run'[j].op = "listen" PROVE run'[j].type = action'[j].type
  <2>1. run'[j] = run[j] /\ j \in Goroutines
      BY <1>2, GoroutinesTyped
  <2>2. run[j].id = j /\ Acted(run[j].id)
      BY <1>7, <2>1 DEF Inv, FrameInv, Shape, ListenInv, OfAction
  <2> QED
      BY <1>7, <2>1, <2>2 DEF HolderInv
<1> QED
    BY <1>5, <1>6, <1>7 DEF HolderInv, Holds

LEMMA HolderFinds ==
    ASSUME Inv, HolderInv, NEW c \in Calls, Finds(c) \/ LooksUp(c),
           \A j \in Ids : Acted(j) => action'[j].sender = action[j].sender /\ action'[j].type = action[j].type
    PROVE  HolderInv'
<1>1. /\ \A h \in Goroutines : h # c => run'[h] = run[h]
      /\ run'[c].op \in {"EnrollStop", "Delete"}
      /\ run'[c].op = "EnrollStop" => /\ run'[c].id \in registered
                                      /\ action[run'[c].id].sender = run'[c].sender
    BY DEF Finds, LooksUp, Chosen, Others
<1>2. ASSUME NEW d \in Calls, Holds(run'[d])
      PROVE  run'[d] = run[d] /\ Holds(run[d]) /\ run[d].id \in Ids /\ Acted(run[d].id)
             /\ run'[run[d].id] = run[run[d].id]
  <2>1. d # c /\ run'[d] = run[d]
      BY <1>1, <1>2, GoroutinesTyped DEF Holds
  <2>2. run[d].id \in Ids /\ Acted(run[d].id)
      BY <1>2, <2>1, HeldActed
  <2> QED
      BY <1>1, <1>2, <2>1, <2>2, GoroutinesTyped
<1>3. ASSUME NEW d \in Calls, run'[d].op = "EnrollStop", run'[d].pc # "find"
      PROVE  action'[run'[d].id].sender = run'[d].sender
  <2>1. CASE d = c
      BY <1>1, <1>3, <2>1 DEF Inv, ActInv
  <2>2. CASE d # c
    <3>1. run'[d] = run[d]
        BY <1>1, <2>2, GoroutinesTyped
    <3> QED
        BY <1>3, <3>1, HeldActed DEF HolderInv
  <2> QED
      BY <2>1, <2>2
<1>4. ASSUME NEW j \in Ids, run'[j].op = "listen" PROVE run'[j].type = action'[j].type
  <2>1. run'[j] = run[j] /\ j \in Goroutines
      BY <1>1, GoroutinesTyped
  <2>2. run[j].id = j /\ Acted(run[j].id)
      BY <1>4, <2>1 DEF Inv, FrameInv, Shape, ListenInv, OfAction
  <2> QED
      BY <1>4, <2>1, <2>2 DEF HolderInv
<1>5. ASSUME NEW d \in Calls, Holds(run'[d])
      PROVE  /\ action'[run'[d].id].sender = run'[d].sender /\ action'[run'[d].id].type = run'[d].type
             /\ run'[run'[d].id].pc = "idle"
             /\ \A e \in Calls : Holds(run'[e]) /\ run'[e].id = run'[d].id => e = d
    BY <1>2, <1>5 DEF HolderInv
<1> QED
    BY <1>3, <1>4, <1>5 DEF HolderInv, Holds

LEMMA HolderLeaves ==
    ASSUME Inv, HolderInv, NEW c \in Calls, Leaves(c),
           \A j \in Ids : Acted(j) => action'[j].sender = action[j].sender /\ action'[j].type = action[j].type
    PROVE  HolderInv'
<1> DEFINE i == run[c].id
<1>1. /\ run'[c].op = "none" /\ run'[i].op = "listen" /\ run'[i].type = run[c].type
      /\ \A h \in Goroutines : h \notin {c, i} => run'[h] = run[h]
      /\ Holds(run[c])
    BY FrameParts DEF Leaves, Listens, Holds
<1>2. i \in Ids /\ Acted(i)
    BY <1>1, HeldActed
<1>3. \A d \in Calls : d # c => run'[d] = run[d]
    BY <1>1, <1>2, GoroutinesTyped
<1>4. ASSUME NEW d \in Calls, Holds(run'[d])
      PROVE  /\ d # c /\ run'[d] = run[d] /\ Holds(run[d]) /\ run[d].id \in Ids /\ Acted(run[d].id)
             /\ run[d].id # i /\ run'[run[d].id] = run[run[d].id]
  <2>1. d # c /\ run'[d] = run[d]
      BY <1>1, <1>3, <1>4 DEF Holds
  <2>2. run[d].id \in Ids /\ Acted(run[d].id)
      BY <1>4, <2>1, HeldActed
  <2>3. run[d].id # i
      BY <1>1, <1>4, <2>1 DEF HolderInv
  <2> QED
      BY <1>1, <1>4, <2>1, <2>2, <2>3, GoroutinesTyped
<1>5. ASSUME NEW d \in Calls, Holds(run'[d])
      PROVE  /\ action'[run'[d].id].sender = run'[d].sender /\ action'[run'[d].id].type = run'[d].type
             /\ run'[run'[d].id].pc = "idle"
             /\ \A e \in Calls : Holds(run'[e]) /\ run'[e].id = run'[d].id => e = d
    BY <1>4, <1>5 DEF HolderInv
<1>6. ASSUME NEW d \in Calls, run'[d].op = "EnrollStop", run'[d].pc # "find"
      PROVE  action'[run'[d].id].sender = run'[d].sender
  <2>1. run'[d] = run[d]
      BY <1>1, <1>3, <1>6
  <2> QED
      BY <1>6, <2>1, HeldActed DEF HolderInv
<1>7. ASSUME NEW j \in Ids, run'[j].op = "listen" PROVE run'[j].type = action'[j].type
  <2>1. CASE j = i
      BY <1>1, <1>2, <2>1 DEF HolderInv
  <2>2. CASE j # i
    <3>1. run'[j] = run[j] /\ j \in Goroutines
        BY <1>1, <2>2, GoroutinesTyped
    <3>2. run[j].id = j /\ Acted(run[j].id)
        BY <1>7, <3>1 DEF Inv, FrameInv, Shape, ListenInv, OfAction
    <3> QED
        BY <1>7, <3>1, <3>2 DEF HolderInv
  <2> QED
      BY <2>1, <2>2
<1> QED
    BY <1>5, <1>6, <1>7 DEF HolderInv, Holds

LEMMA NextHolder ==
    ASSUME Inv, HolderInv, [Next]_vars
    PROVE  HolderInv'
<1>1. \A j \in Ids : Acted(j) => action'[j].sender = action[j].sender /\ action'[j].type = action[j].type
    BY ActionKept
<1>2. ASSUME run' = run PROVE HolderInv'
  <2>1. ASSUME NEW i \in Ids, run[i].op = "listen" PROVE Acted(i)
    <3>1. i \in Goroutines /\ run[i].id = i
        BY <2>1, GoroutinesTyped DEF Inv, FrameInv, Shape
    <3> QED
        BY <2>1, <3>1 DEF Inv, ListenInv, OfAction
  <2> QED
      BY <1>1, <1>2, <2>1, HeldActed DEF HolderInv, Holds
<1>3. ASSUME NEW g \in Goroutines, Walks(g) PROVE HolderInv'
  <2>1. run[g].pc = "idle" => run[g].op = "none"
      BY AtCall DEF Inv
  <2>2. run'[g] = Frame \/ Walk(run[g], run'[g])
      BY <1>3 DEF Walks
  <2>3. Others(g) /\ (run'[g].op = "none" \/ Walk(run[g], run'[g]))
        /\ (run'[g].op = "none" => run'[g].pc = "idle")
      BY <1>3, <2>2, FrameParts DEF Walks, Walk
  <2>4. CASE run[g].pc # "idle"
      BY <1>1, <2>3, <2>4, HolderMoves
  <2>5. CASE run[g].pc = "idle"
    <3>1. run'[g] = Frame
        BY <2>1, <2>2, <2>5 DEF Walk
    <3>2. \A h \in Goroutines : run'[h] = run[h] \/ (h = g /\ run'[h] = Frame)
        BY <2>3, <3>1 DEF Others
    <3>3. CASE g \notin Ids
        BY <1>1, <2>3, <2>5, <3>1, <3>3, HolderMoves, FrameParts DEF Holds
    <3>4. CASE g \in Ids
      <4>1. \A c \in Calls : run'[c] = run[c]
          BY <3>2, <3>4, GoroutinesTyped
      <4>2. \A i \in Ids : /\ run'[i].op = "listen" => run'[i] = run[i]
                           /\ run[i].pc = "idle" => run'[i].pc = "idle"
          BY <3>2, FrameParts, GoroutinesTyped
      <4>3. ASSUME NEW i \in Ids, run[i].op = "listen" PROVE Acted(i)
        <5>1. i \in Goroutines /\ run[i].id = i
            BY <4>3, GoroutinesTyped DEF Inv, FrameInv, Shape
        <5> QED
            BY <4>3, <5>1 DEF Inv, ListenInv, OfAction
      <4> QED
          BY <1>1, <4>1, <4>2, <4>3, HeldActed DEF HolderInv, Holds
    <3> QED
        BY <3>3, <3>4
  <2> QED
      BY <2>4, <2>5
<1>4. ASSUME NEW c \in Calls, Begin(c) PROVE HolderInv'
  <2>1. Begun(c) /\ c \in Goroutines /\ c \notin Ids
      BY <1>4, BeginWalks, GoroutinesTyped
  <2>2. /\ Others(c) /\ run[c].pc = "idle" /\ run'[c].op # "none" /\ ~Holds(run'[c])
        /\ run'[c].op = "EnrollStop" => run'[c].pc = "find"
      BY <2>1 DEF Begun, Holds
  <2> QED
      BY <1>1, <2>1, <2>2, HolderMoves
<1>5. ASSUME NEW g \in Goroutines, Looped(g) PROVE HolderInv'
  <2>1. g \notin Ids
      BY <1>5, GoroutinesTyped DEF Looped
  <2>2. /\ Others(g) /\ run[g].pc = "idle" /\ run'[g].op # "none" /\ ~Holds(run'[g])
        /\ run'[g].op # "EnrollStop"
      BY <1>5 DEF Looped, Holds
  <2> QED
      BY <1>1, <2>1, <2>2, HolderMoves
<1>6. ASSUME NEW g \in Goroutines, Step(g) PROVE HolderInv'
    BY <1>1, <1>2, <1>3, <1>5, <1>6, StepWalks, HolderGenerates, HolderFinds, HolderLeaves
<1>7. CASE Report \/ ChangeTypes \/ LoseDriver \/ LoseSender \/ UNCHANGED vars
  <2>1. run' = run
      BY <1>7, Zenon DEF Report, ChangeTypes, LoseDriver, LoseSender, vars
  <2> QED
      BY <1>2, <2>1
<1> QED
    BY <1>4, <1>6, <1>7 DEF Next

(* While clients are not hasty, an EnrollStop runs alone among the calls   *)
(* of EnrollStart and EnrollStop of its sender.                            *)
TurnInv ==
    \A c, d \in Calls :
        run[c].op = "EnrollStop" /\ run[d].op \in {"EnrollStart", "EnrollStop"}
            /\ run[c].sender = run[d].sender => c = d

LEMMA NextTurn ==
    ASSUME Inv, TurnInv, Hasty = {}, [Next]_vars
    PROVE  TurnInv'
<1>1. ASSUME \A c \in Calls : \/ run'[c].op = "none"
                              \/ run'[c].op = run[c].op /\ run'[c].sender = run[c].sender
      PROVE  TurnInv'
  <2> SUFFICES ASSUME NEW c \in Calls, NEW d \in Calls, run'[c].op = "EnrollStop",
                      run'[d].op \in {"EnrollStart", "EnrollStop"}, run'[c].sender = run'[d].sender
               PROVE  c = d
      BY DEF TurnInv
  <2>1. /\ run[c].op = run'[c].op /\ run[c].sender = run'[c].sender
        /\ run[d].op = run'[d].op /\ run[d].sender = run'[d].sender
      BY <1>1
  <2> QED
      BY <2>1 DEF TurnInv
<1>2. ASSUME NEW g \in Goroutines, Step(g) PROVE TurnInv'
  <2>1. ASSUME NEW c \in Calls
        PROVE  \/ run'[c].op = "none"
               \/ run'[c].op = run[c].op /\ run'[c].sender = run[c].sender
    <3>1. c \in Goroutines /\ c \notin Ids /\ c # "signals" /\ c # "names"
        BY GoroutinesTyped
    <3>2. CASE Walks(g)
        BY <3>1, <3>2, FrameParts DEF Walks, Walk, Others
    <3>3. CASE Looped(g)
        BY <3>1, <3>3, Zenon DEF Looped, Others
    <3>4. CASE g \in Calls /\ (Generates(g) \/ Finds(g) \/ LooksUp(g))
        BY <3>1, <3>4 DEF Generates, Finds, LooksUp, Chosen, Others
    <3>5. CASE g \in Calls /\ Leaves(g)
      <4>1. run[g].id \in Ids
          BY <3>5 DEF Leaves, Inv, ActInv
      <4> QED
          BY <3>1, <3>5, <4>1, FrameParts DEF Leaves, Listens
    <3> QED
        BY <1>2, <3>2, <3>3, <3>4, <3>5, StepWalks
  <2> QED
      BY <1>1, <2>1
<1>3. ASSUME NEW c \in Calls, Begin(c) PROVE TurnInv'
  <2>1. Begun(c) /\ c \in Goroutines
      BY <1>3, BeginWalks, GoroutinesTyped
  <2>2. /\ \A d \in Calls : d # c => run'[d] = run[d]
        /\ LET s == run'[c].sender
           IN  /\ run'[c].op = "EnrollStart" => ~Busy(s, "EnrollStop")
               /\ run'[c].op = "EnrollStop" => ~Busy(s, "EnrollStart") /\ ~Busy(s, "EnrollStop")
      BY <2>1, GoroutinesTyped DEF Begun, Others
  <2> SUFFICES ASSUME NEW a \in Calls, NEW d \in Calls, run'[a].op = "EnrollStop",
                      run'[d].op \in {"EnrollStart", "EnrollStop"}, run'[a].sender = run'[d].sender
               PROVE  a = d
      BY DEF TurnInv
  <2>3. CASE a = c
      BY <2>2, <2>3 DEF Busy
  <2>4. CASE d = c
      BY <2>2, <2>4 DEF Busy
  <2>5. CASE a # c /\ d # c
      BY <2>2, <2>5 DEF TurnInv
  <2> QED
      BY <2>3, <2>4, <2>5
<1>4. CASE Report \/ ChangeTypes \/ LoseDriver \/ LoseSender \/ UNCHANGED vars
  <2>1. run' = run
      BY <1>4, Zenon DEF Report, ChangeTypes, LoseDriver, LoseSender, vars
  <2> QED
      BY <2>1 DEF TurnInv
<1> QED
    BY <1>2, <1>3, <1>4 DEF Next

-----------------------------------------------------------------------------
(* What changes the registered actions, and the saved characters.          *)
LEMMA NextCases ==
    ASSUME [Next]_vars
    PROVE  \/ \E c \in Calls : Begin(c)
           \/ \E g \in Goroutines : Step(g)
           \/ Report \/ ChangeTypes \/ LoseDriver \/ LoseSender \/ UNCHANGED vars
    BY Zenon, Zenon DEF Next

LEMMA CallKept ==
    ASSUME Inv, NEW g \in Goroutines, Step(g), NEW c \in Calls, c # g
    PROVE  run'[c] = run[c]
<1>1. c \in Goroutines /\ c \notin Ids
    BY GoroutinesTyped
<1>2. CASE Walks(g) \/ Looped(g)
    BY <1>1, <1>2 DEF Walks, Looped, Others
<1>3. CASE g \in Calls /\ (Generates(g) \/ Finds(g) \/ LooksUp(g))
    BY <1>1, <1>3 DEF Generates, Finds, LooksUp, Chosen, Others
<1>4. CASE g \in Calls /\ Leaves(g)
  <2>1. run[g].id \in Ids
      BY <1>4 DEF Leaves, Inv, ActInv
  <2> QED
      BY <1>1, <1>4, <2>1 DEF Leaves, Listens
<1> QED
    BY <1>2, <1>3, <1>4, StepWalks

LEMMA RegisteredMoves ==
    ASSUME Inv, NEW g \in Goroutines, Step(g)
    PROVE  \/ registered' = registered
           \/ g \in Calls /\ genId(g)
           \/ (undo(g) \/ release(g)) /\ registered' = registered \ {run[g].id}
<1>1. CallStep(g) => registered' = registered \/ genId(g)
                     \/ (undo(g) /\ registered' = registered \ {run[g].id})
    BY Zenon DEF CallStep, check, checkName, start, undo, find, keepInfo, checkCode, saveInfo, rename,
           lookUp, deleteInDriver, forget, lockInfos, unlockInfos, acts, Release
<1>2. spawned(g) \/ receive(g) \/ look(g) => registered' = registered
    BY DEF spawned, receive, look, acts
<1>3. takeStatus \/ takeList \/ takeTypes \/ takeLost => registered' = registered
    BY Zenon DEF takeStatus, takeList, takeTypes, takeLost, acts
<1>4. /\ getDriver(g) \/ stop(g) => registered' = registered
      /\ release(g) => registered' = registered \ {run[g].id}
    BY Zenon DEF getDriver, stop, release, acts, Release
<1>5. \/ changeList(g) \/ changeInfos(g) \/ changeActions(g) \/ send(g) \/ sent(g) \/ changed(g)
          => registered' = registered
    BY DEF changeList, changeInfos, changeActions, send, sent, changed, acts
<1> QED
    BY <1>1, <1>2, <1>3, <1>4, <1>5, Zenon, Zenon DEF Step

LEMMA RegisteredKept ==
    ASSUME Inv, [Next]_vars
    PROVE  \A j \in registered' : j \in registered \/ ~Acted(j)
<1>1. ASSUME NEW g \in Goroutines, Step(g)
      PROVE  \A j \in registered' : j \in registered \/ ~Acted(j)
  <2>1. CASE g \in Calls /\ genId(g)
      BY <2>1, genIdWalks
  <2> QED
      BY <1>1, <2>1, RegisteredMoves
<1>2. CASE \/ \E c \in Calls : Begin(c)
           \/ Report \/ ChangeTypes \/ LoseDriver \/ LoseSender \/ UNCHANGED vars
    BY <1>2, Zenon DEF Begin, Report, ChangeTypes, LoseDriver, LoseSender, vars, acts
<1> QED
    BY <1>1, <1>2, NextCases

LEMMA SavedMoves ==
    ASSUME Inv, [Next]_vars
    PROVE  \/ saved' = saved
           \/ \E c \in Calls : saveInfo(c) /\ saved' = saved \cup {run[c].id}
<1>1. ASSUME NEW g \in Goroutines, Step(g)
      PROVE  saved' = saved \/ (g \in Calls /\ saveInfo(g) /\ saved' = saved \cup {run[g].id})
  <2>1. CallStep(g) => saved' = saved \/ (saveInfo(g) /\ saved' = saved \cup {run[g].id})
      BY Zenon DEF CallStep, check, checkName, genId, start, undo, find, keepInfo, checkCode, saveInfo,
             rename, lookUp, deleteInDriver, forget, lockInfos, unlockInfos, store
  <2>2. spawned(g) \/ receive(g) \/ look(g) => saved' = saved
      BY DEF spawned, receive, look, store
  <2>3. takeStatus \/ takeList \/ takeTypes \/ takeLost => saved' = saved
      BY Zenon DEF takeStatus, takeList, takeTypes, takeLost, store
  <2>4. getDriver(g) \/ stop(g) \/ release(g) => saved' = saved
      BY Zenon DEF getDriver, stop, release, store
  <2>5. \/ changeList(g) \/ changeInfos(g) \/ changeActions(g) \/ send(g) \/ sent(g) \/ changed(g)
            => saved' = saved
      BY DEF changeList, changeInfos, changeActions, send, sent, changed, store
  <2> QED
      BY <1>1, <2>1, <2>2, <2>3, <2>4, <2>5, Zenon, Zenon DEF Step
<1>2. CASE \/ \E c \in Calls : Begin(c)
           \/ Report \/ ChangeTypes \/ LoseDriver \/ LoseSender \/ UNCHANGED vars
    BY <1>2, Zenon DEF Begin, Report, ChangeTypes, LoseDriver, LoseSender, vars, store
<1> QED
    BY <1>1, <1>2, NextCases

(* A saved character belongs to an action that its EnrollStop is about to  *)
(* release, and is saved once.                                             *)
SaveInv ==
    /\ \A i \in saved :
          /\ i \in Ids /\ Acted(i)
          /\ i \in registered =>
                \E c \in Calls : run[c].op = "EnrollStop" /\ run[c].pc = "release" /\ run[c].id = i
    /\ \A c \in Calls : run[c].op = "EnrollStop" /\ run[c].pc \notin {"find", "release"}
                           => run[c].id \notin saved
    /\ \A c \in Calls : run[c].pc = "saveInfo" => action[run[c].id].code = "Success"

(* Who saves now.                                                          *)
LEMMA saveInfoWalks ==
    ASSUME Inv, NEW c \in Calls, saveInfo(c)
    PROVE  /\ run[c].op = "EnrollStop" /\ run[c].pc = "saveInfo" /\ run[c].id \in Ids
           /\ Acted(run[c].id) /\ Others(c) /\ Places(c, "release") /\ action' = action
           /\ registered' = registered
<1>1. c \in Goroutines /\ run[c].op = "EnrollStop" /\ run[c].pc = "saveInfo"
    BY GoroutinesTyped, OpAt DEF saveInfo, At
<1>2. Shape(c, run[c])
    BY <1>1 DEF Inv, FrameInv
<1>3. run[c].id \in Ids /\ Acted(run[c].id)
    BY <1>1, <1>2 DEF Shape, Inv, ListenInv, OfAction
<1>4. Goto(c, "release") /\ action' = action /\ registered' = registered
    BY DEF saveInfo, acts
<1>5. Others(c) /\ Places(c, "release")
    BY <1>1, <1>4, GotoPlaces DEF Pcs
<1> QED
    BY <1>1, <1>3, <1>4, <1>5

LEMMA SaveReleases ==
    ASSUME Inv, HolderInv, TurnInv, SaveInv, [Next]_vars, NEW i \in saved'
    PROVE  /\ i \in Ids /\ action'[i].type \in Types
           /\ i \in registered' =>
                 \E c \in Calls : run'[c].op = "EnrollStop" /\ run'[c].pc = "release" /\ run'[c].id = i
<1>1. ASSUME i \in saved, i \in registered'
      PROVE  \E c \in Calls : run'[c].op = "EnrollStop" /\ run'[c].pc = "release" /\ run'[c].id = i
  <2>1. i \in registered
      BY <1>1, RegisteredKept DEF SaveInv
  <2>2. PICK c \in Calls : run[c].op = "EnrollStop" /\ run[c].pc = "release" /\ run[c].id = i
      BY <1>1, <2>1 DEF SaveInv
  <2>3. c \in Goroutines
      BY GoroutinesTyped
  <2>4. ASSUME NEW g \in Goroutines, Step(g) PROVE run'[c] = run[c]
    <3>1. CASE g = c
      <4>1. release(g) /\ run[g].id = i
          BY <2>2, <2>4, <3>1, StepAt
      <4>2. i \notin registered'
          BY <4>1 DEF release, Release
      <4> QED BY <1>1, <4>2
    <3> QED BY <2>4, <3>1, CallKept
  <2>5. ASSUME NEW d \in Calls, Begin(d) PROVE run'[c] = run[c]
    <3>1. Begun(d) /\ d # c
        BY <2>2, <2>5, BeginWalks DEF Begun
    <3> QED BY <2>3, <3>1 DEF Begun, Others
  <2>6. Report \/ ChangeTypes \/ LoseDriver \/ LoseSender \/ UNCHANGED vars => run'[c] = run[c]
      BY Zenon DEF Report, ChangeTypes, LoseDriver, LoseSender, vars
  <2>7. run'[c] = run[c]
      BY <2>4, <2>5, <2>6, NextCases
  <2> QED
      BY <2>2, <2>7
<1>2. CASE i \in saved
    BY <1>1, <1>2, ActionKept DEF SaveInv, Acted
<1>3. ASSUME NEW c \in Calls, saveInfo(c), i = run[c].id
      PROVE  /\ i \in Ids /\ action'[i].type \in Types
             /\ \E d \in Calls : run'[d].op = "EnrollStop" /\ run'[d].pc = "release" /\ run'[d].id = i
    BY <1>3, saveInfoWalks DEF Places, Acted
<1> QED
    BY <1>2, <1>3, SavedMoves

LEMMA SaveOnce ==
    ASSUME Inv, HolderInv, TurnInv, SaveInv, [Next]_vars, NEW d \in Calls,
           run'[d].op = "EnrollStop", run'[d].pc \notin {"find", "release"}
    PROVE  run'[d].id \notin saved'
<1>1. d \in Goroutines /\ d \notin Ids /\ run'[d] # Frame
    BY GoroutinesTyped, FrameParts
<1>2. CASE /\ run[d].op = "EnrollStop" /\ run[d].pc \notin {"find", "release"}
           /\ run'[d].id = run[d].id
  <2>1. run[d].id \notin saved
      BY <1>2 DEF SaveInv
  <2>2. ASSUME NEW c \in Calls, saveInfo(c), run[c].id = run[d].id PROVE FALSE
    <3>1. run[c].op = "EnrollStop" /\ run[c].pc = "saveInfo" /\ run'[c].pc = "release"
        BY <2>2, saveInfoWalks DEF Places
    <3>2. run[c].sender = run[d].sender
        BY <1>2, <2>2, <3>1 DEF HolderInv
    <3>3. c = d
        BY <1>2, <3>1, <3>2 DEF TurnInv
    <3> QED BY <3>1, <3>3
  <2> QED
      BY <1>2, <2>1, <2>2, SavedMoves
<1>3. CASE Finds(d)
  <2>1. PICK i \in registered : action[i].sender = run[d].sender /\ Chosen(d, "getDriver", i)
      BY <1>3 DEF Finds
  <2>2. run[d].op = "EnrollStop" /\ run[d].pc = "find" /\ run'[d].id = i
      BY <1>3, <2>1 DEF Finds, Chosen
  <2>3. i \notin saved
    <3> SUFFICES ASSUME i \in saved PROVE FALSE
        OBVIOUS
    <3>1. PICK c \in Calls : run[c].op = "EnrollStop" /\ run[c].pc = "release" /\ run[c].id = i
        BY <2>1 DEF SaveInv
    <3>2. run[c].sender = run[d].sender
        BY <2>1, <3>1 DEF HolderInv
    <3>3. c = d
        BY <2>2, <3>1, <3>2 DEF TurnInv
    <3> QED BY <2>2, <3>1, <3>3
  <2>4. ASSUME NEW c \in Calls, saveInfo(c) PROVE FALSE
    <3>1. /\ run[c].pc = "saveInfo" /\ run'[c].pc = "release" /\ Others(c)
        BY <2>4, saveInfoWalks DEF Places
    <3>2. run'[d].pc = "getDriver"
        BY <2>1 DEF Chosen
    <3> QED BY <1>1, <2>2, <3>1, <3>2 DEF Others
  <2> QED
      BY <2>2, <2>3, <2>4, SavedMoves
<1>4. ASSUME NEW g \in Goroutines, Step(g)
      PROVE  \/ /\ run[d].op = "EnrollStop" /\ run[d].pc \notin {"find", "release"}
                /\ run'[d].id = run[d].id
             \/ Finds(d)
  <2>1. CASE run'[d] = run[d]
      BY <2>1
  <2>2. CASE run'[d] # run[d]
    <3>1. g = d
        BY <1>4, <2>2, CallKept
    <3>2. \/ Walk(run[d], run'[d])
          \/ Generates(d) \/ Finds(d) \/ LooksUp(d) \/ Leaves(d)
        BY <1>1, <1>4, <2>2, <3>1, StepWalks, GoroutinesTyped DEF Walks, Looped
    <3>3. ~Generates(d) /\ ~LooksUp(d) /\ ~Leaves(d)
        BY <1>1 DEF Generates, LooksUp, Leaves, Chosen, Listens
    <3> QED
        BY <3>2, <3>3 DEF Walk
  <2> QED
      BY <2>1, <2>2
<1>5. ASSUME NEW c \in Calls, Begin(c)
      PROVE  run[d].op = "EnrollStop" /\ run[d].pc \notin {"find", "release"} /\ run'[d].id = run[d].id
    BY <1>1, <1>5, BeginWalks DEF Begun, Others
<1>6. ASSUME run' = run
      PROVE  run[d].op = "EnrollStop" /\ run[d].pc \notin {"find", "release"} /\ run'[d].id = run[d].id
    BY <1>6
<1>7. Report \/ ChangeTypes \/ LoseDriver \/ LoseSender \/ UNCHANGED vars => run' = run
    BY Zenon DEF Report, ChangeTypes, LoseDriver, LoseSender, vars
<1> QED
    BY <1>2, <1>3, <1>4, <1>5, <1>6, <1>7, NextCases

LEMMA SaveSuccess ==
    ASSUME Inv, Inv', OrderInv, SaveInv, [Next]_vars, NEW d \in Calls, run'[d].pc = "saveInfo"
    PROVE  action'[run'[d].id].code = "Success"
<1>1. d \in Goroutines /\ d \notin Ids /\ run'[d] # Frame
    BY GoroutinesTyped, FrameParts
<1>2. run'[d].op = "EnrollStop"
    BY <1>1 DEF Inv, FrameInv, Shape, Place, InChange
<1>3. CASE run'[d] = run[d]
  <2>1. /\ run[d].op = "EnrollStop" /\ run[d].pc = "saveInfo" /\ run[d].id \in Ids
        /\ Acted(run[d].id)
    <3>1. Shape(d, run[d])
        BY <1>1 DEF Inv, FrameInv
    <3> QED
        BY <1>1, <1>2, <1>3, <3>1 DEF Shape, Inv, ListenInv, OfAction
  <2>2. action[run[d].id].code = "Success" /\ run[d].id \notin saved
      BY <2>1 DEF SaveInv
  <2>3. Handling(run[d].id) => run["signals"].code = "Success"
      BY <2>1, <2>2 DEF OrderInv, Passing
  <2> QED
      BY <1>3, <2>1, <2>2, <2>3, ActionKept
<1>4. ASSUME NEW g \in Goroutines, Step(g), run'[d] # run[d]
      PROVE  action'[run'[d].id].code = "Success"
  <2>1. g = d
      BY <1>4, CallKept
  <2>2. \/ Walk(run[d], run'[d])
        \/ Generates(d) \/ Finds(d) \/ LooksUp(d) \/ Leaves(d)
      BY <1>1, <1>4, <2>1, StepWalks, GoroutinesTyped DEF Walks, Looped
  <2>3. Walk(run[d], run'[d])
      BY <1>1, <2>2 DEF Generates, Finds, LooksUp, Leaves, Chosen, Listens
  <2>4. run[d].pc = "save" /\ run'[d].id = run[d].id
      BY <1>2, <2>3 DEF Walk
  <2>5. checkCode(d)
      BY <1>4, <2>1, <2>4, StepAt
  <2>6. run'[d].pc = "release" \/ action[run[d].id].code = "Success"
      BY <1>1, <2>5, GotoPlaces DEF checkCode, Places, Pcs
  <2> QED
      BY <2>4, <2>5, <2>6 DEF checkCode, acts
<1>5. ASSUME NEW c \in Calls, Begin(c) PROVE run'[d] = run[d]
    BY <1>1, <1>5, BeginWalks DEF Begun, Others
<1>6. Report \/ ChangeTypes \/ LoseDriver \/ LoseSender \/ UNCHANGED vars => run' = run
    BY Zenon DEF Report, ChangeTypes, LoseDriver, LoseSender, vars
<1> QED
    BY <1>3, <1>4, <1>5, <1>6, NextCases

LEMMA NextSave ==
    ASSUME Inv, Inv', OrderInv, HolderInv, TurnInv, SaveInv, [Next]_vars
    PROVE  SaveInv'
    BY SaveReleases, SaveOnce, SaveSuccess DEF SaveInv, Acted

-----------------------------------------------------------------------------
(* What the driver has stored, and what its signals say.                   *)
LEMMA DriverSteps ==
    ASSUME Inv, NEW g \in Goroutines, Step(g)
    PROVE  /\ driver' = driver \/ (g \in Calls /\ (start(g) \/ deleteInDriver(g))) \/ stop(g)
           /\ \/ signals' = signals
              \/ g = "signals" /\ (takeStatus \/ takeList \/ takeTypes)
                    /\ signals # <<>> /\ signals' = Tail(signals)
              \/ g \in Calls /\ deleteInDriver(g)
<1>1. g \in Calls /\ CallStep(g) => (UNCHANGED <<driver, signals>>) \/ (start(g) /\ signals' = signals)
                                    \/ deleteInDriver(g)
    BY Zenon DEF CallStep, check, checkName, genId, start, undo, find, keepInfo, checkCode, saveInfo, rename,
           lookUp, forget, lockInfos, unlockInfos, data
<1>2. spawned(g) \/ receive(g) \/ look(g) => UNCHANGED <<driver, signals>>
    BY DEF spawned, receive, look, data
<1>3. takeStatus \/ takeList \/ takeTypes =>
          driver' = driver /\ signals # <<>> /\ signals' = Tail(signals)
    BY DEF takeStatus, takeList, takeTypes
<1>4. takeLost => UNCHANGED <<driver, signals>>
    BY DEF takeLost
<1>5. /\ getDriver(g) \/ release(g) => UNCHANGED <<driver, signals>>
      /\ stop(g) => signals' = signals
    BY Zenon DEF getDriver, stop, release, data
<1>6. \/ changeList(g) \/ changeInfos(g) \/ changeActions(g) \/ send(g) \/ sent(g) \/ changed(g)
          => UNCHANGED <<driver, signals>>
    BY DEF changeList, changeInfos, changeActions, send, sent, changed, data
<1> QED
    BY <1>1, <1>2, <1>3, <1>4, <1>5, <1>6, Zenon, Zenon DEF Step

Deletes(c) ==
    /\ run[c].op = "Delete" /\ run[c].pc = "delete" /\ Others(c) /\ Places(c, "forget")
    /\ driver' = [driver EXCEPT !.stored = driver.stored \ {run[c].id}]
    /\ signals' = Append(signals, Listed(driver.stored \ {run[c].id}))

LEMMA deleteInDriverWalks ==
    ASSUME Inv, NEW c \in Calls, deleteInDriver(c)
    PROVE  UNCHANGED <<driver, signals>> \/ Deletes(c)
<1>1. c \in Goroutines /\ run[c].op = "Delete" /\ run[c].pc = "delete"
    BY GoroutinesTyped, OpAt DEF deleteInDriver, At
<1>2. CASE /\ driver' = [driver EXCEPT !.stored = driver.stored \ {run[c].id}]
           /\ signals' = Append(signals, Listed(driver.stored \ {run[c].id}))
           /\ Goto(c, "forget")
  <2>1. Others(c) /\ Places(c, "forget")
      BY <1>1, <1>2, GotoPlaces DEF Pcs
  <2> QED
      BY <1>1, <1>2, <2>1 DEF Deletes
<1> QED
    BY <1>2 DEF deleteInDriver

LEMMA StoredMoves ==
    ASSUME Inv, [Next]_vars
    PROVE  \/ driver'.stored = driver.stored
           \/ Report /\ driver'.stored = driver.stored \cup {driver.enrolling}
           \/ \E c \in Calls : Deletes(c) /\ driver'.stored = driver.stored \ {run[c].id}
<1>1. ASSUME NEW g \in Goroutines, Step(g)
      PROVE  \/ driver'.stored = driver.stored
             \/ g \in Calls /\ Deletes(g) /\ driver'.stored = driver.stored \ {run[g].id}
  <2>1. CASE g \in Calls /\ start(g)
      BY <2>1 DEF start, Inv, DataInv
  <2>2. CASE g \in Calls /\ deleteInDriver(g)
      BY <2>2, deleteInDriverWalks, Zenon DEF Deletes, Inv, DataInv
  <2>3. CASE stop(g)
      BY <2>3 DEF stop, Inv, DataInv
  <2> QED
      BY <1>1, <2>1, <2>2, <2>3, DriverSteps
<1>2. Report => \/ driver'.stored = driver.stored
                \/ driver'.stored = driver.stored \cup {driver.enrolling}
    BY DEF Report, Inv, DataInv
<1>3. ChangeTypes => driver'.stored = driver.stored
  <2>1. ASSUME NEW x, NEW y, driver' = [driver EXCEPT !.offers = x, !.enrolling = y]
        PROVE  driver'.stored = driver.stored
      BY <2>1 DEF Inv, DataInv
  <2> QED
      BY <2>1 DEF ChangeTypes
<1>4. LoseDriver \/ LoseSender \/ UNCHANGED vars => driver'.stored = driver.stored
    BY Zenon DEF LoseDriver, LoseSender, vars, data, Inv, DataInv
<1>5. ASSUME NEW c \in Calls, Begin(c) PROVE driver'.stored = driver.stored
    BY <1>5 DEF Begin, data
<1> QED
    BY <1>1, <1>2, <1>3, <1>4, <1>5, NextCases

(* A signal was there before, or tells what the driver has just done.      *)
Fresh(s) ==
    \/ s.kind = "status" /\ Report /\ s.id = driver.enrolling /\ s.code \in {"Progress", "Success"}
    \/ s.kind = "list" /\ s.list = driver'.stored
    \/ s.kind = "types" /\ ChangeTypes /\ s.types = driver'.offers

SignalsKept(S) == \A k \in DOMAIN signals' : \/ \E j \in DOMAIN signals : signals'[k] = signals[j]
                                             \/ signals'[k] \in S

LEMMA TailKept ==
    ASSUME Inv, signals # <<>>, signals' = Tail(signals), NEW S
    PROVE  SignalsKept(S)
    BY SignalTaken DEF SignalsKept

LEMMA AppendKept ==
    ASSUME Inv, NEW s \in Signals, signals' = Append(signals, s)
    PROVE  SignalsKept({s})
<1>1. /\ signals \in Seq(Signals) /\ Len(signals) \in Nat /\ DOMAIN signals = 1..Len(signals)
      /\ signals' \in Seq(Signals) /\ Len(signals') = Len(signals) + 1
      /\ \A k \in 1..Len(signals) : signals'[k] = signals[k]
      /\ signals'[Len(signals) + 1] = s
    BY LenProperties, AppendProperties DEF Inv, DataInv
<1>2. DOMAIN signals' = 1..(Len(signals) + 1)
    BY <1>1, LenProperties
<1> QED
    BY <1>1, <1>2 DEF SignalsKept

LEMMA PairKept ==
    ASSUME Inv, NEW s \in Signals, NEW t \in Signals, signals' = signals \o <<s, t>>
    PROVE  SignalsKept({s, t})
<1> DEFINE n == Len(signals)
<1>1. signals \in Seq(Signals) /\ n \in Nat /\ DOMAIN signals = 1..n
    BY LenProperties DEF Inv, DataInv
<1>2. <<s, t>> \in Seq(Signals) /\ Len(<<s, t>>) = 2 /\ <<s, t>>[1] = s /\ <<s, t>>[2] = t
    OBVIOUS
<1>3. /\ signals' \in Seq(Signals) /\ Len(signals') = n + 2
      /\ \A k \in 1..(n + 2) : signals'[k] = IF k <= n THEN signals[k] ELSE <<s, t>>[k - n]
    BY <1>1, <1>2, ConcatProperties
<1> HIDE DEF n
<1>4. /\ DOMAIN signals' = 1..(n + 2) /\ \A k \in 1..n : signals'[k] = signals[k]
      /\ signals'[n + 1] = s /\ signals'[n + 2] = t
    BY <1>1, <1>2, <1>3, LenProperties
<1>5. \A k \in 1..(n + 2) : k \in 1..n \/ k = n + 1 \/ k = n + 2
    BY <1>1
<1> QED
    BY <1>1, <1>4, <1>5, Zenon DEF SignalsKept

LEMMA SignalsMoves ==
    ASSUME Inv, [Next]_vars, NEW k \in DOMAIN signals'
    PROVE  (\E j \in DOMAIN signals : signals'[k] = signals[j]) \/ Fresh(signals'[k])
<1>1. ASSUME NEW g \in Goroutines, Step(g)
      PROVE  (\E j \in DOMAIN signals : signals'[k] = signals[j]) \/ Fresh(signals'[k])
  <2>1. CASE signals # <<>> /\ signals' = Tail(signals)
      BY <2>1, SignalTaken
  <2>2. CASE g \in Calls /\ Deletes(g)
    <3> DEFINE left == driver.stored \ {run[g].id}
    <3>1. driver'.stored = left /\ left \in SUBSET Ids
        BY <2>2 DEF Deletes, Inv, DataInv
    <3>2. Listed(left) \in Signals /\ Listed(left).kind = "list" /\ Listed(left).list = left
        BY <3>1, ListTyped DEF Listed
    <3>3. SignalsKept({Listed(left)})
        BY <2>2, <3>2, AppendKept, Zenon DEF Deletes
    <3> QED
        BY <3>1, <3>2, <3>3, Zenon DEF SignalsKept, Fresh
  <2> QED
      BY <1>1, <2>1, <2>2, DriverSteps, deleteInDriverWalks
<1>2. CASE Report
  <2> DEFINE i == driver.enrolling
             status == [kind |-> "status", id |-> i, code |-> "Success"]
             progress == [status EXCEPT !.code = "Progress"]
             stored == driver.stored \cup {i}
  <2>1. i \in Ids
      BY <1>2 DEF Report, Inv, DataInv
  <2>2. /\ status \in Signals /\ progress \in Signals /\ Listed(stored) \in Signals
        /\ status.id = i /\ progress.id = i /\ progress.code = "Progress" /\ progress.kind = "status"
        /\ status.code = "Success" /\ status.kind = "status"
        /\ Listed(stored).kind = "list" /\ Listed(stored).list = stored
      BY <2>1, CodesTyped, Zenon DEF Signals, Listed, Inv, DataInv
  <2>3. \/ signals' = Append(signals, progress)
        \/ /\ driver'.stored = stored
           /\ \/ signals' = signals \o <<status, Listed(stored)>>
              \/ signals' = signals \o <<Listed(stored), status>>
      BY <1>2, Zenon DEF Report, Inv, DataInv
  <2> HIDE DEF status, progress, stored
  <2>4. Fresh(status) /\ Fresh(progress) /\ (driver'.stored = stored => Fresh(Listed(stored)))
      BY <1>2, <2>2 DEF Fresh
  <2>5. \/ SignalsKept({progress})
        \/ driver'.stored = stored /\ SignalsKept({status, Listed(stored)})
    <3> DEFINE l == Listed(stored)
    <3>1. l \in Signals
        BY <2>2
    <3>2. \/ signals' = Append(signals, progress)
          \/ driver'.stored = stored /\ (signals' = signals \o <<status, l>> \/ signals' = signals \o <<l, status>>)
        BY <2>3, Zenon
    <3>3. {l, status} = {status, l}
        OBVIOUS
    <3> HIDE DEF l
    <3>4. CASE signals' = Append(signals, progress)
        BY <2>2, <3>4, AppendKept
    <3>5. signals' = signals \o <<status, l>> \/ signals' = signals \o <<l, status>>
             => SignalsKept({status, l})
        BY <2>2, <3>1, <3>3, PairKept, Zenon
    <3>6. l = Listed(stored)
        BY DEF l
    <3> QED
        BY <3>2, <3>4, <3>5, <3>6, Zenon
  <2> QED
      BY <2>4, <2>5 DEF SignalsKept
<1>3. CASE ChangeTypes
  <2>1. PICK types \in SUBSET Types : signals' = Append(signals, [kind |-> "types", types |-> types])
                                      /\ driver'.offers = types
    <3>1. PICK types \in SUBSET Types :
             /\ driver' = [driver EXCEPT !.offers = types,
                   !.enrolling = IF @ # None /\ action[@].type \notin types THEN None ELSE @]
             /\ signals' = Append(signals, [kind |-> "types", types |-> types])
        BY <1>3, Zenon DEF ChangeTypes
    <3>2. ASSUME NEW x, driver' = [driver EXCEPT !.offers = types, !.enrolling = x]
          PROVE  driver'.offers = types
        BY <3>2 DEF Inv, DataInv
    <3> QED BY <3>1, <3>2, Zenon
  <2> DEFINE s == [kind |-> "types", types |-> types]
  <2>2. s \in Signals /\ s.kind = "types" /\ s.types = types
      BY DEF Signals
  <2> HIDE DEF s
  <2>3. SignalsKept({s})
      BY <2>1, <2>2, AppendKept DEF s
  <2>4. Fresh(s)
      BY <1>3, <2>1, <2>2 DEF Fresh
  <2> QED
      BY <2>3, <2>4 DEF SignalsKept
<1>4. LoseDriver \/ LoseSender \/ UNCHANGED vars => signals' = signals
    BY DEF LoseDriver, LoseSender, vars, data
<1>5. ASSUME NEW c \in Calls, Begin(c) PROVE signals' = signals
    BY <1>5 DEF Begin, data
<1> QED
    BY <1>1, <1>2, <1>3, <1>4, <1>5, NextCases

(* The lists that goroutines have read.                                    *)
LEMMA ListMoves ==
    ASSUME Inv, [Next]_vars, NEW g \in Goroutines
    PROVE  run'[g].list \subseteq run[g].list \cup driver.stored
<1>1. ASSUME NEW h \in Goroutines, Step(h)
      PROVE  run'[g].list \subseteq run[g].list \cup driver.stored
  <2>1. CASE Walks(h)
      BY <2>1, FrameParts DEF Walks, Others, Walk
  <2>2. CASE Looped(h)
      BY <2>2 DEF Looped, Others
  <2>3. CASE h \in Calls /\ (Generates(h) \/ Finds(h) \/ LooksUp(h))
      BY <2>3 DEF Generates, Finds, LooksUp, Chosen, Others
  <2>4. CASE h \in Calls /\ Leaves(h)
      BY <2>4, FrameParts DEF Leaves, Listens
  <2> QED
      BY <1>1, <2>1, <2>2, <2>3, <2>4, StepWalks
<1>2. ASSUME NEW c \in Calls, Begin(c)
      PROVE  run'[g].list \subseteq run[g].list \cup driver.stored
    BY <1>2, BeginWalks DEF Begun, Others
<1>3. Report \/ ChangeTypes \/ LoseDriver \/ LoseSender \/ UNCHANGED vars => run' = run
    BY Zenon DEF Report, ChangeTypes, LoseDriver, LoseSender, vars
<1> QED
    BY <1>1, <1>2, <1>3, NextCases

-----------------------------------------------------------------------------
(* A character on file: the driver has it, or is being asked to delete it; *)
(* or it is an old one, which no list offers any more.                     *)
Listing(i) == \/ i \in driver.stored
              \/ \E k \in DOMAIN signals : signals[k].kind = "list" /\ i \in signals[k].list
              \/ \E g \in Goroutines : i \in run[g].list
Forgetting(i) == \E c \in Calls : run[c].pc = "forget" /\ run[c].id = i

FileInv ==
    /\ \A i \in DOMAIN infos : \/ i \in driver.stored \cup misplaced
                               \/ Forgetting(i)
                               \/ i \in Known /\ ~Listing(i) /\ ~infos[i].avail
    /\ \A c \in Calls : run[c].op = "Delete" /\ run[c].pc # "lookUp" /\ run[c].id \in DOMAIN infos =>
          infos[run[c].id].user = user[run[c].sender] /\ infos[run[c].id].type = run[c].type

(* An entry stays what it is, and becomes available by a list only.        *)
Filed(i) ==
    /\ i \in DOMAIN infos /\ infos'[i].user = infos[i].user /\ infos'[i].type = infos[i].type
    /\ infos'[i].avail => infos[i].avail \/ Listing(i)

LEMMA MatchedFiled ==
    ASSUME InfoInv, NEW l, infos' = Matched(l), \A i \in l : Listing(i)
    PROVE  \A i \in DOMAIN infos' : Filed(i)
<1>1. DOMAIN infos' = DOMAIN infos /\ \A i \in DOMAIN infos : infos'[i] = [infos[i] EXCEPT !.avail = i \in l]
    BY DEF Matched
<1>2. \A i \in DOMAIN infos : infos'[i].user = infos[i].user /\ infos'[i].type = infos[i].type
                              /\ infos'[i].avail = (i \in l)
    BY <1>1 DEF InfoInv, Info
<1> QED
    BY <1>1, <1>2, Zenon DEF Filed

LEMMA RestrictFiled ==
    ASSUME NEW S, S \subseteq DOMAIN infos, infos' = Restrict(infos, S)
    PROVE  \A i \in DOMAIN infos' : Filed(i)
    BY DEF Restrict, Filed

LEMMA renameFiled ==
    ASSUME Inv, NEW c \in Calls, rename(c)
    PROVE  \A i \in DOMAIN infos' : Filed(i)
<1> DEFINE r == run[c]
           old == Taken(r.sender, r.type, r.name)
           rest == DOMAIN infos \ (Named(r.sender, r.type, r.name) \ old)
           Renamed(S) == [i \in DOMAIN infos |-> IF i \in S THEN [infos[i] EXCEPT !.name = r.newName]
                                                 ELSE infos[i]]
<1>1. ASSUME NEW S
      PROVE  /\ DOMAIN Renamed(S) = DOMAIN infos
             /\ \A i \in DOMAIN infos : /\ Renamed(S)[i].user = infos[i].user
                                        /\ Renamed(S)[i].type = infos[i].type
                                        /\ Renamed(S)[i].avail = infos[i].avail
    BY DEF Inv, InfoInv, Info
<1>2. \/ \E S : infos' = Renamed(S)
      \/ UNCHANGED infos
      \/ infos' = Restrict(Renamed(old), rest)
    BY Zenon, Zenon DEF rename
<1>3. rest \subseteq DOMAIN infos
    OBVIOUS
<1> HIDE DEF Renamed, old, rest
<1>4. ASSUME NEW S, infos' = Renamed(S) PROVE \A i \in DOMAIN infos' : Filed(i)
    BY <1>1, <1>4 DEF Filed
<1>5. CASE infos' = Restrict(Renamed(old), rest)
    BY <1>1, <1>3, <1>5 DEF Filed, Restrict
<1> QED
    BY <1>2, <1>4, <1>5 DEF Filed

LEMMA saveInfoFiled ==
    ASSUME Inv, NEW c \in Calls, saveInfo(c)
    PROVE  \A i \in DOMAIN infos' : Filed(i) \/ i = run[c].id
<1> DEFINE i == run[c].id
           a == action[i]
           others == {j \in DOMAIN infos : infos[j].name = a.name /\ infos[j].type = a.type
                                           /\ infos[j].user = user[a.sender] /\ ~infos[j].avail}
           new == [user |-> user[a.sender], type |-> a.type, name |-> a.name, avail |-> TRUE]
<1>1. \/ infos' = infos
      \/ infos' = [j \in {i} \cup (DOMAIN infos \ others) |-> IF j = i THEN new ELSE infos[j]]
    BY DEF saveInfo
<1> HIDE DEF i, a, others, new
<1>2. \A j \in DOMAIN infos' : Filed(j) \/ j = i
    BY <1>1 DEF Filed
<1> QED
    BY <1>2 DEF i

LEMMA InfosMoves ==
    ASSUME Inv, [Next]_vars, NEW i \in DOMAIN infos'
    PROVE  Filed(i) \/ \E c \in Calls : saveInfo(c) /\ i = run[c].id
<1>1. infos' = infos => Filed(i)
    BY DEF Filed
<1>2. ASSUME NEW g \in Goroutines, Step(g)
      PROVE  Filed(i) \/ (g \in Calls /\ saveInfo(g) /\ i = run[g].id)
  <2>1. CASE takeList
    <3>1. signals # <<>> /\ Head(signals).kind = "list" /\ infos' = Matched(Head(signals).list)
        BY <2>1 DEF takeList
    <3>2. 1 \in DOMAIN signals /\ Head(signals) = signals[1]
        BY <2>1, SignalTaken DEF takeList
    <3>3. \A j \in Head(signals).list : Listing(j)
        BY <3>1, <3>2 DEF Listing
    <3> QED
        BY <3>1, <3>3, MatchedFiled DEF Inv
  <2>2. CASE changeInfos(g)
    <3>1. infos' = Matched(run[g].list) /\ \A j \in run[g].list : Listing(j)
        BY <2>2 DEF changeInfos, Listing
    <3> QED
        BY <3>1, MatchedFiled DEF Inv
  <2>3. CASE changeActions(g)
    <3> DEFINE left == run[g].from \ run[g].into
               hit == {j \in registered : action[j].type \in left}
               B(j) == infos[j].avail /\ (hit = {} \/ infos[j].type \notin left)
    <3>1. infos' = [j \in DOMAIN infos |-> [infos[j] EXCEPT !.avail = B(j)]]
        BY <2>3 DEF changeActions
    <3>2. \A j \in DOMAIN infos : B(j) => infos[j].avail
        OBVIOUS
    <3> HIDE DEF B
    <3>3. DOMAIN infos' = DOMAIN infos /\ \A j \in DOMAIN infos : infos'[j] = [infos[j] EXCEPT !.avail = B(j)]
        BY <3>1
    <3>4. \A j \in DOMAIN infos : infos'[j].user = infos[j].user /\ infos'[j].type = infos[j].type
                                  /\ infos'[j].avail = B(j)
        BY <3>3 DEF Inv, InfoInv, Info
    <3> QED
        BY <3>2, <3>3, <3>4 DEF Filed
  <2>4. CASE g \in Calls /\ CallStep(g)
    <3>1. CASE forget(g)
      <4>1. infos' = infos \/ \E j : infos' = Restrict(infos, DOMAIN infos \ {j})
          BY <3>1 DEF forget
      <4> QED
          BY <1>1, <4>1, RestrictFiled, Zenon
    <3> QED
        BY <1>1, <2>4, <3>1, renameFiled, saveInfoFiled, Zenon
           DEF CallStep, check, checkName, genId, start, undo, find, keepInfo, checkCode, lookUp,
               deleteInDriver, lockInfos, unlockInfos, store
  <2> QED
      BY <1>1, <1>2, <2>1, <2>2, <2>3, <2>4, Zenon
         DEF Step, spawned, receive, look, takeStatus, takeTypes, takeLost, getDriver, stop, release,
             changeList, send, sent, changed, store
<1>3. CASE \/ \E c \in Calls : Begin(c)
           \/ Report \/ ChangeTypes \/ LoseDriver \/ LoseSender \/ UNCHANGED vars
    BY <1>1, <1>3, Zenon DEF Begin, Report, ChangeTypes, LoseDriver, LoseSender, vars, store
<1> QED
    BY <1>2, <1>3, NextCases

(* No list offers an old character again that the driver does not have.    *)
LEMMA ListingMoves ==
    ASSUME Inv, OriginInv, [Next]_vars, NEW i \in Known, ~Listing(i)
    PROVE  ~Listing(i)'
<1>1. i \notin driver'.stored
  <2>1. Report => i # driver.enrolling
      BY DEF Report, OriginInv
  <2> QED
      BY <2>1, StoredMoves DEF Listing
<1>2. ASSUME NEW k \in DOMAIN signals', signals'[k].kind = "list", i \in signals'[k].list PROVE FALSE
  <2>1. CASE \E j \in DOMAIN signals : signals'[k] = signals[j]
      BY <1>2, <2>1 DEF Listing
  <2>2. CASE Fresh(signals'[k])
      BY <1>1, <1>2, <2>2 DEF Fresh
  <2> QED
      BY <2>1, <2>2, SignalsMoves
<1>3. \A g \in Goroutines : i \notin run'[g].list
    BY ListMoves DEF Listing
<1> QED
    BY <1>1, <1>2, <1>3 DEF Listing

LEMMA ForgettingMoves ==
    ASSUME Inv, FileInv, [Next]_vars, NEW i \in DOMAIN infos, Filed(i), Forgetting(i)
    PROVE  Forgetting(i)' \/ i \in misplaced' \/ i \notin DOMAIN infos'
<1>1. PICK c \in Calls : run[c].pc = "forget" /\ run[c].id = i
    BY DEF Forgetting
<1>2. c \in Goroutines /\ run[c].op = "Delete"
    BY <1>1, GoroutinesTyped, OpAt
<1>3. CASE run'[c] = run[c]
    BY <1>1, <1>3 DEF Forgetting
<1>4. CASE forget(c)
  <2>1. i \in Named(run[c].sender, run[c].type, infos[i].name)
      BY <1>1, <1>2 DEF FileInv, Named
  <2>2. \E j : /\ infos' = Restrict(infos, DOMAIN infos \ {j})
               /\ misplaced' = misplaced \cup ({i} \ {j})
      BY <1>1, <1>4, <2>1, Zenon DEF forget
  <2> QED
      BY <2>2 DEF Restrict
<1>5. ASSUME NEW g \in Goroutines, Step(g) PROVE run'[c] = run[c] \/ forget(c)
    BY <1>1, <1>5, CallKept, StepAt
<1>6. ASSUME NEW d \in Calls, Begin(d) PROVE run'[c] = run[c]
    BY <1>1, <1>2, <1>6, BeginWalks DEF Begun, Others
<1>7. Report \/ ChangeTypes \/ LoseDriver \/ LoseSender \/ UNCHANGED vars => run'[c] = run[c]
    BY Zenon DEF Report, ChangeTypes, LoseDriver, LoseSender, vars
<1> QED
    BY <1>3, <1>4, <1>5, <1>6, <1>7, NextCases

LEMMA MisplacedKept ==
    ASSUME [Next]_vars
    PROVE  misplaced \subseteq misplaced'
<1>1. ASSUME NEW g \in Goroutines, Step(g) PROVE misplaced \subseteq misplaced'
  <2>1. CallStep(g) => misplaced \subseteq misplaced'
      BY Zenon DEF CallStep, check, checkName, genId, start, undo, find, keepInfo, checkCode, saveInfo,
             rename, lookUp, deleteInDriver, forget, lockInfos, unlockInfos, store
  <2>2. \/ spawned(g) \/ receive(g) \/ look(g) \/ takeStatus \/ takeList \/ takeTypes \/ takeLost
           => misplaced \subseteq misplaced'
      BY Zenon DEF spawned, receive, look, takeStatus, takeList, takeTypes, takeLost, store
  <2>3. \/ getDriver(g) \/ stop(g) \/ release(g) \/ changeList(g) \/ changeInfos(g) \/ changeActions(g)
           \/ send(g) \/ sent(g) \/ changed(g)
           => misplaced \subseteq misplaced'
      BY Zenon DEF getDriver, stop, release, changeList, changeInfos, changeActions, send, sent, changed, store
  <2> QED
      BY <1>1, <2>1, <2>2, <2>3, Zenon, Zenon DEF Step
<1>2. CASE \/ \E c \in Calls : Begin(c)
           \/ Report \/ ChangeTypes \/ LoseDriver \/ LoseSender \/ UNCHANGED vars
    BY <1>2, Zenon DEF Begin, Report, ChangeTypes, LoseDriver, LoseSender, vars, store
<1> QED
    BY <1>1, <1>2, NextCases

LEMMA FileStored ==
    ASSUME Inv, OriginInv, OrderInv, SaveInv, FileInv, [Next]_vars, NEW i \in DOMAIN infos'
    PROVE  \/ i \in driver'.stored \cup misplaced'
           \/ Forgetting(i)'
           \/ i \in Known /\ ~Listing(i)' /\ ~infos'[i].avail
<1>1. CASE Filed(i)
  <2>1. CASE i \in driver.stored
    <3>1. ASSUME NEW c \in Calls, Deletes(c), i = run[c].id PROVE Forgetting(i)'
        BY <3>1 DEF Deletes, Places, Forgetting
    <3> QED
        BY <2>1, <3>1, StoredMoves
  <2>2. CASE i \in misplaced
      BY <2>2, MisplacedKept
  <2>3. CASE Forgetting(i)
      BY <1>1, <2>3, ForgettingMoves DEF Filed
  <2>4. CASE i \in Known /\ ~Listing(i) /\ ~infos[i].avail
      BY <1>1, <2>4, ListingMoves DEF Filed
  <2> QED
      BY <1>1, <2>1, <2>2, <2>3, <2>4 DEF FileInv, Filed
<1>2. ASSUME NEW c \in Calls, saveInfo(c), i = run[c].id
      PROVE  i \in driver'.stored
  <2>1. run[c].op = "EnrollStop" /\ run[c].pc = "saveInfo" /\ i \in Ids
      BY <1>2, saveInfoWalks
  <2>2. action[i].code = "Success" /\ i \notin saved
      BY <1>2, <2>1 DEF SaveInv
  <2>3. i \in driver.stored
      BY <2>1, <2>2 DEF OrderInv
  <2> QED
      BY <1>2, <2>3 DEF saveInfo, data
<1> QED
    BY <1>1, <1>2, InfosMoves

LEMMA FileDeletes ==
    ASSUME Inv, OriginInv, SaveInv, FileInv, [Next]_vars, NEW c \in Calls, run'[c].op = "Delete",
           run'[c].pc # "lookUp", run'[c].id \in DOMAIN infos'
    PROVE  /\ infos'[run'[c].id].user = user[run'[c].sender]
           /\ infos'[run'[c].id].type = run'[c].type
<1> DEFINE i == run'[c].id
<1>1. c \in Goroutines /\ c \notin Ids /\ run'[c] # Frame
    BY GoroutinesTyped, FrameParts
<1>2. CASE /\ run[c].op = "Delete" /\ run[c].pc # "lookUp" /\ run'[c].id = run[c].id
           /\ run'[c].sender = run[c].sender /\ run'[c].type = run[c].type
  <2>1. CASE Filed(i)
      BY <1>2, <2>1 DEF FileInv, Filed
  <2>2. ASSUME NEW d \in Calls, saveInfo(d), i = run[d].id PROVE FALSE
    <3>1. run[d].op = "EnrollStop" /\ run[d].pc = "saveInfo" /\ i \in Ids /\ Acted(i)
        BY <2>2, saveInfoWalks
    <3>2. i \notin saved /\ i \notin Known
        BY <2>2, <3>1 DEF SaveInv, OriginInv
    <3> QED
        BY <1>1, <1>2, <3>2 DEF OriginInv
  <2> QED
      BY <2>1, <2>2, InfosMoves
<1>3. CASE LooksUp(c) /\ infos' = infos
    BY <1>3 DEF LooksUp, Chosen, Named
<1>4. ASSUME NEW g \in Goroutines, Step(g)
      PROVE  \/ /\ run[c].op = "Delete" /\ run[c].pc # "lookUp" /\ run'[c].id = run[c].id
                /\ run'[c].sender = run[c].sender /\ run'[c].type = run[c].type
             \/ LooksUp(c) /\ infos' = infos
  <2>1. CASE run'[c] = run[c]
      BY <2>1
  <2>2. CASE run'[c] # run[c]
    <3>1. g = c
        BY <1>4, <2>2, CallKept
    <3>2. Walk(run[c], run'[c]) \/ Generates(c) \/ Finds(c) \/ LooksUp(c) \/ Leaves(c)
        BY <1>1, <1>4, <2>2, <3>1, StepWalks, GoroutinesTyped DEF Walks, Looped
    <3>3. ~Generates(c) /\ ~Finds(c) /\ ~Leaves(c)
        BY <1>1 DEF Generates, Finds, Leaves, Chosen, Listens
    <3>4. CASE LooksUp(c)
      <4>1. run[c].pc = "lookUp"
          BY <3>4 DEF LooksUp
      <4>2. lookUp(c)
          BY <1>4, <3>1, <4>1, StepAt
      <4> QED
          BY <3>4, <4>2 DEF lookUp, store
    <3> QED
        BY <3>2, <3>3, <3>4 DEF Walk
  <2> QED
      BY <2>1, <2>2
<1>5. ASSUME NEW d \in Calls, Begin(d)
      PROVE  /\ run[c].op = "Delete" /\ run[c].pc # "lookUp" /\ run'[c].id = run[c].id
             /\ run'[c].sender = run[c].sender /\ run'[c].type = run[c].type
    BY <1>1, <1>5, BeginWalks DEF Begun, Others
<1>6. Report \/ ChangeTypes \/ LoseDriver \/ LoseSender \/ UNCHANGED vars => run' = run
    BY Zenon DEF Report, ChangeTypes, LoseDriver, LoseSender, vars
<1>7. \/ /\ run[c].op = "Delete" /\ run[c].pc # "lookUp" /\ run'[c].id = run[c].id
         /\ run'[c].sender = run[c].sender /\ run'[c].type = run[c].type
      \/ LooksUp(c) /\ infos' = infos
    BY <1>4, <1>5, <1>6, NextCases
<1> QED
    BY <1>2, <1>3, <1>7

LEMMA NextFile ==
    ASSUME Inv, OriginInv, OrderInv, SaveInv, FileInv, [Next]_vars
    PROVE  FileInv'
    BY FileStored, FileDeletes DEF FileInv, Listing, Forgetting

LEMMA InitFile == Init => HolderInv /\ TurnInv /\ SaveInv /\ FileInv
<1> SUFFICES ASSUME Init PROVE HolderInv /\ TurnInv /\ SaveInv /\ FileInv
    OBVIOUS
<1>1. /\ \A g \in Goroutines : run[g] = Frame
      /\ signals = <<>> /\ saved = {} /\ DOMAIN infos = Known
      /\ \A i \in Known : infos[i].avail => i \in driver.stored
  <2>1. PICK offers \in SUBSET Types, stored \in SUBSET Known :
           /\ driver = [alive |-> TRUE, offers |-> offers, stored |-> stored, enrolling |-> None, regained |-> {}]
           /\ \E name \in [Known -> Names], s \in Senders, t \in Types :
                 infos = [i \in Known |-> [user |-> user[s], type |-> t, name |-> name[i],
                                          avail |-> i \in stored]]
      BY Zenon DEF Init
  <2>2. PICK name \in [Known -> Names], s \in Senders, t \in Types :
           infos = [i \in Known |-> [user |-> user[s], type |-> t, name |-> name[i],
                                    avail |-> i \in stored]]
      BY <2>1
  <2>3. ASSUME NEW i \in Known, infos[i].avail PROVE i \in stored
    <3> DEFINE b == i \in stored
    <3>1. infos[i] = [user |-> user[s], type |-> t, name |-> name[i], avail |-> b]
        BY <2>2
    <3> HIDE DEF b
    <3>2. b
        BY <2>3, <3>1
    <3> QED
        BY <3>2 DEF b
  <2>4. driver.stored = stored /\ DOMAIN infos = Known
      BY <2>1, <2>2
  <2> QED
      BY <2>3, <2>4 DEF Init
<1>2. HolderInv /\ TurnInv /\ SaveInv
    BY <1>1, FrameParts, GoroutinesTyped DEF HolderInv, TurnInv, SaveInv, Holds
<1>3. \A i \in Known : Listing(i) <=> i \in driver.stored
    BY <1>1, FrameParts DEF Listing
<1>4. FileInv
    BY <1>1, <1>3, FrameParts, GoroutinesTyped DEF FileInv
<1> QED
    BY <1>2, <1>4

(* While clients are not hasty, a character that is offered for            *)
(* authentication is one that the driver has: a success that was reported  *)
(* is not saved twice, a stale list makes nothing available that the       *)
(* driver has deleted, and Delete forgets what it had the driver delete,   *)
(* or another character of that name (charaDataManger/manager.go,          *)
(* charaManager/manager_ifc.go).                                           *)
THEOREM OfferedIsStored == ASSUME Hasty = {} PROVE Spec => []AvailableIsStored
<1> DEFINE All == Inv /\ ToldInv /\ HolderInv /\ TurnInv /\ SaveInv /\ FileInv
<1>1. Init => All
    BY InitInv, InitTold, InitFile
<1>2. ASSUME All, [Next]_vars PROVE All'
  <2>1. Inv' /\ ToldInv'
      BY <1>2, NextInv, NextTold
  <2>2. HolderInv' /\ TurnInv' /\ SaveInv' /\ FileInv'
      BY <1>2, <2>1, NextHolder, NextTurn, NextSave, NextFile DEF ToldInv
  <2> QED
      BY <2>1, <2>2
<1>3. All => AvailableIsStored
    BY DEF FileInv, AvailableIsStored, Forgetting, At
<1> HIDE DEF All
<1> QED
    BY <1>1, <1>2, <1>3, PTL DEF Spec

-----------------------------------------------------------------------------
(* Who else moves a goroutine: EnrollStart starts the listener.            *)
Spawns(i) == /\ i \in Ids /\ run[i].pc = "idle" /\ run'[i].pc = "spawned" /\ run'[i].op = "listen"
             /\ run'[i].code = "Invalid" /\ run'[i].sends = {}
             /\ \E c \in Calls : Holds(run[c]) /\ run[c].id = i /\ run[c].sender \notin gone

LEMMA RunMoves ==
    ASSUME Inv, [Next]_vars, NEW g \in Goroutines, run'[g] # run[g]
    PROVE  \/ Spawns(g)
           \/ g \in Calls /\ Begun(g)
           \/ Step(g) /\ (run'[g] = Frame \/ Walk(run[g], run'[g]) \/ Looped(g))
           \/ Step(g) /\ g \in Calls /\ (Generates(g) \/ Finds(g) \/ LooksUp(g))
<1>1. ASSUME NEW h \in Goroutines, Step(h), h # g PROVE Spawns(g)
  <2>1. ~Walks(h) /\ ~Looped(h)
      BY <1>1 DEF Walks, Looped, Others
  <2>2. h \in Calls => ~Generates(h) /\ ~Finds(h) /\ ~LooksUp(h)
      BY <1>1 DEF Generates, Finds, LooksUp, Chosen, Others
  <2>3. h \in Calls /\ Leaves(h)
      BY <1>1, <2>1, <2>2, StepWalks
  <2>4. g = run[h].id /\ Listens(h, g) /\ Starting(run[h]) /\ run[h].sender \notin gone
      BY <1>1, <2>3 DEF Leaves, Listens, Starting
  <2>5. g \in Ids /\ run[g].pc = "idle"
      BY <2>3, <2>4 DEF Leaves, Inv, ActInv, ListenInv
  <2>6. Holds(run[h])
      BY <2>3 DEF Leaves, Holds
  <2> QED
      BY <2>3, <2>4, <2>5, <2>6 DEF Spawns, Listens
<1>2. ASSUME Step(g)
      PROVE  \/ run'[g] = Frame \/ Walk(run[g], run'[g]) \/ Looped(g)
             \/ g \in Calls /\ (Generates(g) \/ Finds(g) \/ LooksUp(g))
    BY <1>2, StepWalks DEF Walks, Leaves, Listens
<1>3. ASSUME NEW c \in Calls, Begin(c) PROVE g \in Calls /\ Begun(g)
    BY <1>3, BeginWalks DEF Begun, Others
<1>4. Report \/ ChangeTypes \/ LoseDriver \/ LoseSender \/ UNCHANGED vars => run' = run
    BY Zenon DEF Report, ChangeTypes, LoseDriver, LoseSender, vars
<1> QED
    BY <1>1, <1>2, <1>3, <1>4, NextCases, Zenon, Zenon

(* A loop that is idle takes a signal or a lost name.                      *)
LEMMA LoopAt ==
    ASSUME Inv, NEW g \in Goroutines, Step(g), Looped(g)
    PROVE  \/ g = "signals" /\ (takeStatus \/ takeTypes)
           \/ g = "names" /\ takeLost
<1>1. run[g].pc = "idle" /\ run'[g] # run[g] /\ g \notin Calls /\ g \notin Ids
  <2>1. run[g].pc = "idle" /\ g \in {"signals", "names"} /\ run'[g].op # "none"
      BY DEF Looped
  <2>2. run[g].op = "none"
      BY <2>1, AtCall DEF Inv
  <2> QED
      BY <2>1, <2>2, GoroutinesTyped
<1>2. /\ ~getDriver(g) /\ ~stop(g) /\ ~release(g)
      /\ ~changeList(g) /\ ~changeInfos(g) /\ ~changeActions(g) /\ ~send(g) /\ ~sent(g) /\ ~changed(g)
    BY <1>1 DEF getDriver, stop, release, changeList, changeInfos, changeActions, send, sent, changed, At
<1>3. ~takeList
    BY <1>1 DEF takeList
<1> QED
    BY <1>1, <1>2, <1>3, Zenon, Zenon DEF Step

-----------------------------------------------------------------------------
(* What changes the driver, and what the daemon thinks of it.              *)
LEMMA startWalks ==
    ASSUME Inv, NEW c \in Calls, start(c)
    PROVE  /\ run[c].op = "EnrollStart" /\ run[c].pc = "start" /\ run[c].id \in Ids /\ Others(c)
           /\ \/ /\ driver.alive /\ driver.enrolling = None /\ run[c].type \in driver.offers
                 /\ driver' = Busied(run[c].id)
                 /\ Places(c, "store")
              \/ driver' = driver /\ Places(c, "undo")
<1>1. c \in Goroutines /\ run[c].op = "EnrollStart" /\ run[c].pc = "start" /\ run[c].id \in Ids
    BY GoroutinesTyped, OpAt DEF start, At, Inv, FrameInv, Shape
<1>2. \/ /\ driver.alive /\ driver.enrolling = None /\ run[c].type \in driver.offers
         /\ driver' = Busied(run[c].id)
         /\ Goto(c, "store")
      \/ driver' = driver /\ Goto(c, "undo")
    BY Zenon DEF start, Busied
<1>3. /\ Goto(c, "store") => Others(c) /\ Places(c, "store")
      /\ Goto(c, "undo") => Others(c) /\ Places(c, "undo")
    BY <1>1, GotoPlaces DEF Pcs
<1> QED
    BY <1>1, <1>2, <1>3, Zenon, Zenon

Enrolls(c) ==
    /\ start(c) /\ driver.alive /\ driver.enrolling = None /\ run[c].type \in driver.offers
    /\ run[c].op = "EnrollStart" /\ run[c].pc = "start" /\ Others(c) /\ Places(c, "store")
    /\ driver'.enrolling = run[c].id /\ driver'.enrolling \in Ids
    /\ Losing(run[c].id) => run[c].id \in driver'.regained
    /\ UNCHANGED <<signals, chan, action>>

LEMMA DriverMoves ==
    ASSUME Inv, [Next]_vars
    PROVE  /\ driver'.offers = driver.offers \/ ChangeTypes
           /\ ~driver.alive => ~driver'.alive
           /\ driver.regained \subseteq driver'.regained
           /\ \/ driver'.enrolling \in {driver.enrolling, None}
              \/ driver'.offers = driver.offers /\ \E c \in Calls : Enrolls(c)
           /\ driver'.enrolling # None =>
                 /\ driver.alive => driver'.alive
                 /\ driver'.offers = driver.offers \/ action[driver'.enrolling].type \in driver'.offers
<1> DEFINE Stays(d) == /\ d.offers = driver.offers /\ (d.alive <=> driver.alive)
                      /\ d.enrolling \in {driver.enrolling, None} /\ d.regained = driver.regained
<1>1. Stays(driver)
    OBVIOUS
<1>2. ASSUME NEW x PROVE Stays([driver EXCEPT !.stored = x])
    BY DEF Inv, DataInv
<1>3. ASSUME NEW g \in Goroutines, Step(g)
      PROVE  Stays(driver') \/ (g \in Calls /\ Enrolls(g) /\ driver'.offers = driver.offers
                                 /\ (driver'.alive <=> driver.alive)
                                 /\ driver.regained \subseteq driver'.regained)
  <2>1. CASE g \in Calls /\ start(g)
    <3>1. CASE driver' = driver
        BY <3>1
    <3>2. CASE driver' = Busied(run[g].id)
      <4>1. /\ driver'.enrolling = run[g].id /\ driver'.offers = driver.offers
            /\ (driver'.alive <=> driver.alive) /\ driver.regained \subseteq driver'.regained
            /\ Losing(run[g].id) => run[g].id \in driver'.regained
          BY <3>2 DEF Inv, DataInv, Busied
      <4>2. UNCHANGED <<signals, chan, action>>
          BY <2>1 DEF start
      <4>3. driver' = driver \/ Enrolls(g)
          BY <2>1, <4>1, <4>2, startWalks, Zenon, Zenon DEF Enrolls
      <4> QED
          BY <2>1, <4>1, <4>3
    <3> QED
        BY <2>1, <3>1, <3>2, startWalks, Zenon, Zenon
  <2>2. CASE g \in Calls /\ deleteInDriver(g)
      BY <1>1, <1>2, <2>2, deleteInDriverWalks, Zenon, Zenon DEF Deletes
  <2>3. CASE stop(g)
    <3>1. driver' = driver \/ driver' = [driver EXCEPT !.enrolling = None]
        BY <2>3 DEF stop
    <3>2. Stays([driver EXCEPT !.enrolling = None])
        BY DEF Inv, DataInv
    <3> QED
        BY <1>1, <3>1, <3>2, Zenon, Zenon
  <2> QED
      BY <1>1, <1>3, <2>1, <2>2, <2>3, DriverSteps, Zenon, Zenon
<1>4. Report => Stays(driver')
  <2>1. Report => driver' = driver \/ \E x : driver' = [driver EXCEPT !.stored = x]
      BY Zenon, Zenon DEF Report
  <2> QED
      BY <1>1, <1>2, <2>1, Zenon, Zenon
<1>5. ChangeTypes => /\ driver'.alive <=> driver.alive
                     /\ driver'.regained = driver.regained
                     /\ driver'.enrolling \in {driver.enrolling, None}
                     /\ driver'.enrolling # None => action[driver'.enrolling].type \in driver'.offers
  <2> SUFFICES ASSUME ChangeTypes
               PROVE  /\ driver'.alive <=> driver.alive
                      /\ driver'.regained = driver.regained
                      /\ driver'.enrolling \in {driver.enrolling, None}
                      /\ driver'.enrolling # None => action[driver'.enrolling].type \in driver'.offers
      OBVIOUS
  <2>1. PICK types \in SUBSET Types :
           driver' = [driver EXCEPT !.offers = types,
              !.enrolling = IF @ # None /\ action[@].type \notin types THEN None ELSE @]
      BY Zenon DEF ChangeTypes
  <2> DEFINE e == IF driver.enrolling # None /\ action[driver.enrolling].type \notin types
                  THEN None ELSE driver.enrolling
  <2>2. driver' = [driver EXCEPT !.offers = types, !.enrolling = e]
      BY <2>1 DEF Inv, DataInv
  <2>3. e \in {driver.enrolling, None} /\ (e # None => action[e].type \in types)
      OBVIOUS
  <2> HIDE DEF e
  <2>4. driver'.offers = types /\ driver'.enrolling = e /\ (driver'.alive <=> driver.alive)
        /\ driver'.regained = driver.regained
      BY <2>2 DEF Inv, DataInv
  <2> QED
      BY <2>3, <2>4
<1>6. LoseDriver => /\ driver'.offers = driver.offers /\ ~driver'.alive /\ driver'.enrolling = None
                    /\ driver'.regained = driver.regained
    BY DEF LoseDriver, Inv, DataInv
<1>7. LoseSender \/ UNCHANGED vars => driver' = driver
    BY DEF LoseSender, vars, data
<1>8. ASSUME NEW c \in Calls, Begin(c) PROVE driver' = driver
    BY <1>8 DEF Begin, data
<1>9. \/ Stays(driver') \/ LoseDriver \/ ChangeTypes
      \/ \E c \in Calls : /\ Enrolls(c) /\ driver'.offers = driver.offers
                          /\ (driver'.alive <=> driver.alive) /\ driver.regained \subseteq driver'.regained
    BY <1>1, <1>3, <1>4, <1>7, <1>8, NextCases, Zenon, Zenon
<1>10. CASE Stays(driver')
    BY <1>10
<1>11. CASE LoseDriver
    BY <1>6, <1>11
<1>12. CASE ChangeTypes
    BY <1>5, <1>12
<1>13. CASE \E c \in Calls : /\ Enrolls(c) /\ driver'.offers = driver.offers
                            /\ (driver'.alive <=> driver.alive) /\ driver.regained \subseteq driver'.regained
    BY <1>13
<1> QED
    BY <1>9, <1>10, <1>11, <1>12, <1>13

LEMMA StopEnds ==
    ASSUME Inv, NEW g \in Goroutines, stop(g), driver.enrolling = run[g].id
    PROVE  driver'.enrolling = None
    BY DEF stop, Inv, DataInv

-----------------------------------------------------------------------------
(* Who handles a change of the driver's types, and what it was told.       *)
Adapts(r) == r.pc \in InChange /\ r.op \notin Loops

LEMMA AdaptsMoves ==
    ASSUME Inv, [Next]_vars, NEW g \in Goroutines, Adapts(run'[g])
    PROVE  \/ /\ Adapts(run[g]) /\ run'[g].into = run[g].into
              /\ run[g].pc = "send" => run'[g].pc = "send"
           \/ driver.offers # driverType /\ run'[g].into = driver.offers
           \/ takeTypes /\ run'[g].into = Head(signals).types
<1>2. CASE run'[g] = run[g]
    BY <1>2
<1>3. CASE Step(g) /\ Looped(g)
  <2>1. g = "signals" /\ takeTypes
    <3>1. run'[g].op \notin Loops /\ run' # run
        BY <1>3 DEF Adapts, Looped, InChange
    <3> QED
        BY <1>3, <3>1, LoopAt, takeLostWalks, takeStatusWalks DEF Loops
  <2>2. run' = run \/ run'["signals"].into = Head(signals).types
      BY <2>1, takeTypesWalks
  <2> QED
      BY <1>2, <2>1, <2>2
<1>4. CASE Step(g) /\ Walk(run[g], run'[g])
  <2>1. run[g].pc \in InChange \cup {"getDriver"} /\ run[g].op = run'[g].op /\ run'[g].pc \in InChange
        /\ run'[g].op \notin Loops
      BY <1>4 DEF Walk, Adapts
  <2>2. CASE run[g].pc = "getDriver"
    <3>1. getDriver(g)
        BY <1>4, <2>2, StepAt
    <3>2. ~Answered(g, FALSE) /\ ~Answered(g, run[g].type \in driverType)
        BY <2>1, FrameParts DEF Answered, InChange
    <3> QED
        BY <3>1, <3>2, getDriverWalks, Zenon
  <2>3. CASE run[g].pc \in {"changeList", "changeInfos", "changeActions"}
      BY <1>4, <2>1, <2>3, StepAt, changeWalks, Zenon DEF Adapts
  <2>4. CASE run[g].pc = "send"
    <3>1. send(g) \/ sent(g) \/ changed(g)
        BY <1>4, <2>4, StepAt
    <3>2. ~sent(g)
        BY <2>1 DEF sent, Loops
    <3>3. ~changed(g)
        BY <2>1, changedWalks, FrameParts DEF Answered, InChange
    <3> QED
        BY <2>1, <3>1, <3>2, <3>3, sendQueued DEF Adapts
  <2> QED
      BY <2>1, <2>2, <2>3, <2>4 DEF InChange
<1>5. ~(run'[g] = Frame)
    BY FrameParts DEF Adapts, InChange
<1>6. ~Spawns(g) /\ ~Begun(g) /\ ~Generates(g) /\ ~Finds(g) /\ ~LooksUp(g)
    BY DEF Adapts, InChange, Spawns, Begun, Generates, Finds, LooksUp, Chosen
<1> QED
    BY <1>2, <1>3, <1>4, <1>5, <1>6, RunMoves

-----------------------------------------------------------------------------
(* How codes travel: into what a goroutine is to send, into the channel of *)
(* an action, and to its listener.                                         *)
LEMMA CodesDiffer ==
    ASSUME NEW t \in Types
    PROVE  /\ GoneCode[t] \notin {"Invalid", "Progress", "Success"}
           /\ LostCode[t] \notin {"Invalid", "Progress", "Success", "FaceGone"}
           /\ \A u \in Types : GoneCode[t] # LostCode[u]
    BY CharaAssumption DEF GoneCode, LostCode

LEMMA ChanMoves ==
    ASSUME Inv, [Next]_vars, NEW i \in Ids
    PROVE  /\ \A x : Queued(i, x)' => \/ Queued(i, x)
                                      \/ \E g \in Goroutines : <<i, x>> \in run[g].sends
           /\ \A x : Queued(i, x) => \/ Queued(i, x)'
                                     \/ run'[i].pc = "look" /\ run'[i].code = x /\ Step(i)
<1>1. CASE chan'[i] = chan[i]
    BY <1>1 DEF Queued
<1>2. ASSUME NEW g \in Goroutines, send(g), chan'[i] # chan[i]
      PROVE  /\ \A x : Queued(i, x)' => Queued(i, x) \/ <<i, x>> \in run[g].sends
             /\ \A x : Queued(i, x) => Queued(i, x)'
    BY <1>2, sendQueued
<1>3. ASSUME NEW j \in Ids, receive(j), Step(j), chan'[i] # chan[i]
      PROVE  /\ \A x : Queued(i, x)' => Queued(i, x)
             /\ \A x : Queued(i, x) => Queued(i, x)' \/ (run'[i].pc = "look" /\ run'[i].code = x /\ Step(i))
  <2>1. i = j
      BY <1>3, receiveQueued
  <2> QED
      BY <1>3, <2>1, receiveQueued
<1>4. ASSUME NEW g \in Goroutines, Step(g) PROVE chan' = chan \/ send(g) \/ (g \in Ids /\ receive(g))
  <2>1. CallStep(g) => chan' = chan
      BY Zenon DEF CallStep, check, checkName, genId, start, undo, find, keepInfo, checkCode, saveInfo,
             rename, lookUp, deleteInDriver, forget, lockInfos, unlockInfos
  <2>2. \/ spawned(g) \/ look(g) \/ takeStatus \/ takeList \/ takeTypes \/ takeLost
           => chan' = chan
      BY Zenon DEF spawned, look, takeStatus, takeList, takeTypes, takeLost
  <2>3. \/ getDriver(g) \/ stop(g) \/ release(g) \/ changeList(g) \/ changeInfos(g) \/ changeActions(g)
           \/ sent(g) \/ changed(g) => chan' = chan
      BY Zenon DEF getDriver, stop, release, changeList, changeInfos, changeActions, sent, changed
  <2> QED
      BY <1>4, <2>1, <2>2, <2>3, Zenon, Zenon DEF Step
<1>5. CASE \/ \E c \in Calls : Begin(c)
           \/ Report \/ ChangeTypes \/ LoseDriver \/ LoseSender \/ UNCHANGED vars
  <2>1. chan' = chan
      BY <1>5, Zenon DEF Begin, Report, ChangeTypes, LoseDriver, LoseSender, vars
  <2> QED
      BY <1>1, <2>1
<1> QED
    BY <1>1, <1>2, <1>3, <1>4, <1>5, NextCases

LEMMA SendsMoves ==
    ASSUME Inv, Inv', [Next]_vars, NEW g \in Goroutines, NEW m \in run'[g].sends
    PROVE  \/ m \in run[g].sends
           \/ Adapts(run[g]) /\ run[g].pc # "send" /\ \E i \in Hit(g) : m = <<i, "FaceGone">>
           \/ /\ signals # <<>> /\ signals' = Tail(signals) /\ Head(signals).kind = "status"
              /\ Head(signals).id \in registered /\ m = <<Head(signals).id, Head(signals).code>>
           \/ \E i \in registered : m = <<i, LostCode[action[i].type]>>
           \/ Driver \in lost /\ \E i \in registered : m = <<i, GoneCode[action[i].type]>>
<1>1. run'[g].pc = "send"
    BY DEF Inv, FrameInv, Shape, Sending
<1>2. CASE Step(g) /\ Looped(g)
  <2>1. CASE takeStatus /\ g = "signals"
      BY <1>2, <2>1, takeStatusWalks
  <2>2. CASE takeTypes /\ g = "signals"
      BY <1>2, <2>2, takeTypesWalks
  <2>3. CASE takeLost /\ g = "names"
      BY <2>3, takeLostWalks
  <2> QED
      BY <1>2, <2>1, <2>2, <2>3, LoopAt
<1>3. CASE Step(g) /\ Walk(run[g], run'[g])
  <2>1. run[g].pc \in InChange \cup {"getDriver"}
      BY <1>1, <1>3 DEF Walk, InChange
  <2>2. CASE run[g].pc = "getDriver"
    <3>1. getDriver(g)
        BY <1>3, <2>2, StepAt
    <3>2. ~Answered(g, FALSE) /\ ~Answered(g, run[g].type \in driverType)
        BY <1>1, FrameParts DEF Answered
    <3> QED
        BY <3>1, <3>2, getDriverWalks, Zenon
  <2>3. CASE run[g].pc \in {"changeList", "changeInfos", "changeActions"}
    <3>1. /\ Changing(run[g]) /\ run'[g].sends = {<<i, "FaceGone">> : i \in Hit(g)}
        BY <1>1, <1>3, <2>3, StepAt, changeWalks, Zenon
    <3> QED
        BY <2>1, <2>3, <3>1 DEF Adapts, Changing, InChange, Loops
  <2>4. CASE run[g].pc = "send"
    <3>1. send(g) \/ sent(g) \/ changed(g)
        BY <1>3, <2>4, StepAt
    <3>2. ~sent(g)
        BY <1>1, ReturnWalks, FrameParts DEF sent
    <3>3. ~changed(g)
        BY <1>1, changedWalks, FrameParts DEF Answered
    <3> QED
        BY <3>1, <3>2, <3>3, sendQueued
  <2> QED
      BY <2>1, <2>2, <2>3, <2>4 DEF InChange
<1>4. ~(run'[g] = Frame)
    BY FrameParts
<1>5. ~Spawns(g) /\ ~Begun(g) /\ ~Generates(g) /\ ~Finds(g) /\ ~LooksUp(g)
    BY <1>1 DEF Spawns, Begun, Generates, Finds, LooksUp, Chosen
<1> QED
    BY <1>2, <1>3, <1>4, <1>5, RunMoves

LEMMA ListenAt ==
    ASSUME Inv, NEW i \in Ids, Step(i)
    PROVE  /\ run[i].pc = "receive" => receive(i)
           /\ run[i].pc = "look" => look(i)
           /\ run[i].pc = "spawned" => spawned(i)
<1>1. i \notin Calls /\ i # "signals" /\ i # "names"
    BY GoroutinesTyped
<1>2. spawned(i) \/ receive(i) \/ look(i) \/ run[i].pc \notin {"spawned", "receive", "look"}
  <2>1. /\ getDriver(i) \/ stop(i) \/ release(i) => run[i].pc \notin {"spawned", "receive", "look"}
        /\ changeList(i) \/ changeInfos(i) \/ changeActions(i) => run[i].pc \notin {"spawned", "receive", "look"}
        /\ send(i) \/ sent(i) \/ changed(i) => run[i].pc \notin {"spawned", "receive", "look"}
      BY Zenon DEF getDriver, stop, release, changeList, changeInfos, changeActions, send, sent, changed, At
  <2> QED
      BY <1>1, <2>1, Zenon, Zenon DEF Step
<1>3. /\ spawned(i) => run[i].pc = "spawned"
      /\ receive(i) => run[i].pc = "receive"
      /\ look(i) => run[i].pc = "look"
    BY DEF spawned, receive, look, At
<1> QED
    BY <1>2, <1>3

LEMMA CodeMoves ==
    ASSUME Inv, [Next]_vars, NEW i \in Ids, run'[i].op = "listen"
    PROVE  \/ run'[i].code = "Invalid"
           \/ run'[i].code = run[i].code /\ run[i].op = "listen" /\ run'[i].type = run[i].type
           \/ Queued(i, run'[i].code) /\ run[i].op = "listen" /\ run'[i].type = run[i].type
<1>1. i \in Goroutines /\ i \notin Calls
    BY GoroutinesTyped
<1>2. CASE run'[i] = run[i]
    BY <1>2
<1>3. CASE Step(i) /\ Walk(run[i], run'[i])
  <2>1. CASE run[i].pc = "receive"
    <3>1. receive(i)
        BY <1>3, <2>1, ListenAt
    <3>2. run'[i].pc = "look" /\ \A x : Queued(i, x) <=> run'[i].code = x \/ Queued(i, x)'
        BY <1>3, <3>1, receiveQueued, FrameParts
    <3> QED
        BY <1>3, <3>2 DEF Walk
  <2> QED
      BY <1>3, <2>1 DEF Walk
<1>4. ~(run'[i] = Frame) /\ ~Looped(i)
    BY FrameParts, GoroutinesTyped DEF Looped
<1>5. CASE Spawns(i)
    BY <1>5 DEF Spawns
<1> QED
    BY <1>1, <1>2, <1>3, <1>4, <1>5, RunMoves

-----------------------------------------------------------------------------
(* The driver enrolls for a type that it offers; and while it does, the    *)
(* daemon hears nothing of a loss of that type or of the driver, unless it *)
(* was on its way already when the driver began.                           *)
Quiet(e) ==
    LET t == action[e].type
    IN  /\ \A k \in DOMAIN signals : signals[k].kind = "types" => t \in signals[k].types
        /\ \A g \in Goroutines :
              /\ Adapts(run[g]) /\ (run[g].pc # "send" \/ g = e) => t \in run[g].into
              /\ <<e, GoneCode[t]>> \notin run[g].sends
        /\ ~Queued(e, GoneCode[t])
        /\ run[e].op = "listen" => run[e].code # GoneCode[t]

GoneInv ==
    /\ driver.enrolling # None => driver.alive /\ action[driver.enrolling].type \in driver.offers
    /\ Driver \in lost => ~driver.alive
    /\ \A k \in DOMAIN signals : signals[k].kind = "status" => signals[k].code \in {"Progress", "Success"}
    /\ driver.enrolling \notin driver.regained \cup {None} => Quiet(driver.enrolling)

LEMMA EnrollingKept ==
    ASSUME Inv, OriginInv, HolderInv, GoneInv, [Next]_vars, driver'.enrolling # None
    PROVE  driver'.alive /\ action'[driver'.enrolling].type \in driver'.offers
<1> DEFINE e == driver'.enrolling
<1>1. CASE e = driver.enrolling
  <2>1. e \in Ids /\ Acted(e)
      BY <1>1 DEF OriginInv, Inv, DataInv
  <2>2. action'[e].type = action[e].type
      BY <2>1, ActionKept
  <2> QED
      BY <1>1, <2>2, DriverMoves DEF GoneInv
<1>2. ASSUME NEW c \in Calls, Enrolls(c), driver'.offers = driver.offers
      PROVE  driver'.alive /\ action'[e].type \in driver'.offers
  <2>1. Holds(run[c]) /\ e = run[c].id
      BY <1>2 DEF Enrolls, Holds
  <2>2. e \in Ids /\ Acted(e) /\ action[e].type = run[c].type
      BY <2>1, HeldActed DEF HolderInv
  <2>3. action'[e].type = action[e].type
      BY <2>2, ActionKept
  <2> QED
      BY <1>2, <2>2, <2>3, DriverMoves DEF Enrolls
<1> QED
    BY <1>1, <1>2, DriverMoves

LEMMA LostDriver ==
    ASSUME Inv, GoneInv, [Next]_vars, Driver \in lost'
    PROVE  ~driver'.alive
<1>1. ASSUME NEW g \in Goroutines, Step(g) PROVE Driver \in lost
  <2>1. CallStep(g) => lost' = lost
      BY Zenon DEF CallStep, check, checkName, genId, start, undo, find, keepInfo, checkCode, saveInfo,
             rename, lookUp, deleteInDriver, forget, lockInfos, unlockInfos, data
  <2>2. \/ spawned(g) \/ receive(g) \/ look(g) \/ takeStatus \/ takeList \/ takeTypes => lost' = lost
      BY DEF spawned, receive, look, takeStatus, takeList, takeTypes, data
  <2>3. takeLost => lost' \subseteq lost
      BY DEF takeLost
  <2>4. \/ getDriver(g) \/ stop(g) \/ release(g) \/ changeList(g) \/ changeInfos(g) \/ changeActions(g)
           \/ send(g) \/ sent(g) \/ changed(g) => lost' = lost
      BY Zenon DEF getDriver, stop, release, changeList, changeInfos, changeActions, send, sent, changed, data
  <2> QED
      BY <1>1, <2>1, <2>2, <2>3, <2>4, Zenon, Zenon DEF Step
<1>2. LoseDriver => ~driver'.alive
    BY DEF LoseDriver, Inv, DataInv
<1>3. LoseSender => Driver \in lost
    BY CharaAssumption DEF LoseSender
<1>4. \/ \E c \in Calls : Begin(c)
      \/ Report \/ ChangeTypes \/ UNCHANGED vars
      => Driver \in lost
    BY Zenon DEF Begin, Report, ChangeTypes, vars, data
<1>5. Driver \in lost => ~driver'.alive
    BY DriverMoves DEF GoneInv
<1> QED
    BY <1>1, <1>2, <1>3, <1>4, <1>5, NextCases, Zenon, Zenon

LEMMA QuietKept ==
    ASSUME Inv, Inv', OriginInv, HolderInv, HolderInv', GoneInv, [Next]_vars,
           driver'.enrolling = driver.enrolling, driver.enrolling \notin driver.regained \cup {None}
    PROVE  Quiet(driver.enrolling)'
<1> DEFINE e == driver.enrolling
           t == action[e].type
<1>1. /\ e \in Ids /\ e \in Goroutines /\ Acted(e) /\ action'[e].type = t /\ t \in Types
      /\ t \in driver.offers /\ driver.alive /\ e # None
  <2>1. e \in Ids /\ Acted(e)
      BY DEF OriginInv, Inv, DataInv
  <2> QED
      BY <2>1, ActionKept, GoroutinesTyped DEF Acted, GoneInv
<1>2. t \in driver'.offers
    BY <1>1, EnrollingKept
<1>3. Quiet(e)
    BY DEF GoneInv
<1> HIDE DEF e, t
<1>4. /\ \A k \in DOMAIN signals : signals[k].kind = "types" => t \in signals[k].types
      /\ \A g \in Goroutines : /\ Adapts(run[g]) /\ (run[g].pc # "send" \/ g = e) => t \in run[g].into
                              /\ <<e, GoneCode[t]>> \notin run[g].sends
      /\ ~Queued(e, GoneCode[t])
      /\ run[e].op = "listen" => run[e].code # GoneCode[t]
    BY <1>3 DEF Quiet, t
<1>5. ASSUME NEW k \in DOMAIN signals', signals'[k].kind = "types" PROVE t \in signals'[k].types
    BY <1>2, <1>4, <1>5, SignalsMoves DEF Fresh
<1>6. ASSUME takeTypes PROVE t \in Head(signals).types
  <2>1. signals # <<>> /\ signals' = Tail(signals) /\ Head(signals).kind = "types"
      BY <1>6 DEF takeTypes
  <2> QED
      BY <1>4, <2>1, SignalTaken
<1>7. ASSUME NEW g \in Goroutines, Adapts(run'[g]), run'[g].pc # "send" \/ g = e
      PROVE  t \in run'[g].into
    BY <1>1, <1>4, <1>6, <1>7, AdaptsMoves
<1>8. ASSUME NEW g \in Goroutines, <<e, GoneCode[t]>> \in run'[g].sends
      PROVE  FALSE
  <2> DEFINE m == <<e, GoneCode[t]>>
  <2>1. m \in run'[g].sends /\ m[1] = e /\ m[2] = GoneCode[t] /\ m \notin run[g].sends
      BY <1>4, <1>8
  <2>2. ASSUME Adapts(run[g]), run[g].pc # "send", NEW i \in Hit(g), m = <<i, "FaceGone">>
        PROVE  FALSE
    <3>1. i = e /\ t \in run[g].into
        BY <1>4, <2>1, <2>2
    <3> QED
        BY <2>2, <3>1 DEF Hit, t
  <2>3. ASSUME signals # <<>>, signals' = Tail(signals), Head(signals).kind = "status",
               m = <<Head(signals).id, Head(signals).code>>
        PROVE  FALSE
    <3>1. Head(signals).code \in {"Progress", "Success"}
        BY <2>3, SignalTaken DEF GoneInv
    <3>2. m[2] = Head(signals).code
        BY <2>3
    <3> QED
        BY <1>1, <2>1, <3>1, <3>2, CodesDiffer, Zenon
  <2>4. ASSUME NEW i \in registered, m = <<i, LostCode[action[i].type]>>
        PROVE  FALSE
    <3>1. i = e /\ GoneCode[t] = LostCode[t]
        BY <2>1, <2>4 DEF t
    <3> QED
        BY <1>1, <3>1, CodesDiffer
  <2>5. Driver \notin lost
      BY <1>1 DEF GoneInv
  <2> HIDE DEF m
  <2> QED
      BY <2>1, <2>2, <2>3, <2>4, <2>5, SendsMoves
<1>12. \A g \in Goroutines : <<e, GoneCode[t]>> \notin run[g].sends
    BY <1>4
<1>9. ~(\E k \in DOMAIN chan'[e] : chan'[e][k] = GoneCode[t])
    BY <1>1, <1>4, <1>12, ChanMoves DEF Queued
<1>10. run'[e].op = "listen" => run'[e].code # GoneCode[t]
  <2>1. GoneCode[t] # "Invalid"
      BY <1>1, CodesDiffer
  <2> QED
      BY <1>1, <1>4, <2>1, CodeMoves
<1>11. driver'.enrolling = e /\ driver.enrolling = e
    BY DEF e
<1> QED
    BY <1>1, <1>5, <1>7, <1>8, <1>9, <1>10, <1>11 DEF Quiet, Queued

LEMMA QuietBegins ==
    ASSUME Inv, Inv', HolderInv, NEW c \in Calls, Enrolls(c), driver'.enrolling \notin driver'.regained
    PROVE  Quiet(driver.enrolling)'
<1> DEFINE e == run[c].id
           t == action[e].type
<1>1. /\ driver'.enrolling = e /\ e \in Ids /\ e \in Goroutines /\ c \in Goroutines /\ c # e
      /\ run[c].pc = "start" /\ run'[c].pc = "store" /\ run'[c].sends = run[c].sends
      /\ \A g \in Goroutines : g # c => run'[g] = run[g]
      /\ ~Losing(e) /\ UNCHANGED <<signals, chan, action>>
    BY GoroutinesTyped DEF Enrolls, Places, Others
<1>2. run[e].pc = "idle" /\ run[e].op = "none"
  <2>1. run[e].pc = "idle"
      BY <1>1 DEF HolderInv, Enrolls, Holds
  <2> QED
      BY <1>1, <2>1, AtCall DEF Inv
<1> HIDE DEF e
<1>3. /\ \A k \in DOMAIN signals : signals[k].kind = "types" => t \in signals[k].types
      /\ \A g \in Goroutines : /\ run[g].pc \in InChange /\ run[g].pc # "send" => t \in run[g].into
                              /\ <<e, GoneCode[t]>> \notin run[g].sends
      /\ GoneCode[t] \notin Range(chan[e])
    BY <1>1 DEF Losing, InChange
<1> HIDE DEF t
<1>4. ~Queued(e, GoneCode[t])
    BY <1>3 DEF Queued, Range
<1>5. t = action'[e].type
    BY <1>1 DEF t
<1>6. ASSUME NEW g \in Goroutines
      PROVE  /\ Adapts(run'[g]) /\ (run'[g].pc # "send" \/ g = e) => t \in run'[g].into
             /\ <<e, GoneCode[t]>> \notin run'[g].sends
    BY <1>1, <1>2, <1>3 DEF Adapts, InChange
<1> QED
    BY <1>1, <1>2, <1>3, <1>4, <1>5, <1>6 DEF Quiet, Queued

LEMMA NextGone ==
    ASSUME Inv, Inv', OriginInv, HolderInv, HolderInv', GoneInv, [Next]_vars
    PROVE  GoneInv'
<1>1. ASSUME NEW k \in DOMAIN signals', signals'[k].kind = "status"
      PROVE  signals'[k].code \in {"Progress", "Success"}
    BY <1>1, SignalsMoves DEF GoneInv, Fresh
<1>2. /\ driver'.enrolling # None => driver'.alive /\ action'[driver'.enrolling].type \in driver'.offers
      /\ Driver \in lost' => ~driver'.alive
    BY EnrollingKept, LostDriver
<1>3. ASSUME driver'.enrolling \notin driver'.regained \cup {None} PROVE Quiet(driver.enrolling)'
  <2>1. CASE driver'.enrolling = driver.enrolling
    <3>1. driver.enrolling \notin driver.regained \cup {None}
        BY <1>3, <2>1, DriverMoves
    <3> QED
        BY <2>1, <3>1, QuietKept
  <2>2. ASSUME NEW c \in Calls, Enrolls(c) PROVE Quiet(driver.enrolling)'
      BY <1>3, <2>2, QuietBegins
  <2> QED
      BY <1>3, <2>1, <2>2, DriverMoves
<1> QED
    BY <1>1, <1>2, <1>3 DEF GoneInv

-----------------------------------------------------------------------------
(* The enrolment that the driver is busy with is registered, or a call     *)
(* still has to start or to end it; nobody is about to save or to release  *)
(* it.                                                                     *)
Ends(r) == r.pc \in {"save", "saveInfo", "release"}

StoppedInv ==
    driver.enrolling \notin driver.regained \cup {None} =>
        /\ \A g \in Goroutines : Ends(run[g]) => run[g].id # driver.enrolling
        /\ \A c \in Calls : run[c].pc \in {"start", "undo"} => run[c].id # driver.enrolling
        /\ DriverServesAction

(* An action ends only after the driver was asked to stop, or when it has  *)
(* ended it itself.                                                        *)
LEMMA EndsMoves ==
    ASSUME Inv, Inv', HolderInv, GoneInv, StoppedInv, [Next]_vars,
           driver.enrolling \notin driver.regained \cup {None}, driver'.enrolling = driver.enrolling,
           NEW g \in Goroutines, Ends(run'[g])
    PROVE  run'[g].id # driver.enrolling
<1> SUFFICES ASSUME run'[g].id = driver.enrolling PROVE FALSE
    OBVIOUS
<1>1. run'[g] # run[g]
    BY DEF StoppedInv
<1>2. ~(run'[g] = Frame) /\ ~Spawns(g) /\ ~Begun(g) /\ ~Generates(g) /\ ~Finds(g) /\ ~LooksUp(g)
    BY FrameParts DEF Ends, Spawns, Begun, Generates, Finds, LooksUp, Chosen
<1>3. ~(Step(g) /\ Looped(g))
  <2>1. ASSUME Step(g), Looped(g) PROVE run' = run \/ run'[g].pc \in {"send", "changeList"}
      BY <2>1, LoopAt, takeStatusWalks, takeTypesWalks, takeLostWalks
  <2> QED
      BY <1>1, <2>1 DEF Ends
<1>4. Step(g) /\ Walk(run[g], run'[g])
    BY <1>1, <1>2, <1>3, RunMoves
<1>5. /\ ~Ends(run[g]) /\ run[g].id = driver.enrolling /\ run[g].op = run'[g].op
      /\ run[g].type = run'[g].type
    BY <1>4 DEF Walk, StoppedInv
<1>6. run[g].pc # "stop"
    BY <1>4, <1>5, StepAt, StopEnds
<1>7. CASE run[g].op \in {"EnrollStart", "EnrollStop"}
  <2>1. run[g].op = "EnrollStart" => run'[g].pc = "release"
      BY <1>5, Zenon DEF Inv, FrameInv, Shape, Place, Ends, InChange
  <2> QED
      BY <1>4, <1>5, <1>6, <1>7, <2>1 DEF Walk, Ends
<1>8. CASE run[g].op = "listen"
  <2>1. run'[g].pc = "release" /\ run[g].pc \in {"look", "getDriver", "send"}
    <3>1. Place(run'[g])
        BY DEF Inv, FrameInv, Shape
    <3>2. run'[g].pc = "release"
        BY <1>5, <1>8, <3>1 DEF Place, Ends, InChange
    <3> QED
        BY <1>4, <1>6, <1>8, <3>2 DEF Walk
  <2>2. g \in Ids /\ run[g].id = g /\ run[g].type = action[g].type
      BY <1>8 DEF Inv, FrameInv, Shape, HolderInv
  <2>3. driver.alive /\ run[g].type \in driver.offers
      BY <1>5, <2>2 DEF GoneInv
  <2>4. ~Answered(g, TRUE)
      BY <1>8, <2>1, FrameParts DEF Answered
  <2>5. CASE run[g].pc = "look"
    <3>1. look(g)
        BY <1>4, <2>2, <2>5, ListenAt
    <3>2. run' = [run EXCEPT ![g].pc = next(g)[1], ![g].code = next(g)[2]]
        BY <2>1, <3>1, ReturnWalks, FrameParts DEF look
    <3>3. run'[g].pc = next(g)[1]
        BY <3>2 DEF Inv, FrameInv, Frames
    <3>4. run[g].code = GoneCode[run[g].type]
        BY <2>1, <3>3 DEF next
    <3> QED
        BY <1>5, <1>8, <2>2, <3>4 DEF GoneInv, Quiet
  <2>6. CASE run[g].pc = "getDriver"
    <3> DEFINE found == run[g].type \in driverType
    <3>1. driver.offers = driverType /\ Answered(g, found)
        BY <1>4, <2>1, <2>3, <2>6, StepAt, getDriverWalks, Zenon
    <3>2. found
        BY <2>3, <3>1
    <3> HIDE DEF found
    <3> QED
        BY <2>1, <1>8, <3>1, <3>2, FrameParts DEF Answered
  <2>7. CASE run[g].pc = "send"
    <3> DEFINE found == run[g].type \in run[g].into
    <3>1. send(g) \/ sent(g) \/ changed(g)
        BY <1>4, <2>7, StepAt
    <3>2. ~send(g) /\ ~sent(g)
        BY <1>8, <2>1, sendQueued DEF sent
    <3>3. Answered(g, found) /\ Adapts(run[g])
        BY <1>8, <2>7, <3>1, <3>2, changedWalks DEF Adapts, InChange
    <3>4. found
        BY <1>5, <2>2, <3>3 DEF GoneInv, Quiet
    <3> HIDE DEF found
    <3> QED
        BY <2>1, <1>8, <3>3, <3>4, FrameParts DEF Answered
  <2> QED
      BY <2>1, <2>5, <2>6, <2>7
<1>9. run[g].op \in {"EnrollStart", "EnrollStop", "listen"}
  <2>1. Place(run'[g])
      BY DEF Inv, FrameInv, Shape
  <2> QED
      BY <1>5, <2>1 DEF Place, Ends, InChange
<1> QED
    BY <1>7, <1>8, <1>9

LEMMA StartsMoves ==
    ASSUME Inv, OriginInv, StoppedInv, [Next]_vars,
           driver.enrolling \notin driver.regained \cup {None},
           NEW c \in Calls, run'[c].pc \in {"start", "undo"}
    PROVE  run'[c].id # driver.enrolling
<1> SUFFICES ASSUME run'[c].id = driver.enrolling PROVE FALSE
    OBVIOUS
<1>1. run'[c] # run[c] /\ c \in Goroutines /\ c \notin Ids
    BY GoroutinesTyped DEF StoppedInv
<1>2. driver.enrolling \in Ids /\ Acted(driver.enrolling)
    BY DEF OriginInv, Inv, DataInv
<1>3. ~(run'[c] = Frame) /\ ~Spawns(c) /\ ~Begun(c) /\ ~Finds(c) /\ ~LooksUp(c)
    BY FrameParts DEF Spawns, Begun, Finds, LooksUp, Chosen
<1>4. ~Looped(c) /\ ~Generates(c)
    BY <1>2, GoroutinesTyped DEF Looped, Generates, Chosen
<1>5. Step(c) /\ Walk(run[c], run'[c])
    BY <1>1, <1>3, <1>4, RunMoves
<1>6. run[c].op = "EnrollStart" /\ run[c].id = driver.enrolling /\ run[c].pc = "start"
  <2>1. Inv'
      BY NextInv
  <2>2. run'[c].op = "EnrollStart"
      BY <1>1, <2>1 DEF Inv, FrameInv, Shape, Place, InChange
  <2> QED
      BY <1>5, <2>2 DEF Walk
<1> QED
    BY <1>6 DEF StoppedInv

LEMMA ServedMoves ==
    ASSUME Inv, StoppedInv, [Next]_vars, driver.enrolling \notin driver.regained \cup {None},
           driver'.enrolling = driver.enrolling
    PROVE  DriverServesAction'
<1> DEFINE e == driver.enrolling
<1>1. CASE e \in registered
  <2>1. ASSUME NEW g \in Goroutines, Step(g) PROVE e \in registered'
    <3>1. CASE undo(g) \/ release(g)
      <4>1. run[g].pc \in {"undo", "release"}
          BY <3>1 DEF undo, release, At
      <4>2. run[g].pc = "undo" => g \in Calls
          BY OpAt, AtCall DEF Inv, FrameInv, Shape, OpsOf
      <4>3. run[g].id # e
          BY <4>1, <4>2 DEF StoppedInv, Ends
      <4> QED
          BY <1>1, <2>1, <4>3, RegisteredMoves, genIdWalks
    <3>2. CASE ~(undo(g) \/ release(g))
        BY <1>1, <2>1, <3>2, RegisteredMoves, genIdWalks
    <3> QED
        BY <3>1, <3>2
  <2>2. ASSUME \/ \E c \in Calls : Begin(c)
               \/ Report \/ ChangeTypes \/ LoseDriver \/ LoseSender \/ UNCHANGED vars
        PROVE  e \in registered'
      BY <1>1, <2>2, Zenon DEF Begin, Report, ChangeTypes, LoseDriver, LoseSender, vars, acts
  <2>3. e \in registered'
      BY <2>1, <2>2, NextCases, Zenon, Zenon
  <2> QED
      BY <2>3 DEF DriverServesAction
<1>2. ASSUME NEW c \in Calls, run[c].id = e, run[c].pc \in {"store", "stop"}, e \notin registered
      PROVE  run'[c].id = e /\ run'[c].pc \in {"store", "stop"}
  <2>1. CASE run'[c] = run[c]
      BY <1>2, <2>1
  <2>2. CASE Step(c)
    <3>1. c \in Goroutines /\ run[c].pc # "stop"
        BY <1>2, <2>2, StepAt, StopEnds, GoroutinesTyped
    <3>2. keepInfo(c)
        BY <1>2, <2>2, <3>1, StepAt
    <3> QED
        BY <1>2, <3>2, keepInfoWalks DEF Places
  <2>3. c \in Goroutines /\ ~Spawns(c) /\ ~Begun(c)
      BY <1>2, GoroutinesTyped DEF Spawns, Begun
  <2> QED
      BY <2>1, <2>2, <2>3, RunMoves
<1> QED
    BY <1>1, <1>2 DEF StoppedInv, DriverServesAction

LEMMA EnrollsStopped ==
    ASSUME Inv, HolderInv, TurnInv, NEW c \in Calls, Enrolls(c)
    PROVE  StoppedInv'
<1> DEFINE e == run[c].id
<1>1. /\ driver'.enrolling = e /\ e \in Ids /\ Holds(run[c]) /\ c \in Goroutines /\ run[c].op = "EnrollStart"
      /\ run'[c].id = e /\ run'[c].pc = "store"
      /\ \A g \in Goroutines : g # c => run'[g] = run[g]
    BY GoroutinesTyped DEF Enrolls, Holds, Places, Others
<1>2. ASSUME NEW g \in Goroutines, Ends(run'[g]) PROVE run'[g].id # e
  <2> SUFFICES ASSUME run'[g].id = e PROVE FALSE
      OBVIOUS
  <2>1. g # c /\ Ends(run[g]) /\ run[g].id = e
      BY <1>1, <1>2 DEF Ends
  <2>2. CASE run[g].op = "EnrollStart"
    <3>1. g \in Calls /\ Holds(run[g])
        BY <2>1, <2>2, OpAt DEF Holds, Ends, Inv, FrameInv, Shape, OpsOf
    <3> QED
        BY <1>1, <2>1, <3>1 DEF HolderInv
  <2>3. CASE run[g].op = "EnrollStop"
    <3>1. g \in Calls /\ run[g].pc # "find"
        BY <2>1, <2>3 DEF Ends, Inv, FrameInv, Shape, OpsOf
    <3>2. action[e].sender = run[g].sender /\ action[e].sender = run[c].sender
        BY <1>1, <2>1, <2>3, <3>1 DEF HolderInv
    <3> QED
        BY <1>1, <2>1, <2>3, <3>1, <3>2, Zenon DEF TurnInv
  <2>4. CASE run[g].op = "listen"
    <3>1. run[g].id = g
        BY <2>4 DEF Inv, FrameInv, Shape
    <3>2. run[e].pc = "idle"
        BY <1>1 DEF HolderInv
    <3> QED
        BY <2>1, <3>1, <3>2 DEF Ends
  <2> QED
      BY <2>1, <2>2, <2>3, <2>4, OpAt DEF Ends
<1>3. ASSUME NEW d \in Calls, run'[d].pc \in {"start", "undo"} PROVE run'[d].id # e
  <2> SUFFICES ASSUME run'[d].id = e PROVE FALSE
      OBVIOUS
  <2>1. d # c /\ run[d] = run'[d] /\ d \in Goroutines
      BY <1>1, <1>3, GoroutinesTyped
  <2>2. Holds(run[d])
      BY <1>3, <2>1, OpAt DEF Holds
  <2> QED
      BY <1>1, <2>1, <2>2 DEF HolderInv
<1>4. DriverServesAction'
    BY <1>1 DEF DriverServesAction
<1> QED
    BY <1>1, <1>2, <1>3, <1>4 DEF StoppedInv

LEMMA NextStopped ==
    ASSUME Inv, Inv', OriginInv, HolderInv, TurnInv, GoneInv, StoppedInv, [Next]_vars
    PROVE  StoppedInv'
<1>1. CASE driver'.enrolling \in driver'.regained \cup {None}
    BY <1>1 DEF StoppedInv
<1>2. CASE driver.enrolling \notin driver.regained \cup {None} /\ driver'.enrolling = driver.enrolling
  <2>1. \A g \in Goroutines : Ends(run'[g]) => run'[g].id # driver.enrolling
      BY <1>2, EndsMoves
  <2>2. \A c \in Calls : run'[c].pc \in {"start", "undo"} => run'[c].id # driver.enrolling
      BY <1>2, StartsMoves
  <2>3. DriverServesAction'
      BY <1>2, ServedMoves
  <2> QED
      BY <1>2, <2>1, <2>2, <2>3 DEF StoppedInv
<1>3. CASE \E c \in Calls : Enrolls(c)
    BY <1>3, EnrollsStopped
<1> QED
    BY <1>1, <1>2, <1>3, DriverMoves

LEMMA InitStopped == Init => GoneInv /\ StoppedInv
<1> SUFFICES ASSUME Init PROVE GoneInv /\ StoppedInv
    OBVIOUS
<1>1. signals = <<>> /\ lost = {} /\ driver.enrolling = None
    BY DEF Init
<1> QED
    BY <1>1 DEF GoneInv, StoppedInv

(* While clients are not hasty, the driver is never left busy for an       *)
(* action that the daemon has forgotten, however often it changes its      *)
(* types: EnrollStart, EnrollStop, the listener and the loops end an       *)
(* enrolment in the driver before they release its action, unless the      *)
(* driver began it while a loss of its type was still on its way           *)
(* (charaManager/manager_ifc.go, charaManager/manager.go).                 *)
THEOREM ForgottenIsStopped ==
    ASSUME Hasty = {} PROVE Spec => []DriverServesAction
<1> DEFINE All == /\ Inv /\ ToldInv /\ HolderInv /\ TurnInv
                  /\ GoneInv /\ StoppedInv
<1>1. Init => All
    BY InitInv, InitTold, InitFile, InitStopped
<1>2. ASSUME All, [Next]_vars PROVE All'
  <2>1. Inv' /\ ToldInv'
      BY <1>2, NextInv, NextTold
  <2>2. HolderInv' /\ TurnInv'
      BY <1>2, <2>1, NextHolder, NextTurn
  <2>3. GoneInv'
      BY <1>2, <2>1, <2>2, NextGone DEF ToldInv
  <2>4. StoppedInv'
      BY <1>2, <2>1, NextStopped DEF ToldInv
  <2> QED
      BY <2>1, <2>2, <2>3, <2>4
<1>3. All => DriverServesAction
    BY DEF StoppedInv, DriverServesAction
<1> HIDE DEF All
<1> QED
    BY <1>1, <1>2, <1>3, PTL DEF Spec

-----------------------------------------------------------------------------
(* The listener of a registered action listens, once EnrollStart has let   *)
(* go of the action, and the action has its channel once it has started.   *)
Held(i) == \E c \in Calls : Holds(run[c]) /\ run[c].id = i

HearingInv ==
    \A i \in registered :
        /\ Held(i) \/ run[i].pc \notin {"idle", "waitForEver"}
        /\ i \in codeChans \/ \E c \in Calls : run[c].pc = "start" /\ run[c].id = i

(* A registered action is a new one, or stays what it was.                 *)
LEMMA RegisteredNew ==
    ASSUME Inv, [Next]_vars, NEW i \in registered', i \notin registered
    PROVE  \E c \in Calls : /\ run'[c].op = "EnrollStart" /\ run'[c].pc = "start" /\ run'[c].id = i
<1>1. ASSUME NEW g \in Goroutines, Step(g), registered' # registered
      PROVE  \E c \in Calls : run'[c].op = "EnrollStart" /\ run'[c].pc = "start" /\ run'[c].id = i
  <2>1. g \in Calls /\ genId(g)
      BY <1>1, RegisteredMoves
  <2>2. \E j \in Ids : registered' = registered \cup {j} /\ Chosen(g, "start", j) /\ run[g].op = "EnrollStart"
      BY <1>1, <2>1, genIdWalks
  <2> QED
      BY <2>1, <2>2 DEF Chosen
<1>2. \/ \E c \in Calls : Begin(c)
      \/ Report \/ ChangeTypes \/ LoseDriver \/ LoseSender \/ UNCHANGED vars
      => registered' = registered
    BY Zenon DEF Begin, Report, ChangeTypes, LoseDriver, LoseSender, vars, acts
<1> QED
    BY <1>1, <1>2, NextCases

(* Who takes an action off the register.                                   *)
LEMMA ReleaseLeaves ==
    ASSUME Inv, NEW g \in Goroutines, Step(g), run[g].pc \in {"undo", "release"}
    PROVE  run[g].id \notin registered'
  <1>1. undo(g) \/ release(g)
      BY StepAt
  <1> QED
      BY <1>1 DEF undo, release, Release

(* A call lets go of its action when it releases it, or when the listener  *)
(* begins.                                                                 *)
LEMMA HeldMoves ==
    ASSUME Inv, HolderInv, [Next]_vars, NEW i \in registered, i \in registered', Held(i)
    PROVE  Held(i)' \/ (Spawns(i) /\ action[i].sender \notin gone)
<1>1. PICK c \in Calls : Holds(run[c]) /\ run[c].id = i
    BY DEF Held
<1>2. c \in Goroutines /\ run[c].op = "EnrollStart" /\ run[c].pc # "idle" /\ run[c].pc # "genId"
    BY <1>1, GoroutinesTyped DEF Holds
<1>3. CASE run'[c] = run[c]
    BY <1>1, <1>3 DEF Held
<1>4. CASE Step(c)
  <2>1. run[c].pc \notin {"undo", "release"}
      BY <1>1, <1>2, <1>4, ReleaseLeaves
  <2>2. CASE run[c].pc = "start"
      BY <1>1, <1>2, <1>4, <2>2, StepAt, startWalks DEF Places, Held, Holds
  <2>3. CASE run[c].pc = "store"
    <3>1. keepInfo(c)
        BY <1>2, <1>4, <2>3, StepAt
    <3>2. CASE Places(c, "stop")
        BY <1>1, <1>2, <3>2 DEF Places, Held, Holds
    <3>3. CASE Listens(c, i) /\ run[c].sender \notin gone
      <4>1. i \in Ids /\ run[i].pc = "idle" /\ action[i].sender = run[c].sender
          BY <1>1, HeldActed DEF HolderInv
      <4> QED
          BY <1>1, <3>3, <4>1 DEF Spawns, Listens
    <3> QED
        BY <1>1, <3>1, <3>2, <3>3, keepInfoWalks
  <2>4. CASE run[c].pc = "stop"
    <3>1. Places(c, "release")
        BY <1>2, <1>4, <2>4, StepAt, stopWalks
    <3> QED
        BY <1>1, <1>2, <3>1 DEF Places, Held, Holds
  <2> QED
      BY <1>1, <2>1, <2>2, <2>3, <2>4 DEF Holds
<1>5. ~Spawns(c) /\ ~Begun(c)
    BY <1>2, GoroutinesTyped DEF Spawns, Begun
<1> QED
    BY <1>2, <1>3, <1>4, <1>5, RunMoves

(* A listener leaves its action when that is not registered.               *)
LEMMA ListensOn ==
    ASSUME Inv, HolderInv, HearingInv, [Next]_vars, NEW i \in registered, i \in registered',
           run[i].op = "listen", run[i].pc # "waitForEver"
    PROVE  /\ run'[i].op = "listen" /\ run'[i].pc \notin {"idle", "waitForEver"}
           /\ run'[i].type = run[i].type
           /\ run'[i] = run[i] \/ (Step(i) /\ Walk(run[i], run'[i]))
<1>1. i \in Ids /\ i \in Goroutines /\ i \notin Calls /\ run[i].id = i /\ run[i].pc # "idle"
    BY GoroutinesTyped, AtCall DEF Inv, ActInv, FrameInv, Shape
<1>2. ~Spawns(i) /\ ~Looped(i)
    BY <1>1, GoroutinesTyped DEF Spawns, Looped
<1>3. ASSUME Step(i), run'[i] = Frame PROVE FALSE
  <2>1. run[i].pc # "release"
      BY <1>1, <1>3, ReleaseLeaves
  <2>2. CASE run[i].pc = "spawned"
      BY <1>1, <1>3, <2>2, ListenAt, ListenerWalks, FrameParts DEF Places
  <2>3. CASE run[i].pc = "receive"
    <3>1. i \in closed
        BY <1>1, <1>3, <2>3, ListenAt, receiveQueued, FrameParts
    <3> QED
        BY <3>1 DEF Inv, ActInv
  <2>4. CASE run[i].pc = "look"
    <3>1. look(i)
        BY <1>1, <1>3, <2>4, ListenAt
    <3>2. run' = [run EXCEPT ![i].pc = next(i)[1], ![i].code = next(i)[2]]
        BY <3>1 DEF look
    <3>3. run'[i].pc = next(i)[1]
        BY <1>1, <3>2 DEF Inv, FrameInv, Frames
    <3> QED
        BY <1>3, <3>3, FrameParts DEF next
  <2>5. CASE run[i].pc = "getDriver"
    <3>1. ~Answered(i, FALSE) /\ ~Answered(i, run[i].type \in driverType)
        BY <1>3 DEF Answered
    <3> QED
        BY <1>1, <1>3, <2>5, <3>1, StepAt, getDriverWalks, FrameParts, Zenon
  <2>6. CASE run[i].pc = "stop"
      BY <1>1, <1>3, <2>6, StepAt, stopWalks, FrameParts DEF Places
  <2>7. CASE run[i].pc \in {"changeList", "changeInfos", "changeActions"}
      BY <1>1, <1>3, <2>7, StepAt, changeWalks, FrameParts, Zenon
  <2>8. CASE run[i].pc = "send"
    <3>1. ~send(i) /\ ~sent(i)
        BY <1>1, <1>3, sendQueued, FrameParts DEF sent
    <3>2. ~changed(i)
        BY <1>1, <1>3, changedWalks DEF Answered
    <3> QED
        BY <1>1, <1>3, <2>8, <3>1, <3>2, StepAt
  <2>9. run[i].pc \in {"spawned", "receive", "look", "getDriver", "stop", "release"} \cup InChange
      BY <1>1 DEF Inv, FrameInv, Shape, Place
  <2> QED
      BY <2>1, <2>2, <2>3, <2>4, <2>5, <2>6, <2>7, <2>8, <2>9 DEF InChange
<1>4. ASSUME Step(i), Walk(run[i], run'[i]) PROVE run'[i].pc # "waitForEver"
  <2>1. CASE run[i].pc = "spawned"
    <3>1. i \in codeChans
      <4>1. ASSUME NEW c \in Calls, run[c].pc = "start", run[c].id = i PROVE FALSE
        <5>1. Holds(run[c])
            BY <4>1, OpAt, GoroutinesTyped DEF Holds
        <5> QED
            BY <2>1, <4>1, <5>1 DEF HolderInv
      <4> QED
          BY <4>1 DEF HearingInv
    <3> QED
        BY <1>1, <1>4, <2>1, <3>1, ListenAt, ListenerWalks DEF Places
  <2>2. CASE run[i].pc # "spawned"
    <3> SUFFICES ASSUME run'[i].pc = "waitForEver" PROVE FALSE
        OBVIOUS
    <3>1. CASE run[i].pc \in {"receive", "look"}
      <4>1. run'[i].pc \in {"look", "receive", "release", "getDriver", "idle"}
        <5>1. CASE receive(i)
            BY <1>1, <5>1, receiveQueued, FrameParts
        <5>2. CASE look(i) /\ run' = [run EXCEPT ![i].pc = next(i)[1], ![i].code = next(i)[2]]
          <6>1. run'[i].pc = next(i)[1]
              BY <1>1, <5>2 DEF Inv, FrameInv, Frames
          <6> QED
              BY <6>1 DEF next
        <5>3. CASE look(i) /\ Return(i)
            BY <1>1, <5>3, ReturnWalks, FrameParts
        <5> QED
          <6>1. receive(i) \/ look(i)
              BY <1>1, <1>4, <3>1, ListenAt
          <6>2. look(i) => \/ Return(i)
                           \/ run' = [run EXCEPT ![i].pc = next(i)[1], ![i].code = next(i)[2]]
              BY DEF look
          <6> QED
              BY <5>1, <5>2, <5>3, <6>1, <6>2, Zenon, Zenon
      <4> QED
          BY <4>1
    <3>2. CASE run[i].pc = "getDriver"
      <4>1. ~Answered(i, FALSE) /\ ~Answered(i, run[i].type \in driverType)
          BY <1>1, FrameParts DEF Answered
      <4> QED
          BY <1>1, <1>4, <3>2, <4>1, StepAt, getDriverWalks, Zenon
    <3>3. CASE run[i].pc \in {"stop", "release"}
        BY <1>1, <1>4, <3>3, StepAt, stopWalks, releaseWalks, FrameParts DEF Places
    <3>4. CASE run[i].pc \in {"changeList", "changeInfos", "changeActions"}
        BY <1>1, <1>4, <3>4, StepAt, changeWalks, Zenon
    <3>5. CASE run[i].pc = "send"
      <4>1. ~send(i) /\ ~sent(i)
          BY <1>1, sendQueued, ReturnWalks, FrameParts DEF sent
      <4>2. ~changed(i)
          BY <1>1, changedWalks, FrameParts DEF Answered
      <4> QED
          BY <1>1, <1>4, <3>5, <4>1, <4>2, StepAt
    <3>6. run[i].pc \in {"receive", "look", "getDriver", "stop", "release"} \cup InChange
        BY <1>1, <2>2 DEF Inv, FrameInv, Shape, Place
    <3> QED
        BY <3>1, <3>2, <3>3, <3>4, <3>5, <3>6 DEF InChange
  <2> QED
      BY <2>1, <2>2
<1>5. run'[i] = run[i] \/ (Step(i) /\ Walk(run[i], run'[i]))
    BY <1>1, <1>2, <1>3, RunMoves
<1> QED
    BY <1>1, <1>4, <1>5 DEF Walk

LEMMA ChannelMoves ==
    ASSUME Inv, [Next]_vars, NEW i \in codeChans, i \notin codeChans'
    PROVE  i \notin registered'
<1>1. ASSUME NEW g \in Goroutines, Step(g) PROVE i \notin registered'
  <2>1. CallStep(g) => codeChans \subseteq codeChans'
      BY Zenon DEF CallStep, check, checkName, genId, start, undo, find, keepInfo, checkCode, saveInfo,
             rename, lookUp, deleteInDriver, forget, lockInfos, unlockInfos, acts
  <2>2. \/ spawned(g) \/ receive(g) \/ look(g) \/ takeStatus \/ takeList \/ takeTypes \/ takeLost
           => codeChans' = codeChans
      BY Zenon DEF spawned, receive, look, takeStatus, takeList, takeTypes, takeLost, acts
  <2>3. \/ getDriver(g) \/ stop(g) \/ changeList(g) \/ changeInfos(g) \/ changeActions(g)
           \/ send(g) \/ sent(g) \/ changed(g) => codeChans' = codeChans
      BY Zenon DEF getDriver, stop, changeList, changeInfos, changeActions, send, sent, changed, acts
  <2>4. release(g) => codeChans' = codeChans \ {run[g].id} /\ run[g].id \notin registered'
      BY DEF release, Release
  <2> QED
      BY <1>1, <2>1, <2>2, <2>3, <2>4, Zenon, Zenon DEF Step
<1>2. \/ \E c \in Calls : Begin(c)
      \/ Report \/ ChangeTypes \/ LoseDriver \/ LoseSender \/ UNCHANGED vars
      => codeChans' = codeChans
    BY Zenon DEF Begin, Report, ChangeTypes, LoseDriver, LoseSender, vars, acts
<1> QED
    BY <1>1, <1>2, NextCases

LEMMA NextHearing ==
    ASSUME Inv, HolderInv, HearingInv, [Next]_vars
    PROVE  HearingInv'
<1>1. ASSUME NEW i \in registered', i \notin registered
      PROVE  \E c \in Calls : Holds(run'[c]) /\ run'[c].pc = "start" /\ run'[c].id = i
    BY <1>1, RegisteredNew DEF Holds
<1>2. ASSUME NEW i \in registered', i \in registered
      PROVE  Held(i)' \/ run'[i].pc \notin {"idle", "waitForEver"}
  <2>1. CASE Held(i)
      BY <1>2, <2>1, HeldMoves DEF Spawns
  <2>2. CASE run[i].pc \notin {"idle", "waitForEver"}
    <3>1. i \in Ids /\ i \in Goroutines
        BY <1>2, GoroutinesTyped DEF Inv, ActInv
    <3>2. run[i].op = "listen"
        BY <2>2, <3>1, GoroutinesTyped DEF Inv, FrameInv, Shape, OpsOf, Place
    <3> QED
        BY <1>2, <2>2, <3>2, ListensOn
  <2> QED
      BY <1>2, <2>1, <2>2 DEF HearingInv
<1>3. ASSUME NEW i \in registered', i \in registered
      PROVE  i \in codeChans' \/ \E c \in Calls : run'[c].pc = "start" /\ run'[c].id = i
  <2>1. CASE i \in codeChans
      BY <1>3, <2>1, ChannelMoves
  <2>2. ASSUME NEW c \in Calls, run[c].pc = "start", run[c].id = i
        PROVE  i \in codeChans' \/ (run'[c].pc = "start" /\ run'[c].id = i)
    <3>1. c \in Goroutines /\ ~Spawns(c) /\ ~Begun(c)
        BY <2>2, GoroutinesTyped DEF Spawns, Begun
    <3>2. Step(c) => i \in codeChans'
        BY <2>2, <3>1, StepAt DEF start
    <3> QED
        BY <2>2, <3>1, <3>2, RunMoves
  <2> QED
      BY <1>3, <2>1, <2>2 DEF HearingInv
<1> QED
    BY <1>1, <1>2, <1>3 DEF HearingInv, Held, Holds

-----------------------------------------------------------------------------
(* The loss of a sender is not forgotten until its action is released: the *)
(* name waits, its code is sent, queued or being handled by the listener,  *)
(* or EnrollStart has still to look.                                       *)
Handles(i) ==
    /\ run[i].op = "listen" /\ run[i].code = LostCode[action[i].type]
    /\ run[i].pc \in {"look", "getDriver", "stop", "release"} \cup InChange

LostInv ==
    \A i \in registered : action[i].sender \in gone =>
        \/ action[i].sender \in lost
        \/ <<i, LostCode[action[i].type]>> \in run["names"].sends
        \/ Queued(i, LostCode[action[i].type])
        \/ Handles(i)
        \/ Held(i)

LEMMA GoneMoves ==
    ASSUME Inv, [Next]_vars
    PROVE  /\ \A s : s \in gone' => s \in gone \/ s \in lost'
           /\ \A s : s \in lost => \/ s \in lost'
                                   \/ \A i \in registered : action[i].sender = s =>
                                         <<i, LostCode[action[i].type]>> \in run'["names"].sends
<1>1. ASSUME NEW g \in Goroutines, Step(g) PROVE gone' = gone /\ (lost' = lost \/ takeLost)
  <2>1. CallStep(g) => UNCHANGED <<gone, lost>>
      BY Zenon DEF CallStep, check, checkName, genId, start, undo, find, keepInfo, checkCode, saveInfo,
             rename, lookUp, deleteInDriver, forget, lockInfos, unlockInfos, data
  <2>2. \/ spawned(g) \/ receive(g) \/ look(g) \/ takeStatus \/ takeList \/ takeTypes
           => UNCHANGED <<gone, lost>>
      BY DEF spawned, receive, look, takeStatus, takeList, takeTypes, data
  <2>3. takeLost => gone' = gone
      BY DEF takeLost
  <2>4. \/ getDriver(g) \/ stop(g) \/ release(g) \/ changeList(g) \/ changeInfos(g) \/ changeActions(g)
           \/ send(g) \/ sent(g) \/ changed(g) => UNCHANGED <<gone, lost>>
      BY Zenon DEF getDriver, stop, release, changeList, changeInfos, changeActions, send, sent, changed, data
  <2> QED
      BY <1>1, <2>1, <2>2, <2>3, <2>4, Zenon, Zenon DEF Step
<1>2. ASSUME takeLost, NEW s \in lost
      PROVE  \/ s \in lost'
             \/ \A i \in registered : action[i].sender = s =>
                   <<i, LostCode[action[i].type]>> \in run'["names"].sends
    BY <1>2, takeLostWalks
<1>3. LoseSender => lost \subseteq lost' /\ \A s \in gone' : s \in gone \/ s \in lost'
    BY DEF LoseSender
<1>4. LoseDriver => lost \subseteq lost' /\ gone' = gone
    BY DEF LoseDriver
<1>5. \/ \E c \in Calls : Begin(c)
      \/ Report \/ ChangeTypes \/ UNCHANGED vars
      => UNCHANGED <<gone, lost>>
    BY Zenon DEF Begin, Report, ChangeTypes, vars, data
<1> QED
    BY <1>1, <1>2, <1>3, <1>4, <1>5, NextCases

LEMMA NamesMoves ==
    ASSUME Inv, [Next]_vars, NEW i \in registered, NEW x, <<i, x>> \in run["names"].sends
    PROVE  <<i, x>> \in run'["names"].sends \/ Queued(i, x)'
<1> DEFINE m == <<i, x>>
<1>1. "names" \in Goroutines /\ "names" \notin Calls /\ "names" \notin Ids /\ i \notin closed
    BY GoroutinesTyped DEF Inv, ActInv
<1>2. CASE run'["names"] = run["names"]
    BY <1>2
<1>3. CASE Step("names")
  <2>1. run["names"].pc = "send" /\ run["names"].op \in Loops
    <3>1. Shape("names", run["names"])
        BY <1>1 DEF Inv, FrameInv
    <3> QED
        BY <1>1, <3>1 DEF Shape, Sending, Reading, OpsOf, Place, Loops
  <2>2. send("names") \/ sent("names") \/ changed("names")
      BY <1>1, <1>3, <2>1, StepAt
  <2>3. send("names")
      BY <2>1, <2>2 DEF sent, changed, Loops
  <2>4. PICK n \in run["names"].sends :
           /\ run'["names"].sends = run["names"].sends \ {n}
           /\ \A y : Queued(n[1], y)' <=> Queued(n[1], y) \/ (n[2] = y /\ n[1] \notin closed)
      BY <1>1, <2>3, sendQueued, Zenon
  <2>5. CASE n = m
    <3>1. n[1] = i /\ n[2] = x
        BY <2>5
    <3> QED
        BY <1>1, <2>4, <3>1
  <2> QED
      BY <2>4, <2>5
<1>4. ~Spawns("names")
    BY <1>1 DEF Spawns
<1> QED
    BY <1>1, <1>2, <1>3, <1>4, RunMoves

(* The listener that handles the loss goes on until it releases.           *)
LEMMA HandlesMoves ==
    ASSUME Inv, HolderInv, HearingInv, [Next]_vars, NEW i \in registered, i \in registered', Handles(i)
    PROVE  Handles(i)'
<1>1. /\ i \in Ids /\ i \in Goroutines /\ i \notin Calls /\ run[i].id = i /\ Acted(i)
      /\ action'[i].type = action[i].type
    BY GoroutinesTyped, ActionKept, Zenon DEF Handles, Inv, ActInv, FrameInv, Shape
<1>2. /\ run'[i].op = "listen" /\ run'[i].type = run[i].type
      /\ run'[i] = run[i] \/ (Step(i) /\ Walk(run[i], run'[i]))
    BY ListensOn DEF Handles, InChange
<1>3. CASE run'[i] = run[i]
    BY <1>1, <1>3 DEF Handles
<1>4. ASSUME run'[i].code = run[i].code,
             run'[i].pc \in {"look", "getDriver", "stop", "release"} \cup InChange
      PROVE  Handles(i)'
    BY <1>1, <1>2, <1>4 DEF Handles
<1>5. CASE Step(i)
  <2>1. run[i].op = "listen" /\ run[i].type = action[i].type
        /\ run[i].code = LostCode[run[i].type]
      BY <1>1 DEF Handles, HolderInv
  <2>2. run[i].pc # "release"
      BY <1>1, <1>5, ReleaseLeaves
  <2>3. CASE run[i].pc = "look"
    <3>1. look(i)
        BY <1>1, <1>5, <2>3, ListenAt
    <3>2. run' = [run EXCEPT ![i].pc = next(i)[1], ![i].code = next(i)[2]]
        BY <3>1 DEF look
    <3>3. next(i)[1] = "getDriver" /\ next(i)[2] = run[i].code
        BY <2>1 DEF next
    <3>4. run'[i].pc = "getDriver" /\ run'[i].code = run[i].code
      <4> DEFINE f == [[run[i] EXCEPT !.pc = "getDriver"] EXCEPT !.code = run[i].code]
      <4>1. run'[i] = f
          BY <1>1, <3>2, <3>3 DEF Inv, FrameInv
      <4> QED
          BY <1>1, <4>1 DEF Inv, FrameInv, Frames
    <3> QED
        BY <1>4, <3>4
  <2>4. ASSUME Answered(i, TRUE) \/ Answered(i, FALSE) PROVE Handles(i)'
      BY <1>4, <2>1, <2>4 DEF Answered
  <2>5. CASE run[i].pc = "getDriver"
    <3> DEFINE found == run[i].type \in driverType
    <3>1. found \in BOOLEAN
        OBVIOUS
    <3>2. getDriver(i)
        BY <1>1, <1>5, <2>5, StepAt
    <3>3. \/ Answered(i, FALSE) \/ Answered(i, found)
          \/ run'[i].pc = "changeList" /\ run'[i].code = run[i].code
        BY <1>1, <3>2, getDriverWalks, Zenon
    <3> HIDE DEF found
    <3> QED
        BY <1>4, <2>4, <3>1, <3>3, Zenon DEF InChange
  <2>6. CASE run[i].pc = "stop"
    <3>1. Places(i, "release")
        BY <1>1, <1>5, <2>1, <2>6, StepAt, stopWalks
    <3> QED
        BY <1>4, <3>1 DEF Places
  <2>7. CASE run[i].pc \in {"changeList", "changeInfos", "changeActions"}
    <3>1. run'[i].pc \in {"changeInfos", "changeActions", "send"} /\ run'[i].code = run[i].code
        BY <1>1, <1>5, <2>7, StepAt, changeWalks, Zenon
    <3> QED
        BY <1>4, <3>1 DEF InChange
  <2>8. CASE run[i].pc = "send"
    <3> DEFINE found == run[i].type \in run[i].into
    <3>1. send(i) \/ sent(i) \/ changed(i)
        BY <1>1, <1>5, <2>8, StepAt
    <3>2. ~sent(i)
        BY <2>1 DEF sent
    <3>3. CASE send(i)
      <4>1. run'[i].pc = "send" /\ run'[i].code = run[i].code
          BY <1>1, <3>3, sendQueued
      <4> QED
          BY <1>4, <4>1 DEF InChange
    <3>4. CASE changed(i)
      <4>1. Answered(i, found) /\ found \in BOOLEAN
          BY <1>1, <2>1, <3>4, changedWalks
      <4> HIDE DEF found
      <4> QED
          BY <2>4, <4>1, Zenon
    <3> QED
        BY <3>1, <3>2, <3>3, <3>4
  <2> QED
      BY <2>2, <2>3, <2>5, <2>6, <2>7, <2>8 DEF Handles, InChange
<1> QED
    BY <1>2, <1>3, <1>5

LEMMA NextLost ==
    ASSUME Inv, HolderInv, HearingInv, LostInv, [Next]_vars
    PROVE  LostInv'
<1> SUFFICES ASSUME NEW i \in registered', action'[i].sender \in gone'
             PROVE  \/ action'[i].sender \in lost'
                    \/ <<i, LostCode[action'[i].type]>> \in run'["names"].sends
                    \/ \E k \in DOMAIN chan'[i] : chan'[i][k] = LostCode[action'[i].type]
                    \/ Handles(i)'
                    \/ Held(i)'
    BY DEF LostInv, Queued
<1>1. CASE i \notin registered
    BY <1>1, RegisteredNew DEF Held, Holds
<1>2. CASE i \in registered
  <2>1. /\ i \in Ids /\ Acted(i) /\ action'[i].sender = action[i].sender
        /\ action'[i].type = action[i].type
      BY <1>2, ActionKept, Zenon DEF Inv, ActInv
  <2> DEFINE L == LostCode[action[i].type]
  <2>2. CASE action[i].sender \notin gone
      BY <2>1, <2>2, GoneMoves
  <2>3. CASE action[i].sender \in gone
    <3>1. CASE action[i].sender \in lost
        BY <1>2, <2>1, <3>1, GoneMoves
    <3>2. CASE <<i, L>> \in run["names"].sends
        BY <1>2, <2>1, <3>2, NamesMoves DEF Queued
    <3>3. CASE Queued(i, L)
      <4>1. Queued(i, L)' \/ (run'[i].pc = "look" /\ run'[i].code = L /\ Step(i))
          BY <2>1, <3>3, ChanMoves
      <4>2. ASSUME run'[i].pc = "look", run'[i].code = L PROVE Handles(i)'
        <5>1. Inv' /\ i \in Goroutines
            BY <2>1, NextInv, GoroutinesTyped
        <5>2. run'[i].op = "listen"
            BY <4>2, <5>1 DEF Inv, FrameInv, Shape, Place, InChange
        <5> QED
            BY <2>1, <4>2, <5>2 DEF Handles
      <4> QED
          BY <2>1, <4>1, <4>2 DEF Queued
    <3>4. CASE Handles(i)
        BY <1>2, <3>4, HandlesMoves
    <3>5. CASE Held(i)
        BY <1>2, <2>3, <3>5, HeldMoves
    <3> QED
        BY <1>2, <2>3, <3>1, <3>2, <3>3, <3>4, <3>5 DEF LostInv
  <2> QED
      BY <2>2, <2>3
<1> QED
    BY <1>1, <1>2

LEMMA InitLost == Init => HearingInv /\ LostInv
    BY DEF Init, HearingInv, LostInv

(* At rest nothing is on its way to an action any more.                    *)
LEMMA RestReleases ==
    ASSUME Inv, HearingInv, LostInv, StoppedInv, AtRest,
           NEW i \in Ids, action[i].sender \in gone
    PROVE  i \notin registered /\ (driver.enrolling = i => i \in driver.regained)
<1>1. \A g \in Goroutines : run[g].pc \in {"idle", "waitForEver", "receive"}
    BY DEF AtRest, At
<1>2. ~Held(i)
    BY <1>1, GoroutinesTyped DEF Held, Holds
<1>3. i \notin registered
  <2> SUFFICES ASSUME i \in registered PROVE FALSE
      OBVIOUS
  <2>1. i \in Goroutines /\ chan[i] = <<>>
      BY <1>1, <1>2, GoroutinesTyped DEF HearingInv, AtRest, At
  <2>2. ~Queued(i, LostCode[action[i].type])
      BY <2>1 DEF Queued
  <2>3. run["names"].sends = {}
      BY <1>1, GoroutinesTyped DEF Inv, FrameInv, Shape, Sending
  <2>4. ~Handles(i)
      BY <1>1, <2>1 DEF Handles, InChange
  <2>5. lost = {}
      BY DEF AtRest
  <2> QED
      BY <1>2, <2>2, <2>3, <2>4, <2>5 DEF LostInv
<1>4. driver.enrolling = i => i \in driver.regained
  <2>1. i # None
      BY CharaAssumption
  <2>2. \A c \in Calls : run[c].pc \notin {"store", "stop"}
      BY <1>1, GoroutinesTyped
  <2> QED
      BY <1>3, <2>1, <2>2 DEF StoppedInv, DriverServesAction
<1> QED
    BY <1>3, <1>4

(* Under the same conditions, once the daemon is at rest the enrolment of  *)
(* a sender that left the bus is ended and the driver is free of it,       *)
(* wherever EnrollStart, the loop of lost names and the listener were when *)
(* it left (charaManager/manager.go).                                      *)
THEOREM LostIsReleased ==
    ASSUME Hasty = {} PROVE Spec => []LostSenderReleased
<1> DEFINE All == /\ Inv /\ ToldInv /\ HolderInv /\ TurnInv
                  /\ GoneInv /\ StoppedInv /\ HearingInv /\ LostInv
<1>1. Init => All
    BY InitInv, InitTold, InitFile, InitStopped, InitLost
<1>2. ASSUME All, [Next]_vars PROVE All'
  <2>1. Inv' /\ ToldInv'
      BY <1>2, NextInv, NextTold
  <2>2. HolderInv' /\ TurnInv'
      BY <1>2, <2>1, NextHolder, NextTurn
  <2>3. GoneInv'
      BY <1>2, <2>1, <2>2, NextGone DEF ToldInv
  <2>4. StoppedInv'
      BY <1>2, <2>1, NextStopped DEF ToldInv
  <2>5. HearingInv' /\ LostInv'
      BY <1>2, NextHearing, NextLost
  <2> QED
      BY <2>1, <2>2, <2>3, <2>4, <2>5
<1>3. All => LostSenderReleased
    BY RestReleases DEF LostSenderReleased
<1> HIDE DEF All
<1> QED
    BY <1>1, <1>2, <1>3, PTL DEF Spec

=============================================================================
