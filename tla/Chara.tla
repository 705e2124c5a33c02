------------------------------- MODULE Chara -------------------------------
(***************************************************************************)
(* Enrolled characters (faces and irises) and the actions that enroll them *)
(* with a driver: service/charaManager and service/charaDataManger.        *)
(*                                                                         *)
(* A goroutine is a call of a client, the listener of an action (named by  *)
(* the action), the loop of the driver's signals or the loop of lost bus   *)
(* names; run[g] holds its place and its local variables.  An id stands    *)
(* for the action and for the character that it enrolls: EnrollStart       *)
(* generates both.  There is one driver.  The channels driverInfoChan and  *)
(* charaInfoChan are left out: their readers take no lock that a sender    *)
(* holds.                                                                  *)
(***************************************************************************)
EXTENDS Naturals, Sequences, FiniteSets, Functions

CONSTANTS
    Senders, user,   \* connections of clients, and whose they are
    Hasty,           \* those whose calls of EnrollStart and EnrollStop may overlap
    Types,           \* the types of characters: "Face", "Iris"
    Names,           \* names of characters
    Ids, Known,      \* actions, and those whose characters were loaded
    Calls, Methods,  \* goroutines of calls, and the methods they call
    Driver, None,
    Cap,             \* capacity of codeStatusChan
    MaxCalls, MaxStatuses, MaxChanges, MaxLost  \* bounds on what happens outside

ASSUME CharaAssumption ==
    /\ Types \subseteq {"Face", "Iris"} /\ Known \subseteq Ids /\ Hasty \subseteq Senders
    /\ Cap \in Nat \ {0} /\ Senders \subseteq DOMAIN user /\ Driver \notin Senders
    /\ Calls \cap Ids = {} /\ {"signals", "names"} \cap (Calls \cup Ids) = {}
    /\ None \notin Calls \cup Ids \cup Names \cup {"signals", "names"}

(* The codes for a lost receiver and a lost sender differ by type.         *)
GoneCode == [t \in Types |-> IF t = "Face" THEN "FaceGone" ELSE "IrisGone"]
LostCode == [t \in Types |-> IF t = "Face" THEN "FaceSenderLost" ELSE "IrisSenderLost"]

Codes == {"Invalid", "Progress", "Success", "FaceGone"} \cup
         {GoneCode[t] : t \in Types} \cup {LostCode[t] : t \in Types}

VARIABLES
    driver,      \* the driver program, the characters it has stored and, as a history,
                 \* the enrolments in regained
    driverType,  \* DriverCharaType: what the daemon thinks it supports
    signals,     \* the driver's signals that are not handled yet
    lost,        \* bus names whose loss is not handled yet
    gone,        \* senders that have left the bus
    infos,       \* charaInfoMap, without what loading and saving add
    infoMu,      \* charaInfoMtx: who writes, or None
    registered,  \* the actions in actionMap
    action,      \* ActionInfo of every action that ever was
    mu, readers, \* actionMapMtx: who writes, or None; who reads for long
    chan,        \* codeStatusChan: codes that are queued
    closed,      \* the actions whose channel is closed
    codeChans,   \* the actions in codeChanMap
    run,
    panicked,    \* a closed channel was used
    told, saved, \* history: actions whose sender heard of the success, that were saved
    misplaced,   \* history: the driver deleted them, and Delete forgot another of their name
    count        \* calls, statuses and changes so far

data == <<driver, driverType, signals, lost, gone>>
store == <<infos, infoMu, saved, misplaced>>
acts == <<registered, action, closed, codeChans, panicked>>
lock == <<mu, readers>>
vars == <<data, store, acts, lock, chan, run, told, count>>

Goroutines == Calls \cup Ids \cup {"signals", "names"}

Frame == [pc |-> "idle", op |-> "none", sender |-> None, type |-> "none",
          name |-> None, newName |-> None, id |-> None, claim |-> FALSE,
          code |-> "Invalid", sends |-> {}, from |-> {}, into |-> {},
          list |-> {}, told |-> FALSE]

NoAction == [sender |-> None, type |-> "none", name |-> None, code |-> "Invalid"]

Unused == {i \in Ids \ Known : action[i] = NoAction}

(* init: the characters of the file are available when the driver, if it   *)
(* runs, lists them.                                                       *)
Init ==
    /\ \E offers \in SUBSET Types, stored \in SUBSET Known :
          /\ driver = [alive |-> TRUE, offers |-> offers, stored |-> stored,
                       enrolling |-> None, regained |-> {}]
          /\ driverType = offers
          /\ \E name \in [Known -> Names], s \in Senders, t \in Types :
                /\ IsInjective(name)
                /\ infos = [i \in Known |-> [user |-> user[s], type |-> t,
                                             name |-> name[i], avail |-> i \in stored]]
    /\ signals = <<>> /\ lost = {} /\ gone = {}
    /\ infoMu = None /\ mu = None /\ readers = {}
    /\ registered = {} /\ closed = {} /\ codeChans = {}
    /\ action = [i \in Ids |-> NoAction]
    /\ chan = [i \in Ids |-> <<>>]
    /\ run = [g \in Goroutines |-> Frame]
    /\ panicked = FALSE
    /\ told = {} /\ saved = {} /\ misplaced = {}
    /\ count = [calls |-> 0, statuses |-> 0, changes |-> 0]

At(g, pc) == run[g].pc = pc
Goto(g, pc) == run' = [run EXCEPT ![g].pc = pc]
Return(g) == run' = [run EXCEPT ![g] = Frame]

CanRead == mu = None
CanWrite == mu = None /\ readers = {}

-----------------------------------------------------------------------------
(* The calls of charaManager's interface.                                  *)
Start(c, op, first, s, t, n, m) ==
    /\ op \in Methods
    /\ run' = [run EXCEPT ![c] = [Frame EXCEPT !.op = op, !.pc = first, !.sender = s,
                                               !.type = t, !.name = n, !.newName = m]]

Busy(s, op) == \E c \in Calls : run[c].sender = s /\ run[c].op = op

Begin(c) ==
    /\ At(c, "idle") /\ count.calls < MaxCalls
    /\ count' = [count EXCEPT !.calls = @ + 1]
    /\ \E s \in Senders \ gone, t \in Types, n \in Names :
          \/ /\ s \in Hasty \/ ~Busy(s, "EnrollStop")
             /\ Start(c, "EnrollStart", "check", s, t, n, None)
          \/ /\ s \in Hasty \/ ~(Busy(s, "EnrollStart") \/ Busy(s, "EnrollStop"))
             /\ Start(c, "EnrollStop", "find", s, "none", None, None)
          \/ \E m \in Names : Start(c, "Rename", "rename", s, t, n, m)
          \/ Start(c, "Delete", "lookUp", s, t, n, None)
          \/ Start(c, "List", "lockInfos", s, t, None, None)
    /\ UNCHANGED <<data, store, acts, lock, chan, told>>

Named(s, t, n) ==
    {i \in DOMAIN infos : infos[i].user = user[s] /\ infos[i].type = t /\ infos[i].name = n}
Taken(s, t, n) == {i \in Named(s, t, n) : infos[i].avail}

(* CheckErollAvaliable keeps the read lock while it looks at the names;    *)
(* the bus does not know the user of a sender that has left.               *)
check(c) ==
    /\ At(c, "check") /\ CanRead
    /\ IF \E i \in registered : action[i].sender = run[c].sender
       THEN Return(c) /\ UNCHANGED readers
       ELSE Goto(c, "checkName") /\ readers' = readers \cup {c}
    /\ UNCHANGED <<data, store, acts, mu, chan, told, count>>

checkName(c) ==
    LET r == run[c]
    IN  /\ At(c, "checkName") /\ infoMu = None
        /\ readers' = readers \ {c}
        /\ IF r.sender \in gone \/ Taken(r.sender, r.type, r.name) # {}
           THEN Return(c) ELSE Goto(c, "getDriver")
        /\ UNCHANGED <<data, store, acts, mu, chan, told, count>>

(* GetDriver asks the driver; the caller goes on when it got one that is   *)
(* free, or, to stop, in any case.                                         *)
WithDriver(g, r, found) ==
    LET On(pc) == [r EXCEPT !.pc = pc, !.claim = FALSE]
    IN  CASE r.op = "EnrollStart" /\ found /\ ~r.claim -> On("genId")
          [] r.op = "EnrollStop" /\ found -> On("stop")
          [] r.op = "Delete" /\ found /\ ~r.claim -> On("delete")
          [] r.op = "List" -> On("unlockInfos")
          [] r.op = "listen" -> On(IF found THEN "stop" ELSE "release")
          [] OTHER -> Frame

getDriver(g) ==
    LET r == [run[g] EXCEPT !.claim = driver.enrolling # None]
    IN  /\ At(g, "getDriver")
        /\ run' = [run EXCEPT ![g] =
              IF ~driver.alive \/ driver.offers = {} THEN WithDriver(g, r, FALSE)
              ELSE IF driver.offers # driverType
              THEN [r EXCEPT !.pc = "changeList", !.from = driverType, !.into = driver.offers]
              ELSE WithDriver(g, r, r.type \in driverType)]
        /\ UNCHANGED <<data, store, acts, lock, chan, told, count>>

(* GenActionId: one action of a sender and a type; it needs the name of    *)
(* the driver's owner. Bound: a call waits when no id of Ids is left.      *)
genId(c) ==
    LET r == run[c]
    IN  /\ At(c, "genId") /\ CanWrite
        /\ IF \/ ~driver.alive
              \/ \E i \in registered : action[i].sender = r.sender /\ action[i].type = r.type
           THEN Return(c) /\ UNCHANGED <<registered, action>>
           ELSE \E i \in Unused :
                    /\ registered' = registered \cup {i}
                    /\ action' = [action EXCEPT ![i] = [NoAction EXCEPT !.sender = r.sender,
                                                                        !.type = r.type]]
                    /\ run' = [run EXCEPT ![c].pc = "start", ![c].id = i]
        /\ UNCHANGED <<data, store, closed, codeChans, panicked, lock, chan, told, count>>

(* History: the driver had given up the type of the action for a while,    *)
(* and the daemon has still to take note of that: the change is announced  *)
(* or being handled, or the action already has the code for it.            *)
Losing(i) ==
    LET t == action[i].type
    IN  \/ \E k \in DOMAIN signals : signals[k].kind = "types" /\ t \notin signals[k].types
        \/ \E g \in Goroutines :
              \/ run[g].pc \in {"changeList", "changeInfos", "changeActions"}
                 /\ t \notin run[g].into
              \/ <<i, GoneCode[t]>> \in run[g].sends
        \/ GoneCode[t] \in Range(chan[i])

(* codeChanMap gets the channel, and the driver begins unless it is busy,  *)
(* does not offer the type any more, or fails.                             *)
start(c) ==
    LET i == run[c].id
    IN  /\ At(c, "start")
        /\ codeChans' = codeChans \cup {i}
        /\ \/ /\ driver.alive /\ driver.enrolling = None /\ run[c].type \in driver.offers
              /\ driver' = [driver EXCEPT !.enrolling = i,
                                          !.regained = @ \cup {j \in {i} : Losing(j)}]
              /\ Goto(c, "store")
           \/ /\ Goto(c, "undo")
              /\ UNCHANGED driver
        /\ UNCHANGED <<driverType, signals, lost, gone, store, registered, action,
                       closed, panicked, lock, chan, told, count>>

(* Mutant: ReleasseActionId closes the channel and keeps the entry.        *)
ReleaseKeepsEntry(i) ==
    /\ closed' = IF i \in registered THEN closed \cup {i} ELSE closed
    /\ panicked' = (panicked \/ i \in registered \cap closed)
    /\ UNCHANGED registered

(* ReleasseActionId.                                                       *)
Release(i) ==
    /\ closed' = IF i \in registered THEN closed \cup {i} ELSE closed
    /\ panicked' = (panicked \/ i \in registered \cap closed)
    /\ registered' = registered \ {i}

(* EnrollStart failed: codeChanMap keeps its entry.                        *)
undo(c) ==
    /\ At(c, "undo") /\ CanWrite
    /\ Release(run[c].id)
    /\ Return(c)
    /\ UNCHANGED <<data, store, action, codeChans, lock, chan, told, count>>

(* saveCharaInfoToActionInfo, and the listener starts; or, when the action *)
(* or the sender is gone, EnrollStart takes everything back.               *)
keepInfo(c) ==
    LET r == run[c]
    IN  /\ At(c, "store") /\ CanRead
        /\ IF r.id \in registered /\ r.sender \notin gone
           THEN /\ action' = [action EXCEPT ![r.id].name = r.name]
                /\ run' = [run EXCEPT ![c] = Frame,
                              ![r.id] = [Frame EXCEPT !.op = "listen", !.pc = "spawned",
                                                      !.id = r.id, !.type = r.type]]
           ELSE Goto(c, "stop") /\ UNCHANGED action
        /\ UNCHANGED <<data, store, registered, closed, codeChans, panicked, lock, chan,
                       told, count>>

(* EnrollStop: any action of the sender.                                   *)
find(c) ==
    /\ At(c, "find") /\ CanRead
    /\ IF \E i \in registered : action[i].sender = run[c].sender
       THEN \E i \in registered :
               /\ action[i].sender = run[c].sender
               /\ run' = [run EXCEPT ![c].pc = "getDriver", ![c].id = i,
                                     ![c].type = action[i].type, ![c].told = i \in told]
       ELSE Return(c)
    /\ UNCHANGED <<data, store, acts, lock, chan, told, count>>

(* Mutant: the driver is not told when its listener ends the action.       *)
stopCallsOnly(g) ==
    LET i == run[g].id
    IN  /\ At(g, "stop")
        /\ driver' = IF driver.enrolling = i /\ g \in Calls
                     THEN [driver EXCEPT !.enrolling = None] ELSE driver
        /\ IF run[g].op = "EnrollStop" THEN Goto(g, "save") ELSE Goto(g, "release")
        /\ UNCHANGED <<driverType, signals, lost, gone, store, acts, lock, chan, told, count>>

(* The driver ends the enrolment; what it answers when it was not busy     *)
(* with it is open. Only EnrollStop looks at the answer.                   *)
stop(g) ==
    LET i == run[g].id
    IN  /\ At(g, "stop")
        /\ driver' = IF driver.enrolling = i THEN [driver EXCEPT !.enrolling = None]
                     ELSE driver
        /\ \/ run[g].op = "EnrollStop" /\ Goto(g, "save")
           \/ run[g].op = "EnrollStop" /\ driver.enrolling # i /\ Return(g)
           \/ run[g].op # "EnrollStop" /\ Goto(g, "release")
        /\ UNCHANGED <<driverType, signals, lost, gone, store, acts, lock, chan, told, count>>

(* Mutant: EnrollStop does not look at the last code.                      *)
checkNot(c) ==
    /\ At(c, "save") /\ CanRead
    /\ Goto(c, IF run[c].id \in registered THEN "saveInfo" ELSE "release")
    /\ UNCHANGED <<data, store, acts, lock, chan, told, count>>

(* EnrollStop stores the character when the last code was the success.     *)
checkCode(c) ==
    LET i == run[c].id
    IN  /\ At(c, "save")
        /\ \/ action[i].code # "Success" /\ Goto(c, "release")
           \/ /\ action[i].code = "Success" /\ CanRead
              /\ Goto(c, IF i \in registered THEN "saveInfo" ELSE "release")
        /\ UNCHANGED <<data, store, acts, lock, chan, told, count>>

(* SaveCharaInfo: other characters of that name that the driver does not   *)
(* have are removed. An action without a character stores an entry that    *)
(* belongs to nobody, which is left out.                                   *)
saveInfo(c) ==
    LET i == run[c].id
        a == action[i]
        others == {j \in DOMAIN infos : infos[j].name = a.name /\ infos[j].type = a.type
                                        /\ infos[j].user = user[a.sender] /\ ~infos[j].avail}
    IN  /\ At(c, "saveInfo") /\ infoMu = None
        /\ infos' = IF a.name = None THEN infos
                    ELSE [j \in {i} \cup (DOMAIN infos \ others) |->
                             IF j = i THEN [user |-> user[a.sender], type |-> a.type,
                                            name |-> a.name, avail |-> TRUE]
                             ELSE infos[j]]
        /\ saved' = saved \cup {i}
        /\ Goto(c, "release")
        /\ UNCHANGED <<data, infoMu, misplaced, acts, lock, chan, told, count>>

(* releasseActionInfo, at the end of a call and in the listener, which     *)
(* goes on to read when only the driver is gone.                           *)
release(g) ==
    /\ At(g, "release") /\ CanWrite
    /\ Release(run[g].id)
    /\ codeChans' = codeChans \ {run[g].id}
    /\ IF run[g].op = "listen" /\ run[g].code = GoneCode[run[g].type]
       THEN run' = [run EXCEPT ![g].pc = "receive", ![g].code = "Invalid"] ELSE Return(g)
    /\ UNCHANGED <<data, store, action, lock, chan, told, count>>

(* ChangeCharaName: the map is read in any order, and a character may have *)
(* its new name before another one is found that has it already.           *)
rename(c) ==
    LET r == run[c]
        old == Taken(r.sender, r.type, r.name)
        new == Taken(r.sender, r.type, r.newName)
        Renamed(S) == [i \in DOMAIN infos |-> IF i \in S THEN [infos[i] EXCEPT !.name = r.newName]
                                              ELSE infos[i]]
    IN  /\ At(c, "rename") /\ infoMu = None
        /\ \/ new # {} /\ \E S \in SUBSET (old \ new) : infos' = Renamed(S)
           \/ new = {} /\ old = {} /\ UNCHANGED infos
           \/ new = {} /\ old # {} /\ infos' = Restrict(Renamed(old), DOMAIN infos \
                                                 (Named(r.sender, r.type, r.name) \ old))
        /\ Return(c)
        /\ UNCHANGED <<data, infoMu, saved, misplaced, acts, lock, chan, told, count>>

(* Delete: GetCharaInfo finds one of the name, DeleteChara forgets one.    *)
lookUp(c) ==
    LET all == Named(run[c].sender, run[c].type, run[c].name)
    IN  /\ At(c, "lookUp")
        /\ IF all = {} THEN Return(c)
           ELSE \E i \in all : run' = [run EXCEPT ![c].pc = "getDriver", ![c].id = i]
        /\ UNCHANGED <<data, store, acts, lock, chan, told, count>>

Listed(stored) == [kind |-> "list", list |-> stored]

deleteInDriver(c) ==
    LET left == driver.stored \ {run[c].id}
    IN  /\ At(c, "delete")
        /\ \/ /\ driver.alive
              /\ driver' = [driver EXCEPT !.stored = left]
              /\ signals' = Append(signals, Listed(left))
              /\ Goto(c, "forget")
           \/ Return(c) /\ UNCHANGED <<driver, signals>>
        /\ UNCHANGED <<driverType, lost, gone, store, acts, lock, chan, told, count>>

forget(c) ==
    LET i == run[c].id
        all == Named(run[c].sender, run[c].type,
                     IF i \in DOMAIN infos THEN infos[i].name ELSE run[c].name)
    IN  /\ At(c, "forget") /\ infoMu = None
        /\ \/ all = {} /\ UNCHANGED <<infos, misplaced>>
           \/ \E j \in all :
                 /\ infos' = Restrict(infos, DOMAIN infos \ {j})
                 /\ misplaced' = misplaced \cup ({i} \ {j})
        /\ Return(c)
        /\ UNCHANGED <<data, infoMu, saved, acts, lock, chan, told, count>>

(* List reads with the write lock of charaInfoMtx around GetDriver.        *)
lockInfos(c) ==
    /\ At(c, "lockInfos") /\ infoMu = None
    /\ infoMu' = c
    /\ Goto(c, "getDriver")
    /\ UNCHANGED <<data, infos, saved, misplaced, acts, lock, chan, told, count>>

unlockInfos(c) ==
    /\ At(c, "unlockInfos")
    /\ infoMu' = None
    /\ Return(c)
    /\ UNCHANGED <<data, infos, saved, misplaced, acts, lock, chan, told, count>>

-----------------------------------------------------------------------------
(* listenStatusInfo: a listener that starts after its action was released  *)
(* finds no channel and waits for ever.                                    *)
spawned(i) ==
    /\ At(i, "spawned")
    /\ Goto(i, IF i \in codeChans THEN "receive" ELSE "waitForEver")
    /\ UNCHANGED <<data, store, acts, lock, chan, told, count>>

receive(i) ==
    /\ At(i, "receive")
    /\ \/ /\ chan[i] # <<>>
          /\ run' = [run EXCEPT ![i].pc = "look", ![i].code = Head(chan[i])]
          /\ chan' = [chan EXCEPT ![i] = Tail(@)]
       \/ chan[i] = <<>> /\ i \in closed /\ Return(i) /\ UNCHANGED chan
    /\ UNCHANGED <<data, store, acts, lock, told, count>>

(* Mutant: the code for a lost sender is taken for another status.         *)
nextPastLost(i) ==
    LET code == run[i].code
    IN  IF code = GoneCode[run[i].type] THEN <<"release", code>> ELSE <<"receive", "Invalid">>

(* The enrolment of a lost sender is stopped, that of a lost driver is     *)
(* released.                                                               *)
next(i) ==
    LET code == run[i].code
    IN  IF code = LostCode[run[i].type] THEN <<"getDriver", code>>
        ELSE IF code = GoneCode[run[i].type] THEN <<"release", code>>
        ELSE <<"receive", "Invalid">>

(* Every other code is sent to the client.                                 *)
look(i) ==
    /\ At(i, "look") /\ CanRead
    /\ IF i \notin registered THEN Return(i) /\ UNCHANGED told
       ELSE /\ run' = [run EXCEPT ![i].pc = next(i)[1], ![i].code = next(i)[2]]
            /\ told' = IF run[i].code = "Success" THEN told \cup {i} ELSE told
    /\ UNCHANGED <<data, store, acts, lock, chan, count>>

-----------------------------------------------------------------------------
(* What both handlers of a changed list, and GetDriver, do with it.        *)
Matched(list) == [i \in DOMAIN infos |-> [infos[i] EXCEPT !.avail = i \in list]]

(* The loop of the driver's signals: handleDriverSignalEnrollStatus sends  *)
(* while it holds actionMapMtx; handleDriverListChange; and the handler of *)
(* CharaType, which notes the type before it handles the change.           *)
takeStatus ==
    LET h == Head(signals)
    IN  /\ At("signals", "idle") /\ signals # <<>> /\ h.kind = "status" /\ CanWrite
        /\ signals' = Tail(signals)
        /\ IF h.id \in registered
           THEN /\ mu' = "signals"
                /\ run' = [run EXCEPT !["signals"] = [Frame EXCEPT !.op = "status", !.pc = "send",
                              !.id = h.id, !.code = h.code, !.sends = {<<h.id, h.code>>}]]
           ELSE UNCHANGED <<mu, run>>
        /\ UNCHANGED <<driver, driverType, lost, gone, store, acts, readers, chan, told, count>>

takeList ==
    /\ At("signals", "idle") /\ signals # <<>> /\ Head(signals).kind = "list" /\ infoMu = None
    /\ signals' = Tail(signals)
    /\ infos' = Matched(Head(signals).list)
    /\ UNCHANGED <<driver, driverType, lost, gone, infoMu, saved, misplaced, acts, lock, chan,
                   run, told, count>>

takeTypes ==
    LET new == Head(signals).types
    IN  /\ At("signals", "idle") /\ signals # <<>> /\ Head(signals).kind = "types"
        /\ signals' = Tail(signals)
        /\ driverType' = new
        /\ run' = IF new = driverType THEN run
                  ELSE [run EXCEPT !["signals"] = [Frame EXCEPT !.op = "types",
                            !.pc = "changeList", !.from = driverType, !.into = new]]
        /\ UNCHANGED <<driver, lost, gone, store, acts, lock, chan, told, count>>

(* HandleDriverCharaTypeChange, in the loop or in GetDriver: the list is   *)
(* read before charaInfoMtx is taken, for the types that came; the actions *)
(* of the types that left get the code for a lost face driver.             *)
changeList(g) ==
    /\ At(g, "changeList")
    /\ IF run[g].into \subseteq run[g].from THEN Goto(g, "changeActions")
       ELSE run' = [run EXCEPT ![g].pc = "changeInfos", ![g].list = driver.stored]
    /\ UNCHANGED <<data, store, acts, lock, chan, told, count>>

changeInfos(g) ==
    /\ At(g, "changeInfos") /\ infoMu = None
    /\ infoMu' = g
    /\ infos' = Matched(run[g].list)
    /\ Goto(g, "changeActions")
    /\ UNCHANGED <<data, saved, misplaced, acts, lock, chan, told, count>>

changeActions(g) ==
    LET left == run[g].from \ run[g].into
        hit == {i \in registered : action[i].type \in left}
    IN  /\ At(g, "changeActions")
        /\ left # {} => CanRead
        /\ readers' = IF left = {} THEN readers ELSE readers \cup {g}
        /\ infos' = [i \in DOMAIN infos |->
                        [infos[i] EXCEPT !.avail = @ /\ (hit = {} \/ infos[i].type \notin left)]]
        /\ run' = [run EXCEPT ![g].pc = "send", ![g].sends = {<<i, "FaceGone">> : i \in hit}]
        /\ UNCHANGED <<data, infoMu, saved, misplaced, acts, mu, chan, told, count>>

(* The loop of lost bus names sends to all actions of the name in one      *)
(* critical section.                                                       *)
takeLost ==
    /\ At("names", "idle") /\ CanWrite
    /\ \E n \in lost :
          /\ lost' = lost \ {n}
          /\ run' = [run EXCEPT !["names"] = [Frame EXCEPT !.op = "names", !.pc = "send", !.sends =
                {<<i, LostCode[action[i].type]>> : i \in {j \in registered : action[j].sender = n}}
                \cup {<<i, GoneCode[action[i].type]>> : i \in {j \in registered : n = Driver}}]]
    /\ mu' = "names"
    /\ UNCHANGED <<driver, driverType, signals, gone, store, acts, readers, chan, told, count>>

(* A send waits while the channel is full, with the mutex held.            *)
send(g) ==
    /\ At(g, "send")
    /\ \E m \in run[g].sends :
          /\ Len(chan[m[1]]) < Cap \/ m[1] \in closed
          /\ panicked' = (panicked \/ m[1] \in closed)
          /\ chan' = [chan EXCEPT ![m[1]] = IF m[1] \in closed THEN @ ELSE Append(@, m[2])]
          /\ run' = [run EXCEPT ![g].sends = @ \ {m}]
    /\ UNCHANGED <<data, store, registered, action, closed, codeChans, lock, told, count>>

(* Mutant: the status is sent before the mutex is taken to keep its code.  *)
sentLate(g) ==
    /\ At(g, "send") /\ run[g].sends = {} /\ run[g].op \in {"status", "names"}
    /\ mu' = None
    /\ Return(g)
    /\ UNCHANGED <<data, store, acts, readers, chan, told, count>>

sent(g) ==
    /\ At(g, "send") /\ run[g].sends = {} /\ run[g].op \in {"status", "names"}
    /\ action' = IF run[g].op = "status" THEN [action EXCEPT ![run[g].id].code = run[g].code]
                 ELSE action
    /\ mu' = None
    /\ Return(g)
    /\ UNCHANGED <<data, store, registered, closed, codeChans, panicked, readers, chan, told,
                   count>>

changed(g) ==
    LET r == run[g]
    IN  /\ At(g, "send") /\ r.sends = {} /\ r.op \notin {"status", "names"}
        /\ readers' = readers \ {g}
        /\ infoMu' = IF r.into \subseteq r.from THEN infoMu ELSE None
        /\ driverType' = IF r.op = "types" THEN driverType ELSE r.into
        /\ run' = [run EXCEPT ![g] = WithDriver(g, [r EXCEPT !.from = {}, !.into = {}, !.list = {}],
                                                r.type \in r.into)]
        /\ UNCHANGED <<driver, signals, lost, gone, infos, saved, misplaced, acts, mu, chan, told,
                       count>>

-----------------------------------------------------------------------------
(* The driver, external: it reports on the enrolment it is busy with, and  *)
(* at last its success; devices come and go, which ends the enrolment of   *)
(* their type but leaves the stored characters; and it may leave the bus.  *)
Report ==
    LET i == driver.enrolling
        status == [kind |-> "status", id |-> i, code |-> "Success"]
    IN  /\ driver.alive /\ i # None /\ i \notin driver.stored
        /\ \/ /\ count.statuses < MaxStatuses
              /\ signals' = Append(signals, [status EXCEPT !.code = "Progress"])
              /\ count' = [count EXCEPT !.statuses = @ + 1]
              /\ UNCHANGED driver
           \/ LET stored == driver.stored \cup {i}
              IN  /\ signals' \in {signals \o <<status, Listed(stored)>>,
                                   signals \o <<Listed(stored), status>>}
                  /\ driver' = [driver EXCEPT !.stored = stored]
                  /\ UNCHANGED count
        /\ UNCHANGED <<driverType, lost, gone, store, acts, lock, chan, run, told>>

ChangeTypes ==
    /\ driver.alive /\ count.changes < MaxChanges
    /\ count' = [count EXCEPT !.changes = @ + 1]
    /\ \E types \in SUBSET Types \ {driver.offers} :
          /\ driver' = [driver EXCEPT !.offers = types,
                !.enrolling = IF @ # None /\ action[@].type \notin types THEN None ELSE @]
          /\ signals' = Append(signals, [kind |-> "types", types |-> types])
    /\ UNCHANGED <<driverType, lost, gone, store, acts, lock, chan, run, told>>

Losses == Cardinality(gone) + (IF driver.alive THEN 0 ELSE 1)

LoseDriver ==
    /\ driver.alive /\ Losses < MaxLost
    /\ driver' = [driver EXCEPT !.alive = FALSE, !.enrolling = None]
    /\ lost' = lost \cup {Driver}
    /\ UNCHANGED <<driverType, signals, gone, store, acts, lock, chan, run, told, count>>

LoseSender ==
    /\ Losses < MaxLost
    /\ \E s \in Senders \ gone : gone' = gone \cup {s} /\ lost' = lost \cup {s}
    /\ UNCHANGED <<driver, driverType, signals, store, acts, lock, chan, run, told, count>>

-----------------------------------------------------------------------------
CallStep(c) ==
    \/ check(c) \/ checkName(c) \/ genId(c) \/ start(c) \/ undo(c) \/ keepInfo(c)
    \/ find(c) \/ checkCode(c) \/ saveInfo(c)
    \/ rename(c) \/ lookUp(c) \/ deleteInDriver(c) \/ forget(c)
    \/ lockInfos(c) \/ unlockInfos(c)

Step(g) ==
    /\ ~panicked
    /\ \/ g \in Calls /\ CallStep(g)
       \/ g \in Ids /\ (spawned(g) \/ receive(g) \/ look(g))
       \/ g = "signals" /\ (takeStatus \/ takeList \/ takeTypes)
       \/ g = "names" /\ takeLost
       \/ getDriver(g) \/ stop(g) \/ release(g)
       \/ changeList(g) \/ changeInfos(g) \/ changeActions(g)
       \/ send(g) \/ sent(g) \/ changed(g)

Next ==
    \/ \E c \in Calls : ~panicked /\ Begin(c)
    \/ \E g \in Goroutines : Step(g)
    \/ Report
    \/ ChangeTypes
    \/ LoseDriver
    \/ LoseSender

Spec == Init /\ [][Next]_vars

-----------------------------------------------------------------------------
(* Type correctness, and the discipline of the two mutexes.                *)
TypeOK ==
    /\ driver \in [alive : BOOLEAN, offers : SUBSET Types, stored : SUBSET Ids,
                   enrolling : Ids \cup {None}, regained : SUBSET Ids]
    /\ driverType \subseteq Types
    /\ \A i \in DOMAIN signals : signals[i].kind \in {"status", "list", "types"}
    /\ gone \subseteq Senders /\ lost \subseteq gone \cup {Driver}
    /\ DOMAIN infos \subseteq Ids
    /\ \A i \in DOMAIN infos : infos[i] \in [user : Range(user), type : Types, name : Names,
                                             avail : BOOLEAN]
    /\ registered \cup closed \cup codeChans \cup told \cup saved \cup misplaced \subseteq Ids
    /\ action \in [Ids -> [sender : Senders \cup {None}, type : Types \cup {"none"},
                           name : Names \cup {None}, code : Codes]]
    /\ \A i \in Ids : Len(chan[i]) <= Cap /\ Range(chan[i]) \subseteq Codes
    /\ mu \in {"signals", "names", None} /\ (mu # None => readers = {} /\ At(mu, "send"))
    /\ infoMu \in Goroutines \cup {None} /\ (infoMu # None => ~At(infoMu, "idle"))
    /\ readers \subseteq Goroutines
    /\ \A g \in readers : run[g].pc \in {"checkName", "send"}

(* The channel of an action is closed once, and nothing is sent to it      *)
(* afterwards, although handlers, the listener and calls that end the same *)
(* action race: either would take the daemon down.                         *)
NoClosedChannel == ~panicked

(* The driver never stays busy for an action that the daemon has           *)
(* forgotten: whoever releases an action has stopped the driver before, or *)
(* the EnrollStart that has just started it will; or the driver began it   *)
(* while the daemon had still to take note that its type had been gone.    *)
(* This holds while clients are not hasty.                                 *)
DriverServesAction ==
    \/ driver.enrolling \in registered \cup driver.regained \cup {None}
    \/ \E c \in Calls : run[c].id = driver.enrolling /\ run[c].pc \in {"store", "stop"}

(* A client that calls EnrollStop once it has heard of the success has its *)
(* character stored before the action is released.                         *)
ToldIsSaved ==
    \A c \in Calls :
        At(c, "release") /\ run[c].op = "EnrollStop" /\ run[c].told /\ run[c].id \in registered
            => run[c].id \in saved

(* A character that is offered for authentication is one that the driver   *)
(* has, whatever was enrolled, deleted, renamed and listed meanwhile, and   *)
(* however late a list is applied; except while its Delete goes on, or when *)
(* that has forgotten another character of the same name instead.           *)
AvailableIsStored ==
    \A i \in DOMAIN infos : infos[i].avail =>
        \/ i \in driver.stored \cup misplaced
        \/ \E c \in Calls : At(c, "forget") /\ run[c].id = i

(* Once the daemon is at rest, the enrolment of a sender that left the bus *)
(* is ended, whatever the call of EnrollStart was doing at that time, and  *)
(* the driver is free again, with the same exception.                      *)
AtRest ==
    /\ signals = <<>> /\ lost = {}
    /\ \A g \in Goroutines : \/ run[g].pc \in {"idle", "waitForEver"}
                             \/ At(g, "receive") /\ chan[g] = <<>>

LostSenderReleased ==
    AtRest => \A i \in Ids : action[i].sender \in gone
                => i \notin registered /\ (driver.enrolling = i => i \in driver.regained)

=============================================================================
