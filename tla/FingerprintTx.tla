--------------------------- MODULE FingerprintTx ---------------------------
(***************************************************************************)
(* The fingerprint factors of all sessions (session/fingerprint_tx.go).    *)
(* They share one device: the global `claimed` names the factor that has   *)
(* it, and a factor that starts ends that one first. An attempt is a       *)
(* goroutine (worker) that verifies until a finger was compared or the     *)
(* channel quit is closed, gives the device back, closes the channel       *)
(* release and reports its result.                                         *)
(*                                                                         *)
(* The channels of a factor are fields that every attempt replaces: the    *)
(* fields hold those of attempt tries[x]. The fingerprint service sees one *)
(* client, the daemon: a claim takes the device over from whichever factor *)
(* had it, a release gives it back whoever claimed it.                     *)
(***************************************************************************)
EXTENDS Naturals, FiniteSets

CONSTANTS
    Txs,          \* fingerprint factors, one of each session
    username,     \* the user each of them verifies
    Goroutines,   \* goroutines for calls, timers and signal handlers
    Methods,      \* what they do: "Start", "End", "EndAll", "Timeout",
                  \* "TTYChanged", "Lock", "Unlock"
    Serial,       \* clients wait for a call to return before the next one
    MaxCalls,     \* bound on the calls
    MaxAttempts,  \* bound on the attempts of a factor
    None          \* no factor, no goroutine

ASSUME FingerprintTxAssumption ==
    /\ None \notin Txs \cup Goroutines
    /\ DOMAIN username = Txs
    /\ Methods \subseteq {"Start", "End", "EndAll", "Timeout", "TTYChanged", "Lock", "Unlock"}
    /\ Serial \in BOOLEAN
    /\ MaxCalls \in Nat /\ MaxAttempts \in Nat

VARIABLES
    devState,   \* per factor: "Idle", "Verifying" or "Ended"
    locked,     \* per factor: lockState is lockStateLocked
    isEnded,    \* per factor: FingerprintTx.isEnded
    endedMu,    \* per factor: the goroutine that holds endedMu
    tries,      \* per factor: number of attempts; quit and release are those
                \* of the last one
    closed,     \* factors whose controller has ended (End(-1))
    claimed,    \* the factor that has the device
    claimedMu,  \* the goroutine that holds claimedMu
    quit,       \* attempts whose channel quit is closed
    released,   \* attempts whose channel release is closed
    worker,     \* per attempt: where its goroutine is, and its result
    listening,  \* attempts whose handler of VerifyStatus is connected
    user,       \* the factor for whose user the service has the device claimed
    call,       \* per goroutine: what it does and where it is in it
    calls,      \* number of calls
    panicked,   \* the daemon has panicked
    overlapped, \* history: factors that were started anew, or whose lock was
                \* changed, while an attempt of theirs was under way
    forgotten   \* history: a claim was forgotten for the end of another factor

txVars == <<devState, locked, isEnded, endedMu, tries, closed>>
claimVars == <<claimed, claimedMu>>
workVars == <<quit, released, worker, listening>>
history == <<overlapped, forgotten>>
vars == <<txVars, claimVars, workVars, user, call, calls, panicked, history>>

Attempts == Txs \X (1..MaxAttempts)
Idle == [op |-> "none", pc |-> "idle", tx |-> None, ending |-> None, try |-> 0, all |-> FALSE]

Init ==
    /\ devState = [x \in Txs |-> "Idle"]
    /\ locked = [x \in Txs |-> FALSE]
    /\ isEnded = [x \in Txs |-> FALSE]
    /\ endedMu = [x \in Txs |-> None]
    /\ tries = [x \in Txs |-> 0]
    /\ closed = {}
    /\ claimed = None /\ claimedMu = None
    /\ quit = {} /\ released = {} /\ listening = {}
    /\ worker = [w \in Attempts |-> [pc |-> "new", result |-> "nil"]]
    /\ user = None
    /\ call = [c \in Goroutines |-> Idle]
    /\ calls = 0
    /\ panicked = FALSE
    /\ overlapped = {} /\ forgotten = FALSE

-----------------------------------------------------------------------------
At(c, pc) == call[c].pc = pc
Goto(c, pc) == call' = [call EXCEPT ![c].pc = pc]
Return(c) == call' = [call EXCEPT ![c] = Idle]

(* The step after which a goroutine waits for endedMu of the factor e.     *)
GotoEnd(c, e, all) ==
    call' = [call EXCEPT ![c].pc = "end", ![c].ending = e, ![c].all = all]

FirstStep(op) ==
    CASE op \in {"Start", "TTYChanged"} -> "lockClaimed"
      [] op \in {"End", "EndAll", "Timeout"} -> "end"
      [] OTHER -> "giveLock"

(* Which calls get as far as the factor: the controller starts an idle and *)
(* unlocked one, ends one that is not idle, and ends all only once.        *)
Allowed(op, x) ==
    CASE op = "Start" -> devState[x] = "Idle" /\ ~locked[x] /\ tries[x] < MaxAttempts
      [] op = "End" -> devState[x] # "Idle"
      [] op = "EndAll" -> devState[x] # "Idle" /\ x \notin closed
      [] op = "Timeout" -> tries[x] > 0
      [] op = "Lock" -> ~locked[x]
      [] op = "Unlock" -> locked[x]
      [] OTHER -> TRUE

Clients == {"Start", "End", "EndAll"}
Busy(x) == \E c \in Goroutines : call[c].tx = x /\ call[c].op \in Clients

Begin(c) ==
    /\ At(c, "idle") /\ calls < MaxCalls
    /\ \E op \in Methods, x \in Txs :
          /\ Allowed(op, x)
          /\ Serial /\ op \in Clients => ~Busy(x)
          /\ call' = [call EXCEPT ![c] = [op |-> op, pc |-> FirstStep(op), tx |-> x,
                                          ending |-> x, try |-> 0, all |-> op = "EndAll"]]
          /\ closed' = IF op = "EndAll" THEN closed \cup {x} ELSE closed
    /\ calls' = calls + 1
    /\ UNCHANGED <<devState, locked, isEnded, endedMu, tries, claimVars, workVars, user,
                   panicked, history>>

(* authenticate and cancelLastFingerprintTx lock claimedMu and end the     *)
(* factor that has the device.                                             *)
lockClaimed(c) ==
    /\ At(c, "lockClaimed") /\ claimedMu = None
    /\ claimedMu' = c
    /\ LET own == IF call[c].op = "Start" THEN {None, call[c].tx} ELSE {None}
       IN  IF claimed \notin own THEN GotoEnd(c, claimed, TRUE) ELSE Goto(c, "claim")
    /\ UNCHANGED <<txVars, claimed, workVars, user, calls, panicked, history>>

-----------------------------------------------------------------------------
(* An attempt of x has not reported yet.                                   *)
UnderWay(x) == \E i \in 1..MaxAttempts : worker[<<x, i>>].pc \notin {"new", "done"}

Overlaps(x, late) == overlapped' = IF late THEN overlapped \cup {x} ELSE overlapped

(* end: what follows it in the goroutine.                                  *)
Ended(c) ==
    CASE call[c].op \in {"Start", "TTYChanged"} -> Goto(c, "claim")
      [] call[c].op = "Lock" -> Goto(c, "setLock")
      [] OTHER -> Return(c)

(* Mutant: the attempt is not told to stop.                                *)
endWithoutQuit(c) ==
    LET e == call[c].ending
    IN  /\ At(c, "end") /\ endedMu[e] = None
        /\ IF isEnded[e]
           THEN Ended(c) /\ UNCHANGED endedMu
           ELSE /\ endedMu' = [endedMu EXCEPT ![e] = c]
                /\ call' = [call EXCEPT ![c].try = tries[e],
                               ![c].pc = IF devState[e] = "Verifying" THEN "wait" ELSE "giveEnd"]
        /\ UNCHANGED <<devState, locked, isEnded, tries, closed, claimVars, workVars, user,
                       calls, panicked, history>>

end(c) ==
    LET e == call[c].ending
    IN  /\ At(c, "end") /\ endedMu[e] = None
        /\ IF isEnded[e]
           THEN Ended(c) /\ UNCHANGED <<endedMu, quit, panicked>>
           ELSE /\ endedMu' = [endedMu EXCEPT ![e] = c]
                /\ IF devState[e] = "Verifying"
                   THEN /\ call' = [call EXCEPT ![c].try = tries[e], ![c].pc = "wait"]
                        /\ quit' = quit \cup {<<e, tries[e]>>}
                        /\ panicked' = (panicked \/ <<e, tries[e]>> \in quit)
                   ELSE Goto(c, "giveEnd") /\ UNCHANGED <<quit, panicked>>
        /\ UNCHANGED <<devState, locked, isEnded, tries, closed, claimVars, released, worker,
                       listening, user, calls, history>>

(* Mutant: end does not wait until the device was given back.              *)
waitNot(c) ==
    /\ At(c, "wait")
    /\ Goto(c, "giveEnd")
    /\ UNCHANGED <<txVars, claimVars, workVars, user, calls, panicked, history>>

waitRelease(c) ==
    /\ At(c, "wait") /\ <<call[c].ending, call[c].try>> \in released
    /\ Goto(c, "giveEnd")
    /\ UNCHANGED <<txVars, claimVars, workVars, user, calls, panicked, history>>

giveEnd(c) ==
    /\ At(c, "giveEnd")
    /\ devState' = [devState EXCEPT ![call[c].ending] = "Idle"]
    /\ Goto(c, "markEnd")
    /\ UNCHANGED <<locked, isEnded, endedMu, tries, closed, claimVars, workVars, user, calls,
                   panicked, history>>

(* The claim that is forgotten with e is not that of another factor, nor   *)
(* one that was just made.                                                 *)
OwnClaim(e) == claimed \in {None, e} /\ \A c \in Goroutines : ~At(c, "start")

(* isEnded is set only after the status was given. closeAllResource also   *)
(* disconnects the handlers and forgets the claim, without claimedMu.      *)
markEnd(c) ==
    LET e == call[c].ending
    IN  /\ At(c, "markEnd")
        /\ isEnded' = [isEnded EXCEPT ![e] = TRUE]
        /\ endedMu' = [endedMu EXCEPT ![e] = None]
        /\ IF call[c].all
           THEN claimed' = None /\ listening' = {w \in listening : w[1] # e}
           ELSE UNCHANGED <<claimed, listening>>
        /\ forgotten' = (forgotten \/ (call[c].all /\ ~OwnClaim(e)))
        /\ Ended(c)
        /\ UNCHANGED <<devState, locked, tries, closed, claimedMu, quit, released, worker, user,
                       calls, panicked, overlapped>>

-----------------------------------------------------------------------------
(* Mutant: claimedMu stays locked.                                         *)
cancelledHeld(c) ==
    /\ At(c, "claim") /\ call[c].op = "TTYChanged"
    /\ claimed' = None
    /\ Return(c)
    /\ UNCHANGED <<txVars, claimedMu, workVars, user, calls, panicked, history>>

(* The end of cancelLastFingerprintTx.                                     *)
cancelled(c) ==
    /\ At(c, "claim") /\ call[c].op = "TTYChanged"
    /\ claimed' = None /\ claimedMu' = None
    /\ Return(c)
    /\ UNCHANGED <<txVars, workVars, user, calls, panicked, history>>

(* authenticate asks the service, which first releases a device that is    *)
(* claimed; an error is returned to the controller.                        *)
claim(c) ==
    /\ At(c, "claim") /\ call[c].op = "Start"
    /\ claimed' = call[c].tx
    /\ \/ user' = call[c].tx /\ Goto(c, "start") /\ UNCHANGED claimedMu
       \/ user' \in {user, None} /\ Return(c) /\ claimedMu' = None
    /\ Overlaps(call[c].tx, UnderWay(call[c].tx))
    /\ UNCHANGED <<txVars, workVars, calls, panicked, forgotten>>

start(c) ==
    LET x == call[c].tx
        w == <<x, tries[x] + 1>>
    IN  /\ At(c, "start") /\ tries[x] < MaxAttempts
        /\ tries' = [tries EXCEPT ![x] = @ + 1]
        /\ isEnded' = [isEnded EXCEPT ![x] = FALSE]
        /\ devState' = [devState EXCEPT ![x] = "Verifying"]
        /\ worker' = [worker EXCEPT ![w].pc = "verify"]
        /\ claimedMu' = None
        /\ Return(c)
        /\ Overlaps(x, UnderWay(x) \/ endedMu[x] # None)
        /\ UNCHANGED <<locked, endedMu, closed, claimed, quit, released, listening, user, calls,
                       panicked, forgotten>>

(* setLockState gives the status, ends an attempt that is still verifying  *)
(* after it, and then sets lockState.                                      *)
giveLock(c) ==
    /\ At(c, "giveLock")
    /\ devState' = [devState EXCEPT ![call[c].tx] =
                       IF call[c].op = "Lock" THEN "Ended" ELSE "Idle"]
    /\ Goto(c, IF call[c].op = "Lock" THEN "checkState" ELSE "setLock")
    /\ Overlaps(call[c].tx, UnderWay(call[c].tx))
    /\ UNCHANGED <<locked, isEnded, endedMu, tries, closed, claimVars, workVars, user, calls,
                   panicked, forgotten>>

checkState(c) ==
    /\ At(c, "checkState")
    /\ Goto(c, IF devState[call[c].tx] = "Verifying" THEN "end" ELSE "setLock")
    /\ UNCHANGED <<txVars, claimVars, workVars, user, calls, panicked, history>>

setLock(c) ==
    /\ At(c, "setLock")
    /\ locked' = [locked EXCEPT ![call[c].tx] = call[c].op = "Lock"]
    /\ Return(c)
    /\ UNCHANGED <<devState, isEnded, endedMu, tries, closed, claimVars, workVars, user, calls,
                   panicked, history>>

-----------------------------------------------------------------------------
(* An attempt.                                                             *)
Worker(w, pc, result) == worker' = [worker EXCEPT ![w] = [pc |-> pc, result |-> result]]

(* Verify fails when nobody has the device, and may fail otherwise.        *)
verify(w) ==
    /\ worker[w].pc = "verify"
    /\ listening' = listening \cup {w}
    /\ \/ user # None /\ Worker(w, "loop", "nil")
       \/ Worker(w, "unclaim", "Error")
    /\ UNCHANGED <<txVars, claimVars, quit, released, user, call, calls, panicked, history>>

(* A closed quit, or the result of a comparison with the fingers of the    *)
(* user; a device that was disconnected yields no result.                  *)
leaveLoop(w) ==
    /\ worker[w].pc = "loop"
    /\ \/ w \in quit /\ Worker(w, "stop", "nil")
       \/ /\ w \in listening /\ user # None /\ username[user] = username[w[1]]
          /\ \E r \in {"Success", "Failure", "Error", "nil"} : Worker(w, "stop", r)
    /\ UNCHANGED <<txVars, claimVars, quit, released, listening, user, call, calls, panicked,
                   history>>

stopVerify(w) ==
    /\ worker[w].pc = "stop"
    /\ Worker(w, "unclaim", worker[w].result) \/ Worker(w, "unclaim", "Error")
    /\ UNCHANGED <<txVars, claimVars, quit, released, listening, user, call, calls, panicked,
                   history>>

(* Mutant: release is closed before the device is given back.              *)
unclaimLate(w) ==
    /\ worker[w].pc = "unclaim"
    /\ IF <<w[1], tries[w[1]]>> \in released
       THEN user' = None /\ Worker(w, "report", worker[w].result) /\ UNCHANGED released
       ELSE released' = released \cup {<<w[1], tries[w[1]]>>} /\ UNCHANGED <<user, worker>>
    /\ UNCHANGED <<txVars, claimVars, quit, listening, call, calls, panicked, history>>

unclaim(w) ==
    /\ worker[w].pc = "unclaim"
    /\ user' = None
    /\ Worker(w, "release", worker[w].result)
    /\ UNCHANGED <<txVars, claimVars, quit, released, listening, call, calls, panicked, history>>

(* Mutant: the attempt closes both channels when it is over.               *)
closeBoth(w) ==
    LET field == <<w[1], tries[w[1]]>>
    IN  /\ worker[w].pc = "release"
        /\ panicked' = (panicked \/ field \in released)
        /\ released' = released \cup {field}
        /\ quit' = quit \cup {field}
        /\ Worker(w, "report", worker[w].result)
        /\ UNCHANGED <<txVars, claimVars, listening, user, call, calls, history>>

(* The channel in the field is closed, which is that of the last attempt.  *)
releaseWaiters(w) ==
    LET field == <<w[1], tries[w[1]]>>
    IN  /\ worker[w].pc = "release"
        /\ panicked' = (panicked \/ field \in released)
        /\ released' = released \cup {field}
        /\ Worker(w, "report", worker[w].result)
        /\ UNCHANGED <<txVars, claimVars, quit, listening, user, call, calls, history>>

report(w) ==
    /\ worker[w].pc = "report"
    /\ devState' = IF worker[w].result = "nil" THEN devState
                   ELSE [devState EXCEPT ![w[1]] = "Ended"]
    /\ Worker(w, "done", worker[w].result)
    /\ UNCHANGED <<locked, isEnded, endedMu, tries, closed, claimVars, quit, released, listening,
                   user, call, calls, panicked, history>>

-----------------------------------------------------------------------------
Step(c) ==
    \/ lockClaimed(c) \/ end(c) \/ waitRelease(c) \/ giveEnd(c) \/ markEnd(c)
    \/ cancelled(c) \/ claim(c) \/ start(c)
    \/ giveLock(c) \/ checkState(c) \/ setLock(c)

(* What an attempt does of itself, and when it is told to quit.            *)
Work(w) == verify(w) \/ leaveLoop(w) \/ stopVerify(w) \/ unclaim(w) \/ releaseWaiters(w)
           \/ report(w)

Next ==
    /\ ~panicked
    /\ \/ \E c \in Goroutines : Begin(c) \/ Step(c)
       \/ \E w \in Attempts : Work(w)

Spec == Init /\ [][Next]_vars

(* Goroutines run, the mutexes of Go hand over in the end, and the service *)
(* answers; fingers need not come, so that an attempt leaves the loop of   *)
(* necessity only when it is told to.                                      *)
FairSpec ==
    /\ Spec
    /\ \A c \in Goroutines : SF_vars(~panicked /\ Step(c))
    /\ \A w \in Attempts :
          WF_vars(~panicked /\ (worker[w].pc = "loop" => w \in quit) /\ Work(w))

-----------------------------------------------------------------------------
(* Type invariant: claimedMu and endedMu are held in the steps between     *)
(* their Lock and Unlock only (fingerprint_tx.go).                         *)
TypeOK ==
    /\ devState \in [Txs -> {"Idle", "Verifying", "Ended"}]
    /\ locked \in [Txs -> BOOLEAN] /\ isEnded \in [Txs -> BOOLEAN]
    /\ endedMu \in [Txs -> Goroutines \cup {None}]
    /\ tries \in [Txs -> 0..MaxAttempts]
    /\ closed \subseteq Txs
    /\ claimed \in Txs \cup {None} /\ claimedMu \in Goroutines \cup {None}
    /\ quit \subseteq Attempts /\ released \subseteq Attempts /\ listening \subseteq Attempts
    /\ worker \in [Attempts -> [pc : {"new", "verify", "loop", "stop", "unclaim", "release",
                                      "report", "done"},
                                result : {"nil", "Success", "Failure", "Error"}]]
    /\ user \in Txs \cup {None}
    /\ \A c \in Goroutines :
          /\ call[c].op \in Methods \cup {"none"}
          /\ claimedMu = c <=> /\ call[c].op \in {"Start", "TTYChanged"}
                               /\ call[c].pc # "lockClaimed"
          /\ \A x \in Txs : endedMu[x] = c <=> /\ call[c].pc \in {"wait", "giveEnd", "markEnd"}
                                               /\ call[c].ending = x
    /\ panicked \in BOOLEAN
    /\ overlapped \subseteq Txs /\ forgotten \in BOOLEAN

Using(w) == worker[w].pc \in {"loop", "stop"}
UsedBy == {x \in Txs : \E i \in 1..MaxAttempts : Using(<<x, i>>)}

L == INSTANCE Lease WITH holder <- user, users <- UsedBy

(* The device is lent to one factor at a time: it is claimed only when it  *)
(* was given back, used only by its holder, and not given back while it is *)
(* used, however factors take it over from each other and are started anew *)
(* (authenticate, end and the goroutine of an attempt). The code promises  *)
(* it until the attempts of a factor overlap, or end forgets, without      *)
(* claimedMu, the claim of another factor.                                 *)
Orderly == overlapped = {} /\ ~forgotten

LentToOne == L!Init /\ [][Orderly' => L!Next \/ UNCHANGED L!lease]_vars

(* A channel is closed twice only when a factor was started anew, or its   *)
(* lock changed, while its last attempt was under way (end, and the        *)
(* goroutine of an attempt).                                               *)
NoDoubleClose == panicked => overlapped # {}

(* A factor that is ended and was not started again has stopped its        *)
(* verification, unless its attempts overlapped (end, StopVerify).         *)
EndStopsVerify == \A x \in Txs \ overlapped : isEnded[x] => x \notin UsedBy

(* StopVerify is called only for a device that is claimed for the factor   *)
(* (doVerify).                                                             *)
StopOwnVerify == \A w \in Attempts : worker[w].pc = "stop" => user = w[1]

(* A factor verifies anew only when its last verification was stopped      *)
(* (end, doVerify).                                                        *)
OneAttempt ==
    \A x \in Txs, i, j \in 1..MaxAttempts : Using(<<x, i>>) /\ Using(<<x, j>>) => i = j

(* Every call returns: end waits only for an attempt that will stop, and   *)
(* the mutexes are given back (end, authenticate, cancelLast).             *)
CallsReturn == \A c \in Goroutines : call[c].op # "none" ~> call[c].op = "none" \/ panicked
=============================================================================
