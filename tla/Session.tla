------------------------------ MODULE Session ------------------------------
(***************************************************************************)
(* One authentication session (service/authenticate/session): the methods  *)
(* of its Manager, the controller that collects what the factors report    *)
(* (normalVerify, or multiFactorVerify when MFA), and what all factors     *)
(* share through baseTx.                                                   *)
(*                                                                         *)
(* Every D-Bus call, timeout and TTYChanged task runs in a goroutine of    *)
(* its own, the LimitUpdated handler in that of the signal loop, and each  *)
(* attempt of a factor in one more. A goroutine is the sequence todo[t] of *)
(* what it has still to do; a step performs the first element, and may put *)
(* the body of a call it makes in its place.                               *)
(*                                                                         *)
(* The verdicts of IsLimitAllowed, what the devices report and when are    *)
(* the environment's choice.                                               *)
(***************************************************************************)
EXTENDS Integers, Sequences, FiniteSets

CONSTANTS
    txs,          \* the factors of the session, in the order of txSort
    Keyboard,     \* those among them that the user types
    MFA,          \* TRUE for multiFactorVerify, FALSE for normalVerify
    Required,     \* the factors of the MFA configuration
    Cap,          \* capacity of resultCh (10 in the code)
    Goroutines,   \* goroutines for calls, timeouts and tasks
    Signal,       \* the goroutine of the signal loop
    Reports,      \* the statuses that the devices report
    Timeouts,     \* whether calls of Start set a timeout: {FALSE}, or BOOLEAN
    Methods,      \* what happens: calls of "Start", "End", "EndAll",
                  \* "SetQuitFlag" and "Quit", and the signals "TTYChanged"
                  \* and "LimitUpdated"
    Flags,        \* the sets of factors that Start and End may name
    MaxCalls,     \* bound on the calls and signals
    MaxAttempts,  \* bound on the attempts of each factor
    MaxReports    \* bound on the statuses that an attempt reports

Factors == {txs[i] : i \in 1..Len(txs)}
Attempts == Factors \X (1..MaxAttempts)
Threads == Goroutines \cup {Signal} \cup Attempts

(* Statuses after which an attempt is over.                                *)
Results == {"Success", "Failure", "Error"}
Status == {"Success", "Failure", "Cancel", "Timeout", "Error", "Verify",
           "Exception", "Prompt", "Started", "Ended", "Locked", "Recover",
           "Unlocked", "Unknown"}

ASSUME SessionAssumption ==
    /\ txs \in Seq(Factors) /\ Len(txs) > 0
    /\ \A i, j \in 1..Len(txs) : txs[i] = txs[j] => i = j
    /\ Keyboard \subseteq Factors /\ Factors \subseteq Required /\ IsFiniteSet(Required)
    /\ MFA \in BOOLEAN /\ Timeouts \subseteq BOOLEAN /\ Cap \in Nat \ {0}
    /\ Reports \subseteq Status \ {"Started", "Ended", "Locked", "Unlocked"}
    /\ Flags \subseteq SUBSET Factors
    /\ Methods \subseteq {"Start", "End", "EndAll", "SetQuitFlag", "Quit", "TTYChanged",
                   "LimitUpdated"}
    /\ MaxCalls \in Nat /\ MaxAttempts \in Nat \ {0} /\ MaxReports \in Nat

(* What a goroutine has to do: op names the step, f its factor, s a status.*)
NoFactor == "none"
Do(o, f) == [op |-> o, f |-> f, s |-> "Unknown"]
Give(f, s) == [op |-> "give", f |-> f, s |-> s]
Send(f, s) == [op |-> "send", f |-> f, s |-> s]
Emit(s) == [op |-> "emit", f |-> NoFactor, s |-> s]
SetLock(f, s) == [op |-> "setLock", f |-> f, s |-> s]

(* The same for each factor of a flag, in the order of txs.                *)
ForFirst(o, flag) ==
    LET ops[i \in 0..Len(txs)] ==
            IF i = 0 THEN <<>>
            ELSE IF txs[i] \in flag THEN Append(ops[i - 1], Do(o, txs[i])) ELSE ops[i - 1]
    IN  ops

ForEach(o, flag) == ForFirst(o, flag)[Len(txs)]

VARIABLES
    devState,    \* per factor: baseTx.devState
    lockState,   \* per factor: baseTx.lockState
    attempt,     \* per attempt of a factor: its goroutine and device
    reports,     \* per attempt: number of statuses it has reported
    timers,      \* per factor: number of timeouts armed
    todo,        \* per goroutine: what it has still to do
    resultCh,    \* the controller's channel of results
    ended,       \* controller.ended, and resultCh is closed
    listening,   \* listenResultCh runs
    verdict,     \* the final result listenResultCh is about to emit
    result,      \* per factor: txResultMap, or resultMap
    passNumber,  \* multiFactorVerify.passNumber
    finalResultGiven, statusResult, isStarted, quitMethod, canceled, quited,
    quitTimer,   \* the delayed quit of manualQuit is armed
    panicked,    \* a goroutine panicked: the daemon is gone
    calls,       \* number of calls made and signals received
    shown,       \* per factor: the last status emitted to the client
    sent,        \* history, per factor: chargeable statuses put in resultCh
    charged      \* per factor: calls of UpdateLimit(Fail, ...)

txVars == <<devState, lockState>>
devVars == <<attempt, reports, timers>>
chVars == <<resultCh, ended, sent>>
ctlVars == <<listening, verdict, result, passNumber, shown, charged>>
mgrVars == <<finalResultGiven, statusResult, isStarted, quitMethod, canceled,
             quited, quitTimer>>
vars == <<txVars, devVars, todo, chVars, ctlVars, mgrVars, panicked, calls>>

Init ==
    /\ devState = [f \in Factors |-> "Idle"]
    /\ lockState \in [Factors -> {"Locked", "Unlocked"}]
    /\ attempt = [a \in Attempts |-> "none"]
    /\ reports = [a \in Attempts |-> 0]
    /\ timers = [f \in Factors |-> 0]
    /\ todo = [t \in Threads |-> <<>>]
    /\ resultCh = <<>>
    /\ ended = FALSE
    /\ listening = FALSE
    /\ verdict = "none"
    /\ result = [f \in Required |-> "none"]
    /\ passNumber = 0
    /\ finalResultGiven = FALSE
    /\ statusResult = "Failure"
    /\ isStarted = FALSE
    /\ quitMethod = "auto"
    /\ canceled = FALSE
    /\ quited = FALSE
    /\ quitTimer = FALSE
    /\ panicked = FALSE
    /\ calls = 0
    /\ shown = [f \in Factors |-> "Recover"]
    /\ sent = [f \in Factors |-> 0]
    /\ charged = [f \in Factors |-> 0]

-----------------------------------------------------------------------------
(* What the goroutine t does next, and what it does afterwards.            *)
Next1(t, o) == todo[t] # <<>> /\ Head(todo[t]).op = o
Continue(t, ops) == todo' = [todo EXCEPT ![t] = ops \o Tail(@)]
Panic == panicked' = TRUE /\ UNCHANGED todo

statusCodeToDevState(s) ==
    CASE s \in {"Success", "Error", "Failure", "Locked"} -> "Ended"
      [] s \in {"Prompt", "Verify", "Started"} -> "Verifying"
      [] s \in {"Recover", "Unlocked", "Ended", "Cancel"} -> "Idle"
      [] OTHER -> "Exception"

(* statusMux of f is held from giveStatus until the status is sent.        *)
Holds(t, f) == todo[t] # <<>> /\ Head(todo[t]).op = "send" /\ Head(todo[t]).f = f

(* Mutant: giveStatus without statusMux.                                   *)
giveStatusUnlocked(t) ==
    /\ Next1(t, "give")
    /\ LET f == Head(todo[t]).f
           s == Head(todo[t]).s
       IN  /\ devState' = [devState EXCEPT ![f] = statusCodeToDevState(s)]
           /\ Continue(t, IF ended THEN <<>> ELSE <<Send(f, s)>>)
    /\ UNCHANGED <<lockState, devVars, chVars, ctlVars, mgrVars, panicked, calls>>

(* baseTx.giveStatus, up to and with the check of sendStatus.              *)
giveStatus(t) ==
    /\ Next1(t, "give")
    /\ LET f == Head(todo[t]).f
           s == Head(todo[t]).s
       IN  /\ \A u \in Threads : ~Holds(u, f)
           /\ devState' = [devState EXCEPT ![f] = statusCodeToDevState(s)]
           /\ Continue(t, IF ended THEN <<>> ELSE <<Send(f, s)>>)
    /\ UNCHANGED <<lockState, devVars, chVars, ctlVars, mgrVars, panicked, calls>>

Chargeable(s) == s \in {"Failure", "Exception"}

(* resultCh <- tx: waits while the channel is full, panics if it is closed.*)
sendStatus(t) ==
    /\ Next1(t, "send")
    /\ LET f == Head(todo[t]).f
           s == Head(todo[t]).s
       IN  IF ended
           THEN Panic /\ UNCHANGED <<resultCh, sent>>
           ELSE /\ Len(resultCh) < Cap
                /\ resultCh' = Append(resultCh, [f |-> f, s |-> s])
                /\ sent' = [sent EXCEPT ![f] = IF Chargeable(s) THEN @ + 1 ELSE @]
                /\ Continue(t, <<>>)
                /\ UNCHANGED panicked
    /\ UNCHANGED <<txVars, devVars, ended, ctlVars, mgrVars, calls>>

(* IsLimitAllowed, then setLockState(s) of a factor.                       *)
checkLimit(t) ==
    /\ Next1(t, "checkLimit")
    /\ \E s \in {"Locked", "Unlocked"} :
          LET f == Head(todo[t]).f
          IN  Continue(t, IF lockState[f] = s THEN <<>>
                          ELSE <<Give(f, s)>> \o
                               (IF s = "Locked" THEN <<Do("endVerifying", f)>>
                                                ELSE <<>>) \o
                               <<SetLock(f, s)>>)
    /\ UNCHANGED <<txVars, devVars, chVars, ctlVars, mgrVars, panicked, calls>>

setLockState(t) ==
    /\ Next1(t, "setLock")
    /\ lockState' = [lockState EXCEPT ![Head(todo[t]).f] = Head(todo[t]).s]
    /\ Continue(t, <<>>)
    /\ UNCHANGED <<devState, devVars, chVars, ctlVars, mgrVars, panicked, calls>>

(* tx.end: the latest attempt is told to stop, then Ended is given.        *)
endTx(f) == <<Do("stop", f), Give(f, "Ended")>>

(* setLockState ends a factor that is verifying; the controller's end, one *)
(* that is not idle.                                                       *)
endIf(t) ==
    /\ \/ Next1(t, "endVerifying") /\ devState[Head(todo[t]).f] = "Verifying"
       \/ Next1(t, "endBusy") /\ devState[Head(todo[t]).f] # "Idle"
    /\ Continue(t, endTx(Head(todo[t]).f))
    /\ UNCHANGED <<txVars, devVars, chVars, ctlVars, mgrVars, panicked, calls>>

endNot(t) ==
    /\ \/ Next1(t, "endVerifying") /\ devState[Head(todo[t]).f] # "Verifying"
       \/ Next1(t, "endBusy") /\ devState[Head(todo[t]).f] = "Idle"
    /\ Continue(t, <<>>)
    /\ UNCHANGED <<txVars, devVars, chVars, ctlVars, mgrVars, panicked, calls>>

Started(f) == {i \in 1..MaxAttempts : attempt[<<f, i>>] # "none"}

stop(t) ==
    /\ Next1(t, "stop")
    /\ LET f == Head(todo[t]).f
           last == <<f, Cardinality(Started(f))>>
       IN  attempt' = IF Started(f) # {} /\ attempt[last] = "running"
                      THEN [attempt EXCEPT ![last] = "stopping"] ELSE attempt
    /\ Continue(t, <<>>)
    /\ UNCHANGED <<txVars, reports, timers, chVars, ctlVars, mgrVars, panicked, calls>>

(* authenticate of the controller starts a factor that is idle and not     *)
(* locked; the device may refuse.                                          *)
Room(f) ==
    Cardinality(Started(f))
        + Cardinality({u \in Threads : \E i \in 1..Len(todo[u]) :
                          todo[u][i] = Do("run", f)}) < MaxAttempts

authenticateTx(t) ==
    /\ Next1(t, "try") \/ Next1(t, "tryTimed")
    /\ LET f == Head(todo[t]).f
       IN  \/ Continue(t, <<>>)
           \/ /\ devState[f] = "Idle" /\ lockState[f] = "Unlocked" /\ Room(f)
              /\ Continue(t, <<Give(f, "Started"), Do("run", f)>> \o
                             (IF Head(todo[t]).op = "tryTimed"
                              THEN <<Do("arm", f)>> ELSE <<>>))
    /\ UNCHANGED <<txVars, devVars, chVars, ctlVars, mgrVars, panicked, calls>>

runTx(t) ==
    /\ Next1(t, "run")
    /\ LET f == Head(todo[t]).f
       IN  attempt' = [attempt EXCEPT ![<<f, Cardinality(Started(f)) + 1>>] = "running"]
    /\ Continue(t, <<>>)
    /\ UNCHANGED <<txVars, reports, timers, chVars, ctlVars, mgrVars, panicked, calls>>

armTimeout(t) ==
    /\ Next1(t, "arm")
    /\ timers' = [timers EXCEPT ![Head(todo[t]).f] = @ + 1]
    /\ Continue(t, <<>>)
    /\ UNCHANGED <<txVars, attempt, reports, chVars, ctlVars, mgrVars, panicked, calls>>

(* The first authenticate starts listenResultCh.                           *)
startListening(t) ==
    /\ Next1(t, "once")
    /\ listening' = TRUE
    /\ Continue(t, <<>>)
    /\ UNCHANGED <<txVars, devVars, chVars, verdict, result, passNumber, shown,
                   charged, mgrVars, panicked, calls>>

markStarted(t) ==
    /\ Next1(t, "started")
    /\ isStarted' = TRUE
    /\ Continue(t, <<>>)
    /\ UNCHANGED <<txVars, devVars, chVars, ctlVars, finalResultGiven, statusResult,
                   quitMethod, canceled, quited, quitTimer, panicked, calls>>

-----------------------------------------------------------------------------
(* emitSignalStatus for AllAuthenticationFlag.                             *)
FinalResult(s) ==
    /\ finalResultGiven' = TRUE
    /\ statusResult' = IF s = "Success" THEN "Success" ELSE "Failure"

(* endAll reads finalResultGiven without signalMu.                         *)
endAll(t) ==
    /\ Next1(t, "endAll")
    /\ Continue(t, <<Emit(IF finalResultGiven THEN "Ended" ELSE "Cancel"),
                     Do("isEnded", NoFactor), Do("leave", NoFactor)>>)
    /\ UNCHANGED <<txVars, devVars, chVars, ctlVars, mgrVars, panicked, calls>>

emitEnd(t) ==
    /\ Next1(t, "emit")
    /\ FinalResult(Head(todo[t]).s)
    /\ Continue(t, <<>>)
    /\ UNCHANGED <<txVars, devVars, chVars, ctlVars, isStarted, quitMethod, canceled,
                   quited, quitTimer, panicked, calls>>

(* end of the controller checks ended, then sets it and closes resultCh.   *)
isEnded(t) ==
    /\ Next1(t, "isEnded")
    /\ Continue(t, IF ended THEN <<>> ELSE <<Do("close", NoFactor)>>)
    /\ UNCHANGED <<txVars, devVars, chVars, ctlVars, mgrVars, panicked, calls>>

closeResultCh(t) ==
    /\ Next1(t, "close")
    /\ IF ended
       THEN Panic /\ UNCHANGED ended
       ELSE /\ ended' = TRUE
            /\ Continue(t, ForEach("endBusy", Factors))
            /\ UNCHANGED panicked
    /\ UNCHANGED <<txVars, devVars, resultCh, sent, ctlVars, mgrVars, calls>>

(* Mutant: canceled is never looked at with manualQuit, so nothing quits.  *)
leaveAutoOnly(t) ==
    /\ Next1(t, "leave")
    /\ quited' = (quited \/ (~canceled /\ quitMethod = "auto"))
    /\ canceled' = TRUE
    /\ Continue(t, <<>>)
    /\ UNCHANGED <<txVars, devVars, chVars, ctlVars, finalResultGiven, statusResult,
                   isStarted, quitMethod, quitTimer, panicked, calls>>

(* The rest of endAll: quit now, or in five seconds.                       *)
leave(t) ==
    /\ Next1(t, "leave")
    /\ quited' = (quited \/ (~canceled /\ quitMethod = "auto"))
    /\ quitTimer' = (quitTimer \/ (~canceled /\ quitMethod = "manual"))
    /\ canceled' = TRUE
    /\ Continue(t, <<>>)
    /\ UNCHANGED <<txVars, devVars, chVars, ctlVars, finalResultGiven, statusResult,
                   isStarted, quitMethod, panicked, calls>>

quitLater ==
    /\ quitTimer
    /\ quitTimer' = FALSE
    /\ quited' = TRUE
    /\ UNCHANGED <<txVars, devVars, todo, chVars, ctlVars, finalResultGiven,
                   statusResult, isStarted, quitMethod, canceled, panicked, calls>>

-----------------------------------------------------------------------------
(* Results that shouldIgnore does not count.                               *)
shouldIgnore(s) == s \in {"Verify", "Prompt", "Locked", "Ended", "Started"}

(* Mutant: a failure outweighs a success.                                  *)
adjudgeFailureFirst(res) ==
    IF \E f \in Factors : res[f] = "Failure" THEN "Failure"
    ELSE IF \E f \in Factors : res[f] = "Success" THEN "Success" ELSE "none"

(* One success is enough. When a keyboard factor has a result (hasInput),  *)
(* failures are not final until all of them have.                          *)
adjudgeFinalResult(res) ==
    IF \E f \in Factors : res[f] = "Success" THEN "Success"
    ELSE IF /\ \E f \in Factors : res[f] = "Failure"
            /\ \/ \A f \in Keyboard : res[f] = "none"
               \/ \A f \in Keyboard : res[f] # "none"
         THEN "Failure" ELSE "none"

(* Mutant: only the number of results is looked at.                        *)
getVerifyResultByNumber(res, n) ==
    IF n < Cardinality(Required) THEN "none" ELSE "Success"

getVerifyResult(res, n) ==
    IF n < Cardinality(Required) THEN "none"
    ELSE IF \A f \in Required : res[f] = "Success" THEN "Success" ELSE "Failure"

(* Mutant: every result counts as one more factor.                         *)
CountedTwice(f) == passNumber + 1

(* setResult counts a factor when it gets its first result.                *)
Counted(f) == IF result[f] = "none" THEN passNumber + 1 ELSE passNumber

(* Mutant: an exception of the device is not charged.                      *)
ChargedFailuresOnly(f, s) == IF s = "Failure" THEN charged[f] + 1 ELSE charged[f]

(* updateLimits for one factor; successes and ResetAll are in Limits.      *)
Charged(f, s) == IF Chargeable(s) THEN charged[f] + 1 ELSE charged[f]

(* Mutant: what is still queued when resultCh is closed is not received.   *)
receiveUntilEnded ==
    /\ listening /\ ~ended /\ verdict = "none" /\ resultCh # <<>>
    /\ LET f == Head(resultCh).f
           s == Head(resultCh).s
       IN  /\ shown' = [shown EXCEPT ![f] = s]
           /\ IF shouldIgnore(s)
              THEN UNCHANGED <<charged, result, passNumber, verdict>>
              ELSE /\ charged' = [charged EXCEPT ![f] = Charged(f, s)]
                   /\ result' = [result EXCEPT ![f] = s]
                   /\ passNumber' = Counted(f)
                   /\ verdict' = IF MFA THEN getVerifyResult(result', passNumber')
                                 ELSE adjudgeFinalResult(result')
    /\ resultCh' = Tail(resultCh)
    /\ UNCHANGED <<txVars, devVars, todo, ended, sent, listening, mgrVars, panicked,
                   calls>>

(* One turn of listenResultCh; a closed channel is received until empty.   *)
receive ==
    /\ listening /\ verdict = "none" /\ resultCh # <<>>
    /\ LET f == Head(resultCh).f
           s == Head(resultCh).s
       IN  /\ shown' = [shown EXCEPT ![f] = s]
           /\ IF shouldIgnore(s)
              THEN UNCHANGED <<charged, result, passNumber, verdict>>
              ELSE /\ charged' = [charged EXCEPT ![f] = Charged(f, s)]
                   /\ result' = [result EXCEPT ![f] = s]
                   /\ passNumber' = Counted(f)
                   /\ verdict' = IF MFA THEN getVerifyResult(result', passNumber')
                                 ELSE adjudgeFinalResult(result')
    /\ resultCh' = Tail(resultCh)
    /\ UNCHANGED <<txVars, devVars, todo, ended, sent, listening, mgrVars, panicked,
                   calls>>

emitVerdict ==
    /\ verdict # "none"
    /\ FinalResult(verdict)
    /\ verdict' = "none"
    /\ UNCHANGED <<txVars, devVars, todo, chVars, listening, result, passNumber, shown,
                   charged, isStarted, quitMethod, canceled, quited, quitTimer,
                   panicked, calls>>

-----------------------------------------------------------------------------
(* A device reports while its attempt runs; the one that was told to stop  *)
(* may still have a result on its way. The sender does not wait for it.    *)
report(a) ==
    /\ todo[a] = <<>>
    /\ reports[a] < MaxReports
    /\ \E s \in Reports :
          /\ attempt[a] = "running" \/ (attempt[a] = "stopping" /\ s \in Results)
          /\ todo' = [todo EXCEPT ![a] = <<Give(a[1], s)>>]
          /\ attempt' = IF s \in Results THEN [attempt EXCEPT ![a] = "done"]
                        ELSE attempt
    /\ reports' = [reports EXCEPT ![a] = @ + 1]
    /\ UNCHANGED <<txVars, timers, chVars, ctlVars, mgrVars, panicked, calls>>

stopped(a) ==
    /\ todo[a] = <<>> /\ attempt[a] = "stopping"
    /\ attempt' = [attempt EXCEPT ![a] = "done"]
    /\ UNCHANGED <<txVars, reports, timers, todo, chVars, ctlVars, mgrVars, panicked,
                   calls>>

(* The goroutine g starts to do ops.                                       *)
Go(g, ops) == todo[g] = <<>> /\ todo' = [todo EXCEPT ![g] = ops]

(* A D-Bus call: the object is exported until quit.                        *)
Call(g, method, ops) ==
    /\ method \in Methods /\ ~quited /\ calls < MaxCalls
    /\ calls' = calls + 1
    /\ Go(g, ops)
    /\ UNCHANGED <<txVars, devVars, chVars, ctlVars, mgrVars, panicked>>

(* Start asks for the limits of its factors before it starts them.         *)
Start(g, flag, timed) ==
    Call(g, "Start",
            ForEach("checkLimit", flag) \o <<Do("once", NoFactor)>> \o
            ForEach(IF timed THEN "tryTimed" ELSE "try", flag) \o
            <<Do("started", NoFactor)>>)

End(g, flag) == Call(g, "End", ForEach("endBusy", flag))

(* End(-1), and what the exit callback does.                               *)
EndAll(g) == Call(g, "EndAll", <<Do("endAll", NoFactor)>>)

SetQuitFlag(method) ==
    /\ "SetQuitFlag" \in Methods /\ ~quited /\ calls < MaxCalls
    /\ method # quitMethod
    /\ calls' = calls + 1
    /\ quitMethod' = method
    /\ UNCHANGED <<txVars, devVars, todo, chVars, ctlVars, finalResultGiven,
                   statusResult, isStarted, canceled, quited, quitTimer, panicked>>

Quit ==
    /\ "Quit" \in Methods /\ ~quited /\ calls < MaxCalls
    /\ ~isStarted \/ ended
    /\ calls' = calls + 1
    /\ quited' = TRUE
    /\ UNCHANGED <<txVars, devVars, todo, chVars, ctlVars, finalResultGiven,
                   statusResult, isStarted, quitMethod, canceled, quitTimer, panicked>>

(* time.AfterFunc of the timeout.                                          *)
timeout(g, f) ==
    /\ timers[f] > 0
    /\ timers' = [timers EXCEPT ![f] = @ - 1]
    /\ Go(g, endTx(f))
    /\ UNCHANGED <<txVars, attempt, reports, chVars, ctlVars, mgrVars, panicked, calls>>

(* The task of TTYChanged ends the biometric factor that was started last. *)
cancelLastTx(g, f) ==
    /\ "TTYChanged" \in Methods /\ calls < MaxCalls
    /\ Started(f) # {} /\ f \notin Keyboard
    /\ calls' = calls + 1
    /\ Go(g, endTx(f))
    /\ UNCHANGED <<txVars, devVars, chVars, ctlVars, mgrVars, panicked>>

(* LimitUpdated for the user of the session.                               *)
LimitUpdated ==
    /\ "LimitUpdated" \in Methods /\ ~quited /\ calls < MaxCalls
    /\ calls' = calls + 1
    /\ Go(Signal, ForEach("checkLimit", Factors))
    /\ UNCHANGED <<txVars, devVars, chVars, ctlVars, mgrVars, panicked>>

Step(t) ==
    \/ giveStatus(t)
    \/ sendStatus(t)
    \/ checkLimit(t)
    \/ setLockState(t)
    \/ endIf(t)
    \/ endNot(t)
    \/ stop(t)
    \/ authenticateTx(t)
    \/ runTx(t)
    \/ armTimeout(t)
    \/ startListening(t)
    \/ markStarted(t)
    \/ endAll(t)
    \/ emitEnd(t)
    \/ isEnded(t)
    \/ closeResultCh(t)
    \/ leave(t)

listenResultCh == receive \/ emitVerdict

Environment ==
    \/ \E g \in Goroutines, flag \in Flags :
          End(g, flag) \/ \E timed \in Timeouts : Start(g, flag, timed)
    \/ \E g \in Goroutines : EndAll(g)
    \/ \E g \in Goroutines, f \in Factors : timeout(g, f) \/ cancelLastTx(g, f)
    \/ \E method \in {"auto", "manual"} : SetQuitFlag(method)
    \/ Quit
    \/ LimitUpdated
    \/ \E a \in Attempts : report(a) \/ stopped(a)

Next ==
    /\ ~panicked
    /\ \/ \E t \in Threads : Step(t)
       \/ listenResultCh
       \/ quitLater
       \/ Environment

Spec == Init /\ [][Next]_vars

(* Goroutines run, statusMux and resultCh serve their waiters in turn, and *)
(* the five seconds pass. Nobody has to call, and no device has to report. *)
Fairness ==
    /\ \A t \in Threads : SF_vars(~panicked /\ Step(t))
    /\ WF_vars(~panicked /\ listenResultCh)
    /\ WF_vars(~panicked /\ quitLater)

FairSpec == Spec /\ Fairness

-----------------------------------------------------------------------------
(* The steps that are about a factor, and those that are not.              *)
FactorOps == {"give", "send", "checkLimit", "setLock", "endVerifying", "endBusy", "stop",
              "try", "tryTimed", "run", "arm"}
OtherOps == {"once", "started", "endAll", "emit", "isEnded", "close", "leave"}

Op == [op : FactorOps \cup OtherOps, f : Factors \cup {NoFactor}, s : Status]

(* Type correctness of the session.                                        *)
TypeOK ==
    /\ devState \in [Factors -> {"Idle", "Verifying", "Exception", "Ended"}]
    /\ lockState \in [Factors -> {"Locked", "Unlocked"}]
    /\ attempt \in [Attempts -> {"none", "running", "stopping", "done"}]
    /\ reports \in [Attempts -> 0..MaxReports]
    /\ timers \in [Factors -> Nat]
    /\ DOMAIN todo = Threads
    /\ \A t \in Threads : todo[t] \in Seq(Op)
    /\ resultCh \in Seq([f : Factors, s : Status]) /\ Len(resultCh) <= Cap
    /\ ended \in BOOLEAN /\ listening \in BOOLEAN
    /\ verdict \in {"none", "Success", "Failure"}
    /\ result \in [Required -> Status \cup {"none"}]
    /\ passNumber \in 0..Cardinality(Required)
    /\ finalResultGiven \in BOOLEAN /\ statusResult \in {"Success", "Failure"}
    /\ isStarted \in BOOLEAN /\ quitMethod \in {"auto", "manual"}
    /\ canceled \in BOOLEAN /\ quited \in BOOLEAN /\ quitTimer \in BOOLEAN
    /\ panicked \in BOOLEAN
    /\ calls \in 0..MaxCalls
    /\ shown \in [Factors -> Status]
    /\ sent \in [Factors -> Nat] /\ charged \in [Factors -> Nat]

Queued(f) == {i \in DOMAIN resultCh : resultCh[i].f = f}

(* The client's view of a factor: when no status of f is on its way, the   *)
(* last status it was sent is the one that gave f its device state, in     *)
(* whatever order calls, signals and devices reported. Statuses are        *)
(* dropped only once the session has ended.                                *)
ShownIsDevState ==
    \A f \in Factors :
        ~ended /\ Queued(f) = {} /\ (\A t \in Threads : ~Holds(t, f)) =>
            devState[f] = statusCodeToDevState(shown[f])

(* Every failure that reached resultCh is charged to the user's limit      *)
(* exactly once: those not charged yet are still in the channel, also      *)
(* while the session ends or after it.                                     *)
ChargedOnce ==
    \A f \in Factors :
        sent[f] = charged[f] + Cardinality({i \in Queued(f) : Chargeable(resultCh[i].s)})

(* Once results are listened for, a failure that was reported before the   *)
(* session ended is charged, even when End overtakes it.                   *)
FailuresCharged ==
    \A f \in Factors : \A n \in 1..(MaxAttempts * MaxReports) :
        listening /\ sent[f] >= n ~> charged[f] >= n \/ panicked

(* With several factors required, GetResult answers pass only while the    *)
(* last result of every required factor is a success, but for the moment   *)
(* in which the next verdict is about to be given.                         *)
PassIsCurrent ==
    MFA /\ statusResult = "Success" /\ verdict = "none" =>
        \A f \in Required : result[f] = "Success"

(* With several factors required, no verdict is given before each of them  *)
(* has a result of its own, however often some of them reported.           *)
VerdictNeedsAll ==
    MFA /\ verdict # "none" => \A f \in Required : result[f] # "none"

(* With one factor required, a success that reached resultCh makes the     *)
(* session pass, whatever the other factors report before and after it.    *)
AnySuccessPasses ==
    (~MFA /\ listening /\ \E i \in 1..Len(resultCh) : resultCh[i].s = "Success")
        ~> (statusResult = "Success" \/ panicked)

(* End(-1) releases the session: it quits, at once or after the delay that *)
(* SetQuitFlag asks for, even when calls of End race each other.           *)
EndQuits ==
    (\E g \in Goroutines : Next1(g, "endAll")) ~> (quited \/ panicked)

-----------------------------------------------------------------------------
(* What comments and docs say of the session, and it does not do.          *)

(* "If the authentication has given its result, End means it is over":     *)
(* a cancellation never replaces a result (manager.go, endAll).            *)
CancelOnlyWithoutResult ==
    [][\A t \in Threads :
          emitEnd(t) /\ Head(todo[t]).s = "Cancel" => ~finalResultGiven]_vars

(* "Once Start was called, End must be called before Quit".                *)
QuitNeedsEnd ==
    [][Quit => ended \/ \A g \in Goroutines :
                   \A i \in 1..Len(todo[g]) : todo[g][i].op # "started"]_vars

(* End(-1) "closes all resources": nothing of the session still verifies   *)
(* when the call has returned and no other is under way.                   *)
EndClosesAll ==
    canceled /\ (\A t \in Threads : todo[t] = <<>>) =>
        \A a \in Attempts : attempt[a] # "running"

(* A final failure means that the verification of some factor failed.      *)
FailureHasCause ==
    verdict = "Failure" =>
        \E f \in Factors : result[f] \notin {"none", "Success", "Unlocked", "Recover"}

=============================================================================
