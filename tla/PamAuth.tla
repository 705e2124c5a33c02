------------------------------ MODULE PamAuth ------------------------------
(***************************************************************************)
(* The PAM module (misc/pam-module/auth): one call of pam_sm_authenticate, *)
(* the token threads it creates to ask the user, the callbacks that run in *)
(* its bus loop, and the clean up.  The user, the bus and the session of   *)
(* the daemon that answers are the environment; what the session decides   *)
(* is the subject of Session.                                              *)
(*                                                                         *)
(* The main thread and the token threads share the fields of UserData      *)
(* without a lock: res, waiting_result, get_result_val and symmetric_key.  *)
(* A call on the bus that waits for its answer is one step, because the    *)
(* main thread handles nothing else meanwhile; an asynchronous call and    *)
(* its answer are two.                                                     *)
(***************************************************************************)
EXTENDS Integers, Sequences, FiniteSets

CONSTANTS
    Factors,      \* the factors of the session (AT_...)
    Keyboard,     \* those whose inputType is IT_Keyboard
    Password,     \* AT_Password
    All,          \* the type -1: the whole session
    priority,     \* [Factors -> Nat], the priority in FactorsInfo
    Listings,     \* the orders in which FactorsInfo may list the factors
    Kinds,        \* the values isMFA may have
    KillExited,   \* whether pthread_kill finds a thread that has exited and is
                  \* not joined: {TRUE}, {FALSE} or both, by the C library
    MaxTries,     \* failures after which the daemon locks a factor
    Failed,       \* the failures counted before the call
    MaxFaults,    \* bound: calls that fail
    VerifyCodes,  \* the codes of a status Verify
    MaxStatuses,  \* bound: statuses Verify of the daemon
    Cancels       \* whether the daemon may end the session by itself

ASSUME PamAssumption ==
    /\ IsFiniteSet(Factors) /\ Keyboard \subseteq Factors
    /\ Password \in Factors /\ All \notin Factors
    /\ {"EncryptKey", "GetResult"} \cap (Factors \cup {All}) = {}
    /\ priority \in [Factors -> Nat]
    /\ Listings \subseteq Seq(Factors)
    /\ \A s \in Listings : /\ \A f \in Factors : \E i \in DOMAIN s : s[i] = f
                          /\ \A i, j \in DOMAIN s : s[i] = s[j] => i = j
    /\ Kinds \subseteq BOOLEAN /\ KillExited \subseteq BOOLEAN
    /\ MaxTries \in Nat /\ Failed \in Nat
    /\ VerifyCodes \subseteq {"Retry", "TakenByOthers", "VerifyError"}
    /\ MaxFaults \in Nat /\ MaxStatuses \in Nat /\ Cancels \in BOOLEAN

VARIABLES
    main,     \* where pam_sm_authenticate is
    ud,       \* the fields of UserData that only one thread writes at a time
    res,      \* ud->res
    out,      \* what the caller gets: the value and deepin_authenticate_result
    threads,  \* the token threads; the last one is ud->pid
    inbox,    \* messages of the daemon that are not handled yet
    daemon,   \* the session of the daemon
    faults,   \* calls that failed
    statuses  \* messages about an attempt that goes on

vars == <<main, ud, res, out, threads, inbox, daemon, faults, statuses>>

Running == "running"        \* -1
Results == {Running, "SUCCESS", "AUTH_ERR", "ABORT", "MAXTRIES", "IGNORE"}
Places == {"enter", "connect", "onekey", "expiry", "authenticate", "props", "limits", "encrypt",
           "listen", "start", "loop", "process", "setkey", "finish", "clean", "join",
           "return", "done", "ended", "crashed"}
Stages == {"conv", "getResult", "mark", "spin", "check", "send", "exited"}
Answers == {"right", "wrong"}
Limit == [max : Nat, fails : Nat, locked : BOOLEAN]
NoLimit == [max |-> 0, fails |-> 0, locked |-> FALSE]
Nothing == [text |-> "none", type |-> All, left |-> 0]
Status == [type : Factors \cup {All},
           code : {"Success", "Failure", "Cancel", "Prompt"} \cup VerifyCodes]
Reply == [type : {"EncryptKey"}, code : {"key", "badkey", "error"}]
         \cup [type : {"GetResult"}, code : {"pass", "fail", "unavailable", "error"}]
(* The texts of sfa_signal_deal for a failure, of mfa_signal_deal, and of  *)
(* resolve_verify_msg.                                                     *)
Shown == [text : {"none", "locked", "left", "one left", "failed",
                  "try again", "use the password"},
          type : Factors \cup {All}, left : Int]
-----------------------------------------------------------------------------
(* utils.c: the positions of the factors, sorted by selection: the first   *)
(* of the largest remaining priorities is swapped to place i.              *)

(* Bug: the smallest is taken.                                             *)
Smallest(s, i) ==
    CHOOSE j \in i..Len(s) : \A k \in i..Len(s) : priority[s[j]] <= priority[s[k]]

Largest(s, i) ==
    CHOOSE j \in i..Len(s) :
        /\ \A k \in i..Len(s) : priority[s[k]] <= priority[s[j]]
        /\ \A k \in i..(j - 1) : priority[s[k]] < priority[s[j]]

Swap(s, i, j) == [s EXCEPT ![i] = s[j], ![j] = s[i]]

passes(s) ==
    LET pass[i \in 0..Len(s)] ==
            IF i = 0 THEN s ELSE Swap(pass[i - 1], i, Largest(pass[i - 1], i))
    IN  pass

resolve_authctrl_factors(s) == IF s = <<>> THEN s ELSE passes(s)[Len(s) - 1]

(* A call works, or fails as long as the bound allows.                     *)
Works == UNCHANGED faults
Fails == faults < MaxFaults /\ faults' = faults + 1

(* Bug: what was read is not stored.                                       *)
get_limits_infoUnread(u, ok) == u

dbus_method_get_limits(ok) == IF ok THEN Works ELSE Fails

(* Limits that could not be read stay as they were.                        *)
get_limits_info(u, ok) == IF ok THEN [u EXCEPT !.limits = daemon.limits] ELSE u

get_limit_prompt(limit) == IF limit.locked THEN "MAXTRIES" ELSE "SUCCESS"
-----------------------------------------------------------------------------
Init ==
    /\ main = "enter" /\ res = Running
    /\ ud = [bus |-> FALSE, path |-> "none", isMFA |-> FALSE, order |-> <<>>,
             cur |-> All, key |-> FALSE, limits |-> [f \in Factors |-> NoLimit],
             failed |-> <<>>, waiting |-> FALSE, result |-> "pass",
             shown |-> Nothing]
    /\ out = [value |-> Running, data |-> FALSE]
    /\ threads = <<>> /\ inbox = <<>>
    /\ daemon = [state |-> "none", isMFA |-> FALSE, key |-> FALSE, verifying |-> {},
                 given |-> [f \in Factors |-> "none"], passed |-> {}, failed |-> {},
                 limits |-> [f \in Factors |->
                               [max |-> MaxTries,
                                fails |-> IF f = Password THEN Failed ELSE 0,
                                locked |-> f = Password /\ Failed = MaxTries]],
                 verdict |-> "none", granted |-> {}, asked |-> {}]
    /\ faults = 0 /\ statuses = 0

Break(r) == res' = r /\ main' = "finish"

(* The arguments, the allowlist, the user name and the locale: a program   *)
(* that is not on the list is not served.                                  *)
Enter ==
    /\ main = "enter"
    /\ \/ main' = "connect" /\ UNCHANGED out
       \/ main' = "done" /\ out' = [out EXCEPT !.value = "IGNORE"]
    /\ UNCHANGED <<ud, res, threads, inbox, daemon, faults, statuses>>

Connect ==
    /\ main = "connect"
    /\ \/ Works /\ ud' = [ud EXCEPT !.bus = TRUE] /\ main' = "onekey"
       \/ Fails /\ main' = "finish" /\ UNCHANGED ud
    /\ UNCHANGED <<res, out, threads, inbox, daemon, statuses>>

(* buff still holds the path of the program when the call fails, and is    *)
(* taken for the path of a session.  The daemon itself always answers "".  *)
PreOneKeyLogin ==
    /\ main = "onekey"
    /\ \/ Works /\ main' = "expiry" /\ UNCHANGED ud
       \/ Fails /\ main' = "props" /\ ud' = [ud EXCEPT !.path = "program"]
    /\ UNCHANGED <<res, out, threads, inbox, daemon, statuses>>

(* A program that logs in asks whether the password expires soon, and goes *)
(* on whatever the answer is; the warning is not kept.                     *)
WarnExpiry ==
    /\ main = "expiry" /\ main' = "authenticate"
    /\ Works \/ Fails
    /\ UNCHANGED <<ud, res, out, threads, inbox, daemon, statuses>>

Authenticate ==
    /\ main = "authenticate"
    /\ \/ /\ Works /\ main' = "props" /\ UNCHANGED res
          /\ ud' = [ud EXCEPT !.path = "session"]
          /\ \E k \in Kinds : daemon' = [daemon EXCEPT !.state = "live", !.isMFA = k]
       \/ Fails /\ Break("ABORT") /\ UNCHANGED <<ud, daemon>>
    /\ UNCHANGED <<out, threads, inbox, statuses>>

(* The only error after which the function returns at once: the bus stays  *)
(* open until pam_end.                                                     *)
get_authctl_property ==
    /\ main = "props"
    /\ \/ /\ ud.path = "session" /\ Works /\ main' = "limits" /\ UNCHANGED out
          /\ \E s \in Listings :
                ud' = [ud EXCEPT !.isMFA = daemon.isMFA, !.order = resolve_authctrl_factors(s)]
       \/ /\ IF ud.path = "session" THEN Fails ELSE Works
          /\ main' = "done" /\ out' = [out EXCEPT !.value = "ABORT"] /\ UNCHANGED ud
    /\ UNCHANGED <<res, threads, inbox, daemon, statuses>>

CheckLimits ==
    /\ main = "limits"
    /\ \E ok \in BOOLEAN :
          /\ dbus_method_get_limits(ok)
          /\ ud' = get_limits_info(ud, ok)
          /\ LET r == get_limit_prompt(ud'.limits[Password])
             IN  IF r = "SUCCESS" THEN main' = "encrypt" /\ UNCHANGED res ELSE Break(r)
    /\ UNCHANGED <<out, threads, inbox, daemon, statuses>>

(* The answer comes in the loop; a call that cannot be sent is ignored.    *)
needToken == \E i \in DOMAIN ud.order : ud.order[i] \in Keyboard

EncryptKey ==
    /\ main = "encrypt" /\ main' = "listen"
    /\ IF needToken
       THEN \/ Works /\ daemon' = [daemon EXCEPT !.asked = @ \cup {"EncryptKey"}]
            \/ Fails /\ UNCHANGED daemon
       ELSE UNCHANGED <<daemon, faults>>
    /\ UNCHANGED <<ud, res, out, threads, inbox, statuses>>

listen_dbus_signal ==
    /\ main = "listen"
    /\ \/ Works /\ main' = "start" /\ UNCHANGED res
       \/ Fails /\ Break("ABORT")
    /\ UNCHANGED <<ud, out, threads, inbox, daemon, statuses>>

(* Start of the daemon: the factors that are not locked begin, and the     *)
(* prompt that the module acts on is sent before the answer.               *)
Started(d, t) ==
    LET new == {f \in Factors : t \in {All, f} /\ ~d.limits[f].locked}
    IN  IF d.state = "live" THEN [d EXCEPT !.verifying = @ \cup new] ELSE d

Prompted(d, t, box) ==
    IF d.state = "live" /\ (t = All \/ ~d.limits[t].locked)
    THEN Append(box, [type |-> t, code |-> "Prompt"]) ELSE box

dbus_method_start(t, d, box) ==
    \/ /\ Works /\ res' = Running
       /\ daemon' = Started(d, t) /\ inbox' = Prompted(d, t, box)
    \/ Fails /\ res' = "ABORT" /\ daemon' = d /\ inbox' = box

sfa_start_verify(d, box) ==
    ud' = [ud EXCEPT !.cur = All] /\ dbus_method_start(All, d, box)

(* The i-th factor of the order, if there is one.                          *)
mfa_start_verify(i, d, box) ==
    IF i \in DOMAIN ud.order
    THEN ud' = [ud EXCEPT !.cur = ud.order[i]] /\ dbus_method_start(ud.order[i], d, box)
    ELSE res' = "ABORT" /\ daemon' = d /\ inbox' = box /\ UNCHANGED <<ud, faults>>

Start ==
    /\ main = "start"
    /\ IF ud.isMFA THEN mfa_start_verify(1, daemon, inbox) ELSE sfa_start_verify(daemon, inbox)
    /\ main' = IF res' = "ABORT" THEN "finish" ELSE "loop"
    /\ UNCHANGED <<out, threads, statuses>>
-----------------------------------------------------------------------------
(* The loop: res is read, then one message is handled or waited for.       *)
(* shown is what the last message made the module tell the user.           *)

LoopTop ==
    /\ main = "loop"
    /\ main' = IF res = Running THEN "process" ELSE "finish"
    /\ ud' = [ud EXCEPT !.shown = Nothing]
    /\ UNCHANGED <<res, out, threads, inbox, daemon, faults, statuses>>

Wait ==
    /\ main = "process" /\ inbox = <<>> /\ main' = "loop"
    /\ UNCHANGED <<ud, res, out, threads, inbox, daemon, faults, statuses>>

BusFails ==
    /\ main = "process" /\ Fails /\ Break("ABORT")
    /\ UNCHANGED <<ud, out, threads, inbox, daemon, statuses>>

Handling(types) == main = "process" /\ inbox # <<>> /\ Head(inbox).type \in types

(* The key is made and stored even when the public key of the daemon       *)
(* cannot encrypt it; only then is it sent.                                *)
encrypt_symmtric_key(code) == [made |-> code # "error", encrypted |-> code = "key"]

call_encryptKey_cb ==
    /\ Handling({"EncryptKey"})
    /\ inbox' = Tail(inbox)
    /\ LET k == encrypt_symmtric_key(Head(inbox).code)
       IN  /\ ud' = [ud EXCEPT !.key = @ \/ k.made]
           /\ main' = IF k.encrypted THEN "setkey" ELSE "loop"
    /\ UNCHANGED <<res, out, threads, daemon, faults, statuses>>

(* Whether the daemon took the key is not looked at.                       *)
SetSymmetricKey ==
    /\ main = "setkey" /\ main' = "loop"
    /\ \/ Works /\ daemon' = [daemon EXCEPT !.key = @ \/ daemon.state = "live"]
       \/ Fails /\ UNCHANGED daemon
    /\ UNCHANGED <<ud, res, out, threads, inbox, statuses>>

(* Bug: an error is stored as it came.                                     *)
call_getResult_cbRaw ==
    /\ Handling({"GetResult"}) /\ main' = "loop"
    /\ inbox' = Tail(inbox)
    /\ ud' = [ud EXCEPT !.waiting = FALSE, !.result = Head(inbox).code]
    /\ UNCHANGED <<res, out, threads, daemon, faults, statuses>>

call_getResult_cb ==
    /\ Handling({"GetResult"}) /\ main' = "loop"
    /\ inbox' = Tail(inbox)
    /\ ud' = [ud EXCEPT !.waiting = FALSE,
                        !.result = IF Head(inbox).code = "error" THEN "unavailable"
                                   ELSE Head(inbox).code]
    /\ UNCHANGED <<res, out, threads, daemon, faults, statuses>>

(* A token thread may only be created when pthread_kill does not find the  *)
(* last one.                                                               *)
Found == IF threads = <<>> THEN {FALSE}
         ELSE IF threads[Len(threads)].at = "exited" THEN KillExited ELSE {TRUE}

StartThread ==
    /\ UNCHANGED ud
    /\ \/ /\ TRUE \in Found
          /\ res' = "ABORT" /\ UNCHANGED <<threads, faults>>
       \/ /\ FALSE \in Found /\ Works /\ res' = Running
          /\ threads' = Append(threads, [at |-> "conv", answer |-> "none"])
       \/ /\ FALSE \in Found /\ Fails /\ res' = "ABORT" /\ UNCHANGED threads

(* What the user is told after a failure, from the limits of the factor    *)
(* that failed first, or of the password if it is among the failed ones.   *)
FailType(u) == IF u.failed = <<>> \/ \E i \in DOMAIN u.failed : u.failed[i] = Password
               THEN Password ELSE u.failed[1]

FailureText(u) ==
    LET f == FailType(u)
        times == u.limits[f].max - u.limits[f].fails
    IN  [type |-> f, left |-> times,
         text |-> IF u.limits[f].locked THEN "locked"
                  ELSE IF times > 1 THEN "left" ELSE "one left"]

(* A fingerprint that has to be tried again or a device that is taken; an  *)
(* error has a text of its own, but subcode has not been read there.       *)
resolve_verify_msg(code) ==
    CASE code = "Retry" -> "try again"
      [] code = "TakenByOthers" -> "use the password"
      [] OTHER -> ud.shown.text

Told(text, f) == [ud EXCEPT !.shown = [text |-> text, type |-> f, left |-> 0]]

LastFactor == ud.cur = ud.order[Len(ud.order)]

(* Each branch of the handlers sets res: to -1 where nothing is decided.   *)
Only(r) == res' = r /\ UNCHANGED <<ud, threads, faults>>

sfa_signal_deal(m) ==
    \/ m.code = "Success" /\ Only(IF m.type = All THEN "SUCCESS" ELSE Running)
    \/ /\ m.code = "Failure" /\ m.type # All
       /\ ud' = [ud EXCEPT !.failed = Append(@, m.type)]
       /\ res' = Running /\ UNCHANGED <<threads, faults>>
    \/ /\ m.code = "Failure" /\ m.type = All
       /\ \E ok \in BOOLEAN :
             /\ dbus_method_get_limits(ok)
             /\ LET u == get_limits_info(ud, ok) IN ud' = [u EXCEPT !.shown = FailureText(u)]
       /\ res' = "AUTH_ERR" /\ UNCHANGED threads
    \/ m.code = "Cancel" /\ Only(Running)
    \/ /\ m.code \in VerifyCodes /\ ud' = Told(resolve_verify_msg(m.code), m.type)
       /\ res' = Running /\ UNCHANGED <<threads, faults>>
    \/ m.code = "Prompt" /\ m.type = All /\ StartThread
    \/ m.code = "Prompt" /\ m.type # All /\ Only(Running)

mfa_signal_deal(m) ==
    \/ m.code = "Success" /\ m.type = All /\ Only("SUCCESS")
    \/ m.code = "Success" /\ m.type # All /\ (m.type = ud.cur => LastFactor) /\ Only(Running)
    \/ /\ m.code = "Failure" /\ m.type # All
       /\ ud' = Told("failed", m.type)
       /\ res' = "AUTH_ERR" /\ UNCHANGED <<threads, faults>>
    \/ m.code = "Failure" /\ m.type = All /\ Only(Running)
    \/ m.code = "Cancel" /\ Only(Running)
    \/ /\ m.code \in VerifyCodes /\ ud' = Told(resolve_verify_msg(m.code), m.type)
       /\ res' = Running /\ UNCHANGED <<threads, faults>>
    \/ m.code = "Prompt" /\ m.type = ud.cur /\ StartThread
    \/ m.code = "Prompt" /\ m.type # ud.cur /\ Only(Running)

(* The next factor of the order is started when the current one passed,    *)
(* after the daemon has ended the current one.                             *)
NextFactor(m) ==
    /\ m.code = "Success" /\ m.type = ud.cur /\ ~LastFactor
    /\ \E i \in DOMAIN ud.order :
          /\ ud.order[i] = ud.cur
          /\ mfa_start_verify(i + 1, [daemon EXCEPT !.verifying = @ \ {ud.cur}], Tail(inbox))
    /\ UNCHANGED threads

bus_signal_cb ==
    /\ Handling(Factors \cup {All}) /\ main' = "loop"
    /\ \/ /\ IF ud.isMFA THEN mfa_signal_deal(Head(inbox)) ELSE sfa_signal_deal(Head(inbox))
          /\ inbox' = Tail(inbox) /\ UNCHANGED daemon
       \/ ud.isMFA /\ NextFactor(Head(inbox))
    /\ UNCHANGED <<out, statuses>>
-----------------------------------------------------------------------------
(* After the loop: the result is kept for other modules, then              *)
(* clean_auth_data ends the session, closes the bus, cancels and joins the *)
(* last thread, and res is read again.                                     *)

Finish ==
    /\ main = "finish" /\ main' = "clean"
    /\ out' = [out EXCEPT !.data = res = "SUCCESS"]
    /\ UNCHANGED <<ud, res, threads, inbox, daemon, faults, statuses>>

Ended(d) == [d EXCEPT !.state = "ended", !.verifying = {}, !.passed = {}, !.failed = {},
                      !.verdict = "none", !.given = [f \in Factors |-> "none"]]

EndSession ==
    IF ud.bus /\ ud.path = "session"
    THEN \/ Works /\ daemon' = Ended(daemon)
         \/ Fails /\ UNCHANGED daemon
    ELSE UNCHANGED <<daemon, faults>>

CloseBus ==
    /\ main = "clean" /\ main' = "join"
    /\ EndSession
    /\ ud' = [ud EXCEPT !.bus = FALSE] /\ inbox' = <<>>
    /\ UNCHANGED <<res, out, threads, statuses>>

(* pthread_cancel takes effect where the thread waits.                     *)
(* Bug: a thread that asks the user cannot be cancelled.                   *)
CancelledSpin ==
    /\ main = "join" /\ threads # <<>>
    /\ threads[Len(threads)].at = "spin"
    /\ threads' = [threads EXCEPT ![Len(threads)].at = "exited"]
    /\ UNCHANGED <<main, ud, res, out, inbox, daemon, faults, statuses>>

Cancelled ==
    /\ main = "join" /\ threads # <<>>
    /\ threads[Len(threads)].at \in {"conv", "spin"}
    /\ threads' = [threads EXCEPT ![Len(threads)].at = "exited"]
    /\ UNCHANGED <<main, ud, res, out, inbox, daemon, faults, statuses>>

(* Bug: the thread is cancelled and not joined.                            *)
JoinNot ==
    /\ main = "join" /\ main' = "return"
    /\ UNCHANGED <<ud, res, out, threads, inbox, daemon, faults, statuses>>

Join ==
    /\ main = "join" /\ main' = "return"
    /\ threads # <<>> => threads[Len(threads)].at = "exited"
    /\ ud' = [ud EXCEPT !.order = <<>>, !.key = FALSE]
    /\ UNCHANGED <<res, out, threads, inbox, daemon, faults, statuses>>

Return ==
    /\ main = "return" /\ main' = "done"
    /\ out' = [out EXCEPT !.value = res]
    /\ UNCHANGED <<ud, res, threads, inbox, daemon, faults, statuses>>

(* pam_end runs pam_clean_func, which cleans up what an early return left. *)
pam_clean_func ==
    /\ main = "done" /\ main' = "ended"
    /\ EndSession
    /\ ud' = [ud EXCEPT !.bus = FALSE] /\ inbox' = <<>>
    /\ UNCHANGED <<res, out, threads, statuses>>
-----------------------------------------------------------------------------
(* A token thread (run_request_pw).                                        *)

At(i, stage) == main # "crashed" /\ threads[i].at = stage

To(i, stage) == threads' = [threads EXCEPT ![i].at = stage]

(* The user enters a token, or names a session that has been authenticated *)
(* elsewhere ("path;token"), or the conversation fails.                    *)
split_data(named) == IF named THEN "getResult" ELSE "send"

(* In send_msg a prompt that fails decides the result if nothing has.      *)
NoAnswer == IF res = Running THEN "ABORT" ELSE res

Answer(i) ==
    /\ At(i, "conv")
    /\ \/ \E a \in Answers, named \in BOOLEAN :
             threads' = [threads EXCEPT ![i] = [at |-> split_data(named), answer |-> a]]
          /\ UNCHANGED <<res, faults>>
       \/ Fails /\ To(i, "exited") /\ res' = NoAnswer
    /\ UNCHANGED <<main, ud, out, inbox, daemon, statuses>>

(* Bug: a call that fails leaves get_result_val as it was.                 *)
getResultKept(i) ==
    /\ At(i, "getResult") /\ Works
    /\ IF ud.bus THEN To(i, "mark") /\ daemon' = [daemon EXCEPT !.asked = @ \cup {"GetResult"}]
       ELSE To(i, "check") /\ UNCHANGED daemon
    /\ UNCHANGED <<main, ud, res, out, inbox, statuses>>

getResult(i) ==
    /\ At(i, "getResult")
    /\ \/ /\ ud.bus /\ Works /\ To(i, "mark")
          /\ daemon' = [daemon EXCEPT !.asked = @ \cup {"GetResult"}] /\ UNCHANGED ud
       \/ /\ IF ud.bus THEN Fails ELSE Works
          /\ To(i, "check")
          /\ ud' = [ud EXCEPT !.result = "unavailable"] /\ UNCHANGED daemon
    /\ UNCHANGED <<main, res, out, inbox, statuses>>

(* waiting_result is set after the call was sent.                          *)
MarkWaiting(i) ==
    /\ At(i, "mark") /\ To(i, "spin")
    /\ ud' = [ud EXCEPT !.waiting = TRUE]
    /\ UNCHANGED <<main, res, out, inbox, daemon, faults, statuses>>

Spin(i) ==
    /\ At(i, "spin") /\ ~ud.waiting /\ To(i, "check")
    /\ UNCHANGED <<main, ud, res, out, inbox, daemon, faults, statuses>>

CheckResult(i) ==
    /\ At(i, "check")
    /\ IF ud.result = "pass" THEN res' = "SUCCESS" /\ To(i, "exited")
                             ELSE To(i, "send") /\ UNCHANGED res
    /\ UNCHANGED <<main, ud, out, inbox, daemon, faults, statuses>>

(* What the daemon reads of a token: only with the same key it is the      *)
(* token that was entered.                                                 *)
aes_cbc_encrypt(d, a) == IF d.key THEN a ELSE "wrong"

(* The token goes to the factors of the current type that verify.          *)
SetToken(d, a) ==
    [d EXCEPT !.given = [f \in Factors |->
        IF f \in Keyboard \cap d.verifying /\ ud.cur \in {All, f}
        THEN aes_cbc_encrypt(d, a) ELSE d.given[f]]]

(* Without a key the module reads a null pointer.                          *)
setToken(i) ==
    /\ At(i, "send")
    /\ \/ ~ud.key /\ main' = "crashed" /\ UNCHANGED <<threads, res, daemon, faults>>
       \/ /\ ud.key /\ ud.bus /\ Works
          /\ daemon' = SetToken(daemon, threads[i].answer)
          /\ To(i, "exited") /\ UNCHANGED <<main, res>>
       \/ /\ ud.key /\ (IF ud.bus THEN Fails ELSE Works)
          /\ res' = "ABORT" /\ To(i, "exited") /\ UNCHANGED <<main, daemon>>
    /\ UNCHANGED <<ud, out, inbox, statuses>>

Thread(i) ==
    \/ Answer(i) \/ getResult(i) \/ MarkWaiting(i)
    \/ Spin(i) \/ CheckResult(i) \/ setToken(i)
-----------------------------------------------------------------------------
(* The daemon.  Its calls are handled by goroutines of their own, so an    *)
(* answer may come after later statuses.                                   *)

Alive == main \notin {"crashed", "ended"}

Send(m) == inbox' = IF ud.bus THEN Append(inbox, m) ELSE inbox

ReplyTo(call, codes) ==
    /\ Alive /\ ud.bus /\ call \in daemon.asked
    /\ \E c \in codes :
          /\ Send([type |-> call, code |-> c])
          /\ IF c \in {"badkey", "error"} THEN Fails ELSE Works
          /\ daemon' = [daemon EXCEPT !.asked = @ \ {call},
                        !.granted = IF c = "pass" THEN @ \cup {"other"} ELSE @]
    /\ UNCHANGED <<main, ud, res, out, threads, statuses>>

ReplyKey == ReplyTo("EncryptKey", {"key", "badkey", "error"})
ReplyResult == ReplyTo("GetResult", {"pass", "fail", "unavailable", "error"})

(* A factor is decided: it reports, its failures are counted and locked,   *)
(* and the controller judges the session.                                  *)
Charged(l, ok) == LET n == IF ok THEN l.fails ELSE l.fails + 1
                  IN  [l EXCEPT !.fails = n, !.locked = @ \/ n >= MaxTries]

Verdicts(d) ==
    IF d.isMFA
    THEN IF d.passed \cup d.failed # Factors THEN {"none"}
         ELSE {IF d.failed = {} THEN "Success" ELSE "Failure"}
    ELSE IF d.passed # {} THEN {"Success"}
         ELSE {"Failure"} \cup (IF d.verifying = {} THEN {} ELSE {"none"})

Report(f) ==
    /\ Alive /\ daemon.state = "live" /\ daemon.verdict = "none" /\ f \in daemon.verifying
    /\ \E ok \in BOOLEAN :
          /\ f \in Keyboard => daemon.given[f] = IF ok THEN "right" ELSE "wrong"
          /\ Send([type |-> f, code |-> IF ok THEN "Success" ELSE "Failure"])
          /\ LET d == [daemon EXCEPT !.verifying = @ \ {f},
                                     !.passed = IF ok THEN @ \cup {f} ELSE @,
                                     !.failed = IF ok THEN @ ELSE @ \cup {f},
                                     !.limits[f] = Charged(@, ok)]
             IN  \E v \in Verdicts(d) : daemon' = [d EXCEPT !.verdict = v]
    /\ UNCHANGED <<main, ud, res, out, threads, faults, statuses>>

EmitVerdict ==
    /\ Alive /\ daemon.state = "live" /\ daemon.verdict # "none"
    /\ Send([type |-> All, code |-> daemon.verdict])
    /\ daemon' = [daemon EXCEPT !.verdict = "none",
                  !.granted = IF daemon.verdict = "Success" THEN @ \cup {"session"} ELSE @]
    /\ UNCHANGED <<main, ud, res, out, threads, faults, statuses>>

EmitVerify(f) ==
    /\ Alive /\ f \in daemon.verifying /\ statuses < MaxStatuses
    /\ statuses' = statuses + 1
    /\ \E c \in VerifyCodes : Send([type |-> f, code |-> c])
    /\ UNCHANGED <<main, ud, res, out, threads, daemon, faults>>

(* The daemon ends the session by itself: it exits, or somebody ends it.   *)
Cancel ==
    /\ Alive /\ Cancels /\ daemon.state = "live" /\ daemon.granted = {}
    /\ daemon' = [daemon EXCEPT !.state = "ended", !.verifying = {}, !.verdict = "none"]
    /\ IF main \in {"start", "loop", "process", "setkey"}   \* the match is there
       THEN Send([type |-> All, code |-> "Cancel"]) ELSE UNCHANGED inbox
    /\ UNCHANGED <<main, ud, res, out, threads, faults, statuses>>

Daemon == \/ ReplyKey \/ ReplyResult \/ EmitVerdict \/ Cancel
          \/ \E f \in Factors : Report(f) \/ EmitVerify(f)
-----------------------------------------------------------------------------
pam_sm_authenticate ==
    \/ Enter \/ Connect \/ PreOneKeyLogin \/ WarnExpiry \/ Authenticate \/ get_authctl_property
    \/ CheckLimits \/ EncryptKey \/ listen_dbus_signal \/ Start
    \/ LoopTop \/ Wait \/ BusFails \/ call_encryptKey_cb \/ SetSymmetricKey
    \/ call_getResult_cb \/ bus_signal_cb
    \/ Finish \/ CloseBus \/ Join \/ Return

Next == \/ pam_sm_authenticate \/ Cancelled \/ pam_clean_func
        \/ \E i \in DOMAIN threads : Thread(i)
        \/ Daemon

Spec == Init /\ [][Next]_vars

(* The main thread runs and a cancelled thread ends; users, the daemon and *)
(* the application owe nothing.                                            *)
FairSpec == Spec /\ WF_vars(pam_sm_authenticate) /\ WF_vars(Cancelled)
                 /\ \A i \in 1..Cardinality(Factors) :
                      WF_vars(i \in DOMAIN threads /\ (Thread(i) /\ ~Answer(i)))
-----------------------------------------------------------------------------
(* Type invariant.                                                         *)
UserData == [bus : BOOLEAN, path : {"none", "program", "session"}, isMFA : BOOLEAN,
             order : Seq(Factors), cur : Factors \cup {All}, key : BOOLEAN,
             limits : [Factors -> Limit], failed : Seq(Factors), waiting : BOOLEAN,
             result : {"pass", "fail", "unavailable"}, shown : Shown]
Session == [state : {"none", "live", "ended"}, isMFA : BOOLEAN, key : BOOLEAN,
            verifying : SUBSET Factors, given : [Factors -> Answers \cup {"none"}],
            passed : SUBSET Factors, failed : SUBSET Factors, limits : [Factors -> Limit],
            verdict : {"none", "Success", "Failure"}, granted : SUBSET {"session", "other"},
            asked : SUBSET {"EncryptKey", "GetResult"}]
TypeOK ==
    /\ main \in Places /\ ud \in UserData /\ res \in Results
    /\ out \in [value : Results, data : BOOLEAN]
    /\ threads \in Seq([at : Stages, answer : Answers \cup {"none"}])
    /\ inbox \in Seq(Status \cup Reply)
    /\ daemon \in Session
    /\ faults \in 0..MaxFaults /\ statuses \in 0..MaxStatuses

(* PAM_SUCCESS is only returned when this session gave the final Success   *)
(* or GetResult said that another one passed, although get_result_val is   *)
(* GET_RESULT_SUCCESS (0) before any answer has come and two threads write *)
(* res (pam.c:151-203, dbus.c:173-239).                                    *)
SuccessGranted == out.value = "SUCCESS" => daemon.granted # {}

(* No token thread runs any more when pam_sm_authenticate returns and the  *)
(* application may free what the thread uses; only the last one is joined  *)
(* (clean_auth_data, pam.c:16-43).                                         *)
NoThreadLeft ==
    main \in {"return", "done", "ended"} => \A i \in DOMAIN threads : threads[i].at = "exited"

(* With several factors the daemon is asked to verify one only after every *)
(* factor of a higher priority has passed, in whatever order FactorsInfo   *)
(* lists them (utils.c:156-192, mfa.c:43-75).                              *)
FactorsInOrder ==
    ud.isMFA =>
        \A f \in daemon.verifying \cup daemon.passed \cup daemon.failed, g \in Factors :
            priority[g] > priority[f] => g \in daemon.passed

(* When the user is told how many chances are left, or that a factor is    *)
(* locked, it is a factor that failed now and what the daemon has counted, *)
(* the failure just reported included (sfa.c:56-125); GetLimits answered.  *)
PromptTrue ==
    [][LET s == ud'.shown  l == daemon.limits[s.type]
       IN  s # ud.shown /\ s.text \in {"locked", "left", "one left"} /\ faults' = faults =>
             /\ s.type \in daemon.failed
             /\ s.text = "locked" <=> l.locked
             /\ s.text = "left" => s.left = l.max - l.fails
             /\ s.text = "one left" => l.fails = l.max - 1]_vars

(* A verdict of the session that reached the connection is returned: the   *)
(* loop is left, and neither a thread that waits for the user nor one that *)
(* waits for an answer keeps clean_auth_data from ending.  The process may *)
(* also have died (setToken).                                              *)
Decides(m) == \/ m = [type |-> All, code |-> "Success"]
              \/ m.code = "Failure" /\ (ud.isMFA <=> m.type # All)
FinalReturns ==
    (\E i \in DOMAIN inbox : Decides(inbox[i])) ~> main \in {"done", "ended", "crashed"}

(* mfa.c:128 and sfa.c:151: no Prompt should come while a token thread is  *)
(* active ("在存在活跃的token获取线程时,不应该收到prompt信号").            *)
NoPromptWhileAsking ==
    Handling(Factors \cup {All}) /\ Head(inbox).code = "Prompt" /\ Head(inbox).type = ud.cur
        => \A i \in DOMAIN threads : threads[i].at = "exited"
=============================================================================
