------------------------------- MODULE Limits -------------------------------
(***************************************************************************)
(* The failure limits of the Authenticate manager                          *)
(* (service/authenticate/limit.go and the limit part of manager.go): per   *)
(* limit type, user and authentication type a counter of failures that     *)
(* locks the factor for a while, refreshed lazily by whoever asks, and     *)
(* persisted after every update in two files.                              *)
(*                                                                         *)
(* fail, success and resetLimits release limitsMu before they take the     *)
(* snapshot, and saveLimitsMu after the snapshot was taken: the updaters   *)
(* (Threads) are therefore modelled one critical section per step.         *)
(***************************************************************************)
EXTENDS Integers, Sequences

CONSTANTS
    LimitTypes,   \* the limit types in use: "Local", and "Remote" for sshd
    Users,        \* user names
    AuthTypes,    \* the authentication types of AllAuthTypes
    Config,       \* [AuthTypes -> LimitConfig], after loadConfig corrected it
    Threads,      \* goroutines that run fail, success or resetLimits
    MaxTime,      \* bound on the wall clock, in seconds
    MaxFailures,  \* bound on numFailures
    MaxBoots,     \* bound on the restarts of the daemon
    IntMax,       \* greatest value of the integer that holds UnixNano()
    ZeroNano      \* what UnixNano() returns for the zero time.Time

ZeroTime == -1
Key == LimitTypes \X Users

(* LimitConfig: unlockSecs < 0 locks for ever, maxTries = 0 never locks.   *)
LimitConfig ==
    [maxTries : Nat, unlockSecs : Int, dynamic : BOOLEAN, table : Seq(Int)]

ASSUME ConfigAssumption ==
    /\ Config \in [AuthTypes -> LimitConfig]
    /\ \A a \in AuthTypes : Config[a].dynamic => Len(Config[a].table) > 0

ASSUME LimitTypesAssumption ==
    "Local" \in LimitTypes /\ LimitTypes \subseteq {"Local", "Remote"}

ASSUME BoundsAssumption ==
    /\ MaxTime \in Nat /\ MaxFailures \in Nat /\ MaxBoots \in Nat
    /\ IntMax \in Nat /\ ZeroNano \in Int

-----------------------------------------------------------------------------
(* One limit: the mutable fields of struct limit.                          *)
Time == 0..MaxTime
Limit == [numFailures : Nat, lockAt : Time \cup {ZeroTime}, unlockSecs : Int]

NewLimit(c) ==
    [numFailures |-> 0, lockAt |-> ZeroTime, unlockSecs |-> c.unlockSecs]

(* Two's complement: the difference of two UnixNano() values is an int64.  *)
Wrap(n) == ((n + IntMax + 1) % (2 * (IntMax + 1))) - (IntMax + 1)

UnixNano(t) == IF t = ZeroTime THEN ZeroNano ELSE t

reset(c, l) ==
    [numFailures |-> IF c.dynamic THEN l.numFailures ELSE 0,
     lockAt      |-> ZeroTime,
     unlockSecs  |-> IF c.dynamic THEN 0 ELSE l.unlockSecs]

tryReset(c, l, t) ==
    IF /\ l.unlockSecs >= 0
       /\ l.numFailures >= c.maxTries
       /\ c.maxTries > 0
       /\ Wrap(t - UnixNano(l.lockAt)) > l.unlockSecs
    THEN reset(c, l) ELSE l

(* Mutant: off by one, the last lock time of the table is never used.      *)
dynamicTimeEnds(c, n) ==
    LET failNum == n - c.maxTries
    IN  IF failNum < 0 \/ failNum + 1 >= Len(c.table) THEN 0
        ELSE c.table[failNum + 1]

getDynamicLimitTime(c, n) ==
    LET failNum == n - c.maxTries
    IN  IF failNum < 0 THEN 0
        ELSE IF failNum >= Len(c.table) THEN c.table[Len(c.table)]
        ELSE c.table[failNum + 1]

(* Mutant: allow computes the lock time and forgets to end the lock.       *)
RefreshedNoReset(c, l, t) ==
    IF c.dynamic
    THEN [l EXCEPT !.unlockSecs = getDynamicLimitTime(c, l.numFailures)]
    ELSE l

(* What allow leaves in the limit, and what it answers.                    *)
Refreshed(c, l, t) ==
    IF c.maxTries = 0 THEN l
    ELSE tryReset(c, IF c.dynamic
                     THEN [l EXCEPT !.unlockSecs =
                                        getDynamicLimitTime(c, l.numFailures)]
                     ELSE l, t)

allow(c, l, t) ==
    LET r == Refreshed(c, l, t)
    IN  c.maxTries = 0 \/ r.numFailures < c.maxTries \/ r.unlockSecs = 0

failed(c, l, t) ==
    LET r == tryReset(c, l, t)
    IN  IF c.maxTries = 0 THEN l
        ELSE [numFailures |-> r.numFailures + 1,
              lockAt      |-> IF r.numFailures + 1 >= c.maxTries THEN t
                              ELSE r.lockAt,
              unlockSecs  |-> r.unlockSecs]

-----------------------------------------------------------------------------
VARIABLES
    limits,     \* Manager.limits; an unknown user's entry is that of a new one
    known,      \* the <<limit type, user>> pairs Manager.limits has an entry for
    now,        \* wall clock
    v1, old,    \* limit-states_v1.json and limit-states.json
    pc, snap,   \* per thread: where it is in its update, the states it collected
    boots,      \* number of restarts
    fileFresh,  \* history: no update since the files held the limits
    snapFresh   \* history: no update since the thread's snapshot was taken

mem == <<limits, known>>
files == <<v1, old>>
threads == <<pc, snap, snapFresh>>
vars == <<limits, known, now, v1, old, pc, snap, boots, fileFresh, snapFresh>>

LimitState == [numFailures : Nat, lockAt : Time \cup {ZeroTime}]
States == [users : SUBSET Key, state : [Key -> [AuthTypes -> LimitState]]]

NoState == [numFailures |-> 0, lockAt |-> ZeroTime]
NoStates == [users |-> {}, state |-> [k \in Key |-> [a \in AuthTypes |-> NoState]]]

FileKind == {"missing", "corrupt", "ok"}
File == [kind : FileKind, states : States]
Missing == [kind |-> "missing", states |-> NoStates]
Corrupt == [kind |-> "corrupt", states |-> NoStates]
Written(s) == [kind |-> "ok", states |-> s]

PC == {"idle", "updated", "snapped", "writingV1", "wroteV1", "writingOld"}

NewLimits == [a \in AuthTypes |-> NewLimit(Config[a])]

(* getLimitStates: every entry of the map.                                 *)
getLimitStates ==
    [users |-> known,
     state |-> [k \in Key |-> [a \in AuthTypes |->
                   [numFailures |-> limits[k][a].numFailures,
                    lockAt      |-> limits[k][a].lockAt]]]]

(* The part of the states that the old file keeps: Local only.             *)
OldStates(s) ==
    [users |-> {k \in s.users : k[1] = "Local"},
     state |-> [k \in Key |-> IF k[1] = "Local" THEN s.state[k]
                              ELSE NoStates.state[k]]]

(* loadLimitStates: the old file is read when there is no v1 file, and     *)
(* stands for both limit types; a v1 file that cannot be parsed is ignored.*)
Loaded(f, g) ==
    IF f.kind = "ok" THEN f.states
    ELSE IF f.kind = "missing" /\ g.kind = "ok"
    THEN [users |-> {k \in Key : <<"Local", k[2]>> \in g.states.users},
          state |-> [k \in Key |-> g.states.state[<<"Local", k[2]>>]]]
    ELSE NoStates

(* Mutant: the failures are not read back.                                 *)
LoadedWithoutFailures(s) ==
    [k \in Key |-> [a \in AuthTypes |->
        [NewLimit(Config[a]) EXCEPT !.lockAt = s.state[k][a].lockAt]]]

LoadedLimits(s) ==
    [k \in Key |-> [a \in AuthTypes |->
        IF k \in s.users
        THEN [numFailures |-> s.state[k][a].numFailures,
              lockAt      |-> s.state[k][a].lockAt,
              unlockSecs  |-> Config[a].unlockSecs]
        ELSE NewLimit(Config[a])]]

(* A first start: no v1 file, and perhaps the file of an older version.    *)
OldFiles ==
    {Missing} \cup
    {Written(OldStates([users |-> Key,
                        state |-> [k \in Key |-> [a \in AuthTypes |->
                            [numFailures |-> n, lockAt |-> 0]]]])) :
        n \in {m \in 1..MaxFailures : \A a \in AuthTypes : m >= Config[a].maxTries}}

(* The files a start can load limits from.                                 *)
Loadable(f, g) == f.kind = "ok" \/ (f.kind = "missing" /\ g.kind = "ok")

Init ==
    /\ now \in Time
    /\ v1 = Missing
    /\ old \in OldFiles
    /\ known = Loaded(v1, old).users
    /\ limits = LoadedLimits(Loaded(v1, old))
    /\ pc = [t \in Threads |-> "idle"]
    /\ snap = [t \in Threads |-> NoStates]
    /\ boots = 0
    /\ fileFresh = Loadable(v1, old)
    /\ snapFresh = [t \in Threads |-> FALSE]

-----------------------------------------------------------------------------
(* The wall clock may be set: it moves in either direction.                *)
SetClock ==
    /\ now' \in Time \ {now}
    /\ UNCHANGED <<mem, files, threads, boots, fileFresh>>

(* initLimitsByUsername, called by Authenticate and GetLimits.             *)
initLimitsByUsername(k) ==
    /\ k \notin known
    /\ known' = known \cup {k}
    /\ limits' = [limits EXCEPT ![k] = NewLimits]
    /\ UNCHANGED <<now, files, threads, boots, fileFresh>>

(* IsLimitAllowed: an unknown user is refused and nothing changes.         *)
allowTx(k, a) ==
    /\ k \in known
    /\ limits' = [limits EXCEPT ![k][a] = Refreshed(Config[a], @, now)]
    /\ UNCHANGED <<known, now, files, threads, boots, fileFresh>>

(* getLimits asks allow of every type of the user.                         *)
getLimits(k) ==
    /\ k \in known
    /\ limits' = [limits EXCEPT ![k] =
                    [a \in AuthTypes |-> Refreshed(Config[a], @[a], now)]]
    /\ UNCHANGED <<known, now, files, threads, boots, fileFresh>>

(* The first critical section of an update by thread t.                    *)
Update(t, newLimits) ==
    /\ pc[t] = "idle"
    /\ limits' = newLimits
    /\ pc' = [pc EXCEPT ![t] = "updated"]
    /\ fileFresh' = FALSE
    /\ snapFresh' = [u \in Threads |-> FALSE]
    /\ UNCHANGED <<now, files, snap, boots>>

fail(t, k, a) ==
    /\ k \in known
    /\ limits[k][a].numFailures < MaxFailures
    /\ Update(t, [limits EXCEPT ![k][a] = failed(Config[a], @, now)])
    /\ UNCHANGED known

success(t, k, a) ==
    /\ k \in known
    /\ Update(t, [limits EXCEPT ![k][a] = reset(Config[a], @)])
    /\ UNCHANGED known

(* Ranges over the limits of a user that may have none: no change then.    *)
ClearedLimits(k) ==
    [a \in AuthTypes |-> reset(Config[a], [limits[k][a] EXCEPT !.numFailures = 0])]

resetLimits(t, k) ==
    /\ Update(t, IF k \in known THEN [limits EXCEPT ![k] = ClearedLimits(k)]
                                ELSE limits)
    /\ UNCHANGED known

(* The UserList handler drops the users it could not find, or whose name   *)
(* it could not get, then saves through resetLimits(Local, "").            *)
userListChanged(t, found) ==
    /\ Update(t, [k \in Key |-> IF k[2] \in found THEN limits[k] ELSE NewLimits])
    /\ known' = {k \in known : k[2] \in found}

(* getLimitStates takes limitsMu again.                                    *)
Snapshot(t) ==
    /\ pc[t] = "updated"
    /\ snap' = [snap EXCEPT ![t] = getLimitStates]
    /\ pc' = [pc EXCEPT ![t] = "snapped"]
    /\ snapFresh' = [snapFresh EXCEPT ![t] = TRUE]
    /\ UNCHANGED <<mem, now, files, boots, fileFresh>>

Saving(t) == pc[t] \in {"writingV1", "wroteV1", "writingOld"}

(* saveLimitStates: saveLimitsMu, then the directory, which may fail.      *)
SaveBegin(t) ==
    /\ pc[t] = "snapped"
    /\ \A u \in Threads : ~Saving(u)
    /\ \/ /\ v1' = Corrupt
          /\ fileFresh' = FALSE
          /\ pc' = [pc EXCEPT ![t] = "writingV1"]
          /\ UNCHANGED snap
       \/ /\ pc' = [pc EXCEPT ![t] = "idle"]
          /\ snap' = [snap EXCEPT ![t] = NoStates]
          /\ UNCHANGED <<v1, fileFresh>>
    /\ UNCHANGED <<mem, now, old, boots, snapFresh>>

(* utils.SyncWriteFile: until it returns the file may be truncated; an     *)
(* error ends the save before the old file is written.                     *)
SaveV1(t) ==
    /\ pc[t] = "writingV1"
    /\ \/ /\ v1' = Written(snap[t])
          /\ fileFresh' = snapFresh[t]
          /\ pc' = [pc EXCEPT ![t] = "wroteV1"]
          /\ UNCHANGED snap
       \/ /\ pc' = [pc EXCEPT ![t] = "idle"]
          /\ snap' = [snap EXCEPT ![t] = NoStates]
          /\ UNCHANGED <<v1, fileFresh>>
    /\ UNCHANGED <<mem, now, old, boots, snapFresh>>

SaveOldBegin(t) ==
    /\ pc[t] = "wroteV1"
    /\ old' = Corrupt
    /\ pc' = [pc EXCEPT ![t] = "writingOld"]
    /\ UNCHANGED <<mem, now, v1, snap, boots, fileFresh, snapFresh>>

(* The second write; its error is only logged. Then LimitUpdated.          *)
SaveOld(t) ==
    /\ pc[t] = "writingOld"
    /\ old' \in {Written(OldStates(snap[t])), old}
    /\ pc' = [pc EXCEPT ![t] = "idle"]
    /\ snap' = [snap EXCEPT ![t] = NoStates]
    /\ UNCHANGED <<mem, now, v1, boots, fileFresh, snapFresh>>

(* The daemon stops at any point and starts again: initLimits.             *)
Restart ==
    /\ boots < MaxBoots
    /\ boots' = boots + 1
    /\ known' = Loaded(v1, old).users
    /\ limits' = LoadedLimits(Loaded(v1, old))
    /\ pc' = [t \in Threads |-> "idle"]
    /\ snap' = [t \in Threads |-> NoStates]
    /\ fileFresh' = Loadable(v1, old)
    /\ snapFresh' = [t \in Threads |-> FALSE]
    /\ UNCHANGED <<now, files>>

ThreadStep(t) ==
    \/ \E k \in Key, a \in AuthTypes : fail(t, k, a) \/ success(t, k, a)
    \/ \E k \in Key : resetLimits(t, k)
    \/ \E found \in SUBSET Users : userListChanged(t, found)
    \/ Snapshot(t)
    \/ SaveBegin(t)
    \/ SaveV1(t)
    \/ SaveOldBegin(t)
    \/ SaveOld(t)

Next ==
    \/ SetClock
    \/ \E k \in Key : initLimitsByUsername(k) \/ getLimits(k)
    \/ \E k \in Key, a \in AuthTypes : allowTx(k, a)
    \/ \E t \in Threads : ThreadStep(t)
    \/ Restart

Spec == Init /\ [][Next]_vars

-----------------------------------------------------------------------------
(* Type correctness of every variable.                                     *)
TypeOK ==
    /\ limits \in [Key -> [AuthTypes -> Limit]]
    /\ known \in SUBSET Key
    /\ now \in Time
    /\ v1 \in File
    /\ old \in File
    /\ pc \in [Threads -> PC]
    /\ snap \in [Threads -> States]
    /\ boots \in Nat
    /\ fileFresh \in BOOLEAN
    /\ snapFresh \in [Threads -> BOOLEAN]

(* What IsLimitAllowed would answer, once the user has limits.             *)
Locked(k, a) == ~allow(Config[a], limits[k][a], now)

Duration(c, l) ==
    IF c.dynamic THEN getDynamicLimitTime(c, l.numFailures) ELSE l.unlockSecs

(* The time that the lock had to last is over at time t.                   *)
Elapsed(k, a, t) ==
    /\ Duration(Config[a], limits[k][a]) >= 0
    /\ t > UnixNano(limits[k][a].lockAt) + Duration(Config[a], limits[k][a])

(* A factor that allow refuses, and that is not configured to stay locked  *)
(* for ever, is within the unlock time that GetLimits reports for it: the  *)
(* lazy resets of tryReset, the failures that arrive while it is locked    *)
(* and the states read back after a restart never leave a lock behind that *)
(* no longer ends.                                                         *)
LockHasEnd ==
    \A k \in Key, a \in AuthTypes : Locked(k, a) => ~Elapsed(k, a, now)

(* A locked factor becomes usable only because its lock time is over, or   *)
(* by a success, a reset or the removal of its user, or by a restart that  *)
(* found no file written since the last update: never by a further         *)
(* failure, a query, the migration of the old file or a racing save.       *)
ExplicitUnlock(k, a) ==
    \E t \in Threads : \/ success(t, k, a)
                       \/ resetLimits(t, k)
                       \/ \E found \in SUBSET (Users \ {k[2]}) :
                              userListChanged(t, found)

NoEarlyUnlock ==
    [][\A k \in Key, a \in AuthTypes :
          Locked(k, a) /\ ~(Locked(k, a))' =>
              \/ Elapsed(k, a, now')
              \/ ExplicitUnlock(k, a)
              \/ Restart /\ ~fileFresh]_vars

(* While the files hold a snapshot that no update has outdated, a          *)
(* restart keeps every lock: a factor the running daemon refuses would be  *)
(* refused by a daemon that loads the files now, although allow changes    *)
(* the limits in memory without saving them.                               *)
RestartKeepsLocks ==
    fileFresh =>
        \A k \in Key, a \in AuthTypes :
            Locked(k, a) =>
                ~allow(Config[a], LoadedLimits(Loaded(v1, old))[k][a], now)

=============================================================================
