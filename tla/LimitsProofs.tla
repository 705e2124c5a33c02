---------------------------- MODULE LimitsProofs ----------------------------
(***************************************************************************)
(* Proofs about Limits, for every configuration, set of users and threads  *)
(* and bound.                                                              *)
(***************************************************************************)
EXTENDS Limits, TLAPS

(* The operations on one limit keep its type.                              *)
LEMMA ResetType ==
    ASSUME NEW c \in LimitConfig, NEW l \in Limit
    PROVE  reset(c, l) \in Limit
BY DEF reset, Limit, LimitConfig, ZeroTime

LEMMA TryResetType ==
    ASSUME NEW c \in LimitConfig, NEW l \in Limit, NEW t
    PROVE  tryReset(c, l, t) \in Limit
BY ResetType DEF tryReset

LEMMA DynamicTimeType ==
    ASSUME NEW c \in LimitConfig, Len(c.table) > 0, NEW n \in Nat
    PROVE  getDynamicLimitTime(c, n) \in Int
<1>1. c.table \in Seq(Int) /\ c.maxTries \in Nat
    BY DEF LimitConfig
<1>2. Len(c.table) \in Nat
    BY <1>1
<1>3. \A i \in 1..Len(c.table) : c.table[i] \in Int
    BY <1>1
<1>4. QED
    BY <1>1, <1>2, <1>3 DEF getDynamicLimitTime

LEMMA RefreshedType ==
    ASSUME NEW c \in LimitConfig, c.dynamic => Len(c.table) > 0,
           NEW l \in Limit, NEW t
    PROVE  Refreshed(c, l, t) \in Limit
<1> DEFINE d == [l EXCEPT !.unlockSecs = getDynamicLimitTime(c, l.numFailures)]
<1>1. c.dynamic \in BOOLEAN /\ l.numFailures \in Nat
    BY DEF LimitConfig, Limit
<1>2. c.dynamic => d \in Limit
    BY <1>1, DynamicTimeType DEF Limit
<1>3. QED
    BY <1>1, <1>2, TryResetType DEF Refreshed

LEMMA FailedType ==
    ASSUME NEW c \in LimitConfig, NEW l \in Limit, NEW t \in Time
    PROVE  failed(c, l, t) \in Limit
<1>1. tryReset(c, l, t) \in Limit
    BY TryResetType
<1>2. QED
    BY <1>1 DEF failed, Limit

LEMMA ClearType ==
    ASSUME NEW l \in Limit
    PROVE  [l EXCEPT !.numFailures = 0] \in Limit
BY DEF Limit

LEMMA NewLimitType ==
    ASSUME NEW c \in LimitConfig
    PROVE  NewLimit(c) \in Limit
BY DEF NewLimit, Limit, LimitConfig, ZeroTime

LEMMA NewLimitsType == NewLimits \in [AuthTypes -> Limit]
BY ConfigAssumption, NewLimitType DEF NewLimits

-----------------------------------------------------------------------------
(* The states that are collected, written and read back are well typed.    *)
LEMMA CollectedType ==
    ASSUME TypeOK
    PROVE  getLimitStates \in States
BY DEF TypeOK, getLimitStates, States, LimitState, Limit

LEMMA NoStatesType == NoStates \in States
BY DEF NoStates, States, NoState, LimitState, ZeroTime

LEMMA OldStatesType ==
    ASSUME NEW s \in States
    PROVE  OldStates(s) \in States
BY NoStatesType DEF OldStates, States

LEMMA FileTypes ==
    /\ Missing \in File
    /\ Corrupt \in File
    /\ \A s \in States : Written(s) \in File
BY NoStatesType DEF Missing, Corrupt, Written, File, FileKind

LEMMA LocalKey == \A k \in Key : <<"Local", k[2]>> \in Key
BY LimitTypesAssumption DEF Key

LEMMA LoadedType ==
    ASSUME NEW f \in File, NEW g \in File
    PROVE  Loaded(f, g) \in States
<1>1. f.states \in States /\ g.states \in States
    BY DEF File
<1>2. [users |-> {k \in Key : <<"Local", k[2]>> \in g.states.users},
       state |-> [k \in Key |-> g.states.state[<<"Local", k[2]>>]]] \in States
    BY <1>1, LocalKey DEF States
<1>3. QED
    BY <1>1, <1>2, NoStatesType DEF Loaded

LEMMA LoadedLimitsType ==
    ASSUME NEW s \in States
    PROVE  LoadedLimits(s) \in [Key -> [AuthTypes -> Limit]]
<1>1. \A k \in Key, a \in AuthTypes :
         [numFailures |-> s.state[k][a].numFailures,
          lockAt      |-> s.state[k][a].lockAt,
          unlockSecs  |-> Config[a].unlockSecs] \in Limit
    BY ConfigAssumption DEF States, LimitState, Limit, LimitConfig
<1>2. \A a \in AuthTypes : NewLimit(Config[a]) \in Limit
    BY ConfigAssumption, NewLimitType
<1>3. QED
    BY <1>1, <1>2 DEF LoadedLimits

-----------------------------------------------------------------------------
(* Every variable keeps its type in every step of every thread.            *)
LEMMA InitType == Init => TypeOK
<1> SUFFICES ASSUME Init PROVE TypeOK
    OBVIOUS
<1>1. OldFiles \subseteq File
  <2>1. \A n \in Nat : [k \in Key |-> [a \in AuthTypes |->
            [numFailures |-> n, lockAt |-> 0]]]
                \in [Key -> [AuthTypes -> LimitState]]
    BY BoundsAssumption DEF LimitState, Time
  <2>2. \A n \in Nat :
            [users |-> Key, state |-> [k \in Key |-> [a \in AuthTypes |->
                [numFailures |-> n, lockAt |-> 0]]]] \in States
    BY <2>1 DEF States
  <2>3. QED
    BY <2>2, FileTypes, OldStatesType, BoundsAssumption DEF OldFiles
<1>2. v1 \in File /\ old \in File
    BY <1>1, FileTypes DEF Init
<1>3. Loaded(v1, old) \in States
    BY <1>2, LoadedType
<1>4. known \in SUBSET Key /\ limits \in [Key -> [AuthTypes -> Limit]]
    BY <1>3, LoadedLimitsType DEF Init, States
<1>5. QED
    BY <1>2, <1>4, NoStatesType DEF Init, TypeOK, PC, Loadable

LEMMA UpdateType ==
    ASSUME TypeOK, NEW t \in Threads,
           NEW n \in [Key -> [AuthTypes -> Limit]], Update(t, n),
           known' \in SUBSET Key
    PROVE  TypeOK'
BY DEF TypeOK, Update, files, PC

LEMMA NextType == TypeOK /\ [Next]_vars => TypeOK'
<1> SUFFICES ASSUME TypeOK, [Next]_vars PROVE TypeOK'
    OBVIOUS
<1> DEFINE Cfg(a) == Config[a] \in LimitConfig
                     /\ (Config[a].dynamic => Len(Config[a].table) > 0)
<1>0. \A a \in AuthTypes : Cfg(a)
    BY ConfigAssumption
<1>1. CASE SetClock
    BY <1>1 DEF SetClock, TypeOK, mem, files, threads
<1>2. ASSUME NEW k \in Key, initLimitsByUsername(k) PROVE TypeOK'
    BY <1>2, NewLimitsType DEF initLimitsByUsername, TypeOK, files, threads
<1>3. ASSUME NEW k \in Key, getLimits(k) PROVE TypeOK'
  <2>1. [a \in AuthTypes |-> Refreshed(Config[a], limits[k][a], now)]
            \in [AuthTypes -> Limit]
    BY <1>0, RefreshedType DEF TypeOK
  <2>2. QED
    BY <1>3, <2>1 DEF getLimits, TypeOK, files, threads
<1>4. ASSUME NEW k \in Key, NEW a \in AuthTypes, allowTx(k, a) PROVE TypeOK'
  <2>1. Refreshed(Config[a], limits[k][a], now) \in Limit
    BY <1>0, RefreshedType DEF TypeOK
  <2>2. QED
    BY <1>4, <2>1 DEF allowTx, TypeOK, files, threads
<1>5. ASSUME NEW t \in Threads, NEW k \in Key, NEW a \in AuthTypes,
             fail(t, k, a)
      PROVE  TypeOK'
  <2>1. failed(Config[a], limits[k][a], now) \in Limit
    BY <1>0, FailedType DEF TypeOK
  <2>2. [limits EXCEPT ![k][a] = failed(Config[a], @, now)]
            \in [Key -> [AuthTypes -> Limit]]
    BY <2>1 DEF TypeOK
  <2>3. QED
    BY <1>5, <2>2, UpdateType DEF fail, TypeOK
<1>6. ASSUME NEW t \in Threads, NEW k \in Key, NEW a \in AuthTypes,
             success(t, k, a)
      PROVE  TypeOK'
  <2>1. reset(Config[a], limits[k][a]) \in Limit
    BY <1>0, ResetType DEF TypeOK
  <2>2. [limits EXCEPT ![k][a] = reset(Config[a], @)]
            \in [Key -> [AuthTypes -> Limit]]
    BY <2>1 DEF TypeOK
  <2>3. QED
    BY <1>6, <2>2, UpdateType DEF success, TypeOK
<1>7. ASSUME NEW t \in Threads, NEW k \in Key, resetLimits(t, k) PROVE TypeOK'
  <2>1. \A a \in AuthTypes : [limits[k][a] EXCEPT !.numFailures = 0] \in Limit
    BY ClearType DEF TypeOK
  <2>2. ClearedLimits(k) \in [AuthTypes -> Limit]
    BY <1>0, <2>1, ResetType DEF ClearedLimits
  <2>3. (IF k \in known THEN [limits EXCEPT ![k] = ClearedLimits(k)] ELSE limits)
            \in [Key -> [AuthTypes -> Limit]]
    BY <2>2 DEF TypeOK
  <2>4. QED
    BY <1>7, <2>3, UpdateType DEF resetLimits, TypeOK
<1>8. ASSUME NEW t \in Threads, NEW found \in SUBSET Users,
             userListChanged(t, found)
      PROVE  TypeOK'
  <2>1. [k \in Key |-> IF k[2] \in found THEN limits[k] ELSE NewLimits]
            \in [Key -> [AuthTypes -> Limit]]
    BY NewLimitsType DEF TypeOK
  <2>2. QED
    BY <1>8, <2>1, UpdateType DEF userListChanged, TypeOK
<1>9. ASSUME NEW t \in Threads, Snapshot(t) PROVE TypeOK'
    BY <1>9, CollectedType DEF Snapshot, TypeOK, mem, files, PC
<1>10. ASSUME NEW t \in Threads, SaveBegin(t) PROVE TypeOK'
    BY <1>10, NoStatesType, FileTypes DEF SaveBegin, TypeOK, mem, PC
<1>11. ASSUME NEW t \in Threads, SaveV1(t) PROVE TypeOK'
    BY <1>11, NoStatesType, FileTypes DEF SaveV1, TypeOK, mem, PC
<1>12. ASSUME NEW t \in Threads, SaveOldBegin(t) PROVE TypeOK'
    BY <1>12, FileTypes DEF SaveOldBegin, TypeOK, mem, PC
<1>13. ASSUME NEW t \in Threads, SaveOld(t) PROVE TypeOK'
  <2>1. snap[t] \in States
    BY DEF TypeOK
  <2>2. Written(OldStates(snap[t])) \in File
    BY <2>1, OldStatesType, FileTypes
  <2>3. QED
    BY <1>13, <2>2, NoStatesType DEF SaveOld, TypeOK, mem, PC
<1>14. CASE Restart
  <2>1. Loaded(v1, old) \in States
    BY LoadedType DEF TypeOK
  <2>2. LoadedLimits(Loaded(v1, old)) \in [Key -> [AuthTypes -> Limit]]
        /\ Loaded(v1, old).users \in SUBSET Key
    BY <2>1, LoadedLimitsType DEF States
  <2>3. QED
    BY <1>14, <2>2, NoStatesType DEF Restart, TypeOK, files, PC, Loadable
<1>15. CASE UNCHANGED vars
    BY <1>15 DEF vars, TypeOK
<1>16. QED
    BY <1>1, <1>2, <1>3, <1>4, <1>5, <1>6, <1>7, <1>8, <1>9, <1>10, <1>11,
       <1>12, <1>13, <1>14, <1>15 DEF Next, ThreadStep

(* Type correctness of the limits, the files and the updaters.             *)
THEOREM LimitsTypeCorrect == Spec => []TypeOK
BY InitType, NextType, PTL DEF Spec

-----------------------------------------------------------------------------
(* The clock is before the instant where now - lockAt overflows, and the   *)
(* zero time is further away than any lock time.                           *)
BeforeOverflow ==
    /\ ZeroNano < 0 /\ MaxTime - ZeroNano <= IntMax
    /\ \A a \in AuthTypes : \A i \in 1..Len(Config[a].table) :
           Config[a].table[i] < -ZeroNano

(* No entry of a dynamic table stands for "not locked".                    *)
TablesLock ==
    \A a \in AuthTypes : \A i \in 1..Len(Config[a].table) :
        Config[a].table[i] # 0

LEMMA ModSmall ==
    ASSUME NEW m \in Int, NEW d \in Int, 0 <= m, m < d
    PROVE  m % d = m
BY SMTT(20)

LEMMA WrapIdentity ==
    ASSUME NEW n \in Int, -(IntMax + 1) <= n, n <= IntMax
    PROVE  Wrap(n) = n
<1> DEFINE m == n + IntMax + 1
           d == 2 * (IntMax + 1)
<1>1. m \in Int /\ d \in Int /\ 0 <= m /\ m < d
    BY BoundsAssumption
<1>2. m % d = m
    BY <1>1, ModSmall
<1>3. QED
    BY <1>2, BoundsAssumption DEF Wrap

(* The elapsed time that tryReset compares is exact before the overflow.   *)
LEMMA ElapsedExact ==
    ASSUME BeforeOverflow, NEW t \in Time, NEW x \in Time \cup {ZeroTime}
    PROVE  /\ UnixNano(x) \in Int
           /\ Wrap(t - UnixNano(x)) = t - UnixNano(x)
<1>1. UnixNano(x) \in Int /\ ZeroNano <= UnixNano(x) /\ UnixNano(x) <= MaxTime
    BY BoundsAssumption DEF UnixNano, Time, ZeroTime, BeforeOverflow
<1>2. t \in Int /\ 0 <= t /\ t <= MaxTime
    BY BoundsAssumption DEF Time
<1>3. t - UnixNano(x) \in Int /\ -(IntMax + 1) <= t - UnixNano(x)
        /\ t - UnixNano(x) <= IntMax
    BY <1>1, <1>2, BoundsAssumption DEF BeforeOverflow
<1>4. QED
    BY <1>1, <1>3, WrapIdentity

LEMMA DynamicTimeInTable ==
    ASSUME NEW c \in LimitConfig, Len(c.table) > 0, NEW n \in Nat,
           n >= c.maxTries
    PROVE  \E i \in 1..Len(c.table) : getDynamicLimitTime(c, n) = c.table[i]
<1>1. c.maxTries \in Nat /\ Len(c.table) \in Nat
    BY DEF LimitConfig
<1>2. QED
    BY <1>1 DEF getDynamicLimitTime

(* What it means that allow refuses.                                       *)
LEMMA RefusedShape ==
    ASSUME NEW c \in LimitConfig, c.dynamic => Len(c.table) > 0,
           NEW l \in Limit, NEW t \in Int, ~allow(c, l, t)
    PROVE  LET d == Duration(c, l) IN
           /\ c.maxTries > 0 /\ l.numFailures >= c.maxTries
           /\ d \in Int /\ d # 0
           /\ d < 0 \/ ~(Wrap(t - UnixNano(l.lockAt)) > d)
           /\ Refreshed(c, l, t) = [l EXCEPT !.unlockSecs = d]
<1> DEFINE d == Duration(c, l)
           e == [l EXCEPT !.unlockSecs = d]
<1>1. /\ c.maxTries \in Nat /\ c.dynamic \in BOOLEAN
      /\ l.numFailures \in Nat /\ l.unlockSecs \in Int
    BY DEF LimitConfig, Limit
<1>2. d \in Int
    BY <1>1, DynamicTimeType DEF Duration
<1>3. e \in Limit /\ e.numFailures = l.numFailures /\ e.lockAt = l.lockAt
        /\ e.unlockSecs = d
    BY <1>2 DEF Limit
<1>4. c.maxTries # 0
    BY DEF allow
<1>5. Refreshed(c, l, t) = tryReset(c, e, t)
  <2>1. CASE c.dynamic
    BY <2>1, <1>4 DEF Refreshed, Duration
  <2>2. CASE ~c.dynamic
    <3>1. e = l
      BY <2>2 DEF Duration, Limit
    <3>2. QED
      BY <3>1, <2>2, <1>4 DEF Refreshed
  <2>3. QED
    BY <2>1, <2>2
<1>6. tryReset(c, e, t) # reset(c, e)
    BY <1>5, <1>1, <1>4 DEF allow, reset
<1>7. tryReset(c, e, t) = e
    BY <1>6 DEF tryReset
<1>8. e.numFailures >= c.maxTries /\ d # 0
  <2>1. ~(Refreshed(c, l, t).numFailures < c.maxTries)
        /\ Refreshed(c, l, t).unlockSecs # 0
    BY DEF allow
  <2>2. Refreshed(c, l, t) = e
    BY <1>5, <1>7
  <2>3. ~(l.numFailures < c.maxTries) /\ d # 0
    BY <2>1, <2>2, <1>3
  <2>4. QED
    BY <2>3, <1>1, <1>3
<1>9. d < 0 \/ ~(Wrap(t - UnixNano(l.lockAt)) > d)
    BY <1>1, <1>2, <1>3, <1>4, <1>6, <1>8 DEF tryReset
<1>10. QED
    BY <1>1, <1>2, <1>3, <1>4, <1>5, <1>7, <1>8, <1>9

(* Conversely, such a limit is refused.                                    *)
LEMMA ShapeRefused ==
    ASSUME NEW c \in LimitConfig, c.dynamic => Len(c.table) > 0,
           NEW l \in Limit, NEW t \in Int,
           c.maxTries > 0, l.numFailures >= c.maxTries,
           Duration(c, l) # 0,
           Duration(c, l) < 0 \/ ~(Wrap(t - UnixNano(l.lockAt)) > Duration(c, l))
    PROVE  ~allow(c, l, t)
<1> DEFINE d == Duration(c, l)
           e == [l EXCEPT !.unlockSecs = d]
<1>1. /\ c.maxTries \in Nat /\ c.dynamic \in BOOLEAN
      /\ l.numFailures \in Nat /\ l.unlockSecs \in Int
    BY DEF LimitConfig, Limit
<1>2. d \in Int
    BY <1>1, DynamicTimeType DEF Duration
<1>3. e.numFailures = l.numFailures /\ e.lockAt = l.lockAt /\ e.unlockSecs = d
    BY <1>2 DEF Limit
<1>4. tryReset(c, e, t) = e
    BY <1>2, <1>3 DEF tryReset
<1>5. Refreshed(c, l, t) = e
  <2>1. CASE c.dynamic
    BY <2>1, <1>4, <1>1 DEF Refreshed, Duration
  <2>2. CASE ~c.dynamic
    <3>1. e = l
      BY <2>2 DEF Duration, Limit
    <3>2. QED
      BY <3>1, <2>2, <1>4, <1>1 DEF Refreshed
  <2>3. QED
    BY <2>1, <2>2
<1>6. QED
    BY <1>1, <1>3, <1>5 DEF allow

(* A lock ends: before the clock overflows, no factor is refused after the *)
(* unlock time that GetLimits reports.                                     *)
THEOREM LimitsLockHasEnd ==
    ASSUME BeforeOverflow
    PROVE  Spec => []LockHasEnd
<1>1. TypeOK => LockHasEnd
  <2> SUFFICES ASSUME TypeOK, NEW k \in Key, NEW a \in AuthTypes,
                      Locked(k, a)
               PROVE  ~Elapsed(k, a, now)
      BY DEF LockHasEnd
  <2> DEFINE c == Config[a]
             l == limits[k][a]
             d == Duration(c, l)
  <2>1. c \in LimitConfig /\ (c.dynamic => Len(c.table) > 0)
        /\ l \in Limit /\ now \in Time /\ now \in Int
      BY ConfigAssumption, BoundsAssumption DEF TypeOK, Time
  <2>2. d \in Int /\ (d < 0 \/ ~(Wrap(now - UnixNano(l.lockAt)) > d))
      BY <2>1, RefusedShape DEF Locked
  <2>3. l.lockAt \in Time \cup {ZeroTime}
      BY <2>1 DEF Limit
  <2>4. UnixNano(l.lockAt) \in Int
        /\ Wrap(now - UnixNano(l.lockAt)) = now - UnixNano(l.lockAt)
      BY <2>1, <2>3, ElapsedExact
  <2>5. QED
      BY <2>1, <2>2, <2>4 DEF Elapsed
<1>2. QED
    BY <1>1, LimitsTypeCorrect, PTL

-----------------------------------------------------------------------------
(* The limit l in memory comes from the recorded one f: the same failures  *)
(* and lock time, or what a lazy reset made of them.                       *)
Descends(c, l, f) ==
    \/ l.numFailures = f.numFailures /\ l.lockAt = f.lockAt
    \/ c.dynamic /\ l.numFailures = f.numFailures /\ l.lockAt = ZeroTime
    \/ ~c.dynamic /\ l.numFailures = 0

DescendsFrom(s) ==
    \A k \in Key, a \in AuthTypes :
        Descends(Config[a], limits[k][a], LoadedLimits(s)[k][a])

(* The inductive invariant of RestartKeepsLocks: unlockSecs is as          *)
(* configured where it is not computed, the entry of an unknown user is    *)
(* that of a new one, a save is exclusive and leaves the v1 file written,  *)
(* and the limits descend from the files, or from the snapshot that is     *)
(* about to be written, as long as no update outdated them.                *)
StaticSecs ==
    \A k \in Key, a \in AuthTypes :
        ~Config[a].dynamic => limits[k][a].unlockSecs = Config[a].unlockSecs

UnknownIsNew == \A k \in Key \ known : limits[k] = NewLimits

SaveExclusive ==
    /\ \A t, u \in Threads : Saving(t) /\ Saving(u) => t = u
    /\ \A t \in Threads : pc[t] \in {"wroteV1", "writingOld"} => v1.kind = "ok"

SnapDescends ==
    \A t \in Threads :
        snapFresh[t] /\ pc[t] \in {"snapped", "writingV1"} => DescendsFrom(snap[t])

FileDescends ==
    fileFresh => /\ Loadable(v1, old)
                 /\ DescendsFrom(Loaded(v1, old))

FreshInv ==
    StaticSecs /\ UnknownIsNew /\ SaveExclusive /\ SnapDescends /\ FileDescends

-----------------------------------------------------------------------------
LEMMA LazyDescends ==
    ASSUME NEW c \in LimitConfig, NEW l \in Limit, NEW f, NEW t
    PROVE  /\ Descends(c, l, f) => Descends(c, Refreshed(c, l, t), f)
           /\ ~c.dynamic => Refreshed(c, l, t).unlockSecs = l.unlockSecs
<1> DEFINE d == [l EXCEPT !.unlockSecs = getDynamicLimitTime(c, l.numFailures)]
<1>1. d.numFailures = l.numFailures /\ d.lockAt = l.lockAt
    BY DEF Limit
<1>2. c.dynamic \in BOOLEAN
    BY DEF LimitConfig
<1>3. CASE c.dynamic
  <2>1. Refreshed(c, l, t) \in {l, d, reset(c, d)}
      BY <1>3 DEF Refreshed, tryReset
  <2>2. reset(c, d).numFailures = l.numFailures /\ reset(c, d).lockAt = ZeroTime
      BY <1>1, <1>3 DEF reset
  <2>3. QED
      BY <1>1, <1>3, <2>1, <2>2 DEF Descends
<1>4. CASE ~c.dynamic
  <2>1. Refreshed(c, l, t) \in {l, reset(c, l)}
      BY <1>4 DEF Refreshed, tryReset
  <2>2. reset(c, l).numFailures = 0 /\ reset(c, l).unlockSecs = l.unlockSecs
      BY <1>4 DEF reset
  <2>3. QED
      BY <1>4, <2>1, <2>2 DEF Descends
<1>5. QED
    BY <1>2, <1>3, <1>4

LEMMA LoadedShape ==
    ASSUME NEW s \in States
    PROVE  /\ \A k \in Key, a \in AuthTypes :
                 LoadedLimits(s)[k][a].unlockSecs = Config[a].unlockSecs
           /\ \A k \in Key \ s.users : LoadedLimits(s)[k] = NewLimits
BY DEF LoadedLimits, NewLimits, NewLimit

LEMMA LoadedInv ==
    ASSUME TypeOK, NEW s \in States,
           limits' = LoadedLimits(s), known' = s.users
    PROVE  /\ StaticSecs' /\ UnknownIsNew'
           /\ \A k \in Key, a \in AuthTypes :
                 Descends(Config[a], limits'[k][a], LoadedLimits(s)[k][a])
<1>1. StaticSecs' /\ UnknownIsNew'
    BY LoadedShape DEF StaticSecs, UnknownIsNew
<1>2. QED
    BY <1>1 DEF Descends

LEMMA FreshInit == Init => FreshInv
<1> SUFFICES ASSUME Init PROVE FreshInv
    OBVIOUS
<1>1. TypeOK
    BY InitType
<1>2. Loaded(v1, old) \in States
    BY <1>1, LoadedType DEF TypeOK
<1>3. StaticSecs /\ UnknownIsNew
    BY <1>2, LoadedShape DEF Init, StaticSecs, UnknownIsNew
<1>4. DescendsFrom(Loaded(v1, old))
    BY DEF Init, DescendsFrom, Descends
<1>5. SaveExclusive /\ SnapDescends /\ FileDescends
    BY <1>4 DEF Init, SaveExclusive, SnapDescends, FileDescends, Saving
<1>6. QED
    BY <1>3, <1>5 DEF FreshInv

(* A step that leaves the limits, or only refreshes them, keeps what       *)
(* descends from a snapshot.                                               *)
LEMMA LazyStep ==
    ASSUME TypeOK, FreshInv, UNCHANGED <<files, threads, fileFresh>>,
           \A k \in Key, a \in AuthTypes :
               limits'[k][a] \in {limits[k][a],
                                  Refreshed(Config[a], limits[k][a], now)},
           UnknownIsNew'
    PROVE  FreshInv'
<1>1. \A k \in Key, a \in AuthTypes :
          Config[a] \in LimitConfig /\ limits[k][a] \in Limit
    BY ConfigAssumption DEF TypeOK
<1>2. StaticSecs'
  <2> SUFFICES ASSUME NEW k \in Key, NEW a \in AuthTypes, ~Config[a].dynamic
               PROVE  limits'[k][a].unlockSecs = Config[a].unlockSecs
      BY DEF StaticSecs
  <2>1. Refreshed(Config[a], limits[k][a], now).unlockSecs
            = limits[k][a].unlockSecs
      BY <1>1, LazyDescends
  <2>2. limits[k][a].unlockSecs = Config[a].unlockSecs
      BY DEF FreshInv, StaticSecs
  <2>3. QED
      BY <2>1, <2>2
<1>3. ASSUME NEW s, DescendsFrom(s)
      PROVE  \A k \in Key, a \in AuthTypes :
                 Descends(Config[a], limits'[k][a], LoadedLimits(s)[k][a])
    BY <1>1, <1>3, LazyDescends DEF DescendsFrom
<1>4. SnapDescends'
    BY <1>3 DEF FreshInv, SnapDescends, DescendsFrom, threads
<1>5. FileDescends'
    BY <1>3 DEF FreshInv, FileDescends, DescendsFrom, files, Loaded, Loadable
<1>6. SaveExclusive'
    BY DEF FreshInv, SaveExclusive, Saving, files, threads
<1>7. QED
    BY <1>2, <1>4, <1>5, <1>6 DEF FreshInv

(* An update outdates every snapshot.                                      *)
LEMMA UpdateStep ==
    ASSUME TypeOK, FreshInv, NEW t \in Threads, NEW n, Update(t, n),
           StaticSecs', UnknownIsNew'
    PROVE  FreshInv'
<1>1. SnapDescends' /\ FileDescends'
    BY DEF Update, SnapDescends, FileDescends
<1>2. SaveExclusive'
    BY DEF Update, FreshInv, SaveExclusive, Saving, TypeOK, files
<1>3. QED
    BY <1>1, <1>2 DEF FreshInv

(* A step of a save leaves the limits alone.                               *)
LEMMA MemFrame ==
    ASSUME FreshInv, UNCHANGED mem
    PROVE  StaticSecs' /\ UnknownIsNew'
BY DEF FreshInv, StaticSecs, UnknownIsNew, mem

LEMMA FreshNext == TypeOK /\ TypeOK' /\ FreshInv /\ [Next]_vars => FreshInv'
<1> SUFFICES ASSUME TypeOK, TypeOK', FreshInv, [Next]_vars PROVE FreshInv'
    OBVIOUS
<1> USE DEF mem, files, threads
<1>1. CASE SetClock
  <2>1. UnknownIsNew'
    BY <1>1, MemFrame DEF SetClock
  <2>2. QED
    BY <1>1, <2>1, LazyStep DEF SetClock
<1>2. ASSUME NEW k \in Key, initLimitsByUsername(k) PROVE FreshInv'
  <2>1. limits' = limits
    BY <1>2 DEF initLimitsByUsername, FreshInv, UnknownIsNew, TypeOK
  <2>2. UnknownIsNew'
    BY <1>2, <2>1 DEF initLimitsByUsername, FreshInv, UnknownIsNew
  <2>3. QED
    BY <1>2, <2>1, <2>2, LazyStep DEF initLimitsByUsername
<1>3. ASSUME NEW k \in Key, getLimits(k) PROVE FreshInv'
  <2>1. \A j \in Key, a \in AuthTypes :
            limits'[j][a] \in {limits[j][a],
                               Refreshed(Config[a], limits[j][a], now)}
    BY <1>3 DEF getLimits, TypeOK
  <2>2. UnknownIsNew'
    BY <1>3 DEF getLimits, FreshInv, UnknownIsNew, TypeOK
  <2>3. QED
    BY <1>3, <2>1, <2>2, LazyStep DEF getLimits
<1>4. ASSUME NEW k \in Key, NEW a \in AuthTypes, allowTx(k, a) PROVE FreshInv'
  <2>1. \A j \in Key, b \in AuthTypes :
            limits'[j][b] \in {limits[j][b],
                               Refreshed(Config[b], limits[j][b], now)}
    BY <1>4 DEF allowTx, TypeOK
  <2>2. UnknownIsNew'
    BY <1>4 DEF allowTx, FreshInv, UnknownIsNew, TypeOK
  <2>3. QED
    BY <1>4, <2>1, <2>2, LazyStep DEF allowTx
<1>5. ASSUME NEW t \in Threads, NEW k \in Key, NEW a \in AuthTypes,
             fail(t, k, a)
      PROVE  FreshInv'
  <2>1. limits' = [limits EXCEPT ![k][a] = failed(Config[a], @, now)]
        /\ known' = known /\ k \in known
    BY <1>5 DEF fail, Update
  <2>2. ~Config[a].dynamic => failed(Config[a], limits[k][a], now).unlockSecs
                                  = limits[k][a].unlockSecs
    BY DEF failed, tryReset, reset
  <2>3. StaticSecs'
    BY <2>1, <2>2 DEF FreshInv, StaticSecs, TypeOK
  <2>4. UnknownIsNew'
    BY <2>1 DEF FreshInv, UnknownIsNew, TypeOK
  <2>5. QED
    BY <1>5, <2>3, <2>4, UpdateStep DEF fail
<1>6. ASSUME NEW t \in Threads, NEW k \in Key, NEW a \in AuthTypes,
             success(t, k, a)
      PROVE  FreshInv'
  <2>1. limits' = [limits EXCEPT ![k][a] = reset(Config[a], @)]
        /\ known' = known /\ k \in known
    BY <1>6 DEF success, Update
  <2>2. ~Config[a].dynamic => reset(Config[a], limits[k][a]).unlockSecs
                                  = limits[k][a].unlockSecs
    BY DEF reset
  <2>3. StaticSecs'
    BY <2>1, <2>2 DEF FreshInv, StaticSecs, TypeOK
  <2>4. UnknownIsNew'
    BY <2>1 DEF FreshInv, UnknownIsNew, TypeOK
  <2>5. QED
    BY <1>6, <2>3, <2>4, UpdateStep DEF success
<1>7. ASSUME NEW t \in Threads, NEW k \in Key, resetLimits(t, k) PROVE FreshInv'
  <2>1. known' = known /\
        limits' = IF k \in known THEN [limits EXCEPT ![k] = ClearedLimits(k)]
                  ELSE limits
    BY <1>7 DEF resetLimits, Update
  <2>2. \A a \in AuthTypes : ~Config[a].dynamic =>
            ClearedLimits(k)[a].unlockSecs = limits[k][a].unlockSecs
    BY DEF ClearedLimits, reset, TypeOK, Limit
  <2>3. StaticSecs'
    BY <2>1, <2>2 DEF FreshInv, StaticSecs, TypeOK
  <2>4. UnknownIsNew'
    BY <2>1 DEF FreshInv, UnknownIsNew, TypeOK
  <2>5. QED
    BY <1>7, <2>3, <2>4, UpdateStep DEF resetLimits
<1>8. ASSUME NEW t \in Threads, NEW found \in SUBSET Users,
             userListChanged(t, found)
      PROVE  FreshInv'
  <2>1. /\ known' = {k \in known : k[2] \in found}
        /\ limits' = [k \in Key |-> IF k[2] \in found THEN limits[k]
                                    ELSE NewLimits]
    BY <1>8 DEF userListChanged, Update
  <2>2. \A a \in AuthTypes : NewLimits[a].unlockSecs = Config[a].unlockSecs
    BY DEF NewLimits, NewLimit
  <2>3. StaticSecs'
    BY <2>1, <2>2 DEF FreshInv, StaticSecs
  <2>4. UnknownIsNew'
    BY <2>1 DEF FreshInv, UnknownIsNew
  <2>5. QED
    BY <1>8, <2>3, <2>4, UpdateStep DEF userListChanged
<1>9. ASSUME NEW t \in Threads, Snapshot(t) PROVE FreshInv'
  <2>1. DescendsFrom(getLimitStates)
    BY DEF FreshInv, UnknownIsNew, DescendsFrom, Descends, LoadedLimits,
           getLimitStates, NewLimits
  <2>2. SnapDescends'
    BY <1>9, <2>1 DEF Snapshot, FreshInv, SnapDescends, DescendsFrom, TypeOK
  <2>3. FileDescends'
    BY <1>9 DEF Snapshot, FreshInv, FileDescends, DescendsFrom
  <2>4. SaveExclusive'
    BY <1>9 DEF Snapshot, FreshInv, SaveExclusive, Saving, TypeOK
  <2>5. QED
    BY <1>9, <2>2, <2>3, <2>4, MemFrame DEF Snapshot, FreshInv
<1>10. ASSUME NEW t \in Threads, SaveBegin(t) PROVE FreshInv'
  <2>1. SnapDescends'
    BY <1>10 DEF SaveBegin, FreshInv, SnapDescends, DescendsFrom, TypeOK
  <2>2. FileDescends'
    BY <1>10 DEF SaveBegin, FreshInv, FileDescends, DescendsFrom
  <2>3. SaveExclusive'
    BY <1>10 DEF SaveBegin, FreshInv, SaveExclusive, Saving, TypeOK
  <2>4. QED
    BY <1>10, <2>1, <2>2, <2>3, MemFrame DEF SaveBegin, FreshInv
<1>11. ASSUME NEW t \in Threads, SaveV1(t) PROVE FreshInv'
  <2>1. SnapDescends'
    BY <1>11 DEF SaveV1, FreshInv, SnapDescends, DescendsFrom, TypeOK
  <2>2. \A s \in States : Loaded(Written(s), old') = s /\ Loadable(Written(s), old')
    BY DEF Loaded, Loadable, Written
  <2>3. FileDescends'
    <3>1. CASE v1' = v1 /\ fileFresh' = fileFresh
      BY <1>11, <3>1 DEF SaveV1, FreshInv, FileDescends, DescendsFrom
    <3>2. CASE v1' = Written(snap[t]) /\ fileFresh' = snapFresh[t]
      <4>1. snap[t] \in States /\ limits' = limits
        BY <1>11 DEF SaveV1, TypeOK, mem
      <4>2. Loaded(v1', old') = snap[t] /\ Loadable(v1', old')
        BY <2>2, <3>2, <4>1
      <4>3. snapFresh[t] => DescendsFrom(snap[t])
        BY <1>11 DEF SaveV1, FreshInv, SnapDescends
      <4>4. QED
        BY <3>2, <4>1, <4>2, <4>3 DEF FileDescends, DescendsFrom
    <3>3. QED
      BY <1>11, <3>1, <3>2 DEF SaveV1
  <2>4. SaveExclusive'
    BY <1>11 DEF SaveV1, FreshInv, SaveExclusive, Saving, TypeOK, Written
  <2>5. QED
    BY <1>11, <2>1, <2>3, <2>4, MemFrame DEF SaveV1, FreshInv
<1>12. ASSUME NEW t \in Threads, SaveOldBegin(t) \/ SaveOld(t) PROVE FreshInv'
  <2>1. /\ UNCHANGED <<limits, known, v1, fileFresh, snapFresh>>
        /\ v1.kind = "ok"
    BY <1>12 DEF SaveOldBegin, SaveOld, FreshInv, SaveExclusive
  <2>2. FileDescends'
    BY <2>1 DEF FreshInv, FileDescends, DescendsFrom, Loaded, Loadable
  <2>3. SnapDescends'
    BY <1>12 DEF SaveOldBegin, SaveOld, FreshInv, SnapDescends, DescendsFrom, TypeOK
  <2>4. SaveExclusive'
    BY <1>12 DEF SaveOldBegin, SaveOld, FreshInv, SaveExclusive, Saving, TypeOK
  <2>5. QED
    BY <2>1, <2>2, <2>3, <2>4, MemFrame DEF FreshInv
<1>13. CASE Restart
  <2>1. Loaded(v1, old) \in States
    BY LoadedType DEF TypeOK
  <2>2. /\ StaticSecs' /\ UnknownIsNew'
        /\ \A k \in Key, a \in AuthTypes :
              Descends(Config[a], limits'[k][a],
                       LoadedLimits(Loaded(v1, old))[k][a])
    BY <1>13, <2>1, LoadedInv DEF Restart
  <2>3. FileDescends'
    BY <1>13, <2>2 DEF Restart, FileDescends, DescendsFrom
  <2>4. SnapDescends' /\ SaveExclusive'
    BY <1>13 DEF Restart, SnapDescends, SaveExclusive, Saving
  <2>5. QED
    BY <2>2, <2>3, <2>4 DEF FreshInv
<1>14. CASE UNCHANGED vars
  <2>1. UnknownIsNew'
    BY <1>14, MemFrame DEF vars
  <2>2. QED
    BY <1>14, <2>1, LazyStep DEF vars
<1>15. QED
    BY <1>1, <1>2, <1>3, <1>4, <1>5, <1>6, <1>7, <1>8, <1>9, <1>10, <1>11,
       <1>12, <1>13, <1>14 DEF Next, ThreadStep

LEMMA FreshInvariant == Spec => []FreshInv
BY InitType, NextType, FreshInit, FreshNext, LimitsTypeCorrect, PTL DEF Spec

(* A refused limit is refused by whatever it descends from.                *)
LEMMA RefusedDescends ==
    ASSUME BeforeOverflow, NEW a \in AuthTypes, NEW l \in Limit, NEW f \in Limit,
           NEW t \in Time, Descends(Config[a], l, f), ~allow(Config[a], l, t),
           ~Config[a].dynamic => l.unlockSecs = f.unlockSecs
    PROVE  ~allow(Config[a], f, t)
<1> DEFINE c == Config[a]
           d == Duration(c, l)
<1>1. c \in LimitConfig /\ (c.dynamic => Len(c.table) > 0) /\ c.dynamic \in BOOLEAN
    BY ConfigAssumption DEF LimitConfig
<1>2. t \in Int
    BY BoundsAssumption DEF Time
<1>3. /\ c.maxTries > 0 /\ l.numFailures >= c.maxTries /\ d \in Int /\ d # 0
      /\ d < 0 \/ ~(Wrap(t - UnixNano(l.lockAt)) > d)
    BY <1>1, <1>2, RefusedShape
<1>4. c.maxTries \in Nat /\ l.numFailures \in Nat
    BY <1>1 DEF LimitConfig, Limit
<1>5. l.numFailures = f.numFailures
    BY <1>3, <1>4 DEF Descends
<1>6. Duration(c, f) = d
    BY <1>1, <1>5 DEF Duration
<1>7. d < 0 \/ ~(Wrap(t - UnixNano(f.lockAt)) > d)
  <2>1. CASE l.lockAt = f.lockAt
    BY <2>1, <1>3
  <2>2. CASE c.dynamic /\ l.lockAt = ZeroTime
    <3>1. \E i \in 1..Len(c.table) : d = c.table[i]
      BY <1>1, <1>3, <1>4, <2>2, DynamicTimeInTable DEF Duration
    <3>2. d < -ZeroNano
      BY <3>1 DEF BeforeOverflow
    <3>3. Wrap(t - UnixNano(ZeroTime)) = t - ZeroNano
      BY ElapsedExact DEF UnixNano
    <3>4. t - ZeroNano > d
      BY <3>2, <1>2, <1>3, BoundsAssumption DEF Time
    <3>5. QED
      BY <3>3, <3>4, <2>2, <1>3
  <2>3. QED
    BY <2>1, <2>2, <1>3, <1>4 DEF Descends
<1>8. QED
    BY <1>1, <1>2, <1>3, <1>5, <1>6, <1>7, ShapeRefused

(* A restart keeps every lock while the files are not outdated.            *)
LEMMA FreshKeepsLocks ==
    ASSUME BeforeOverflow
    PROVE  TypeOK /\ FreshInv => RestartKeepsLocks
<1> SUFFICES ASSUME TypeOK, FreshInv, fileFresh, NEW k \in Key,
                    NEW a \in AuthTypes, Locked(k, a)
             PROVE  ~allow(Config[a], LoadedLimits(Loaded(v1, old))[k][a], now)
    BY DEF RestartKeepsLocks
<1> DEFINE f == LoadedLimits(Loaded(v1, old))[k][a]
           l == limits[k][a]
<1>1. Loaded(v1, old) \in States
    BY LoadedType DEF TypeOK
<1>2. f \in Limit /\ l \in Limit /\ now \in Time
    BY <1>1, LoadedLimitsType DEF TypeOK
<1>3. Descends(Config[a], l, f)
    BY DEF FreshInv, FileDescends, DescendsFrom
<1>4. ~Config[a].dynamic => l.unlockSecs = f.unlockSecs
    BY <1>1, LoadedShape DEF FreshInv, StaticSecs
<1>5. QED
    BY <1>2, <1>3, <1>4, RefusedDescends DEF Locked

THEOREM LimitsRestartKeepsLocks ==
    ASSUME BeforeOverflow
    PROVE  Spec => []RestartKeepsLocks
BY FreshKeepsLocks, FreshInvariant, LimitsTypeCorrect, PTL

-----------------------------------------------------------------------------
(* A refused limit stays refused until its lock time is over.              *)
LEMMA StillRefused ==
    ASSUME BeforeOverflow, NEW a \in AuthTypes, NEW l \in Limit,
           NEW t \in Time, NEW u \in Time, ~allow(Config[a], l, t),
           ~(/\ Duration(Config[a], l) >= 0
             /\ u > UnixNano(l.lockAt) + Duration(Config[a], l))
    PROVE  ~allow(Config[a], l, u)
<1> DEFINE c == Config[a]
           d == Duration(c, l)
<1>1. c \in LimitConfig /\ (c.dynamic => Len(c.table) > 0)
    BY ConfigAssumption
<1>2. t \in Int /\ u \in Int
    BY BoundsAssumption DEF Time
<1>3. c.maxTries > 0 /\ l.numFailures >= c.maxTries /\ d \in Int /\ d # 0
    BY <1>1, <1>2, RefusedShape
<1>4. l.lockAt \in Time \cup {ZeroTime}
    BY DEF Limit
<1>5. UnixNano(l.lockAt) \in Int /\ Wrap(u - UnixNano(l.lockAt)) = u - UnixNano(l.lockAt)
    BY <1>4, ElapsedExact
<1>6. d < 0 \/ ~(u - UnixNano(l.lockAt) > d)
    BY <1>2, <1>3, <1>5
<1>7. d < 0 \/ ~(Wrap(u - UnixNano(l.lockAt)) > d)
    BY <1>5, <1>6
<1>8. QED
    BY <1>1, <1>2, <1>3, <1>7, ShapeRefused

(* A query does not end a lock whose time is not over.                     *)
LEMMA RefreshedRefused ==
    ASSUME NEW a \in AuthTypes, NEW l \in Limit, NEW t \in Time,
           ~allow(Config[a], l, t)
    PROVE  ~allow(Config[a], Refreshed(Config[a], l, t), t)
<1> DEFINE c == Config[a]
           d == Duration(c, l)
           e == [l EXCEPT !.unlockSecs = d]
<1>1. c \in LimitConfig /\ (c.dynamic => Len(c.table) > 0) /\ t \in Int
    BY ConfigAssumption, BoundsAssumption DEF Time
<1>2. /\ c.maxTries > 0 /\ l.numFailures >= c.maxTries /\ d \in Int /\ d # 0
      /\ d < 0 \/ ~(Wrap(t - UnixNano(l.lockAt)) > d)
      /\ Refreshed(c, l, t) = e
    BY <1>1, RefusedShape
<1>3. e \in Limit /\ e.numFailures = l.numFailures /\ e.lockAt = l.lockAt
        /\ e.unlockSecs = d
    BY <1>2 DEF Limit
<1>4. Duration(c, e) = d
    BY <1>3 DEF Duration
<1>5. QED
    BY <1>1, <1>2, <1>3, <1>4, ShapeRefused

(* A further failure does not end a lock.                                  *)
LEMMA FailedRefused ==
    ASSUME BeforeOverflow, TablesLock, NEW a \in AuthTypes, NEW l \in Limit,
           NEW t \in Time, ~allow(Config[a], l, t)
    PROVE  ~allow(Config[a], failed(Config[a], l, t), t)
<1> DEFINE c == Config[a]
           d == Duration(c, l)
           g == failed(c, l, t)
<1>1. c \in LimitConfig /\ (c.dynamic => Len(c.table) > 0) /\ t \in Int
        /\ c.maxTries \in Nat /\ c.dynamic \in BOOLEAN
    BY ConfigAssumption, BoundsAssumption DEF Time, LimitConfig
<1>2. /\ c.maxTries > 0 /\ l.numFailures >= c.maxTries /\ d \in Int /\ d # 0
      /\ d < 0 \/ ~(Wrap(t - UnixNano(l.lockAt)) > d)
    BY <1>1, RefusedShape
<1>3. l.numFailures \in Nat /\ l.unlockSecs \in Int
    BY DEF Limit
<1>4. g \in Limit
    BY <1>1, FailedType
<1>5. ~c.dynamic => tryReset(c, l, t) = l
    BY <1>2, <1>3 DEF tryReset, Duration
<1>6. tryReset(c, l, t).numFailures = l.numFailures
  <2>1. CASE c.dynamic
    BY <2>1 DEF tryReset, reset
  <2>2. CASE ~c.dynamic
    BY <2>2, <1>5
  <2>3. QED
    BY <2>1, <2>2
<1>7. g.numFailures = l.numFailures + 1 /\ g.lockAt = t
        /\ g.unlockSecs = tryReset(c, l, t).unlockSecs
    BY <1>1, <1>2, <1>3, <1>6 DEF failed
<1>8. g.numFailures >= c.maxTries
    BY <1>1, <1>2, <1>3, <1>7
<1>9. Duration(c, g) \in Int /\ Duration(c, g) # 0
  <2>1. CASE c.dynamic
    <3>1. g.numFailures \in Nat
      BY <1>4 DEF Limit
    <3>2. PICK i \in 1..Len(c.table) :
              getDynamicLimitTime(c, g.numFailures) = c.table[i]
      BY <1>1, <1>8, <2>1, <3>1, DynamicTimeInTable
    <3>3. c.table[i] # 0
      BY DEF TablesLock
    <3>4. QED
      BY <1>1, <2>1, <3>1, <3>2, <3>3, DynamicTimeType DEF Duration
  <2>2. CASE ~c.dynamic
    BY <2>2, <1>2, <1>5, <1>7 DEF Duration
  <2>3. QED
    BY <2>1, <2>2
<1>10. Wrap(t - UnixNano(g.lockAt)) = 0
  <2>1. UnixNano(t) = t
    BY <1>1 DEF UnixNano, ZeroTime, Time
  <2>2. t \in Time \cup {ZeroTime}
    OBVIOUS
  <2>3. QED
    BY <1>1, <1>7, <2>1, <2>2, ElapsedExact
<1>11. Duration(c, g) < 0 \/ ~(Wrap(t - UnixNano(g.lockAt)) > Duration(c, g))
    BY <1>9, <1>10
<1>12. QED
    BY <1>1, <1>2, <1>4, <1>8, <1>9, <1>11, ShapeRefused

(* What a step may do to the lock of a factor.                             *)
MayUnlock(k, a) ==
    \/ Elapsed(k, a, now')
    \/ ExplicitUnlock(k, a)
    \/ Restart /\ ~fileFresh

LEMMA UnchangedLimit ==
    ASSUME BeforeOverflow, TypeOK, TypeOK', NEW k \in Key, NEW a \in AuthTypes,
           Locked(k, a), limits'[k][a] = limits[k][a], ~Elapsed(k, a, now')
    PROVE  Locked(k, a)'
<1>1. limits[k][a] \in Limit /\ now \in Time /\ now' \in Time
    BY DEF TypeOK
<1>2. ~allow(Config[a], limits[k][a], now')
    BY <1>1, StillRefused DEF Locked, Elapsed
<1>3. QED
    BY <1>2 DEF Locked

LEMMA LockStep ==
    ASSUME BeforeOverflow, TablesLock, TypeOK, TypeOK', FreshInv,
           RestartKeepsLocks, Next, NEW k \in Key, NEW a \in AuthTypes,
           Locked(k, a), ~MayUnlock(k, a)
    PROVE  Locked(k, a)'
<1> USE DEF mem, files, threads
<1>1. ~Elapsed(k, a, now') /\ ~ExplicitUnlock(k, a) /\ (Restart => fileFresh)
    BY DEF MayUnlock
<1>2. limits[k][a] \in Limit /\ now \in Time
    BY DEF TypeOK
<1>3. limits'[k][a] = limits[k][a] => Locked(k, a)'
    BY <1>1, UnchangedLimit
<1>4. ASSUME limits'[k][a] = Refreshed(Config[a], limits[k][a], now), now' = now
      PROVE  Locked(k, a)'
    BY <1>2, <1>4, RefreshedRefused DEF Locked
<1>5. CASE SetClock
    BY <1>3, <1>5 DEF SetClock
<1>6. ASSUME NEW j \in Key, initLimitsByUsername(j) PROVE Locked(k, a)'
  <2>1. limits' = limits
    BY <1>6 DEF initLimitsByUsername, FreshInv, UnknownIsNew, TypeOK
  <2>2. QED
    BY <1>3, <2>1
<1>7. ASSUME NEW j \in Key, getLimits(j) PROVE Locked(k, a)'
  <2>1. /\ now' = now
        /\ limits'[k][a] \in {limits[k][a], Refreshed(Config[a], limits[k][a], now)}
    BY <1>7 DEF getLimits, TypeOK
  <2>2. QED
    BY <1>3, <1>4, <2>1
<1>8. ASSUME NEW j \in Key, NEW b \in AuthTypes, allowTx(j, b) PROVE Locked(k, a)'
  <2>1. /\ now' = now
        /\ limits'[k][a] \in {limits[k][a], Refreshed(Config[a], limits[k][a], now)}
    BY <1>8 DEF allowTx, TypeOK
  <2>2. QED
    BY <1>3, <1>4, <2>1
<1>9. ASSUME NEW t \in Threads, NEW j \in Key, NEW b \in AuthTypes, fail(t, j, b)
      PROVE  Locked(k, a)'
  <2>1. /\ now' = now
        /\ limits'[k][a] \in {limits[k][a], failed(Config[a], limits[k][a], now)}
    BY <1>9 DEF fail, Update, TypeOK
  <2>2. ~allow(Config[a], failed(Config[a], limits[k][a], now), now)
    BY <1>2, FailedRefused DEF Locked
  <2>3. QED
    BY <1>3, <2>1, <2>2 DEF Locked
<1>10. ASSUME NEW t \in Threads, NEW j \in Key, NEW b \in AuthTypes, success(t, j, b)
       PROVE  Locked(k, a)'
  <2>1. ~(j = k /\ b = a)
    BY <1>1, <1>10 DEF ExplicitUnlock
  <2>2. limits'[k][a] = limits[k][a]
    BY <1>10, <2>1 DEF success, Update, TypeOK
  <2>3. QED
    BY <1>3, <2>2
<1>11. ASSUME NEW t \in Threads, NEW j \in Key, resetLimits(t, j) PROVE Locked(k, a)'
  <2>1. j # k
    BY <1>1, <1>11 DEF ExplicitUnlock
  <2>2. limits'[k] = limits[k]
    BY <1>11, <2>1 DEF resetLimits, Update, TypeOK
  <2>3. QED
    BY <1>3, <2>2
<1>12. ASSUME NEW t \in Threads, NEW found \in SUBSET Users, userListChanged(t, found)
       PROVE  Locked(k, a)'
  <2>1. k[2] \in found
    <3>1. k[2] \notin found => found \in SUBSET (Users \ {k[2]})
      OBVIOUS
    <3>2. QED
      BY <1>1, <1>12, <3>1 DEF ExplicitUnlock
  <2>2. limits'[k] = limits[k]
    BY <1>12, <2>1 DEF userListChanged, Update
  <2>3. QED
    BY <1>3, <2>2
<1>13. ASSUME NEW t \in Threads,
              Snapshot(t) \/ SaveBegin(t) \/ SaveV1(t) \/ SaveOldBegin(t) \/ SaveOld(t)
       PROVE  Locked(k, a)'
  <2>1. limits' = limits
    BY <1>13 DEF Snapshot, SaveBegin, SaveV1, SaveOldBegin, SaveOld
  <2>2. QED
    BY <1>3, <2>1
<1>14. CASE Restart
  <2>1. now' = now /\ limits' = LoadedLimits(Loaded(v1, old))
    BY <1>14 DEF Restart
  <2>2. ~allow(Config[a], LoadedLimits(Loaded(v1, old))[k][a], now)
    BY <1>1, <1>14 DEF RestartKeepsLocks
  <2>3. QED
    BY <2>1, <2>2 DEF Locked
<1>15. QED
    BY <1>5, <1>6, <1>7, <1>8, <1>9, <1>10, <1>11, <1>12, <1>13, <1>14
    DEF Next, ThreadStep

(* A locked factor becomes usable only when its lock time is over, or by   *)
(* what is meant to unlock it: fail, allowTx, getLimits, the handler of    *)
(* the other users and the saves of all updaters never unlock it.          *)
THEOREM LimitsNoEarlyUnlock ==
    ASSUME BeforeOverflow, TablesLock
    PROVE  Spec => NoEarlyUnlock
<1>1. TypeOK /\ TypeOK' /\ FreshInv /\ RestartKeepsLocks /\ [Next]_vars =>
        [\A k \in Key, a \in AuthTypes :
            Locked(k, a) /\ ~(Locked(k, a))' =>
                \/ Elapsed(k, a, now')
                \/ ExplicitUnlock(k, a)
                \/ Restart /\ ~fileFresh]_vars
    BY LockStep DEF MayUnlock
<1>2. Spec => []RestartKeepsLocks
    BY LimitsRestartKeepsLocks
<1>3. QED
    BY <1>1, <1>2, LimitsTypeCorrect, FreshInvariant, PTL DEF Spec, NoEarlyUnlock
=============================================================================
