---------------------------- MODULE CacheHandler ----------------------------
(***************************************************************************)
(* One cache key of the cashcov Handler[T] (src/cache.go, src/helper.go,   *)
(* src/lock.go).  Keys never share a lock or a ledger entry, so one key    *)
(* with several concurrent goroutines is the unit of the per-key           *)
(* concurrency discipline.                                                 *)
(*                                                                         *)
(* Every caller goroutine c runs GetOrRefresh or Set; pc[c] is its place   *)
(* in the code.  The goroutines it spawns are modelled as two companion    *)
(* tasks: bpc[c] is the background refresh/write goroutine (go h.spawn...) *)
(* and lpc[c] the lock goroutine of missCooperativeRefresh.  A caller      *)
(* starts a new call only once its companions have exited.                 *)
(*                                                                         *)
(* The backend is one main entry and its ":stale" companion, each a value  *)
(* version with an absolute expiry tick.  Values are versions of the       *)
(* authoritative data: every generator call and every application Set     *)
(* produces the next version.  Time is a discrete clock.                   *)
(***************************************************************************)
EXTENDS Naturals, Sequences

CONSTANTS
    Callers,              \* goroutines calling the handler
    Policies,             \* miss policies the calls may use (defaults or overrides)
    TTL,                  \* effective ttl of every call, in ticks
    Cooldown,             \* config.refreshCooldown, in ticks (0: disabled)
    CoopTimeout,          \* config.cooperativeTimeout, in ticks
    StaleTTL,             \* config.staleDataTTL, in ticks
    DefaultThresholdPct,  \* config.defaultRefreshAheadThreshold, in percent
    CallThresholdPct,     \* callOpts.refreshAheadThreshold, in percent (0: unset)
    BetaPct,              \* effective probabilistic beta, in percent
    MaxTime,              \* bound on the clock
    MaxCalls,             \* bound on the number of calls of all callers
    BackendFaults,        \* may a backend command fail?
    GenFaults,            \* may the generator fail?
    AllowAppSet,          \* does the application call Handler.Set itself?
    NoEntry,              \* an absent backend key
    NoTime                \* an absent ledger entry

MissPolicies ==
    {"SyncWriteThenReturn", "ReturnThenAsyncWrite", "StaleWhileRevalidate",
     "FailFast", "RefreshAhead", "CooperativeRefresh", "BestEffort",
     "ProbabilisticRefresh"}

ASSUME ConstantsAssumption ==
    /\ Policies \subseteq MissPolicies
    /\ TTL \in Nat \ {0}
    /\ Cooldown \in Nat
    /\ CoopTimeout \in Nat
    /\ StaleTTL \in Nat \ {0}
    /\ DefaultThresholdPct \in 0..100
    /\ CallThresholdPct \in 0..100
    /\ BetaPct \in Nat \ {0}
    /\ MaxTime \in Nat
    /\ MaxCalls \in Nat
    /\ BackendFaults \in BOOLEAN
    /\ GenFaults \in BOOLEAN
    /\ AllowAppSet \in BOOLEAN
    /\ NoEntry \notin [val : Nat, exp : Nat]
    /\ NoTime \notin Nat

VARIABLES
    now,         \* the clock
    cache,       \* backend entry at fullKey(key)
    stale,       \* backend entry at fullKey(key + ":stale")
    lock,        \* occupancy of the key's channel in keyedMutex.locks
    lastRefresh, \* lastRefreshByKey[fullKey]
    created,     \* lastRefreshByKey[fullKey + "@created"]
    ver,         \* last version produced by a generator or the application
    calls,       \* calls started so far
    pc,          \* caller goroutines
    pol,         \* the call's effective miss policy
    gv,          \* the value the caller generated
    cstart,      \* when missCooperativeRefresh started waiting
    bpc,         \* background goroutine spawned by the caller
    bval,        \* the value it writes
    bwake,       \* when scheduleRefreshAhead wakes up
    lpc,         \* lock goroutine of missCooperativeRefresh
    done,        \* its done channel is closed
    refreshLog,  \* history: ticks of the writes of spawnBackgroundRefresh
    filled       \* history: the handler has written the main key

store == <<cache, stale, lastRefresh, created, refreshLog, filled>>
cvars == <<pc, pol, gv, cstart>>
bvars == <<bpc, bval, bwake>>
lvars == <<lpc, done>>
vars == <<now, lock, ver, calls, store, cvars, bvars, lvars>>

Entry == [val : Nat, exp : Nat]
CallerStates ==
    {"idle", "get", "ra_ttl", "sync_lock", "sync_check", "sync_gen",
     "sync_set", "async_gen", "swr_stale", "coop_wait", "coop_gen",
     "be_gen", "be_set"}
BgStates ==
    {"none", "mw_trylock", "mw_exists", "mw_set", "br_trylock", "br_gen",
     "br_set", "sr_trylock", "sr_gen", "sr_set", "sr_setstale", "ra_sleep",
     "ra_exists", "pr_created"}
LockerStates == {"none", "lg_lock", "lg_held"}

\* The places where a goroutine holds the key's lock.
CallerHolds == {"sync_check", "sync_gen", "sync_set"}
BgHolds == {"mw_exists", "mw_set", "br_gen", "br_set", "sr_gen", "sr_set",
            "sr_setstale"}

TypeOK ==
    /\ now \in 0..MaxTime
    /\ ver \in Nat
    /\ cache \in Entry \cup {NoEntry}
    /\ stale \in Entry \cup {NoEntry}
    /\ lock \in 0..1
    /\ lastRefresh \in 0..MaxTime \cup {NoTime}
    /\ created \in 0..MaxTime \cup {NoTime}
    /\ calls \in 0..MaxCalls
    /\ pc \in [Callers -> CallerStates]
    /\ pol \in [Callers -> MissPolicies]
    /\ gv \in [Callers -> Nat]
    /\ cstart \in [Callers -> 0..MaxTime]
    /\ bpc \in [Callers -> BgStates]
    /\ bval \in [Callers -> Nat]
    /\ bwake \in [Callers -> Nat]
    /\ lpc \in [Callers -> LockerStates]
    /\ done \in [Callers -> BOOLEAN]
    /\ refreshLog \in Seq(0..MaxTime)
    /\ filled \in BOOLEAN

-----------------------------------------------------------------------------
(* Helpers.                                                                *)

\* A backend read sees the entry only before its expiry.
Live(e) == e # NoEntry /\ now < e.exp

\* Outcomes of a backend command and of a generator call (TRUE: success).
Backend == IF BackendFaults THEN BOOLEAN ELSE {TRUE}
Generated == IF GenFaults THEN BOOLEAN ELSE {TRUE}

\* shouldRefreshNow(fullKey)
ShouldRefreshNow ==
    \/ Cooldown = 0
    \/ lastRefresh = NoTime
    \/ lastRefresh # NoTime /\ now - lastRefresh >= Cooldown

\* Handler.Set after a successful rdb.Set: the write and setLastRefreshNow.
SetMain(v) ==
    /\ cache' = [val |-> v, exp |-> now + TTL]
    /\ lastRefresh' = IF Cooldown = 0 THEN lastRefresh ELSE now
    /\ filled' = TRUE

\* The effective refresh-ahead threshold: a call-level 0 is "unset".
Threshold == IF CallThresholdPct = 0 THEN DefaultThresholdPct ELSE CallThresholdPct

\* scheduleRefreshAhead: time.Duration(float64(ttl) * (1.0 - threshold))
AheadDelay == (TTL * (100 - Threshold)) \div 100

\* shouldProbabilisticRefresh: rand.Float64() < (age / ttl) * beta.
ProbOutcomes ==
    IF created = NoTime THEN {FALSE}
    ELSE LET weight == (now - created) * BetaPct   \* p * 100 * TTL
         IN  IF weight >= 100 * TTL THEN {TRUE}
             ELSE IF weight = 0 THEN {FALSE}
             ELSE BOOLEAN

\* The caller's background goroutine starts at place s.
Spawn(c, s) == bpc' = [bpc EXCEPT ![c] = s]

\* The caller returns from GetOrRefresh; its locals go out of scope.
Return(c) ==
    /\ pc' = [pc EXCEPT ![c] = "idle"]
    /\ gv' = [gv EXCEPT ![c] = 0]
    /\ cstart' = [cstart EXCEPT ![c] = 0]

\* The background goroutine exits; its locals go out of scope.
Exit(c) ==
    /\ bpc' = [bpc EXCEPT ![c] = "none"]
    /\ bval' = [bval EXCEPT ![c] = 0]
    /\ bwake' = [bwake EXCEPT ![c] = 0]

\* A new version produced by a generator call.
NextVersion == ver' = ver + 1

-----------------------------------------------------------------------------
(* Initial state: a fresh Handler; the backend may already hold the key    *)
(* and its stale companion (written by an earlier process).               *)

Init ==
    /\ now = 0
    /\ ver = 0
    /\ cache \in {NoEntry, [val |-> 0, exp |-> TTL]}
    /\ stale \in {NoEntry, [val |-> 0, exp |-> StaleTTL]}
    /\ lock = 0
    /\ lastRefresh = NoTime
    /\ created = NoTime
    /\ calls = 0
    /\ pc = [c \in Callers |-> "idle"]
    /\ pol = [c \in Callers |-> "SyncWriteThenReturn"]
    /\ gv = [c \in Callers |-> 0]
    /\ cstart = [c \in Callers |-> 0]
    /\ bpc = [c \in Callers |-> "none"]
    /\ bval = [c \in Callers |-> 0]
    /\ bwake = [c \in Callers |-> 0]
    /\ lpc = [c \in Callers |-> "none"]
    /\ done = [c \in Callers |-> FALSE]
    /\ refreshLog = <<>>
    /\ filled = FALSE


-----------------------------------------------------------------------------
(* Handler.Set, with the outcome of rdb.Set; an error leaves the key and  *)
(* the ledger as they were.                                                *)

HandlerSet(v) ==
    \E ok \in Backend :
        \/ ok /\ SetMain(v)
        \/ ~ok /\ UNCHANGED <<cache, lastRefresh, filled>>

(* The application calls Set(ctx, key, value) with fresh data.             *)
AppSet(c) ==
    /\ AllowAppSet
    /\ pc[c] = "idle"
    /\ calls < MaxCalls
    /\ calls' = calls + 1
    /\ NextVersion
    /\ HandlerSet(ver + 1)
    /\ UNCHANGED <<now, lock, stale, created, refreshLog, cvars, bvars, lvars>>

-----------------------------------------------------------------------------
(* GetOrRefresh: option resolution, the first Get and the dispatch.        *)

Start(c) ==
    /\ pc[c] = "idle"
    /\ bpc[c] = "none"
    /\ lpc[c] = "none"
    /\ calls < MaxCalls
    /\ calls' = calls + 1
    /\ \E p \in Policies : pol' = [pol EXCEPT ![c] = p]
    /\ pc' = [pc EXCEPT ![c] = "get"]
    /\ done' = [done EXCEPT ![c] = FALSE]
    /\ UNCHANGED <<now, lock, ver, store, gv, cstart, bvars, lpc>>

\* Where each miss handler starts.
MissEntry(p) ==
    CASE p \in {"SyncWriteThenReturn", "RefreshAhead",
                "ProbabilisticRefresh"}  -> "sync_lock"
      [] p = "ReturnThenAsyncWrite"      -> "async_gen"
      [] p = "StaleWhileRevalidate"      -> "swr_stale"
      [] p = "FailFast"                  -> "idle"
      [] p = "CooperativeRefresh"        -> "coop_wait"
      [] p = "BestEffort"                -> "be_gen"

\* handleHitRefresh, or no refresh under WithoutBackgroundRefresh.
HitRefresh(c) ==
    \/ /\ Return(c)
       /\ UNCHANGED <<bpc, lvars>>
    \/ /\ pol[c] = "RefreshAhead"
       /\ pc' = [pc EXCEPT ![c] = "ra_ttl"]
       /\ UNCHANGED <<gv, cstart, bpc, lvars>>
    \/ /\ pol[c] = "ProbabilisticRefresh"
       /\ Return(c)
       /\ \E fire \in ProbOutcomes :
             Spawn(c, IF fire THEN "br_trylock" ELSE "none")
       /\ UNCHANGED lvars
    \/ /\ pol[c] \notin {"RefreshAhead", "ProbabilisticRefresh"}
       /\ Return(c)
       /\ Spawn(c, IF ShouldRefreshNow THEN "br_trylock" ELSE "none")
       /\ UNCHANGED lvars

\* The switch on missPolicy; missCooperativeRefresh starts its lock goroutine.
MissDispatch(c) ==
    \/ /\ pol[c] # "CooperativeRefresh"
       /\ pc' = [pc EXCEPT ![c] = MissEntry(pol[c])]
       /\ UNCHANGED <<gv, cstart, bpc, lvars>>
    \/ /\ pol[c] = "CooperativeRefresh"
       /\ pc' = [pc EXCEPT ![c] = "coop_wait"]
       /\ lpc' = [lpc EXCEPT ![c] = "lg_lock"]
       /\ done' = [done EXCEPT ![c] = FALSE]
       /\ cstart' = [cstart EXCEPT ![c] = now]
       /\ UNCHANGED <<gv, bpc>>

Lookup(c) ==
    /\ pc[c] = "get"
    /\ \E ok \in Backend :
          \/ /\ ~ok
             /\ Return(c)
             /\ UNCHANGED <<bpc, lvars>>
          \/ ok /\ Live(cache) /\ HitRefresh(c)
          \/ ok /\ ~Live(cache) /\ MissDispatch(c)
    /\ UNCHANGED <<now, lock, ver, calls, store, pol, bval, bwake>>

\* shouldRefreshAhead: the TTL probe and the remaining-ratio test.
HitTTLProbe(c) ==
    /\ pc[c] = "ra_ttl"
    /\ \E ok \in Backend :
          LET fire == /\ ok
                      /\ Live(cache)
                      /\ (cache.exp - now) * 100 <= Threshold * TTL
          IN  Spawn(c, IF fire THEN "br_trylock" ELSE "none")
    /\ Return(c)
    /\ UNCHANGED <<now, lock, ver, calls, store, pol, bval, bwake, lvars>>

-----------------------------------------------------------------------------
(* missSyncWriteThenReturn: lock, double-check, generate, write.  It is   *)
(* also the body of RefreshAhead and ProbabilisticRefresh misses, and the  *)
(* fallback of StaleWhileRevalidate and CooperativeRefresh.               *)

\* A successful return (the deferred unlock runs), then the rest of the
\* policy's miss handler: missRefreshAhead starts scheduleRefreshAhead,
\* missProbabilisticRefresh starts enableProbabilisticRefresh.
SyncReturned(c) ==
    /\ lock' = 0
    /\ Return(c)
    /\ \/ /\ pol[c] = "RefreshAhead"
          /\ Spawn(c, "ra_sleep")
          /\ bwake' = [bwake EXCEPT ![c] = now + AheadDelay]
       \/ /\ pol[c] = "ProbabilisticRefresh"
          /\ Spawn(c, "pr_created")
          /\ UNCHANGED bwake
       \/ /\ pol[c] \notin {"RefreshAhead", "ProbabilisticRefresh"}
          /\ UNCHANGED <<bpc, bwake>>

\* An error return: the deferred unlock runs and nothing is spawned.
SyncFailed(c) ==
    /\ lock' = 0
    /\ Return(c)
    /\ UNCHANGED <<bpc, bwake>>

\* Mutant: the lock channel given capacity 2 (a counter that never blocks).
SyncLockUnbounded(c) ==
    /\ pc[c] = "sync_lock"
    /\ lock' = lock + 1
    /\ pc' = [pc EXCEPT ![c] = "sync_check"]
    /\ UNCHANGED <<now, ver, calls, store, pol, gv, cstart, bvars, lvars>>

SyncLock(c) ==
    /\ pc[c] = "sync_lock"
    /\ lock = 0
    /\ lock' = 1
    /\ pc' = [pc EXCEPT ![c] = "sync_check"]
    /\ UNCHANGED <<now, ver, calls, store, pol, gv, cstart, bvars, lvars>>

\* Mutant: the double-check under the lock left out.
SyncCheckNoRecheck(c) ==
    /\ pc[c] = "sync_check"
    /\ \E ok \in Backend :
          \/ ~ok /\ SyncFailed(c)
          \/ /\ ok
             /\ pc' = [pc EXCEPT ![c] = "sync_gen"]
             /\ UNCHANGED <<lock, gv, cstart, bpc, bwake>>
    /\ UNCHANGED <<now, ver, calls, store, pol, bval, lvars>>

SyncCheck(c) ==
    /\ pc[c] = "sync_check"
    /\ \E ok \in Backend :
          \/ ~ok /\ SyncFailed(c)
          \/ ok /\ Live(cache) /\ SyncReturned(c)
          \/ /\ ok /\ ~Live(cache)
             /\ pc' = [pc EXCEPT ![c] = "sync_gen"]
             /\ UNCHANGED <<lock, gv, cstart, bpc, bwake>>
    /\ UNCHANGED <<now, ver, calls, store, pol, bval, lvars>>

SyncGen(c) ==
    /\ pc[c] = "sync_gen"
    /\ \E ok \in Generated :
          \/ /\ ok
             /\ NextVersion
             /\ gv' = [gv EXCEPT ![c] = ver + 1]
             /\ pc' = [pc EXCEPT ![c] = "sync_set"]
             /\ UNCHANGED <<lock, cstart, bpc, bwake>>
          \/ ~ok /\ SyncFailed(c) /\ UNCHANGED ver
    /\ UNCHANGED <<now, calls, store, pol, bval, lvars>>

SyncSet(c) ==
    /\ pc[c] = "sync_set"
    /\ \E ok \in Backend :
          \/ ok /\ SetMain(gv[c]) /\ SyncReturned(c)
          \/ ~ok /\ SyncFailed(c) /\ UNCHANGED <<cache, lastRefresh, filled>>
    /\ UNCHANGED <<now, ver, calls, stale, created, refreshLog, pol, bval, lvars>>

-----------------------------------------------------------------------------
(* The other miss handlers.                                                *)

\* missReturnThenAsyncWrite: generate, return, write in the background.
AsyncGen(c) ==
    /\ pc[c] = "async_gen"
    /\ \E ok \in Generated :
          \/ /\ ok
             /\ NextVersion
             /\ bval' = [bval EXCEPT ![c] = ver + 1]
             /\ Spawn(c, "mw_trylock")
          \/ ~ok /\ UNCHANGED <<ver, bpc, bval>>
    /\ Return(c)
    /\ UNCHANGED <<now, lock, calls, store, pol, bwake, lvars>>

\* missStaleWhileRevalidate: the bounded read of the stale companion.
SwrStale(c) ==
    /\ pc[c] = "swr_stale"
    /\ \E ok \in Backend :
          \/ /\ ok /\ Live(stale)
             /\ Return(c)
             /\ Spawn(c, "sr_trylock")
          \/ /\ ~ok \/ ~Live(stale)
             /\ pc' = [pc EXCEPT ![c] = "sync_lock"]
             /\ UNCHANGED <<gv, cstart, bpc>>
    /\ UNCHANGED <<now, lock, ver, calls, store, pol, bval, bwake, lvars>>

\* missCooperativeRefresh: the select between lockCtx.Done() and done.
\* Go picks at random among the ready cases.
CoopSelect(c) ==
    /\ pc[c] = "coop_wait"
    /\ \/ /\ now >= cstart[c] + CoopTimeout
          /\ pc' = [pc EXCEPT ![c] = "coop_gen"]
       \/ /\ done[c]
          /\ pc' = [pc EXCEPT ![c] = "sync_lock"]
    /\ UNCHANGED <<now, lock, ver, calls, store, pol, gv, cstart, bvars, lvars>>

\* The timeout case: generate and return without writing.
CoopGen(c) ==
    /\ pc[c] = "coop_gen"
    /\ \E ok \in Generated : IF ok THEN NextVersion ELSE UNCHANGED ver
    /\ Return(c)
    /\ UNCHANGED <<now, lock, calls, store, pol, bvars, lvars>>

\* missBestEffort: generate; a generator error returns the zero value.
BestEffortGen(c) ==
    /\ pc[c] = "be_gen"
    /\ \E ok \in Generated :
          \/ /\ ok
             /\ NextVersion
             /\ gv' = [gv EXCEPT ![c] = ver + 1]
             /\ pc' = [pc EXCEPT ![c] = "be_set"]
             /\ UNCHANGED cstart
          \/ ~ok /\ Return(c) /\ UNCHANGED ver
    /\ UNCHANGED <<now, lock, calls, store, pol, bvars, lvars>>

\* The unlocked write; its error is ignored.
BestEffortSet(c) ==
    /\ pc[c] = "be_set"
    /\ HandlerSet(gv[c])
    /\ Return(c)
    /\ UNCHANGED <<now, lock, ver, calls, stale, created, refreshLog, pol,
                   bvars, lvars>>

\* The lock goroutine of missCooperativeRefresh: Lock, close(done), unlock.
LockerAcquire(c) ==
    /\ lpc[c] = "lg_lock"
    /\ lock = 0
    /\ lock' = 1
    /\ lpc' = [lpc EXCEPT ![c] = "lg_held"]
    /\ done' = [done EXCEPT ![c] = TRUE]
    /\ UNCHANGED <<now, ver, calls, store, cvars, bvars>>

\* Mutant: the deferred unlock of the lock goroutine left out.
LockerReleaseNoUnlock(c) ==
    /\ lpc[c] = "lg_held"
    /\ lpc' = [lpc EXCEPT ![c] = "none"]
    /\ UNCHANGED <<now, lock, ver, calls, store, cvars, bvars, done>>

LockerRelease(c) ==
    /\ lpc[c] = "lg_held"
    /\ lock' = 0
    /\ lpc' = [lpc EXCEPT ![c] = "none"]
    /\ UNCHANGED <<now, ver, calls, store, cvars, bvars, done>>

-----------------------------------------------------------------------------
(* Background goroutines.  Each runs on its own context; its errors are   *)
(* swallowed; the deferred unlock runs on every exit after a TryLock.      *)

\* spawnBackgroundMissWrite: TryLock, Exists, Set if still absent.
\* Mutant: a failed TryLock hands back the real releaser, as Lock does.
MissWriteTryLockReleases(c) ==
    /\ bpc[c] = "mw_trylock"
    /\ \/ lock = 1 /\ Exit(c) /\ lock' = 0
       \/ lock = 0 /\ lock' = 1 /\ Spawn(c, "mw_exists") /\ UNCHANGED <<bval, bwake>>
    /\ UNCHANGED <<now, ver, calls, store, cvars, lvars>>

MissWriteTryLock(c) ==
    /\ bpc[c] = "mw_trylock"
    /\ \/ lock = 1 /\ Exit(c) /\ UNCHANGED lock
       \/ lock = 0 /\ lock' = 1 /\ Spawn(c, "mw_exists") /\ UNCHANGED <<bval, bwake>>
    /\ UNCHANGED <<now, ver, calls, store, cvars, lvars>>

\* Mutant: the Exists result ignored; the write happens whenever Exists succeeds.
MissWriteExistsIgnored(c) ==
    /\ bpc[c] = "mw_exists"
    /\ \E ok \in Backend :
          \/ ~ok /\ lock' = 0 /\ Exit(c)
          \/ ok /\ Spawn(c, "mw_set") /\ UNCHANGED <<lock, bval, bwake>>
    /\ UNCHANGED <<now, ver, calls, store, cvars, lvars>>

MissWriteExists(c) ==
    /\ bpc[c] = "mw_exists"
    /\ \E ok \in Backend :
          \/ /\ ~ok \/ Live(cache)
             /\ lock' = 0
             /\ Exit(c)
          \/ /\ ok /\ ~Live(cache)
             /\ Spawn(c, "mw_set")
             /\ UNCHANGED <<lock, bval, bwake>>
    /\ UNCHANGED <<now, ver, calls, store, cvars, lvars>>

MissWriteSet(c) ==
    /\ bpc[c] = "mw_set"
    /\ HandlerSet(bval[c])
    /\ lock' = 0
    /\ Exit(c)
    /\ UNCHANGED <<now, ver, calls, stale, created, refreshLog, cvars, lvars>>

\* spawnBackgroundRefresh: TryLock, then the cooldown check under the lock.
\* Mutant: the cooldown recheck under the lock left out.
RefreshTryLockNoRecheck(c) ==
    /\ bpc[c] = "br_trylock"
    /\ \/ lock = 1 /\ Exit(c) /\ UNCHANGED lock
       \/ lock = 0 /\ lock' = 1 /\ Spawn(c, "br_gen") /\ UNCHANGED <<bval, bwake>>
    /\ UNCHANGED <<now, ver, calls, store, cvars, lvars>>

RefreshTryLock(c) ==
    /\ bpc[c] = "br_trylock"
    /\ \/ lock = 1 /\ Exit(c) /\ UNCHANGED lock
       \/ lock = 0 /\ ~ShouldRefreshNow /\ Exit(c) /\ UNCHANGED lock
       \/ /\ lock = 0 /\ ShouldRefreshNow
          /\ lock' = 1
          /\ Spawn(c, "br_gen")
          /\ UNCHANGED <<bval, bwake>>
    /\ UNCHANGED <<now, ver, calls, store, cvars, lvars>>

RefreshGen(c) ==
    /\ bpc[c] = "br_gen"
    /\ \E ok \in Generated :
          \/ /\ ok
             /\ NextVersion
             /\ bval' = [bval EXCEPT ![c] = ver + 1]
             /\ Spawn(c, "br_set")
             /\ UNCHANGED <<lock, bwake>>
          \/ ~ok /\ lock' = 0 /\ Exit(c) /\ UNCHANGED ver
    /\ UNCHANGED <<now, calls, store, cvars, lvars>>

RefreshSet(c) ==
    /\ bpc[c] = "br_set"
    /\ \E ok \in Backend :
          \/ ok /\ SetMain(bval[c]) /\ refreshLog' = Append(refreshLog, now)
          \/ ~ok /\ UNCHANGED <<cache, lastRefresh, filled, refreshLog>>
    /\ lock' = 0
    /\ Exit(c)
    /\ UNCHANGED <<now, ver, calls, stale, created, cvars, lvars>>

\* spawnStaleRefresh: TryLock, generate, write the main and stale keys.
StaleTryLock(c) ==
    /\ bpc[c] = "sr_trylock"
    /\ \/ lock = 1 /\ Exit(c) /\ UNCHANGED lock
       \/ lock = 0 /\ lock' = 1 /\ Spawn(c, "sr_gen") /\ UNCHANGED <<bval, bwake>>
    /\ UNCHANGED <<now, ver, calls, store, cvars, lvars>>

StaleGen(c) ==
    /\ bpc[c] = "sr_gen"
    /\ \E ok \in Generated :
          \/ /\ ok
             /\ NextVersion
             /\ bval' = [bval EXCEPT ![c] = ver + 1]
             /\ Spawn(c, "sr_set")
             /\ UNCHANGED <<lock, bwake>>
          \/ ~ok /\ lock' = 0 /\ Exit(c) /\ UNCHANGED ver
    /\ UNCHANGED <<now, calls, store, cvars, lvars>>

StaleSetMain(c) ==
    /\ bpc[c] = "sr_set"
    /\ HandlerSet(bval[c])
    /\ Spawn(c, "sr_setstale")
    /\ UNCHANGED <<now, lock, ver, calls, stale, created, refreshLog, cvars,
                   bval, bwake, lvars>>

\* setToKey(staleKey, v, staleDataTTL)
StaleSetStale(c) ==
    /\ bpc[c] = "sr_setstale"
    /\ \E ok \in Backend :
          \/ ok /\ stale' = [val |-> bval[c], exp |-> now + StaleTTL]
          \/ ~ok /\ UNCHANGED stale
    /\ lock' = 0
    /\ Exit(c)
    /\ UNCHANGED <<now, ver, calls, cache, lastRefresh, created, refreshLog,
                   filled, cvars, lvars>>

\* scheduleRefreshAhead: sleep, Exists, then spawnBackgroundRefresh inline.
AheadWake(c) ==
    /\ bpc[c] = "ra_sleep"
    /\ now >= bwake[c]
    /\ Spawn(c, "ra_exists")
    /\ bwake' = [bwake EXCEPT ![c] = 0]
    /\ UNCHANGED <<now, lock, ver, calls, store, cvars, bval, lvars>>

AheadExists(c) ==
    /\ bpc[c] = "ra_exists"
    /\ \E ok \in Backend :
          \/ ok /\ Live(cache) /\ Spawn(c, "br_trylock") /\ UNCHANGED <<bval, bwake>>
          \/ (~ok \/ ~Live(cache)) /\ Exit(c)
    /\ UNCHANGED <<now, lock, ver, calls, store, cvars, lvars>>

\* enableProbabilisticRefresh: record the @created stamp.
ProbCreated(c) ==
    /\ bpc[c] = "pr_created"
    /\ created' = now
    /\ Exit(c)
    /\ UNCHANGED <<now, lock, ver, calls, cache, stale, lastRefresh, refreshLog,
                   filled, cvars, lvars>>

-----------------------------------------------------------------------------
(* The clock, and the end of a bounded run.                                *)

Tick ==
    /\ now < MaxTime
    /\ now' = now + 1
    /\ UNCHANGED <<lock, ver, calls, store, cvars, bvars, lvars>>

\* The clock has reached its bound and every task has returned, or sleeps
\* past the bound in scheduleRefreshAhead.
Finished ==
    /\ now = MaxTime
    /\ \A c \in Callers :
          /\ pc[c] = "idle"
          /\ lpc[c] = "none"
          /\ bpc[c] \in {"none", "ra_sleep"}
    /\ UNCHANGED vars

Caller(c) ==
    \/ Start(c) \/ AppSet(c) \/ Lookup(c) \/ HitTTLProbe(c)
    \/ SyncLock(c) \/ SyncCheck(c) \/ SyncGen(c) \/ SyncSet(c)
    \/ AsyncGen(c) \/ SwrStale(c) \/ CoopSelect(c) \/ CoopGen(c)
    \/ BestEffortGen(c) \/ BestEffortSet(c)

Background(c) ==
    \/ MissWriteTryLock(c) \/ MissWriteExists(c) \/ MissWriteSet(c)
    \/ RefreshTryLock(c) \/ RefreshGen(c) \/ RefreshSet(c)
    \/ StaleTryLock(c) \/ StaleGen(c) \/ StaleSetMain(c) \/ StaleSetStale(c)
    \/ AheadWake(c) \/ AheadExists(c) \/ ProbCreated(c)

Locker(c) == LockerAcquire(c) \/ LockerRelease(c)

Next ==
    \/ Tick
    \/ \E c \in Callers : Caller(c) \/ Background(c) \/ Locker(c)
    \/ Finished

Spec == Init /\ [][Next]_vars

(* Fairness.  The Go scheduler eventually runs every runnable goroutine,  *)
(* and the clock keeps moving: every step of a call after Start, of its   *)
(* background goroutine and the clock are weakly fair.  A goroutine       *)
(* blocked in Lock waits in the channel's FIFO queue of senders, so Lock  *)
(* succeeds if the key is free infinitely often: strong fairness.         *)
(* Starting a call (Start, AppSet) is the application's choice: not fair. *)
CallerStep(c) ==
    \/ Lookup(c) \/ HitTTLProbe(c) \/ SyncCheck(c) \/ SyncGen(c)
    \/ SyncSet(c) \/ AsyncGen(c) \/ SwrStale(c) \/ CoopSelect(c)
    \/ CoopGen(c) \/ BestEffortGen(c) \/ BestEffortSet(c)

Fairness ==
    /\ WF_vars(Tick)
    /\ \A c \in Callers :
          /\ WF_vars(CallerStep(c))
          /\ SF_vars(SyncLock(c))
          /\ WF_vars(Background(c))
          /\ SF_vars(LockerAcquire(c))
          /\ WF_vars(LockerRelease(c))

LiveSpec == Spec /\ Fairness

-----------------------------------------------------------------------------
(* Properties.                                                             *)

\* The three kinds of goroutine a call starts: the caller itself, its
\* background goroutine and the lock goroutine of missCooperativeRefresh.
Kinds == {"caller", "bg", "locker"}

\* Goroutine k of caller c holds the key's lock.
Holds(c, k) ==
    \/ k = "caller" /\ pc[c] \in CallerHolds
    \/ k = "bg" /\ bpc[c] \in BgHolds
    \/ k = "locker" /\ lpc[c] = "lg_held"

(* keyedMutex (Lock, TryLock and the releasers of every handler): at most *)
(* one goroutine is inside the key's critical section, and the channel is  *)
(* full exactly when one is.                                               *)
LockExclusive ==
    /\ \A c, d \in Callers, k, l \in Kinds :
          Holds(c, k) /\ Holds(d, l) => c = d /\ k = l
    /\ lock = 1 <=> \E c \in Callers, k \in Kinds : Holds(c, k)

\* A call starts its background goroutine only as it returns, and its lock
\* goroutine only from the miss dispatch after the first Get.
CompanionsScoped ==
    \A c \in Callers :
        /\ pc[c] # "idle" => bpc[c] = "none"
        /\ pc[c] = "get" => lpc[c] = "none"

(* The inductive form of LockExclusive proved in CacheHandlerProofs: the  *)
(* types, mutual exclusion on the key, and the scoping of the goroutines   *)
(* a call starts (a goroutine is never started over a running one of the  *)
(* same call, so no holder of the lock is lost without its unlock).        *)
LockInv == TypeOK /\ LockExclusive /\ CompanionsScoped

\* Every value a goroutine holds or the key stores is a version already
\* produced: NextVersion is the only source of values.
VersionsBounded ==
    /\ cache # NoEntry => cache.val <= ver
    /\ \A c \in Callers : gv[c] <= ver /\ bval[c] <= ver

\* A call runs the miss handler of the policy it resolved in Start.
PolicyScoped ==
    \A c \in Callers :
        /\ pc[c] # "idle" => pol[c] \in Policies
        /\ pc[c] \in {"be_gen", "be_set"} => pol[c] = "BestEffort"

\* What a lock holder that is about to write knows of the key: the sync
\* path and the background miss write saw it absent, and a refresh holds
\* a version newer than the stored one.
WriterKnows ==
    \A c \in Callers :
        /\ pc[c] \in {"sync_gen", "sync_set"} => ~Live(cache)
        /\ bpc[c] = "mw_set" => ~Live(cache)
        /\ bpc[c] \in {"br_set", "sr_set"} /\ cache # NoEntry =>
               cache.val < bval[c]

(* The inductive invariant of the writes under the lock, proved in        *)
(* CacheHandlerWriteProofs when only locked writers exist.                *)
WriteInv == LockInv /\ VersionsBounded /\ PolicyScoped /\ WriterKnows

\* A goroutine of caller c is still running: the call itself, its lock
\* goroutine, or a background goroutine that is not asleep in
\* scheduleRefreshAhead (whose wake-up may lie past the clock's bound).
Busy(c) ==
    \/ pc[c] # "idle"
    \/ lpc[c] # "none"
    \/ bpc[c] \notin {"none", "ra_sleep"}

(* No goroutine waits forever on the key: every GetOrRefresh returns,     *)
(* every lock goroutine of missCooperativeRefresh (whose Lock has no      *)
(* context) gets the lock and unlocks it, and every background goroutine *)
(* exits, although they all contend for one lock.                         *)
EveryTaskReturns == \A c \in Callers : Busy(c) ~> ~Busy(c)

(* Single flight of missSyncWriteThenReturn: a caller that is about to    *)
(* write the value it generated under the lock finds the key absent, so   *)
(* no caller regenerates a value another caller has already written.      *)
SyncWriteIntoAbsent ==
    \A c \in Callers : pc[c] = "sync_set" => ~Live(cache)

(* refreshCooldown on the hit path: two writes of spawnBackgroundRefresh  *)
(* (after a hit or from scheduleRefreshAhead) are at least Cooldown apart, *)
(* although every hit checks shouldRefreshNow outside the lock.            *)
RefreshCooldownRespected ==
    \A i, j \in 1..Len(refreshLog) :
        i < j => refreshLog[j] - refreshLog[i] >= Cooldown

\* The goroutines of spawnBackgroundRefresh past their cooldown check.
RefreshHolders == {c \in Callers : bpc[c] \in {"br_gen", "br_set"}}

\* What the ledger says of the refreshes written so far: none lies in the
\* future, setLastRefreshNow stamped each of them (when the cooldown is
\* on), and a refresh past its check under the lock is Cooldown after all.
CooldownKnown ==
    /\ \A i \in 1..Len(refreshLog) : refreshLog[i] <= now
    /\ Cooldown > 0 /\ refreshLog # <<>> =>
          /\ lastRefresh # NoTime
          /\ \A i \in 1..Len(refreshLog) : refreshLog[i] <= lastRefresh
    /\ \A c \in RefreshHolders :
          \A i \in 1..Len(refreshLog) : now - refreshLog[i] >= Cooldown

(* The inductive form of RefreshCooldownRespected proved in               *)
(* CacheHandlerCooldownProofs.                                             *)
CooldownInv == LockInv /\ RefreshCooldownRespected /\ CooldownKnown

(* No write replaces a live entry by an older version of the data: the    *)
(* handlers that write hold the key's lock and generate under it, and the *)
(* background miss write only fills an absent key.                        *)
NoVersionRegression ==
    [][Live(cache) /\ cache' # cache => cache'.val > cache.val]_cache

-----------------------------------------------------------------------------
(* Statements of the spec and the documentation that the code does not    *)
(* meet; their runs expect a violation.                                    *)

(* spec.md section 8: "In CooperativeRefresh with the cooperative timeout *)
(* set to 0, every caller falls through to direct generation": no         *)
(* CooperativeRefresh miss of missCooperativeRefresh takes the lock path. *)
CoopZeroTimeoutFallsBack ==
    CoopTimeout = 0 =>
        \A c \in Callers :
            pol[c] = "CooperativeRefresh" =>
                pc[c] \notin {"sync_lock"} \cup CallerHolds

(* README.policies.md, StaleWhileRevalidate flow: once the handler has    *)
(* filled the key and the entry has expired, a miss within the stale      *)
(* window finds the stale companion that missStaleWhileRevalidate reads.  *)
StaleServedAfterExpiry ==
    \A c \in Callers :
        pc[c] = "swr_stale" /\ filled /\ ~Live(cache) => Live(stale)

=============================================================================
