-------------------- MODULE CacheHandlerCooldownProofs ---------------------
(* Proof that the background refreshes of spawnBackgroundRefresh respect  *)
(* refreshCooldown (RefreshCooldownRespected) for every value of the      *)
(* constants: with application Sets, every policy and any faults.         *)
EXTENDS CacheHandlerProofs

\* The places of spawnBackgroundRefresh after its cooldown check.
BrHold == {"br_gen", "br_set"}

\* A step that neither moves the clock nor logs a refresh, stamps the
\* ledger at most with the current time, and lets no goroutine past the
\* cooldown check.
Quiet ==
    /\ now' = now /\ refreshLog' = refreshLog
    /\ lastRefresh' \in {lastRefresh, now}
    /\ \A d \in Callers : bpc'[d] \in BrHold => bpc[d] \in BrHold

-----------------------------------------------------------------------------
(* Every step but the clock, the cooldown check and the refresh write is  *)
(* quiet.                                                                  *)

LEMMA StartQuiet ==
    ASSUME TypeOK, NEW c \in Callers, Start(c) PROVE Quiet
  <1>1. now' = now /\ refreshLog' = refreshLog /\ lastRefresh' \in {lastRefresh, now}
    BY OutcomeSets DEF Start, Return, Exit, Spawn, NextVersion, SyncReturned, SyncFailed, HitRefresh, MissDispatch, HandlerSet, SetMain, store, cvars, bvars, lvars
  <1>2. \A d \in Callers : bpc'[d] \in BrHold => bpc[d] \in BrHold
    BY OutcomeSets DEF Start, Return, Exit, Spawn, NextVersion, SyncReturned, SyncFailed, HitRefresh, MissDispatch, HandlerSet, SetMain, store, cvars, bvars, lvars, TypeOK, BrHold
  <1>3. QED
    BY <1>1, <1>2 DEF Quiet

LEMMA AppSetQuiet ==
    ASSUME TypeOK, NEW c \in Callers, AppSet(c) PROVE Quiet
  <1>1. now' = now /\ refreshLog' = refreshLog /\ lastRefresh' \in {lastRefresh, now}
    BY OutcomeSets DEF AppSet, Return, Exit, Spawn, NextVersion, SyncReturned, SyncFailed, HitRefresh, MissDispatch, HandlerSet, SetMain, store, cvars, bvars, lvars
  <1>2. \A d \in Callers : bpc'[d] \in BrHold => bpc[d] \in BrHold
    BY OutcomeSets DEF AppSet, Return, Exit, Spawn, NextVersion, SyncReturned, SyncFailed, HitRefresh, MissDispatch, HandlerSet, SetMain, store, cvars, bvars, lvars, TypeOK, BrHold
  <1>3. QED
    BY <1>1, <1>2 DEF Quiet

LEMMA LookupQuiet ==
    ASSUME TypeOK, NEW c \in Callers, Lookup(c) PROVE Quiet
  <1>1. now' = now /\ refreshLog' = refreshLog /\ lastRefresh' \in {lastRefresh, now}
    BY OutcomeSets DEF Lookup, Return, Exit, Spawn, NextVersion, SyncReturned, SyncFailed, HitRefresh, MissDispatch, HandlerSet, SetMain, store, cvars, bvars, lvars
  <1>2. \A d \in Callers : bpc'[d] \in BrHold => bpc[d] \in BrHold
    BY OutcomeSets DEF Lookup, Return, Exit, Spawn, NextVersion, SyncReturned, SyncFailed, HitRefresh, MissDispatch, HandlerSet, SetMain, store, cvars, bvars, lvars, TypeOK, BrHold
  <1>3. QED
    BY <1>1, <1>2 DEF Quiet

LEMMA HitTTLProbeQuiet ==
    ASSUME TypeOK, NEW c \in Callers, HitTTLProbe(c) PROVE Quiet
  <1>1. now' = now /\ refreshLog' = refreshLog /\ lastRefresh' \in {lastRefresh, now}
    BY OutcomeSets DEF HitTTLProbe, Return, Exit, Spawn, NextVersion, SyncReturned, SyncFailed, HitRefresh, MissDispatch, HandlerSet, SetMain, store, cvars, bvars, lvars
  <1>2. \A d \in Callers : bpc'[d] \in BrHold => bpc[d] \in BrHold
    BY OutcomeSets DEF HitTTLProbe, Return, Exit, Spawn, NextVersion, SyncReturned, SyncFailed, HitRefresh, MissDispatch, HandlerSet, SetMain, store, cvars, bvars, lvars, TypeOK, BrHold
  <1>3. QED
    BY <1>1, <1>2 DEF Quiet

LEMMA SyncLockQuiet ==
    ASSUME TypeOK, NEW c \in Callers, SyncLock(c) PROVE Quiet
  <1>1. now' = now /\ refreshLog' = refreshLog /\ lastRefresh' \in {lastRefresh, now}
    BY OutcomeSets DEF SyncLock, Return, Exit, Spawn, NextVersion, SyncReturned, SyncFailed, HitRefresh, MissDispatch, HandlerSet, SetMain, store, cvars, bvars, lvars
  <1>2. \A d \in Callers : bpc'[d] \in BrHold => bpc[d] \in BrHold
    BY OutcomeSets DEF SyncLock, Return, Exit, Spawn, NextVersion, SyncReturned, SyncFailed, HitRefresh, MissDispatch, HandlerSet, SetMain, store, cvars, bvars, lvars, TypeOK, BrHold
  <1>3. QED
    BY <1>1, <1>2 DEF Quiet

LEMMA SyncCheckQuiet ==
    ASSUME TypeOK, NEW c \in Callers, SyncCheck(c) PROVE Quiet
  <1>1. now' = now /\ refreshLog' = refreshLog /\ lastRefresh' \in {lastRefresh, now}
    BY OutcomeSets DEF SyncCheck, Return, Exit, Spawn, NextVersion, SyncReturned, SyncFailed, HitRefresh, MissDispatch, HandlerSet, SetMain, store, cvars, bvars, lvars
  <1>2. \A d \in Callers : bpc'[d] \in BrHold => bpc[d] \in BrHold
    BY OutcomeSets DEF SyncCheck, Return, Exit, Spawn, NextVersion, SyncReturned, SyncFailed, HitRefresh, MissDispatch, HandlerSet, SetMain, store, cvars, bvars, lvars, TypeOK, BrHold
  <1>3. QED
    BY <1>1, <1>2 DEF Quiet

LEMMA SyncGenQuiet ==
    ASSUME TypeOK, NEW c \in Callers, SyncGen(c) PROVE Quiet
  <1>1. now' = now /\ refreshLog' = refreshLog /\ lastRefresh' \in {lastRefresh, now}
    BY OutcomeSets DEF SyncGen, Return, Exit, Spawn, NextVersion, SyncReturned, SyncFailed, HitRefresh, MissDispatch, HandlerSet, SetMain, store, cvars, bvars, lvars
  <1>2. \A d \in Callers : bpc'[d] \in BrHold => bpc[d] \in BrHold
    BY OutcomeSets DEF SyncGen, Return, Exit, Spawn, NextVersion, SyncReturned, SyncFailed, HitRefresh, MissDispatch, HandlerSet, SetMain, store, cvars, bvars, lvars, TypeOK, BrHold
  <1>3. QED
    BY <1>1, <1>2 DEF Quiet

LEMMA SyncSetQuiet ==
    ASSUME TypeOK, NEW c \in Callers, SyncSet(c) PROVE Quiet
  <1>1. now' = now /\ refreshLog' = refreshLog /\ lastRefresh' \in {lastRefresh, now}
    BY OutcomeSets DEF SyncSet, Return, Exit, Spawn, NextVersion, SyncReturned, SyncFailed, HitRefresh, MissDispatch, HandlerSet, SetMain, store, cvars, bvars, lvars
  <1>2. \A d \in Callers : bpc'[d] \in BrHold => bpc[d] \in BrHold
    BY OutcomeSets DEF SyncSet, Return, Exit, Spawn, NextVersion, SyncReturned, SyncFailed, HitRefresh, MissDispatch, HandlerSet, SetMain, store, cvars, bvars, lvars, TypeOK, BrHold
  <1>3. QED
    BY <1>1, <1>2 DEF Quiet

LEMMA AsyncGenQuiet ==
    ASSUME TypeOK, NEW c \in Callers, AsyncGen(c) PROVE Quiet
  <1>1. now' = now /\ refreshLog' = refreshLog /\ lastRefresh' \in {lastRefresh, now}
    BY OutcomeSets DEF AsyncGen, Return, Exit, Spawn, NextVersion, SyncReturned, SyncFailed, HitRefresh, MissDispatch, HandlerSet, SetMain, store, cvars, bvars, lvars
  <1>2. \A d \in Callers : bpc'[d] \in BrHold => bpc[d] \in BrHold
    BY OutcomeSets DEF AsyncGen, Return, Exit, Spawn, NextVersion, SyncReturned, SyncFailed, HitRefresh, MissDispatch, HandlerSet, SetMain, store, cvars, bvars, lvars, TypeOK, BrHold
  <1>3. QED
    BY <1>1, <1>2 DEF Quiet

LEMMA SwrStaleQuiet ==
    ASSUME TypeOK, NEW c \in Callers, SwrStale(c) PROVE Quiet
  <1>1. now' = now /\ refreshLog' = refreshLog /\ lastRefresh' \in {lastRefresh, now}
    BY OutcomeSets DEF SwrStale, Return, Exit, Spawn, NextVersion, SyncReturned, SyncFailed, HitRefresh, MissDispatch, HandlerSet, SetMain, store, cvars, bvars, lvars
  <1>2. \A d \in Callers : bpc'[d] \in BrHold => bpc[d] \in BrHold
    BY OutcomeSets DEF SwrStale, Return, Exit, Spawn, NextVersion, SyncReturned, SyncFailed, HitRefresh, MissDispatch, HandlerSet, SetMain, store, cvars, bvars, lvars, TypeOK, BrHold
  <1>3. QED
    BY <1>1, <1>2 DEF Quiet

LEMMA CoopSelectQuiet ==
    ASSUME TypeOK, NEW c \in Callers, CoopSelect(c) PROVE Quiet
  <1>1. now' = now /\ refreshLog' = refreshLog /\ lastRefresh' \in {lastRefresh, now}
    BY OutcomeSets DEF CoopSelect, Return, Exit, Spawn, NextVersion, SyncReturned, SyncFailed, HitRefresh, MissDispatch, HandlerSet, SetMain, store, cvars, bvars, lvars
  <1>2. \A d \in Callers : bpc'[d] \in BrHold => bpc[d] \in BrHold
    BY OutcomeSets DEF CoopSelect, Return, Exit, Spawn, NextVersion, SyncReturned, SyncFailed, HitRefresh, MissDispatch, HandlerSet, SetMain, store, cvars, bvars, lvars, TypeOK, BrHold
  <1>3. QED
    BY <1>1, <1>2 DEF Quiet

LEMMA CoopGenQuiet ==
    ASSUME TypeOK, NEW c \in Callers, CoopGen(c) PROVE Quiet
  <1>1. now' = now /\ refreshLog' = refreshLog /\ lastRefresh' \in {lastRefresh, now}
    BY OutcomeSets DEF CoopGen, Return, Exit, Spawn, NextVersion, SyncReturned, SyncFailed, HitRefresh, MissDispatch, HandlerSet, SetMain, store, cvars, bvars, lvars
  <1>2. \A d \in Callers : bpc'[d] \in BrHold => bpc[d] \in BrHold
    BY OutcomeSets DEF CoopGen, Return, Exit, Spawn, NextVersion, SyncReturned, SyncFailed, HitRefresh, MissDispatch, HandlerSet, SetMain, store, cvars, bvars, lvars, TypeOK, BrHold
  <1>3. QED
    BY <1>1, <1>2 DEF Quiet

LEMMA BestEffortGenQuiet ==
    ASSUME TypeOK, NEW c \in Callers, BestEffortGen(c) PROVE Quiet
  <1>1. now' = now /\ refreshLog' = refreshLog /\ lastRefresh' \in {lastRefresh, now}
    BY OutcomeSets DEF BestEffortGen, Return, Exit, Spawn, NextVersion, SyncReturned, SyncFailed, HitRefresh, MissDispatch, HandlerSet, SetMain, store, cvars, bvars, lvars
  <1>2. \A d \in Callers : bpc'[d] \in BrHold => bpc[d] \in BrHold
    BY OutcomeSets DEF BestEffortGen, Return, Exit, Spawn, NextVersion, SyncReturned, SyncFailed, HitRefresh, MissDispatch, HandlerSet, SetMain, store, cvars, bvars, lvars, TypeOK, BrHold
  <1>3. QED
    BY <1>1, <1>2 DEF Quiet

LEMMA BestEffortSetQuiet ==
    ASSUME TypeOK, NEW c \in Callers, BestEffortSet(c) PROVE Quiet
  <1>1. now' = now /\ refreshLog' = refreshLog /\ lastRefresh' \in {lastRefresh, now}
    BY OutcomeSets DEF BestEffortSet, Return, Exit, Spawn, NextVersion, SyncReturned, SyncFailed, HitRefresh, MissDispatch, HandlerSet, SetMain, store, cvars, bvars, lvars
  <1>2. \A d \in Callers : bpc'[d] \in BrHold => bpc[d] \in BrHold
    BY OutcomeSets DEF BestEffortSet, Return, Exit, Spawn, NextVersion, SyncReturned, SyncFailed, HitRefresh, MissDispatch, HandlerSet, SetMain, store, cvars, bvars, lvars, TypeOK, BrHold
  <1>3. QED
    BY <1>1, <1>2 DEF Quiet

LEMMA MissWriteTryLockQuiet ==
    ASSUME TypeOK, NEW c \in Callers, MissWriteTryLock(c) PROVE Quiet
  <1>1. now' = now /\ refreshLog' = refreshLog /\ lastRefresh' \in {lastRefresh, now}
    BY OutcomeSets DEF MissWriteTryLock, Return, Exit, Spawn, NextVersion, SyncReturned, SyncFailed, HitRefresh, MissDispatch, HandlerSet, SetMain, store, cvars, bvars, lvars
  <1>2. \A d \in Callers : bpc'[d] \in BrHold => bpc[d] \in BrHold
    BY OutcomeSets DEF MissWriteTryLock, Return, Exit, Spawn, NextVersion, SyncReturned, SyncFailed, HitRefresh, MissDispatch, HandlerSet, SetMain, store, cvars, bvars, lvars, TypeOK, BrHold
  <1>3. QED
    BY <1>1, <1>2 DEF Quiet

LEMMA MissWriteExistsQuiet ==
    ASSUME TypeOK, NEW c \in Callers, MissWriteExists(c) PROVE Quiet
  <1>1. now' = now /\ refreshLog' = refreshLog /\ lastRefresh' \in {lastRefresh, now}
    BY OutcomeSets DEF MissWriteExists, Return, Exit, Spawn, NextVersion, SyncReturned, SyncFailed, HitRefresh, MissDispatch, HandlerSet, SetMain, store, cvars, bvars, lvars
  <1>2. \A d \in Callers : bpc'[d] \in BrHold => bpc[d] \in BrHold
    BY OutcomeSets DEF MissWriteExists, Return, Exit, Spawn, NextVersion, SyncReturned, SyncFailed, HitRefresh, MissDispatch, HandlerSet, SetMain, store, cvars, bvars, lvars, TypeOK, BrHold
  <1>3. QED
    BY <1>1, <1>2 DEF Quiet

LEMMA MissWriteSetQuiet ==
    ASSUME TypeOK, NEW c \in Callers, MissWriteSet(c) PROVE Quiet
  <1>1. now' = now /\ refreshLog' = refreshLog /\ lastRefresh' \in {lastRefresh, now}
    BY OutcomeSets DEF MissWriteSet, Return, Exit, Spawn, NextVersion, SyncReturned, SyncFailed, HitRefresh, MissDispatch, HandlerSet, SetMain, store, cvars, bvars, lvars
  <1>2. \A d \in Callers : bpc'[d] \in BrHold => bpc[d] \in BrHold
    BY OutcomeSets DEF MissWriteSet, Return, Exit, Spawn, NextVersion, SyncReturned, SyncFailed, HitRefresh, MissDispatch, HandlerSet, SetMain, store, cvars, bvars, lvars, TypeOK, BrHold
  <1>3. QED
    BY <1>1, <1>2 DEF Quiet

LEMMA RefreshGenQuiet ==
    ASSUME TypeOK, NEW c \in Callers, RefreshGen(c) PROVE Quiet
  <1>1. now' = now /\ refreshLog' = refreshLog /\ lastRefresh' \in {lastRefresh, now}
    BY OutcomeSets DEF RefreshGen, Return, Exit, Spawn, NextVersion, SyncReturned, SyncFailed, HitRefresh, MissDispatch, HandlerSet, SetMain, store, cvars, bvars, lvars
  <1>2. \A d \in Callers : bpc'[d] \in BrHold => bpc[d] \in BrHold
    BY OutcomeSets DEF RefreshGen, Return, Exit, Spawn, NextVersion, SyncReturned, SyncFailed, HitRefresh, MissDispatch, HandlerSet, SetMain, store, cvars, bvars, lvars, TypeOK, BrHold
  <1>3. QED
    BY <1>1, <1>2 DEF Quiet

LEMMA StaleTryLockQuiet ==
    ASSUME TypeOK, NEW c \in Callers, StaleTryLock(c) PROVE Quiet
  <1>1. now' = now /\ refreshLog' = refreshLog /\ lastRefresh' \in {lastRefresh, now}
    BY OutcomeSets DEF StaleTryLock, Return, Exit, Spawn, NextVersion, SyncReturned, SyncFailed, HitRefresh, MissDispatch, HandlerSet, SetMain, store, cvars, bvars, lvars
  <1>2. \A d \in Callers : bpc'[d] \in BrHold => bpc[d] \in BrHold
    BY OutcomeSets DEF StaleTryLock, Return, Exit, Spawn, NextVersion, SyncReturned, SyncFailed, HitRefresh, MissDispatch, HandlerSet, SetMain, store, cvars, bvars, lvars, TypeOK, BrHold
  <1>3. QED
    BY <1>1, <1>2 DEF Quiet

LEMMA StaleGenQuiet ==
    ASSUME TypeOK, NEW c \in Callers, StaleGen(c) PROVE Quiet
  <1>1. now' = now /\ refreshLog' = refreshLog /\ lastRefresh' \in {lastRefresh, now}
    BY OutcomeSets DEF StaleGen, Return, Exit, Spawn, NextVersion, SyncReturned, SyncFailed, HitRefresh, MissDispatch, HandlerSet, SetMain, store, cvars, bvars, lvars
  <1>2. \A d \in Callers : bpc'[d] \in BrHold => bpc[d] \in BrHold
    BY OutcomeSets DEF StaleGen, Return, Exit, Spawn, NextVersion, SyncReturned, SyncFailed, HitRefresh, MissDispatch, HandlerSet, SetMain, store, cvars, bvars, lvars, TypeOK, BrHold
  <1>3. QED
    BY <1>1, <1>2 DEF Quiet

LEMMA StaleSetMainQuiet ==
    ASSUME TypeOK, NEW c \in Callers, StaleSetMain(c) PROVE Quiet
  <1>1. now' = now /\ refreshLog' = refreshLog /\ lastRefresh' \in {lastRefresh, now}
    BY OutcomeSets DEF StaleSetMain, Return, Exit, Spawn, NextVersion, SyncReturned, SyncFailed, HitRefresh, MissDispatch, HandlerSet, SetMain, store, cvars, bvars, lvars
  <1>2. \A d \in Callers : bpc'[d] \in BrHold => bpc[d] \in BrHold
    BY OutcomeSets DEF StaleSetMain, Return, Exit, Spawn, NextVersion, SyncReturned, SyncFailed, HitRefresh, MissDispatch, HandlerSet, SetMain, store, cvars, bvars, lvars, TypeOK, BrHold
  <1>3. QED
    BY <1>1, <1>2 DEF Quiet

LEMMA StaleSetStaleQuiet ==
    ASSUME TypeOK, NEW c \in Callers, StaleSetStale(c) PROVE Quiet
  <1>1. now' = now /\ refreshLog' = refreshLog /\ lastRefresh' \in {lastRefresh, now}
    BY OutcomeSets DEF StaleSetStale, Return, Exit, Spawn, NextVersion, SyncReturned, SyncFailed, HitRefresh, MissDispatch, HandlerSet, SetMain, store, cvars, bvars, lvars
  <1>2. \A d \in Callers : bpc'[d] \in BrHold => bpc[d] \in BrHold
    BY OutcomeSets DEF StaleSetStale, Return, Exit, Spawn, NextVersion, SyncReturned, SyncFailed, HitRefresh, MissDispatch, HandlerSet, SetMain, store, cvars, bvars, lvars, TypeOK, BrHold
  <1>3. QED
    BY <1>1, <1>2 DEF Quiet

LEMMA AheadWakeQuiet ==
    ASSUME TypeOK, NEW c \in Callers, AheadWake(c) PROVE Quiet
  <1>1. now' = now /\ refreshLog' = refreshLog /\ lastRefresh' \in {lastRefresh, now}
    BY OutcomeSets DEF AheadWake, Return, Exit, Spawn, NextVersion, SyncReturned, SyncFailed, HitRefresh, MissDispatch, HandlerSet, SetMain, store, cvars, bvars, lvars
  <1>2. \A d \in Callers : bpc'[d] \in BrHold => bpc[d] \in BrHold
    BY OutcomeSets DEF AheadWake, Return, Exit, Spawn, NextVersion, SyncReturned, SyncFailed, HitRefresh, MissDispatch, HandlerSet, SetMain, store, cvars, bvars, lvars, TypeOK, BrHold
  <1>3. QED
    BY <1>1, <1>2 DEF Quiet

LEMMA AheadExistsQuiet ==
    ASSUME TypeOK, NEW c \in Callers, AheadExists(c) PROVE Quiet
  <1>1. now' = now /\ refreshLog' = refreshLog /\ lastRefresh' \in {lastRefresh, now}
    BY OutcomeSets DEF AheadExists, Return, Exit, Spawn, NextVersion, SyncReturned, SyncFailed, HitRefresh, MissDispatch, HandlerSet, SetMain, store, cvars, bvars, lvars
  <1>2. \A d \in Callers : bpc'[d] \in BrHold => bpc[d] \in BrHold
    BY OutcomeSets DEF AheadExists, Return, Exit, Spawn, NextVersion, SyncReturned, SyncFailed, HitRefresh, MissDispatch, HandlerSet, SetMain, store, cvars, bvars, lvars, TypeOK, BrHold
  <1>3. QED
    BY <1>1, <1>2 DEF Quiet

LEMMA ProbCreatedQuiet ==
    ASSUME TypeOK, NEW c \in Callers, ProbCreated(c) PROVE Quiet
  <1>1. now' = now /\ refreshLog' = refreshLog /\ lastRefresh' \in {lastRefresh, now}
    BY OutcomeSets DEF ProbCreated, Return, Exit, Spawn, NextVersion, SyncReturned, SyncFailed, HitRefresh, MissDispatch, HandlerSet, SetMain, store, cvars, bvars, lvars
  <1>2. \A d \in Callers : bpc'[d] \in BrHold => bpc[d] \in BrHold
    BY OutcomeSets DEF ProbCreated, Return, Exit, Spawn, NextVersion, SyncReturned, SyncFailed, HitRefresh, MissDispatch, HandlerSet, SetMain, store, cvars, bvars, lvars, TypeOK, BrHold
  <1>3. QED
    BY <1>1, <1>2 DEF Quiet

LEMMA LockerAcquireQuiet ==
    ASSUME TypeOK, NEW c \in Callers, LockerAcquire(c) PROVE Quiet
  <1>1. now' = now /\ refreshLog' = refreshLog /\ lastRefresh' \in {lastRefresh, now}
    BY OutcomeSets DEF LockerAcquire, Return, Exit, Spawn, NextVersion, SyncReturned, SyncFailed, HitRefresh, MissDispatch, HandlerSet, SetMain, store, cvars, bvars, lvars
  <1>2. \A d \in Callers : bpc'[d] \in BrHold => bpc[d] \in BrHold
    BY OutcomeSets DEF LockerAcquire, Return, Exit, Spawn, NextVersion, SyncReturned, SyncFailed, HitRefresh, MissDispatch, HandlerSet, SetMain, store, cvars, bvars, lvars, TypeOK, BrHold
  <1>3. QED
    BY <1>1, <1>2 DEF Quiet

LEMMA LockerReleaseQuiet ==
    ASSUME TypeOK, NEW c \in Callers, LockerRelease(c) PROVE Quiet
  <1>1. now' = now /\ refreshLog' = refreshLog /\ lastRefresh' \in {lastRefresh, now}
    BY OutcomeSets DEF LockerRelease, Return, Exit, Spawn, NextVersion, SyncReturned, SyncFailed, HitRefresh, MissDispatch, HandlerSet, SetMain, store, cvars, bvars, lvars
  <1>2. \A d \in Callers : bpc'[d] \in BrHold => bpc[d] \in BrHold
    BY OutcomeSets DEF LockerRelease, Return, Exit, Spawn, NextVersion, SyncReturned, SyncFailed, HitRefresh, MissDispatch, HandlerSet, SetMain, store, cvars, bvars, lvars, TypeOK, BrHold
  <1>3. QED
    BY <1>1, <1>2 DEF Quiet

-----------------------------------------------------------------------------
(* How each kind of step keeps the refresh log spaced.                    *)

\* The ledger entry and the clock are numbers when set.
LEMMA TimesNat ==
    ASSUME TypeOK
    PROVE  /\ now \in Nat /\ refreshLog \in Seq(Nat)
           /\ lastRefresh # NoTime => lastRefresh \in Nat
  BY ConstantsAssumption DEF TypeOK

\* A quiet step keeps the log, every holder's margin, and the ledger at or
\* past the last refresh.
LEMMA CoolQuiet ==
    ASSUME TypeOK, RefreshCooldownRespected, CooldownKnown, Quiet
    PROVE  RefreshCooldownRespected' /\ CooldownKnown'
  <1>1. RefreshCooldownRespected'
    BY DEF Quiet, RefreshCooldownRespected
  <1>2. \A i \in 1..Len(refreshLog') : refreshLog'[i] <= now'
    BY DEF Quiet, CooldownKnown
  <1>3. Cooldown > 0 /\ refreshLog' # <<>> =>
          /\ lastRefresh' # NoTime
          /\ \A i \in 1..Len(refreshLog') : refreshLog'[i] <= lastRefresh'
    BY TimesNat, ConstantsAssumption DEF Quiet, CooldownKnown
  <1>4. \A d \in RefreshHolders' :
          \A i \in 1..Len(refreshLog') : now' - refreshLog'[i] >= Cooldown
    BY DEF Quiet, CooldownKnown, RefreshHolders, BrHold
  <1>5. QED
    BY <1>1, <1>2, <1>3, <1>4 DEF CooldownKnown

\* The clock moves on: every refresh lies further in the past.
LEMMA CoolTick ==
    ASSUME TypeOK, RefreshCooldownRespected, CooldownKnown, Tick
    PROVE  RefreshCooldownRespected' /\ CooldownKnown'
  <1>1. now' = now + 1 /\ UNCHANGED <<refreshLog, lastRefresh, bpc>>
    BY DEF Tick, store, bvars
  <1>2. \A i \in 1..Len(refreshLog) : refreshLog[i] \in Nat
    BY TimesNat
  <1>3. RefreshCooldownRespected'
    BY <1>1 DEF RefreshCooldownRespected
  <1>4. \A i \in 1..Len(refreshLog') : refreshLog'[i] <= now'
    BY <1>1, <1>2, TimesNat DEF CooldownKnown
  <1>5. Cooldown > 0 /\ refreshLog' # <<>> =>
          /\ lastRefresh' # NoTime
          /\ \A i \in 1..Len(refreshLog') : refreshLog'[i] <= lastRefresh'
    BY <1>1 DEF CooldownKnown
  <1>6. \A d \in RefreshHolders' :
          \A i \in 1..Len(refreshLog') : now' - refreshLog'[i] >= Cooldown
    <2>1. RefreshHolders' = RefreshHolders
      BY <1>1 DEF RefreshHolders
    <2>2. SUFFICES ASSUME NEW d \in RefreshHolders', NEW i \in 1..Len(refreshLog')
                   PROVE  now' - refreshLog'[i] >= Cooldown
      OBVIOUS
    <2>3. d \in RefreshHolders /\ refreshLog' = refreshLog /\ now' = now + 1
      BY <1>1, <2>1
    <2>4. now - refreshLog[i] >= Cooldown
      BY <2>3 DEF CooldownKnown
    <2>5. QED
      BY <1>2, <2>3, <2>4, TimesNat, ConstantsAssumption
  <1>7. QED
    BY <1>3, <1>4, <1>5, <1>6 DEF CooldownKnown

\* A refresh that passes shouldRefreshNow under the lock is Cooldown after
\* every refresh in the log.
LEMMA ShouldRefreshMargin ==
    ASSUME TypeOK, CooldownKnown, ShouldRefreshNow
    PROVE  \A i \in 1..Len(refreshLog) : now - refreshLog[i] >= Cooldown
  <1> SUFFICES ASSUME NEW i \in 1..Len(refreshLog)
               PROVE  now - refreshLog[i] >= Cooldown
    OBVIOUS
  <1>1. refreshLog[i] \in Nat /\ refreshLog[i] <= now /\ Cooldown \in Nat
    BY TimesNat, ConstantsAssumption DEF CooldownKnown
  <1>2. CASE Cooldown = 0
    BY <1>1, <1>2, TimesNat
  <1>3. CASE Cooldown > 0
    <2>1. lastRefresh # NoTime /\ refreshLog[i] <= lastRefresh
      BY <1>3 DEF CooldownKnown
    <2>2. now - lastRefresh >= Cooldown
      BY <1>3, <2>1 DEF ShouldRefreshNow
    <2>3. QED
      BY <1>1, <2>1, <2>2, TimesNat
  <1>4. QED
    BY <1>1, <1>2, <1>3

LEMMA CoolRefreshTryLock ==
    ASSUME TypeOK, RefreshCooldownRespected, CooldownKnown,
           NEW c \in Callers, RefreshTryLock(c)
    PROVE  RefreshCooldownRespected' /\ CooldownKnown'
  <1>1. UNCHANGED <<now, refreshLog, lastRefresh>>
    BY DEF RefreshTryLock, store
  <1>2. CASE bpc' = bpc \/ Exit(c)
    <2>1. \A d \in Callers : bpc'[d] \in BrHold => bpc[d] \in BrHold
      BY <1>2 DEF Exit, TypeOK, BrHold
    <2>2. QED
      BY <1>1, <2>1, CoolQuiet DEF Quiet
  <1>3. CASE ShouldRefreshNow /\ Spawn(c, "br_gen")
    <2>1. \A d \in RefreshHolders' :
            d \in RefreshHolders \/ d = c
      BY <1>3 DEF Spawn, TypeOK, RefreshHolders
    <2>2. \A i \in 1..Len(refreshLog) : now - refreshLog[i] >= Cooldown
      BY <1>3, ShouldRefreshMargin
    <2>3. QED
      BY <1>1, <2>1, <2>2 DEF RefreshCooldownRespected, CooldownKnown
  <1>4. QED
    BY <1>2, <1>3 DEF RefreshTryLock

\* The refresh write appends the current time, Cooldown after every logged
\* refresh, and no other goroutine is past the check: it would hold the
\* lock with the writer.
LEMMA CoolRefreshSet ==
    ASSUME LockInv, RefreshCooldownRespected, CooldownKnown,
           NEW c \in Callers, RefreshSet(c)
    PROVE  RefreshCooldownRespected' /\ CooldownKnown'
  <1>1. /\ now' = now /\ bpc[c] = "br_set" /\ bpc'[c] = "none"
        /\ \A d \in Callers \ {c} : bpc'[d] = bpc[d]
    BY DEF RefreshSet, Exit, LockInv, TypeOK
  <1>2. TypeOK
    BY DEF LockInv
  <1>3. CASE refreshLog' = refreshLog /\ lastRefresh' = lastRefresh
    <2>1. \A d \in Callers : bpc'[d] \in BrHold => bpc[d] \in BrHold
      BY <1>1 DEF BrHold
    <2>2. QED
      BY <1>1, <1>2, <1>3, <2>1, CoolQuiet DEF Quiet
  <1>4. CASE SetMain(bval[c]) /\ refreshLog' = Append(refreshLog, now)
    <2>1. RefreshHolders' = {}
      <3>1. \A d \in Callers \ {c} : bpc[d] \notin BrHold
        BY <1>1 DEF LockInv, LockExclusive, Holds, BgHolds, BrHold, Kinds
      <3>2. QED
        BY <1>1, <3>1 DEF RefreshHolders, BrHold
    <2>2. \A i \in 1..Len(refreshLog) : now - refreshLog[i] >= Cooldown
      BY <1>1 DEF CooldownKnown, RefreshHolders
    <2>3. /\ refreshLog \in Seq(Nat) /\ now \in Nat
          /\ Len(refreshLog') = Len(refreshLog) + 1
          /\ refreshLog'[Len(refreshLog) + 1] = now
          /\ \A i \in 1..Len(refreshLog) : refreshLog'[i] = refreshLog[i]
      BY <1>2, <1>4, TimesNat
    <2>4. Cooldown > 0 => lastRefresh' = now
      BY <1>4 DEF SetMain
    <2>5. RefreshCooldownRespected'
      <3> SUFFICES ASSUME NEW i \in 1..Len(refreshLog'), NEW j \in 1..Len(refreshLog'),
                          i < j
                   PROVE  refreshLog'[j] - refreshLog'[i] >= Cooldown
        BY DEF RefreshCooldownRespected
      <3>1. CASE j <= Len(refreshLog)
        <4>1. i \in 1..Len(refreshLog) /\ j \in 1..Len(refreshLog)
          BY <2>3, <3>1
        <4>2. refreshLog'[i] = refreshLog[i] /\ refreshLog'[j] = refreshLog[j]
          BY <2>3, <4>1
        <4>3. QED
          BY <4>1, <4>2 DEF RefreshCooldownRespected
      <3>2. CASE j = Len(refreshLog) + 1
        BY <2>2, <2>3, <3>2
      <3>3. QED
        BY <2>3, <3>1, <3>2
    <2>6. \A i \in 1..Len(refreshLog') : refreshLog'[i] <= now'
      BY <1>1, <2>3 DEF CooldownKnown
    <2>7. Cooldown > 0 /\ refreshLog' # <<>> =>
            /\ lastRefresh' # NoTime
            /\ \A i \in 1..Len(refreshLog') : refreshLog'[i] <= lastRefresh'
      BY <2>4, <2>6, <1>1, <2>3, ConstantsAssumption
    <2>8. QED
      BY <2>1, <2>5, <2>6, <2>7 DEF CooldownKnown
  <1>5. QED
    BY <1>3, <1>4 DEF RefreshSet

-----------------------------------------------------------------------------
(* The inductive invariant and the theorem.                                *)

LEMMA CooldownInvInit == Init => CooldownInv
  <1> SUFFICES ASSUME Init PROVE CooldownInv
    OBVIOUS
  <1>1. LockInv
    BY LockInvInit
  <1>2. refreshLog = <<>> /\ RefreshHolders = {}
    BY DEF Init, RefreshHolders, BrHold
  <1>3. QED
    BY <1>1, <1>2 DEF CooldownInv, RefreshCooldownRespected, CooldownKnown

LEMMA CooldownInvStep == CooldownInv /\ [Next]_vars => CooldownInv'
  <1> SUFFICES ASSUME CooldownInv, [Next]_vars PROVE CooldownInv'
    OBVIOUS
  <1>1. LockInv'
    BY LockInvStep DEF CooldownInv
  <1>2. RefreshCooldownRespected' /\ CooldownKnown'
    <2> TypeOK
      BY DEF CooldownInv, LockInv
    <2>1. CASE Tick
      BY <2>1, CoolTick DEF CooldownInv
    <2>2. ASSUME NEW c \in Callers, Caller(c) PROVE RefreshCooldownRespected' /\ CooldownKnown'
      <3>1. CASE Start(c)
        BY <3>1, StartQuiet, CoolQuiet DEF CooldownInv
      <3>2. CASE AppSet(c)
        BY <3>2, AppSetQuiet, CoolQuiet DEF CooldownInv
      <3>3. CASE Lookup(c)
        BY <3>3, LookupQuiet, CoolQuiet DEF CooldownInv
      <3>4. CASE HitTTLProbe(c)
        BY <3>4, HitTTLProbeQuiet, CoolQuiet DEF CooldownInv
      <3>5. CASE SyncLock(c)
        BY <3>5, SyncLockQuiet, CoolQuiet DEF CooldownInv
      <3>6. CASE SyncCheck(c)
        BY <3>6, SyncCheckQuiet, CoolQuiet DEF CooldownInv
      <3>7. CASE SyncGen(c)
        BY <3>7, SyncGenQuiet, CoolQuiet DEF CooldownInv
      <3>8. CASE SyncSet(c)
        BY <3>8, SyncSetQuiet, CoolQuiet DEF CooldownInv
      <3>9. CASE AsyncGen(c)
        BY <3>9, AsyncGenQuiet, CoolQuiet DEF CooldownInv
      <3>10. CASE SwrStale(c)
        BY <3>10, SwrStaleQuiet, CoolQuiet DEF CooldownInv
      <3>11. CASE CoopSelect(c)
        BY <3>11, CoopSelectQuiet, CoolQuiet DEF CooldownInv
      <3>12. CASE CoopGen(c)
        BY <3>12, CoopGenQuiet, CoolQuiet DEF CooldownInv
      <3>13. CASE BestEffortGen(c)
        BY <3>13, BestEffortGenQuiet, CoolQuiet DEF CooldownInv
      <3>14. CASE BestEffortSet(c)
        BY <3>14, BestEffortSetQuiet, CoolQuiet DEF CooldownInv
      <3>15. QED
        BY <2>2, <3>1, <3>2, <3>3, <3>4, <3>5, <3>6, <3>7, <3>8, <3>9, <3>10, <3>11, <3>12, <3>13, <3>14 DEF Caller
    <2>3. ASSUME NEW c \in Callers, Background(c) PROVE RefreshCooldownRespected' /\ CooldownKnown'
      <3>1. CASE MissWriteTryLock(c)
        BY <3>1, MissWriteTryLockQuiet, CoolQuiet DEF CooldownInv
      <3>2. CASE MissWriteExists(c)
        BY <3>2, MissWriteExistsQuiet, CoolQuiet DEF CooldownInv
      <3>3. CASE MissWriteSet(c)
        BY <3>3, MissWriteSetQuiet, CoolQuiet DEF CooldownInv
      <3>4. CASE RefreshTryLock(c)
        BY <3>4, CoolRefreshTryLock DEF CooldownInv
      <3>5. CASE RefreshGen(c)
        BY <3>5, RefreshGenQuiet, CoolQuiet DEF CooldownInv
      <3>6. CASE RefreshSet(c)
        BY <3>6, CoolRefreshSet DEF CooldownInv
      <3>7. CASE StaleTryLock(c)
        BY <3>7, StaleTryLockQuiet, CoolQuiet DEF CooldownInv
      <3>8. CASE StaleGen(c)
        BY <3>8, StaleGenQuiet, CoolQuiet DEF CooldownInv
      <3>9. CASE StaleSetMain(c)
        BY <3>9, StaleSetMainQuiet, CoolQuiet DEF CooldownInv
      <3>10. CASE StaleSetStale(c)
        BY <3>10, StaleSetStaleQuiet, CoolQuiet DEF CooldownInv
      <3>11. CASE AheadWake(c)
        BY <3>11, AheadWakeQuiet, CoolQuiet DEF CooldownInv
      <3>12. CASE AheadExists(c)
        BY <3>12, AheadExistsQuiet, CoolQuiet DEF CooldownInv
      <3>13. CASE ProbCreated(c)
        BY <3>13, ProbCreatedQuiet, CoolQuiet DEF CooldownInv
      <3>14. QED
        BY <2>3, <3>1, <3>2, <3>3, <3>4, <3>5, <3>6, <3>7, <3>8, <3>9, <3>10, <3>11, <3>12, <3>13 DEF Background
    <2>4. ASSUME NEW c \in Callers, Locker(c) PROVE RefreshCooldownRespected' /\ CooldownKnown'
      <3>1. CASE LockerAcquire(c)
        BY <3>1, LockerAcquireQuiet, CoolQuiet DEF CooldownInv
      <3>2. CASE LockerRelease(c)
        BY <3>2, LockerReleaseQuiet, CoolQuiet DEF CooldownInv
      <3>3. QED
        BY <2>4, <3>1, <3>2 DEF Locker
    <2>5. CASE Finished \/ UNCHANGED vars
      <3>1. Quiet
        BY <2>5 DEF Finished, vars, store, bvars, Quiet
      <3>2. QED
        BY <3>1, CoolQuiet DEF CooldownInv
    <2>6. QED
      BY <2>1, <2>2, <2>3, <2>4, <2>5 DEF Next
  <1>3. QED
    BY <1>1, <1>2 DEF CooldownInv

(* refreshCooldown holds for the background refreshes of                 *)
(* spawnBackgroundRefresh for every value of the constants: any number of *)
(* callers, every policy, application Sets and backend faults.  Every hit *)
(* reads lastRefreshByKey outside the lock, but the refresh rechecks      *)
(* shouldRefreshNow under TryLock, every writer stamps the ledger with    *)
(* the current time, and only the lock holder logs a refresh: two logged  *)
(* refreshes are at least Cooldown apart.                                  *)
THEOREM RefreshCooldownCorrect == Spec => []RefreshCooldownRespected
  <1>1. CooldownInv => RefreshCooldownRespected
    BY DEF CooldownInv
  <1>2. QED
    BY <1>1, CooldownInvInit, CooldownInvStep, PTL DEF Spec

=============================================================================
