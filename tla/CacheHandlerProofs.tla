------------------------- MODULE CacheHandlerProofs -------------------------
(* Proofs about CacheHandler for every value of its constants: the type   *)
(* invariant, and mutual exclusion on the key's lock (keyedMutex) across   *)
(* callers, background goroutines and cooperative lock goroutines.         *)
EXTENDS CacheHandler, TLAPS

-----------------------------------------------------------------------------
(* Type correctness.                                                       *)

\* TypeOK by groups of variables, as the actions change them.
ScalarTyped ==
    /\ now \in 0..MaxTime
    /\ ver \in Nat
    /\ lock \in 0..1
    /\ calls \in 0..MaxCalls
StoreTyped ==
    /\ cache \in Entry \cup {NoEntry}
    /\ stale \in Entry \cup {NoEntry}
    /\ lastRefresh \in 0..MaxTime \cup {NoTime}
    /\ created \in 0..MaxTime \cup {NoTime}
    /\ refreshLog \in Seq(0..MaxTime)
    /\ filled \in BOOLEAN
CallerTyped ==
    /\ pc \in [Callers -> CallerStates]
    /\ pol \in [Callers -> MissPolicies]
    /\ gv \in [Callers -> Nat]
    /\ cstart \in [Callers -> 0..MaxTime]
BgTyped ==
    /\ bpc \in [Callers -> BgStates]
    /\ bval \in [Callers -> Nat]
    /\ bwake \in [Callers -> Nat]
LockerTyped ==
    /\ lpc \in [Callers -> LockerStates]
    /\ done \in [Callers -> BOOLEAN]

LEMMA TypeGroups ==
    TypeOK => ScalarTyped /\ StoreTyped /\ CallerTyped /\ BgTyped /\ LockerTyped
  BY DEF TypeOK, ScalarTyped, StoreTyped, CallerTyped, BgTyped, LockerTyped

LEMMA TypeFromGroups ==
    ASSUME ScalarTyped', StoreTyped', CallerTyped', BgTyped', LockerTyped'
    PROVE  TypeOK'
  BY DEF TypeOK, ScalarTyped, StoreTyped, CallerTyped, BgTyped, LockerTyped

\* A group a step leaves alone stays typed.
LEMMA StoreFrame == StoreTyped /\ UNCHANGED store => StoreTyped'
  BY DEF StoreTyped, store
LEMMA CallerFrame == CallerTyped /\ UNCHANGED cvars => CallerTyped'
  BY DEF CallerTyped, cvars
LEMMA BgFrame == BgTyped /\ UNCHANGED bvars => BgTyped'
  BY DEF BgTyped, bvars
LEMMA LockerFrame == LockerTyped /\ UNCHANGED lvars => LockerTyped'
  BY DEF LockerTyped, lvars

\* The outcome of a backend command or a generator call picks a branch.
LEMMA OkSplit ==
    ASSUME NEW S \in SUBSET BOOLEAN, NEW ACTION A, NEW ACTION B,
           \E ok \in S : \/ ok /\ A
                         \/ ~ok /\ B
    PROVE  A \/ B
  OBVIOUS

LEMMA OutcomeSets == Backend \in SUBSET BOOLEAN /\ Generated \in SUBSET BOOLEAN
  BY DEF Backend, Generated

\* The caller's return and the background goroutine's exit.
LEMMA ReturnType ==
    ASSUME CallerTyped, NEW c \in Callers, Return(c), UNCHANGED pol
    PROVE  CallerTyped'
  BY ConstantsAssumption DEF CallerTyped, Return, CallerStates

LEMMA ExitType ==
    ASSUME BgTyped, NEW c \in Callers, Exit(c)
    PROVE  BgTyped'
  BY DEF BgTyped, Exit, BgStates

LEMMA SpawnType ==
    ASSUME BgTyped, NEW c \in Callers, NEW s \in BgStates, Spawn(c, s),
           UNCHANGED <<bval, bwake>>
    PROVE  BgTyped'
  BY DEF BgTyped, Spawn

\* A write of Handler.Set leaves the main key and the ledger well typed.
LEMMA HandlerSetType ==
    ASSUME TypeOK, NEW v \in Nat, HandlerSet(v)
    PROVE  /\ cache' \in Entry \cup {NoEntry}
           /\ lastRefresh' \in 0..MaxTime \cup {NoTime}
           /\ filled' \in BOOLEAN
  <1>1. PICK ok \in Backend :
              \/ ok /\ SetMain(v)
              \/ ~ok /\ UNCHANGED <<cache, lastRefresh, filled>>
    BY DEF HandlerSet
  <1>2. CASE ok /\ SetMain(v)
    <2>1. now + TTL \in Nat
      BY ConstantsAssumption DEF TypeOK
    <2>2. QED
      BY <1>2, <2>1 DEF TypeOK, SetMain, Entry
  <1>3. CASE ~ok /\ UNCHANGED <<cache, lastRefresh, filled>>
    BY <1>3 DEF TypeOK
  <1>4. QED
    BY <1>1, <1>2, <1>3

THEOREM TypeInit == Init => TypeOK
  <1> SUFFICES ASSUME Init PROVE TypeOK
    OBVIOUS
  <1>1. cache \in Entry \cup {NoEntry} /\ stale \in Entry \cup {NoEntry}
    BY ConstantsAssumption DEF Init, Entry
  <1>2. refreshLog \in Seq(0..MaxTime)
    BY DEF Init
  <1>3. /\ now \in 0..MaxTime /\ ver \in Nat /\ lock \in 0..1
        /\ lastRefresh \in 0..MaxTime \cup {NoTime}
        /\ created \in 0..MaxTime \cup {NoTime}
        /\ calls \in 0..MaxCalls
    BY ConstantsAssumption DEF Init
  <1>4. /\ pc \in [Callers -> CallerStates]
        /\ pol \in [Callers -> MissPolicies]
        /\ bpc \in [Callers -> BgStates]
        /\ lpc \in [Callers -> LockerStates]
        /\ done \in [Callers -> BOOLEAN]
    BY DEF Init, CallerStates, BgStates, LockerStates, MissPolicies
  <1>5. /\ gv \in [Callers -> 0..ver]
        /\ cstart \in [Callers -> 0..MaxTime]
        /\ bval \in [Callers -> 0..ver]
        /\ bwake \in [Callers -> Nat]
    BY ConstantsAssumption DEF Init
  <1>6. filled \in BOOLEAN
    BY DEF Init
  <1>7. QED
    BY <1>1, <1>2, <1>3, <1>4, <1>5, <1>6 DEF TypeOK

\* scheduleRefreshAhead's delay is a natural number of ticks.
LEMMA AheadDelayNat == AheadDelay \in Nat
  <1>1. Threshold \in 0..100
    BY ConstantsAssumption DEF Threshold
  <1>2. QED
    BY <1>1, ConstantsAssumption DEF AheadDelay

\* Every miss policy starts at a place of the caller.
LEMMA MissEntryType ==
    ASSUME NEW p \in MissPolicies PROVE MissEntry(p) \in CallerStates
  BY DEF MissEntry, MissPolicies, CallerStates

\* The ends of missSyncWriteThenReturn.
LEMMA SyncReturnedType ==
    ASSUME TypeOK, NEW c \in Callers, SyncReturned(c), UNCHANGED <<pol, bval>>
    PROVE  lock' \in 0..1 /\ CallerTyped' /\ BgTyped'
  <1>1. CallerTyped /\ BgTyped
    BY TypeGroups
  <1>2. CallerTyped'
    BY <1>1, ReturnType DEF SyncReturned
  <1>3. now + AheadDelay \in Nat
    BY AheadDelayNat DEF TypeOK
  <1>4. BgTyped'
    BY <1>1, <1>3 DEF SyncReturned, Spawn, BgTyped, BgStates
  <1>5. QED
    BY <1>2, <1>4 DEF SyncReturned

LEMMA SyncFailedType ==
    ASSUME TypeOK, NEW c \in Callers, SyncFailed(c), UNCHANGED <<pol, bval>>
    PROVE  lock' \in 0..1 /\ CallerTyped' /\ BgTyped'
  <1>1. CallerTyped /\ BgTyped
    BY TypeGroups
  <1>2. CallerTyped'
    BY <1>1, ReturnType DEF SyncFailed
  <1>3. QED
    BY <1>1, <1>2 DEF SyncFailed, BgTyped

\* handleHitRefresh and the miss dispatch of GetOrRefresh.
LEMMA HitRefreshType ==
    ASSUME TypeOK, NEW c \in Callers, HitRefresh(c),
           UNCHANGED <<pol, bval, bwake>>
    PROVE  CallerTyped' /\ BgTyped' /\ LockerTyped'
  <1>1. CallerTyped /\ BgTyped /\ LockerTyped
    BY TypeGroups
  <1>2. pol' = pol /\ bval' = bval /\ bwake' = bwake
    OBVIOUS
  <1>3. LockerTyped'
    BY <1>1, LockerFrame DEF HitRefresh
  <1>4. CASE Return(c) /\ UNCHANGED bpc
    <2>1. CallerTyped'
      BY <1>1, <1>2, <1>4, ReturnType
    <2>2. QED
      BY <1>1, <1>2, <1>3, <1>4, <2>1 DEF BgTyped
  <1>5. CASE pc' = [pc EXCEPT ![c] = "ra_ttl"] /\ UNCHANGED <<gv, cstart, bpc>>
    BY <1>1, <1>2, <1>3, <1>5 DEF CallerTyped, BgTyped, CallerStates
  <1>6. CASE Return(c) /\ \E s \in BgStates : Spawn(c, s)
    <2>1. CallerTyped'
      BY <1>1, <1>2, <1>6, ReturnType
    <2>2. BgTyped'
      BY <1>1, <1>2, <1>6, SpawnType
    <2>3. QED
      BY <1>3, <2>1, <2>2
  <1>7. QED
    <2>1. \A b \in BOOLEAN : (IF b THEN "br_trylock" ELSE "none") \in BgStates
      BY DEF BgStates
    <2>2. "br_trylock" \in BgStates /\ "none" \in BgStates
      BY DEF BgStates
    <2>3. \/ Return(c) /\ UNCHANGED bpc
          \/ pc' = [pc EXCEPT ![c] = "ra_ttl"] /\ UNCHANGED <<gv, cstart, bpc>>
          \/ Return(c) /\ \E s \in BgStates : Spawn(c, s)
      BY <2>1, <2>2 DEF HitRefresh, ProbOutcomes
    <2>4. QED
      BY <1>3, <1>4, <1>5, <1>6, <2>3

LEMMA MissDispatchType ==
    ASSUME TypeOK, NEW c \in Callers, MissDispatch(c),
           UNCHANGED <<pol, bval, bwake>>
    PROVE  CallerTyped' /\ BgTyped' /\ LockerTyped'
  <1>1. CallerTyped /\ BgTyped /\ LockerTyped
    BY TypeGroups
  <1>2. pol' = pol /\ bval' = bval /\ bwake' = bwake
    OBVIOUS
  <1>3. BgTyped'
    BY <1>1, <1>2 DEF MissDispatch, BgTyped
  <1>4. CASE pol[c] # "CooperativeRefresh"
    <2>1. MissEntry(pol[c]) \in CallerStates
      BY <1>1, MissEntryType DEF CallerTyped
    <2>2. CallerTyped'
      BY <1>1, <1>2, <1>4, <2>1 DEF MissDispatch, CallerTyped
    <2>3. LockerTyped'
      BY <1>1, <1>4, LockerFrame DEF MissDispatch
    <2>4. QED
      BY <1>3, <2>2, <2>3
  <1>5. CASE pol[c] = "CooperativeRefresh"
    <2>0. /\ pc' = [pc EXCEPT ![c] = "coop_wait"]
          /\ lpc' = [lpc EXCEPT ![c] = "lg_lock"]
          /\ done' = [done EXCEPT ![c] = FALSE]
          /\ cstart' = [cstart EXCEPT ![c] = now]
          /\ gv' = gv
      BY <1>5 DEF MissDispatch
    <2>1. CallerTyped'
      BY <1>1, <1>2, <2>0 DEF CallerTyped, TypeOK, CallerStates
    <2>2. lpc' \in [Callers -> LockerStates]
      BY <1>1, <2>0 DEF LockerTyped, LockerStates
    <2>3. done' \in [Callers -> BOOLEAN]
      BY <1>1, <2>0 DEF LockerTyped
    <2>4. QED
      BY <1>3, <2>1, <2>2, <2>3 DEF LockerTyped
  <1>6. QED
    BY <1>4, <1>5

-----------------------------------------------------------------------------
(* One lemma per action: the action keeps TypeOK.                         *)

LEMMA StartType ==
    ASSUME TypeOK, NEW c \in Callers, Start(c) PROVE TypeOK'
  <1>1. ScalarTyped /\ StoreTyped /\ CallerTyped /\ BgTyped /\ LockerTyped
    BY TypeGroups
  <1>2. ScalarTyped'
    BY <1>1, ConstantsAssumption DEF Start, ScalarTyped
  <1>3. StoreTyped' /\ BgTyped'
    BY <1>1, StoreFrame, BgFrame DEF Start
  <1>4. CallerTyped'
    BY <1>1, ConstantsAssumption DEF Start, CallerTyped, CallerStates
  <1>5. LockerTyped'
    BY <1>1 DEF Start, LockerTyped
  <1>6. QED
    BY <1>2, <1>3, <1>4, <1>5, TypeFromGroups

LEMMA AppSetType ==
    ASSUME TypeOK, NEW c \in Callers, AppSet(c) PROVE TypeOK'
  <1>1. ScalarTyped /\ StoreTyped /\ CallerTyped /\ BgTyped /\ LockerTyped
    BY TypeGroups
  <1>2. ScalarTyped'
    BY <1>1, ConstantsAssumption DEF AppSet, NextVersion, ScalarTyped
  <1>3. CallerTyped' /\ BgTyped' /\ LockerTyped'
    BY <1>1, CallerFrame, BgFrame, LockerFrame DEF AppSet
  <1>4. StoreTyped'
    <2>1. /\ cache' \in Entry \cup {NoEntry}
          /\ lastRefresh' \in 0..MaxTime \cup {NoTime}
          /\ filled' \in BOOLEAN
      BY HandlerSetType DEF AppSet, TypeOK
    <2>2. QED
      BY <1>1, <2>1 DEF AppSet, StoreTyped
  <1>5. QED
    BY <1>2, <1>3, <1>4, TypeFromGroups

LEMMA LookupType ==
    ASSUME TypeOK, NEW c \in Callers, Lookup(c) PROVE TypeOK'
  <1>1. ScalarTyped /\ StoreTyped /\ CallerTyped /\ BgTyped /\ LockerTyped
    BY TypeGroups
  <1>2. ScalarTyped' /\ StoreTyped'
    BY <1>1, StoreFrame DEF Lookup, ScalarTyped
  <1>3. PICK ok \in Backend :
          \/ ~ok /\ Return(c) /\ UNCHANGED <<bpc, lvars>>
          \/ ok /\ Live(cache) /\ HitRefresh(c)
          \/ ok /\ ~Live(cache) /\ MissDispatch(c)
    BY DEF Lookup
  <1>4. UNCHANGED <<pol, bval, bwake>>
    BY DEF Lookup
  <1>5. CallerTyped' /\ BgTyped' /\ LockerTyped'
    <2>1. CASE Return(c) /\ UNCHANGED <<bpc, lvars>>
      BY <1>1, <1>4, <2>1, ReturnType, LockerFrame DEF BgTyped
    <2>2. CASE HitRefresh(c)
      BY <1>4, <2>2, HitRefreshType
    <2>3. CASE MissDispatch(c)
      BY <1>4, <2>3, MissDispatchType
    <2>4. QED
      BY <1>3, <2>1, <2>2, <2>3
  <1>6. QED
    BY <1>2, <1>5, TypeFromGroups

LEMMA HitTTLProbeType ==
    ASSUME TypeOK, NEW c \in Callers, HitTTLProbe(c) PROVE TypeOK'
  <1>1. ScalarTyped /\ StoreTyped /\ CallerTyped /\ BgTyped /\ LockerTyped
    BY TypeGroups
  <1>2. ScalarTyped' /\ StoreTyped' /\ LockerTyped'
    BY <1>1, StoreFrame, LockerFrame DEF HitTTLProbe, ScalarTyped
  <1>3. CallerTyped'
    BY <1>1, ReturnType DEF HitTTLProbe
  <1>4. BgTyped'
    <2>1. \E s \in BgStates : Spawn(c, s)
      BY DEF HitTTLProbe, BgStates
    <2>2. QED
      BY <1>1, <2>1, SpawnType DEF HitTTLProbe
  <1>5. QED
    BY <1>2, <1>3, <1>4, TypeFromGroups

LEMMA SyncLockType ==
    ASSUME TypeOK, NEW c \in Callers, SyncLock(c) PROVE TypeOK'
  <1>1. ScalarTyped /\ StoreTyped /\ CallerTyped /\ BgTyped /\ LockerTyped
    BY TypeGroups
  <1>2. ScalarTyped' /\ CallerTyped'
    BY <1>1 DEF SyncLock, ScalarTyped, CallerTyped, CallerStates
  <1>3. StoreTyped' /\ BgTyped' /\ LockerTyped'
    BY <1>1, StoreFrame, BgFrame, LockerFrame DEF SyncLock
  <1>4. QED
    BY <1>2, <1>3, TypeFromGroups

LEMMA SyncCheckType ==
    ASSUME TypeOK, NEW c \in Callers, SyncCheck(c) PROVE TypeOK'
  <1>1. ScalarTyped /\ StoreTyped /\ CallerTyped /\ BgTyped /\ LockerTyped
    BY TypeGroups
  <1>2. StoreTyped' /\ LockerTyped' /\ UNCHANGED <<now, ver, calls, pol, bval>>
    BY <1>1, StoreFrame, LockerFrame DEF SyncCheck
  <1>3. PICK ok \in Backend :
          \/ ~ok /\ SyncFailed(c)
          \/ ok /\ Live(cache) /\ SyncReturned(c)
          \/ /\ ok /\ ~Live(cache)
             /\ pc' = [pc EXCEPT ![c] = "sync_gen"]
             /\ UNCHANGED <<lock, gv, cstart, bpc, bwake>>
    BY DEF SyncCheck
  <1>4. lock' \in 0..1 /\ CallerTyped' /\ BgTyped'
    <2>1. CASE SyncFailed(c)
      BY <1>2, <2>1, SyncFailedType
    <2>2. CASE SyncReturned(c)
      BY <1>2, <2>2, SyncReturnedType
    <2>3. CASE /\ pc' = [pc EXCEPT ![c] = "sync_gen"]
               /\ UNCHANGED <<lock, gv, cstart, bpc, bwake>>
      BY <1>1, <1>2, <2>3 DEF ScalarTyped, CallerTyped, BgTyped, CallerStates
    <2>4. QED
      BY <1>3, <2>1, <2>2, <2>3
  <1>5. QED
    BY <1>1, <1>2, <1>4, TypeFromGroups DEF ScalarTyped

LEMMA SyncGenType ==
    ASSUME TypeOK, NEW c \in Callers, SyncGen(c) PROVE TypeOK'
  <1>1. ScalarTyped /\ StoreTyped /\ CallerTyped /\ BgTyped /\ LockerTyped
    BY TypeGroups
  <1>2. StoreTyped' /\ LockerTyped' /\ UNCHANGED <<now, calls, pol, bval>>
    BY <1>1, StoreFrame, LockerFrame DEF SyncGen
  <1>3. PICK ok \in Generated :
          \/ /\ ok
             /\ NextVersion
             /\ gv' = [gv EXCEPT ![c] = ver + 1]
             /\ pc' = [pc EXCEPT ![c] = "sync_set"]
             /\ UNCHANGED <<lock, cstart, bpc, bwake>>
          \/ ~ok /\ SyncFailed(c) /\ UNCHANGED ver
    BY DEF SyncGen
  <1>4. CASE /\ NextVersion
             /\ gv' = [gv EXCEPT ![c] = ver + 1]
             /\ pc' = [pc EXCEPT ![c] = "sync_set"]
             /\ UNCHANGED <<lock, cstart, bpc, bwake>>
    BY <1>1, <1>2, <1>4, TypeFromGroups DEF NextVersion, ScalarTyped,
                                           CallerTyped, BgTyped, CallerStates
  <1>5. CASE SyncFailed(c) /\ UNCHANGED ver
    BY <1>1, <1>2, <1>5, SyncFailedType, TypeFromGroups DEF ScalarTyped
  <1>6. QED
    BY <1>3, <1>4, <1>5

LEMMA SyncSetType ==
    ASSUME TypeOK, NEW c \in Callers, SyncSet(c) PROVE TypeOK'
  <1>1. ScalarTyped /\ StoreTyped /\ CallerTyped /\ BgTyped /\ LockerTyped
    BY TypeGroups
  <1>2. LockerTyped' /\ UNCHANGED <<now, ver, calls, stale, created, refreshLog,
                                   pol, bval>>
    BY <1>1, LockerFrame DEF SyncSet
  <1>3. PICK ok \in Backend :
          \/ ok /\ SetMain(gv[c]) /\ SyncReturned(c)
          \/ ~ok /\ SyncFailed(c) /\ UNCHANGED <<cache, lastRefresh, filled>>
    BY DEF SyncSet
  <1>4. lock' \in 0..1 /\ CallerTyped' /\ BgTyped'
    BY <1>2, <1>3, SyncFailedType, SyncReturnedType
  <1>5. StoreTyped'
    <2>1. gv[c] \in Nat
      BY <1>1 DEF CallerTyped
    <2>2. HandlerSet(gv[c])
      BY <1>3 DEF HandlerSet
    <2>3. QED
      BY <1>1, <1>2, <2>1, <2>2, HandlerSetType DEF StoreTyped
  <1>6. QED
    BY <1>1, <1>2, <1>4, <1>5, TypeFromGroups DEF ScalarTyped

LEMMA AsyncGenType ==
    ASSUME TypeOK, NEW c \in Callers, AsyncGen(c) PROVE TypeOK'
  <1>1. ScalarTyped /\ StoreTyped /\ CallerTyped /\ BgTyped /\ LockerTyped
    BY TypeGroups
  <1>2. StoreTyped' /\ LockerTyped' /\ CallerTyped'
        /\ UNCHANGED <<now, lock, calls, bwake>>
    BY <1>1, StoreFrame, LockerFrame, ReturnType DEF AsyncGen
  <1>3. \/ NextVersion /\ bval' = [bval EXCEPT ![c] = ver + 1]
                      /\ Spawn(c, "mw_trylock")
        \/ UNCHANGED <<ver, bpc, bval>>
    BY OkSplit, OutcomeSets DEF AsyncGen
  <1>4. CASE NextVersion /\ bval' = [bval EXCEPT ![c] = ver + 1]
                        /\ Spawn(c, "mw_trylock")
    BY <1>1, <1>2, <1>4, TypeFromGroups DEF NextVersion, Spawn, ScalarTyped,
                                           BgTyped, BgStates
  <1>5. CASE UNCHANGED <<ver, bpc, bval>>
    BY <1>1, <1>2, <1>5, TypeFromGroups DEF ScalarTyped, BgTyped
  <1>6. QED
    BY <1>3, <1>4, <1>5

LEMMA SwrStaleType ==
    ASSUME TypeOK, NEW c \in Callers, SwrStale(c) PROVE TypeOK'
  <1>1. ScalarTyped /\ StoreTyped /\ CallerTyped /\ BgTyped /\ LockerTyped
    BY TypeGroups
  <1>2. ScalarTyped' /\ StoreTyped' /\ LockerTyped'
        /\ UNCHANGED <<pol, bval, bwake>>
    BY <1>1, StoreFrame, LockerFrame DEF SwrStale, ScalarTyped
  <1>3. CASE Return(c) /\ Spawn(c, "sr_trylock")
    BY <1>1, <1>2, <1>3, ReturnType, SpawnType, TypeFromGroups DEF BgStates
  <1>4. CASE pc' = [pc EXCEPT ![c] = "sync_lock"] /\ UNCHANGED <<gv, cstart, bpc>>
    BY <1>1, <1>2, <1>4, TypeFromGroups DEF CallerTyped, BgTyped, CallerStates
  <1>5. QED
    BY <1>3, <1>4 DEF SwrStale

LEMMA CoopGenType ==
    ASSUME TypeOK, NEW c \in Callers, CoopGen(c) PROVE TypeOK'
  <1>1. ScalarTyped /\ StoreTyped /\ CallerTyped /\ BgTyped /\ LockerTyped
    BY TypeGroups
  <1>2. StoreTyped' /\ BgTyped' /\ LockerTyped' /\ CallerTyped'
    BY <1>1, StoreFrame, BgFrame, LockerFrame, ReturnType DEF CoopGen
  <1>3. ver' \in Nat
    BY <1>1 DEF CoopGen, NextVersion, ScalarTyped
  <1>4. QED
    BY <1>1, <1>2, <1>3, TypeFromGroups DEF CoopGen, ScalarTyped

LEMMA BestEffortGenType ==
    ASSUME TypeOK, NEW c \in Callers, BestEffortGen(c) PROVE TypeOK'
  <1>1. ScalarTyped /\ StoreTyped /\ CallerTyped /\ BgTyped /\ LockerTyped
    BY TypeGroups
  <1>2. StoreTyped' /\ BgTyped' /\ LockerTyped' /\ UNCHANGED <<now, lock, calls, pol>>
    BY <1>1, StoreFrame, BgFrame, LockerFrame DEF BestEffortGen
  <1>3. PICK ok \in Generated :
          \/ /\ ok
             /\ NextVersion
             /\ gv' = [gv EXCEPT ![c] = ver + 1]
             /\ pc' = [pc EXCEPT ![c] = "be_set"]
             /\ UNCHANGED cstart
          \/ ~ok /\ Return(c) /\ UNCHANGED ver
    BY DEF BestEffortGen
  <1>4. CASE /\ NextVersion
             /\ gv' = [gv EXCEPT ![c] = ver + 1]
             /\ pc' = [pc EXCEPT ![c] = "be_set"]
             /\ UNCHANGED cstart
    BY <1>1, <1>2, <1>4, TypeFromGroups DEF NextVersion, ScalarTyped,
                                           CallerTyped, CallerStates
  <1>5. CASE Return(c) /\ UNCHANGED ver
    BY <1>1, <1>2, <1>5, ReturnType, TypeFromGroups DEF ScalarTyped
  <1>6. QED
    BY <1>3, <1>4, <1>5

LEMMA BestEffortSetType ==
    ASSUME TypeOK, NEW c \in Callers, BestEffortSet(c) PROVE TypeOK'
  <1>1. ScalarTyped /\ StoreTyped /\ CallerTyped /\ BgTyped /\ LockerTyped
    BY TypeGroups
  <1>2. ScalarTyped' /\ BgTyped' /\ LockerTyped' /\ CallerTyped'
        /\ UNCHANGED <<stale, created, refreshLog>>
    BY <1>1, BgFrame, LockerFrame, ReturnType DEF BestEffortSet, ScalarTyped
  <1>3. StoreTyped'
    BY <1>1, <1>2, HandlerSetType DEF BestEffortSet, StoreTyped, CallerTyped
  <1>4. QED
    BY <1>2, <1>3, TypeFromGroups

LEMMA CoopSelectType ==
    ASSUME TypeOK, NEW c \in Callers, CoopSelect(c) PROVE TypeOK'
  <1>1. ScalarTyped /\ StoreTyped /\ CallerTyped /\ BgTyped /\ LockerTyped
    BY TypeGroups
  <1>2. ScalarTyped' /\ CallerTyped'
    BY <1>1 DEF CoopSelect, ScalarTyped, CallerTyped, CallerStates
  <1>3. StoreTyped' /\ BgTyped' /\ LockerTyped'
    BY <1>1, StoreFrame, BgFrame, LockerFrame DEF CoopSelect
  <1>4. QED
    BY <1>2, <1>3, TypeFromGroups

LEMMA MissWriteTryLockType ==
    ASSUME TypeOK, NEW c \in Callers, MissWriteTryLock(c) PROVE TypeOK'
  <1>1. ScalarTyped /\ StoreTyped /\ CallerTyped /\ BgTyped /\ LockerTyped
    BY TypeGroups
  <1>2. StoreTyped' /\ CallerTyped' /\ LockerTyped'
    BY <1>1, StoreFrame, CallerFrame, LockerFrame DEF MissWriteTryLock
  <1>3. ScalarTyped' /\ BgTyped'
    <2>1. CASE Exit(c) /\ UNCHANGED lock
      BY <1>1, <2>1, ExitType DEF MissWriteTryLock, ScalarTyped
    <2>2. CASE lock' = 1 /\ Spawn(c, "mw_exists") /\ UNCHANGED <<bval, bwake>>
      BY <1>1, <2>2, SpawnType DEF MissWriteTryLock, ScalarTyped, BgStates
    <2>3. QED
      BY <2>1, <2>2 DEF MissWriteTryLock
  <1>4. QED
    BY <1>2, <1>3, TypeFromGroups

LEMMA MissWriteExistsType ==
    ASSUME TypeOK, NEW c \in Callers, MissWriteExists(c) PROVE TypeOK'
  <1>1. ScalarTyped /\ StoreTyped /\ CallerTyped /\ BgTyped /\ LockerTyped
    BY TypeGroups
  <1>2. StoreTyped' /\ CallerTyped' /\ LockerTyped'
    BY <1>1, StoreFrame, CallerFrame, LockerFrame DEF MissWriteExists
  <1>3. ScalarTyped' /\ BgTyped'
    <2>1. CASE lock' = 0 /\ Exit(c)
      BY <1>1, <2>1, ExitType DEF MissWriteExists, ScalarTyped
    <2>2. CASE Spawn(c, "mw_set") /\ UNCHANGED <<lock, bval, bwake>>
      BY <1>1, <2>2, SpawnType DEF MissWriteExists, ScalarTyped, BgStates
    <2>3. QED
      BY <2>1, <2>2 DEF MissWriteExists
  <1>4. QED
    BY <1>2, <1>3, TypeFromGroups

LEMMA MissWriteSetType ==
    ASSUME TypeOK, NEW c \in Callers, MissWriteSet(c) PROVE TypeOK'
  <1>1. ScalarTyped /\ StoreTyped /\ CallerTyped /\ BgTyped /\ LockerTyped
    BY TypeGroups
  <1>2. ScalarTyped' /\ CallerTyped' /\ LockerTyped' /\ BgTyped'
        /\ UNCHANGED <<stale, created, refreshLog>>
    BY <1>1, CallerFrame, LockerFrame, ExitType DEF MissWriteSet, ScalarTyped
  <1>3. StoreTyped'
    BY <1>1, <1>2, HandlerSetType DEF MissWriteSet, StoreTyped, BgTyped
  <1>4. QED
    BY <1>2, <1>3, TypeFromGroups

LEMMA RefreshTryLockType ==
    ASSUME TypeOK, NEW c \in Callers, RefreshTryLock(c) PROVE TypeOK'
  <1>1. ScalarTyped /\ StoreTyped /\ CallerTyped /\ BgTyped /\ LockerTyped
    BY TypeGroups
  <1>2. StoreTyped' /\ CallerTyped' /\ LockerTyped'
    BY <1>1, StoreFrame, CallerFrame, LockerFrame DEF RefreshTryLock
  <1>3. ScalarTyped' /\ BgTyped'
    <2>1. CASE Exit(c) /\ UNCHANGED lock
      BY <1>1, <2>1, ExitType DEF RefreshTryLock, ScalarTyped
    <2>2. CASE lock' = 1 /\ Spawn(c, "br_gen") /\ UNCHANGED <<bval, bwake>>
      BY <1>1, <2>2, SpawnType DEF RefreshTryLock, ScalarTyped, BgStates
    <2>3. QED
      BY <2>1, <2>2 DEF RefreshTryLock
  <1>4. QED
    BY <1>2, <1>3, TypeFromGroups

LEMMA RefreshGenType ==
    ASSUME TypeOK, NEW c \in Callers, RefreshGen(c) PROVE TypeOK'
  <1>1. ScalarTyped /\ StoreTyped /\ CallerTyped /\ BgTyped /\ LockerTyped
    BY TypeGroups
  <1>2. StoreTyped' /\ CallerTyped' /\ LockerTyped' /\ UNCHANGED <<now, calls>>
    BY <1>1, StoreFrame, CallerFrame, LockerFrame DEF RefreshGen
  <1>3. PICK ok \in Generated :
          \/ /\ ok
             /\ NextVersion
             /\ bval' = [bval EXCEPT ![c] = ver + 1]
             /\ Spawn(c, "br_set")
             /\ UNCHANGED <<lock, bwake>>
          \/ ~ok /\ lock' = 0 /\ Exit(c) /\ UNCHANGED ver
    BY DEF RefreshGen
  <1>4. ScalarTyped' /\ BgTyped'
    <2>1. CASE /\ NextVersion
               /\ bval' = [bval EXCEPT ![c] = ver + 1]
               /\ Spawn(c, "br_set")
               /\ UNCHANGED <<lock, bwake>>
      BY <1>1, <1>2, <2>1 DEF NextVersion, Spawn, ScalarTyped, BgTyped, BgStates
    <2>2. CASE lock' = 0 /\ Exit(c) /\ UNCHANGED ver
      BY <1>1, <1>2, <2>2, ExitType DEF ScalarTyped
    <2>3. QED
      BY <1>3, <2>1, <2>2
  <1>5. QED
    BY <1>2, <1>4, TypeFromGroups

LEMMA RefreshSetType ==
    ASSUME TypeOK, NEW c \in Callers, RefreshSet(c) PROVE TypeOK'
  <1>1. ScalarTyped /\ StoreTyped /\ CallerTyped /\ BgTyped /\ LockerTyped
    BY TypeGroups
  <1>2. ScalarTyped' /\ CallerTyped' /\ LockerTyped' /\ BgTyped'
        /\ UNCHANGED <<stale, created>>
    BY <1>1, CallerFrame, LockerFrame, ExitType DEF RefreshSet, ScalarTyped
  <1>3. PICK ok \in Backend :
          \/ ok /\ SetMain(bval[c]) /\ refreshLog' = Append(refreshLog, now)
          \/ ~ok /\ UNCHANGED <<cache, lastRefresh, filled, refreshLog>>
    BY DEF RefreshSet
  <1>4. /\ cache' \in Entry \cup {NoEntry}
        /\ lastRefresh' \in 0..MaxTime \cup {NoTime}
        /\ filled' \in BOOLEAN
    BY <1>1, <1>3, HandlerSetType DEF HandlerSet, BgTyped
  <1>5. refreshLog' \in Seq(0..MaxTime)
    <2>1. CASE refreshLog' = Append(refreshLog, now)
      BY <1>1, <2>1 DEF StoreTyped, ScalarTyped
    <2>2. CASE UNCHANGED refreshLog
      BY <1>1, <2>2 DEF StoreTyped
    <2>3. QED
      BY <1>3, <2>1, <2>2
  <1>6. QED
    BY <1>1, <1>2, <1>4, <1>5, TypeFromGroups DEF StoreTyped

LEMMA StaleTryLockType ==
    ASSUME TypeOK, NEW c \in Callers, StaleTryLock(c) PROVE TypeOK'
  <1>1. ScalarTyped /\ StoreTyped /\ CallerTyped /\ BgTyped /\ LockerTyped
    BY TypeGroups
  <1>2. StoreTyped' /\ CallerTyped' /\ LockerTyped'
    BY <1>1, StoreFrame, CallerFrame, LockerFrame DEF StaleTryLock
  <1>3. ScalarTyped' /\ BgTyped'
    <2>1. CASE Exit(c) /\ UNCHANGED lock
      BY <1>1, <2>1, ExitType DEF StaleTryLock, ScalarTyped
    <2>2. CASE lock' = 1 /\ Spawn(c, "sr_gen") /\ UNCHANGED <<bval, bwake>>
      BY <1>1, <2>2, SpawnType DEF StaleTryLock, ScalarTyped, BgStates
    <2>3. QED
      BY <2>1, <2>2 DEF StaleTryLock
  <1>4. QED
    BY <1>2, <1>3, TypeFromGroups

LEMMA StaleGenType ==
    ASSUME TypeOK, NEW c \in Callers, StaleGen(c) PROVE TypeOK'
  <1>1. ScalarTyped /\ StoreTyped /\ CallerTyped /\ BgTyped /\ LockerTyped
    BY TypeGroups
  <1>2. StoreTyped' /\ CallerTyped' /\ LockerTyped' /\ UNCHANGED <<now, calls>>
    BY <1>1, StoreFrame, CallerFrame, LockerFrame DEF StaleGen
  <1>3. PICK ok \in Generated :
          \/ /\ ok
             /\ NextVersion
             /\ bval' = [bval EXCEPT ![c] = ver + 1]
             /\ Spawn(c, "sr_set")
             /\ UNCHANGED <<lock, bwake>>
          \/ ~ok /\ lock' = 0 /\ Exit(c) /\ UNCHANGED ver
    BY DEF StaleGen
  <1>4. ScalarTyped' /\ BgTyped'
    <2>1. CASE /\ NextVersion
               /\ bval' = [bval EXCEPT ![c] = ver + 1]
               /\ Spawn(c, "sr_set")
               /\ UNCHANGED <<lock, bwake>>
      BY <1>1, <1>2, <2>1 DEF NextVersion, Spawn, ScalarTyped, BgTyped, BgStates
    <2>2. CASE lock' = 0 /\ Exit(c) /\ UNCHANGED ver
      BY <1>1, <1>2, <2>2, ExitType DEF ScalarTyped
    <2>3. QED
      BY <1>3, <2>1, <2>2
  <1>5. QED
    BY <1>2, <1>4, TypeFromGroups

LEMMA StaleSetMainType ==
    ASSUME TypeOK, NEW c \in Callers, StaleSetMain(c) PROVE TypeOK'
  <1>1. ScalarTyped /\ StoreTyped /\ CallerTyped /\ BgTyped /\ LockerTyped
    BY TypeGroups
  <1>2. ScalarTyped' /\ CallerTyped' /\ LockerTyped' /\ BgTyped'
        /\ UNCHANGED <<stale, created, refreshLog>>
    BY <1>1, CallerFrame, LockerFrame, SpawnType DEF StaleSetMain, ScalarTyped,
                                                     BgStates
  <1>3. StoreTyped'
    BY <1>1, <1>2, HandlerSetType DEF StaleSetMain, StoreTyped, BgTyped
  <1>4. QED
    BY <1>2, <1>3, TypeFromGroups

LEMMA StaleSetStaleType ==
    ASSUME TypeOK, NEW c \in Callers, StaleSetStale(c) PROVE TypeOK'
  <1>1. ScalarTyped /\ StoreTyped /\ CallerTyped /\ BgTyped /\ LockerTyped
    BY TypeGroups
  <1>2. ScalarTyped' /\ CallerTyped' /\ LockerTyped' /\ BgTyped'
    BY <1>1, CallerFrame, LockerFrame, ExitType DEF StaleSetStale, ScalarTyped
  <1>3. stale' \in Entry \cup {NoEntry}
    <2>1. now + StaleTTL \in Nat /\ bval[c] \in Nat
      BY <1>1, ConstantsAssumption DEF ScalarTyped, BgTyped
    <2>2. QED
      BY <1>1, <2>1 DEF StaleSetStale, StoreTyped, Entry
  <1>4. StoreTyped'
    BY <1>1, <1>3 DEF StaleSetStale, StoreTyped
  <1>5. QED
    BY <1>2, <1>4, TypeFromGroups

LEMMA AheadWakeType ==
    ASSUME TypeOK, NEW c \in Callers, AheadWake(c) PROVE TypeOK'
  <1>1. ScalarTyped /\ StoreTyped /\ CallerTyped /\ BgTyped /\ LockerTyped
    BY TypeGroups
  <1>2. ScalarTyped' /\ StoreTyped' /\ CallerTyped' /\ LockerTyped'
    BY <1>1, StoreFrame, CallerFrame, LockerFrame DEF AheadWake, ScalarTyped
  <1>3. BgTyped'
    BY <1>1 DEF AheadWake, Spawn, BgTyped, BgStates
  <1>4. QED
    BY <1>2, <1>3, TypeFromGroups

LEMMA AheadExistsType ==
    ASSUME TypeOK, NEW c \in Callers, AheadExists(c) PROVE TypeOK'
  <1>1. ScalarTyped /\ StoreTyped /\ CallerTyped /\ BgTyped /\ LockerTyped
    BY TypeGroups
  <1>2. ScalarTyped' /\ StoreTyped' /\ CallerTyped' /\ LockerTyped'
    BY <1>1, StoreFrame, CallerFrame, LockerFrame DEF AheadExists, ScalarTyped
  <1>3. BgTyped'
    <2>1. CASE Spawn(c, "br_trylock") /\ UNCHANGED <<bval, bwake>>
      BY <1>1, <2>1, SpawnType DEF BgStates
    <2>2. CASE Exit(c)
      BY <1>1, <2>2, ExitType
    <2>3. QED
      BY <2>1, <2>2 DEF AheadExists
  <1>4. QED
    BY <1>2, <1>3, TypeFromGroups

LEMMA ProbCreatedType ==
    ASSUME TypeOK, NEW c \in Callers, ProbCreated(c) PROVE TypeOK'
  <1>1. ScalarTyped /\ StoreTyped /\ CallerTyped /\ BgTyped /\ LockerTyped
    BY TypeGroups
  <1>2. ScalarTyped' /\ CallerTyped' /\ LockerTyped' /\ BgTyped'
    BY <1>1, CallerFrame, LockerFrame, ExitType DEF ProbCreated, ScalarTyped
  <1>3. StoreTyped'
    BY <1>1 DEF ProbCreated, StoreTyped, ScalarTyped
  <1>4. QED
    BY <1>2, <1>3, TypeFromGroups

LEMMA LockerType ==
    ASSUME TypeOK, NEW c \in Callers, Locker(c) PROVE TypeOK'
  <1>1. ScalarTyped /\ StoreTyped /\ CallerTyped /\ BgTyped /\ LockerTyped
    BY TypeGroups
  <1>2. ScalarTyped' /\ LockerTyped'
    <2>1. CASE LockerAcquire(c)
      BY <1>1, <2>1 DEF LockerAcquire, ScalarTyped, LockerTyped, LockerStates
    <2>2. CASE LockerRelease(c)
      BY <1>1, <2>2 DEF LockerRelease, ScalarTyped, LockerTyped, LockerStates
    <2>3. QED
      BY <2>1, <2>2 DEF Locker
  <1>3. StoreTyped' /\ CallerTyped' /\ BgTyped'
    BY <1>1, StoreFrame, CallerFrame, BgFrame DEF Locker, LockerAcquire,
                                                 LockerRelease
  <1>4. QED
    BY <1>2, <1>3, TypeFromGroups

\* Every step keeps the state well typed.
THEOREM TypeStep == TypeOK /\ [Next]_vars => TypeOK'
  <1> SUFFICES ASSUME TypeOK, [Next]_vars PROVE TypeOK'
    OBVIOUS
  <1>1. CASE Tick
    <2>1. ScalarTyped /\ StoreTyped /\ CallerTyped /\ BgTyped /\ LockerTyped
      BY TypeGroups
    <2>2. StoreTyped' /\ CallerTyped' /\ BgTyped' /\ LockerTyped'
      <3>1. UNCHANGED store /\ UNCHANGED cvars /\ UNCHANGED bvars
            /\ UNCHANGED lvars
        BY <1>1 DEF Tick
      <3>2. QED
        BY <2>1, <3>1, StoreFrame, CallerFrame, BgFrame, LockerFrame
    <2>3. ScalarTyped'
      BY <1>1, <2>1, ConstantsAssumption DEF Tick, ScalarTyped
    <2>4. QED
      BY <2>2, <2>3, TypeFromGroups
  <1>2. CASE Finished \/ UNCHANGED vars
    BY <1>2 DEF Finished, TypeOK, vars, store, cvars, bvars, lvars
  <1>3. ASSUME NEW c \in Callers, Caller(c) PROVE TypeOK'
    BY <1>3, StartType, AppSetType, LookupType, HitTTLProbeType, SyncLockType,
       SyncCheckType, SyncGenType, SyncSetType, AsyncGenType, SwrStaleType,
       CoopSelectType, CoopGenType, BestEffortGenType, BestEffortSetType
    DEF Caller
  <1>4. ASSUME NEW c \in Callers, Background(c) PROVE TypeOK'
    BY <1>4, MissWriteTryLockType, MissWriteExistsType, MissWriteSetType,
       RefreshTryLockType, RefreshGenType, RefreshSetType, StaleTryLockType,
       StaleGenType, StaleSetMainType, StaleSetStaleType, AheadWakeType,
       AheadExistsType, ProbCreatedType
    DEF Background
  <1>5. ASSUME NEW c \in Callers, Locker(c) PROVE TypeOK'
    BY <1>5, LockerType
  <1>6. QED
    BY <1>1, <1>2, <1>3, <1>4, <1>5 DEF Next

(* TypeOK holds in every reachable state: every goroutine is at a place of *)
(* its handler, the key's channel holds at most one token, and the ledger  *)
(* and the backend hold timestamps and entries of the right shape.        *)
THEOREM TypeCorrect == Spec => []TypeOK
  BY TypeInit, TypeStep, PTL DEF Spec

-----------------------------------------------------------------------------
(* Mutual exclusion on the key's lock.                                     *)

\* No goroutine enters or leaves the critical section.
LEMMA ExclFrame ==
    ASSUME LockExclusive, lock' = lock,
           \A d \in Callers, l \in Kinds : Holds(d, l)' <=> Holds(d, l)
    PROVE  LockExclusive'
  BY DEF LockExclusive

\* Goroutine k of caller c takes the free lock (Lock or a successful TryLock).
LEMMA ExclAcquire ==
    ASSUME LockExclusive, lock = 0, lock' = 1,
           NEW c \in Callers, NEW k \in Kinds, Holds(c, k)',
           \A d \in Callers, l \in Kinds :
               d # c \/ l # k => (Holds(d, l)' <=> Holds(d, l))
    PROVE  LockExclusive'
  BY DEF LockExclusive

\* Goroutine k of caller c, the holder, runs its unlock.
LEMMA ExclRelease ==
    ASSUME LockExclusive, NEW c \in Callers, NEW k \in Kinds,
           Holds(c, k), lock' = 0, ~Holds(c, k)',
           \A d \in Callers, l \in Kinds :
               d # c \/ l # k => (Holds(d, l)' <=> Holds(d, l))
    PROVE  LockExclusive'
  BY DEF LockExclusive

LEMMA StartExcl ==
    ASSUME LockInv, NEW c \in Callers, Start(c)
    PROVE  LockExclusive' /\ CompanionsScoped'
  <1>1. \A d \in Callers, l \in Kinds : Holds(d, l)' <=> Holds(d, l)
    BY DEF LockInv, TypeOK, CompanionsScoped, Holds, Start, Return, Exit, Spawn, CallerHolds, BgHolds, Kinds, store, cvars, bvars, lvars
  <1>2. CompanionsScoped'
    BY DEF LockInv, TypeOK, CompanionsScoped, Start, Return, Exit, Spawn, CallerHolds, BgHolds, Kinds, store, cvars, bvars, lvars
  <1>3. QED
    BY <1>1, <1>2, ExclFrame DEF LockInv, Start

LEMMA AppSetExcl ==
    ASSUME LockInv, NEW c \in Callers, AppSet(c)
    PROVE  LockExclusive' /\ CompanionsScoped'
  <1>1. \A d \in Callers, l \in Kinds : Holds(d, l)' <=> Holds(d, l)
    BY DEF LockInv, TypeOK, CompanionsScoped, Holds, AppSet, Return, Exit, Spawn, CallerHolds, BgHolds, Kinds, store, cvars, bvars, lvars
  <1>2. CompanionsScoped'
    BY DEF LockInv, TypeOK, CompanionsScoped, AppSet, Return, Exit, Spawn, CallerHolds, BgHolds, Kinds, store, cvars, bvars, lvars
  <1>3. QED
    BY <1>1, <1>2, ExclFrame DEF LockInv, AppSet

LEMMA HitTTLProbeExcl ==
    ASSUME LockInv, NEW c \in Callers, HitTTLProbe(c)
    PROVE  LockExclusive' /\ CompanionsScoped'
  <1>1. \A d \in Callers, l \in Kinds : Holds(d, l)' <=> Holds(d, l)
    BY DEF LockInv, TypeOK, CompanionsScoped, Holds, HitTTLProbe, Return, Exit, Spawn, CallerHolds, BgHolds, Kinds, store, cvars, bvars, lvars
  <1>2. CompanionsScoped'
    BY DEF LockInv, TypeOK, CompanionsScoped, HitTTLProbe, Return, Exit, Spawn, CallerHolds, BgHolds, Kinds, store, cvars, bvars, lvars
  <1>3. QED
    BY <1>1, <1>2, ExclFrame DEF LockInv, HitTTLProbe

LEMMA SwrStaleExcl ==
    ASSUME LockInv, NEW c \in Callers, SwrStale(c)
    PROVE  LockExclusive' /\ CompanionsScoped'
  <1>1. \A d \in Callers, l \in Kinds : Holds(d, l)' <=> Holds(d, l)
    BY DEF LockInv, TypeOK, CompanionsScoped, Holds, SwrStale, Return, Exit, Spawn, CallerHolds, BgHolds, Kinds, store, cvars, bvars, lvars
  <1>2. CompanionsScoped'
    BY DEF LockInv, TypeOK, CompanionsScoped, SwrStale, Return, Exit, Spawn, CallerHolds, BgHolds, Kinds, store, cvars, bvars, lvars
  <1>3. QED
    BY <1>1, <1>2, ExclFrame DEF LockInv, SwrStale

LEMMA CoopSelectExcl ==
    ASSUME LockInv, NEW c \in Callers, CoopSelect(c)
    PROVE  LockExclusive' /\ CompanionsScoped'
  <1>1. \A d \in Callers, l \in Kinds : Holds(d, l)' <=> Holds(d, l)
    BY DEF LockInv, TypeOK, CompanionsScoped, Holds, CoopSelect, Return, Exit, Spawn, CallerHolds, BgHolds, Kinds, store, cvars, bvars, lvars
  <1>2. CompanionsScoped'
    BY DEF LockInv, TypeOK, CompanionsScoped, CoopSelect, Return, Exit, Spawn, CallerHolds, BgHolds, Kinds, store, cvars, bvars, lvars
  <1>3. QED
    BY <1>1, <1>2, ExclFrame DEF LockInv, CoopSelect

LEMMA CoopGenExcl ==
    ASSUME LockInv, NEW c \in Callers, CoopGen(c)
    PROVE  LockExclusive' /\ CompanionsScoped'
  <1>1. \A d \in Callers, l \in Kinds : Holds(d, l)' <=> Holds(d, l)
    BY DEF LockInv, TypeOK, CompanionsScoped, Holds, CoopGen, Return, Exit, Spawn, CallerHolds, BgHolds, Kinds, store, cvars, bvars, lvars
  <1>2. CompanionsScoped'
    BY DEF LockInv, TypeOK, CompanionsScoped, CoopGen, Return, Exit, Spawn, CallerHolds, BgHolds, Kinds, store, cvars, bvars, lvars
  <1>3. QED
    BY <1>1, <1>2, ExclFrame DEF LockInv, CoopGen

LEMMA BestEffortGenExcl ==
    ASSUME LockInv, NEW c \in Callers, BestEffortGen(c)
    PROVE  LockExclusive' /\ CompanionsScoped'
  <1>1. \A d \in Callers, l \in Kinds : Holds(d, l)' <=> Holds(d, l)
    BY DEF LockInv, TypeOK, CompanionsScoped, Holds, BestEffortGen, Return, Exit, Spawn, CallerHolds, BgHolds, Kinds, store, cvars, bvars, lvars
  <1>2. CompanionsScoped'
    BY DEF LockInv, TypeOK, CompanionsScoped, BestEffortGen, Return, Exit, Spawn, CallerHolds, BgHolds, Kinds, store, cvars, bvars, lvars
  <1>3. QED
    BY <1>1, <1>2, ExclFrame DEF LockInv, BestEffortGen

LEMMA BestEffortSetExcl ==
    ASSUME LockInv, NEW c \in Callers, BestEffortSet(c)
    PROVE  LockExclusive' /\ CompanionsScoped'
  <1>1. \A d \in Callers, l \in Kinds : Holds(d, l)' <=> Holds(d, l)
    BY DEF LockInv, TypeOK, CompanionsScoped, Holds, BestEffortSet, Return, Exit, Spawn, CallerHolds, BgHolds, Kinds, store, cvars, bvars, lvars
  <1>2. CompanionsScoped'
    BY DEF LockInv, TypeOK, CompanionsScoped, BestEffortSet, Return, Exit, Spawn, CallerHolds, BgHolds, Kinds, store, cvars, bvars, lvars
  <1>3. QED
    BY <1>1, <1>2, ExclFrame DEF LockInv, BestEffortSet

LEMMA AheadWakeExcl ==
    ASSUME LockInv, NEW c \in Callers, AheadWake(c)
    PROVE  LockExclusive' /\ CompanionsScoped'
  <1>1. \A d \in Callers, l \in Kinds : Holds(d, l)' <=> Holds(d, l)
    BY DEF LockInv, TypeOK, CompanionsScoped, Holds, AheadWake, Return, Exit, Spawn, CallerHolds, BgHolds, Kinds, store, cvars, bvars, lvars
  <1>2. CompanionsScoped'
    BY DEF LockInv, TypeOK, CompanionsScoped, AheadWake, Return, Exit, Spawn, CallerHolds, BgHolds, Kinds, store, cvars, bvars, lvars
  <1>3. QED
    BY <1>1, <1>2, ExclFrame DEF LockInv, AheadWake

LEMMA AheadExistsExcl ==
    ASSUME LockInv, NEW c \in Callers, AheadExists(c)
    PROVE  LockExclusive' /\ CompanionsScoped'
  <1>1. \A d \in Callers, l \in Kinds : Holds(d, l)' <=> Holds(d, l)
    BY DEF LockInv, TypeOK, CompanionsScoped, Holds, AheadExists, Return, Exit, Spawn, CallerHolds, BgHolds, Kinds, store, cvars, bvars, lvars
  <1>2. CompanionsScoped'
    BY DEF LockInv, TypeOK, CompanionsScoped, AheadExists, Return, Exit, Spawn, CallerHolds, BgHolds, Kinds, store, cvars, bvars, lvars
  <1>3. QED
    BY <1>1, <1>2, ExclFrame DEF LockInv, AheadExists

LEMMA ProbCreatedExcl ==
    ASSUME LockInv, NEW c \in Callers, ProbCreated(c)
    PROVE  LockExclusive' /\ CompanionsScoped'
  <1>1. \A d \in Callers, l \in Kinds : Holds(d, l)' <=> Holds(d, l)
    BY DEF LockInv, TypeOK, CompanionsScoped, Holds, ProbCreated, Return, Exit, Spawn, CallerHolds, BgHolds, Kinds, store, cvars, bvars, lvars
  <1>2. CompanionsScoped'
    BY DEF LockInv, TypeOK, CompanionsScoped, ProbCreated, Return, Exit, Spawn, CallerHolds, BgHolds, Kinds, store, cvars, bvars, lvars
  <1>3. QED
    BY <1>1, <1>2, ExclFrame DEF LockInv, ProbCreated

LEMMA StaleSetMainExcl ==
    ASSUME LockInv, NEW c \in Callers, StaleSetMain(c)
    PROVE  LockExclusive' /\ CompanionsScoped'
  <1>1. \A d \in Callers, l \in Kinds : Holds(d, l)' <=> Holds(d, l)
    BY DEF LockInv, TypeOK, CompanionsScoped, Holds, StaleSetMain, Return, Exit, Spawn, CallerHolds, BgHolds, Kinds, store, cvars, bvars, lvars
  <1>2. CompanionsScoped'
    BY DEF LockInv, TypeOK, CompanionsScoped, StaleSetMain, Return, Exit, Spawn, CallerHolds, BgHolds, Kinds, store, cvars, bvars, lvars
  <1>3. QED
    BY <1>1, <1>2, ExclFrame DEF LockInv, StaleSetMain

\* No miss handler starts inside the critical section.
LEMMA MissEntryOutside ==
    ASSUME NEW p \in MissPolicies PROVE MissEntry(p) \notin CallerHolds
  BY DEF MissEntry, MissPolicies, CallerHolds

\* handleHitRefresh returns and may start spawnBackgroundRefresh.
LEMMA HitRefreshExcl ==
    ASSUME LockInv, NEW c \in Callers, pc[c] = "get", HitRefresh(c),
           lock' = lock
    PROVE  LockExclusive' /\ CompanionsScoped'
  <1>1. bpc[c] = "none" /\ lpc[c] = "none"
    BY DEF LockInv, CompanionsScoped
  <1>2. CASE Return(c) /\ UNCHANGED <<bpc, lvars>>
    <2>1. \A d \in Callers, l \in Kinds : Holds(d, l)' <=> Holds(d, l)
      BY <1>2 DEF LockInv, TypeOK, Holds, Return, Exit, Spawn, CallerHolds, BgHolds, Kinds, store, cvars, bvars, lvars
    <2>2. CompanionsScoped'
      BY <1>2 DEF LockInv, TypeOK, CompanionsScoped, Return, Exit, Spawn, CallerHolds, BgHolds, Kinds, store, cvars, bvars, lvars
    <2>3. QED
      BY <2>1, <2>2, ExclFrame DEF LockInv
  <1>3. CASE pc' = [pc EXCEPT ![c] = "ra_ttl"] /\ UNCHANGED <<bpc, lvars>>
    <2>1. \A d \in Callers, l \in Kinds : Holds(d, l)' <=> Holds(d, l)
      BY <1>3 DEF LockInv, TypeOK, Holds, Return, Exit, Spawn, CallerHolds, BgHolds, Kinds, store, cvars, bvars, lvars
    <2>2. CompanionsScoped'
      BY <1>1, <1>3 DEF LockInv, TypeOK, CompanionsScoped, Return, Exit, Spawn, CallerHolds, BgHolds, Kinds, store, cvars, bvars, lvars
    <2>3. QED
      BY <2>1, <2>2, ExclFrame DEF LockInv
  <1>4. CASE /\ Return(c) /\ UNCHANGED lvars
             /\ \E s \in {"none", "br_trylock"} : Spawn(c, s)
    <2>1. \A d \in Callers, l \in Kinds : Holds(d, l)' <=> Holds(d, l)
      BY <1>1, <1>4 DEF LockInv, TypeOK, Holds, Return, Exit, Spawn, CallerHolds, BgHolds, Kinds, store, cvars, bvars, lvars
    <2>2. CompanionsScoped'
      BY <1>4 DEF LockInv, TypeOK, CompanionsScoped, Return, Exit, Spawn, CallerHolds, BgHolds, Kinds, store, cvars, bvars, lvars
    <2>3. QED
      BY <2>1, <2>2, ExclFrame DEF LockInv
  <1>5. QED
    <2>1. \A b \in BOOLEAN : (IF b THEN "br_trylock" ELSE "none") \in {"none", "br_trylock"}
      OBVIOUS
    <2>2. \/ Return(c) /\ UNCHANGED <<bpc, lvars>>
          \/ pc' = [pc EXCEPT ![c] = "ra_ttl"] /\ UNCHANGED <<bpc, lvars>>
          \/ /\ Return(c) /\ UNCHANGED lvars
             /\ \E s \in {"none", "br_trylock"} : Spawn(c, s)
      BY <2>1 DEF HitRefresh, ProbOutcomes
    <2>3. QED
      BY <1>2, <1>3, <1>4, <2>2

\* The miss dispatch: a miss handler's first place, or the lock goroutine.
LEMMA MissDispatchExcl ==
    ASSUME LockInv, NEW c \in Callers, pc[c] = "get", MissDispatch(c),
           lock' = lock
    PROVE  LockExclusive' /\ CompanionsScoped'
  <1>1. bpc[c] = "none" /\ lpc[c] = "none"
    BY DEF LockInv, CompanionsScoped
  <1>2. CASE pol[c] # "CooperativeRefresh"
    <2>1. MissEntry(pol[c]) \notin CallerHolds /\ MissEntry(pol[c]) # "get"
      <3>1. pol[c] \in MissPolicies
        BY DEF LockInv, TypeOK
      <3>2. QED
        BY <3>1, MissEntryOutside DEF MissEntry, MissPolicies
    <2>2. pc' = [pc EXCEPT ![c] = MissEntry(pol[c])] /\ UNCHANGED <<bpc, lvars>>
      BY <1>2 DEF MissDispatch
    <2>3. \A d \in Callers, l \in Kinds : Holds(d, l)' <=> Holds(d, l)
      BY <2>1, <2>2 DEF LockInv, TypeOK, Holds, Return, Exit, Spawn, CallerHolds, BgHolds, Kinds, store, cvars, bvars, lvars
    <2>4. CompanionsScoped'
      BY <1>1, <2>1, <2>2 DEF LockInv, TypeOK, CompanionsScoped, Return, Exit, Spawn, CallerHolds, BgHolds, Kinds, store, cvars, bvars, lvars
    <2>5. QED
      BY <2>3, <2>4, ExclFrame DEF LockInv
  <1>3. CASE pol[c] = "CooperativeRefresh"
    <2>1. /\ pc' = [pc EXCEPT ![c] = "coop_wait"]
          /\ lpc' = [lpc EXCEPT ![c] = "lg_lock"]
          /\ UNCHANGED bpc
      BY <1>3 DEF MissDispatch
    <2>2. \A d \in Callers, l \in Kinds : Holds(d, l)' <=> Holds(d, l)
      BY <1>1, <2>1 DEF LockInv, TypeOK, Holds, Return, Exit, Spawn, CallerHolds, BgHolds, Kinds, store, cvars, bvars, lvars
    <2>3. CompanionsScoped'
      BY <1>1, <2>1 DEF LockInv, TypeOK, CompanionsScoped, Return, Exit, Spawn, CallerHolds, BgHolds, Kinds, store, cvars, bvars, lvars
    <2>4. QED
      BY <2>2, <2>3, ExclFrame DEF LockInv
  <1>4. QED
    BY <1>2, <1>3

LEMMA LookupExcl ==
    ASSUME LockInv, NEW c \in Callers, Lookup(c)
    PROVE  LockExclusive' /\ CompanionsScoped'
  <1>1. PICK ok \in Backend :
          \/ ~ok /\ Return(c) /\ UNCHANGED <<bpc, lvars>>
          \/ ok /\ Live(cache) /\ HitRefresh(c)
          \/ ok /\ ~Live(cache) /\ MissDispatch(c)
    BY DEF Lookup
  <1>2. pc[c] = "get" /\ lock' = lock
    BY DEF Lookup
  <1>3. CASE Return(c) /\ UNCHANGED <<bpc, lvars>>
    <2>1. \A d \in Callers, l \in Kinds : Holds(d, l)' <=> Holds(d, l)
      BY <1>2, <1>3 DEF LockInv, TypeOK, Holds, Return, Exit, Spawn, CallerHolds, BgHolds, Kinds, store, cvars, bvars, lvars
    <2>2. CompanionsScoped'
      BY <1>3 DEF LockInv, TypeOK, CompanionsScoped, Return, Exit, Spawn, CallerHolds, BgHolds, Kinds, store, cvars, bvars, lvars
    <2>3. QED
      BY <1>2, <2>1, <2>2, ExclFrame DEF LockInv
  <1>4. QED
    BY <1>1, <1>2, <1>3, HitRefreshExcl, MissDispatchExcl

LEMMA AsyncGenExcl ==
    ASSUME LockInv, NEW c \in Callers, AsyncGen(c)
    PROVE  LockExclusive' /\ CompanionsScoped'
  <1>1. \/ NextVersion /\ bval' = [bval EXCEPT ![c] = ver + 1]
                      /\ Spawn(c, "mw_trylock")
        \/ UNCHANGED <<ver, bpc, bval>>
    BY OkSplit, OutcomeSets DEF AsyncGen
  <1>2. \A d \in Callers, l \in Kinds : Holds(d, l)' <=> Holds(d, l)
    BY <1>1 DEF LockInv, TypeOK, CompanionsScoped, Holds, AsyncGen, Return, Exit, Spawn, CallerHolds, BgHolds, Kinds, store, cvars, bvars, lvars
  <1>3. CompanionsScoped'
    BY <1>1 DEF LockInv, TypeOK, CompanionsScoped, AsyncGen, Return, Exit, Spawn, CallerHolds, BgHolds, Kinds, store, cvars, bvars, lvars
  <1>4. QED
    BY <1>2, <1>3, ExclFrame DEF LockInv, AsyncGen

LEMMA SyncLockExcl ==
    ASSUME LockInv, NEW c \in Callers, SyncLock(c)
    PROVE  LockExclusive' /\ CompanionsScoped'
  <1>1. Holds(c, "caller")'
    BY DEF SyncLock, LockInv, TypeOK, Holds, CallerHolds
  <1>2. \A d \in Callers, l \in Kinds :
            d # c \/ l # "caller" => (Holds(d, l)' <=> Holds(d, l))
    BY DEF LockInv, TypeOK, Holds, SyncLock, Return, Exit, Spawn, CallerHolds, BgHolds, Kinds, store, cvars, bvars, lvars
  <1>3. CompanionsScoped'
    BY DEF LockInv, TypeOK, CompanionsScoped, SyncLock, Return, Exit, Spawn, CallerHolds, BgHolds, Kinds, store, cvars, bvars, lvars
  <1>4. QED
    BY <1>1, <1>2, <1>3, ExclAcquire DEF LockInv, SyncLock, Kinds

\* missSyncWriteThenReturn returns: the deferred unlock, then the rest of
\* the policy's handler may start a background goroutine.
LEMMA SyncEndExcl ==
    ASSUME LockInv, NEW c \in Callers, pc[c] \in CallerHolds,
           SyncReturned(c) \/ SyncFailed(c), UNCHANGED lvars
    PROVE  LockExclusive' /\ CompanionsScoped'
  <1>1. bpc[c] = "none"
    BY DEF LockInv, CompanionsScoped, CallerHolds
  <1>2. /\ lock' = 0
        /\ Return(c)
        /\ \E s \in {"none", "ra_sleep", "pr_created"} : bpc' = [bpc EXCEPT ![c] = s]
    BY <1>1 DEF SyncReturned, SyncFailed, Spawn, LockInv, TypeOK
  <1>3. ~Holds(c, "caller")' /\ Holds(c, "caller")
    BY <1>2 DEF LockInv, TypeOK, Holds, Return, CallerHolds
  <1>4. \A d \in Callers, l \in Kinds :
            d # c \/ l # "caller" => (Holds(d, l)' <=> Holds(d, l))
    BY <1>1, <1>2 DEF LockInv, TypeOK, Holds, Return, Exit, Spawn, CallerHolds, BgHolds, Kinds, store, cvars, bvars, lvars
  <1>5. CompanionsScoped'
    BY <1>2 DEF LockInv, TypeOK, CompanionsScoped, Return, Exit, Spawn, CallerHolds, BgHolds, Kinds, store, cvars, bvars, lvars
  <1>6. QED
    BY <1>2, <1>3, <1>4, <1>5, ExclRelease DEF LockInv, Kinds

LEMMA SyncCheckExcl ==
    ASSUME LockInv, NEW c \in Callers, SyncCheck(c)
    PROVE  LockExclusive' /\ CompanionsScoped'
  <1>1. pc[c] \in CallerHolds /\ UNCHANGED lvars
    BY DEF SyncCheck, CallerHolds
  <1>2. CASE /\ pc' = [pc EXCEPT ![c] = "sync_gen"]
             /\ UNCHANGED <<lock, gv, cstart, bpc, bwake>>
    <2>1. \A d \in Callers, l \in Kinds : Holds(d, l)' <=> Holds(d, l)
      BY <1>1, <1>2 DEF LockInv, TypeOK, Holds, Return, Exit, Spawn, CallerHolds, BgHolds, Kinds, store, cvars, bvars, lvars
    <2>2. CompanionsScoped'
      BY <1>1, <1>2 DEF LockInv, TypeOK, CompanionsScoped, Return, Exit, Spawn, CallerHolds, BgHolds, Kinds, store, cvars, bvars, lvars
    <2>3. QED
      BY <1>2, <2>1, <2>2, ExclFrame DEF LockInv
  <1>3. QED
    BY <1>1, <1>2, SyncEndExcl DEF SyncCheck

LEMMA SyncGenExcl ==
    ASSUME LockInv, NEW c \in Callers, SyncGen(c)
    PROVE  LockExclusive' /\ CompanionsScoped'
  <1>1. pc[c] \in CallerHolds /\ UNCHANGED lvars
    BY DEF SyncGen, CallerHolds
  <1>2. CASE /\ pc' = [pc EXCEPT ![c] = "sync_set"]
             /\ UNCHANGED <<lock, cstart, bpc, bwake>>
    <2>1. \A d \in Callers, l \in Kinds : Holds(d, l)' <=> Holds(d, l)
      BY <1>1, <1>2 DEF LockInv, TypeOK, Holds, Return, Exit, Spawn, CallerHolds, BgHolds, Kinds, store, cvars, bvars, lvars
    <2>2. CompanionsScoped'
      BY <1>1, <1>2 DEF LockInv, TypeOK, CompanionsScoped, Return, Exit, Spawn, CallerHolds, BgHolds, Kinds, store, cvars, bvars, lvars
    <2>3. QED
      BY <1>2, <2>1, <2>2, ExclFrame DEF LockInv
  <1>3. QED
    BY <1>1, <1>2, SyncEndExcl DEF SyncGen

LEMMA SyncSetExcl ==
    ASSUME LockInv, NEW c \in Callers, SyncSet(c)
    PROVE  LockExclusive' /\ CompanionsScoped'
  <1>1. pc[c] \in CallerHolds /\ UNCHANGED lvars
    BY DEF SyncSet, CallerHolds
  <1>2. SyncReturned(c) \/ SyncFailed(c)
    BY DEF SyncSet
  <1>3. QED
    BY <1>1, <1>2, SyncEndExcl

\* The lock goroutine of missCooperativeRefresh.
LEMMA LockerExcl ==
    ASSUME LockInv, NEW c \in Callers, Locker(c)
    PROVE  LockExclusive' /\ CompanionsScoped'
  <1>1. CompanionsScoped'
    BY DEF Locker, LockerAcquire, LockerRelease, LockInv, TypeOK,
           CompanionsScoped, cvars, bvars
  <1>2. \A d \in Callers, l \in Kinds :
            d # c \/ l # "locker" => (Holds(d, l)' <=> Holds(d, l))
    BY DEF Locker, LockerAcquire, LockerRelease, LockInv, TypeOK, Holds,
           Return, Exit, Spawn, CallerHolds, BgHolds, Kinds, store, cvars, bvars, lvars
  <1>3. CASE LockerAcquire(c)
    <2>1. lock = 0 /\ lock' = 1 /\ lpc'[c] = "lg_held"
      BY <1>3 DEF LockerAcquire, LockInv, TypeOK
    <2>2. Holds(c, "locker")' /\ "locker" \in Kinds
      BY <2>1 DEF Holds, Kinds
    <2>3. LockExclusive
      BY DEF LockInv
    <2>4. LockExclusive'
      BY <1>2, <2>1, <2>2, <2>3, ExclAcquire
    <2>5. QED
      BY <1>1, <2>4
  <1>4. CASE LockerRelease(c)
    <2>1. lpc[c] = "lg_held" /\ lock' = 0 /\ lpc'[c] = "none"
      BY <1>4 DEF LockerRelease, LockInv, TypeOK
    <2>2. Holds(c, "locker") /\ ~Holds(c, "locker")' /\ "locker" \in Kinds
      BY <2>1 DEF Holds, Kinds
    <2>3. LockExclusive
      BY DEF LockInv
    <2>4. LockExclusive'
      BY <1>2, <2>1, <2>2, <2>3, ExclRelease
    <2>5. QED
      BY <1>1, <2>4
  <1>5. QED
    BY <1>3, <1>4 DEF Locker

\* A background goroutine moves without taking or releasing the lock.
LEMMA BgMoveExcl ==
    ASSUME LockInv, NEW c \in Callers, bpc[c] # "none",
           UNCHANGED <<lock, cvars, lvars>>,
           NEW s \in BgStates, bpc' = [bpc EXCEPT ![c] = s],
           s \in BgHolds <=> bpc[c] \in BgHolds
    PROVE  LockExclusive' /\ CompanionsScoped'
  <1>1. \A d \in Callers, l \in Kinds : Holds(d, l)' <=> Holds(d, l)
    BY DEF LockInv, TypeOK, Holds, Return, Exit, Spawn, CallerHolds, BgHolds, Kinds, store, cvars, bvars, lvars
  <1>2. CompanionsScoped'
    BY DEF LockInv, TypeOK, CompanionsScoped, Return, Exit, Spawn, CallerHolds, BgHolds, Kinds, store, cvars, bvars, lvars
  <1>3. QED
    BY <1>1, <1>2, ExclFrame DEF LockInv

\* A successful TryLock of a background goroutine.
LEMMA BgAcquireExcl ==
    ASSUME LockInv, NEW c \in Callers, bpc[c] # "none", lock = 0, lock' = 1,
           UNCHANGED <<cvars, lvars>>,
           NEW s \in BgHolds, bpc' = [bpc EXCEPT ![c] = s]
    PROVE  LockExclusive' /\ CompanionsScoped'
  <1>1. Holds(c, "bg")'
    BY DEF LockInv, TypeOK, Holds
  <1>2. \A d \in Callers, l \in Kinds :
            d # c \/ l # "bg" => (Holds(d, l)' <=> Holds(d, l))
    BY DEF LockInv, TypeOK, Holds, Return, Exit, Spawn, CallerHolds, BgHolds, Kinds, store, cvars, bvars, lvars
  <1>3. CompanionsScoped'
    BY DEF LockInv, TypeOK, CompanionsScoped, Return, Exit, Spawn, CallerHolds, BgHolds, Kinds, store, cvars, bvars, lvars
  <1>4. QED
    BY <1>1, <1>2, <1>3, ExclAcquire DEF LockInv, Kinds

\* A background goroutine that holds the lock exits through its unlock.
LEMMA BgReleaseExcl ==
    ASSUME LockInv, NEW c \in Callers, bpc[c] \in BgHolds, lock' = 0,
           UNCHANGED <<cvars, lvars>>, bpc' = [bpc EXCEPT ![c] = "none"]
    PROVE  LockExclusive' /\ CompanionsScoped'
  <1>1. Holds(c, "bg") /\ ~Holds(c, "bg")'
    BY DEF LockInv, TypeOK, Holds, BgHolds
  <1>2. \A d \in Callers, l \in Kinds :
            d # c \/ l # "bg" => (Holds(d, l)' <=> Holds(d, l))
    BY DEF LockInv, TypeOK, Holds, Return, Exit, Spawn, CallerHolds, BgHolds, Kinds, store, cvars, bvars, lvars
  <1>3. CompanionsScoped'
    BY DEF LockInv, TypeOK, CompanionsScoped, Return, Exit, Spawn, CallerHolds, BgHolds, Kinds, store, cvars, bvars, lvars
  <1>4. QED
    BY <1>1, <1>2, <1>3, ExclRelease DEF LockInv, Kinds

LEMMA MissWriteTryLockExcl ==
    ASSUME LockInv, NEW c \in Callers, MissWriteTryLock(c)
    PROVE  LockExclusive' /\ CompanionsScoped'
  <1>1. bpc[c] # "none" /\ UNCHANGED <<cvars, lvars>>
    BY DEF MissWriteTryLock
  <1>2. CASE Exit(c) /\ UNCHANGED lock
    BY <1>1, <1>2, BgMoveExcl DEF Exit, BgStates, BgHolds, MissWriteTryLock
  <1>3. CASE lock = 0 /\ lock' = 1 /\ Spawn(c, "mw_exists")
    BY <1>1, <1>3, BgAcquireExcl DEF Spawn, BgHolds
  <1>4. QED
    BY <1>2, <1>3 DEF MissWriteTryLock

LEMMA MissWriteExistsExcl ==
    ASSUME LockInv, NEW c \in Callers, MissWriteExists(c)
    PROVE  LockExclusive' /\ CompanionsScoped'
  <1>1. bpc[c] \in BgHolds /\ UNCHANGED <<cvars, lvars>>
    BY DEF MissWriteExists, BgHolds
  <1>2. CASE Spawn(c, "mw_set") /\ UNCHANGED lock
    BY <1>1, <1>2, BgMoveExcl DEF Spawn, BgStates, BgHolds
  <1>3. CASE lock' = 0 /\ Exit(c)
    BY <1>1, <1>3, BgReleaseExcl DEF Exit
  <1>4. QED
    BY <1>2, <1>3 DEF MissWriteExists

LEMMA MissWriteSetExcl ==
    ASSUME LockInv, NEW c \in Callers, MissWriteSet(c)
    PROVE  LockExclusive' /\ CompanionsScoped'
  <1>1. bpc[c] \in BgHolds /\ UNCHANGED <<cvars, lvars>> /\ lock' = 0 /\ Exit(c)
    BY DEF MissWriteSet, BgHolds
  <1>2. QED
    BY <1>1, BgReleaseExcl DEF Exit

LEMMA RefreshTryLockExcl ==
    ASSUME LockInv, NEW c \in Callers, RefreshTryLock(c)
    PROVE  LockExclusive' /\ CompanionsScoped'
  <1>1. bpc[c] # "none" /\ UNCHANGED <<cvars, lvars>>
    BY DEF RefreshTryLock
  <1>2. CASE Exit(c) /\ UNCHANGED lock
    BY <1>1, <1>2, BgMoveExcl DEF Exit, BgStates, BgHolds, RefreshTryLock
  <1>3. CASE lock = 0 /\ lock' = 1 /\ Spawn(c, "br_gen")
    BY <1>1, <1>3, BgAcquireExcl DEF Spawn, BgHolds
  <1>4. QED
    BY <1>2, <1>3 DEF RefreshTryLock

LEMMA RefreshGenExcl ==
    ASSUME LockInv, NEW c \in Callers, RefreshGen(c)
    PROVE  LockExclusive' /\ CompanionsScoped'
  <1>1. bpc[c] \in BgHolds /\ UNCHANGED <<cvars, lvars>>
    BY DEF RefreshGen, BgHolds
  <1>2. CASE Spawn(c, "br_set") /\ UNCHANGED lock
    BY <1>1, <1>2, BgMoveExcl DEF Spawn, BgStates, BgHolds
  <1>3. CASE lock' = 0 /\ Exit(c)
    BY <1>1, <1>3, BgReleaseExcl DEF Exit
  <1>4. QED
    BY <1>2, <1>3 DEF RefreshGen

LEMMA RefreshSetExcl ==
    ASSUME LockInv, NEW c \in Callers, RefreshSet(c)
    PROVE  LockExclusive' /\ CompanionsScoped'
  <1>1. bpc[c] \in BgHolds /\ UNCHANGED <<cvars, lvars>> /\ lock' = 0 /\ Exit(c)
    BY DEF RefreshSet, BgHolds
  <1>2. QED
    BY <1>1, BgReleaseExcl DEF Exit

LEMMA StaleTryLockExcl ==
    ASSUME LockInv, NEW c \in Callers, StaleTryLock(c)
    PROVE  LockExclusive' /\ CompanionsScoped'
  <1>1. bpc[c] # "none" /\ UNCHANGED <<cvars, lvars>>
    BY DEF StaleTryLock
  <1>2. CASE Exit(c) /\ UNCHANGED lock
    BY <1>1, <1>2, BgMoveExcl DEF Exit, BgStates, BgHolds, StaleTryLock
  <1>3. CASE lock = 0 /\ lock' = 1 /\ Spawn(c, "sr_gen")
    BY <1>1, <1>3, BgAcquireExcl DEF Spawn, BgHolds
  <1>4. QED
    BY <1>2, <1>3 DEF StaleTryLock

LEMMA StaleGenExcl ==
    ASSUME LockInv, NEW c \in Callers, StaleGen(c)
    PROVE  LockExclusive' /\ CompanionsScoped'
  <1>1. bpc[c] \in BgHolds /\ UNCHANGED <<cvars, lvars>>
    BY DEF StaleGen, BgHolds
  <1>2. CASE Spawn(c, "sr_set") /\ UNCHANGED lock
    BY <1>1, <1>2, BgMoveExcl DEF Spawn, BgStates, BgHolds
  <1>3. CASE lock' = 0 /\ Exit(c)
    BY <1>1, <1>3, BgReleaseExcl DEF Exit
  <1>4. QED
    BY <1>2, <1>3 DEF StaleGen

LEMMA StaleSetStaleExcl ==
    ASSUME LockInv, NEW c \in Callers, StaleSetStale(c)
    PROVE  LockExclusive' /\ CompanionsScoped'
  <1>1. bpc[c] \in BgHolds /\ UNCHANGED <<cvars, lvars>> /\ lock' = 0 /\ Exit(c)
    BY DEF StaleSetStale, BgHolds
  <1>2. QED
    BY <1>1, BgReleaseExcl DEF Exit

THEOREM LockInvInit == Init => LockInv
  <1> SUFFICES ASSUME Init PROVE LockInv
    OBVIOUS
  <1>1. TypeOK
    BY TypeInit
  <1>2. LockExclusive /\ CompanionsScoped
    BY DEF Init, LockExclusive, CompanionsScoped, Holds, CallerHolds, BgHolds,
           Kinds
  <1>3. QED
    BY <1>1, <1>2 DEF LockInv

\* Every step preserves LockInv.
LEMMA LockInvNext == LockInv /\ [Next]_vars => LockInv'
  <1> SUFFICES ASSUME LockInv, [Next]_vars PROVE LockInv'
    OBVIOUS
  <1>1. TypeOK'
    BY TypeStep DEF LockInv
  <1>2. CASE Tick \/ Finished \/ UNCHANGED vars
    <2>1. UNCHANGED <<lock, pc, bpc, lpc>>
      BY <1>2 DEF Tick, Finished, vars, cvars, bvars, lvars
    <2>2. \A d \in Callers, l \in Kinds : Holds(d, l)' <=> Holds(d, l)
      BY <2>1 DEF Holds
    <2>3. CompanionsScoped'
      BY <2>1 DEF LockInv, CompanionsScoped
    <2>4. QED
      BY <1>1, <2>1, <2>2, <2>3, ExclFrame DEF LockInv
  <1>3. ASSUME NEW c \in Callers, Caller(c)
        PROVE  LockExclusive' /\ CompanionsScoped'
    BY <1>3, StartExcl, AppSetExcl, LookupExcl, HitTTLProbeExcl, SyncLockExcl,
       SyncCheckExcl, SyncGenExcl, SyncSetExcl, AsyncGenExcl, SwrStaleExcl,
       CoopSelectExcl, CoopGenExcl, BestEffortGenExcl, BestEffortSetExcl
    DEF Caller
  <1>4. ASSUME NEW c \in Callers, Background(c)
        PROVE  LockExclusive' /\ CompanionsScoped'
    BY <1>4, MissWriteTryLockExcl, MissWriteExistsExcl, MissWriteSetExcl,
       RefreshTryLockExcl, RefreshGenExcl, RefreshSetExcl, StaleTryLockExcl,
       StaleGenExcl, StaleSetMainExcl, StaleSetStaleExcl, AheadWakeExcl,
       AheadExistsExcl, ProbCreatedExcl
    DEF Background
  <1>5. ASSUME NEW c \in Callers, Locker(c)
        PROVE  LockExclusive' /\ CompanionsScoped'
    BY <1>5, LockerExcl
  <1>6. QED
    BY <1>1, <1>2, <1>3, <1>4, <1>5 DEF Next, LockInv

THEOREM LockInvStep == LockInv /\ [Next]_vars => LockInv'
  BY LockInvNext

(* keyedMutex gives mutual exclusion on the key: in every reachable state *)
(* at most one goroutine (a caller in missSyncWriteThenReturn, a          *)
(* background refresh or miss write, or the lock goroutine of            *)
(* missCooperativeRefresh) is between its Lock/TryLock and its unlock, and *)
(* the key's channel is full exactly when one is.                          *)
THEOREM LockExclusiveCorrect == Spec => []LockExclusive
  <1>1. LockInv => LockExclusive
    BY DEF LockInv
  <1>2. QED
    BY <1>1, LockInvInit, LockInvStep, PTL DEF Spec

====
