---------------------- MODULE CacheHandlerWriteProofs ----------------------
(* Proofs about the writes to the key: single flight of                   *)
(* missSyncWriteThenReturn (SyncWriteIntoAbsent) and no version           *)
(* regression (NoVersionRegression), for every value of the constants     *)
(* under which every writer of the key holds its lock: the application    *)
(* does not call Handler.Set and no call uses BestEffort.                  *)
EXTENDS CacheHandlerProofs

\* Only goroutines holding the key's lock write the key.
OnlyLockedWriters == ~AllowAppSet /\ "BestEffort" \notin Policies

\* The places of the goroutines about which WriterKnows says something.
WriterPcs == {"sync_gen", "sync_set"}
WriterBpcs == {"mw_set", "br_set", "sr_set"}
WriterAt(c, k) ==
    \/ k = "caller" /\ pc[c] \in WriterPcs
    \/ k = "bg" /\ bpc[c] \in WriterBpcs

-----------------------------------------------------------------------------
(* Two ways a step keeps WriterKnows.                                      *)

LEMMA WriterHolds ==
    ASSUME NEW c \in Callers, NEW k \in Kinds, WriterAt(c, k) PROVE Holds(c, k)
  BY DEF WriterAt, Holds, WriterPcs, WriterBpcs, CallerHolds, BgHolds

\* A goroutine of caller d that becomes a writer learns, as it does, what
\* WriterKnows says of it.
EntersKnowing(d) ==
    /\ pc'[d] \in WriterPcs => pc[d] \in WriterPcs \/ ~Live(cache)
    /\ bpc'[d] = "mw_set" => bpc[d] = "mw_set" \/ ~Live(cache)
    /\ bpc'[d] \in {"br_set", "sr_set"} /\ cache # NoEntry =>
          \/ bpc[d] \in {"br_set", "sr_set"} /\ bval'[d] = bval[d]
          \/ cache.val < bval'[d]

\* The key and the clock are left alone, and every new writer knows.
LEMMA KnowsQuiet ==
    ASSUME WriterKnows, UNCHANGED <<now, cache>>,
           \A d \in Callers : EntersKnowing(d)
    PROVE  WriterKnows'
  BY DEF WriterKnows, EntersKnowing, WriterPcs, Live

\* The holder of the lock writes the key and stops being a writer, and no
\* other goroutine becomes one: afterwards there is no writer at all.
LEMMA KnowsByHolder ==
    ASSUME LockExclusive, NEW c \in Callers, NEW k \in Kinds, Holds(c, k),
           ~WriterAt(c, k)',
           \A d \in Callers, l \in Kinds : WriterAt(d, l)' => WriterAt(d, l)
    PROVE  WriterKnows'
  <1>1. \A d \in Callers, l \in Kinds : ~WriterAt(d, l)'
    BY WriterHolds DEF LockExclusive
  <1>2. QED
    BY <1>1 DEF WriterKnows, WriterAt, WriterPcs, WriterBpcs, Kinds

-----------------------------------------------------------------------------
(* VersionsBounded: every step keeps the stored and the held values among *)
(* the versions produced so far.                                          *)

\* The shape of every step on the versions: at most one new version, a
\* write of a known version, and a caller's or a goroutine's value reset
\* or set to the new version.
LEMMA VersionsFrame ==
    ASSUME TypeOK, VersionsBounded, NEW c \in Callers,
           ver' = ver \/ ver' = ver + 1,
           cache' = cache \/ (cache' # NoEntry => cache'.val <= ver'),
           gv' = gv \/ gv' = [gv EXCEPT ![c] = 0] \/ gv' = [gv EXCEPT ![c] = ver'],
           bval' = bval \/ bval' = [bval EXCEPT ![c] = 0]
                      \/ bval' = [bval EXCEPT ![c] = ver']
    PROVE  VersionsBounded'
  <1>1. ver \in Nat /\ gv \in [Callers -> Nat] /\ bval \in [Callers -> Nat]
    BY DEF TypeOK
  <1>2. (cache' # NoEntry => cache'.val <= ver')
    <2>1. CASE cache' = cache
      <3>1. cache # NoEntry => cache.val \in Nat /\ cache.val <= ver
        BY DEF TypeOK, Entry, VersionsBounded
      <3>2. QED
        BY <1>1, <2>1, <3>1
    <2>2. QED
      BY <2>1
  <1>3. \A d \in Callers : gv'[d] <= ver'
    BY <1>1 DEF VersionsBounded
  <1>4. \A d \in Callers : bval'[d] <= ver'
    BY <1>1 DEF VersionsBounded
  <1>5. QED
    BY <1>2, <1>3, <1>4 DEF VersionsBounded

\* A successful write by Handler.Set of a version already produced.
LEMMA HandlerSetVersions ==
    ASSUME NEW v \in Nat, v <= ver', HandlerSet(v)
    PROVE  cache' = cache \/ (cache' # NoEntry => cache'.val <= ver')
  BY DEF HandlerSet, SetMain

LEMMA StartVersions ==
    ASSUME TypeOK, VersionsBounded, NEW c \in Callers, Start(c)
    PROVE  VersionsBounded'
  <1>1. ver' = ver \/ ver' = ver + 1
    BY OutcomeSets DEF Start, Return, Exit, Spawn, NextVersion, SyncReturned, SyncFailed, HitRefresh, MissDispatch, store, cvars, bvars, lvars
  <1>2. cache' = cache
    BY DEF Start, Return, Exit, Spawn, NextVersion, SyncReturned, SyncFailed, HitRefresh, MissDispatch, store, cvars, bvars, lvars
  <1>3. gv' = gv \/ gv' = [gv EXCEPT ![c] = 0] \/ gv' = [gv EXCEPT ![c] = ver']
    BY OutcomeSets DEF Start, Return, Exit, Spawn, NextVersion, SyncReturned, SyncFailed, HitRefresh, MissDispatch, store, cvars, bvars, lvars
  <1>4. bval' = bval \/ bval' = [bval EXCEPT ![c] = 0]
                    \/ bval' = [bval EXCEPT ![c] = ver']
    BY OutcomeSets DEF Start, Return, Exit, Spawn, NextVersion, SyncReturned, SyncFailed, HitRefresh, MissDispatch, store, cvars, bvars, lvars
  <1>5. QED
    BY <1>1, <1>2, <1>3, <1>4, VersionsFrame

LEMMA AppSetVersions ==
    ASSUME TypeOK, VersionsBounded, NEW c \in Callers, AppSet(c)
    PROVE  VersionsBounded'
  <1>1. ver' = ver \/ ver' = ver + 1
    BY OutcomeSets DEF AppSet, Return, Exit, Spawn, NextVersion, SyncReturned, SyncFailed, HitRefresh, MissDispatch, store, cvars, bvars, lvars
  <1>2. cache' = cache \/ (cache' # NoEntry => cache'.val <= ver')
    <2>1. ver + 1 \in Nat /\ ver + 1 <= ver' /\ HandlerSet(ver + 1)
      BY <1>1 DEF AppSet, TypeOK, VersionsBounded, NextVersion
    <2>2. QED
      BY <2>1, HandlerSetVersions
  <1>3. gv' = gv \/ gv' = [gv EXCEPT ![c] = 0] \/ gv' = [gv EXCEPT ![c] = ver']
    BY OutcomeSets DEF AppSet, Return, Exit, Spawn, NextVersion, SyncReturned, SyncFailed, HitRefresh, MissDispatch, store, cvars, bvars, lvars
  <1>4. bval' = bval \/ bval' = [bval EXCEPT ![c] = 0]
                    \/ bval' = [bval EXCEPT ![c] = ver']
    BY OutcomeSets DEF AppSet, Return, Exit, Spawn, NextVersion, SyncReturned, SyncFailed, HitRefresh, MissDispatch, store, cvars, bvars, lvars
  <1>5. QED
    BY <1>1, <1>2, <1>3, <1>4, VersionsFrame

LEMMA LookupVersions ==
    ASSUME TypeOK, VersionsBounded, NEW c \in Callers, Lookup(c)
    PROVE  VersionsBounded'
  <1>1. ver' = ver \/ ver' = ver + 1
    BY OutcomeSets DEF Lookup, Return, Exit, Spawn, NextVersion, SyncReturned, SyncFailed, HitRefresh, MissDispatch, store, cvars, bvars, lvars
  <1>2. cache' = cache
    BY DEF Lookup, Return, Exit, Spawn, NextVersion, SyncReturned, SyncFailed, HitRefresh, MissDispatch, store, cvars, bvars, lvars
  <1>3. gv' = gv \/ gv' = [gv EXCEPT ![c] = 0] \/ gv' = [gv EXCEPT ![c] = ver']
    BY OutcomeSets DEF Lookup, Return, Exit, Spawn, NextVersion, SyncReturned, SyncFailed, HitRefresh, MissDispatch, store, cvars, bvars, lvars
  <1>4. bval' = bval \/ bval' = [bval EXCEPT ![c] = 0]
                    \/ bval' = [bval EXCEPT ![c] = ver']
    BY OutcomeSets DEF Lookup, Return, Exit, Spawn, NextVersion, SyncReturned, SyncFailed, HitRefresh, MissDispatch, store, cvars, bvars, lvars
  <1>5. QED
    BY <1>1, <1>2, <1>3, <1>4, VersionsFrame

LEMMA HitTTLProbeVersions ==
    ASSUME TypeOK, VersionsBounded, NEW c \in Callers, HitTTLProbe(c)
    PROVE  VersionsBounded'
  <1>1. ver' = ver \/ ver' = ver + 1
    BY OutcomeSets DEF HitTTLProbe, Return, Exit, Spawn, NextVersion, SyncReturned, SyncFailed, HitRefresh, MissDispatch, store, cvars, bvars, lvars
  <1>2. cache' = cache
    BY DEF HitTTLProbe, Return, Exit, Spawn, NextVersion, SyncReturned, SyncFailed, HitRefresh, MissDispatch, store, cvars, bvars, lvars
  <1>3. gv' = gv \/ gv' = [gv EXCEPT ![c] = 0] \/ gv' = [gv EXCEPT ![c] = ver']
    BY OutcomeSets DEF HitTTLProbe, Return, Exit, Spawn, NextVersion, SyncReturned, SyncFailed, HitRefresh, MissDispatch, store, cvars, bvars, lvars
  <1>4. bval' = bval \/ bval' = [bval EXCEPT ![c] = 0]
                    \/ bval' = [bval EXCEPT ![c] = ver']
    BY OutcomeSets DEF HitTTLProbe, Return, Exit, Spawn, NextVersion, SyncReturned, SyncFailed, HitRefresh, MissDispatch, store, cvars, bvars, lvars
  <1>5. QED
    BY <1>1, <1>2, <1>3, <1>4, VersionsFrame

LEMMA SyncLockVersions ==
    ASSUME TypeOK, VersionsBounded, NEW c \in Callers, SyncLock(c)
    PROVE  VersionsBounded'
  <1>1. ver' = ver \/ ver' = ver + 1
    BY OutcomeSets DEF SyncLock, Return, Exit, Spawn, NextVersion, SyncReturned, SyncFailed, HitRefresh, MissDispatch, store, cvars, bvars, lvars
  <1>2. cache' = cache
    BY DEF SyncLock, Return, Exit, Spawn, NextVersion, SyncReturned, SyncFailed, HitRefresh, MissDispatch, store, cvars, bvars, lvars
  <1>3. gv' = gv \/ gv' = [gv EXCEPT ![c] = 0] \/ gv' = [gv EXCEPT ![c] = ver']
    BY OutcomeSets DEF SyncLock, Return, Exit, Spawn, NextVersion, SyncReturned, SyncFailed, HitRefresh, MissDispatch, store, cvars, bvars, lvars
  <1>4. bval' = bval \/ bval' = [bval EXCEPT ![c] = 0]
                    \/ bval' = [bval EXCEPT ![c] = ver']
    BY OutcomeSets DEF SyncLock, Return, Exit, Spawn, NextVersion, SyncReturned, SyncFailed, HitRefresh, MissDispatch, store, cvars, bvars, lvars
  <1>5. QED
    BY <1>1, <1>2, <1>3, <1>4, VersionsFrame

LEMMA SyncCheckVersions ==
    ASSUME TypeOK, VersionsBounded, NEW c \in Callers, SyncCheck(c)
    PROVE  VersionsBounded'
  <1>1. ver' = ver \/ ver' = ver + 1
    BY OutcomeSets DEF SyncCheck, Return, Exit, Spawn, NextVersion, SyncReturned, SyncFailed, HitRefresh, MissDispatch, store, cvars, bvars, lvars
  <1>2. cache' = cache
    BY DEF SyncCheck, Return, Exit, Spawn, NextVersion, SyncReturned, SyncFailed, HitRefresh, MissDispatch, store, cvars, bvars, lvars
  <1>3. gv' = gv \/ gv' = [gv EXCEPT ![c] = 0] \/ gv' = [gv EXCEPT ![c] = ver']
    BY OutcomeSets DEF SyncCheck, Return, Exit, Spawn, NextVersion, SyncReturned, SyncFailed, HitRefresh, MissDispatch, store, cvars, bvars, lvars
  <1>4. bval' = bval \/ bval' = [bval EXCEPT ![c] = 0]
                    \/ bval' = [bval EXCEPT ![c] = ver']
    BY OutcomeSets DEF SyncCheck, Return, Exit, Spawn, NextVersion, SyncReturned, SyncFailed, HitRefresh, MissDispatch, store, cvars, bvars, lvars
  <1>5. QED
    BY <1>1, <1>2, <1>3, <1>4, VersionsFrame

LEMMA SyncGenVersions ==
    ASSUME TypeOK, VersionsBounded, NEW c \in Callers, SyncGen(c)
    PROVE  VersionsBounded'
  <1>1. ver' = ver \/ ver' = ver + 1
    BY OutcomeSets DEF SyncGen, Return, Exit, Spawn, NextVersion, SyncReturned, SyncFailed, HitRefresh, MissDispatch, store, cvars, bvars, lvars
  <1>2. cache' = cache
    BY DEF SyncGen, Return, Exit, Spawn, NextVersion, SyncReturned, SyncFailed, HitRefresh, MissDispatch, store, cvars, bvars, lvars
  <1>3. gv' = gv \/ gv' = [gv EXCEPT ![c] = 0] \/ gv' = [gv EXCEPT ![c] = ver']
    BY OutcomeSets DEF SyncGen, Return, Exit, Spawn, NextVersion, SyncReturned, SyncFailed, HitRefresh, MissDispatch, store, cvars, bvars, lvars
  <1>4. bval' = bval \/ bval' = [bval EXCEPT ![c] = 0]
                    \/ bval' = [bval EXCEPT ![c] = ver']
    BY OutcomeSets DEF SyncGen, Return, Exit, Spawn, NextVersion, SyncReturned, SyncFailed, HitRefresh, MissDispatch, store, cvars, bvars, lvars
  <1>5. QED
    BY <1>1, <1>2, <1>3, <1>4, VersionsFrame

LEMMA SyncSetVersions ==
    ASSUME TypeOK, VersionsBounded, NEW c \in Callers, SyncSet(c)
    PROVE  VersionsBounded'
  <1>1. ver' = ver \/ ver' = ver + 1
    BY OutcomeSets DEF SyncSet, Return, Exit, Spawn, NextVersion, SyncReturned, SyncFailed, HitRefresh, MissDispatch, store, cvars, bvars, lvars
  <1>2. cache' = cache \/ (cache' # NoEntry => cache'.val <= ver')
    <2>1. gv[c] \in Nat /\ gv[c] <= ver'
      BY DEF SyncSet, TypeOK, VersionsBounded
    <2>2. QED
      BY <2>1, OutcomeSets DEF SyncSet, SetMain
  <1>3. gv' = gv \/ gv' = [gv EXCEPT ![c] = 0] \/ gv' = [gv EXCEPT ![c] = ver']
    BY OutcomeSets DEF SyncSet, Return, Exit, Spawn, NextVersion, SyncReturned, SyncFailed, HitRefresh, MissDispatch, store, cvars, bvars, lvars
  <1>4. bval' = bval \/ bval' = [bval EXCEPT ![c] = 0]
                    \/ bval' = [bval EXCEPT ![c] = ver']
    BY OutcomeSets DEF SyncSet, Return, Exit, Spawn, NextVersion, SyncReturned, SyncFailed, HitRefresh, MissDispatch, store, cvars, bvars, lvars
  <1>5. QED
    BY <1>1, <1>2, <1>3, <1>4, VersionsFrame

LEMMA AsyncGenVersions ==
    ASSUME TypeOK, VersionsBounded, NEW c \in Callers, AsyncGen(c)
    PROVE  VersionsBounded'
  <1>1. ver' = ver \/ ver' = ver + 1
    BY OutcomeSets DEF AsyncGen, Return, Exit, Spawn, NextVersion, SyncReturned, SyncFailed, HitRefresh, MissDispatch, store, cvars, bvars, lvars
  <1>2. cache' = cache
    BY DEF AsyncGen, Return, Exit, Spawn, NextVersion, SyncReturned, SyncFailed, HitRefresh, MissDispatch, store, cvars, bvars, lvars
  <1>3. gv' = gv \/ gv' = [gv EXCEPT ![c] = 0] \/ gv' = [gv EXCEPT ![c] = ver']
    BY OutcomeSets DEF AsyncGen, Return, Exit, Spawn, NextVersion, SyncReturned, SyncFailed, HitRefresh, MissDispatch, store, cvars, bvars, lvars
  <1>4. bval' = bval \/ bval' = [bval EXCEPT ![c] = 0]
                    \/ bval' = [bval EXCEPT ![c] = ver']
    BY OutcomeSets DEF AsyncGen, Return, Exit, Spawn, NextVersion, SyncReturned, SyncFailed, HitRefresh, MissDispatch, store, cvars, bvars, lvars
  <1>5. QED
    BY <1>1, <1>2, <1>3, <1>4, VersionsFrame

LEMMA SwrStaleVersions ==
    ASSUME TypeOK, VersionsBounded, NEW c \in Callers, SwrStale(c)
    PROVE  VersionsBounded'
  <1>1. ver' = ver \/ ver' = ver + 1
    BY OutcomeSets DEF SwrStale, Return, Exit, Spawn, NextVersion, SyncReturned, SyncFailed, HitRefresh, MissDispatch, store, cvars, bvars, lvars
  <1>2. cache' = cache
    BY DEF SwrStale, Return, Exit, Spawn, NextVersion, SyncReturned, SyncFailed, HitRefresh, MissDispatch, store, cvars, bvars, lvars
  <1>3. gv' = gv \/ gv' = [gv EXCEPT ![c] = 0] \/ gv' = [gv EXCEPT ![c] = ver']
    BY OutcomeSets DEF SwrStale, Return, Exit, Spawn, NextVersion, SyncReturned, SyncFailed, HitRefresh, MissDispatch, store, cvars, bvars, lvars
  <1>4. bval' = bval \/ bval' = [bval EXCEPT ![c] = 0]
                    \/ bval' = [bval EXCEPT ![c] = ver']
    BY OutcomeSets DEF SwrStale, Return, Exit, Spawn, NextVersion, SyncReturned, SyncFailed, HitRefresh, MissDispatch, store, cvars, bvars, lvars
  <1>5. QED
    BY <1>1, <1>2, <1>3, <1>4, VersionsFrame

LEMMA CoopSelectVersions ==
    ASSUME TypeOK, VersionsBounded, NEW c \in Callers, CoopSelect(c)
    PROVE  VersionsBounded'
  <1>1. ver' = ver \/ ver' = ver + 1
    BY OutcomeSets DEF CoopSelect, Return, Exit, Spawn, NextVersion, SyncReturned, SyncFailed, HitRefresh, MissDispatch, store, cvars, bvars, lvars
  <1>2. cache' = cache
    BY DEF CoopSelect, Return, Exit, Spawn, NextVersion, SyncReturned, SyncFailed, HitRefresh, MissDispatch, store, cvars, bvars, lvars
  <1>3. gv' = gv \/ gv' = [gv EXCEPT ![c] = 0] \/ gv' = [gv EXCEPT ![c] = ver']
    BY OutcomeSets DEF CoopSelect, Return, Exit, Spawn, NextVersion, SyncReturned, SyncFailed, HitRefresh, MissDispatch, store, cvars, bvars, lvars
  <1>4. bval' = bval \/ bval' = [bval EXCEPT ![c] = 0]
                    \/ bval' = [bval EXCEPT ![c] = ver']
    BY OutcomeSets DEF CoopSelect, Return, Exit, Spawn, NextVersion, SyncReturned, SyncFailed, HitRefresh, MissDispatch, store, cvars, bvars, lvars
  <1>5. QED
    BY <1>1, <1>2, <1>3, <1>4, VersionsFrame

LEMMA CoopGenVersions ==
    ASSUME TypeOK, VersionsBounded, NEW c \in Callers, CoopGen(c)
    PROVE  VersionsBounded'
  <1>1. ver' = ver \/ ver' = ver + 1
    BY OutcomeSets DEF CoopGen, Return, Exit, Spawn, NextVersion, SyncReturned, SyncFailed, HitRefresh, MissDispatch, store, cvars, bvars, lvars
  <1>2. cache' = cache
    BY DEF CoopGen, Return, Exit, Spawn, NextVersion, SyncReturned, SyncFailed, HitRefresh, MissDispatch, store, cvars, bvars, lvars
  <1>3. gv' = gv \/ gv' = [gv EXCEPT ![c] = 0] \/ gv' = [gv EXCEPT ![c] = ver']
    BY OutcomeSets DEF CoopGen, Return, Exit, Spawn, NextVersion, SyncReturned, SyncFailed, HitRefresh, MissDispatch, store, cvars, bvars, lvars
  <1>4. bval' = bval \/ bval' = [bval EXCEPT ![c] = 0]
                    \/ bval' = [bval EXCEPT ![c] = ver']
    BY OutcomeSets DEF CoopGen, Return, Exit, Spawn, NextVersion, SyncReturned, SyncFailed, HitRefresh, MissDispatch, store, cvars, bvars, lvars
  <1>5. QED
    BY <1>1, <1>2, <1>3, <1>4, VersionsFrame

LEMMA BestEffortGenVersions ==
    ASSUME TypeOK, VersionsBounded, NEW c \in Callers, BestEffortGen(c)
    PROVE  VersionsBounded'
  <1>1. ver' = ver \/ ver' = ver + 1
    BY OutcomeSets DEF BestEffortGen, Return, Exit, Spawn, NextVersion, SyncReturned, SyncFailed, HitRefresh, MissDispatch, store, cvars, bvars, lvars
  <1>2. cache' = cache
    BY DEF BestEffortGen, Return, Exit, Spawn, NextVersion, SyncReturned, SyncFailed, HitRefresh, MissDispatch, store, cvars, bvars, lvars
  <1>3. gv' = gv \/ gv' = [gv EXCEPT ![c] = 0] \/ gv' = [gv EXCEPT ![c] = ver']
    BY OutcomeSets DEF BestEffortGen, Return, Exit, Spawn, NextVersion, SyncReturned, SyncFailed, HitRefresh, MissDispatch, store, cvars, bvars, lvars
  <1>4. bval' = bval \/ bval' = [bval EXCEPT ![c] = 0]
                    \/ bval' = [bval EXCEPT ![c] = ver']
    BY OutcomeSets DEF BestEffortGen, Return, Exit, Spawn, NextVersion, SyncReturned, SyncFailed, HitRefresh, MissDispatch, store, cvars, bvars, lvars
  <1>5. QED
    BY <1>1, <1>2, <1>3, <1>4, VersionsFrame

LEMMA BestEffortSetVersions ==
    ASSUME TypeOK, VersionsBounded, NEW c \in Callers, BestEffortSet(c)
    PROVE  VersionsBounded'
  <1>1. ver' = ver \/ ver' = ver + 1
    BY OutcomeSets DEF BestEffortSet, Return, Exit, Spawn, NextVersion, SyncReturned, SyncFailed, HitRefresh, MissDispatch, store, cvars, bvars, lvars
  <1>2. cache' = cache \/ (cache' # NoEntry => cache'.val <= ver')
    <2>1. gv[c] \in Nat /\ gv[c] <= ver' /\ HandlerSet(gv[c])
      BY <1>1 DEF BestEffortSet, TypeOK, VersionsBounded, NextVersion
    <2>2. QED
      BY <2>1, HandlerSetVersions
  <1>3. gv' = gv \/ gv' = [gv EXCEPT ![c] = 0] \/ gv' = [gv EXCEPT ![c] = ver']
    BY OutcomeSets DEF BestEffortSet, Return, Exit, Spawn, NextVersion, SyncReturned, SyncFailed, HitRefresh, MissDispatch, store, cvars, bvars, lvars
  <1>4. bval' = bval \/ bval' = [bval EXCEPT ![c] = 0]
                    \/ bval' = [bval EXCEPT ![c] = ver']
    BY OutcomeSets DEF BestEffortSet, Return, Exit, Spawn, NextVersion, SyncReturned, SyncFailed, HitRefresh, MissDispatch, store, cvars, bvars, lvars
  <1>5. QED
    BY <1>1, <1>2, <1>3, <1>4, VersionsFrame

LEMMA MissWriteTryLockVersions ==
    ASSUME TypeOK, VersionsBounded, NEW c \in Callers, MissWriteTryLock(c)
    PROVE  VersionsBounded'
  <1>1. ver' = ver \/ ver' = ver + 1
    BY OutcomeSets DEF MissWriteTryLock, Return, Exit, Spawn, NextVersion, SyncReturned, SyncFailed, HitRefresh, MissDispatch, store, cvars, bvars, lvars
  <1>2. cache' = cache
    BY DEF MissWriteTryLock, Return, Exit, Spawn, NextVersion, SyncReturned, SyncFailed, HitRefresh, MissDispatch, store, cvars, bvars, lvars
  <1>3. gv' = gv \/ gv' = [gv EXCEPT ![c] = 0] \/ gv' = [gv EXCEPT ![c] = ver']
    BY OutcomeSets DEF MissWriteTryLock, Return, Exit, Spawn, NextVersion, SyncReturned, SyncFailed, HitRefresh, MissDispatch, store, cvars, bvars, lvars
  <1>4. bval' = bval \/ bval' = [bval EXCEPT ![c] = 0]
                    \/ bval' = [bval EXCEPT ![c] = ver']
    BY OutcomeSets DEF MissWriteTryLock, Return, Exit, Spawn, NextVersion, SyncReturned, SyncFailed, HitRefresh, MissDispatch, store, cvars, bvars, lvars
  <1>5. QED
    BY <1>1, <1>2, <1>3, <1>4, VersionsFrame

LEMMA MissWriteExistsVersions ==
    ASSUME TypeOK, VersionsBounded, NEW c \in Callers, MissWriteExists(c)
    PROVE  VersionsBounded'
  <1>1. ver' = ver \/ ver' = ver + 1
    BY OutcomeSets DEF MissWriteExists, Return, Exit, Spawn, NextVersion, SyncReturned, SyncFailed, HitRefresh, MissDispatch, store, cvars, bvars, lvars
  <1>2. cache' = cache
    BY DEF MissWriteExists, Return, Exit, Spawn, NextVersion, SyncReturned, SyncFailed, HitRefresh, MissDispatch, store, cvars, bvars, lvars
  <1>3. gv' = gv \/ gv' = [gv EXCEPT ![c] = 0] \/ gv' = [gv EXCEPT ![c] = ver']
    BY OutcomeSets DEF MissWriteExists, Return, Exit, Spawn, NextVersion, SyncReturned, SyncFailed, HitRefresh, MissDispatch, store, cvars, bvars, lvars
  <1>4. bval' = bval \/ bval' = [bval EXCEPT ![c] = 0]
                    \/ bval' = [bval EXCEPT ![c] = ver']
    BY OutcomeSets DEF MissWriteExists, Return, Exit, Spawn, NextVersion, SyncReturned, SyncFailed, HitRefresh, MissDispatch, store, cvars, bvars, lvars
  <1>5. QED
    BY <1>1, <1>2, <1>3, <1>4, VersionsFrame

LEMMA MissWriteSetVersions ==
    ASSUME TypeOK, VersionsBounded, NEW c \in Callers, MissWriteSet(c)
    PROVE  VersionsBounded'
  <1>1. ver' = ver \/ ver' = ver + 1
    BY OutcomeSets DEF MissWriteSet, Return, Exit, Spawn, NextVersion, SyncReturned, SyncFailed, HitRefresh, MissDispatch, store, cvars, bvars, lvars
  <1>2. cache' = cache \/ (cache' # NoEntry => cache'.val <= ver')
    <2>1. bval[c] \in Nat /\ bval[c] <= ver' /\ HandlerSet(bval[c])
      BY <1>1 DEF MissWriteSet, TypeOK, VersionsBounded, NextVersion
    <2>2. QED
      BY <2>1, HandlerSetVersions
  <1>3. gv' = gv \/ gv' = [gv EXCEPT ![c] = 0] \/ gv' = [gv EXCEPT ![c] = ver']
    BY OutcomeSets DEF MissWriteSet, Return, Exit, Spawn, NextVersion, SyncReturned, SyncFailed, HitRefresh, MissDispatch, store, cvars, bvars, lvars
  <1>4. bval' = bval \/ bval' = [bval EXCEPT ![c] = 0]
                    \/ bval' = [bval EXCEPT ![c] = ver']
    BY OutcomeSets DEF MissWriteSet, Return, Exit, Spawn, NextVersion, SyncReturned, SyncFailed, HitRefresh, MissDispatch, store, cvars, bvars, lvars
  <1>5. QED
    BY <1>1, <1>2, <1>3, <1>4, VersionsFrame

LEMMA RefreshTryLockVersions ==
    ASSUME TypeOK, VersionsBounded, NEW c \in Callers, RefreshTryLock(c)
    PROVE  VersionsBounded'
  <1>1. ver' = ver \/ ver' = ver + 1
    BY OutcomeSets DEF RefreshTryLock, Return, Exit, Spawn, NextVersion, SyncReturned, SyncFailed, HitRefresh, MissDispatch, store, cvars, bvars, lvars
  <1>2. cache' = cache
    BY DEF RefreshTryLock, Return, Exit, Spawn, NextVersion, SyncReturned, SyncFailed, HitRefresh, MissDispatch, store, cvars, bvars, lvars
  <1>3. gv' = gv \/ gv' = [gv EXCEPT ![c] = 0] \/ gv' = [gv EXCEPT ![c] = ver']
    BY OutcomeSets DEF RefreshTryLock, Return, Exit, Spawn, NextVersion, SyncReturned, SyncFailed, HitRefresh, MissDispatch, store, cvars, bvars, lvars
  <1>4. bval' = bval \/ bval' = [bval EXCEPT ![c] = 0]
                    \/ bval' = [bval EXCEPT ![c] = ver']
    BY OutcomeSets DEF RefreshTryLock, Return, Exit, Spawn, NextVersion, SyncReturned, SyncFailed, HitRefresh, MissDispatch, store, cvars, bvars, lvars
  <1>5. QED
    BY <1>1, <1>2, <1>3, <1>4, VersionsFrame

LEMMA RefreshGenVersions ==
    ASSUME TypeOK, VersionsBounded, NEW c \in Callers, RefreshGen(c)
    PROVE  VersionsBounded'
  <1>1. ver' = ver \/ ver' = ver + 1
    BY OutcomeSets DEF RefreshGen, Return, Exit, Spawn, NextVersion, SyncReturned, SyncFailed, HitRefresh, MissDispatch, store, cvars, bvars, lvars
  <1>2. cache' = cache
    BY DEF RefreshGen, Return, Exit, Spawn, NextVersion, SyncReturned, SyncFailed, HitRefresh, MissDispatch, store, cvars, bvars, lvars
  <1>3. gv' = gv \/ gv' = [gv EXCEPT ![c] = 0] \/ gv' = [gv EXCEPT ![c] = ver']
    BY OutcomeSets DEF RefreshGen, Return, Exit, Spawn, NextVersion, SyncReturned, SyncFailed, HitRefresh, MissDispatch, store, cvars, bvars, lvars
  <1>4. bval' = bval \/ bval' = [bval EXCEPT ![c] = 0]
                    \/ bval' = [bval EXCEPT ![c] = ver']
    BY OutcomeSets DEF RefreshGen, Return, Exit, Spawn, NextVersion, SyncReturned, SyncFailed, HitRefresh, MissDispatch, store, cvars, bvars, lvars
  <1>5. QED
    BY <1>1, <1>2, <1>3, <1>4, VersionsFrame

LEMMA RefreshSetVersions ==
    ASSUME TypeOK, VersionsBounded, NEW c \in Callers, RefreshSet(c)
    PROVE  VersionsBounded'
  <1>1. ver' = ver \/ ver' = ver + 1
    BY OutcomeSets DEF RefreshSet, Return, Exit, Spawn, NextVersion, SyncReturned, SyncFailed, HitRefresh, MissDispatch, store, cvars, bvars, lvars
  <1>2. cache' = cache \/ (cache' # NoEntry => cache'.val <= ver')
    BY <1>1 DEF RefreshSet, SetMain, TypeOK, VersionsBounded
  <1>3. gv' = gv \/ gv' = [gv EXCEPT ![c] = 0] \/ gv' = [gv EXCEPT ![c] = ver']
    BY OutcomeSets DEF RefreshSet, Return, Exit, Spawn, NextVersion, SyncReturned, SyncFailed, HitRefresh, MissDispatch, store, cvars, bvars, lvars
  <1>4. bval' = bval \/ bval' = [bval EXCEPT ![c] = 0]
                    \/ bval' = [bval EXCEPT ![c] = ver']
    BY OutcomeSets DEF RefreshSet, Return, Exit, Spawn, NextVersion, SyncReturned, SyncFailed, HitRefresh, MissDispatch, store, cvars, bvars, lvars
  <1>5. QED
    BY <1>1, <1>2, <1>3, <1>4, VersionsFrame

LEMMA StaleTryLockVersions ==
    ASSUME TypeOK, VersionsBounded, NEW c \in Callers, StaleTryLock(c)
    PROVE  VersionsBounded'
  <1>1. ver' = ver \/ ver' = ver + 1
    BY OutcomeSets DEF StaleTryLock, Return, Exit, Spawn, NextVersion, SyncReturned, SyncFailed, HitRefresh, MissDispatch, store, cvars, bvars, lvars
  <1>2. cache' = cache
    BY DEF StaleTryLock, Return, Exit, Spawn, NextVersion, SyncReturned, SyncFailed, HitRefresh, MissDispatch, store, cvars, bvars, lvars
  <1>3. gv' = gv \/ gv' = [gv EXCEPT ![c] = 0] \/ gv' = [gv EXCEPT ![c] = ver']
    BY OutcomeSets DEF StaleTryLock, Return, Exit, Spawn, NextVersion, SyncReturned, SyncFailed, HitRefresh, MissDispatch, store, cvars, bvars, lvars
  <1>4. bval' = bval \/ bval' = [bval EXCEPT ![c] = 0]
                    \/ bval' = [bval EXCEPT ![c] = ver']
    BY OutcomeSets DEF StaleTryLock, Return, Exit, Spawn, NextVersion, SyncReturned, SyncFailed, HitRefresh, MissDispatch, store, cvars, bvars, lvars
  <1>5. QED
    BY <1>1, <1>2, <1>3, <1>4, VersionsFrame

LEMMA StaleGenVersions ==
    ASSUME TypeOK, VersionsBounded, NEW c \in Callers, StaleGen(c)
    PROVE  VersionsBounded'
  <1>1. ver' = ver \/ ver' = ver + 1
    BY OutcomeSets DEF StaleGen, Return, Exit, Spawn, NextVersion, SyncReturned, SyncFailed, HitRefresh, MissDispatch, store, cvars, bvars, lvars
  <1>2. cache' = cache
    BY DEF StaleGen, Return, Exit, Spawn, NextVersion, SyncReturned, SyncFailed, HitRefresh, MissDispatch, store, cvars, bvars, lvars
  <1>3. gv' = gv \/ gv' = [gv EXCEPT ![c] = 0] \/ gv' = [gv EXCEPT ![c] = ver']
    BY OutcomeSets DEF StaleGen, Return, Exit, Spawn, NextVersion, SyncReturned, SyncFailed, HitRefresh, MissDispatch, store, cvars, bvars, lvars
  <1>4. bval' = bval \/ bval' = [bval EXCEPT ![c] = 0]
                    \/ bval' = [bval EXCEPT ![c] = ver']
    BY OutcomeSets DEF StaleGen, Return, Exit, Spawn, NextVersion, SyncReturned, SyncFailed, HitRefresh, MissDispatch, store, cvars, bvars, lvars
  <1>5. QED
    BY <1>1, <1>2, <1>3, <1>4, VersionsFrame

LEMMA StaleSetMainVersions ==
    ASSUME TypeOK, VersionsBounded, NEW c \in Callers, StaleSetMain(c)
    PROVE  VersionsBounded'
  <1>1. ver' = ver \/ ver' = ver + 1
    BY OutcomeSets DEF StaleSetMain, Return, Exit, Spawn, NextVersion, SyncReturned, SyncFailed, HitRefresh, MissDispatch, store, cvars, bvars, lvars
  <1>2. cache' = cache \/ (cache' # NoEntry => cache'.val <= ver')
    <2>1. bval[c] \in Nat /\ bval[c] <= ver' /\ HandlerSet(bval[c])
      BY <1>1 DEF StaleSetMain, TypeOK, VersionsBounded, NextVersion
    <2>2. QED
      BY <2>1, HandlerSetVersions
  <1>3. gv' = gv \/ gv' = [gv EXCEPT ![c] = 0] \/ gv' = [gv EXCEPT ![c] = ver']
    BY OutcomeSets DEF StaleSetMain, Return, Exit, Spawn, NextVersion, SyncReturned, SyncFailed, HitRefresh, MissDispatch, store, cvars, bvars, lvars
  <1>4. bval' = bval \/ bval' = [bval EXCEPT ![c] = 0]
                    \/ bval' = [bval EXCEPT ![c] = ver']
    BY OutcomeSets DEF StaleSetMain, Return, Exit, Spawn, NextVersion, SyncReturned, SyncFailed, HitRefresh, MissDispatch, store, cvars, bvars, lvars
  <1>5. QED
    BY <1>1, <1>2, <1>3, <1>4, VersionsFrame

LEMMA StaleSetStaleVersions ==
    ASSUME TypeOK, VersionsBounded, NEW c \in Callers, StaleSetStale(c)
    PROVE  VersionsBounded'
  <1>1. ver' = ver \/ ver' = ver + 1
    BY OutcomeSets DEF StaleSetStale, Return, Exit, Spawn, NextVersion, SyncReturned, SyncFailed, HitRefresh, MissDispatch, store, cvars, bvars, lvars
  <1>2. cache' = cache
    BY DEF StaleSetStale, Return, Exit, Spawn, NextVersion, SyncReturned, SyncFailed, HitRefresh, MissDispatch, store, cvars, bvars, lvars
  <1>3. gv' = gv \/ gv' = [gv EXCEPT ![c] = 0] \/ gv' = [gv EXCEPT ![c] = ver']
    BY OutcomeSets DEF StaleSetStale, Return, Exit, Spawn, NextVersion, SyncReturned, SyncFailed, HitRefresh, MissDispatch, store, cvars, bvars, lvars
  <1>4. bval' = bval \/ bval' = [bval EXCEPT ![c] = 0]
                    \/ bval' = [bval EXCEPT ![c] = ver']
    BY OutcomeSets DEF StaleSetStale, Return, Exit, Spawn, NextVersion, SyncReturned, SyncFailed, HitRefresh, MissDispatch, store, cvars, bvars, lvars
  <1>5. QED
    BY <1>1, <1>2, <1>3, <1>4, VersionsFrame

LEMMA AheadWakeVersions ==
    ASSUME TypeOK, VersionsBounded, NEW c \in Callers, AheadWake(c)
    PROVE  VersionsBounded'
  <1>1. ver' = ver \/ ver' = ver + 1
    BY OutcomeSets DEF AheadWake, Return, Exit, Spawn, NextVersion, SyncReturned, SyncFailed, HitRefresh, MissDispatch, store, cvars, bvars, lvars
  <1>2. cache' = cache
    BY DEF AheadWake, Return, Exit, Spawn, NextVersion, SyncReturned, SyncFailed, HitRefresh, MissDispatch, store, cvars, bvars, lvars
  <1>3. gv' = gv \/ gv' = [gv EXCEPT ![c] = 0] \/ gv' = [gv EXCEPT ![c] = ver']
    BY OutcomeSets DEF AheadWake, Return, Exit, Spawn, NextVersion, SyncReturned, SyncFailed, HitRefresh, MissDispatch, store, cvars, bvars, lvars
  <1>4. bval' = bval \/ bval' = [bval EXCEPT ![c] = 0]
                    \/ bval' = [bval EXCEPT ![c] = ver']
    BY OutcomeSets DEF AheadWake, Return, Exit, Spawn, NextVersion, SyncReturned, SyncFailed, HitRefresh, MissDispatch, store, cvars, bvars, lvars
  <1>5. QED
    BY <1>1, <1>2, <1>3, <1>4, VersionsFrame

LEMMA AheadExistsVersions ==
    ASSUME TypeOK, VersionsBounded, NEW c \in Callers, AheadExists(c)
    PROVE  VersionsBounded'
  <1>1. ver' = ver \/ ver' = ver + 1
    BY OutcomeSets DEF AheadExists, Return, Exit, Spawn, NextVersion, SyncReturned, SyncFailed, HitRefresh, MissDispatch, store, cvars, bvars, lvars
  <1>2. cache' = cache
    BY DEF AheadExists, Return, Exit, Spawn, NextVersion, SyncReturned, SyncFailed, HitRefresh, MissDispatch, store, cvars, bvars, lvars
  <1>3. gv' = gv \/ gv' = [gv EXCEPT ![c] = 0] \/ gv' = [gv EXCEPT ![c] = ver']
    BY OutcomeSets DEF AheadExists, Return, Exit, Spawn, NextVersion, SyncReturned, SyncFailed, HitRefresh, MissDispatch, store, cvars, bvars, lvars
  <1>4. bval' = bval \/ bval' = [bval EXCEPT ![c] = 0]
                    \/ bval' = [bval EXCEPT ![c] = ver']
    BY OutcomeSets DEF AheadExists, Return, Exit, Spawn, NextVersion, SyncReturned, SyncFailed, HitRefresh, MissDispatch, store, cvars, bvars, lvars
  <1>5. QED
    BY <1>1, <1>2, <1>3, <1>4, VersionsFrame

LEMMA ProbCreatedVersions ==
    ASSUME TypeOK, VersionsBounded, NEW c \in Callers, ProbCreated(c)
    PROVE  VersionsBounded'
  <1>1. ver' = ver \/ ver' = ver + 1
    BY OutcomeSets DEF ProbCreated, Return, Exit, Spawn, NextVersion, SyncReturned, SyncFailed, HitRefresh, MissDispatch, store, cvars, bvars, lvars
  <1>2. cache' = cache
    BY DEF ProbCreated, Return, Exit, Spawn, NextVersion, SyncReturned, SyncFailed, HitRefresh, MissDispatch, store, cvars, bvars, lvars
  <1>3. gv' = gv \/ gv' = [gv EXCEPT ![c] = 0] \/ gv' = [gv EXCEPT ![c] = ver']
    BY OutcomeSets DEF ProbCreated, Return, Exit, Spawn, NextVersion, SyncReturned, SyncFailed, HitRefresh, MissDispatch, store, cvars, bvars, lvars
  <1>4. bval' = bval \/ bval' = [bval EXCEPT ![c] = 0]
                    \/ bval' = [bval EXCEPT ![c] = ver']
    BY OutcomeSets DEF ProbCreated, Return, Exit, Spawn, NextVersion, SyncReturned, SyncFailed, HitRefresh, MissDispatch, store, cvars, bvars, lvars
  <1>5. QED
    BY <1>1, <1>2, <1>3, <1>4, VersionsFrame

LEMMA LockerAcquireVersions ==
    ASSUME TypeOK, VersionsBounded, NEW c \in Callers, LockerAcquire(c)
    PROVE  VersionsBounded'
  <1>1. ver' = ver \/ ver' = ver + 1
    BY OutcomeSets DEF LockerAcquire, Return, Exit, Spawn, NextVersion, SyncReturned, SyncFailed, HitRefresh, MissDispatch, store, cvars, bvars, lvars
  <1>2. cache' = cache
    BY DEF LockerAcquire, Return, Exit, Spawn, NextVersion, SyncReturned, SyncFailed, HitRefresh, MissDispatch, store, cvars, bvars, lvars
  <1>3. gv' = gv \/ gv' = [gv EXCEPT ![c] = 0] \/ gv' = [gv EXCEPT ![c] = ver']
    BY OutcomeSets DEF LockerAcquire, Return, Exit, Spawn, NextVersion, SyncReturned, SyncFailed, HitRefresh, MissDispatch, store, cvars, bvars, lvars
  <1>4. bval' = bval \/ bval' = [bval EXCEPT ![c] = 0]
                    \/ bval' = [bval EXCEPT ![c] = ver']
    BY OutcomeSets DEF LockerAcquire, Return, Exit, Spawn, NextVersion, SyncReturned, SyncFailed, HitRefresh, MissDispatch, store, cvars, bvars, lvars
  <1>5. QED
    BY <1>1, <1>2, <1>3, <1>4, VersionsFrame

LEMMA LockerReleaseVersions ==
    ASSUME TypeOK, VersionsBounded, NEW c \in Callers, LockerRelease(c)
    PROVE  VersionsBounded'
  <1>1. ver' = ver \/ ver' = ver + 1
    BY OutcomeSets DEF LockerRelease, Return, Exit, Spawn, NextVersion, SyncReturned, SyncFailed, HitRefresh, MissDispatch, store, cvars, bvars, lvars
  <1>2. cache' = cache
    BY DEF LockerRelease, Return, Exit, Spawn, NextVersion, SyncReturned, SyncFailed, HitRefresh, MissDispatch, store, cvars, bvars, lvars
  <1>3. gv' = gv \/ gv' = [gv EXCEPT ![c] = 0] \/ gv' = [gv EXCEPT ![c] = ver']
    BY OutcomeSets DEF LockerRelease, Return, Exit, Spawn, NextVersion, SyncReturned, SyncFailed, HitRefresh, MissDispatch, store, cvars, bvars, lvars
  <1>4. bval' = bval \/ bval' = [bval EXCEPT ![c] = 0]
                    \/ bval' = [bval EXCEPT ![c] = ver']
    BY OutcomeSets DEF LockerRelease, Return, Exit, Spawn, NextVersion, SyncReturned, SyncFailed, HitRefresh, MissDispatch, store, cvars, bvars, lvars
  <1>5. QED
    BY <1>1, <1>2, <1>3, <1>4, VersionsFrame

-----------------------------------------------------------------------------
(* Every step keeps VersionsBounded.                                        *)

LEMMA VersionsStep ==
    TypeOK /\ VersionsBounded /\ [Next]_vars => VersionsBounded'
  <1> SUFFICES ASSUME TypeOK, VersionsBounded, [Next]_vars
               PROVE  VersionsBounded'
    OBVIOUS
  <1>1. CASE Tick \/ Finished \/ UNCHANGED vars
    BY <1>1 DEF Tick, Finished, vars, store, cvars, bvars, VersionsBounded
  <1>2. ASSUME NEW c \in Callers, Caller(c) PROVE VersionsBounded'
    BY <1>2, StartVersions, AppSetVersions, LookupVersions, HitTTLProbeVersions, SyncLockVersions, SyncCheckVersions, SyncGenVersions,
       SyncSetVersions, AsyncGenVersions, SwrStaleVersions, CoopSelectVersions, CoopGenVersions, BestEffortGenVersions, BestEffortSetVersions
    DEF Caller
  <1>3. ASSUME NEW c \in Callers, Background(c) PROVE VersionsBounded'
    BY <1>3, MissWriteTryLockVersions, MissWriteExistsVersions, MissWriteSetVersions, RefreshTryLockVersions, RefreshGenVersions, RefreshSetVersions,
       StaleTryLockVersions, StaleGenVersions, StaleSetMainVersions, StaleSetStaleVersions, AheadWakeVersions, AheadExistsVersions, ProbCreatedVersions
    DEF Background
  <1>4. ASSUME NEW c \in Callers, Locker(c) PROVE VersionsBounded'
    BY <1>4, LockerAcquireVersions, LockerReleaseVersions DEF Locker
  <1>5. QED
    BY <1>1, <1>2, <1>3, <1>4 DEF Next

-----------------------------------------------------------------------------
(* PolicyScoped: a call runs the handler of the policy it resolved.        *)

BestEffortPcs == {"be_gen", "be_set"}

\* A step that leaves the policies alone and moves each caller to idle,
\* or, from a place inside a call, to a BestEffort place only under
\* BestEffort.
LEMMA PolicyFrame ==
    ASSUME PolicyScoped, UNCHANGED pol,
           \A d \in Callers :
               \/ pc'[d] = pc[d]
               \/ pc'[d] = "idle"
               \/ pc[d] # "idle" /\ (pc'[d] \in BestEffortPcs => pol[d] = "BestEffort")
    PROVE  PolicyScoped'
  BY DEF PolicyScoped, BestEffortPcs

LEMMA MissEntryBestEffort ==
    ASSUME NEW p \in MissPolicies, MissEntry(p) \in BestEffortPcs
    PROVE  p = "BestEffort"
  BY DEF MissEntry, MissPolicies, BestEffortPcs

LEMMA StartPolicy ==
    ASSUME TypeOK, PolicyScoped, NEW c \in Callers, Start(c)
    PROVE  PolicyScoped'
  BY DEF Start, PolicyScoped, TypeOK

LEMMA LookupPolicy ==
    ASSUME TypeOK, PolicyScoped, NEW c \in Callers, Lookup(c)
    PROVE  PolicyScoped'
  <1>1. pc[c] = "get" /\ UNCHANGED pol /\ pol[c] \in MissPolicies
    BY DEF Lookup, TypeOK
  <1>2. \/ pc' = [pc EXCEPT ![c] = "idle"]
        \/ pc' = [pc EXCEPT ![c] = "ra_ttl"]
        \/ pc' = [pc EXCEPT ![c] = "coop_wait"]
        \/ pc' = [pc EXCEPT ![c] = MissEntry(pol[c])]
    BY OutcomeSets DEF Lookup, HitRefresh, MissDispatch, Return
  <1>3. MissEntry(pol[c]) \in BestEffortPcs => pol[c] = "BestEffort"
    BY <1>1, MissEntryBestEffort
  <1>4. QED
    BY <1>1, <1>2, <1>3, PolicyFrame DEF TypeOK, BestEffortPcs

LEMMA AppSetPolicy ==
    ASSUME TypeOK, PolicyScoped, NEW c \in Callers, AppSet(c)
    PROVE  PolicyScoped'
  BY OutcomeSets, PolicyFrame DEF AppSet, Return, Exit, Spawn, SyncReturned, SyncFailed, store, cvars, bvars, lvars, TypeOK, PolicyScoped, BestEffortPcs

LEMMA HitTTLProbePolicy ==
    ASSUME TypeOK, PolicyScoped, NEW c \in Callers, HitTTLProbe(c)
    PROVE  PolicyScoped'
  BY OutcomeSets, PolicyFrame DEF HitTTLProbe, Return, Exit, Spawn, SyncReturned, SyncFailed, store, cvars, bvars, lvars, TypeOK, PolicyScoped, BestEffortPcs

LEMMA SyncLockPolicy ==
    ASSUME TypeOK, PolicyScoped, NEW c \in Callers, SyncLock(c)
    PROVE  PolicyScoped'
  BY OutcomeSets, PolicyFrame DEF SyncLock, Return, Exit, Spawn, SyncReturned, SyncFailed, store, cvars, bvars, lvars, TypeOK, PolicyScoped, BestEffortPcs

LEMMA SyncCheckPolicy ==
    ASSUME TypeOK, PolicyScoped, NEW c \in Callers, SyncCheck(c)
    PROVE  PolicyScoped'
  <1>1. UNCHANGED pol /\ pc[c] = "sync_check"
    BY DEF SyncCheck
  <1>2. pc' = [pc EXCEPT ![c] = "idle"] \/ pc' = [pc EXCEPT ![c] = "sync_gen"]
    BY OutcomeSets DEF SyncCheck, SyncReturned, SyncFailed, Return
  <1>3. QED
    BY <1>1, <1>2, PolicyFrame DEF TypeOK, BestEffortPcs

LEMMA SyncGenPolicy ==
    ASSUME TypeOK, PolicyScoped, NEW c \in Callers, SyncGen(c)
    PROVE  PolicyScoped'
  BY OutcomeSets, PolicyFrame DEF SyncGen, Return, Exit, Spawn, SyncReturned, SyncFailed, store, cvars, bvars, lvars, TypeOK, PolicyScoped, BestEffortPcs

LEMMA SyncSetPolicy ==
    ASSUME TypeOK, PolicyScoped, NEW c \in Callers, SyncSet(c)
    PROVE  PolicyScoped'
  BY OutcomeSets, PolicyFrame DEF SyncSet, Return, Exit, Spawn, SyncReturned, SyncFailed, store, cvars, bvars, lvars, TypeOK, PolicyScoped, BestEffortPcs

LEMMA AsyncGenPolicy ==
    ASSUME TypeOK, PolicyScoped, NEW c \in Callers, AsyncGen(c)
    PROVE  PolicyScoped'
  BY OutcomeSets, PolicyFrame DEF AsyncGen, Return, Exit, Spawn, SyncReturned, SyncFailed, store, cvars, bvars, lvars, TypeOK, PolicyScoped, BestEffortPcs

LEMMA SwrStalePolicy ==
    ASSUME TypeOK, PolicyScoped, NEW c \in Callers, SwrStale(c)
    PROVE  PolicyScoped'
  BY OutcomeSets, PolicyFrame DEF SwrStale, Return, Exit, Spawn, SyncReturned, SyncFailed, store, cvars, bvars, lvars, TypeOK, PolicyScoped, BestEffortPcs

LEMMA CoopSelectPolicy ==
    ASSUME TypeOK, PolicyScoped, NEW c \in Callers, CoopSelect(c)
    PROVE  PolicyScoped'
  BY OutcomeSets, PolicyFrame DEF CoopSelect, Return, Exit, Spawn, SyncReturned, SyncFailed, store, cvars, bvars, lvars, TypeOK, PolicyScoped, BestEffortPcs

LEMMA CoopGenPolicy ==
    ASSUME TypeOK, PolicyScoped, NEW c \in Callers, CoopGen(c)
    PROVE  PolicyScoped'
  BY OutcomeSets, PolicyFrame DEF CoopGen, Return, Exit, Spawn, SyncReturned, SyncFailed, store, cvars, bvars, lvars, TypeOK, PolicyScoped, BestEffortPcs

LEMMA BestEffortGenPolicy ==
    ASSUME TypeOK, PolicyScoped, NEW c \in Callers, BestEffortGen(c)
    PROVE  PolicyScoped'
  BY OutcomeSets, PolicyFrame DEF BestEffortGen, Return, Exit, Spawn, SyncReturned, SyncFailed, store, cvars, bvars, lvars, TypeOK, PolicyScoped, BestEffortPcs

LEMMA BestEffortSetPolicy ==
    ASSUME TypeOK, PolicyScoped, NEW c \in Callers, BestEffortSet(c)
    PROVE  PolicyScoped'
  BY OutcomeSets, PolicyFrame DEF BestEffortSet, Return, Exit, Spawn, SyncReturned, SyncFailed, store, cvars, bvars, lvars, TypeOK, PolicyScoped, BestEffortPcs

LEMMA MissWriteTryLockPolicy ==
    ASSUME TypeOK, PolicyScoped, NEW c \in Callers, MissWriteTryLock(c)
    PROVE  PolicyScoped'
  BY OutcomeSets, PolicyFrame DEF MissWriteTryLock, Return, Exit, Spawn, SyncReturned, SyncFailed, store, cvars, bvars, lvars, TypeOK, PolicyScoped, BestEffortPcs

LEMMA MissWriteExistsPolicy ==
    ASSUME TypeOK, PolicyScoped, NEW c \in Callers, MissWriteExists(c)
    PROVE  PolicyScoped'
  BY OutcomeSets, PolicyFrame DEF MissWriteExists, Return, Exit, Spawn, SyncReturned, SyncFailed, store, cvars, bvars, lvars, TypeOK, PolicyScoped, BestEffortPcs

LEMMA MissWriteSetPolicy ==
    ASSUME TypeOK, PolicyScoped, NEW c \in Callers, MissWriteSet(c)
    PROVE  PolicyScoped'
  BY OutcomeSets, PolicyFrame DEF MissWriteSet, Return, Exit, Spawn, SyncReturned, SyncFailed, store, cvars, bvars, lvars, TypeOK, PolicyScoped, BestEffortPcs

LEMMA RefreshTryLockPolicy ==
    ASSUME TypeOK, PolicyScoped, NEW c \in Callers, RefreshTryLock(c)
    PROVE  PolicyScoped'
  BY OutcomeSets, PolicyFrame DEF RefreshTryLock, Return, Exit, Spawn, SyncReturned, SyncFailed, store, cvars, bvars, lvars, TypeOK, PolicyScoped, BestEffortPcs

LEMMA RefreshGenPolicy ==
    ASSUME TypeOK, PolicyScoped, NEW c \in Callers, RefreshGen(c)
    PROVE  PolicyScoped'
  BY OutcomeSets, PolicyFrame DEF RefreshGen, Return, Exit, Spawn, SyncReturned, SyncFailed, store, cvars, bvars, lvars, TypeOK, PolicyScoped, BestEffortPcs

LEMMA RefreshSetPolicy ==
    ASSUME TypeOK, PolicyScoped, NEW c \in Callers, RefreshSet(c)
    PROVE  PolicyScoped'
  BY OutcomeSets, PolicyFrame DEF RefreshSet, Return, Exit, Spawn, SyncReturned, SyncFailed, store, cvars, bvars, lvars, TypeOK, PolicyScoped, BestEffortPcs

LEMMA StaleTryLockPolicy ==
    ASSUME TypeOK, PolicyScoped, NEW c \in Callers, StaleTryLock(c)
    PROVE  PolicyScoped'
  BY OutcomeSets, PolicyFrame DEF StaleTryLock, Return, Exit, Spawn, SyncReturned, SyncFailed, store, cvars, bvars, lvars, TypeOK, PolicyScoped, BestEffortPcs

LEMMA StaleGenPolicy ==
    ASSUME TypeOK, PolicyScoped, NEW c \in Callers, StaleGen(c)
    PROVE  PolicyScoped'
  BY OutcomeSets, PolicyFrame DEF StaleGen, Return, Exit, Spawn, SyncReturned, SyncFailed, store, cvars, bvars, lvars, TypeOK, PolicyScoped, BestEffortPcs

LEMMA StaleSetMainPolicy ==
    ASSUME TypeOK, PolicyScoped, NEW c \in Callers, StaleSetMain(c)
    PROVE  PolicyScoped'
  BY OutcomeSets, PolicyFrame DEF StaleSetMain, Return, Exit, Spawn, SyncReturned, SyncFailed, store, cvars, bvars, lvars, TypeOK, PolicyScoped, BestEffortPcs

LEMMA StaleSetStalePolicy ==
    ASSUME TypeOK, PolicyScoped, NEW c \in Callers, StaleSetStale(c)
    PROVE  PolicyScoped'
  BY OutcomeSets, PolicyFrame DEF StaleSetStale, Return, Exit, Spawn, SyncReturned, SyncFailed, store, cvars, bvars, lvars, TypeOK, PolicyScoped, BestEffortPcs

LEMMA AheadWakePolicy ==
    ASSUME TypeOK, PolicyScoped, NEW c \in Callers, AheadWake(c)
    PROVE  PolicyScoped'
  BY OutcomeSets, PolicyFrame DEF AheadWake, Return, Exit, Spawn, SyncReturned, SyncFailed, store, cvars, bvars, lvars, TypeOK, PolicyScoped, BestEffortPcs

LEMMA AheadExistsPolicy ==
    ASSUME TypeOK, PolicyScoped, NEW c \in Callers, AheadExists(c)
    PROVE  PolicyScoped'
  BY OutcomeSets, PolicyFrame DEF AheadExists, Return, Exit, Spawn, SyncReturned, SyncFailed, store, cvars, bvars, lvars, TypeOK, PolicyScoped, BestEffortPcs

LEMMA ProbCreatedPolicy ==
    ASSUME TypeOK, PolicyScoped, NEW c \in Callers, ProbCreated(c)
    PROVE  PolicyScoped'
  BY OutcomeSets, PolicyFrame DEF ProbCreated, Return, Exit, Spawn, SyncReturned, SyncFailed, store, cvars, bvars, lvars, TypeOK, PolicyScoped, BestEffortPcs

LEMMA LockerAcquirePolicy ==
    ASSUME TypeOK, PolicyScoped, NEW c \in Callers, LockerAcquire(c)
    PROVE  PolicyScoped'
  BY OutcomeSets, PolicyFrame DEF LockerAcquire, Return, Exit, Spawn, SyncReturned, SyncFailed, store, cvars, bvars, lvars, TypeOK, PolicyScoped, BestEffortPcs

LEMMA LockerReleasePolicy ==
    ASSUME TypeOK, PolicyScoped, NEW c \in Callers, LockerRelease(c)
    PROVE  PolicyScoped'
  BY OutcomeSets, PolicyFrame DEF LockerRelease, Return, Exit, Spawn, SyncReturned, SyncFailed, store, cvars, bvars, lvars, TypeOK, PolicyScoped, BestEffortPcs

-----------------------------------------------------------------------------
(* WriterKnows: what a lock holder about to write knows of the key.       *)

LEMMA StartKnows ==
    ASSUME WriteInv, NEW c \in Callers, Start(c)
    PROVE  WriterKnows'
  <1>1. UNCHANGED <<now, cache>>
    BY DEF Start, store
  <1>2. \A d \in Callers : EntersKnowing(d)
    BY OutcomeSets DEF Start, Return, Exit, Spawn, SyncReturned, SyncFailed, HitRefresh, MissDispatch, NextVersion, store, cvars, bvars, lvars, WriteInv, LockInv, TypeOK, VersionsBounded, EntersKnowing, WriterPcs
  <1>3. QED
    BY <1>1, <1>2, KnowsQuiet DEF WriteInv

LEMMA LookupKnows ==
    ASSUME WriteInv, NEW c \in Callers, Lookup(c)
    PROVE  WriterKnows'
  <1>1. UNCHANGED <<now, cache>>
    BY DEF Lookup, store
  <1>2. \A d \in Callers : EntersKnowing(d)
    BY OutcomeSets DEF Lookup, Return, Exit, Spawn, SyncReturned, SyncFailed, HitRefresh, MissDispatch, NextVersion, store, cvars, bvars, lvars, WriteInv, LockInv, TypeOK, VersionsBounded, EntersKnowing, WriterPcs
  <1>3. QED
    BY <1>1, <1>2, KnowsQuiet DEF WriteInv

LEMMA HitTTLProbeKnows ==
    ASSUME WriteInv, NEW c \in Callers, HitTTLProbe(c)
    PROVE  WriterKnows'
  <1>1. UNCHANGED <<now, cache>>
    BY DEF HitTTLProbe, store
  <1>2. \A d \in Callers : EntersKnowing(d)
    BY OutcomeSets DEF HitTTLProbe, Return, Exit, Spawn, SyncReturned, SyncFailed, HitRefresh, MissDispatch, NextVersion, store, cvars, bvars, lvars, WriteInv, LockInv, TypeOK, VersionsBounded, EntersKnowing, WriterPcs
  <1>3. QED
    BY <1>1, <1>2, KnowsQuiet DEF WriteInv

LEMMA SyncLockKnows ==
    ASSUME WriteInv, NEW c \in Callers, SyncLock(c)
    PROVE  WriterKnows'
  <1>1. UNCHANGED <<now, cache>>
    BY DEF SyncLock, store
  <1>2. \A d \in Callers : EntersKnowing(d)
    BY OutcomeSets DEF SyncLock, Return, Exit, Spawn, SyncReturned, SyncFailed, HitRefresh, MissDispatch, NextVersion, store, cvars, bvars, lvars, WriteInv, LockInv, TypeOK, VersionsBounded, EntersKnowing, WriterPcs
  <1>3. QED
    BY <1>1, <1>2, KnowsQuiet DEF WriteInv

LEMMA SyncCheckKnows ==
    ASSUME WriteInv, NEW c \in Callers, SyncCheck(c)
    PROVE  WriterKnows'
  <1>1. UNCHANGED <<now, cache>>
    BY DEF SyncCheck, store
  <1>2. \A d \in Callers : EntersKnowing(d)
    BY OutcomeSets DEF SyncCheck, Return, Exit, Spawn, SyncReturned, SyncFailed, HitRefresh, MissDispatch, NextVersion, store, cvars, bvars, lvars, WriteInv, LockInv, TypeOK, VersionsBounded, EntersKnowing, WriterPcs
  <1>3. QED
    BY <1>1, <1>2, KnowsQuiet DEF WriteInv

LEMMA SyncGenKnows ==
    ASSUME WriteInv, NEW c \in Callers, SyncGen(c)
    PROVE  WriterKnows'
  <1>1. UNCHANGED <<now, cache>>
    BY DEF SyncGen, store
  <1>2. \A d \in Callers : EntersKnowing(d)
    BY OutcomeSets DEF SyncGen, Return, Exit, Spawn, SyncReturned, SyncFailed, HitRefresh, MissDispatch, NextVersion, store, cvars, bvars, lvars, WriteInv, LockInv, TypeOK, VersionsBounded, EntersKnowing, WriterPcs
  <1>3. QED
    BY <1>1, <1>2, KnowsQuiet DEF WriteInv

LEMMA SyncSetKnows ==
    ASSUME WriteInv, NEW c \in Callers, SyncSet(c)
    PROVE  WriterKnows'
  <1>1. Holds(c, "caller") /\ "caller" \in Kinds
    BY DEF SyncSet, Holds, Kinds, CallerHolds, BgHolds
  <1>2. ~WriterAt(c, "caller")'
    BY OutcomeSets DEF SyncSet, Return, Exit, Spawn, SyncReturned, SyncFailed, HitRefresh, MissDispatch, NextVersion, store, cvars, bvars, lvars, WriteInv, LockInv, TypeOK, WriterAt, WriterPcs, WriterBpcs
  <1>3. \A d \in Callers, l \in Kinds : WriterAt(d, l)' => WriterAt(d, l)
    BY OutcomeSets DEF SyncSet, Return, Exit, Spawn, SyncReturned, SyncFailed, HitRefresh, MissDispatch, NextVersion, store, cvars, bvars, lvars, WriteInv, LockInv, TypeOK, WriterAt, WriterPcs, WriterBpcs
  <1>4. QED
    BY <1>1, <1>2, <1>3, KnowsByHolder DEF WriteInv, LockInv

LEMMA AsyncGenKnows ==
    ASSUME WriteInv, NEW c \in Callers, AsyncGen(c)
    PROVE  WriterKnows'
  <1>1. UNCHANGED <<now, cache>>
    BY DEF AsyncGen, store
  <1>2. \A d \in Callers : EntersKnowing(d)
    BY OutcomeSets DEF AsyncGen, Return, Exit, Spawn, SyncReturned, SyncFailed, HitRefresh, MissDispatch, NextVersion, store, cvars, bvars, lvars, WriteInv, LockInv, TypeOK, VersionsBounded, EntersKnowing, WriterPcs
  <1>3. QED
    BY <1>1, <1>2, KnowsQuiet DEF WriteInv

LEMMA SwrStaleKnows ==
    ASSUME WriteInv, NEW c \in Callers, SwrStale(c)
    PROVE  WriterKnows'
  <1>1. UNCHANGED <<now, cache>>
    BY DEF SwrStale, store
  <1>2. \A d \in Callers : EntersKnowing(d)
    BY OutcomeSets DEF SwrStale, Return, Exit, Spawn, SyncReturned, SyncFailed, HitRefresh, MissDispatch, NextVersion, store, cvars, bvars, lvars, WriteInv, LockInv, TypeOK, VersionsBounded, EntersKnowing, WriterPcs
  <1>3. QED
    BY <1>1, <1>2, KnowsQuiet DEF WriteInv

LEMMA CoopSelectKnows ==
    ASSUME WriteInv, NEW c \in Callers, CoopSelect(c)
    PROVE  WriterKnows'
  <1>1. UNCHANGED <<now, cache>>
    BY DEF CoopSelect, store
  <1>2. \A d \in Callers : EntersKnowing(d)
    BY OutcomeSets DEF CoopSelect, Return, Exit, Spawn, SyncReturned, SyncFailed, HitRefresh, MissDispatch, NextVersion, store, cvars, bvars, lvars, WriteInv, LockInv, TypeOK, VersionsBounded, EntersKnowing, WriterPcs
  <1>3. QED
    BY <1>1, <1>2, KnowsQuiet DEF WriteInv

LEMMA CoopGenKnows ==
    ASSUME WriteInv, NEW c \in Callers, CoopGen(c)
    PROVE  WriterKnows'
  <1>1. UNCHANGED <<now, cache>>
    BY DEF CoopGen, store
  <1>2. \A d \in Callers : EntersKnowing(d)
    BY OutcomeSets DEF CoopGen, Return, Exit, Spawn, SyncReturned, SyncFailed, HitRefresh, MissDispatch, NextVersion, store, cvars, bvars, lvars, WriteInv, LockInv, TypeOK, VersionsBounded, EntersKnowing, WriterPcs
  <1>3. QED
    BY <1>1, <1>2, KnowsQuiet DEF WriteInv

LEMMA BestEffortGenKnows ==
    ASSUME WriteInv, NEW c \in Callers, BestEffortGen(c)
    PROVE  WriterKnows'
  <1>1. UNCHANGED <<now, cache>>
    BY DEF BestEffortGen, store
  <1>2. \A d \in Callers : EntersKnowing(d)
    BY OutcomeSets DEF BestEffortGen, Return, Exit, Spawn, SyncReturned, SyncFailed, HitRefresh, MissDispatch, NextVersion, store, cvars, bvars, lvars, WriteInv, LockInv, TypeOK, VersionsBounded, EntersKnowing, WriterPcs
  <1>3. QED
    BY <1>1, <1>2, KnowsQuiet DEF WriteInv

LEMMA MissWriteTryLockKnows ==
    ASSUME WriteInv, NEW c \in Callers, MissWriteTryLock(c)
    PROVE  WriterKnows'
  <1>1. UNCHANGED <<now, cache>>
    BY DEF MissWriteTryLock, store
  <1>2. \A d \in Callers : EntersKnowing(d)
    BY OutcomeSets DEF MissWriteTryLock, Return, Exit, Spawn, SyncReturned, SyncFailed, HitRefresh, MissDispatch, NextVersion, store, cvars, bvars, lvars, WriteInv, LockInv, TypeOK, VersionsBounded, EntersKnowing, WriterPcs
  <1>3. QED
    BY <1>1, <1>2, KnowsQuiet DEF WriteInv

LEMMA MissWriteExistsKnows ==
    ASSUME WriteInv, NEW c \in Callers, MissWriteExists(c)
    PROVE  WriterKnows'
  <1>1. UNCHANGED <<now, cache>>
    BY DEF MissWriteExists, store
  <1>2. \A d \in Callers : EntersKnowing(d)
    BY OutcomeSets DEF MissWriteExists, Return, Exit, Spawn, SyncReturned, SyncFailed, HitRefresh, MissDispatch, NextVersion, store, cvars, bvars, lvars, WriteInv, LockInv, TypeOK, VersionsBounded, EntersKnowing, WriterPcs
  <1>3. QED
    BY <1>1, <1>2, KnowsQuiet DEF WriteInv

LEMMA MissWriteSetKnows ==
    ASSUME WriteInv, NEW c \in Callers, MissWriteSet(c)
    PROVE  WriterKnows'
  <1>1. Holds(c, "bg") /\ "bg" \in Kinds
    BY DEF MissWriteSet, Holds, Kinds, CallerHolds, BgHolds
  <1>2. ~WriterAt(c, "bg")'
    BY OutcomeSets DEF MissWriteSet, Return, Exit, Spawn, SyncReturned, SyncFailed, HitRefresh, MissDispatch, NextVersion, store, cvars, bvars, lvars, WriteInv, LockInv, TypeOK, WriterAt, WriterPcs, WriterBpcs
  <1>3. \A d \in Callers, l \in Kinds : WriterAt(d, l)' => WriterAt(d, l)
    BY OutcomeSets DEF MissWriteSet, Return, Exit, Spawn, SyncReturned, SyncFailed, HitRefresh, MissDispatch, NextVersion, store, cvars, bvars, lvars, WriteInv, LockInv, TypeOK, WriterAt, WriterPcs, WriterBpcs
  <1>4. QED
    BY <1>1, <1>2, <1>3, KnowsByHolder DEF WriteInv, LockInv

LEMMA RefreshTryLockKnows ==
    ASSUME WriteInv, NEW c \in Callers, RefreshTryLock(c)
    PROVE  WriterKnows'
  <1>1. UNCHANGED <<now, cache>>
    BY DEF RefreshTryLock, store
  <1>2. \A d \in Callers : EntersKnowing(d)
    BY OutcomeSets DEF RefreshTryLock, Return, Exit, Spawn, SyncReturned, SyncFailed, HitRefresh, MissDispatch, NextVersion, store, cvars, bvars, lvars, WriteInv, LockInv, TypeOK, VersionsBounded, EntersKnowing, WriterPcs
  <1>3. QED
    BY <1>1, <1>2, KnowsQuiet DEF WriteInv

LEMMA RefreshGenKnows ==
    ASSUME WriteInv, NEW c \in Callers, RefreshGen(c)
    PROVE  WriterKnows'
  <1>1. UNCHANGED <<now, cache>>
    BY DEF RefreshGen, store
  <1>2. \A d \in Callers : EntersKnowing(d)
    <2>1. bpc[c] = "br_gen" /\ UNCHANGED pc
      BY DEF RefreshGen, cvars
    <2>2. \/ bpc' = [bpc EXCEPT ![c] = "br_set"] /\ bval' = [bval EXCEPT ![c] = ver + 1]
          \/ bpc' = [bpc EXCEPT ![c] = "none"] /\ bval' = [bval EXCEPT ![c] = 0]
      BY OutcomeSets DEF RefreshGen, Spawn, Exit, NextVersion
    <2>3. cache # NoEntry => cache.val \in Nat /\ cache.val <= ver
      BY DEF WriteInv, LockInv, TypeOK, Entry, VersionsBounded
    <2>4. bpc \in [Callers -> BgStates] /\ bval \in [Callers -> Nat] /\ ver \in Nat
      BY DEF WriteInv, LockInv, TypeOK
    <2>5. QED
      BY <2>1, <2>2, <2>3, <2>4 DEF EntersKnowing, WriterPcs
  <1>3. QED
    BY <1>1, <1>2, KnowsQuiet DEF WriteInv

LEMMA RefreshSetKnows ==
    ASSUME WriteInv, NEW c \in Callers, RefreshSet(c)
    PROVE  WriterKnows'
  <1>1. Holds(c, "bg") /\ "bg" \in Kinds
    BY DEF RefreshSet, Holds, Kinds, CallerHolds, BgHolds
  <1>2. ~WriterAt(c, "bg")'
    BY OutcomeSets DEF RefreshSet, Return, Exit, Spawn, SyncReturned, SyncFailed, HitRefresh, MissDispatch, NextVersion, store, cvars, bvars, lvars, WriteInv, LockInv, TypeOK, WriterAt, WriterPcs, WriterBpcs
  <1>3. \A d \in Callers, l \in Kinds : WriterAt(d, l)' => WriterAt(d, l)
    BY OutcomeSets DEF RefreshSet, Return, Exit, Spawn, SyncReturned, SyncFailed, HitRefresh, MissDispatch, NextVersion, store, cvars, bvars, lvars, WriteInv, LockInv, TypeOK, WriterAt, WriterPcs, WriterBpcs
  <1>4. QED
    BY <1>1, <1>2, <1>3, KnowsByHolder DEF WriteInv, LockInv

LEMMA StaleTryLockKnows ==
    ASSUME WriteInv, NEW c \in Callers, StaleTryLock(c)
    PROVE  WriterKnows'
  <1>1. UNCHANGED <<now, cache>>
    BY DEF StaleTryLock, store
  <1>2. \A d \in Callers : EntersKnowing(d)
    BY OutcomeSets DEF StaleTryLock, Return, Exit, Spawn, SyncReturned, SyncFailed, HitRefresh, MissDispatch, NextVersion, store, cvars, bvars, lvars, WriteInv, LockInv, TypeOK, VersionsBounded, EntersKnowing, WriterPcs
  <1>3. QED
    BY <1>1, <1>2, KnowsQuiet DEF WriteInv

LEMMA StaleGenKnows ==
    ASSUME WriteInv, NEW c \in Callers, StaleGen(c)
    PROVE  WriterKnows'
  <1>1. UNCHANGED <<now, cache>>
    BY DEF StaleGen, store
  <1>2. \A d \in Callers : EntersKnowing(d)
    <2>1. bpc[c] = "sr_gen" /\ UNCHANGED pc
      BY DEF StaleGen, cvars
    <2>2. \/ bpc' = [bpc EXCEPT ![c] = "sr_set"] /\ bval' = [bval EXCEPT ![c] = ver + 1]
          \/ bpc' = [bpc EXCEPT ![c] = "none"] /\ bval' = [bval EXCEPT ![c] = 0]
      BY OutcomeSets DEF StaleGen, Spawn, Exit, NextVersion
    <2>3. cache # NoEntry => cache.val \in Nat /\ cache.val <= ver
      BY DEF WriteInv, LockInv, TypeOK, Entry, VersionsBounded
    <2>4. bpc \in [Callers -> BgStates] /\ bval \in [Callers -> Nat] /\ ver \in Nat
      BY DEF WriteInv, LockInv, TypeOK
    <2>5. QED
      BY <2>1, <2>2, <2>3, <2>4 DEF EntersKnowing, WriterPcs
  <1>3. QED
    BY <1>1, <1>2, KnowsQuiet DEF WriteInv

LEMMA StaleSetMainKnows ==
    ASSUME WriteInv, NEW c \in Callers, StaleSetMain(c)
    PROVE  WriterKnows'
  <1>1. Holds(c, "bg") /\ "bg" \in Kinds
    BY DEF StaleSetMain, Holds, Kinds, CallerHolds, BgHolds
  <1>2. ~WriterAt(c, "bg")'
    BY OutcomeSets DEF StaleSetMain, Return, Exit, Spawn, SyncReturned, SyncFailed, HitRefresh, MissDispatch, NextVersion, store, cvars, bvars, lvars, WriteInv, LockInv, TypeOK, WriterAt, WriterPcs, WriterBpcs
  <1>3. \A d \in Callers, l \in Kinds : WriterAt(d, l)' => WriterAt(d, l)
    BY OutcomeSets DEF StaleSetMain, Return, Exit, Spawn, SyncReturned, SyncFailed, HitRefresh, MissDispatch, NextVersion, store, cvars, bvars, lvars, WriteInv, LockInv, TypeOK, WriterAt, WriterPcs, WriterBpcs
  <1>4. QED
    BY <1>1, <1>2, <1>3, KnowsByHolder DEF WriteInv, LockInv

LEMMA StaleSetStaleKnows ==
    ASSUME WriteInv, NEW c \in Callers, StaleSetStale(c)
    PROVE  WriterKnows'
  <1>1. UNCHANGED <<now, cache>>
    BY DEF StaleSetStale, store
  <1>2. \A d \in Callers : EntersKnowing(d)
    BY OutcomeSets DEF StaleSetStale, Return, Exit, Spawn, SyncReturned, SyncFailed, HitRefresh, MissDispatch, NextVersion, store, cvars, bvars, lvars, WriteInv, LockInv, TypeOK, VersionsBounded, EntersKnowing, WriterPcs
  <1>3. QED
    BY <1>1, <1>2, KnowsQuiet DEF WriteInv

LEMMA AheadWakeKnows ==
    ASSUME WriteInv, NEW c \in Callers, AheadWake(c)
    PROVE  WriterKnows'
  <1>1. UNCHANGED <<now, cache>>
    BY DEF AheadWake, store
  <1>2. \A d \in Callers : EntersKnowing(d)
    BY OutcomeSets DEF AheadWake, Return, Exit, Spawn, SyncReturned, SyncFailed, HitRefresh, MissDispatch, NextVersion, store, cvars, bvars, lvars, WriteInv, LockInv, TypeOK, VersionsBounded, EntersKnowing, WriterPcs
  <1>3. QED
    BY <1>1, <1>2, KnowsQuiet DEF WriteInv

LEMMA AheadExistsKnows ==
    ASSUME WriteInv, NEW c \in Callers, AheadExists(c)
    PROVE  WriterKnows'
  <1>1. UNCHANGED <<now, cache>>
    BY DEF AheadExists, store
  <1>2. \A d \in Callers : EntersKnowing(d)
    BY OutcomeSets DEF AheadExists, Return, Exit, Spawn, SyncReturned, SyncFailed, HitRefresh, MissDispatch, NextVersion, store, cvars, bvars, lvars, WriteInv, LockInv, TypeOK, VersionsBounded, EntersKnowing, WriterPcs
  <1>3. QED
    BY <1>1, <1>2, KnowsQuiet DEF WriteInv

LEMMA ProbCreatedKnows ==
    ASSUME WriteInv, NEW c \in Callers, ProbCreated(c)
    PROVE  WriterKnows'
  <1>1. UNCHANGED <<now, cache>>
    BY DEF ProbCreated, store
  <1>2. \A d \in Callers : EntersKnowing(d)
    BY OutcomeSets DEF ProbCreated, Return, Exit, Spawn, SyncReturned, SyncFailed, HitRefresh, MissDispatch, NextVersion, store, cvars, bvars, lvars, WriteInv, LockInv, TypeOK, VersionsBounded, EntersKnowing, WriterPcs
  <1>3. QED
    BY <1>1, <1>2, KnowsQuiet DEF WriteInv

LEMMA LockerAcquireKnows ==
    ASSUME WriteInv, NEW c \in Callers, LockerAcquire(c)
    PROVE  WriterKnows'
  <1>1. UNCHANGED <<now, cache>>
    BY DEF LockerAcquire, store
  <1>2. \A d \in Callers : EntersKnowing(d)
    BY OutcomeSets DEF LockerAcquire, Return, Exit, Spawn, SyncReturned, SyncFailed, HitRefresh, MissDispatch, NextVersion, store, cvars, bvars, lvars, WriteInv, LockInv, TypeOK, VersionsBounded, EntersKnowing, WriterPcs
  <1>3. QED
    BY <1>1, <1>2, KnowsQuiet DEF WriteInv

LEMMA LockerReleaseKnows ==
    ASSUME WriteInv, NEW c \in Callers, LockerRelease(c)
    PROVE  WriterKnows'
  <1>1. UNCHANGED <<now, cache>>
    BY DEF LockerRelease, store
  <1>2. \A d \in Callers : EntersKnowing(d)
    BY OutcomeSets DEF LockerRelease, Return, Exit, Spawn, SyncReturned, SyncFailed, HitRefresh, MissDispatch, NextVersion, store, cvars, bvars, lvars, WriteInv, LockInv, TypeOK, VersionsBounded, EntersKnowing, WriterPcs
  <1>3. QED
    BY <1>1, <1>2, KnowsQuiet DEF WriteInv

\* The unlocked writers do not run when only locked writers exist.
LEMMA NoUnlockedWriter ==
    ASSUME OnlyLockedWriters, PolicyScoped, NEW c \in Callers,
           AppSet(c) \/ BestEffortSet(c)
    PROVE  FALSE
  BY DEF OnlyLockedWriters, PolicyScoped, AppSet, BestEffortSet

\* Time passing only makes an absent or expired entry more expired.
LEMMA TickKnows ==
    ASSUME WriteInv, Tick PROVE WriterKnows'
  <1>1. now \in Nat /\ now' = now + 1 /\ UNCHANGED <<cache, pc, bpc, bval>>
    BY DEF Tick, WriteInv, LockInv, TypeOK, store, cvars, bvars
  <1>2. cache # NoEntry => cache.exp \in Nat
    BY DEF WriteInv, LockInv, TypeOK, Entry
  <1>3. ~Live(cache) => ~Live(cache)'
    BY <1>1, <1>2 DEF Live
  <1>4. QED
    BY <1>1, <1>3 DEF WriteInv, WriterKnows

\* WriteInv is inductive when only locked writers exist.
LEMMA WriteInvStep ==
    ASSUME OnlyLockedWriters, WriteInv, [Next]_vars PROVE WriteInv'
  <1>1. LockInv' /\ VersionsBounded'
    BY LockInvStep, VersionsStep DEF WriteInv, LockInv
  <1>2. CASE Tick \/ Finished \/ UNCHANGED vars
    <2>1. PolicyScoped'
      <3>1. pc' = pc /\ pol' = pol
        BY <1>2 DEF Tick, Finished, vars, cvars
      <3>2. QED
        BY <3>1 DEF WriteInv, PolicyScoped
    <2>2. WriterKnows'
      <3>1. CASE Tick
        BY <3>1, TickKnows
      <3>2. CASE Finished \/ UNCHANGED vars
        <4>1. now' = now /\ cache' = cache /\ pc' = pc /\ bpc' = bpc /\ bval' = bval
          BY <3>2 DEF Finished, vars, store, cvars, bvars
        <4>2. QED
          BY <4>1 DEF WriteInv, WriterKnows, Live
      <3>3. QED
        BY <1>2, <3>1, <3>2
    <2>3. QED
      BY <1>1, <2>1, <2>2 DEF WriteInv
  <1>3. ASSUME NEW c \in Callers, Caller(c) PROVE WriteInv'
    <2>1. ~AppSet(c) /\ ~BestEffortSet(c)
      BY NoUnlockedWriter DEF WriteInv
    <2>2. TypeOK /\ PolicyScoped
      BY DEF WriteInv, LockInv
    <2>3. PolicyScoped'
      BY <1>3, <2>2, StartPolicy, AppSetPolicy, LookupPolicy, HitTTLProbePolicy, SyncLockPolicy, SyncCheckPolicy, SyncGenPolicy,
         SyncSetPolicy, AsyncGenPolicy, SwrStalePolicy, CoopSelectPolicy, CoopGenPolicy, BestEffortGenPolicy, BestEffortSetPolicy DEF Caller
    <2>4. WriterKnows'
      BY <1>3, <2>1, StartKnows, LookupKnows, HitTTLProbeKnows, SyncLockKnows, SyncCheckKnows, SyncGenKnows,
         SyncSetKnows, AsyncGenKnows, SwrStaleKnows, CoopSelectKnows, CoopGenKnows, BestEffortGenKnows DEF Caller
    <2>5. QED
      BY <1>1, <2>3, <2>4 DEF WriteInv
  <1>4. ASSUME NEW c \in Callers, Background(c) PROVE WriteInv'
    <2>1. TypeOK /\ PolicyScoped
      BY DEF WriteInv, LockInv
    <2>2. PolicyScoped'
      BY <1>4, <2>1, MissWriteTryLockPolicy, MissWriteExistsPolicy, MissWriteSetPolicy, RefreshTryLockPolicy, RefreshGenPolicy, RefreshSetPolicy,
         StaleTryLockPolicy, StaleGenPolicy, StaleSetMainPolicy, StaleSetStalePolicy, AheadWakePolicy, AheadExistsPolicy, ProbCreatedPolicy DEF Background
    <2>3. WriterKnows'
      BY <1>4, MissWriteTryLockKnows, MissWriteExistsKnows, MissWriteSetKnows, RefreshTryLockKnows, RefreshGenKnows, RefreshSetKnows,
         StaleTryLockKnows, StaleGenKnows, StaleSetMainKnows, StaleSetStaleKnows, AheadWakeKnows, AheadExistsKnows, ProbCreatedKnows DEF Background
    <2>4. QED
      BY <1>1, <2>2, <2>3 DEF WriteInv
  <1>5. ASSUME NEW c \in Callers, Locker(c) PROVE WriteInv'
    <2>1. TypeOK /\ PolicyScoped
      BY DEF WriteInv, LockInv
    <2>2. PolicyScoped' /\ WriterKnows'
      BY <1>5, <2>1, LockerAcquirePolicy, LockerReleasePolicy, LockerAcquireKnows, LockerReleaseKnows DEF Locker
    <2>3. QED
      BY <1>1, <2>2 DEF WriteInv
  <1>6. QED
    BY <1>2, <1>3, <1>4, <1>5 DEF Next

THEOREM WriteInvInit == Init => WriteInv
  <1> SUFFICES ASSUME Init PROVE WriteInv
    OBVIOUS
  <1>1. LockInv
    BY LockInvInit
  <1>2. VersionsBounded /\ PolicyScoped /\ WriterKnows
    BY DEF Init, VersionsBounded, PolicyScoped, WriterKnows
  <1>3. QED
    BY <1>1, <1>2 DEF WriteInv

(* Single flight of missSyncWriteThenReturn, for every number of callers, *)
(* every TTL and every policy but BestEffort, when the application does   *)
(* not call Handler.Set: a caller that writes the value it generated      *)
(* under the key's lock finds the key absent.                              *)
THEOREM SyncWriteIntoAbsentCorrect ==
    ASSUME OnlyLockedWriters PROVE Spec => []SyncWriteIntoAbsent
  <1>1. WriteInv => SyncWriteIntoAbsent
    BY DEF WriteInv, WriterKnows, SyncWriteIntoAbsent
  <1>2. WriteInv /\ [Next]_vars => WriteInv'
    BY WriteInvStep
  <1>3. QED
    BY <1>1, <1>2, WriteInvInit, PTL DEF Spec

-----------------------------------------------------------------------------
(* No version regression.                                                  *)

\* The step of NoVersionRegression.
Newer == Live(cache) /\ cache' # cache => cache'.val > cache.val

\* Only Handler.Set and the handlers that call it change the key.
LEMMA CallerKeepsKey ==
    ASSUME NEW c \in Callers, Caller(c), cache' # cache
    PROVE  AppSet(c) \/ SyncSet(c) \/ BestEffortSet(c)
  BY DEF Caller, Start, Lookup, HitTTLProbe, SyncLock, SyncCheck, SyncGen, AsyncGen, SwrStale, CoopSelect, CoopGen, BestEffortGen, store

LEMMA BackgroundKeepsKey ==
    ASSUME NEW c \in Callers, Background(c), cache' # cache
    PROVE  MissWriteSet(c) \/ RefreshSet(c) \/ StaleSetMain(c)
  BY DEF Background, MissWriteTryLock, MissWriteExists, RefreshTryLock, RefreshGen, StaleTryLock, StaleGen, StaleSetStale, AheadWake, AheadExists, ProbCreated, store

\* The sync path and the background miss write found the key absent.
LEMMA SyncSetNewer ==
    ASSUME WriteInv, NEW c \in Callers, SyncSet(c) PROVE Newer
  BY DEF WriteInv, WriterKnows, SyncSet, Newer

LEMMA MissWriteSetNewer ==
    ASSUME WriteInv, NEW c \in Callers, MissWriteSet(c) PROVE Newer
  BY DEF WriteInv, WriterKnows, MissWriteSet, Newer

\* A refresh writes the version it generated under the lock.
LEMMA RefreshWriteNewer ==
    ASSUME WriteInv, NEW c \in Callers, bpc[c] \in {"br_set", "sr_set"},
           cache' = cache \/ cache'.val = bval[c]
    PROVE  Newer
  <1>1. cache # NoEntry => cache.val < bval[c]
    BY DEF WriteInv, WriterKnows
  <1>2. QED
    BY <1>1 DEF Newer, Live

LEMMA RefreshSetNewer ==
    ASSUME WriteInv, NEW c \in Callers, RefreshSet(c) PROVE Newer
  <1>1. bpc[c] = "br_set" /\ (cache' = cache \/ cache'.val = bval[c])
    BY OutcomeSets DEF RefreshSet, SetMain
  <1>2. QED
    BY <1>1, RefreshWriteNewer

LEMMA StaleSetMainNewer ==
    ASSUME WriteInv, NEW c \in Callers, StaleSetMain(c) PROVE Newer
  <1>1. bpc[c] = "sr_set" /\ (cache' = cache \/ cache'.val = bval[c])
    BY OutcomeSets DEF StaleSetMain, HandlerSet, SetMain
  <1>2. QED
    BY <1>1, RefreshWriteNewer

LEMMA NewerStep ==
    ASSUME OnlyLockedWriters, WriteInv, [Next]_vars PROVE [Newer]_cache
  <1> SUFFICES ASSUME cache' # cache PROVE Newer
    OBVIOUS
  <1>1. CASE Tick \/ Finished \/ UNCHANGED vars
    BY <1>1 DEF Tick, Finished, vars, store
  <1>2. ASSUME NEW c \in Callers, Caller(c) PROVE Newer
    <2>1. ~AppSet(c) /\ ~BestEffortSet(c)
      BY NoUnlockedWriter DEF WriteInv
    <2>2. QED
      BY <1>2, <2>1, CallerKeepsKey, SyncSetNewer
  <1>3. ASSUME NEW c \in Callers, Background(c) PROVE Newer
    BY <1>3, BackgroundKeepsKey, MissWriteSetNewer, RefreshSetNewer,
       StaleSetMainNewer
  <1>4. ASSUME NEW c \in Callers, Locker(c) PROVE Newer
    BY <1>4 DEF Locker, LockerAcquire, LockerRelease, store
  <1>5. QED
    BY <1>1, <1>2, <1>3, <1>4 DEF Next

(* No write replaces a live entry of the key by an older version, for     *)
(* every constant, when every writer holds the key's lock: a refresh      *)
(* generates its version under the lock, and the sync path and the        *)
(* background miss write (Exists, then Set) write only an absent key.     *)
THEOREM NoVersionRegressionCorrect ==
    ASSUME OnlyLockedWriters PROVE Spec => NoVersionRegression
  <1>1. WriteInv /\ [Next]_vars => WriteInv'
    BY WriteInvStep
  <1>2. WriteInv /\ [Next]_vars => [Newer]_cache
    BY NewerStep
  <1>3. QED
    BY <1>1, <1>2, WriteInvInit, PTL DEF Spec, NoVersionRegression, Newer

=============================================================================
