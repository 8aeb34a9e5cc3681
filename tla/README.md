# TLA+ verification of cashcov

This directory holds a TLA+ model of the cashcov `Handler[T]`, a typed Redis
read-through cache (`src/cache.go`, `src/helper.go`, `src/lock.go`). It also holds
the TLC configurations that model-check the model and the TLAPS proofs about it.

## The system

- **Handler facade** (`cache.go`).
  - `Set` marshals a value, calls `rdb.Set` with a TTL, then
    `setLastRefreshNow`.
  - `Get` reads the key.
  - `GetOrRefresh` resolves the call options, calls `Get` and then does one of
    two things:
    - on a hit, `handleHitRefresh`;
    - on `redis.Nil`, switches on the miss policy.
- **Miss policies** (`helper.go`). There are eight:
  - SyncWriteThenReturn: lock, re-read, generate, `Set`.
  - ReturnThenAsyncWrite: generate, return, then `spawnBackgroundMissWrite`.
  - StaleWhileRevalidate: read `key:stale`. If it is there, return it and start
    `spawnStaleRefresh`; otherwise fall back to SyncWriteThenReturn.
  - FailFast.
  - RefreshAhead: sync write, then `scheduleRefreshAhead`.
  - CooperativeRefresh: a goroutine takes the lock and closes `done`, and the
    caller selects between `done` and a timeout.
  - BestEffort: generate and do an unlocked `Set`.
  - ProbabilisticRefresh: sync write, then `enableProbabilisticRefresh`.
- **Hit refresh**:
  - `handleHitRefresh` starts `spawnBackgroundRefresh` under one of three
    conditions:
    - after `shouldRefreshNow` (the cooldown);
    - after `shouldRefreshAhead` (the remaining TTL);
    - after `shouldProbabilisticRefresh` (a random draw).
  - `spawnBackgroundRefresh` does a TryLock, re-checks the cooldown under the
    lock, generates and calls `Set`.
- **keyedMutex** (`lock.go`). Each key gets a buffered channel of capacity 1:
  - `Lock` sends into it and blocks while it is full;
  - `TryLock` sends only if it is empty;
  - the releaser receives from it.
- **Refresh ledger**. `lastRefreshByKey` holds two entries per key under
  `lastRefreshMu`: the last refresh, and the `@created` stamp.

All coordination is per key: no two keys share a lock or a ledger entry. So the
model takes one key and several concurrent goroutines on it.

## Modules

| Module | Contents |
|---|---|
| `CacheHandler.tla` | The whole handler for one key: state, actions, properties |
| `MCCacheHandler.tla` | TLC instance: caller model values, policy sets, symmetry |
| `CacheHandlerProofs.tla` | TLAPS proofs of `TypeOK` and `LockExclusive` |
| `CacheHandlerWriteProofs.tla` | TLAPS proofs of `SyncWriteIntoAbsent` and `NoVersionRegression` when every writer holds the lock |
| `CacheHandlerCooldownProofs.tla` | TLAPS proof of `RefreshCooldownRespected` |
| `HandlerConfig.tla` | How a `handlerConfig` is built: `New` with its `With*` options, or `loadHandlerConfig` from the environment |
| `HandlerConfigProofs.tla` | TLAPS proof of `EnvLoadAllOrNothing` |
| `MCHandlerConfig.tla` | TLC instance of `HandlerConfig`: the environment values and option arguments enumerated |

### HandlerConfig

- `via` is the constructor (`New` or `loadHandlerConfig`), `phase` the point it
  has reached, `idx` the next variable `loadHandlerConfig` reads, `cfg` the
  config built so far, `env` the process environment.
- `ApplyOption` is one iteration of `New`'s option loop. `WithRefreshAheadThreshold`
  keeps the old value outside [0,1], `WithProbabilisticBeta` outside (0,∞);
  the duration options set their field unchecked.
- `LoadDotEnv` is `godotenv.Load` (a missing file is not an error); `LoadField`
  is one `parseEnvDuration`/`parseEnvFloat` call and its `if err != nil` return,
  in the code's order.
- `ParseEnv` models the parsers: unset gives the fallback, junk, negative values
  and 0 (but for the cooldown) give an error, and a duration is
  `time.Duration(value) * unit`, which truncates the value to whole units.
- Numbers are hundredths; the environment values are -0.5, 0, 0.5 and 1.5,
  which reach every branch of the parsers (negative, zero with and without
  `allowZero`, accepted) and both sides of the truncation.
- `loadHandlerConfig` has no caller under `src/`: `New` builds the config from
  options, and spec.md puts environment loading out of scope. It is modelled
  as the function it is; its findings are defects of that function only.


### State (CacheHandler)

- `cache` and `stale` are the backend entries of `fullKey(key)` and
  `fullKey(key+":stale")`. Each is a record `[val, exp]` or `NoEntry`:
  - `val` is a version of the authoritative data;
  - `exp` is the absolute tick at which Redis expires the entry.
  - `Live(e)` is what a `GET` sees.
- `lock` (0..1) is how many tokens the key's channel holds.
- `lastRefresh` and `created` are the two ledger entries. `NoTime` means absent.
- `now` is the clock and `ver` the last version produced. Every generator call
  and every application `Set` produces `ver+1`.
- **Caller goroutines** (model values in `Callers`):
  - `pc[c]` is where the caller is in the code;
  - `pol[c]` is the effective miss policy;
  - `gv[c]` is the value it generated;
  - `cstart[c]` is when its cooperative wait started.
- **Companion goroutines of a call:**
  - `bpc[c]` is the background goroutine started with `go h.spawn...`,
    `scheduleRefreshAhead` or `enableProbabilisticRefresh`. Its locals are
    `bval` and `bwake`.
  - `lpc[c]` and `done[c]` are the lock goroutine of `missCooperativeRefresh`
    and its channel.
  - A caller starts a new call only once its companions have exited, so one
    slot per caller is enough.
- **History variables** used by properties only:
  - `refreshLog` holds the ticks of the writes of `spawnBackgroundRefresh`;
  - `filled` records that the handler has written the key.

### Actions

There is one action per step between two accesses to shared state (backend,
lock, ledger).

- **Errors and early returns.** Every `err != nil` and every early return in the
  code is a disjunct:
  - a backend command draws from `Backend`, which contains `FALSE` when
    `BackendFaults` is set;
  - the generator draws from `Generated` in the same way.
- **Handler.Set** is `HandlerSet`: the write, and the ledger update when the
  cooldown is on.
- **GetOrRefresh**:
  - `Start` resolves the call options;
  - `Lookup` is the first `Get`, followed by `HitRefresh` or `MissDispatch`;
  - `HitTTLProbe` is the probe of `shouldRefreshAhead`.
- **missSyncWriteThenReturn** is `SyncLock` → `SyncCheck` → `SyncGen` →
  `SyncSet`.
  - `SyncReturned` is its successful return with the deferred unlock. It also
    starts the goroutine of RefreshAhead or ProbabilisticRefresh, because those
    handlers wrap the sync body.
- **Other miss handlers:** `AsyncGen`, `SwrStale`, `CoopSelect`, `CoopGen`,
  `BestEffortGen`, `BestEffortSet`.
  - The lock goroutine of `missCooperativeRefresh` is `LockerAcquire` and
    `LockerRelease`.
- **Background goroutines:**
  - `MissWrite*` is `spawnBackgroundMissWrite`: TryLock, Exists, Set.
  - `Refresh*` is `spawnBackgroundRefresh`: TryLock with the cooldown re-check,
    generate, Set.
  - `Stale*` is `spawnStaleRefresh`: TryLock, generate, Set main, `setToKey`
    stale.
  - `AheadWake` and `AheadExists` are `scheduleRefreshAhead`. Its refresh runs
    inline in the same goroutine.
  - `ProbCreated` is `enableProbabilisticRefresh`.
- **Other steps:**
  - `AppSet` is the application calling `Handler.Set` itself;
  - `Tick` advances the clock;
  - `Finished` is the stuttering end of a bounded run.

`PROJECT.json` ("map") names the source lines of every definition.

### Abstractions

- **Values** are versions, so JSON encoding is left out. A marshal error shows
  up as a failed backend command.
- **Durations** are ticks:
  - the threshold and beta are integer percentages;
  - `AheadDelay` is `ttl*(1-threshold)` with integer division.
- **`rand.Float64() < age/ttl*beta`** is the set `ProbOutcomes`:
  - `{FALSE}` when the probability is 0;
  - `{TRUE}` when it is at least 1;
  - both otherwise.
- **Timeouts:** `bgRefreshTimeout` and the stale-check timeout are not clocks of
  their own. Their expiry shows up as a failed command.

## Runs

The runs instantiate `MCCacheHandler` with:

- two callers, as a symmetry set;
- TTL 2;
- a clock bound `MaxTime = 4` and at most 3 calls.

Two callers are enough: every hazard involves two goroutines on one key. Each
call can also add two more goroutines (background and lock goroutine), so up to
six goroutines run at once. With TTL 2 inside four ticks, entries expire and get
refilled during a run. A cooldown of 1 or 2 lets a second refresh come both
inside and outside the cooldown window.

| Run | cfg | Expect | Properties | What it shows |
|---|---|---|---|---|
| all_policies | MCAllPolicies.cfg | pass (≈1.3M states) | TypeOK, LockExclusive, RefreshCooldownRespected | Covers all eight policies, application Sets and backend faults. Mutual exclusion on the key holds, and two background refreshes are always at least `refreshCooldown` apart, although `handleHitRefresh` checks the cooldown outside the lock. |
| locking_policies | MCLockingPolicies.cfg | pass (≈960k states) | SyncWriteIntoAbsent, NoVersionRegression | Covers the seven policies that write under the lock, with generator faults. A caller writes its generated value only into an absent key (single flight). No write replaces a live entry by an older version, including `spawnBackgroundMissWrite`'s Exists-then-Set. |
| liveness | MCLiveness.cfg | pass (≈170k states) | EveryTaskReturns | Under `LiveSpec` (see Fairness), with every policy, backend and generator faults and `MaxTime = 3`: every call, lock goroutine and background goroutine eventually returns. |
| config_load | MCConfigLoad.cfg | pass (≈1M states) | EnvLoadAllOrNothing | `loadHandlerConfig` returns a config exactly when every variable is unset or acceptable, each field then holding its parsed value. |
| config_threshold | MCConfigThreshold.cfg | violation | ThresholdInRange | Finding 3. |
| config_durations | MCConfigDurations.cfg | violation | EnvDurationsPositive | Finding 4. |
| coop_zero_timeout | MCCoopZeroTimeout.cfg | violation | CoopZeroTimeoutFallsBack | Finding: the spec's claim for timeout 0 does not hold (see Findings). |
| stale_window | MCStaleWindow.cfg | violation | StaleServedAfterExpiry | Finding: the stale copy is never written by a fill (see Findings). |

### Properties and mutants

Each property of a passing run is killed by a mutant of the code that a plausible
bug would produce (listed in `PROJECT.json`):

| Property | Mutant |
|---|---|
| TypeOK | a lock channel that never blocks (`SyncLockUnbounded`) |
| LockExclusive | a failed TryLock that still runs a real releaser |
| RefreshCooldownRespected | no cooldown re-check under the lock |
| SyncWriteIntoAbsent | no double-check after `Lock` |
| NoVersionRegression | the result of `Exists` ignored |
| EveryTaskReturns | a lock goroutine that exits without running its releaser |
| EnvLoadAllOrNothing | the errors of the two float variables not checked |

### Findings

1. **CooperativeRefresh with `cooperativeTimeout = 0`** (`helper.go:203`).
   - spec.md §8 says every caller falls through to direct generation.
   - In the code, the lock goroutine is started before the `select`. When it
     has already closed `done`, both cases are ready, and Go picks one at random.
     So the caller may take the lock path.
2. **StaleWhileRevalidate never gets its stale copy from a fill**
   (`helper.go:160`).
   - Only `spawnStaleRefresh` writes `key:stale`, and it runs only after a stale
     read has already succeeded.
   - A key filled by the sync fallback, or by any other policy, expires without
     a stale copy. The next SWR miss then generates synchronously, contrary to
     README.policies.md.
3. **The environment threshold is not bounded** (`config.go:148`).
   - spec.md says `defaultRefreshAheadThreshold` is validated to [0,1], and
     `WithRefreshAheadThreshold` does check it.
   - `parseEnvFloat` only rejects values `<= 0`, so
     `CACHE_REFRESH_AHEAD_THRESHOLD=1.5` loads.
   - `loadHandlerConfig` has no caller, so no `Handler` here gets such a
     threshold: both option paths keep it in [0,1].
4. **A fractional duration truncates to zero** (`config.go:65`).
   - `parseEnvDuration` checks `value > 0` and then computes
     `time.Duration(value) * unit`, which converts 0.5 to 0 before the unit.
   - `CACHE_DEFAULT_TTL_MINUTES=0.5` gives a zero default TTL, against the
     comment that non-positive values fall back.
   - `loadHandlerConfig` has no caller, so this is a latent defect of the
     function; no `Handler` in this repository is built with such a config.

### Not covered by a property yet

- **Unlocked writers overwrite newer values.** BestEffort and application `Set`
  write without the lock, so they may replace a newer value by an older one.
  That is expected, and it is why `locking_policies` excludes them.
- **The `@created` stamp is written late.** It is written asynchronously after
  the caller returns.
- **Unbounded growth.** The per-key maps grow without bound; the model has
  one key.

## Fairness

The safety runs assume no fairness and check deadlock: `Finished` is the only
stuttering step (the clock at its bound, every goroutine exited or asleep past
the bound in `scheduleRefreshAhead`).

The liveness run uses `LiveSpec == Spec /\ Fairness`:

- weak fairness of `Tick` (time passes) and of each caller's non-blocking
  steps (`CallerStep`), of each background goroutine and of each releaser:
  the Go scheduler runs every runnable goroutine eventually;
- strong fairness of `SyncLock` and `LockerAcquire`, the blocking `Lock`: a
  goroutine blocked sending on the channel waits in its FIFO send queue, so it
  is served once the channel is empty often enough, even if other goroutines
  take the lock in between.

The run has `CHECK_DEADLOCK FALSE` because a stuck state is exactly what
`EveryTaskReturns` must report (as a behaviour that stutters with a busy
goroutine); its mutant shows such a state is found.

## Proofs

Every safety property of a passing run is proved for all values of the
constants. Each inductive invariant named below was first checked by TLC as an
invariant of the run of its property.

### CacheHandlerProofs.tla

Both results below are proved for all constants that satisfy
`ConstantsAssumption`, with any finite or infinite set of callers.

- **`TypeCorrect`: `Spec => []TypeOK`.**
  - `TypeOK` is split into five groups, each with a frame lemma: scalars,
    store, callers, background, locker.
  - Each action gets a type lemma. Its branches on a command outcome are split
    with the lemma `OkSplit`.
- **`LockExclusiveCorrect`: `Spec => []LockExclusive`.** `LockExclusive` is not
  inductive on its own:
  - A step that starts a companion goroutine could overwrite a goroutine that
    holds the lock. The lock would then be lost without its unlock.
  - The strengthening is therefore
    `LockInv == TypeOK /\ LockExclusive /\ CompanionsScoped`.
  - `CompanionsScoped` says:
    - a caller in a call has no running background goroutine;
    - a caller at its first `Get` has no lock goroutine.
  - TLC checked `LockInv` as an invariant of `all_policies`.
  - `LockInvInit` and `LockInvStep` prove that it is inductive, with one lemma
    per action. Each of those lemmas uses one of three facts:
    - the holders of the lock are unchanged (`ExclFrame`);
    - exactly one goroutine starts holding it while the channel was empty
      (`ExclAcquire`);
    - the one holder releases it (`ExclRelease`).

### CacheHandlerWriteProofs.tla

- **Hypothesis.** Both theorems assume `OnlyLockedWriters`: `AllowAppSet` is
  false and `BestEffort` is not in `Policies`. This is the configuration of the
  `locking_policies` run. The hypothesis is needed: `missBestEffort` and an
  application `Handler.Set` write without the lock, and with them both
  properties fail (an unlocked `Set` can land between a caller's double-check
  and its write).
- **The inductive invariant** is
  `WriteInv == LockInv /\ VersionsBounded /\ PolicyScoped /\ WriterKnows`:
  - `VersionsBounded`: every stored or held value is a version already
    produced. A refresh's value is then newer than anything written before it.
  - `PolicyScoped`: a call runs the handler of a policy in `Policies`, so no
    caller is on the BestEffort path.
  - `WriterKnows`: what each lock holder that is about to write knows of the
    key. The sync path and the background miss write saw it absent. A
    refresh (`br_set`, `sr_set`) holds a version newer than the stored one.
    Only the holder of the lock writes, and `LockExclusive` says there is one
    holder, so no other step can falsify what it knows.
- `VersionsBounded` and `PolicyScoped` hold without the hypothesis; only
  `WriterKnows` needs it.
- Every action has one lemma per conjunct. The writers
  (`SyncSet`, `MissWriteSet`, `RefreshSet`, `StaleSetMain`) use
  `KnowsByHolder`: after the holder's write there is no writer left.
- **`SyncWriteIntoAbsentCorrect`** follows from `WriterKnows`.
- **`NoVersionRegressionCorrect`** follows from `WriteInv` at each writing step.
  A sync or miss write finds the key not live. A refresh writes a value newer
  than the stored one.

### CacheHandlerCooldownProofs.tla

- **`RefreshCooldownCorrect`: `Spec => []RefreshCooldownRespected`.** It holds
  with no hypothesis: any callers, every policy, application Sets and faults.
- **The inductive invariant** is
  `CooldownInv == LockInv /\ RefreshCooldownRespected /\ CooldownKnown`.
  `CooldownKnown` says three things:
  - no logged refresh lies in the future;
  - when the cooldown is on, `lastRefreshByKey` is set and at or after every
    logged refresh (every `Set` stamps it with the current time);
  - every `spawnBackgroundRefresh` goroutine past its check under the lock is
    at least `Cooldown` after every logged refresh.
- **Why it holds.** `shouldRefreshNow` rechecked under TryLock gives the third
  conjunct, through the second. `LockExclusive` says no other refresh is past
  its check when one writes.
- 27 actions are "quiet": no clock move, no log entry, the ledger set at most to
  `now`, no new refresh past the check. They share the lemma `CoolQuiet`.
  `Tick`, `RefreshTryLock` and `RefreshSet` have lemmas of their own.

### HandlerConfigProofs.tla

- **`EnvLoadCorrect`: `Spec => []EnvLoadAllOrNothing`.**
  - It is proved from `EnvInv == TypeOK /\ EnvProgress`. The type part
    (lemmas `TypeInit`, `TypeStep`) only supports the proof: every value is
    a number by construction, so it is not a result of its own.
  - `EnvProgress` says that while loading, the variables before `idx` are
    loaded (acceptable and stored), and all seven are once the load is done.
  - `EnvLoadAllOrNothing` is not inductive on its own: it says nothing about the
    state in the middle of the loop.

### Left to TLC

- **Liveness (`EveryTaskReturns`).** TLAPS cannot reason about `ENABLED` or
  about liveness under fairness, so it stays with TLC.
- **The properties of the violation runs.** They are false, and TLC shows a
  counterexample.
- **Arithmetic of `ProbOutcomes`**, beyond its type.

## Not modelled

- **`WithPrefix` and `WithMissPolicy`, and the link from a config to the
  handler.** They set fields no property reads; a config's values reach
  `CacheHandler` as its constants.
- **The example program.**
- **Redis eviction, and clients outside this process.**
- **Many keys.** This covers key collisions through `prefix` and the growth of
  the maps (`lock.go:23`, `lastRefreshByKey`).
- **JSON encoding and decoding errors**, beyond a failed command.
- **The build.** This snapshot of `src/` does not compile as it stands:
  - `cache.go` declares `WithRefreshAheadThreshold` and `WithProbabilisticBeta`
    twice, once as an `Option` (lines 76 and 85) and once as a `CallOption`
    (lines 111 and 120).
  - `cache.go:41` calls `newKeyedMutex`, while `lock.go:14` defines
    `NewKeyedMutex`.

  The model follows each function's body. The call-level threshold is the
  constant `CallThresholdPct`.

## Plan for later sittings

1. **RefreshAhead with small thresholds.** A run on the threshold's edge
   (`scheduleRefreshAhead` with a delay of 0, and the `<= 0` "unset" rule of a
   call threshold).
2. **Application `Set` racing a late background refresh.** A property on which
   version wins, and whether the documentation promises one.
3. **ProbabilisticRefresh.** A property on what it promises once `@created` is
   set.
