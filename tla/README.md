# A TLA+ development of VERONICA OS

VERONICA OS decides, step by step, how much an LLM application may spend, and
keeps the policies it decides from. This directory holds TLA+ modules of its
core, TLC configurations that check them on small instances, and TLAPS proofs
of what matters most for every instance. Paths below are relative to
`src/src/veronica/`.

## 1. Inventory

| Component | State | Operations | Talks to |
|---|---|---|---|
| **VeronicaOS** (`os.py`, `_timeguard.py`, `types.py`) | `_total_spent_usd`, `_chain_spent_usd`, `_last_analysis`, `_step_counter`, one lock | `before_step`, `after_step`, `step`, `run_step`, `close` | planner, arbiter, store, collector, emitter (calls); veronica-core (external) |
| **SimplePlanner, AdaptivePlanner** (`planner.py`, `adaptive_planner.py`) | `_effective_ceiling` and a cooldown, shared by all chains | `plan` | called under the lock of VeronicaOS |
| **PassthroughArbiter, ProportionalArbiter** | none | `arbitrate` | called under that lock |
| **RedisArbiter** (`redis_arbiter.py`, `_redis_scripts.py`) | in Redis: a counter of remaining microdollars, an allocation record per (request, step) with a time to live | `arbitrate` (LUA_RESERVE), `settle` (LUA_SETTLE), `set_arbitration_context` | other processes through Redis; ProportionalArbiter when Redis fails |
| **Stores** (`store.py`, `file_store.py`, `pg_store.py`) | outcomes per chain, running statistics, a pending budget context; on disk: lines, an older generation, a copy of the statistics | `set_budget_context`, `commit`, `build_history`, flush, rotation, `close` | called by VeronicaOS outside its lock |
| **Collector, analyzers, cost models** | none | `collect`, `analyze`, `estimate` | called by VeronicaOS under a time budget; analyzers and cost models read the store's view |
| **BufferedEmitter** (`buffered_emitter.py`), subscribers | ring buffer, subscribers, failure counts | `emit`, `subscribe`, `unsubscribe`, `drain` | callbacks outside the lock, `EventIngestor.on_event` among them |
| **EventIngestor, CPStepOutcomeStore** (`ingest/event_ingestor.py`) | batch, dead letter, counters; records up to a cap | `on_event`, `ingest`, `flush`, retried `_write` | a store that may fail |
| **Replay, simulation** (`replay/`, `api/routes/simulate.py`) | none | evaluation of an override policy over recorded events, or of a policy over a scenario | reads CPStepOutcomeStore |
| **PolicyDistributor, PolicyRegistry** | version counter; latest bundle per chain; a lock each | `distribute`, `register`, `update` | registry calls distributor between its own lock regions |
| **Rollout pipeline** (`rollouts/`) | state, history, simulation result of each rollout | create, simulate, approve, promote, activate, revoke, rollbacks | distributor; policy registry on activation |
| **Tenants** (`tenants/`, `api/routes/tenants.py`) | a forest of tenants with overrides | register, update, delete, resolve | API |
| **Other API routes, auth, audit, metrics, CLI, UI** | caches and counters | paging, rendering | the registries above |

What is hard: threads interleave between the lock regions of `before_step` and
`after_step`; processes share a budget through scripts whose replies may be lost; an
allocation may expire before it is settled; stages exceed a time budget after they
have had their effect; commits, snapshots and settlements fail half way; a process
dies and forgets; statistics are written to disk outside the lock they are copied
under, and files are read while they rotate; callbacks fail and are removed while
threads call them; a batch of events is written again after it was written in part;
policies are replaced while an updated copy of them is validated; a policy goes live
before the transition that should permit it; a tenant's ancestors change while its
policy is resolved. `PROJECT.json` lists each of these at its line.

What makes each component correct:

- *Shared budget*: never more money than the total, none lost but as a settled cost
  or an expiry, each reservation given back once.
- *Pipeline*: the request budget is respected as far as the locking allows, the
  organisation's cap holds, only committed steps are charged, a step that runs comes
  to an end.
- *Policy registry*: one update wins per version, no update undoes another,
  versions are unique and only grow.
- *Rollouts*: no policy becomes active around simulation, approval and
  promotion; what was approved is what was simulated; a refused one goes nowhere.
- *Planners and analyzers*: the ceiling stays within its bounds and what a chain
  has left, is raised after clean runs only, and moves once in a cooldown, which is
  documented as one per chain.
- *Stores*: statistics, in memory and on disk, are those of a prefix of what was
  committed, the disk is not far behind, rotation keeps the last lines, a view
  shows outcomes in order and once, and the three stores agree.
- *Emitter and ingestor*: every event is drained, buffered or counted as dropped,
  and, if it is the kernel's, stored, waiting, dead or counted as lost; a
  subscription is removed only after failures of its own.
- *Replay and simulation*: the answer depends on the events and not on the order
  threads stored them in, and both evaluate a policy alike.
- *Tenants*: no cycle, a walk to the root that ends within its limit, and an
  effective policy in which each field is that of the nearest tenant to set it.

## 2. Modules

| Module | Models |
|---|---|
| `Sums` | sums of indexed amounts, as a recursive function |
| `BudgetLedger` | the abstract specification of a shared budget: hold, release, charge |
| `LocalArbiters` | the answers of PassthroughArbiter and ProportionalArbiter to one desire |
| `RedisArbiter` | both Lua scripts, the client around them, Redis' faults and expiry |
| `VeronicaOS` | processes, threads and steps; composes `LocalArbiters` and an instance of `RedisArbiter` |
| `PolicyRegistry` | PolicyRegistry over PolicyDistributor, callers as threads |
| `Rollouts` | RolloutRegistry and its endpoints over the distributor and the live policies |
| `StepHistory` | what stores compute over a chain's outcomes: running statistics, streaks, loop score |
| `FileStore` | the files, the statistics and their copies, rotation, readers, faults, crashes |
| `Stores` | MemoryStore and PgStore, fed with what FileStore commits |
| `AdaptiveLoop` | planners, analyzers and cost models in the loop of one VeronicaOS; composes `StepHistory` and `LocalArbiters` |
| `BufferedEmitter` | the ring, the callbacks outside the lock, subscriptions |
| `EventIngestor` | conversion, batches, retried writes, dead letter, the capped store |
| `Replay` | ReplayEngine and `/simulate` as functions, and what they should answer |
| `EventPipeline` | emitter, ingestor and replay composed: threads emit through callbacks into the store |
| `Tenants` | TenantRegistry, PolicyResolver and their endpoints |
| `RedisArbiterProofs`, `VeronicaOSProofs`, `AdaptiveLoopProofs`, `StoresProofs`, `RolloutsProofs`, `PolicyRegistryProofs`, `TenantsProofs`, `EventPipelineProofs` | lemmas and theorems |
| `MC...` | instances for TLC: small sets as definitions |

`BudgetLedger` is implemented by `RedisArbiter` (`ImplementsLedger`, with
`free` the counter as LUA_RESERVE sees it and `held` the live records), as long as
no desire is negative. `VeronicaOS` uses `RedisArbiter` as it is
(`OSImplementsRedis`), but after an overrun it may desire a negative ceiling.

### How state and actions correspond to the code

- **RedisArbiter.** A script is one action because Redis runs it atomically.
  `remaining = NoKey` is a missing counter: the whole budget to LUA_RESERVE
  (`Available`), zero to LUA_SETTLE (`OrZero`). A `RedisError` may mean that the
  script never ran or that it has yet to run: the script joins `late` or not, and
  `RunLate` runs it at any later time. Amounts are integers in grains, `Grain` to
  a microdollar, so that `round` is modelled by what it does, half to even.
  `spent`, `lapsed` and `cold` are history variables; `cold` says that a settle
  has run before the counter was set. The records' other fields, and
  steps and token ceilings, are left out: no decision here depends on them.
- **VeronicaOS.** A step moves through `pc`: `idle`, `seen` (the analysis has
  been read), `running` (it has its policy), `collected`, `accounted`, `ready`
  (the budget context is set), `committed`, and an end: `done`, `rejected`
  (`to_exec_config` raised), `dropped` (the collector was too slow, or
  `build_history` or the analyzer raised, `AnalysisFails`), `failed` (commit
  raised) or `gone` (its process crashed). Each lock region and each call to the
  store or to Redis is one action; `PlanAndArbitrate` is the whole region that
  reads the budget, plans, clamps and arbitrates, with the planner's drift, its
  fallback after a time-out, the organisation's clamp and the arbiter's answer.
  `run_with_budget` measures a stage after it has run, so a stage that is too
  slow has had its effect: `ArbiterTooLate` still reserves, a slow planner still
  moves its ceiling. `Drift` rounds the factors 0.90 and 1.05 to the grid of
  amounts in either direction. veronica-core is external: `Call` is a wrapped
  call that starts below the ceiling, so never in a step that was denied, and may
  pass it by `Overshoot`. The
  analyzer is a choice among `Recommendations`.
- **PolicyRegistry.** Each lock region of `register` and `update` is one action
  of the caller's thread; `distribute` is an action between them. An update is given
  any set of fields at once. Hash, signature
  and time stamp are left out; a policy is a function from fields to values, some
  of which validation refuses.
- **Rollouts.** The endpoints are coroutines that never wait, so the event loop
  runs each as one step, 409 and 422 answers included when they leave a change
  behind. Rollbacks have no endpoint and are calls of `transition`.
  A history is the sequence of states moved to.
- **FileStore.** The region under the lock in `commit` is one action up to a
  rotation, whose `unlink` and `rename` are two, since readers do not hold the lock.
  The copy of the statistics is taken in `Commit` where the code takes it, before
  `commits_since_rotate` is raised, and written by `WriteStats` at any later time.
  `build_history` is `BeginRead`, `ReadActive`, `ReadRotated` and `EndRead`:
  statistics by reference under the lock, then each file, then the statistics again.
  A failing write may leave a torn line, or an empty statistics file, which
  `write_text` truncates first; `Restart` forgets all but the files. `counted`,
  `saved` and `log` are histories of outcomes, to which the statistics are compared
  by a definition that does not fold (`AreStatsOf`). A reader that straddles a
  rotation may see outcomes twice or miss older ones (`disturbed`); a torn line
  spoils the outcome appended to it, and a second torn append leaves it torn; a
  delayed flush can leave an arbitrarily old copy on disk, as the docstring at
  `file_store.py:109` admits. `flushed` is a history of how many outcomes the newest
  copy written was of, so that `Len(saved) < flushed` says that an older one lies
  over it. Whether the latest write overtook another is not enough: of three copies
  written in the order newest, oldest, middle, the last overtakes none and still
  leaves the file behind.
- **AdaptiveLoop.** `BeforeStep` is estimate, plan and arbitration, `AfterStep`
  analysis, account and commit; the steps of one VeronicaOS follow each other
  here, while `VeronicaOS` interleaves them with the analyzer as a choice. The last
  call of a step may pass its ceiling (`Overshoot`); a step whose ceiling is then
  negative ends in `to_exec_config` (`RefuseStep`). The cooldown is one for all
  chains, as its key is `""`; `sinceAdjusted` and `plansSince` are histories of the
  plans since the ceiling moved, of all chains and of each. The ceiling, clamped to one
  chain's remainder or raised to its estimate, is stored for all.
- **BufferedEmitter, EventIngestor, EventPipeline.** `BeginEmit` copies the
  subscribers under the lock: a callback is a pair of its name and the number of its
  subscription, so one that has been replaced meanwhile is still called, while
  failures are counted, reset and removed by name, as the code does. Each callback
  returns, raises or exits (`SystemExit`, `KeyboardInterrupt`: nothing is applied),
  and `EndEmit` resets and removes. An emit from within a callback is one more emit
  under way: `Threads` are calls of `emit`, not threads. `failed` is a history of the
  failures of a subscription's own callback, forgiven when an emit ends in which it
  returned; `overlapped` are the names renewed while an emit was under way that was
  to call, or to remove, an earlier subscription of theirs.
  `on_event` ignores an event without a report of the kernel (`OnOtherEvent`), such as
  the `step_completed` and `step_denied` of VeronicaOS, and runs in the emitting
  thread: its callback returns when the batch it took over is written, attempt by
  attempt. A failing attempt may store any prefix of the batch. The sleep
  between attempts is where other threads interleave. The ingestor is taken to be
  subscribed first and for good, so that it is called before any other callback: one
  that exits before it would keep the event from it.
- **Replay.** A field of a policy has a kind and a number, as the two readers
  differ in what they accept: replay reads numeric text for `ceiling_usd`,
  simulation does not; simulation takes any priority and a non-finite number of
  steps. Tokens are limited per step in one and cumulatively in the other.
- **Tenants.** Each registry operation is one region under its lock. Resolution
  is three: the endpoint finds the tenant, `resolve` reads it, and reads its
  ancestors later, so an answer may combine two forests; a tenant deleted in
  between gets the base policy. `created` is a logical clock. Validation at the
  API is of keys alone: a value that is not valid is stored and makes every
  resolution below it answer 422.

## 3. What is checked

| Run | Shows |
|---|---|
| `redis` | types; no money created, and none lost until a settle precedes the first reserve; refinement of the ledger; a reservation is as large as the ceiling granted to a step that asks once |
| `os_local` | request budget and granted ceilings, two threads on three chains with the passthrough arbiter, calls that overshoot, snapshots and histories that fail, a denied step |
| `os_shared` | two processes on a shared budget: charges and releases for committed steps only, the organisation's cap, a running step ends (liveness) |
| `adaptive` | bounds of the shared ceiling; raises are earned and the ceiling moves once in a cooldown of all chains together, for both planners, both analyzers and both cost models |
| `stores` | types and torn lines; statistics of a prefix, in memory and on disk; bounded lag; history kept through rotations; faithful views; FileStore, MemoryStore and PgStore agree |
| `events` | no event is unaccounted for from the emitter to the store; duplicates only from failed attempts; subscriptions are removed for their own failures only, unless renewed during an emit; replay does not depend on the order of arrival; simulation follows replay |
| `registry` | versions, one winner per version, updates raise the version and lose no field; two callers, two chains, policies of two fields |
| `rollouts` | the gates, for a good and a refused policy, up to the history limit |
| `tenants` | the forest can be walked and has no cycle; an effective policy is what the nearest ancestors say |

Bounds. In `redis`, desires of 3, 5 and 6 grains with two grains to a microdollar
reserve 2, 2 and 3 of 6 microdollars: two reservations fit, a third, a late or an
unreserved one may not, halves round to even, and one desire has a priority that the
fallback leaves out; a cost of 6 grains exceeds, or is, the reservation and a
non-finite one settles nothing; `MaxLate = 2` lets one script overtake another,
`MaxSettles = 2` a step settle twice, and step 1 may arbitrate again (`Retries`). In
`os_local` three steps suffice for two that interleave and one that finds what they
left, and a denied one holds a thread; each may overshoot its ceiling of 1 by 1, on
a budget of 2, so that what remains becomes negative. The planner's ceiling does not
move there, and `os_shared` has one thread and one step to a process:
how the ceiling moves is the matter of `adaptive`, and the theorems hold for any
threads, steps, recommendations and crashes. One crash in `os_shared` between any
two steps is enough, as memory starts from nothing again. In `registry` two callers
overtake each other over four versions; callers, chains, fields and accepted values
are interchangeable (symmetry) and no property of that run is a liveness property.
In `Rollouts` the limit of the history (1000 in the code) is 6, so that it is
reached and passed through every gate once with a rollback. In `stores` one of two
chains fits (`MaxChains = 1`), four commits by two writers rotate twice (`MaxLines =
2`) and flush twice (`FlushInterval = 2`), a reader may stop between any two reads,
and one fault and one crash fall anywhere; a second model is beyond `MaxModels = 1`.
In `events` two emits under way, which are interchangeable, pass four events, one
without a report, through a ring of one and a batch of two; two faults exhaust the
two attempts of one write or one of each of two; the dead letter holds one outcome
of two, the store three of up to five; one callback besides the ingestor's may fail
twice, which removes it, may exit, and may be subscribed again, also while an emit
has it to call. In `tenants` four interchangeable ids, one registered per tick of
`MaxCreated = 4`, ask for a chain longer than `MaxDepth + 1 = 3` and reuse an id
after a deletion. In `adaptive` six steps on two chains pass the thresholds (lowered
to 1 to 4) of both analyzers and outlast a cooldown of 2; three setups pair the
components as the code's compositions do. `CHECK_DEADLOCK FALSE` is set where a
finite number of steps, versions or settlements is used up and the system rightly
stops.

Fairness. `os_shared` assumes weak fairness of a step that
has begun: its thread is scheduled, every operation of the pipeline returns
(`before_step` and `after_step` wait for nothing but one lock, held for bounded
work, and for Redis, which answers or errs), and the application's calls end
(veronica-core enforces the step's time-out). Nothing is assumed of steps that
have not begun, of crashes, of late scripts or of expiry. The other runs state no liveness:
whether a store, a callback or a reader goes on is up to its caller.

### Where the code departs from what it says

Each of these is a run whose one property TLC refutes; `PROJECT.json` quotes the
line of the repository that states it.

| Run | What happens |
|---|---|
| `rollouts_bypass` | activating a draft answers 409 and leaves its policy live |
| `stores_cold` | the copy of the statistics that is flushed at a rotation says `max_lines - 1` commits since the last one: a restart rotates at its next commit and unlinks the last `max_lines` outcomes |
| `adaptive_chains` | a chain's ceiling moves in two of its plans in a row: the plans of another chain have used up the cooldown, which is kept under one key for all |

Others are visible by changing one constant or premise of a passing run:

- Without the premise `~cold`, `BudgetNeverLost` fails in `redis`: the first
  script of a scope is a settle, finds no counter and leaves the budget at 0.
- With a negative desire, `redis` creates money: it passes the check at
  `_redis_scripts.py:28` and its reservation adds to the counter.
- In `os_local` without overshoot, two threads are each granted what remains and
  pay more than the budget (the comment at `os.py:364` expects the lock to prevent
  it): `RequestBudgetRespected` with `Threads * Overshoot` for `Excess` is refuted.
- Without the premise on `overlapped`, `RemovedAfterFailures` fails in `events`: two
  failures of a callback that has been replaced, but that emits under way had copied
  (`buffered_emitter.py:51`), remove the subscription that replaced it, which has not
  failed; one renewed during the emit that removes its name is lost as well.
- After an overrun the next ceiling is negative and `to_exec_config` raises at
  `os.py:217`, before the `try`: there is no `after_step`, although the docstring
  at `os.py:209` promises one.
- A register that is slow between its distribute and its store replaces a newer
  policy (`api/policy_registry.py:73`; line 27 calls it the latest): updates are
  guarded by the version, registrations are not.
- A step that arbitrates again (`Retries`, without its exemption in
  `ReservedGrantIsBacked`) is answered the ceiling it desires now, while the
  record keeps the old amount (`redis_arbiter.py:186`).
- When the budget is insufficient the reply grants what remains and reserves
  nothing, so several steps are granted the same money (`redis_arbiter.py:183`).
- With two threads a commit may consume the budget context another has set, or find
  none (`os.py:545`, against the comment at `os.py:530`): in the model, `Commit` of one
  step between `SetBudgetContext` and `Commit` of another. The statistics then have
  the headroom of the other step, or keep the one they had.
- With `OrgPriority = 0` in `os_shared`, `OrgCapHolds` fails: the fallback arbiter
  leaves the chain out and the default ceiling takes the place of the organisation's
  (`os.py:451`).
- With `MaxCalls = 2` the recorded cost is that of the last call, not of the step
  (`collector.py:79`).
- `error_total` counts events that could not be written as well as those that
  failed conversion, of which alone `event_ingestor.py:236` speaks.
- A chain of tenants longer than `MAX_DEPTH + 1` is refused as a cycle, by a
  `RuntimeError` that `create_tenant` does not catch.
- At the history limit `simulate` sets the result and refuses the state that
  goes with it (`rollouts/registry.py:209`).

## 4. What is proved

All theorems hold for every value of the constants that meets the named assumptions
of the modules: types and ranges in `RedisAssumption`, `VeronicaAssumption`,
`SharedAssumption`, `RolloutAssumption`, `RegistryAssumption`, `TenantsAssumption`,
`EmitterAssumption`, `IngestorAssumption`, `ReplayAssumption`, `PipelineAssumption`,
`FileStoreAssumption`, `StepHistoryAssumption`, `StoresAssumption` and
`LoopAssumption`. TLC evaluates each of them on every run that uses the module. Some
theorems have further hypotheses, named below with the counterexample that shows
why; the `os_*` runs that check the property satisfy them.

**The shared budget.**

- `LedgerSafe` (a lemma on `BudgetLedger`): no money is created; `Release` needs
  that the sum changes by one term (`SumUpdate`).
- `RedisTypeCorrect`: `TypeOK` is not inductive, because a negative reservation
  leaves a negative record; the counter stays natural only as LUA_SETTLE clamps,
  and `late` scripts must settle natural amounts. The strengthening says that.
- `RedisImplementsLedger`, assuming no desire is negative (section 3 has the
  counterexample without it): records are then natural numbers, each
  script is a `Hold`, `Release`, `Charge` or a stutter, an expiry is a `Release`,
  and `RedisBudgetNeverCreated` follows through `LedgerSafe`.
- `RedisBudgetNeverLost`: inductive with the types. The premise `~cold` is needed
  (section 3 has the counterexample without it): a settle that
  finds no counter sets `cold`, so under `~cold'` LUA_SETTLE reads the counter that
  LUA_RESERVE sees.
- `RedisGrantsBacked`: a reservation that was confirmed stays as large as the
  ceiling rounds to. A late reserve script of the same step could change the
  record; one exists only after an error, and then it was the fallback that
  granted, so a step that asks once has either the answer or the late script.

**VeronicaOS.**

- `OSImplementsRedis`: through an instance of `RedisArbiter`, every step of any
  process is a step of the arbiter or leaves it alone: calls that are lost, dropped
  for being too late or never made are all calls that it allows.
- `OSChargedOnceCommitted`: for any interleaving and crash. `spent`
  is shown to be a sum of charges, one for each step and none above its cost
  (`ChargeInv`): a step is charged only once it has settled, a settle script that
  is late belongs to a step not charged yet, and no two belong to the same.
- `OSReleasedWhenCommitted`: scripts that are late settle keys of recorded steps,
  because `after_step` settles committed steps only and records are never taken
  back (`SettleInv`); LUA_RESERVE ends no reservation, and LUA_SETTLE ends that of
  its own key.
- `OSOrgCapHolds`, under `OrgCapIsReal` (the cap is not negative, and an arbiter that
  divides has a minimum allocation within it and a positive priority): every answer
  is at most what was asked or the minimum, and what was asked is clamped. Section 3
  has the counterexample with priority 0.
- `OSOverrunBounded`, `OSRequestBudgetRespected`, under `InBudget` (a local arbiter
  that divides by a positive priority, if it divides, and answers in time) and
  `Moderate` (the ceilings that are used when a planner or an arbiter is not heard
  are no larger than `MaxCeiling`), for any threads, calls, overshoot, failures and
  crashes. The invariant (`OverrunInv`) adds to what a process has spent what the
  steps not accounted for yet may still spend (`Hot`): nothing under a ceiling of
  zero, and the ceiling with a last call's overshoot otherwise. Under the lock a
  step is planned within what remains, and the others are `Threads - 1`. What a step
  has paid is within what it may spend (`PaidWithin`), and the total is what was
  accounted (`SpendAccounted`, an invariant of the proof), so the payments are
  bounded with the ceilings. A shared arbiter grants what remains of the shared
  budget, whatever the request has left, so neither holds with it. What a step paid
  whose cost is lost on the way to the account (a failed snapshot or history, a
  collector too slow, earlier calls, a crash) is in neither, and makes room for
  others: the code does not know of it.

**Adaptive loop.** For any chains, outcomes, prices, limits and composition of
planner, analyzer, cost model and store. Both follow from `LoopInv`.

- `LoopCeilingBounded`: the planners clamp their ceiling, then take at least the
  estimate and at most what remains; the property is inductive with the types, of
  which statistics are the hard part, as an average is a function of the models
  that were seen so far.
- `LoopAdjustmentsAreEarned`: what the planner knows is an analysis of statistics
  and a number of steps left to wait, and the property speaks of outcomes and
  plans. `Paced`: the steps left and the plans since the last adjustment cover the
  cooldown together. `Streaks`: a streak of successes in the statistics is one of
  outcomes the store has, at the end of the chain, also after the oldest are
  dropped. `Earned`: so an analysis that says to loosen was made of a chain
  that ends in a clean run, and that chain is the one whose step ended last.

**Stores.** For any number of faults and crashes. Beyond types only
`MaxHistory <= MaxOutcomes` is assumed, and only `StoresShowTheSame` uses it: both
are 50,000 in the code, and a larger view of a MemoryStore would be cut short.

- `StoreTypeCorrect` (`StoreTypes`): `TypeOK` says little of the copies on their way
  to the file, which a restart loads, nor of the lines a rotation moves.
- `StoreHistoryKept` (`KeptInv`): a rotation removes the older file, so the active one
  must hold `max_lines` lines by then. `commits_since_rotate` never exceeds the
  complete lines of the active file, and a torn line does not count as one,
  although it takes a line, since the next outcome is appended to it.
- `StoreStatsAccountForPrefix` (`AccountInv`): statistics in memory, in each copy
  that waits and in the file are those of sequences that are prefixes of one
  another. What one more outcome does to a streak, to an average and to the
  least and greatest cost is a lemma each; the averages stay between the extremes
  as `Ema` rounds down to the grid of its samples.
- `StoreLagBounded` (`LagInv`): while nothing fails, for every multiple of
  `flush_interval` that the count has passed there is a copy of as many outcomes or
  more, written or waiting, whatever order the threads write them in. The last
  multiple is closer than `flush_interval`.
- `StoreViewFaithful` (`ViewInv`): the outcomes that can be read from the two files
  are in the order of the log and among it, and, while no write has failed, its end:
  a rotation drops the older ones only, and never leaves both files empty, since the
  commit that rotates has just written a line. What a reader has of the active file
  is a prefix of it until a rotation disturbs the reader, so the older file goes
  before it without a gap; how far it reaches into the log (`ReadUpTo`) does not
  change with later commits and is at least what was committed when it began. A
  file is read by a recursive function, whose steps are lemmas (`ReadToSteps`,
  `OutcomesAppended`: a line that runs into a torn one is lost with it).
- `StoresShowTheSame` (`SideInv`): while nothing crashed the statistics in memory
  are of the whole log; a MemoryStore's chain is the end of the log and the rows of
  a chain are all of it. With no faults every line of both files can be read, and
  while nothing is committed after a reader began, the files it reads stay as they
  are, with no rotation of its chain under way, so what it has is theirs. The
  three views are then the same piece of one sequence (`SamePiece`). Rows are
  selected by a recursive function, since `SelectSeq` takes an operator.
- `StoresImplementFileStore`: feeding the other stores changes nothing for
  FileStore, so the above holds in the composed specification that is run.

**Rollouts and policies.**

- `RolloutTypeCorrect`, `RolloutActiveWasReviewed`,
  `RolloutInvalidGoesNowhere`: `ActiveWasReviewed` speaks of active rollouts only
  and is not inductive; `Gates` says of each stage what its history since the
  last draft must show, and follows each of the valid transitions.
- `RolloutResultStands`, `RolloutActiveIsLive`: a reviewed rollout has a result and
  no bundle is newer than the distributor's count (`Bundled`). Only `transition`
  clears a result, and only on the way to draft; only the activation endpoint asks
  for `active`, and it registers the policy first.
- `RegistryVersionsDistinct`, `RegistryTokenWinsOnce`,
  `RegistryUpdateRaisesVersion`, `RegistryNoFieldLost`, `RegistryTypeCorrect`: for
  any callers, chains, fields and values. A token cannot become valid again because
  no bundle on its way has the version of a token that was presented or has won, and
  all of them are at most the distributor's version; an update whose token is still
  in place differs from what is in place only in the fields it was given
  (`GivenFields`).

**Tenants.**

- `TenantsParentIsOlder`, `TenantsNoCycle`, `TenantsTypeCorrect`: parents exist and
  were registered before their children, through any deletions and reuse of ids,
  since `Delete` leaves no child behind and `Register` takes an id that is nobody's
  parent. No cycle follows from the oldest member of any set of tenants.
- `TenantsForestHolds`: `Up` is a recursive function of the generation, so facts
  about it start from its walk step by step (`UpSteps`, `UpFromAbove`) and from
  `UpSame`: two forests that agree on a set closed under parents have the same walks
  in it. `Walkable`, that every walk is over after `MaxDepth` ancestors, is inductive
  with the ages: `Register` climbs one generation less, from the parent, `Delete`
  takes a tenant no walk passes, `Update` moves no parent. A lineage, defined as a
  least closed set, is what the walk meets (`LineageIsWalk`), and has as many members
  at most. A tenant that was deleted during a resolution has no ancestors.
- `TenantsEffectiveIsInherited`: the chain a resolution builds is the walk reversed;
  of a field, the last of a chain to override it is heard (`LastOverrideCounts`);
  the nearest of those that give it is unique because ancestors are older
  (`LineageIsOlder`).

**Events.**

- `EmitterRemovedAfterFailures`: the count of a name is at most its subscription's own
  failures in a row, as long as no other subscription's callback of that name is
  under way (`OwnFailures`), and a name is removed at `MaxFailures`.
- `PipelineEmittedIsIngested`: an event is counted once between emitter and ingestor
  because threads emit different events, the ingestor is never removed, an emit
  that exits has called the ingestor before, and a thread that writes for an event has handed
  it over (`Handover`).
- `PipelineEventsAccounted`: no batch repeats an event and none that is being
  written has been given up before (`Unwritten`); the totals are those of the places
  events can be in, and since a write moves the batch of one thread, `Balance(t)` is
  the account with that batch set apart.
- `PipelineStoredOncePerAttempt` (`OnceInv`): of an event on its way there are fewer
  copies than its attempt's number, and an attempt has a number only as failures before
  it; the store's cap may only take copies away.
- `PipelineReplayIgnoresArrival`: true of any store of events whose time, step, cost
  and tokens are numbers, which what is written has, as only reports that can be
  converted are taken (`OutsTyped`). Chronological order is modelled by rank: the
  k-th event has k - 1 before it. Each rank has an event, because
  different events have different ranks and an injection of a finite set into
  itself is onto (`Places`, `Sorted`); if no two have the same time and step, the
  rank does not depend on the order of arrival (`Ranked`). The property sums costs
  by a fold over a set, the engine along the sequence: a fold takes any
  element out first (`FoldTakesAny`), so they agree (`PrefixCosts`).
- `PipelineSimulationAgrees`: what a simulation has run so far is followed event by
  event (`SimulationFollows`): until it stops, the replay has refused nothing, and
  its cost is that of the events so far; it stops where the replay refuses first.

Sums, walks of a recursive function, bounds on the cost of outcomes and the last copy
flushed are proved about by induction on naturals derived from well-foundedness
(`SetInduction`), since induction theorems with an operator parameter cannot be
instantiated by the provers at hand. That a recursive function over the events of a
replay satisfies its recursion rests on `Iterates`: such a function exists.

Every invariant, action property and refinement that a passing run checks is so
stated by a theorem. Only model-checked is the liveness property `StepCompletes`, which
rests on fairness and `ENABLED` and is out of the prover's reach.

## 5. Plan

Proofs: no safety property that is run is left to prove. The hypotheses that some
theorems have beyond the named assumptions are needed by the code as it is, as
their counterexamples show; should the code come to guarantee one, it can go.

More of the model: several chains under one arbiter if the program comes to
divide a budget among them, and the paging of the API if it comes to keep state.

## 6. Not modelled

- The API's request validation other than that of tenants, policies, replay and
  simulation, its paging and its authentication; audit hashes and metrics; the
  CLI and the UI: none keeps state that the rest reads back.
- The subscribers that log or count are any callback of `BufferedEmitter`.
- The arbiters' division among several chains: VeronicaOS and RedisArbiter present
  one desire at a time.
- The fields of a policy, of a view and of an outcome that decide nothing; hashes,
  signatures, time stamps other than those replay orders by.
- veronica-core, Redis, PostgreSQL and the application are external and modelled
  by what the code here relies on.
- Floating point is replaced by integers: rounding is modelled where money is
  rounded (`ToMicro`, `Drift`), averages and factors are rounded down, non-finite
  numbers are values of their own.
