# Verification of perennia-stratum-rs

A mining-pool bridge for Kaspa: it takes block templates from a node over gRPC,
turns them into Stratum jobs for connected miners, checks the shares miners
submit, keeps an account of them in Redis, and moves that account to PostgreSQL.
A second, separate part locks swap routes for an HTTP client.

This directory holds TLA+ models of the parts that carry the pool's own logic,
TLC configurations that check them, and TLAPS proofs about all of them.
Paths like `src/src/oracle.rs:66` are relative to the directory that holds
`src/` and `tla/`.

## 1. The system

### Components and their state

| Component | Code | State | Operations |
|---|---|---|---|
| Node uplink | `kaspad_client/mod.rs` | gRPC stream, request channel (100), Redis connection | submit task, response task: template, BlockAdded, SubmitBlock reply |
| Job registry | `job_manager/mod.rs` | `JOB_COUNTER`, `active_jobs`, `job_timestamps`, `cached_job`, broadcast channel (1024) | `process_new_block`, collector task every 15 s |
| Connection | `stratum_tcp/mod.rs` | handshake state, receiver, pending payload, difficulty, share counter | handshake, receive, throttle tick, retarget tick, submit |
| Listener | `stratum_tcp/mod.rs`, `main.rs` | semaphore (5000), `WORKER_ID_COUNTER` | accept; three tiers with their own difficulty and throttle |
| Share verification | `diff_engine/mod.rs` | none | `verify_share` |
| Accounting engine | `telemetry/mod.rs` | share channel (10000), `worker_states` | record a share, flush every second, back off |
| Metrics | `telemetry/mod.rs` | `ks_worker_shares`, `ks_worker_hashrate` | HTTP exporter |
| Oracle daemon | `oracle.rs` | none of its own between rounds | every 2 s: move shares, move blocks |
| Route lock | `api.rs`, `omnichain/router.rs` | Redis lock and depth keys | `request_route_lock`, `sor_lock_handler` |
| Liquidity | `omnichain/mock.rs`, `live.rs`, `liquidity_poller.rs` | Redis balances and depths | `execute_rebalance`, faucet, poll every 5 s |
| Scripts, configuration, load tester | `omnichain/scripts.rs`, `config.rs`, `bin/vampire.rs` | none | straight-line code |

### How they interact

```
 node --gRPC--> uplink --process_new_block--> registry --broadcast/cache--> connections --> miners
   ^              |                              ^                               |
   |              +--<-- block_submit (100) -----|---------- solved block -------+
   |                                        collector                            | accepted share
   |                                                                             v
   |                    Redis <---pipeline--- accounting engine <--- share channel (10000)
   |                      | share_buffer, block_buffer
   |                      v
   |                    oracle --transaction--> PostgreSQL
```

Every arrow between tasks is a bounded channel or a store that both sides use
without a common lock. Every task is a tokio task and may run on its own thread.

### What is hard

* the publisher and the collector touch the same two maps, entry by entry, and
  the 16-bit job id wraps around;
* a connection learns of jobs from the cache and from a channel that overwrites
  what a slow reader has not seen;
* a share goes through two channels, two stores and a transaction, each of which
  may refuse, fail half-way or be restarted;
* the oracle reads a list and trims it in two commands while the engine appends;
* `try_send` drops what does not fit, and the miner is told `true` all the same;
* time: intervals, throttles, times to live, idle times.

`PROJECT.json` lists these at their lines, under `hazards`, each with the
properties that cover it or the reason why none does yet.

### What makes each component correct

* **Registry**: a job can be looked up for its whole time to live; it goes away
  soon after; a wrapped id never hits a live job.
* **Delivery**: a connected miner ends up with the newest job, and is told of no
  job before it can be looked up.
* **Ledger**: a share is credited once to its wallet and paid at most once;
  the stores agree; without faults every queued share is paid; what is lost
  stays lost.
* **Retargeting**: the difficulty keeps to the minimum and to what the miner can
  do; it settles, and a steady miner is not moved back and forth; a share is
  credited with the difficulty it was worked at.
* **Listener**: slots are neither lost nor exceeded; miners connected at once do
  not try the same nonces.
* **Uplink and blocks**: the job miners work on is the newest or being replaced;
  it pays the operator again after an outage; a solved block reaches the node and
  is recorded once.
* **Route lock and poller**: a swap moves value and makes none; two requests for
  one pair should exclude each other, which the code does not achieve; no request
  leaves a lock behind; the depth of a token the indexer answers for is always there.

## 2. The modules

| Module | Models | Role |
|---|---|---|
| `JobManager` | `job_manager/mod.rs` | registry: publisher and collector |
| `JobDelivery` | broadcast channel, `handle_worker_connection` up to line 187 | composition of `JobManager` with the connections' job feed |
| `ShareAccount` | – | abstract: what the pool promises about a share |
| `ShareLedger` | submit's accept branch, `telemetry/mod.rs`, `oracle.rs` A | detailed: a share on its way to PostgreSQL |
| `VarDiff` | `handle_worker_connection`, retarget branch and share counter | difficulty of one connection, against a rig that changes its power |
| `Connections` | accept loop, connection ids, `mining.submit` to its verdict, messages of a retarget | the tiers' listeners, and one connection in detail |
| `Uplink` | `kaspad_client/mod.rs` | start-up, submit task and response task, with the node and Redis |
| `BlockPath` | submit's block branch, `oracle.rs` B | composition of `Uplink` with the record of solved blocks |
| `LiquidityPoller` | `liquidity_poller.rs` | the poller and the keys it refreshes |
| `RouteLock` | `api.rs`, `router.rs`, `mock.rs`, `live.rs` | composition of `LiquidityPoller` with concurrent swap requests |
| `MCJobManager`, `MCJobDelivery`, `MCShareLedger`, `MCVarDiff`, `MCConnections`, `MCBlockPath`, `MCRouteLock` | – | instances for TLC |
| `JobManagerProofs`, `JobDeliveryProofs`, `VarDiffProofs`, `ShareLedgerProofs`, `ConnectionsProofs`, `BlockPathProofs`, `RouteLockProofs` | – | theorems and proofs about the module of that name; those about `Uplink` are in `BlockPathProofs`, those about `LiquidityPoller` in `RouteLockProofs` |
| `QueueLemmas` | – | lemmas about sequences used as queues, for three of the proof modules |

Operators called `X_Something` under the comment "Mutant" are variants of `X`
with a plausible bug. No specification uses them. Each property of a passing
run is violated when `X` is replaced by the variant named in `PROJECT.json`.

### JobManager

A job *is* the `unique_id` it drew from `JOB_COUNTER`; header, block and payload
belong to it. `process_new_block` is four steps, in the order of the code:
insert into `active_jobs`, insert into `job_timestamps`, write `cached_job`,
send. A lookup between two of them sees exactly what a thread could see.
The collector is a scan and two removals per stale key.

* The scan is one step. `DashMap::iter` locks one shard after the other, so a
  stamp written during the scan may or may not be seen. A fresh stamp is not
  stale, so both outcomes are those of a scan before or after it.
* Instants are ages. `Tick` is one unit of time for all of them.
* `NodeKeepsRate` is the one assumption on the node: it sends fewer than
  `IdSpace` (65536) templates in `Window` = time to live + period + lag (135 s
  and the lag), so that a key comes round again only after it was idle that long.
  At Kaspa's ten blocks per second about 1400 are sent.
* `GcLag`: a due collection is finished at most that much after its deadline.
  `GcOnTime` stops time otherwise. The interval keeps tokio's default behaviour
  of catching up on missed ticks.
* `idleFor` is a history variable for that assumption and for the properties;
  no code step depends on it otherwise.
* The header fields come from the node and are well formed. A malformed one would
  panic in `expect` before anything is inserted and end the uplink's response task.

### JobDelivery

One connection slot per member of `Conns`, one task each. Its phases are the
positions in `handle_worker_connection`: subscribed to the channel, handshake
states, difficulty sent, cache read, select loop. The channel is one queue per
receiver, with tokio's rule for a full channel: the oldest job is overwritten and
the receiver is told `Lagged` once. `Ok(job) = job_rx.recv()` does not match
`Lagged`; the receiver has moved on to the oldest job still there, so the next
poll continues. The throttle sends the newest pending job.

What is left out: a `write_all` that blocks on a slow miner (the connection then
takes no other step, which the model also allows), the retarget branch and the
submit branch, which do not touch the variables here. The result of a write in
the select loop is ignored by the code; a failed write leads to the end of file
that `Disconnect` models, so `view` is the last job *written* to a connection.

### ShareAccount and ShareLedger

`ShareAccount` says that a share is new, then held, then paid once or lost,
and that the last two are final. `ShareLedger` follows each share through the
share channel, the entry of its worker, the Redis pipeline, the share buffer, the
oracle's batch and its transaction.

* Amounts are abstracted: a ledger counts how often each share was credited, so
  "the right amount" becomes "each share exactly once". The count saturates at
  `MaxCredits` = 2, which is all that the properties tell apart.
* A flush visits the workers one by one, in any order (a `HashMap`), then the
  pipeline is executed command by command: Redis runs a pipeline in order, not
  as a transaction. `PipelineFails` cuts it anywhere. That one command of a
  pipeline is refused on its own (wrong type, out of memory) is not modelled.
* Whether a worker is online depends on its decaying hash rate and on 30 s
  without a share. The model keeps what this depends on that matters here: a
  worker may go offline only after `IdleFlushes` flushes without a share
  (30 of them), and may stay online longer. This takes the wall clock to move
  with the interval. The fault `"clock"` drops that: a clock set forward makes any
  worker look idle (`MayGoOffline`), and its unflushed shares go with it.
* Commands that only report (hash rates, `worker:<w>:shares`, the telemetry JSON)
  are left out. A flush without workers does nothing and is left out, too.
* LRANGE that fails is an empty round and therefore a stutter. A commit whose
  answer is lost but which took effect needs nothing more: the batch is forgotten
  either way, as `Commit` followed by the next round.
* A share that also solves a block takes another branch and is *not* credited as
  a share (`stratum_tcp/mod.rs:269-297`); such submissions are not in `Shares`.
* `Crash` is the process: Redis and PostgreSQL keep what they have. Redis losing
  its data is not modelled.
* `accepted` is a history variable.

### VarDiff

`current_diff`, `share_count`, `last_vardiff_retarget` (as the time `elapsed` since)
and the deadline of `vardiff_interval` (as the time `untilTick`) are the locals of
`handle_worker_connection`. The other variables are the rig: it does `power` units
of work in a unit of time, and `current_diff` units make a share.

* The clock that measures shares starts *before* the handshake, so the first
  measurement may be long and hold few shares. `Handshake` lets it be as long as
  the client likes, up to `MaxHandshake`.
* `tokio::time::interval` fires at once, then every 30 s from that instant; a late
  tick does not move the next one (`untilTick' = untilTick + TickEvery`). `TickLag`
  bounds how late the select loop takes a tick that is due. So a measurement takes
  from 60 to 90 s and the lag.
* The comparisons with half and twice the target are the code's, multiplied out:
  the code divides floating point numbers, whose rounding could matter only where
  a rate is exactly on the threshold.
* `StartDiff` and `MinDiff` are the results of `clamp_to_power_of_2`. The
  invariants do not need them to be powers of two.
* The rig is regular and submits within the unit of time in which it finds a
  share. Random shares come close to that at the default of 20 a minute, but a
  run of luck can still move the difficulty: nothing here says otherwise.
* A share counts whatever job it is for. The pool keeps no record of nonces, so
  what it counts is submissions that verify; the rig submits each share once.
* The rig follows a new difficulty at once. What happens to shares on their way
  when it changes is in `Connections`.
* `config.var_diff` is true; otherwise every tick is skipped and nothing changes.
* `peakPower`, `steady` and `lastMove` are history variables.

`NoFlapping` speaks of measurements that are `steady`: the power did not change
since they began, and at their beginning less than one share was under way. It is
why half and twice the target are far enough apart, and it needs a target that is
large enough for the unit of time (`TargetApart`, section 4): with a target of 1, and of
2 when a minute has eight units, TLC finds a rig that is moved and then moved back.
`SettlesInBand` allows the minimum as a resting place only to a rig too weak for the
band there (`TooWeak`).
Tier 1 starts at difficulty 1, below the default minimum of 2: the first time its
miner is too slow, "lowering" raises it to 2. `DifficultyFloor` allows this, and
`NoRunaway` counts the minimum among what needs no justification.

### Connections

One accept loop per tier, each with its semaphore; `main` runs the loop of the last
tier itself, so that its failure ends the process. A permit is in the semaphore
(`free`), with the loop (`listener = "accept"`), with a task that has been spawned
(`spawned`) or with a connection (`conn`). The task draws its id from the counter
that all tiers share, when it first runs; its extranonce is that id modulo
`ExtraSpace`. Whether the acceptor is waiting for a slot or for a client makes no
difference to a client in the backlog of the socket, which is not modelled.

For the connection `Watched` the module has both ends: the difficulty the pool
checks at, the one the miner works at, `mining.set_difficulty` messages on their
way to it and submissions on their way back, both in order. A submission carries
the difficulty it was `worked` at, the largest difficulty its hash meets (`quality`),
and the history `raced`: whether the difficulty was being changed while it was
found or sent.

* `Retarget` may halve or double at any time; when the code does so is the
  subject of `VarDiff`. A message counts as applied when the miner works by it,
  so a miner that waits for the next job is included.
* `verify_share` is a comparison: the pool's target is the largest hash divided
  by the difficulty. At difficulty 1 every hash passes. A network block is checked
  first and is no share.
* Whether the job is still known is an input; `JobManager` says for how long it is.
* A submission of at most 12 hex digits is padded and prefixed by the extranonce
  (`FullNonce`). A longer one is taken as it is, and one that is no number becomes
  0: neither is covered by `DisjointNonces`.
* Every submission is answered `true`, also a stale or invalid one.
* A failed write in the select loop is ignored by the code; the connection it
  belongs to is broken, and `EndConnection` models what follows.

### Uplink

`stage` is the position of `start_kaspad_client`; from `"running"` on it has returned
and its two tasks go on. `sender` and `reader` are what these hold in their hands.
The request channel and the stream behind it are one queue of `RequestCap`; the
node takes requests in order and its answers are not limited.

* A template is whether it is `fresh` (no block has been added since) and its
  `payee`. The operator's address is in Redis from the start; without Redis the
  configuration's is used. An operator who changes the address while the pool
  runs is not modelled.
* `NodeAddsBlock` makes every template outdated and notifies a subscriber. Its
  bound, `MaxAdded`, limits notifications under way, not blocks.
* `NodeDeclines` is a response without a block: nothing asks again before the
  next notification. `declined` remembers it.
* `StreamEnds` loses what is under way. Nothing opens the stream again: the job
  registry runs dry, and solved blocks are taken from the channel and dropped. That
  is what the code does, and both liveness properties are stated up to it.
* `redis_conn` is a multiplexed connection: once broken it stays so until it is
  replaced, which happens when the SET of a template's arrival fails.
* When `start_kaspad_client` fails before the submit task exists, the channel of
  solved blocks is closed, and without a template there is nothing to solve. When
  it fails later, the submit task goes on and drops blocks.

### BlockPath

`SolveBlock` is a submission that meets the network's target: it spawns the push
task and offers the block to the uplink. There is no record of nonces seen, so
the same solution can come again for as long as its job is known. The oracle's part
B is three steps, LRANGE, LTRIM and the INSERTs of a batch; nobody reads the table
between two of those, so they are one step with any subset failing. An outage
of Redis ends the oracle's connection for good, since nothing replaces it: records
stay in the list until the process is restarted. A restart is not modelled here;
`ShareLedger` has it for the same loop.

A row is its block. The nonce column is a signed 64-bit number read with
`as_i64`: from 2^63 on (extranonces 8000 and up) 0 is recorded. The hash,
which identifies the row, is not affected.

### LiquidityPoller

The poller waits for a tick, polls the tokens one after the other and waits again.
`PassTime` is the clock: it cannot pass a tick that is due, nor the timeout of
a request. `MissedTickBehavior::Skip` makes the next deadline a multiple of the
period after the last one. Whatever goes wrong with a token, the loop goes on
with the next. Redis answers at once; a poll that waits for a connection of the
pool is not modelled (no user of the pool holds one while it waits for another).

The longest time between two polls of one token is `Period + NumTokens *
PollTimeout`: 5 + 3 * 3 = 14 s, against 15 s of the key. `LiquidityPollerAssumption`
states that inequality, and a fourth token, or a timeout of 4 s, breaks it.

### RouteLock

A request is a position in its handler (`phase`) and what it asked for. Every await
is a step of its own, and at every await the request may end (`Abort`) by an error
or because its client left, which drops the handler.

* The lock's key is a fresh UUID, so `SET NX` always succeeds and *no two requests
  exclude each other*. The comment at `router.rs:51` speaks of mutual exclusion, and
  the test at `sor_integration_tests.rs:134` expects a second lock to be refused; that
  test runs a script, `router.script`, which the router no longer has. Nothing
  reads a lock, and only its time to live removes it. The comment at `live.rs:47`
  says that the lock is verified; the code returns a UUID.
* So each request is held against the whole depth, and a wallet can be overdrawn
  by two requests that both pass the balance check. The run `double_swap` shows
  it; `RouteLockProofs` proves that this is the only way (`OverdrawnByOverlap`).
* The poller knows pairs `KAS_<token>` only. Any other pair, the reverse one too, is
  routed at the default depth.
* The pair is upper-cased for its depth key, but not the asset names in the
  treasury; names here are in one case. Amounts are positive: the handler does
  not check, and a negative amount would pass depth and balance.
* `Transfer` is what Redis executes; `Answer` or `Abort` is what the client sees of
  it. A client that repeats a request whose answer was lost moves the amount
  twice, as two requests do.
* The treasury starts empty and is filled by the faucet, which only tests call.
* `Wallets` is finite (`RouteLockAssumption`): a sum over all wallets has a value
  only then.
* `moved` and `overtaken` are history variables.

## 3. The runs

| Run | Question | Faults | Result |
|---|---|---|---|
| `job_registry` | do publisher and collector keep out of each other's way when ids wrap? | – | holds |
| `job_delivery` | does a joining, slow or lagging connection get the newest job, in order? | connections break | holds |
| `share_ledger` | without faults, is every queued share paid, and does the roster follow? | none | holds |
| `share_ledger_faults` | is a share ever credited or paid twice, or back from the dead? | crash, Redis, PostgreSQL, clock | holds |
| `var_diff` | does the difficulty keep its bounds, settle, and not go back and forth? | – | holds |
| `block_path` | does a solved block reach the node and the table once, and does the job stay current? | one of: stream, Redis, PostgreSQL, declined template | holds |
| `connections` | are slots and nonces kept apart, and shares credited as worked? | accept fails, connections end | holds |
| `route_lock` | what do concurrent swaps keep, and does the depth stay? | indexer, Redis, disconnects | holds |
| `double_swap` | "Mutual Exclusion (Mutex) Lock" (`router.rs:51`): does a lock keep a second request for the pair out? | – | **violated** |
| `lost_batch` | "Trim processed elements from buffer" (`oracle.rs:65`): is a trimmed element processed? | PostgreSQL | **violated** |
| `paid_again` | the same comment: is a processed element trimmed? | LTRIM | **violated** |
| `shares_metric` | does `ks_worker_shares` count shares, as its help text says? | none | **violated** |

### What the violations show

* `lost_batch`: LTRIM precedes the transaction. When the transaction cannot
  begin, a statement fails or the commit fails, the batch is gone: credited in
  Redis, never in `yield_reservoirs`. `ShareLedger` still implements
  `ShareAccount`, since "lost" is a fate that is reported there.
* `paid_again`: the result of LTRIM is dropped. If it fails, the batch is
  committed, read again and committed again.
* `double_swap`: two requests for one pair take locks with different keys, both read
  the balance before either transfers, and both transfer. The wallet covers one of
  the swaps and ends below zero.
* `shares_metric`: one `inc()` in the connection and `inc_by(difficulty)` in the
  engine for the same share.

### Bounds, and why they are enough

* `job_registry`: 3 ids, time to live 2, period 2, lag 1, and `MaxJobs` = 7
  templates, so that every key is used twice and one of them three times; an entry
  can just miss a scan and the next scan can be late.
* `job_delivery`: 2 ids and times of 1; a channel of 2 overflows with 3 jobs, and
  4 jobs in all let a receiver lag, catch up and read on. Connections share nothing but what the
  registry writes, so one slot is enough; the proofs are for any number.
* `share_ledger*`: two shares of one worker and one without a worker name (which
  the oracle's aggregation skips); a channel of 2, smaller than the number of shares, so that `try_send`
  drops; a batch of 2, smaller than a full buffer, so that the oracle needs two
  rounds; `IdleFlushes` = 1, so that a worker goes offline and comes back. In the
  passing runs LTRIM works. What holds when it fails is covered by the theorems, which
  are for every set of faults (section 4); `paid_again` has that fault.
* `var_diff`: a unit of time is 15 s, so ticks come every 2 and a measurement
  takes at least 4; a tick may be one unit late; 6 shares a minute, which
  satisfies `TargetApart`; powers of 1, 3 and 17, so that a
  rig can be at the minimum, in the band, or need several raises; two changes of
  power; handshakes of up to 75 s. It starts at 1 with a minimum of 2, as tier 1 does.

* `block_path`: channels of one element, so that both tasks wait for room and a
  second solution overflows; one notification under way; one fault of any kind; one
  block, submitted twice. Two blocks multiply the states by five, and liveness is then
  no longer checked in minutes. That the second record is of the same block hides a
  trim that cuts off too much from `BlockRecordedOnce`, which speaks of rows;
  `NoRecordDropped` therefore counts records. Its theorem is for any number of
  blocks.
* `connections`: two slots for each of two tiers and three connections in all, against
  two extranonces, so that the first and the third share one; difficulties 1, 2 and
  4 with a minimum of 2, a network difficulty of 5, and two messages each way, so
  that a share can meet two retargets.
* `route_lock`: two tokens, a period of 2, a timeout of 1 and the least time to
  live the assumption allows, so one unit less violates `DepthHeld`; a
  stored depth that fails the slippage check where the default passes it; one
  faucet grant, which two requests for the same asset can both count on.

### Fairness

* Weak fairness for the steps of a task that is ready: tokio runs ready tasks.
  `InsertActive` has none (the node owes us no template), nor have `Connect` and
  the two handshake steps (the client owes us no message).
* Strong fairness for `RecordShare` and `FlushTick` in `ShareLedgerFairSpec`:
  `select!` starts polling at a random branch, so that a branch that is ready
  again and again is taken. Weak fairness would allow each to be starved by the
  other.
* In `VarDiffFairSpec`, weak fairness for the rig's work and submissions and for
  the tick, which stays due until it is taken. A rig that stops working is one that
  disconnects as far as its difficulty is concerned. The handshake may take for ever, hence
  `<>mining` in `SettlesInBand`.
* `EveryShareIsPaid` and `EventuallyReclaimed` use these, and the first one
  holds only without faults: nothing in the code retries a lost batch.
* In `BlockPathSpec`, weak fairness for the tasks, the node and the return of Redis.
  The node adds blocks for ever. Strong fairness for the two senders of the request
  channel: tokio hands out its permits first come, first served, so neither can be
  passed over for ever. No fairness for the oracle: `BlockRecordedOnce` is about
  safety, and an oracle without Redis rightly never gets on.
* In `RouteLockSpec`, weak fairness for the steps of a request (Redis answers or
  the request aborts) and for the expiry of locks. None for the poller.
* `CHECK_DEADLOCK FALSE` is set where the model really may stop: all shares are
  submitted and paid and no worker is left to flush for; or every tier has ended.

## 4. The proofs

The theorems hold for every value of the constants that the modules' assumptions
allow: any number of jobs, connections, shares, workers, tiers, tokens, requests, any
capacity and any time-out. They cover every invariant and every action property that
the passing runs check, and the refinement of `ShareAccount`; what remains for TLC
alone is liveness. Where a theorem needs more than the assumptions of its module, it
says so in an `ASSUME` of its own:

| Theorem | Assumes | Because |
|---|---|---|
| `SharePaidOnce`, `TrimCutsWhatWasRead`, `LedgerImplementsAccount` | no LTRIM is lost | otherwise the code pays a batch again: run `paid_again` |
| `OfflineAfterFlush` | no crash, no clock set forward | either forgets workers with their shares |
| `RosterIsCurrent` | no crash, Redis answers | a pipeline that fails half-way leaves the roster behind until later flushes |
| `NeverFlaps` | powers of two, `TargetApart` | `clamp_to_power_of_2`; a small target cannot be told from half of it |

**Registry.** `JobManagerInv` is inductive. Its parts:

* `GcInv`: how late the collector can be, and that the key it is working on is
  one of the stale keys;
* `AgeInv`: the age of a stamp is bounded by the deadline of the collection that
  will see it. This is where the period and the lag add up, and it is not
  implied by `LifetimeBound`: one needs to know how much of the current period
  has gone;
* `MapsInv`: the two maps agree except where the publisher or the collector is
  between its two operations, and a stamp is never older than the history
  `idleFor` says.

From `AgeInv` and the assumption on the node's rate it follows that a key that
is drawn again has no entry (`NoOverwrite`), and from that, that the job under
a key is the last one published there (`FreshKnown`).

**Delivery.** `ImplementsRegistry` shows that the composition takes only steps of
the registry or stutters it, so `JobManagerInv` carries over. `JobDeliveryInv`
adds per connection: that the channel holds jobs that were sent, oldest first
(`ChannelInv`), that the newest job is in hand (`NewestInv`), and that backlog, pending job and view are in order
(`OrderInv`), together with the publisher's (`PublisherInv`: cache and last sent
job lag the counter by the publisher's position). So whoever was told of a job was
told of one that was drawn (`ToldWasDrawn`), and what is inserted later are others.

**Ledger.** The argument follows a share through the places that can hold it, and
its wallet divides the way in two. `LedgerInv`, which holds whatever fails, says what
is on each side of the credit: in the channel and in `unflushed` a share is once and
not credited (`UpstreamInv`); in the pipeline it is credited by one command and pushed
only by a later one (`PipelineInv`); the oracle's transaction is made of what was
read, and both tables alike (`OracleInv`); what is in the buffer, the batch or the
database has been credited (`WalletInv`). None of `WalletCreditedOnce`,
`WalletCoversOracle` and `YieldMatchesTax` is inductive without the others.
`DownstreamInv` adds that after its credit a share is in one place only, for which
LTRIM must do what it is told. That the list may grow between LRANGE and LTRIM does
no harm, since the batch stays its prefix (`OracleInv`).

*Refinement.* `HeldAt` says in which places of the ledger a share is, `FateOf` that
the mapping gives the share the fate that belongs to them. Each step then either moves a
share between two places that both count as held, or gives it up (lost), or commits it
(paid): a step of `ShareAccount` or a stutter (`AccountStep`).

*Roster.* `RosterFollowsEngine` is about the moments between flushes. `RosterInv`
says what it means within one: for the workers already visited, the roster *after*
the rest of the pipeline will be right; the others are as they were before the flush.

**Retargeting.** `NoRunaway` is not inductive: a raise is justified by the shares
counted, and nothing in it says where they come from. `WorkInv` does: shares
counted times the difficulty, plus the work under way, is at most what the strongest
rig does in the time measured and one unit more, plus two shares (the work under
way when the measurement began; two, because the difficulty may have been halved
at that moment). `RaiseBound` is the arithmetic: if that much work gives more than
twice the target, the doubled difficulty is still within the bound. `NewDiffFacts`
says what a retarget can do to a difficulty, whatever the measurement.

For `NoFlapping` a steady measurement is held against the present power in both
directions (`SteadyInv`). A measurement above twice the target proves that the power is at
least so much (`FastBound`), one below half the target that it is at most so much
(`SlowBound`), each give or take a share at either end and a unit of time. `MoveInv`
carries the first of two such facts from one retarget to the next, in terms of the new
difficulty, and `Apart` shows that the two exclude each other. `TargetApart`,
`Minute * (SharesPerMin - 3) >= 2 * SharesPerMin - 1`, is what that takes: true of the
default of 20 from a unit of a third of a minute on, of 4 from a seventh on, and
never of 3. It is sufficient; TLC finds instances just below it that still hold, and
others that do not (section 2). The powers of two matter for an odd difficulty, whose
half would be less than half of it.

**Listener and connection.** `SlotsRespected` is needed to prove the types: without
it a semaphore could have more permits than slots. `DisjointNonces` follows from
`ExtraInv` (an extranonce is the id modulo `ExtraSpace`) and `ExtrasDiffer`. `LinkInv`
is what `CreditedAsWorked` rests on: the last difficulty sent to the miner is the one
in force, and a submission that no retarget raced was worked at it.

**Uplink and blocks.** `StaleIsBeingRenewed` needs the order of what is in flight.
`StreamInv`: the subscription is ahead of the first request for a template, so a
node that has not seen it has not answered yet. `FreshInv`: templates are read in the
order they were made, so a newer one is not replaced by an older one. `SentInv` (only
solved blocks are sent) is there for the types. For `BlockRecordedOnce`, `RecordInv`
says that the oracle is not about to cut off more than the list has, and that every
block, also one that was not solved again, has at most one row; each step then
hands a solved block from one place to the next, however long the list has grown.
`RecordsKept` follows from the same invariant: only the INSERTs make records fewer.

**Poller and route lock.** `ImplementsPoller`: requests only read what the poller
keeps. `DepthHeld` alone is not inductive. `ClockInv` bounds how
late a round can be by the requests it has already waited for; `AgeFits` bounds the
age of a token's key at each position of the poller, by what the current round and the
rest of the last one can have taken. At the moment the token is due
again, that is the longest time of `LiquidityPollerAssumption`.
That a wallet is overdrawn by an overlap only (`OverdraftOnlyByOverlap`, stated in
the proof module) needs `CheckedInv`: a request between check and transfer that nobody
has overtaken has its amount in its wallet.

`ValueConserved` is about a sum over assets and wallets, both recursive. A rule of
induction with a predicate as its parameter cannot be used, so the module takes a set
of counterexamples and its least number instead (`LeastNumber`, from the
well-foundedness of the numbers), and shows for the two sums that they exist, that
they depend only on what is summed, and how a change of one balance changes them. The
sum over the wallets goes by the size of sets of wallets, hence their finiteness.

**Queues.** `QueueLemmas` has what `Append`, `Tail`, `\o` and `SubSeq` do to the
elements of a queue, to their number and to the absence of duplicates.

**Only model-checked**: liveness, which needs fairness and ENABLED, out of reach of
this prover: `EventuallyReclaimed`, `NewestReachesMiner`, `EveryShareIsPaid`,
`SettlesInBand`, `PayeeRecovers`, `SolvedReachesNode`, `SettlesUnlocked`. Deadlock freedom is
TLC's, too. The runs that expect a violation show one behaviour and need no proof.

## 5. Not modelled, and the plan

Out of scope: the hash function (its result is an input), the payload's text,
protobuf, the exporter, covenant scripts, configuration parsing and the load
tester: no state of their own, or pure input and output.

What is left, in this order:

1. The safety part of the liveness arguments: for `SettlesInBand`, that a steady
   measurement outside the band moves the difficulty towards it; for
   `EventuallyReclaimed` and `EveryShareIsPaid`, a measure that every step of a task decreases.
2. A restart of the whole pool in `BlockPath`.
3. A command of the engine's pipeline that Redis refuses on its own.
