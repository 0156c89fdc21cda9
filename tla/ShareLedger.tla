---------------------------- MODULE ShareLedger ----------------------------
(***************************************************************************)
(* The way of an accepted share to the miner's balance: the bounded        *)
(* channel from the connections (src/src/stratum_tcp/mod.rs), the          *)
(* accounting engine (src/src/telemetry/mod.rs), Redis, and the oracle     *)
(* daemon that moves the shares to PostgreSQL (src/src/oracle.rs).         *)
(*                                                                         *)
(* Amounts are abstracted: a ledger counts how often each share was        *)
(* credited.  Redis and PostgreSQL keep what they have; the engine, the    *)
(* oracle and the channel live in one process, which may crash.            *)
(***************************************************************************)
EXTENDS Integers, Sequences, FiniteSets, Functions

CONSTANTS
  Shares,       \* the shares miners will submit
  Workers,      \* worker names
  WorkerOf,     \* the name a share was submitted under
  Anonymous,    \* the empty worker name
  Difficulty,   \* difficulty of a share, as credited
  ChanCap,      \* capacity of the share channel (10000)
  BatchMax,     \* elements LRANGE 0 500 returns at most (501)
  IdleFlushes,  \* flushes without a share before a worker may go offline
  Faults        \* what may go wrong, see FaultKinds

FaultKinds == {"crash", "redis", "ltrim", "postgres", "clock"}

ASSUME ShareLedgerAssumption ==
  /\ WorkerOf \in [Shares -> Workers]
  /\ Difficulty \in Nat \ {0}
  /\ ChanCap \in Nat \ {0} /\ BatchMax \in Nat \ {0}
  /\ IdleFlushes \in Nat \ {0}
  /\ Faults \subseteq FaultKinds

VARIABLES
  accepted,      \* history: shares that passed verify_share
  channel,       \* valid_share_tx to valid_share_rx
  engine,        \* where start_accounting_engine is
  known,         \* workers with an entry in worker_states
  unflushed,     \* unflushed_oracle_shares (and unflushed_difficulty)
  idle,          \* flushes since the worker's last share (capped)
  todo,          \* workers the running flush has still to visit
  pipeline,      \* Redis commands queued, then being executed
  worker_shares, \* the counter ks_worker_shares
  wallet,        \* Redis: share -> times it was credited to its wallet
  roster,        \* Redis: pool:workers
  share_buffer,  \* Redis: perennia:oracle:share_buffer
  oracle,        \* where start_oracle_daemon is
  batch,         \* share_events
  txYield,       \* shares upserted by the open transaction
  txTax,         \* shares stamped by the open transaction
  yield,         \* PostgreSQL: share -> times in yield_reservoirs
  tax            \* PostgreSQL: share -> times in tax_ledger_events

engineVars   == <<engine, known, unflushed, idle, todo, pipeline>>
redisVars    == <<wallet, roster, share_buffer>>
oracleVars   == <<oracle, batch, txYield, txTax>>
postgresVars == <<yield, tax>>
intakeVars   == <<accepted, channel, worker_shares>>
slVars == <<intakeVars, engineVars, redisVars, oracleVars, postgresVars>>

Command == [op : {"credit", "roster", "push", "unroster"},
            worker : Workers, shares : SUBSET Shares]

ShareLedgerTypeOK ==
  /\ accepted \subseteq Shares
  /\ channel \in Seq(Shares) /\ Len(channel) <= ChanCap
  /\ engine \in {"starting", "select", "flushing", "backoff", "exited"}
  /\ known \subseteq Workers
  /\ unflushed \in [Workers -> Seq(Shares)]
  /\ idle \in [Workers -> 0 .. IdleFlushes]
  /\ todo \subseteq Workers
  /\ pipeline \in Seq(Command)
  /\ worker_shares \in [Workers -> Nat]
  /\ wallet \in [Shares -> Nat]
  /\ roster \subseteq Workers
  /\ share_buffer \in Seq(Shares)
  /\ oracle \in {"starting", "idle", "read", "trimmed", "begun",
                 "upserted", "stamped", "exited"}
  /\ batch \in Seq(Shares) /\ Len(batch) <= BatchMax
  /\ txYield \subseteq Shares /\ txTax \subseteq Shares
  /\ yield \in [Shares -> Nat] /\ tax \in [Shares -> Nat]

ShareLedgerInit ==
  /\ accepted = {}
  /\ channel = <<>>
  /\ engine = "starting"
  /\ known = {}
  /\ unflushed = [w \in Workers |-> <<>>]
  /\ idle = [w \in Workers |-> 0]
  /\ todo = {}
  /\ pipeline = <<>>
  /\ worker_shares = [w \in Workers |-> 0]
  /\ wallet = [s \in Shares |-> 0]
  /\ roster = {}
  /\ share_buffer = <<>>
  /\ oracle = "starting"
  /\ batch = <<>>
  /\ txYield = {} /\ txTax = {}
  /\ yield = [s \in Shares |-> 0] /\ tax = [s \in Shares |-> 0]

---------------------------------------------------------------------------
(* A connection: the valid share branch of mining.submit *)

Counted(counter, w, n) == [counter EXCEPT ![w] = @ + n]

\* Mutant: the channel takes any number of shares.
SubmitShare_Unbounded(s) ==
  /\ s \notin accepted
  /\ accepted' = accepted \cup {s}
  /\ worker_shares' = Counted(worker_shares, WorkerOf[s], 1)
  /\ channel' = Append(channel, s)
  /\ UNCHANGED <<engineVars, redisVars, oracleVars, postgresVars>>

\* try_send: a full channel, or one whose receiver is gone, drops the share.
SubmitShare(s) ==
  /\ s \notin accepted
  /\ accepted' = accepted \cup {s}
  /\ worker_shares' = Counted(worker_shares, WorkerOf[s], 1)
  /\ channel' = IF Len(channel) < ChanCap /\ engine # "exited"
                THEN Append(channel, s) ELSE channel
  /\ UNCHANGED <<engineVars, redisVars, oracleVars, postgresVars>>

---------------------------------------------------------------------------
(* The accounting engine *)

\* Redis is connected to once; the engine returns if that fails.
EngineConnect ==
  /\ engine = "starting"
  /\ \/ engine' = "select" /\ UNCHANGED channel
     \/ "redis" \in Faults /\ engine' = "exited" /\ channel' = <<>>
  /\ UNCHANGED <<accepted, worker_shares, known, unflushed, idle, todo, pipeline,
                 redisVars, oracleVars, postgresVars>>

RecordShare ==
  /\ engine = "select"
  /\ channel # <<>>
  /\ LET s == Head(channel)
         w == WorkerOf[s]
     IN /\ known' = known \cup {w}
        /\ unflushed' = [unflushed EXCEPT ![w] = Append(@, s)]
        /\ idle' = [idle EXCEPT ![w] = 0]
        /\ worker_shares' = Counted(worker_shares, w, Difficulty)
  /\ channel' = Tail(channel)
  /\ UNCHANGED <<accepted, engine, todo, pipeline, redisVars, oracleVars, postgresVars>>

\* The flush interval ticks; without workers there is nothing to do.
FlushTick ==
  /\ engine = "select"
  /\ known # {}
  /\ engine' = "flushing"
  /\ todo' = known
  /\ UNCHANGED <<intakeVars, known, unflushed, idle, pipeline,
                 redisVars, oracleVars, postgresVars>>

Cmd(op, w, S) == [op |-> op, worker |-> w, shares |-> S]

\* Mutants: the shares are pushed before the wallet is credited; or not at all.
FlushCommands_PushFirst(w) ==
  LET list == unflushed[w]
  IN [i \in DOMAIN list |-> Cmd("push", w, {list[i]})]
       \o <<Cmd("credit", w, Range(list)), Cmd("roster", w, {})>>

FlushCommands_NoPush(w) ==
  <<Cmd("credit", w, Range(unflushed[w])), Cmd("roster", w, {})>>

\* The commands for a worker with shares to flush.
FlushCommands(w) ==
  LET list == unflushed[w]
  IN <<Cmd("credit", w, Range(list)), Cmd("roster", w, {})>>
       \o [i \in DOMAIN list |-> Cmd("push", w, {list[i]})]

\* Mutant: what was queued is queued again by the next flush.
FlushOnline_NotDrained(w) ==
  /\ engine = "flushing"
  /\ w \in todo
  /\ todo' = todo \ {w}
  /\ pipeline' = IF unflushed[w] = <<>> THEN pipeline
                 ELSE pipeline \o FlushCommands(w)
  /\ idle' = [idle EXCEPT ![w] = IF @ < IdleFlushes THEN @ + 1 ELSE @]
  /\ UNCHANGED <<intakeVars, engine, known, unflushed, redisVars, oracleVars, postgresVars>>

\* One round of the loop over worker_states for a worker that is online: it
\* still has a hashrate, or a recent share.  What is queued is also cleared.
FlushOnline(w) ==
  /\ engine = "flushing"
  /\ w \in todo
  /\ todo' = todo \ {w}
  /\ pipeline' = IF unflushed[w] = <<>> THEN pipeline
                 ELSE pipeline \o FlushCommands(w)
  /\ unflushed' = [unflushed EXCEPT ![w] = <<>>]
  /\ idle' = [idle EXCEPT ![w] = IF @ < IdleFlushes THEN @ + 1 ELSE @]
  /\ UNCHANGED <<intakeVars, engine, known, redisVars, oracleVars, postgresVars>>

\* ~is_online: the worker is idle and its hashrate has decayed.  The time since
\* its last share is read off the wall clock: a clock set forward by 30 s or
\* more, and by enough for the hashrate to decay, makes any worker look idle.
MayGoOffline(w) == idle[w] >= IdleFlushes \/ "clock" \in Faults

\* Mutants: a worker may go offline at once; one that does stays in the roster.
FlushOffline_NoGrace(w) ==
  /\ engine = "flushing"
  /\ w \in todo
  /\ todo' = todo \ {w}
  /\ pipeline' = Append(pipeline, Cmd("unroster", w, {}))
  /\ known' = known \ {w}
  /\ unflushed' = [unflushed EXCEPT ![w] = <<>>]
  /\ UNCHANGED <<intakeVars, engine, idle, redisVars, oracleVars, postgresVars>>

FlushOffline_StaysListed(w) ==
  /\ engine = "flushing"
  /\ w \in todo
  /\ MayGoOffline(w)
  /\ todo' = todo \ {w}
  /\ known' = known \ {w}
  /\ unflushed' = [unflushed EXCEPT ![w] = <<>>]
  /\ UNCHANGED <<intakeVars, engine, idle, pipeline, redisVars, oracleVars, postgresVars>>

\* The same for a worker that is not online: it is removed with whatever its
\* entry holds.
FlushOffline(w) ==
  /\ engine = "flushing"
  /\ w \in todo
  /\ MayGoOffline(w)
  /\ todo' = todo \ {w}
  /\ pipeline' = Append(pipeline, Cmd("unroster", w, {}))
  /\ known' = known \ {w}
  /\ unflushed' = [unflushed EXCEPT ![w] = <<>>]
  /\ UNCHANGED <<intakeVars, engine, idle, redisVars, oracleVars, postgresVars>>

\* Bound of the model: a ledger tells 0 and 1 credits from MaxCredits or more.
MaxCredits == 2

\* A ledger after the shares of S were credited.
Plus(ledger, S) ==
  [s \in Shares |-> IF s \in S /\ ledger[s] < MaxCredits THEN ledger[s] + 1 ELSE ledger[s]]

\* Redis executes the pipeline command by command: it is no transaction.
RedisExecutes ==
  /\ engine = "flushing"
  /\ todo = {}
  /\ pipeline # <<>>
  /\ LET cmd == Head(pipeline)
     IN /\ wallet' = IF cmd.op = "credit" THEN Plus(wallet, cmd.shares) ELSE wallet
        /\ roster' = CASE cmd.op = "roster"   -> roster \cup {cmd.worker}
                       [] cmd.op = "unroster" -> roster \ {cmd.worker}
                       [] OTHER               -> roster
        /\ \/ /\ cmd.op = "push"
              /\ \E s \in cmd.shares : share_buffer' = Append(share_buffer, s)
           \/ cmd.op # "push" /\ UNCHANGED share_buffer
  /\ pipeline' = Tail(pipeline)
  /\ UNCHANGED <<intakeVars, engine, known, unflushed, idle, todo,
                 oracleVars, postgresVars>>

FlushDone ==
  /\ engine = "flushing"
  /\ todo = {}
  /\ pipeline = <<>>
  /\ engine' = "select"
  /\ UNCHANGED <<intakeVars, known, unflushed, idle, todo, pipeline,
                 redisVars, oracleVars, postgresVars>>

\* The connection breaks: what was not executed is gone.
PipelineFails ==
  /\ "redis" \in Faults
  /\ engine = "flushing"
  /\ todo = {}
  /\ pipeline' = <<>>
  /\ engine' = "backoff"
  /\ UNCHANGED <<intakeVars, known, unflushed, idle, todo,
                 redisVars, oracleVars, postgresVars>>

\* After the sleep, with a new connection or the broken one.
Resume ==
  /\ engine = "backoff"
  /\ engine' = "select"
  /\ UNCHANGED <<intakeVars, known, unflushed, idle, todo, pipeline,
                 redisVars, oracleVars, postgresVars>>

---------------------------------------------------------------------------
(* The oracle daemon *)

OracleConnect ==
  /\ oracle = "starting"
  /\ \/ oracle' = "idle"
     \/ Faults \cap {"redis", "postgres"} # {} /\ oracle' = "exited"
  /\ UNCHANGED <<intakeVars, engineVars, redisVars, batch, txYield, txTax, postgresVars>>

\* LRANGE; an empty list, or an error, leaves nothing to do.
ReadBatch ==
  /\ oracle = "idle"
  /\ share_buffer # <<>>
  /\ batch' = SubSeq(share_buffer, 1,
                IF Len(share_buffer) < BatchMax THEN Len(share_buffer) ELSE BatchMax)
  /\ oracle' = "read"
  /\ UNCHANGED <<intakeVars, engineVars, redisVars, txYield, txTax, postgresVars>>

\* Mutant: the list is deleted instead of trimmed.
TrimBatch_Deletes ==
  /\ oracle = "read"
  /\ oracle' = "trimmed"
  /\ share_buffer' = <<>>
  /\ UNCHANGED <<intakeVars, engineVars, wallet, roster, batch, txYield, txTax,
                 postgresVars>>

\* LTRIM by the number of elements read; its result is ignored.
TrimBatch ==
  /\ oracle = "read"
  /\ oracle' = "trimmed"
  /\ \/ share_buffer' = SubSeq(share_buffer, Len(batch) + 1, Len(share_buffer))
     \/ "ltrim" \in Faults /\ UNCHANGED share_buffer
  /\ UNCHANGED <<intakeVars, engineVars, wallet, roster, batch, txYield, txTax,
                 postgresVars>>

\* Shares without a worker name are not aggregated.
Payable == {s \in Range(batch) : WorkerOf[s] # Anonymous}

\* The end of a round, whether something was committed or not.
ForgetBatch ==
  /\ oracle' = "idle"
  /\ batch' = <<>>
  /\ txYield' = {}
  /\ txTax' = {}

BeginTransaction ==
  /\ oracle = "trimmed"
  /\ Payable # {}
  /\ oracle' = "begun"
  /\ UNCHANGED <<intakeVars, engineVars, redisVars, batch, txYield, txTax, postgresVars>>

\* Nothing to aggregate, or no transaction to be had: on to the next round.
SkipBatch ==
  /\ oracle = "trimmed"
  /\ Payable = {} \/ "postgres" \in Faults
  /\ ForgetBatch
  /\ UNCHANGED <<intakeVars, engineVars, redisVars, postgresVars>>

\* Mutant: the upsert is not part of the transaction.
UpsertYield_Autocommit ==
  /\ oracle = "begun"
  /\ yield' = Plus(yield, Payable)
  /\ oracle' = "upserted"
  /\ UNCHANGED <<intakeVars, engineVars, redisVars, batch, txYield, txTax, tax>>

UpsertYield ==
  /\ oracle = "begun"
  /\ txYield' = Payable
  /\ oracle' = "upserted"
  /\ UNCHANGED <<intakeVars, engineVars, redisVars, batch, txTax, postgresVars>>

StampTax ==
  /\ oracle = "upserted"
  /\ txTax' = Payable
  /\ oracle' = "stamped"
  /\ UNCHANGED <<intakeVars, engineVars, redisVars, batch, txYield, postgresVars>>

\* Mutant: the transaction is tried again although it was committed.
Commit_Retried ==
  /\ oracle = "stamped"
  /\ yield' = Plus(yield, txYield)
  /\ tax' = Plus(tax, txTax)
  /\ oracle' = "trimmed"
  /\ UNCHANGED <<intakeVars, engineVars, redisVars, batch, txYield, txTax>>

Commit ==
  /\ oracle = "stamped"
  /\ yield' = Plus(yield, txYield)
  /\ tax' = Plus(tax, txTax)
  /\ ForgetBatch
  /\ UNCHANGED <<intakeVars, engineVars, redisVars>>

\* A statement fails and commit_success turns false, or the commit fails.
Rollback ==
  /\ "postgres" \in Faults
  /\ oracle \in {"begun", "upserted", "stamped"}
  /\ ForgetBatch
  /\ UNCHANGED <<intakeVars, engineVars, redisVars, postgresVars>>

---------------------------------------------------------------------------
\* The process dies and is started again.
Crash ==
  /\ "crash" \in Faults
  /\ channel' = <<>>
  /\ engine' = "starting"
  /\ known' = {}
  /\ unflushed' = [w \in Workers |-> <<>>]
  /\ idle' = [w \in Workers |-> 0]
  /\ todo' = {}
  /\ pipeline' = <<>>
  /\ worker_shares' = [w \in Workers |-> 0]
  /\ oracle' = "starting"
  /\ batch' = <<>>
  /\ txYield' = {} /\ txTax' = {}
  /\ UNCHANGED <<accepted, redisVars, postgresVars>>

Visit(w) == FlushOnline(w) \/ FlushOffline(w)

EngineStep ==
  \/ EngineConnect
  \/ RecordShare
  \/ FlushTick
  \/ \E w \in Workers : Visit(w)
  \/ RedisExecutes
  \/ FlushDone
  \/ PipelineFails
  \/ Resume

OracleStep ==
  \/ OracleConnect
  \/ ReadBatch \/ TrimBatch
  \/ BeginTransaction \/ SkipBatch
  \/ UpsertYield \/ StampTax
  \/ Commit \/ Rollback

ShareLedgerNext ==
  \/ \E s \in Shares : SubmitShare(s)
  \/ EngineStep
  \/ OracleStep
  \/ Crash

ShareLedgerSpec == ShareLedgerInit /\ [][ShareLedgerNext]_slVars

\* The tasks keep running.  select! polls its branches in random order, so a
\* share that keeps being ready is received although flushes come between.
ShareLedgerFairSpec ==
  /\ ShareLedgerSpec
  /\ WF_slVars(EngineStep)
  /\ SF_slVars(RecordShare)
  /\ SF_slVars(FlushTick)
  /\ WF_slVars(OracleStep)

---------------------------------------------------------------------------
InEngine   == UNION {Range(unflushed[w]) : w \in Workers}
InPipeline == UNION {c.shares : c \in {d \in Range(pipeline) : d.op = "push"}}
InBuffer   == Range(share_buffer)
InBatch    == Range(batch)
Held == Range(channel) \cup InEngine \cup InPipeline \cup InBuffer \cup InBatch
Paid == {s \in Shares : yield[s] > 0}

\* What became of each share.
Fate ==
  [s \in Shares |->
     CASE s \in Paid                          -> "paid"
       [] s \notin Paid /\ s \in Held         -> "held"
       [] s \notin Paid \cup Held /\ s \in accepted -> "lost"
       [] OTHER                               -> "new"]

Account == INSTANCE ShareAccount WITH fate <- Fate, payments <- yield

\* Whatever fails, but for an LTRIM that is lost: a share is held in one place
\* after another until it is paid or lost.  No restart, retry or failure makes
\* the pool pay a share it had lost or paid before.
ImplementsShareAccount == Account!ShareAccountSpec

\* No retry, restart or failed pipeline credits a share to its wallet twice.
WalletCreditedOnce == \A s \in Shares : wallet[s] <= 1

\* No restart, failed transaction or overlap of flush and oracle pays a share
\* twice, as long as LTRIM does what it is told.
PaidOnce == \A s \in Shares : yield[s] <= 1

\* The two ledgers differ in one direction only: a share reaches the oracle's
\* buffer, and PostgreSQL, after it was credited to its wallet in Redis.
WalletCoversOracle ==
  \A s \in InBuffer \cup InBatch \cup Paid : wallet[s] > 0

\* Every yield has its tax event, and the reverse.
YieldMatchesTax == yield = tax

\* What LTRIM cuts off is what LRANGE read, although the engine pushes to the
\* list in between.
TrimCutsBatch ==
  [][oracle = "read" /\ oracle' = "trimmed" => share_buffer = batch \o share_buffer']_slVars

\* A worker that is dropped from worker_states leaves no share behind that was
\* not flushed, as long as the clock is not set forward.
OfflineLosesNothing ==
  [][\A w \in known : w \notin known' => unflushed[w] = <<>>]_slVars

\* As long as Redis answers, between flushes pool:workers holds the workers
\* the engine knows, but for those whose first share is still to be flushed.
RosterFollowsEngine ==
  engine = "select" =>
    /\ roster \subseteq known
    /\ \A w \in known \ roster : unflushed[w] # <<>>

\* Without faults, a share that entered the channel is paid.
EveryShareIsPaid ==
  \A s \in Shares :
    s \in Range(channel) /\ WorkerOf[s] # Anonymous ~> yield[s] = 1

\* "Trim processed elements from buffer" (src/src/oracle.rs:65): an element that
\* was trimmed has been processed,
TrimmedIsProcessed ==
  \A s \in Shares :
    wallet[s] > 0 /\ WorkerOf[s] # Anonymous
      => s \in InPipeline \cup InBuffer \cup InBatch \cup Paid

\* and an element that was processed is trimmed before the next round begins.
ProcessedIsTrimmed ==
  oracle = "idle" => InBuffer \cap Paid = {}

\* "Cryptographically validated shares per worker" (src/src/telemetry/mod.rs:23):
\* the counter counts shares.
SharesMetricCountsShares ==
  \A w \in Workers :
    worker_shares[w] = Cardinality({s \in accepted : WorkerOf[s] = w})
=============================================================================
