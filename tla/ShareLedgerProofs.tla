------------------------- MODULE ShareLedgerProofs -------------------------
(***************************************************************************)
(* Proofs about ShareLedger.  Whatever fails, a share is credited to its   *)
(* wallet at most once, PostgreSQL never has a share that its wallet does  *)
(* not, and every yield has its tax event; unless an LTRIM is lost, a      *)
(* share is paid at most once and the ledger implements ShareAccount.      *)
(*                                                                         *)
(* The argument follows a share through the places that hold it.  Its      *)
(* wallet tells the two halves of the way apart: nothing is credited       *)
(* before Redis executes the credit command of its flush, and everything   *)
(* the oracle sees was pushed after that.                                  *)
(***************************************************************************)
EXTENDS ShareLedger, QueueLemmas

\* The engine's own bookkeeping.  A worker that is idle has nothing to flush:
\* its idle counter is above 0 only after a flush and without a share.
EngineInv ==
  /\ engine # "flushing" => todo = {} /\ pipeline = <<>>
  /\ todo \subseteq known
  /\ \A w \in Workers :
       /\ w \notin known => unflushed[w] = <<>>
       /\ idle[w] > 0 => unflushed[w] = <<>>

\* Before the flush: accepted, not credited, held once.
UpstreamInv ==
  /\ IsInjective(channel)
  /\ \A s \in Range(channel) : s \in accepted /\ wallet[s] = 0
  /\ \A w \in Workers :
       /\ IsInjective(unflushed[w])
       /\ \A s \in Range(unflushed[w]) :
            WorkerOf[s] = w /\ s \in accepted /\ wallet[s] = 0 /\ s \notin Range(channel)

\* Command i of the pipeline, about share s, and what is still upstream.
CommandInv(i, s) ==
  /\ s \in accepted
  /\ s \notin Range(channel) /\ s \notin Range(unflushed[WorkerOf[s]])
  /\ pipeline[i].op = "credit" =>
       /\ wallet[s] = 0
       /\ \A j \in 1 .. Len(pipeline) :
            pipeline[j].op = "credit" /\ s \in pipeline[j].shares => i = j
  /\ pipeline[i].op = "push" =>
       /\ pipeline[i].shares = {s}
       /\ \/ wallet[s] > 0
          \/ \E j \in 1 .. i - 1 : pipeline[j].op = "credit" /\ s \in pipeline[j].shares

\* A share is pushed after it was credited, by a command of its own.
PipelineInv ==
  \A i \in 1 .. Len(pipeline) :
    /\ pipeline[i].op = "push" => pipeline[i].shares # {}
    /\ \A s \in pipeline[i].shares : CommandInv(i, s)

\* What PostgreSQL gets is what was read from the buffer, both tables alike.
OracleInv ==
  /\ oracle \in {"starting", "idle", "exited"} => batch = <<>>
  /\ oracle = "read" => /\ Len(batch) <= Len(share_buffer)
                        /\ batch = SubSeq(share_buffer, 1, Len(batch))
  /\ txYield \subseteq Range(batch)
  /\ oracle = "upserted" => txYield = Payable
  /\ oracle = "stamped" => txYield = txTax

WalletInv ==
  /\ \A s \in Shares : wallet[s] <= 1
  /\ \A s \in Shares : wallet[s] > 0 => s \in accepted
  /\ \A s \in Shares :
       s \in InBuffer \/ s \in InBatch \/ yield[s] > 0 => wallet[s] > 0
  /\ yield = tax

\* The inductive invariant, whatever fails.
LedgerInv ==
  /\ ShareLedgerTypeOK
  /\ EngineInv
  /\ UpstreamInv
  /\ PipelineInv
  /\ OracleInv
  /\ WalletInv

\* After the credit, if LTRIM does what it is told: a share waits to be
\* pushed, or is in the buffer, or in the batch, or paid, and once.
DownstreamInv ==
  /\ \A i \in 1 .. Len(pipeline) : \A s \in pipeline[i].shares :
       pipeline[i].op = "push" =>
         /\ \A j \in 1 .. Len(pipeline) :
              pipeline[j].op = "push" /\ s \in pipeline[j].shares => i = j
         /\ s \notin InBuffer /\ s \notin InBatch /\ yield[s] = 0
  /\ IsInjective(share_buffer)
  /\ IsInjective(batch)
  /\ \A s \in Shares : s \in InBuffer \/ s \in InBatch => yield[s] = 0
  /\ oracle # "read" => \A s \in Shares : ~(s \in InBuffer /\ s \in InBatch)
  /\ \A s \in Shares : yield[s] <= 1

---------------------------------------------------------------------------
(* Type correctness *)

\* The fields of a command.
LEMMA CmdFields ==
  \A op, w, S : /\ Cmd(op, w, S).op = op /\ Cmd(op, w, S).worker = w
                /\ Cmd(op, w, S).shares = S
BY DEF Cmd

\* What a flush queues for a worker: a credit for all its shares, its name
\* for the roster, and one push for each share.
LEMMA FlushCommandsShape ==
  ASSUME NEW w \in Workers, unflushed[w] \in Seq(Shares)
  PROVE  /\ FlushCommands(w) \in Seq(Command)
         /\ Len(unflushed[w]) \in Nat
         /\ Len(FlushCommands(w)) = Len(unflushed[w]) + 2
         /\ FlushCommands(w)[1] = Cmd("credit", w, Range(unflushed[w]))
         /\ FlushCommands(w)[2] = Cmd("roster", w, {})
         /\ \A i \in 3 .. Len(unflushed[w]) + 2 :
              FlushCommands(w)[i] = Cmd("push", w, {unflushed[w][i - 2]})
<1> DEFINE list == unflushed[w]
           head == <<Cmd("credit", w, Range(list)), Cmd("roster", w, {})>>
           tail == [i \in DOMAIN list |-> Cmd("push", w, {list[i]})]
<1>1. FlushCommands(w) = head \o tail
  BY DEF FlushCommands
<1>2. /\ Len(list) \in Nat /\ DOMAIN list = 1 .. Len(list) /\ Range(list) \subseteq Shares
      /\ \A i \in 1 .. Len(list) : list[i] \in Shares
  BY Members
<1>3. /\ head \in Seq(Command) /\ Len(head) = 2
      /\ head[1] = Cmd("credit", w, Range(list)) /\ head[2] = Cmd("roster", w, {})
  BY <1>2 DEF Cmd, Command
<1>4. tail \in Seq(Command) /\ Len(tail) = Len(list)
  <2>1. tail \in [1 .. Len(list) -> Command]
    BY <1>2 DEF Cmd, Command
  <2> HIDE DEF tail
  <2> QED
    BY <1>2, <2>1, FunctionIsQueue
<1>5. \A i \in 1 .. Len(list) : tail[i] = Cmd("push", w, {list[i]})
  BY <1>2
<1> HIDE DEF head, tail, list
<1>6. /\ head \o tail \in Seq(Command) /\ Len(head \o tail) = Len(head) + Len(tail)
      /\ \A i \in 1 .. Len(head) + Len(tail) :
           (head \o tail)[i] = IF i <= Len(head) THEN head[i] ELSE tail[i - Len(head)]
  BY <1>3, <1>4, ConcatProperties
<1>7. /\ (head \o tail)[1] = head[1] /\ (head \o tail)[2] = head[2]
      /\ \A i \in 3 .. Len(list) + 2 : (head \o tail)[i] = tail[i - 2]
  BY <1>2, <1>3, <1>4, <1>6
<1>8. \A i \in 3 .. Len(list) + 2 : i - 2 \in 1 .. Len(list)
  BY <1>2
<1>9. \A i \in 3 .. Len(list) + 2 : (head \o tail)[i] = Cmd("push", w, {list[i - 2]})
  BY <1>5, <1>7, <1>8
<1>10. Len(head \o tail) = Len(list) + 2
  BY <1>2, <1>3, <1>4, <1>6
<1> QED
  BY <1>1, <1>2, <1>3, <1>6, <1>7, <1>9, <1>10 DEF list

\* A ledger stays one when shares are credited; each at most once more.
LEMMA PlusLemma ==
  ASSUME NEW ledger \in [Shares -> Nat], NEW S
  PROVE  /\ Plus(ledger, S) \in [Shares -> Nat]
         /\ \A s \in Shares : s \notin S => Plus(ledger, S)[s] = ledger[s]
         /\ \A s \in Shares : s \in S /\ ledger[s] = 0 => Plus(ledger, S)[s] = 1
         /\ \A s \in Shares : s \in S => Plus(ledger, S)[s] > 0
         /\ \A s \in Shares : Plus(ledger, S)[s] >= ledger[s]
BY DEF Plus, MaxCredits

\* The variables have their types initially.
LEMMA LedgerTypeInit == ShareLedgerInit => ShareLedgerTypeOK
<1>1. <<>> \in Seq(Shares) /\ <<>> \in Seq(Command) /\ Len(<<>>) = 0
  BY EmptyQueue
<1> QED
  BY <1>1, ShareLedgerAssumption DEF ShareLedgerInit, ShareLedgerTypeOK

\* A share is submitted.
LEMMA TypeSubmit ==
  ASSUME ShareLedgerTypeOK, NEW s \in Shares, SubmitShare(s)
  PROVE  ShareLedgerTypeOK'
<1> USE ShareLedgerAssumption DEF ShareLedgerTypeOK
<1>1. channel' \in Seq(Shares) /\ Len(channel') <= ChanCap
  <2>1. Append(channel, s) \in Seq(Shares) /\ Len(Append(channel, s)) = Len(channel) + 1
    BY AppendQueue
  <2>2. Len(channel) \in Nat
    BY Members
  <2> QED
    BY <2>1, <2>2 DEF SubmitShare
<1>2. worker_shares' \in [Workers -> Nat]
  <2>1. WorkerOf[s] \in Workers
    OBVIOUS
  <2>2. worker_shares' = [worker_shares EXCEPT ![WorkerOf[s]] = @ + 1]
    BY DEF SubmitShare, Counted
  <2>3. worker_shares \in [Workers -> Nat]
    OBVIOUS
  <2> HIDE DEF ShareLedgerTypeOK
  <2> QED
    BY <2>1, <2>2, <2>3
<1> QED
  BY <1>1, <1>2 DEF SubmitShare, engineVars, redisVars, oracleVars, postgresVars

\* A step of the engine.
LEMMA TypeEngine ==
  ASSUME ShareLedgerTypeOK, EngineStep
  PROVE  ShareLedgerTypeOK'
<1> USE ShareLedgerAssumption DEF ShareLedgerTypeOK, intakeVars, redisVars, oracleVars, postgresVars
<1>0. /\ <<>> \in Seq(Shares) /\ <<>> \in Seq(Command)
      /\ Len(<<>>) = 0 /\ Len(channel) \in Nat
  BY EmptyQueue, Members
<1>1. CASE EngineConnect
  <2>1. /\ engine' \in {"select", "exited"} /\ channel' \in {channel, <<>>}
        /\ UNCHANGED <<accepted, worker_shares, known, unflushed, idle, todo, pipeline,
                       wallet, roster, share_buffer, oracle, batch, txYield, txTax, yield, tax>>
    BY <1>1 DEF EngineConnect
  <2>2. channel' \in Seq(Shares) /\ Len(channel') <= ChanCap
    <3>1. CASE channel' = channel
      BY <3>1
    <3>2. CASE channel' = <<>>
      BY <1>0, <3>2
    <3> QED
      BY <2>1, <3>1, <3>2
  <2> QED
    BY <2>1, <2>2
<1>2. CASE RecordShare
  <2> DEFINE s == Head(channel)
             w == WorkerOf[s]
  <2>1. /\ s \in Shares /\ w \in Workers
        /\ Tail(channel) \in Seq(Shares) /\ Len(Tail(channel)) <= ChanCap
    <3>1. channel # <<>>
      BY <1>2 DEF RecordShare
    <3>2. /\ s \in Shares /\ Tail(channel) \in Seq(Shares)
          /\ Len(Tail(channel)) = Len(channel) - 1
      BY <3>1, TakeQueue
    <3> QED
      BY <1>0, <3>2
  <2> HIDE DEF s, w
  <2>2. Append(unflushed[w], s) \in Seq(Shares)
    BY <2>1, AppendQueue
  <2>3. /\ known' = known \cup {w} /\ unflushed' = [unflushed EXCEPT ![w] = Append(@, s)]
        /\ idle' = [idle EXCEPT ![w] = 0]
        /\ worker_shares' = [worker_shares EXCEPT ![w] = @ + Difficulty]
        /\ channel' = Tail(channel)
        /\ UNCHANGED <<accepted, engine, todo, pipeline, redisVars, oracleVars, postgresVars>>
    BY <1>2 DEF RecordShare, Counted, s, w
  <2>4. unflushed' \in [Workers -> Seq(Shares)]
    BY <2>1, <2>2, <2>3
  <2>5. idle' \in [Workers -> 0 .. IdleFlushes]
    BY <2>1, <2>3
  <2>6. worker_shares' \in [Workers -> Nat]
    <3>1. worker_shares \in [Workers -> Nat] /\ Difficulty \in Nat
      OBVIOUS
    <3> HIDE DEF ShareLedgerTypeOK
    <3> QED
      BY <2>1, <2>3, <3>1
  <2> QED
    BY <2>1, <2>3, <2>4, <2>5, <2>6
<1>3. CASE FlushTick
  BY <1>3 DEF FlushTick
<1>4. ASSUME NEW w \in Workers, FlushOnline(w) PROVE ShareLedgerTypeOK'
  <2>1. unflushed[w] \in Seq(Shares)
    OBVIOUS
  <2>2. pipeline \o FlushCommands(w) \in Seq(Command)
    BY <2>1, FlushCommandsShape, ConcatProperties
  <2>3. idle' \in [Workers -> 0 .. IdleFlushes]
    BY <1>4 DEF FlushOnline
  <2> QED
    BY <1>0, <1>4, <2>2, <2>3 DEF FlushOnline
<1>5. ASSUME NEW w \in Workers, FlushOffline(w) PROVE ShareLedgerTypeOK'
  <2>1. Append(pipeline, Cmd("unroster", w, {})) \in Seq(Command)
    BY AppendQueue DEF Cmd, Command
  <2> QED
    BY <1>0, <1>5, <2>1 DEF FlushOffline
<1>6. CASE RedisExecutes
  <2> DEFINE cmd == Head(pipeline)
  <2>1. cmd \in Command /\ Tail(pipeline) \in Seq(Command)
    BY <1>6, TakeQueue DEF RedisExecutes
  <2> HIDE DEF cmd
  <2>2. wallet' \in [Shares -> Nat]
    BY <1>6, PlusLemma DEF RedisExecutes, cmd
  <2>3. roster' \subseteq Workers
    BY <1>6, <2>1 DEF RedisExecutes, cmd, Command
  <2>4. share_buffer' \in Seq(Shares)
    <3>1. \A x \in Shares : Append(share_buffer, x) \in Seq(Shares)
      BY AppendQueue
    <3>2. cmd.shares \subseteq Shares
      BY <2>1 DEF Command
    <3>3. share_buffer' = share_buffer
            \/ \E x \in cmd.shares : share_buffer' = Append(share_buffer, x)
      BY <1>6 DEF RedisExecutes, cmd
    <3> QED
      BY <3>1, <3>2, <3>3
  <2> QED
    BY <1>6, <2>1, <2>2, <2>3, <2>4 DEF RedisExecutes
<1>7. CASE FlushDone
  BY <1>7 DEF FlushDone
<1>8. CASE PipelineFails
  BY <1>0, <1>8 DEF PipelineFails
<1>9. CASE Resume
  BY <1>9 DEF Resume
<1> QED
  BY <1>1, <1>2, <1>3, <1>4, <1>5, <1>6, <1>7, <1>8, <1>9 DEF EngineStep, Visit

\* A step of the oracle.
LEMMA TypeOracle ==
  ASSUME ShareLedgerTypeOK, OracleStep
  PROVE  ShareLedgerTypeOK'
<1> USE ShareLedgerAssumption DEF ShareLedgerTypeOK, intakeVars, engineVars, redisVars, postgresVars
<1>0. <<>> \in Seq(Shares) /\ Len(<<>>) = 0
  BY EmptyQueue
<1>1. Payable \subseteq Shares
  BY Members DEF Payable
<1>2. CASE ForgetBatch /\ UNCHANGED <<intakeVars, engineVars, redisVars, postgresVars>>
  BY <1>0, <1>2 DEF ForgetBatch
<1>3. CASE OracleConnect
  BY <1>3 DEF OracleConnect
<1>4. CASE ReadBatch
  <2> DEFINE n == IF Len(share_buffer) < BatchMax THEN Len(share_buffer) ELSE BatchMax
  <2>1. n \in 0 .. Len(share_buffer) /\ n <= BatchMax
    BY Members
  <2> HIDE DEF n
  <2>2. SubSeq(share_buffer, 1, n) \in Seq(Shares) /\ Len(SubSeq(share_buffer, 1, n)) = n
    BY <2>1, SplitQueue
  <2>3. batch' = SubSeq(share_buffer, 1, n)
    BY <1>4 DEF ReadBatch, n
  <2> QED
    BY <1>4, <2>1, <2>2, <2>3 DEF ReadBatch
<1>5. CASE TrimBatch
  <2>1. SubSeq(share_buffer, Len(batch) + 1, Len(share_buffer)) \in Seq(Shares)
    <3>1. \A i \in Len(batch) + 1 .. Len(share_buffer) : share_buffer[i] \in Shares
      BY Members
    <3>2. Len(batch) \in Nat /\ Len(share_buffer) \in Nat
      BY Members
    <3> QED
      BY <3>1, <3>2, SubSeqProperties
  <2> QED
    BY <1>5, <2>1 DEF TrimBatch
<1>6. CASE BeginTransaction
  BY <1>6 DEF BeginTransaction
<1>7. CASE SkipBatch
  BY <1>2, <1>7 DEF SkipBatch
<1>8. CASE UpsertYield
  BY <1>1, <1>8 DEF UpsertYield
<1>9. CASE StampTax
  BY <1>1, <1>9 DEF StampTax
<1>10. CASE Commit
  <2>1. Plus(yield, txYield) \in [Shares -> Nat] /\ Plus(tax, txTax) \in [Shares -> Nat]
    BY PlusLemma
  <2> QED
    BY <1>0, <1>10, <2>1 DEF Commit, ForgetBatch
<1>11. CASE Rollback
  BY <1>2, <1>11 DEF Rollback
<1> QED
  BY <1>3, <1>4, <1>5, <1>6, <1>7, <1>8, <1>9, <1>10, <1>11 DEF OracleStep

\* A crash, and steps that change nothing.
LEMMA TypeCrash ==
  ASSUME ShareLedgerTypeOK, Crash \/ UNCHANGED slVars
  PROVE  ShareLedgerTypeOK'
<1> USE ShareLedgerAssumption DEF ShareLedgerTypeOK, intakeVars, engineVars, redisVars,
        oracleVars, postgresVars
<1>1. CASE Crash
  BY <1>1, EmptyQueue DEF Crash
<1>2. CASE UNCHANGED slVars
  BY <1>2 DEF slVars
<1> QED
  BY <1>1, <1>2

---------------------------------------------------------------------------
(* The inductive invariant: what a step leaves alone *)

\* The engine's bookkeeping is about the engine's variables.
LEMMA EngineFrame ==
  ASSUME EngineInv, UNCHANGED <<engine, todo, pipeline, known, unflushed, idle>>
  PROVE  EngineInv'
BY DEF EngineInv

\* What is upstream of the flush, about four variables.
LEMMA UpstreamFrame ==
  ASSUME UpstreamInv, UNCHANGED <<channel, accepted, wallet, unflushed>>
  PROVE  UpstreamInv'
BY DEF UpstreamInv

\* The pipeline's promises also about what is upstream.
LEMMA PipelineFrame ==
  ASSUME PipelineInv, UNCHANGED <<channel, accepted, wallet, unflushed, pipeline>>
  PROVE  PipelineInv'
BY DEF PipelineInv, CommandInv

\* The oracle's state is about the buffer and its own variables.
LEMMA OracleFrame ==
  ASSUME OracleInv, UNCHANGED <<oracle, batch, share_buffer, txYield, txTax>>
  PROVE  OracleInv'
BY DEF OracleInv, Payable

\* The wallets are compared with the buffer and PostgreSQL.
LEMMA WalletFrame ==
  ASSUME WalletInv, UNCHANGED <<accepted, wallet, share_buffer, batch, yield, tax>>
  PROVE  WalletInv'
BY DEF WalletInv, InBuffer, InBatch

\* An empty pipeline keeps its promises.
LEMMA NoCommands ==
  ASSUME pipeline' = <<>>
  PROVE  PipelineInv'
BY DEF PipelineInv

---------------------------------------------------------------------------
(* The inductive invariant: connections and the engine *)

\* A share that is accepted was nowhere before.
LEMMA LedgerSubmit ==
  ASSUME LedgerInv, NEW s \in Shares, SubmitShare(s)
  PROVE  LedgerInv'
<1> USE DEF LedgerInv
<1>1. /\ s \notin accepted /\ accepted' = accepted \cup {s}
      /\ channel' \in {channel, Append(channel, s)}
      /\ UNCHANGED <<engine, known, unflushed, idle, todo, pipeline, wallet, roster,
                     share_buffer, oracle, batch, txYield, txTax, yield, tax>>
  BY DEF SubmitShare, engineVars, redisVars, oracleVars, postgresVars
<1>2. channel \in Seq(Shares) /\ wallet \in [Shares -> Nat]
  BY DEF ShareLedgerTypeOK
<1>3. s \notin Range(channel) /\ wallet[s] = 0
  BY <1>1, <1>2 DEF UpstreamInv, WalletInv
<1>4. Range(channel') \subseteq Range(channel) \cup {s} /\ IsInjective(channel')
  <2>1. /\ Range(Append(channel, s)) = Range(channel) \cup {s}
        /\ IsInjective(channel) /\ s \notin Range(channel) => IsInjective(Append(channel, s))
    BY <1>2, AppendQueue
  <2> QED
    BY <1>1, <1>3, <2>1 DEF UpstreamInv
<1>5. ShareLedgerTypeOK'
  BY TypeSubmit
<1>6. EngineInv'
  BY <1>1, EngineFrame
<1>7. UpstreamInv'
  <2>1. \A t \in Range(channel') : t \in accepted' /\ wallet'[t] = 0
    BY <1>1, <1>3, <1>4 DEF UpstreamInv
  <2>2. ASSUME NEW w \in Workers
        PROVE  /\ IsInjective(unflushed'[w])
               /\ \A t \in Range(unflushed'[w]) :
                    /\ WorkerOf[t] = w /\ t \in accepted'
                    /\ wallet'[t] = 0 /\ t \notin Range(channel')
    BY <1>1, <1>4 DEF UpstreamInv
  <2> QED
    BY <1>4, <2>1, <2>2 DEF UpstreamInv
<1>8. PipelineInv'
  <2>1. ASSUME NEW i \in 1 .. Len(pipeline), NEW t \in pipeline[i].shares
        PROVE  CommandInv(i, t)'
    BY <1>1, <1>4, <2>1 DEF PipelineInv, CommandInv
  <2> QED
    BY <1>1, <2>1 DEF PipelineInv
<1>9. OracleInv'
  BY <1>1, OracleFrame
<1>10. WalletInv'
  BY <1>1 DEF WalletInv, InBuffer, InBatch
<1> QED
  BY <1>5, <1>6, <1>7, <1>8, <1>9, <1>10

\* A share moves from the channel to its worker's list.
LEMMA LedgerRecord ==
  ASSUME LedgerInv, RecordShare
  PROVE  LedgerInv'
<1> USE DEF LedgerInv
<1> DEFINE s == Head(channel)
           w == WorkerOf[s]
<1>1. /\ engine = "select" /\ channel # <<>>
      /\ known' = known \cup {w} /\ unflushed' = [unflushed EXCEPT ![w] = Append(@, s)]
      /\ idle' = [idle EXCEPT ![w] = 0]
      /\ channel' = Tail(channel)
      /\ UNCHANGED <<accepted, engine, todo, pipeline, wallet, roster, share_buffer,
                     oracle, batch, txYield, txTax, yield, tax>>
  BY DEF RecordShare, redisVars, oracleVars, postgresVars
<1>2. /\ channel \in Seq(Shares) /\ unflushed \in [Workers -> Seq(Shares)]
      /\ idle \in [Workers -> 0 .. IdleFlushes]
  BY DEF ShareLedgerTypeOK
<1>3. /\ s \in Shares /\ s \in Range(channel)
      /\ Range(channel) = Range(channel') \cup {s}
      /\ IsInjective(channel') /\ s \notin Range(channel')
  BY <1>1, <1>2, TakeQueue DEF UpstreamInv
<1>4. w \in Workers
  BY <1>3, ShareLedgerAssumption
<1> HIDE DEF s, w
<1>5. s \in accepted /\ wallet[s] = 0 /\ WorkerOf[s] = w
  BY <1>3 DEF UpstreamInv, w
<1>6. s \notin Range(unflushed[w])
  BY <1>3, <1>4 DEF UpstreamInv
<1>7. /\ Range(unflushed'[w]) = Range(unflushed[w]) \cup {s}
      /\ IsInjective(unflushed'[w])
      /\ \A v \in Workers \ {w} : unflushed'[v] = unflushed[v]
  <2>1. unflushed[w] \in Seq(Shares) /\ IsInjective(unflushed[w])
    BY <1>2, <1>4 DEF UpstreamInv
  <2>2. /\ unflushed'[w] = Append(unflushed[w], s)
        /\ \A v \in Workers \ {w} : unflushed'[v] = unflushed[v]
    BY <1>1, <1>2, <1>4
  <2> QED
    BY <1>3, <1>6, <2>1, <2>2, AppendQueue
<1>8. ShareLedgerTypeOK'
  BY TypeEngine DEF EngineStep
<1>9. EngineInv'
  <2>1. pipeline = <<>> /\ todo = {}
    BY <1>1 DEF EngineInv
  <2>2. ASSUME NEW v \in Workers
        PROVE  /\ v \notin known' => unflushed'[v] = <<>>
               /\ idle'[v] > 0 => unflushed'[v] = <<>>
    BY <1>1, <1>2, <1>4, <1>7 DEF EngineInv
  <2> QED
    BY <1>1, <2>1, <2>2 DEF EngineInv
<1>10. UpstreamInv'
  <2>1. \A t \in Range(channel') : t \in accepted' /\ wallet'[t] = 0
    BY <1>1, <1>3 DEF UpstreamInv
  <2>2. ASSUME NEW v \in Workers
        PROVE  /\ IsInjective(unflushed'[v])
               /\ \A t \in Range(unflushed'[v]) :
                    /\ WorkerOf[t] = v /\ t \in accepted'
                    /\ wallet'[t] = 0 /\ t \notin Range(channel')
    <3>1. CASE v = w
      BY <1>1, <1>3, <1>5, <1>7, <3>1 DEF UpstreamInv
    <3>2. CASE v # w
      BY <1>1, <1>3, <1>7, <3>2 DEF UpstreamInv
    <3> QED
      BY <3>1, <3>2
  <2> QED
    BY <1>3, <2>1, <2>2 DEF UpstreamInv
<1>11. PipelineInv'
  BY <1>1, NoCommands DEF EngineInv
<1>12. OracleInv'
  BY <1>1, OracleFrame
<1>13. WalletInv'
  BY <1>1, WalletFrame
<1> QED
  BY <1>8, <1>9, <1>10, <1>11, <1>12, <1>13

\* The pipeline after a worker with shares was visited.
LEMMA QueuedCommands ==
  ASSUME ShareLedgerTypeOK, NEW w \in Workers, FlushOnline(w), unflushed[w] # <<>>
  PROVE  LET list == unflushed[w]  L == Len(pipeline) IN
         /\ Len(list) \in Nat /\ L \in Nat
         /\ Len(pipeline') = L + Len(list) + 2
         /\ \A i \in 1 .. L : pipeline'[i] = pipeline[i]
         /\ pipeline'[L + 1].op = "credit" /\ pipeline'[L + 1].shares = Range(list)
         /\ pipeline'[L + 1].worker = w
         /\ pipeline'[L + 2].op = "roster" /\ pipeline'[L + 2].shares = {}
         /\ pipeline'[L + 2].worker = w
         /\ \A i \in L + 3 .. L + Len(list) + 2 :
              /\ i - L - 2 \in 1 .. Len(list)
              /\ pipeline'[i].op = "push" /\ pipeline'[i].shares = {list[i - L - 2]}
              /\ pipeline'[i].worker = w
<1> DEFINE list == unflushed[w]
           cmds == FlushCommands(w)
           L == Len(pipeline)
<1>1. /\ list \in Seq(Shares) /\ pipeline \in Seq(Command)
      /\ pipeline' = pipeline \o cmds
  BY DEF ShareLedgerTypeOK, FlushOnline
<1>2. Len(list) \in Nat /\ L \in Nat
  BY <1>1, Members
<1>3. /\ cmds \in Seq(Command) /\ Len(cmds) = Len(list) + 2
      /\ cmds[1] = Cmd("credit", w, Range(list)) /\ cmds[2] = Cmd("roster", w, {})
      /\ \A i \in 3 .. Len(list) + 2 : cmds[i] = Cmd("push", w, {list[i - 2]})
  BY <1>1, FlushCommandsShape
<1> HIDE DEF cmds
<1>4. /\ Len(pipeline') = L + Len(list) + 2
      /\ \A i \in 1 .. L : pipeline'[i] = pipeline[i]
      /\ \A i \in L + 1 .. L + Len(list) + 2 : pipeline'[i] = cmds[i - L]
  <2>1. /\ Len(pipeline \o cmds) = L + Len(cmds)
        /\ \A i \in 1 .. L + Len(cmds) :
             (pipeline \o cmds)[i] = IF i <= L THEN pipeline[i] ELSE cmds[i - L]
    BY <1>1, <1>3, ConcatProperties
  <2> HIDE DEF L, list
  <2> QED
    BY <1>1, <1>2, <1>3, <2>1
<1> HIDE DEF L, list
<1>5. /\ pipeline'[L + 1] = Cmd("credit", w, Range(list))
      /\ pipeline'[L + 2] = Cmd("roster", w, {})
      /\ \A i \in L + 3 .. L + Len(list) + 2 :
           i - L - 2 \in 1 .. Len(list) /\ pipeline'[i] = Cmd("push", w, {list[i - L - 2]})
  <2>1. /\ L + 1 \in L + 1 .. L + Len(list) + 2 /\ L + 2 \in L + 1 .. L + Len(list) + 2
        /\ \A i \in L + 3 .. L + Len(list) + 2 :
             /\ i \in L + 1 .. L + Len(list) + 2 /\ i - L \in 3 .. Len(list) + 2
             /\ i - L - 2 \in 1 .. Len(list)
    BY <1>2
  <2>2. (L + 1) - L = 1 /\ (L + 2) - L = 2
    BY <1>2
  <2> QED
    BY <1>3, <1>4, <2>1, <2>2
<1>6. /\ pipeline'[L + 1].op = "credit" /\ pipeline'[L + 1].shares = Range(list)
      /\ pipeline'[L + 1].worker = w
      /\ pipeline'[L + 2].op = "roster" /\ pipeline'[L + 2].shares = {}
      /\ pipeline'[L + 2].worker = w
  BY <1>5, CmdFields
<1>7. ASSUME NEW i \in L + 3 .. L + Len(list) + 2
      PROVE  /\ i - L - 2 \in 1 .. Len(list)
             /\ pipeline'[i].op = "push" /\ pipeline'[i].shares = {list[i - L - 2]}
             /\ pipeline'[i].worker = w
  <2>1. i - L - 2 \in 1 .. Len(list) /\ pipeline'[i] = Cmd("push", w, {list[i - L - 2]})
    BY <1>5
  <2> QED
    BY <2>1, CmdFields
<1> QED
  BY <1>2, <1>4, <1>6, <1>7 DEF L, list

\* A worker's list is queued, behind what other workers queued.
LEMMA LedgerFlushOnline ==
  ASSUME LedgerInv, NEW w \in Workers, FlushOnline(w)
  PROVE  LedgerInv'
<1> USE DEF LedgerInv
<1> DEFINE list == unflushed[w]
           L == Len(pipeline)
<1>1. /\ engine = "flushing" /\ w \in todo /\ todo' = todo \ {w}
      /\ (list = <<>> => pipeline' = pipeline)
      /\ unflushed' = [unflushed EXCEPT ![w] = <<>>]
      /\ idle' = [idle EXCEPT ![w] = IF @ < IdleFlushes THEN @ + 1 ELSE @]
      /\ UNCHANGED <<accepted, channel, engine, known, wallet, roster, share_buffer,
                     oracle, batch, txYield, txTax, yield, tax>>
  BY DEF FlushOnline, intakeVars, redisVars, oracleVars, postgresVars
<1>2. /\ unflushed \in [Workers -> Seq(Shares)] /\ pipeline \in Seq(Command)
      /\ list \in Seq(Shares) /\ w \in known
  BY <1>1 DEF ShareLedgerTypeOK, EngineInv
<1>3. /\ unflushed'[w] = <<>> /\ Range(unflushed'[w]) = {} /\ IsInjective(unflushed'[w])
      /\ \A v \in Workers \ {w} : unflushed'[v] = unflushed[v]
  BY <1>1, <1>2, EmptyQueue
<1>4. /\ Len(list) \in Nat /\ L \in Nat
      /\ \A t : t \in Range(list) <=> \E i \in 1 .. Len(list) : list[i] = t
      /\ \A i \in 1 .. Len(list) : list[i] \in Range(list)
  BY <1>2, Members
<1>5. \A v \in Workers : Range(unflushed'[v]) \subseteq Range(unflushed[v])
  BY <1>3
<1>6. ShareLedgerTypeOK'
  BY TypeEngine DEF EngineStep, Visit
<1>7. EngineInv'
  <2>1. idle \in [Workers -> 0 .. IdleFlushes]
    BY DEF ShareLedgerTypeOK
  <2>2. \A v \in Workers \ {w} : idle'[v] = idle[v]
    BY <1>1, <2>1
  <2>3. ASSUME NEW v \in Workers
        PROVE  /\ v \notin known' => unflushed'[v] = <<>>
               /\ idle'[v] > 0 => unflushed'[v] = <<>>
    BY <1>1, <1>3, <2>2 DEF EngineInv
  <2> QED
    BY <1>1, <2>3 DEF EngineInv
<1>8. UpstreamInv'
  <2>1. ASSUME NEW v \in Workers
        PROVE  /\ IsInjective(unflushed'[v])
               /\ \A t \in Range(unflushed'[v]) :
                    /\ WorkerOf[t] = v /\ t \in accepted'
                    /\ wallet'[t] = 0 /\ t \notin Range(channel')
    <3>1. CASE v = w
      BY <1>3, <3>1
    <3>2. CASE v # w
      BY <1>1, <1>3, <3>2 DEF UpstreamInv
    <3> QED
      BY <3>1, <3>2
  <2> QED
    BY <1>1, <2>1 DEF UpstreamInv
<1>9. PipelineInv'
  <2>1. CASE list = <<>>
    <3>1. UNCHANGED <<pipeline, unflushed>>
      BY <1>1, <1>2, <2>1
    <3> QED
      BY <1>1, <3>1, PipelineFrame
  <2>2. CASE list # <<>>
    <3>1. /\ Len(pipeline') = L + Len(list) + 2
          /\ \A i \in 1 .. L : pipeline'[i] = pipeline[i]
          /\ pipeline'[L + 1].op = "credit" /\ pipeline'[L + 1].shares = Range(list)
          /\ pipeline'[L + 2].op = "roster" /\ pipeline'[L + 2].shares = {}
          /\ \A i \in L + 3 .. L + Len(list) + 2 :
               /\ i - L - 2 \in 1 .. Len(list)
               /\ pipeline'[i].op = "push" /\ pipeline'[i].shares = {list[i - L - 2]}
      BY <2>2, QueuedCommands
    <3> HIDE DEF L, list
    <3>2. \A t \in Range(list) :
             /\ WorkerOf[t] = w /\ t \in accepted /\ wallet[t] = 0 /\ t \notin Range(channel)
             /\ \A i \in 1 .. L : t \notin pipeline[i].shares
      <4>1. \A t \in Range(list) :
              WorkerOf[t] = w /\ t \in accepted /\ wallet[t] = 0 /\ t \notin Range(channel)
        BY DEF UpstreamInv, list
      <4>2. \A i \in 1 .. L : \A t \in pipeline[i].shares : t \notin Range(unflushed[WorkerOf[t]])
        BY DEF PipelineInv, CommandInv, L
      <4> QED
        BY <4>1, <4>2 DEF list
    <3>3. ASSUME NEW i \in 1 .. L
          PROVE  /\ pipeline'[i].op = "push" => pipeline'[i].shares # {}
                 /\ \A t \in pipeline'[i].shares : CommandInv(i, t)'
      <4>1. pipeline'[i] = pipeline[i] /\ i \in 1 .. Len(pipeline)
        BY <3>1, <3>3 DEF L
      <4>2. pipeline[i].op = "push" => pipeline[i].shares # {}
        BY <4>1 DEF PipelineInv
      <4>3. ASSUME NEW t \in pipeline[i].shares PROVE CommandInv(i, t)'
        <5>1. CommandInv(i, t)
          BY <4>1, <4>3 DEF PipelineInv
        <5>2. t \in accepted' /\ t \notin Range(channel') /\ t \notin Range(unflushed'[WorkerOf[t]])
          <6>1. t \notin Range(unflushed[WorkerOf[t]])
            BY <5>1 DEF CommandInv
          <6>2. pipeline[i] \in Command
            BY <1>2, <4>1, Members
          <6>3. WorkerOf[t] \in Workers
            BY <4>3, <6>2, ShareLedgerAssumption DEF Command
          <6> QED
            BY <1>1, <1>5, <5>1, <6>1, <6>3 DEF CommandInv
        <5>3. ASSUME pipeline'[i].op = "credit"
              PROVE  /\ wallet'[t] = 0
                     /\ \A j \in 1 .. Len(pipeline') :
                          pipeline'[j].op = "credit" /\ t \in pipeline'[j].shares => i = j
          <6>1. /\ wallet[t] = 0
                /\ \A j \in 1 .. L : pipeline[j].op = "credit" /\ t \in pipeline[j].shares => i = j
            BY <4>1, <5>1, <5>3 DEF CommandInv, L
          <6>2. t \notin Range(list)
            BY <3>2, <3>3, <4>3
          <6>3. ASSUME NEW j \in 1 .. Len(pipeline'),
                       pipeline'[j].op = "credit", t \in pipeline'[j].shares
                PROVE  i = j
            <7>1. CASE j \in 1 .. L
              BY <3>1, <6>1, <6>3, <7>1
            <7>2. CASE j = L + 1
              BY <3>1, <6>2, <6>3, <7>2
            <7>3. CASE j = L + 2
              BY <3>1, <6>3, <7>3
            <7>4. CASE j \in L + 3 .. L + Len(list) + 2
              BY <3>1, <6>3, <7>4
            <7>5. j \in 1 .. L \/ j = L + 1 \/ j = L + 2 \/ j \in L + 3 .. L + Len(list) + 2
              BY <1>4, <3>1
            <7> QED
              BY <7>1, <7>2, <7>3, <7>4, <7>5
          <6> QED
            BY <1>1, <6>1, <6>3
        <5>4. ASSUME pipeline'[i].op = "push"
              PROVE  /\ pipeline'[i].shares = {t}
                     /\ \/ wallet'[t] > 0
                        \/ \E j \in 1 .. i - 1 :
                             pipeline'[j].op = "credit" /\ t \in pipeline'[j].shares
          <6>1. \A j \in 1 .. i - 1 : pipeline'[j] = pipeline[j]
            BY <1>4, <3>1, <3>3
          <6> QED
            BY <1>1, <4>1, <5>1, <5>4, <6>1 DEF CommandInv
        <5> QED
          BY <5>2, <5>3, <5>4 DEF CommandInv
      <4> QED
        BY <4>1, <4>2, <4>3
    <3>4. \A t \in Range(list) :
             t \in accepted' /\ t \notin Range(channel') /\ t \notin Range(unflushed'[WorkerOf[t]])
      BY <1>1, <1>3, <3>2
    <3>5. ASSUME NEW i, i = L + 1, NEW t \in Range(list) PROVE CommandInv(i, t)'
      <4>1. pipeline'[i].op = "credit"
        BY <3>1, <3>5
      <4>2. ASSUME NEW j \in 1 .. Len(pipeline'),
                   pipeline'[j].op = "credit", t \in pipeline'[j].shares
            PROVE  i = j
        <5>1. CASE j \in 1 .. L
          BY <3>1, <3>2, <4>2, <5>1
        <5>2. CASE j = L + 2
          BY <3>1, <4>2, <5>2
        <5>3. CASE j \in L + 3 .. L + Len(list) + 2
          BY <3>1, <4>2, <5>3
        <5>4. j \in 1 .. L \/ j = L + 1 \/ j = L + 2 \/ j \in L + 3 .. L + Len(list) + 2
          BY <1>4, <3>1
        <5> QED
          BY <3>5, <5>1, <5>2, <5>3, <5>4
      <4>3. wallet'[t] = 0
        BY <1>1, <3>2
      <4> QED
        BY <3>4, <4>1, <4>2, <4>3 DEF CommandInv
    <3>6. ASSUME NEW i \in L + 3 .. L + Len(list) + 2, NEW t \in pipeline'[i].shares
          PROVE  CommandInv(i, t)'
      <4>1. t = list[i - L - 2] /\ pipeline'[i].op = "push" /\ pipeline'[i].shares = {t}
        BY <3>1, <3>6
      <4>2. t \in Range(list)
        BY <1>4, <3>1, <4>1
      <4>3. L + 1 \in 1 .. i - 1 /\ pipeline'[L + 1].op = "credit" /\ t \in pipeline'[L + 1].shares
        BY <1>4, <3>1, <4>2
      <4> QED
        BY <3>4, <4>1, <4>2, <4>3 DEF CommandInv
    <3>7. ASSUME NEW i \in 1 .. Len(pipeline')
          PROVE  /\ pipeline'[i].op = "push" => pipeline'[i].shares # {}
                 /\ \A t \in pipeline'[i].shares : CommandInv(i, t)'
      <4>1. i \in 1 .. L \/ i = L + 1 \/ i = L + 2 \/ i \in L + 3 .. L + Len(list) + 2
        BY <1>4, <3>1
      <4>2. CASE i = L + 1
        BY <3>1, <3>5, <4>2
      <4>3. CASE i = L + 2
        BY <3>1, <4>3
      <4>4. CASE i \in L + 3 .. L + Len(list) + 2
        BY <3>1, <3>6, <4>4
      <4> QED
        BY <3>3, <4>1, <4>2, <4>3, <4>4
    <3> QED
      BY <3>7 DEF PipelineInv
  <2> QED
    BY <2>1, <2>2
<1>10. OracleInv'
  BY <1>1, OracleFrame
<1>11. WalletInv'
  BY <1>1, WalletFrame
<1> QED
  BY <1>6, <1>7, <1>8, <1>9, <1>10, <1>11

\* A worker is dropped with the shares it has; the command for it is about no
\* share.
LEMMA LedgerFlushOffline ==
  ASSUME LedgerInv, NEW w \in Workers, FlushOffline(w)
  PROVE  LedgerInv'
<1> USE DEF LedgerInv
<1> DEFINE cmd == Cmd("unroster", w, {})
           L == Len(pipeline)
<1>1. /\ engine = "flushing" /\ w \in todo /\ todo' = todo \ {w}
      /\ pipeline' = Append(pipeline, cmd)
      /\ known' = known \ {w} /\ unflushed' = [unflushed EXCEPT ![w] = <<>>]
      /\ UNCHANGED <<accepted, channel, engine, idle, wallet, roster, share_buffer,
                     oracle, batch, txYield, txTax, yield, tax>>
  BY DEF FlushOffline, intakeVars, redisVars, oracleVars, postgresVars
<1>2. /\ unflushed'[w] = <<>> /\ Range(unflushed'[w]) = {} /\ IsInjective(unflushed'[w])
      /\ \A v \in Workers \ {w} : unflushed'[v] = unflushed[v]
  BY <1>1, EmptyQueue DEF ShareLedgerTypeOK
<1>3. /\ cmd \in Command /\ cmd.op = "unroster" /\ cmd.shares = {}
  BY DEF Cmd, Command
<1>4. /\ L \in Nat /\ Len(pipeline') = L + 1
      /\ \A i \in 1 .. L : pipeline'[i] = pipeline[i]
      /\ pipeline'[L + 1] = cmd
  BY <1>1, <1>3, AppendQueue, Members DEF ShareLedgerTypeOK
<1> HIDE DEF cmd
<1>5. ShareLedgerTypeOK'
  BY TypeEngine DEF EngineStep, Visit
<1>6. EngineInv'
  BY <1>1, <1>2 DEF EngineInv
<1>7. UpstreamInv'
  BY <1>1, <1>2 DEF UpstreamInv
<1>8. PipelineInv'
  <2> HIDE DEF L
  <2>1. ASSUME NEW i \in 1 .. L, NEW t \in pipeline'[i].shares PROVE CommandInv(i, t)'
    <3>1. pipeline'[i] = pipeline[i] /\ CommandInv(i, t)
      BY <1>4, <2>1 DEF PipelineInv, L
    <3>2. \A j \in 1 .. Len(pipeline') : pipeline'[j].op = "credit" => j \in 1 .. L
      BY <1>3, <1>4
    <3>3. \A j \in 1 .. i - 1 : pipeline'[j] = pipeline[j]
      BY <1>4
    <3>4. t \in Shares /\ WorkerOf[t] \in Workers
      BY <3>1, ShareLedgerAssumption DEF CommandInv, ShareLedgerTypeOK
    <3>5. t \notin Range(unflushed'[WorkerOf[t]])
      BY <1>2, <3>1, <3>4 DEF CommandInv
    <3> QED
      BY <1>1, <1>4, <3>1, <3>2, <3>3, <3>5 DEF CommandInv, L
  <2>2. \A i \in 1 .. L : pipeline'[i].op = "push" => pipeline'[i].shares # {}
    BY <1>4 DEF PipelineInv, L
  <2>3. \A i \in 1 .. Len(pipeline') : i \in 1 .. L \/ i = L + 1
    BY <1>4
  <2>4. ASSUME NEW i \in 1 .. Len(pipeline')
        PROVE  /\ pipeline'[i].op = "push" => pipeline'[i].shares # {}
               /\ \A t \in pipeline'[i].shares : CommandInv(i, t)'
    <3>1. CASE i \in 1 .. L
      BY <2>1, <2>2, <3>1
    <3>2. CASE i = L + 1
      BY <1>3, <1>4, <3>2
    <3> QED
      BY <2>3, <3>1, <3>2
  <2> QED
    BY <2>4 DEF PipelineInv
<1>9. OracleInv'
  BY <1>1, OracleFrame
<1>10. WalletInv'
  BY <1>1, WalletFrame
<1> QED
  BY <1>5, <1>6, <1>7, <1>8, <1>9, <1>10

\* What a command in execution leaves behind: the commands one place ahead.
LEMMA TakeCommand ==
  ASSUME ShareLedgerTypeOK, RedisExecutes
  PROVE  /\ Len(pipeline) \in Nat /\ Len(pipeline) >= 1
         /\ Head(pipeline) = pipeline[1] /\ pipeline[1] \in Command
         /\ Len(pipeline') = Len(pipeline) - 1
         /\ \A i \in 1 .. Len(pipeline') :
              i + 1 \in 1 .. Len(pipeline) /\ pipeline'[i] = pipeline[i + 1]
<1>1. pipeline \in Seq(Command) /\ pipeline # <<>> /\ pipeline' = Tail(pipeline)
  BY DEF ShareLedgerTypeOK, RedisExecutes
<1>2. /\ Head(pipeline) = pipeline[1] /\ Head(pipeline) \in Command
      /\ Len(pipeline) >= 1 /\ Len(Tail(pipeline)) = Len(pipeline) - 1
      /\ \A i \in 1 .. Len(pipeline) - 1 : Tail(pipeline)[i] = pipeline[i + 1]
  BY <1>1, TakeQueue
<1>3. Len(pipeline) \in Nat
  BY <1>1, Members
<1> QED
  BY <1>1, <1>2, <1>3

\* What a command does, by kind.
LEMMA CommandEffect ==
  ASSUME ShareLedgerTypeOK, PipelineInv, RedisExecutes
  PROVE  /\ UNCHANGED <<accepted, channel, worker_shares, engine, known, unflushed, idle, todo,
                        oracle, batch, txYield, txTax, yield, tax>>
         /\ pipeline[1].op = "credit" =>
              wallet' = Plus(wallet, pipeline[1].shares) /\ share_buffer' = share_buffer
         /\ pipeline[1].op = "push" =>
              /\ wallet' = wallet
              /\ \E s \in Shares : /\ pipeline[1].shares = {s} /\ CommandInv(1, s)
                                   /\ share_buffer' = Append(share_buffer, s)
         /\ pipeline[1].op \in {"roster", "unroster"} => UNCHANGED <<wallet, share_buffer>>
<1>1. Head(pipeline) = pipeline[1] /\ pipeline[1] \in Command /\ 1 \in 1 .. Len(pipeline)
  BY TakeCommand
<1>2. ASSUME pipeline[1].op = "push"
      PROVE  \E s \in Shares : /\ pipeline[1].shares = {s} /\ CommandInv(1, s)
                               /\ share_buffer' = Append(share_buffer, s)
  <2>1. PICK s \in pipeline[1].shares : share_buffer' = Append(share_buffer, s)
    BY <1>1, <1>2 DEF RedisExecutes
  <2>2. CommandInv(1, s) /\ s \in Shares
    BY <1>1, <2>1 DEF PipelineInv, Command
  <2> QED
    BY <1>2, <2>1, <2>2 DEF CommandInv
<1>3. /\ UNCHANGED <<accepted, channel, worker_shares, engine, known, unflushed, idle, todo,
                     oracle, batch, txYield, txTax, yield, tax>>
      /\ wallet' = IF pipeline[1].op = "credit" THEN Plus(wallet, pipeline[1].shares) ELSE wallet
      /\ pipeline[1].op # "push" => share_buffer' = share_buffer
  BY <1>1 DEF RedisExecutes, intakeVars, oracleVars, postgresVars
<1> QED
  BY <1>2, <1>3

\* Redis executes a credit: nothing of it had been credited, and nothing of it
\* is upstream or in another credit.
LEMMA LedgerCredit ==
  ASSUME LedgerInv, RedisExecutes, pipeline[1].op = "credit"
  PROVE  UpstreamInv' /\ PipelineInv' /\ OracleInv' /\ WalletInv'
<1> USE DEF LedgerInv
<1> DEFINE S == pipeline[1].shares
<1>1. /\ wallet' = Plus(wallet, S)
      /\ UNCHANGED <<share_buffer, accepted, channel, engine, known, unflushed, idle, todo,
                     oracle, batch, txYield, txTax, yield, tax>>
  BY CommandEffect
<1>2. /\ Len(pipeline) \in Nat /\ Len(pipeline) >= 1 /\ pipeline[1] \in Command
      /\ Len(pipeline') = Len(pipeline) - 1
      /\ \A i \in 1 .. Len(pipeline') :
           i + 1 \in 1 .. Len(pipeline) /\ pipeline'[i] = pipeline[i + 1]
  BY TakeCommand
<1>3. /\ \A s \in S : CommandInv(1, s) /\ wallet[s] = 0 /\ s \in accepted
      /\ S \subseteq Shares
  BY <1>2 DEF PipelineInv, CommandInv, Command
<1>4. /\ wallet \in [Shares -> Nat] /\ wallet' \in [Shares -> Nat]
      /\ \A s \in Shares : s \notin S => wallet'[s] = wallet[s]
      /\ \A s \in S : wallet'[s] = 1
      /\ \A s \in Shares : wallet[s] > 0 => wallet'[s] > 0
  <2>1. wallet \in [Shares -> Nat]
    BY DEF ShareLedgerTypeOK
  <2> HIDE DEF LedgerInv, S
  <2> QED
    BY <1>1, <1>3, <2>1, PlusLemma
<1>5. UpstreamInv'
  <2>1. /\ Range(channel) \subseteq Shares /\ Range(channel) \cap S = {}
    BY <1>3, Members DEF CommandInv, ShareLedgerTypeOK
  <2>2. \A w \in Workers : Range(unflushed[w]) \subseteq Shares /\ Range(unflushed[w]) \cap S = {}
    <3>1. ASSUME NEW w \in Workers
          PROVE  Range(unflushed[w]) \subseteq Shares /\ Range(unflushed[w]) \cap S = {}
      <4>1. unflushed[w] \in Seq(Shares)
        BY DEF ShareLedgerTypeOK
      <4>2. \A s \in Range(unflushed[w]) : WorkerOf[s] = w
        BY DEF UpstreamInv
      <4>3. \A s \in S : s \notin Range(unflushed[WorkerOf[s]])
        BY <1>3 DEF CommandInv
      <4> QED
        BY <4>1, <4>2, <4>3, Members
    <3> QED
      BY <3>1
  <2>3. \A s \in Range(channel) : wallet'[s] = 0
    BY <1>4, <2>1 DEF UpstreamInv
  <2>4. \A w \in Workers : \A s \in Range(unflushed[w]) : wallet'[s] = 0
    BY <1>4, <2>2 DEF UpstreamInv
  <2> QED
    BY <1>1, <2>3, <2>4 DEF UpstreamInv
<1>6. PipelineInv'
  <2>1. ASSUME NEW i \in 1 .. Len(pipeline')
        PROVE  /\ pipeline'[i].op = "push" => pipeline'[i].shares # {}
               /\ \A s \in pipeline'[i].shares : CommandInv(i, s)'
    <3>1. i \in Nat /\ i >= 1 /\ i + 1 \in 1 .. Len(pipeline) /\ pipeline'[i] = pipeline[i + 1]
      BY <1>2
    <3>2. pipeline'[i].op = "push" => pipeline'[i].shares # {}
      BY <3>1 DEF PipelineInv
    <3>3. ASSUME NEW s \in pipeline'[i].shares PROVE CommandInv(i, s)'
      <4>1. s \in pipeline[i + 1].shares /\ CommandInv(i + 1, s) /\ s \in Shares
        <5>1. pipeline[i + 1] \in Command
          BY <3>1, Members DEF ShareLedgerTypeOK
        <5> QED
          BY <3>1, <3>3, <5>1 DEF PipelineInv, Command
      <4>2. s \in accepted' /\ s \notin Range(channel') /\ s \notin Range(unflushed'[WorkerOf[s]])
        BY <1>1, <4>1 DEF CommandInv
      <4>3. ASSUME pipeline'[i].op = "credit"
            PROVE  /\ wallet'[s] = 0
                   /\ \A j \in 1 .. Len(pipeline') :
                        pipeline'[j].op = "credit" /\ s \in pipeline'[j].shares => i = j
        <5>1. /\ wallet[s] = 0
              /\ \A j \in 1 .. Len(pipeline) :
                   pipeline[j].op = "credit" /\ s \in pipeline[j].shares => i + 1 = j
          BY <3>1, <4>1, <4>3 DEF CommandInv
        <5>2. s \notin S
          <6>1. i + 1 # 1 /\ 1 \in 1 .. Len(pipeline)
            BY <1>2, <3>1
          <6> QED
            BY <5>1, <6>1
        <5>3. \A j \in 1 .. Len(pipeline') :
                pipeline'[j].op = "credit" /\ s \in pipeline'[j].shares => i + 1 = j + 1
          BY <1>2, <5>1
        <5>4. \A j \in 1 .. Len(pipeline') : i + 1 = j + 1 => i = j
          BY <3>1
        <5> QED
          BY <1>4, <4>1, <5>1, <5>2, <5>3, <5>4
      <4>4. ASSUME pipeline'[i].op = "push"
            PROVE  /\ pipeline'[i].shares = {s}
                   /\ \/ wallet'[s] > 0
                      \/ \E j \in 1 .. i - 1 :
                           pipeline'[j].op = "credit" /\ s \in pipeline'[j].shares
        <5>1. pipeline'[i].shares = {s}
          BY <3>1, <4>1, <4>4 DEF CommandInv
        <5>2. CASE wallet[s] > 0
          BY <1>4, <4>1, <5>1, <5>2
        <5>3. CASE s \in S
          BY <1>4, <5>1, <5>3
        <5>4. ASSUME NEW j \in 1 .. (i + 1) - 1, j # 1,
                     pipeline[j].op = "credit", s \in pipeline[j].shares
              PROVE  \E k \in 1 .. i - 1 :
                       pipeline'[k].op = "credit" /\ s \in pipeline'[k].shares
          <6>1. j - 1 \in 1 .. i - 1 /\ j - 1 \in 1 .. Len(pipeline') /\ (j - 1) + 1 = j
            BY <3>1, <5>4
          <6> QED
            BY <1>2, <5>4, <6>1
        <5>5. \/ wallet[s] > 0
              \/ \E j \in 1 .. (i + 1) - 1 : pipeline[j].op = "credit" /\ s \in pipeline[j].shares
          BY <3>1, <4>1, <4>4 DEF CommandInv
        <5> QED
          BY <5>1, <5>2, <5>3, <5>4, <5>5
      <4> QED
        BY <4>2, <4>3, <4>4 DEF CommandInv
    <3> QED
      BY <3>2, <3>3
  <2> QED
    BY <2>1 DEF PipelineInv
<1>7. OracleInv'
  BY <1>1, OracleFrame
<1>8. WalletInv'
  <2>1. \A s \in Shares : wallet'[s] <= 1
    BY <1>4 DEF WalletInv
  <2>2. \A s \in Shares : wallet'[s] > 0 => s \in accepted'
    BY <1>1, <1>3, <1>4 DEF WalletInv
  <2>3. \A s \in Shares :
          s \in InBuffer' \/ s \in InBatch' \/ yield'[s] > 0 => wallet'[s] > 0
    BY <1>1, <1>4 DEF WalletInv, InBuffer, InBatch
  <2> QED
    BY <1>1, <2>1, <2>2, <2>3 DEF WalletInv
<1> QED
  BY <1>5, <1>6, <1>7, <1>8

\* Redis executes another command: a push adds to the end of the buffer a
\* share that was credited before; nothing else moves.
LEMMA LedgerOtherCommand ==
  ASSUME LedgerInv, RedisExecutes, pipeline[1].op # "credit"
  PROVE  UpstreamInv' /\ PipelineInv' /\ OracleInv' /\ WalletInv'
<1> USE DEF LedgerInv
<1>1. /\ UNCHANGED <<wallet, accepted, channel, engine, known, unflushed, idle, todo,
                     oracle, batch, txYield, txTax, yield, tax>>
      /\ \/ share_buffer' = share_buffer
         \/ \E s \in Shares : wallet[s] > 0 /\ share_buffer' = Append(share_buffer, s)
  <2>1. pipeline[1].op \in {"push", "roster", "unroster"}
    BY TakeCommand DEF Command
  <2>2. CASE pipeline[1].op = "push"
    <3>1. PICK s \in Shares : /\ pipeline[1].shares = {s} /\ CommandInv(1, s)
                              /\ share_buffer' = Append(share_buffer, s)
      BY <2>2, CommandEffect
    <3>2. wallet[s] > 0
      BY <2>2, <3>1 DEF CommandInv
    <3> QED
      BY <2>2, <3>1, <3>2, CommandEffect
  <2>3. CASE pipeline[1].op \in {"roster", "unroster"}
    BY <2>3, CommandEffect
  <2> QED
    BY <2>1, <2>2, <2>3
<1>2. /\ Len(pipeline) \in Nat /\ Len(pipeline) >= 1
      /\ Len(pipeline') = Len(pipeline) - 1
      /\ \A i \in 1 .. Len(pipeline') :
           i + 1 \in 1 .. Len(pipeline) /\ pipeline'[i] = pipeline[i + 1]
  BY TakeCommand
<1>3. share_buffer \in Seq(Shares) /\ Len(share_buffer) \in Nat /\ batch \in Seq(Shares)
  BY Members DEF ShareLedgerTypeOK
<1>4. UpstreamInv'
  BY <1>1, UpstreamFrame
<1>5. PipelineInv'
  <2>1. ASSUME NEW i \in 1 .. Len(pipeline')
        PROVE  /\ pipeline'[i].op = "push" => pipeline'[i].shares # {}
               /\ \A s \in pipeline'[i].shares : CommandInv(i, s)'
    <3>1. i \in Nat /\ i >= 1 /\ i + 1 \in 1 .. Len(pipeline) /\ pipeline'[i] = pipeline[i + 1]
      BY <1>2
    <3>2. pipeline'[i].op = "push" => pipeline'[i].shares # {}
      BY <3>1 DEF PipelineInv
    <3>3. ASSUME NEW s \in pipeline'[i].shares PROVE CommandInv(i, s)'
      <4>1. CommandInv(i + 1, s)
        BY <3>1, <3>3 DEF PipelineInv
      <4>2. s \in accepted' /\ s \notin Range(channel') /\ s \notin Range(unflushed'[WorkerOf[s]])
        BY <1>1, <4>1 DEF CommandInv
      <4>3. ASSUME pipeline'[i].op = "credit"
            PROVE  /\ wallet'[s] = 0
                   /\ \A j \in 1 .. Len(pipeline') :
                        pipeline'[j].op = "credit" /\ s \in pipeline'[j].shares => i = j
        <5>1. /\ wallet[s] = 0
              /\ \A j \in 1 .. Len(pipeline) :
                   pipeline[j].op = "credit" /\ s \in pipeline[j].shares => i + 1 = j
          BY <3>1, <4>1, <4>3 DEF CommandInv
        <5>2. \A j \in 1 .. Len(pipeline') :
                pipeline'[j].op = "credit" /\ s \in pipeline'[j].shares => i + 1 = j + 1
          BY <1>2, <5>1
        <5>3. \A j \in 1 .. Len(pipeline') : i + 1 = j + 1 => i = j
          BY <3>1
        <5> QED
          BY <1>1, <5>1, <5>2, <5>3
      <4>4. ASSUME pipeline'[i].op = "push"
            PROVE  /\ pipeline'[i].shares = {s}
                   /\ \/ wallet'[s] > 0
                      \/ \E j \in 1 .. i - 1 :
                           pipeline'[j].op = "credit" /\ s \in pipeline'[j].shares
        <5>1. /\ pipeline'[i].shares = {s}
              /\ \/ wallet[s] > 0
                 \/ \E j \in 1 .. (i + 1) - 1 : pipeline[j].op = "credit" /\ s \in pipeline[j].shares
          BY <3>1, <4>1, <4>4 DEF CommandInv
        <5>2. ASSUME NEW j \in 1 .. (i + 1) - 1,
                     pipeline[j].op = "credit", s \in pipeline[j].shares
              PROVE  \E k \in 1 .. i - 1 :
                       pipeline'[k].op = "credit" /\ s \in pipeline'[k].shares
          <6>1. j # 1
            BY <5>2
          <6>2. j - 1 \in 1 .. i - 1 /\ j - 1 \in 1 .. Len(pipeline') /\ (j - 1) + 1 = j
            BY <3>1, <6>1
          <6> QED
            BY <1>2, <5>2, <6>2
        <5> QED
          BY <1>1, <5>1, <5>2
      <4> QED
        BY <4>2, <4>3, <4>4 DEF CommandInv
    <3> QED
      BY <3>2, <3>3
  <2> QED
    BY <2>1 DEF PipelineInv
<1>6. OracleInv' /\ WalletInv'
  <2>1. CASE share_buffer' = share_buffer
    BY <1>1, <2>1, OracleFrame, WalletFrame
  <2>2. ASSUME NEW s \in Shares, wallet[s] > 0, share_buffer' = Append(share_buffer, s)
        PROVE  OracleInv' /\ WalletInv'
    <3>1. /\ Len(share_buffer') = Len(share_buffer) + 1
          /\ Range(share_buffer') = Range(share_buffer) \cup {s}
      BY <1>3, <2>2, AppendQueue
    <3>2. oracle = "read" => /\ Len(batch) <= Len(share_buffer')
                             /\ batch = SubSeq(share_buffer', 1, Len(batch))
      <4>1. Len(batch) \in Nat
        BY <1>3, Members
      <4>2. oracle = "read" => /\ Len(batch) \in 0 .. Len(share_buffer)
                               /\ batch = SubSeq(share_buffer, 1, Len(batch))
        BY <1>3, <4>1 DEF OracleInv
      <4>3. oracle = "read" =>
              SubSeq(share_buffer', 1, Len(batch)) = SubSeq(share_buffer, 1, Len(batch))
        BY <1>3, <2>2, <4>2, AppendKeepsPrefix
      <4> QED
        BY <1>3, <3>1, <4>1, <4>2, <4>3
    <3>3. OracleInv'
      BY <1>1, <3>2 DEF OracleInv, Payable
    <3>4. \A t \in Shares :
            t \in InBuffer' \/ t \in InBatch' \/ yield'[t] > 0 => wallet'[t] > 0
      BY <1>1, <2>2, <3>1 DEF WalletInv, InBuffer, InBatch
    <3>5. WalletInv'
      BY <1>1, <3>4 DEF WalletInv
    <3> QED
      BY <3>3, <3>5
  <2> QED
    BY <1>1, <2>1, <2>2
<1> QED
  BY <1>4, <1>5, <1>6

\* Redis executes the next command.
LEMMA LedgerCommand ==
  ASSUME LedgerInv, RedisExecutes
  PROVE  LedgerInv'
<1>1. ShareLedgerTypeOK'
  BY TypeEngine DEF EngineStep, LedgerInv
<1>2. EngineInv'
  <2>1. UNCHANGED <<engine, todo, known, unflushed, idle>> /\ engine = "flushing"
    BY CommandEffect DEF LedgerInv, RedisExecutes
  <2> QED
    BY <2>1 DEF LedgerInv, EngineInv
<1>3. UpstreamInv' /\ PipelineInv' /\ OracleInv' /\ WalletInv'
  BY LedgerCredit, LedgerOtherCommand
<1> QED
  BY <1>1, <1>2, <1>3 DEF LedgerInv

\* The other steps of the engine move no share, but for a connection to Redis
\* that cannot be had or breaks: the channel, or the pipeline, is lost.
LEMMA LedgerEngineRest ==
  ASSUME LedgerInv, EngineConnect \/ FlushTick \/ FlushDone \/ PipelineFails \/ Resume
  PROVE  LedgerInv'
<1> USE DEF LedgerInv
<1>1. /\ channel' \in {channel, <<>>} /\ pipeline' \in {pipeline, <<>>}
      /\ UNCHANGED <<accepted, known, unflushed, idle, wallet, roster, share_buffer,
                     oracle, batch, txYield, txTax, yield, tax>>
  BY DEF EngineConnect, FlushTick, FlushDone, PipelineFails, Resume, intakeVars,
     redisVars, oracleVars, postgresVars
<1>2. ShareLedgerTypeOK'
  BY TypeEngine DEF EngineStep
<1>3. EngineInv'
  BY <1>1 DEF EngineInv, EngineConnect, FlushTick, FlushDone, PipelineFails, Resume
<1>4. Range(channel') \subseteq Range(channel) /\ IsInjective(channel')
  BY <1>1, EmptyQueue DEF UpstreamInv
<1>5. UpstreamInv'
  BY <1>1, <1>4 DEF UpstreamInv
<1>6. PipelineInv'
  <2>1. CASE pipeline' = <<>>
    BY <2>1, NoCommands
  <2>2. CASE pipeline' = pipeline
    <3>1. ASSUME NEW i \in 1 .. Len(pipeline), NEW s \in pipeline[i].shares
          PROVE  CommandInv(i, s)'
      BY <1>1, <1>4, <2>2, <3>1 DEF PipelineInv, CommandInv
    <3> QED
      BY <2>2, <3>1 DEF PipelineInv
  <2> QED
    BY <1>1, <2>1, <2>2
<1>7. OracleInv' /\ WalletInv'
  BY <1>1, OracleFrame, WalletFrame
<1> QED
  BY <1>2, <1>3, <1>5, <1>6, <1>7

---------------------------------------------------------------------------
(* The inductive invariant: the oracle, crashes *)

\* The oracle does not touch what comes before the buffer.
LEMMA LedgerOracle ==
  ASSUME LedgerInv, OracleStep
  PROVE  LedgerInv'
<1> USE DEF LedgerInv
<1>1. UNCHANGED <<accepted, channel, engine, known, unflushed, idle, todo, pipeline, wallet>>
  BY DEF OracleStep, OracleConnect, ReadBatch, TrimBatch, BeginTransaction, SkipBatch,
     UpsertYield, StampTax, Commit, Rollback, ForgetBatch, intakeVars, engineVars, redisVars
<1>2. ShareLedgerTypeOK'
  BY TypeOracle
<1>3. EngineInv' /\ UpstreamInv' /\ PipelineInv'
  BY <1>1, EngineFrame, UpstreamFrame, PipelineFrame
<1>4. /\ share_buffer \in Seq(Shares) /\ batch \in Seq(Shares) /\ Range(<<>>) = {}
      /\ yield \in [Shares -> Nat] /\ tax \in [Shares -> Nat]
  BY EmptyQueue DEF ShareLedgerTypeOK
<1>5. CASE OracleConnect \/ BeginTransaction
  <2>1. /\ UNCHANGED <<share_buffer, batch, txYield, txTax, yield, tax>>
        /\ oracle' \in {"idle", "exited", "begun"} /\ (oracle' = "begun" => oracle = "trimmed")
        /\ oracle' # "begun" => oracle = "starting"
    BY <1>5 DEF OracleConnect, BeginTransaction, redisVars, postgresVars
  <2>2. OracleInv'
    BY <2>1 DEF OracleInv
  <2>3. WalletInv'
    BY <1>1, <2>1, WalletFrame
  <2> QED
    BY <1>2, <1>3, <2>2, <2>3
<1>6. CASE ForgetBatch /\ UNCHANGED <<share_buffer, yield, tax>>
  <2>1. OracleInv'
    BY <1>4, <1>6 DEF OracleInv, ForgetBatch
  <2>2. InBatch' = {} /\ InBuffer' = InBuffer
    BY <1>4, <1>6 DEF ForgetBatch, InBatch, InBuffer
  <2>3. WalletInv'
    BY <1>1, <1>6, <2>2 DEF WalletInv
  <2> QED
    BY <1>2, <1>3, <2>1, <2>3
<1>7. CASE SkipBatch \/ Rollback
  BY <1>6, <1>7 DEF SkipBatch, Rollback, redisVars, postgresVars
<1>8. CASE ReadBatch
  <2> DEFINE n == IF Len(share_buffer) < BatchMax THEN Len(share_buffer) ELSE BatchMax
  <2>1. /\ oracle = "idle" /\ oracle' = "read" /\ batch' = SubSeq(share_buffer, 1, n)
        /\ UNCHANGED <<share_buffer, txYield, txTax, yield, tax>>
    BY <1>8 DEF ReadBatch, redisVars, postgresVars
  <2>2. n \in 0 .. Len(share_buffer)
    BY <1>4, Members, ShareLedgerAssumption
  <2> HIDE DEF n
  <2>3. Len(batch') = n /\ Range(batch') \subseteq Range(share_buffer)
    <3>1. Len(SubSeq(share_buffer, 1, n)) = n
      BY <1>4, <2>2, SplitQueue
    <3>2. Range(share_buffer) = Range(SubSeq(share_buffer, 1, n))
            \cup Range(SubSeq(share_buffer, n + 1, Len(share_buffer)))
      BY <1>4, <2>2, SplitQueue
    <3> QED
      BY <2>1, <3>1, <3>2
  <2>4. txYield = {}
    BY <1>4, <2>1 DEF OracleInv
  <2>5. OracleInv'
    BY <2>1, <2>2, <2>3, <2>4 DEF OracleInv
  <2>6. WalletInv'
    BY <1>1, <2>1, <2>3 DEF WalletInv, InBuffer, InBatch
  <2> QED
    BY <1>2, <1>3, <2>5, <2>6
<1>9. CASE TrimBatch
  <2>1. /\ oracle = "read" /\ oracle' = "trimmed"
        /\ share_buffer' \in {share_buffer, SubSeq(share_buffer, Len(batch) + 1, Len(share_buffer))}
        /\ UNCHANGED <<batch, txYield, txTax, yield, tax>>
    BY <1>9 DEF TrimBatch, postgresVars
  <2>2. Len(batch) \in 0 .. Len(share_buffer)
    BY <1>4, <2>1, Members DEF OracleInv
  <2>3. Range(share_buffer') \subseteq Range(share_buffer)
    <3> DEFINE n == Len(batch)
    <3>1. n \in 0 .. Len(share_buffer)
      BY <2>2
    <3> HIDE DEF n
    <3>2. Range(share_buffer) = Range(SubSeq(share_buffer, 1, n))
            \cup Range(SubSeq(share_buffer, n + 1, Len(share_buffer)))
      BY <1>4, <3>1, SplitQueue
    <3> QED
      BY <2>1, <3>2 DEF n
  <2>4. OracleInv'
    BY <2>1 DEF OracleInv
  <2>5. WalletInv'
    BY <1>1, <2>1, <2>3 DEF WalletInv, InBuffer, InBatch
  <2> QED
    BY <1>2, <1>3, <2>4, <2>5
<1>10. CASE UpsertYield \/ StampTax
  <2>1. /\ UNCHANGED <<share_buffer, batch, yield, tax>>
        /\ \/ oracle' = "upserted" /\ txYield' = Payable
           \/ /\ oracle = "upserted" /\ oracle' = "stamped"
              /\ txTax' = Payable /\ txYield' = txYield
    BY <1>10 DEF UpsertYield, StampTax, redisVars, postgresVars
  <2>2. Payable \subseteq Range(batch) /\ Payable' = Payable
    BY <2>1 DEF Payable
  <2>3. OracleInv'
    BY <2>1, <2>2 DEF OracleInv
  <2>4. WalletInv'
    BY <1>1, <2>1, WalletFrame
  <2> QED
    BY <1>2, <1>3, <2>3, <2>4
<1>11. CASE Commit
  <2>1. /\ oracle = "stamped" /\ yield' = Plus(yield, txYield) /\ tax' = Plus(tax, txTax)
        /\ ForgetBatch /\ UNCHANGED share_buffer
    BY <1>11 DEF Commit, redisVars
  <2>2. yield' = tax'
    BY <2>1 DEF OracleInv, WalletInv
  <2>3. OracleInv'
    BY <1>4, <2>1 DEF OracleInv, ForgetBatch
  <2>4. \A s \in Shares : yield'[s] > 0 => yield[s] > 0 \/ s \in Range(batch)
    BY <1>4, <2>1, PlusLemma DEF OracleInv
  <2>5. InBatch' = {} /\ InBuffer' = InBuffer
    BY <1>4, <2>1 DEF ForgetBatch, InBatch, InBuffer
  <2>6. WalletInv'
    BY <1>1, <2>2, <2>4, <2>5 DEF WalletInv, InBatch
  <2> QED
    BY <1>2, <1>3, <2>3, <2>6
<1> QED
  BY <1>5, <1>7, <1>8, <1>9, <1>10, <1>11 DEF OracleStep

\* A crash empties what the process held; the databases keep what they have.
LEMMA LedgerCrash ==
  ASSUME LedgerInv, Crash
  PROVE  LedgerInv'
<1> USE DEF LedgerInv
<1>1. /\ channel' = <<>> /\ pipeline' = <<>> /\ batch' = <<>> /\ txYield' = {} /\ txTax' = {}
      /\ unflushed' = [w \in Workers |-> <<>>] /\ todo' = {} /\ known' = {}
      /\ engine' = "starting" /\ oracle' = "starting"
      /\ UNCHANGED <<accepted, wallet, share_buffer, yield, tax>>
  BY DEF Crash, redisVars, postgresVars
<1>2. Range(<<>>) = {} /\ IsInjective(<<>>)
  BY EmptyQueue
<1>3. ShareLedgerTypeOK'
  BY TypeCrash
<1>4. EngineInv'
  BY <1>1 DEF EngineInv
<1>5. UpstreamInv'
  BY <1>1, <1>2 DEF UpstreamInv
<1>6. PipelineInv'
  BY <1>1, NoCommands
<1>7. OracleInv'
  BY <1>1 DEF OracleInv
<1>8. WalletInv'
  BY <1>1, <1>2 DEF WalletInv, InBuffer, InBatch
<1> QED
  BY <1>3, <1>4, <1>5, <1>6, <1>7, <1>8

\* The invariant holds initially.
LEMMA LedgerInit == ShareLedgerInit => LedgerInv
<1> SUFFICES ASSUME ShareLedgerInit PROVE LedgerInv
  OBVIOUS
<1>1. Range(<<>>) = {} /\ IsInjective(<<>>)
  BY EmptyQueue
<1>2. ShareLedgerTypeOK
  BY LedgerTypeInit
<1>3. EngineInv /\ UpstreamInv /\ PipelineInv
  BY <1>1 DEF ShareLedgerInit, EngineInv, UpstreamInv, PipelineInv
<1>4. OracleInv /\ WalletInv
  BY <1>1 DEF ShareLedgerInit, OracleInv, WalletInv, InBuffer, InBatch
<1> QED
  BY <1>2, <1>3, <1>4 DEF LedgerInv

\* Every step keeps the invariant.
LEMMA LedgerStep == LedgerInv /\ [ShareLedgerNext]_slVars => LedgerInv'
<1> SUFFICES ASSUME LedgerInv, [ShareLedgerNext]_slVars PROVE LedgerInv'
  OBVIOUS
<1>1. ASSUME NEW s \in Shares, SubmitShare(s) PROVE LedgerInv'
  BY <1>1, LedgerSubmit
<1>2. CASE EngineStep
  <2>1. CASE RecordShare
    BY <2>1, LedgerRecord
  <2>2. ASSUME NEW w \in Workers, Visit(w) PROVE LedgerInv'
    BY <2>2, LedgerFlushOnline, LedgerFlushOffline DEF Visit
  <2>3. CASE RedisExecutes
    BY <2>3, LedgerCommand
  <2>4. CASE EngineConnect \/ FlushTick \/ FlushDone \/ PipelineFails \/ Resume
    BY <2>4, LedgerEngineRest
  <2> QED
    BY <1>2, <2>1, <2>2, <2>3, <2>4 DEF EngineStep
<1>3. CASE OracleStep
  BY <1>3, LedgerOracle
<1>4. CASE Crash
  BY <1>4, LedgerCrash
<1>5. CASE UNCHANGED slVars
  <2>1. ShareLedgerTypeOK'
    BY <1>5, TypeCrash DEF LedgerInv
  <2>2. UNCHANGED <<accepted, channel, engine, known, unflushed, idle, todo, pipeline, wallet,
                   share_buffer, oracle, batch, txYield, txTax, yield, tax>>
    BY <1>5 DEF slVars, intakeVars, engineVars, redisVars, oracleVars, postgresVars
  <2> QED
    BY <2>1, <2>2, EngineFrame, UpstreamFrame, PipelineFrame, OracleFrame, WalletFrame
       DEF LedgerInv
<1> QED
  BY <1>1, <1>2, <1>3, <1>4, <1>5 DEF ShareLedgerNext

\* The invariant holds in every reachable state, whatever fails.
THEOREM LedgerInvariant == ShareLedgerSpec => []LedgerInv
BY LedgerInit, LedgerStep, PTL DEF ShareLedgerSpec

\* Every variable has its type.
THEOREM LedgerTypeCorrect == ShareLedgerSpec => []ShareLedgerTypeOK
<1>1. LedgerInv => ShareLedgerTypeOK
  BY DEF LedgerInv
<1> QED
  BY <1>1, LedgerInvariant, PTL

\* Crashes, failed pipelines and repeated flushes credit no share twice.
THEOREM CreditedOnce == ShareLedgerSpec => []WalletCreditedOnce
<1>1. LedgerInv => WalletCreditedOnce
  BY DEF LedgerInv, WalletInv, WalletCreditedOnce
<1> QED
  BY <1>1, LedgerInvariant, PTL

\* The oracle never has a share whose wallet was not credited.
THEOREM WalletFirst == ShareLedgerSpec => []WalletCoversOracle
<1>1. LedgerInv => WalletCoversOracle
  BY Members DEF LedgerInv, WalletInv, WalletCoversOracle, ShareLedgerTypeOK, InBuffer,
     InBatch, Paid
<1> QED
  BY <1>1, LedgerInvariant, PTL

\* yield_reservoirs and tax_ledger_events tell the same.
THEOREM TaxedAsYielded == ShareLedgerSpec => []YieldMatchesTax
<1>1. LedgerInv => YieldMatchesTax
  BY DEF LedgerInv, WalletInv, YieldMatchesTax
<1> QED
  BY <1>1, LedgerInvariant, PTL

---------------------------------------------------------------------------
(* A share is paid once, unless an LTRIM is lost *)

\* Steps that move no share downstream; the pipeline may be lost.
LEMMA DownstreamFrame ==
  ASSUME DownstreamInv, pipeline' \in {pipeline, <<>>},
         UNCHANGED <<share_buffer, batch, yield>>, oracle = "read" => oracle' = "read"
  PROVE  DownstreamInv'
<1>1. InBuffer' = InBuffer /\ InBatch' = InBatch
  BY DEF InBuffer, InBatch
<1>2. CASE pipeline' = pipeline
  BY <1>1, <1>2 DEF DownstreamInv
<1>3. CASE pipeline' = <<>>
  BY <1>1, <1>3 DEF DownstreamInv
<1> QED
  BY <1>2, <1>3

\* Of a command that was only queued, the share is not downstream yet.
LEMMA UpstreamIsNew ==
  ASSUME LedgerInv, NEW s \in Shares, wallet[s] = 0
  PROVE  s \notin InBuffer /\ s \notin InBatch /\ yield[s] = 0
<1>1. yield[s] \in Nat
  BY DEF LedgerInv, ShareLedgerTypeOK
<1> QED
  BY <1>1 DEF LedgerInv, WalletInv

\* The list of a worker is queued: its shares are pushed once each.
LEMMA DownstreamFlushOnline ==
  ASSUME LedgerInv, DownstreamInv, NEW w \in Workers, FlushOnline(w)
  PROVE  DownstreamInv'
<1> DEFINE list == unflushed[w]
           L == Len(pipeline)
<1>1. UNCHANGED <<share_buffer, batch, yield, oracle>>
  BY DEF FlushOnline, redisVars, oracleVars, postgresVars
<1>2. CASE list = <<>>
  <2>1. pipeline' = pipeline
    BY <1>2 DEF FlushOnline
  <2> QED
    BY <1>1, <2>1, DownstreamFrame
<1>3. CASE list # <<>>
  <2>1. ShareLedgerTypeOK
    BY DEF LedgerInv
  <2>2. /\ Len(list) \in Nat /\ L \in Nat /\ Len(pipeline') = L + Len(list) + 2
        /\ \A i \in 1 .. L : pipeline'[i] = pipeline[i]
        /\ pipeline'[L + 1].op = "credit" /\ pipeline'[L + 2].op = "roster"
        /\ \A i \in L + 3 .. L + Len(list) + 2 :
             /\ i - L - 2 \in 1 .. Len(list)
             /\ pipeline'[i].shares = {list[i - L - 2]}
    BY <1>3, <2>1, QueuedCommands
  <2>3. /\ list \in Seq(Shares) /\ IsInjective(list)
        /\ \A s \in Range(list) : WorkerOf[s] = w /\ wallet[s] = 0
    BY DEF LedgerInv, ShareLedgerTypeOK, UpstreamInv
  <2>4. /\ \A i \in 1 .. Len(list) : list[i] \in Range(list) /\ list[i] \in Shares
        /\ \A i, j \in 1 .. Len(list) : list[i] = list[j] => i = j
    BY <2>3, Members
  <2>5. \A i \in 1 .. L : \A s \in pipeline[i].shares : s \notin Range(list)
    BY <2>3 DEF LedgerInv, PipelineInv, CommandInv
  <2>6. \A i \in 1 .. Len(list) :
          list[i] \notin InBuffer /\ list[i] \notin InBatch /\ yield[list[i]] = 0
    BY <2>3, <2>4, UpstreamIsNew
  <2>7. \A i \in 1 .. L : \A s \in pipeline[i].shares :
          pipeline[i].op = "push" =>
            /\ \A j \in 1 .. L : pipeline[j].op = "push" /\ s \in pipeline[j].shares => i = j
            /\ s \notin InBuffer /\ s \notin InBatch /\ yield[s] = 0
    BY DEF DownstreamInv
  <2>8. InBuffer' = InBuffer /\ InBatch' = InBatch /\ yield' = yield
    BY <1>1 DEF InBuffer, InBatch
  <2> HIDE DEF list, L
  <2>9. \A i \in 1 .. Len(pipeline') :
          pipeline'[i].op = "push" => i \in 1 .. L \/ i \in L + 3 .. L + Len(list) + 2
    <3>1. \A i \in 1 .. Len(pipeline') :
            i \in 1 .. L \/ i = L + 1 \/ i = L + 2 \/ i \in L + 3 .. L + Len(list) + 2
      BY <2>2
    <3> QED
      BY <2>2, <3>1
  <2>10. ASSUME NEW i \in 1 .. Len(pipeline'), NEW s \in pipeline'[i].shares,
                pipeline'[i].op = "push"
         PROVE  /\ \A j \in 1 .. Len(pipeline') :
                     pipeline'[j].op = "push" /\ s \in pipeline'[j].shares => i = j
                /\ s \notin InBuffer' /\ s \notin InBatch' /\ yield'[s] = 0
    <3>1. CASE i \in 1 .. L
      <4>1. s \in pipeline[i].shares /\ pipeline[i].op = "push"
        BY <2>2, <2>10, <3>1
      <4>2. ASSUME NEW j \in L + 3 .. L + Len(list) + 2, s \in pipeline'[j].shares PROVE FALSE
        <5>1. s \in Range(list)
          BY <2>2, <2>4, <4>2
        <5> QED
          BY <2>5, <3>1, <4>1, <5>1
      <4>3. \A j \in 1 .. L : pipeline'[j].op = "push" /\ s \in pipeline'[j].shares => i = j
        BY <2>2, <2>7, <3>1, <4>1
      <4> QED
        BY <2>7, <2>8, <2>9, <3>1, <4>1, <4>2, <4>3
    <3>2. CASE i \in L + 3 .. L + Len(list) + 2
      <4>1. i - L - 2 \in 1 .. Len(list) /\ s = list[i - L - 2]
        BY <2>2, <2>10, <3>2
      <4>2. ASSUME NEW j \in 1 .. L, s \in pipeline'[j].shares PROVE FALSE
        BY <2>2, <2>4, <2>5, <4>1, <4>2
      <4>3. ASSUME NEW j \in L + 3 .. L + Len(list) + 2, s \in pipeline'[j].shares PROVE i = j
        <5>1. j - L - 2 \in 1 .. Len(list) /\ s = list[j - L - 2]
          BY <2>2, <4>3
        <5>2. i - L - 2 = j - L - 2
          BY <2>4, <4>1, <5>1
        <5> QED
          BY <2>2, <3>2, <5>2
      <4> QED
        BY <2>6, <2>8, <2>9, <4>1, <4>2, <4>3
    <3> QED
      BY <2>9, <2>10, <3>1, <3>2
  <2> QED
    BY <1>1, <2>8, <2>10 DEF DownstreamInv
<1> QED
  BY <1>2, <1>3

\* The command that drops a worker pushes nothing.
LEMMA DownstreamFlushOffline ==
  ASSUME LedgerInv, DownstreamInv, NEW w \in Workers, FlushOffline(w)
  PROVE  DownstreamInv'
<1> DEFINE L == Len(pipeline)
<1>1. UNCHANGED <<share_buffer, batch, yield, oracle>>
  BY DEF FlushOffline, redisVars, oracleVars, postgresVars
<1>2. /\ L \in Nat /\ Len(pipeline') = L + 1
      /\ \A i \in 1 .. L : pipeline'[i] = pipeline[i]
      /\ pipeline'[L + 1].shares = {}
  <2>1. Cmd("unroster", w, {}) \in Command /\ Cmd("unroster", w, {}).shares = {}
    BY DEF Cmd, Command
  <2> QED
    BY <2>1, AppendQueue, Members DEF FlushOffline, LedgerInv, ShareLedgerTypeOK
<1>3. InBuffer' = InBuffer /\ InBatch' = InBatch
  BY <1>1 DEF InBuffer, InBatch
<1>4. \A i \in 1 .. L : \A s \in pipeline[i].shares :
        pipeline[i].op = "push" =>
          /\ \A j \in 1 .. L : pipeline[j].op = "push" /\ s \in pipeline[j].shares => i = j
          /\ s \notin InBuffer /\ s \notin InBatch /\ yield[s] = 0
  BY DEF DownstreamInv
<1> HIDE DEF L
<1>5. \A i \in 1 .. Len(pipeline') : \A s \in pipeline'[i].shares :
        i \in 1 .. L /\ s \in pipeline[i].shares /\ pipeline'[i] = pipeline[i]
  BY <1>2
<1>6. ASSUME NEW i \in 1 .. Len(pipeline'), NEW s \in pipeline'[i].shares,
             pipeline'[i].op = "push"
      PROVE  /\ \A j \in 1 .. Len(pipeline') :
                  pipeline'[j].op = "push" /\ s \in pipeline'[j].shares => i = j
             /\ s \notin InBuffer' /\ s \notin InBatch' /\ yield'[s] = 0
  BY <1>1, <1>3, <1>4, <1>5, <1>6
<1> QED
  BY <1>1, <1>3, <1>6 DEF DownstreamInv

\* Redis executes a command: a pushed share enters the buffer, once.
LEMMA DownstreamCommand ==
  ASSUME LedgerInv, DownstreamInv, RedisExecutes
  PROVE  DownstreamInv'
<1>1. ShareLedgerTypeOK /\ PipelineInv
  BY DEF LedgerInv
<1>2. /\ Len(pipeline) \in Nat /\ Len(pipeline) >= 1 /\ 1 \in 1 .. Len(pipeline)
      /\ pipeline[1] \in Command /\ Len(pipeline') = Len(pipeline) - 1
      /\ \A i \in 1 .. Len(pipeline') :
           i + 1 \in 1 .. Len(pipeline) /\ i + 1 # 1 /\ pipeline'[i] = pipeline[i + 1]
  BY <1>1, TakeCommand
<1>3. UNCHANGED <<oracle, batch, yield>> /\ InBatch' = InBatch
  BY <1>1, CommandEffect DEF InBatch
<1>4. \/ share_buffer' = share_buffer
      \/ /\ pipeline[1].op = "push"
         /\ \E s \in Shares : /\ pipeline[1].shares = {s}
                              /\ share_buffer' = Append(share_buffer, s)
  BY <1>1, <1>2, CommandEffect DEF Command
<1>5. \A i, j \in 1 .. Len(pipeline') : i + 1 = j + 1 => i = j
  BY <1>2
<1>6. ASSUME NEW i \in 1 .. Len(pipeline'), NEW s \in pipeline'[i].shares,
             pipeline'[i].op = "push"
      PROVE  /\ \A j \in 1 .. Len(pipeline') :
                  pipeline'[j].op = "push" /\ s \in pipeline'[j].shares => i = j
             /\ s \notin InBuffer' /\ s \notin InBatch' /\ yield'[s] = 0
  <2>1. /\ i + 1 \in 1 .. Len(pipeline) /\ s \in pipeline[i + 1].shares
        /\ pipeline[i + 1].op = "push"
    BY <1>2, <1>6
  <2>2. /\ \A j \in 1 .. Len(pipeline) :
             pipeline[j].op = "push" /\ s \in pipeline[j].shares => i + 1 = j
        /\ s \notin InBuffer /\ s \notin InBatch /\ yield[s] = 0
    BY <2>1 DEF DownstreamInv
  <2>3. \A j \in 1 .. Len(pipeline') :
          pipeline'[j].op = "push" /\ s \in pipeline'[j].shares => i + 1 = j + 1
    BY <1>2, <2>2
  <2>4. s \notin InBuffer'
    <3>1. CASE share_buffer' = share_buffer
      BY <2>2, <3>1 DEF InBuffer
    <3>2. ASSUME NEW t \in Shares, pipeline[1].op = "push", pipeline[1].shares = {t},
                 share_buffer' = Append(share_buffer, t)
          PROVE  s \notin InBuffer'
      <4>1. t # s
        BY <1>2, <2>2, <3>2
      <4>2. Range(share_buffer') = Range(share_buffer) \cup {t}
        BY <1>1, <3>2, AppendQueue DEF ShareLedgerTypeOK
      <4> QED
        BY <2>2, <4>1, <4>2 DEF InBuffer
    <3> QED
      BY <1>4, <3>1, <3>2
  <2> QED
    BY <1>3, <1>5, <2>2, <2>3, <2>4
<1>7. CASE share_buffer' = share_buffer
  <2>1. InBuffer' = InBuffer
    BY <1>7 DEF InBuffer
  <2> QED
    BY <1>3, <1>6, <1>7, <2>1 DEF DownstreamInv
<1>8. ASSUME NEW t \in Shares, pipeline[1].op = "push", pipeline[1].shares = {t},
             share_buffer' = Append(share_buffer, t)
      PROVE  DownstreamInv'
  <2>1. t \notin InBuffer /\ t \notin InBatch /\ yield[t] = 0
    BY <1>2, <1>8 DEF DownstreamInv
  <2>2. InBuffer' = InBuffer \cup {t} /\ IsInjective(share_buffer')
    BY <1>1, <1>8, <2>1, AppendQueue DEF ShareLedgerTypeOK, DownstreamInv, InBuffer
  <2>3. IsInjective(batch')
    BY <1>3 DEF DownstreamInv
  <2> QED
    BY <1>3, <1>6, <2>1, <2>2, <2>3 DEF DownstreamInv
<1> QED
  BY <1>4, <1>7, <1>8

\* The batch is forgotten: it was paid, or lost.
LEMMA DownstreamForget ==
  ASSUME DownstreamInv, batch' = <<>>, pipeline' \in {pipeline, <<>>},
         UNCHANGED <<share_buffer, yield>>
  PROVE  DownstreamInv'
<1>1. InBuffer' = InBuffer /\ InBatch' = {} /\ IsInjective(batch')
  BY EmptyQueue DEF InBuffer, InBatch
<1>2. CASE pipeline' = pipeline
  BY <1>1, <1>2 DEF DownstreamInv
<1>3. CASE pipeline' = <<>>
  BY <1>1, <1>3 DEF DownstreamInv
<1> QED
  BY <1>2, <1>3

\* What LRANGE reads is the start of the list, each share once.
LEMMA DownstreamRead ==
  ASSUME LedgerInv, DownstreamInv, ReadBatch
  PROVE  DownstreamInv'
<1> DEFINE n == IF Len(share_buffer) < BatchMax THEN Len(share_buffer) ELSE BatchMax
<1>1. /\ oracle' = "read" /\ batch' = SubSeq(share_buffer, 1, n)
      /\ UNCHANGED <<pipeline, share_buffer, yield>>
  BY DEF ReadBatch, engineVars, redisVars, postgresVars
<1>2. share_buffer \in Seq(Shares) /\ IsInjective(share_buffer)
  BY DEF LedgerInv, ShareLedgerTypeOK, DownstreamInv
<1>3. n \in 0 .. Len(share_buffer)
  BY <1>2, Members, ShareLedgerAssumption
<1> HIDE DEF n
<1>4. IsInjective(batch')
  BY <1>1, <1>2, <1>3, SplitQueue
<1>5. Range(share_buffer) = Range(SubSeq(share_buffer, 1, n))
        \cup Range(SubSeq(share_buffer, n + 1, Len(share_buffer)))
  BY <1>2, <1>3, SplitQueue
<1>6. InBatch' \subseteq InBuffer /\ InBuffer' = InBuffer
  BY <1>1, <1>5 DEF InBatch, InBuffer
<1> QED
  BY <1>1, <1>4, <1>6 DEF DownstreamInv

\* LTRIM leaves what comes after the batch.
LEMMA CutBatch ==
  ASSUME LedgerInv, TrimBatch, "ltrim" \notin Faults
  PROVE  /\ oracle = "read" /\ oracle' = "trimmed"
         /\ share_buffer = batch \o share_buffer'
         /\ Range(share_buffer) = Range(batch) \cup Range(share_buffer')
         /\ IsInjective(share_buffer) =>
              IsInjective(share_buffer') /\ Range(batch) \cap Range(share_buffer') = {}
         /\ UNCHANGED <<pipeline, batch, yield, tax>>
<1> DEFINE n == Len(batch)
<1>1. /\ oracle = "read" /\ oracle' = "trimmed"
      /\ share_buffer' = SubSeq(share_buffer, n + 1, Len(share_buffer))
      /\ UNCHANGED <<pipeline, batch, yield, tax>>
  BY DEF TrimBatch, engineVars, postgresVars
<1>2. share_buffer \in Seq(Shares) /\ batch \in Seq(Shares)
  BY DEF LedgerInv, ShareLedgerTypeOK
<1>3. n \in 0 .. Len(share_buffer) /\ batch = SubSeq(share_buffer, 1, n)
  BY <1>1, <1>2, Members DEF LedgerInv, OracleInv
<1> HIDE DEF n
<1>4. share_buffer = SubSeq(share_buffer, 1, n) \o SubSeq(share_buffer, n + 1, Len(share_buffer))
  BY <1>2, <1>3, SplitQueue
<1>5. Range(share_buffer) = Range(SubSeq(share_buffer, 1, n))
        \cup Range(SubSeq(share_buffer, n + 1, Len(share_buffer)))
  BY <1>2, <1>3, SplitQueue
<1>6. IsInjective(share_buffer) =>
        /\ IsInjective(SubSeq(share_buffer, n + 1, Len(share_buffer)))
        /\ Range(SubSeq(share_buffer, 1, n))
             \cap Range(SubSeq(share_buffer, n + 1, Len(share_buffer))) = {}
  BY <1>2, <1>3, SplitQueue
<1> QED
  BY <1>1, <1>3, <1>4, <1>5, <1>6

\* A committed batch is paid: nothing of it was, and nothing of it remains.
LEMMA DownstreamCommit ==
  ASSUME LedgerInv, DownstreamInv, Commit
  PROVE  DownstreamInv'
<1>1. /\ oracle = "stamped" /\ yield' = Plus(yield, txYield) /\ batch' = <<>>
      /\ UNCHANGED <<pipeline, share_buffer>>
  BY DEF Commit, ForgetBatch, engineVars, redisVars
<1>2. /\ yield \in [Shares -> Nat] /\ txYield \subseteq InBatch /\ txYield \subseteq Shares
      /\ pipeline \in Seq(Command)
  BY DEF LedgerInv, ShareLedgerTypeOK, OracleInv, InBatch
<1>3. /\ \A s \in Shares : s \notin txYield => yield'[s] = yield[s]
      /\ \A s \in Shares : s \in txYield /\ yield[s] = 0 => yield'[s] = 1
  BY <1>1, <1>2, PlusLemma
<1>4. /\ InBuffer' = InBuffer /\ InBatch' = {} /\ IsInjective(batch')
  BY <1>1, EmptyQueue DEF InBuffer, InBatch
<1>5. \A s \in Shares : s \in txYield => yield[s] = 0 /\ s \notin InBuffer
  BY <1>1, <1>2 DEF DownstreamInv
<1>6. \A s \in Shares : yield'[s] <= 1
  BY <1>3, <1>5 DEF DownstreamInv
<1>7. \A i \in 1 .. Len(pipeline) : pipeline[i].shares \subseteq Shares
  <2>1. \A i \in 1 .. Len(pipeline) : pipeline[i] \in Command
    BY <1>2, Members
  <2> QED
    BY <2>1 DEF Command
<1>8. \A i \in 1 .. Len(pipeline) : \A s \in pipeline[i].shares :
        pipeline[i].op = "push" =>
          /\ \A j \in 1 .. Len(pipeline) :
               pipeline[j].op = "push" /\ s \in pipeline[j].shares => i = j
          /\ s \notin InBuffer /\ s \notin InBatch /\ yield'[s] = 0
  BY <1>2, <1>3, <1>7 DEF DownstreamInv
<1>9. \A s \in Shares : s \in InBuffer => yield'[s] = 0
  BY <1>3, <1>5 DEF DownstreamInv
<1>10. IsInjective(share_buffer)
  BY DEF DownstreamInv
<1> QED
  BY <1>1, <1>4, <1>6, <1>8, <1>9, <1>10 DEF DownstreamInv

\* The invariant of the way after the credit holds initially.
LEMMA DownstreamInit == ShareLedgerInit => DownstreamInv
<1>1. Range(<<>>) = {} /\ IsInjective(<<>>)
  BY EmptyQueue
<1> QED
  BY <1>1 DEF ShareLedgerInit, DownstreamInv, InBuffer, InBatch

\* Every step keeps it, if LTRIM is not lost.
LEMMA DownstreamStep ==
  ASSUME "ltrim" \notin Faults, LedgerInv, DownstreamInv, [ShareLedgerNext]_slVars
  PROVE  DownstreamInv'
<1> USE DEF intakeVars, engineVars, redisVars, oracleVars, postgresVars
<1>1. ASSUME NEW s \in Shares, SubmitShare(s) PROVE DownstreamInv'
  BY <1>1, DownstreamFrame DEF SubmitShare
<1>2. CASE EngineStep
  <2>1. ASSUME NEW w \in Workers, Visit(w) PROVE DownstreamInv'
    BY <2>1, DownstreamFlushOnline, DownstreamFlushOffline DEF Visit
  <2>2. CASE RedisExecutes
    BY <2>2, DownstreamCommand
  <2>3. CASE EngineConnect \/ RecordShare \/ FlushTick \/ FlushDone \/ PipelineFails \/ Resume
    <3>1. pipeline' \in {pipeline, <<>>} /\ UNCHANGED <<share_buffer, batch, yield, oracle>>
      BY <2>3 DEF EngineConnect, RecordShare, FlushTick, FlushDone, PipelineFails, Resume
    <3> QED
      BY <3>1, DownstreamFrame
  <2> QED
    BY <1>2, <2>1, <2>2, <2>3 DEF EngineStep
<1>3. CASE OracleStep
  <2>1. CASE OracleConnect \/ BeginTransaction \/ UpsertYield \/ StampTax
    BY <2>1, DownstreamFrame DEF OracleConnect, BeginTransaction, UpsertYield, StampTax
  <2>2. CASE ReadBatch
    BY <2>2, DownstreamRead
  <2>3. CASE TrimBatch
    <3>1. /\ oracle' # "read" /\ UNCHANGED <<pipeline, batch, yield>>
          /\ InBuffer' \subseteq InBuffer /\ InBatch' = InBatch
          /\ IsInjective(share_buffer) => IsInjective(share_buffer') /\ InBatch \cap InBuffer' = {}
      BY <2>3, CutBatch DEF InBuffer, InBatch
    <3> QED
      BY <3>1 DEF DownstreamInv
  <2>4. CASE SkipBatch \/ Rollback
    BY <2>4, DownstreamForget DEF SkipBatch, Rollback, ForgetBatch
  <2>5. CASE Commit
    BY <2>5, DownstreamCommit
  <2> QED
    BY <1>3, <2>1, <2>2, <2>3, <2>4, <2>5 DEF OracleStep
<1>4. CASE Crash
  BY <1>4, DownstreamForget DEF Crash
<1>5. CASE UNCHANGED slVars
  BY <1>5, DownstreamFrame DEF slVars
<1> QED
  BY <1>1, <1>2, <1>3, <1>4, <1>5 DEF ShareLedgerNext

\* Both halves of the invariant hold in every reachable state, if LTRIM is not lost.
THEOREM DownstreamInvariant ==
  ASSUME "ltrim" \notin Faults
  PROVE  ShareLedgerSpec => [](LedgerInv /\ DownstreamInv)
<1>1. ShareLedgerInit => LedgerInv /\ DownstreamInv
  BY LedgerInit, DownstreamInit
<1>2. LedgerInv /\ DownstreamInv /\ [ShareLedgerNext]_slVars => (LedgerInv /\ DownstreamInv)'
  BY LedgerStep, DownstreamStep
<1> QED
  BY <1>1, <1>2, PTL DEF ShareLedgerSpec

\* A share is paid once, whatever crashes, fails or is tried again, if LTRIM
\* does what it is told.
THEOREM SharePaidOnce ==
  ASSUME "ltrim" \notin Faults
  PROVE  ShareLedgerSpec => []PaidOnce
<1>1. DownstreamInv => PaidOnce
  BY DEF DownstreamInv, PaidOnce
<1> QED
  BY <1>1, DownstreamInvariant, PTL

\* The list may grow between LRANGE and LTRIM: LTRIM cuts off what was read.
THEOREM TrimCutsWhatWasRead ==
  ASSUME "ltrim" \notin Faults
  PROVE  ShareLedgerSpec => TrimCutsBatch
<1>1. LedgerInv /\ [ShareLedgerNext]_slVars
        => [oracle = "read" /\ oracle' = "trimmed" => share_buffer = batch \o share_buffer']_slVars
  <2> SUFFICES ASSUME LedgerInv, ShareLedgerNext, oracle = "read", oracle' = "trimmed"
               PROVE  TrimBatch
    BY CutBatch
  <2> QED
    BY DEF ShareLedgerNext, EngineStep, OracleStep, SubmitShare, EngineConnect, RecordShare,
       FlushTick, Visit, FlushOnline, FlushOffline, RedisExecutes, FlushDone, PipelineFails,
       Resume, OracleConnect, ReadBatch, BeginTransaction, SkipBatch, UpsertYield, StampTax,
       Commit, Rollback, ForgetBatch, Crash, oracleVars
<1> QED
  BY <1>1, LedgerInvariant, PTL DEF ShareLedgerSpec, TrimCutsBatch

\* Without a crash, and with a clock that is not set forward, a worker goes offline
\* only after all its shares were flushed.
THEOREM OfflineAfterFlush ==
  ASSUME Faults \cap {"crash", "clock"} = {}
  PROVE  ShareLedgerSpec => OfflineLosesNothing
<1>1. LedgerInv /\ [ShareLedgerNext]_slVars
        => [\A w \in known : w \notin known' => unflushed[w] = <<>>]_slVars
  <2> SUFFICES ASSUME LedgerInv, ShareLedgerNext, NEW w \in known, w \notin known'
               PROVE  unflushed[w] = <<>>
    OBVIOUS
  <2>1. PICK v \in Workers : FlushOffline(v)
    BY DEF ShareLedgerNext, EngineStep, OracleStep, SubmitShare, EngineConnect, RecordShare,
       FlushTick, Visit, FlushOnline, RedisExecutes, FlushDone, PipelineFails, Resume,
       OracleConnect, ReadBatch, TrimBatch, BeginTransaction, SkipBatch, UpsertYield, StampTax,
       Commit, Rollback, Crash, engineVars
  <2>2. w = v /\ idle[v] >= IdleFlushes
    BY <2>1 DEF FlushOffline, MayGoOffline
  <2>3. idle[v] > 0
    BY <2>2, ShareLedgerAssumption DEF LedgerInv, ShareLedgerTypeOK
  <2> QED
    BY <2>2, <2>3 DEF LedgerInv, EngineInv
<1> QED
  BY <1>1, LedgerInvariant, PTL DEF ShareLedgerSpec, OfflineLosesNothing

---------------------------------------------------------------------------
(* ShareLedger implements ShareAccount, unless an LTRIM is lost *)

\* The places that hold a share.
Pushing(s) ==
  \E i \in 1 .. Len(pipeline) : pipeline[i].op = "push" /\ s \in pipeline[i].shares

HeldAt(s) ==
  \/ s \in Range(channel)
  \/ \E w \in Workers : s \in Range(unflushed[w])
  \/ Pushing(s)
  \/ s \in InBuffer
  \/ s \in InBatch

\* They are what Held is made of.
LEMMA HeldPlaces ==
  ASSUME ShareLedgerTypeOK, NEW s
  PROVE  s \in Held <=> HeldAt(s)
<1>1. s \in InEngine <=> \E w \in Workers : s \in Range(unflushed[w])
  BY DEF InEngine
<1>2. s \in InPipeline <=> Pushing(s)
  <2>1. \A c : c \in Range(pipeline) <=> \E i \in 1 .. Len(pipeline) : pipeline[i] = c
    BY Members DEF ShareLedgerTypeOK
  <2> QED
    BY <2>1 DEF InPipeline, Pushing
<1> QED
  BY <1>1, <1>2 DEF Held, HeldAt

\* A share that is held anywhere was accepted.
LEMMA HeldIsAccepted ==
  ASSUME LedgerInv, NEW s \in Shares, HeldAt(s)
  PROVE  s \in accepted
<1>1. ASSUME Pushing(s) PROVE s \in accepted
  BY <1>1 DEF Pushing, LedgerInv, PipelineInv, CommandInv
<1>2. s \in InBuffer \/ s \in InBatch => s \in accepted
  BY DEF LedgerInv, WalletInv
<1> QED
  BY <1>1, <1>2 DEF HeldAt, LedgerInv, UpstreamInv

\* Steps after which every place holds what it held, or less.
LEMMA HeldFrame ==
  ASSUME Range(channel') \subseteq Range(channel),
         \A w \in Workers : Range(unflushed'[w]) \subseteq Range(unflushed[w]),
         pipeline' \in {pipeline, <<>>},
         InBuffer' \subseteq InBuffer, InBatch' \subseteq InBuffer \cup InBatch,
         NEW s, HeldAt(s)'
  PROVE  HeldAt(s)
<1>1. ASSUME Pushing(s)' PROVE Pushing(s)
  <2>1. pipeline' # <<>>
    <3>1. pipeline' = <<>> => Len(pipeline') = 0
      BY EmptyQueue
    <3> QED
      BY <1>1, <3>1 DEF Pushing
  <2> QED
    BY <1>1, <2>1 DEF Pushing
<1> QED
  BY <1>1 DEF HeldAt

\* A share gets into the engine's list out of the channel.
LEMMA HeldRecord ==
  ASSUME LedgerInv, RecordShare, NEW s, HeldAt(s)'
  PROVE  HeldAt(s)
<1> DEFINE h == Head(channel)
           w == WorkerOf[h]
<1>1. /\ channel # <<>> /\ channel' = Tail(channel)
      /\ unflushed' = [unflushed EXCEPT ![w] = Append(@, h)]
      /\ UNCHANGED <<pipeline, share_buffer, batch>>
  BY DEF RecordShare, redisVars, oracleVars
<1>2. channel \in Seq(Shares) /\ unflushed \in [Workers -> Seq(Shares)]
  BY DEF LedgerInv, ShareLedgerTypeOK
<1>3. h \in Shares /\ Range(channel) = Range(channel') \cup {h}
  BY <1>1, <1>2, TakeQueue
<1>4. w \in Workers
  BY <1>3, ShareLedgerAssumption
<1> HIDE DEF h, w
<1>5. \A v \in Workers : Range(unflushed'[v]) \subseteq Range(unflushed[v]) \cup {h}
  <2>1. Range(Append(unflushed[w], h)) = Range(unflushed[w]) \cup {h}
    BY <1>2, <1>3, <1>4, AppendQueue
  <2>2. /\ unflushed'[w] = Append(unflushed[w], h)
        /\ \A v \in Workers \ {w} : unflushed'[v] = unflushed[v]
    BY <1>1, <1>2, <1>4
  <2> QED
    BY <2>1, <2>2
<1>6. (Pushing(s)' => Pushing(s)) /\ InBuffer' = InBuffer /\ InBatch' = InBatch
  BY <1>1 DEF Pushing, InBuffer, InBatch
<1> QED
  BY <1>3, <1>5, <1>6 DEF HeldAt

\* A share gets into the pipeline out of its worker's list.
LEMMA HeldFlush ==
  ASSUME LedgerInv, NEW w \in Workers, FlushOnline(w) \/ FlushOffline(w), NEW s, HeldAt(s)'
  PROVE  HeldAt(s)
<1> DEFINE list == unflushed[w]
           L == Len(pipeline)
<1>1. /\ unflushed' = [unflushed EXCEPT ![w] = <<>>]
      /\ UNCHANGED <<channel, share_buffer, batch>>
  BY DEF FlushOnline, FlushOffline, intakeVars, redisVars, oracleVars
<1>2. ShareLedgerTypeOK /\ unflushed \in [Workers -> Seq(Shares)] /\ list \in Seq(Shares)
  BY DEF LedgerInv, ShareLedgerTypeOK
<1>3. \A v \in Workers : Range(unflushed'[v]) \subseteq Range(unflushed[v])
  <2>1. Range(<<>>) = {}
    BY EmptyQueue
  <2> QED
    BY <1>1, <1>2, <2>1
<1>4. ASSUME Pushing(s)' PROVE Pushing(s) \/ s \in Range(list)
  <2>0. PICK i \in 1 .. Len(pipeline') : pipeline'[i].op = "push" /\ s \in pipeline'[i].shares
    BY <1>4 DEF Pushing
  <2>1. CASE FlushOnline(w) /\ list # <<>>
    <3>1. /\ Len(list) \in Nat /\ L \in Nat /\ Len(pipeline') = L + Len(list) + 2
          /\ \A j \in 1 .. L : pipeline'[j] = pipeline[j]
          /\ pipeline'[L + 1].op = "credit" /\ pipeline'[L + 2].op = "roster"
          /\ \A j \in L + 3 .. L + Len(list) + 2 :
               /\ j - L - 2 \in 1 .. Len(list)
               /\ pipeline'[j].shares = {list[j - L - 2]}
      BY <1>2, <2>1, QueuedCommands
    <3>2. \A j \in 1 .. Len(list) : list[j] \in Range(list)
      BY <1>2, Members
    <3> HIDE DEF list, L
    <3>3. i \in 1 .. L \/ i = L + 1 \/ i = L + 2 \/ i \in L + 3 .. L + Len(list) + 2
      BY <3>1
    <3>4. i # L + 1 /\ i # L + 2
      BY <2>0, <3>1
    <3>5. CASE i \in 1 .. L
      BY <2>0, <3>1, <3>5 DEF Pushing, L
    <3>6. CASE i \in L + 3 .. L + Len(list) + 2
      BY <2>0, <3>1, <3>2, <3>6
    <3> QED
      BY <3>3, <3>4, <3>5, <3>6
  <2>2. CASE FlushOnline(w) /\ list = <<>>
    BY <2>0, <2>2 DEF FlushOnline, Pushing
  <2>3. CASE FlushOffline(w)
    <3>1. Cmd("unroster", w, {}) \in Command /\ Cmd("unroster", w, {}).op = "unroster"
      BY DEF Cmd, Command
    <3>2. /\ L \in Nat /\ Len(pipeline') = L + 1
          /\ \A j \in 1 .. L : pipeline'[j] = pipeline[j]
          /\ pipeline'[L + 1] = Cmd("unroster", w, {})
      BY <1>2, <2>3, <3>1, AppendQueue, Members DEF FlushOffline, ShareLedgerTypeOK
    <3> HIDE DEF L
    <3>3. i # L + 1
      BY <2>0, <3>1, <3>2
    <3>4. i \in 1 .. L
      BY <3>2, <3>3
    <3> QED
      BY <2>0, <3>2, <3>4 DEF Pushing, L
  <2> QED
    BY <2>1, <2>2, <2>3
<1>5. InBuffer' = InBuffer /\ InBatch' = InBatch
  BY <1>1 DEF InBuffer, InBatch
<1> QED
  BY <1>1, <1>3, <1>4, <1>5 DEF HeldAt

\* A share gets into the buffer out of the pipeline.
LEMMA HeldCommand ==
  ASSUME LedgerInv, RedisExecutes, NEW s, HeldAt(s)'
  PROVE  HeldAt(s)
<1>1. ShareLedgerTypeOK /\ PipelineInv /\ share_buffer \in Seq(Shares)
  BY DEF LedgerInv, ShareLedgerTypeOK
<1>2. /\ 1 \in 1 .. Len(pipeline) /\ pipeline[1] \in Command
      /\ \A i \in 1 .. Len(pipeline') :
           i + 1 \in 1 .. Len(pipeline) /\ pipeline'[i] = pipeline[i + 1]
  BY <1>1, TakeCommand
<1>3. Pushing(s)' => Pushing(s)
  BY <1>2 DEF Pushing
<1>4. UNCHANGED <<channel, unflushed>> /\ InBatch' = InBatch
  BY <1>1, CommandEffect DEF InBatch
<1>5. ASSUME s \in InBuffer' PROVE s \in InBuffer \/ Pushing(s)
  <2>1. CASE share_buffer' = share_buffer
    BY <1>5, <2>1 DEF InBuffer
  <2>2. ASSUME NEW t \in Shares, pipeline[1].op = "push", pipeline[1].shares = {t},
               share_buffer' = Append(share_buffer, t)
        PROVE  s \in InBuffer \/ Pushing(s)
    <3>1. Range(share_buffer') = Range(share_buffer) \cup {t}
      BY <1>1, <2>2, AppendQueue
    <3> QED
      BY <1>2, <1>5, <2>2, <3>1 DEF InBuffer, Pushing
  <2>3. pipeline[1].op \in {"credit", "push", "roster", "unroster"}
    BY <1>2 DEF Command
  <2> QED
    BY <1>1, <2>1, <2>2, <2>3, CommandEffect
<1> QED
  BY <1>3, <1>4, <1>5 DEF HeldAt

\* What a round of the oracle reads, cuts off or forgets was held before.
LEMMA HeldOracle ==
  ASSUME LedgerInv, OracleStep, NEW s, HeldAt(s)'
  PROVE  HeldAt(s)
<1>1. UNCHANGED <<channel, unflushed, pipeline>>
  BY DEF OracleStep, OracleConnect, ReadBatch, TrimBatch, BeginTransaction, SkipBatch,
     UpsertYield, StampTax, Commit, Rollback, ForgetBatch, intakeVars, engineVars
<1>2. share_buffer \in Seq(Shares) /\ batch \in Seq(Shares)
  BY DEF LedgerInv, ShareLedgerTypeOK
<1>3. CASE ReadBatch
  <2> DEFINE n == IF Len(share_buffer) < BatchMax THEN Len(share_buffer) ELSE BatchMax
  <2>1. batch' = SubSeq(share_buffer, 1, n) /\ share_buffer' = share_buffer
    BY <1>3 DEF ReadBatch, redisVars
  <2>2. n \in 0 .. Len(share_buffer)
    BY <1>2, Members, ShareLedgerAssumption
  <2> HIDE DEF n
  <2>3. Range(share_buffer) = Range(SubSeq(share_buffer, 1, n))
          \cup Range(SubSeq(share_buffer, n + 1, Len(share_buffer)))
    BY <1>2, <2>2, SplitQueue
  <2>4. InBuffer' = InBuffer /\ InBatch' \subseteq InBuffer
    BY <2>1, <2>3 DEF InBuffer, InBatch
  <2> QED
    BY <1>1, <2>4, HeldFrame
<1>4. CASE TrimBatch
  <2> DEFINE n == Len(batch)
  <2>1. /\ share_buffer' \in {share_buffer, SubSeq(share_buffer, n + 1, Len(share_buffer))}
        /\ batch' = batch /\ oracle = "read"
    BY <1>4 DEF TrimBatch
  <2>2. n \in 0 .. Len(share_buffer)
    BY <1>2, <2>1, Members DEF LedgerInv, OracleInv
  <2> HIDE DEF n
  <2>3. Range(share_buffer) = Range(SubSeq(share_buffer, 1, n))
          \cup Range(SubSeq(share_buffer, n + 1, Len(share_buffer)))
    BY <1>2, <2>2, SplitQueue
  <2>4. InBuffer' \subseteq InBuffer /\ InBatch' = InBatch
    BY <2>1, <2>3 DEF InBuffer, InBatch
  <2> QED
    BY <1>1, <2>4, HeldFrame
<1>5. CASE share_buffer' = share_buffer /\ batch' \in {batch, <<>>}
  <2>1. InBuffer' = InBuffer /\ InBatch' \subseteq InBatch
    BY <1>5, EmptyQueue DEF InBuffer, InBatch
  <2> QED
    BY <1>1, <2>1, HeldFrame
<1>6. CASE OracleConnect \/ BeginTransaction \/ SkipBatch \/ UpsertYield \/ StampTax
            \/ Commit \/ Rollback
  BY <1>5, <1>6 DEF OracleConnect, BeginTransaction, SkipBatch, UpsertYield, StampTax, Commit,
     Rollback, ForgetBatch, redisVars
<1> QED
  BY <1>3, <1>4, <1>6 DEF OracleStep

\* What a step does to the places of a share: a share that is held was held
\* before, or has just been accepted.
LEMMA HeldStep ==
  ASSUME LedgerInv, [ShareLedgerNext]_slVars, NEW s \in Shares, HeldAt(s)'
  PROVE  HeldAt(s) \/ (s \notin accepted /\ s \in accepted')
<1> USE DEF intakeVars, engineVars, redisVars, oracleVars, postgresVars
<1>1. Range(<<>>) = {}
  BY EmptyQueue
<1>2. ASSUME UNCHANGED <<unflushed, share_buffer, batch>>, channel' \in {channel, <<>>},
             pipeline' \in {pipeline, <<>>}
      PROVE  HeldAt(s)
  BY <1>1, <1>2, HeldFrame DEF InBuffer, InBatch
<1>3. ASSUME NEW t \in Shares, SubmitShare(t)
      PROVE  HeldAt(s) \/ (s \notin accepted /\ s \in accepted')
  <2>1. /\ t \notin accepted /\ accepted' = accepted \cup {t}
        /\ channel' \in {channel, Append(channel, t)}
        /\ UNCHANGED <<unflushed, pipeline, share_buffer, batch>>
    BY <1>3 DEF SubmitShare
  <2>2. Range(channel') \subseteq Range(channel) \cup {t}
    <3>1. channel \in Seq(Shares)
      BY DEF LedgerInv, ShareLedgerTypeOK
    <3>2. Range(Append(channel, t)) = Range(channel) \cup {t}
      BY <3>1, AppendQueue
    <3> QED
      BY <2>1, <3>2
  <2> QED
    BY <2>1, <2>2 DEF HeldAt, Pushing, InBuffer, InBatch
<1>4. CASE EngineStep
  <2>1. CASE EngineConnect \/ FlushTick \/ FlushDone \/ PipelineFails \/ Resume
    BY <1>2, <2>1 DEF EngineConnect, FlushTick, FlushDone, PipelineFails, Resume
  <2> QED
    BY <1>4, <2>1, HeldRecord, HeldFlush, HeldCommand DEF EngineStep, Visit
<1>5. CASE OracleStep
  BY <1>5, HeldOracle
<1>6. CASE Crash
  <2>1. /\ Range(channel') = {} /\ \A w \in Workers : Range(unflushed'[w]) = {}
        /\ pipeline' = <<>> /\ InBuffer' = InBuffer /\ InBatch' = {}
    BY <1>1, <1>6 DEF Crash, InBuffer, InBatch
  <2> QED
    BY <2>1, HeldFrame
<1>7. CASE UNCHANGED slVars
  BY <1>2, <1>7 DEF slVars
<1> QED
  BY <1>3, <1>4, <1>5, <1>6, <1>7 DEF ShareLedgerNext

\* A step pays a share that is held and was not paid, once, or does not pay it.
LEMMA PayStep ==
  ASSUME LedgerInv, DownstreamInv, [ShareLedgerNext]_slVars, NEW s \in Shares
  PROVE  \/ yield'[s] = yield[s]
         \/ yield[s] = 0 /\ yield'[s] = 1 /\ HeldAt(s)
<1>1. CASE Commit
  <2>1. /\ yield' = Plus(yield, txYield) /\ oracle = "stamped"
        /\ yield \in [Shares -> Nat] /\ txYield \subseteq InBatch
    BY <1>1 DEF Commit, LedgerInv, ShareLedgerTypeOK, OracleInv, InBatch
  <2>2. s \in txYield => yield[s] = 0 /\ HeldAt(s)
    BY <2>1 DEF DownstreamInv, HeldAt
  <2> QED
    BY <2>1, <2>2, PlusLemma
<1>2. CASE yield' = yield
  BY <1>2
<1>3. Commit \/ yield' = yield
  BY DEF ShareLedgerNext, EngineStep, OracleStep, SubmitShare, EngineConnect, RecordShare,
     FlushTick, Visit, FlushOnline, FlushOffline, RedisExecutes, FlushDone, PipelineFails,
     Resume, OracleConnect, ReadBatch, TrimBatch, BeginTransaction, SkipBatch, UpsertYield,
     StampTax, Rollback, Crash, slVars, postgresVars
<1> QED
  BY <1>1, <1>2, <1>3

\* No step takes back that a share was accepted.
LEMMA AcceptedGrows ==
  ASSUME [ShareLedgerNext]_slVars
  PROVE  accepted \subseteq accepted'
BY DEF ShareLedgerNext, EngineStep, OracleStep, SubmitShare, EngineConnect, RecordShare,
   FlushTick, Visit, FlushOnline, FlushOffline, RedisExecutes, FlushDone, PipelineFails,
   Resume, OracleConnect, ReadBatch, TrimBatch, BeginTransaction, SkipBatch, UpsertYield,
   StampTax, Commit, Rollback, Crash, slVars, intakeVars

\* The fate of a share, from its places, its yield and whether it was accepted.
FateOf(s) ==
  /\ yield[s] \in Nat
  /\ Fate[s] \in {"new", "held", "paid", "lost"}
  /\ yield[s] > 0 <=> Fate[s] = "paid"
  /\ yield[s] = 0 /\ HeldAt(s) <=> Fate[s] = "held"
  /\ yield[s] = 0 /\ ~HeldAt(s) /\ s \in accepted <=> Fate[s] = "lost"
  /\ s \notin accepted <=> Fate[s] = "new"

\* The definition of Fate says so.
LEMMA FateIs == LedgerInv => \A s \in Shares : FateOf(s)
<1> SUFFICES ASSUME LedgerInv, NEW s \in Shares PROVE FateOf(s)
  OBVIOUS
<1>1. yield[s] \in Nat /\ (s \in Paid <=> yield[s] > 0)
  BY DEF LedgerInv, ShareLedgerTypeOK, Paid
<1>2. s \in Held <=> HeldAt(s)
  BY HeldPlaces DEF LedgerInv
<1>3. HeldAt(s) => s \in accepted
  BY HeldIsAccepted
<1>4. yield[s] > 0 => s \in accepted
  <2>1. wallet[s] \in Nat
    BY DEF LedgerInv, ShareLedgerTypeOK
  <2> QED
    BY <2>1 DEF LedgerInv, WalletInv
<1>5. Fate[s] = CASE s \in Paid                          -> "paid"
                  [] s \notin Paid /\ s \in Held         -> "held"
                  [] s \notin Paid \cup Held /\ s \in accepted -> "lost"
                  [] OTHER                               -> "new"
  BY DEF Fate
<1>6. CASE s \in Paid
  BY <1>1, <1>4, <1>5, <1>6 DEF FateOf
<1>7. CASE s \notin Paid /\ s \in Held
  BY <1>1, <1>2, <1>3, <1>5, <1>7 DEF FateOf
<1>8. CASE s \notin Paid \cup Held /\ s \in accepted
  BY <1>1, <1>2, <1>5, <1>8 DEF FateOf
<1>9. CASE s \notin Paid \cup Held /\ s \notin accepted
  BY <1>1, <1>2, <1>5, <1>9 DEF FateOf
<1> QED
  BY <1>6, <1>7, <1>8, <1>9

\* The ledger starts as the account does.
LEMMA AccountInit == ShareLedgerInit => Account!ShareAccountInit
<1> SUFFICES ASSUME ShareLedgerInit PROVE Account!ShareAccountInit
  OBVIOUS
<1>1. \A s \in Shares : Fate[s] = "new"
  <2>1. \A s \in Shares : FateOf(s)
    BY LedgerInit, FateIs
  <2> QED
    BY <2>1 DEF FateOf, ShareLedgerInit
<1>2. Fate = [s \in Shares |-> "new"]
  BY <1>1 DEF Fate
<1> QED
  BY <1>2 DEF Account!ShareAccountInit, ShareLedgerInit

\* A step of the ledger is a step of the account.
LEMMA AccountStep ==
  ASSUME LedgerInv, LedgerInv', DownstreamInv, [ShareLedgerNext]_slVars
  PROVE  Account!ShareAccountNext
<1>1. \A s \in Shares : FateOf(s)
  BY FateIs
<1>2. (\A s \in Shares : FateOf(s))'
  <2>1. LedgerInv'
    OBVIOUS
  <2> QED
    BY <2>1, FateIs, PTL
<1>3. ASSUME NEW s \in Shares
      PROVE  /\ Account!Taken(s) \/ Account!Settled(s) \/ Account!Untouched(s)
             /\ Fate'[s] \in Account!Fates
  <2>1. FateOf(s) /\ FateOf(s)'
    BY <1>1, <1>2
  <2>2. HeldAt(s)' => HeldAt(s) \/ (s \notin accepted /\ s \in accepted')
    BY HeldStep
  <2>3. yield'[s] = yield[s] \/ (yield[s] = 0 /\ yield'[s] = 1 /\ HeldAt(s))
    BY PayStep
  <2>4. s \in accepted => s \in accepted'
    BY AcceptedGrows
  <2> DEFINE before == Fate[s]
             after == Fate'[s]
  <2>5. /\ before \in {"new", "held", "paid", "lost"} /\ yield[s] \in Nat
        /\ yield[s] > 0 <=> before = "paid"
        /\ yield[s] = 0 /\ HeldAt(s) <=> before = "held"
        /\ yield[s] = 0 /\ ~HeldAt(s) /\ s \in accepted <=> before = "lost"
        /\ s \notin accepted <=> before = "new"
    BY <2>1 DEF FateOf
  <2>6. /\ after \in {"new", "held", "paid", "lost"} /\ yield'[s] \in Nat
        /\ yield'[s] > 0 <=> after = "paid"
        /\ yield'[s] = 0 /\ HeldAt(s)' <=> after = "held"
        /\ yield'[s] = 0 /\ ~HeldAt(s)' /\ s \in accepted' <=> after = "lost"
        /\ s \notin accepted' <=> after = "new"
    BY <2>1 DEF FateOf
  <2> HIDE DEF before, after
  <2>7. CASE before = "new"
    <3>1. yield'[s] = yield[s] /\ after \in {"new", "held", "lost"}
      BY <2>2, <2>3, <2>5, <2>6, <2>7
    <3> QED
      BY <2>7, <3>1 DEF Account!Taken, Account!Untouched, Account!Fates, before, after
  <2>8. CASE before = "held"
    <3>1. \/ after = "held" /\ yield'[s] = yield[s]
          \/ after = "paid" /\ yield'[s] = yield[s] + 1
          \/ after = "lost" /\ yield'[s] = yield[s]
      BY <2>2, <2>3, <2>4, <2>5, <2>6, <2>8
    <3> QED
      BY <2>8, <3>1 DEF Account!Settled, Account!Untouched, Account!Fates, before, after
  <2>9. CASE before \in {"paid", "lost"}
    <3>1. after = before /\ yield'[s] = yield[s]
      BY <2>2, <2>3, <2>4, <2>5, <2>6, <2>9
    <3> QED
      BY <2>9, <3>1 DEF Account!Untouched, Account!Fates, before, after
  <2> QED
    BY <2>5, <2>7, <2>8, <2>9
<1>4. Fate' \in [Shares -> Account!Fates]
  BY <1>3 DEF Fate
<1>5. yield' \in [Shares -> Nat]
  BY DEF LedgerInv, ShareLedgerTypeOK
<1> QED
  BY <1>3, <1>4, <1>5 DEF Account!ShareAccountNext

\* Whatever fails but LTRIM, the ledger keeps the account of every share.
THEOREM LedgerImplementsAccount ==
  ASSUME "ltrim" \notin Faults
  PROVE  ShareLedgerSpec => ImplementsShareAccount
<1>1. LedgerInv /\ LedgerInv' /\ DownstreamInv /\ [ShareLedgerNext]_slVars
        => [Account!ShareAccountNext]_Account!saVars
  BY AccountStep
<1> QED
  BY <1>1, AccountInit, DownstreamInvariant, PTL
     DEF ShareLedgerSpec, ImplementsShareAccount, Account!ShareAccountSpec

---------------------------------------------------------------------------
(* pool:workers follows the engine, as long as Redis answers *)

\* A command of this kind for this worker is still to be executed.
Pending(op, w) ==
  \E i \in 1 .. Len(pipeline) : pipeline[i].op = op /\ pipeline[i].worker = w

\* What RosterFollowsEngine says about one worker.
Listed(w) ==
  /\ w \in roster => w \in known
  /\ w \in known /\ w \notin roster => unflushed[w] # <<>>

\* During a flush: the workers still to be visited are as they were, of the
\* others the commands in the pipeline will make it so.
RosterInv ==
  \A w \in Workers :
    /\ engine # "flushing" => Listed(w)
    /\ engine = "flushing" /\ w \in todo =>
         /\ Listed(w)
         /\ ~Pending("roster", w) /\ ~Pending("unroster", w)
    /\ engine = "flushing" /\ w \notin todo /\ w \in known =>
         /\ unflushed[w] = <<>>
         /\ w \in roster \/ Pending("roster", w)
         /\ ~Pending("unroster", w)
    /\ engine = "flushing" /\ w \notin todo /\ w \notin known =>
         /\ w \in roster => Pending("unroster", w)
         /\ ~Pending("roster", w)

\* Steps that move neither workers nor commands.
LEMMA RosterFrame ==
  ASSUME RosterInv, UNCHANGED <<engine, known, unflushed, todo, pipeline, roster>>
  PROVE  RosterInv'
<1>1. \A op, w : Pending(op, w)' <=> Pending(op, w)
  BY DEF Pending
<1>2. \A w : Listed(w)' <=> Listed(w)
  BY DEF Listed
<1> QED
  BY <1>1, <1>2 DEF RosterInv

\* Steps between flushes leave every worker listed, if the new list of a
\* worker that becomes known is not empty.
LEMMA RosterBetweenFlushes ==
  ASSUME RosterInv, engine # "flushing", engine' # "flushing", UNCHANGED roster,
         \A w \in Workers : \/ (w \in known' <=> w \in known) /\ unflushed'[w] = unflushed[w]
                            \/ w \in known' /\ unflushed'[w] # <<>>
  PROVE  RosterInv'
<1>1. \A w \in Workers : Listed(w)'
  BY DEF RosterInv, Listed
<1> QED
  BY <1>1 DEF RosterInv

\* A worker with its first share becomes known, and waits for the flush.
LEMMA RosterRecord ==
  ASSUME LedgerInv, RosterInv, RecordShare
  PROVE  RosterInv'
<1> DEFINE s == Head(channel)
           w == WorkerOf[s]
<1>1. /\ engine = "select" /\ engine' = "select" /\ channel # <<>> /\ roster' = roster
      /\ known' = known \cup {w} /\ unflushed' = [unflushed EXCEPT ![w] = Append(@, s)]
  BY DEF RecordShare, redisVars
<1>2. channel \in Seq(Shares) /\ unflushed \in [Workers -> Seq(Shares)]
  BY DEF LedgerInv, ShareLedgerTypeOK
<1>3. s \in Shares /\ w \in Workers
  BY <1>1, <1>2, TakeQueue, ShareLedgerAssumption
<1> HIDE DEF s, w
<1>4. /\ unflushed'[w] # <<>>
      /\ \A v \in Workers \ {w} : unflushed'[v] = unflushed[v]
  <2>1. unflushed[w] \in Seq(Shares)
    BY <1>2, <1>3
  <2>2. s \in Range(Append(unflushed[w], s))
    BY <1>3, <2>1, AppendQueue
  <2>3. Append(unflushed[w], s) # <<>>
    <3>1. Range(<<>>) = {}
      BY EmptyQueue
    <3> QED
      BY <2>2, <3>1
  <2> QED
    BY <1>1, <1>2, <1>3, <2>3
<1> QED
  BY <1>1, <1>3, <1>4, RosterBetweenFlushes

\* A flush begins with nothing queued, and ends with nothing queued.
LEMMA RosterFlushBounds ==
  ASSUME LedgerInv, RosterInv, FlushTick \/ FlushDone
  PROVE  RosterInv'
<1>1. UNCHANGED <<known, unflushed, roster, pipeline>> /\ pipeline = <<>>
  BY DEF FlushTick, FlushDone, redisVars, LedgerInv, EngineInv
<1>2. \A op, w : ~Pending(op, w) /\ ~Pending(op, w)'
  <2>1. Len(pipeline) = 0 /\ Len(pipeline') = 0
    BY <1>1, EmptyQueue
  <2> QED
    BY <2>1 DEF Pending
<1>3. \A w \in Workers : Listed(w)' <=> Listed(w)
  BY <1>1 DEF Listed
<1>4. CASE FlushTick
  <2>1. engine = "select" /\ engine' = "flushing" /\ todo' = known
    BY <1>4 DEF FlushTick
  <2> QED
    BY <1>1, <1>2, <1>3, <2>1 DEF RosterInv, Listed
<1>5. CASE FlushDone
  <2>1. engine = "flushing" /\ engine' = "select" /\ todo = {}
    BY <1>5 DEF FlushDone
  <2>2. \A w \in Workers : Listed(w)
    BY <1>2, <2>1 DEF RosterInv, Listed
  <2> QED
    BY <1>3, <2>1, <2>2 DEF RosterInv
<1> QED
  BY <1>4, <1>5

\* The commands of a visit are about the worker visited.
LEMMA PendingOnline ==
  ASSUME ShareLedgerTypeOK, NEW w \in Workers, FlushOnline(w), unflushed[w] # <<>>
  PROVE  /\ \A op, v : v # w => (Pending(op, v)' <=> Pending(op, v))
         /\ Pending("roster", w)'
         /\ Pending("unroster", w)' => Pending("unroster", w)
<1> DEFINE list == unflushed[w]
           L == Len(pipeline)
<1>1. /\ Len(list) \in Nat /\ L \in Nat /\ Len(pipeline') = L + Len(list) + 2
      /\ \A i \in 1 .. L : pipeline'[i] = pipeline[i]
      /\ pipeline'[L + 1].op = "credit" /\ pipeline'[L + 1].worker = w
      /\ pipeline'[L + 2].op = "roster" /\ pipeline'[L + 2].worker = w
      /\ \A i \in L + 3 .. L + Len(list) + 2 :
           pipeline'[i].op = "push" /\ pipeline'[i].worker = w
  BY QueuedCommands
<1> HIDE DEF list, L
<1>2. \A i \in 1 .. Len(pipeline') :
        i \in 1 .. L \/ (pipeline'[i].worker = w /\ pipeline'[i].op # "unroster")
  <2>1. \A i \in 1 .. Len(pipeline') :
          i \in 1 .. L \/ i = L + 1 \/ i = L + 2 \/ i \in L + 3 .. L + Len(list) + 2
    BY <1>1
  <2> QED
    BY <1>1, <2>1
<1>3. \A i \in 1 .. L : i \in 1 .. Len(pipeline') /\ pipeline'[i] = pipeline[i]
  BY <1>1
<1>4. L + 2 \in 1 .. Len(pipeline')
  BY <1>1
<1>5. \A op, v : v # w => (Pending(op, v)' <=> Pending(op, v))
  BY <1>2, <1>3 DEF Pending, L
<1>6. Pending("roster", w)'
  BY <1>1, <1>4 DEF Pending
<1>7. Pending("unroster", w)' => Pending("unroster", w)
  BY <1>2, <1>3 DEF Pending, L
<1> QED
  BY <1>5, <1>6, <1>7

\* The other visit queues the removal of the worker's name.
LEMMA PendingOffline ==
  ASSUME ShareLedgerTypeOK, NEW w \in Workers, FlushOffline(w)
  PROVE  /\ \A op, v : v # w => (Pending(op, v)' <=> Pending(op, v))
         /\ Pending("unroster", w)'
         /\ Pending("roster", w)' => Pending("roster", w)
<1> DEFINE L == Len(pipeline)
           cmd == Cmd("unroster", w, {})
<1>1. cmd \in Command /\ cmd.op = "unroster" /\ cmd.worker = w
  BY DEF Cmd, Command
<1> HIDE DEF cmd
<1>2. /\ L \in Nat /\ Len(pipeline') = L + 1
      /\ \A i \in 1 .. L : pipeline'[i] = pipeline[i]
      /\ pipeline'[L + 1] = cmd
  BY <1>1, AppendQueue, Members DEF FlushOffline, ShareLedgerTypeOK, cmd
<1> HIDE DEF L
<1>3. \A i \in 1 .. Len(pipeline') : i \in 1 .. L \/ i = L + 1
  BY <1>2
<1>4. (\A i \in 1 .. L : i \in 1 .. Len(pipeline')) /\ L + 1 \in 1 .. Len(pipeline')
  BY <1>2
<1>5. \A op, v : v # w => (Pending(op, v)' <=> Pending(op, v))
  BY <1>1, <1>2, <1>3, <1>4 DEF Pending, L
<1>6. Pending("unroster", w)'
  BY <1>1, <1>2, <1>4 DEF Pending
<1>7. Pending("roster", w)' => Pending("roster", w)
  BY <1>1, <1>2, <1>3 DEF Pending, L
<1> QED
  BY <1>5, <1>6, <1>7

\* A visit settles its worker and leaves the others alone.
LEMMA RosterVisit ==
  ASSUME LedgerInv, RosterInv, NEW w \in Workers, Visit(w)
  PROVE  RosterInv'
<1>1. /\ engine = "flushing" /\ engine' = "flushing" /\ w \in todo /\ todo' = todo \ {w}
      /\ UNCHANGED roster /\ unflushed' = [unflushed EXCEPT ![w] = <<>>]
      /\ known' \in {known, known \ {w}}
  BY DEF Visit, FlushOnline, FlushOffline, redisVars
<1>2. ShareLedgerTypeOK /\ unflushed \in [Workers -> Seq(Shares)] /\ w \in known
  BY <1>1 DEF LedgerInv, ShareLedgerTypeOK, EngineInv
<1>3. Listed(w) /\ ~Pending("roster", w) /\ ~Pending("unroster", w)
  BY <1>1 DEF RosterInv
<1>4. unflushed'[w] = <<>> /\ \A v \in Workers \ {w} : unflushed'[v] = unflushed[v]
  BY <1>1, <1>2
<1>5. \A v \in Workers \ {w} : Listed(v)' <=> Listed(v)
  BY <1>1, <1>4 DEF Listed
<1>6. \A op, v : v # w => (Pending(op, v)' <=> Pending(op, v))
  <2>1. CASE FlushOnline(w) /\ unflushed[w] = <<>>
    BY <2>1 DEF FlushOnline, Pending
  <2> QED
    BY <1>2, <2>1, PendingOnline, PendingOffline DEF Visit
<1>7. ASSUME NEW v \in Workers \ {w}
      PROVE  /\ v \in todo' =>
                  Listed(v)' /\ ~Pending("roster", v)' /\ ~Pending("unroster", v)'
             /\ v \notin todo' /\ v \in known' =>
                  /\ unflushed'[v] = <<>>
                  /\ v \in roster' \/ Pending("roster", v)'
                  /\ ~Pending("unroster", v)'
             /\ v \notin todo' /\ v \notin known' =>
                  /\ v \in roster' => Pending("unroster", v)'
                  /\ ~Pending("roster", v)'
  <2>1. (v \in todo' <=> v \in todo) /\ (v \in known' <=> v \in known)
    BY <1>1
  <2>2. /\ Pending("roster", v)' <=> Pending("roster", v)
        /\ Pending("unroster", v)' <=> Pending("unroster", v)
    BY <1>6
  <2> QED
    BY <1>1, <1>4, <1>5, <2>1, <2>2 DEF RosterInv
<1>8. w \in known' => (w \in roster' \/ Pending("roster", w)') /\ ~Pending("unroster", w)'
  <2>1. CASE FlushOnline(w) /\ unflushed[w] = <<>>
    <3>1. w \in roster /\ pipeline' = pipeline
      BY <1>2, <1>3, <2>1 DEF Listed, FlushOnline
    <3> QED
      BY <1>1, <1>3, <3>1 DEF Pending
  <2>2. CASE FlushOnline(w) /\ unflushed[w] # <<>>
    BY <1>2, <1>3, <2>2, PendingOnline
  <2>3. CASE FlushOffline(w)
    BY <2>3 DEF FlushOffline
  <2> QED
    BY <2>1, <2>2, <2>3 DEF Visit
<1>9. w \notin known' => Pending("unroster", w)' /\ ~Pending("roster", w)'
  <2>1. w \notin known' => FlushOffline(w)
    BY <1>2 DEF Visit, FlushOnline
  <2> QED
    BY <1>2, <1>3, <2>1, PendingOffline
<1> QED
  BY <1>1, <1>4, <1>7, <1>8, <1>9 DEF RosterInv

\* A command for a worker's name takes effect.
LEMMA RosterCommand ==
  ASSUME LedgerInv, RosterInv, RedisExecutes
  PROVE  RosterInv'
<1>1. /\ engine = "flushing" /\ todo = {} /\ UNCHANGED <<engine, known, unflushed, todo>>
  BY DEF RedisExecutes
<1>2. /\ 1 \in 1 .. Len(pipeline) /\ Len(pipeline) \in Nat
      /\ Head(pipeline) = pipeline[1] /\ Len(pipeline') = Len(pipeline) - 1
      /\ \A i \in 1 .. Len(pipeline') :
           i + 1 \in 1 .. Len(pipeline) /\ pipeline'[i] = pipeline[i + 1]
  BY TakeCommand DEF LedgerInv
<1>3. /\ pipeline[1].op = "roster" => roster' = roster \cup {pipeline[1].worker}
      /\ pipeline[1].op = "unroster" => roster' = roster \ {pipeline[1].worker}
      /\ pipeline[1].op \notin {"roster", "unroster"} => roster' = roster
  BY <1>2 DEF RedisExecutes
<1>4. ASSUME NEW op, NEW w
      PROVE  /\ Pending(op, w)' => Pending(op, w)
             /\ Pending(op, w) => \/ Pending(op, w)'
                                  \/ pipeline[1].op = op /\ pipeline[1].worker = w
  <2>1. \A i \in 1 .. Len(pipeline) :
          i = 1 \/ (i - 1 \in 1 .. Len(pipeline') /\ pipeline'[i - 1] = pipeline[i])
    <3>1. \A i \in 1 .. Len(pipeline) : i = 1 \/ (i - 1 \in 1 .. Len(pipeline') /\ (i - 1) + 1 = i)
      BY <1>2
    <3> QED
      BY <1>2, <3>1
  <2> QED
    BY <1>2, <2>1 DEF Pending
<1>5. pipeline[1].op = "roster" => Pending("roster", pipeline[1].worker)
  BY <1>2 DEF Pending
<1>6. pipeline[1].op = "unroster" => Pending("unroster", pipeline[1].worker)
  BY <1>2 DEF Pending
<1>7. ASSUME NEW w \in Workers
      PROVE  /\ w \in known' =>
                  /\ unflushed'[w] = <<>>
                  /\ w \in roster' \/ Pending("roster", w)'
                  /\ ~Pending("unroster", w)'
             /\ w \notin known' =>
                  /\ w \in roster' => Pending("unroster", w)'
                  /\ ~Pending("roster", w)'
  <2>1. CASE w \in known
    <3>1. unflushed[w] = <<>> /\ (w \in roster \/ Pending("roster", w)) /\ ~Pending("unroster", w)
      BY <1>1, <2>1 DEF RosterInv
    <3>2. w \in roster => w \in roster'
      BY <1>3, <1>6, <3>1
    <3> QED
      BY <1>1, <1>3, <1>4, <2>1, <3>1, <3>2
  <2>2. CASE w \notin known
    <3>1. (w \in roster => Pending("unroster", w)) /\ ~Pending("roster", w)
      BY <1>1, <2>2 DEF RosterInv
    <3>2. w \in roster' => w \in roster
      BY <1>3, <1>5, <3>1
    <3> QED
      BY <1>1, <1>3, <1>4, <2>2, <3>1, <3>2
  <2> QED
    BY <2>1, <2>2
<1> QED
  BY <1>1, <1>7 DEF RosterInv

\* Every step keeps the invariant, if Redis answers and nothing crashes.
LEMMA RosterStep ==
  ASSUME Faults \cap {"crash", "redis"} = {},
         LedgerInv, RosterInv, [ShareLedgerNext]_slVars
  PROVE  RosterInv'
<1> USE DEF intakeVars, engineVars, redisVars, oracleVars, postgresVars
<1>1. ASSUME NEW s \in Shares, SubmitShare(s) PROVE RosterInv'
  BY <1>1, RosterFrame DEF SubmitShare
<1>2. CASE EngineStep
  <2>1. CASE EngineConnect \/ Resume
    <3>1. /\ engine # "flushing" /\ engine' # "flushing"
          /\ UNCHANGED <<roster, known, unflushed>>
      BY <2>1 DEF EngineConnect, Resume
    <3> QED
      BY <3>1, RosterBetweenFlushes
  <2>2. CASE PipelineFails
    BY <2>2 DEF PipelineFails
  <2> QED
    BY <1>2, <2>1, <2>2, RosterRecord, RosterFlushBounds, RosterVisit, RosterCommand
       DEF EngineStep
<1>3. CASE OracleStep
  <2>1. UNCHANGED <<engine, known, unflushed, todo, pipeline, roster>>
    BY <1>3 DEF OracleStep, OracleConnect, ReadBatch, TrimBatch, BeginTransaction, SkipBatch,
       UpsertYield, StampTax, Commit, Rollback
  <2> QED
    BY <2>1, RosterFrame
<1>4. CASE UNCHANGED slVars
  BY <1>4, RosterFrame DEF slVars
<1> QED
  BY <1>1, <1>2, <1>3, <1>4 DEF ShareLedgerNext, Crash

\* As long as Redis answers and the process lives, between flushes pool:workers
\* holds the workers the engine knows, but for those whose first share is still
\* to be flushed.
THEOREM RosterIsCurrent ==
  ASSUME Faults \cap {"crash", "redis"} = {}
  PROVE  ShareLedgerSpec => []RosterFollowsEngine
<1>1. ShareLedgerInit => RosterInv
  BY DEF ShareLedgerInit, RosterInv, Listed
<1>2. LedgerInv /\ RosterInv /\ [ShareLedgerNext]_slVars => RosterInv'
  BY RosterStep
<1>3. LedgerInv /\ RosterInv => RosterFollowsEngine
  BY DEF LedgerInv, ShareLedgerTypeOK, RosterInv, Listed, RosterFollowsEngine
<1> QED
  BY <1>1, <1>2, <1>3, LedgerInvariant, PTL DEF ShareLedgerSpec
=============================================================================
