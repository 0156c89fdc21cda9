---------------------------- MODULE JobDelivery ----------------------------
(***************************************************************************)
(* How a job reaches a miner: the broadcast channel and the cached payload *)
(* of src/src/job_manager/mod.rs composed with the connections of          *)
(* src/src/stratum_tcp/mod.rs (handle_worker_connection), one task each.   *)
(*                                                                         *)
(* A connection learns of jobs twice: it reads cached_job once, after its  *)
(* handshake, and it receives from the broadcast channel, to which it      *)
(* subscribed before the handshake.  It writes what it received at the     *)
(* next tick of its throttle interval, newest only.                        *)
(*                                                                         *)
(* The registry, the publisher and the collector are those of JobManager.  *)
(***************************************************************************)
EXTENDS JobManager, Sequences

CONSTANTS
  Conns,    \* slots for connections (the semaphore allows 5000)
  ChanCap   \* capacity of the broadcast channel job_tx (1024)

ASSUME JobDeliveryAssumption == ChanCap \in Nat \ {0}

VARIABLES
  phase,    \* how far handle_worker_connection has come
  rx,       \* jobs the channel retains for this receiver job_rx
  lagged,   \* the channel overwrote a job this receiver had not read
  joined,   \* initial_job: the job read from the cache
  pending,  \* pending_job_payload, or NoJob
  view      \* job of the last mining.notify written to the miner

connVars == <<phase, rx, lagged, joined, pending, view>>
jdVars   == <<jmVars, connVars>>

\* handshake_state 0, 1 and 2, then the cache was read, then the select loop
Phases == {"closed", "subscribe", "authorize", "greet", "joining", "mining"}

Open(c) == phase[c] # "closed"

JobDeliveryTypeOK ==
  /\ JobManagerTypeOK
  /\ phase \in [Conns -> Phases]
  /\ rx \in [Conns -> Seq(JobIds)]
  /\ \A c \in Conns : Len(rx[c]) <= ChanCap
  /\ lagged \in [Conns -> BOOLEAN]
  /\ joined \in [Conns -> JobIds]
  /\ pending \in [Conns -> JobIds]
  /\ view \in [Conns -> JobIds]

JobDeliveryInit ==
  /\ JobManagerInit
  /\ phase = [c \in Conns |-> "closed"]
  /\ rx = [c \in Conns |-> <<>>]
  /\ lagged = [c \in Conns |-> FALSE]
  /\ joined = [c \in Conns |-> NoJob]
  /\ pending = [c \in Conns |-> NoJob]
  /\ view = [c \in Conns |-> NoJob]

---------------------------------------------------------------------------
(* The broadcast channel *)

\* Mutants: a full channel refuses the new job; the channel has no bound.
Retain_Unbounded(q, id)  == Append(q, id)
Retain_DropNewest(q, id) == IF Len(q) < ChanCap THEN Append(q, id) ELSE q

\* A full channel overwrites the oldest job.
Retain(q, id) == Append(IF Len(q) < ChanCap THEN q ELSE Tail(q), id)

\* job_tx.send: every receiver gets the job, whatever its backlog.
Broadcast ==
  /\ SendJob
  /\ rx' = [c \in Conns |-> IF Open(c) THEN Retain(rx[c], Current) ELSE rx[c]]
  /\ lagged' = [c \in Conns |->
       lagged[c] \/ (Open(c) /\ Len(rx[c]) = ChanCap)]
  /\ UNCHANGED <<phase, joined, pending, view>>

---------------------------------------------------------------------------
(* One connection *)

\* The task starts by subscribing to the channel.
Connect(c) ==
  /\ phase[c] = "closed"
  /\ phase' = [phase EXCEPT ![c] = "subscribe"]
  /\ UNCHANGED <<jmVars, rx, lagged, joined, pending, view>>

MiningSubscribe(c) ==
  /\ phase[c] = "subscribe"
  /\ phase' = [phase EXCEPT ![c] = "authorize"]
  /\ UNCHANGED <<jmVars, rx, lagged, joined, pending, view>>

\* The reply and the first mining.set_difficulty.
MiningAuthorize(c) ==
  /\ phase[c] = "authorize"
  /\ phase' = [phase EXCEPT ![c] = "greet"]
  /\ UNCHANGED <<jmVars, rx, lagged, joined, pending, view>>

ReadCache(c) ==
  /\ phase[c] = "greet"
  /\ joined' = [joined EXCEPT ![c] = cached_job]
  /\ phase' = [phase EXCEPT ![c] = "joining"]
  /\ UNCHANGED <<jmVars, rx, lagged, pending, view>>

\* Mutant: the connection subscribes only here, after its handshake.
WriteInitial_LateSubscribe(c) ==
  /\ phase[c] = "joining"
  /\ view' = [view EXCEPT ![c] = joined[c]]
  /\ phase' = [phase EXCEPT ![c] = "mining"]
  /\ rx' = [rx EXCEPT ![c] = <<>>]
  /\ lagged' = [lagged EXCEPT ![c] = FALSE]
  /\ UNCHANGED <<jmVars, joined, pending>>

WriteInitial(c) ==
  /\ phase[c] = "joining"
  /\ view' = [view EXCEPT ![c] = joined[c]]
  /\ phase' = [phase EXCEPT ![c] = "mining"]
  /\ UNCHANGED <<jmVars, rx, lagged, joined, pending>>

\* Mutant: the backlog is read newest first.
RecvJob_NewestFirst(c) ==
  /\ phase[c] = "mining"
  /\ ~lagged[c]
  /\ rx[c] # <<>>
  /\ pending' = [pending EXCEPT ![c] = rx[c][Len(rx[c])]]
  /\ rx' = [rx EXCEPT ![c] = SubSeq(rx[c], 1, Len(rx[c]) - 1)]
  /\ UNCHANGED <<jmVars, phase, lagged, joined, view>>

\* Ok(job) = job_rx.recv(): a job still pending is replaced.
RecvJob(c) ==
  /\ phase[c] = "mining"
  /\ ~lagged[c]
  /\ rx[c] # <<>>
  /\ pending' = [pending EXCEPT ![c] = Head(rx[c])]
  /\ rx' = [rx EXCEPT ![c] = Tail(rx[c])]
  /\ UNCHANGED <<jmVars, phase, lagged, joined, view>>

\* recv() answers Lagged: the pattern fails, and the receiver has moved on
\* to the oldest job the channel retains.
RecvLagged(c) ==
  /\ phase[c] = "mining"
  /\ lagged[c]
  /\ lagged' = [lagged EXCEPT ![c] = FALSE]
  /\ UNCHANGED <<jmVars, phase, rx, joined, pending, view>>

\* A tick with a payload pending; without one it changes nothing.
ThrottleTick(c) ==
  /\ phase[c] = "mining"
  /\ pending[c] # NoJob
  /\ view' = [view EXCEPT ![c] = pending[c]]
  /\ pending' = [pending EXCEPT ![c] = NoJob]
  /\ UNCHANGED <<jmVars, phase, rx, lagged, joined>>

\* End of file, a line that is too long, or a failed write of the handshake:
\* the task ends and drops its receiver.
Disconnect(c) ==
  /\ Open(c)
  /\ phase' = [phase EXCEPT ![c] = "closed"]
  /\ rx' = [rx EXCEPT ![c] = <<>>]
  /\ lagged' = [lagged EXCEPT ![c] = FALSE]
  /\ joined' = [joined EXCEPT ![c] = NoJob]
  /\ pending' = [pending EXCEPT ![c] = NoJob]
  /\ view' = [view EXCEPT ![c] = NoJob]
  /\ UNCHANGED jmVars

Receive(c) == RecvJob(c) \/ RecvLagged(c)

ConnStep(c) ==
  \/ Connect(c) \/ MiningSubscribe(c) \/ MiningAuthorize(c)
  \/ ReadCache(c) \/ WriteInitial(c)
  \/ Receive(c) \/ ThrottleTick(c)
  \/ Disconnect(c)

JobDeliveryNext ==
  \/ Internal /\ UNCHANGED connVars
  \/ Broadcast
  \/ \E c \in Conns : ConnStep(c)

JobDeliverySpec == JobDeliveryInit /\ [][JobDeliveryNext]_jdVars

\* The server runs its ready tasks and select! polls its branches in random
\* order; what the client sends, and whether it stays, is up to the client.
JobDeliveryFairSpec ==
  /\ JobDeliverySpec
  /\ WF_jdVars(Broadcast)
  /\ \A c \in Conns :
       /\ WF_jdVars(ReadCache(c))
       /\ WF_jdVars(WriteInitial(c))
       /\ WF_jdVars(Receive(c))
       /\ WF_jdVars(ThrottleTick(c))

---------------------------------------------------------------------------
\* The newest job a connection has in hand: what the channel still holds for
\* it, else what waits for the throttle, else what its miner works on.
Held(c) ==
  IF rx[c] # <<>> THEN rx[c][Len(rx[c])]
  ELSE IF pending[c] # NoJob THEN pending[c]
  ELSE view[c]

\* However the cache read, the broadcasts and an overflow of the channel fall
\* together, a mining connection has the newest job in hand: the last one sent,
\* or the one in the cache that is about to be sent.
NewestNotLost ==
  \A c \in Conns : phase[c] = "mining" => Held(c) \in {lastSent, cached_job}

\* The jobs that anyone was told of: in the cache, sent to the channel, or on
\* their way to a miner.
Told ==
  ({cached_job, lastSent} \cup
   UNION {{rx[c][i] : i \in DOMAIN rx[c]} \cup {joined[c], pending[c], view[c]}
            : c \in Conns}) \ {NoJob}

\* A job can be looked up before anyone is told of it: if a share for a job that
\* was announced finds none, the job is gone, and never only about to come.
RegisteredBeforeTold ==
  [][\A id \in Told :
       active_jobs[Key(id)] # id => active_jobs'[Key(id)] # id]_jdVars

\* A miner is sent an older job than it has only while it still has the job it
\* joined with: from the cached job back to one the channel retained meanwhile.
BackOnlyFromCache ==
  [][\A c \in Conns :
       view'[c] < view[c] /\ phase'[c] = "mining" => view[c] = joined[c]]_jdVars

\* A miner that stays connected is sent the cached job or a newer one.
NewestReachesMiner ==
  \A c \in Conns : \A id \in 1 .. MaxJobs :
    phase[c] = "mining" /\ cached_job = id
      ~> ~Open(c) \/ view[c] >= id
=============================================================================
