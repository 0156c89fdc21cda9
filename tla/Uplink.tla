------------------------------- MODULE Uplink -------------------------------
(***************************************************************************)
(* start_kaspad_client (src/src/kaspad_client/mod.rs): the stream to the   *)
(* node, on which the pool subscribes to new blocks, asks for templates    *)
(* and submits what its miners solved.  Two tasks share the bounded        *)
(* request channel: one forwards solved blocks, the other reads the node's *)
(* responses and asks for a new template after every block added.          *)
(*                                                                         *)
(* A template is represented by what the properties tell apart: whether it *)
(* still extends the newest block the node knows, and whom it pays.  The   *)
(* operator has put an address into Redis; without Redis the one of the    *)
(* configuration is used.                                                  *)
(***************************************************************************)
EXTENDS Integers, Sequences

CONSTANTS
  Blocks,      \* blocks the miners may solve
  NoBlock,
  RequestCap,  \* capacity of the request channel (100)
  SubmitCap,   \* capacity of block_submit_tx (100)
  MaxAdded,    \* bound of the model on notifications under way
  MaxFaults    \* bound of the model on faults of every kind

ASSUME UplinkAssumption ==
  /\ NoBlock \notin Blocks
  /\ RequestCap \in Nat \ {0} /\ SubmitCap \in Nat \ {0}
  /\ MaxAdded \in Nat \ {0} /\ MaxFaults \in Nat

VARIABLES
  stage,       \* where start_kaspad_client stands
  initialPay,  \* initial_pay_address
  open,        \* the stream is
  requests,    \* the request channel and the stream behind it, in order
  subscribed,  \* the node has seen NotifyBlockAdded
  responses,   \* what the node has sent and nobody read yet
  reader,      \* what the response task is doing
  job,         \* the template that was registered last
  declined,    \* the node answered the last template request with an error
  redis,       \* the server runs
  conn,        \* redis_conn works
  faults,
  submitOpen,  \* block_submit_rx has not been dropped
  submitQ,     \* the channel of solved blocks
  sender,      \* the block the submit task is sending
  solved,      \* history: blocks for which try_send was called
  overflowed,  \* history: those it was refused for
  atNode       \* blocks the node has received

linkVars   == <<stage, initialPay, open, requests, subscribed, responses>>
readerVars == <<reader, job, declined>>
redisVars  == <<redis, conn, faults>>
submitVars == <<submitOpen, submitQ, sender, solved, overflowed, atNode>>
uplinkVars == <<linkVars, readerVars, redisVars, submitVars>>

Payees == {"operator", "config"}
Templates == [kind : {"template"}, fresh : BOOLEAN, payee : Payees]
Asks      == [kind : {"getTemplate"}, payee : Payees]
Submits   == [kind : {"submit"}, block : Blocks]
Notify    == [kind |-> "notify"]
Added     == [kind |-> "added"]
NoTemplate == [kind |-> "noTemplate"]
Idle      == [kind |-> "idle"]

UplinkTypeOK ==
  /\ stage \in {"connect", "notify", "address", "ask", "running", "failed"}
  /\ initialPay \in Payees
  /\ {open, subscribed, declined, redis, conn, submitOpen} \subseteq BOOLEAN
  /\ requests \in Seq(Asks \cup Submits \cup {Notify})
  /\ Len(requests) <= RequestCap
  /\ responses \in Seq(Templates \cup {Added, NoTemplate})
  /\ reader \in Templates \cup Asks \cup {Idle}
  /\ job \in Templates \cup {NoTemplate}
  /\ faults \in 0 .. MaxFaults
  /\ submitQ \in Seq(Blocks) /\ Len(submitQ) <= SubmitCap
  /\ sender \in Blocks \cup {NoBlock}
  /\ overflowed \subseteq solved /\ atNode \subseteq solved /\ solved \subseteq Blocks
  /\ conn => redis
  /\ stage # "running" => reader = Idle /\ job = NoTemplate
  /\ ~open => requests = <<>> /\ responses = <<>>

UplinkInit ==
  /\ stage = "connect" /\ initialPay = "config"
  /\ open = FALSE /\ subscribed = FALSE
  /\ requests = <<>> /\ responses = <<>>
  /\ reader = Idle /\ job = NoTemplate /\ declined = FALSE
  /\ redis = TRUE /\ conn = TRUE /\ faults = 0
  /\ submitOpen = TRUE /\ submitQ = <<>> /\ sender = NoBlock
  /\ solved = {} /\ overflowed = {} /\ atNode = {}

---------------------------------------------------------------------------
(* Start-up.                                                               *)

Connect ==
  /\ stage = "connect"
  /\ stage' = "notify" /\ open' = TRUE
  /\ UNCHANGED <<initialPay, requests, subscribed, responses, readerVars,
                 redisVars, submitVars>>

\* Redis or the node cannot be reached: the function returns, and with it goes
\* block_submit_rx, which no task has taken yet.
ConnectFails ==
  /\ stage = "connect"
  /\ stage' = "failed"
  /\ submitOpen' = FALSE /\ submitQ' = <<>>
  /\ UNCHANGED <<initialPay, open, requests, subscribed, responses, readerVars,
                 redisVars, sender, solved, overflowed, atNode>>

\* Mutant: one element more than the channel holds.
HasRoom_OneMore == Len(requests) <= RequestCap

HasRoom == Len(requests) < RequestCap

\* send().await of the start-up: waits for room, fails when the stream ended.
StartupSend(request, next) ==
  \/ /\ open /\ HasRoom
     /\ requests' = Append(requests, request)
     /\ stage' = next
  \/ /\ ~open
     /\ stage' = "failed"
     /\ UNCHANGED requests

SendNotify ==
  /\ stage = "notify"
  /\ StartupSend(Notify, "address")
  /\ UNCHANGED <<initialPay, open, subscribed, responses, readerVars, redisVars,
                 submitVars>>

\* The GET of the operator's address; an error is ignored.
PayeeNow == IF conn THEN "operator" ELSE "config"

ReadAddress ==
  /\ stage = "address"
  /\ stage' = "ask" /\ initialPay' = PayeeNow
  /\ UNCHANGED <<open, requests, subscribed, responses, readerVars, redisVars,
                 submitVars>>

GetTemplate(payee) == [kind |-> "getTemplate", payee |-> payee]

AskFirst ==
  /\ stage = "ask"
  /\ StartupSend(GetTemplate(initialPay), "running")
  /\ UNCHANGED <<initialPay, open, subscribed, responses, readerVars, redisVars,
                 submitVars>>

---------------------------------------------------------------------------
(* The response task.                                                      *)

Reads(kind) ==
  /\ stage = "running" /\ reader = Idle /\ responses # <<>>
  /\ Head(responses).kind = kind
  /\ responses' = Tail(responses)

ReadTemplate ==
  /\ Reads("template")
  /\ reader' = Head(responses)
  /\ UNCHANGED <<stage, initialPay, open, requests, subscribed, job, declined,
                 redisVars, submitVars>>

\* A response without a block is skipped: nothing asks again.
SkipEmpty ==
  /\ Reads("noTemplate")
  /\ UNCHANGED <<stage, initialPay, open, requests, subscribed, readerVars,
                 redisVars, submitVars>>

\* Mutant: a connection that broke is not replaced.
Register_KeepsConn ==
  /\ reader.kind = "template"
  /\ job' = reader /\ reader' = Idle
  /\ UNCHANGED <<linkVars, declined, redisVars, submitVars>>

\* SET of the sync status, whose error is the sign to reconnect; then
\* process_new_block.
Register ==
  /\ reader.kind = "template"
  /\ conn' = (conn \/ redis)
  /\ job' = reader /\ reader' = Idle
  /\ UNCHANGED <<linkVars, declined, redis, faults, submitVars>>

\* BlockAdded: GET of the address, and a request to be sent.
ReadAdded ==
  /\ Reads("added")
  /\ reader' = GetTemplate(PayeeNow)
  /\ UNCHANGED <<stage, initialPay, open, requests, subscribed, job, declined,
                 redisVars, submitVars>>

\* Mutant: try_send, which gives up when the channel is full.
AskNext_GivesUp ==
  /\ reader.kind = "getTemplate"
  /\ requests' = IF open /\ HasRoom THEN Append(requests, reader) ELSE requests
  /\ reader' = Idle
  /\ UNCHANGED <<stage, initialPay, open, subscribed, responses, job, declined,
                 redisVars, submitVars>>

\* send().await: waits for room; an error is ignored.
AskNext ==
  /\ reader.kind = "getTemplate" /\ (open => HasRoom)
  /\ requests' = IF open THEN Append(requests, reader) ELSE requests
  /\ reader' = Idle
  /\ UNCHANGED <<stage, initialPay, open, subscribed, responses, job, declined,
                 redisVars, submitVars>>

---------------------------------------------------------------------------
(* Solved blocks.                                                          *)

\* try_send of a connection that found a block: refused when the channel is
\* full or closed, and nobody looks at the result.
OfferBlock(b) ==
  LET taken == submitOpen /\ Len(submitQ) < SubmitCap IN
  /\ job # NoTemplate
  /\ submitQ' = IF taken THEN Append(submitQ, b) ELSE submitQ
  /\ overflowed' = IF taken THEN overflowed ELSE overflowed \cup {b}
  /\ solved' = solved \cup {b}
  /\ UNCHANGED <<linkVars, readerVars, redisVars, submitOpen, sender, atNode>>

\* The submit task is spawned before the subscription.
TakeBlock ==
  /\ stage # "connect" /\ sender = NoBlock /\ submitQ # <<>>
  /\ sender' = Head(submitQ) /\ submitQ' = Tail(submitQ)
  /\ UNCHANGED <<linkVars, readerVars, redisVars, submitOpen, solved, overflowed,
                 atNode>>

SubmitBlock(b) == [kind |-> "submit", block |-> b]

\* Mutant: try_send, which gives up when the channel is full.
SendBlock_GivesUp ==
  /\ sender # NoBlock
  /\ requests' = IF open /\ HasRoom THEN Append(requests, SubmitBlock(sender))
                 ELSE requests
  /\ sender' = NoBlock
  /\ UNCHANGED <<stage, initialPay, open, subscribed, responses, readerVars,
                 redisVars, submitOpen, submitQ, solved, overflowed, atNode>>

\* send().await: waits for room; without a stream the block is gone.
SendBlock ==
  /\ sender # NoBlock /\ (open => HasRoom)
  /\ requests' = IF open THEN Append(requests, SubmitBlock(sender)) ELSE requests
  /\ sender' = NoBlock
  /\ UNCHANGED <<stage, initialPay, open, subscribed, responses, readerVars,
                 redisVars, submitOpen, submitQ, solved, overflowed, atNode>>

---------------------------------------------------------------------------
(* The node, Redis and the network.                                        *)

Receives(kind) ==
  /\ requests # <<>> /\ Head(requests).kind = kind
  /\ requests' = Tail(requests)

NodeSubscribes ==
  /\ Receives("notify")
  /\ subscribed' = TRUE
  /\ UNCHANGED <<stage, initialPay, open, responses, readerVars, redisVars,
                 submitVars>>

NodeAnswers ==
  /\ Receives("getTemplate")
  /\ responses' = Append(responses, [kind |-> "template", fresh |-> TRUE,
                                     payee |-> Head(requests).payee])
  /\ declined' = FALSE
  /\ UNCHANGED <<stage, initialPay, open, subscribed, reader, job, redisVars,
                 submitVars>>

\* The node is not synced, for instance.
NodeDeclines ==
  /\ faults < MaxFaults /\ faults' = faults + 1
  /\ Receives("getTemplate")
  /\ responses' = Append(responses, NoTemplate)
  /\ declined' = TRUE
  /\ UNCHANGED <<stage, initialPay, open, subscribed, reader, job, redis, conn,
                 submitVars>>

\* Its answer to a submission is only logged.
NodeTakesBlock ==
  /\ Receives("submit")
  /\ atNode' = atNode \cup {Head(requests).block}
  /\ UNCHANGED <<stage, initialPay, open, subscribed, responses, readerVars,
                 redisVars, submitOpen, submitQ, sender, solved, overflowed>>

Outdated(m) == IF m.kind = "template" THEN [m EXCEPT !.fresh = FALSE] ELSE m

AddedUnderWay ==
  Len(SelectSeq(responses, LAMBDA m : m.kind = "added"))

\* A block joins the node's DAG: every template handed out before is outdated,
\* and a subscriber is told.
NodeAddsBlock ==
  /\ AddedUnderWay < MaxAdded
  /\ LET rest == [i \in DOMAIN responses |-> Outdated(responses[i])] IN
     responses' = IF open /\ subscribed THEN Append(rest, Added) ELSE rest
  /\ reader' = Outdated(reader) /\ job' = Outdated(job)
  /\ UNCHANGED <<stage, initialPay, open, requests, subscribed, declined,
                 redisVars, submitVars>>

\* The stream breaks, with all that is under way on it.  Nothing reconnects.
StreamEnds ==
  /\ open /\ faults < MaxFaults /\ faults' = faults + 1
  /\ open' = FALSE /\ requests' = <<>> /\ responses' = <<>>
  /\ UNCHANGED <<stage, initialPay, subscribed, readerVars, redis, conn, submitVars>>

RedisFails ==
  /\ redis /\ faults < MaxFaults
  /\ redis' = FALSE /\ conn' = FALSE /\ faults' = faults + 1
  /\ UNCHANGED <<linkVars, readerVars, submitVars>>

RedisReturns ==
  /\ ~redis
  /\ redis' = TRUE
  /\ UNCHANGED <<linkVars, readerVars, conn, faults, submitVars>>

---------------------------------------------------------------------------
StartUp  == Connect \/ ConnectFails \/ SendNotify \/ ReadAddress \/ AskFirst
Response == ReadTemplate \/ SkipEmpty \/ Register \/ ReadAdded \/ AskNext
Node     == NodeSubscribes \/ NodeAnswers \/ NodeDeclines \/ NodeTakesBlock

UplinkNext ==
  \/ StartUp
  \/ Response
  \/ TakeBlock
  \/ SendBlock
  \/ Node
  \/ NodeAddsBlock
  \/ StreamEnds
  \/ RedisFails
  \/ RedisReturns

---------------------------------------------------------------------------
\* The subscription is sent before the first template is asked for, and each
\* notification asks again: while the stream is up, the job the miners work on
\* is the newest template, or a newer one is on its way, unless the node
\* answered the last request with an error (then nothing asks before the next
\* block).
StaleIsBeingRenewed ==
  stage = "running" /\ open =>
    \/ job.kind = "template" /\ job.fresh
    \/ reader.kind = "getTemplate"
    \/ reader.kind = "template" /\ reader.fresh
    \/ \E i \in DOMAIN requests : requests[i].kind = "getTemplate"
    \/ \E i \in DOMAIN responses :
         \/ responses[i] = Added
         \/ responses[i].kind = "template" /\ responses[i].fresh
    \/ declined

\* A job that pays the address of the configuration because Redis was away is
\* replaced by one that pays the operator, once Redis is back and for as long
\* as the stream lasts.
PayeeRecovers ==
  (job.kind = "template" /\ job.payee = "config")
     ~> (job.kind = "template" /\ job.payee = "operator") \/ ~open

\* A solved block the submit channel took reaches the node, however crowded
\* the request channel is, unless the stream ends.
SolvedReachesNode ==
  \A b \in Blocks :
    (b \in solved \ overflowed) ~> (b \in atNode \/ b \in overflowed \/ ~open)
=============================================================================
