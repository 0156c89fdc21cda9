-------------------------- MODULE BlockPathProofs --------------------------
(***************************************************************************)
(* Proofs about Uplink and BlockPath: the miners' job is the newest one or *)
(* a newer one is on its way; a solved block gets one row, or a record of  *)
(* it is still under way; and no record is dropped on its way.             *)
(***************************************************************************)
EXTENDS BlockPath, QueueLemmas

---------------------------------------------------------------------------
(* What the uplink keeps *)

Asked == \E i \in DOMAIN requests : requests[i].kind = "getTemplate"

Fresh(m) == m.kind = "template" /\ m.fresh
Stale(m) == m.kind = "template" /\ ~m.fresh

Coming == \E i \in DOMAIN responses : responses[i] = Added \/ Fresh(responses[i])

\* Blocks under way to the node are blocks that were solved.
SentInv ==
  /\ \A i \in DOMAIN requests : requests[i].kind = "submit" => requests[i].block \in solved
  /\ Range(submitQ) \subseteq solved
  /\ sender \in solved \cup {NoBlock}

\* Nothing goes to the node before the subscription, and a node that has not
\* seen it has not seen the first request for a template either, which is sent
\* behind it.
StreamInv ==
  /\ job = NoTemplate => solved = {}
  /\ stage \in {"connect", "notify"} => requests = <<>> /\ ~subscribed
  /\ stage \in {"address", "ask", "running"} /\ open /\ ~subscribed =>
       requests # <<>> /\ requests[1] = Notify
  /\ stage = "running" /\ open /\ ~subscribed => Asked

\* Templates are read in the order they were made: none is older than one that
\* was read before it.
FreshInv ==
  /\ Fresh(job) => ~Stale(reader)
  /\ Fresh(job) \/ Fresh(reader) => \A i \in DOMAIN responses : ~Stale(responses[i])
  /\ \A i, j \in DOMAIN responses :
       i < j /\ Fresh(responses[i]) => ~Stale(responses[j])

UplinkInv == UplinkTypeOK /\ SentInv /\ StreamInv /\ FreshInv /\ StaleIsBeingRenewed
---------------------------------------------------------------------------
(* What the records keep *)

\* What the oracle is about to cut off is still there; every block has one row
\* at most, also one that was not solved again.
RecordInv ==
  /\ oracle = "trim" => Len(batch) <= Len(buffer)
  /\ \A b \in Blocks : rows[b] <= 1

BlockPathInv == BlockPathTypeOK /\ UplinkInv /\ RecordInv /\ BlockRecordedOnce
---------------------------------------------------------------------------
(* Messages *)

Messages == Asks \cup Submits \cup {Notify}
Replies  == Templates \cup {Added, NoTemplate}

\* The kinds tell the messages apart.
LEMMA MessageKinds ==
  /\ \A m \in Templates : m.kind = "template"
  /\ \A m \in Asks : m.kind = "getTemplate" /\ m.payee \in Payees
  /\ \A m \in Submits : m.kind = "submit" /\ m.block \in Blocks
  /\ Notify.kind = "notify" /\ Added.kind = "added"
  /\ NoTemplate.kind = "noTemplate" /\ Idle.kind = "idle"
  /\ \A b \in Blocks : SubmitBlock(b) \in Submits /\ SubmitBlock(b).kind = "submit"
                       /\ SubmitBlock(b).block = b
  /\ \A p \in Payees : GetTemplate(p) \in Asks /\ GetTemplate(p).kind = "getTemplate"
BY DEF Templates, Asks, Submits, Notify, Added, NoTemplate, Idle, SubmitBlock, GetTemplate

\* What a block added to the node's DAG makes of a template.
LEMMA OutdatedKinds ==
  /\ \A m \in Templates : Outdated(m) \in Templates /\ ~Fresh(Outdated(m))
  /\ \A m \in Asks \cup {Added, NoTemplate, Idle} : Outdated(m) = m /\ ~Fresh(Outdated(m))
<1>1. ASSUME NEW m \in Templates
      PROVE  Outdated(m) \in Templates /\ ~Fresh(Outdated(m))
  <2>1. m.kind = "template" /\ m.payee \in Payees
    BY DEF Templates
  <2>2. Outdated(m) = [m EXCEPT !.fresh = FALSE]
    BY <2>1 DEF Outdated
  <2>3. [m EXCEPT !.fresh = FALSE] \in Templates
    BY DEF Templates
  <2>4. [m EXCEPT !.fresh = FALSE].fresh = FALSE
    BY DEF Templates
  <2> QED
    BY <2>2, <2>3, <2>4 DEF Fresh
<1>2. ASSUME NEW m \in Asks \cup {Added, NoTemplate, Idle}
      PROVE  Outdated(m) = m /\ ~Fresh(Outdated(m))
  <2>1. m.kind # "template"
    BY MessageKinds
  <2> QED
    BY <2>1 DEF Outdated, Fresh
<1> QED
  BY <1>1, <1>2

\* The template the node answers with.
LEMMA AnswerIsFresh ==
  ASSUME NEW p \in Payees, NEW m, m = [kind |-> "template", fresh |-> TRUE, payee |-> p]
  PROVE  m \in Templates /\ Fresh(m)
BY DEF Templates, Fresh

\* The types, one by one.
LEMMA UplinkTypes ==
  ASSUME UplinkTypeOK
  PROVE  /\ requests \in Seq(Messages) /\ Len(requests) <= RequestCap
         /\ responses \in Seq(Replies)
         /\ submitQ \in Seq(Blocks) /\ Len(submitQ) <= SubmitCap
         /\ reader \in Templates \cup Asks \cup {Idle}
         /\ job \in Templates \cup {NoTemplate}
         /\ RequestCap \in Nat /\ RequestCap >= 1 /\ SubmitCap \in Nat /\ SubmitCap >= 1
         /\ faults \in Int /\ 0 <= faults /\ faults <= MaxFaults /\ MaxFaults \in Nat
         /\ NoBlock \notin Blocks
BY UplinkAssumption DEF UplinkTypeOK, Messages, Replies

\* A request joins the channel.
LEMMA RequestSent ==
  ASSUME UplinkTypeOK, HasRoom, NEW m \in Messages, requests' = Append(requests, m)
  PROVE  /\ requests' \in Seq(Messages) /\ Len(requests') <= RequestCap
         /\ Asked => Asked'
         /\ m.kind = "getTemplate" => Asked'
         /\ requests' # <<>>
         /\ requests = <<>> => requests'[1] = m
         /\ requests # <<>> => requests'[1] = requests[1]
         /\ \A i \in DOMAIN requests' :
              requests'[i] = m \/ (i \in DOMAIN requests /\ requests'[i] = requests[i])
<1>1. requests \in Seq(Messages) /\ Len(requests) <= RequestCap /\ RequestCap \in Nat
  BY UplinkTypes
<1>2. /\ requests' \in Seq(Messages) /\ Len(requests') = Len(requests) + 1
      /\ \A i \in 1 .. Len(requests) : requests'[i] = requests[i]
      /\ requests'[Len(requests) + 1] = m
  BY <1>1, AppendQueue
<1>3. /\ Len(requests) \in Nat /\ DOMAIN requests = 1 .. Len(requests)
      /\ DOMAIN requests' = 1 .. Len(requests) + 1
      /\ requests = <<>> <=> Len(requests) = 0
  BY <1>1, <1>2, Members, EmptyQueue
<1>4. Len(requests') <= RequestCap
  BY <1>1, <1>2, <1>3 DEF HasRoom
<1>5. Asked => Asked'
  BY <1>2, <1>3 DEF Asked
<1>6. m.kind = "getTemplate" => Asked'
  BY <1>2, <1>3 DEF Asked
<1>7. requests' # <<>>
  BY <1>2, <1>3, EmptyQueue
<1>8. /\ requests = <<>> => requests'[1] = m
      /\ requests # <<>> => requests'[1] = requests[1]
  BY <1>2, <1>3
<1>9. \A i \in DOMAIN requests' :
        requests'[i] = m \/ (i \in DOMAIN requests /\ requests'[i] = requests[i])
  <2> TAKE i \in DOMAIN requests'
  <2>1. CASE i = Len(requests) + 1
    BY <1>2, <2>1
  <2>2. CASE i # Len(requests) + 1
    <3>1. i \in 1 .. Len(requests)
      BY <1>3, <2>2
    <3> QED
      BY <1>2, <1>3, <3>1
  <2> QED
    BY <2>1, <2>2
<1> QED
  BY <1>2, <1>4, <1>5, <1>6, <1>7, <1>8, <1>9

\* The node takes a request out of it.
LEMMA RequestTaken ==
  ASSUME UplinkTypeOK, NEW k, Receives(k)
  PROVE  /\ requests' \in Seq(Messages) /\ Len(requests') <= RequestCap
         /\ k # "getTemplate" /\ Asked => Asked'
         /\ requests # <<>> /\ Head(requests) = requests[1] /\ Head(requests) \in Messages
         /\ Head(requests).kind = k /\ 1 \in DOMAIN requests
         /\ \A i \in DOMAIN requests' :
              i + 1 \in DOMAIN requests /\ requests'[i] = requests[i + 1]
<1>1. /\ requests \in Seq(Messages) /\ Len(requests) <= RequestCap /\ RequestCap \in Nat
      /\ requests # <<>> /\ requests' = Tail(requests) /\ Head(requests).kind = k
  BY UplinkTypes DEF Receives
<1>2. /\ Head(requests) = requests[1] /\ Head(requests) \in Messages
      /\ requests' \in Seq(Messages)
      /\ Len(requests) >= 1 /\ Len(requests') = Len(requests) - 1
      /\ \A i \in 1 .. Len(requests) - 1 : requests'[i] = requests[i + 1]
  BY <1>1, TakeQueue
<1>3. /\ Len(requests) \in Nat /\ DOMAIN requests = 1 .. Len(requests)
      /\ DOMAIN requests' = 1 .. Len(requests) - 1
  BY <1>1, <1>2, Members
<1>4. \A i \in DOMAIN requests' :
        i + 1 \in DOMAIN requests /\ requests'[i] = requests[i + 1]
  BY <1>2, <1>3
<1>5. ASSUME k # "getTemplate", NEW i \in DOMAIN requests, requests[i].kind = "getTemplate"
      PROVE  Asked'
  <2>1. i # 1
    BY <1>1, <1>2, <1>5
  <2>2. i - 1 \in DOMAIN requests' /\ requests'[i - 1] = requests[i]
    BY <1>2, <1>3, <2>1
  <2> QED
    BY <1>5, <2>2 DEF Asked
<1> QED
  BY <1>1, <1>2, <1>3, <1>4, <1>5 DEF Asked

\* The node sends a reply.
LEMMA ReplySent ==
  ASSUME UplinkTypeOK, NEW m \in Replies, responses' = Append(responses, m)
  PROVE  /\ responses' \in Seq(Replies)
         /\ Coming => Coming'
         /\ m = Added \/ Fresh(m) => Coming'
         /\ (FreshInv /\ ~Stale(m)) =>
              /\ (\A i \in DOMAIN responses : ~Stale(responses[i])) =>
                   \A i \in DOMAIN responses' : ~Stale(responses'[i])
              /\ \A i, j \in DOMAIN responses' :
                   i < j /\ Fresh(responses'[i]) => ~Stale(responses'[j])
<1>1. responses \in Seq(Replies)
  BY UplinkTypes
<1>2. /\ responses' \in Seq(Replies) /\ Len(responses') = Len(responses) + 1
      /\ \A i \in 1 .. Len(responses) : responses'[i] = responses[i]
      /\ responses'[Len(responses) + 1] = m
  BY <1>1, AppendQueue
<1>3. /\ Len(responses) \in Nat /\ DOMAIN responses = 1 .. Len(responses)
      /\ DOMAIN responses' = 1 .. Len(responses) + 1
  BY <1>1, <1>2, Members
<1>4. Coming => Coming'
  BY <1>2, <1>3 DEF Coming
<1>5. m = Added \/ Fresh(m) => Coming'
  BY <1>2, <1>3 DEF Coming
<1>6. ASSUME ~Stale(m), \A i \in DOMAIN responses : ~Stale(responses[i]),
             NEW i \in DOMAIN responses'
      PROVE  ~Stale(responses'[i])
  BY <1>2, <1>3, <1>6
<1>7. ASSUME FreshInv, ~Stale(m), NEW i \in DOMAIN responses', NEW j \in DOMAIN responses',
             i < j, Fresh(responses'[i])
      PROVE  ~Stale(responses'[j])
  <2>1. CASE j = Len(responses) + 1
    BY <1>2, <1>7, <2>1
  <2>2. CASE j # Len(responses) + 1
    <3>1. i \in DOMAIN responses /\ j \in DOMAIN responses
      BY <1>3, <1>7, <2>2
    <3>2. responses'[i] = responses[i] /\ responses'[j] = responses[j]
      BY <1>2, <1>3, <3>1
    <3> QED
      BY <1>7, <3>1, <3>2 DEF FreshInv
  <2> QED
    BY <2>1, <2>2
<1> QED
  BY <1>2, <1>4, <1>5, <1>6, <1>7

\* The response task takes a reply.
LEMMA ReplyRead ==
  ASSUME UplinkTypeOK, NEW k, Reads(k)
  PROVE  /\ responses' \in Seq(Replies)
         /\ stage = "running" /\ reader = Idle
         /\ 1 \in DOMAIN responses /\ responses # <<>>
         /\ Head(responses) = responses[1] /\ Head(responses) \in Replies
         /\ Head(responses).kind = k
         /\ Coming => Coming' \/ Head(responses) = Added \/ Fresh(Head(responses))
         /\ \A i \in DOMAIN responses' :
              i + 1 \in DOMAIN responses /\ i \in Int /\ i >= 1
              /\ responses'[i] = responses[i + 1]
<1>1. /\ responses \in Seq(Replies) /\ stage = "running" /\ reader = Idle
      /\ responses # <<>> /\ responses' = Tail(responses) /\ Head(responses).kind = k
  BY UplinkTypes DEF Reads
<1>2. /\ Head(responses) = responses[1] /\ Head(responses) \in Replies
      /\ responses' \in Seq(Replies)
      /\ Len(responses) >= 1 /\ Len(responses') = Len(responses) - 1
      /\ \A i \in 1 .. Len(responses) - 1 : responses'[i] = responses[i + 1]
  BY <1>1, TakeQueue
<1>3. /\ Len(responses) \in Nat /\ DOMAIN responses = 1 .. Len(responses)
      /\ DOMAIN responses' = 1 .. Len(responses) - 1
  BY <1>1, <1>2, Members
<1>4. \A i \in DOMAIN responses' :
        i + 1 \in DOMAIN responses /\ i \in Int /\ i >= 1
        /\ responses'[i] = responses[i + 1]
  BY <1>2, <1>3
<1>5. ASSUME NEW i \in DOMAIN responses, responses[i] = Added \/ Fresh(responses[i])
      PROVE  Coming' \/ Head(responses) = Added \/ Fresh(Head(responses))
  <2>1. CASE i = 1
    BY <1>2, <1>5, <2>1
  <2>2. CASE i # 1
    <3>1. i - 1 \in DOMAIN responses' /\ responses'[i - 1] = responses[i]
      BY <1>2, <1>3, <2>2
    <3> QED
      BY <1>5, <3>1 DEF Coming
  <2> QED
    BY <2>1, <2>2
<1> QED
  BY <1>1, <1>2, <1>3, <1>4, <1>5 DEF Coming

\* The order of the templates, when the first reply is taken off.
LEMMA OrderRead ==
  ASSUME UplinkTypeOK, FreshInv, NEW k, Reads(k)
  PROVE  /\ \A i, j \in DOMAIN responses' :
              i < j /\ Fresh(responses'[i]) => ~Stale(responses'[j])
         /\ Fresh(job) \/ Fresh(Head(responses)) =>
              \A i \in DOMAIN responses' : ~Stale(responses'[i])
         /\ Fresh(job) => ~Stale(Head(responses))
<1>1. /\ 1 \in DOMAIN responses /\ Head(responses) = responses[1]
      /\ \A i \in DOMAIN responses' :
           i + 1 \in DOMAIN responses /\ i \in Int /\ i >= 1
           /\ responses'[i] = responses[i + 1]
  BY ReplyRead
<1>2. ASSUME NEW i \in DOMAIN responses', NEW j \in DOMAIN responses', i < j,
             Fresh(responses'[i])
      PROVE  ~Stale(responses'[j])
  <2>1. i + 1 < j + 1
    BY <1>1, <1>2
  <2> QED
    BY <1>1, <1>2, <2>1 DEF FreshInv
<1>3. ASSUME Fresh(job) \/ Fresh(Head(responses)), NEW i \in DOMAIN responses'
      PROVE  ~Stale(responses'[i])
  <2>1. 1 < i + 1 /\ i + 1 \in DOMAIN responses /\ responses'[i] = responses[i + 1]
    BY <1>1
  <2> QED
    BY <1>1, <1>3, <2>1 DEF FreshInv
<1>4. Fresh(job) => ~Stale(Head(responses))
  BY <1>1 DEF FreshInv
<1> QED
  BY <1>2, <1>3, <1>4

\* The invariant that is checked, in the words of this module.
LEMMA RenewedIs ==
  StaleIsBeingRenewed <=>
    (stage = "running" /\ open =>
       \/ Fresh(job) \/ Fresh(reader) \/ reader.kind = "getTemplate"
       \/ Asked \/ Coming \/ declined)
BY DEF StaleIsBeingRenewed, Fresh, Asked, Coming

---------------------------------------------------------------------------
(* The actions of the uplink *)

\* What a step that leaves a part alone keeps of it.
LEMMA SentRests ==
  ASSUME SentInv, UNCHANGED <<requests, submitQ, sender, solved>>
  PROVE  SentInv'
BY DEF SentInv

\* The same, of the templates' order.
LEMMA FreshRests ==
  ASSUME FreshInv, UNCHANGED <<responses, reader, job>>
  PROVE  FreshInv'
BY DEF FreshInv

\* Blocks under way stay solved ones when a request joins the channel that is
\* no submission.
LEMMA SentGrows ==
  ASSUME UplinkTypeOK, SentInv, HasRoom, NEW m \in Messages, m.kind # "submit",
         requests' = Append(requests, m), UNCHANGED <<submitQ, sender, solved>>
  PROVE  SentInv'
<1>1. \A i \in DOMAIN requests' :
        requests'[i] = m \/ (i \in DOMAIN requests /\ requests'[i] = requests[i])
  BY RequestSent
<1> QED
  BY <1>1 DEF SentInv

\* ... and when one is taken out of it.
LEMMA SentShrinks ==
  ASSUME UplinkTypeOK, SentInv, NEW k, Receives(k), UNCHANGED <<submitQ, sender, solved>>
  PROVE  SentInv'
<1>1. \A i \in DOMAIN requests' :
        i + 1 \in DOMAIN requests /\ requests'[i] = requests[i + 1]
  BY RequestTaken
<1> QED
  BY <1>1 DEF SentInv

\* Start-up up to the first request for a template.
LEMMA KeptByConnect ==
  ASSUME UplinkInv, Connect \/ ConnectFails
  PROVE  UplinkInv'
<1>1. stage = "connect" /\ stage' \in {"notify", "failed"} /\ UNCHANGED <<requests, responses>>
  BY DEF Connect, ConnectFails
<1>2. UNCHANGED <<initialPay, subscribed, reader, job, declined, redis, conn, faults,
                  sender, solved, overflowed, atNode>>
  BY DEF Connect, ConnectFails, readerVars, redisVars, submitVars
<1>3. /\ open' \in BOOLEAN /\ submitOpen' \in BOOLEAN /\ requests = <<>>
      /\ \/ open' = TRUE
         \/ open' = open
      /\ \/ submitQ' = submitQ
         \/ submitQ' = <<>>
  BY DEF Connect, ConnectFails, UplinkInv, UplinkTypeOK, StreamInv, submitVars
<1>4. submitQ' \in Seq(Blocks) /\ Len(submitQ') <= SubmitCap /\ Range(submitQ') \subseteq solved
  <2>1. submitQ \in Seq(Blocks) /\ Len(submitQ) <= SubmitCap /\ Range(submitQ) \subseteq solved
    BY UplinkTypes DEF UplinkInv, SentInv
  <2>2. <<>> \in Seq(Blocks) /\ Len(<<>>) = 0 /\ Range(<<>>) = {}
    BY EmptyQueue
  <2>3. 0 <= SubmitCap
    BY UplinkTypes DEF UplinkInv
  <2> QED
    BY <1>3, <2>1, <2>2, <2>3
<1>5. UplinkTypeOK'
  BY <1>1, <1>2, <1>3, <1>4 DEF UplinkInv, UplinkTypeOK
<1>6. SentInv'
  BY <1>1, <1>2, <1>4 DEF UplinkInv, SentInv
<1>7. StreamInv'
  BY <1>1, <1>2, <1>3 DEF UplinkInv, StreamInv
<1>8. FreshInv'
  BY <1>1, <1>2, FreshRests DEF UplinkInv
<1>9. StaleIsBeingRenewed'
  BY <1>1 DEF StaleIsBeingRenewed
<1> QED
  BY <1>5, <1>6, <1>7, <1>8, <1>9 DEF UplinkInv

\* The subscription is the first thing that goes to the node: nothing was solved
\* yet, so no block is before it.
LEMMA KeptBySendNotify ==
  ASSUME UplinkInv, SendNotify
  PROVE  UplinkInv'
<1>1. stage = "notify" /\ stage' \in {"address", "failed"} /\ requests = <<>>
  BY DEF SendNotify, StartupSend, UplinkInv, StreamInv
<1>2. UNCHANGED <<initialPay, open, subscribed, responses, reader, job, declined, redis,
                  conn, faults, submitOpen, submitQ, sender, solved, overflowed, atNode>>
  BY DEF SendNotify, readerVars, redisVars, submitVars
<1>3. Notify \in Messages /\ Notify.kind = "notify"
  BY MessageKinds DEF Messages
<1>4. \/ open /\ HasRoom /\ requests' = Append(requests, Notify) /\ stage' = "address"
      \/ ~open /\ requests' = requests /\ stage' = "failed"
  BY DEF SendNotify, StartupSend
<1>5. requests' \in Seq(Messages) /\ Len(requests') <= RequestCap
      /\ (open => requests' # <<>> /\ requests'[1] = Notify)
  BY <1>1, <1>3, <1>4, RequestSent, UplinkTypes DEF UplinkInv
<1>6. UplinkTypeOK'
  BY <1>1, <1>2, <1>4, <1>5 DEF UplinkInv, UplinkTypeOK, Messages
<1>7. SentInv'
  BY <1>2, <1>3, <1>4, SentGrows, SentRests DEF UplinkInv
<1>8. StreamInv'
  BY <1>1, <1>2, <1>5 DEF UplinkInv, StreamInv
<1>9. FreshInv'
  BY <1>2, FreshRests DEF UplinkInv
<1>10. StaleIsBeingRenewed'
  BY <1>1 DEF StaleIsBeingRenewed
<1> QED
  BY <1>6, <1>7, <1>8, <1>9, <1>10 DEF UplinkInv

\* The address of the operator is read before the first template is asked for.
LEMMA KeptByReadAddress ==
  ASSUME UplinkInv, ReadAddress
  PROVE  UplinkInv'
<1>1. stage = "address" /\ stage' = "ask" /\ initialPay' \in Payees
  BY DEF ReadAddress, PayeeNow, Payees
<1>2. UNCHANGED <<open, requests, subscribed, responses, reader, job, declined, redis,
                  conn, faults, submitOpen, submitQ, sender, solved, overflowed, atNode>>
  BY DEF ReadAddress, readerVars, redisVars, submitVars
<1>3. UplinkTypeOK'
  BY <1>1, <1>2 DEF UplinkInv, UplinkTypeOK
<1>4. SentInv'
  BY <1>2, SentRests DEF UplinkInv
<1>5. StreamInv'
  BY <1>1, <1>2 DEF UplinkInv, StreamInv
<1>6. FreshInv'
  BY <1>2, FreshRests DEF UplinkInv
<1>7. StaleIsBeingRenewed'
  BY <1>1 DEF StaleIsBeingRenewed
<1> QED
  BY <1>3, <1>4, <1>5, <1>6, <1>7 DEF UplinkInv

\* The first request for a template: from here on one is on its way.
LEMMA KeptByAskFirst ==
  ASSUME UplinkInv, AskFirst
  PROVE  UplinkInv'
<1>1. PICK m : m = GetTemplate(initialPay)
  OBVIOUS
<1>2. m \in Messages /\ m.kind = "getTemplate"
  BY <1>1, MessageKinds DEF UplinkInv, UplinkTypeOK, Messages
<1>3. UNCHANGED <<initialPay, open, subscribed, responses, reader, job, declined, redis,
                  conn, faults, submitOpen, submitQ, sender, solved, overflowed, atNode>>
  BY DEF AskFirst, readerVars, redisVars, submitVars
<1>4. /\ stage = "ask"
      /\ \/ open /\ HasRoom /\ requests' = Append(requests, m) /\ stage' = "running"
         \/ ~open /\ requests' = requests /\ stage' = "failed"
  BY <1>1 DEF AskFirst, StartupSend
<1>5. /\ requests' \in Seq(Messages) /\ Len(requests') <= RequestCap
      /\ open => Asked' /\ requests' # <<>>
      /\ open /\ requests # <<>> => requests'[1] = requests[1]
  BY <1>2, <1>4, RequestSent, UplinkTypes DEF UplinkInv
<1>6. UplinkTypeOK'
  BY <1>3, <1>4, <1>5 DEF UplinkInv, UplinkTypeOK, Messages
<1>7. SentInv'
  BY <1>2, <1>3, <1>4, SentGrows, SentRests DEF UplinkInv
<1>8. StreamInv'
  BY <1>3, <1>4, <1>5 DEF UplinkInv, StreamInv
<1>9. FreshInv'
  BY <1>3, FreshRests DEF UplinkInv
<1>10. StaleIsBeingRenewed'
  BY <1>3, <1>4, <1>5 DEF StaleIsBeingRenewed, Asked
<1> QED
  BY <1>6, <1>7, <1>8, <1>9, <1>10 DEF UplinkInv

\* The response task takes a template, or skips an empty answer.
LEMMA KeptByReading ==
  ASSUME UplinkInv, ReadTemplate \/ SkipEmpty \/ ReadAdded
  PROVE  UplinkInv'
<1>1. PICK h : h = Head(responses)
  OBVIOUS
<1>2. PICK k \in {"template", "noTemplate", "added"} :
        /\ Reads(k)
        /\ k = "template" => reader' = h
        /\ k = "noTemplate" => reader' = reader
        /\ k = "added" => reader' = GetTemplate(PayeeNow)
  BY <1>1 DEF ReadTemplate, SkipEmpty, ReadAdded, readerVars
<1>3. UNCHANGED <<stage, initialPay, open, requests, subscribed, job, declined, redis,
                  conn, faults, submitOpen, submitQ, sender, solved, overflowed, atNode>>
  BY DEF ReadTemplate, SkipEmpty, ReadAdded, readerVars, redisVars, submitVars
<1>4. /\ responses' \in Seq(Replies) /\ stage = "running" /\ reader = Idle
      /\ responses # <<>> /\ h \in Replies /\ h.kind = k
      /\ Coming => Coming' \/ h = Added \/ Fresh(h)
  BY <1>1, <1>2, ReplyRead DEF UplinkInv
<1>5. /\ k = "template" => h \in Templates
      /\ k = "noTemplate" => h = NoTemplate
      /\ h = Added => k = "added"
      /\ Fresh(h) => k = "template"
  BY <1>2, <1>4, MessageKinds DEF Replies, Fresh
<1>6. /\ k = "added" => reader' \in Asks /\ reader'.kind = "getTemplate"
      /\ reader' \in Templates \cup Asks \cup {Idle}
  BY <1>2, <1>4, <1>5, MessageKinds DEF PayeeNow, Payees
<1>7. UplinkTypeOK'
  BY <1>3, <1>4, <1>6 DEF UplinkInv, UplinkTypeOK, Replies
<1>8. SentInv'
  BY <1>3, SentRests DEF UplinkInv
<1>9. StreamInv'
  BY <1>3 DEF UplinkInv, StreamInv, Asked
<1>10. FreshInv'
  <2>1. /\ \A i, j \in DOMAIN responses' :
             i < j /\ Fresh(responses'[i]) => ~Stale(responses'[j])
        /\ Fresh(job) \/ Fresh(h) => \A i \in DOMAIN responses' : ~Stale(responses'[i])
        /\ Fresh(job) => ~Stale(h)
    BY <1>1, <1>2, OrderRead DEF UplinkInv
  <2>2. ~Fresh(reader)
    BY <1>4, MessageKinds DEF Fresh
  <2>3. k # "template" => ~Fresh(reader') /\ ~Stale(reader')
    BY <1>2, <1>4, <1>6, MessageKinds DEF Fresh, Stale
  <2>4. Fresh(job') => ~Stale(reader')
    BY <1>2, <1>3, <2>1, <2>3
  <2>5. Fresh(job') \/ Fresh(reader') => \A i \in DOMAIN responses' : ~Stale(responses'[i])
    BY <1>2, <1>3, <2>1, <2>3
  <2>6. \A i, j \in DOMAIN responses' :
          i < j /\ Fresh(responses[i])' => ~Stale(responses[j])'
    BY <2>1 DEF Fresh, Stale
  <2> QED
    BY <2>4, <2>5, <2>6 DEF FreshInv, Fresh, Stale
<1>11. StaleIsBeingRenewed'
  <2>1. open => \/ Fresh(job) \/ Asked \/ declined \/ Coming' \/ h = Added \/ Fresh(h)
    BY <1>4, MessageKinds, RenewedIs DEF UplinkInv, Fresh
  <2>2. h = Added => reader'.kind = "getTemplate"
    BY <1>5, <1>6
  <2>3. Fresh(h) => Fresh(reader')
    BY <1>2, <1>5
  <2>4. open' => \/ Fresh(job') \/ Asked' \/ declined' \/ Coming' \/ Fresh(reader')
                 \/ reader'.kind = "getTemplate"
    BY <1>3, <2>1, <2>2, <2>3 DEF Asked
  <2> QED
    BY <2>4 DEF StaleIsBeingRenewed, Fresh, Asked, Coming
<1> QED
  BY <1>7, <1>8, <1>9, <1>10, <1>11 DEF UplinkInv

\* The template becomes the job; it is no older than the one before.
LEMMA KeptByRegister ==
  ASSUME UplinkInv, Register
  PROVE  UplinkInv' /\ (conn => conn')
<1>1. /\ reader.kind = "template" /\ job' = reader /\ reader' = Idle
      /\ conn' = (conn \/ redis)
  BY DEF Register
<1>2. UNCHANGED <<stage, initialPay, open, requests, subscribed, responses, declined, redis,
                  faults, submitOpen, submitQ, sender, solved, overflowed, atNode>>
  BY DEF Register, linkVars, submitVars
<1>3. reader \in Templates /\ stage = "running" /\ reader # Idle
  BY <1>1, MessageKinds DEF UplinkInv, UplinkTypeOK
<1>4. conn \in BOOLEAN /\ redis \in BOOLEAN /\ (conn => redis)
  BY DEF UplinkInv, UplinkTypeOK
<1>5. /\ conn' \in BOOLEAN
      /\ conn' => redis
      /\ conn => conn'
  BY <1>1, <1>4
<1>6. UplinkTypeOK'
  BY <1>1, <1>2, <1>3, <1>5 DEF UplinkInv, UplinkTypeOK
<1>7. SentInv'
  BY <1>2, SentRests DEF UplinkInv
<1>8. StreamInv'
  BY <1>1, <1>2, <1>3, MessageKinds DEF UplinkInv, StreamInv, Asked
<1>9. ~Fresh(Idle) /\ ~Stale(Idle)
  BY MessageKinds DEF Fresh, Stale
<1>10. FreshInv'
  BY <1>1, <1>2, <1>9 DEF UplinkInv, FreshInv, Fresh, Stale
<1>11. StaleIsBeingRenewed'
  <2>1. open => Fresh(job) \/ Fresh(reader) \/ Asked \/ Coming \/ declined
    BY <1>1, <1>3, RenewedIs DEF UplinkInv
  <2>2. Fresh(job) => Fresh(reader)
    BY <1>1 DEF UplinkInv, FreshInv, Fresh, Stale
  <2> QED
    BY <1>1, <1>2, <2>1, <2>2 DEF StaleIsBeingRenewed, Fresh, Asked, Coming
<1> QED
  BY <1>5, <1>6, <1>7, <1>8, <1>10, <1>11 DEF UplinkInv

\* The request that a notification made goes out, or the stream is gone.
LEMMA KeptByAskNext ==
  ASSUME UplinkInv, AskNext
  PROVE  UplinkInv'
<1>1. /\ reader.kind = "getTemplate" /\ reader' = Idle
      /\ \/ open /\ HasRoom /\ requests' = Append(requests, reader)
         \/ ~open /\ requests' = requests
  BY DEF AskNext
<1>2. UNCHANGED <<stage, initialPay, open, subscribed, responses, job, declined, redis,
                  conn, faults, submitOpen, submitQ, sender, solved, overflowed, atNode>>
  BY DEF AskNext, redisVars, submitVars
<1>3. reader \in Asks /\ reader \in Messages /\ reader # Idle /\ stage = "running"
  BY <1>1, MessageKinds DEF UplinkInv, UplinkTypeOK, Messages
<1>4. /\ requests' \in Seq(Messages) /\ Len(requests') <= RequestCap
      /\ open => Asked' /\ requests' # <<>>
      /\ open /\ requests # <<>> => requests'[1] = requests[1]
  BY <1>1, <1>3, RequestSent, UplinkTypes DEF UplinkInv
<1>5. UplinkTypeOK'
  BY <1>1, <1>2, <1>4 DEF UplinkInv, UplinkTypeOK, Messages
<1>6. SentInv'
  BY <1>1, <1>2, <1>3, SentGrows, SentRests DEF UplinkInv
<1>7. StreamInv'
  BY <1>2, <1>3, <1>4 DEF UplinkInv, StreamInv
<1>8. ~Fresh(Idle) /\ ~Stale(Idle) /\ ~Fresh(reader) /\ ~Stale(reader)
  BY <1>1, MessageKinds DEF Fresh, Stale
<1>9. FreshInv'
  BY <1>1, <1>2, <1>8 DEF UplinkInv, FreshInv, Fresh, Stale
<1>10. StaleIsBeingRenewed'
  BY <1>2, <1>4 DEF StaleIsBeingRenewed, Asked
<1> QED
  BY <1>5, <1>6, <1>7, <1>9, <1>10 DEF UplinkInv

\* The submit task takes a block from its channel.
LEMMA KeptByTakeBlock ==
  ASSUME UplinkInv, TakeBlock
  PROVE  UplinkInv'
<1>1. /\ submitQ # <<>> /\ sender' = Head(submitQ) /\ submitQ' = Tail(submitQ)
      /\ UNCHANGED <<stage, initialPay, open, requests, subscribed, responses, reader, job,
                     declined, redis, conn, faults, submitOpen, solved, overflowed, atNode>>
  BY DEF TakeBlock, linkVars, readerVars, redisVars
<1>2. /\ sender' \in Blocks /\ sender' \in Range(submitQ) /\ submitQ' \in Seq(Blocks)
      /\ Len(submitQ') = Len(submitQ) - 1 /\ Len(submitQ) \in Nat
      /\ Range(submitQ') \subseteq Range(submitQ)
  BY <1>1, UplinkTypes, TakeQueue, Members DEF UplinkInv
<1>3. Len(submitQ') <= SubmitCap
  BY <1>2, UplinkTypes DEF UplinkInv
<1>4. UplinkTypeOK'
  BY <1>1, <1>2, <1>3 DEF UplinkInv, UplinkTypeOK
<1>5. SentInv'
  BY <1>1, <1>2 DEF UplinkInv, SentInv
<1>6. StreamInv'
  BY <1>1 DEF UplinkInv, StreamInv, Asked
<1>7. FreshInv'
  BY <1>1, FreshRests DEF UplinkInv
<1>8. StaleIsBeingRenewed'
  BY <1>1 DEF UplinkInv, StaleIsBeingRenewed
<1> QED
  BY <1>4, <1>5, <1>6, <1>7, <1>8 DEF UplinkInv

\* ... and sends it, behind the requests that are in the channel.
LEMMA KeptBySendBlock ==
  ASSUME UplinkInv, SendBlock
  PROVE  UplinkInv'
<1>1. PICK m : m = SubmitBlock(sender)
  OBVIOUS
<1>2. /\ sender # NoBlock /\ sender' = NoBlock
      /\ \/ open /\ HasRoom /\ requests' = Append(requests, m)
         \/ ~open /\ requests' = requests
      /\ UNCHANGED <<stage, initialPay, open, subscribed, responses, reader, job, declined,
                     redis, conn, faults, submitOpen, submitQ, solved, overflowed, atNode>>
  BY <1>1 DEF SendBlock, readerVars, redisVars
<1>3. sender \in Blocks /\ sender \in solved
  BY <1>2 DEF UplinkInv, UplinkTypeOK, SentInv
<1>4. m \in Messages /\ m.kind = "submit" /\ m.block = sender
  BY <1>1, <1>3, MessageKinds DEF Messages
<1>5. /\ requests' \in Seq(Messages) /\ Len(requests') <= RequestCap
      /\ Asked => Asked'
      /\ requests # <<>> => requests' # <<>> /\ requests'[1] = requests[1]
      /\ \A i \in DOMAIN requests' :
           requests'[i] = m \/ (i \in DOMAIN requests /\ requests'[i] = requests[i])
  <2>1. CASE open
    BY <1>2, <1>4, <2>1, RequestSent DEF UplinkInv
  <2>2. CASE ~open
    BY <1>2, <2>2, UplinkTypes DEF UplinkInv, Asked
  <2> QED
    BY <2>1, <2>2
<1>6. UplinkTypeOK'
  BY <1>2, <1>5 DEF UplinkInv, UplinkTypeOK, Messages
<1>7. SentInv'
  BY <1>2, <1>3, <1>4, <1>5 DEF UplinkInv, SentInv
<1>8. StreamInv'
  <2>1. sender = NoBlock \/ job # NoTemplate
    BY <1>3 DEF UplinkInv, StreamInv
  <2>2. stage \notin {"connect", "notify"}
    BY <1>2, <2>1 DEF UplinkInv, UplinkTypeOK
  <2> QED
    BY <1>2, <1>5, <2>2 DEF UplinkInv, StreamInv
<1>9. FreshInv'
  BY <1>2, FreshRests DEF UplinkInv
<1>10. StaleIsBeingRenewed'
  BY <1>2, <1>5 DEF UplinkInv, StaleIsBeingRenewed, Asked
<1> QED
  BY <1>6, <1>7, <1>8, <1>9, <1>10 DEF UplinkInv

\* The node sees the subscription: from here on it tells of every block added.
LEMMA KeptByNodeSubscribes ==
  ASSUME UplinkInv, NodeSubscribes
  PROVE  UplinkInv'
<1>1. Receives("notify") /\ subscribed' = TRUE
  BY DEF NodeSubscribes
<1>2. UNCHANGED <<stage, initialPay, open, responses, reader, job, declined, redis, conn,
                  faults, submitOpen, submitQ, sender, solved, overflowed, atNode>>
  BY DEF NodeSubscribes, readerVars, redisVars, submitVars
<1>3. /\ requests' \in Seq(Messages) /\ Len(requests') <= RequestCap
      /\ Asked => Asked'
      /\ requests # <<>>
  BY <1>1, RequestTaken DEF UplinkInv
<1>4. open /\ stage \notin {"connect", "notify"}
  BY <1>3 DEF UplinkInv, UplinkTypeOK, StreamInv
<1>5. UplinkTypeOK'
  BY <1>1, <1>2, <1>3, <1>4 DEF UplinkInv, UplinkTypeOK, Messages
<1>6. SentInv'
  BY <1>1, <1>2, SentShrinks DEF UplinkInv
<1>7. StreamInv'
  BY <1>1, <1>2, <1>3, <1>4 DEF UplinkInv, StreamInv
<1>8. FreshInv'
  BY <1>2, FreshRests DEF UplinkInv
<1>9. StaleIsBeingRenewed'
  BY <1>2, <1>3 DEF UplinkInv, StaleIsBeingRenewed, Asked
<1> QED
  BY <1>5, <1>6, <1>7, <1>8, <1>9 DEF UplinkInv

\* A request for a template is answered with the newest one or declined; the
\* subscription was before it.
LEMMA KeptByAnswer ==
  ASSUME UplinkInv, NodeAnswers \/ NodeDeclines
  PROVE  UplinkInv'
<1>1. PICK h : h = Head(requests)
  OBVIOUS
<1>2. PICK m : \/ /\ m = [kind |-> "template", fresh |-> TRUE, payee |-> h.payee]
                  /\ NodeAnswers
               \/ m = NoTemplate /\ NodeDeclines
  OBVIOUS
<1>3. /\ Receives("getTemplate") /\ responses' = Append(responses, m)
      /\ faults' \in {faults, faults + 1} /\ (faults' # faults => faults < MaxFaults)
      /\ UNCHANGED <<stage, initialPay, open, subscribed, reader, job, redis, conn,
                     submitOpen, submitQ, sender, solved, overflowed, atNode>>
  BY <1>1, <1>2 DEF NodeAnswers, NodeDeclines, redisVars, submitVars
<1>4. /\ requests' \in Seq(Messages) /\ Len(requests') <= RequestCap
      /\ requests # <<>> /\ h = requests[1] /\ h \in Messages /\ h.kind = "getTemplate"
  BY <1>1, <1>3, RequestTaken DEF UplinkInv
<1>5. h.payee \in Payees /\ h # Notify
  BY <1>4, MessageKinds DEF Messages
<1>6. m \in Replies /\ ~Stale(m) /\ (Fresh(m) \/ NodeDeclines)
  BY <1>2, <1>5, AnswerIsFresh, MessageKinds DEF Replies, Fresh, Stale
<1>7. /\ responses' \in Seq(Replies)
      /\ Coming => Coming'
      /\ Fresh(m) => Coming'
      /\ (\A i \in DOMAIN responses : ~Stale(responses[i])) =>
           \A i \in DOMAIN responses' : ~Stale(responses'[i])
      /\ \A i, j \in DOMAIN responses' :
           i < j /\ Fresh(responses'[i]) => ~Stale(responses'[j])
  BY <1>3, <1>6, ReplySent DEF UplinkInv
<1>8. open /\ stage \notin {"connect", "notify"} /\ (stage = "running" => subscribed)
      /\ (stage \in {"address", "ask"} => subscribed)
  BY <1>4, <1>5 DEF UplinkInv, UplinkTypeOK, StreamInv
<1>9. UplinkTypeOK'
  <2>1. declined' \in BOOLEAN
    BY <1>2 DEF NodeAnswers, NodeDeclines
  <2>2. faults' \in 0 .. MaxFaults
    BY <1>3, UplinkTypes DEF UplinkInv
  <2> QED
    BY <1>3, <1>4, <1>7, <1>8, <2>1, <2>2 DEF UplinkInv, UplinkTypeOK, Messages, Replies
<1>10. SentInv'
  BY <1>3, SentShrinks DEF UplinkInv
<1>11. StreamInv'
  BY <1>3, <1>8 DEF UplinkInv, StreamInv
<1>12. FreshInv'
  <2>1. Fresh(job) \/ Fresh(reader) => \A i \in DOMAIN responses : ~Stale(responses[i])
    BY DEF UplinkInv, FreshInv
  <2> QED
    BY <1>3, <1>7, <2>1 DEF UplinkInv, FreshInv, Fresh, Stale
<1>13. StaleIsBeingRenewed'
  <2>1. CASE Fresh(m)
    BY <1>7, <2>1 DEF StaleIsBeingRenewed, Coming, Fresh
  <2>2. CASE NodeDeclines
    BY <2>2 DEF StaleIsBeingRenewed, NodeDeclines
  <2> QED
    BY <1>6, <2>1, <2>2
<1> QED
  BY <1>9, <1>10, <1>11, <1>12, <1>13 DEF UplinkInv

\* The node takes a solved block.
LEMMA KeptByNodeTakesBlock ==
  ASSUME UplinkInv, NodeTakesBlock
  PROVE  UplinkInv'
<1>1. PICK h : h = Head(requests)
  OBVIOUS
<1>2. Receives("submit") /\ atNode' = atNode \cup {h.block}
  BY <1>1 DEF NodeTakesBlock
<1>3. UNCHANGED <<stage, initialPay, open, subscribed, responses, reader, job, declined,
                  redis, conn, faults, submitOpen, submitQ, sender, solved, overflowed>>
  BY DEF NodeTakesBlock, readerVars, redisVars
<1>4. /\ requests' \in Seq(Messages) /\ Len(requests') <= RequestCap
      /\ Asked => Asked'
      /\ requests # <<>> /\ 1 \in DOMAIN requests
      /\ h = requests[1] /\ h.kind = "submit"
  BY <1>1, <1>2, RequestTaken DEF UplinkInv
<1>5. h.block \in solved /\ h # Notify
  BY <1>4, MessageKinds DEF UplinkInv, SentInv
<1>6. open /\ stage \notin {"connect", "notify"}
      /\ (stage \in {"address", "ask", "running"} => subscribed)
  BY <1>4, <1>5 DEF UplinkInv, UplinkTypeOK, StreamInv
<1>7. UplinkTypeOK'
  BY <1>2, <1>3, <1>4, <1>5, <1>6 DEF UplinkInv, UplinkTypeOK, Messages
<1>8. SentInv'
  BY <1>2, <1>3, SentShrinks DEF UplinkInv
<1>9. StreamInv'
  BY <1>3, <1>6 DEF UplinkInv, StreamInv
<1>10. FreshInv'
  BY <1>3, FreshRests DEF UplinkInv
<1>11. StaleIsBeingRenewed'
  BY <1>3, <1>4 DEF UplinkInv, StaleIsBeingRenewed, Asked
<1> QED
  BY <1>7, <1>8, <1>9, <1>10, <1>11 DEF UplinkInv

\* A block is added: no template is the newest any more, but a subscriber is told,
\* and a node that has not seen the subscription has not seen the first request.
LEMMA KeptByNodeAddsBlock ==
  ASSUME UplinkInv, NodeAddsBlock
  PROVE  UplinkInv'
<1>1. PICK rest : rest = [i \in DOMAIN responses |-> Outdated(responses[i])]
  OBVIOUS
<1>2. /\ responses' = IF open /\ subscribed THEN Append(rest, Added) ELSE rest
      /\ reader' = Outdated(reader) /\ job' = Outdated(job)
      /\ UNCHANGED <<stage, initialPay, open, requests, subscribed, declined, redis, conn,
                     faults, submitOpen, submitQ, sender, solved, overflowed, atNode>>
  BY <1>1 DEF NodeAddsBlock, redisVars, submitVars
<1>3. /\ responses \in Seq(Replies) /\ reader \in Templates \cup Asks \cup {Idle}
      /\ job \in Templates \cup {NoTemplate}
  BY UplinkTypes DEF UplinkInv
<1>4. Len(responses) \in Nat /\ DOMAIN responses = 1 .. Len(responses)
      /\ \A i \in DOMAIN responses : responses[i] \in Replies
  BY <1>3, Members
<1>5. \A m \in Replies : Outdated(m) \in Replies /\ ~Fresh(Outdated(m))
  BY OutdatedKinds DEF Replies
<1>6. rest \in Seq(Replies) /\ Len(rest) = Len(responses)
  <2>1. rest \in [1 .. Len(responses) -> Replies]
    BY <1>1, <1>4, <1>5
  <2> QED
    BY <1>4, <2>1, FunctionIsQueue
<1>7. \A i \in 1 .. Len(rest) : ~Fresh(rest[i])
  BY <1>1, <1>4, <1>5, <1>6
<1>8. Added \in Replies /\ ~Fresh(Added)
  BY MessageKinds DEF Replies, Fresh
<1>9. /\ responses' \in Seq(Replies)
      /\ \A i \in DOMAIN responses' : ~Fresh(responses'[i])
      /\ open /\ subscribed => \E i \in DOMAIN responses' : responses'[i] = Added
  <2>1. CASE open /\ subscribed
    <3>1. /\ responses' \in Seq(Replies) /\ Len(responses') = Len(rest) + 1
          /\ \A i \in 1 .. Len(rest) : responses'[i] = rest[i]
          /\ responses'[Len(rest) + 1] = Added
      BY <1>2, <1>6, <1>8, <2>1, AppendQueue
    <3>2. DOMAIN responses' = 1 .. Len(rest) + 1 /\ Len(rest) \in Nat
      BY <1>4, <1>6, <3>1, Members
    <3> QED
      BY <1>7, <1>8, <3>1, <3>2
  <2>2. CASE ~(open /\ subscribed)
    <3>1. responses' = rest /\ DOMAIN rest = 1 .. Len(rest)
      BY <1>2, <1>6, <2>2, Members
    <3> QED
      BY <1>6, <1>7, <2>2, <3>1
  <2> QED
    BY <2>1, <2>2
<1>10. /\ reader' \in Templates \cup Asks \cup {Idle} /\ ~Fresh(reader')
       /\ reader = Idle => reader' = Idle
       /\ reader.kind = "getTemplate" => reader'.kind = "getTemplate"
  BY <1>2, <1>3, OutdatedKinds, MessageKinds
<1>11. /\ job' \in Templates \cup {NoTemplate} /\ ~Fresh(job')
       /\ job = NoTemplate => job' = NoTemplate
       /\ job' = NoTemplate => job = NoTemplate
  BY <1>2, <1>3, OutdatedKinds, MessageKinds
<1>12. ~open => responses' = <<>>
  <2>1. ASSUME ~open PROVE responses' = <<>>
    <3>1. responses = <<>> /\ responses' = rest
      BY <1>2, <2>1 DEF UplinkInv, UplinkTypeOK
    <3>2. Len(rest) = 0
      BY <1>3, <1>6, <3>1, EmptyQueue
    <3> QED
      BY <1>6, <3>1, <3>2, EmptyQueue
  <2> QED
    BY <2>1
<1>13. UplinkTypeOK'
  BY <1>2, <1>9, <1>10, <1>11, <1>12 DEF UplinkInv, UplinkTypeOK, Replies
<1>14. SentInv'
  BY <1>2, SentRests DEF UplinkInv
<1>15. StreamInv'
  BY <1>2, <1>11 DEF UplinkInv, StreamInv, Asked
<1>16. FreshInv'
  BY <1>9, <1>10, <1>11 DEF FreshInv, Fresh
<1>17. StaleIsBeingRenewed'
  <2>1. open /\ stage = "running" => subscribed \/ Asked
    BY DEF UplinkInv, StreamInv
  <2> QED
    BY <1>2, <1>9, <2>1 DEF StaleIsBeingRenewed, Asked
<1> QED
  BY <1>13, <1>14, <1>15, <1>16, <1>17 DEF UplinkInv

\* The stream ends with all that was on it.
LEMMA KeptByStreamEnds ==
  ASSUME UplinkInv, StreamEnds
  PROVE  UplinkInv'
<1>1. /\ faults < MaxFaults /\ faults' = faults + 1
      /\ open' = FALSE /\ requests' = <<>> /\ responses' = <<>>
      /\ UNCHANGED <<stage, initialPay, subscribed, reader, job, declined, redis, conn,
                     submitOpen, submitQ, sender, solved, overflowed, atNode>>
  BY DEF StreamEnds, readerVars, submitVars
<1>2. /\ requests' \in Seq(Messages) /\ Len(requests') = 0 /\ responses' \in Seq(Replies)
      /\ DOMAIN requests' = {} /\ DOMAIN responses' = {}
  BY <1>1, EmptyQueue
<1>3. faults' \in 0 .. MaxFaults /\ Len(requests') <= RequestCap
  BY <1>1, <1>2, UplinkTypes DEF UplinkInv
<1>4. UplinkTypeOK'
  BY <1>1, <1>2, <1>3 DEF UplinkInv, UplinkTypeOK, Messages, Replies
<1>5. SentInv'
  BY <1>1, <1>2 DEF UplinkInv, SentInv
<1>6. StreamInv'
  BY <1>1 DEF UplinkInv, StreamInv
<1>7. FreshInv'
  BY <1>1, <1>2 DEF UplinkInv, FreshInv, Fresh, Stale
<1>8. StaleIsBeingRenewed'
  BY <1>1 DEF StaleIsBeingRenewed
<1> QED
  BY <1>4, <1>5, <1>6, <1>7, <1>8 DEF UplinkInv

\* A step that leaves the stream, the tasks and the blocks alone: Redis fails or
\* comes back, the oracle fails, or nothing happens.
LEMMA KeptByRedis ==
  ASSUME UplinkInv, UNCHANGED <<linkVars, readerVars, submitVars>>,
         redis' \in BOOLEAN, conn' \in BOOLEAN, conn' => redis',
         faults' \in 0 .. MaxFaults
  PROVE  UplinkInv'
<1>1. UNCHANGED <<stage, initialPay, open, requests, subscribed, responses, reader, job,
                  declined, submitOpen, submitQ, sender, solved, overflowed, atNode>>
  BY DEF linkVars, readerVars, submitVars
<1>2. UplinkTypeOK'
  BY <1>1 DEF UplinkInv, UplinkTypeOK
<1>3. SentInv'
  BY <1>1, SentRests DEF UplinkInv
<1>4. StreamInv'
  BY <1>1 DEF UplinkInv, StreamInv, Asked
<1>5. FreshInv'
  BY <1>1, FreshRests DEF UplinkInv
<1>6. StaleIsBeingRenewed'
  BY <1>1 DEF UplinkInv, StaleIsBeingRenewed
<1> QED
  BY <1>2, <1>3, <1>4, <1>5, <1>6 DEF UplinkInv

\* A miner offers a block: whatever happens to it, it was solved for a job.
LEMMA KeptByOfferBlock ==
  ASSUME UplinkInv, NEW b \in Blocks, OfferBlock(b)
  PROVE  UplinkInv'
<1>1. /\ job # NoTemplate /\ solved' = solved \cup {b}
      /\ \/ /\ Len(submitQ) < SubmitCap /\ submitQ' = Append(submitQ, b)
            /\ overflowed' = overflowed
         \/ submitQ' = submitQ /\ overflowed' = overflowed \cup {b}
      /\ UNCHANGED <<stage, initialPay, open, requests, subscribed, responses, reader, job,
                     declined, redis, conn, faults, submitOpen, sender, atNode>>
  BY DEF OfferBlock, linkVars, readerVars, redisVars
<1>2. submitQ \in Seq(Blocks) /\ Len(submitQ) <= SubmitCap /\ SubmitCap \in Nat
      /\ Len(submitQ) \in Nat /\ Range(submitQ) \subseteq solved
  BY UplinkTypes, Members DEF UplinkInv, SentInv
<1>3. /\ submitQ' \in Seq(Blocks) /\ Len(submitQ') <= SubmitCap
      /\ Range(submitQ') \subseteq solved'
  <2>1. CASE submitQ' = Append(submitQ, b) /\ Len(submitQ) < SubmitCap
    <3>1. /\ Append(submitQ, b) \in Seq(Blocks)
          /\ Len(Append(submitQ, b)) = Len(submitQ) + 1
          /\ Range(Append(submitQ, b)) = Range(submitQ) \cup {b}
      BY <1>2, AppendQueue
    <3> QED
      BY <1>1, <1>2, <2>1, <3>1
  <2>2. CASE submitQ' = submitQ
    BY <1>1, <1>2, <2>2
  <2> QED
    BY <1>1, <2>1, <2>2
<1>4. UplinkTypeOK'
  BY <1>1, <1>3 DEF UplinkInv, UplinkTypeOK
<1>5. SentInv'
  BY <1>1, <1>3 DEF UplinkInv, SentInv
<1>6. StreamInv'
  BY <1>1 DEF UplinkInv, StreamInv, Asked
<1>7. FreshInv'
  BY <1>1, FreshRests DEF UplinkInv
<1>8. StaleIsBeingRenewed'
  BY <1>1 DEF UplinkInv, StaleIsBeingRenewed
<1> QED
  BY <1>4, <1>5, <1>6, <1>7, <1>8 DEF UplinkInv

\* The uplink's own steps and its surroundings'; none of them cuts the connection
\* to Redis, which only an outage does.
LEMMA UplinkSteps ==
  ASSUME UplinkInv, UplinkStep \/ Environment
  PROVE  UplinkInv' /\ (conn => conn') /\ solved' = solved
<1>1. UplinkInv'
  <2>1. ASSUME RedisReturns PROVE UplinkInv'
    <3>1. /\ UNCHANGED <<linkVars, readerVars, submitVars>>
          /\ redis' \in BOOLEAN /\ redis' /\ conn' = conn /\ faults' = faults
      BY <2>1 DEF RedisReturns
    <3>2. conn' \in BOOLEAN /\ faults' \in 0 .. MaxFaults
      BY <3>1 DEF UplinkInv, UplinkTypeOK
    <3> QED
      BY <3>1, <3>2, KeptByRedis
  <2> QED
    BY <2>1, KeptByConnect, KeptBySendNotify, KeptByReadAddress, KeptByAskFirst,
       KeptByReading, KeptByRegister, KeptByAskNext, KeptByTakeBlock, KeptBySendBlock,
       KeptByNodeSubscribes, KeptByAnswer, KeptByNodeTakesBlock, KeptByNodeAddsBlock,
       KeptByStreamEnds
       DEF UplinkStep, Environment, StartUp, Response, Node
<1>2. conn' = conn \/ Register
  BY DEF UplinkStep, Environment, StartUp, Response, Node, Connect, ConnectFails,
     SendNotify, ReadAddress, AskFirst, ReadTemplate, SkipEmpty, ReadAdded, AskNext,
     TakeBlock, SendBlock, NodeSubscribes, NodeAnswers, NodeDeclines, NodeTakesBlock,
     NodeAddsBlock, StreamEnds, RedisReturns, redisVars
<1>3. solved' = solved
  BY DEF UplinkStep, Environment, StartUp, Response, Node, Connect, ConnectFails,
     SendNotify, ReadAddress, AskFirst, ReadTemplate, SkipEmpty, Register, ReadAdded,
     AskNext, TakeBlock, SendBlock, NodeSubscribes, NodeAnswers, NodeDeclines,
     NodeTakesBlock, NodeAddsBlock, StreamEnds, RedisReturns, submitVars
<1> QED
  BY <1>1, <1>2, <1>3, KeptByRegister

\* The uplink begins unconnected, with nothing solved.
LEMMA UplinkStarts == UplinkInit => UplinkInv
<1> SUFFICES ASSUME UplinkInit PROVE UplinkInv
  OBVIOUS
<1>1. /\ <<>> \in Seq(Asks \cup Submits \cup {Notify}) /\ Len(<<>>) = 0
      /\ <<>> \in Seq(Templates \cup {Added, NoTemplate}) /\ <<>> \in Seq(Blocks)
      /\ Range(<<>>) = {} /\ DOMAIN <<>> = {}
  BY EmptyQueue
<1>2. UplinkTypeOK
  <2>1. {open, subscribed, declined, redis, conn, submitOpen} \subseteq BOOLEAN
    BY DEF UplinkInit
  <2>2. 0 \in 0 .. MaxFaults /\ 0 <= RequestCap /\ 0 <= SubmitCap
    BY UplinkAssumption
  <2>3. /\ requests \in Seq(Asks \cup Submits \cup {Notify}) /\ Len(requests) <= RequestCap
        /\ responses \in Seq(Templates \cup {Added, NoTemplate})
        /\ submitQ \in Seq(Blocks) /\ Len(submitQ) <= SubmitCap /\ faults \in 0 .. MaxFaults
    BY <1>1, <2>2 DEF UplinkInit
  <2> QED
    BY <2>1, <2>3 DEF UplinkInit, UplinkTypeOK, Payees
<1>3. SentInv
  BY <1>1 DEF UplinkInit, SentInv
<1>4. StreamInv
  BY DEF UplinkInit, StreamInv
<1>5. FreshInv
  BY <1>1, MessageKinds DEF UplinkInit, FreshInv, Fresh, Stale
<1>6. StaleIsBeingRenewed
  BY DEF UplinkInit, StaleIsBeingRenewed
<1> QED
  BY <1>2, <1>3, <1>4, <1>5, <1>6 DEF UplinkInv

---------------------------------------------------------------------------
(* The actions of the record's way *)

\* A block of which nothing is under way has no row to come: what is required of
\* each block that was solved.
Recorded(b) ==
  \/ rows[b] = 1 \/ pushing[b] > 0
  \/ b \in Elements(buffer) \/ b \in Elements(batch) \/ b \in unrecorded

\* What a list holds is what it has at its positions.
LEMMA ElementsAreRange ==
  ASSUME NEW q
  PROVE  Elements(q) = Range(q)
BY DEF Elements, Range

\* The types of the records, one by one.
LEMMA RecordTypes ==
  ASSUME BlockPathTypeOK
  PROVE  /\ buffer \in Seq(Blocks) /\ batch \in Seq(Blocks)
         /\ submits \in Int /\ 0 <= submits /\ submits <= MaxSubmits
         /\ MaxSubmits \in Nat /\ BlockBatch \in Nat /\ BlockBatch >= 1
         /\ pushing \in [Blocks -> 0 .. submits] /\ rows \in [Blocks -> Nat]
         /\ \A b \in Blocks : /\ pushing[b] \in Int /\ 0 <= pushing[b] /\ pushing[b] <= submits
                              /\ rows[b] \in Nat
BY BlockPathAssumption DEF BlockPathTypeOK

\* A step of the uplink, of its surroundings or of Redis leaves the records alone.
LEMMA RecordsRest ==
  ASSUME BlockPathInv, UplinkInv', solved' = solved,
         UNCHANGED <<submits, pushing, buffer, oracle, batch, rows, unrecorded>>,
         oracleConn' \in BOOLEAN, oracleConn' => conn'
  PROVE  BlockPathInv'
<1>1. BlockPathTypeOK'
  BY DEF BlockPathInv, BlockPathTypeOK, UplinkInv
<1>2. RecordInv'
  BY DEF BlockPathInv, RecordInv
<1>3. BlockRecordedOnce'
  BY DEF BlockPathInv, BlockRecordedOnce
<1> QED
  BY <1>1, <1>2, <1>3 DEF BlockPathInv

\* A solution is submitted, for the first time or again: its record has a task.
LEMMA KeptBySolveBlock ==
  ASSUME BlockPathInv, NEW b \in Blocks, SolveBlock(b)
  PROVE  BlockPathInv'
<1>1. /\ submits < MaxSubmits /\ submits' = submits + 1
      /\ pushing' = [pushing EXCEPT ![b] = pushing[b] + 1]
      /\ solved' = solved \cup {b} /\ conn' = conn
      /\ UNCHANGED <<buffer, oracle, oracleConn, batch, rows, unrecorded>>
  BY DEF SolveBlock, OfferBlock, redisVars
<1>2. UplinkInv'
  BY KeptByOfferBlock DEF SolveBlock, BlockPathInv
<1>3. BlockPathTypeOK
  BY DEF BlockPathInv
<1>4. submits' \in 0 .. MaxSubmits /\ pushing' \in [Blocks -> 0 .. submits']
  <2>1. submits' \in 0 .. MaxSubmits /\ submits' = submits + 1 /\ submits \in Int
    BY <1>1, <1>3, RecordTypes
  <2>2. \A x \in Blocks : pushing[x] \in 0 .. submits' /\ pushing[b] + 1 \in 0 .. submits'
    BY <1>3, <2>1, RecordTypes
  <2> QED
    BY <1>1, <1>3, <2>1, <2>2, RecordTypes
<1>5. BlockPathTypeOK'
  BY <1>1, <1>2, <1>3, <1>4 DEF BlockPathTypeOK, UplinkInv
<1>6. RecordInv'
  BY <1>1 DEF BlockPathInv, RecordInv
<1>7. \A x \in Blocks : pushing'[x] >= pushing[x] /\ pushing'[b] > 0
  BY <1>1, <1>3, RecordTypes
<1>8. BlockRecordedOnce'
  <2> SUFFICES ASSUME NEW x \in solved' PROVE (rows[x] <= 1 /\ Recorded(x))'
    BY DEF BlockRecordedOnce, Recorded
  <2>1. x \in Blocks
    BY <1>2 DEF UplinkInv, UplinkTypeOK
  <2>2. rows'[x] <= 1
    BY <1>1, <2>1 DEF BlockPathInv, RecordInv
  <2>3. CASE x = b
    BY <1>7, <2>2, <2>3 DEF Recorded
  <2>4. CASE x # b
    <3>1. Recorded(x)
      BY <1>1, <2>4 DEF BlockPathInv, BlockRecordedOnce, Recorded
    <3>2. pushing[x] > 0 => pushing'[x] > 0
      BY <1>3, <1>7, <2>1, <1>4, RecordTypes
    <3> QED
      BY <1>1, <2>2, <3>1, <3>2 DEF Recorded
  <2> QED
    BY <2>3, <2>4
<1> QED
  BY <1>2, <1>5, <1>6, <1>8 DEF BlockPathInv

\* The record is pushed, behind what the oracle has read and not yet cut off; or
\* it is lost with the connection.
LEMMA KeptByPushRecord ==
  ASSUME BlockPathInv, NEW b \in Blocks, PushRecord(b)
  PROVE  BlockPathInv'
<1>1. /\ pushing[b] > 0 /\ pushing' = [pushing EXCEPT ![b] = pushing[b] - 1]
      /\ buffer' = IF redis THEN Append(buffer, b) ELSE buffer
      /\ unrecorded' = IF redis THEN unrecorded ELSE unrecorded \cup {b}
      /\ UNCHANGED <<submits, oracle, oracleConn, batch, rows>>
  BY DEF PushRecord
<1>2. UNCHANGED <<linkVars, readerVars, redisVars, submitVars>>
  BY DEF PushRecord, uplinkVars
<1>3. UNCHANGED <<redis, conn, faults, solved>>
  BY <1>2 DEF redisVars, submitVars
<1>4. UplinkInv'
  <2>1. redis' \in BOOLEAN /\ conn' \in BOOLEAN /\ (conn' => redis') /\ faults' \in 0 .. MaxFaults
    BY <1>3 DEF BlockPathInv, UplinkInv, UplinkTypeOK
  <2> QED
    BY <1>2, <2>1, KeptByRedis DEF BlockPathInv
<1>5. BlockPathTypeOK
  BY DEF BlockPathInv
<1>6. pushing' \in [Blocks -> 0 .. submits]
  <2>1. pushing[b] - 1 \in 0 .. submits
    BY <1>1, <1>5, RecordTypes
  <2> QED
    BY <1>1, <1>5, <2>1, RecordTypes
<1>7. /\ buffer' \in Seq(Blocks) /\ Len(buffer') >= Len(buffer)
      /\ Range(buffer) \subseteq Range(buffer')
      /\ redis => b \in Range(buffer')
      /\ Len(buffer) \in Nat /\ Len(buffer') \in Nat
  <2>1. buffer \in Seq(Blocks) /\ Len(buffer) \in Nat
    BY <1>5, RecordTypes, Members
  <2>2. /\ Append(buffer, b) \in Seq(Blocks)
        /\ Len(Append(buffer, b)) = Len(buffer) + 1
        /\ Range(Append(buffer, b)) = Range(buffer) \cup {b}
    BY <2>1, AppendQueue
  <2> QED
    BY <1>1, <2>1, <2>2
<1>8. oracle' = "trim" => /\ Len(batch') \in 1 .. BlockBatch
                          /\ batch' = SubSeq(buffer', 1, Len(batch'))
  <2> SUFFICES ASSUME oracle = "trim"
               PROVE  Len(batch) \in 1 .. BlockBatch /\ batch = SubSeq(buffer', 1, Len(batch))
    BY <1>1
  <2>1. /\ Len(batch) \in 1 .. BlockBatch /\ batch = SubSeq(buffer, 1, Len(batch))
        /\ Len(batch) <= Len(buffer)
    BY DEF BlockPathInv, BlockPathTypeOK, RecordInv
  <2>2. PICK n : n = Len(batch)
    OBVIOUS
  <2>3. n \in 0 .. Len(buffer) /\ buffer \in Seq(Blocks)
    BY <1>5, <1>7, <2>1, <2>2, RecordTypes
  <2>4. SubSeq(Append(buffer, b), 1, n) = SubSeq(buffer, 1, n)
    BY <2>3, AppendKeepsPrefix
  <2> QED
    BY <1>1, <2>1, <2>2, <2>4
<1>9. BlockPathTypeOK'
  BY <1>1, <1>3, <1>4, <1>5, <1>6, <1>7, <1>8 DEF BlockPathTypeOK, UplinkInv
<1>10. RecordInv'
  <2>1. oracle = "trim" => Len(batch) \in Int /\ Len(batch) <= Len(buffer)
    BY <1>5, RecordTypes, Members DEF BlockPathInv, RecordInv
  <2> QED
    BY <1>1, <1>7, <2>1 DEF BlockPathInv, RecordInv
<1>11. BlockRecordedOnce'
  <2> SUFFICES ASSUME NEW x \in solved PROVE (rows[x] <= 1 /\ Recorded(x))'
    BY <1>3 DEF BlockRecordedOnce, Recorded
  <2>1. x \in Blocks
    BY <1>5 DEF BlockPathTypeOK, UplinkTypeOK
  <2>2. rows'[x] <= 1 /\ Recorded(x)
    BY <1>1 DEF BlockPathInv, BlockRecordedOnce, Recorded
  <2>3. Elements(buffer) \subseteq Elements(buffer') /\ (redis => b \in Elements(buffer'))
    BY <1>7, ElementsAreRange
  <2>4. CASE x = b
    BY <1>1, <2>2, <2>3, <2>4 DEF Recorded
  <2>5. CASE x # b
    <3>1. pushing'[x] = pushing[x]
      BY <1>1, <1>5, <2>1, <2>5, RecordTypes
    <3> QED
      BY <1>1, <2>2, <2>3, <3>1 DEF Recorded
  <2> QED
    BY <2>4, <2>5
<1> QED
  BY <1>4, <1>9, <1>10, <1>11 DEF BlockPathInv

\* A step of the oracle that reaches no database leaves the uplink alone.
LEMMA UplinkRests ==
  ASSUME UplinkInv, UNCHANGED uplinkVars
  PROVE  UplinkInv' /\ conn' = conn /\ solved' = solved
<1>1. UNCHANGED <<linkVars, readerVars, redisVars, submitVars>>
  BY DEF uplinkVars
<1>2. UNCHANGED <<redis, conn, faults, solved>>
  BY <1>1 DEF redisVars, submitVars
<1>3. redis' \in BOOLEAN /\ conn' \in BOOLEAN /\ (conn' => redis') /\ faults' \in 0 .. MaxFaults
  BY <1>2 DEF UplinkInv, UplinkTypeOK
<1> QED
  BY <1>1, <1>2, <1>3, KeptByRedis

\* The oracle reads a batch: it leaves it in the list.
LEMMA KeptByReadRecords ==
  ASSUME BlockPathInv, ReadRecords
  PROVE  BlockPathInv'
<1>1. PICK n : n = IF Len(buffer) < BlockBatch THEN Len(buffer) ELSE BlockBatch
  OBVIOUS
<1>2. /\ oracle = "read" /\ buffer # <<>> /\ batch' = SubSeq(buffer, 1, n)
      /\ oracle' = "trim"
      /\ UNCHANGED <<submits, pushing, buffer, oracleConn, rows, unrecorded>>
  BY <1>1 DEF ReadRecords
<1>3. UplinkInv' /\ conn' = conn /\ solved' = solved
  BY UplinkRests DEF ReadRecords, BlockPathInv
<1>4. BlockPathTypeOK
  BY DEF BlockPathInv
<1>5. buffer \in Seq(Blocks) /\ Len(buffer) \in Nat /\ Len(buffer) # 0
  BY <1>2, <1>4, RecordTypes, Members, EmptyQueue
<1>6. n \in 1 .. BlockBatch /\ n \in 0 .. Len(buffer)
  BY <1>1, <1>4, <1>5, RecordTypes
<1>7. batch' \in Seq(Blocks) /\ Len(batch') = n
  BY <1>2, <1>5, <1>6, SplitQueue
<1>8. BlockPathTypeOK'
  BY <1>2, <1>3, <1>4, <1>6, <1>7 DEF BlockPathTypeOK, UplinkInv
<1>9. RecordInv'
  BY <1>2, <1>5, <1>6, <1>7 DEF BlockPathInv, RecordInv
<1>10. batch = <<>>
  BY <1>2, <1>4 DEF BlockPathTypeOK
<1>11. BlockRecordedOnce'
  <2> SUFFICES ASSUME NEW x \in solved PROVE (rows[x] <= 1 /\ Recorded(x))'
    BY <1>3 DEF BlockRecordedOnce, Recorded
  <2>1. rows[x] <= 1 /\ Recorded(x)
    BY DEF BlockPathInv, BlockRecordedOnce, Recorded
  <2>2. Elements(batch) = {}
    BY <1>10, ElementsAreRange, EmptyQueue
  <2> QED
    BY <1>2, <2>1, <2>2 DEF Recorded
<1> QED
  BY <1>3, <1>8, <1>9, <1>11 DEF BlockPathInv

\* It cuts off as many as it has read, which are the ones it has read: the list
\* only grew since.
LEMMA KeptByTrimRecords ==
  ASSUME BlockPathInv, TrimRecords
  PROVE  BlockPathInv'
<1>1. PICK n : n = Len(batch)
  OBVIOUS
<1>2. /\ oracle = "trim" /\ oracle' = "insert"
      /\ buffer' = IF oracleConn THEN SubSeq(buffer, n + 1, Len(buffer)) ELSE buffer
      /\ UNCHANGED <<submits, pushing, oracleConn, batch, rows, unrecorded>>
  BY <1>1 DEF TrimRecords
<1>3. UplinkInv' /\ conn' = conn /\ solved' = solved
  BY UplinkRests DEF TrimRecords, BlockPathInv
<1>4. BlockPathTypeOK
  BY DEF BlockPathInv
<1>5. /\ buffer \in Seq(Blocks) /\ Len(buffer) \in Nat
      /\ n \in 1 .. BlockBatch /\ batch = SubSeq(buffer, 1, n) /\ n <= Len(buffer)
  BY <1>1, <1>2, <1>4, RecordTypes, Members DEF BlockPathInv, BlockPathTypeOK, RecordInv
<1>6. n \in 0 .. Len(buffer)
  BY <1>5
<1>7. /\ SubSeq(buffer, n + 1, Len(buffer)) \in Seq(Blocks)
      /\ Range(buffer) = Range(batch) \cup Range(SubSeq(buffer, n + 1, Len(buffer)))
  BY <1>5, <1>6, SplitQueue
<1>8. /\ buffer' \in Seq(Blocks)
      /\ Elements(buffer) \subseteq Elements(batch) \cup Elements(buffer')
  BY <1>2, <1>5, <1>7, ElementsAreRange
<1>9. BlockPathTypeOK'
  BY <1>2, <1>3, <1>4, <1>8 DEF BlockPathTypeOK, UplinkInv
<1>10. RecordInv'
  BY <1>2 DEF BlockPathInv, RecordInv
<1>11. BlockRecordedOnce'
  <2> SUFFICES ASSUME NEW x \in solved PROVE (rows[x] <= 1 /\ Recorded(x))'
    BY <1>3 DEF BlockRecordedOnce, Recorded
  <2>1. rows[x] <= 1 /\ Recorded(x)
    BY DEF BlockPathInv, BlockRecordedOnce, Recorded
  <2> QED
    BY <1>2, <1>8, <2>1 DEF Recorded
<1> QED
  BY <1>3, <1>9, <1>10, <1>11 DEF BlockPathInv

\* Each record of the batch has its row now, had it before, or its insert failed.
LEMMA KeptByInsertRecords ==
  ASSUME BlockPathInv, InsertRecords
  PROVE  BlockPathInv'
<1>1. PICK failed \in SUBSET Elements(batch) :
        /\ oracle' = "read" /\ batch' = <<>>
        /\ failed # {} => faults < MaxFaults
        /\ faults' = IF failed = {} THEN faults ELSE faults + 1
        /\ rows' = [b \in Blocks |-> IF b \in Elements(batch) \ failed /\ rows[b] = 0
                                     THEN 1 ELSE rows[b]]
        /\ unrecorded' = unrecorded \cup failed
        /\ UNCHANGED <<linkVars, readerVars, submitVars, redis, conn, submits, pushing,
                       buffer, oracleConn>>
  BY DEF InsertRecords
<1>2. UNCHANGED <<linkVars, readerVars, submitVars>> /\ redis' = redis /\ conn' = conn
      /\ UNCHANGED <<submits, pushing, buffer, oracleConn>>
  BY <1>1
<1>3. solved' = solved
  BY <1>2 DEF submitVars
<1>4. BlockPathTypeOK /\ UplinkInv
  BY DEF BlockPathInv
<1>5. faults' \in 0 .. MaxFaults
  BY <1>1, <1>4, UplinkTypes DEF UplinkInv
<1>6. UplinkInv'
  <2>1. redis' \in BOOLEAN /\ conn' \in BOOLEAN /\ (conn' => redis')
    BY <1>2, <1>4 DEF UplinkInv, UplinkTypeOK
  <2> QED
    BY <1>2, <1>4, <1>5, <2>1, KeptByRedis
<1>7. /\ rows' \in [Blocks -> Nat]
      /\ \A b \in Blocks :
           /\ rows'[b] <= 1
           /\ rows[b] = 1 => rows'[b] = 1
           /\ b \in Elements(batch) \ failed => rows'[b] = 1
  <2>1. \A b \in Blocks : rows[b] \in Nat /\ rows[b] <= 1
    BY <1>4, RecordTypes DEF BlockPathInv, RecordInv
  <2> QED
    BY <1>1, <2>1
<1>8. <<>> \in Seq(Blocks)
  BY EmptyQueue
<1>9. BlockPathTypeOK'
  BY <1>1, <1>2, <1>4, <1>6, <1>7, <1>8 DEF BlockPathTypeOK, UplinkInv
<1>10. RecordInv'
  BY <1>1, <1>7 DEF RecordInv
<1>11. BlockRecordedOnce'
  <2> SUFFICES ASSUME NEW x \in solved PROVE (rows[x] <= 1 /\ Recorded(x))'
    BY <1>3 DEF BlockRecordedOnce, Recorded
  <2>1. Recorded(x) /\ x \in Blocks
    BY <1>4 DEF BlockPathInv, BlockRecordedOnce, Recorded, UplinkInv, UplinkTypeOK
  <2> QED
    BY <1>1, <1>2, <1>7, <2>1 DEF Recorded
<1> QED
  BY <1>6, <1>9, <1>10, <1>11 DEF BlockPathInv

---------------------------------------------------------------------------
(* The theorems *)

\* Every step keeps the invariant.
LEMMA BlockPathStep ==
  BlockPathInv /\ [BlockPathNext]_blockVars => BlockPathInv'
<1> SUFFICES ASSUME BlockPathInv, [BlockPathNext]_blockVars PROVE BlockPathInv'
  OBVIOUS
<1>1. UplinkInv /\ oracleConn \in BOOLEAN /\ (oracleConn => conn)
  BY DEF BlockPathInv, BlockPathTypeOK
<1>2. ASSUME UNCHANGED blockVars PROVE BlockPathInv'
  <2>1. UNCHANGED uplinkVars
        /\ UNCHANGED <<submits, pushing, buffer, oracle, oracleConn, batch, rows, unrecorded>>
    BY <1>2 DEF blockVars, recordVars
  <2> QED
    BY <1>1, <2>1, UplinkRests, RecordsRest
<1>3. ASSUME UplinkStep \/ Environment, UNCHANGED recordVars PROVE BlockPathInv'
  <2>1. UNCHANGED <<submits, pushing, buffer, oracle, oracleConn, batch, rows, unrecorded>>
    BY <1>3 DEF recordVars
  <2>2. UplinkInv' /\ (conn => conn') /\ solved' = solved
    BY <1>1, <1>3, UplinkSteps
  <2> QED
    BY <1>1, <2>1, <2>2, RecordsRest
<1>4. ASSUME RedisFails, oracleConn' = FALSE,
             UNCHANGED <<submits, pushing, buffer, oracle, batch, rows, unrecorded>>
      PROVE  BlockPathInv'
  <2>1. /\ UNCHANGED <<linkVars, readerVars, submitVars>> /\ redis' = FALSE /\ conn' = FALSE
        /\ faults < MaxFaults /\ faults' = faults + 1
    BY <1>4 DEF RedisFails
  <2>2. faults' \in 0 .. MaxFaults
    BY <1>1, <2>1, UplinkTypes DEF UplinkInv
  <2>3. UplinkInv' /\ solved' = solved
    BY <1>1, <2>1, <2>2, KeptByRedis DEF submitVars
  <2> QED
    BY <1>4, <2>3, RecordsRest
<1> QED
  BY <1>2, <1>3, <1>4, KeptBySolveBlock, KeptByPushRecord, KeptByReadRecords,
     KeptByTrimRecords, KeptByInsertRecords DEF BlockPathNext, Oracle

\* The invariant of the block's two ways, to the node and to the database.
THEOREM BlockPathInvariant == BlockPathSpec => []BlockPathInv
<1>1. BlockPathInit => BlockPathInv
  <2> SUFFICES ASSUME BlockPathInit PROVE BlockPathInv
    OBVIOUS
  <2>1. UplinkInv /\ conn /\ solved = {}
    BY UplinkStarts DEF BlockPathInit, UplinkInit
  <2>2. <<>> \in Seq(Blocks)
    BY EmptyQueue
  <2>3. BlockPathTypeOK
    BY <2>1, <2>2, BlockPathAssumption DEF BlockPathInit, BlockPathTypeOK, UplinkInv
  <2>4. RecordInv
    BY DEF BlockPathInit, RecordInv
  <2>5. BlockRecordedOnce
    BY <2>1 DEF BlockRecordedOnce
  <2> QED
    BY <2>1, <2>3, <2>4, <2>5 DEF BlockPathInv
<1> QED
  BY <1>1, BlockPathStep, PTL DEF BlockPathSpec

\* BlockPathTypeOK for every number of blocks, faults and submissions and every
\* capacity: what the oracle is about to cut off is what it has read, and its
\* connection works only while the pool's does.
THEOREM BlockPathTypeCorrect == BlockPathSpec => []BlockPathTypeOK
<1>1. BlockPathInv => BlockPathTypeOK
  BY DEF BlockPathInv
<1> QED
  BY <1>1, BlockPathInvariant, PTL

\* While the stream is up, the miners work on the newest template or a newer one
\* is on its way, whatever the node, Redis and the channel do.
THEOREM NewestIsComing == BlockPathSpec => []StaleIsBeingRenewed
<1>1. BlockPathInv => StaleIsBeingRenewed
  BY DEF BlockPathInv, UplinkInv
<1> QED
  BY <1>1, BlockPathInvariant, PTL

\* No block has a second row, and none that was solved is forgotten by an oracle
\* that did not fail.
THEOREM RecordedOnce == BlockPathSpec => []BlockRecordedOnce
<1>1. BlockPathInv => BlockRecordedOnce
  BY DEF BlockPathInv
<1> QED
  BY <1>1, BlockPathInvariant, PTL
\* Only the oracle's insert takes records away: the trim cuts off what the batch
\* holds, and every other step adds records or leaves them alone.
LEMMA RecordsStay ==
  ASSUME BlockPathInv, [BlockPathNext]_blockVars
  PROVE  RecordsHeld' < RecordsHeld
           => oracle = "insert" /\ RecordsHeld - RecordsHeld' = Len(batch)
<1>1. /\ buffer \in Seq(Blocks) /\ batch \in Seq(Blocks)
      /\ buffer' \in Seq(Blocks) /\ batch' \in Seq(Blocks)
  BY BlockPathStep DEF BlockPathInv, BlockPathTypeOK
<1>2. /\ Len(buffer) \in Nat /\ Len(batch) \in Nat
      /\ Len(buffer') \in Nat /\ Len(batch') \in Nat
  BY <1>1
<1>3. CASE UNCHANGED <<buffer, batch, oracle>>
  BY <1>2, <1>3 DEF RecordsHeld
<1>4. ASSUME NEW b \in Blocks, PushRecord(b) PROVE RecordsHeld' >= RecordsHeld
  <2>1. oracle' = oracle /\ batch' = batch
        /\ buffer' = IF redis THEN Append(buffer, b) ELSE buffer
    BY <1>4 DEF PushRecord
  <2>2. Len(Append(buffer, b)) = Len(buffer) + 1
    BY <1>1
  <2>3. Len(buffer') >= Len(buffer)
    BY <1>2, <2>1, <2>2
  <2> QED
    BY <1>2, <2>1, <2>3 DEF RecordsHeld
<1>5. CASE ReadRecords
  BY <1>2, <1>5 DEF ReadRecords, RecordsHeld
<1>6. CASE TrimRecords
  <2>1. /\ oracle = "trim" /\ oracle' = "insert" /\ batch' = batch
        /\ buffer' = IF oracleConn THEN SubSeq(buffer, Len(batch) + 1, Len(buffer))
                     ELSE buffer
    BY <1>6 DEF TrimRecords
  <2>2. Len(batch) >= 1 /\ batch = SubSeq(buffer, 1, Len(batch))
    BY <2>1, BlockPathAssumption DEF BlockPathInv, BlockPathTypeOK
  <2>3. Len(SubSeq(buffer, Len(batch) + 1, Len(buffer))) >= Len(buffer) - Len(batch)
    BY <1>1, <1>2
  <2>4. Len(buffer') >= Len(buffer) - Len(batch)
    BY <1>2, <2>1, <2>3
  <2> QED
    BY <1>2, <2>1, <2>4 DEF RecordsHeld
<1>7. CASE InsertRecords
  <2>1. oracle = "insert" /\ oracle' = "read" /\ buffer' = buffer
    BY <1>7 DEF InsertRecords
  <2> QED
    BY <1>2, <2>1 DEF RecordsHeld
<1>8. RecordsHeld' >= RecordsHeld => ~(RecordsHeld' < RecordsHeld)
  BY <1>2 DEF RecordsHeld
<1>9. \/ UNCHANGED <<buffer, batch, oracle>>
      \/ \E b \in Blocks : PushRecord(b)
      \/ ReadRecords \/ TrimRecords \/ InsertRecords
  BY DEF BlockPathNext, SolveBlock, Oracle, recordVars, blockVars
<1> QED
  BY <1>3, <1>4, <1>5, <1>6, <1>7, <1>8, <1>9

\* No record of a block is gone before its INSERT was tried, for any number of
\* blocks and submissions: LTRIM cuts off as many as LRANGE returned.
THEOREM RecordsKept == BlockPathSpec => NoRecordDropped
<1>1. BlockPathInv /\ [BlockPathNext]_blockVars
        => [RecordsHeld' < RecordsHeld
              => oracle = "insert" /\ RecordsHeld - RecordsHeld' = Len(batch)]_blockVars
  BY RecordsStay
<1> QED
  BY <1>1, BlockPathInvariant, PTL DEF BlockPathSpec, NoRecordDropped
=============================================================================
