------------------------- MODULE JobDeliveryProofs -------------------------
(***************************************************************************)
(* Proofs about JobDelivery: the composition implements the registry, so   *)
(* what JobManagerProofs proves carries over; no connection ever loses the *)
(* newest job; nobody is told of a job before it is registered; a miner is *)
(* sent older work only while it has the job it joined with.               *)
(***************************************************************************)
EXTENDS JobDelivery, JobManagerProofs, SequenceTheorems

\* The publisher numbers jobs one by one: the cache is ahead of the channel by
\* the job it is about to send, and neither is ahead of the registry.
PublisherInv ==
  /\ lastSent = IF publisher = "idle" THEN Current ELSE Current - 1
  /\ cached_job = IF publisher \in {"idle", "cached"} THEN Current ELSE Current - 1

\* What the channel retains ends with the last job sent, oldest first.
ChannelInv(c) ==
  /\ \A i \in 1 .. Len(rx[c]) : rx[c][i] >= 1 /\ rx[c][i] <= lastSent
  /\ \A i, j \in 1 .. Len(rx[c]) : i < j => rx[c][i] < rx[c][j]
  /\ rx[c] # <<>> => rx[c][Len(rx[c])] = lastSent

\* Before the select loop nothing is pending and nothing was written; and
\* with an empty channel the newest job is the next thing in hand.
NewestInv(c) ==
  /\ phase[c] # "mining" => pending[c] = NoJob /\ view[c] = NoJob
  /\ phase[c] = "closed" => rx[c] = <<>>
  /\ phase[c] = "joining" /\ rx[c] = <<>> => joined[c] \in {lastSent, cached_job}
  /\ phase[c] = "mining" /\ rx[c] = <<>> =>
       IF pending[c] # NoJob THEN pending[c] = lastSent
       ELSE view[c] \in {lastSent, cached_job}

\* Jobs from the channel come in order.
OrderInv(c) ==
  /\ pending[c] <= lastSent
  /\ view[c] <= cached_job /\ joined[c] <= cached_job
  /\ pending[c] # NoJob => \A i \in 1 .. Len(rx[c]) : pending[c] < rx[c][i]
  /\ view[c] # joined[c] =>
       /\ view[c] <= lastSent
       /\ \A i \in 1 .. Len(rx[c]) : view[c] < rx[c][i]
       /\ pending[c] # NoJob => view[c] < pending[c]

ConnInv(c) == ChannelInv(c) /\ NewestInv(c) /\ OrderInv(c)

\* The inductive invariant.
JobDeliveryInv ==
  /\ JobManagerInv
  /\ JobDeliveryTypeOK
  /\ PublisherInv
  /\ \A c \in Conns : ConnInv(c)

---------------------------------------------------------------------------
(* The composition and the registry *)

\* A step of a connection leaves the registry alone.
LEMMA ConnStepFrame ==
  ASSUME NEW c \in Conns, ConnStep(c) PROVE UNCHANGED jmVars
BY DEF ConnStep, Connect, MiningSubscribe, MiningAuthorize, ReadCache, WriteInitial,
   Receive, RecvJob, RecvLagged, ThrottleTick, Disconnect

\* Every step of the composition is one of the registry, or leaves it alone.
LEMMA RegistryStep == [JobDeliveryNext]_jdVars => [JobManagerNext]_jmVars
BY ConnStepFrame DEF JobDeliveryNext, Broadcast, JobManagerNext, jdVars

\* Connections never disturb the registry: the composition implements it.
THEOREM ImplementsRegistry == JobDeliverySpec => JobManagerSpec
<1>1. JobDeliveryInit => JobManagerInit
  BY DEF JobDeliveryInit
<1> QED
  BY <1>1, RegistryStep, PTL DEF JobDeliverySpec, JobManagerSpec

---------------------------------------------------------------------------
(* The broadcast channel *)

\* After a send the channel ends with the new job; before it comes what was
\* retained, less the oldest job if the channel was full.
LEMMA RetainLemma ==
  ASSUME NEW q \in Seq(JobIds), Len(q) <= ChanCap, NEW id \in JobIds
  PROVE  /\ Retain(q, id) \in Seq(JobIds)
         /\ Len(Retain(q, id)) <= ChanCap
         /\ Retain(q, id) # <<>>
         /\ Retain(q, id)[Len(Retain(q, id))] = id
         /\ \E d \in {0, 1} :
              /\ Len(Retain(q, id)) = Len(q) - d + 1
              /\ \A i \in 1 .. Len(q) - d : /\ Retain(q, id)[i] = q[i + d]
                                            /\ i + d \in 1 .. Len(q)
<1> USE JobDeliveryAssumption
<1>1. CASE Len(q) < ChanCap
  <2>1. Retain(q, id) = Append(q, id)
    BY <1>1 DEF Retain
  <2>2. /\ Append(q, id) \in Seq(JobIds)
        /\ Len(Append(q, id)) = Len(q) + 1
        /\ \A i \in 1 .. Len(q) : Append(q, id)[i] = q[i]
        /\ Append(q, id)[Len(q) + 1] = id
        /\ Append(q, id) # <<>>
    BY AppendProperties
  <2> QED
    BY <1>1, <2>1, <2>2
<1>2. CASE Len(q) = ChanCap
  <2> DEFINE t == Tail(q)
  <2>1. Retain(q, id) = Append(t, id)
    BY <1>2 DEF Retain
  <2>2. q # <<>>
    BY <1>2
  <2>3. /\ t \in Seq(JobIds)
        /\ Len(t) = Len(q) - 1
        /\ \A i \in 1 .. Len(q) - 1 : t[i] = q[i + 1]
    BY <2>2
  <2> HIDE DEF t
  <2>4. /\ Append(t, id) \in Seq(JobIds)
        /\ Len(Append(t, id)) = Len(t) + 1
        /\ \A i \in 1 .. Len(t) : Append(t, id)[i] = t[i]
        /\ Append(t, id)[Len(t) + 1] = id
        /\ Append(t, id) # <<>>
    BY <2>3, AppendProperties
  <2> QED
    BY <1>2, <2>1, <2>3, <2>4
<1> QED
  BY <1>1, <1>2

\* A receiver's next job is the oldest; the rest follows.
LEMMA TailLemma ==
  ASSUME NEW q \in Seq(JobIds), q # <<>>
  PROVE  /\ Head(q) = q[1] /\ Head(q) \in JobIds
         /\ Tail(q) \in Seq(JobIds)
         /\ Len(Tail(q)) = Len(q) - 1 /\ Len(q) >= 1
         /\ \A i \in 1 .. Len(q) - 1 : Tail(q)[i] = q[i + 1]
         /\ Tail(q) = <<>> <=> Len(q) = 1
<1>1. /\ Head(q) \in JobIds /\ Tail(q) \in Seq(JobIds)
      /\ Len(Tail(q)) = Len(q) - 1
      /\ \A i \in 1 .. Len(Tail(q)) : Tail(q)[i] = q[i + 1]
  BY HeadTailProperties
<1>2. Len(q) \in Nat \ {0}
  BY EmptySeq
<1>3. Tail(q) = <<>> <=> Len(Tail(q)) = 0
  BY <1>1, EmptySeq
<1>4. Head(q) = q[1]
  OBVIOUS
<1> QED
  BY <1>1, <1>2, <1>3, <1>4

---------------------------------------------------------------------------
(* Type correctness *)

\* The variables have their types initially.
LEMMA DeliveryTypeInit == JobDeliveryInit => JobDeliveryTypeOK
<1> SUFFICES ASSUME JobDeliveryInit PROVE JobDeliveryTypeOK
  OBVIOUS
<1>1. JobManagerTypeOK
  BY TypeInit DEF JobDeliveryInit
<1>2. NoJob \in JobIds /\ <<>> \in Seq(JobIds) /\ Len(<<>>) <= ChanCap
  BY JobManagerAssumption, JobDeliveryAssumption, EmptySeq DEF NoJob, JobIds
<1> QED
  BY <1>1, <1>2 DEF JobDeliveryInit, JobDeliveryTypeOK, Phases

\* Every step keeps the types.
LEMMA DeliveryTypeStep ==
  JobDeliveryTypeOK /\ [JobDeliveryNext]_jdVars => JobDeliveryTypeOK'
<1> SUFFICES ASSUME JobDeliveryTypeOK, [JobDeliveryNext]_jdVars
             PROVE  JobDeliveryTypeOK'
  OBVIOUS
<1>0. JobManagerTypeOK /\ JobManagerTypeOK'
  BY TypeStep, RegistryStep DEF JobDeliveryTypeOK
<1>1. NoJob \in JobIds /\ cached_job \in JobIds /\ <<>> \in Seq(JobIds)
  BY <1>0, JobManagerAssumption DEF NoJob, JobIds, JobManagerTypeOK
<1> USE DEF JobDeliveryTypeOK
<1>2. CASE UNCHANGED connVars
  BY <1>0, <1>2 DEF connVars
<1>3. CASE Broadcast
  <2>1. Current \in JobIds
    BY <1>0, JobManagerAssumption DEF JobManagerTypeOK, Current, JobIds
  <2>2. \A c \in Conns : /\ Retain(rx[c], Current) \in Seq(JobIds)
                         /\ Len(Retain(rx[c], Current)) <= ChanCap
    BY <2>1, RetainLemma
  <2>3. rx' \in [Conns -> Seq(JobIds)] /\ \A c \in Conns : Len(rx'[c]) <= ChanCap
    BY <1>3, <2>2 DEF Broadcast
  <2>4. lagged' \in [Conns -> BOOLEAN]
    BY <1>3, Zenon DEF Broadcast
  <2> QED
    BY <1>0, <1>3, <2>3, <2>4 DEF Broadcast
<1>4. ASSUME NEW c \in Conns, Connect(c) \/ MiningSubscribe(c) \/ MiningAuthorize(c)
      PROVE  JobDeliveryTypeOK'
  BY <1>0, <1>4 DEF Connect, MiningSubscribe, MiningAuthorize, Phases
<1>5. ASSUME NEW c \in Conns, ReadCache(c) PROVE JobDeliveryTypeOK'
  BY <1>0, <1>1, <1>5 DEF ReadCache, Phases
<1>6. ASSUME NEW c \in Conns, WriteInitial(c) PROVE JobDeliveryTypeOK'
  BY <1>0, <1>6 DEF WriteInitial, Phases
<1>7. ASSUME NEW c \in Conns, RecvJob(c) PROVE JobDeliveryTypeOK'
  <2>1. /\ Head(rx[c]) \in JobIds
        /\ Tail(rx[c]) \in Seq(JobIds) /\ Len(Tail(rx[c])) <= ChanCap
    BY <1>7, TailLemma, JobDeliveryAssumption DEF RecvJob
  <2> QED
    BY <1>0, <1>7, <2>1 DEF RecvJob
<1>8. ASSUME NEW c \in Conns, RecvLagged(c) \/ ThrottleTick(c)
      PROVE  JobDeliveryTypeOK'
  BY <1>0, <1>1, <1>8 DEF RecvLagged, ThrottleTick
<1>9. ASSUME NEW c \in Conns, Disconnect(c) PROVE JobDeliveryTypeOK'
  BY <1>0, <1>1, <1>9, JobDeliveryAssumption DEF Disconnect, Phases
<1> QED
  BY <1>2, <1>3, <1>4, <1>5, <1>6, <1>7, <1>8, <1>9
     DEF JobDeliveryNext, ConnStep, Receive, jdVars

\* Type correctness of the composition; the channel stays within its capacity.
THEOREM DeliveryTypeCorrect == JobDeliverySpec => []JobDeliveryTypeOK
BY DeliveryTypeInit, DeliveryTypeStep, PTL DEF JobDeliverySpec

---------------------------------------------------------------------------
(* The publisher *)

\* Every step keeps the cache at most one job ahead of the channel.
LEMMA PublisherStep ==
  JobManagerTypeOK /\ PublisherInv /\ [JobManagerNext]_jmVars => PublisherInv'
<1> SUFFICES ASSUME JobManagerTypeOK, PublisherInv, [JobManagerNext]_jmVars
             PROVE  PublisherInv'
  OBVIOUS
<1> USE JobManagerAssumption DEF JobManagerTypeOK, PublisherInv, Current
<1>1. CASE InsertActive
  BY <1>1 DEF InsertActive
<1>2. CASE InsertTimestamp
  BY <1>2 DEF InsertTimestamp
<1>3. CASE WriteCache
  BY <1>3 DEF WriteCache
<1>4. CASE SendJob
  BY <1>4 DEF SendJob
<1>5. CASE UNCHANGED publishVars
  BY <1>5 DEF publishVars
<1> QED
  BY <1>1, <1>2, <1>3, <1>4, <1>5 DEF JobManagerNext, Internal, GcStep, GcScan,
     GcRemoveActive, GcRemoveTimestamp, Tick, jmVars

\* Where the publisher stands, as numbers.
LEMMA PublisherFacts ==
  ASSUME JobManagerTypeOK, PublisherInv
  PROVE  /\ Current \in Nat /\ lastSent \in Nat /\ cached_job \in Nat
         /\ lastSent <= cached_job
         /\ publisher = "stamped" => cached_job = lastSent /\ Current = lastSent + 1
         /\ publisher = "cached" => cached_job = Current /\ Current = lastSent + 1
BY JobManagerAssumption DEF JobManagerTypeOK, PublisherInv, Current, JobIds

---------------------------------------------------------------------------
(* The inductive invariant *)

\* A connection that is not touched, with a publisher that is not, keeps its
\* invariant.
LEMMA ConnFrame ==
  ASSUME NEW c \in Conns, ConnInv(c),
         lastSent' = lastSent, cached_job' = cached_job,
         phase'[c] = phase[c], rx'[c] = rx[c], joined'[c] = joined[c],
         pending'[c] = pending[c], view'[c] = view[c]
  PROVE  ConnInv(c)'
BY DEF ConnInv, ChannelInv, NewestInv, OrderInv

\* The initial states satisfy the invariant.
LEMMA DeliveryInvInit == JobDeliveryInit => JobDeliveryInv
<1> SUFFICES ASSUME JobDeliveryInit PROVE JobDeliveryInv
  OBVIOUS
<1>1. JobManagerInv /\ JobDeliveryTypeOK
  BY InvInit, DeliveryTypeInit DEF JobDeliveryInit
<1>2. PublisherInv
  BY DEF JobDeliveryInit, JobManagerInit, PublisherInv, Current, NoJob
<1>3. ASSUME NEW c \in Conns PROVE ConnInv(c)
  <2>1. Len(<<>>) = 0
    BY EmptySeq
  <2>2. /\ rx[c] = <<>> /\ phase[c] = "closed"
        /\ joined[c] = 0 /\ pending[c] = 0 /\ view[c] = 0
        /\ lastSent = 0 /\ cached_job = 0
    BY DEF JobDeliveryInit, JobManagerInit, NoJob
  <2> QED
    BY <2>1, <2>2 DEF ConnInv, ChannelInv, NewestInv, OrderInv, NoJob
<1> QED
  BY <1>1, <1>2, <1>3 DEF JobDeliveryInv

\* A job in the cache before it is sent disturbs no connection.
LEMMA ConnInvWriteCache ==
  ASSUME JobDeliveryInv, WriteCache, UNCHANGED connVars, NEW c \in Conns
  PROVE  ConnInv(c)'
<1>1. /\ cached_job' = lastSent + 1 /\ cached_job = lastSent
      /\ lastSent' = lastSent /\ lastSent \in Nat
  BY PublisherFacts DEF JobDeliveryInv, JobDeliveryTypeOK, WriteCache
<1>2. /\ joined[c] \in Nat /\ view[c] \in Nat /\ pending[c] \in Nat
  BY DEF JobDeliveryInv, JobDeliveryTypeOK, JobIds
<1>3. ConnInv(c)
  BY DEF JobDeliveryInv
<1>4. /\ phase' = phase /\ rx' = rx /\ joined' = joined
      /\ pending' = pending /\ view' = view
  BY DEF connVars
<1>5. ChannelInv(c)'
  BY <1>1, <1>3, <1>4 DEF ConnInv, ChannelInv
<1>6. NewestInv(c)'
  BY <1>1, <1>3, <1>4 DEF ConnInv, NewestInv
<1>7. OrderInv(c)'
  <2>1. view[c] <= cached_job /\ joined[c] <= cached_job
    BY <1>3 DEF ConnInv, OrderInv
  <2>2. view[c] <= cached_job' /\ joined[c] <= cached_job'
    BY <1>1, <1>2, <2>1
  <2> QED
    BY <1>1, <1>3, <1>4, <2>2 DEF ConnInv, OrderInv
<1> QED
  BY <1>5, <1>6, <1>7 DEF ConnInv

\* A send appends the next job to every open channel.
LEMMA ConnInvBroadcast ==
  ASSUME JobDeliveryInv, Broadcast, NEW c \in Conns
  PROVE  ConnInv(c)'
<1> DEFINE q == rx[c]
           r == Retain(q, Current)
<1>1. /\ lastSent' = Current /\ cached_job' = cached_job /\ cached_job = Current
      /\ Current = lastSent + 1 /\ lastSent \in Nat /\ Current \in JobIds
  BY PublisherFacts DEF JobDeliveryInv, JobDeliveryTypeOK, JobManagerTypeOK,
     Broadcast, SendJob
<1>2. /\ phase'[c] = phase[c] /\ joined'[c] = joined[c]
      /\ pending'[c] = pending[c] /\ view'[c] = view[c]
  BY DEF Broadcast
<1>3. rx'[c] = IF Open(c) THEN r ELSE q
  BY DEF Broadcast
<1>4. /\ q \in Seq(JobIds) /\ Len(q) <= ChanCap /\ Len(q) \in Nat
      /\ joined[c] \in Nat /\ view[c] \in Nat /\ pending[c] \in Nat
  BY DEF JobDeliveryInv, JobDeliveryTypeOK, JobIds
<1>4a. \A i \in 1 .. Len(q) : q[i] \in Nat
  <2>1. \A i \in 1 .. Len(q) : q[i] \in JobIds
    BY <1>4, ElementOfSeq
  <2> QED
    BY <2>1 DEF JobIds
<1>5. ConnInv(c)
  BY DEF JobDeliveryInv
<1>6. CASE ~Open(c)
  <2>1. q = <<>> /\ Len(q) = 0 /\ phase[c] = "closed"
    BY <1>5, <1>6, EmptySeq DEF ConnInv, NewestInv, Open
  <2> QED
    BY <1>1, <1>2, <1>3, <1>4, <1>5, <1>6, <2>1
       DEF ConnInv, ChannelInv, NewestInv, OrderInv, NoJob
<1>7. CASE Open(c)
  <2>1. r # <<>> /\ r[Len(r)] = Current /\ rx'[c] = r
    BY <1>1, <1>3, <1>4, <1>7, RetainLemma
  <2>2. PICK d \in {0, 1} :
          /\ Len(r) = Len(q) - d + 1
          /\ \A i \in 1 .. Len(q) - d : r[i] = q[i + d] /\ i + d \in 1 .. Len(q)
    BY <1>1, <1>4, RetainLemma
  <2> HIDE DEF q, r
  <2>3. \A i \in 1 .. Len(r) : i # Len(r) => i \in 1 .. Len(q) - d
    BY <1>4, <2>2
  <2>4. \A i \in 1 .. Len(r) : i # Len(r) => r[i] >= 1 /\ r[i] <= lastSent
    BY <1>5, <2>2, <2>3 DEF ConnInv, ChannelInv, q
  <2>5. \A i \in 1 .. Len(r) : r[i] >= 1 /\ r[i] <= Current
    <3> SUFFICES ASSUME NEW i \in 1 .. Len(r) PROVE r[i] >= 1 /\ r[i] <= Current
      OBVIOUS
    <3>1. CASE i = Len(r)
      BY <1>1, <2>1, <3>1
    <3>2. CASE i # Len(r)
      <4>1. r[i] = q[i + d] /\ i + d \in 1 .. Len(q)
        BY <2>2, <2>3, <3>2
      <4>2. q[i + d] \in Nat
        BY <1>4a, <4>1
      <4> QED
        BY <1>1, <2>4, <3>2, <4>1, <4>2
    <3> QED
      BY <3>1, <3>2
  <2>6. \A i, j \in 1 .. Len(r) : i < j => r[i] < r[j]
    <3> SUFFICES ASSUME NEW i \in 1 .. Len(r), NEW j \in 1 .. Len(r), i < j
                 PROVE  r[i] < r[j]
      OBVIOUS
    <3>0. i # Len(r) /\ r[i] = q[i + d] /\ i + d \in 1 .. Len(q)
      BY <1>4, <2>2, <2>3
    <3>1. CASE j = Len(r)
      <4>1. q[i + d] \in Nat
        BY <1>4a, <3>0
      <4> QED
        BY <1>1, <2>1, <2>4, <3>0, <3>1, <4>1
    <3>2. CASE j # Len(r)
      <4>1. r[j] = q[j + d] /\ j + d \in 1 .. Len(q) /\ i + d < j + d
        BY <2>2, <2>3, <3>2
      <4> QED
        BY <1>5, <3>0, <4>1 DEF ConnInv, ChannelInv, q
    <3> QED
      BY <3>1, <3>2
  <2>7. ChannelInv(c)'
    BY <1>1, <2>1, <2>5, <2>6 DEF ChannelInv
  <2>8. NewestInv(c)'
    BY <1>2, <1>5, <1>7, <2>1 DEF NewestInv, ConnInv, Open
  <2>9. ASSUME NEW x \in Nat, x <= lastSent, \A i \in 1 .. Len(q) : x < q[i]
        PROVE  \A i \in 1 .. Len(r) : x < r[i]
    <3> SUFFICES ASSUME NEW i \in 1 .. Len(r) PROVE x < r[i]
      OBVIOUS
    <3>1. CASE i = Len(r)
      BY <1>1, <2>1, <2>9, <3>1
    <3>2. CASE i # Len(r)
      BY <2>2, <2>3, <2>9, <3>2
    <3> QED
      BY <3>1, <3>2
  <2>10. OrderInv(c)'
    <3>1. (pending[c] # NoJob => \A i \in 1 .. Len(rx[c]) : pending[c] < rx[c][i])'
      BY <1>2, <1>4, <1>5, <2>1, <2>9 DEF ConnInv, OrderInv, q
    <3>2. (view[c] # joined[c] => \A i \in 1 .. Len(rx[c]) : view[c] < rx[c][i])'
      BY <1>2, <1>4, <1>5, <2>1, <2>9 DEF ConnInv, OrderInv, q
    <3>3. (/\ pending[c] <= lastSent
           /\ view[c] <= cached_job /\ joined[c] <= cached_job
           /\ view[c] # joined[c] => /\ view[c] <= lastSent
                                     /\ pending[c] # NoJob => view[c] < pending[c])'
      BY <1>1, <1>2, <1>4, <1>5 DEF ConnInv, OrderInv
    <3> QED
      BY <3>1, <3>2, <3>3 DEF OrderInv
  <2> QED
    BY <2>7, <2>8, <2>10 DEF ConnInv
<1> QED
  BY <1>6, <1>7

\* A step of a connection keeps its own invariant.
LEMMA ConnInvOwnStep ==
  ASSUME JobDeliveryInv, NEW c \in Conns, ConnStep(c)
  PROVE  ConnInv(c)'
<1>1. /\ phase \in [Conns -> Phases] /\ rx \in [Conns -> Seq(JobIds)]
      /\ joined \in [Conns -> JobIds] /\ pending \in [Conns -> JobIds]
      /\ view \in [Conns -> JobIds]
  BY DEF JobDeliveryInv, JobDeliveryTypeOK
<1>2. /\ joined[c] \in Nat /\ view[c] \in Nat /\ pending[c] \in Nat
      /\ rx[c] \in Seq(JobIds) /\ Len(rx[c]) \in Nat
      /\ lastSent \in Nat /\ cached_job \in Nat /\ lastSent <= cached_job
  BY <1>1, PublisherFacts DEF JobIds, JobDeliveryInv, JobDeliveryTypeOK
<1>3. lastSent' = lastSent /\ cached_job' = cached_job
  BY ConnStepFrame DEF jmVars, publishVars
<1>4. ChannelInv(c) /\ NewestInv(c) /\ OrderInv(c)
  BY DEF JobDeliveryInv, ConnInv
<1> USE DEF ConnInv, ChannelInv, NewestInv, OrderInv
<1>5. CASE Connect(c) \/ MiningSubscribe(c) \/ MiningAuthorize(c)
  <2>1. /\ phase'[c] \notin {"closed", "joining", "mining"} /\ phase[c] # "mining"
        /\ UNCHANGED <<rx, joined, pending, view>>
    BY <1>1, <1>5 DEF Connect, MiningSubscribe, MiningAuthorize
  <2> QED
    BY <1>3, <1>4, <2>1
<1>6. CASE ReadCache(c)
  <2>1. /\ phase'[c] = "joining" /\ phase[c] = "greet" /\ joined'[c] = cached_job
        /\ UNCHANGED <<rx, pending, view>>
    BY <1>1, <1>6 DEF ReadCache
  <2>2. pending[c] = NoJob /\ view[c] = NoJob
    BY <1>4, <2>1
  <2>3. \A i \in 1 .. Len(rx[c]) : view[c] < rx[c][i]
    <3>1. \A i \in 1 .. Len(rx[c]) : rx[c][i] \in JobIds
      BY <1>2, ElementOfSeq
    <3> QED
      BY <1>4, <2>2, <3>1 DEF NoJob, JobIds
  <2>4. ChannelInv(c)'
    BY <1>3, <1>4, <2>1
  <2>5. NewestInv(c)'
    BY <1>1, <1>3, <2>1, <2>2
  <2>6. OrderInv(c)'
    BY <1>1, <1>2, <1>3, <2>1, <2>2, <2>3 DEF NoJob
  <2> QED
    BY <2>4, <2>5, <2>6
<1>7. CASE WriteInitial(c)
  <2>1. /\ phase'[c] = "mining" /\ phase[c] = "joining" /\ view'[c] = joined[c]
        /\ UNCHANGED <<rx, joined, pending>>
    BY <1>1, <1>7 DEF WriteInitial
  <2> QED
    BY <1>2, <1>3, <1>4, <2>1
<1>8. CASE RecvJob(c)
  <2> DEFINE q == rx[c]
             t == Tail(q)
  <2>1. /\ phase'[c] = "mining" /\ phase[c] = "mining" /\ q # <<>>
        /\ pending'[c] = Head(q) /\ rx'[c] = t
        /\ UNCHANGED <<joined, view>>
    BY <1>1, <1>8 DEF RecvJob
  <2>2. /\ Head(q) = q[1] /\ Len(t) = Len(q) - 1 /\ Len(q) >= 1
        /\ \A i \in 1 .. Len(q) - 1 : t[i] = q[i + 1]
        /\ t = <<>> <=> Len(q) = 1
    BY <1>2, <2>1, TailLemma
  <2>3. /\ \A i \in 1 .. Len(q) : q[i] \in Nat /\ q[i] >= 1 /\ q[i] <= lastSent
        /\ \A i, j \in 1 .. Len(q) : i < j => q[i] < q[j]
        /\ q[Len(q)] = lastSent
        /\ view[c] # joined[c] => \A i \in 1 .. Len(q) : view[c] < q[i]
    <3>1. \A i \in 1 .. Len(q) : q[i] \in JobIds
      BY <1>2, ElementOfSeq
    <3> QED
      BY <1>4, <2>1, <3>1 DEF JobIds
  <2> HIDE DEF q, t
  <2>4. 1 \in 1 .. Len(q) /\ \A i \in 1 .. Len(t) : i + 1 \in 1 .. Len(q) /\ t[i] = q[i + 1]
    BY <1>2, <2>2 DEF q
  <2>5. ChannelInv(c)'
    <3>1. \A i \in 1 .. Len(t) : t[i] >= 1 /\ t[i] <= lastSent
      BY <2>3, <2>4
    <3>2. \A i, j \in 1 .. Len(t) : i < j => t[i] < t[j]
      BY <2>3, <2>4
    <3>3. t # <<>> => t[Len(t)] = lastSent
      <4> SUFFICES ASSUME t # <<>> PROVE t[Len(t)] = lastSent
        OBVIOUS
      <4>1. Len(t) \in 1 .. Len(t) /\ Len(t) + 1 = Len(q)
        BY <1>2, <2>2 DEF q
      <4> QED
        BY <2>3, <2>4, <4>1
    <3> QED
      BY <1>3, <2>1, <3>1, <3>2, <3>3
  <2>6. NewestInv(c)'
    <3>1. pending'[c] # NoJob
      BY <2>1, <2>2, <2>3, <2>4 DEF NoJob
    <3>2. t = <<>> => pending'[c] = lastSent
      BY <2>1, <2>2, <2>3
    <3> QED
      BY <1>3, <2>1, <3>1, <3>2
  <2>7. OrderInv(c)'
    <3>1. \A i \in 1 .. Len(t) : pending'[c] < t[i]
      <4> SUFFICES ASSUME NEW i \in 1 .. Len(t) PROVE q[1] < q[i + 1]
        BY <2>1, <2>2, <2>4
      <4>1. 1 < i + 1
        OBVIOUS
      <4> QED
        BY <2>3, <2>4, <4>1
    <3>2. view[c] # joined[c] =>
            /\ \A i \in 1 .. Len(t) : view[c] < t[i]
            /\ view[c] < pending'[c]
      BY <2>1, <2>2, <2>3, <2>4
    <3>3. pending'[c] <= lastSent
      BY <2>1, <2>2, <2>3, <2>4
    <3> QED
      BY <1>3, <1>4, <2>1, <3>1, <3>2, <3>3
  <2> QED
    BY <2>5, <2>6, <2>7
<1>9. CASE RecvLagged(c)
  <2>1. UNCHANGED <<phase, rx, joined, pending, view>>
    BY <1>9 DEF RecvLagged
  <2> QED
    BY <1>3, <1>4, <2>1
<1>10. CASE ThrottleTick(c)
  <2>1. /\ phase[c] = "mining" /\ pending[c] # NoJob
        /\ view'[c] = pending[c] /\ pending'[c] = NoJob
        /\ UNCHANGED <<phase, rx, joined>>
    BY <1>1, <1>10 DEF ThrottleTick
  <2> QED
    BY <1>2, <1>3, <1>4, <2>1 DEF NoJob
<1>11. CASE Disconnect(c)
  <2>1. /\ phase'[c] = "closed" /\ rx'[c] = <<>>
        /\ joined'[c] = NoJob /\ pending'[c] = NoJob /\ view'[c] = NoJob
    BY <1>1, <1>11 DEF Disconnect
  <2>2. Len(<<>>) = 0
    BY EmptySeq
  <2> QED
    BY <1>2, <1>3, <2>1, <2>2 DEF NoJob
<1> QED
  BY <1>5, <1>6, <1>7, <1>8, <1>9, <1>10, <1>11 DEF ConnStep, Receive

\* No connection touches another one.
LEMMA ConnInvOtherStep ==
  ASSUME JobDeliveryInv, NEW c \in Conns, NEW d \in Conns, d # c, ConnStep(d)
  PROVE  ConnInv(c)'
<1>1. lastSent' = lastSent /\ cached_job' = cached_job
  BY ConnStepFrame DEF jmVars, publishVars
<1>2. /\ phase'[c] = phase[c] /\ rx'[c] = rx[c] /\ joined'[c] = joined[c]
      /\ pending'[c] = pending[c] /\ view'[c] = view[c]
  BY DEF JobDeliveryInv, JobDeliveryTypeOK, ConnStep, Receive, Connect,
     MiningSubscribe, MiningAuthorize, ReadCache, WriteInitial, RecvJob, RecvLagged,
     ThrottleTick, Disconnect
<1> QED
  BY <1>1, <1>2, ConnFrame DEF JobDeliveryInv

\* Every step of the composition keeps the invariant.
LEMMA DeliveryInvStep ==
  JobDeliveryInv /\ [JobDeliveryNext]_jdVars => JobDeliveryInv'
<1> SUFFICES ASSUME JobDeliveryInv, [JobDeliveryNext]_jdVars PROVE JobDeliveryInv'
  OBVIOUS
<1>1. JobManagerInv' /\ PublisherInv' /\ JobDeliveryTypeOK'
  BY RegistryStep, InvStep, PublisherStep, DeliveryTypeStep
     DEF JobDeliveryInv, JobDeliveryTypeOK
<1>2. ASSUME NEW c \in Conns PROVE ConnInv(c)'
  <2>1. CASE WriteCache /\ UNCHANGED connVars
    BY <2>1, ConnInvWriteCache
  <2>2. CASE UNCHANGED <<lastSent, cached_job, connVars>>
    BY <2>2, ConnFrame DEF JobDeliveryInv, connVars
  <2>3. CASE Broadcast
    BY <2>3, ConnInvBroadcast
  <2>4. ASSUME NEW d \in Conns, ConnStep(d) PROVE ConnInv(c)'
    BY <2>4, ConnInvOwnStep, ConnInvOtherStep
  <2> QED
    BY <2>1, <2>2, <2>3, <2>4 DEF JobDeliveryNext, Internal, GcStep, InsertActive,
       InsertTimestamp, GcScan, GcRemoveActive, GcRemoveTimestamp, Tick, jdVars,
       jmVars, publishVars
<1> QED
  BY <1>1, <1>2 DEF JobDeliveryInv

\* The invariant holds in every reachable state.
THEOREM DeliveryInvariant == JobDeliverySpec => []JobDeliveryInv
BY DeliveryInvInit, DeliveryInvStep, PTL DEF JobDeliverySpec

---------------------------------------------------------------------------
(* The properties *)

\* A mining connection always has the newest job in hand: handle_worker_connection
\* subscribes before it reads the cache, process_new_block fills the cache
\* before it sends, and an overflow of the channel costs the oldest jobs only.
THEOREM NewestKept == JobDeliverySpec => []NewestNotLost
<1>1. JobDeliveryInv => NewestNotLost
  BY DEF JobDeliveryInv, ConnInv, ChannelInv, NewestInv, NewestNotLost, Held
<1> QED
  BY <1>1, DeliveryInvariant, PTL

\* Whoever was told of a job was told of one that was drawn: the cache and the
\* channel get a job after it was inserted, a connection gets it from them.
LEMMA ToldWasDrawn ==
  ASSUME JobDeliveryInv, NEW id \in Told PROVE id \in 1 .. jobCounter - 1
<1>1. /\ jobCounter \in Nat /\ cached_job \in Nat /\ lastSent \in Nat
      /\ cached_job <= Current /\ lastSent <= Current
  BY JobManagerAssumption
     DEF JobDeliveryInv, JobDeliveryTypeOK, JobManagerTypeOK, JobIds, PublisherInv, Current
<1>2. id # NoJob
  BY DEF Told
<1>3. CASE id \in {cached_job, lastSent}
  BY <1>1, <1>2, <1>3 DEF Current, NoJob
<1>4. ASSUME NEW c \in Conns, id \in {rx[c][i] : i \in DOMAIN rx[c]}
      PROVE  id \in 1 .. jobCounter - 1
  <2>1. PICK i \in DOMAIN rx[c] : id = rx[c][i]
    BY <1>4
  <2>2. rx[c] \in Seq(JobIds)
    BY DEF JobDeliveryInv, JobDeliveryTypeOK
  <2>3. i \in 1 .. Len(rx[c]) /\ id \in Nat
    <3>1. DOMAIN rx[c] = 1 .. Len(rx[c]) /\ rx[c][i] \in JobIds
      BY <2>1, <2>2, ElementOfSeq, LenProperties
    <3> QED
      BY <2>1, <3>1 DEF JobIds
  <2>4. id >= 1 /\ id <= lastSent
    BY <2>1, <2>3 DEF JobDeliveryInv, ConnInv, ChannelInv
  <2> QED
    BY <1>1, <2>3, <2>4 DEF Current
<1>5. ASSUME NEW c \in Conns, id \in {joined[c], pending[c], view[c]}
      PROVE  id \in 1 .. jobCounter - 1
  <2>1. joined[c] \in Nat /\ pending[c] \in Nat /\ view[c] \in Nat
    BY DEF JobDeliveryInv, JobDeliveryTypeOK, JobIds
  <2>2. pending[c] <= lastSent /\ view[c] <= cached_job /\ joined[c] <= cached_job
    BY DEF JobDeliveryInv, ConnInv, OrderInv
  <2> QED
    BY <1>1, <1>2, <1>5, <2>1, <2>2 DEF Current, NoJob
<1> QED
  BY <1>3, <1>4, <1>5 DEF Told

\* A job that was announced never becomes available only later: process_new_block
\* inserts the job before it writes the cache and sends it, and what it inserts
\* afterwards are jobs nobody was told of.
THEOREM ToldAfterRegistered == JobDeliverySpec => RegisteredBeforeTold
<1>1. ASSUME JobDeliveryInv, [JobDeliveryNext]_jdVars, NEW id \in Told,
             active_jobs[Key(id)] # id
      PROVE  active_jobs'[Key(id)] # id
  <2>1. id \in 1 .. jobCounter - 1 /\ jobCounter \in Nat
    BY <1>1, ToldWasDrawn DEF JobDeliveryInv, JobDeliveryTypeOK, JobManagerTypeOK
  <2>2. id # NoJob /\ id # jobCounter
    BY <2>1 DEF NoJob
  <2>3. DOMAIN active_jobs = Keys
    BY <1>1 DEF JobDeliveryInv, JobDeliveryTypeOK, JobManagerTypeOK
  <2>4. CASE InsertActive
    BY <1>1, <2>2, <2>3, <2>4 DEF InsertActive
  <2>5. ASSUME NEW k \in Keys, GcRemoveActive(k) PROVE active_jobs'[Key(id)] # id
    BY <1>1, <2>2, <2>3, <2>5 DEF GcRemoveActive
  <2>6. CASE UNCHANGED active_jobs
    BY <1>1, <2>6
  <2>7. ASSUME NEW c \in Conns, ConnStep(c) PROVE UNCHANGED active_jobs
    BY <2>7, ConnStepFrame DEF jmVars
  <2> QED
    BY <1>1, <2>4, <2>5, <2>6, <2>7 DEF JobDeliveryNext, Internal, GcStep, Broadcast, SendJob,
       InsertTimestamp, WriteCache, GcScan, GcRemoveTimestamp, Tick, jdVars, jmVars
<1>2. JobDeliveryInv /\ [JobDeliveryNext]_jdVars
        => [\A id \in Told :
              active_jobs[Key(id)] # id => active_jobs'[Key(id)] # id]_jdVars
  BY <1>1
<1> QED
  BY <1>2, DeliveryInvariant, PTL DEF JobDeliverySpec, RegisteredBeforeTold

\* A miner is sent an older job than the one it has only while that one is the
\* job it joined with.
THEOREM BackOnce == JobDeliverySpec => BackOnlyFromCache
<1> DEFINE Forward(c) == view'[c] < view[c] /\ phase'[c] = "mining" => view[c] = joined[c]
<1>1. JobDeliveryInv /\ [JobDeliveryNext]_jdVars => [\A c \in Conns : Forward(c)]_jdVars
  <2> SUFFICES ASSUME JobDeliveryInv, [JobDeliveryNext]_jdVars, NEW c \in Conns,
                      view'[c] < view[c], phase'[c] = "mining"
               PROVE  view[c] = joined[c]
    OBVIOUS
  <2>1. /\ view \in [Conns -> JobIds] /\ pending \in [Conns -> JobIds]
        /\ joined \in [Conns -> JobIds] /\ phase \in [Conns -> Phases]
    BY DEF JobDeliveryInv, JobDeliveryTypeOK
  <2>2. view[c] \in Nat /\ pending[c] \in Nat /\ joined[c] \in Nat
    BY <2>1 DEF JobIds
  <2>3. CASE UNCHANGED view
    BY <2>2, <2>3
  <2>4. ASSUME NEW d \in Conns, WriteInitial(d) PROVE view[c] = joined[c]
    <3>1. d = c
      BY <2>1, <2>2, <2>4 DEF WriteInitial
    <3>2. view[c] = NoJob
      BY <2>4, <3>1 DEF WriteInitial, JobDeliveryInv, ConnInv, NewestInv
    <3> QED
      BY <2>1, <2>2, <2>4, <3>1, <3>2 DEF WriteInitial, NoJob
  <2>5. ASSUME NEW d \in Conns, ThrottleTick(d) PROVE view[c] = joined[c]
    <3>1. d = c
      BY <2>1, <2>2, <2>5 DEF ThrottleTick
    <3>2. view'[c] = pending[c] /\ pending[c] # NoJob
      BY <2>1, <2>5, <3>1 DEF ThrottleTick
    <3> QED
      BY <2>2, <3>2 DEF JobDeliveryInv, ConnInv, OrderInv
  <2>6. ASSUME NEW d \in Conns, Disconnect(d) PROVE FALSE
    <3>1. d = c
      BY <2>1, <2>2, <2>6 DEF Disconnect
    <3> QED
      BY <2>1, <2>6, <3>1 DEF Disconnect
  <2> QED
    BY <2>3, <2>4, <2>5, <2>6 DEF JobDeliveryNext, ConnStep, Receive, Connect,
       MiningSubscribe, MiningAuthorize, ReadCache, RecvJob, RecvLagged, Broadcast,
       jdVars, connVars
<1> QED
  BY <1>1, DeliveryInvariant, PTL DEF JobDeliverySpec, BackOnlyFromCache
=============================================================================
