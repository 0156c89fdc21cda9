------------------------- MODULE ConnectionsProofs -------------------------
(***************************************************************************)
(* Proofs about Connections: no slot of a tier is lost or given twice, no  *)
(* two connections search the same nonces, and what a miner was told about *)
(* the difficulty and what the pool checks against do not drift apart.     *)
(***************************************************************************)
EXTENDS Connections, QueueLemmas, FiniteSetTheorems

\* The listeners' part of ConnectionsTypeOK, and the watched connection's.
ListenType ==
  /\ listener \in [Tiers -> {"acquire", "accept", "ended"}]
  /\ free \in [Tiers -> 0 .. Slots]
  /\ spawned \in [Tiers -> 0 .. Slots]
  /\ nextId \in 0 .. MaxConns
  /\ conn \in [Ids -> {Closed} \cup [tier : Tiers, extra : 0 .. ExtraSpace - 1]]
  /\ \A c \in Open : c < nextId

LinkType ==
  /\ current_diff \in Diffs /\ minerDiff \in 0 .. MaxDiff
  /\ toMiner \in Seq(Diffs) /\ Len(toMiner) <= MaxInFlight
  /\ toPool \in Seq(Submission) /\ Len(toPool) <= MaxInFlight
  /\ verdict \in [kind : {"none", "stale", "block", "share", "invalid"},
                  diff : 0 .. MaxDiff]

\* The watched connection: the last difficulty that was sent is the one in
\* force, and unless a retarget came between, so is the one a share on its way
\* was found at.
LinkInv ==
  /\ mining => Watched \in Open
  /\ ~mining => toMiner = <<>> /\ minerDiff = 0 /\ toPool = <<>>
  /\ mining /\ toMiner = <<>> => minerDiff = current_diff
  /\ toMiner # <<>> => toMiner[Len(toMiner)] = current_diff
  /\ \A i \in 1 .. Len(toPool) : ~toPool[i].raced => toPool[i].worked = current_diff

\* What SlotsRespected says about one tier.
SlotsAt(t) ==
  free[t] + spawned[t] + Cardinality(OpenIn(t))
    + (IF listener[t] = "accept" THEN 1 ELSE 0) = Slots

\* The extranonce a connection got is that of its id.
ExtraInv == \A c \in Open : conn[c].extra = c % ExtraSpace

\* The inductive invariant: the listeners' part needs that no slot is lost,
\* or a semaphore could have more permits than slots.
ListenInv == ListenType /\ ExtraInv /\ \A t \in Tiers : SlotsAt(t)

ConnectionsInv == ListenInv /\ LinkType /\ LinkInv

---------------------------------------------------------------------------
(* Arithmetic of extranonces *)

\* Ids less than ExtraSpace apart have different extranonces.
LEMMA ExtrasDiffer ==
  ASSUME NEW c \in Nat, NEW d \in Nat, c < d, d - c < ExtraSpace
  PROVE  c % ExtraSpace # d % ExtraSpace
<1> DEFINE E == ExtraSpace
           p == c \div E
           q == d \div E
<1>1. E \in Nat \ {0}
  BY ConnectionsAssumption
<1> HIDE DEF E
<1>2. p \in Int /\ q \in Int /\ c % E \in Int /\ d % E \in Int
  BY <1>1
<1>3. c = E * p + (c % E) /\ d = E * q + (d % E)
  BY <1>1
<1> HIDE DEF p, q
<1>4. SUFFICES ASSUME c % E = d % E PROVE FALSE
  BY DEF E
<1>5. d - c = E * (q - p)
  BY <1>1, <1>2, <1>3, <1>4
<1>6. CASE q - p >= 1
  <2>1. E * (q - p) >= E
    BY <1>1, <1>2, <1>6
  <2> QED
    BY <1>1, <1>5, <2>1 DEF E
<1>7. CASE q - p <= 0
  <2>1. E * (q - p) <= 0
    BY <1>1, <1>2, <1>7
  <2> QED
    BY <1>5, <2>1
<1> QED
  BY <1>2, <1>6, <1>7

\* The digits of the extranonce and of the miner do not run into each other.
LEMMA DigitsDiffer ==
  ASSUME NEW a \in Nat, NEW b \in Nat, a # b,
         NEW m \in 0 .. NonceSpace - 1, NEW n \in 0 .. NonceSpace - 1
  PROVE  a * NonceSpace + m # b * NonceSpace + n
<1> DEFINE N == NonceSpace
<1>1. N \in Nat \ {0} /\ m \in 0 .. N - 1 /\ n \in 0 .. N - 1
  BY ConnectionsAssumption
<1> HIDE DEF N
<1>2. ASSUME NEW x \in Nat, NEW y \in Nat, x < y PROVE y * N >= x * N + N
  <2>1. y * N = x * N + (y - x) * N
    BY <1>1
  <2>2. (y - x) * N >= N
    BY <1>1, <1>2
  <2> QED
    BY <1>1, <2>1, <2>2
<1>3. a * N \in Int /\ b * N \in Int /\ (a < b \/ b < a)
  BY <1>1
<1> QED
  BY <1>1, <1>2, <1>3 DEF N

---------------------------------------------------------------------------
(* The watched connection and its miner *)

\* A connection that has not begun, or is over.
LEMMA LinkReset ==
  ASSUME NEW d \in Diffs, LinkIdle(d)
  PROVE  LinkType' /\ LinkInv'
<1>1. /\ mining' = FALSE /\ current_diff' = d /\ minerDiff' = 0
      /\ toMiner' = <<>> /\ toPool' = <<>> /\ verdict' = NoVerdict
  BY DEF LinkIdle
<1>2. <<>> \in Seq(Diffs) /\ <<>> \in Seq(Submission) /\ Len(<<>>) = 0
  BY EmptyQueue
<1>3. NoVerdict \in [kind : {"none", "stale", "block", "share", "invalid"}, diff : 0 .. MaxDiff]
  BY ConnectionsAssumption DEF NoVerdict, Verdict
<1>4. LinkType'
  BY <1>1, <1>2, <1>3, ConnectionsAssumption DEF LinkType
<1> QED
  BY <1>1, <1>2, <1>4 DEF LinkInv

\* Retargets stay within the bounds of the model.
LEMMA RetargetRange ==
  ASSUME current_diff \in Diffs, NEW d \in {Halved, Doubled}, d <= MaxDiff
  PROVE  d \in Diffs
BY ConnectionsAssumption DEF Halved, Doubled, Diffs

\* The verdict on a submission is one.
LEMMA VerdictType ==
  ASSUME current_diff \in Diffs, NEW s, NEW known \in BOOLEAN
  PROVE  Verified(s, known) \in [kind : {"none", "stale", "block", "share", "invalid"},
                                 diff : 0 .. MaxDiff]
BY ConnectionsAssumption DEF Verified, Verdict, Diffs

\* After the handshake the miner is told the difficulty in force.
LEMMA LinkStart ==
  ASSUME LinkType, LinkInv, StartMining
  PROVE  LinkType' /\ LinkInv'
<1>1. /\ Watched \in Open /\ ~mining /\ mining' = TRUE
      /\ toMiner' = Append(toMiner, current_diff)
      /\ UNCHANGED <<current_diff, minerDiff, toPool, verdict, conn>>
  BY DEF StartMining, listenVars
<1>2. toMiner = <<>> /\ toPool = <<>> /\ current_diff \in Diffs /\ Len(<<>>) = 0
  BY <1>1, EmptyQueue DEF LinkInv, LinkType
<1>3. /\ toMiner' \in Seq(Diffs) /\ Len(toMiner') = 1 /\ toMiner'[1] = current_diff
  <2>1. /\ Append(toMiner, current_diff) \in Seq(Diffs)
        /\ Len(Append(toMiner, current_diff)) = Len(toMiner) + 1
        /\ Append(toMiner, current_diff)[Len(toMiner) + 1] = current_diff
    BY <1>2, AppendQueue DEF LinkType
  <2> QED
    BY <1>1, <1>2, <2>1
<1>4. toMiner' # <<>>
  BY <1>3, EmptyQueue
<1>5. LinkType'
  BY <1>1, <1>3, ConnectionsAssumption DEF LinkType
<1>6. Open' = Open
  BY <1>1 DEF Open
<1> QED
  BY <1>1, <1>2, <1>3, <1>4, <1>5, <1>6 DEF LinkInv

\* The miner applies a difficulty; after the last one it works at the pool's.
LEMMA LinkApply ==
  ASSUME LinkType, LinkInv, ApplyDifficulty
  PROVE  LinkType' /\ LinkInv'
<1>1. /\ toMiner # <<>> /\ minerDiff' = Head(toMiner) /\ toMiner' = Tail(toMiner)
      /\ UNCHANGED <<mining, current_diff, toPool, verdict, conn>>
  BY DEF ApplyDifficulty, listenVars
<1>2. toMiner \in Seq(Diffs) /\ Len(toMiner) \in Nat
  BY Members DEF LinkType
<1>3. /\ Head(toMiner) = toMiner[1] /\ Head(toMiner) \in Diffs /\ toMiner' \in Seq(Diffs)
      /\ Len(toMiner) >= 1 /\ Len(toMiner') = Len(toMiner) - 1
      /\ \A i \in 1 .. Len(toMiner) - 1 : toMiner'[i] = toMiner[i + 1]
  BY <1>1, <1>2, TakeQueue
<1>4. LinkType'
  BY <1>1, <1>2, <1>3, ConnectionsAssumption DEF LinkType, Diffs
<1>5. mining /\ toMiner' = <<>> => minerDiff' = current_diff
  <2>1. toMiner' = <<>> => Len(toMiner) = 1
    BY <1>2, <1>3, EmptyQueue
  <2> QED
    BY <1>1, <1>3, <2>1 DEF LinkInv
<1>6. toMiner' # <<>> => toMiner'[Len(toMiner')] = current_diff
  <2>1. toMiner' # <<>> => Len(toMiner') # 0 /\ Len(toMiner') \in Nat
    BY <1>3, EmptyQueue, Members
  <2>2. toMiner' # <<>> => toMiner'[Len(toMiner')] = toMiner[Len(toMiner)]
    BY <1>2, <1>3, <2>1
  <2> QED
    BY <1>1, <2>2 DEF LinkInv
<1>7. mining /\ Open' = Open
  BY <1>1 DEF LinkInv, Open
<1> QED
  BY <1>1, <1>4, <1>5, <1>6, <1>7 DEF LinkInv

\* A share leaves the miner; without a message under way, at the pool's difficulty.
LEMMA LinkSubmit ==
  ASSUME LinkType, LinkInv, NEW q \in 1 .. NetworkDiff, SubmitShare(q)
  PROVE  LinkType' /\ LinkInv'
<1> DEFINE s == [worked |-> minerDiff, quality |-> q, raced |-> toMiner # <<>>]
<1>1. /\ mining /\ minerDiff > 0 /\ Len(toPool) < MaxInFlight
      /\ toPool' = Append(toPool, s)
      /\ UNCHANGED <<mining, current_diff, toMiner, minerDiff, verdict, conn>>
  BY DEF SubmitShare, listenVars
<1>2. s \in Submission /\ s.worked = minerDiff /\ s.raced = (toMiner # <<>>)
  <2>1. minerDiff \in Diffs /\ q \in Nat
    BY <1>1, ConnectionsAssumption DEF LinkType, Diffs
  <2>2. (toMiner # <<>>) \in BOOLEAN
    OBVIOUS
  <2> QED
    BY <2>1, <2>2 DEF Submission
<1> HIDE DEF s
<1>3. Len(toPool) \in Nat
  BY Members DEF LinkType
<1>4. /\ toPool' \in Seq(Submission) /\ Len(toPool') = Len(toPool) + 1
      /\ \A i \in 1 .. Len(toPool) : toPool'[i] = toPool[i]
      /\ toPool'[Len(toPool) + 1] = s
  BY <1>1, <1>2, AppendQueue DEF LinkType
<1>5. LinkType'
  BY <1>1, <1>3, <1>4, ConnectionsAssumption DEF LinkType
<1>6. ASSUME NEW i \in 1 .. Len(toPool'), ~toPool'[i].raced
      PROVE  toPool'[i].worked = current_diff
  <2>1. CASE i \in 1 .. Len(toPool)
    BY <1>4, <1>6, <2>1 DEF LinkInv
  <2>2. CASE i = Len(toPool) + 1
    BY <1>1, <1>2, <1>4, <1>6, <2>2 DEF LinkInv
  <2> QED
    BY <1>3, <1>4, <2>1, <2>2
<1>7. Open' = Open
  BY <1>1 DEF Open
<1> QED
  BY <1>1, <1>5, <1>6, <1>7 DEF LinkInv

\* A retarget: the miner is told, and what is on its way is marked.
LEMMA LinkRetarget ==
  ASSUME LinkType, LinkInv, NEW d \in {Halved, Doubled}, Retarget(d)
  PROVE  LinkType' /\ LinkInv'
<1>1. /\ mining /\ d <= MaxDiff /\ Len(toMiner) < MaxInFlight
      /\ current_diff' = d /\ toMiner' = Append(toMiner, d)
      /\ toPool' = [i \in DOMAIN toPool |-> [toPool[i] EXCEPT !.raced = TRUE]]
      /\ UNCHANGED <<mining, minerDiff, verdict, conn>>
  BY DEF Retarget, listenVars
<1>2. d \in Diffs
  BY <1>1, RetargetRange DEF LinkType
<1>3. Len(toMiner) \in Nat /\ Len(toPool) \in Nat /\ DOMAIN toPool = 1 .. Len(toPool)
      /\ \A i \in 1 .. Len(toPool) : toPool[i] \in Submission
  BY Members DEF LinkType
<1>4. /\ toMiner' \in Seq(Diffs) /\ Len(toMiner') = Len(toMiner) + 1
      /\ toMiner'[Len(toMiner) + 1] = d
  BY <1>1, <1>2, AppendQueue DEF LinkType
<1>5. /\ toPool' \in [1 .. Len(toPool) -> Submission]
      /\ \A i \in 1 .. Len(toPool) : toPool'[i].raced
  <2>1. \A s \in Submission : /\ [s EXCEPT !.raced = TRUE] \in Submission
                              /\ [s EXCEPT !.raced = TRUE].raced
    BY DEF Submission
  <2> QED
    BY <1>1, <1>3, <2>1
<1>6. toPool' \in Seq(Submission) /\ Len(toPool') = Len(toPool)
  BY <1>3, <1>5, FunctionIsQueue
<1>7. LinkType'
  BY <1>1, <1>2, <1>3, <1>4, <1>6, ConnectionsAssumption DEF LinkType
<1>8. toMiner' # <<>>
  BY <1>3, <1>4, EmptyQueue
<1>9. Open' = Open
  BY <1>1 DEF Open
<1> QED
  BY <1>1, <1>4, <1>5, <1>6, <1>7, <1>8, <1>9 DEF LinkInv

\* A submission is verified.
LEMMA LinkServe ==
  ASSUME LinkType, LinkInv, NEW known \in BOOLEAN, ServeSubmission(known)
  PROVE  LinkType' /\ LinkInv'
<1>1. /\ mining /\ toPool # <<>> /\ verdict' = Verified(Head(toPool), known)
      /\ toPool' = Tail(toPool)
      /\ UNCHANGED <<mining, current_diff, toMiner, minerDiff, conn>>
  BY DEF ServeSubmission, listenVars
<1>2. /\ toPool' \in Seq(Submission) /\ Len(toPool') = Len(toPool) - 1 /\ Len(toPool) \in Nat
      /\ \A i \in 1 .. Len(toPool) - 1 : toPool'[i] = toPool[i + 1]
  BY <1>1, TakeQueue, Members DEF LinkType
<1>3. LinkType'
  BY <1>1, <1>2, VerdictType, ConnectionsAssumption DEF LinkType
<1>4. \A i \in 1 .. Len(toPool') :
        i + 1 \in 1 .. Len(toPool) /\ toPool'[i] = toPool[i + 1]
  BY <1>2
<1>5. \A i \in 1 .. Len(toPool') : ~toPool'[i].raced => toPool'[i].worked = current_diff
  BY <1>4 DEF LinkInv
<1>6. Open' = Open
  BY <1>1 DEF Open
<1> QED
  BY <1>1, <1>3, <1>5, <1>6 DEF LinkInv

\* Every step of the watched connection and its miner.
LEMMA LinkWatched ==
  ASSUME LinkType, LinkInv, WatchedStep
  PROVE  LinkType' /\ LinkInv'
BY LinkStart, LinkApply, LinkSubmit, LinkRetarget, LinkServe DEF WatchedStep
---------------------------------------------------------------------------
(* Slots, ids and extranonces *)

\* A connection's record is not that of a closed one.
LEMMA RecordIsOpen ==
  \A r \in [tier : Tiers, extra : 0 .. ExtraSpace - 1] : r # Closed
BY DEF Closed

\* The open connections of a tier are finitely many.
LEMMA FiniteOpen ==
  ASSUME NEW t
  PROVE  IsFiniteSet(OpenIn(t)) /\ Cardinality(OpenIn(t)) \in Nat
<1>1. IsFiniteSet(Ids)
  BY FS_Interval, ConnectionsAssumption DEF Ids
<1>2. OpenIn(t) \in SUBSET Ids
  BY DEF OpenIn, Open
<1>3. IsFiniteSet(OpenIn(t))
  BY <1>1, <1>2, FS_Subset
<1> QED
  BY <1>3, FS_CardinalityType

\* What an open connection has.
LEMMA OpenConn ==
  ASSUME ListenType, NEW c \in Open
  PROVE  /\ c \in Ids /\ c \in Nat /\ c < nextId
         /\ conn[c] \in [tier : Tiers, extra : 0 .. ExtraSpace - 1]
         /\ conn[c].tier \in Tiers
BY ConnectionsAssumption DEF ListenType, Open, Ids

\* The accept loop takes a permit out of the semaphore.
LEMMA ListenAcquire ==
  ASSUME ListenInv, NEW t \in Tiers, AcquireSlot(t)
  PROVE  ListenInv'
<1>1. /\ listener[t] = "acquire" /\ free[t] > 0
      /\ free' = [free EXCEPT ![t] = @ - 1]
      /\ listener' = [listener EXCEPT ![t] = "accept"]
      /\ UNCHANGED <<spawned, nextId, conn>>
  BY DEF AcquireSlot
<1>2. Open' = Open /\ \A u : OpenIn(u)' = OpenIn(u)
  BY <1>1 DEF Open, OpenIn
<1>3. /\ listener \in [Tiers -> {"acquire", "accept", "ended"}]
      /\ free \in [Tiers -> 0 .. Slots] /\ spawned \in [Tiers -> 0 .. Slots]
  BY DEF ListenInv, ListenType
<1>4. ASSUME NEW u \in Tiers PROVE SlotsAt(u)'
  <2>1. SlotsAt(u) /\ Cardinality(OpenIn(u)) \in Nat /\ Slots \in Nat
    BY FiniteOpen, ConnectionsAssumption DEF ListenInv
  <2> QED
    BY <1>1, <1>2, <1>3, <2>1 DEF SlotsAt
<1>5. ListenType'
  BY <1>1, <1>2, <1>3, ConnectionsAssumption DEF ListenInv, ListenType
<1> QED
  BY <1>1, <1>2, <1>4, <1>5 DEF ListenInv, ExtraInv

\* The permit moves into the task of a new connection.
LEMMA ListenAccept ==
  ASSUME ListenInv, NEW t \in Tiers, Accept(t)
  PROVE  ListenInv'
<1>1. /\ listener[t] = "accept"
      /\ listener' = [listener EXCEPT ![t] = "acquire"]
      /\ spawned' = [spawned EXCEPT ![t] = @ + 1]
      /\ UNCHANGED <<free, nextId, conn>>
  BY DEF Accept
<1>2. Open' = Open /\ \A u : OpenIn(u)' = OpenIn(u)
  BY <1>1 DEF Open, OpenIn
<1>3. /\ listener \in [Tiers -> {"acquire", "accept", "ended"}]
      /\ free \in [Tiers -> 0 .. Slots] /\ spawned \in [Tiers -> 0 .. Slots]
  BY DEF ListenInv, ListenType
<1>4. ASSUME NEW u \in Tiers
      PROVE  SlotsAt(u) /\ Cardinality(OpenIn(u)) \in Nat /\ Slots \in Nat
  BY FiniteOpen, ConnectionsAssumption DEF ListenInv
<1>5. ASSUME NEW u \in Tiers PROVE SlotsAt(u)'
  <2>1. SlotsAt(u) /\ Cardinality(OpenIn(u)) \in Nat /\ Slots \in Nat
    BY <1>4
  <2>2. CASE u = t
    BY <1>1, <1>2, <1>3, <2>1, <2>2 DEF SlotsAt
  <2>3. CASE u # t
    BY <1>1, <1>2, <1>3, <2>1, <2>3 DEF SlotsAt
  <2> QED
    BY <2>2, <2>3
<1>6. spawned[t] + 1 \in 0 .. Slots
  BY <1>1, <1>3, <1>4 DEF SlotsAt
<1>7. ListenType'
  BY <1>1, <1>2, <1>3, <1>6 DEF ListenInv, ListenType
<1> QED
  BY <1>1, <1>2, <1>5, <1>7 DEF ListenInv, ExtraInv

\* A loop that ends gives its permit back; with the last tier all ends.
LEMMA ListenFails ==
  ASSUME ListenInv, NEW t \in Tiers, AcceptFails(t)
  PROVE  ListenInv'
<1>1. /\ listener \in [Tiers -> {"acquire", "accept", "ended"}]
      /\ free \in [Tiers -> 0 .. Slots] /\ spawned \in [Tiers -> 0 .. Slots]
      /\ listener[t] = "accept" /\ nextId' = nextId /\ Slots \in Nat
  BY ConnectionsAssumption DEF ListenInv, ListenType, AcceptFails
<1>2. CASE t = LastTier
  <2>1. /\ listener' = [u \in Tiers |-> "ended"]
        /\ free' = [u \in Tiers |-> Slots] /\ spawned' = [u \in Tiers |-> 0]
        /\ conn' = [c \in Ids |-> Closed]
    BY <1>2 DEF AcceptFails
  <2>2. Open' = {} /\ \A u : OpenIn(u)' = {}
    BY <2>1 DEF Open, OpenIn
  <2>3. ASSUME NEW u \in Tiers PROVE SlotsAt(u)'
    BY <1>1, <2>1, <2>2, FS_EmptySet DEF SlotsAt
  <2>4. ListenType'
    BY <1>1, <2>1, <2>2 DEF ListenInv, ListenType
  <2> QED
    BY <2>2, <2>3, <2>4 DEF ListenInv, ExtraInv
<1>3. CASE t # LastTier
  <2>1. /\ listener' = [listener EXCEPT ![t] = "ended"]
        /\ free' = [free EXCEPT ![t] = @ + 1]
        /\ UNCHANGED <<spawned, conn>>
    BY <1>3 DEF AcceptFails
  <2>2. Open' = Open /\ \A u : OpenIn(u)' = OpenIn(u)
    BY <2>1 DEF Open, OpenIn
  <2>3. ASSUME NEW u \in Tiers
        PROVE  SlotsAt(u) /\ Cardinality(OpenIn(u)) \in Nat
    BY FiniteOpen DEF ListenInv
  <2>4. ASSUME NEW u \in Tiers PROVE SlotsAt(u)'
    BY <1>1, <2>1, <2>2, <2>3 DEF SlotsAt
  <2>5. free[t] + 1 \in 0 .. Slots
    BY <1>1, <2>3 DEF SlotsAt
  <2>6. ListenType'
    BY <1>1, <2>1, <2>2, <2>5 DEF ListenInv, ListenType
  <2> QED
    BY <2>1, <2>2, <2>4, <2>6 DEF ListenInv, ExtraInv
<1> QED
  BY <1>2, <1>3

\* A new connection takes the permit of its task and the next id.
LEMMA ListenStart ==
  ASSUME ListenInv, NEW t \in Tiers, StartConnection(t)
  PROVE  ListenInv'
<1> DEFINE r == [tier |-> t, extra |-> Extranonce(nextId)]
<1>1. /\ spawned[t] > 0 /\ nextId < MaxConns
      /\ spawned' = [spawned EXCEPT ![t] = @ - 1] /\ nextId' = nextId + 1
      /\ conn' = [conn EXCEPT ![nextId] = r]
      /\ UNCHANGED <<listener, free>>
  BY DEF StartConnection
<1>2. /\ listener \in [Tiers -> {"acquire", "accept", "ended"}]
      /\ free \in [Tiers -> 0 .. Slots] /\ spawned \in [Tiers -> 0 .. Slots]
      /\ nextId \in 0 .. MaxConns /\ Slots \in Nat /\ MaxConns \in Nat
      /\ conn \in [Ids -> {Closed} \cup [tier : Tiers, extra : 0 .. ExtraSpace - 1]]
  BY ConnectionsAssumption DEF ListenInv, ListenType
<1>3. nextId \in Ids /\ nextId \notin Open
  BY <1>1, <1>2 DEF Ids, ListenInv, ListenType
<1>4. /\ r \in [tier : Tiers, extra : 0 .. ExtraSpace - 1] /\ r.tier = t
      /\ r.extra = nextId % ExtraSpace
  BY <1>2, ConnectionsAssumption DEF Extranonce
<1>5. r # Closed
  BY <1>4, RecordIsOpen
<1> HIDE DEF r
<1>6. /\ conn' \in [Ids -> {Closed} \cup [tier : Tiers, extra : 0 .. ExtraSpace - 1]]
      /\ conn'[nextId] = r /\ \A c \in Ids \ {nextId} : conn'[c] = conn[c]
  BY <1>1, <1>2, <1>3, <1>4
<1>7. Open' = Open \cup {nextId}
  BY <1>3, <1>5, <1>6 DEF Open
<1>8. /\ OpenIn(t)' = OpenIn(t) \cup {nextId} /\ nextId \notin OpenIn(t)
      /\ \A u \in Tiers \ {t} : OpenIn(u)' = OpenIn(u)
  BY <1>3, <1>4, <1>6, <1>7 DEF OpenIn, Open
<1>9. /\ Cardinality(OpenIn(t)') = Cardinality(OpenIn(t)) + 1
  BY <1>8, FiniteOpen, FS_AddElement
<1>10. ASSUME NEW u \in Tiers PROVE SlotsAt(u)'
  <2>1. SlotsAt(u) /\ Cardinality(OpenIn(u)) \in Nat
    BY FiniteOpen DEF ListenInv
  <2>2. CASE u = t
    BY <1>1, <1>2, <1>9, <2>1, <2>2 DEF SlotsAt
  <2>3. CASE u # t
    BY <1>1, <1>2, <1>8, <2>1, <2>3 DEF SlotsAt
  <2> QED
    BY <2>2, <2>3
<1>11. ListenType'
  <2>1. \A c \in Open' : c < nextId'
    BY <1>1, <1>2, <1>7 DEF ListenInv, ListenType, Open, Ids
  <2>2. spawned' \in [Tiers -> 0 .. Slots]
    BY <1>1, <1>2
  <2> QED
    BY <1>1, <1>2, <1>6, <2>1, <2>2 DEF ListenType
<1>12. ExtraInv'
  BY <1>3, <1>4, <1>6, <1>7 DEF ListenInv, ExtraInv, Open
<1> QED
  BY <1>10, <1>11, <1>12 DEF ListenInv

\* A connection that ends gives its permit back.
LEMMA ListenEnd ==
  ASSUME ListenInv, NEW c \in Ids, EndConnection(c)
  PROVE  ListenInv'
<1>0. PICK t \in Tiers : t = conn[c].tier
  BY OpenConn DEF ListenInv, EndConnection
<1>1. /\ c \in Open
      /\ conn' = [conn EXCEPT ![c] = Closed]
      /\ free' = [free EXCEPT ![t] = @ + 1]
      /\ UNCHANGED <<listener, spawned, nextId>>
  BY <1>0 DEF EndConnection
<1>2. /\ listener \in [Tiers -> {"acquire", "accept", "ended"}]
      /\ free \in [Tiers -> 0 .. Slots] /\ spawned \in [Tiers -> 0 .. Slots]
      /\ Slots \in Nat
      /\ conn \in [Ids -> {Closed} \cup [tier : Tiers, extra : 0 .. ExtraSpace - 1]]
  BY ConnectionsAssumption DEF ListenInv, ListenType
<1>3. t \in Tiers /\ c \in OpenIn(t)
  BY <1>0, <1>1 DEF OpenIn
<1>4. /\ conn'[c] = Closed /\ \A d \in Ids \ {c} : conn'[d] = conn[d]
      /\ conn' \in [Ids -> {Closed} \cup [tier : Tiers, extra : 0 .. ExtraSpace - 1]]
  BY <1>1, <1>2
<1>5. /\ OpenIn(t)' = OpenIn(t) \ {c} /\ Open' = Open \ {c}
      /\ \A u \in Tiers \ {t} : OpenIn(u)' = OpenIn(u)
  BY <1>0, <1>1, <1>4 DEF OpenIn, Open
<1>6. Cardinality(OpenIn(t)') = Cardinality(OpenIn(t)) - 1
  BY <1>3, <1>5, FiniteOpen, FS_RemoveElement
<1>7. Cardinality(OpenIn(t)') \in Nat
  BY <1>3, <1>5, FiniteOpen, FS_RemoveElement, FS_CardinalityType
<1>8. ASSUME NEW u \in Tiers
      PROVE  SlotsAt(u) /\ Cardinality(OpenIn(u)) \in Nat
  BY FiniteOpen DEF ListenInv
<1>9. ASSUME NEW u \in Tiers PROVE SlotsAt(u)'
  <2>1. CASE u = t
    BY <1>1, <1>2, <1>6, <1>8, <2>1 DEF SlotsAt
  <2>2. CASE u # t
    BY <1>1, <1>2, <1>5, <1>8, <2>2 DEF SlotsAt
  <2> QED
    BY <2>1, <2>2
<1>10. free[t] + 1 \in 0 .. Slots
  BY <1>2, <1>3, <1>6, <1>7, <1>8 DEF SlotsAt
<1>11. ListenType'
  BY <1>1, <1>2, <1>3, <1>4, <1>5, <1>10 DEF ListenInv, ListenType
<1>12. ExtraInv'
  BY <1>4, <1>5 DEF ListenInv, ExtraInv, Open
<1> QED
  BY <1>9, <1>11, <1>12 DEF ListenInv

---------------------------------------------------------------------------
(* The invariant, and what follows from it *)

\* Steps of the listeners and of other connections leave the watched one alone.
LEMMA LinkFrame ==
  ASSUME LinkType, LinkInv, UNCHANGED linkVars, conn'[Watched] = conn[Watched]
  PROVE  LinkType' /\ LinkInv'
<1>1. UNCHANGED <<mining, current_diff, toMiner, minerDiff, toPool, verdict>>
  BY DEF linkVars
<1>2. Watched \in Open' <=> Watched \in Open
  BY DEF Open
<1> QED
  BY <1>1, <1>2 DEF LinkType, LinkInv

\* Steps of the watched connection and its miner leave the listeners alone.
LEMMA ListenFrame ==
  ASSUME ListenInv, UNCHANGED listenVars
  PROVE  ListenInv'
<1>1. UNCHANGED <<listener, free, spawned, nextId, conn>>
  BY DEF listenVars
<1>2. Open' = Open /\ \A t : OpenIn(t)' = OpenIn(t)
  BY <1>1 DEF Open, OpenIn
<1>3. \A t \in Tiers : SlotsAt(t)'
  BY <1>1, <1>2 DEF ListenInv, SlotsAt
<1> QED
  BY <1>1, <1>2, <1>3 DEF ListenInv, ListenType, ExtraInv

\* Accepting connections, their begin and their end.
LEMMA AcceptStep ==
  ASSUME ConnectionsInv, NEW t \in Tiers,
         AcquireSlot(t) \/ Accept(t) \/ AcceptFails(t) \/ StartConnection(t)
  PROVE  ConnectionsInv'
<1> USE DEF ConnectionsInv
<1>1. ListenInv'
  BY ListenAcquire, ListenAccept, ListenFails, ListenStart
<1>2. 1 \in Diffs /\ StartDiff[t] \in Diffs /\ Watched \in Ids
  BY ConnectionsAssumption DEF Diffs
<1>3. CASE AcquireSlot(t) \/ Accept(t)
  BY <1>1, <1>3, LinkFrame DEF AcquireSlot, Accept
<1>4. CASE AcceptFails(t)
  <2>1. LinkIdle(1) \/ (UNCHANGED linkVars /\ conn' = conn)
    BY <1>4 DEF AcceptFails
  <2> QED
    BY <1>1, <1>2, <2>1, LinkReset, LinkFrame
<1>5. CASE StartConnection(t)
  <2>1. CASE nextId = Watched
    BY <1>1, <1>2, <1>5, <2>1, LinkReset DEF StartConnection
  <2>2. CASE nextId # Watched
    <3>1. UNCHANGED linkVars /\ conn'[Watched] = conn[Watched]
      BY <1>2, <1>5, <2>2 DEF StartConnection, ListenInv, ListenType
    <3> QED
      BY <1>1, <3>1, LinkFrame
  <2> QED
    BY <2>1, <2>2
<1> QED
  BY <1>3, <1>4, <1>5

\* The end of a connection.
LEMMA EndStep ==
  ASSUME ConnectionsInv, NEW c \in Ids, EndConnection(c)
  PROVE  ConnectionsInv'
<1> USE DEF ConnectionsInv
<1>1. ListenInv'
  BY ListenEnd
<1>2. 1 \in Diffs /\ Watched \in Ids
  BY ConnectionsAssumption DEF Diffs
<1>3. CASE c = Watched
  BY <1>1, <1>2, <1>3, LinkReset DEF EndConnection
<1>4. CASE c # Watched
  <2>1. UNCHANGED linkVars /\ conn'[Watched] = conn[Watched]
    BY <1>2, <1>4 DEF EndConnection, ListenInv, ListenType
  <2> QED
    BY <1>1, <2>1, LinkFrame
<1> QED
  BY <1>3, <1>4

\* The invariant holds initially.
LEMMA ConnectionsStart == ConnectionsInit => ConnectionsInv
<1> SUFFICES ASSUME ConnectionsInit PROVE ConnectionsInv
  OBVIOUS
<1>1. Open = {} /\ \A t : OpenIn(t) = {}
  BY DEF ConnectionsInit, Open, OpenIn
<1>2. ListenType
  BY <1>1, ConnectionsAssumption DEF ConnectionsInit, ListenType
<1>3. \A t \in Tiers : SlotsAt(t)
  <2>1. ASSUME NEW t \in Tiers PROVE SlotsAt(t)
    <3>1. /\ free[t] = Slots /\ spawned[t] = 0 /\ listener[t] = "acquire" /\ Slots \in Nat
          /\ Cardinality(OpenIn(t)) = 0
      BY <1>1, FS_EmptySet, ConnectionsAssumption DEF ConnectionsInit
    <3> QED
      BY <3>1 DEF SlotsAt
  <2> QED
    BY <2>1
<1>4. <<>> \in Seq(Diffs) /\ <<>> \in Seq(Submission) /\ Len(<<>>) = 0
  BY EmptyQueue
<1>5. NoVerdict \in [kind : {"none", "stale", "block", "share", "invalid"}, diff : 0 .. MaxDiff]
  BY ConnectionsAssumption DEF NoVerdict, Verdict
<1>6. LinkType /\ LinkInv
  BY <1>4, <1>5, ConnectionsAssumption DEF ConnectionsInit, LinkType, LinkInv, Diffs
<1> QED
  BY <1>1, <1>2, <1>3, <1>6 DEF ConnectionsInv, ListenInv, ExtraInv

\* Every step keeps it.
LEMMA ConnectionsStep == ConnectionsInv /\ [ConnectionsNext]_connVars => ConnectionsInv'
<1> SUFFICES ASSUME ConnectionsInv, [ConnectionsNext]_connVars PROVE ConnectionsInv'
  OBVIOUS
<1>1. CASE WatchedStep
  <2>1. UNCHANGED listenVars
    BY <1>1 DEF WatchedStep, StartMining, ApplyDifficulty, SubmitShare, Retarget,
       ServeSubmission
  <2> QED
    BY <1>1, <2>1, ListenFrame, LinkWatched DEF ConnectionsInv
<1>2. CASE UNCHANGED connVars
  <2>1. UNCHANGED <<listenVars, linkVars>> /\ conn' = conn
    BY <1>2 DEF connVars, listenVars
  <2> QED
    BY <2>1, ListenFrame, LinkFrame DEF ConnectionsInv
<1> QED
  BY <1>1, <1>2, AcceptStep, EndStep DEF ConnectionsNext

\* The invariant holds in every reachable state.
THEOREM ConnectionsInvariant == ConnectionsSpec => []ConnectionsInv
BY ConnectionsStart, ConnectionsStep, PTL DEF ConnectionsSpec

\* Every variable has its type.
THEOREM ConnectionsTypeCorrect == ConnectionsSpec => []ConnectionsTypeOK
<1>1. ConnectionsInv => ConnectionsTypeOK
  <2> SUFFICES ASSUME ConnectionsInv PROVE ConnectionsTypeOK
    OBVIOUS
  <2>1. mining /\ minerDiff = 0 => toMiner # <<>>
    BY ConnectionsAssumption DEF ConnectionsInv, LinkType, LinkInv, Diffs
  <2> QED
    BY <2>1 DEF ConnectionsInv, ListenInv, ListenType, LinkType, LinkInv, ConnectionsTypeOK
<1> QED
  BY <1>1, ConnectionsInvariant, PTL

\* A tier never holds more connections than it has slots, and loses none.
THEOREM NoSlotLost == ConnectionsSpec => []SlotsRespected
<1>1. ConnectionsInv => SlotsRespected
  BY DEF ConnectionsInv, ListenInv, SlotsAt, SlotsRespected
<1> QED
  BY <1>1, ConnectionsInvariant, PTL

\* Connections less than ExtraSpace ids apart search different nonces.
THEOREM NoncesDisjoint == ConnectionsSpec => []DisjointNonces
<1>1. ConnectionsInv => DisjointNonces
  <2> SUFFICES ASSUME ConnectionsInv, NEW c \in Open, NEW d \in Open, c < d, d - c < ExtraSpace,
                      NEW m \in 0 .. NonceSpace - 1, NEW n \in 0 .. NonceSpace - 1
               PROVE  FullNonce(c, m) # FullNonce(d, n)
    BY DEF DisjointNonces
  <2>1. c \in Nat /\ d \in Nat
    BY OpenConn DEF ConnectionsInv, ListenInv
  <2>2. conn[c].extra = c % ExtraSpace /\ conn[d].extra = d % ExtraSpace
    BY DEF ConnectionsInv, ListenInv, ExtraInv
  <2>3. conn[c].extra \in Nat /\ conn[d].extra \in Nat
    BY <2>1, <2>2, ConnectionsAssumption
  <2>4. conn[c].extra # conn[d].extra
    BY <2>1, <2>2, ExtrasDiffer
  <2> QED
    BY <2>3, <2>4, DigitsDiffer DEF FullNonce
<1> QED
  BY <1>1, ConnectionsInvariant, PTL

\* Unless a retarget raced it, a share is credited with the difficulty its
\* miner worked at.
THEOREM CreditFollowsWork == ConnectionsSpec => CreditedAsWorked
<1> DEFINE Credited ==
      (/\ toPool # <<>> /\ toPool' = Tail(toPool) /\ mining'
       /\ ~Head(toPool).raced /\ Head(toPool).quality >= Head(toPool).worked)
      => verdict' \in {Verdict("stale", 0), Verdict("block", 0),
                       Verdict("share", Head(toPool).worked)}
<1>1. ConnectionsInv /\ ConnectionsNext => Credited
  <2> SUFFICES ASSUME ConnectionsInv, ConnectionsNext, toPool # <<>>, toPool' = Tail(toPool),
                      mining', ~Head(toPool).raced,
                      Head(toPool).quality >= Head(toPool).worked
               PROVE  verdict' \in {Verdict("stale", 0), Verdict("block", 0),
                                    Verdict("share", Head(toPool).worked)}
    OBVIOUS
  <2>1. toPool \in Seq(Submission) /\ Len(toPool) \in Nat
    BY Members DEF ConnectionsInv, LinkType
  <2>2. /\ Len(toPool') = Len(toPool) - 1 /\ Len(toPool) >= 1
        /\ Head(toPool) = toPool[1] /\ Head(toPool) \in Submission
    BY <2>1, TakeQueue
  <2>3. \E known \in BOOLEAN : ServeSubmission(known)
    <3>1. ASSUME NEW q \in 1 .. NetworkDiff, SubmitShare(q) PROVE FALSE
      <4>1. [worked |-> minerDiff, quality |-> q, raced |-> toMiner # <<>>] \in Submission
        <5>1. minerDiff \in Diffs /\ q \in Nat
          BY <3>1, ConnectionsAssumption DEF SubmitShare, ConnectionsInv, LinkType, Diffs
        <5>2. (toMiner # <<>>) \in BOOLEAN
          OBVIOUS
        <5> QED
          BY <5>1, <5>2 DEF Submission
      <4>2. Len(toPool') = Len(toPool) + 1
        BY <2>1, <3>1, <4>1, AppendQueue DEF SubmitShare
      <4> QED
        BY <2>1, <2>2, <4>2
    <3>2. ASSUME NEW d \in {Halved, Doubled}, Retarget(d) PROVE FALSE
      <4>1. toPool' = [i \in DOMAIN toPool |-> [toPool[i] EXCEPT !.raced = TRUE]]
        BY <3>2 DEF Retarget
      <4>2. DOMAIN toPool' = DOMAIN toPool
        BY <4>1
      <4>3. toPool' \in Seq(Submission)
        BY <2>1, TakeQueue
      <4>4. Len(toPool) \in DOMAIN toPool /\ Len(toPool) \notin DOMAIN toPool'
        BY <2>1, <2>2, <4>3, Members
      <4> QED
        BY <4>2, <4>4
    <3>3. ASSUME UNCHANGED toPool PROVE FALSE
      BY <2>1, <2>2, <3>3
    <3>4. ASSUME NEW d, LinkIdle(d) PROVE FALSE
      BY <3>4 DEF LinkIdle
    <3> QED
      BY <3>1, <3>2, <3>3, <3>4 DEF ConnectionsNext, WatchedStep, AcquireSlot, Accept,
         AcceptFails, StartConnection, EndConnection, StartMining, ApplyDifficulty, linkVars
  <2>4. Head(toPool).worked = current_diff
    BY <2>1, <2>2 DEF ConnectionsInv, LinkInv
  <2>5. current_diff \in Nat /\ Head(toPool).quality \in Nat
    BY <2>2, ConnectionsAssumption DEF ConnectionsInv, LinkType, Submission, Diffs
  <2> QED
    BY <2>3, <2>4, <2>5 DEF ServeSubmission, Verified
<1>2. ConnectionsInv /\ [ConnectionsNext]_connVars => [Credited]_connVars
  BY <1>1
<1> QED
  BY <1>2, ConnectionsInvariant, PTL DEF ConnectionsSpec, CreditedAsWorked
=============================================================================
