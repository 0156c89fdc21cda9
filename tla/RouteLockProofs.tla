-------------------------- MODULE RouteLockProofs --------------------------
(***************************************************************************)
(* Proofs about LiquidityPoller and RouteLock: however slow the indexer    *)
(* is, a depth key outlives the time between two polls of its token; a     *)
(* wallet is overdrawn only by transfers that overlap; and no swap changes *)
(* what the treasury holds as a whole.                                     *)
(***************************************************************************)
EXTENDS RouteLock, FiniteSetTheorems, WellFoundedInduction, TLAPS

---------------------------------------------------------------------------
(* The poller *)

\* How late a round can be: every request before the current one took up to
\* the client's timeout.
ClockInv ==
  /\ PollerTypeOK
  /\ pollAt = 0 => reqAge = 0
  /\ pollAt # 0 => untilPoll >= 1 - ((pollAt - 1) * PollTimeout + reqAge)

\* How long ago the depth of a token was stored.
Since(t) == DepthTtl - ttl[t]

\* What is required of a token's key that is s old: the token was polled in the
\* current round, or in the round before; between rounds, the next one begins at
\* its deadline, or as soon as a late round is over.
AgeFits(t, s) ==
  /\ pollAt = 0 =>
       /\ s <= Period - untilPoll
       /\ untilPoll <= 0 => s <= Period \/ s <= (NumTokens - t) * PollTimeout
  /\ pollAt # 0 /\ t < pollAt =>
       /\ s <= Period - untilPoll
       /\ s <= (pollAt - 1 - t) * PollTimeout + reqAge
  /\ pollAt # 0 /\ t >= pollAt =>
       \/ s <= Period + (pollAt - 1) * PollTimeout + reqAge
       \/ s <= (NumTokens - t) * PollTimeout + (pollAt - 1) * PollTimeout + reqAge

\* It holds of every token whose last poll succeeded.
AgeInv ==
  \A t \in answered : ttl[t] > 0 /\ depth[t] # NoDepth /\ AgeFits(t, Since(t))

PollerInv == ClockInv /\ AgeInv

\* Of two numbers, the larger one has the larger multiple.
LEMMA Multiples ==
  ASSUME NEW i \in Int, NEW j \in Int, NEW k \in Nat, i <= j
  PROVE  i * k <= j * k /\ (i + 1) * k = i * k + k /\ i * k \in Int
<1>1. (j - i) \in Nat
  OBVIOUS
<1>2. (j - i) * k >= 0
  BY <1>1
<1>3. (j - i) * k = j * k - i * k
  OBVIOUS
<1> QED
  BY <1>2, <1>3

\* What the types say of a token, the clock and the poller.
LEMMA PollerTypes ==
  ASSUME PollerTypeOK
  PROVE  /\ NumTokens \in Nat /\ NumTokens >= 1 /\ Period \in Nat /\ Period >= 1
         /\ PollTimeout \in Nat /\ PollTimeout >= 1 /\ DepthTtl \in Nat
         /\ pollAt \in Int /\ 0 <= pollAt /\ pollAt <= NumTokens
         /\ reqAge \in Int /\ 0 <= reqAge /\ reqAge <= PollTimeout
         /\ untilPoll \in Int /\ untilPoll <= Period
         /\ \A t \in Tokens : /\ t \in Int /\ 1 <= t /\ t <= NumTokens
                              /\ ttl[t] \in Int /\ 0 <= ttl[t] /\ ttl[t] <= DepthTtl
                              /\ Since(t) \in Int
<1>1. /\ NumTokens \in Nat /\ NumTokens >= 1 /\ Period \in Nat /\ Period >= 1
      /\ PollTimeout \in Nat /\ PollTimeout >= 1 /\ DepthTtl \in Nat
  BY LiquidityPollerAssumption
<1>2. /\ pollAt \in Int /\ 0 <= pollAt /\ pollAt <= NumTokens
      /\ reqAge \in Int /\ 0 <= reqAge /\ reqAge <= PollTimeout
  BY <1>1 DEF PollerTypeOK
<1>3. NumTokens * PollTimeout \in Int
  BY <1>1
<1>4. untilPoll \in Int /\ untilPoll <= Period
  BY <1>1, <1>3 DEF PollerTypeOK
<1>5. ASSUME NEW t \in Tokens
      PROVE  /\ t \in Int /\ 1 <= t /\ t <= NumTokens
             /\ ttl[t] \in Int /\ 0 <= ttl[t] /\ ttl[t] <= DepthTtl
             /\ Since(t) \in Int
  BY <1>1, <1>5 DEF PollerTypeOK, Tokens, Since
<1> QED
  BY <1>1, <1>2, <1>4, <1>5

\* The whole round takes at most what the assumption leaves for it.
LEMMA RoundFits ==
  /\ NumTokens * PollTimeout \in Nat
  /\ DepthTtl > Period + NumTokens * PollTimeout
  /\ \A i \in Int : i <= NumTokens => i * PollTimeout <= NumTokens * PollTimeout
<1>1. NumTokens \in Nat /\ PollTimeout \in Nat
  BY LiquidityPollerAssumption
<1>2. NumTokens * PollTimeout \in Nat
  BY <1>1
<1>3. DepthTtl > Period + NumTokens * PollTimeout
  BY LiquidityPollerAssumption
<1>4. ASSUME NEW i \in Int, i <= NumTokens PROVE i * PollTimeout <= NumTokens * PollTimeout
  BY <1>1, <1>4, Multiples
<1> QED
  BY <1>2, <1>3, <1>4

\* Nothing is polled yet, and no key is there.
LEMMA PollerStarts == PollerInit => PollerInv
<1> SUFFICES ASSUME PollerInit PROVE PollerInv
  OBVIOUS
<1>1. PollerTypeOK
  BY RoundFits, LiquidityPollerAssumption DEF PollerInit, PollerTypeOK, Tokens, NoDepth
<1> QED
  BY <1>1 DEF PollerInit, PollerInv, ClockInv, AgeInv

\* A round begins at its deadline or late; either way the next deadline is at
\* most a period away.
LEMMA RoundStarts ==
  ASSUME PollerInv, StartRound
  PROVE  PollerInv'
<1> USE DEF PollerInv, ClockInv, StartRound
<1>1. untilPoll' \in 1 .. Period
  <2>1. -untilPoll \in Nat /\ Period \in Nat \ {0}
    BY PollerTypes
  <2>2. (-untilPoll) % Period \in 0 .. Period - 1
    BY <2>1
  <2> QED
    BY <2>1, <2>2
<1>2. PollerTypeOK'
  <2>1. untilPoll' \in -(NumTokens * PollTimeout) .. Period
    BY <1>1, PollerTypes, RoundFits
  <2>2. pollAt' \in 0 .. NumTokens
    BY PollerTypes
  <2> QED
    BY <2>1, <2>2 DEF PollerTypeOK
<1>3. ClockInv'
  BY <1>1, <1>2, PollerTypes
<1>4. ASSUME NEW t \in answered
      PROVE  /\ ttl'[t] > 0 /\ depth'[t] # NoDepth /\ Since(t)' = Since(t)
             /\ ~(t < 1)
             /\ Since(t) <= Period \/ Since(t) <= (NumTokens - t) * PollTimeout
  BY PollerTypes DEF AgeInv, AgeFits, PollerTypeOK, Since
<1>5. AgeInv'
  <2> SUFFICES ASSUME NEW t \in answered'
               PROVE  /\ ttl'[t] > 0 /\ depth'[t] # NoDepth
                      /\ Since(t)' <= Period \/ Since(t)' <= (NumTokens - t) * PollTimeout
                      /\ ~(t < 1)
                      /\ (pollAt' - 1) * PollTimeout = 0 /\ pollAt' = 1 /\ reqAge' = 0
                      /\ NumTokens - t \in Int /\ (NumTokens - t) * PollTimeout \in Int
                      /\ Since(t)' \in Int
    BY PollerTypes DEF AgeInv, AgeFits
  <2>1. t \in answered
    OBVIOUS
  <2>2. t \in Tokens
    BY <2>1 DEF PollerTypeOK
  <2> QED
    BY <1>4, <2>1, <2>2, PollerTypes
<1> QED
  BY <1>3, <1>5

\* The current request ends: the clock of the round after it.
LEMMA ClockGoesOn ==
  ASSUME PollerInv, pollAt # 0, NextToken, UNCHANGED untilPoll
  PROVE  /\ pollAt' \in 0 .. NumTokens /\ reqAge' = 0
         /\ pollAt' # 0 =>
              untilPoll' >= 1 - ((pollAt' - 1) * PollTimeout + reqAge')
<1> USE DEF PollerInv, ClockInv, NextToken
<1>1. pollAt' \in 0 .. NumTokens /\ reqAge' = 0
  BY PollerTypes
<1>2. CASE pollAt = NumTokens
  BY <1>1, <1>2
<1>3. CASE pollAt # NumTokens
  <2>1. pollAt' = pollAt + 1
    BY <1>3
  <2>2. ((pollAt - 1) + 1) * PollTimeout = (pollAt - 1) * PollTimeout + PollTimeout
    BY PollerTypes, Multiples
  <2>3. (pollAt - 1) * PollTimeout \in Int /\ pollAt' - 1 = (pollAt - 1) + 1
    BY <2>1, PollerTypes, Multiples
  <2> QED
    BY <1>1, <2>1, <2>2, <2>3, PollerTypes
<1> QED
  BY <1>2, <1>3

\* The end of a request ages no key; the one of its own token may be new.
LEMMA AgesGoOn ==
  ASSUME PollerInv, pollAt # 0, NextToken, UNCHANGED untilPoll,
         NEW t \in Tokens, NEW s \in Int,
         s = 0 \/ (t # pollAt /\ AgeFits(t, s))
  PROVE  AgeFits(t, s)'
<1> USE DEF PollerInv, ClockInv, NextToken, AgeFits
<1>1. t \in Int /\ t >= 1 /\ t <= NumTokens
  BY PollerTypes
<1>2. ASSUME NEW i \in Int
      PROVE  i * PollTimeout \in Int /\ (i + 1) * PollTimeout = i * PollTimeout + PollTimeout
  BY PollerTypes, Multiples
<1>3. ASSUME NEW i \in Int, 0 <= i PROVE 0 <= i * PollTimeout
  BY <1>3, PollerTypes, Multiples
<1>4. CASE pollAt = NumTokens
  <2>1. pollAt' = 0 /\ reqAge' = 0
    BY <1>4
  <2>2. CASE s = 0
    BY <1>1, <2>1, <2>2, PollerTypes
  <2>3. CASE t # pollAt /\ AgeFits(t, s)
    <3>1. t < pollAt /\ pollAt # 0
      BY <1>1, <1>4, <2>3, PollerTypes
    <3>2. s <= Period - untilPoll /\ s <= (pollAt - 1 - t) * PollTimeout + reqAge
      BY <2>3, <3>1
    <3>3. (NumTokens - t) * PollTimeout = (NumTokens - 1 - t) * PollTimeout + PollTimeout
          /\ (NumTokens - 1 - t) * PollTimeout \in Int
      <4>1. NumTokens - 1 - t \in Int /\ NumTokens - t = (NumTokens - 1 - t) + 1
        BY <1>1, PollerTypes
      <4> QED
        BY <1>2, <4>1
    <3> QED
      BY <1>4, <2>1, <3>2, <3>3, PollerTypes
  <2> QED
    BY <2>2, <2>3
<1>5. CASE pollAt # NumTokens
  <2>1. pollAt' = pollAt + 1 /\ reqAge' = 0 /\ pollAt' \in Int /\ pollAt' # 0
    BY <1>5, PollerTypes
  <2>2. /\ (pollAt' - 1) * PollTimeout = (pollAt - 1) * PollTimeout + PollTimeout
        /\ (pollAt - 1) * PollTimeout \in Int
    <3>1. pollAt - 1 \in Int /\ pollAt' - 1 = (pollAt - 1) + 1
      BY <2>1, PollerTypes
    <3> QED
      BY <1>2, <3>1
  <2>3. CASE t >= pollAt'
    <3>1. t # pollAt /\ t >= pollAt /\ (s = 0 \/ AgeFits(t, s))
      BY <1>1, <2>1, <2>3, PollerTypes
    <3>2. 0 <= (pollAt' - 1) * PollTimeout
      BY <1>3, <2>1, PollerTypes
    <3>3. (NumTokens - t) * PollTimeout \in Int
      BY <1>1, <1>2, PollerTypes
    <3> QED
      BY <1>1, <2>1, <2>2, <2>3, <3>1, <3>2, <3>3, PollerTypes
  <2>4. CASE t < pollAt'
    <3>1. /\ (pollAt' - 1 - t) * PollTimeout = (pollAt - 1 - t) * PollTimeout + PollTimeout
          /\ (pollAt - 1 - t) * PollTimeout \in Int
      <4>1. pollAt - 1 - t \in Int /\ pollAt' - 1 - t = (pollAt - 1 - t) + 1
        BY <1>1, <2>1, PollerTypes
      <4> QED
        BY <1>2, <4>1
    <3>2. 0 <= (pollAt' - 1 - t) * PollTimeout
      BY <1>1, <1>3, <2>1, <2>4, PollerTypes
    <3>3. s <= Period - untilPoll' /\ s <= (pollAt' - 1 - t) * PollTimeout + reqAge'
      <4>1. CASE s = 0
        BY <2>1, <3>1, <3>2, <4>1, PollerTypes
      <4>2. CASE t # pollAt /\ AgeFits(t, s)
        <5>1. s <= Period - untilPoll /\ s <= (pollAt - 1 - t) * PollTimeout + reqAge
          BY <1>1, <2>1, <2>4, <4>2, PollerTypes
        <5> QED
          BY <2>1, <3>1, <5>1, PollerTypes
      <4> QED
        BY <4>1, <4>2
    <3> QED
      BY <1>1, <2>1, <2>4, <3>3
  <2> QED
    BY <1>1, <2>1, <2>3, <2>4
<1> QED
  BY <1>4, <1>5

\* The indexer answered: the key of the token is new, the others stay.
LEMMA DepthStored ==
  ASSUME PollerInv, NEW d \in IndexerDepths \cup {UnpricedDepth}, StoreDepth(d)
  PROVE  PollerInv'
<1> USE DEF PollerInv, ClockInv, StoreDepth
<1>1. /\ pollAt \in Tokens /\ d # NoDepth /\ DepthTtl \in 0 .. DepthTtl /\ DepthTtl > 0
      /\ depth \in [Tokens -> IndexerDepths \cup {UnpricedDepth, NoDepth}]
      /\ ttl \in [Tokens -> 0 .. DepthTtl] /\ answered \subseteq Tokens
  <2>1. pollAt \in Tokens
    BY PollerTypes DEF Tokens
  <2>2. d # NoDepth
    BY LiquidityPollerAssumption DEF NoDepth
  <2>3. DepthTtl \in 0 .. DepthTtl /\ DepthTtl > 0
    BY PollerTypes, RoundFits
  <2> QED
    BY <2>1, <2>2, <2>3 DEF PollerTypeOK
<1>2. PollerTypeOK'
  <2>1. pollAt' \in 0 .. NumTokens /\ reqAge' = 0
    BY ClockGoesOn
  <2>2. reqAge' \in 0 .. PollTimeout
    BY <2>1, PollerTypes
  <2>3. /\ depth' \in [Tokens -> IndexerDepths \cup {UnpricedDepth, NoDepth}]
        /\ ttl' \in [Tokens -> 0 .. DepthTtl] /\ answered' \subseteq Tokens
    BY <1>1
  <2> QED
    BY <2>1, <2>2, <2>3 DEF PollerTypeOK
<1>3. ClockInv'
  BY <1>2, ClockGoesOn
<1>4. AgeInv'
  <2> SUFFICES ASSUME NEW t \in answered'
               PROVE  ttl'[t] > 0 /\ depth'[t] # NoDepth /\ AgeFits(t, Since(t))'
    BY DEF AgeInv
  <2>1. t \in Tokens
    BY <1>1
  <2>2. CASE t = pollAt
    <3>1. ttl'[t] = DepthTtl /\ depth'[t] = d
      BY <1>1, <2>2
    <3>2. Since(t)' = 0
      BY <3>1, PollerTypes DEF Since
    <3>3. AgeFits(t, 0)'
      BY <2>1, AgesGoOn
    <3> QED
      BY <1>1, <3>1, <3>2, <3>3 DEF AgeFits
  <2>3. CASE t # pollAt
    <3>1. t \in answered /\ ttl'[t] = ttl[t] /\ depth'[t] = depth[t]
      BY <1>1, <2>1, <2>3
    <3>2. AgeFits(t, Since(t)) /\ ttl[t] > 0 /\ depth[t] # NoDepth
      BY <3>1 DEF AgeInv
    <3>3. PICK s \in Int : s = Since(t)
      BY <2>1, PollerTypes
    <3>4. AgeFits(t, s)'
      BY <2>1, <2>3, <3>2, <3>3, AgesGoOn
    <3>5. Since(t)' = s
      BY <3>1, <3>3 DEF Since
    <3> QED
      BY <3>1, <3>2, <3>4, <3>5 DEF AgeFits
  <2> QED
    BY <2>2, <2>3
<1> QED
  BY <1>3, <1>4

\* The token is not among those answered any more; the others' keys stay.
LEMMA TokenMissed ==
  ASSUME PollerInv, MissToken
  PROVE  PollerInv'
<1> USE DEF PollerInv, ClockInv, MissToken
<1>1. PollerTypeOK'
  <2>1. pollAt' \in 0 .. NumTokens /\ reqAge' = 0
    BY ClockGoesOn
  <2>2. reqAge' \in 0 .. PollTimeout
    BY <2>1, PollerTypes
  <2> QED
    BY <2>1, <2>2 DEF PollerTypeOK
<1>2. ClockInv'
  BY <1>1, ClockGoesOn
<1>3. AgeInv'
  <2> SUFFICES ASSUME NEW t \in answered'
               PROVE  ttl'[t] > 0 /\ depth'[t] # NoDepth /\ AgeFits(t, Since(t))'
    BY DEF AgeInv
  <2>1. t \in Tokens /\ t \in answered /\ t # pollAt
    BY DEF PollerTypeOK
  <2>2. AgeFits(t, Since(t)) /\ ttl[t] > 0 /\ depth[t] # NoDepth
    BY <2>1 DEF AgeInv
  <2>3. PICK s \in Int : s = Since(t)
    BY <2>1, PollerTypes
  <2>4. AgeFits(t, s)'
    BY <2>1, <2>2, <2>3, AgesGoOn
  <2>5. Since(t)' = s
    BY <2>3 DEF Since
  <2> QED
    BY <2>2, <2>4, <2>5 DEF AgeFits
<1> QED
  BY <1>2, <1>3

\* A unit of time ages the clock and every key; a key whose token was answered
\* has time left, which is what the assumption on DepthTtl is for.
LEMMA AgesWithTime ==
  ASSUME PollerInv, PassTime, NEW t \in Tokens, NEW s \in Int, AgeFits(t, s)
  PROVE  s + 1 < DepthTtl /\ AgeFits(t, s + 1)'
<1> USE DEF PollerInv, ClockInv, PassTime, AgeFits
<1>1. t \in Int /\ t >= 1 /\ t <= NumTokens
  BY PollerTypes
<1>2. ASSUME NEW i \in Int
      PROVE  i * PollTimeout \in Int /\ (i + 1) * PollTimeout = i * PollTimeout + PollTimeout
  BY PollerTypes, Multiples
<1>3. /\ NumTokens * PollTimeout \in Int /\ NumTokens * PollTimeout >= 0
      /\ DepthTtl > Period + NumTokens * PollTimeout
  BY RoundFits
<1>4. CASE pollAt = 0
  <2>1. /\ untilPoll > 0 /\ untilPoll' = untilPoll - 1 /\ pollAt' = 0
        /\ s <= Period - untilPoll
    BY <1>4
  <2>2. s + 1 <= Period - untilPoll' /\ s + 1 <= Period
    BY <2>1, PollerTypes
  <2> QED
    BY <1>3, <2>1, <2>2, PollerTypes
<1>5. CASE pollAt # 0 /\ t < pollAt
  <2>1. /\ reqAge < PollTimeout /\ untilPoll' = untilPoll - 1 /\ pollAt' = pollAt
        /\ reqAge' = reqAge + 1
        /\ s <= Period - untilPoll /\ s <= (pollAt - 1 - t) * PollTimeout + reqAge
    BY <1>5
  <2>2. PICK i \in Int : i = pollAt - 1 - t
    BY <1>1, PollerTypes
  <2>3. /\ i * PollTimeout \in Int /\ (i + 1) * PollTimeout = i * PollTimeout + PollTimeout
        /\ (i + 1) * PollTimeout <= NumTokens * PollTimeout
    <3>1. i + 1 \in Int /\ i + 1 <= NumTokens
      BY <1>1, <2>2, PollerTypes
    <3> QED
      BY <1>2, <3>1, RoundFits
  <2>4. s <= i * PollTimeout + reqAge
    BY <2>1, <2>2
  <2>5. s + 1 < DepthTtl
    BY <1>3, <2>1, <2>3, <2>4, PollerTypes
  <2>6. s + 1 <= Period - untilPoll' /\ s + 1 <= i * PollTimeout + reqAge'
    BY <2>1, <2>3, <2>4, PollerTypes
  <2>7. s + 1 <= (pollAt' - 1 - t) * PollTimeout + reqAge'
    BY <2>1, <2>2, <2>6
  <2> QED
    BY <1>1, <1>5, <2>1, <2>5, <2>6, <2>7, PollerTypes
<1>6. CASE pollAt # 0 /\ t >= pollAt
  <2>1. /\ reqAge < PollTimeout /\ pollAt' = pollAt /\ reqAge' = reqAge + 1
        /\ \/ s <= Period + (pollAt - 1) * PollTimeout + reqAge
           \/ s <= (NumTokens - t) * PollTimeout + (pollAt - 1) * PollTimeout + reqAge
    BY <1>6
  <2>2. PICK i \in Int, j \in Int : i = pollAt - 1 /\ j = NumTokens - t
    BY <1>1, PollerTypes
  <2>3. /\ i * PollTimeout \in Int /\ (i + 1) * PollTimeout = i * PollTimeout + PollTimeout
        /\ (i + 1) * PollTimeout <= NumTokens * PollTimeout
    <3>1. i + 1 \in Int /\ i + 1 <= NumTokens
      BY <2>2, PollerTypes
    <3> QED
      BY <1>2, <3>1, RoundFits
  <2>4. /\ j * PollTimeout \in Int
        /\ j * PollTimeout + (i + 1) * PollTimeout <= NumTokens * PollTimeout
    <3>1. j + (i + 1) \in Int /\ j + (i + 1) <= NumTokens
      BY <1>1, <1>6, <2>2, PollerTypes
    <3>2. (j + (i + 1)) * PollTimeout <= NumTokens * PollTimeout
      BY <3>1, RoundFits
    <3>3. (j + (i + 1)) * PollTimeout = j * PollTimeout + (i + 1) * PollTimeout
      BY PollerTypes
    <3> QED
      BY <1>2, <3>2, <3>3
  <2>5. s <= Period + i * PollTimeout + reqAge \/ s <= j * PollTimeout + i * PollTimeout + reqAge
    BY <2>1, <2>2
  <2>6. s + 1 < DepthTtl
    BY <1>3, <2>1, <2>3, <2>4, <2>5, PollerTypes
  <2>7. \/ s + 1 <= Period + i * PollTimeout + reqAge'
        \/ s + 1 <= j * PollTimeout + i * PollTimeout + reqAge'
    BY <2>1, <2>3, <2>4, <2>5, PollerTypes
  <2>8. \/ s + 1 <= Period + (pollAt' - 1) * PollTimeout + reqAge'
        \/ s + 1 <= (NumTokens - t) * PollTimeout + (pollAt' - 1) * PollTimeout + reqAge'
    BY <2>1, <2>2, <2>7
  <2> QED
    BY <1>1, <1>6, <2>1, <2>6, <2>8, PollerTypes
<1> QED
  BY <1>1, <1>4, <1>5, <1>6, PollerTypes

\* Every key that has to be there outlives the unit of time.
LEMMA TimePasses ==
  ASSUME PollerInv, PassTime
  PROVE  PollerInv'
<1> USE DEF PollerInv, ClockInv, PassTime
<1>1. PollerTypeOK'
  <2>1. reqAge' \in 0 .. PollTimeout
    BY PollerTypes
  <2>2. untilPoll' >= -(NumTokens * PollTimeout)
    <3>1. CASE pollAt = 0
      BY <3>1, PollerTypes, RoundFits
    <3>2. CASE pollAt # 0
      <4>1. ((pollAt - 1) + 1) * PollTimeout = (pollAt - 1) * PollTimeout + PollTimeout
            /\ (pollAt - 1) * PollTimeout \in Int
        BY PollerTypes, Multiples
      <4>2. PICK i \in Int : i = pollAt - 1
        BY PollerTypes
      <4>3. (i + 1) * PollTimeout <= NumTokens * PollTimeout
        <5>1. i + 1 \in Int /\ i + 1 <= NumTokens
          BY <4>2, PollerTypes
        <5> QED
          BY <5>1, RoundFits
      <4>4. untilPoll >= 1 - (i * PollTimeout + reqAge) /\ reqAge < PollTimeout
        BY <3>2, <4>2
      <4>5. i * PollTimeout + PollTimeout <= NumTokens * PollTimeout /\ i * PollTimeout \in Int
        BY <4>1, <4>2, <4>3
      <4> QED
        BY <4>4, <4>5, PollerTypes, RoundFits
    <3> QED
      BY <3>1, <3>2
  <2>3. untilPoll' \in -(NumTokens * PollTimeout) .. Period
    BY <2>2, PollerTypes, RoundFits
  <2>4. ttl' \in [Tokens -> 0 .. DepthTtl]
    BY PollerTypes DEF PollerTypeOK
  <2>5. depth' \in [Tokens -> IndexerDepths \cup {UnpricedDepth, NoDepth}]
    BY DEF PollerTypeOK
  <2> QED
    BY <2>1, <2>3, <2>4, <2>5 DEF PollerTypeOK
<1>2. ClockInv'
  <2>1. CASE pollAt = 0
    BY <1>1, <2>1
  <2>2. CASE pollAt # 0
    <3>1. (pollAt - 1) * PollTimeout \in Int
      BY PollerTypes, Multiples
    <3>2. /\ pollAt' = pollAt /\ reqAge' = reqAge + 1 /\ untilPoll' = untilPoll - 1
          /\ untilPoll >= 1 - ((pollAt - 1) * PollTimeout + reqAge)
      BY <2>2
    <3>3. untilPoll' >= 1 - ((pollAt' - 1) * PollTimeout + reqAge')
      BY <3>1, <3>2, PollerTypes
    <3> QED
      BY <1>1, <2>2, <3>3
  <2> QED
    BY <2>1, <2>2
<1>3. AgeInv'
  <2> SUFFICES ASSUME NEW t \in answered'
               PROVE  ttl'[t] > 0 /\ depth'[t] # NoDepth /\ AgeFits(t, Since(t))'
    BY DEF AgeInv
  <2>1. t \in Tokens /\ t \in answered
    BY DEF PollerTypeOK
  <2>2. AgeFits(t, Since(t)) /\ ttl[t] > 0 /\ depth[t] # NoDepth
    BY <2>1 DEF AgeInv
  <2>3. PICK s \in Int : s = Since(t)
    BY <2>1, PollerTypes
  <2>4. s + 1 < DepthTtl /\ AgeFits(t, s + 1)'
    BY <2>1, <2>2, <2>3, AgesWithTime
  <2>5. ttl'[t] = ttl[t] - 1 /\ ttl'[t] > 0 /\ Since(t)' = s + 1
    BY <2>1, <2>2, <2>3, <2>4, PollerTypes DEF Since
  <2>6. depth'[t] = depth[t]
    BY <2>1, <2>5
  <2> QED
    BY <2>2, <2>4, <2>5, <2>6 DEF AgeFits
<1> QED
  BY <1>2, <1>3

\* Each action of the poller keeps its invariant ...
LEMMA PollerSteps ==
  ASSUME PollerInv, PollerNext
  PROVE  PollerInv'
BY RoundStarts, DepthStored, TokenMissed, TimePasses DEF PollerNext

\* ... and so does each step of the requests, which leave the poller alone.
LEMMA PollerRests ==
  ASSUME PollerInv, UNCHANGED pollerVars
  PROVE  PollerInv'
BY DEF PollerInv, ClockInv, AgeInv, AgeFits, PollerTypeOK, Since, pollerVars

---------------------------------------------------------------------------
(* The requests *)

\* A balance that was found sufficient still is, unless a transfer overtook
\* the request; and what was transferred was asked for before.
CheckedInv ==
  /\ \A r \in Requests :
       phase[r] = "checked" =>
         \/ r \in overtaken
         \/ balance[swap[r].wallet][swap[r].pay] >= swap[r].amount
  /\ \A r \in moved : phase[r] # "new"

\* The lock excludes nobody, so a wallet can be overdrawn; but only by a
\* transfer whose balance check another transfer from the same asset overtook.
OverdraftOnlyByOverlap ==
  \A w \in Wallets, a \in Assets :
    balance[w][a] < 0 =>
      \E r \in moved \cap overtaken : swap[r].wallet = w /\ swap[r].pay = a

RouteInv == RouteTypeOK /\ CheckedInv /\ OverdraftOnlyByOverlap

\* What a request asks for is no missing one.
LEMMA SwapIsAsked ==
  \A s \in [wallet : Wallets, pay : Assets, receive : Assets,
            amount : Nat \ {0}, slippage : Nat] : s # NoSwap
BY DEF NoSwap

\* What is known of a request that has begun.
LEMMA SwapTypes ==
  ASSUME RouteTypeOK, NEW r \in Requests, phase[r] # "new"
  PROVE  /\ swap[r] \in Swaps
         /\ swap[r].wallet \in Wallets /\ swap[r].pay \in Assets
         /\ swap[r].receive \in Assets
         /\ swap[r].amount \in Int /\ swap[r].amount > 0
<1>1. swap[r] \in Swaps
  BY DEF RouteTypeOK
<1>2. swap[r] \in [wallet : Wallets, pay : Assets, receive : Assets,
                   amount : Nat \ {0}, slippage : Nat]
  BY <1>1, RouteLockAssumption
<1> QED
  BY <1>1, <1>2

\* The part of the type invariant and of the history that the requests' own
\* steps depend on.
LEMMA RequestTypes ==
  ASSUME RouteTypeOK
  PROVE  /\ phase \in [Requests -> {"new"} \cup Underway \cup Over]
         /\ swap \in [Requests -> Swaps \cup {NoSwap}]
         /\ balance \in [Wallets -> [Assets -> Int]]
         /\ \A w \in Wallets, a \in Assets : balance[w][a] \in Int
         /\ moved \subseteq Requests /\ overtaken \subseteq Requests
BY DEF RouteTypeOK

\* Nobody has asked for anything, and every wallet is empty.
LEMMA RouteStarts == RouteInit /\ PollerTypeOK => RouteInv
<1> SUFFICES ASSUME RouteInit, PollerTypeOK PROVE RouteInv
  OBVIOUS
<1>1. RouteTypeOK
  BY RouteLockAssumption DEF RouteInit, RouteTypeOK
<1>2. CheckedInv
  BY DEF RouteInit, CheckedInv
<1>3. OverdraftOnlyByOverlap
  BY DEF RouteInit, OverdraftOnlyByOverlap
<1> QED
  BY <1>1, <1>2, <1>3 DEF RouteInv

\* A request changes its phase: the types, given that the new phase fits the
\* swap, the lock and the provider.
LEMMA PhaseFits ==
  ASSUME RouteTypeOK, PollerTypeOK', NEW r \in Requests, phase[r] # "new",
         NEW p \in Underway \cup Over, Become(r, p),
         UNCHANGED <<mode, swap, grants>>, moved' \subseteq Requests,
         balance' \in [Wallets -> [Assets -> Int]], overtaken' \subseteq Requests,
         mode = "live" => p \notin {"locked", "checked", "moved"},
         lock' \subseteq lock \cup {r}, r \in lock' => p \notin {"asked", "quoted"}
  PROVE  RouteTypeOK'
<1> USE DEF RouteTypeOK, Become
<1>1. phase' \in [Requests -> {"new"} \cup Underway \cup Over]
  OBVIOUS
<1>2. /\ \A q \in Requests : q # r => phase'[q] = phase[q]
      /\ phase'[r] = p
  OBVIOUS
<1>3. p # "new"
  BY DEF Underway, Over
<1>4. lock' \subseteq {q \in Requests : phase'[q] \notin {"new", "asked", "quoted"}}
  BY <1>2, <1>3
<1>5. \A q \in Requests : swap'[q] = NoSwap <=> phase'[q] = "new"
  BY <1>2, <1>3
<1>6. mode' = "live" => \A q \in Requests : phase'[q] \notin {"locked", "checked", "moved"}
  BY <1>2
<1> QED
  BY <1>1, <1>4, <1>5, <1>6

\* A step of the requests that moves no balance, takes no request to "checked"
\* and begins none keeps what is known of the balances.
LEMMA BalancesRest ==
  ASSUME RouteInv, UNCHANGED <<swap, balance, moved, overtaken>>,
         \A q \in Requests : /\ phase'[q] = "checked" => phase[q] = "checked"
                             /\ phase[q] # "new" => phase'[q] # "new"
  PROVE  CheckedInv' /\ OverdraftOnlyByOverlap'
<1>1. moved \subseteq Requests
  BY DEF RouteInv, RouteTypeOK
<1>2. CheckedInv'
  BY <1>1 DEF RouteInv, CheckedInv
<1>3. OverdraftOnlyByOverlap'
  BY DEF RouteInv, OverdraftOnlyByOverlap
<1> QED
  BY <1>2, <1>3

\* What becomes of one request leaves the others' phases alone.
LEMMA OthersRest ==
  ASSUME RouteTypeOK, NEW r \in Requests, NEW p, Become(r, p)
  PROVE  /\ phase'[r] = p
         /\ \A q \in Requests : q # r => phase'[q] = phase[q]
BY DEF RouteTypeOK, Become

\* A request arrives; it has moved nothing yet.
LEMMA Asked ==
  ASSUME RouteInv, PollerTypeOK', NEW r \in Requests, NEW s \in Swaps, Ask(r, s)
  PROVE  RouteInv'
<1>1. RouteTypeOK /\ CheckedInv /\ OverdraftOnlyByOverlap
  BY DEF RouteInv
<1>2. /\ phase \in [Requests -> {"new"} \cup Underway \cup Over]
      /\ swap \in [Requests -> Swaps \cup {NoSwap}]
      /\ moved \subseteq Requests /\ r \notin moved
  BY <1>1 DEF RouteTypeOK, CheckedInv, Ask
<1>3. /\ phase' = [phase EXCEPT ![r] = "asked"] /\ swap' = [swap EXCEPT ![r] = s]
      /\ phase[r] = "new" /\ UNCHANGED <<mode, lock, balance, grants, moved, overtaken>>
  BY DEF Ask, Become
<1>4. /\ phase'[r] = "asked" /\ swap'[r] = s
      /\ \A q \in Requests : q # r => phase'[q] = phase[q] /\ swap'[q] = swap[q]
  BY <1>2, <1>3
<1>5. s # NoSwap
  BY SwapIsAsked, RouteLockAssumption
<1>6. RouteTypeOK'
  <2>1. /\ phase' \in [Requests -> {"new"} \cup Underway \cup Over]
        /\ swap' \in [Requests -> Swaps \cup {NoSwap}]
    BY <1>2, <1>3 DEF Underway
  <2>2. \A q \in Requests : swap'[q] = NoSwap <=> phase'[q] = "new"
    BY <1>1, <1>4, <1>5 DEF RouteTypeOK
  <2>3. lock' \subseteq {q \in Requests : phase'[q] \notin {"new", "asked", "quoted"}}
    BY <1>1, <1>3, <1>4 DEF RouteTypeOK
  <2>4. mode' = "live" => \A q \in Requests : phase'[q] \notin {"locked", "checked", "moved"}
    BY <1>1, <1>3, <1>4 DEF RouteTypeOK
  <2> QED
    BY <1>1, <1>3, <2>1, <2>2, <2>3, <2>4 DEF RouteTypeOK
<1>7. CheckedInv'
  BY <1>1, <1>2, <1>3, <1>4 DEF CheckedInv
<1>8. OverdraftOnlyByOverlap'
  <2> SUFFICES ASSUME NEW w \in Wallets, NEW a \in Assets, balance[w][a] < 0
               PROVE  \E q \in moved \cap overtaken : swap'[q].wallet = w /\ swap'[q].pay = a
    BY <1>3 DEF OverdraftOnlyByOverlap
  <2>1. PICK q \in moved \cap overtaken : swap[q].wallet = w /\ swap[q].pay = a
    BY <1>1 DEF OverdraftOnlyByOverlap
  <2>2. q \in Requests /\ q # r
    BY <1>2, <2>1
  <2> QED
    BY <1>4, <2>1, <2>2
<1> QED
  BY <1>6, <1>7, <1>8 DEF RouteInv

\* A route is quoted or refused; no lock is held yet, no balance was read.
LEMMA Quoted ==
  ASSUME RouteInv, PollerTypeOK', NEW r \in Requests, Quote(r)
  PROVE  RouteInv'
<1>1. RouteTypeOK
  BY DEF RouteInv
<1>2. PICK p \in {"quoted", "refused"} : Become(r, p)
  BY DEF Quote
<1>3. phase[r] = "asked" /\ UNCHANGED <<mode, swap, lock, balance, grants, moved, overtaken>>
  BY DEF Quote
<1>4. p \in Underway \cup Over /\ p \notin {"locked", "checked", "moved", "asked", "new"}
  BY <1>2 DEF Underway, Over
<1>5. r \notin lock
  BY <1>1, <1>3 DEF RouteTypeOK
<1>6. balance' \in [Wallets -> [Assets -> Int]] /\ overtaken' \subseteq Requests
      /\ moved' \subseteq Requests
  BY <1>1, <1>3, RequestTypes
<1>7. RouteTypeOK'
  BY <1>1, <1>2, <1>3, <1>4, <1>5, <1>6, PhaseFits
<1>8. CheckedInv' /\ OverdraftOnlyByOverlap'
  BY <1>1, <1>2, <1>3, <1>4, OthersRest, BalancesRest
<1> QED
  BY <1>7, <1>8 DEF RouteInv

\* The live provider is done with it; the mock one goes on to the treasury.
LEMMA LockTaken ==
  ASSUME RouteInv, PollerTypeOK', NEW r \in Requests, TakeLock(r)
  PROVE  RouteInv'
<1>1. RouteTypeOK
  BY DEF RouteInv
<1>2. Become(r, AfterLock) /\ AfterLock \in {"settled", "locked"}
      /\ (mode = "live" => AfterLock = "settled")
  BY DEF TakeLock, AfterLock
<1>3. /\ phase[r] = "quoted" /\ lock' = lock \cup {r}
      /\ UNCHANGED <<mode, swap, balance, grants, moved, overtaken>>
  BY DEF TakeLock
<1>4. PICK p : p = AfterLock
  OBVIOUS
<1>5. /\ p \in Underway \cup Over /\ p \notin {"checked", "moved", "asked", "quoted", "new"}
      /\ Become(r, p) /\ (mode = "live" => p \notin {"locked", "checked", "moved"})
  BY <1>2, <1>4 DEF Underway, Over
<1>6. balance' \in [Wallets -> [Assets -> Int]] /\ overtaken' \subseteq Requests
      /\ moved' \subseteq Requests
  BY <1>1, <1>3, RequestTypes
<1>7. RouteTypeOK'
  BY <1>1, <1>3, <1>5, <1>6, PhaseFits
<1>8. CheckedInv' /\ OverdraftOnlyByOverlap'
  BY <1>1, <1>3, <1>5, OthersRest, BalancesRest
<1> QED
  BY <1>7, <1>8 DEF RouteInv

\* The balance is compared with the amount of the request's own swap: from here
\* on it is sufficient, until a transfer overtakes the request.
LEMMA BalanceChecked ==
  ASSUME RouteInv, PollerTypeOK', NEW r \in Requests, CheckBalance(r)
  PROVE  RouteInv'
<1>1. RouteTypeOK /\ CheckedInv /\ OverdraftOnlyByOverlap
  BY DEF RouteInv
<1>2. PICK p \in {"refused", "checked"} :
        /\ Become(r, p)
        /\ p = "checked" => ~(balance[swap[r].wallet][swap[r].pay] < swap[r].amount)
  BY DEF CheckBalance, Available
<1>3. /\ phase[r] = "locked"
      /\ UNCHANGED <<mode, swap, lock, balance, grants, moved, overtaken>>
  BY DEF CheckBalance
<1>4. /\ p \in Underway \cup Over /\ p \notin {"asked", "quoted", "new"} /\ mode # "live"
  BY <1>1, <1>2, <1>3 DEF Underway, Over, RouteTypeOK
<1>5. balance' \in [Wallets -> [Assets -> Int]] /\ overtaken' \subseteq Requests
      /\ moved' \subseteq Requests /\ moved \subseteq Requests
  BY <1>1, <1>3, RequestTypes
<1>6. RouteTypeOK'
  BY <1>1, <1>2, <1>3, <1>4, <1>5, PhaseFits
<1>7. phase'[r] = p /\ \A q \in Requests : q # r => phase'[q] = phase[q]
  BY <1>1, <1>2, OthersRest
<1>8. p = "checked" => balance[swap[r].wallet][swap[r].pay] >= swap[r].amount
  BY <1>1, <1>2, <1>3, SwapTypes, RequestTypes
<1>9. CheckedInv'
  BY <1>1, <1>3, <1>4, <1>5, <1>7, <1>8 DEF CheckedInv
<1>10. OverdraftOnlyByOverlap'
  BY <1>1, <1>3 DEF OverdraftOnlyByOverlap
<1> QED
  BY <1>6, <1>9, <1>10 DEF RouteInv

\* What the transaction does to the balances, one by one: it takes from the
\* asset that is paid only, and not more than the amount.
LEMMA TransferMoves ==
  ASSUME RouteTypeOK, NEW r \in Requests, Transfer(r)
  PROVE  /\ balance' \in [Wallets -> [Assets -> Int]]
         /\ balance'[swap[r].wallet][swap[r].pay]
              >= balance[swap[r].wallet][swap[r].pay] - swap[r].amount
         /\ \A w \in Wallets, a \in Assets :
              ~(w = swap[r].wallet /\ a = swap[r].pay) => balance'[w][a] >= balance[w][a]
<1>1. /\ swap[r].wallet \in Wallets /\ swap[r].pay \in Assets
      /\ swap[r].receive \in Assets
      /\ swap[r].amount \in Int /\ swap[r].amount > 0
  BY SwapTypes DEF Transfer
<1>2. PICK v, p, q, n : v = swap[r].wallet /\ p = swap[r].pay /\ q = swap[r].receive
                        /\ n = swap[r].amount
  OBVIOUS
<1>3. balance \in [Wallets -> [Assets -> Int]]
  BY RequestTypes
<1>4. v \in Wallets /\ p \in Assets /\ q \in Assets /\ n \in Int /\ n > 0
  BY <1>1, <1>2
<1>5. PICK debited : debited = [balance EXCEPT ![v][p] = @ + (-n)]
  OBVIOUS
<1>6. /\ debited \in [Wallets -> [Assets -> Int]]
      /\ debited[v][p] = balance[v][p] - n
      /\ \A w \in Wallets, a \in Assets : ~(w = v /\ a = p) => debited[w][a] = balance[w][a]
  BY <1>3, <1>4, <1>5
<1>7. balance' = [debited EXCEPT ![v][q] = @ + n]
  BY <1>2, <1>5 DEF Transfer, Credit
<1>8. /\ balance' \in [Wallets -> [Assets -> Int]]
      /\ \A w \in Wallets, a \in Assets : balance'[w][a] >= debited[w][a]
  BY <1>4, <1>6, <1>7
<1>9. balance'[v][p] >= balance[v][p] - n
  BY <1>4, <1>6, <1>8
<1>10. \A w \in Wallets, a \in Assets : ~(w = v /\ a = p) => balance'[w][a] >= balance[w][a]
  BY <1>6, <1>8
<1> QED
  BY <1>2, <1>8, <1>9, <1>10

\* A transfer overdraws only if it was overtaken itself; and every request whose
\* balance it takes from is overtaken by it.
LEMMA Transferred ==
  ASSUME RouteInv, PollerTypeOK', NEW r \in Requests, Transfer(r)
  PROVE  RouteInv'
<1>1. RouteTypeOK /\ CheckedInv /\ OverdraftOnlyByOverlap
  BY DEF RouteInv
<1>2. /\ phase[r] = "checked" /\ Become(r, "moved")
      /\ moved' = moved \cup {r} /\ overtaken' = overtaken \cup OvertakenBy(r)
      /\ UNCHANGED <<mode, swap, lock, grants>>
  BY DEF Transfer
<1>3. /\ balance' \in [Wallets -> [Assets -> Int]]
      /\ balance'[swap[r].wallet][swap[r].pay]
           >= balance[swap[r].wallet][swap[r].pay] - swap[r].amount
      /\ \A w \in Wallets, a \in Assets :
           ~(w = swap[r].wallet /\ a = swap[r].pay) => balance'[w][a] >= balance[w][a]
  BY <1>1, TransferMoves
<1>4. moved \subseteq Requests /\ overtaken' \subseteq Requests /\ moved' \subseteq Requests
  BY <1>1, <1>2, RequestTypes DEF OvertakenBy
<1>5. RouteTypeOK'
  <2>1. "moved" \in Underway \cup Over /\ mode # "live"
    BY <1>1, <1>2 DEF Underway, RouteTypeOK
  <2> QED
    BY <1>1, <1>2, <1>3, <1>4, <2>1, PhaseFits
<1>6. phase'[r] = "moved" /\ \A q \in Requests : q # r => phase'[q] = phase[q]
  BY <1>1, <1>2, OthersRest
<1>7. \A w \in Wallets, a \in Assets : balance[w][a] \in Int /\ balance'[w][a] \in Int
  BY <1>1, <1>3, RequestTypes
<1>8. CheckedInv'
  <2>1. ASSUME NEW q \in Requests, phase'[q] = "checked"
        PROVE  q \in overtaken' \/ balance'[swap[q].wallet][swap[q].pay] >= swap[q].amount
    <3>1. q # r /\ phase[q] = "checked"
      BY <1>6, <2>1
    <3>2. CASE swap[q].wallet = swap[r].wallet /\ swap[q].pay = swap[r].pay
      BY <1>2, <3>1, <3>2 DEF OvertakenBy
    <3>3. CASE ~(swap[q].wallet = swap[r].wallet /\ swap[q].pay = swap[r].pay)
      <4>1. swap[q].wallet \in Wallets /\ swap[q].pay \in Assets /\ swap[q].amount \in Int
        BY <1>1, <3>1, SwapTypes
      <4>2. q \in overtaken \/ balance[swap[q].wallet][swap[q].pay] >= swap[q].amount
        BY <1>1, <3>1 DEF CheckedInv
      <4>3. balance'[swap[q].wallet][swap[q].pay] >= balance[swap[q].wallet][swap[q].pay]
        BY <1>3, <3>3, <4>1
      <4> QED
        BY <1>2, <1>7, <4>1, <4>2, <4>3
    <3> QED
      BY <3>2, <3>3
  <2>2. \A q \in moved' : phase'[q] # "new"
    BY <1>1, <1>2, <1>4, <1>6 DEF CheckedInv
  <2> QED
    BY <1>2, <2>1, <2>2 DEF CheckedInv
<1>9. OverdraftOnlyByOverlap'
  <2> SUFFICES ASSUME NEW w \in Wallets, NEW a \in Assets, balance'[w][a] < 0
               PROVE  \E q \in moved' \cap overtaken' : swap[q].wallet = w /\ swap[q].pay = a
    BY <1>2 DEF OverdraftOnlyByOverlap
  <2>1. CASE balance[w][a] < 0
    BY <1>1, <1>2, <2>1 DEF OverdraftOnlyByOverlap
  <2>2. CASE ~(balance[w][a] < 0)
    <3>1. w = swap[r].wallet /\ a = swap[r].pay
      BY <1>3, <1>7, <2>2
    <3>2. swap[r].amount \in Int
      BY <1>1, <1>2, SwapTypes
    <3>3. r \in overtaken \/ balance[w][a] >= swap[r].amount
      BY <1>1, <1>2, <3>1 DEF CheckedInv
    <3>4. balance'[w][a] >= balance[w][a] - swap[r].amount
      BY <1>3, <3>1
    <3>5. r \in overtaken
      BY <1>7, <3>2, <3>3, <3>4
    <3> QED
      BY <1>2, <3>1, <3>5
  <2> QED
    BY <2>1, <2>2
<1> QED
  BY <1>5, <1>8, <1>9 DEF RouteInv

\* A task that ends, with an answer or without one.
LEMMA TaskEnds ==
  ASSUME RouteInv, PollerTypeOK', NEW r \in Requests, Answer(r) \/ Abort(r)
  PROVE  RouteInv'
<1>1. RouteTypeOK
  BY DEF RouteInv
<1>2. PICK p \in {"settled", "aborted"} : Become(r, p)
  BY DEF Answer, Abort
<1>3. /\ phase[r] \in Underway
      /\ UNCHANGED <<mode, swap, lock, balance, grants, moved, overtaken>>
  BY DEF Answer, Abort, Underway
<1>4. p \in Underway \cup Over /\ phase[r] # "new"
      /\ p \notin {"locked", "checked", "moved", "asked", "quoted", "new"}
  BY <1>2, <1>3 DEF Underway, Over
<1>5. balance' \in [Wallets -> [Assets -> Int]] /\ overtaken' \subseteq Requests
      /\ moved' \subseteq Requests
  BY <1>1, <1>3, RequestTypes
<1>6. RouteTypeOK'
  BY <1>1, <1>2, <1>3, <1>4, <1>5, PhaseFits
<1>7. CheckedInv' /\ OverdraftOnlyByOverlap'
  BY <1>1, <1>2, <1>3, <1>4, OthersRest, BalancesRest
<1> QED
  BY <1>6, <1>7 DEF RouteInv

\* A lock key that expires changes nothing else: nobody reads it.
LEMMA LockExpires ==
  ASSUME RouteInv, PollerTypeOK', NEW r \in Requests, ExpireLock(r)
  PROVE  RouteInv'
<1>1. RouteTypeOK'
  BY DEF RouteInv, RouteTypeOK, ExpireLock
<1>2. CheckedInv' /\ OverdraftOnlyByOverlap'
  BY BalancesRest DEF ExpireLock
<1> QED
  BY <1>1, <1>2 DEF RouteInv

\* The faucet adds to a balance.
LEMMA FaucetFills ==
  ASSUME RouteInv, PollerTypeOK', NEW w \in Wallets, NEW a \in Assets, Faucet(w, a)
  PROVE  RouteInv'
<1>1. RouteTypeOK /\ CheckedInv /\ OverdraftOnlyByOverlap
  BY DEF RouteInv
<1>2. /\ grants < MaxGrants /\ grants' = grants + 1
      /\ balance' = [balance EXCEPT ![w][a] = @ + FaucetGrant]
      /\ UNCHANGED <<mode, phase, swap, lock, moved, overtaken>>
  BY DEF Faucet
<1>3. balance \in [Wallets -> [Assets -> Int]] /\ FaucetGrant \in Nat
  BY <1>1, RequestTypes, RouteLockAssumption
<1>4. /\ balance' \in [Wallets -> [Assets -> Int]]
      /\ \A v \in Wallets, b \in Assets :
           /\ balance[v][b] \in Int /\ balance'[v][b] \in Int
           /\ balance'[v][b] >= balance[v][b]
  BY <1>2, <1>3
<1>5. RouteTypeOK'
  <2>1. grants' \in 0 .. MaxGrants
    BY <1>1, <1>2, RouteLockAssumption DEF RouteTypeOK
  <2> QED
    BY <1>1, <1>2, <1>4, <2>1 DEF RouteTypeOK
<1>6. CheckedInv'
  <2>1. ASSUME NEW q \in Requests, phase[q] = "checked"
        PROVE  q \in overtaken \/ balance'[swap[q].wallet][swap[q].pay] >= swap[q].amount
    <3>1. swap[q].wallet \in Wallets /\ swap[q].pay \in Assets /\ swap[q].amount \in Int
      BY <1>1, <2>1, SwapTypes
    <3>2. q \in overtaken \/ balance[swap[q].wallet][swap[q].pay] >= swap[q].amount
      BY <1>1, <2>1 DEF CheckedInv
    <3> QED
      BY <1>4, <3>1, <3>2
  <2> QED
    BY <1>1, <1>2, <2>1 DEF CheckedInv
<1>7. OverdraftOnlyByOverlap'
  BY <1>1, <1>2, <1>4 DEF OverdraftOnlyByOverlap
<1> QED
  BY <1>5, <1>6, <1>7 DEF RouteInv

\* A step that leaves the requests alone.
LEMMA RouteRests ==
  ASSUME RouteInv, PollerTypeOK', UNCHANGED routeVars
  PROVE  RouteInv'
<1>1. UNCHANGED <<mode, phase, swap, lock, balance, grants, moved, overtaken>>
  BY DEF routeVars
<1>2. RouteTypeOK'
  BY <1>1 DEF RouteInv, RouteTypeOK
<1>3. CheckedInv' /\ OverdraftOnlyByOverlap'
  BY <1>1, BalancesRest
<1> QED
  BY <1>2, <1>3 DEF RouteInv

\* The invariant of the router and the poller beside it.
THEOREM RouteInvariant == RouteLockSpec => [](PollerInv /\ RouteInv)
<1>1. RouteLockInit => PollerInv /\ RouteInv
  BY PollerStarts, RouteStarts DEF RouteLockInit, PollerInv, ClockInv
<1>2. PollerInv /\ RouteInv /\ [RouteLockNext]_routeLockVars => (PollerInv /\ RouteInv)'
  <2> SUFFICES ASSUME PollerInv, RouteInv, [RouteLockNext]_routeLockVars
               PROVE  PollerInv' /\ RouteInv'
    OBVIOUS
  <2>1. ASSUME UNCHANGED routeLockVars PROVE PollerInv' /\ RouteInv'
    <3>1. UNCHANGED pollerVars /\ UNCHANGED routeVars
      BY <2>1 DEF routeLockVars
    <3>2. PollerInv'
      BY <3>1, PollerRests
    <3> QED
      BY <3>1, <3>2, RouteRests DEF PollerInv, ClockInv
  <2>2. ASSUME PollerNext, UNCHANGED routeVars PROVE PollerInv' /\ RouteInv'
    <3>1. PollerInv'
      BY <2>2, PollerSteps
    <3> QED
      BY <2>2, <3>1, RouteRests DEF PollerInv, ClockInv
  <2>3. ASSUME RouteNext PROVE PollerInv' /\ RouteInv'
    <3>1. UNCHANGED pollerVars
      BY <2>3 DEF RouteNext, RequestStep, Ask, Quote, TakeLock, CheckBalance, Transfer,
         Answer, ExpireLock, Abort, Faucet
    <3>2. PollerInv' /\ PollerTypeOK'
      BY <3>1, PollerRests DEF PollerInv, ClockInv
    <3> QED
      BY <2>3, <3>2, Asked, Quoted, LockTaken, BalanceChecked, Transferred, TaskEnds,
         LockExpires, FaucetFills DEF RouteNext, RequestStep
  <2> QED
    BY <2>1, <2>2, <2>3 DEF RouteLockNext
<1> QED
  BY <1>1, <1>2, PTL DEF RouteLockSpec

\* Requests and the poller share only the depth keys, which requests read: what
\* the poller does in the whole program is what it does alone.
THEOREM ImplementsPoller == RouteLockSpec => PollerSpec
<1>1. RouteLockInit => PollerInit
  BY DEF RouteLockInit
<1>2. [RouteLockNext]_routeLockVars => [PollerNext]_pollerVars
  <2>1. RouteNext => UNCHANGED pollerVars
    BY DEF RouteNext, RequestStep, Ask, Quote, TakeLock, CheckBalance, Transfer, Answer,
       ExpireLock, Abort, Faucet
  <2>2. UNCHANGED routeLockVars => UNCHANGED pollerVars
    BY DEF routeLockVars
  <2> QED
    BY <2>1, <2>2 DEF RouteLockNext
<1> QED
  BY <1>1, <1>2, PTL DEF RouteLockSpec, PollerSpec

\* RouteTypeOK for any number of tokens, requests, wallets and swaps: the live
\* provider never comes near the treasury, and no lock is held before the route
\* was quoted.
THEOREM RouteTypeCorrect == RouteLockSpec => []RouteTypeOK
<1>1. PollerInv /\ RouteInv => RouteTypeOK
  BY DEF RouteInv
<1> QED
  BY <1>1, RouteInvariant, PTL

\* The depth of a pair whose last poll succeeded is there to be quoted, for every
\* number of tokens, period and timeout whose longest round the keys outlive.
THEOREM DepthStaysHeld == RouteLockSpec => []DepthHeld
<1>1. PollerInv /\ RouteInv => DepthHeld
  BY DEF PollerInv, AgeInv, DepthHeld
<1> QED
  BY <1>1, RouteInvariant, PTL

\* What remains of the exclusion the lock does not give: a request that meets no
\* other between its balance check and its transfer never overdraws a wallet, for
\* execute_rebalance compares before it debits.
THEOREM OverdrawnByOverlap == RouteLockSpec => []OverdraftOnlyByOverlap
<1>1. PollerInv /\ RouteInv => OverdraftOnlyByOverlap
  BY DEF RouteInv
<1> QED
  BY <1>1, RouteInvariant, PTL
---------------------------------------------------------------------------
(* The treasury as a whole *)

\* The assets are numbered, and there are finitely many wallets.
LEMMA TreasuryConstants ==
  /\ NumTokens \in Nat /\ Assets = 0 .. NumTokens
  /\ IsFiniteSet(Wallets) /\ FaucetGrant \in Int
BY LiquidityPollerAssumption, RouteLockAssumption DEF Assets, KAS, Tokens

\* A set of numbers has a least one.  An induction is led by it: there is no least
\* number for which the claim fails.
LEMMA LeastNumber ==
  ASSUME NEW T, T \subseteq Nat, T # {}
  PROVE  \E x \in T : \A y \in T : x <= y
<1>1. IsWellFoundedOn(OpToRel(<,Nat), Nat)
  BY NatLessThanWellFounded
<1>2. PICK R : R = OpToRel(<,Nat)
  OBVIOUS
<1>3. \A a, b \in Nat : a < b => <<a, b>> \in R
  BY <1>2 DEF OpToRel
<1>4. PICK x \in T : \A y \in T : ~ (<<y, x>> \in R)
  BY <1>1, <1>2, WFMin
<1>5. ASSUME NEW y \in T PROVE x <= y
  <2>1. x \in Nat /\ y \in Nat
    OBVIOUS
  <2>2. ~(y < x)
    BY <1>3, <1>4, <2>1
  <2> QED
    BY <2>1, <2>2
<1> QED
  BY <1>5

\* s[n] is the sum of f[0] .. f[n].
IsSum(s, f) == s = [n \in 0 .. NumTokens |-> f[n] + IF n = 0 THEN 0 ELSE s[n - 1]]

\* What Holdings computes of a wallet's balances.
SumIn(f) ==
  LET sum[n \in 0 .. NumTokens] == f[n] + IF n = 0 THEN 0 ELSE sum[n - 1]
  IN  sum[NumTokens]

\* The sums are determined by the summands ...
LEMMA SumsAgree ==
  ASSUME NEW f, NEW s, NEW t, IsSum(s, f), IsSum(t, f)
  PROVE  s = t
<1>1. /\ s = [n \in 0 .. NumTokens |-> f[n] + IF n = 0 THEN 0 ELSE s[n - 1]]
      /\ t = [n \in 0 .. NumTokens |-> f[n] + IF n = 0 THEN 0 ELSE t[n - 1]]
  BY DEF IsSum
<1>2. PICK T : T = {n \in 0 .. NumTokens : s[n] # t[n]}
  OBVIOUS
<1>3. T = {}
  <2>1. SUFFICES ASSUME T # {} PROVE FALSE
    OBVIOUS
  <2>2. T \subseteq Nat
    BY <1>2, TreasuryConstants
  <2>3. PICK n \in T : \A m \in T : n <= m
    BY <2>1, <2>2, LeastNumber
  <2>4. n \in 0 .. NumTokens /\ s[n] # t[n] /\ n \in Nat
    BY <1>2, <2>2, <2>3
  <2>5. CASE n = 0
    BY <1>1, <2>4, <2>5
  <2>6. CASE n # 0
    <3>1. n - 1 \in 0 .. NumTokens /\ ~(n <= n - 1)
      BY <2>4, <2>6, TreasuryConstants
    <3>2. s[n - 1] = t[n - 1]
      BY <1>2, <2>3, <3>1
    <3>3. s[n] = f[n] + s[n - 1] /\ t[n] = f[n] + t[n - 1]
      BY <1>1, <2>4, <2>6
    <3> QED
      BY <2>4, <3>2, <3>3
  <2> QED
    BY <2>5, <2>6
<1>4. \A n \in 0 .. NumTokens : s[n] = t[n]
  BY <1>2, <1>3
<1>5. s = [n \in 0 .. NumTokens |-> s[n]] /\ t = [n \in 0 .. NumTokens |-> t[n]]
  BY <1>1
<1> QED
  BY <1>4, <1>5

\* ... and there are some: the ones up to k - 1 are continued to k.
LEMMA SumExists ==
  ASSUME NEW f \in [0 .. NumTokens -> Int]
  PROVE  \E s \in [0 .. NumTokens -> Int] : IsSum(s, f)
<1> DEFINE Upto(k, s) == \A n \in 0 .. k : s[n] = f[n] + IF n = 0 THEN 0 ELSE s[n - 1]
           Bad == {k \in 0 .. NumTokens : ~\E s \in [0 .. k -> Int] : Upto(k, s)}
<1>1. Bad = {}
  <2>1. SUFFICES ASSUME Bad # {} PROVE FALSE
    OBVIOUS
  <2>2. Bad \subseteq Nat
    BY TreasuryConstants
  <2>3. PICK k \in Bad : \A m \in Bad : k <= m
    <3> HIDE DEF Bad
    <3> QED
      BY <2>1, <2>2, LeastNumber
  <2>4. k \in 0 .. NumTokens /\ k \in Nat /\ ~\E s \in [0 .. k -> Int] : Upto(k, s)
    BY <2>2, <2>3
  <2>5. CASE k = 0
    <3>1. [n \in 0 .. 0 |-> f[n]] \in [0 .. 0 -> Int]
      BY TreasuryConstants
    <3>2. PICK s \in [0 .. 0 -> Int] : s = [n \in 0 .. 0 |-> f[n]]
      BY <3>1
    <3>3. Upto(0, s)
      BY <3>2, TreasuryConstants
    <3> QED
      BY <2>4, <2>5, <3>2, <3>3
  <2>6. CASE k # 0
    <3>1. k - 1 \in 0 .. NumTokens /\ ~(k <= k - 1)
      BY <2>4, <2>6, TreasuryConstants
    <3>2. PICK s \in [0 .. k - 1 -> Int] : Upto(k - 1, s)
      BY <2>3, <3>1
    <3>3. PICK t : t = [n \in 0 .. k |-> IF n = k THEN f[k] + s[k - 1] ELSE s[n]]
      OBVIOUS
    <3>4. t \in [0 .. k -> Int]
      BY <2>4, <3>1, <3>3, TreasuryConstants
    <3>5. Upto(k, t)
      <4> SUFFICES ASSUME NEW n \in 0 .. k
                   PROVE  t[n] = f[n] + IF n = 0 THEN 0 ELSE t[n - 1]
        OBVIOUS
      <4>1. CASE n = k
        BY <2>4, <2>6, <3>3, <4>1
      <4>2. CASE n # k
        <5>1. n \in 0 .. k - 1 /\ (n # 0 => n - 1 \in 0 .. k - 1)
          BY <2>4, <4>2
        <5>2. s[n] = f[n] + IF n = 0 THEN 0 ELSE s[n - 1]
          BY <3>2, <5>1
        <5> QED
          BY <2>4, <3>3, <4>2, <5>1, <5>2
      <4> QED
        BY <4>1, <4>2
    <3> QED
      BY <2>4, <3>4, <3>5
  <2> QED
    BY <2>5, <2>6
<1>2. NumTokens \in 0 .. NumTokens
  BY TreasuryConstants
<1>3. PICK s \in [0 .. NumTokens -> Int] : Upto(NumTokens, s)
  BY <1>1, <1>2
<1>4. s = [n \in 0 .. NumTokens |-> f[n] + IF n = 0 THEN 0 ELSE s[n - 1]]
  <2>1. s = [n \in 0 .. NumTokens |-> s[n]]
    OBVIOUS
  <2> QED
    BY <1>3, <2>1
<1> QED
  BY <1>4 DEF IsSum

\* So the recursive definition computes them.
LEMMA SumInIs ==
  ASSUME NEW f, NEW s, IsSum(s, f)
  PROVE  SumIn(f) = s[NumTokens]
<1> DEFINE t == CHOOSE t : IsSum(t, f)
<1>1. IsSum(t, f)
  OBVIOUS
<1>2. t = s
  BY <1>1, SumsAgree
<1>3. SumIn(f) = t[NumTokens]
  BY DEF SumIn, IsSum
<1> QED
  BY <1>2, <1>3

\* A change of one summand changes the sum by as much.
LEMMA SumChanges ==
  ASSUME NEW f \in [0 .. NumTokens -> Int], NEW a \in 0 .. NumTokens, NEW d \in Int,
         NEW g, g = [f EXCEPT ![a] = @ + d]
  PROVE  SumIn(f) \in Int /\ SumIn(g) = SumIn(f) + d
<1>1. PICK s \in [0 .. NumTokens -> Int] : IsSum(s, f)
  BY SumExists
<1>2. PICK t : t = [n \in 0 .. NumTokens |-> s[n] + IF a <= n THEN d ELSE 0]
  OBVIOUS
<1>3. ASSUME NEW n \in 0 .. NumTokens
      PROVE  t[n] = g[n] + IF n = 0 THEN 0 ELSE t[n - 1]
  <2>1. /\ n \in Int /\ n >= 0 /\ a \in Int /\ a >= 0 /\ s[n] \in Int /\ f[n] \in Int
        /\ s[n] = f[n] + IF n = 0 THEN 0 ELSE s[n - 1]
        /\ g[n] = f[n] + IF n = a THEN d ELSE 0
        /\ t[n] = s[n] + IF a <= n THEN d ELSE 0
    BY <1>1, <1>2, TreasuryConstants DEF IsSum
  <2>2. CASE n = 0
    BY <2>1, <2>2
  <2>3. CASE n # 0
    <3>1. n - 1 \in 0 .. NumTokens
      BY <2>1, <2>3, TreasuryConstants
    <3>2. t[n - 1] = s[n - 1] + (IF a <= n - 1 THEN d ELSE 0) /\ s[n - 1] \in Int
      BY <1>1, <1>2, <3>1
    <3> QED
      BY <2>1, <2>3, <3>2
  <2> QED
    BY <2>2, <2>3
<1>4. IsSum(t, g)
  <2>1. t = [n \in 0 .. NumTokens |-> t[n]]
    BY <1>2
  <2> QED
    BY <1>3, <2>1 DEF IsSum
<1>5. NumTokens \in 0 .. NumTokens /\ a <= NumTokens
  BY TreasuryConstants
<1>6. SumIn(f) = s[NumTokens] /\ SumIn(g) = t[NumTokens]
  BY <1>1, <1>4, SumInIs
<1> QED
  BY <1>1, <1>2, <1>5, <1>6

\* The wallet ValueConserved takes out of a set next, and the totals over the
\* sets of wallets, each from that of the set with one wallet less.
Chosen(S) == CHOOSE w \in S : TRUE

IsTotal(t, h) ==
  t = [S \in SUBSET Wallets |->
         IF S = {} THEN 0 ELSE h[Chosen(S)] + t[S \ {Chosen(S)}]]

\* What ValueConserved computes of the wallets' holdings.
TotalIn(h) ==
  LET total[S \in SUBSET Wallets] ==
        IF S = {} THEN 0
        ELSE LET w == CHOOSE w \in S : TRUE IN h[w] + total[S \ {w}]
  IN  total[Wallets]

\* A set without the wallet that is taken out of it has one element less.
LEMMA OneLess ==
  ASSUME NEW S \in SUBSET Wallets, S # {}
  PROVE  /\ Chosen(S) \in S /\ Chosen(S) \in Wallets
         /\ S \ {Chosen(S)} \in SUBSET Wallets
         /\ Cardinality(S) \in Nat /\ Cardinality(S) >= 1
         /\ Cardinality(S \ {Chosen(S)}) = Cardinality(S) - 1
<1>1. PICK w : w = Chosen(S)
  OBVIOUS
<1>2. w \in S
  BY <1>1 DEF Chosen
<1>3. IsFiniteSet(S)
  BY TreasuryConstants, FS_Subset
<1>4. Cardinality(S) \in Nat /\ Cardinality(S) # 0
  BY <1>3, FS_CardinalityType, FS_EmptySet
<1>5. Cardinality(S \ {w}) = Cardinality(S) - 1
  BY <1>2, <1>3, FS_RemoveElement
<1> QED
  BY <1>1, <1>2, <1>4, <1>5

\* The totals are determined by the wallets' holdings ...
LEMMA TotalsAgree ==
  ASSUME NEW h, NEW s, NEW t, IsTotal(s, h), IsTotal(t, h)
  PROVE  s = t
<1>1. PICK Bad : Bad = {k \in Nat : \E S \in SUBSET Wallets : Cardinality(S) = k /\ s[S] # t[S]}
  OBVIOUS
<1>2. Bad = {}
  <2>1. SUFFICES ASSUME Bad # {} PROVE FALSE
    OBVIOUS
  <2>2. PICK k \in Bad : \A m \in Bad : k <= m
    BY <1>1, <2>1, LeastNumber
  <2>3. PICK S \in SUBSET Wallets : Cardinality(S) = k /\ s[S] # t[S]
    BY <1>1
  <2>4. S # {}
    BY <2>3 DEF IsTotal
  <2>5. PICK w : w = Chosen(S)
    OBVIOUS
  <2>6. S \ {w} \in SUBSET Wallets /\ Cardinality(S \ {w}) = k - 1 /\ k \in Nat /\ k >= 1
    BY <2>3, <2>4, <2>5, OneLess
  <2>7. s[S \ {w}] = t[S \ {w}]
    <3>1. k - 1 \in Nat /\ ~(k <= k - 1)
      BY <2>6
    <3> QED
      BY <1>1, <2>2, <2>6, <3>1
  <2>8. s[S] = h[w] + s[S \ {w}] /\ t[S] = h[w] + t[S \ {w}]
    BY <2>4, <2>5 DEF IsTotal
  <2> QED
    BY <2>3, <2>7, <2>8
<1>3. ASSUME NEW S \in SUBSET Wallets PROVE s[S] = t[S]
  <2>1. Cardinality(S) \in Nat
    BY TreasuryConstants, FS_Subset, FS_CardinalityType
  <2> QED
    BY <1>1, <1>2, <2>1
<1>4. s = [S \in SUBSET Wallets |-> s[S]] /\ t = [S \in SUBSET Wallets |-> t[S]]
  BY DEF IsTotal
<1> QED
  BY <1>3, <1>4

\* ... and there are some: the ones of the sets of less than k wallets are
\* continued to those of k.
LEMMA TotalExists ==
  ASSUME NEW h \in [Wallets -> Int]
  PROVE  \E t \in [SUBSET Wallets -> Int] : IsTotal(t, h)
<1> DEFINE Small(k) == {S \in SUBSET Wallets : Cardinality(S) <= k}
           Upto(k, t) == \A S \in Small(k) :
                           t[S] = IF S = {} THEN 0 ELSE h[Chosen(S)] + t[S \ {Chosen(S)}]
           Bad == {k \in Nat : ~\E t \in [Small(k) -> Int] : Upto(k, t)}
<1>1. \A S \in SUBSET Wallets : Cardinality(S) \in Nat /\ (S = {} <=> Cardinality(S) = 0)
  BY TreasuryConstants, FS_Subset, FS_CardinalityType, FS_EmptySet
<1>2. Bad = {}
  <2>1. SUFFICES ASSUME Bad # {} PROVE FALSE
    OBVIOUS
  <2>2. Bad \subseteq Nat
    OBVIOUS
  <2>3. PICK k \in Bad : \A m \in Bad : k <= m
    <3> HIDE DEF Bad
    <3> QED
      BY <2>1, <2>2, LeastNumber
  <2>4. k \in Nat /\ ~\E t \in [Small(k) -> Int] : Upto(k, t)
    OBVIOUS
  <2>5. CASE k = 0
    <3>1. \A S \in Small(0) : S = {}
      BY <1>1
    <3>2. PICK t : t = [S \in Small(0) |-> 0]
      OBVIOUS
    <3>3. t \in [Small(0) -> Int] /\ Upto(0, t)
      BY <3>1, <3>2
    <3> QED
      BY <2>4, <2>5, <3>3
  <2>6. CASE k # 0
    <3>1. k - 1 \in Nat /\ ~(k <= k - 1)
      BY <2>4, <2>6
    <3>2. PICK s \in [Small(k - 1) -> Int] : Upto(k - 1, s)
      BY <2>3, <3>1
    <3>3. ASSUME NEW S \in Small(k), S # {}
          PROVE  /\ S \ {Chosen(S)} \in Small(k - 1)
                 /\ h[Chosen(S)] \in Int /\ s[S \ {Chosen(S)}] \in Int
      <4>1. Cardinality(S) <= k /\ S \in SUBSET Wallets
        OBVIOUS
      <4>2. PICK w : w = Chosen(S)
        OBVIOUS
      <4>3. /\ w \in Wallets /\ S \ {w} \in SUBSET Wallets
            /\ Cardinality(S) \in Nat /\ Cardinality(S \ {w}) = Cardinality(S) - 1
        BY <3>3, <4>1, <4>2, OneLess
      <4>4. S \ {w} \in Small(k - 1)
        BY <2>4, <4>1, <4>3
      <4> QED
        BY <3>2, <4>2, <4>3, <4>4
    <3>4. PICK t : t = [S \in Small(k) |-> IF S = {} THEN 0
                                           ELSE h[Chosen(S)] + s[S \ {Chosen(S)}]]
      OBVIOUS
    <3>5. t \in [Small(k) -> Int]
      BY <3>3, <3>4
    <3>6. \A S \in Small(k - 1) : S \in Small(k) /\ t[S] = s[S]
      <4>1. \A S \in Small(k - 1) : S \in Small(k)
        BY <1>1, <2>4
      <4> QED
        BY <3>2, <3>4, <4>1
    <3>7. Upto(k, t)
      BY <3>3, <3>4, <3>6
    <3> QED
      BY <2>4, <3>5, <3>7
  <2> QED
    BY <2>5, <2>6
<1>3. PICK n : n = Cardinality(Wallets)
  OBVIOUS
<1>4. Small(n) = SUBSET Wallets /\ n \in Nat
  BY <1>3, TreasuryConstants, FS_CardinalityType, FS_Subset
<1>5. PICK t \in [SUBSET Wallets -> Int] : Upto(n, t)
  BY <1>2, <1>4
<1>6. t = [S \in SUBSET Wallets |-> t[S]]
  OBVIOUS
<1>7. IsTotal(t, h)
  BY <1>4, <1>5, <1>6 DEF IsTotal
<1> QED
  BY <1>7

\* So the recursive definition computes them.
LEMMA TotalInIs ==
  ASSUME NEW h, NEW t, IsTotal(t, h)
  PROVE  TotalIn(h) = t[Wallets]
<1> DEFINE c == CHOOSE c : IsTotal(c, h)
<1>1. IsTotal(c, h)
  OBVIOUS
<1>2. c = t
  BY <1>1, TotalsAgree
<1>3. TotalIn(h) = c[Wallets]
  BY DEF TotalIn, IsTotal, Chosen
<1> QED
  BY <1>2, <1>3

\* A change of what one wallet holds changes the total by as much.
LEMMA TotalChanges ==
  ASSUME NEW h \in [Wallets -> Int], NEW v \in Wallets, NEW d \in Int,
         NEW g, g = [h EXCEPT ![v] = @ + d]
  PROVE  TotalIn(h) \in Int /\ TotalIn(g) = TotalIn(h) + d
<1>1. PICK s \in [SUBSET Wallets -> Int] : IsTotal(s, h)
  BY TotalExists
<1>2. PICK t : t = [S \in SUBSET Wallets |-> s[S] + IF v \in S THEN d ELSE 0]
  OBVIOUS
<1>3. ASSUME NEW S \in SUBSET Wallets
      PROVE  t[S] = IF S = {} THEN 0 ELSE g[Chosen(S)] + t[S \ {Chosen(S)}]
  <2>1. CASE S = {}
    BY <1>1, <1>2, <2>1 DEF IsTotal
  <2>2. CASE S # {}
    <3>1. PICK w : w = Chosen(S)
      OBVIOUS
    <3>2. w \in S /\ w \in Wallets /\ S \ {w} \in SUBSET Wallets
      BY <2>2, <3>1, OneLess
    <3>3. s[S] = h[w] + s[S \ {w}] /\ h[w] \in Int /\ s[S \ {w}] \in Int
      BY <1>1, <2>2, <3>1, <3>2 DEF IsTotal
    <3>4. t[S \ {w}] = s[S \ {w}] + (IF v \in S \ {w} THEN d ELSE 0)
          /\ t[S] = s[S] + (IF v \in S THEN d ELSE 0)
      BY <1>2, <3>2
    <3>5. g[w] = h[w] + (IF w = v THEN d ELSE 0)
      BY <3>2, <3>3
    <3>6. t[S] = g[w] + t[S \ {w}]
      BY <3>2, <3>3, <3>4, <3>5
    <3> QED
      BY <2>2, <3>1, <3>6
  <2> QED
    BY <2>1, <2>2
<1>4. IsTotal(t, g)
  <2>1. t = [S \in SUBSET Wallets |-> t[S]]
    BY <1>2
  <2> QED
    BY <1>3, <2>1 DEF IsTotal
<1>5. TotalIn(h) = s[Wallets] /\ TotalIn(g) = t[Wallets]
  BY <1>1, <1>4, TotalInIs
<1> QED
  BY <1>1, <1>2, <1>5

\* What each wallet holds.
Held == [w \in Wallets |-> SumIn(balance[w])]

\* The property, in these words.
LEMMA ConservedIs ==
  (\A w \in Wallets : SumIn(balance[w]) \in Int) => (ValueConserved <=> TotalIn(Held) = grants * FaucetGrant)
<1> SUFFICES ASSUME \A w \in Wallets : SumIn(balance[w]) \in Int
             PROVE  ValueConserved <=> TotalIn(Held) = grants * FaucetGrant
  OBVIOUS
<1>1. \A w \in Wallets : Holdings(w) = SumIn(balance[w])
  BY DEF Holdings, SumIn
<1>2. PICK h : h = Held
  OBVIOUS
<1>3. h \in [Wallets -> Int] /\ \A w \in Wallets : h[w] = Holdings(w)
  BY <1>1, <1>2 DEF Held
<1> DEFINE Rec(t) == t = [S \in SUBSET Wallets |->
                           IF S = {} THEN 0 ELSE Holdings(Chosen(S)) + t[S \ {Chosen(S)}]]
           c == CHOOSE c : Rec(c)
<1>4. PICK t \in [SUBSET Wallets -> Int] : IsTotal(t, h)
  BY <1>3, TotalExists
<1>5. \A S \in SUBSET Wallets : S # {} => h[Chosen(S)] = Holdings(Chosen(S))
  BY <1>3, OneLess
<1>6. ASSUME NEW u PROVE Rec(u) <=> IsTotal(u, h)
  BY <1>5 DEF IsTotal
<1>7. Rec(t)
  BY <1>4, <1>6
<1>8. Rec(c)
  BY <1>7
<1>9. IsTotal(c, h)
  BY <1>6, <1>8
<1>10. TotalIn(h) = c[Wallets]
  BY <1>9, TotalInIs
<1>11. ValueConserved <=> c[Wallets] = grants * FaucetGrant
  BY DEF ValueConserved, Chosen
<1> QED
  BY <1>2, <1>10, <1>11

\* ... and the same of the state after a step.
LEMMA ConservedNext ==
  ((\A w \in Wallets : SumIn(balance[w]) \in Int) =>
     (ValueConserved <=> TotalIn(Held) = grants * FaucetGrant))'
BY ConservedIs, PTL

\* The balances' sums are numbers.
LEMMA HeldIsNumber ==
  ASSUME RouteTypeOK
  PROVE  /\ Held \in [Wallets -> Int]
         /\ \A w \in Wallets : balance[w] \in [0 .. NumTokens -> Int]
                               /\ SumIn(balance[w]) \in Int
<1>1. ASSUME NEW w \in Wallets
      PROVE  balance[w] \in [0 .. NumTokens -> Int] /\ SumIn(balance[w]) \in Int
  <2>1. balance[w] \in [0 .. NumTokens -> Int]
    BY RequestTypes, TreasuryConstants
  <2>2. PICK g : g = [balance[w] EXCEPT ![0] = @ + 0]
    OBVIOUS
  <2>3. 0 \in 0 .. NumTokens
    BY TreasuryConstants
  <2> QED
    BY <2>1, <2>2, <2>3, SumChanges
<1> QED
  BY <1>1 DEF Held

\* An empty treasury has a total of 0.
LEMMA NothingHeld == RouteInit => ValueConserved
<1> SUFFICES ASSUME RouteInit PROVE ValueConserved
  OBVIOUS
<1>1. PICK z : z = [n \in 0 .. NumTokens |-> 0]
  OBVIOUS
<1>2. NumTokens \in Nat /\ Wallets \in SUBSET Wallets
  BY TreasuryConstants
<1>3. IsSum(z, z)
  <2>1. \A n \in 0 .. NumTokens : z[n] = z[n] + IF n = 0 THEN 0 ELSE z[n - 1]
    BY <1>1, <1>2
  <2> QED
    BY <1>1, <2>1 DEF IsSum
<1>4. SumIn(z) = 0
  BY <1>1, <1>2, <1>3, SumInIs
<1>5. \A w \in Wallets : balance[w] = z
  BY <1>1, TreasuryConstants DEF RouteInit
<1>6. PICK h : h = Held
  OBVIOUS
<1>7. h = [w \in Wallets |-> 0]
  BY <1>4, <1>5, <1>6 DEF Held
<1>8. PICK t : t = [S \in SUBSET Wallets |-> 0]
  OBVIOUS
<1>9. IsTotal(t, h)
  <2>1. ASSUME NEW S \in SUBSET Wallets
        PROVE  t[S] = IF S = {} THEN 0 ELSE h[Chosen(S)] + t[S \ {Chosen(S)}]
    <3>1. t[S] = 0
      BY <1>8
    <3>2. S # {} => h[Chosen(S)] = 0 /\ t[S \ {Chosen(S)}] = 0
      <4>1. PICK w : w = Chosen(S)
        OBVIOUS
      <4>2. S # {} => w \in Wallets /\ S \ {w} \in SUBSET Wallets
        BY <4>1, OneLess
      <4> QED
        BY <1>7, <1>8, <4>1, <4>2
    <3> QED
      BY <3>1, <3>2
  <2> QED
    BY <1>8, <2>1 DEF IsTotal
<1>10. TotalIn(Held) = 0
  BY <1>2, <1>6, <1>8, <1>9, TotalInIs
<1>11. grants * FaucetGrant = 0
  BY TreasuryConstants DEF RouteInit
<1> QED
  BY <1>4, <1>5, <1>10, <1>11, ConservedIs

\* Balances are numbers also after one of them was changed.
LEMMA AmountAdded ==
  ASSUME NEW f \in [0 .. NumTokens -> Int], NEW a \in 0 .. NumTokens, NEW d \in Int
  PROVE  [f EXCEPT ![a] = @ + d] \in [0 .. NumTokens -> Int]
<1>1. f[a] + d \in Int
  OBVIOUS
<1> QED
  BY <1>1

\* The transaction takes from one asset of the wallet what it gives to another.
LEMMA TransferConserves ==
  ASSUME RouteTypeOK, ValueConserved, NEW r \in Requests, Transfer(r)
  PROVE  ValueConserved'
<1>1. PICK v, p, q, n : v = swap[r].wallet /\ p = swap[r].pay /\ q = swap[r].receive
                        /\ n = swap[r].amount
  OBVIOUS
<1>2. v \in Wallets /\ p \in 0 .. NumTokens /\ q \in 0 .. NumTokens /\ n \in Int
  BY <1>1, SwapTypes, TreasuryConstants DEF Transfer
<1>3. balance \in [Wallets -> [0 .. NumTokens -> Int]] /\ grants' = grants
  BY RequestTypes, TreasuryConstants DEF Transfer
<1>4. PICK debited : debited = [balance EXCEPT ![v][p] = @ + (-n)]
  OBVIOUS
<1>5. balance' = [debited EXCEPT ![v][q] = @ + n]
  BY <1>1, <1>4 DEF Transfer, Credit
<1>6. /\ debited[v] = [balance[v] EXCEPT ![p] = @ + (-n)]
      /\ debited[v] \in [0 .. NumTokens -> Int] /\ -n \in Int
      /\ debited \in [Wallets -> [0 .. NumTokens -> Int]]
      /\ \A w \in Wallets : w # v => debited[w] = balance[w]
  <2>1. debited \in [Wallets -> [0 .. NumTokens -> Int]] /\ -n \in Int
    <3>1. PICK m \in Int : m = -n
      BY <1>2
    <3>2. PICK row : row = [balance[v] EXCEPT ![p] = @ + m]
      OBVIOUS
    <3>3. balance[v] \in [0 .. NumTokens -> Int]
      BY <1>2, <1>3
    <3>4. row \in [0 .. NumTokens -> Int]
      BY <1>2, <3>2, <3>3, AmountAdded
    <3>5. debited = [balance EXCEPT ![v] = row]
      BY <1>4, <3>1, <3>2
    <3>6. debited \in [Wallets -> [0 .. NumTokens -> Int]]
      BY <1>2, <1>3, <3>4, <3>5
    <3> QED
      BY <3>1, <3>6
  <2>2. /\ debited[v] = [balance[v] EXCEPT ![p] = @ + (-n)]
        /\ \A w \in Wallets : w # v => debited[w] = balance[w]
    BY <1>2, <1>3, <1>4
  <2> QED
    BY <1>2, <2>1, <2>2
<1>7. /\ balance'[v] = [debited[v] EXCEPT ![q] = @ + n]
      /\ \A w \in Wallets : w # v => balance'[w] = balance[w]
  BY <1>2, <1>5, <1>6
<1>8. balance[v] \in [0 .. NumTokens -> Int] /\ SumIn(balance[v]) \in Int
  BY <1>2, HeldIsNumber
<1>9. SumIn(debited[v]) = SumIn(balance[v]) + (-n)
  BY <1>2, <1>6, <1>8, SumChanges
<1>10. SumIn(balance'[v]) = SumIn(debited[v]) + n
  <2>1. PICK f, g : f = debited[v] /\ g = balance'[v]
    OBVIOUS
  <2>2. f \in [0 .. NumTokens -> Int] /\ g = [f EXCEPT ![q] = @ + n]
    BY <1>6, <1>7, <2>1
  <2>3. SumIn(g) = SumIn(f) + n
    BY <1>2, <2>2, SumChanges
  <2> QED
    BY <2>1, <2>3
<1>11. \A w \in Wallets : SumIn(balance'[w]) = SumIn(balance[w])
  BY <1>2, <1>7, <1>8, <1>9, <1>10
<1>12. Held' = Held
  BY <1>11 DEF Held
<1>13. TotalIn(Held) = grants * FaucetGrant
  BY HeldIsNumber, ConservedIs
<1>14. (\A w \in Wallets : SumIn(balance'[w]) \in Int) /\ TotalIn(Held)' = TotalIn(Held)
  BY <1>11, <1>12, HeldIsNumber DEF TotalIn
<1> QED
  BY <1>3, <1>13, <1>14, ConservedNext

\* The faucet grants one wallet its amount once more.
LEMMA FaucetConserves ==
  ASSUME RouteTypeOK, ValueConserved, NEW v \in Wallets, NEW a \in Assets, Faucet(v, a)
  PROVE  ValueConserved'
<1>1. /\ a \in 0 .. NumTokens /\ FaucetGrant \in Int
      /\ grants \in Int /\ grants' = grants + 1
      /\ balance' = [balance EXCEPT ![v][a] = @ + FaucetGrant]
  BY TreasuryConstants, RouteLockAssumption DEF Faucet, RouteTypeOK
<1>2. balance \in [Wallets -> [0 .. NumTokens -> Int]]
  BY RequestTypes, TreasuryConstants
<1>3. /\ balance'[v] = [balance[v] EXCEPT ![a] = @ + FaucetGrant]
      /\ balance[v] \in [0 .. NumTokens -> Int]
      /\ \A w \in Wallets : w # v => balance'[w] = balance[w]
  BY <1>1, <1>2
<1>4. SumIn(balance[v]) \in Int /\ SumIn(balance'[v]) = SumIn(balance[v]) + FaucetGrant
  <2>1. PICK f, g : f = balance[v] /\ g = balance'[v]
    OBVIOUS
  <2>2. f \in [0 .. NumTokens -> Int] /\ g = [f EXCEPT ![a] = @ + FaucetGrant]
    BY <1>3, <2>1
  <2>3. SumIn(f) \in Int /\ SumIn(g) = SumIn(f) + FaucetGrant
    BY <1>1, <2>2, SumChanges
  <2> QED
    BY <2>1, <2>3
<1>5. \A w \in Wallets : SumIn(balance[w]) \in Int /\ SumIn(balance'[w]) \in Int
  BY <1>1, <1>3, <1>4, HeldIsNumber
<1>6. PICK h, g : h = Held /\ g = Held'
  OBVIOUS
<1>7. h \in [Wallets -> Int] /\ g = [h EXCEPT ![v] = @ + FaucetGrant]
  BY <1>3, <1>4, <1>5, <1>6 DEF Held
<1>8. TotalIn(h) \in Int /\ TotalIn(g) = TotalIn(h) + FaucetGrant
  BY <1>1, <1>7, TotalChanges
<1>9. TotalIn(h) = grants * FaucetGrant
  BY <1>5, <1>6, ConservedIs
<1>10. grants' * FaucetGrant = grants * FaucetGrant + FaucetGrant
  BY <1>1
<1>11. TotalIn(Held)' = TotalIn(g)
  BY <1>6 DEF TotalIn
<1> QED
  BY <1>5, <1>8, <1>9, <1>10, <1>11, ConservedNext

\* Whatever fails and whoever disconnects, for any number of wallets, assets and
\* requests: swaps move value, only the faucet makes it.
THEOREM ValueIsConserved == RouteLockSpec => []ValueConserved
<1>1. RouteLockInit => ValueConserved
  BY NothingHeld DEF RouteLockInit
<1>2. RouteInv /\ ValueConserved /\ [RouteLockNext]_routeLockVars
        => ValueConserved'
  <2> SUFFICES ASSUME RouteInv, ValueConserved, [RouteLockNext]_routeLockVars
               PROVE  ValueConserved'
    OBVIOUS
  <2>1. ASSUME UNCHANGED <<balance, grants>> PROVE ValueConserved'
    BY <2>1 DEF ValueConserved, Holdings
  <2>2. \/ UNCHANGED <<balance, grants>>
        \/ \E r \in Requests : Transfer(r)
        \/ \E w \in Wallets, a \in Assets : Faucet(w, a)
    BY DEF RouteLockNext, RouteNext, RequestStep, Ask, Quote, TakeLock, CheckBalance,
       Answer, ExpireLock, Abort, routeLockVars, routeVars
  <2> QED
    BY <2>1, <2>2, TransferConserves, FaucetConserves DEF RouteInv
<1> QED
  BY <1>1, <1>2, RouteInvariant, PTL DEF RouteLockSpec
=============================================================================
