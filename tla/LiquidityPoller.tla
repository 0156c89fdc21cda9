-------------------------- MODULE LiquidityPoller --------------------------
(***************************************************************************)
(* start_liquidity_poller (src/src/omnichain/liquidity_poller.rs): a task  *)
(* that asks the Kasplex indexer for one token after the other and writes  *)
(* each answer to a Redis key that expires by itself.                      *)
(*                                                                         *)
(* Time passes in units; a poll of one token takes as long as the indexer  *)
(* takes to answer, up to the client's timeout.  Redis answers at once or  *)
(* with an error.                                                          *)
(***************************************************************************)
EXTENDS Integers

CONSTANTS
  NumTokens,      \* length of target_tokens
  Period,         \* of tick_interval (5 s)
  PollTimeout,    \* timeout of the HTTP client (3 s)
  DepthTtl,       \* EX of the depth key (15 s)
  IndexerDepths,  \* depths the indexer may report
  UnpricedDepth   \* written when the answer has no mintTotal (1_000_000)

Tokens == 1 .. NumTokens

ASSUME LiquidityPollerAssumption ==
  /\ NumTokens \in Nat \ {0}
  /\ Period \in Nat \ {0} /\ PollTimeout \in Nat \ {0}
  /\ DepthTtl \in Nat /\ DepthTtl > Period + NumTokens * PollTimeout
  /\ IndexerDepths \subseteq Nat /\ UnpricedDepth \in Nat

VARIABLES
  pollAt,     \* the token that is being polled; 0: the task waits for a tick
  reqAge,     \* how long the request for it has been out
  untilPoll,  \* time until tick_interval's next deadline; negative when late
  depth,      \* value of the depth key of each token's pair with KAS
  ttl,        \* how long that key still lives; 0: there is no key
  answered    \* history: tokens whose last poll succeeded

pollerVars == <<pollAt, reqAge, untilPoll, depth, ttl, answered>>

NoDepth == -1

PollerTypeOK ==
  /\ pollAt \in 0 .. NumTokens
  /\ reqAge \in 0 .. PollTimeout
  /\ untilPoll \in -(NumTokens * PollTimeout) .. Period
  /\ depth \in [Tokens -> IndexerDepths \cup {UnpricedDepth, NoDepth}]
  /\ ttl \in [Tokens -> 0 .. DepthTtl]
  /\ answered \subseteq Tokens

PollerInit ==
  /\ pollAt = 0
  /\ reqAge = 0
  /\ untilPoll = 0              \* the interval's first tick is immediate
  /\ depth = [t \in Tokens |-> NoDepth]
  /\ ttl = [t \in Tokens |-> 0]
  /\ answered = {}

---------------------------------------------------------------------------
\* The next deadline is a multiple of the period after the last one: ticks
\* missed during a long round are skipped (MissedTickBehavior::Skip).
StartRound ==
  /\ pollAt = 0 /\ untilPoll <= 0
  /\ pollAt' = 1
  /\ untilPoll' = Period - ((-untilPoll) % Period)
  /\ UNCHANGED <<reqAge, depth, ttl, answered>>

NextToken ==
  /\ pollAt' = IF pollAt = NumTokens THEN 0 ELSE pollAt + 1
  /\ reqAge' = 0

\* The indexer answers in time and the SET with EX succeeds.
StoreDepth(d) ==
  /\ pollAt # 0
  /\ depth' = [depth EXCEPT ![pollAt] = d]
  /\ ttl' = [ttl EXCEPT ![pollAt] = DepthTtl]
  /\ answered' = answered \cup {pollAt}
  /\ NextToken
  /\ UNCHANGED untilPoll

\* Mutant: the first failure ends the round.
MissToken_EndsRound ==
  /\ pollAt # 0
  /\ answered' = answered \ {pollAt}
  /\ pollAt' = 0 /\ reqAge' = 0
  /\ UNCHANGED <<untilPoll, depth, ttl>>

\* The request fails or times out, the answer is no JSON, the pool has no
\* connection, or the SET fails: the loop goes on with the next token.
MissToken ==
  /\ pollAt # 0
  /\ answered' = answered \ {pollAt}
  /\ NextToken
  /\ UNCHANGED <<untilPoll, depth, ttl>>

\* A unit of time.  A due tick is taken, and a request given up, before more
\* time passes; Redis drops the keys whose time is over.
PassTime ==
  /\ IF pollAt = 0 THEN untilPoll > 0 ELSE reqAge < PollTimeout
  /\ reqAge' = IF pollAt = 0 THEN 0 ELSE reqAge + 1
  /\ untilPoll' = untilPoll - 1
  /\ ttl' = [t \in Tokens |-> IF ttl[t] = 0 THEN 0 ELSE ttl[t] - 1]
  /\ depth' = [t \in Tokens |-> IF ttl'[t] = 0 THEN NoDepth ELSE depth[t]]
  /\ UNCHANGED <<pollAt, answered>>

PollerNext ==
  \/ StartRound
  \/ \E d \in IndexerDepths \cup {UnpricedDepth} : StoreDepth(d)
  \/ MissToken
  \/ PassTime

PollerSpec == PollerInit /\ [][PollerNext]_pollerVars

---------------------------------------------------------------------------
\* A pair whose last poll succeeded has its depth in Redis, with the value of
\* that poll still to be used, however slow the indexer is with the other
\* tokens and whatever fails with them: the key's 15 s outlive the longest
\* time between two polls of one token.
DepthHeld ==
  \A t \in answered : ttl[t] > 0 /\ depth[t] # NoDepth
=============================================================================
