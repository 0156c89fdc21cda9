----------------------------- MODULE RouteLock -----------------------------
(***************************************************************************)
(* The smart order router's one HTTP call, POST /v1/sor/lock: the handler  *)
(* (src/src/api.rs), request_route_lock (src/src/omnichain/router.rs) and  *)
(* the provider's execute_rebalance (mock.rs, live.rs), beside the poller  *)
(* whose depth keys the router reads.                                      *)
(*                                                                         *)
(* A request is a task that stops at every await: between two of its Redis *)
(* commands other requests run theirs.  It can fail at any of them, and    *)
(* its client may disconnect, which drops the task where it stands.        *)
(***************************************************************************)
EXTENDS LiquidityPoller, FiniteSets

CONSTANTS
  Requests,      \* requests a run may see
  Swaps,         \* what a request may ask for
  Wallets,
  RouterDepth,   \* depth assumed when there is no key (500_000)
  FaucetGrant,   \* amount of one call of trigger_faucet
  MaxGrants      \* bound of the model on those calls

KAS == 0
Assets == {KAS} \cup Tokens

\* Slippage is in percent.  Amounts are positive (the handler does not check).
ASSUME RouteLockAssumption ==
  /\ Swaps \subseteq [wallet : Wallets, pay : Assets, receive : Assets,
                      amount : Nat \ {0}, slippage : Nat]
  /\ IsFiniteSet(Wallets)
  /\ RouterDepth \in Nat
  /\ FaucetGrant \in Nat /\ MaxGrants \in Nat

VARIABLES
  mode,      \* the provider initialize_provider chose
  phase,     \* where each request's task stands
  swap,      \* what it asked for
  lock,      \* requests whose lock key is in Redis
  balance,   \* the treasury hash of each wallet
  grants,    \* how often the faucet was used
  moved,     \* history: requests whose transfer Redis executed
  overtaken  \* history: requests whose checked balance another one debited

routeVars == <<mode, phase, swap, lock, balance, grants, moved, overtaken>>
routeLockVars == <<pollerVars, routeVars>>

NoSwap == [wallet |-> "none"]

Underway == {"asked", "quoted", "locked", "checked", "moved"}
Over     == {"settled", "refused", "aborted"}

RouteTypeOK ==
  /\ PollerTypeOK
  /\ mode \in {"mock", "live"}
  /\ phase \in [Requests -> {"new"} \cup Underway \cup Over]
  /\ swap \in [Requests -> Swaps \cup {NoSwap}]
  /\ \A r \in Requests : swap[r] = NoSwap <=> phase[r] = "new"
  /\ lock \subseteq {r \in Requests : phase[r] \notin {"new", "asked", "quoted"}}
  /\ balance \in [Wallets -> [Assets -> Int]]
  /\ grants \in 0 .. MaxGrants
  /\ moved \subseteq Requests /\ overtaken \subseteq Requests
  /\ mode = "live" => \A r \in Requests : phase[r] \notin {"locked", "checked", "moved"}

RouteInit ==
  /\ mode \in {"mock", "live"}
  /\ phase = [r \in Requests |-> "new"]
  /\ swap = [r \in Requests |-> NoSwap]
  /\ lock = {}
  /\ balance = [w \in Wallets |-> [a \in Assets |-> 0]]
  /\ grants = 0
  /\ moved = {} /\ overtaken = {}

Become(r, p) == phase' = [phase EXCEPT ![r] = p]

---------------------------------------------------------------------------
Ask(r, s) ==
  /\ phase[r] = "new"
  /\ Become(r, "asked")
  /\ swap' = [swap EXCEPT ![r] = s]
  /\ UNCHANGED <<pollerVars, mode, lock, balance, grants, moved, overtaken>>

\* GET of the pair's depth key.  The poller keeps keys for KAS_<token> only;
\* any other pair, the reverse one too, is routed at the default.
QuotedDepth(s) ==
  IF s.pay = KAS /\ s.receive \in Tokens /\ ttl[s.receive] > 0
  THEN depth[s.receive] ELSE RouterDepth

Affordable(s, d) == d >= s.amount /\ s.amount * 100 <= s.slippage * d

Quote(r) ==
  /\ phase[r] = "asked"
  /\ Become(r, IF Affordable(swap[r], QuotedDepth(swap[r]))
               THEN "quoted" ELSE "refused")
  /\ UNCHANGED <<pollerVars, mode, swap, lock, balance, grants, moved, overtaken>>

\* Mutant: the live provider goes on to move the pool's own balances.
TakeLock_LiveMoves(r) ==
  /\ phase[r] = "quoted"
  /\ lock' = lock \cup {r}
  /\ Become(r, "locked")
  /\ UNCHANGED <<pollerVars, mode, swap, balance, grants, moved, overtaken>>

\* The live provider answers with a UUID at once; the mock provider sleeps first.
AfterLock == IF mode = "live" THEN "settled" ELSE "locked"

\* SET NX EX 15 on a key with a fresh UUID: it is never taken already.
TakeLock(r) ==
  /\ phase[r] = "quoted"
  /\ lock' = lock \cup {r}
  /\ Become(r, AfterLock)
  /\ UNCHANGED <<pollerVars, mode, swap, balance, grants, moved, overtaken>>

\* Mutant: the lock is set without EX.
ExpireLock_Never(r) == r \in lock /\ FALSE /\ UNCHANGED routeLockVars

\* The key's 15 s are over; nothing else ever removes it.
ExpireLock(r) ==
  /\ r \in lock
  /\ lock' = lock \ {r}
  /\ UNCHANGED <<pollerVars, mode, phase, swap, balance, grants, moved, overtaken>>

\* HGET; a field that is not there counts as 0.
Available(s) == balance[s.wallet][s.pay]

\* execute_rebalance of the mock provider, after its sleep: HGET and compare.
CheckBalance(r) ==
  /\ phase[r] = "locked"
  /\ Become(r, IF Available(swap[r]) < swap[r].amount THEN "refused" ELSE "checked")
  /\ UNCHANGED <<pollerVars, mode, swap, lock, balance, grants, moved, overtaken>>

Credit(b, s, a, amount) == [b EXCEPT ![s.wallet][a] = @ + amount]

\* Those whose balance check the transfer of r makes stale.
OvertakenBy(r) ==
  {q \in Requests \ {r} : /\ phase[q] = "checked"
                          /\ swap[q].wallet = swap[r].wallet
                          /\ swap[q].pay = swap[r].pay}

\* Mutant: without MULTI the second command may be lost after the first.
Transfer_NotAtomic(r) ==
  LET s == swap[r] debited == Credit(balance, s, s.pay, -s.amount) IN
  /\ phase[r] = "checked"
  /\ balance' \in {debited, Credit(debited, s, s.receive, s.amount)}
  /\ moved' = moved \cup {r}
  /\ overtaken' = overtaken \cup OvertakenBy(r)
  /\ Become(r, "moved")
  /\ UNCHANGED <<pollerVars, mode, swap, lock, grants>>

\* Redis executes the MULTI/EXEC of both HINCRBYFLOATs.
Transfer(r) ==
  LET s == swap[r] IN
  /\ phase[r] = "checked"
  /\ balance' = Credit(Credit(balance, s, s.pay, -s.amount), s, s.receive, s.amount)
  /\ moved' = moved \cup {r}
  /\ overtaken' = overtaken \cup OvertakenBy(r)
  /\ Become(r, "moved")
  /\ UNCHANGED <<pollerVars, mode, swap, lock, grants>>

Answer(r) ==
  /\ phase[r] = "moved"
  /\ Become(r, "settled")
  /\ UNCHANGED <<pollerVars, mode, swap, lock, balance, grants, moved, overtaken>>

\* The task ends at the await it stands at: a pool or Redis error (422 to the
\* client), or the client disconnects and the server drops the handler.  At
\* "moved" only the reply of EXEC is lost, the transfer has happened.
Abort(r) ==
  /\ phase[r] \in Underway
  /\ Become(r, "aborted")
  /\ UNCHANGED <<pollerVars, mode, swap, lock, balance, grants, moved, overtaken>>

\* trigger_faucet, refused by the live provider.
Faucet(w, a) ==
  /\ mode = "mock" /\ grants < MaxGrants
  /\ grants' = grants + 1
  /\ balance' = [balance EXCEPT ![w][a] = @ + FaucetGrant]
  /\ UNCHANGED <<pollerVars, mode, phase, swap, lock, moved, overtaken>>

---------------------------------------------------------------------------
RequestStep(r) ==
  Quote(r) \/ TakeLock(r) \/ CheckBalance(r) \/ Transfer(r) \/ Answer(r)

RouteNext ==
  \/ \E r \in Requests :
       \/ \E s \in Swaps : Ask(r, s)
       \/ RequestStep(r)
       \/ ExpireLock(r)
       \/ Abort(r)
  \/ \E w \in Wallets, a \in Assets : Faucet(w, a)

RouteLockInit == PollerInit /\ RouteInit
RouteLockNext == RouteNext \/ (PollerNext /\ UNCHANGED routeVars)

\* Redis and the server's runtime answer; keys with a TTL are dropped.
RouteLockSpec ==
  /\ RouteLockInit /\ [][RouteLockNext]_routeLockVars
  /\ \A r \in Requests : WF_routeLockVars(RequestStep(r))
                      /\ WF_routeLockVars(ExpireLock(r))

---------------------------------------------------------------------------
\* What the wallet has of all assets together.
Holdings(w) ==
  LET sum[n \in 0 .. NumTokens] ==
        balance[w][n] + IF n = 0 THEN 0 ELSE sum[n - 1]
  IN  sum[NumTokens]

\* Whatever fails and whoever disconnects, a swap takes from one asset what it
\* gives to another: the treasury as a whole grows by the faucet's grants only.
ValueConserved ==
  LET total[S \in SUBSET Wallets] ==
        IF S = {} THEN 0
        ELSE LET w == CHOOSE w \in S : TRUE IN Holdings(w) + total[S \ {w}]
  IN  total[Wallets] = grants * FaucetGrant

\* Every request is answered, dropped or refused in the end and leaves no lock
\* behind, also when its client disconnected while it held one.
SettlesUnlocked ==
  \A r \in Requests : phase[r] = "asked" ~> (phase[r] \in Over /\ r \notin lock)

SamePair(q, r) == swap[q].pay = swap[r].pay /\ swap[q].receive = swap[r].receive

\* "Ephemeral Mutual Exclusion (Mutex) Lock" (src/src/omnichain/router.rs:51):
\* while the lock of one request for a pair is in place, a second request for
\* that pair is bounced, so no two of them get as far as a transfer.
LockExcludes ==
  \A q, r \in lock \cap moved : q # r => ~SamePair(q, r)
=============================================================================
