---------------------------- MODULE Connections ----------------------------
(***************************************************************************)
(* The listeners of the three tiers and the connections they hand to tasks *)
(* (src/src/stratum_tcp/mod.rs, started from src/src/main.rs): slots,      *)
(* connection ids and extranonces, and the difficulty a connection and its *)
(* miner agree on while messages travel both ways.                         *)
(*                                                                         *)
(* Only the miner of one connection, Watched, is modelled with its         *)
(* messages; connections do not interact but through slots and ids.  What  *)
(* a retarget decides is in VarDiff; here it may go either way at any time. *)
(***************************************************************************)
EXTENDS Integers, Sequences, FiniteSets

CONSTANTS
  Tiers,       \* one listener each
  LastTier,    \* the one main waits for
  Slots,       \* connections a tier holds at most (5000)
  ExtraSpace,  \* number of different extranonces (65536)
  NonceSpace,  \* nonces of at most 12 hex digits
  StartDiff,   \* clamp_to_power_of_2(difficulty) of each tier
  MinDiff,     \* clamp_to_power_of_2(config.min_share_diff)
  MaxDiff,     \* bound of the model on the difficulty
  NetworkDiff, \* of a network block
  MaxConns,    \* bound of the model on connections
  MaxInFlight, \* bound of the model on messages of each direction
  Watched      \* the connection whose miner is modelled

Ids   == 0 .. MaxConns - 1
Diffs == 1 .. MaxDiff

ASSUME ConnectionsAssumption ==
  /\ LastTier \in Tiers /\ IsFiniteSet(Tiers)
  /\ Slots \in Nat \ {0} /\ ExtraSpace \in Nat \ {0} /\ NonceSpace \in Nat \ {0}
  /\ MaxDiff \in Nat \ {0} /\ MinDiff \in Diffs
  /\ StartDiff \in [Tiers -> Diffs] /\ NetworkDiff \in Nat
  /\ MaxConns \in Nat \ {0} /\ MaxInFlight \in Nat \ {0} /\ Watched \in Ids

VARIABLES
  listener,  \* where each tier's accept loop stands
  free,      \* permits left in each tier's semaphore
  spawned,   \* accepted connections whose task has not run yet
  nextId,    \* WORKER_ID_COUNTER
  conn,      \* open connections: their tier and extranonce1
  mining,    \* the watched connection is past its handshake
  current_diff,
  toMiner,   \* mining.set_difficulty messages under way
  minerDiff, \* difficulty the miner works at; 0 before the first message
  toPool,    \* submissions under way
  verdict    \* history: what became of the last submission

listenVars == <<listener, free, spawned, nextId, conn>>
linkVars   == <<mining, current_diff, toMiner, minerDiff, toPool, verdict>>
connVars   == <<listenVars, linkVars>>

Closed == [tier |-> 0]
Open   == {c \in Ids : conn[c] # Closed}
OpenIn(t) == {c \in Open : conn[c].tier = t}

\* `worked' is the difficulty the miner worked at, `quality' the largest one
\* its hash meets, `raced' whether the difficulty was moving meanwhile.
Submission == [worked : Diffs, quality : Nat, raced : BOOLEAN]

Verdict(kind, d) == [kind |-> kind, diff |-> d]
NoVerdict == Verdict("none", 0)

ConnectionsTypeOK ==
  /\ listener \in [Tiers -> {"acquire", "accept", "ended"}]
  /\ free \in [Tiers -> 0 .. Slots]
  /\ spawned \in [Tiers -> 0 .. Slots]
  /\ nextId \in 0 .. MaxConns
  /\ conn \in [Ids -> {Closed} \cup [tier : Tiers, extra : 0 .. ExtraSpace - 1]]
  /\ \A c \in Open : c < nextId
  /\ mining => Watched \in Open
  /\ current_diff \in Diffs /\ minerDiff \in 0 .. MaxDiff
  /\ toMiner \in Seq(Diffs) /\ Len(toMiner) <= MaxInFlight
  /\ toPool \in Seq(Submission) /\ Len(toPool) <= MaxInFlight
  /\ mining /\ minerDiff = 0 => toMiner # <<>>
  /\ verdict \in [kind : {"none", "stale", "block", "share", "invalid"},
                  diff : 0 .. MaxDiff]

LinkIdle(d) ==
  /\ mining' = FALSE /\ current_diff' = d
  /\ toMiner' = <<>> /\ minerDiff' = 0 /\ toPool' = <<>> /\ verdict' = NoVerdict

ConnectionsInit ==
  /\ listener = [t \in Tiers |-> "acquire"]
  /\ free = [t \in Tiers |-> Slots]
  /\ spawned = [t \in Tiers |-> 0]
  /\ nextId = 0
  /\ conn = [c \in Ids |-> Closed]
  /\ mining = FALSE /\ current_diff = 1
  /\ toMiner = <<>> /\ minerDiff = 0 /\ toPool = <<>> /\ verdict = NoVerdict

---------------------------------------------------------------------------
(* The accept loop.                                                        *)

\* acquire_owned().await: a slot first, then a connection.
AcquireSlot(t) ==
  /\ listener[t] = "acquire" /\ free[t] > 0
  /\ free' = [free EXCEPT ![t] = @ - 1]
  /\ listener' = [listener EXCEPT ![t] = "accept"]
  /\ UNCHANGED <<spawned, nextId, conn, linkVars>>

\* Mutant: the permit is dropped at the end of the loop's turn, not by the task.
Accept_KeepsPermit(t) ==
  /\ listener[t] = "accept"
  /\ listener' = [listener EXCEPT ![t] = "acquire"]
  /\ spawned' = [spawned EXCEPT ![t] = @ + 1]
  /\ free' = [free EXCEPT ![t] = @ + 1]
  /\ UNCHANGED <<nextId, conn, linkVars>>

\* A client is there: the permit moves into the task that is spawned for it.
Accept(t) ==
  /\ listener[t] = "accept"
  /\ listener' = [listener EXCEPT ![t] = "acquire"]
  /\ spawned' = [spawned EXCEPT ![t] = @ + 1]
  /\ UNCHANGED <<free, nextId, conn, linkVars>>

\* accept() fails and the loop returns: nothing starts the tier again.  Its
\* connections go on, but main waits for the last tier and ends with it, and
\* the process ends with main.
AcceptFails(t) ==
  /\ listener[t] = "accept"
  /\ IF t = LastTier
     THEN /\ listener' = [u \in Tiers |-> "ended"]
          /\ free' = [u \in Tiers |-> Slots]
          /\ spawned' = [u \in Tiers |-> 0]
          /\ conn' = [c \in Ids |-> Closed]
          /\ LinkIdle(1)
     ELSE /\ listener' = [listener EXCEPT ![t] = "ended"]
          /\ free' = [free EXCEPT ![t] = @ + 1]
          /\ UNCHANGED <<spawned, conn, linkVars>>
  /\ UNCHANGED nextId

---------------------------------------------------------------------------
(* Connections.                                                            *)

\* Mutant: numbered by the connections that are open.
Extranonce_OfOpen(id) == Cardinality(Open) % ExtraSpace

\* conn_id & 0xFFFF
Extranonce(id) == id % ExtraSpace

\* The task takes the next id, whichever tier it belongs to.
StartConnection(t) ==
  /\ spawned[t] > 0 /\ nextId < MaxConns
  /\ spawned' = [spawned EXCEPT ![t] = @ - 1]
  /\ nextId' = nextId + 1
  /\ conn' = [conn EXCEPT ![nextId] = [tier |-> t, extra |-> Extranonce(nextId)]]
  /\ IF nextId = Watched THEN LinkIdle(StartDiff[t]) ELSE UNCHANGED linkVars
  /\ UNCHANGED <<listener, free>>

\* EOF, a line too long or a failed write: the task returns, its permit with it.
EndConnection(c) ==
  /\ c \in Open
  /\ conn' = [conn EXCEPT ![c] = Closed]
  /\ free' = [free EXCEPT ![conn[c].tier] = @ + 1]
  /\ IF c = Watched THEN LinkIdle(1) ELSE UNCHANGED linkVars
  /\ UNCHANGED <<listener, spawned, nextId>>

---------------------------------------------------------------------------
(* The watched connection and its miner.                                   *)

\* Mutant: the first difficulty is not sent.
StartMining_Silent ==
  /\ Watched \in Open /\ ~mining
  /\ mining' = TRUE
  /\ UNCHANGED <<listenVars, current_diff, toMiner, minerDiff, toPool, verdict>>

\* Authorized: the difficulty is sent, then the select loop starts.
StartMining ==
  /\ Watched \in Open /\ ~mining
  /\ mining' = TRUE
  /\ toMiner' = Append(toMiner, current_diff)
  /\ UNCHANGED <<listenVars, current_diff, minerDiff, toPool, verdict>>

\* The miner applies the oldest message it has not applied yet.
ApplyDifficulty ==
  /\ toMiner # <<>>
  /\ minerDiff' = Head(toMiner) /\ toMiner' = Tail(toMiner)
  /\ UNCHANGED <<listenVars, mining, current_diff, toPool, verdict>>

SubmitShare(q) ==
  /\ mining /\ minerDiff > 0 /\ Len(toPool) < MaxInFlight
  /\ toPool' = Append(toPool, [worked |-> minerDiff, quality |-> q,
                               raced |-> toMiner # <<>>])
  /\ UNCHANGED <<listenVars, mining, current_diff, toMiner, minerDiff, verdict>>

Halved  == IF current_diff \div 2 >= MinDiff THEN current_diff \div 2 ELSE MinDiff
Doubled == 2 * current_diff

\* Mutant: the miner is told of a higher difficulty only.
Retarget_RaiseOnly(d) ==
  /\ mining /\ d # current_diff /\ d <= MaxDiff /\ Len(toMiner) < MaxInFlight
  /\ current_diff' = d
  /\ toMiner' = IF d > current_diff THEN Append(toMiner, d) ELSE toMiner
  /\ toPool' = [i \in DOMAIN toPool |-> [toPool[i] EXCEPT !.raced = TRUE]]
  /\ UNCHANGED <<listenVars, mining, minerDiff, verdict>>

\* A retarget that moves the difficulty tells the miner at once.
Retarget(d) ==
  /\ mining /\ d # current_diff /\ d <= MaxDiff /\ Len(toMiner) < MaxInFlight
  /\ current_diff' = d
  /\ toMiner' = Append(toMiner, d)
  /\ toPool' = [i \in DOMAIN toPool |-> [toPool[i] EXCEPT !.raced = TRUE]]
  /\ UNCHANGED <<listenVars, mining, minerDiff, verdict>>

\* verify_share at the difficulty now in force.  A network block is handed to
\* the uplink and is no share; `known' says whether the job is still there.
Verified(s, known) ==
  IF ~known THEN Verdict("stale", 0)
  ELSE IF s.quality >= NetworkDiff THEN Verdict("block", 0)
  ELSE IF s.quality >= current_diff THEN Verdict("share", current_diff)
  ELSE Verdict("invalid", 0)

\* The miner is answered `true' in every case.
ServeSubmission(known) ==
  /\ mining /\ toPool # <<>>
  /\ verdict' = Verified(Head(toPool), known)
  /\ toPool' = Tail(toPool)
  /\ UNCHANGED <<listenVars, mining, current_diff, toMiner, minerDiff>>

---------------------------------------------------------------------------
WatchedStep ==
  \/ StartMining
  \/ ApplyDifficulty
  \/ \E q \in 1 .. NetworkDiff : SubmitShare(q)
  \/ \E d \in {Halved, Doubled} : Retarget(d)
  \/ \E known \in BOOLEAN : ServeSubmission(known)

ConnectionsNext ==
  \/ \E t \in Tiers : AcquireSlot(t) \/ Accept(t) \/ AcceptFails(t) \/ StartConnection(t)
  \/ \E c \in Ids : EndConnection(c)
  \/ WatchedStep

ConnectionsSpec == ConnectionsInit /\ [][ConnectionsNext]_connVars

---------------------------------------------------------------------------
\* Every permit is in the semaphore, with the accept loop or with one
\* connection, whatever ends connections and listeners: a tier never holds more
\* connections than it has slots, and no slot is lost.
SlotsRespected ==
  \A t \in Tiers :
    free[t] + spawned[t] + Cardinality(OpenIn(t))
      + (IF listener[t] = "accept" THEN 1 ELSE 0) = Slots

\* extranonce1 before the miner's own digits, padded to 12.
FullNonce(c, n) == conn[c].extra * NonceSpace + n

\* Two miners that are connected at once, to any tier, never try the same
\* nonce for a job, unless 65536 connections came between them.
DisjointNonces ==
  \A c, d \in Open :
    c < d /\ d - c < ExtraSpace =>
      \A m, n \in 0 .. NonceSpace - 1 : FullNonce(c, m) # FullNonce(d, n)

\* A share that meets the difficulty its miner worked at is credited with this
\* difficulty, unless a retarget was under way while it was found or sent: what
\* the miner was told and what the pool checks against do not drift apart.
CreditedAsWorked ==
  [][(/\ toPool # <<>> /\ toPool' = Tail(toPool) /\ mining'
      /\ ~Head(toPool).raced /\ Head(toPool).quality >= Head(toPool).worked)
     => verdict' \in {Verdict("stale", 0), Verdict("block", 0),
                      Verdict("share", Head(toPool).worked)}]_connVars
=============================================================================
