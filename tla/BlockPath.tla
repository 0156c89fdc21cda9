----------------------------- MODULE BlockPath -----------------------------
(***************************************************************************)
(* What happens to a block a miner solved: the submit branch of the select *)
(* loop (src/src/stratum_tcp/mod.rs) spawns a task that pushes a record of *)
(* it to a Redis list and offers the block to the uplink; the oracle       *)
(* daemon (src/src/oracle.rs, part B of its loop) moves the records to the *)
(* table network_blocks.                                                   *)
(*                                                                         *)
(* The two ways share Redis with the uplink: an outage fails the pushes    *)
(* that fall into it and ends the oracle's connection for good.            *)
(***************************************************************************)
EXTENDS Uplink

CONSTANTS
  BlockBatch,   \* records the oracle takes at a time (51)
  MaxSubmits    \* bound of the model on submissions of solutions

ASSUME BlockPathAssumption == BlockBatch \in Nat \ {0} /\ MaxSubmits \in Nat \ {0}

VARIABLES
  submits,     \* submissions of solutions so far
  pushing,     \* push tasks under way for each block
  buffer,      \* the list perennia:oracle:block_buffer
  oracle,      \* where the oracle's loop stands
  oracleConn,  \* its redis_conn works
  batch,       \* block_events: read and not yet inserted
  rows,        \* how many rows of network_blocks each block has
  unrecorded   \* history: blocks a push or an insert failed for

recordVars == <<submits, pushing, buffer, oracle, oracleConn, batch, rows, unrecorded>>
blockVars  == <<uplinkVars, recordVars>>

BlockPathTypeOK ==
  /\ UplinkTypeOK
  /\ submits \in 0 .. MaxSubmits
  /\ pushing \in [Blocks -> 0 .. submits]
  /\ buffer \in Seq(Blocks) /\ batch \in Seq(Blocks)
  /\ oracle \in {"read", "trim", "insert"}
  /\ oracleConn \in BOOLEAN /\ (oracleConn => conn)
  /\ rows \in [Blocks -> Nat]
  /\ oracle = "trim" => /\ Len(batch) \in 1 .. BlockBatch
                        /\ batch = SubSeq(buffer, 1, Len(batch))
  /\ oracle = "read" => batch = <<>>

BlockPathInit ==
  /\ UplinkInit
  /\ submits = 0
  /\ pushing = [b \in Blocks |-> 0]
  /\ buffer = <<>> /\ batch = <<>>
  /\ oracle = "read"
  /\ oracleConn \in BOOLEAN        \* the daemon returns if it cannot connect
  /\ rows = [b \in Blocks |-> 0]
  /\ unrecorded = {}

---------------------------------------------------------------------------
\* A submission that solves block b.  Its job stays known after that, and
\* nothing remembers the solutions seen: the same may be submitted again.
SolveBlock(b) ==
  /\ submits < MaxSubmits /\ submits' = submits + 1
  /\ OfferBlock(b)
  /\ pushing' = [pushing EXCEPT ![b] = @ + 1]
  /\ UNCHANGED <<buffer, oracle, oracleConn, batch, rows, unrecorded>>

\* The push task opens a connection of its own, once.
PushRecord(b) ==
  /\ pushing[b] > 0
  /\ pushing' = [pushing EXCEPT ![b] = @ - 1]
  /\ buffer' = IF redis THEN Append(buffer, b) ELSE buffer
  /\ unrecorded' = IF redis THEN unrecorded ELSE unrecorded \cup {b}
  /\ UNCHANGED <<uplinkVars, submits, oracle, oracleConn, batch, rows>>

Elements(s) == {s[i] : i \in DOMAIN s}

\* LRANGE; an error is an empty answer.
ReadRecords ==
  /\ oracle = "read" /\ oracleConn /\ buffer # <<>>
  /\ batch' = SubSeq(buffer, 1, IF Len(buffer) < BlockBatch THEN Len(buffer)
                                ELSE BlockBatch)
  /\ oracle' = "trim"
  /\ UNCHANGED <<uplinkVars, submits, pushing, buffer, oracleConn, rows, unrecorded>>

\* Mutant: the whole list is deleted.
TrimRecords_Deletes ==
  /\ oracle = "trim"
  /\ oracle' = "insert"
  /\ buffer' = IF oracleConn THEN <<>> ELSE buffer
  /\ UNCHANGED <<uplinkVars, submits, pushing, oracleConn, batch, rows, unrecorded>>

\* LTRIM cuts off what was read.  Its result is ignored.
TrimRecords ==
  /\ oracle = "trim"
  /\ oracle' = "insert"
  /\ buffer' = IF oracleConn THEN SubSeq(buffer, Len(batch) + 1, Len(buffer))
               ELSE buffer
  /\ UNCHANGED <<uplinkVars, submits, pushing, oracleConn, batch, rows, unrecorded>>

\* Mutant: without the ON CONFLICT clause and the primary key behind it.
InsertRecords_Twice ==
  /\ oracle = "insert"
  /\ oracle' = "read" /\ batch' = <<>>
  /\ rows' = [b \in Blocks |-> rows[b] + Len(SelectSeq(batch, LAMBDA x : x = b))]
  /\ UNCHANGED <<uplinkVars, submits, pushing, buffer, oracleConn, unrecorded>>

\* The batch, one INSERT ... ON CONFLICT (block_hash) DO NOTHING per record.
\* PostgreSQL may fail for some of them; the results are ignored.
InsertRecords ==
  \E failed \in SUBSET Elements(batch) :
    /\ oracle = "insert"
    /\ oracle' = "read" /\ batch' = <<>>
    /\ failed # {} => faults < MaxFaults
    /\ faults' = IF failed = {} THEN faults ELSE faults + 1
    /\ rows' = [b \in Blocks |-> IF b \in Elements(batch) \ failed /\ rows[b] = 0
                                 THEN 1 ELSE rows[b]]
    /\ unrecorded' = unrecorded \cup failed
    /\ UNCHANGED <<linkVars, readerVars, submitVars, redis, conn, submits, pushing,
                   buffer, oracleConn>>

---------------------------------------------------------------------------
Oracle == ReadRecords \/ TrimRecords \/ InsertRecords

UplinkStep == StartUp \/ Response \/ TakeBlock \/ SendBlock \/ Node

Environment == NodeAddsBlock \/ StreamEnds \/ RedisReturns

BlockPathNext ==
  \/ (UplinkStep \/ Environment) /\ UNCHANGED recordVars
  \/ /\ RedisFails /\ oracleConn' = FALSE
     /\ UNCHANGED <<submits, pushing, buffer, oracle, batch, rows, unrecorded>>
  \/ \E b \in Blocks : SolveBlock(b) \/ PushRecord(b)
  \/ Oracle

\* The tasks run and the node answers; it goes on adding blocks; an outage ends.
\* tokio's channel serves waiting senders in turn (its permits are handed out
\* first come, first served), so neither sender is passed over for ever.
BlockPathSpec ==
  /\ BlockPathInit /\ [][BlockPathNext]_blockVars
  /\ WF_blockVars(StartUp /\ UNCHANGED recordVars)
  /\ WF_blockVars(Response /\ UNCHANGED recordVars)
  /\ SF_blockVars(AskNext /\ UNCHANGED recordVars)
  /\ WF_blockVars(TakeBlock /\ UNCHANGED recordVars)
  /\ SF_blockVars(SendBlock /\ UNCHANGED recordVars)
  /\ WF_blockVars(Node /\ UNCHANGED recordVars)
  /\ WF_blockVars(NodeAddsBlock /\ UNCHANGED recordVars)
  /\ WF_blockVars(RedisReturns /\ UNCHANGED recordVars)

---------------------------------------------------------------------------
\* However often a solution is submitted and in whatever order its pushes and the
\* oracle's rounds fall, a solved block has one row in the end: no second one is
\* written, and until it has one a record of it is under way, unless a push or an
\* insert failed.
BlockRecordedOnce ==
  \A b \in solved :
    /\ rows[b] <= 1
    /\ rows[b] = 1 \/ pushing[b] > 0 \/ b \in Elements(buffer)
         \/ b \in Elements(batch) \/ b \in unrecorded

\* Records in the list, and those the oracle has cut off and not yet inserted.
RecordsHeld == Len(buffer) + IF oracle = "insert" THEN Len(batch) ELSE 0

\* Whatever is pushed between the oracle's LRANGE and its LTRIM, and whether or
\* not the LTRIM works: no record is gone before its INSERT was tried.  Records
\* become fewer only as the oracle inserts, and by no more than it had read.
NoRecordDropped ==
  [][RecordsHeld' < RecordsHeld
       => oracle = "insert" /\ RecordsHeld - RecordsHeld' = Len(batch)]_blockVars
=============================================================================
