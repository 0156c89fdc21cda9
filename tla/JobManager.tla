---------------------------- MODULE JobManager ----------------------------
(***************************************************************************)
(* The job registry of src/src/job_manager/mod.rs: the task that turns a   *)
(* block template into a mining job (process_new_block), and the garbage   *)
(* collector task that JobManager::new spawns.  The two run on different   *)
(* threads of the runtime and share two concurrent maps, so each map       *)
(* operation is a step of its own.                                         *)
(*                                                                         *)
(* A job is identified by the unique_id it drew from JOB_COUNTER; header,  *)
(* block and payload all belong to that id.  Its key in the maps is the    *)
(* 16-bit job_id.  Instants are modelled by ages: job_timestamps[k] is the *)
(* time since entry k was stamped, and Tick lets one unit of time pass.    *)
(***************************************************************************)
EXTENDS Integers

CONSTANTS
  IdSpace,   \* number of different job ids (0x10000: the mask 0xFFFF)
  Ttl,       \* age above which an entry is stale (120 s)
  GcEvery,   \* period of the collector's interval (15 s)
  GcLag,     \* the runtime finishes a due collection within this time
  MaxJobs    \* bound of the model on the templates the node sends

ASSUME JobManagerAssumption ==
  /\ IdSpace \in Nat \ {0}
  /\ GcEvery \in Nat \ {0}
  /\ Ttl \in Nat /\ GcLag \in Nat /\ MaxJobs \in Nat

NoJob  == 0     \* JOB_COUNTER starts at 1, so no job has this id
Absent == -1    \* no entry of job_timestamps under this key
Keys   == 0 .. IdSpace - 1

\* The longest an entry can stay: it turns stale, the next period begins,
\* and that collection finishes.
Window == Ttl + GcEvery + GcLag

VARIABLES
  jobCounter,      \* JOB_COUNTER: the next unique_id
  publisher,       \* how far process_new_block has come with its job
  active_jobs,     \* key -> unique_id of the job, or NoJob
  job_timestamps,  \* key -> age of its stamp, or Absent
  cached_job,      \* the job of the cached payload, or NoJob
  lastSent,        \* newest job handed to the broadcast channel job_tx
  gcElapsed,       \* time since the last deadline of the collector's interval
  staleKeys,       \* keys the running collection has still to remove
  gcKey,           \* key already removed from active_jobs only, or Absent
  idleFor          \* history: time since a key was last stamped (capped)

publishVars == <<jobCounter, publisher, cached_job, lastSent>>
gcVars      == <<gcElapsed, staleKeys, gcKey>>
jmVars      == <<publishVars, active_jobs, job_timestamps, gcVars, idleFor>>

JobIds == 0 .. MaxJobs

JobManagerTypeOK ==
  /\ jobCounter \in 1 .. MaxJobs + 1
  /\ publisher \in {"idle", "inserted", "stamped", "cached"}
  /\ active_jobs \in [Keys -> JobIds]
  /\ job_timestamps \in [Keys -> Int]
  /\ cached_job \in JobIds
  /\ lastSent \in JobIds
  /\ gcElapsed \in Nat
  /\ staleKeys \subseteq Keys
  /\ gcKey \in Keys \cup {Absent}
  /\ idleFor \in [Keys -> Nat]

JobManagerInit ==
  /\ jobCounter = 1
  /\ publisher = "idle"
  /\ active_jobs = [k \in Keys |-> NoJob]
  /\ job_timestamps = [k \in Keys |-> Absent]
  /\ cached_job = NoJob
  /\ lastSent = NoJob
  /\ gcElapsed = GcEvery              \* an interval's first tick is immediate
  /\ staleKeys = {}
  /\ gcKey = Absent
  /\ idleFor = [k \in Keys |-> Window + 1]

---------------------------------------------------------------------------
(* process_new_block, run by the single task that reads the node's stream *)

\* job_id = unique_id & 0xFFFF
Key(id) == id % IdSpace

\* The job process_new_block has in hand while publisher is not "idle".
Current == jobCounter - 1

\* The node sends fewer than IdSpace templates per Window (assumption on the
\* environment): a key comes round again only after it was idle that long.
NodeKeepsRate == idleFor[Key(jobCounter)] > Window

\* Draws the id, then inserts into active_jobs.
InsertActive ==
  /\ publisher = "idle"
  /\ jobCounter <= MaxJobs
  /\ NodeKeepsRate
  /\ jobCounter' = jobCounter + 1
  /\ active_jobs' = [active_jobs EXCEPT ![Key(jobCounter)] = jobCounter]
  /\ publisher' = "inserted"
  /\ UNCHANGED <<job_timestamps, cached_job, lastSent, gcVars, idleFor>>

\* Mutant: the job is never stamped.
InsertTimestamp_Forgotten ==
  /\ publisher = "inserted"
  /\ idleFor' = [idleFor EXCEPT ![Key(Current)] = 0]
  /\ publisher' = "stamped"
  /\ UNCHANGED <<jobCounter, active_jobs, job_timestamps, cached_job, lastSent, gcVars>>

InsertTimestamp ==
  /\ publisher = "inserted"
  /\ job_timestamps' = [job_timestamps EXCEPT ![Key(Current)] = 0]
  /\ idleFor' = [idleFor EXCEPT ![Key(Current)] = 0]
  /\ publisher' = "stamped"
  /\ UNCHANGED <<jobCounter, active_jobs, cached_job, lastSent, gcVars>>

\* Mutant: the counter is read again for the payload, instead of unique_id.
WriteCache_NextId ==
  /\ publisher = "stamped"
  /\ cached_job' = jobCounter
  /\ publisher' = "cached"
  /\ UNCHANGED <<jobCounter, active_jobs, job_timestamps, lastSent, gcVars, idleFor>>

WriteCache ==
  /\ publisher = "stamped"
  /\ cached_job' = Current
  /\ publisher' = "cached"
  /\ UNCHANGED <<jobCounter, active_jobs, job_timestamps, lastSent, gcVars, idleFor>>

SendJob ==
  /\ publisher = "cached"
  /\ lastSent' = Current
  /\ publisher' = "idle"
  /\ UNCHANGED <<jobCounter, active_jobs, job_timestamps, cached_job, gcVars, idleFor>>

---------------------------------------------------------------------------
(* The collector: one scan of the stamps, then two removals per stale key *)

\* Mutants: an entry expires as it reaches the limit; a limit too long.
IsStale_Early(k) == job_timestamps[k] >= Ttl
IsStale_Late(k)  == job_timestamps[k] > Ttl + GcEvery

IsStale(k) == job_timestamps[k] > Ttl

\* Mutant: the collector does not wait for its interval.
GcScan_NoInterval ==
  /\ staleKeys = {}
  /\ gcElapsed' = gcElapsed - GcEvery
  /\ staleKeys' = {k \in Keys : IsStale(k)}
  /\ UNCHANGED <<publishVars, active_jobs, job_timestamps, gcKey, idleFor>>

\* The interval keeps its schedule however late a tick is taken.
GcScan ==
  /\ staleKeys = {}
  /\ gcElapsed >= GcEvery
  /\ gcElapsed' = gcElapsed - GcEvery
  /\ staleKeys' = {k \in Keys : IsStale(k)}
  /\ UNCHANGED <<publishVars, active_jobs, job_timestamps, gcKey, idleFor>>

\* Mutant: only the stamps are swept.
GcRemoveActive_Kept(k) ==
  /\ k \in staleKeys
  /\ gcKey = Absent
  /\ gcKey' = k
  /\ UNCHANGED <<publishVars, active_jobs, job_timestamps, gcElapsed, staleKeys, idleFor>>

GcRemoveActive(k) ==
  /\ k \in staleKeys
  /\ gcKey = Absent
  /\ active_jobs' = [active_jobs EXCEPT ![k] = NoJob]
  /\ gcKey' = k
  /\ UNCHANGED <<publishVars, job_timestamps, gcElapsed, staleKeys, idleFor>>

GcRemoveTimestamp ==
  /\ gcKey # Absent
  /\ job_timestamps' = [job_timestamps EXCEPT ![gcKey] = Absent]
  /\ staleKeys' = staleKeys \ {gcKey}
  /\ gcKey' = Absent
  /\ UNCHANGED <<publishVars, active_jobs, gcElapsed, idleFor>>

---------------------------------------------------------------------------
\* A due collection begins and finishes before its deadline is GcLag past.
GcOnTime ==
  gcElapsed < IF staleKeys = {} THEN GcEvery + GcLag ELSE GcLag

Tick ==
  /\ GcOnTime
  /\ job_timestamps' = [k \in Keys |->
       IF job_timestamps[k] = Absent THEN Absent ELSE job_timestamps[k] + 1]
  /\ idleFor' = [k \in Keys |->
       IF idleFor[k] > Window THEN idleFor[k] ELSE idleFor[k] + 1]
  /\ gcElapsed' = gcElapsed + 1
  /\ UNCHANGED <<publishVars, active_jobs, staleKeys, gcKey>>

GcStep == GcScan \/ (\E k \in Keys : GcRemoveActive(k)) \/ GcRemoveTimestamp

\* Everything but SendJob, which the composition joins to the receivers.
Internal ==
  \/ InsertActive
  \/ InsertTimestamp
  \/ WriteCache
  \/ GcStep
  \/ Tick

JobManagerNext == Internal \/ SendJob

JobManagerSpec == JobManagerInit /\ [][JobManagerNext]_jmVars

\* Time passes, and the runtime runs a task that is ready.
JobManagerFairSpec ==
  /\ JobManagerSpec
  /\ WF_jmVars(Tick)
  /\ WF_jmVars(GcStep)
  /\ WF_jmVars(InsertTimestamp)
  /\ WF_jmVars(WriteCache)
  /\ WF_jmVars(SendJob)

---------------------------------------------------------------------------
\* A job younger than the time to live can be looked up: the collector never
\* takes it away, nor does a later job under the same key.
FreshJobKnown ==
  \A id \in 1 .. jobCounter - 1 :
    /\ id + IdSpace >= jobCounter             \* last job under its key
    /\ ~(id = Current /\ publisher = "inserted")
    /\ idleFor[Key(id)] <= Ttl
    => active_jobs[Key(id)] = id

\* An entry of active_jobs without a stamp would never be collected: there is
\* none but the one process_new_block is about to stamp.
NoUnreclaimableJob ==
  \A k \in Keys :
    active_jobs[k] # NoJob /\ job_timestamps[k] = Absent
      => publisher = "inserted" /\ k = Key(Current)

\* No entry outlives its time to live by more than a period and the lag.
LifetimeBound == \A k \in Keys : job_timestamps[k] <= Window

\* Publishing never replaces a job that is still registered, nor one the
\* collector has already decided to remove.
NoLiveOverwrite ==
  [][\A k \in Keys :
       active_jobs'[k] \notin {NoJob, active_jobs[k]}
         => /\ active_jobs[k] = NoJob
            /\ job_timestamps[k] = Absent
            /\ k \notin staleKeys]_jmVars

\* Every registered job is removed in the end.
EventuallyReclaimed ==
  \A k \in Keys : active_jobs[k] # NoJob ~> active_jobs[k] = NoJob
=============================================================================
