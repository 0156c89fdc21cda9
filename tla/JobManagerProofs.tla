------------------------- MODULE JobManagerProofs -------------------------
(***************************************************************************)
(* Proofs about JobManager: type correctness, the bound on the life of an  *)
(* entry, that every entry can be collected, that a fresh job is known and *)
(* that publishing overwrites nothing, for every value of the constants.   *)
(***************************************************************************)
EXTENDS JobManager, TLAPS

\* The job id is the last one drawn for its key.
LastUnderKey(id) == id + IdSpace >= jobCounter

\* process_new_block is between its two insertions.
HalfInserted(k) == publisher = "inserted" /\ k = Key(Current)

\* The collector keeps to its deadline, and removes only what it collected.
GcInv ==
  /\ gcElapsed <= GcEvery + GcLag
  /\ staleKeys # {} => gcElapsed <= GcLag
  /\ gcKey # Absent => gcKey \in staleKeys /\ active_jobs[gcKey] = NoJob

\* Ages: an entry the collector passed over was fresh at its scan, one it
\* picked was not much older than a period then.  The history variable agrees
\* with the stamp.
AgeInv ==
  \A k \in Keys :
    /\ job_timestamps[k] >= Absent
    /\ k \notin staleKeys => job_timestamps[k] <= Ttl + gcElapsed
    /\ k \in staleKeys => job_timestamps[k] > Ttl
                       /\ job_timestamps[k] <= Ttl + GcEvery + gcElapsed
    /\ job_timestamps[k] # Absent => idleFor[k] = job_timestamps[k]
    /\ idleFor[k] <= Ttl => job_timestamps[k] = idleFor[k]

\* The two maps agree but for the keys in the middle of an insertion or a
\* removal.
MapsInv ==
  /\ publisher = "inserted" =>
       /\ active_jobs[Key(Current)] = Current
       /\ job_timestamps[Key(Current)] = Absent
       /\ idleFor[Key(Current)] > Window
  /\ publisher # "idle" => jobCounter > 1
  /\ \A k \in Keys :
       active_jobs[k] # NoJob => job_timestamps[k] # Absent \/ HalfInserted(k)
  /\ \A id \in 1 .. jobCounter - 1 :
       LastUnderKey(id) /\ job_timestamps[Key(id)] # Absent /\ gcKey # Key(id)
         => active_jobs[Key(id)] = id

\* The inductive invariant.
JobManagerInv == JobManagerTypeOK /\ GcInv /\ AgeInv /\ MapsInv

---------------------------------------------------------------------------
(* Job ids and their keys *)

\* Division with remainder.
LEMMA DivMod ==
  ASSUME NEW a \in Nat, NEW n \in Nat \ {0}
  PROVE  /\ a = n * (a \div n) + (a % n)
         /\ a \div n \in Nat
         /\ a % n \in 0 .. n - 1
BY Z3

\* One factor more is at least one n more.
LEMMA NextMultiple ==
  ASSUME NEW p \in Nat, NEW q \in Nat, NEW n \in Nat, p < q
  PROVE  n * q >= n * p + n
BY Z3

\* Every job id has a key.
LEMMA KeyInKeys == ASSUME NEW id \in Nat PROVE Key(id) \in Keys
BY JobManagerAssumption, DivMod DEF Key, Keys

\* Two jobs with the same key are at least IdSpace apart.
LEMMA SameKey ==
  ASSUME NEW a \in Nat, NEW b \in Nat, Key(a) = Key(b), a < b
  PROVE  b >= a + IdSpace
<1>1. IdSpace \in Nat \ {0}
  BY JobManagerAssumption
<1> DEFINE p == a \div IdSpace
           q == b \div IdSpace
           r == a % IdSpace
<1>2. a = IdSpace * p + r /\ b = IdSpace * q + r
  BY <1>1, DivMod DEF Key
<1>3. p \in Nat /\ q \in Nat /\ r \in Nat
  <2>1. p \in Nat /\ r \in 0 .. IdSpace - 1
    BY <1>1, DivMod
  <2>2. q \in Nat
    BY <1>1, DivMod
  <2> QED
    BY <1>1, <2>1, <2>2
<1> HIDE DEF p, q, r
<1>4. IdSpace * p < IdSpace * q
  BY <1>1, <1>2, <1>3, Z3
<1>5. p < q
  BY <1>1, <1>3, <1>4, Z3
<1>6. IdSpace * q >= IdSpace * p + IdSpace
  BY <1>1, <1>3, <1>5, NextMultiple
<1> QED
  BY <1>1, <1>2, <1>3, <1>6, Z3

---------------------------------------------------------------------------
(* Type correctness *)

\* The variables have their types initially.
LEMMA TypeInit == JobManagerInit => JobManagerTypeOK
BY JobManagerAssumption
   DEF JobManagerInit, JobManagerTypeOK, JobIds, NoJob, Absent, Window

\* Every step keeps the types.
LEMMA TypeStep == JobManagerTypeOK /\ [JobManagerNext]_jmVars => JobManagerTypeOK'
<1> SUFFICES ASSUME JobManagerTypeOK, [JobManagerNext]_jmVars
             PROVE  JobManagerTypeOK'
  OBVIOUS
<1> USE JobManagerAssumption DEF JobManagerTypeOK
<1>1. CASE InsertActive
  <2>1. jobCounter \in JobIds /\ Key(jobCounter) \in Keys
    BY <1>1, KeyInKeys DEF InsertActive, JobIds
  <2> QED
    BY <1>1, <2>1 DEF InsertActive, gcVars
<1>2. CASE InsertTimestamp
  <2>1. job_timestamps' \in [Keys -> Int]
    BY <1>2, 0 \in Int, Zenon DEF InsertTimestamp
  <2>2. idleFor' \in [Keys -> Nat]
    BY <1>2, 0 \in Nat, Zenon DEF InsertTimestamp
  <2> QED
    BY <1>2, <2>1, <2>2 DEF InsertTimestamp, gcVars
<1>3. CASE WriteCache
  BY <1>3 DEF WriteCache, gcVars, Current, JobIds
<1>4. CASE SendJob
  BY <1>4 DEF SendJob, gcVars, Current, JobIds
<1>5. CASE GcScan
  BY <1>5 DEF GcScan, publishVars
<1>6. ASSUME NEW k \in Keys, GcRemoveActive(k)
      PROVE  JobManagerTypeOK'
  BY <1>6 DEF GcRemoveActive, publishVars, NoJob, JobIds
<1>7. CASE GcRemoveTimestamp
  BY <1>7 DEF GcRemoveTimestamp, publishVars, Absent
<1>8. CASE Tick
  BY <1>8 DEF Tick, publishVars, Absent, Window
<1>9. CASE UNCHANGED jmVars
  BY <1>9 DEF jmVars, publishVars, gcVars
<1> QED
  BY <1>1, <1>2, <1>3, <1>4, <1>5, <1>6, <1>7, <1>8, <1>9
     DEF JobManagerNext, Internal, GcStep

\* Type correctness of the registry.
THEOREM TypeCorrect == JobManagerSpec => []JobManagerTypeOK
BY TypeInit, TypeStep, PTL DEF JobManagerSpec

---------------------------------------------------------------------------
(* The inductive invariant *)

\* The initial states satisfy the invariant.
LEMMA InvInit == JobManagerInit => JobManagerInv
<1> SUFFICES ASSUME JobManagerInit PROVE JobManagerInv
  OBVIOUS
<1>1. JobManagerTypeOK
  BY TypeInit
<1>2. GcInv /\ AgeInv
  BY JobManagerAssumption DEF JobManagerInit, GcInv, AgeInv, Absent, NoJob, Window
<1>3. MapsInv
  BY DEF JobManagerInit, MapsInv, Absent, NoJob
<1> QED
  BY <1>1, <1>2, <1>3 DEF JobManagerInv

\* No entry is older than Window.
LEMMA AgeBound == JobManagerInv => LifetimeBound
BY JobManagerAssumption
   DEF JobManagerInv, JobManagerTypeOK, GcInv, AgeInv, LifetimeBound, Window

\* A key that was idle for longer has no entry, in neither map.
LEMMA IdleKeyFree ==
  ASSUME JobManagerInv, NEW k \in Keys, idleFor[k] > Window
  PROVE  /\ job_timestamps[k] = Absent
         /\ k \notin staleKeys
         /\ k # gcKey
         /\ HalfInserted(k) \/ active_jobs[k] = NoJob
<1> USE JobManagerAssumption DEF JobManagerInv, JobManagerTypeOK
<1>1. job_timestamps[k] <= Window
  BY AgeBound DEF LifetimeBound
<1>2. job_timestamps[k] = Absent
  BY <1>1 DEF AgeInv, Window
<1>3. k \notin staleKeys
  BY <1>2 DEF AgeInv, Absent
<1>4. k # gcKey
  BY <1>3 DEF GcInv, Keys, Absent
<1> QED
  BY <1>2, <1>3, <1>4 DEF MapsInv

\* The first insertion of a job keeps the invariant: its key is free.
LEMMA InvInsertActive ==
  ASSUME JobManagerInv, JobManagerTypeOK', InsertActive PROVE JobManagerInv'
<1> USE JobManagerAssumption DEF JobManagerInv, JobManagerTypeOK
<1> DEFINE kk == Key(jobCounter)
<1>1. kk \in Keys /\ jobCounter \in Nat /\ jobCounter >= 1
  BY KeyInKeys
<1>2. /\ idleFor[kk] > Window
      /\ job_timestamps[kk] = Absent /\ kk \notin staleKeys /\ kk # gcKey
  BY <1>1, IdleKeyFree DEF InsertActive, NodeKeepsRate
<1>3. UNCHANGED <<job_timestamps, gcElapsed, staleKeys, gcKey, idleFor>>
  BY DEF InsertActive, gcVars
<1>4. /\ jobCounter' = jobCounter + 1 /\ publisher' = "inserted"
      /\ active_jobs' = [active_jobs EXCEPT ![kk] = jobCounter]
  BY DEF InsertActive
<1>5. Current' = jobCounter
  BY <1>1, <1>4 DEF Current
<1>5a. Key(Current)' = kk
  BY <1>5 DEF Key
<1>5b. (1 .. jobCounter - 1)' = 1 .. jobCounter
  BY <1>1, <1>4
<1> HIDE DEF kk
<1>6. GcInv'
  BY <1>2, <1>3, <1>4 DEF GcInv
<1>7. AgeInv'
  BY <1>3 DEF AgeInv
<1>8. MapsInv'
  <2>1. (publisher = "inserted" =>
           /\ active_jobs[Key(Current)] = Current
           /\ job_timestamps[Key(Current)] = Absent
           /\ idleFor[Key(Current)] > Window)'
    BY <1>1, <1>2, <1>3, <1>4, <1>5, <1>5a
  <2>2. (publisher # "idle" => jobCounter > 1)'
    BY <1>1, <1>4
  <2>3. (\A k \in Keys :
           active_jobs[k] # NoJob => job_timestamps[k] # Absent \/ HalfInserted(k))'
    <3> SUFFICES ASSUME NEW k \in Keys, active_jobs'[k] # NoJob, k # kk
                 PROVE  job_timestamps'[k] # Absent
      BY <1>4, <1>5a DEF HalfInserted
    <3> QED
      BY <1>3, <1>4 DEF MapsInv, HalfInserted, InsertActive
  <2>4. (\A id \in 1 .. jobCounter - 1 :
           LastUnderKey(id) /\ job_timestamps[Key(id)] # Absent /\ gcKey # Key(id)
             => active_jobs[Key(id)] = id)'
    <3> SUFFICES ASSUME NEW id \in 1 .. jobCounter,
                        id + IdSpace >= jobCounter + 1,
                        job_timestamps[Key(id)] # Absent, gcKey # Key(id)
                 PROVE  active_jobs'[Key(id)] = id
      BY <1>3, <1>4, <1>5b DEF LastUnderKey, Key
    <3>1. id # jobCounter /\ Key(id) # kk
      BY <1>2 DEF kk
    <3>2. id \in 1 .. jobCounter - 1 /\ LastUnderKey(id)
      BY <1>1, <3>1 DEF LastUnderKey
    <3>3. active_jobs[Key(id)] = id
      BY <3>2 DEF MapsInv
    <3> QED
      BY <1>4, <3>1, <3>3, KeyInKeys
  <2> QED
    BY <2>1, <2>2, <2>3, <2>4 DEF MapsInv
<1> QED
  BY <1>6, <1>7, <1>8

\* The second insertion keeps it: the stamp joins the entry.
LEMMA InvInsertTimestamp ==
  ASSUME JobManagerInv, JobManagerTypeOK', InsertTimestamp PROVE JobManagerInv'
<1> USE JobManagerAssumption DEF JobManagerInv, JobManagerTypeOK
<1> DEFINE kk == Key(Current)
<1>1. Current \in Nat /\ Current >= 1 /\ jobCounter = Current + 1
  BY DEF InsertTimestamp, MapsInv, Current
<1>2. kk \in Keys
  BY <1>1, KeyInKeys
<1>3. /\ idleFor[kk] > Window /\ active_jobs[kk] = Current
      /\ job_timestamps[kk] = Absent /\ kk \notin staleKeys /\ kk # gcKey
  BY <1>2, IdleKeyFree DEF InsertTimestamp, MapsInv
<1>4. /\ UNCHANGED <<jobCounter, active_jobs, gcElapsed, staleKeys, gcKey>>
      /\ publisher' = "stamped"
      /\ job_timestamps' = [job_timestamps EXCEPT ![kk] = 0]
      /\ idleFor' = [idleFor EXCEPT ![kk] = 0]
  BY DEF InsertTimestamp, gcVars
<1>5. \A id \in Nat : Key(id)' = Key(id)
  BY DEF Key
<1> HIDE DEF kk
<1>6. GcInv'
  BY <1>4 DEF GcInv
<1>7. AgeInv'
  <2> SUFFICES ASSUME NEW k \in Keys
               PROVE  (/\ job_timestamps[k] >= Absent
                       /\ k \notin staleKeys => job_timestamps[k] <= Ttl + gcElapsed
                       /\ k \in staleKeys =>
                            /\ job_timestamps[k] > Ttl
                            /\ job_timestamps[k] <= Ttl + GcEvery + gcElapsed
                       /\ job_timestamps[k] # Absent => idleFor[k] = job_timestamps[k]
                       /\ idleFor[k] <= Ttl => job_timestamps[k] = idleFor[k])'
    BY DEF AgeInv
  <2>1. CASE k = kk
    <3>1. job_timestamps'[k] = 0 /\ idleFor'[k] = 0 /\ k \notin staleKeys'
      BY <1>3, <1>4, <2>1
    <3> QED
      BY <1>4, <3>1 DEF Absent
  <2>2. CASE k # kk
    <3>1. job_timestamps'[k] = job_timestamps[k] /\ idleFor'[k] = idleFor[k]
      BY <1>4, <2>2
    <3> QED
      BY <1>4, <3>1 DEF AgeInv
  <2> QED
    BY <2>1, <2>2
<1>8. MapsInv'
  <2>1. (\A k \in Keys :
           active_jobs[k] # NoJob => job_timestamps[k] # Absent \/ HalfInserted(k))'
    <3> SUFFICES ASSUME NEW k \in Keys, active_jobs[k] # NoJob
                 PROVE  job_timestamps'[k] # Absent
      BY <1>4
    <3>1. CASE k = kk
      BY <1>4, <3>1 DEF Absent
    <3>2. CASE k # kk
      BY <1>4, <3>2 DEF MapsInv, HalfInserted, kk
    <3> QED
      BY <3>1, <3>2
  <2>2. (\A id \in 1 .. jobCounter - 1 :
           LastUnderKey(id) /\ job_timestamps[Key(id)] # Absent /\ gcKey # Key(id)
             => active_jobs[Key(id)] = id)'
    <3> SUFFICES ASSUME NEW id \in 1 .. jobCounter - 1,
                        LastUnderKey(id), gcKey # Key(id),
                        job_timestamps'[Key(id)] # Absent
                 PROVE  active_jobs[Key(id)] = id
      BY <1>4, <1>5 DEF LastUnderKey
    <3>1. CASE id = Current
      BY <1>3, <3>1 DEF kk
    <3>2. CASE id # Current
      <4>1. id < Current /\ id \in Nat
        BY <1>1, <3>2
      <4>2. Key(id) # kk
        BY <1>1, <4>1, SameKey DEF LastUnderKey, kk
      <4> QED
        BY <1>4, <4>1, <4>2, KeyInKeys DEF MapsInv
    <3> QED
      BY <3>1, <3>2
  <2> QED
    BY <1>1, <1>4, <2>1, <2>2 DEF MapsInv
<1> QED
  BY <1>6, <1>7, <1>8

\* The rest of process_new_block touches no map.
LEMMA InvAnnounce ==
  ASSUME JobManagerInv, JobManagerTypeOK', WriteCache \/ SendJob
  PROVE  JobManagerInv'
<1>1. /\ UNCHANGED <<jobCounter, active_jobs, job_timestamps, gcElapsed, staleKeys,
                     gcKey, idleFor>>
      /\ publisher # "inserted" /\ publisher # "idle" /\ publisher' # "inserted"
  BY DEF WriteCache, SendJob, gcVars
<1>2. GcInv' /\ AgeInv'
  BY <1>1 DEF JobManagerInv, GcInv, AgeInv
<1>3. MapsInv'
  <2>1. \A id : Key(id)' = Key(id) /\ LastUnderKey(id)' = LastUnderKey(id)
    BY <1>1 DEF Key, LastUnderKey
  <2>2. \A k : ~HalfInserted(k)
    BY <1>1 DEF HalfInserted
  <2> QED
    BY <1>1, <2>1, <2>2 DEF JobManagerInv, MapsInv
<1> QED
  BY <1>2, <1>3 DEF JobManagerInv

\* A scan sorts the entries by age.
LEMMA InvGcScan ==
  ASSUME JobManagerInv, JobManagerTypeOK', GcScan PROVE JobManagerInv'
<1> USE JobManagerAssumption DEF JobManagerInv, JobManagerTypeOK
<1>1. /\ UNCHANGED <<jobCounter, publisher, active_jobs, job_timestamps, gcKey, idleFor>>
      /\ staleKeys = {} /\ gcElapsed >= GcEvery
      /\ gcElapsed' = gcElapsed - GcEvery
      /\ staleKeys' = {k \in Keys : job_timestamps[k] > Ttl}
  BY DEF GcScan, publishVars, IsStale
<1>2. GcInv'
  BY <1>1 DEF GcInv
<1>3. AgeInv'
  BY <1>1 DEF AgeInv
<1>4. MapsInv'
  BY <1>1 DEF MapsInv, LastUnderKey, Key, HalfInserted, Current
<1> QED
  BY <1>2, <1>3, <1>4

\* The collector takes an entry out of active_jobs; it is stale, not fresh,
\* and not the one that is being inserted.
LEMMA InvGcRemoveActive ==
  ASSUME JobManagerInv, JobManagerTypeOK', NEW kk \in Keys, GcRemoveActive(kk)
  PROVE  JobManagerInv'
<1> USE JobManagerAssumption DEF JobManagerInv, JobManagerTypeOK
<1>1. /\ UNCHANGED <<jobCounter, publisher, job_timestamps, gcElapsed, staleKeys, idleFor>>
      /\ kk \in staleKeys /\ gcKey = Absent /\ gcKey' = kk
      /\ active_jobs' = [active_jobs EXCEPT ![kk] = NoJob]
  BY DEF GcRemoveActive, publishVars
<1>2. job_timestamps[kk] > Ttl
  BY <1>1 DEF AgeInv
<1>3. GcInv'
  BY <1>1 DEF GcInv
<1>4. AgeInv'
  BY <1>1 DEF AgeInv
<1>5. MapsInv'
  <2>1. \A id : /\ Key(id)' = Key(id) /\ LastUnderKey(id)' = LastUnderKey(id)
                /\ HalfInserted(id)' = HalfInserted(id)
    BY <1>1 DEF Key, LastUnderKey, HalfInserted, Current
  <2>2. Current' = Current
    BY <1>1 DEF Current
  <2>3. publisher = "inserted" => Key(Current) # kk
    BY <1>2 DEF MapsInv, Absent
  <2>4. (publisher = "inserted" => active_jobs[Key(Current)] = Current)'
    BY <1>1, <2>1, <2>2, <2>3 DEF MapsInv
  <2>5. \A k \in Keys : k # kk => active_jobs'[k] = active_jobs[k]
    BY <1>1
  <2>6. active_jobs'[kk] = NoJob
    BY <1>1
  <2>7. (\A k \in Keys :
           active_jobs[k] # NoJob => job_timestamps[k] # Absent \/ HalfInserted(k))'
    BY <1>1, <2>1, <2>5, <2>6 DEF MapsInv
  <2>8. (\A id \in 1 .. jobCounter - 1 :
           LastUnderKey(id) /\ job_timestamps[Key(id)] # Absent /\ gcKey # Key(id)
             => active_jobs[Key(id)] = id)'
    <3> SUFFICES ASSUME NEW id \in 1 .. jobCounter - 1, LastUnderKey(id),
                        job_timestamps[Key(id)] # Absent, kk # Key(id)
                 PROVE  active_jobs'[Key(id)] = id
      BY <1>1, <2>1
    <3>1. gcKey # Key(id) /\ Key(id) \in Keys
      BY <1>1, KeyInKeys DEF Keys, Absent
    <3> QED
      BY <2>5, <3>1 DEF MapsInv
  <2> QED
    BY <1>1, <2>1, <2>2, <2>4, <2>7, <2>8 DEF MapsInv
<1> QED
  BY <1>3, <1>4, <1>5

\* Then its stamp, and the entry is gone.
LEMMA InvGcRemoveTimestamp ==
  ASSUME JobManagerInv, JobManagerTypeOK', GcRemoveTimestamp PROVE JobManagerInv'
<1> USE JobManagerAssumption DEF JobManagerInv, JobManagerTypeOK
<1>1. /\ UNCHANGED <<jobCounter, publisher, active_jobs, gcElapsed, idleFor>>
      /\ gcKey # Absent /\ gcKey' = Absent
      /\ staleKeys' = staleKeys \ {gcKey}
      /\ job_timestamps' = [job_timestamps EXCEPT ![gcKey] = Absent]
  BY DEF GcRemoveTimestamp, publishVars
<1>2. gcKey \in Keys /\ gcKey \in staleKeys /\ active_jobs[gcKey] = NoJob
  BY <1>1 DEF GcInv
<1>3. job_timestamps'[gcKey] = Absent
  BY <1>1, <1>2
<1>4. \A k \in Keys : k # gcKey => job_timestamps'[k] = job_timestamps[k]
  BY <1>1
<1>5. job_timestamps[gcKey] > Ttl /\ idleFor[gcKey] > Ttl
  BY <1>2 DEF AgeInv, Absent
<1>6. GcInv'
  BY <1>1, <1>2 DEF GcInv
<1>7. AgeInv'
  <2> SUFFICES ASSUME NEW k \in Keys
               PROVE  (/\ job_timestamps[k] >= Absent
                       /\ k \notin staleKeys => job_timestamps[k] <= Ttl + gcElapsed
                       /\ k \in staleKeys =>
                            /\ job_timestamps[k] > Ttl
                            /\ job_timestamps[k] <= Ttl + GcEvery + gcElapsed
                       /\ job_timestamps[k] # Absent => idleFor[k] = job_timestamps[k]
                       /\ idleFor[k] <= Ttl => job_timestamps[k] = idleFor[k])'
    BY DEF AgeInv
  <2>1. CASE k = gcKey
    BY <1>1, <1>3, <1>5, <2>1 DEF Absent
  <2>2. CASE k # gcKey
    BY <1>1, <1>4, <2>2 DEF AgeInv
  <2> QED
    BY <2>1, <2>2
<1>8. MapsInv'
  <2>1. \A id : /\ Key(id)' = Key(id) /\ LastUnderKey(id)' = LastUnderKey(id)
                /\ HalfInserted(id)' = HalfInserted(id)
    BY <1>1 DEF Key, LastUnderKey, HalfInserted, Current
  <2>2. Current' = Current /\ (publisher = "inserted" => Key(Current) # gcKey)
    BY <1>1, <1>5 DEF Current, MapsInv, Absent
  <2>3. (publisher = "inserted" => job_timestamps[Key(Current)] = Absent)'
    <3> SUFFICES ASSUME publisher = "inserted"
                 PROVE  job_timestamps'[Key(Current)] = Absent
      BY <1>1, <2>1, <2>2
    <3>1. Key(Current) \in Keys
      BY KeyInKeys DEF MapsInv, Current
    <3> QED
      BY <1>4, <2>2, <3>1 DEF MapsInv
  <2>4. (\A k \in Keys :
           active_jobs[k] # NoJob => job_timestamps[k] # Absent \/ HalfInserted(k))'
    BY <1>1, <1>2, <1>4, <2>1 DEF MapsInv
  <2>5. (\A id \in 1 .. jobCounter - 1 :
           LastUnderKey(id) /\ job_timestamps[Key(id)] # Absent /\ gcKey # Key(id)
             => active_jobs[Key(id)] = id)'
    <3> SUFFICES ASSUME NEW id \in 1 .. jobCounter - 1, LastUnderKey(id),
                        job_timestamps'[Key(id)] # Absent
                 PROVE  active_jobs[Key(id)] = id
      BY <1>1, <2>1
    <3>1. Key(id) \in Keys /\ Key(id) # gcKey
      BY <1>3, KeyInKeys
    <3> QED
      BY <1>4, <3>1 DEF MapsInv
  <2> QED
    BY <1>1, <2>1, <2>2, <2>3, <2>4, <2>5 DEF MapsInv
<1> QED
  BY <1>6, <1>7, <1>8

\* Time passes only while the collector is on time.
LEMMA InvTick ==
  ASSUME JobManagerInv, JobManagerTypeOK', Tick PROVE JobManagerInv'
<1> USE JobManagerAssumption DEF JobManagerInv, JobManagerTypeOK
<1>1. /\ UNCHANGED <<jobCounter, publisher, active_jobs, staleKeys, gcKey>>
      /\ gcElapsed' = gcElapsed + 1
      /\ job_timestamps' = [k \in Keys |->
           IF job_timestamps[k] = Absent THEN Absent ELSE job_timestamps[k] + 1]
      /\ idleFor' = [k \in Keys |->
           IF idleFor[k] > Window THEN idleFor[k] ELSE idleFor[k] + 1]
  BY DEF Tick, publishVars
<1>2. \A k \in Keys : job_timestamps[k] <= Window
  BY AgeBound DEF LifetimeBound
<1>3. GcInv'
  BY <1>1 DEF Tick, GcOnTime, GcInv
<1>4. AgeInv'
  BY <1>1, <1>2 DEF AgeInv, Absent, Window
<1>5. MapsInv'
  <2>1. \A id : /\ Key(id)' = Key(id) /\ LastUnderKey(id)' = LastUnderKey(id)
                /\ HalfInserted(id)' = HalfInserted(id)
    BY <1>1 DEF Key, LastUnderKey, HalfInserted, Current
  <2>2. \A k \in Keys : (job_timestamps'[k] = Absent) <=> (job_timestamps[k] = Absent)
    BY <1>1 DEF AgeInv, Absent
  <2>3. Current' = Current
    BY <1>1 DEF Current
  <2>4. (publisher = "inserted" =>
           /\ active_jobs[Key(Current)] = Current
           /\ job_timestamps[Key(Current)] = Absent
           /\ idleFor[Key(Current)] > Window)'
    <3> SUFFICES ASSUME publisher = "inserted"
                 PROVE  /\ active_jobs[Key(Current)] = Current
                        /\ job_timestamps'[Key(Current)] = Absent
                        /\ idleFor'[Key(Current)] > Window
      BY <1>1, <2>1, <2>3 DEF Window
    <3>1. Key(Current) \in Keys
      BY KeyInKeys DEF MapsInv, Current
    <3> QED
      BY <1>1, <2>2, <3>1 DEF MapsInv
  <2>5. (\A k \in Keys :
           active_jobs[k] # NoJob => job_timestamps[k] # Absent \/ HalfInserted(k))'
    BY <1>1, <2>1, <2>2 DEF MapsInv
  <2>6. (\A id \in 1 .. jobCounter - 1 :
           LastUnderKey(id) /\ job_timestamps[Key(id)] # Absent /\ gcKey # Key(id)
             => active_jobs[Key(id)] = id)'
    <3> SUFFICES ASSUME NEW id \in 1 .. jobCounter - 1, LastUnderKey(id),
                        job_timestamps'[Key(id)] # Absent, gcKey # Key(id)
                 PROVE  active_jobs[Key(id)] = id
      BY <1>1, <2>1
    <3> QED
      BY <2>2, KeyInKeys DEF MapsInv
  <2> QED
    BY <1>1, <2>4, <2>5, <2>6 DEF MapsInv
<1> QED
  BY <1>3, <1>4, <1>5

\* Every step of the registry keeps the invariant.
LEMMA InvStep == JobManagerInv /\ [JobManagerNext]_jmVars => JobManagerInv'
<1> SUFFICES ASSUME JobManagerInv, [JobManagerNext]_jmVars PROVE JobManagerInv'
  OBVIOUS
<1>1. JobManagerTypeOK'
  BY TypeStep DEF JobManagerInv
<1>2. CASE UNCHANGED jmVars
  BY <1>2 DEF jmVars, publishVars, gcVars, JobManagerInv, JobManagerTypeOK, GcInv,
     AgeInv, MapsInv, LastUnderKey, HalfInserted, Current, Key
<1> QED
  BY <1>1, <1>2, InvInsertActive, InvInsertTimestamp, InvAnnounce, InvGcScan,
     InvGcRemoveActive, InvGcRemoveTimestamp, InvTick
     DEF JobManagerNext, Internal, GcStep

\* The invariant holds in every reachable state.
THEOREM Invariant == JobManagerSpec => []JobManagerInv
BY InvInit, InvStep, PTL DEF JobManagerSpec

---------------------------------------------------------------------------
(* The properties *)

\* No entry outlives its time to live by more than a period of the collector
\* and its lag (JobManager::new, the task it spawns).
THEOREM EntryLifetime == JobManagerSpec => []LifetimeBound
BY Invariant, AgeBound, PTL

\* Every registered job has the stamp by which the collector finds it, but for
\* the one process_new_block is about to stamp.
THEOREM Reclaimable == JobManagerSpec => []NoUnreclaimableJob
<1>1. JobManagerInv => NoUnreclaimableJob
  BY DEF JobManagerInv, MapsInv, NoUnreclaimableJob, HalfInserted
<1> QED
  BY <1>1, Invariant, PTL

\* The invariant makes a fresh job known: the collector picks no fresh key, and
\* what is stamped is registered under its last id.
LEMMA FreshFromInv == JobManagerInv => FreshJobKnown
<1> SUFFICES ASSUME JobManagerInv,
                    NEW id \in 1 .. jobCounter - 1,
                    id + IdSpace >= jobCounter,
                    ~(id = Current /\ publisher = "inserted"),
                    idleFor[Key(id)] <= Ttl
             PROVE  active_jobs[Key(id)] = id
  BY DEF FreshJobKnown
<1> USE JobManagerAssumption DEF JobManagerInv, JobManagerTypeOK
<1>1. Key(id) \in Keys
  BY KeyInKeys
<1>2. job_timestamps[Key(id)] = idleFor[Key(id)] /\ idleFor[Key(id)] \in Nat
  BY <1>1 DEF AgeInv
<1>3. gcKey # Key(id)
  BY <1>1, <1>2 DEF GcInv, AgeInv, Keys, Absent
<1> QED
  BY <1>2, <1>3 DEF MapsInv, LastUnderKey, Absent

\* A job not older than its time to live can be looked up by mining.submit.
THEOREM FreshKnown == JobManagerSpec => []FreshJobKnown
BY Invariant, FreshFromInv, PTL

\* Publishing never replaces a registered job, nor one about to be collected.
THEOREM NoOverwrite == JobManagerSpec => NoLiveOverwrite
<1> DEFINE Changed(k) ==
      active_jobs'[k] \notin {NoJob, active_jobs[k]}
        => /\ active_jobs[k] = NoJob
           /\ job_timestamps[k] = Absent
           /\ k \notin staleKeys
<1>1. JobManagerInv /\ [JobManagerNext]_jmVars => [\A k \in Keys : Changed(k)]_jmVars
  <2> SUFFICES ASSUME JobManagerInv, [JobManagerNext]_jmVars,
                      NEW k \in Keys, active_jobs'[k] \notin {NoJob, active_jobs[k]}
               PROVE  /\ active_jobs[k] = NoJob
                      /\ job_timestamps[k] = Absent
                      /\ k \notin staleKeys
    OBVIOUS
  <2>1. active_jobs \in [Keys -> JobIds]
    BY DEF JobManagerInv, JobManagerTypeOK
  <2>2. CASE InsertActive
    <3>1. k = Key(jobCounter) /\ ~HalfInserted(k)
      BY <2>1, <2>2 DEF InsertActive, HalfInserted
    <3>2. idleFor[k] > Window
      BY <2>2, <3>1 DEF InsertActive, NodeKeepsRate
    <3> QED
      BY <3>1, <3>2, IdleKeyFree
  <2>3. ASSUME NEW kk \in Keys, GcRemoveActive(kk) PROVE FALSE
    BY <2>1, <2>3 DEF GcRemoveActive
  <2>4. CASE UNCHANGED active_jobs
    BY <2>4
  <2> QED
    BY <2>2, <2>3, <2>4 DEF JobManagerNext, Internal, GcStep, InsertTimestamp,
       WriteCache, SendJob, GcScan, GcRemoveTimestamp, Tick, jmVars
<1> QED
  BY <1>1, Invariant, PTL DEF JobManagerSpec, NoLiveOverwrite
=============================================================================
