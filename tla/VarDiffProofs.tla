--------------------------- MODULE VarDiffProofs ---------------------------
(***************************************************************************)
(* Proofs about VarDiff, for every configuration: types, the floor, the    *)
(* bound of the difficulty, and that it is not moved back and forth.       *)
(***************************************************************************)
EXTENDS VarDiff, TLAPS

\* What the rig has done: the shares counted and the work under way come from
\* the time measured, from the unit of time before it, and from at most two
\* shares under way when the measurement began.
WorkInv ==
  /\ power <= peakPower
  /\ ~mining => work = 0 /\ share_count = 0
  /\ elapsed # 0 => work < current_diff + peakPower
  /\ share_count * current_diff + work
       <= peakPower * (elapsed + 1) + 2 * current_diff

\* The inductive invariant.
VarDiffInv == VarDiffTypeOK /\ WorkInv /\ DifficultyFloor /\ NoRunaway

---------------------------------------------------------------------------
(* The difficulty after a retarget *)

\* A lowered difficulty is positive, not below the minimum, and at least half.
LEMMA LoweredFacts ==
  ASSUME NEW d \in Nat \ {0}
  PROVE  /\ Lowered(d) \in Nat \ {0}
         /\ Lowered(d) >= MinDiff
         /\ d <= 2 * Lowered(d) + 1
         /\ Lowered(d) <= Larger(d, MinDiff)
<1>1. d \div 2 \in Nat /\ d <= 2 * (d \div 2) + 1 /\ d \div 2 <= d
  BY Z3
<1> QED
  BY <1>1, VarDiffAssumption DEF Lowered, Larger

\* Any difficulty after a retarget is positive and at least half of the one
\* before, and it is raised only if the rig was too fast.
LEMMA NewDiffFacts ==
  ASSUME NEW d \in Nat \ {0}, NEW n \in Nat, NEW t \in Nat
  PROVE  /\ NewDiff(d, n, t) \in Nat \ {0}
         /\ d <= 2 * NewDiff(d, n, t) + 1
         /\ NewDiff(d, n, t) >= MinDiff \/ NewDiff(d, n, t) >= d
         /\ \/ NewDiff(d, n, t) <= Larger(d, MinDiff)
            \/ NewDiff(d, n, t) = d * 2 /\ TooFast(n, t)
<1>1. CASE TooSlow(n, t)
  BY <1>1, LoweredFacts DEF NewDiff
<1>2. CASE ~TooSlow(n, t) /\ TooFast(n, t)
  <2>1. NewDiff(d, n, t) = d * 2
    BY <1>2 DEF NewDiff
  <2> QED
    BY <1>2, <2>1
<1>3. CASE ~TooSlow(n, t) /\ ~TooFast(n, t)
  <2>1. NewDiff(d, n, t) = d
    BY <1>3 DEF NewDiff
  <2> QED
    BY <2>1, VarDiffAssumption DEF Larger
<1> QED
  BY <1>1, <1>2, <1>3

\* Products of natural numbers are monotonic.
LEMMA MulMono ==
  ASSUME NEW a \in Nat, NEW b \in Nat, NEW c \in Nat, a <= b
  PROVE  a * c <= b * c /\ a * c \in Nat /\ b * c \in Nat
<1>1. (b - a) \in Nat /\ (b - a) * c \in Nat /\ b = a + (b - a)
  BY Z3
<1>2. b * c = a * c + (b - a) * c
  BY <1>1, Z3
<1>3. a * c \in Nat /\ b * c \in Nat
  BY Z3
<1> QED
  BY <1>1, <1>2, <1>3

\* So are sums.
LEMMA AddMono ==
  ASSUME NEW w \in Int, NEW c \in Int, NEW a \in Int, NEW b \in Int, a <= b
  PROVE  w < c + a => w < c + b
OBVIOUS

\* The arithmetic of a raise: n shares of difficulty d in time t, from work that
\* a rig of power p does in t + 1 and two shares more, are more than twice the
\* target only if the doubled difficulty is within the bound.
LEMMA RaiseBound ==
  ASSUME NEW d \in Nat \ {0}, NEW n \in Nat, NEW t \in Nat, NEW p \in Nat,
         t >= Minute, TooFast(n, t), n * d <= p * (t + 1) + 2 * d
  PROVE  (d * 2) * (SharesPerMin - 1) <= (Minute + 1) * p
<1> DEFINE T == SharesPerMin
           M == Minute
<1>0. T \in Nat \ {0} /\ M \in Nat \ {0}
  BY VarDiffAssumption
<1>1. 2 * T * t + 1 <= n * M
  BY <1>0 DEF TooFast
<1> HIDE DEF T, M
<1>2. (2 * T * t + 1) * d <= (n * M) * d
  <2>1. 2 * T * t + 1 \in Nat /\ n * M \in Nat
    BY <1>0
  <2> QED
    BY <1>1, <2>1, MulMono
<1>3. (n * d) * M <= (p * (t + 1) + 2 * d) * M
  <2>1. n * d \in Nat /\ p * (t + 1) + 2 * d \in Nat
    OBVIOUS
  <2> QED
    BY <1>0, <2>1, MulMono
<1>4. M * d <= t * d /\ M * p <= t * p
  BY <1>0, MulMono DEF M
<1>5. (2 * T * t + 1) * d = 2 * (T * t * d) + d
  BY <1>0, Z3
<1>6. (n * M) * d = (n * d) * M
  BY <1>0, Z3
<1>7. (p * (t + 1) + 2 * d) * M = p * t * M + M * p + 2 * (M * d)
  BY <1>0, Z3
<1>8. 2 * (T * t * d) + d <= p * t * M + t * p + 2 * (t * d)
  BY <1>0, <1>2, <1>3, <1>4, <1>5, <1>6, <1>7
<1>9. SUFFICES ASSUME ~((d * 2) * (T - 1) <= (M + 1) * p) PROVE FALSE
  BY DEF T, M
<1>10. (M + 1) * p + 1 <= (d * 2) * (T - 1)
  BY <1>0, <1>9
<1>11. ((M + 1) * p + 1) * t <= ((d * 2) * (T - 1)) * t
  <2>1. (M + 1) * p + 1 \in Nat /\ (d * 2) * (T - 1) \in Nat
    BY <1>0
  <2> QED
    BY <1>10, <2>1, MulMono
<1>12. ((M + 1) * p + 1) * t = p * t * M + t * p + t
  BY <1>0, Z3
<1>13. ((d * 2) * (T - 1)) * t = 2 * (T * t * d) - 2 * (t * d)
  BY <1>0, Z3
<1> QED
  BY <1>0, <1>8, <1>11, <1>12, <1>13

---------------------------------------------------------------------------
(* The invariant *)

\* The initial states satisfy the invariant.
LEMMA VarDiffInvInit == VarDiffInit => VarDiffInv
<1> SUFFICES ASSUME VarDiffInit PROVE VarDiffInv
  OBVIOUS
<1>1. power \in Nat /\ peakPower = power
  BY VarDiffAssumption DEF VarDiffInit
<1>2. VarDiffTypeOK
  <2>1. 0 \in -TickLag .. TickEvery /\ 0 \in 0 .. MaxChanges
    BY VarDiffAssumption
  <2>2. mining \in BOOLEAN /\ steady \in BOOLEAN
    BY DEF VarDiffInit
  <2>3. power \in Powers /\ peakPower \in Powers
    BY DEF VarDiffInit
  <2> QED
    BY <2>1, <2>2, <2>3, VarDiffAssumption DEF VarDiffInit, VarDiffTypeOK
<1>3. WorkInv
  <2>1. /\ share_count * current_diff + work = 0
        /\ peakPower * (elapsed + 1) = peakPower
    BY <1>1, VarDiffAssumption DEF VarDiffInit
  <2> QED
    BY <1>1, <2>1, VarDiffAssumption DEF VarDiffInit, WorkInv
<1>4. DifficultyFloor /\ NoRunaway
  BY VarDiffAssumption DEF VarDiffInit, DifficultyFloor, NoRunaway, Larger
<1> QED
  BY <1>2, <1>3, <1>4 DEF VarDiffInv

\* A step of the handshake, of the rig or of the submit branch.
LEMMA RigStep ==
  ASSUME VarDiffInv, Handshake \/ Authorized \/ Mine \/ SubmitShare \/ SkipTick
  PROVE  VarDiffInv'
<1> USE VarDiffAssumption
<1>1. /\ VarDiffTypeOK /\ WorkInv /\ DifficultyFloor /\ NoRunaway
      /\ current_diff' = current_diff /\ peakPower' = peakPower
      /\ power' = power
  BY DEF VarDiffInv, Handshake, Authorized, Mine, SubmitShare, SkipTick, rigVars,
     historyVars
<1>2. DifficultyFloor' /\ NoRunaway'
  BY <1>1 DEF DifficultyFloor, NoRunaway
<1>3. /\ power \in Nat /\ peakPower \in Nat /\ current_diff \in Nat \ {0}
      /\ work \in Nat /\ share_count \in Nat /\ elapsed \in Nat
      /\ peakPower * (elapsed + 1) \in Nat /\ share_count * current_diff \in Nat
  BY <1>1 DEF VarDiffTypeOK
<1>4. peakPower * ((elapsed + 1) + 1) = peakPower * (elapsed + 1) + peakPower
  BY <1>3, Z3
<1>5. CASE Handshake
  <2>1. VarDiffTypeOK'
    BY <1>1, <1>5 DEF Handshake, VarDiffTypeOK, rigVars, historyVars
  <2>2. WorkInv'
    BY <1>1, <1>3, <1>4, <1>5 DEF Handshake, WorkInv, rigVars, historyVars
  <2> QED
    BY <1>2, <2>1, <2>2 DEF VarDiffInv
<1>6. CASE Authorized
  <2>1. VarDiffTypeOK'
    BY <1>1, <1>6 DEF Authorized, VarDiffTypeOK, rigVars, historyVars
  <2>2. WorkInv'
    BY <1>1, <1>3, <1>6 DEF Authorized, WorkInv, rigVars, historyVars
  <2> QED
    BY <1>2, <2>1, <2>2 DEF VarDiffInv
<1>7. CASE Mine
  <2>1. VarDiffTypeOK'
    BY <1>1, <1>3, <1>7 DEF Mine, VarDiffTypeOK, historyVars
  <2>2. WorkInv'
    <3>1. share_count' * current_diff' + work' = share_count * current_diff + work + power
      BY <1>1, <1>3, <1>7 DEF Mine
    <3>2. work' < current_diff' + peakPower' /\ mining'
      BY <1>1, <1>3, <1>7 DEF Mine, WorkInv
    <3>3. peakPower' * (elapsed' + 1) = peakPower * (elapsed + 1) + peakPower
      BY <1>1, <1>3, <1>4, <1>7 DEF Mine
    <3> QED
      BY <1>1, <1>3, <3>1, <3>2, <3>3 DEF WorkInv
  <2> QED
    BY <1>2, <2>1, <2>2 DEF VarDiffInv
<1>8. CASE SubmitShare
  <2>1. VarDiffTypeOK'
    BY <1>1, <1>3, <1>8 DEF SubmitShare, VarDiffTypeOK, historyVars
  <2>2. WorkInv'
    <3>1. (share_count + 1) * current_diff = share_count * current_diff + current_diff
      BY <1>3, Z3
    <3>2. /\ share_count' * current_diff' + work' = share_count * current_diff + work
          /\ mining' /\ elapsed' = elapsed /\ work' <= work
      BY <1>1, <1>3, <1>8, <3>1 DEF SubmitShare
    <3>3. work' \in Nat
      BY <2>1 DEF VarDiffTypeOK
    <3> QED
      BY <1>1, <1>3, <3>2, <3>3 DEF WorkInv
  <2> QED
    BY <1>2, <2>1, <2>2 DEF VarDiffInv
<1>9. CASE SkipTick
  <2>1. VarDiffTypeOK'
    BY <1>1, <1>9 DEF SkipTick, VarDiffTypeOK, rigVars, historyVars
  <2>2. WorkInv'
    BY <1>1, <1>9 DEF SkipTick, WorkInv, rigVars, historyVars
  <2> QED
    BY <1>2, <2>1, <2>2 DEF VarDiffInv
<1> QED
  BY <1>5, <1>6, <1>7, <1>8, <1>9

\* A stronger rig only widens the bounds.
LEMMA PowerStep == ASSUME VarDiffInv, ChangePower PROVE VarDiffInv'
<1> USE VarDiffAssumption
<1>1. VarDiffTypeOK /\ WorkInv /\ DifficultyFloor /\ NoRunaway
  BY DEF VarDiffInv
<1>2. /\ peakPower' \in Powers /\ peakPower <= peakPower' /\ power' <= peakPower'
      /\ power' \in Powers
      /\ UNCHANGED <<mining, current_diff, share_count, elapsed, untilTick, work>>
  BY <1>1 DEF ChangePower, Larger, VarDiffTypeOK, sessionVars
<1>3. VarDiffTypeOK'
  <2>1. changes' \in 0 .. MaxChanges
    BY <1>1 DEF ChangePower, VarDiffTypeOK
  <2>2. steady' \in BOOLEAN /\ lastMove' \in {"none", "up", "down"}
    BY DEF ChangePower
  <2> QED
    BY <1>1, <1>2, <2>1, <2>2 DEF VarDiffTypeOK
<1>4. /\ peakPower \in Nat /\ peakPower' \in Nat /\ elapsed + 1 \in Nat
      /\ Minute + 1 \in Nat /\ current_diff \in Nat
      /\ work \in Nat /\ share_count * current_diff \in Nat
  BY <1>1, <1>2 DEF VarDiffTypeOK
<1>5. /\ peakPower * (elapsed + 1) <= peakPower' * (elapsed + 1)
      /\ peakPower * (Minute + 1) <= peakPower' * (Minute + 1)
      /\ peakPower * (elapsed + 1) \in Nat /\ peakPower' * (elapsed + 1) \in Nat
      /\ peakPower * (Minute + 1) \in Nat /\ peakPower' * (Minute + 1) \in Nat
  BY <1>2, <1>4, MulMono
<1>6. WorkInv'
  <2> DEFINE done == share_count * current_diff
             now == peakPower * (elapsed + 1)
             later == peakPower' * (elapsed + 1)
  <2>1. done + work <= now + 2 * current_diff
    BY <1>1 DEF WorkInv
  <2>2. done \in Nat /\ now \in Nat /\ later \in Nat /\ now <= later
    BY <1>4, <1>5
  <2>3. done' = done /\ peakPower' * (elapsed' + 1) = later
    BY <1>2
  <2> HIDE DEF done, now, later
  <2>4. done + work <= later + 2 * current_diff
    BY <1>4, <2>1, <2>2
  <2>5. share_count' * current_diff' + work' <= peakPower' * (elapsed' + 1) + 2 * current_diff'
    BY <1>2, <2>3, <2>4 DEF done
  <2>6. elapsed' # 0 => work' < current_diff' + peakPower'
    <3>1. elapsed # 0 => work < current_diff + peakPower
      BY <1>1 DEF WorkInv
    <3>2. /\ work \in Int /\ current_diff \in Int
          /\ peakPower \in Int /\ peakPower' \in Int /\ peakPower <= peakPower'
      BY <1>2, <1>4
    <3>3. work < current_diff + peakPower => work < current_diff + peakPower'
      BY <3>2, AddMono
    <3> QED
      BY <1>2, <3>1, <3>3
  <2>7. ~mining' => work' = 0 /\ share_count' = 0
    BY <1>1, <1>2 DEF WorkInv
  <2> QED
    BY <1>2, <2>5, <2>6, <2>7 DEF WorkInv
<1>7. DifficultyFloor'
  BY <1>1, <1>2 DEF DifficultyFloor
<1>8. NoRunaway'
  <2>1. CASE current_diff <= Larger(StartDiff, MinDiff)
    BY <1>2, <2>1 DEF NoRunaway
  <2>2. CASE current_diff * (SharesPerMin - 1) <= (Minute + 1) * peakPower
    <3>1. current_diff * (SharesPerMin - 1) \in Int
      BY <1>4
    <3>2. /\ (Minute + 1) * peakPower = peakPower * (Minute + 1)
          /\ (Minute + 1) * peakPower' = peakPower' * (Minute + 1)
      BY <1>4, Z3
    <3>3. current_diff * (SharesPerMin - 1) <= (Minute + 1) * peakPower'
      BY <1>5, <2>2, <3>1, <3>2
    <3> QED
      BY <1>2, <3>3 DEF NoRunaway
  <2> QED
    BY <1>1, <2>1, <2>2 DEF NoRunaway
<1> QED
  BY <1>3, <1>6, <1>7, <1>8 DEF VarDiffInv

\* A retarget.
LEMMA RetargetStep == ASSUME VarDiffInv, Retarget PROVE VarDiffInv'
<1> USE VarDiffAssumption
<1> DEFINE new == NewDiff(current_diff, share_count, elapsed)
<1>1. VarDiffTypeOK /\ WorkInv /\ DifficultyFloor /\ NoRunaway
  BY DEF VarDiffInv
<1>2. /\ current_diff' = new /\ share_count' = 0 /\ elapsed' = 0
      /\ mining /\ mining' /\ elapsed >= Minute
      /\ power' = power /\ work' = work /\ changes' = changes
      /\ peakPower' = peakPower
  BY DEF Retarget, rigVars
<1>3. /\ current_diff \in Nat \ {0} /\ share_count \in Nat /\ elapsed \in Nat
      /\ peakPower \in Nat /\ power \in Nat /\ work \in Nat
      /\ share_count * current_diff \in Nat /\ peakPower * (elapsed + 1) \in Nat
  BY <1>1 DEF VarDiffTypeOK
<1>4. /\ new \in Nat \ {0} /\ current_diff <= 2 * new + 1
      /\ new >= MinDiff \/ new >= current_diff
      /\ \/ new <= Larger(current_diff, MinDiff)
         \/ new = current_diff * 2 /\ TooFast(share_count, elapsed)
  BY <1>3, NewDiffFacts
<1> HIDE DEF new
<1>5. VarDiffTypeOK'
  <2>1. untilTick' \in -TickLag .. TickEvery
    BY <1>1 DEF Retarget, VarDiffTypeOK
  <2>2. lastMove' \in {"none", "up", "down"} /\ steady' \in BOOLEAN
    BY DEF Retarget, Move
  <2> QED
    BY <1>1, <1>2, <1>4, <2>1, <2>2 DEF VarDiffTypeOK
<1>6. WorkInv'
  <2>1. work < current_diff + peakPower
    BY <1>1, <1>2, <1>3 DEF WorkInv
  <2>2. share_count' * current_diff' = 0 /\ peakPower' * (elapsed' + 1) = peakPower
    BY <1>2, <1>3, <1>4
  <2> QED
    BY <1>1, <1>2, <1>3, <1>4, <2>1, <2>2 DEF WorkInv
<1>7. DifficultyFloor'
  BY <1>1, <1>2, <1>3, <1>4 DEF DifficultyFloor
<1>8. NoRunaway'
  <2>1. CASE new = current_diff * 2 /\ TooFast(share_count, elapsed)
    <3>1. share_count * current_diff <= peakPower * (elapsed + 1) + 2 * current_diff
      BY <1>1, <1>3 DEF WorkInv
    <3>2. new * (SharesPerMin - 1) <= (Minute + 1) * peakPower
      BY <1>2, <1>3, <2>1, <3>1, RaiseBound
    <3> QED
      BY <1>2, <3>2 DEF NoRunaway
  <2>2. CASE new <= Larger(current_diff, MinDiff)
    <3>1. CASE new <= Larger(StartDiff, MinDiff)
      BY <1>2, <3>1 DEF NoRunaway
    <3>2. CASE ~(new <= Larger(StartDiff, MinDiff))
      <4>1. new <= current_diff /\ ~(current_diff <= Larger(StartDiff, MinDiff))
        BY <1>3, <1>4, <2>2, <3>2 DEF Larger
      <4>2. current_diff * (SharesPerMin - 1) <= (Minute + 1) * peakPower
        BY <1>1, <4>1 DEF NoRunaway
      <4>3. new * (SharesPerMin - 1) <= current_diff * (SharesPerMin - 1)
        BY <1>3, <1>4, <4>1, MulMono
      <4>4. /\ new * (SharesPerMin - 1) \in Int /\ (Minute + 1) * peakPower \in Int
            /\ current_diff * (SharesPerMin - 1) \in Int
        BY <1>3, <1>4
      <4>5. new * (SharesPerMin - 1) <= (Minute + 1) * peakPower
        BY <4>2, <4>3, <4>4
      <4> QED
        BY <1>2, <4>5 DEF NoRunaway
    <3> QED
      BY <3>1, <3>2
  <2> QED
    BY <1>4, <2>1, <2>2
<1> QED
  BY <1>5, <1>6, <1>7, <1>8 DEF VarDiffInv

\* Every step preserves the invariant.
LEMMA VarDiffInvStep == VarDiffInv /\ [VarDiffNext]_vdVars => VarDiffInv'
<1> SUFFICES ASSUME VarDiffInv, [VarDiffNext]_vdVars PROVE VarDiffInv'
  OBVIOUS
<1>1. CASE UNCHANGED vdVars
  BY <1>1 DEF vdVars, sessionVars, rigVars, historyVars, VarDiffInv, VarDiffTypeOK,
     WorkInv, DifficultyFloor, NoRunaway
<1> QED
  BY <1>1, RigStep, PowerStep, RetargetStep DEF VarDiffNext

\* The invariant holds throughout.
THEOREM VarDiffInvariant == VarDiffSpec => []VarDiffInv
BY VarDiffInvInit, VarDiffInvStep, PTL DEF VarDiffSpec

\* Types: in particular the difficulty is never 0, whatever the minimum, and no
\* tick is missed by more than the lag.
THEOREM VarDiffTypeCorrect == VarDiffSpec => []VarDiffTypeOK
<1>1. VarDiffInv => VarDiffTypeOK
  BY DEF VarDiffInv
<1> QED
  BY <1>1, VarDiffInvariant, PTL

\* Retargeting keeps to the minimum, for every tier and every configuration.
THEOREM FloorKept == VarDiffSpec => []DifficultyFloor
<1>1. VarDiffInv => DifficultyFloor
  BY DEF VarDiffInv
<1> QED
  BY <1>1, VarDiffInvariant, PTL

\* The difficulty is bounded by what the strongest rig can do, however ticks,
\* submissions and changes of power fall.
THEOREM Bounded == VarDiffSpec => []NoRunaway
<1>1. VarDiffInv => NoRunaway
  BY DEF VarDiffInv
<1> QED
  BY <1>1, VarDiffInvariant, PTL

---------------------------------------------------------------------------
(* No flapping *)

\* What clamp_to_power_of_2 returns: the least set with 1 that is closed under
\* doubling.
Doubling(S) == 1 \in S /\ \A x \in S : 2 * x \in S
PowersOfTwo == {d \in Nat \ {0} : \A S \in SUBSET Nat : Doubling(S) => d \in S}

\* Doubling and, above 1, halving lead from one power of two to another.
LEMMA PowersOfTwoFacts ==
  ASSUME NEW d \in PowersOfTwo
  PROVE  /\ d \in Nat \ {0}
         /\ d * 2 \in PowersOfTwo
         /\ d = 1 \/ (d \div 2 \in PowersOfTwo /\ d = 2 * (d \div 2))
<1>1. d \in Nat \ {0} /\ \A S \in SUBSET Nat : Doubling(S) => d \in S
  BY DEF PowersOfTwo
<1>2. 1 \in PowersOfTwo
  BY DEF PowersOfTwo, Doubling
<1>3. \A x \in PowersOfTwo : x \in Nat \ {0} /\ 2 * x \in PowersOfTwo
  BY DEF PowersOfTwo, Doubling
<1> DEFINE H == {x \in Nat : x = 1 \/ (x \div 2 \in PowersOfTwo /\ x = 2 * (x \div 2))}
<1>4. Doubling(H)
  <2>1. 1 \in H
    OBVIOUS
  <2>2. ASSUME NEW x \in H PROVE 2 * x \in H
    <3>1. x \in Nat /\ (2 * x) \div 2 = x /\ 2 * x \in Nat
      BY Z3
    <3>2. x \in PowersOfTwo
      BY <1>2, <1>3
    <3> QED
      BY <3>1, <3>2
  <2> HIDE DEF H
  <2> QED
    BY <2>1, <2>2 DEF Doubling
<1>5. d \in H
  <2>1. H \in SUBSET Nat
    OBVIOUS
  <2> HIDE DEF H
  <2> QED
    BY <1>1, <1>4, <2>1
<1>6. d * 2 = 2 * d
  BY <1>1
<1> QED
  BY <1>1, <1>3, <1>5, <1>6

\* A retarget keeps to powers of two, and a lowered difficulty is at least half
\* of the one before.
LEMMA PowerKept ==
  ASSUME NEW d \in PowersOfTwo, NEW n \in Nat, NEW t \in Nat, MinDiff \in PowersOfTwo
  PROVE  /\ NewDiff(d, n, t) \in PowersOfTwo
         /\ NewDiff(d, n, t) < d => d <= 2 * NewDiff(d, n, t)
         /\ NewDiff(d, n, t) < d => NewDiff(d, n, t) >= MinDiff /\ TooSlow(n, t)
         /\ NewDiff(d, n, t) > d =>
              \/ NewDiff(d, n, t) = MinDiff /\ d < MinDiff
              \/ NewDiff(d, n, t) = 2 * d /\ TooFast(n, t)
<1>1. /\ d \in Nat \ {0} /\ d * 2 \in PowersOfTwo
      /\ d = 1 \/ (d \div 2 \in PowersOfTwo /\ d = 2 * (d \div 2))
  BY PowersOfTwoFacts
<1>2. MinDiff \in Nat \ {0}
  BY VarDiffAssumption
<1>3. d \div 2 \in Nat /\ d \div 2 < d /\ (d = 1 => d \div 2 = 0)
  BY <1>1, Z3
<1>4. CASE TooSlow(n, t)
  <2>1. NewDiff(d, n, t) = Lowered(d)
    BY <1>4 DEF NewDiff
  <2>2. CASE d \div 2 >= MinDiff
    <3>1. Lowered(d) = d \div 2
      BY <2>2 DEF Lowered, Larger
    <3> QED
      BY <1>1, <1>2, <1>3, <1>4, <2>1, <2>2, <3>1
  <2>3. CASE ~(d \div 2 >= MinDiff)
    <3>1. Lowered(d) = MinDiff
      BY <2>3 DEF Lowered, Larger
    <3> QED
      BY <1>1, <1>2, <1>3, <1>4, <2>1, <2>3, <3>1
  <2> QED
    BY <2>2, <2>3
<1>5. CASE ~TooSlow(n, t) /\ TooFast(n, t)
  <2>1. NewDiff(d, n, t) = d * 2
    BY <1>5 DEF NewDiff
  <2> QED
    BY <1>1, <1>2, <1>5, <2>1
<1>6. CASE ~TooSlow(n, t) /\ ~TooFast(n, t)
  <2>1. NewDiff(d, n, t) = d
    BY <1>6 DEF NewDiff
  <2> QED
    BY <1>1, <1>2, <2>1
<1> QED
  BY <1>4, <1>5, <1>6

\* The power that a measurement of more than twice the target proves: n shares
\* of difficulty d in time t, and no more than one of them from before.
LEMMA FastBound ==
  ASSUME NEW d \in Nat \ {0}, NEW n \in Nat, NEW t \in Nat, NEW p \in Nat,
         t >= Minute, TooFast(n, t), n * d < p * t + d
  PROVE  (2 * SharesPerMin - 1) * d < Minute * p
<1> DEFINE T == SharesPerMin
           M == Minute
<1>0. T \in Nat \ {0} /\ M \in Nat \ {0}
  BY VarDiffAssumption
<1>1. 2 * T * t + 1 <= n * M /\ t >= M
  BY <1>0 DEF TooFast
<1>2. SUFFICES ASSUME ~((2 * T - 1) * d < M * p) PROVE FALSE
  BY DEF T, M
<1> HIDE DEF T, M
<1>3. (2 * T * t + 1) * d <= (n * M) * d
  <2>1. 2 * T * t + 1 \in Nat /\ n * M \in Nat
    BY <1>0
  <2> QED
    BY <1>1, <2>1, MulMono
<1>4. (n * d) * M <= (p * t + d) * M
  <2>1. n * d \in Nat /\ p * t + d \in Nat
    OBVIOUS
  <2> QED
    BY <1>0, <2>1, MulMono
<1>5. (M * p) * t <= ((2 * T - 1) * d) * t
  <2>1. M * p \in Nat /\ (2 * T - 1) * d \in Nat
    BY <1>0
  <2> QED
    BY <1>2, <2>1, MulMono
<1>6. M * d <= t * d
  BY <1>0, <1>1, MulMono
<1>7. (2 * T * t + 1) * d = 2 * (T * t * d) + d
  BY <1>0, Z3
<1>8. (n * M) * d = (n * d) * M
  BY <1>0, Z3
<1>9. (p * t + d) * M = (M * p) * t + M * d
  BY <1>0, Z3
<1>10. ((2 * T - 1) * d) * t = 2 * (T * t * d) - t * d
  BY <1>0, Z3
<1>11. /\ T * t * d \in Nat /\ t * d \in Nat /\ M * d \in Nat /\ (M * p) * t \in Nat
       /\ (n * d) * M \in Nat
  BY <1>0
<1> QED
  BY <1>3, <1>4, <1>5, <1>6, <1>7, <1>8, <1>9, <1>10, <1>11

\* The power that a measurement of less than half the target leaves: at most a
\* share and a unit of work are still under way.
LEMMA SlowBound ==
  ASSUME NEW d \in Nat \ {0}, NEW n \in Nat, NEW t \in Nat, NEW p \in Nat,
         t >= Minute, TooSlow(n, t), p * t < n * d + d + p
  PROVE  2 * ((Minute - 1) * p) < (SharesPerMin + 2) * d
<1> DEFINE T == SharesPerMin
           M == Minute
<1>0. T \in Nat \ {0} /\ M \in Nat \ {0}
  BY VarDiffAssumption
<1>1. 2 * n * M + 1 <= T * t /\ t >= M
  BY <1>0 DEF TooSlow
<1>2. SUFFICES ASSUME ~(2 * ((M - 1) * p) < (T + 2) * d) PROVE FALSE
  BY DEF T, M
<1> HIDE DEF T, M
<1>3. (2 * n * M) * d <= (T * t) * d
  <2>1. 2 * n * M \in Nat /\ T * t \in Nat
    BY <1>0
  <2> QED
    BY <1>0, <1>1, <2>1, MulMono
<1>4. (p * t + 1) * M <= (n * d + d + p) * M
  <2>1. p * t + 1 \in Nat /\ n * d + d + p \in Nat /\ p * t + 1 <= n * d + d + p
    OBVIOUS
  <2> QED
    BY <1>0, <2>1, MulMono
<1>5. ((T + 2) * d) * M <= (2 * ((M - 1) * p)) * M
  <2>1. (T + 2) * d \in Nat /\ 2 * ((M - 1) * p) \in Nat
    BY <1>0
  <2> QED
    BY <1>0, <1>2, <2>1, MulMono
<1> DEFINE k == t - M
<1>6. k \in Nat /\ t = M + k
  BY <1>0, <1>1
<1> HIDE DEF k
<1>7. (T * d) * k <= (2 * (M * p)) * k
  <2>1. T * d \in Nat /\ 2 * (M * p) \in Nat /\ T * d <= 2 * (M * p)
    <3>1. (T + 2) * d = T * d + 2 * d /\ (M - 1) * p = M * p - p
      BY <1>0, Z3
    <3>2. T * d \in Nat /\ M * p \in Nat
      BY <1>0
    <3> QED
      BY <1>2, <3>1, <3>2
  <2> QED
    BY <1>6, <2>1, MulMono
<1>8. (2 * n * M) * d = 2 * ((n * d) * M)
  BY <1>0, Z3
<1>9. (p * t + 1) * M = p * M * M + p * M * k + M
  BY <1>0, <1>6, Z3
<1>10. (n * d + d + p) * M = (n * d) * M + M * d + p * M
  BY <1>0, Z3
<1>11. ((T + 2) * d) * M = (T * d) * M + 2 * (M * d)
  BY <1>0, Z3
<1>12. (2 * ((M - 1) * p)) * M = 2 * (p * M * M) - 2 * (p * M)
  BY <1>0, Z3
<1>13. (2 * (M * p)) * k = 2 * (p * M * k)
  BY <1>0, <1>6, Z3
<1>14. (T * t) * d = (T * d) * M + (T * d) * k
  BY <1>0, <1>6, Z3
<1>15. /\ p * M * M \in Nat /\ p * M * k \in Nat /\ M * d \in Nat /\ p * M \in Nat
       /\ (T * d) * M \in Nat /\ (T * d) * k \in Nat /\ (n * d) * M \in Nat
  BY <1>0, <1>6
<1> QED
  BY <1>0, <1>3, <1>4, <1>5, <1>7, <1>8, <1>9, <1>10, <1>11, <1>12, <1>13, <1>14, <1>15

\* The target is large enough, at this resolution of time, for half and twice
\* of it to be told apart in spite of a share at each end of a measurement.
TargetApart == Minute * (SharesPerMin - 3) >= 2 * SharesPerMin - 1

\* No power is more than twice the target at a difficulty and, halved, less than
\* half the target at the next one.
LEMMA Apart ==
  ASSUME TargetApart, NEW d \in Nat \ {0}, NEW p \in Nat,
         (2 * SharesPerMin - 1) * d < Minute * p,
         (Minute - 1) * p < (SharesPerMin + 2) * d
  PROVE  FALSE
<1> DEFINE T == SharesPerMin
           M == Minute
<1>0. T \in Nat \ {0} /\ M \in Nat \ {0}
  BY VarDiffAssumption
<1>1. M * (T - 3) >= 2 * T - 1
  BY DEF TargetApart
<1>2. (2 * T - 1) * d <= M * p /\ (M - 1) * p + 1 <= (T + 2) * d
  <2>1. (2 * T - 1) * d \in Nat /\ M * p \in Nat /\ (M - 1) * p \in Nat /\ (T + 2) * d \in Nat
    BY <1>0
  <2> QED
    BY <2>1
<1> HIDE DEF T, M
<1>3. ((2 * T - 1) * d) * (M - 1) <= (M * p) * (M - 1)
  <2>1. (2 * T - 1) * d \in Nat /\ M * p \in Nat /\ M - 1 \in Nat
    BY <1>0
  <2> QED
    BY <1>2, <2>1, MulMono
<1>4. ((M - 1) * p + 1) * M <= ((T + 2) * d) * M
  <2>1. (M - 1) * p + 1 \in Nat /\ (T + 2) * d \in Nat
    BY <1>0
  <2> QED
    BY <1>0, <1>2, <2>1, MulMono
<1>5. (2 * T - 1) * d <= (M * (T - 3)) * d
  <2>1. 2 * T - 1 \in Nat /\ M * (T - 3) \in Nat
    BY <1>0, <1>1
  <2> QED
    BY <1>1, <2>1, MulMono
<1>6. ((2 * T - 1) * d) * (M - 1) = 2 * (T * M * d) - M * d - 2 * (T * d) + d
  BY <1>0, Z3
<1>7. ((M - 1) * p + 1) * M = (M * p) * (M - 1) + M
  BY <1>0, Z3
<1>8. ((T + 2) * d) * M = T * M * d + 2 * (M * d)
  BY <1>0, Z3
<1>9. (2 * T - 1) * d = 2 * (T * d) - d
  BY <1>0, Z3
<1>10. (M * (T - 3)) * d = T * M * d - 3 * (M * d)
  BY <1>0, Z3
<1>11. T * M * d \in Nat /\ M * d \in Nat /\ T * d \in Nat /\ (M * p) * (M - 1) \in Nat
  BY <1>0
<1> QED
  BY <1>0, <1>3, <1>4, <1>5, <1>6, <1>7, <1>8, <1>9, <1>10, <1>11

\* A steady measurement: what was counted and is under way is the work of the
\* present power in the time measured, give or take the share it began in; and a
\* unit of time leaves at most its own work behind.
SteadyInv ==
  steady =>
    /\ mining
    /\ share_count * current_diff + work >= power * elapsed
    /\ share_count * current_diff + work < power * elapsed + current_diff
    /\ work < current_diff + power

\* What the last steady measurement says of the power, in terms of the
\* difficulty it led to.
MoveInv ==
  /\ lastMove = "up" =>
       \/ current_diff = MinDiff
       \/ (2 * SharesPerMin - 1) * current_diff < Minute * (2 * power)
  /\ lastMove = "down" =>
       /\ current_diff >= MinDiff
       /\ (Minute - 1) * power < (SharesPerMin + 2) * current_diff

CalmInv == current_diff \in PowersOfTwo /\ SteadyInv /\ MoveInv

\* The bounds of a measurement that was steady.
LEMMA SteadyMeasured ==
  ASSUME VarDiffTypeOK, SteadyInv, steady, elapsed >= Minute
  PROVE  /\ TooFast(share_count, elapsed) =>
              (2 * SharesPerMin - 1) * current_diff < Minute * power
         /\ TooSlow(share_count, elapsed) =>
              2 * ((Minute - 1) * power) < (SharesPerMin + 2) * current_diff
<1>1. /\ current_diff \in Nat \ {0} /\ share_count \in Nat /\ elapsed \in Nat
      /\ power \in Nat /\ work \in Nat
      /\ share_count * current_diff \in Nat /\ power * elapsed \in Nat
  BY VarDiffAssumption DEF VarDiffTypeOK
<1>2. /\ share_count * current_diff < power * elapsed + current_diff
      /\ power * elapsed < share_count * current_diff + current_diff + power
  BY <1>1 DEF SteadyInv
<1> QED
  BY <1>1, <1>2, FastBound, SlowBound

\* Steps other than a retarget leave the difficulty alone, and a change of power
\* begins the argument anew.
LEMMA CalmOtherwise ==
  ASSUME VarDiffInv, CalmInv,
         Handshake \/ Authorized \/ Mine \/ SubmitShare \/ SkipTick \/ ChangePower
  PROVE  CalmInv' /\ current_diff' = current_diff
<1> USE VarDiffAssumption
<1>1. VarDiffTypeOK /\ SteadyInv /\ MoveInv /\ current_diff \in PowersOfTwo
  BY DEF VarDiffInv, CalmInv
<1>2. /\ current_diff \in Nat \ {0} /\ share_count \in Nat /\ elapsed \in Nat
      /\ power \in Nat /\ work \in Nat
      /\ share_count * current_diff \in Nat /\ power * elapsed \in Nat
  BY <1>1 DEF VarDiffTypeOK
<1>3. CASE ChangePower
  BY <1>1, <1>3 DEF ChangePower, sessionVars, CalmInv, SteadyInv, MoveInv
<1>4. CASE Handshake \/ Authorized
  BY <1>1, <1>4 DEF Handshake, Authorized, rigVars, historyVars, CalmInv, SteadyInv,
     MoveInv
<1>5. CASE SkipTick
  BY <1>1, <1>5 DEF SkipTick, rigVars, historyVars, CalmInv, SteadyInv, MoveInv
<1>6. CASE Mine
  <2>1. power * (elapsed + 1) = power * elapsed + power
    BY <1>2, Z3
  <2>2. SteadyInv'
    BY <1>1, <1>2, <1>6, <2>1 DEF Mine, historyVars, SteadyInv
  <2> QED
    BY <1>1, <1>6, <2>2 DEF Mine, historyVars, CalmInv, MoveInv
<1>7. CASE SubmitShare
  <2>1. (share_count + 1) * current_diff = share_count * current_diff + current_diff
    BY <1>2, Z3
  <2>2. SteadyInv'
    BY <1>1, <1>2, <1>7, <2>1 DEF SubmitShare, historyVars, SteadyInv
  <2> QED
    BY <1>1, <1>7, <2>2 DEF SubmitShare, historyVars, CalmInv, MoveInv
<1> QED
  BY <1>3, <1>4, <1>5, <1>6, <1>7

\* A retarget: the power that its move proves is what the next one is held
\* against.
LEMMA CalmRetarget ==
  ASSUME VarDiffInv, CalmInv, Retarget, MinDiff \in PowersOfTwo
  PROVE  CalmInv'
<1> USE VarDiffAssumption
<1> DEFINE new == NewDiff(current_diff, share_count, elapsed)
<1>1. VarDiffTypeOK /\ SteadyInv /\ MoveInv /\ current_diff \in PowersOfTwo
  BY DEF VarDiffInv, CalmInv
<1>2. /\ current_diff' = new /\ share_count' = 0 /\ elapsed' = 0
      /\ mining' /\ elapsed >= Minute /\ power' = power /\ work' = work
      /\ steady' = (work < new)
      /\ lastMove' = IF steady THEN Move(current_diff, new) ELSE "none"
  BY DEF Retarget, rigVars
<1>3. /\ current_diff \in Nat \ {0} /\ share_count \in Nat /\ elapsed \in Nat
      /\ power \in Nat /\ work \in Nat
  BY <1>1 DEF VarDiffTypeOK
<1>4. /\ new \in PowersOfTwo
      /\ new < current_diff => /\ current_diff <= 2 * new /\ new >= MinDiff
                               /\ TooSlow(share_count, elapsed)
      /\ new > current_diff =>
           \/ new = MinDiff
           \/ new = 2 * current_diff /\ TooFast(share_count, elapsed)
  BY <1>1, <1>3, PowerKept
<1>5. new \in Nat \ {0}
  BY <1>4, PowersOfTwoFacts
<1> HIDE DEF new
<1>6. SteadyInv'
  <2>1. share_count' * current_diff' = 0 /\ power' * elapsed' = 0
    BY <1>2, <1>3, <1>5
  <2>2. steady' => work < new
    BY <1>2
  <2>3. /\ work >= 0
        /\ work < new => work < new + power
    BY <1>3, <1>5
  <2>4. /\ share_count' * current_diff' + work' = work
        /\ power' * elapsed' + current_diff' = new
    BY <1>2, <1>3, <1>5, <2>1
  <2> QED
    BY <1>2, <2>1, <2>2, <2>3, <2>4 DEF SteadyInv
<1>7. MoveInv'
  <2>1. ASSUME lastMove' = "up"
        PROVE  new = MinDiff \/ (2 * SharesPerMin - 1) * new < Minute * (2 * power)
    <3>1. steady /\ new > current_diff
      BY <1>2, <2>1 DEF Move
    <3>2. CASE new = 2 * current_diff /\ TooFast(share_count, elapsed)
      <4>1. (2 * SharesPerMin - 1) * current_diff < Minute * power
        BY <1>1, <1>2, <3>1, <3>2, SteadyMeasured
      <4>2. /\ (2 * SharesPerMin - 1) * (2 * current_diff)
                 = 2 * ((2 * SharesPerMin - 1) * current_diff)
            /\ Minute * (2 * power) = 2 * (Minute * power)
        BY <1>3, Z3
      <4>3. (2 * SharesPerMin - 1) * current_diff \in Int /\ Minute * power \in Int
        BY <1>3
      <4> QED
        BY <3>2, <4>1, <4>2, <4>3
    <3> QED
      BY <1>4, <3>1, <3>2
  <2>2. ASSUME lastMove' = "down"
        PROVE  new >= MinDiff /\ (Minute - 1) * power < (SharesPerMin + 2) * new
    <3>1. steady /\ new < current_diff
      BY <1>2, <2>2 DEF Move
    <3>2. 2 * ((Minute - 1) * power) < (SharesPerMin + 2) * current_diff
      BY <1>1, <1>2, <1>4, <3>1, SteadyMeasured
    <3>3. current_diff * (SharesPerMin + 2) <= (2 * new) * (SharesPerMin + 2)
      BY <1>3, <1>4, <1>5, <3>1, MulMono
    <3>4. /\ current_diff * (SharesPerMin + 2) = (SharesPerMin + 2) * current_diff
          /\ (2 * new) * (SharesPerMin + 2) = 2 * ((SharesPerMin + 2) * new)
      BY <1>3, <1>5, Z3
    <3>5. /\ (SharesPerMin + 2) * current_diff \in Int
          /\ (SharesPerMin + 2) * new \in Int /\ (Minute - 1) * power \in Int
      BY <1>3, <1>5
    <3> QED
      BY <1>4, <3>1, <3>2, <3>3, <3>4, <3>5
  <2> QED
    BY <1>2, <2>1, <2>2 DEF MoveInv
<1> QED
  BY <1>2, <1>4, <1>6, <1>7 DEF CalmInv

\* Two steady measurements do not move the difficulty back and forth.
LEMMA NotBack ==
  ASSUME VarDiffInv, CalmInv, Retarget, MinDiff \in PowersOfTwo, TargetApart,
         steady, lastMove \in {"up", "down"}
  PROVE  Move(current_diff, current_diff') \in {"none", lastMove}
<1> USE VarDiffAssumption
<1> DEFINE new == NewDiff(current_diff, share_count, elapsed)
<1>1. VarDiffTypeOK /\ SteadyInv /\ MoveInv /\ current_diff \in PowersOfTwo
  BY DEF VarDiffInv, CalmInv
<1>2. current_diff' = new /\ elapsed >= Minute
  BY DEF Retarget
<1>3. /\ current_diff \in Nat \ {0} /\ share_count \in Nat /\ elapsed \in Nat
      /\ power \in Nat
  BY <1>1 DEF VarDiffTypeOK
<1>4. /\ new \in PowersOfTwo
      /\ new < current_diff => new >= MinDiff /\ TooSlow(share_count, elapsed)
      /\ new > current_diff /\ current_diff >= MinDiff => TooFast(share_count, elapsed)
  BY <1>1, <1>3, PowerKept
<1>5. new \in Nat \ {0}
  BY <1>4, PowersOfTwoFacts
<1> HIDE DEF new
<1>6. ~(lastMove = "up" /\ new < current_diff)
  <2> SUFFICES ASSUME lastMove = "up", new < current_diff PROVE FALSE
    OBVIOUS
  <2>1. (2 * SharesPerMin - 1) * current_diff < Minute * (2 * power)
    BY <1>1, <1>3, <1>4, <1>5 DEF MoveInv
  <2>2. 2 * ((Minute - 1) * power) < (SharesPerMin + 2) * current_diff
    BY <1>1, <1>2, <1>4, SteadyMeasured
  <2>3. 2 * ((Minute - 1) * power) = (Minute - 1) * (2 * power) /\ 2 * power \in Nat
    BY <1>3, Z3
  <2> QED
    BY <1>3, <2>1, <2>2, <2>3, Apart
<1>7. ~(lastMove = "down" /\ new > current_diff)
  <2> SUFFICES ASSUME lastMove = "down", new > current_diff PROVE FALSE
    OBVIOUS
  <2>1. current_diff >= MinDiff /\ (Minute - 1) * power < (SharesPerMin + 2) * current_diff
    BY <1>1 DEF MoveInv
  <2>2. (2 * SharesPerMin - 1) * current_diff < Minute * power
    BY <1>1, <1>2, <1>4, <2>1, SteadyMeasured
  <2> QED
    BY <1>3, <2>1, <2>2, Apart
<1> QED
  BY <1>2, <1>3, <1>5, <1>6, <1>7 DEF Move

\* A rig of constant power is not moved back and forth, wherever the ticks fall,
\* if both difficulties of the configuration are powers of two, as the code makes
\* them, and the target is large enough.  The default of 20 shares a minute is,
\* once shares are submitted within a third of a minute; a target of 4 is, once
\* they are submitted within a seventh.
THEOREM NeverFlaps ==
  ASSUME StartDiff \in PowersOfTwo, MinDiff \in PowersOfTwo, TargetApart
  PROVE  VarDiffSpec => NoFlapping
<1>1. VarDiffInit => CalmInv
  BY DEF VarDiffInit, CalmInv, SteadyInv, MoveInv
<1>2. ASSUME VarDiffInv, CalmInv, [VarDiffNext]_vdVars
      PROVE  CalmInv'
  <2>1. CASE UNCHANGED vdVars
    BY <1>2, <2>1 DEF vdVars, sessionVars, rigVars, historyVars, CalmInv, SteadyInv, MoveInv
  <2> QED
    BY <1>2, <2>1, CalmOtherwise, CalmRetarget DEF VarDiffNext
<1>3. ASSUME VarDiffInv, CalmInv, [VarDiffNext]_vdVars
      PROVE  [steady /\ lastMove \in {"up", "down"}
                => Move(current_diff, current_diff') \in {"none", lastMove}]_vdVars
  <2>1. SUFFICES ASSUME VarDiffNext, steady, lastMove \in {"up", "down"}
                 PROVE  Move(current_diff, current_diff') \in {"none", lastMove}
    BY <1>3
  <2>2. CASE Retarget
    BY <1>3, <2>1, <2>2, NotBack
  <2>3. CASE ~Retarget
    <3>1. current_diff' = current_diff /\ current_diff \in Nat
      BY <1>3, <2>1, <2>3, CalmOtherwise DEF VarDiffNext, VarDiffInv, VarDiffTypeOK
    <3> QED
      BY <3>1 DEF Move
  <2> QED
    BY <2>2, <2>3
<1> QED
  BY <1>1, <1>2, <1>3, VarDiffInvariant, PTL DEF VarDiffSpec, NoFlapping
=============================================================================
