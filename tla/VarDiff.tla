------------------------------ MODULE VarDiff ------------------------------
(***************************************************************************)
(* The variable difficulty of one connection: the retarget branch of the   *)
(* select loop in handle_worker_connection (src/src/stratum_tcp/mod.rs),   *)
(* with the share counter of its submit branch.                            *)
(*                                                                         *)
(* The miner is a rig of some power that finds its shares regularly: in a  *)
(* unit of time it does `power' units of work, and a share is found for    *)
(* every current_diff of them.  (Shares found at random come close to this *)
(* at the 20 per minute the pool aims at.)  A share is submitted within    *)
(* the unit of time in which it is found.  The rig may change its power.   *)
(***************************************************************************)
EXTENDS Integers

CONSTANTS
  StartDiff,      \* clamp_to_power_of_2(difficulty) of the tier
  MinDiff,        \* clamp_to_power_of_2(config.min_share_diff)
  SharesPerMin,   \* config.shares_per_min
  TickEvery,      \* period of vardiff_interval (30 s)
  Minute,         \* a retarget is due after this time (60 s)
  TickLag,        \* the select loop takes a due tick within this time
  Powers,         \* powers a rig may have
  MaxHandshake,   \* bound of the model on the time a handshake takes
  MaxChanges      \* bound of the model on the changes of power

ASSUME VarDiffAssumption ==
  /\ StartDiff \in Nat \ {0} /\ MinDiff \in Nat \ {0}
  /\ SharesPerMin \in Nat \ {0}
  /\ TickEvery \in Nat \ {0} /\ Minute \in Nat \ {0}
  /\ TickLag \in Nat
  /\ Powers \subseteq Nat \ {0} /\ Powers # {}
  /\ MaxHandshake \in Nat /\ MaxChanges \in Nat

VARIABLES
  mining,        \* the handshake is done, the select loop runs
  current_diff,
  share_count,
  elapsed,       \* last_vardiff_retarget.elapsed()
  untilTick,     \* time until vardiff_interval's next deadline
  power,         \* of the rig
  work,          \* done by the rig towards shares it has not submitted yet
  changes,       \* how often the power has changed
  peakPower,     \* history: the largest power so far
  steady,        \* history: the running measurement began without shares under
                 \* way, and the power has been the same since
  lastMove       \* history: how the last steady retarget moved the difficulty

sessionVars == <<mining, current_diff, share_count, elapsed, untilTick>>
rigVars     == <<power, work, changes>>
historyVars == <<peakPower, steady, lastMove>>
vdVars      == <<sessionVars, rigVars, historyVars>>

Larger(a, b) == IF a >= b THEN a ELSE b

VarDiffTypeOK ==
  /\ mining \in BOOLEAN
  /\ current_diff \in Nat \ {0}
  /\ share_count \in Nat
  /\ elapsed \in Nat
  /\ untilTick \in -TickLag .. TickEvery
  /\ power \in Powers /\ peakPower \in Powers
  /\ work \in Nat
  /\ changes \in 0 .. MaxChanges
  /\ steady \in BOOLEAN
  /\ lastMove \in {"none", "up", "down"}

VarDiffInit ==
  /\ mining = FALSE
  /\ current_diff = StartDiff
  /\ share_count = 0
  /\ elapsed = 0
  /\ untilTick = 0                \* the interval's first tick is immediate
  /\ power \in Powers
  /\ work = 0
  /\ changes = 0
  /\ peakPower = power
  /\ steady = FALSE
  /\ lastMove = "none"

---------------------------------------------------------------------------
\* The handshake is over; last_vardiff_retarget was set before it began.
Authorized ==
  /\ ~mining
  /\ mining' = TRUE
  /\ UNCHANGED <<current_diff, share_count, elapsed, untilTick, rigVars, historyVars>>

\* A unit of time passes: in the handshake, or with the rig at work.
Handshake ==
  /\ ~mining
  /\ elapsed < MaxHandshake
  /\ elapsed' = elapsed + 1
  /\ UNCHANGED <<mining, current_diff, share_count, untilTick, rigVars, historyVars>>

Mine ==
  /\ mining
  /\ work < current_diff
  /\ untilTick > -TickLag
  /\ work' = work + power
  /\ elapsed' = elapsed + 1
  /\ untilTick' = untilTick - 1
  /\ UNCHANGED <<mining, current_diff, share_count, power, changes, historyVars>>

\* mining.submit, the branch of a valid share.
SubmitShare ==
  /\ mining
  /\ work >= current_diff
  /\ work' = work - current_diff
  /\ share_count' = share_count + 1
  /\ UNCHANGED <<mining, current_diff, elapsed, untilTick, power, changes, historyVars>>

ChangePower ==
  /\ changes < MaxChanges
  /\ power' \in Powers \ {power}
  /\ changes' = changes + 1
  /\ peakPower' = Larger(peakPower, power')
  /\ steady' = FALSE
  /\ lastMove' = "none"
  /\ UNCHANGED <<sessionVars, work>>

---------------------------------------------------------------------------
(* The retarget: shares_per_min is share_count * Minute / elapsed *)

\* Less than half the target, more than twice the target.
TooSlow(n, t) == 2 * n * Minute < SharesPerMin * t
TooFast(n, t) == n * Minute > 2 * SharesPerMin * t

\* Mutant: the minimum is forgotten.
Lowered_NoFloor(diff) == diff \div 2

\* The quotient of the integer division may be 0; the minimum is not.
Lowered(diff) == Larger(diff \div 2, MinDiff)

\* Mutant: a miner that was lowered to the minimum stays there.
NewDiff_Sticks(diff, n, t) ==
  IF diff = MinDiff THEN diff
  ELSE IF TooSlow(n, t) THEN Lowered(diff)
  ELSE IF TooFast(n, t) THEN diff * 2
  ELSE diff

\* Mutant: a miner that is merely above the target is raised.
NewDiff_Eager(diff, n, t) ==
  IF TooSlow(n, t) THEN Lowered(diff)
  ELSE IF n * Minute > SharesPerMin * t THEN diff * 2
  ELSE diff

NewDiff(diff, n, t) ==
  IF TooSlow(n, t) THEN Lowered(diff)
  ELSE IF TooFast(n, t) THEN diff * 2
  ELSE diff

Move(old, new) ==
  IF new > old THEN "up" ELSE IF new < old THEN "down" ELSE "none"

\* A tick with a full minute since the last retarget.  The measurement starts
\* over whether or not the difficulty moved.
Retarget_KeepsCount ==
  /\ mining
  /\ untilTick <= 0
  /\ elapsed >= Minute
  /\ current_diff' = NewDiff(current_diff, share_count, elapsed)
  /\ UNCHANGED share_count
  /\ elapsed' = 0
  /\ untilTick' = untilTick + TickEvery
  /\ steady' = (work < current_diff')
  /\ lastMove' = IF steady THEN Move(current_diff, current_diff') ELSE "none"
  /\ UNCHANGED <<mining, rigVars, peakPower>>

Retarget ==
  /\ mining
  /\ untilTick <= 0
  /\ elapsed >= Minute
  /\ current_diff' = NewDiff(current_diff, share_count, elapsed)
  /\ share_count' = 0
  /\ elapsed' = 0
  /\ untilTick' = untilTick + TickEvery
  /\ steady' = (work < current_diff')
  /\ lastMove' = IF steady THEN Move(current_diff, current_diff') ELSE "none"
  /\ UNCHANGED <<mining, rigVars, peakPower>>

\* A tick that comes too early for a retarget.
SkipTick ==
  /\ mining
  /\ untilTick <= 0
  /\ elapsed < Minute
  /\ untilTick' = untilTick + TickEvery
  /\ UNCHANGED <<mining, current_diff, share_count, elapsed, rigVars, historyVars>>

VarDiffNext ==
  \/ Handshake \/ Authorized
  \/ Mine \/ SubmitShare \/ ChangePower
  \/ Retarget \/ SkipTick

VarDiffSpec == VarDiffInit /\ [][VarDiffNext]_vdVars

\* Time passes while the rig mines, and the select loop takes its ticks.  How
\* long a handshake takes is up to the client.
VarDiffFairSpec ==
  /\ VarDiffSpec
  /\ WF_vdVars(Mine)
  /\ WF_vdVars(SubmitShare)
  /\ WF_vdVars(Retarget)
  /\ WF_vdVars(SkipTick)

---------------------------------------------------------------------------
\* Halving stops at the configured minimum.  Only a tier that starts below it
\* is ever below it.
DifficultyFloor ==
  current_diff >= MinDiff \/ current_diff >= StartDiff

\* Doubling does not run away, let alone out of its 64 bits: the difficulty is
\* never raised beyond what the strongest rig on the connection justifies.  A
\* raise takes more than twice the target's shares, and of these the rig may
\* have found as many as two, and those of a unit of time, before the
\* measurement began.
NoRunaway ==
  \/ current_diff <= Larger(StartDiff, MinDiff)
  \/ current_diff * (SharesPerMin - 1) <= (Minute + 1) * peakPower

\* A rig of constant power is not moved back and forth: when a retarget that
\* saw nothing but that power has moved the difficulty, the next one does not
\* move it back, however the ticks fall and wherever in a share they find the
\* rig.  (A measurement that begins with shares under way may be off, and so may
\* be one that expects fewer than two shares a minute.)
NoFlapping ==
  [][steady /\ lastMove \in {"up", "down"}
       => Move(current_diff, current_diff') \in {"none", lastMove}]_vdVars

\* The shares per minute that the rig's power makes at this difficulty are
\* between half and twice the target, give or take a share.
InBand ==
  LET perMin == power * Minute
  IN /\ 2 * (perMin + current_diff) >= SharesPerMin * current_diff
     /\ perMin - current_diff <= 2 * SharesPerMin * current_diff

\* Even at the minimum the rig makes less than half the target.
TooWeak == 2 * power * Minute < SharesPerMin * MinDiff

\* Where a rig belongs: in the band, or at the minimum if it is too weak for the
\* band even there.
Settled == InBand \/ (current_diff = MinDiff /\ TooWeak)

\* A rig that stays ends up, and remains, where it belongs: its power changes only
\* so often, and from then on the retargets find their way, up or down.
SettlesInBand == <>mining => <>[]Settled
=============================================================================
