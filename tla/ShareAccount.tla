--------------------------- MODULE ShareAccount ---------------------------
(***************************************************************************)
(* What the pool promises about one accepted share, whatever fails: it is  *)
(* held somewhere until it is paid, once, or lost; both are final.         *)
(* ShareLedger implements this (src/src/telemetry/mod.rs and               *)
(* src/src/oracle.rs).                                                     *)
(***************************************************************************)
EXTENDS Integers

CONSTANT Shares

VARIABLES
  fate,     \* what became of each share so far
  payments  \* how often each share was paid

saVars == <<fate, payments>>

Fates == {"new", "held", "paid", "lost"}

ShareAccountInit ==
  /\ fate = [s \in Shares |-> "new"]
  /\ payments = [s \in Shares |-> 0]

\* A share enters the pool, or is dropped at its door.
Taken(s) ==
  /\ fate[s] = "new" /\ fate'[s] \in {"held", "lost"}
  /\ payments'[s] = payments[s]

Settled(s) ==
  /\ fate[s] = "held"
  /\ \/ fate'[s] = "paid" /\ payments'[s] = payments[s] + 1
     \/ fate'[s] = "lost" /\ payments'[s] = payments[s]

Untouched(s) == fate'[s] = fate[s] /\ payments'[s] = payments[s]

\* A batch of shares may be paid or lost at once.
ShareAccountNext ==
  /\ fate' \in [Shares -> Fates]
  /\ payments' \in [Shares -> Nat]
  /\ \A s \in Shares : Taken(s) \/ Settled(s) \/ Untouched(s)

ShareAccountSpec == ShareAccountInit /\ [][ShareAccountNext]_saVars
=============================================================================
