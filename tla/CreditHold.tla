----------------------------- MODULE CreditHold -----------------------------
(***************************************************************************)
(* What the gateway promises about a customer's credit, for one request:   *)
(* a provider runs only on credit that is held and not yet settled, at     *)
(* most twice (the model's provider and its fallback), and credit that was *)
(* held is settled at most once.                                           *)
(***************************************************************************)
EXTENDS Naturals

CONSTANT MaxRuns     \* provider calls one request may make

VARIABLES
  credit,            \* none, held, settled
  runs               \* provider calls made

vars == <<credit, runs>>

Init == credit = "none" /\ runs = 0

Hold ==
  /\ credit = "none"
  /\ credit' = "held"
  /\ UNCHANGED runs

Run ==
  /\ credit = "held" /\ runs < MaxRuns
  /\ runs' = runs + 1
  /\ UNCHANGED credit

Settle ==
  /\ credit = "held"
  /\ credit' = "settled"
  /\ UNCHANGED runs

Next == Hold \/ Run \/ Settle

Spec == Init /\ [][Next]_vars

=============================================================================
