----------------------------- MODULE CallBudget -----------------------------
(***************************************************************************)
(* What a daily cap promises, whoever counts: of the requests that asked   *)
(* on one day no more than the allowance are let through, and one that was *)
(* let through is never forgotten.  RateLimit implements it.               *)
(***************************************************************************)
EXTENDS Naturals

CONSTANT Days

VARIABLES
  granted,      \* granted[d]: requests of day d that were let through
  allowance     \* the most there may be in a day

Grant(d) ==
  /\ granted[d] < allowance
  /\ granted' = [granted EXCEPT ![d] = @ + 1]
  /\ UNCHANGED allowance

Init == granted = [d \in Days |-> 0] /\ allowance \in Nat

Next == \E d \in Days : Grant(d)

Spec == Init /\ [][Next]_<<granted, allowance>>
=============================================================================
