----------------------------- MODULE MCBatching -----------------------------
(***************************************************************************)
(* Batching with four paths and the numbers scaled down: the budget leaves *)
(* room in a message for the overhead of a command, as 4000 does in 4096.  *)
(***************************************************************************)
EXTENDS Batching

CONSTANTS short, long, spaced, quoted

MCLength == [p \in Path |-> CASE p = long -> 10 [] p = spaced -> 2 [] OTHER -> 1]
MCBudget == [mkdir |-> 5, rm |-> 13]
MCOverhead == [mkdir |-> 3, rm |-> 2]

ASSUME RoomAssumption == MCOverhead["mkdir"] + MCBudget["mkdir"] + 1 <= MaxPayload
=============================================================================
