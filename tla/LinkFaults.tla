----------------------------- MODULE LinkFaults -----------------------------
(***************************************************************************)
(* One budget for everything that goes wrong outside the device, so that   *)
(* it may go wrong anywhere.                                               *)
(***************************************************************************)
EXTENDS Naturals

CONSTANT MaxFaults  \* bound: faults of one behaviour

ASSUME FaultsAssumption == MaxFaults \in Nat

VARIABLE faults     \* faults so far

Fault   == faults < MaxFaults /\ faults' = faults + 1
NoFault == UNCHANGED faults
=============================================================================
