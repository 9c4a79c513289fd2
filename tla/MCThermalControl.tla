-------------------------- MODULE MCThermalControl --------------------------
(* Values for model checking ThermalControl. *)
EXTENDS ThermalControl
MCLoads == {[cost |-> 30, captured |-> 8], [cost |-> 70, captured |-> 8],
            [cost |-> 130, captured |-> 8], [cost |-> 100, captured |-> 5]}
=============================================================================
