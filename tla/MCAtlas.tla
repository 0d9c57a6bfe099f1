------------------------------ MODULE MCAtlas ------------------------------
(* Atlas on a small instance: one TLD has two configurations to choose     *)
(* from, the other one.                                                    *)
EXTENDS Atlas
CONSTANTS kin, fork, a, a2, b
MCConfigsOf == [t \in {kin, fork} |-> IF t = kin THEN {a, a2} ELSE {b}]
=============================================================================
