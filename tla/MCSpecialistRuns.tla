-------------------------- MODULE MCSpecialistRuns --------------------------
(* Instances of SpecialistRuns for TLC.  bench leases from the whole        *)
(* machine, as many cards as the serving TP, 1 or 2, asks for; probe one    *)
(* card of those serving does not use.                                      *)
EXTENDS SpecialistRuns

CONSTANTS bench, probe

MCPoolOf == [t \in Task |-> IF t = bench THEN Card ELSE {2}]
MCCount == [t \in Task |-> IF t = bench THEN {1, 2} ELSE {1}]
MCBase == [t \in Task |-> IF t = bench THEN 2 ELSE 1]
MCLongBase == [t \in Task |-> 4]
=============================================================================
