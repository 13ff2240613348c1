-------------------------- MODULE MCLocalExecution --------------------------
(* Two workers of different kinds on one queue, or a plain run; t1 is due    *)
(* later, may be retried once and submits t2, which has a time limit.        *)
EXTENDS LocalExecution

CONSTANTS r1, l1, p1, x1, x2, t1, t2

MCPoolOf == [s \in Slot |-> p1]
MCWeight == [t \in Task |-> IF t = t1 THEN 0 ELSE 1]
MCCasts == {{l1, p1}, {r1}}
MCBudget == [t \in Task |-> IF t = t1 THEN 1 ELSE 0]
MCChild == [t \in Task |-> IF t = t1 THEN t2 ELSE NoTask]
=============================================================================
