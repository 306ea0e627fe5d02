------------------------------ MODULE MCAlerts ------------------------------
(* Alerts for TLC: one policy per severity, as the shipped policies have.    *)
EXTENDS Alerts, TLC

MatchBySeverity == [p \in Policies |-> IF p = "service-degradation" THEN "warning"
                                                                     ELSE "critical"]
Symmetry == Permutations(AlertKeys) \cup Permutations(Reporters) \cup Permutations(Operators)
=============================================================================
