------------------------- MODULE MCAutomationEngine -------------------------
(* Instances of AutomationEngine for TLC: one run, keyed rule:source:type   *)
(* and so shared by all occurrences of its event.                           *)
EXTENDS AutomationEngine, TLC

CONSTANT r1

MCRunsOf == [e \in Events |-> {r1}]

Symmetric == Permutations(Workers)
=============================================================================
