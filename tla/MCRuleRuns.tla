----------------------------- MODULE MCRuleRuns -----------------------------
(***************************************************************************)
(* A small instance of RuleRuns: two jobs of the rule at once.             *)
(***************************************************************************)
EXTENDS RuleRuns

\* The rule may be named, and the run tracked: each alone changes nothing for the other.
BothOrNeither == {[named |-> b, tracked |-> b] : b \in BOOLEAN}

=============================================================================
