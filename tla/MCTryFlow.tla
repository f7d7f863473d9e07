------------------------------ MODULE MCTryFlow ------------------------------
(* Two tabs of one browser, which do not differ; nor do the addresses.     *)
EXTENDS TryFlow, TLC

TrySymmetry == Permutations(Tabs) \cup Permutations(Emails)
                 \cup Permutations(Assignments) \cup Permutations(Links)
=============================================================================
