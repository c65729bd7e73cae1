-------------------------- MODULE MCProbePipeline --------------------------
(***************************************************************************)
(* ProbePipeline for TLC: servers and profiles are interchangeable.        *)
(***************************************************************************)
EXTENDS ProbePipeline, TLC

Symmetry == Permutations(Servers) \cup Permutations(Profiles) \cup Permutations(Pruners)
=============================================================================
