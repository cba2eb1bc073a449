--------------------------- MODULE MC_YamlAiJobs ---------------------------
(* Instances of YamlAiJobs for TLC. *)
EXTENDS YamlAiJobs, TLC

Symmetric == Permutations(Job) \cup Permutations(Inst)
=============================================================================
