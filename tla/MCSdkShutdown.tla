---------------------------- MODULE MCSdkShutdown ----------------------------
(***************************************************************************)
(* Instances of SdkShutdown, with the SDK fields of a few combinations of  *)
(* pillars.                                                                *)
(***************************************************************************)
EXTENDS SdkShutdown, SdkComponents, TLC

CONSTANTS c1, c2, f1, f2

\* Everything on the push path, everything on the pull path, traces only.
FewConfigs == {SdkFields(p) : p \in
  {[trace |-> TRUE, log |-> TRUE,  metrics |-> TRUE,  push |-> TRUE,  profiling |-> FALSE],
   [trace |-> TRUE, log |-> FALSE, metrics |-> TRUE,  push |-> FALSE, profiling |-> TRUE],
   [trace |-> TRUE, log |-> FALSE, metrics |-> FALSE, push |-> FALSE, profiling |-> FALSE]}}

Symmetric == Permutations(Callers) \cup Permutations(Flushers)
=============================================================================
