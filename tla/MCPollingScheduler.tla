-------------------------- MODULE MCPollingScheduler --------------------------
(***************************************************************************)
(* PollingScheduler with one group that is polled at every refresh and one *)
(* that is polled less often, whose entities the user may switch off.      *)
(***************************************************************************)
EXTENDS PollingScheduler, TLC

CONSTANTS fast, slow

MixedIntervals == (fast :> 1) @@ (slow :> 2)

\* Cycles are told apart by nothing but their state.
CycleSymmetry == Permutations(Cycles)

=============================================================================
