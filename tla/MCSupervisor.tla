---------------------------- MODULE MCSupervisor ----------------------------
(* Model checking of Supervisor and of its refinement of OneAgent.         *)
EXTENDS SupervisorPromise, TLC

\* Groups are interchangeable, and so are the pids of a group's agents.
Symmetry    == Permutations(Groups) \cup Permutations(Runs)
PidSymmetry == Permutations(Runs)
=============================================================================
