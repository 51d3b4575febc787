------------------------ MODULE MCSupervisorHistory ------------------------
(* Model checking of Supervisor with its history.                          *)
EXTENDS SupervisorHistory, TLC

\* The pids of a group's agents are interchangeable.
PidSymmetry == Permutations(Runs)
=============================================================================
