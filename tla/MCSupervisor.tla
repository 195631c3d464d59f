---- MODULE MCSupervisor ----
EXTENDS SupervisorLifecycle, TLC

Symmetry == Permutations(Processes)
====
