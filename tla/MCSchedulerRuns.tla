-------------------------- MODULE MCSchedulerRuns --------------------------
\* Small instances of SchedulerRuns for TLC.
EXTENDS SchedulerRuns, TLC

CONSTANTS n1, n2, s1, s2

\* The id of the first of three runs sorts between the others'.
MCIdOf(r) == <<2, 1, 3>>[r]

MCSymmetry == Permutations({n1, n2}) \cup Permutations({s1, s2})

=============================================================================
