--------------------------- MODULE MCDurableJobs ---------------------------
(* DurableJobs for TLC: runtimes with the same environment profile. *)
EXTENDS DurableJobs, FiniteSetsExt, TLC

CONSTANTS pa

MCProfile == [s \in Supervisors |-> pa]

\* One runtime, closed and reopened, that makes any number of calls; and two
\* that make three calls between them.
MCSites ==
    {[active |-> S, closers |-> S, maxHeartbeats |-> 2, maxCalls |-> 0] :
        S \in kSubset(1, Supervisors)}
    \cup {[active |-> Supervisors, closers |-> {}, maxHeartbeats |-> 0, maxCalls |-> 3]}

Symmetry == Permutations(Supervisors) \cup Permutations(Pids)
=============================================================================
