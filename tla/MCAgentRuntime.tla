--------------------------- MODULE MCAgentRuntime ---------------------------
(* AgentRuntime for TLC.  Ids and coroutines are interchangeable. *)
EXTENDS AgentRuntime, FiniteSets, TLC

Symmetry == Permutations(Agents) \cup Permutations(Tasks)

\* Bound: heartbeats are followed beside one operation at a time; they touch
\* nothing that an operation reads.
BeatsBesideOne ==
    heart = {} \/ Cardinality({t \in Tasks : task[t] # Rest})
                  + Cardinality({d \in Threads : thread[d] # Rest}) <= 1
=============================================================================
