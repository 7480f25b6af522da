--------------------------- MODULE MCControlCore ---------------------------
(* Model-checking instances of ControlCore. *)
EXTENDS ControlCore, TLC

\* An incident reported with nothing, or with a report attached.
MCEvidence == {[bundle |-> None, artifacts |-> {}],
               [bundle |-> None, artifacts |-> {"report"}]}

Scope(a, e, t, g, r) == [agentGeneration |-> a, exec |-> e, target |-> t,
                         targetGeneration |-> g, run |-> r]

\* Reports about a run and the generations under it, about an exec, and about
\* a generation of the agent or of a target alone.
MCScopes == {Scope(1, None, t, 1, r) : t \in Targets, r \in Runs}
            \cup {Scope(1, e, None, 0, None) : e \in Execs}
            \cup {Scope(g, None, None, 0, None) : g \in Generations}
            \cup {Scope(0, None, t, g, None) : t \in Targets, g \in Generations}

Symmetry == Permutations(Execs) \cup Permutations(Runs) \cup Permutations(Incidents)
=============================================================================
