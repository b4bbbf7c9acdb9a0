---------------------------- MODULE MCWorkflowGraph ----------------------------
(***************************************************************************)
(* Workflows of four steps for the model checker: chains, forks and        *)
(* independent steps, on one resource or none, in which a step that has    *)
(* completed can run again because another one fails.                      *)
(***************************************************************************)
EXTENDS WorkflowGraph

CONSTANT r1

One(key) == [s \in Step |-> key]

\* A resource all steps use, and how safely they repeat.
Kinds == {<<NoResource, "SAFE_TO_RETRY">>, <<NoResource, "ASK_USER">>,
          <<r1, "REOBSERVE_FIRST">>}

Fork ==
    {[deps |-> <<{}, {1}, {}, d>>, key |-> One(k[1]), gate |-> g,
      safety |-> One(k[2]), missing |-> m] :
        m \in {One(0), <<0, 2, 0, 0>>, <<0, 0, 1, 0>>}, d \in {{}, {2}, {3}}, k \in Kinds,
        g \in {h \in [Step -> {"ALLOW", "CONFIRM", "DENY"}] :
                  Cardinality({s \in Step : h[s] # "ALLOW"}) \in 1..2}}

=============================================================================
