------------------------------ MODULE DagExecution ------------------------------
(***************************************************************************)
(* What a dependency-aware scheduler promises, whatever its rounds, pools  *)
(* and locks: a step starts only when everything it depends on is done,    *)
(* steps that share a resource never overlap, no more than a given number  *)
(* of steps are active, and a step that is done stays done.                *)
(***************************************************************************)
EXTENDS Integers, FiniteSets

CONSTANTS Step, NoResource, MaxConcurrency

VARIABLES
    deps,    \* the steps each step depends on
    key,     \* the resource of each step, or NoResource
    active,  \* the steps handed to an executor and not yet joined
    done     \* the steps that have completed

dvars == <<deps, key, active, done>>

Init == active = {} /\ done \subseteq Step

Clash(m, n) == key[m] = key[n] /\ key[n] # NoResource

Start(n) ==
    /\ n \notin active \cup done
    /\ deps[n] \subseteq done
    /\ \A m \in active : ~Clash(m, n)
    /\ Cardinality(active) < MaxConcurrency
    /\ active' = active \cup {n}
    /\ UNCHANGED <<deps, key, done>>

\* An attempt that does not complete leaves the step startable again.
Finish(n) ==
    /\ n \in active
    /\ active' = active \ {n}
    /\ done' \in {done, done \cup {n}}
    /\ UNCHANGED <<deps, key>>

Next == \E n \in Step : Start(n) \/ Finish(n)

Spec == Init /\ [][Next]_dvars

=============================================================================
