------------------------------ MODULE MCScheduler ------------------------------
(***************************************************************************)
(* Scheduler on small instances.  The graph does not change, so to keep    *)
(* some of the graphs is to keep every behaviour of those.                 *)
(***************************************************************************)
EXTENDS Scheduler

CONSTANT r1

\* A chain, a fork and a join; two steps on one resource that may run beside
\* each other, or none; the last step may wait for a value.
SomeGraphs ==
    /\ deps \in {<<{}, {1}, {2}>>, <<{}, {1}, {1}>>, <<{}, {}, {1, 2}>>}
    /\ key \in {<<r1, r1, NoResource>>, <<NoResource, r1, r1>>}
    /\ needs[1] = {} /\ needs[2] = {}

=============================================================================
