----------------------------- MODULE MCMessageFeed -----------------------------
(***************************************************************************)
(* Two observer threads, which are alike.                                  *)
(***************************************************************************)
EXTENDS MessageFeed, TLC

Alike == Permutations(Threads)

\* Bound: two threads at once share one message; two messages meet one thread.
OneMessageForTwo ==
    Cardinality({w \in Threads : Alive(w)}) < 2 \/ Cardinality(Sent) < 2

=============================================================================
