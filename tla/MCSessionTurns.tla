---------------------------- MODULE MCSessionTurns ----------------------------
(***************************************************************************)
(* Two workers and the conversation lane; replies that pick, that pick a   *)
(* place not offered or none, and that decline.                            *)
(***************************************************************************)
EXTENDS SessionTurns, TLC

Perms == Permutations(Workers)
SomeReplies ==
    {[names |-> 1, says |-> ""], [names |-> 3, says |-> ""], [names |-> 0, says |-> "DROP"],
     [names |-> 2, says |-> "NO"]}

=============================================================================
