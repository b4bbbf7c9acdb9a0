--------------------------- MODULE MCRuntimeManager ---------------------------
(* RuntimeManager on small instances: the values the cfg files give TLC.   *)
EXTENDS RuntimeManager

=============================================================================
