----------------------------- MODULE TurnPromises -----------------------------
(***************************************************************************)
(* What the turns of a Session promise to the person who gives it inputs,  *)
(* and the part of the state that this is about: the inputs, their         *)
(* records, and the history of turns, questions and answers.  SessionTurns *)
(* has the rest of the state, and the steps.                               *)
(***************************************************************************)
EXTENDS Naturals

CONSTANTS
    MaxInputs,    \* bound: inputs given
    MaxAsks       \* how often a question may be put

VARIABLES
    inputs,    \* the inputs so far
    record,    \* the registry's state of each task
    result,    \* history: how each turn ended
    puts,      \* history: how often each question was put
    opened     \* history: what was run on an answer

Ids == 1..MaxInputs

\* A question leads to one run at most, and to none when its turn began later
\* than ttl_s after the question was first put: whichever lanes the question
\* and the answers are in, and however often it was put again.
AnswersAreBound ==
    \A k \in DOMAIN opened :
        /\ ~ opened[k].late
        /\ \A m \in DOMAIN opened : opened[m].question = opened[k].question => m = k

\* No question is put more often than MaxAsks, though turns of other lanes put
\* theirs over it and it is put again over theirs.
PutAtMostTwice == \A i \in Ids : puts[i] <= MaxAsks

\* The record of a request says COMPLETED only if the run of the request was
\* verified, and FAILED only if it was not: also when the run had the record of
\* its workflow, and when submit asked, refused or raised.
OwnRecordIsHonest ==
    \A i \in DOMAIN inputs : result[i] # "NONE" =>
        /\ record[i] = "COMPLETED" => result[i] = "OK"
        /\ record[i] = "FAILED" => result[i] \in {"FAIL", "RAISED"}

=============================================================================
