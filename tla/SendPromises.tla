----------------------------- MODULE SendPromises -----------------------------
(***************************************************************************)
(* What the sending of a WhatsApp message promises, and the part of the    *)
(* state that this is about: the call of send_whatsapp_message and what it *)
(* submitted.  WhatsAppSend has the rest of the state, and the steps.      *)
(*                                                                         *)
(* A text is a sequence of characters: 0 is white space of any kind, c and *)
(* -c are the two cases of a letter.                                       *)
(***************************************************************************)
EXTENDS Integers, Sequences

CONSTANT Message   \* the message to send, a text

VARIABLES
    task,      \* the send: position, locals, outcome
    sent       \* what this send submitted, and where

Blank == 0

Folded(c) == IF c < 0 THEN -c ELSE c

Letters(text) == SelectSeq(text, LAMBDA c : c # Blank)

\* Between which letters there is white space, however much.
Breaks(text) ==
    {Len(Letters(SubSeq(text, 1, i))) : i \in {j \in 1..Len(text) : text[j] = Blank}}
        \ {0, Len(Letters(text))}

\* _whatsapp_normalize: the text in one case, its words one space apart, and
\* nothing around them.
Normalized(text) ==
    [letters |-> [k \in 1..Len(Letters(text)) |-> Folded(Letters(text)[k])],
     breaks |-> Breaks(text)]

\* What is submitted in the chat where the composer was confirmed is the whole
\* message, and nothing else but white space around its words or another case:
\* whatever a failed attempt, or an earlier send, left in composers, whichever
\* keys got lost, and whichever chats were opened in between.
ConfirmedIsWhole ==
    \A i \in 1..Len(sent) :
        sent[i].to = task.at => Normalized(sent[i].text) = Normalized(Message)

=============================================================================
