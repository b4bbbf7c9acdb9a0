---------------------------- MODULE MCWhatsAppSend -----------------------------
(* WhatsAppSend on small instances: the values the cfg files give TLC.     *)
EXTENDS WhatsAppSend

\* A word of two letters.
Hi == <<1, 2>>

\* White space and the beginning of the word in another case.
Left == {<<Blank, -1>>}

=============================================================================
