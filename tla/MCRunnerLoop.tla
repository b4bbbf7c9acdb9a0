------------------------------ MODULE MCRunnerLoop ------------------------------
(***************************************************************************)
(* Requests for the model checker.                                         *)
(***************************************************************************)
EXTENDS RunnerLoop

Does(kind, target, content, via, gate, safety) ==
    [kind |-> kind, target |-> target, content |-> content, via |-> via,
     gate |-> gate, safety |-> safety]

Write(content) == Does("write_file", "f", content, "tracked", "ALLOW", "SAFE_TO_RETRY")
Type    == Does("type_text", "app", "x", "tracked", "ALLOW", "REOBSERVE_FIRST")
Denied  == Does("create_dir", "d", "", "tracked", "DENY", "SAFE_TO_RETRY")
Confirm == Does("fetch_file", "g", "", "tracked", "CONFIRM", "SAFE_TO_RETRY")
Read    == Does("read_text_file", "f", "", "inspection", "ALLOW", "SAFE_TO_RETRY")
Song    == Does("browser_play_song", "page", "s", "skill", "ALLOW", "SAFE_TO_RETRY")
Send    == Does("whatsapp_send_message", "chat", "m", "skill", "ALLOW", "REOBSERVE_FIRST")
Blank   == Does("whatsapp_send_message", "chat", "", "skill", "INCOMPLETE", "REOBSERVE_FIRST")
Submit  == Does("form_submit", "page", "f", "skill", "ALLOW", "ASK_USER")

Asked(interactive, offer, wanted) ==
    [mode |-> "general", interactive |-> interactive, offer |-> offer, wanted |-> wanted]
Direct(offer) == [mode |-> "direct", interactive |-> TRUE, offer |-> offer, wanted |-> {}]

\* Requests with rewriting, with a refusal, with consent, with media, with
\* reading only, and the fast path for what is not safe to repeat.
Requests ==
    {Asked(TRUE, {Write("1"), Write("2")}, {"write_file"}),
     Asked(FALSE, {Type, Denied}, {}),
     Asked(FALSE, {Type, Confirm}, {"type_text"}),
     Asked(TRUE, {Song, Confirm}, {"browser_play_song"}),
     Asked(TRUE, {Read, Song}, {}),
     Asked(TRUE, {Read}, {}),
     Asked(TRUE, {Submit, Write("1")}, {}),
     Asked(FALSE, {Blank, Read}, {})}
    \cup {Direct({a}) : a \in {Send, Submit, Blank, Song}}

=============================================================================
