------------------------------ MODULE MCTerminal -----------------------------
(* Terminal with the keys and outputs that the editing treats differently. *)
EXTENDS Terminal

MCKey == {"a", "nl", "bs", "tab"}
MCOutput == {<<"e", "nl">>, <<"ff">>}
=============================================================================
