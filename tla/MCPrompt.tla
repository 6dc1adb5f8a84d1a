------------------------------ MODULE MCPrompt ------------------------------
(* Instances of Prompt for TLC.                                            *)
EXTENDS Prompt

\* One that fgets() takes whole, and one it does not.
Lines == {<<"a">>, <<"a", "a", "a">>}
ZeroOrJunk == {"NUL", "?"}
=============================================================================
