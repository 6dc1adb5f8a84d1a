---------------------------- MODULE MCEnvironment ----------------------------
(* An instance of Environment for TLC.                                      *)
EXTENDS Environment

Home == <<"/", "h">>

\* HOME, a directory below it, and one whose name begins like it.
SomeDirs == {Home, Home \o <<"/", "a">>, Home \o <<"x">>}
SomeHomes == {Home, NoDir, NoEntry}

Line(key, value) == <<key, "=">> \o value \o <<"\n">>

Prompts == {Line("PS1", <<"\\", "D">>),
            Line("PS1", <<"\\", "C", "\\", "D", "\\", "E", "\\", "$">>)}

OtherLines ==
  {Line("PATH", <<":", "p", ":", ":", "q", ":", "r">>),
   Line("PATH", <<"p", ":", "q", ":">>),
   Line("K", <<"v", "=", "w">>), Line("K", <<>>),
   <<"#">> \o Line("K", <<"x">>), <<"x", "\n">>,
   Line("HOME", <<"/">>), Line("PWD", <<"/">>)}

\* A prompt and one more line or none; any two other lines; a line that does not
\* fit buf, whose end is a setting of its own, a comment or nothing; a prompt
\* that does not fit ps1_tmp; a last line without a newline, and without a value.
SomeFiles ==
  {p \o b : p \in Prompts,
            b \in {<<>>, Line("K", <<"v">>), Line("HOME", <<"/">>), Line("PWD", <<"/">>)}}
  \cup {a \o b : a, b \in OtherLines}
  \cup {Line("K", <<"v", "v", "v", "v", "v", "v", "v", "v", "v">> \o end) :
          end \in {<<>>, <<"J", "=", "x">>, <<"#", "=", "x">>}}
  \cup {Line("PS1", <<"c", "c", "c", "c", "c", "c", "c", "c">>)}
  \cup {<<"K", "=", "v">>, <<"K", "=">>}

SomeJunk == {<<>>, <<"junk">>}
SomeKeys == {<<"K">>}
=============================================================================
