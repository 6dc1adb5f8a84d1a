------------------------------ MODULE MCParser ------------------------------
(* Instances of Parser for TLC.                                            *)
EXTENDS Parser

Strings(n, S) == UNION {[1 .. k -> S] : k \in 0 .. n}

\* Every text of up to three characters, and of four where it is the words that
\* matter, also as a line that ends in a newline.  "r" is the reserved word.
Short == Strings(3, Chars) \cup Strings(4, {"a", "[", Blank, Tab, "\n", "#", "&", Quote})

\* Texts of up to five pieces: words, strings, comments, &&, newlines.
Pieces == {<<"a">>, <<"r">>, <<Blank>>, <<"&", "&">>, <<Quote, "a", Quote>>,
           <<"#", "a">>, <<"\n">>}
Long == {FlattenSeq(p) : p \in Strings(5, Pieces)}

SomeSources == Short \cup {Append(s, "\n") : s \in Short \cup Long}

ReservedWords == {<<"r">>}
=============================================================================
