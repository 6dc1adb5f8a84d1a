----------------------------- MODULE MCHistfile -----------------------------
(* Instances of Histfile for TLC.                                          *)
EXTENDS Histfile

\* Histories of no, one and three lines with different line lengths.
CleanFiles == {Empty,
               LineOf(2),
               Cat(LineOf(3), Cat(LineOf(1), LineOf(2)))}

\* No history, a clean one, and one edited by hand: a blank line, a line that
\* fgets() cuts, no newline at the end.
SomeFiles == {Empty,
              Cat(LineOf(2), Cat(LineOf(1), LineOf(1))),
              Cat(LineOf(0), Cat(LineOf(3), Plain(1)))}

\* No history yet.
NoHistory == {Empty}

\* An empty line and a line of one character.
SomeLines == {LineOf(0), LineOf(1)}

\* An empty line and one that a slot cuts off.
LongLines == {LineOf(0), LineOf(4)}

\* Memory that holds 0, and memory that does not.
Zeros == {Empty}
SomeJunk == {Empty, Plain(2)}
=============================================================================
