-------------------------- MODULE MCSharedHistory --------------------------
(* Instances of SharedHistory for TLC.                                     *)
EXTENDS SharedHistory

\* A history of two lines of two characters and of one.
TwoLines == {[size |-> 5, nl |-> {2, 4}]}

\* An empty line, which fits the buffer of the stream with its second newline,
\* and a line of one character, which does not.
SomeLines == {[size |-> 1, nl |-> {0}], [size |-> 2, nl |-> {1}]}

\* Memory that holds 0, and memory that does not.
SomeJunk == {[size |-> 0, nl |-> {}], [size |-> 2, nl |-> {}]}
=============================================================================
