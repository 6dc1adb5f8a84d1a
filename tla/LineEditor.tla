----------------------------- MODULE LineEditor -----------------------------
(***************************************************************************)
(* What the user of prompt() can expect: a text and a cursor in it, and    *)
(* the history to recall.                                                  *)
(***************************************************************************)
EXTENDS Naturals, Sequences

CONSTANTS Letters,  \* what can be typed
          Recalled, \* the lines the history file may hand out
          Kept      \* how much of a line is kept in memory

VARIABLES text, cursor, entered,
          command   \* a line of this session, <<>> if there is none

vars == <<text, cursor, entered, command>>

Before == SubSeq(text, 1, cursor)
After == SubSeq(text, cursor + 1, Len(text))

Init == text = <<>> /\ cursor = 0 /\ entered = FALSE /\ command = <<>>

Type(c) ==
  /\ ~ entered
  /\ text' = Before \o <<c>> \o After /\ cursor' = cursor + 1
  /\ UNCHANGED <<entered, command>>

Backspace ==
  /\ ~ entered /\ cursor > 0
  /\ text' = SubSeq(text, 1, cursor - 1) \o After /\ cursor' = cursor - 1
  /\ UNCHANGED <<entered, command>>

Move ==
  /\ ~ entered
  /\ cursor' \in {cursor - 1, cursor + 1} \cap (0 .. Len(text))
  /\ UNCHANGED <<text, entered, command>>

Recall ==
  /\ ~ entered
  /\ text' \in Recalled /\ cursor' = Len(text')
  /\ UNCHANGED <<entered, command>>

\* A line that was kept whole comes back as it was; of a longer one only the part
\* that was kept is promised, and nothing about what follows it.
RecallCommand ==
  /\ ~ entered /\ command # <<>>
  /\ \/ Len(command) < Kept /\ text' = command
     \/ /\ Len(command) >= Kept /\ Len(text') >= Kept
        /\ SubSeq(text', 1, Kept) = SubSeq(command, 1, Kept)
  /\ cursor' = Len(text')
  /\ UNCHANGED <<entered, command>>

\* The line is handed over, and the next one starts empty.
Enter ==
  /\ ~ entered /\ entered' = TRUE
  /\ text' = Append(text, "\n")
  /\ UNCHANGED <<cursor, command>>

NewLine ==
  /\ entered /\ entered' = FALSE
  /\ command' \in {command, text}
  /\ text' = <<>> /\ cursor' = 0

Next == \/ \E c \in Letters : Type(c)
        \/ Backspace \/ Move \/ Recall \/ RecallCommand \/ Enter \/ NewLine

Spec == Init /\ [][Next]_vars
=============================================================================
