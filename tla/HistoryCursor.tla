--------------------------- MODULE HistoryCursor ---------------------------
(***************************************************************************)
(* What browsing the history promises: a cursor over a numbered list of    *)
(* commands, oldest first.  A prompt starts with the cursor behind the     *)
(* newest command; each arrow key moves it by one command and shows the    *)
(* command it reaches; the ends of the list are not left.                  *)
(***************************************************************************)
EXTENDS Naturals

VARIABLES
  total,  \* how many commands there are
  cursor, \* where browsing stands, total is behind the newest
  shown   \* the number of the command in the prompt, total when none is

vars == <<total, cursor, shown>>

Init == total = 0 /\ cursor = 0 /\ shown = 0

\* Behind the newest command, no command is shown.
Fresh == cursor' = total' /\ shown' = total'

\* The commands of earlier sessions are there; the line of the prompt becomes
\* the newest command, or is dropped.
Start == total = 0 /\ total' \in Nat /\ Fresh
Save  == total' = total + 1 /\ Fresh
Drop  == total' = total /\ Fresh

Goto(c) == cursor' = c /\ shown' = c /\ UNCHANGED total

Up   == cursor > 0 /\ Goto(cursor - 1)
Down == cursor + 1 < total /\ Goto(cursor + 1)

Next == Start \/ Save \/ Drop \/ Up \/ Down

Spec == Init /\ [][Next]_vars
=============================================================================
