------------------------------- MODULE Prompt -------------------------------
(***************************************************************************)
(* src/src/valery/prompt.c and the string functions of lib/vstring.c it    *)
(* edits its line with: the bytes of the buffer, including those nobody    *)
(* has written and those an earlier line has left.                         *)
(***************************************************************************)
EXTENDS Naturals, Sequences, SequencesExt

CONSTANTS
  Letters,        \* what the user types
  FromFile,       \* the lines hist_get_line() may read from the file
  Uninit,         \* what memory nobody has written may hold
  MaxCommandLen,  \* MAX_COMMAND_LEN, 1024 in the code
  MaxCapacity,    \* bound: the buffer does not grow beyond it
  MaxWritten      \* bound: how many bytes are put into the buffer

VARIABLES
  buf,      \* prompt->buf, all buf_capacity bytes of it
  size,     \* prompt->buf_size
  cursor,   \* prompt->cursor_position
  phase,    \* where prompt() is, see Phases
  command,  \* one of the lines that were given to hist_save(), <<>> if there is none
  written,  \* history variable: bytes put into the buffer so far
  zeroed    \* history variable: all memory came as zeros

ghosts == <<written, zeroed>>
vars == <<buf, size, cursor, phase, command, ghosts>>

NUL == "NUL"
Bytes == Letters \cup Uninit \cup {NUL, "\n"}

ASSUME PromptAssumption ==
  /\ "\n" \notin Letters /\ NUL \notin Letters
  /\ FromFile \subseteq Seq(Letters)
  /\ MaxCommandLen \in Nat \ {0, 1} /\ MaxWritten \in Nat
  /\ MaxCapacity \in Nat /\ MaxCapacity >= MaxCommandLen

Phases == {"edit",      \* in getchar()
           "returned",  \* the line is the caller's
           "overflow",  \* a key made it use bytes beyond the buffer
           "sentinel"}  \* the sentinel byte went behind the buffer

Capacity == Len(buf)
Garbage(n) == [1 .. n -> Uninit]
Zeros(n) == [i \in 1 .. n |-> NUL]

\* n more bytes go into the buffer.
Puts(n) == written + n <= MaxWritten /\ written' = written + n

\* strlen(b), and all of b if no byte of it ends the string.
LengthOf(b) == LET ends == {i \in 1 .. Len(b) : b[i] = NUL}
               IN  IF ends = {} THEN Len(b)
                   ELSE (CHOOSE i \in ends : \A j \in ends : i <= j) - 1

StrLen == LengthOf(buf)

\* As much of s as n bytes take.
Cut(s, n) == IF Len(s) <= n THEN s ELSE SubSeq(s, 1, n)

\* b with the bytes s written over it from the start.
Copied(s, b) == s \o SubSeq(b, Len(s) + 1, Len(b))

Text == SubSeq(buf, 1, size)

\* What is left of a line of the file: fgets() takes all but one of the bytes the
\* buffer had first, and the last one it took is chopped off, a newline or not.
Fetched(line) == Cut(line, MaxCommandLen - 2)

\* The slot strncpy() copies a line to: zeros behind it, or no 0 at all.
Slot(line) ==
  [i \in 1 .. MaxCommandLen |-> IF i <= Len(line) THEN line[i] ELSE NUL]

Init ==
  /\ buf \in Garbage(MaxCommandLen)
  /\ size = 0 /\ cursor = 0 /\ phase = "edit" /\ command = <<>>
  /\ written = 0 /\ zeroed = (buf = Zeros(MaxCommandLen))

\* prompt_start(), for the next line: the bytes of the buffer stay.  The caller has
\* given the line to hist_save(), unless it was interrupted; of all the lines it
\* has saved one is watched here, whichever it is.
PromptStart ==
  /\ phase = "returned"
  /\ phase' = "edit" /\ size' = 0 /\ cursor' = 0
  /\ command' \in {command, Text}
  /\ UNCHANGED <<buf, ghosts>>

Editing == phase = "edit"

\* There is room, so the key is not lost.
Room == Editing /\ size # Capacity

\* increase_buf_capacity(), and continue: the key is lost.
Enlarge ==
  /\ Editing /\ size = Capacity
  /\ 2 * Capacity <= MaxCapacity
  /\ \E g \in Garbage(Capacity) :
       buf' = buf \o g /\ zeroed' = (zeroed /\ g = Zeros(Capacity))
  /\ UNCHANGED <<size, cursor, phase, command, written>>

\* A character at the end of the line; no 0 is written behind it.
TypeAtEnd(c) ==
  /\ Room /\ cursor = size
  /\ buf' = [buf EXCEPT ![size + 1] = c]
  /\ size' = size + 1 /\ cursor' = cursor + 1
  /\ Puts(1) /\ UNCHANGED <<phase, command, zeroed>>

\* Mistake: the cursor stays in front of the new character.
InsertStays(c) ==
  /\ Room /\ cursor # size
  /\ StrLen + 2 <= Capacity
  /\ buf' = Copied(InsertAt(SubSeq(buf, 1, StrLen), cursor + 1, c) \o <<NUL>>, buf)
  /\ size' = size + 1
  /\ Puts(1) /\ UNCHANGED <<cursor, phase, command, zeroed>>

\* Mistake: the copy goes to an array that is too small.
InsertSmallArray(c) ==
  /\ Room /\ cursor # size
  /\ IF StrLen + 2 <= Capacity \div 2
       THEN /\ buf' = Copied(InsertAt(SubSeq(buf, 1, StrLen), cursor + 1, c)
                               \o <<NUL>>, buf)
            /\ size' = size + 1 /\ cursor' = cursor + 1
            /\ UNCHANGED phase
       ELSE phase' = "overflow" /\ UNCHANGED <<buf, size, cursor>>
  /\ Puts(1) /\ UNCHANGED <<command, zeroed>>

\* vstr_insert_c(): copies the whole string and its 0, one byte longer, into
\* an array of Capacity bytes and back.
Insert(c) ==
  /\ Room /\ cursor # size
  /\ IF StrLen + 2 <= Capacity
       THEN /\ buf' = Copied(InsertAt(SubSeq(buf, 1, StrLen), cursor + 1, c)
                               \o <<NUL>>, buf)
            /\ size' = size + 1 /\ cursor' = cursor + 1
            /\ UNCHANGED phase
       ELSE phase' = "overflow" /\ UNCHANGED <<buf, size, cursor>>
  /\ Puts(1) /\ UNCHANGED <<command, zeroed>>

\* Mistake: the cursor is not moved with the text.
BackspaceStays ==
  /\ Room /\ cursor > 0 /\ StrLen < Capacity
  /\ buf' = Copied(RemoveAt(SubSeq(buf, 1, StrLen), cursor) \o <<NUL>>, buf)
  /\ size' = size - 1
  /\ UNCHANGED <<cursor, phase, command, ghosts>>

\* vstr_remove_idx(): copies the rest of the string and its 0.
Backspace ==
  /\ Room /\ cursor > 0
  /\ IF StrLen < Capacity
       THEN /\ buf' = Copied(RemoveAt(SubSeq(buf, 1, StrLen), cursor) \o <<NUL>>,
                             buf)
            /\ size' = size - 1 /\ cursor' = cursor - 1
            /\ UNCHANGED phase
       ELSE phase' = "overflow" /\ UNCHANGED <<buf, size, cursor>>
  /\ UNCHANGED <<command, ghosts>>

MoveLeft ==
  /\ Room /\ cursor >= 1
  /\ cursor' = cursor - 1
  /\ UNCHANGED <<buf, size, phase, command, ghosts>>

MoveRight ==
  /\ Room /\ cursor # size
  /\ cursor' = cursor + 1
  /\ UNCHANGED <<buf, size, phase, command, ghosts>>

\* hist_get_line() has read a line of the file: a 0 is where its newline was, or
\* its last byte that was taken, and one behind it.
RecallFromFile(line) ==
  /\ Room
  /\ buf' = Copied(Fetched(line) \o <<NUL, NUL>>, buf)
  /\ size' = Len(Fetched(line)) /\ cursor' = size'
  /\ Puts(Len(Fetched(line)) + 1) /\ UNCHANGED <<phase, command, zeroed>>

\* It has copied a slot, and strlen() looks for the end of the line, in the bytes
\* that are behind the slot if there is no 0 in it.
RecallFromMemory ==
  /\ Room /\ command # <<>>
  /\ LET b == Copied(Slot(command), buf) IN
       IF LengthOf(b) < Capacity
         THEN /\ buf' = b
              /\ size' = LengthOf(b) /\ cursor' = size'
              /\ UNCHANGED phase
         ELSE phase' = "overflow" /\ UNCHANGED <<buf, size, cursor>>
  /\ Puts(Len(Cut(command, MaxCommandLen))) /\ UNCHANGED <<command, zeroed>>

\* The newline and the sentinel byte, in the buffer b.
Finish(b) ==
  /\ size' = size + 1 /\ Puts(1)
  /\ IF size + 2 <= Len(b)
       THEN buf' = Copied(Text \o <<"\n", NUL>>, b) /\ phase' = "returned"
       ELSE buf' = Copied(Append(Text, "\n"), b) /\ phase' = "sentinel"
  /\ UNCHANGED <<cursor, command>>

\* Mistake: no sentinel byte.
EnterNoSentinel ==
  /\ Editing /\ size + 1 < Capacity
  /\ size' = size + 1 /\ Puts(1)
  /\ buf' = Copied(Append(Text, "\n"), buf)
  /\ phase' = "returned"
  /\ UNCHANGED <<cursor, command, zeroed>>

\* The end of prompt(): room is made for the newline, if there is none.
Enter ==
  /\ Editing
  /\ IF size + 1 > Capacity
       THEN /\ 2 * Capacity <= MaxCapacity
            /\ \E g \in Garbage(Capacity) :
                 /\ Finish(buf \o g)
                 /\ zeroed' = (zeroed /\ g = Zeros(Capacity))
       ELSE Finish(buf) /\ UNCHANGED zeroed

Next ==
  \/ PromptStart \/ Enlarge
  \/ \E c \in Letters : TypeAtEnd(c) \/ Insert(c)
  \/ Backspace \/ MoveLeft \/ MoveRight
  \/ \E line \in FromFile : RecallFromFile(line)
  \/ RecallFromMemory
  \/ Enter

Spec == Init /\ [][Next]_vars

-----------------------------------------------------------------------------
(* Properties.                                                             *)

\* Every variable holds a value of its type, and the cursor is in the line and
\* the line in the buffer.
TypeOK ==
  /\ buf \in Seq(Bytes) /\ Capacity \in MaxCommandLen .. MaxCapacity
  /\ size \in 0 .. Capacity /\ cursor \in 0 .. size
  /\ phase \in Phases /\ command \in Seq(Bytes) /\ written \in Nat /\ zeroed \in BOOLEAN

\* The line is not always followed by a 0 while it is edited, and stale bytes
\* may follow it.  Still what the caller gets, as a string, is the line with
\* its newline, and ends where buf_size says.
LineIsTerminated ==
  phase = "returned" => StrLen = size /\ buf[size] = "\n"

\* The string functions work on all the bytes up to a 0, the stale ones too,
\* and what they copy may be longer than the line.  But as long as the shell has
\* put fewer bytes into the buffer than fit, they stay in it, whatever was
\* typed, erased, recalled and returned in between.
StaysInBuffer ==
  zeroed /\ phase \in {"overflow", "sentinel"} => written + 2 > Capacity

\* A full buffer makes prompt() lose keys and the caller get a longer one, a line
\* of the file may come cut off, and a saved line that filled its slot may come
\* with other bytes behind it.  Apart from that the bytes behave as the text and
\* cursor the user sees.
Editor == INSTANCE LineEditor
            WITH Recalled <- {Fetched(line) : line \in FromFile},
                 Kept <- MaxCommandLen,
                 text <- Text, cursor <- cursor, command <- command,
                 entered <- phase \in {"returned", "sentinel"}

ImplementsEditor == Editor!Spec

\* The comment of prompt() at the arrow keys: "we want to store the corresponding
\* hist line inside buf".  So when a line of this session is recalled there may be
\* less of it in the buffer, if it was long, but no bytes of other lines.
RecallShowsLine ==
  [][RecallFromMemory /\ phase' = "edit" => IsPrefix(Text', command)]_vars
=============================================================================
