--------------------------- MODULE SharedHistory ---------------------------
(***************************************************************************)
(* Two shells of one user on one ~/.valery_hist: two terminals, or a shell *)
(* started inside a shell.  Each is a Histfile; they share only the file,  *)
(* which each opens in append mode and reads with counters of its own.     *)
(***************************************************************************)
EXTENDS Integers, Sequences, FiniteSets

CONSTANTS HIST_UP, HIST_DOWN, Keys, InitFiles, Typed, Junk,
          MaxCommands, MaxLine, BufSize, SizeMax, MaxOffset, MaxSessions

VARIABLES
  file, \* ~/.valery_hist
  \* the memory of shell A
  phaseA, fpA, storedA, posA, f_lenA, f_charsA, dirA, seekA,
  bufA, wiA, outA, baseA, journalA, crossedA, sessionsA,
  \* the memory of shell B
  phaseB, fpB, storedB, posB, f_lenB, f_charsB, dirB, seekB,
  bufB, wiB, outB, baseB, journalB, crossedB, sessionsB

A == INSTANCE Histfile
       WITH
            phase <- phaseA, fp <- fpA, stored <- storedA,
            pos <- posA, f_len <- f_lenA, f_chars <- f_charsA,
            dir <- dirA, seek <- seekA, buf <- bufA,
            wi <- wiA, out <- outA, base <- baseA,
            journal <- journalA, crossed <- crossedA, sessions <- sessionsA

B == INSTANCE Histfile
       WITH
            phase <- phaseB, fp <- fpB, stored <- storedB,
            pos <- posB, f_len <- f_lenB, f_chars <- f_charsB,
            dir <- dirB, seek <- seekB, buf <- bufB,
            wi <- wiB, out <- outB, base <- baseB,
            journal <- journalB, crossed <- crossedB, sessions <- sessionsB

\* The two are the same program.
ASSUME SharedHistoryAssumption == A!HistfileAssumption

memoryA == <<phaseA, fpA, storedA, posA, f_lenA, f_charsA, dirA, seekA,
             bufA, wiA, outA, baseA, journalA, crossedA, sessionsA>>
memoryB == <<phaseB, fpB, storedB, posB, f_lenB, f_charsB, dirB, seekB,
             bufB, wiB, outB, baseB, journalB, crossedB, sessionsB>>
vars == <<file, memoryA, memoryB>>

Init == A!Init /\ B!Init

\* The file is read and appended to through system calls of one shell at a
\* time.  What hist_write() writes reaches it in several of them when it does not
\* fit the buffer of the stream, and the other shell may write in between.
Next == \/ A!Next /\ UNCHANGED memoryB
        \/ B!Next /\ UNCHANGED memoryA

Spec == Init /\ [][Next]_vars

Fairness == A!Fairness /\ B!Fairness

FairSpec == Spec /\ Fairness

-----------------------------------------------------------------------------
(* Properties.                                                             *)

\* Whatever one shell has written stays when the other writes, although the
\* other opened the file before that and has browsed in it since.
AppendOnly == [][A!IsPrefixOf(file, file')]_vars

\* Where a block of the other shell may split one of y: nowhere inside when y
\* fits the buffer of the stream.
Cuts(y) == IF y.size <= BufSize THEN {0, y.size} ELSE 0 .. y.size

\* Two shells that have both left through "exit" have lost nothing to each
\* other: behind what the first of them found, the file holds every byte and
\* every line of both, and the commands of a shell that fit the buffer of its
\* stream stand together, inside or beside those of the other.
NothingLost ==
  phaseA = "exited" /\ phaseB = "exited" =>
    LET start == IF baseA.size <= baseB.size THEN baseA ELSE baseB
        a == journalA[Len(journalA)]
        b == journalB[Len(journalB)]
        Inside(x, y) == \E n \in Cuts(y) :
          file = A!Cat(A!Cat(start, A!First(y, n)), A!Cat(x, A!Rest(y, n)))
    IN  /\ file.size = start.size + a.size + b.size
        /\ A!CountLines(file) = A!CountLines(start) + A!CountLines(a) + A!CountLines(b)
        /\ A!IsPrefixOf(start, file)
        /\ a.size <= BufSize => Inside(a, b)
        /\ b.size <= BufSize => Inside(b, a)

\* The scans down of a shell end at a newline of the file as it is now: it does
\* not matter that f_chars was counted before the other shell wrote.
DownFindsNewLine == A!DownFindsNewLine
=============================================================================
