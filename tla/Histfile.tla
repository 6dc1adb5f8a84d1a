------------------------------ MODULE Histfile ------------------------------
(***************************************************************************)
(* The history of one valery shell: src/src/valery/histfile.c, driven the  *)
(* way prompt() and the main loop of valery() drive it.                    *)
(*                                                                         *)
(* A text (the history file, a command) is abstracted to its size and the  *)
(* offsets of its newlines, which is all the offset arithmetic of          *)
(* hist_traverse() looks at.  The file outlives the shell; everything else *)
(* is memory of the process and is gone when it is killed.                 *)
(***************************************************************************)
EXTENDS Integers, Sequences, FiniteSetsExt

CONSTANTS
  HIST_UP, HIST_DOWN, \* enum histaction_t
  Keys,               \* the arrow keys the user presses
  InitFiles,          \* what ~/.valery_hist may hold before the first session
  Typed,              \* the lines the user types, each ends in its newline
  Junk,               \* strings in memory nobody has written for this use:
                      \* fresh from malloc(), or left there by an earlier line
  MaxCommands,        \* MAX_COMMANDS_BEFORE_WRITE, 50 in the code
  MaxLine,            \* MAX_COMMAND_LEN, 1024 in the code
  BufSize,            \* the buffer of a stdio stream, 4096 on Linux
  SizeMax,            \* SIZE_MAX, the largest size_t
  MaxOffset,          \* bound: how far a runaway scan is followed
  MaxSessions         \* bound: how often the shell is started

VARIABLES
  file,     \* the history file
  phase,    \* where the shell is, see Phases
  fp,       \* offset of the stream hist->fp
  stored,   \* hist->stored_commands[0 .. s_len - 1], newest last
  pos,      \* hist->pos
  f_len,    \* hist->f_len
  f_chars,  \* hist->f_chars
  dir,      \* direction argument of the running hist_traverse()
  seek,     \* position_in_file of the running hist_traverse()
  buf,      \* the prompt's buffer: its bytes, and what put them there
  wi,       \* loop index of the running hist_write()
  out,      \* the buffer of the stream: bytes hist_write() has put there and
            \* that are not on disk yet
  base,     \* history variable: the file when this session opened it
  journal,  \* history variable: journal[i + 1] is what the first i saved
            \* commands of this session amount to in the file
  crossed,  \* history variable: since the prompt started, browsing has come
            \* back from a line of the file to a command in memory
  sessions  \* how many sessions were started

counts  == <<f_len, f_chars>>
scan    == <<dir, seek>>
write   == <<wi, out>>
session == <<stored, base, journal, sessions>>
vars    == <<file, phase, fp, pos, counts, scan, buf, write, session, crossed>>

-----------------------------------------------------------------------------
(* Texts.                                                                  *)

Text == {t \in [size : Nat, nl : SUBSET Nat] : \A q \in t.nl : q < t.size}

Plain(n) == [size |-> n, nl |-> {}]      \* n characters, no newline
LineOf(n) == [size |-> n + 1, nl |-> {n}] \* the same, ended by a newline
NewLine == LineOf(0)
Empty == Plain(0)

Cat(a, b) == [size |-> a.size + b.size,
              nl   |-> a.nl \cup {a.size + q : q \in b.nl}]

IsPrefixOf(a, b) == a.size <= b.size /\ a.nl = {q \in b.nl : q < a.size}

\* The first n characters of a text, and the rest.
First(t, n) == [size |-> n, nl |-> {q \in t.nl : q < n}]
Rest(t, n)  == [size |-> t.size - n, nl |-> {q - n : q \in {x \in t.nl : x >= n}}]

\* A text without its last character.
Chop(t) == First(t, t.size - 1)

\* The string in an array of MAX_COMMAND_LEN bytes, be it a slot or the buffer,
\* after strncpy() has copied t there: a longer t gets no 0 and what follows in
\* memory belongs to the string.
CopiedLine(t) == IF t.size < MaxLine THEN {t}
                 ELSE {Cat(First(t, MaxLine), j) : j \in Junk}

\* Mistake: a command already ends in a newline, so one more is left out.
EntryAsIs(t) == t

\* What hist_write() puts into the file for one command: the command, which
\* still ends in the newline of prompt(), and one more newline.
Entry(t) == Cat(t, NewLine)

\* The offset after the line that starts at offset o < t.size.
LineEnd(t, o) == LET ahead == {q \in t.nl : q >= o}
                 IN  IF ahead = {} THEN t.size ELSE Min(ahead) + 1

\* strlen() of what fgets(buf, MAX_COMMAND_LEN, fp) reads at offset o < t.size.
FgetsLen(t, o) == LET n == LineEnd(t, o) - o
                  IN  IF n > MaxLine - 1 THEN MaxLine - 1 ELSE n

ASSUME HistfileAssumption ==
  /\ HIST_UP # HIST_DOWN /\ Keys \subseteq {HIST_UP, HIST_DOWN}
  /\ InitFiles \subseteq Text /\ Typed \subseteq {t \in Text : t.size # 0}
  /\ Junk \subseteq Text
  /\ MaxCommands \in Nat \ {0} /\ MaxLine \in Nat \ {0, 1}
  /\ BufSize \in Nat
  /\ SizeMax \in Nat /\ MaxOffset \in Nat /\ MaxSessions \in Nat

-----------------------------------------------------------------------------
(* Starting a shell.                                                       *)

Faults == {"noFileFault", "limitFault", "slotFault", "chopFault"}
Phases == {"off",       \* no shell is running
           "noFile",    \* started, but fopen() failed: hist->fp is NULL
           "ready",     \* the main loop is about to call prompt()
           "browse",    \* prompt() waits for a key
           "scan",      \* in the loop of hist_traverse()
           "read",      \* hist_traverse() is done, hist_read_line_f() is next
           "saved",     \* hist_save() is done with the line
           "flushing",  \* hist_write() called by hist_save()
           "exiting",   \* hist_write() called by valery()
           "exited"}    \* the shell left through its "exit" command
          \cup Faults   \* the shell did something undefined and is lost

Init ==
  /\ file \in InitFiles /\ phase = "off"
  /\ fp = 0 /\ pos = 0 /\ f_len = 0 /\ f_chars = 0
  /\ dir = HIST_UP /\ seek = 0
  /\ buf = [src |-> "none", at |-> 0, text |-> Empty]
  /\ wi = 0 /\ out = Empty
  /\ stored = <<>> /\ base = file /\ journal = <<Empty>> /\ sessions = 0
  /\ crossed = FALSE

\* size_t arithmetic: one less than n.
Decr(n) == IF n = 0 THEN SizeMax ELSE n - 1

\* hist_count(): the lines of the file, and one more than its characters
\* because the end of file is counted too.
CountLines(t) == Cardinality(t.nl)
CountChars(t) == t.size + 1

StartSession ==
  /\ phase \in {"off", "exited"} /\ sessions < MaxSessions
  /\ sessions' = sessions + 1
  /\ stored' = <<>> /\ base' = file /\ journal' = <<Empty>>
  /\ UNCHANGED <<file, scan, write, crossed>>

\* hist_malloc() with a connection; fopen(path, "a+") keeps or creates the
\* file and hist_count() leaves the stream at its end.
HistMalloc ==
  /\ StartSession
  /\ phase' = "ready"
  /\ f_len' = CountLines(file) /\ f_chars' = CountChars(file)
  /\ fp' = file.size
  /\ pos' = Decr(CountLines(file))
  /\ \E j \in Junk : buf' = [src |-> "none", at |-> 0, text |-> j]

\* hist_malloc() when fopen() fails: the counters stay uninitialised.
HistMallocNoFile ==
  /\ StartSession
  /\ phase' = "noFile"
  /\ UNCHANGED <<fp, pos, counts, buf>>

\* Mistake: the zero-indexed position of hist_malloc(), one too low.
HistResetPosZeroIndexed ==
  /\ phase = "ready" /\ phase' = "browse"
  /\ fp' = file.size
  /\ pos' = Decr(f_len + Len(stored))
  /\ buf' = [buf EXCEPT !.src = "none"]
  /\ crossed' = FALSE
  /\ UNCHANGED <<file, counts, scan, write, session>>

\* hist_reset_pos(), the first thing prompt() does; buf_size becomes 0 while
\* the bytes of the buffer stay.
HistResetPos ==
  /\ phase = "ready" /\ phase' = "browse"
  /\ fp' = file.size
  /\ pos' = f_len + Len(stored)
  /\ buf' = [buf EXCEPT !.src = "none"]
  /\ crossed' = FALSE
  /\ UNCHANGED <<file, counts, scan, write, session>>

\* hist_reset_pos() without a connection is fseek(NULL, ...).
HistResetPosNoFile ==
  /\ phase = "noFile" /\ phase' = "noFileFault"
  /\ UNCHANGED <<file, fp, pos, counts, scan, buf, write, session, crossed>>

-----------------------------------------------------------------------------
(* hist_get_line(), called by prompt() for the arrow keys.  Out of bounds  *)
(* it returns DID_NOT_READ and nothing changes.                            *)

OutOfBounds(key) ==
  \/ key = HIST_UP /\ pos = 0
  \/ key = HIST_DOWN /\ pos = Decr(Len(stored) + f_len)

Moved(key) == IF key = HIST_UP THEN Decr(pos) ELSE pos + 1

\* hist_traverse() finds the line in memory and leaves the stream alone; the
\* line is copied from its slot, whether or not the slot was ever written.
ReadFromMemory(key) ==
  /\ phase = "browse" /\ ~ OutOfBounds(key)
  /\ Moved(key) + 1 > f_len
  /\ pos' = Moved(key)
  /\ crossed' = (crossed \/ pos < f_len)
  /\ LET index == Moved(key) - f_len IN
       \/ /\ index < Len(stored) /\ UNCHANGED phase
          /\ \E t \in CopiedLine(stored[index + 1]) :
               buf' = [src |-> "memory", at |-> index, text |-> t]
       \/ /\ index \in Len(stored) .. MaxCommands - 1 /\ UNCHANGED phase
          /\ \E j \in Junk : buf' = [src |-> "slot", at |-> index, text |-> j]
       \/ index >= MaxCommands /\ phase' = "slotFault" /\ UNCHANGED buf
  /\ UNCHANGED <<file, fp, counts, scan, write, session>>

\* Mistake: the scan does not first step back over the newline before the line.
StartScanNoStepBack(key) ==
  /\ phase = "browse" /\ ~ OutOfBounds(key)
  /\ Moved(key) + 1 <= f_len
  /\ pos' = Moved(key) /\ dir' = key /\ seek' = fp
  /\ phase' = "scan"
  /\ UNCHANGED <<file, fp, counts, buf, write, session, crossed>>

\* hist_traverse() enters the loop that looks for the neighbouring line.
StartScan(key) ==
  /\ phase = "browse" /\ ~ OutOfBounds(key)
  /\ Moved(key) + 1 <= f_len
  /\ pos' = Moved(key) /\ dir' = key
  /\ seek' = IF fp # 0 THEN fp - 1 ELSE 0
  /\ phase' = "scan"
  /\ UNCHANGED <<file, fp, counts, buf, write, session, crossed>>

\* Where fgetc() leaves the stream.
AfterGetc == IF fp < file.size THEN fp + 1 ELSE fp

\* The loop condition is false: fgetc() returned the newline.
ScanHit ==
  /\ fp \in file.nl
  /\ phase' = "read" /\ fp' = AfterGetc /\ seek' = seek + 1

\* One turn of the loop towards the start of the file.
ScanUp ==
  /\ fp \notin file.nl /\ dir = HIST_UP
  /\ \/ seek = 0 /\ phase' = "read" /\ fp' = 0 /\ seek' = 1
     \/ seek # 0 /\ UNCHANGED phase /\ fp' = seek - 1 /\ seek' = seek - 1

\* Mistake: the scan seeks to where it is, not to the next character.
ScanDownStuck ==
  /\ fp \notin file.nl /\ dir # HIST_UP
  /\ UNCHANGED <<phase, seek>> /\ fp' = seek

\* One turn of the loop towards the end of the file; f_chars ends it when the
\* file has no newline left.
ScanDown ==
  /\ fp \notin file.nl /\ dir # HIST_UP
  /\ seek' = seek + 1
  /\ IF seek = f_chars
       THEN phase' = "read" /\ fp' = AfterGetc
       ELSE seek < MaxOffset /\ UNCHANGED phase /\ fp' = seek + 1

Scan ==
  /\ phase = "scan"
  /\ ScanHit \/ ScanUp \/ ScanDown
  /\ UNCHANGED <<file, pos, counts, dir, buf, write, session, crossed>>

\* The local variables of hist_traverse() are gone.
NoScan == dir' = HIST_UP /\ seek' = 0

\* Mistake: the stream stays behind the line that was read.
ReadLineNoSeek ==
  /\ phase = "read"
  /\ \/ /\ fp < file.size
        /\ buf' = [src |-> "file", at |-> fp,
                   text |-> Plain(FgetsLen(file, fp) - 1)]
        /\ fp' = LineEnd(file, fp) /\ phase' = "browse"
     \/ /\ fp >= file.size /\ UNCHANGED <<fp, buf>>
        /\ phase' = IF buf.text.size = 0 THEN "chopFault" ELSE "browse"
  /\ NoScan
  /\ UNCHANGED <<file, pos, counts, write, session, crossed>>

\* hist_read_line_f(), and prompt() chopping the newline off the line.  At the
\* end of the file fgets() leaves the buffer as it is; to chop an empty buffer
\* is to write in front of it.
ReadLine ==
  /\ phase = "read"
  /\ fp' = seek
  /\ \/ /\ fp < file.size
        /\ buf' = [src |-> "file", at |-> fp,
                   text |-> Plain(FgetsLen(file, fp) - 1)]
        /\ phase' = "browse"
     \/ /\ fp >= file.size /\ buf.text.size # 0
        /\ buf' = [src |-> "stale", at |-> fp, text |-> Chop(buf.text)]
        /\ phase' = "browse"
     \/ /\ fp >= file.size /\ buf.text.size = 0
        /\ phase' = "chopFault" /\ UNCHANGED buf
  /\ NoScan
  /\ UNCHANGED <<file, pos, counts, write, session, crossed>>

-----------------------------------------------------------------------------
(* The line prompt() returns.                                              *)

\* What enter submits: a typed line, or the line browsing put into the buffer;
\* a command recalled from memory still ends in its newline and gets another.
Submitted == Typed \cup (IF buf.src = "none" THEN {}
                                            ELSE {Cat(buf.text, NewLine)})

LineLeft(t) == [src |-> "none", at |-> 0, text |-> t]

\* The main loop found received_sigint set: the line is dropped.
Interrupted(t) ==
  /\ phase = "browse" /\ phase' = "ready"
  /\ buf' = LineLeft(t)
  /\ UNCHANGED <<file, fp, pos, counts, scan, write, session, crossed>>

\* Mistake: the slots are not counted.
HistSaveNoLimit(t) ==
  /\ phase = "browse" /\ phase' = "saved"
  /\ \E s \in CopiedLine(t) :
       /\ stored' = Append(stored, s)
       /\ journal' = Append(journal, Cat(journal[Len(journal)], Entry(s)))
  /\ buf' = LineLeft(t)
  /\ UNCHANGED <<file, fp, pos, counts, scan, write, base, sessions, crossed>>

\* hist_save(); of a line that does not fit the slot, what does is stored.
HistSave(t) ==
  /\ phase = "browse" /\ phase' = "saved"
  /\ Len(stored) # MaxCommands
  /\ \E s \in CopiedLine(t) :
       /\ stored' = Append(stored, s)
       /\ journal' = Append(journal, Cat(journal[Len(journal)], Entry(s)))
  /\ buf' = LineLeft(t)
  /\ UNCHANGED <<file, fp, pos, counts, scan, write, base, sessions, crossed>>

\* hist_save() with every slot taken calls hist_write() first.
HistSaveFull(t) ==
  /\ phase = "browse" /\ phase' = "flushing"
  /\ Len(stored) = MaxCommands
  /\ buf' = LineLeft(t)
  /\ wi' = 0
  /\ UNCHANGED <<file, fp, pos, counts, scan, out, session, crossed>>

\* The line was empty or has been interpreted: the main loop goes round.
NextPrompt ==
  /\ phase = "saved" /\ phase' = "ready"
  /\ UNCHANGED <<file, fp, pos, counts, scan, buf, write, session, crossed>>

\* The line was "exit": the main loop is left and hist_write() is called.
Exit ==
  /\ phase = "saved" /\ phase' = "exiting"
  /\ wi' = 0
  /\ UNCHANGED <<file, fp, pos, counts, scan, buf, out, session, crossed>>

-----------------------------------------------------------------------------
(* hist_write(), and the end of the shell.                                 *)

Writing == phase \in {"flushing", "exiting"}

\* fputs(): what does not fit the buffer of the stream makes it write some of
\* its bytes, which may be part of a command, to the end of the file.
Fputs(t) ==
  LET all == Cat(out, t)
  IN  IF all.size <= BufSize THEN out' = all /\ UNCHANGED file
      ELSE \E n \in all.size - BufSize .. all.size :
             file' = Cat(file, First(all, n)) /\ out' = Rest(all, n)

HistWriteCommand ==
  /\ Writing /\ wi < Len(stored)
  /\ wi' = wi + 1
  /\ \/ /\ stored[wi + 1].size # 0
        /\ Fputs(Entry(stored[wi + 1])) /\ f_len' = f_len + 1
     \/ stored[wi + 1].size = 0 /\ UNCHANGED <<file, out, f_len>>
  /\ UNCHANGED <<phase, fp, pos, f_chars, scan, buf, session, crossed>>

WriteEnds ==
  phase' = (IF phase = "exiting" THEN "exited" ELSE "limitFault") /\ wi' = 0

\* t with s written over it from offset o on.
Overwritten(t, o, s) ==
  [size |-> IF o + s.size > t.size THEN o + s.size ELSE t.size,
   nl   |-> {q \in t.nl : q < o \/ q >= o + s.size} \cup {o + q : q \in s.nl}]

\* Mistake: fopen(path, "r+"), so that what is written lands at the stream.
HistWriteEndAtStream ==
  /\ Writing /\ wi = Len(stored) /\ WriteEnds
  /\ file' = Overwritten(file, fp, out) /\ out' = Empty
  /\ fp' = file.size + out.size
  /\ UNCHANGED <<pos, counts, scan, buf, session, crossed>>

\* Mistake: what is written lands where the file ended when it was opened.
HistWriteEndAtOldEnd ==
  /\ Writing /\ wi = Len(stored) /\ WriteEnds
  /\ file' = Overwritten(file, base.size, out) /\ out' = Empty
  /\ fp' = file.size + out.size
  /\ UNCHANGED <<pos, counts, scan, buf, session, crossed>>

\* Mistake: the loop leaves out the last command.
HistWriteEndEarly ==
  /\ Writing /\ wi + 1 = Len(stored) /\ WriteEnds
  /\ file' = Cat(file, out) /\ out' = Empty
  /\ fp' = file.size + out.size
  /\ UNCHANGED <<pos, counts, scan, buf, session, crossed>>

\* Mistake: hist_write() does clear the memory, so that the shell goes on, but
\* still counts one line for the two newlines of each command.
HistWriteEndClears ==
  /\ Writing /\ wi = Len(stored)
  /\ file' = Cat(file, out) /\ out' = Empty
  /\ fp' = file.size + out.size
  /\ phase' = IF phase = "exiting" THEN "exited" ELSE "saved"
  /\ stored' = <<>> /\ base' = file' /\ journal' = <<Empty>>
  /\ UNCHANGED <<pos, counts, scan, buf, wi, sessions, crossed>>

\* fseek() makes the stream write the rest, at the end of the file because of
\* the append mode.  Back in hist_save() the slot stored_commands[s_len]
\* does not exist; back in valery() hist_free() closes the file.
HistWriteEnd ==
  /\ Writing /\ wi = Len(stored) /\ WriteEnds
  /\ file' = Cat(file, out) /\ out' = Empty
  /\ fp' = file.size + out.size
  /\ UNCHANGED <<pos, counts, scan, buf, session, crossed>>

\* The shell ends without hist_write(): a parse error calls exit(1), a signal
\* kills it, the terminal goes away, or it was lost already.  Its memory is gone;
\* only the history variables remember what it had saved.
Killed ==
  /\ phase \notin {"off", "exited"} /\ phase' = "off"
  /\ fp' = 0 /\ pos' = 0 /\ f_len' = 0 /\ f_chars' = 0 /\ NoScan
  /\ buf' = LineLeft(Empty) /\ wi' = 0 /\ out' = Empty /\ crossed' = FALSE
  /\ UNCHANGED <<file, session>>

-----------------------------------------------------------------------------

Next ==
  \/ HistMalloc \/ HistMallocNoFile \/ HistResetPos \/ HistResetPosNoFile
  \/ \E key \in Keys : ReadFromMemory(key) \/ StartScan(key)
  \/ Scan \/ ReadLine
  \/ \E t \in Submitted : Interrupted(t) \/ HistSave(t) \/ HistSaveFull(t)
  \/ NextPrompt \/ Exit
  \/ HistWriteCommand \/ HistWriteEnd
  \/ Killed

Spec == Init /\ [][Next]_vars

\* The shell is one thread that never waits inside these loops, so a step of
\* theirs that stays possible is taken.
Fairness == /\ WF_vars(Scan) /\ WF_vars(ReadLine)
            /\ WF_vars(HistWriteCommand) /\ WF_vars(HistWriteEnd)

FairSpec == Spec /\ Fairness
-----------------------------------------------------------------------------
(* Properties.                                                             *)

\* Every variable holds a value of its type, the loop of hist_write() stays
\* inside the saved commands and those inside the slots hist_malloc() made.
TypeOK ==
  /\ file \in Text /\ phase \in Phases
  /\ fp \in Nat /\ pos \in Nat /\ f_len \in Nat /\ f_chars \in Nat
  /\ dir \in {HIST_UP, HIST_DOWN} /\ seek \in Nat
  /\ buf \in [src : {"none", "file", "memory", "slot", "stale"},
              at : Nat, text : Text]
  /\ wi \in Nat /\ out \in Text
  /\ stored \in Seq(Text) /\ Len(stored) <= MaxCommands
  /\ Writing => wi <= Len(stored)
  /\ base \in Text /\ journal \in Seq(Text) /\ sessions \in Nat
  /\ Len(journal) = Len(stored) + 1
  /\ crossed \in BOOLEAN

\* The counters hist_count() took when the file was opened still describe the
\* file whenever the user can browse: nothing hist_write() appends is followed
\* by another prompt, so browsing never works on stale counters.
CountsAreCurrent ==
  phase \in {"ready", "browse", "scan", "read", "saved"} =>
    f_len = Cardinality(file.nl) /\ f_chars = file.size + 1

\* No step ever changes what the file already holds: wherever browsing, an
\* abandoned session or an earlier crash has left the stream, hist_write()
\* only adds at the end.
AppendOnly == [][IsPrefixOf(file, file')]_vars

\* A session that ends through "exit" (or fills its slots) leaves every command
\* it saved in the file, in the order they were typed, after everything older.
\* One that is killed leaves the older ones of them, up to some byte, and all
\* or nothing when they fit the buffer of the stream.
ExitIsDurable ==
  LET mine == journal[Len(journal)]
      written == Cat(base, mine) IN
    /\ IsPrefixOf(base, file) /\ IsPrefixOf(file, written)
    /\ mine.size <= BufSize => file \in {base, written}
    /\ phase \in {"exited", "limitFault"} => file = written

\* After "exit" every command of the session has a newline at its end in the
\* file, also one that hist_save() has cut off in front of its own: two commands
\* never end up on one line.
CommandsEndLines ==
  phase = "exited" =>
    \A i \in DOMAIN stored : base.size + journal[i + 1].size - 1 \in file.nl

\* A file without blank lines whose first line has at least two characters.
\* The shell itself writes a blank line after every command.
Clean(t) == /\ t.size # 0 => t.size - 1 \in t.nl
            /\ {0, 1} \cap t.nl = {}
            /\ \A q \in t.nl : q + 1 \notin t.nl

\* The number of the line that starts at offset o.
LineNo(t, o) == Cardinality({q \in t.nl : q < o})

\* Browsing a clean file, up and down, until it first comes back from the file
\* into memory: the line in the prompt is the one hist->pos stands for, so the
\* offset of the stream and the counter never drift apart.
ShownInSync ==
  Clean(file) /\ ~ crossed /\ phase = "browse" =>
    /\ buf.src = "file" => /\ buf.at = 0 \/ buf.at - 1 \in file.nl
                           /\ pos = LineNo(file, buf.at) /\ pos < f_len
    /\ buf.src = "memory" => pos = f_len + buf.at
    /\ buf.src # "stale"

\* Under the same conditions the scan always finds a line to read, so prompt()
\* never chops the newline off an empty buffer.
NeverChopsEmpty == Clean(file) /\ ~ crossed => phase # "chopFault"

\* A scan down always has a newline in front of it.  So it ends there and never
\* depends on f_chars, which is stale once another shell has written.
DownFindsNewLine ==
  phase = "scan" /\ dir = HIST_DOWN => \E q \in file.nl : q >= fp

\* Every loop of the history ends, on every file and from every position that
\* browsing can reach, in sync or not.
Busy == phase \in {"scan", "read", "flushing", "exiting"}
LoopsEnd == Busy ~> ~ Busy

-----------------------------------------------------------------------------
(* The refinement: the numbered list is the file followed by the memory.   *)

Total == IF phase = "off" /\ sessions = 0 THEN 0
         ELSE CountLines(base) + Len(stored)

Browsing == phase \in {"browse", "scan", "read"}

\* A scan has moved hist->pos before it has found the line.
Cursor == CASE phase = "browse" -> pos
            [] phase \in {"scan", "read"} ->
                 IF dir = HIST_UP THEN pos + 1 ELSE pos - 1
            [] OTHER -> Total

Shown == CASE Browsing /\ buf.src = "file"   -> LineNo(file, buf.at)
           [] Browsing /\ buf.src = "memory" -> CountLines(base) + buf.at
           [] OTHER -> Total

Abstract == INSTANCE HistoryCursor
              WITH total <- Total, cursor <- Cursor, shown <- Shown

\* On a clean history the arrow up implements the cursor: the n-th press shows
\* the n-th newest command, through memory and on into the file, and pressing
\* it at the oldest command changes nothing.
ImplementsCursor == Abstract!Spec

-----------------------------------------------------------------------------
(* What the comments of the code say and the code does not do.             *)

\* histfile.h: hist_get_line() "puts the current hist line into the buf
\* argument".  So with the arrow up the prompt never runs into a line that is
\* not there, also in the file an earlier session wrote.
GetLineFindsLine == phase # "chopFault"

\* histfile.h: hist_traverse() "traverses the hist one line in the given
\* direction".  So from one line of a clean file to the next one shown, up
\* moves exactly one line up.
TraversesOneLine ==
  Clean(file) /\ phase = "browse" /\ buf.src = "file" =>
    pos = LineNo(file, buf.at)
=============================================================================
