------------------------------- MODULE Shell -------------------------------
(***************************************************************************)
(* The processes of a valery: the main loop of valery() or the source of   *)
(* its option -c, the commands it forks, the signals it catches, the       *)
(* terminal mode it sets, the input each process has read ahead and the    *)
(* history it keeps.  A child whose execve() fails returns into the        *)
(* interpreter and goes on as a second shell, with a copy of everything    *)
(* its parent had; so there may be a chain of shells.                      *)
(*                                                                         *)
(* What browsing does inside prompt() and how a line becomes an expression *)
(* are left to other modules: a line is what the parser makes of it.       *)
(***************************************************************************)
EXTENDS Naturals, Sequences, SequencesExt

CONSTANTS
  Restarts,   \* how signal() may behave: TRUE as in BSD (build.sh), FALSE as in
              \* System V (the Makefile, whose -std=c99 hides the BSD one)
  Modes,      \* how valery may be used, see mode
  Programs,   \* names a command may have
  Installed,  \* those that are in /bin
  Nothing,    \* in Programs: no word at all, so argv[0] is whatever is there
  Typed,      \* the lines of the input, and the sources given to -c
  MaxSlots,   \* MAX_COMMANDS_BEFORE_WRITE, 50 in the code
  MaxAhead,   \* bound: lines one read() returns behind the first
  MaxProcs,   \* bound: processes at a time; fork() fails beyond it
  MaxLines,   \* bound: how many lines are read, besides "exit"
  MaxSigints  \* bound: how often the user presses ctrl+c

VARIABLES
  restart,  \* how signal() behaves in this build
  mode,     \* "tty": standard input is the terminal; "pipe": it is not;
            \* "source": the option -c
  eof,      \* the pipe has no more input and nobody who could write to it
  proc,     \* the processes, see Process
  term,     \* mode of the terminal
  file,     \* the history file: the numbers of the lines stored in it
  saved,    \* lines given to hist_save() so far, which numbers them
  sigints,  \* ctrl+c pressed so far
  clean     \* history variable: every shell that is gone left through "exit"

use  == <<restart, mode>>
vars == <<use, eof, proc, term, file, saved, sigints, clean>>

Procs == 1 .. MaxProcs

\* A line, by what the main loop and the parser make of it: "\n", "exit\n", a
\* parse error, or statements, each of which is a command or two joined by &&.
\* A command recalled from memory has a newline too many, which is a statement
\* without a word.
Lines == [kind : {"blank", "exit", "error", "run"}, stmts : Seq(Seq(Programs))]

Blank == [kind |-> "blank", stmts |-> <<>>]

ASSUME ShellAssumption ==
  /\ Restarts \subseteq BOOLEAN /\ Modes \subseteq {"tty", "pipe", "source"}
  /\ Installed \subseteq Programs \ {Nothing}
  /\ Typed \subseteq Lines
  /\ \A l \in Typed : /\ l.kind = "run" <=> l.stmts # <<>>
                      /\ <<>> \notin Range(l.stmts)
  /\ MaxSlots \in Nat \ {0} /\ MaxAhead \in Nat
  /\ MaxProcs \in Nat \ {0} /\ MaxLines \in Nat /\ MaxSigints \in Nat

States == {"free",    \* no process
           "ready",   \* the main loop is about to call prompt(), or the
                      \* source has been interpreted
           "prompt",  \* prompt() waits in getchar()
           "got",     \* prompt() has returned a line, or the source is there
           "skip",    \* received_sigint is reset, signal() is next
           "lost",    \* hist_save() has written behind the last slot: what
                      \* the shell does from here on is not defined
           "eval",    \* about to evaluate a command
           "exec",    \* forked, execve() is next
           "wait",    \* in waitpid()
           "program", \* execve() has replaced the shell
           "zombie"}  \* ended and not yet waited for

Process ==
  [pc : States,
   parent : 0 .. MaxProcs,    \* 0 once the parent is gone
   child : 0 .. MaxProcs,     \* what waitpid() waits for, 0 is any child
   ahead : Seq(Lines),        \* the buffer of stdin
   line : Lines,              \* prompt->buf, while the line is dealt with
   todo : Seq(Programs),      \* not yet evaluated of the statement
   rest : Seq(Seq(Programs)), \* the statements behind it
   status : {0, 1},           \* exit status of a zombie
   left : {"none", "running", "ok", "failed"}, \* history: what became of the
                              \* program of the command before
   mem : Seq(Nat),            \* hist->stored_commands
   flag : BOOLEAN,            \* received_sigint
   armed : BOOLEAN,           \* catch_sigint() is installed
   eintr : BOOLEAN,           \* a signal has interrupted getchar(), waitpid()
   orig : {"cooked", "raw"}]  \* termconf->original

Free == [pc |-> "free", parent |-> 0, child |-> 0, ahead |-> <<>>, line |-> Blank,
         todo |-> <<>>, rest |-> <<>>, status |-> 0, left |-> "none",
         mem |-> <<>>, flag |-> FALSE, armed |-> FALSE, eintr |-> FALSE,
         orig |-> "cooked"]

At(p, state) == proc[p].pc = state
Alive == {p \in Procs : proc[p].pc \notin {"free", "zombie"}}
Children(p) == {q \in Procs : ~ At(q, "free") /\ proc[q].parent = p}

\* The handler is installed for the main loop only.
Init ==
  /\ restart \in Restarts /\ mode \in Modes /\ eof = FALSE
  /\ \E first \in IF mode = "source"
                   THEN {[Free EXCEPT !.pc = "got", !.line = l] :
                           l \in {t \in Typed : t.kind \in {"run", "error"}}}
                   ELSE {[Free EXCEPT !.pc = "ready", !.armed = TRUE]} :
       proc = [p \in Procs |-> IF p = 1 THEN first ELSE Free]
  /\ term = "cooked" /\ file = <<>> /\ saved = 0 /\ sigints = 0
  /\ clean = TRUE

\* The table after the processes D have ended with status s.  Whoever is left of
\* their parents waits for them, and nobody for a zombie whose parent is gone.
Ended(table, D, s) ==
  LET IsGone(q) == \/ q \in D /\ table[q].parent \in D \cup {0}
                   \/ table[q].pc = "zombie" /\ table[q].parent \in D
      HasProgram(q) == \E p \in D : table[p].pc = "program" /\ table[p].parent = q
  IN  [q \in Procs |->
         IF IsGone(q) THEN Free
         ELSE IF q \in D
           THEN [Free EXCEPT !.pc = "zombie", !.parent = table[q].parent, !.status = s]
         ELSE [table[q] EXCEPT
                 !.parent = IF @ \in D THEN 0 ELSE @,
                 !.left = IF ~ HasProgram(q) THEN @
                          ELSE IF s = 0 THEN "ok" ELSE "failed"]]

-----------------------------------------------------------------------------
(* prompt().                                                               *)

\* Only a terminal has a mode to be set.
PromptStart(p) ==
  /\ At(p, "ready") /\ mode # "source"
  /\ proc' = [proc EXCEPT ![p].pc = "prompt", ![p].orig = term]
  /\ term' = IF mode = "tty" THEN "raw" ELSE term
  /\ UNCHANGED <<use, eof, file, saved, sigints, clean>>

PromptReturns(p, line, ahead) ==
  /\ At(p, "prompt")
  /\ proc' = [proc EXCEPT ![p].pc = "got", ![p].line = line, ![p].ahead = ahead,
                          ![p].eintr = FALSE, ![p].orig = "cooked"]
  /\ term' = IF mode = "tty" THEN proc[p].orig ELSE term
  /\ UNCHANGED <<use, eof, file, saved, sigints, clean>>

\* getchar() has to read(): whichever shell waits for input may get the line,
\* and with it the lines that are already there behind it.
PromptLine(p, line) ==
  /\ proc[p].ahead = <<>> /\ ~ proc[p].eintr /\ ~ eof
  /\ \E more \in BoundedSeq(Typed, MaxAhead) :
       /\ saved + Len(more) < MaxLines \/ (line.kind = "exit" /\ more = <<>>)
       /\ PromptReturns(p, line, more)

\* getchar() finds the line in the buffer of stdin.
PromptAhead(p) ==
  proc[p].ahead # <<>> /\ PromptReturns(p, Head(proc[p].ahead), Tail(proc[p].ahead))

\* getchar() returns EOF, because read() was interrupted or there is no more
\* input; prompt() takes it for the end of an empty line.
PromptEOF(p) ==
  /\ proc[p].ahead = <<>>
  /\ proc[p].eintr \/ eof
  /\ PromptReturns(p, Blank, <<>>)

-----------------------------------------------------------------------------
(* The main loop.                                                          *)

\* received_sigint is set: it is reset and the line is dropped.
SkipLine(p) ==
  /\ At(p, "got") /\ proc[p].flag
  /\ proc' = [proc EXCEPT ![p].pc = "skip", ![p].flag = FALSE, ![p].line = Blank]
  /\ UNCHANGED <<use, eof, term, file, saved, sigints, clean>>

\* Mistake: the handler is not installed again.
RearmForgotten(p) ==
  /\ At(p, "skip")
  /\ proc' = [proc EXCEPT ![p].pc = "ready"]
  /\ UNCHANGED <<use, eof, term, file, saved, sigints, clean>>

\* signal() and the next turn of the loop.
Rearm(p) ==
  /\ At(p, "skip")
  /\ proc' = [proc EXCEPT ![p].pc = "ready", ![p].armed = TRUE]
  /\ UNCHANGED <<use, eof, term, file, saved, sigints, clean>>

\* hist_save(), where a slot is free, and the line is of this kind; a source is
\* not saved.
Save(p, kind) ==
  /\ At(p, "got") /\ ~ proc[p].flag
  /\ proc[p].line.kind = kind
  /\ IF mode = "source" THEN UNCHANGED saved
     ELSE saved' = saved + 1 /\ Len(proc[p].mem) < MaxSlots

Remembered(p) ==
  IF mode = "source" THEN <<>> ELSE Append(proc[p].mem, saved + 1)

\* hist_save() with every slot taken: hist_write() makes no room, and the line
\* goes where there is no slot.
SaveFull(p) ==
  /\ At(p, "got") /\ ~ proc[p].flag /\ mode # "source"
  /\ Len(proc[p].mem) = MaxSlots
  /\ file' = file \o proc[p].mem
  /\ proc' = [proc EXCEPT ![p].pc = "lost"]
  /\ clean' = FALSE
  /\ UNCHANGED <<use, eof, term, saved, sigints>>

\* Such a shell may end at any time, and it may as well never end.
Crash(p) ==
  /\ At(p, "lost")
  /\ \E s \in {0, 1} : proc' = Ended(proc, {p}, s)
  /\ clean' = FALSE
  /\ UNCHANGED <<use, eof, term, file, saved, sigints>>

\* Mistake: the empty line is interpreted like any other.
EmptyLineInterpreted(p) ==
  /\ Save(p, "blank")
  /\ proc' = [proc EXCEPT ![p].pc = "eval", ![p].mem = Remembered(p)]
  /\ UNCHANGED <<use, eof, term, file, sigints, clean>>

\* Mistake: an empty line is not saved.
EmptyLineDropped(p) ==
  /\ At(p, "got") /\ ~ proc[p].flag /\ proc[p].line.kind = "blank"
  /\ proc' = [proc EXCEPT ![p].pc = "ready"]
  /\ UNCHANGED <<use, eof, term, file, saved, sigints, clean>>

EmptyLine(p) ==
  /\ Save(p, "blank")
  /\ proc' = [proc EXCEPT ![p].pc = "ready", ![p].mem = Remembered(p)]
  /\ UNCHANGED <<use, eof, term, file, sigints, clean>>

\* Mistake: the file is written anew.
LeaveTruncates(p) ==
  /\ Save(p, "exit")
  /\ file' = Remembered(p)
  /\ proc' = Ended(proc, {p}, 0)
  /\ UNCHANGED <<use, eof, term, sigints, clean>>

\* "exit": hist_write() and the end of valery().
Leave(p) ==
  /\ Save(p, "exit")
  /\ file' = file \o Remembered(p)
  /\ proc' = Ended(proc, {p}, 0)
  /\ UNCHANGED <<use, eof, term, sigints, clean>>

\* valery_exit_parse_error() is exit(1), without hist_write().
ParseError(p) ==
  /\ Save(p, "error")
  /\ proc' = Ended(proc, {p}, 1)
  /\ clean' = FALSE
  /\ UNCHANGED <<use, eof, term, file, sigints>>

Interpret(p) ==
  /\ Save(p, "run")
  /\ proc' = [proc EXCEPT ![p].pc = "eval", ![p].mem = Remembered(p),
                          ![p].todo = Head(proc[p].line.stmts),
                          ![p].rest = Tail(proc[p].line.stmts),
                          ![p].line = Blank]
  /\ UNCHANGED <<use, eof, term, file, sigints, clean>>

\* The source is interpreted and valery() returns 0, in the first shell and in
\* one that a failed execve() has left.
SourceDone(p) ==
  /\ At(p, "ready") /\ mode = "source"
  /\ proc' = Ended(proc, {p}, 0)
  /\ UNCHANGED <<use, eof, term, file, saved, sigints, clean>>

-----------------------------------------------------------------------------
(* valery_exec_program() and the evaluation it returns to.                 *)

\* Calling waitpid(q, ...) for the first command of todo.
WaitFor(r, q) ==
  [r EXCEPT !.pc = "wait", !.child = q, !.todo = Tail(@), !.left = "none"]

\* A command without a word: to read the name of the program through an argv[0]
\* that was never written may end the shell.
EmptyCommand(p) ==
  /\ At(p, "eval") /\ Head(proc[p].todo) = Nothing
  /\ proc' = Ended(proc, {p}, 1)
  /\ clean' = FALSE
  /\ UNCHANGED <<use, eof, term, file, saved, sigints>>

Fork(p) ==
  /\ At(p, "eval")
  /\ \E q \in Procs :
       /\ At(q, "free") /\ \A r \in Procs : At(r, "free") => q <= r
       /\ proc' = [proc EXCEPT
                     ![p] = WaitFor(proc[p], q),
                     ![q] = [proc[p] EXCEPT !.pc = "exec", !.parent = p]]
  /\ UNCHANGED <<use, eof, term, file, saved, sigints, clean>>

\* fork() returns -1 and waitpid(-1, ...) waits for any child.
ForkFails(p) ==
  /\ At(p, "eval")
  /\ proc' = [proc EXCEPT ![p] = WaitFor(proc[p], 0)]
  /\ UNCHANGED <<use, eof, term, file, saved, sigints, clean>>

\* What was read for the name of Nothing may happen to be installed, or not.
Exec(q) ==
  /\ At(q, "exec") /\ Head(proc[q].todo) \in Installed \cup {Nothing}
  /\ proc' = [r \in Procs |->
       CASE r = q -> [Free EXCEPT !.pc = "program", !.parent = proc[q].parent]
         [] r # q /\ r = proc[q].parent -> [proc[r] EXCEPT !.left = "running"]
         [] OTHER -> proc[r]]
  /\ UNCHANGED <<use, eof, term, file, saved, sigints, clean>>

\* execve() returns; new_pid is 0 in the child and waitpid(0, ...) waits for
\* any child of its own.
ExecFails(q) ==
  /\ At(q, "exec") /\ Head(proc[q].todo) \notin Installed
  /\ proc' = [proc EXCEPT ![q] = WaitFor(proc[q], 0)]
  /\ UNCHANGED <<use, eof, term, file, saved, sigints, clean>>

ProgramEnds(q) ==
  /\ At(q, "program")
  /\ \E s \in {0, 1} : proc' = Ended(proc, {q}, s)
  /\ UNCHANGED <<use, eof, term, file, saved, sigints, clean>>

\* waitpid() is over, and the statement as well: interpret() goes on to the next
\* one, whatever has become of this one.
NextStatement(r) ==
  [r EXCEPT !.pc = IF r.rest = <<>> THEN "ready" ELSE "eval",
            !.todo = IF r.rest = <<>> THEN <<>> ELSE Head(r.rest),
            !.rest = IF r.rest = <<>> THEN <<>> ELSE Tail(r.rest),
            !.left = "none", !.child = 0, !.eintr = FALSE]

\* Mistake: the right command of && runs whatever the left one returned.
EvaluatedAlways(r, c) ==
  IF r.todo # <<>> THEN [r EXCEPT !.pc = "eval", !.child = 0, !.eintr = FALSE]
                   ELSE NextStatement(r)

\* The command has set glob_exit_code to c: and_if() goes on to the right
\* command or the statement is done.
Evaluated(r, c) ==
  IF c = 0 /\ r.todo # <<>>
    THEN [r EXCEPT !.pc = "eval", !.child = 0, !.eintr = FALSE]
    ELSE NextStatement(r)

WaitReturns(p) ==
  /\ At(p, "wait")
  /\ \E q \in Children(p) :
       /\ At(q, "zombie") /\ proc[p].child \in {0, q}
       /\ proc' = [proc EXCEPT
                     ![q] = Free,
                     ![p] = Evaluated(proc[p], proc[q].status)]
  /\ UNCHANGED <<use, eof, term, file, saved, sigints, clean>>

\* Mistake: waitpid(..., WNOHANG) does not wait.
WaitFailsAlways(p) ==
  /\ At(p, "wait")
  /\ \E c \in {0, 1} : proc' = [proc EXCEPT ![p] = Evaluated(proc[p], c)]
  /\ UNCHANGED <<use, eof, term, file, saved, sigints, clean>>

\* Mistake: waitpid() is called again when it fails for want of a child.
WaitInsists(p) ==
  /\ At(p, "wait") /\ proc[p].eintr
  /\ \E c \in {0, 1} : proc' = [proc EXCEPT ![p] = Evaluated(proc[p], c)]
  /\ UNCHANGED <<use, eof, term, file, saved, sigints, clean>>

\* waitpid() fails, there is no child (ECHILD) or a signal came (EINTR), and
\* status is never initialised.
WaitFails(p) ==
  /\ At(p, "wait")
  /\ proc[p].eintr \/ (proc[p].child = 0 /\ Children(p) = {})
  /\ \E c \in {0, 1} : proc' = [proc EXCEPT ![p] = Evaluated(proc[p], c)]
  /\ UNCHANGED <<use, eof, term, file, saved, sigints, clean>>

-----------------------------------------------------------------------------
(* ctrl+c sends SIGINT to every process of the terminal.                   *)

\* Mistake: System V's signal(), also where BSD's is expected.
CaughtOnce(r) ==
  [r EXCEPT !.flag = TRUE, !.armed = FALSE, !.eintr = r.pc \in {"prompt", "wait"}]

\* catch_sigint() runs in the shell r.
Caught(r) ==
  [r EXCEPT !.flag = TRUE, !.armed = restart,
            !.eintr = ~ restart /\ r.pc \in {"prompt", "wait"}]

\* A shell without the handler dies; a program dies unless it catches SIGINT.
Sigint ==
  /\ sigints < MaxSigints /\ sigints' = sigints + 1
  /\ Alive # {}
  /\ \E K \in SUBSET {q \in Procs : At(q, "program")} :
       LET shells == {p \in Alive : ~ At(p, "program")}
           killed == {p \in shells : ~ proc[p].armed}
       IN  /\ proc' = Ended([p \in Procs |-> IF p \in shells \ killed
                                               THEN Caught(proc[p]) ELSE proc[p]],
                            K \cup killed, 1)
           /\ clean' = (clean /\ killed = {})
  /\ UNCHANGED <<use, eof, term, file, saved>>

-----------------------------------------------------------------------------

\* Whoever writes to the pipe closes it.
InputEnds ==
  /\ mode = "pipe" /\ ~ eof /\ eof' = TRUE
  /\ UNCHANGED <<use, proc, term, file, saved, sigints, clean>>

\* The system calls around a command that need nobody else to do anything, and
\* all that a process of valery does on its own.
Calls(p) == Exec(p) \/ ExecFails(p) \/ WaitReturns(p) \/ WaitFails(p)

Own(p) ==
  \/ PromptStart(p) \/ PromptAhead(p) \/ PromptEOF(p)
  \/ SkipLine(p) \/ Rearm(p) \/ SaveFull(p) \/ EmptyLine(p) \/ Leave(p)
  \/ ParseError(p) \/ Interpret(p) \/ SourceDone(p)
  \/ EmptyCommand(p) \/ Fork(p) \/ ForkFails(p) \/ Calls(p)

Next ==
  \/ \E p \in Procs :
       \/ Own(p) \/ ProgramEnds(p) \/ Crash(p)
       \/ \E line \in Typed : PromptLine(p, line)
  \/ Sigint \/ InputEnds

Spec == Init /\ [][Next]_vars

\* The kernel lets every process run; neither the user nor a program has to do
\* anything.  Reaped needs the calls only.
CallSpec == Spec /\ \A p \in Procs : WF_vars(Calls(p))
FairSpec == Spec /\ \A p \in Procs : WF_vars(Own(p))

-----------------------------------------------------------------------------
(* Properties.                                                             *)

\* Every variable holds a value of its type, the parent of a process is a
\* process, only a line with a command gets to valery_exec_program(), and no
\* shell remembers more lines than hist_malloc() has made slots.
TypeOK ==
  /\ restart \in BOOLEAN /\ eof \in BOOLEAN
  /\ mode \in {"tty", "pipe", "source"} /\ proc \in [Procs -> Process]
  /\ term \in {"cooked", "raw"} /\ file \in Seq(Nat) /\ saved \in Nat
  /\ sigints \in Nat /\ clean \in BOOLEAN
  /\ \A p \in Procs : proc[p].parent # 0 => ~ At(proc[p].parent, "free")
  /\ \A p \in Procs : proc[p].pc \in {"eval", "exec"} => proc[p].todo # <<>>
  /\ \A p \in Procs : Len(proc[p].mem) <= MaxSlots

\* Where waitpid() is restarted after a signal, the shells form a chain in
\* which each waits for the next: however many failed commands have turned
\* children into shells, one process at a time reads the terminal or runs.
OneActive ==
  restart => \A p, q \in Alive :
    ~ At(p, "wait") /\ ~ At(q, "wait") => p = q

\* In that build the terminal is raw exactly while some shell reads a line, so
\* a program never runs on a raw terminal and none is left behind by a shell
\* that is gone: each prompt() restores what its own start has saved.
TermFollowsPrompt ==
  restart => (term = "raw" <=> mode = "tty" /\ \E p \in Procs : At(p, "prompt"))

\* In that build the right command of && is not started while the program of
\* the left one still runs or after it has failed, be it killed by a ctrl+c
\* that the waiting shell has caught as well.
AndIfStops ==
  [][\A p \in Procs :
       restart /\ proc[p].left \in {"running", "failed"} => ~ Fork(p)]_vars

\* In both builds the handler of the main loop is missing only while the signal
\* it has caught is pending and in the step between the two statements that reset
\* the one and install the other: whatever is read, run and forked in between, a
\* shell that goes on to its next line has the handler.
ArmedUnlessFlagged ==
  mode # "source" =>
    \A p \in Alive : \/ At(p, "program") \/ At(p, "skip")
                    \/ proc[p].armed \/ proc[p].flag

\* Reading the numbers from the left, how far they count up from 1.
InOrder(lines) ==
  FoldLeft(LAMBDA n, line : IF line = n + 1 THEN n + 1 ELSE n, 0, lines)

\* In the build that restarts waitpid(), once every shell has left through
\* "exit" all the lines any of them has taken are in the file, and reading it
\* from the top meets them in the order they were taken.
TypedOrderKept ==
  restart /\ clean /\ (\A p \in Procs : At(p, "free")) => InOrder(file) = saved

\* In that build no command stays a zombie: whoever forked it collects it.
Reaped == \A p \in Procs : (restart /\ At(p, "zombie")) ~> At(p, "free")

\* A source comes to its end, in the first shell and in each that a failed
\* execve() has left, unless a program one of them waits for does not end.
SourceEnds ==
  mode = "source" ~> Alive = {} \/ \E p \in Procs : At(p, "program")

\* The end of the input does not end a shell.  prompt() takes it for an empty
\* line, again and again, and each of these takes a slot of the history; so unless
\* a program does not end or the line that was read last ends the shells, one of
\* them writes behind its last slot.  Nothing is said of what follows.
EofFillsHistory ==
  eof ~> \/ Alive = {}
         \/ \E p \in Procs : At(p, "program") \/ At(p, "lost")
=============================================================================
