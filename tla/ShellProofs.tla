---------------------------- MODULE ShellProofs ----------------------------
(***************************************************************************)
(* Theorems about Shell, for any number of processes, lines, signals and   *)
(* history slots.                                                          *)
(***************************************************************************)
EXTENDS Shell, SequenceTheorems, FoldProofs, TLAPS

\* A statement, which has a command.
Statement == Seq(Programs) \ {<<>>}

\* A process whose type is right, and that will not evaluate a command that is
\* not there, since interpret() takes the statements of its line one by one.
Sound ==
  {r \in Process :
     /\ r.line \in Typed \cup {Blank} /\ r.ahead \in Seq(Typed)
     /\ r.rest \in Seq(Statement)
     /\ r.pc \in {"eval", "exec"} => r.todo # <<>>
     /\ r.pc = "free" => r.parent = 0
     /\ Len(r.mem) <= MaxSlots}

\* TypeOK is not inductive: it does not say what the statements not yet
\* evaluated are, and that a parent is not a zombie, whose children would
\* otherwise keep it as their parent when it is collected.
Living == States \ {"free", "zombie"}
ParentsInv ==
  \A p \in Procs : proc[p].parent # 0 =>
    proc[p].parent \in Procs /\ proc[proc[p].parent].pc \in Living
ScalarsOK ==
  /\ restart \in BOOLEAN /\ eof \in BOOLEAN /\ mode \in {"tty", "pipe", "source"}
  /\ term \in {"cooked", "raw"} /\ file \in Seq(Nat) /\ saved \in Nat
  /\ sigints \in Nat /\ clean \in BOOLEAN
TypeInv == ScalarsOK /\ proc \in [Procs -> Sound] /\ ParentsInv

\* The processes form a chain where waitpid() is restarted: who does not wait
\* has no child, who waits has one at most, and one process is the last.
Exists(p) == ~ At(p, "free")
Leaf(p) == Exists(p) /\ Children(p) = {}
ChainInv ==
  /\ \A p \in Procs : ~ proc[p].eintr
  /\ \A p \in Procs : Exists(p) /\ ~ At(p, "wait") => Leaf(p)
  /\ \A p, q, r \in Procs : q \in Children(p) /\ r \in Children(p) => q = r
  /\ \A p, q \in Procs : Leaf(p) /\ Leaf(q) => p = q
  /\ \A p \in Procs : At(p, "zombie") => proc[p].parent # 0

\* The mode saved is the cooked one, since prompts do not overlap.
TermInv ==
  /\ \A p \in Procs : proc[p].orig = "cooked"
  /\ term = "raw" <=> mode = "tty" /\ \E p \in Procs : At(p, "prompt")

\* What is known of the program of the left command can be seen in the table.
LeftInv ==
  \A p \in Procs :
    /\ proc[p].left = "running" =>
         At(p, "wait") /\ \E q \in Children(p) : At(q, "program")
    /\ proc[p].left = "failed" =>
         /\ At(p, "wait")
         /\ \E q \in Children(p) : At(q, "zombie") /\ proc[q].status = 1

\* ArmedUnlessFlagged is inductive together with what it leaves out: BSD's
\* signal() keeps the handler, and where a source is given there is none.
ArmedInv ==
  \A p \in Alive :
    /\ mode # "source" => \/ At(p, "program") \/ proc[p].armed
                          \/ ~ restart /\ (proc[p].flag \/ At(p, "skip"))
    /\ mode = "source" => ~ proc[p].armed /\ ~ proc[p].flag /\ ~ At(p, "skip")

BSDInv == restart => ChainInv /\ TermInv /\ LeftInv

-----------------------------------------------------------------------------
(* Types.                                                                  *)

LEMMA Numbers == 0 \in 0 .. MaxProcs /\ Procs \subseteq 0 .. MaxProcs /\ 0 \notin Procs
BY ShellAssumption DEF Procs

LEMMA FreeSound == Free \in Sound
<1>1. /\ <<>> \in Seq(Lines) /\ <<>> \in Seq(Programs) /\ <<>> \in Seq(Seq(Programs))
      /\ <<>> \in Seq(Nat) /\ <<>> \in Seq(Typed) /\ <<>> \in Seq(Statement)
  OBVIOUS
<1>2. Blank \in Lines
  BY DEF Blank, Lines
<1>3. Free \in Process
  BY <1>1, <1>2, Numbers DEF Free, Process, States
<1>4. Len(Free.mem) <= MaxSlots
  BY ShellAssumption DEF Free
<1> QED
  BY <1>1, <1>3, <1>4 DEF Sound, Free

\* The changes of a process that leave out its command and its history.
LEMMA StateSound ==
  ASSUME NEW r \in Sound, NEW pc \in {"ready", "prompt", "got", "skip", "lost", "wait"},
         NEW orig \in {"cooked", "raw"}, NEW line \in Typed \cup {Blank},
         NEW ahead \in Seq(Typed)
  PROVE  /\ [r EXCEPT !.pc = pc, !.orig = orig] \in Sound
         /\ [r EXCEPT !.pc = pc, !.line = line, !.ahead = ahead,
                      !.eintr = FALSE, !.orig = orig] \in Sound
         /\ [r EXCEPT !.pc = pc, !.flag = FALSE, !.line = line] \in Sound
         /\ [r EXCEPT !.pc = pc, !.armed = TRUE] \in Sound
         /\ [r EXCEPT !.pc = pc] \in Sound
<1>1. line \in Lines /\ ahead \in Seq(Lines)
  <2>1. Typed \subseteq Lines /\ Blank \in Lines
    BY ShellAssumption DEF Blank, Lines
  <2> QED
    BY <2>1, SeqMonotonic
<1>2. [r EXCEPT !.pc = pc, !.orig = orig] \in Sound
  BY ZenonT(40) DEF Sound, Process, States
<1>3. [r EXCEPT !.pc = pc, !.line = line, !.ahead = ahead,
                !.eintr = FALSE, !.orig = orig] \in Sound
  BY ZenonT(60), <1>1 DEF Sound, Process, States
<1>4. [r EXCEPT !.pc = pc, !.flag = FALSE, !.line = line] \in Sound
  BY ZenonT(60), <1>1 DEF Sound, Process, States
<1>5. [r EXCEPT !.pc = pc, !.armed = TRUE] \in Sound
  BY DEF Sound, Process, States
<1>6. [r EXCEPT !.pc = pc] \in Sound
  BY DEF Sound, Process, States
<1> QED
  BY <1>2, <1>3, <1>4, <1>5, <1>6

LEMMA ParentSound ==
  ASSUME NEW r \in Sound, NEW parent \in 0 .. MaxProcs, NEW s \in {0, 1}
  PROVE  /\ [r EXCEPT !.parent = 0] \in Sound
         /\ [r EXCEPT !.left = IF s = 0 THEN "ok" ELSE "failed"] \in Sound
         /\ [r EXCEPT !.left = "running"] \in Sound
         /\ [Free EXCEPT !.pc = "zombie", !.parent = parent, !.status = s] \in Sound
         /\ [Free EXCEPT !.pc = "program", !.parent = parent] \in Sound
<1>1. [r EXCEPT !.parent = 0] \in Sound
  BY Numbers DEF Sound, Process
<1>2. \A left \in {"ok", "failed", "running"} : [r EXCEPT !.left = left] \in Sound
  BY DEF Sound, Process
<1>3. [Free EXCEPT !.pc = "zombie", !.parent = parent, !.status = s] \in Sound
  BY FreeSound DEF Sound, Process, States
<1>4. [Free EXCEPT !.pc = "program", !.parent = parent] \in Sound
  BY FreeSound DEF Sound, Process, States
<1> QED
  BY <1>1, <1>2, <1>3, <1>4

LEMMA SignalSound ==
  ASSUME NEW r \in Sound, ScalarsOK
  PROVE  Caught(r) \in Sound
<1>1. restart \in BOOLEAN
  BY DEF ScalarsOK
<1>2. PICK armed \in BOOLEAN, eintr \in BOOLEAN :
        Caught(r) = [r EXCEPT !.flag = TRUE, !.armed = armed, !.eintr = eintr]
  BY <1>1 DEF Caught
<1> QED
  BY ONLY <1>2, r \in Sound DEF Sound, Process

\* WaitFor() takes the first command off a list that is not empty.
LEMMA WaitForSound ==
  ASSUME NEW r \in Sound, NEW q \in 0 .. MaxProcs, r.pc \in {"eval", "exec"}
  PROVE  WaitFor(r, q) \in Sound
<1>1. r.todo \in Seq(Programs) /\ r.todo # <<>>
  BY DEF Sound, Process
<1>2. Tail(r.todo) \in Seq(Programs)
  BY <1>1
<1> QED
  BY <1>2 DEF WaitFor, Sound, Process, States

\* After waitpid() there is a command to evaluate, or the shell is done.
LEMMA EvaluatedSound ==
  ASSUME NEW r \in Sound, NEW c \in {0, 1}
  PROVE  Evaluated(r, c) \in Sound
<1>1. CASE c = 0 /\ r.todo # <<>>
  BY <1>1, Numbers DEF Evaluated, Sound, Process, States
<1>2. CASE ~ (c = 0 /\ r.todo # <<>>)
  <2>1. Evaluated(r, c) = NextStatement(r)
    BY <1>2 DEF Evaluated
  <2>2. CASE r.rest = <<>>
    <3>1. <<>> \in Seq(Programs) /\ <<>> \in Seq(Statement) /\ <<>> \in Seq(Seq(Programs))
      OBVIOUS
    <3>2. NextStatement(r) = [r EXCEPT !.pc = "ready", !.todo = <<>>, !.rest = <<>>,
                                       !.left = "none", !.child = 0, !.eintr = FALSE]
      BY <2>2 DEF NextStatement
    <3>3. [r EXCEPT !.pc = "ready", !.todo = <<>>, !.rest = <<>>,
                    !.left = "none", !.child = 0, !.eintr = FALSE] \in Sound
      BY <3>1, Numbers DEF Sound, Process, States
    <3> QED
      BY <2>1, <3>2, <3>3
  <2>3. CASE r.rest # <<>>
    <3>1. r.rest \in Seq(Statement)
      BY DEF Sound
    <3>2. Head(r.rest) \in Statement /\ Tail(r.rest) \in Seq(Statement)
      BY <2>3, <3>1
    <3>3. Tail(r.rest) \in Seq(Seq(Programs))
      BY <3>2, SeqMonotonic DEF Statement
    <3> QED
      BY <2>1, <2>3, <3>2, <3>3, Numbers, ZenonT(40)
         DEF NextStatement, Sound, Process, States, Statement
  <2> QED
    BY <2>2, <2>3
<1> QED
  BY <1>1, <1>2

LEMMA EndedSound ==
  ASSUME NEW table \in [Procs -> Sound], NEW D \in SUBSET Procs, NEW s \in {0, 1}
  PROVE  Ended(table, D, s) \in [Procs -> Sound]
<1>1. ASSUME NEW q \in Procs
      PROVE  Ended(table, D, s)[q] \in Sound
  <2>1. table[q] \in Sound /\ table[q].parent \in 0 .. MaxProcs
    BY DEF Sound, Process
  <2>2. PICK parent \in 0 .. MaxProcs : parent = table[q].parent
    BY <2>1
  <2>3. \A left \in {"none", "running", "ok", "failed"}, p \in {0, parent} :
          [table[q] EXCEPT !.parent = p, !.left = left] \in Sound
    BY <2>1, <2>2, Numbers, ZenonT(40) DEF Sound, Process
  <2>4. table[q].left \in {"none", "running", "ok", "failed"}
    BY DEF Sound, Process
  <2> QED
    BY <2>2, <2>3, <2>4, FreeSound, ParentSound DEF Ended
<1> QED
  BY <1>1 DEF Ended

\* Ended() leaves nothing of a process that nobody waits for, be it a zombie.
LEMMA EndedFree ==
  ASSUME NEW table \in [Procs -> Sound], NEW D \in SUBSET Procs, NEW s \in {0, 1},
         NEW q \in Procs, q \in D \/ table[q].pc = "zombie",
         table[q].parent \in D \/ (q \in D /\ table[q].parent = 0)
  PROVE  Ended(table, D, s)[q] = Free
BY DEF Ended

\* The process is a zombie for the parent it has left.
LEMMA EndedZombie ==
  ASSUME NEW table \in [Procs -> Sound], NEW D \in SUBSET Procs, NEW s \in {0, 1},
         NEW q \in Procs, q \in D, table[q].parent \notin D, table[q].parent # 0,
         NEW e, e = Ended(table, D, s)[q]
  PROVE  /\ e.pc = "zombie" /\ e.parent = table[q].parent /\ e.status = s
         /\ e.left = "none" /\ ~ e.eintr /\ e.orig = "cooked" /\ e.mem = <<>>
<1>1. e = [Free EXCEPT !.pc = "zombie", !.parent = table[q].parent, !.status = s]
  <2>1. table[q].pc = "zombie" => table[q].parent \notin D
    OBVIOUS
  <2> QED
    BY <2>1 DEF Ended
<1> QED
  BY <1>1 DEF Free

\* A process that stays loses a parent that ends.
LEMMA EndedStays ==
  ASSUME NEW table \in [Procs -> Sound], NEW D \in SUBSET Procs, NEW s \in {0, 1},
         NEW q \in Procs, q \notin D, table[q].pc # "zombie" \/ table[q].parent \notin D,
         NEW e, e = Ended(table, D, s)[q]
  PROVE  /\ table[q].parent \in D => e.parent = 0
         /\ table[q].parent \notin D => e.parent = table[q].parent
         /\ e.pc = table[q].pc /\ e.status = table[q].status /\ e.orig = table[q].orig
         /\ e.eintr = table[q].eintr /\ e.armed = table[q].armed /\ e.flag = table[q].flag
         /\ e.mem = table[q].mem
<1>1. table[q] \in Process /\ 0 \notin D
  BY Numbers DEF Sound
<1>2. \E parent, left : /\ parent = IF table[q].parent \in D THEN 0 ELSE table[q].parent
                        /\ e = [table[q] EXCEPT !.parent = parent, !.left = left]
  BY <1>1 DEF Ended
<1> QED
  BY <1>1, <1>2 DEF Process

\* A shell whose program is not among them does not learn anything.
LEMMA EndedLeft ==
  ASSUME NEW table \in [Procs -> Sound], NEW D \in SUBSET Procs, NEW s \in {0, 1},
         NEW q \in Procs, q \notin D, table[q].pc # "zombie" \/ table[q].parent \notin D,
         \A p \in D : ~ (table[p].pc = "program" /\ table[p].parent = q)
  PROVE  Ended(table, D, s)[q].left = table[q].left
<1>1. table[q] \in Process
  BY DEF Sound
<1>2. \E parent : Ended(table, D, s)[q] =
                    [table[q] EXCEPT !.parent = parent, !.left = table[q].left]
  BY <1>1 DEF Ended
<1> QED
  BY <1>1, <1>2 DEF Process

\* A shell whose program is among them learns how it ended.
LEMMA EndedLearns ==
  ASSUME NEW table \in [Procs -> Sound], NEW D \in SUBSET Procs, NEW s \in {0, 1},
         NEW q \in Procs, q \notin D, table[q].pc # "zombie" \/ table[q].parent \notin D,
         NEW p \in D, table[p].pc = "program", table[p].parent = q
  PROVE  Ended(table, D, s)[q].left = IF s = 0 THEN "ok" ELSE "failed"
<1> DEFINE became == IF s = 0 THEN "ok" ELSE "failed"
<1>1. table[q] \in Process
  BY DEF Sound
<1>2. \E parent : Ended(table, D, s)[q] =
                    [table[q] EXCEPT !.parent = parent, !.left = became]
  BY <1>1 DEF Ended
<1> QED
  BY <1>1, <1>2 DEF Process

\* The parents stay the living processes.
LEMMA EndedParents ==
  ASSUME NEW table \in [Procs -> Sound], NEW D \in SUBSET Procs, NEW s \in {0, 1},
         \A q \in Procs : table[q].parent # 0 =>
           table[q].parent \in Procs /\ table[table[q].parent].pc \in Living
  PROVE  LET t == Ended(table, D, s)
         IN  \A q \in Procs : t[q].parent # 0 =>
               t[q].parent \in Procs /\ t[t[q].parent].pc \in Living
<1> DEFINE t == Ended(table, D, s)
<1> SUFFICES ASSUME NEW q \in Procs, t[q].parent # 0
             PROVE  t[q].parent \in Procs /\ t[t[q].parent].pc \in Living
  OBVIOUS
<1>1. t[q].parent = table[q].parent /\ table[q].parent \notin D
  <2>1. t[q] # Free
    BY DEF Free
  <2>2. CASE q \in D
    <3>1. table[q].parent \notin D /\ table[q].parent # 0
      BY <2>1, <2>2, EndedFree
    <3> QED
      BY <2>2, <3>1, EndedZombie
  <2>3. CASE q \notin D
    <3>1. table[q].pc # "zombie" \/ table[q].parent \notin D
      BY <2>1, <2>3, EndedFree
    <3>2. table[q].parent \in D => t[q].parent = 0
      BY <2>3, <3>1, EndedStays
    <3>3. table[q].parent \notin D => t[q].parent = table[q].parent
      BY <2>3, <3>1, EndedStays
    <3> QED
      BY <3>2, <3>3
  <2> QED
    BY <2>2, <2>3
<1>2. PICK p \in Procs : p = table[q].parent
  BY <1>1
<1>3. p \notin D /\ table[p].pc \in Living
  BY <1>1, <1>2
<1>4. t[p].pc = table[p].pc
  BY <1>3, EndedStays DEF Living
<1> QED
  BY <1>1, <1>2, <1>3, <1>4

LEMMA TypeInvOK == TypeInv => TypeOK
<1> SUFFICES ASSUME TypeInv PROVE TypeOK
  OBVIOUS
<1>1. \A p \in Procs : proc[p].parent # 0 => ~ At(proc[p].parent, "free")
  BY DEF TypeInv, ParentsInv, At, Living
<1>2. /\ proc \in [Procs -> Process]
      /\ \A p \in Procs : proc[p].pc \in {"eval", "exec"} => proc[p].todo # <<>>
      /\ \A p \in Procs : Len(proc[p].mem) <= MaxSlots
  BY DEF TypeInv, Sound
<1> QED
  BY <1>1, <1>2 DEF TypeInv, TypeOK, ScalarsOK

\* A step in which one living process changes its state and keeps its parent.
LEMMA ChangeTypes ==
  ASSUME TypeInv, ScalarsOK', NEW p \in Procs, proc[p].pc \in Living,
         NEW r \in Sound, r.pc \in Living, r.parent = proc[p].parent,
         proc' = [proc EXCEPT ![p] = r]
  PROVE  TypeInv'
<1>1. proc' \in [Procs -> Sound]
  BY DEF TypeInv
<1>2. \A q \in Procs : /\ proc'[q].parent = proc[q].parent
                       /\ proc[q].pc \in Living => proc'[q].pc \in Living
  BY DEF TypeInv
<1>3. ParentsInv'
  BY <1>2 DEF ParentsInv, TypeInv
<1> QED
  BY <1>1, <1>3 DEF TypeInv

\* A step in which processes end.
LEMMA EndTypes ==
  ASSUME TypeInv, ScalarsOK', NEW D \in SUBSET Procs, NEW s \in {0, 1},
         proc' = Ended(proc, D, s)
  PROVE  TypeInv'
<1>1. proc' \in [Procs -> Sound]
  BY EndedSound DEF TypeInv
<1>2. ParentsInv'
  BY EndedParents DEF TypeInv, ParentsInv
<1> QED
  BY <1>1, <1>2 DEF TypeInv

\* hist_save() fills a slot that is free.
LEMMA SaveTypes ==
  ASSUME TypeInv, NEW p \in Procs, NEW kind, Save(p, kind)
  PROVE  /\ saved' \in Nat /\ Remembered(p) \in Seq(Nat)
         /\ Len(Remembered(p)) <= MaxSlots
<1>1. saved \in Nat /\ proc[p].mem \in Seq(Nat) /\ Len(proc[p].mem) <= MaxSlots
  BY DEF TypeInv, ScalarsOK, Sound, Process
<1>2. CASE mode = "source"
  BY <1>1, <1>2, ShellAssumption DEF Save, Remembered
<1>3. CASE mode # "source"
  <2>1. saved' = saved + 1 /\ Len(proc[p].mem) < MaxSlots
    BY <1>3 DEF Save
  <2>2. Remembered(p) = Append(proc[p].mem, saved + 1)
    BY <1>3 DEF Remembered
  <2> QED
    BY <1>1, <2>1, <2>2, ShellAssumption
<1> QED
  BY <1>2, <1>3

\* A line that is run has a statement, and each of them has a command.
LEMMA RunStatements ==
  ASSUME NEW line \in Typed, line.kind = "run"
  PROVE  /\ line.stmts \in Seq(Statement)
         /\ Head(line.stmts) \in Statement /\ Tail(line.stmts) \in Seq(Statement)
<1>1. line.stmts \in Seq(Seq(Programs)) /\ line.stmts # <<>> /\ <<>> \notin Range(line.stmts)
  BY ShellAssumption DEF Lines
<1>2. \A i \in 1 .. Len(line.stmts) : line.stmts[i] \in Statement
  <2>1. SUFFICES ASSUME NEW i \in 1 .. Len(line.stmts)
                 PROVE  line.stmts[i] \in Seq(Programs) /\ line.stmts[i] # <<>>
    BY DEF Statement
  <2>2. i \in DOMAIN line.stmts
    BY <1>1, LenProperties
  <2>3. line.stmts[i] \in Range(line.stmts)
    BY <2>2 DEF Range
  <2> QED
    BY <1>1, <2>3, ElementOfSeq
<1>3. line.stmts \in Seq(Statement)
  <2>1. Len(line.stmts) \in Nat /\ line.stmts \in [1 .. Len(line.stmts) -> Seq(Programs)]
    BY <1>1, LenProperties
  <2>2. line.stmts \in [1 .. Len(line.stmts) -> Statement]
    BY <1>2, <2>1
  <2> QED
    BY <2>1, <2>2, SeqDef
<1>4. line.stmts # <<>>
  BY <1>1
<1> QED
  BY <1>3, <1>4, HeadTailProperties

LEMMA PromptTypes ==
  ASSUME TypeInv, NEW p \in Procs, PromptStart(p)
  PROVE  TypeInv'
<1> DEFINE r == [proc[p] EXCEPT !.pc = "prompt", !.orig = term]
<1>1. proc' = [proc EXCEPT ![p] = r]
  BY DEF PromptStart
<1>2. proc[p] \in Sound /\ proc[p].pc = "ready" /\ term \in {"cooked", "raw"}
  BY DEF PromptStart, At, TypeInv, ScalarsOK
<1>3. r \in Sound
  BY <1>2 DEF Sound, Process, States
<1>4. r.pc = "prompt" /\ r.parent = proc[p].parent
  BY <1>2 DEF Sound, Process
<1>5. ScalarsOK'
  BY DEF PromptStart, TypeInv, ScalarsOK, use
<1> QED
  BY <1>1, <1>2, <1>3, <1>4, <1>5, ChangeTypes DEF Living, States

LEMMA LineTypes ==
  ASSUME TypeInv, NEW p \in Procs, NEW line \in Typed \cup {Blank},
         NEW ahead \in Seq(Typed), PromptReturns(p, line, ahead)
  PROVE  TypeInv'
<1> DEFINE r == [proc[p] EXCEPT !.pc = "got", !.line = line, !.ahead = ahead,
                                !.eintr = FALSE, !.orig = "cooked"]
<1>1. proc' = [proc EXCEPT ![p] = r]
  BY DEF PromptReturns
<1>2. proc[p] \in Sound /\ proc[p].pc = "prompt"
  BY DEF PromptReturns, At, TypeInv
<1>3. r \in Sound
  BY <1>2, StateSound
<1>4. r.pc = "got" /\ r.parent = proc[p].parent
  BY <1>2 DEF Sound, Process
<1>5. ScalarsOK'
  BY <1>2 DEF PromptReturns, TypeInv, ScalarsOK, use, Sound, Process
<1> QED
  BY <1>1, <1>2, <1>3, <1>4, <1>5, ChangeTypes DEF Living, States

\* Whether the line comes from read(), from the buffer or is none at all.
LEMMA ReturnTypes ==
  ASSUME TypeInv, NEW p \in Procs,
         PromptAhead(p) \/ PromptEOF(p) \/ \E line \in Typed : PromptLine(p, line)
  PROVE  TypeInv'
<1>1. CASE PromptAhead(p)
  <2>1. proc[p].ahead \in Seq(Typed) /\ proc[p].ahead # <<>>
    BY <1>1 DEF PromptAhead, TypeInv, Sound
  <2>2. Head(proc[p].ahead) \in Typed /\ Tail(proc[p].ahead) \in Seq(Typed)
    BY <2>1, HeadTailProperties
  <2> QED
    BY <1>1, <2>2, LineTypes DEF PromptAhead
<1>2. CASE PromptEOF(p)
  <2>1. <<>> \in Seq(Typed)
    OBVIOUS
  <2> QED
    BY <1>2, <2>1, LineTypes DEF PromptEOF
<1>3. ASSUME NEW line \in Typed, PromptLine(p, line)
      PROVE  TypeInv'
  <2>1. PICK more \in BoundedSeq(Typed, MaxAhead) : PromptReturns(p, line, more)
    BY <1>3 DEF PromptLine
  <2>2. more \in Seq(Typed)
    BY <2>1, ShellAssumption, SeqDef DEF BoundedSeq, SeqOf
  <2> QED
    BY <2>1, <2>2, LineTypes
<1> QED
  BY <1>1, <1>2, <1>3

\* A line that is dropped, the handler that is installed again, and a line that
\* no slot is left for.
LEMMA SkipTypes ==
  ASSUME TypeInv, NEW p \in Procs, SkipLine(p) \/ Rearm(p) \/ SaveFull(p)
  PROVE  TypeInv'
<1>1. /\ proc[p] \in Sound /\ proc[p].pc \in {"got", "skip"}
      /\ proc[p].pc \in Living /\ proc[p] \in Process
  BY DEF SkipLine, Rearm, SaveFull, At, TypeInv, Living, States, Sound
<1>2. "cooked" \in {"cooked", "raw"} /\ <<>> \in Seq(Typed) /\ Blank \in Typed \cup {Blank}
  OBVIOUS
<1>3. PICK r \in Sound : /\ proc' = [proc EXCEPT ![p] = r]
                         /\ r.pc \in Living /\ r.parent = proc[p].parent
  <2>1. CASE SkipLine(p)
    <3>1. PICK r : r = [proc[p] EXCEPT !.pc = "skip", !.flag = FALSE, !.line = Blank]
      OBVIOUS
    <3>2. r \in Sound
      BY <1>1, <1>2, <3>1, StateSound
    <3>3. r.pc = "skip" /\ r.parent = proc[p].parent
      BY <1>1, <3>1 DEF Process
    <3>4. proc' = [proc EXCEPT ![p] = r]
      BY <2>1, <3>1 DEF SkipLine
    <3> QED
      BY <3>2, <3>3, <3>4 DEF Living, States
  <2>2. CASE Rearm(p)
    <3>1. PICK r : r = [proc[p] EXCEPT !.pc = "ready", !.armed = TRUE]
      OBVIOUS
    <3>2. r \in Sound
      BY <1>1, <1>2, <3>1, StateSound
    <3>3. r.pc = "ready" /\ r.parent = proc[p].parent
      BY <1>1, <3>1 DEF Process
    <3>4. proc' = [proc EXCEPT ![p] = r]
      BY <2>2, <3>1 DEF Rearm
    <3> QED
      BY <3>2, <3>3, <3>4 DEF Living, States
  <2>3. CASE SaveFull(p)
    <3>1. PICK r : r = [proc[p] EXCEPT !.pc = "lost"]
      OBVIOUS
    <3>2. r \in Sound
      BY <1>1, <1>2, <3>1, StateSound
    <3>3. r.pc = "lost" /\ r.parent = proc[p].parent
      BY <1>1, <3>1 DEF Process
    <3>4. proc' = [proc EXCEPT ![p] = r]
      BY <2>3, <3>1 DEF SaveFull
    <3> QED
      BY <3>2, <3>3, <3>4 DEF Living, States
  <2> QED
    BY <2>1, <2>2, <2>3
<1>4. ScalarsOK'
  <2>1. proc[p].mem \in Seq(Nat) /\ file \in Seq(Nat)
    BY <1>1 DEF Process, TypeInv, ScalarsOK
  <2>2. file' \in Seq(Nat)
    <3>1. file \o proc[p].mem \in Seq(Nat)
      BY ONLY <2>1, ConcatProperties
    <3>2. file' \in {file, file \o proc[p].mem}
      BY DEF SkipLine, Rearm, SaveFull
    <3> QED
      BY ONLY <2>1, <3>1, <3>2
  <2> QED
    BY <2>2 DEF SkipLine, Rearm, SaveFull, TypeInv, ScalarsOK, use
<1> QED
  BY <1>1, <1>3, <1>4, ChangeTypes

LEMMA EmptyTypes ==
  ASSUME TypeInv, NEW p \in Procs, EmptyLine(p)
  PROVE  TypeInv'
<1> DEFINE r == [proc[p] EXCEPT !.pc = "ready", !.mem = Remembered(p)]
<1>1. proc' = [proc EXCEPT ![p] = r]
  BY DEF EmptyLine
<1>2. proc[p] \in Sound /\ proc[p].pc = "got"
  BY DEF EmptyLine, Save, At, TypeInv
<1>3. saved' \in Nat /\ Remembered(p) \in Seq(Nat) /\ Len(Remembered(p)) <= MaxSlots
  BY SaveTypes DEF EmptyLine
<1>4. r \in Sound
  BY <1>2, <1>3 DEF Sound, Process, States
<1>5. r.pc = "ready" /\ r.parent = proc[p].parent
  BY <1>2 DEF Sound, Process
<1>6. ScalarsOK'
  BY <1>3 DEF EmptyLine, TypeInv, ScalarsOK, use
<1> QED
  BY <1>1, <1>2, <1>4, <1>5, <1>6, ChangeTypes DEF Living, States

LEMMA InterpretTypes ==
  ASSUME TypeInv, NEW p \in Procs, Interpret(p)
  PROVE  TypeInv'
<1> DEFINE stmts == proc[p].line.stmts
           r == [proc[p] EXCEPT !.pc = "eval", !.mem = Remembered(p),
                                !.todo = Head(stmts), !.rest = Tail(stmts),
                                !.line = Blank]
<1>1. proc' = [proc EXCEPT ![p] = r]
  BY DEF Interpret
<1>2. proc[p] \in Sound /\ proc[p].pc = "got" /\ proc[p].line.kind = "run"
  BY DEF Interpret, Save, At, TypeInv
<1>3. saved' \in Nat /\ Remembered(p) \in Seq(Nat) /\ Len(Remembered(p)) <= MaxSlots
  BY SaveTypes DEF Interpret
<1>4. proc[p].line \in Typed
  BY <1>2 DEF Sound, Blank
<1>5. Head(stmts) \in Statement /\ Tail(stmts) \in Seq(Statement)
  BY <1>2, <1>4, RunStatements
<1>6. Tail(stmts) \in Seq(Seq(Programs))
  BY <1>5, SeqMonotonic DEF Statement
<1>7. Blank \in Lines
  BY DEF Blank, Lines
<1>8. r \in Sound
  <2> HIDE DEF stmts
  <2>1. Head(stmts) \in Seq(Programs) /\ Head(stmts) # <<>>
    BY <1>5 DEF Statement
  <2>2. r \in Process
    BY <1>2, <1>3, <1>6, <1>7, <2>1 DEF Sound, Process, States
  <2>3. /\ r.line = Blank /\ r.ahead = proc[p].ahead /\ r.rest = Tail(stmts)
        /\ r.todo = Head(stmts) /\ r.pc = "eval" /\ r.mem = Remembered(p)
    BY <1>2 DEF Sound, Process
  <2>4. proc[p].ahead \in Seq(Typed)
    BY <1>2 DEF Sound
  <2> QED
    BY <1>3, <1>5, <2>1, <2>2, <2>3, <2>4 DEF Sound
<1>9. r.pc = "eval" /\ r.parent = proc[p].parent
  BY <1>2 DEF Sound, Process
<1>10. ScalarsOK'
  BY <1>3 DEF Interpret, TypeInv, ScalarsOK, use
<1> QED
  BY <1>1, <1>2, <1>8, <1>9, <1>10, ChangeTypes DEF Living, States

\* The actions after which a process is gone.
LEMMA GoneTypes ==
  ASSUME TypeInv, NEW p \in Procs,
         \/ Crash(p) \/ Leave(p) \/ ParseError(p) \/ SourceDone(p)
         \/ EmptyCommand(p) \/ ProgramEnds(p)
  PROVE  TypeInv'
<1>1. file \in Seq(Nat) /\ proc[p].mem \in Seq(Nat)
  BY DEF TypeInv, ScalarsOK, Sound, Process
<1>2. CASE Crash(p)
  <2>1. ScalarsOK'
    BY <1>2 DEF Crash, TypeInv, ScalarsOK, use
  <2> QED
    BY <1>2, <2>1, EndTypes DEF Crash
<1>3. CASE Leave(p)
  <2>1. saved' \in Nat /\ Remembered(p) \in Seq(Nat)
    BY <1>3, SaveTypes DEF Leave
  <2>2. file' \in Seq(Nat)
    BY <1>1, <1>3, <2>1, ConcatProperties DEF Leave
  <2>3. ScalarsOK'
    BY <1>3, <2>1, <2>2 DEF Leave, TypeInv, ScalarsOK, use
  <2> QED
    BY <1>3, <2>3, EndTypes DEF Leave
<1>4. CASE ParseError(p)
  <2>1. saved' \in Nat
    BY <1>4, SaveTypes DEF ParseError
  <2>2. ScalarsOK'
    BY <1>4, <2>1 DEF ParseError, TypeInv, ScalarsOK, use
  <2> QED
    BY <1>4, <2>2, EndTypes DEF ParseError
<1>5. CASE SourceDone(p)
  <2>1. ScalarsOK'
    BY <1>5 DEF SourceDone, TypeInv, ScalarsOK, use
  <2> QED
    BY <1>5, <2>1, EndTypes DEF SourceDone
<1>6. CASE EmptyCommand(p)
  <2>1. ScalarsOK'
    BY <1>6 DEF EmptyCommand, TypeInv, ScalarsOK, use
  <2> QED
    BY <1>6, <2>1, EndTypes DEF EmptyCommand
<1>7. CASE ProgramEnds(p)
  <2>1. ScalarsOK'
    BY <1>7 DEF ProgramEnds, TypeInv, ScalarsOK, use
  <2> QED
    BY <1>7, <2>1, EndTypes DEF ProgramEnds
<1> QED
  BY <1>2, <1>3, <1>4, <1>5, <1>6, <1>7

\* WaitFor() changes nothing else of the process.
LEMMA WaitForFields ==
  ASSUME NEW r \in Sound, NEW q \in 0 .. MaxProcs, NEW e, e = WaitFor(r, q)
  PROVE  /\ e.pc = "wait" /\ e.child = q /\ e.parent = r.parent /\ e.left = "none"
         /\ e.flag = r.flag /\ e.armed = r.armed /\ e.eintr = r.eintr /\ e.orig = r.orig
         /\ e.mem = r.mem
BY DEF WaitFor, Sound, Process

LEMMA EvaluatedFields ==
  ASSUME NEW r \in Sound, NEW c \in {0, 1}, NEW e, e = Evaluated(r, c)
  PROVE  /\ e.pc \in {"eval", "ready"} /\ e.parent = r.parent /\ ~ e.eintr
         /\ e.flag = r.flag /\ e.armed = r.armed /\ e.orig = r.orig
         /\ e.mem = r.mem
         /\ e.left = r.left \/ e.left = "none"
         /\ c = 1 => e.left = "none"
<1>1. r \in Process
  BY DEF Sound
<1>2. CASE c = 0 /\ r.todo # <<>>
  BY <1>1, <1>2 DEF Evaluated, Process
<1>3. CASE ~ (c = 0 /\ r.todo # <<>>)
  <2>1. e = NextStatement(r)
    BY <1>3 DEF Evaluated
  <2> QED
    BY <1>1, <2>1 DEF NextStatement, Process
<1> QED
  BY <1>2, <1>3

\* fork() or execve() has failed, or waitpid() has.
LEMMA FailTypes ==
  ASSUME TypeInv, NEW p \in Procs, ForkFails(p) \/ ExecFails(p) \/ WaitFails(p)
  PROVE  TypeInv'
<1>1. proc[p] \in Sound /\ proc[p].pc \in {"eval", "exec", "wait"}
  BY DEF ForkFails, ExecFails, WaitFails, At, TypeInv
<1>2. ScalarsOK'
  BY DEF ForkFails, ExecFails, WaitFails, TypeInv, ScalarsOK, use
<1>3. CASE ForkFails(p) \/ ExecFails(p)
  <2>1. proc' = [proc EXCEPT ![p] = WaitFor(proc[p], 0)] /\ proc[p].pc \in {"eval", "exec"}
    BY <1>3 DEF ForkFails, ExecFails, At
  <2>2. PICK r : r = WaitFor(proc[p], 0)
    OBVIOUS
  <2>3. r \in Sound /\ r.pc = "wait" /\ r.parent = proc[p].parent
    BY <1>1, <2>1, <2>2, Numbers, WaitForSound, WaitForFields
  <2> QED
    BY <1>1, <1>2, <2>1, <2>2, <2>3, ChangeTypes DEF Living, States
<1>4. CASE WaitFails(p)
  <2>1. PICK c \in {0, 1} : proc' = [proc EXCEPT ![p] = Evaluated(proc[p], c)]
    BY <1>4 DEF WaitFails
  <2>2. PICK r : r = Evaluated(proc[p], c)
    OBVIOUS
  <2>3. r \in Sound /\ r.pc \in {"eval", "ready"} /\ r.parent = proc[p].parent
    BY <1>1, <2>1, <2>2, EvaluatedSound, EvaluatedFields
  <2> QED
    BY <1>1, <1>2, <2>1, <2>2, <2>3, ChangeTypes DEF Living, States
<1> QED
  BY <1>3, <1>4

\* The child is a copy of its parent, and takes a place that was free.
LEMMA ForkTypes ==
  ASSUME TypeInv, NEW p \in Procs, Fork(p)
  PROVE  TypeInv'
<1>1. PICK q \in Procs : /\ At(q, "free")
                         /\ proc' = [proc EXCEPT ![p] = WaitFor(proc[p], q),
                                                 ![q] = [proc[p] EXCEPT !.pc = "exec",
                                                                        !.parent = p]]
  BY DEF Fork
<1>2. proc[p] \in Sound /\ proc[p].pc = "eval" /\ proc[q].pc = "free" /\ p # q
  BY <1>1 DEF Fork, At, TypeInv
<1>3. p \in 0 .. MaxProcs /\ q \in 0 .. MaxProcs
  BY Numbers
<1>4. PICK r : r = WaitFor(proc[p], q)
  OBVIOUS
<1>5. r \in Sound /\ r.pc = "wait" /\ r.parent = proc[p].parent
  BY <1>2, <1>3, <1>4, WaitForSound, WaitForFields
<1>6. PICK c : c = [proc[p] EXCEPT !.pc = "exec", !.parent = p]
  OBVIOUS
<1>7. c \in Sound /\ c.pc = "exec" /\ c.parent = p
  BY <1>2, <1>3, <1>6 DEF Sound, Process, States
<1>8. proc' = [x \in Procs |-> IF x = p THEN r ELSE IF x = q THEN c ELSE proc[x]]
  BY <1>1, <1>2, <1>4, <1>6 DEF TypeInv
<1>9. proc' \in [Procs -> Sound]
  BY <1>5, <1>7, <1>8 DEF TypeInv
<1>10. ParentsInv'
  BY <1>2, <1>5, <1>7, <1>8 DEF ParentsInv, TypeInv, Living, States
<1>11. ScalarsOK'
  BY DEF Fork, TypeInv, ScalarsOK, use
<1> QED
  BY <1>9, <1>10, <1>11 DEF TypeInv

LEMMA ExecTypes ==
  ASSUME TypeInv, NEW q \in Procs, Exec(q)
  PROVE  TypeInv'
<1>1. proc[q] \in Sound /\ proc[q].pc = "exec" /\ proc[q].parent \in 0 .. MaxProcs
  BY DEF Exec, At, TypeInv, Sound, Process
<1>2. PICK program : program = [Free EXCEPT !.pc = "program", !.parent = proc[q].parent]
  OBVIOUS
<1>3. program \in Sound
  <2>1. 0 \in {0, 1}
    OBVIOUS
  <2> QED
    BY <1>1, <1>2, <2>1, ParentSound
<1>4. program.pc = "program" /\ program.parent = proc[q].parent
  BY <1>2 DEF Free
<1>5. \A r \in Procs : /\ [proc[r] EXCEPT !.left = "running"] \in Sound
                       /\ [proc[r] EXCEPT !.left = "running"].pc = proc[r].pc
                       /\ [proc[r] EXCEPT !.left = "running"].parent = proc[r].parent
  <2>1. \A r \in Procs : proc[r] \in Sound
    BY DEF TypeInv
  <2>2. ASSUME NEW x \in Sound
        PROVE  [x EXCEPT !.left = "running"] \in Sound
    <3>1. 0 \in 0 .. MaxProcs /\ 0 \in {0, 1}
      BY Numbers
    <3> QED
      BY ONLY <3>1, x \in Sound, ParentSound
  <2>3. \A x \in Sound : /\ [x EXCEPT !.left = "running"].pc = x.pc
                         /\ [x EXCEPT !.left = "running"].parent = x.parent
    BY DEF Sound, Process
  <2> QED
    BY <2>1, <2>2, <2>3
<1>6. proc' \in [Procs -> Sound]
  BY <1>2, <1>3, <1>5 DEF Exec, TypeInv
<1>7. \A r \in Procs : proc'[r].parent = proc[r].parent
  BY <1>2, <1>4, <1>5 DEF Exec
<1>8. \A r \in Procs : proc[r].pc \in Living => proc'[r].pc \in Living
  BY <1>2, <1>4, <1>5 DEF Exec, Living, States
<1>9. ParentsInv'
  BY <1>7, <1>8 DEF ParentsInv, TypeInv
<1>10. ScalarsOK'
  BY DEF Exec, TypeInv, ScalarsOK, use
<1> QED
  BY <1>6, <1>9, <1>10 DEF TypeInv

\* The zombie that is collected is nobody's parent.
LEMMA WaitTypes ==
  ASSUME TypeInv, NEW p \in Procs, WaitReturns(p)
  PROVE  TypeInv'
<1>1. PICK q \in Children(p) :
        /\ At(q, "zombie")
        /\ proc' = [proc EXCEPT ![q] = Free, ![p] = Evaluated(proc[p], proc[q].status)]
  BY DEF WaitReturns
<1>2. q \in Procs /\ proc[q].pc = "zombie" /\ proc[p].pc = "wait" /\ p # q
  BY <1>1 DEF WaitReturns, At, Children
<1>3. proc[p] \in Sound /\ proc[q].status \in {0, 1}
  BY <1>2 DEF TypeInv, Sound, Process
<1>4. PICK r : r = Evaluated(proc[p], proc[q].status)
  OBVIOUS
<1>5. r \in Sound /\ r.pc \in {"eval", "ready"} /\ r.parent = proc[p].parent
  BY <1>3, <1>4, EvaluatedSound, EvaluatedFields
<1>6. proc' = [x \in Procs |-> IF x = p THEN r ELSE IF x = q THEN Free ELSE proc[x]]
  BY <1>1, <1>2, <1>4 DEF TypeInv
<1>7. proc' \in [Procs -> Sound]
  BY <1>5, <1>6, FreeSound DEF TypeInv
<1>8. Free.parent = 0
  BY DEF Free
<1>9. ParentsInv'
  BY <1>2, <1>5, <1>6, <1>8 DEF ParentsInv, TypeInv, Living, States
<1>10. ScalarsOK'
  BY DEF WaitReturns, TypeInv, ScalarsOK, use
<1> QED
  BY <1>7, <1>9, <1>10 DEF TypeInv

\* The table when catch_sigint() has run in the shells that are not killed.
Signalled(killed) ==
  [p \in Procs |-> IF p \in {q \in Alive : ~ At(q, "program")} \ killed
                     THEN Caught(proc[p]) ELSE proc[p]]

LEMMA SignalledTypes ==
  ASSUME TypeInv, NEW killed
  PROVE  /\ Signalled(killed) \in [Procs -> Sound]
         /\ \A p \in Procs : /\ Signalled(killed)[p].parent = proc[p].parent
                             /\ Signalled(killed)[p].pc = proc[p].pc
<1>1. \A p \in Procs : Caught(proc[p]) \in Sound
  BY SignalSound DEF TypeInv
<1>2. \A p \in Procs : /\ Caught(proc[p]).parent = proc[p].parent
                       /\ Caught(proc[p]).pc = proc[p].pc
  BY DEF Caught, TypeInv, Sound, Process
<1> QED
  BY <1>1, <1>2 DEF Signalled, TypeInv

LEMMA SigintTypes ==
  ASSUME TypeInv, Sigint
  PROVE  TypeInv'
<1> DEFINE killed == {p \in {q \in Alive : ~ At(q, "program")} : ~ proc[p].armed}
           t == Signalled(killed)
<1>1. PICK K \in SUBSET {q \in Procs : At(q, "program")} :
        proc' = Ended(t, K \cup killed, 1) /\ clean' = (clean /\ killed = {})
  BY DEF Sigint, Signalled
<1>2. t \in [Procs -> Sound]
  BY SignalledTypes
<1>3. \A p \in Procs : t[p].parent = proc[p].parent /\ t[p].pc = proc[p].pc
  BY SignalledTypes
<1>4. K \cup killed \in SUBSET Procs
  BY <1>1 DEF Alive
<1>5. proc' \in [Procs -> Sound]
  BY <1>1, <1>2, <1>4, EndedSound
<1>6. \A q \in Procs : t[q].parent # 0 =>
        t[q].parent \in Procs /\ t[t[q].parent].pc \in Living
  BY <1>3 DEF TypeInv, ParentsInv
<1>7. ParentsInv'
  <2> HIDE DEF t, killed
  <2> QED
    BY <1>1, <1>2, <1>4, <1>6, EndedParents DEF ParentsInv
<1>8. ScalarsOK'
  BY <1>1 DEF Sigint, TypeInv, ScalarsOK, use
<1> QED
  BY <1>5, <1>7, <1>8 DEF TypeInv

LEMMA InitTypes == Init => TypeInv
<1> SUFFICES ASSUME Init PROVE TypeInv
  OBVIOUS
<1>1. ScalarsOK
  <2>1. <<>> \in Seq(Nat)
    OBVIOUS
  <2> QED
    BY <2>1, ShellAssumption DEF Init, ScalarsOK
<1>2. Blank \in Lines /\ Typed \subseteq Lines /\ 1 \in Procs
  BY ShellAssumption DEF Blank, Lines, Procs
<1>3. PICK first : /\ proc = [p \in Procs |-> IF p = 1 THEN first ELSE Free]
                   /\ \/ \E l \in Typed : first = [Free EXCEPT !.pc = "got", !.line = l]
                      \/ first = [Free EXCEPT !.pc = "ready", !.armed = TRUE]
  BY DEF Init
<1>4. first \in Sound
  <2>1. \A l \in Typed : [Free EXCEPT !.pc = "got", !.line = l] \in Sound
    BY <1>2, FreeSound DEF Sound, Process, States
  <2>2. [Free EXCEPT !.pc = "ready", !.armed = TRUE] \in Sound
    BY FreeSound DEF Sound, Process, States
  <2> QED
    BY <1>3, <2>1, <2>2
<1>5. first.parent = 0 /\ Free.parent = 0
  BY <1>3 DEF Free
<1>6. ParentsInv
  BY <1>3, <1>5 DEF ParentsInv
<1> QED
  BY <1>1, <1>3, <1>4, <1>6, FreeSound DEF TypeInv

\* The step of every action, for the invariants that follow.
LEMMA StepTypes == TypeInv /\ [Next]_vars => TypeInv'
<1> SUFFICES ASSUME TypeInv, [Next]_vars PROVE TypeInv'
  OBVIOUS
<1>1. CASE UNCHANGED vars
  BY <1>1 DEF vars, use, TypeInv, ScalarsOK, ParentsInv
<1>2. CASE Sigint
  BY <1>2, SigintTypes
<1>3. CASE InputEnds
  BY <1>3 DEF InputEnds, use, TypeInv, ScalarsOK, ParentsInv
<1>4. ASSUME NEW p \in Procs,
             \/ Own(p) \/ ProgramEnds(p) \/ Crash(p)
             \/ \E line \in Typed : PromptLine(p, line)
      PROVE  TypeInv'
  BY <1>4, PromptTypes, ReturnTypes, SkipTypes, EmptyTypes, InterpretTypes, GoneTypes,
     FailTypes, ForkTypes, ExecTypes, WaitTypes DEF Own, Calls
<1> QED
  BY <1>1, <1>2, <1>3, <1>4 DEF Next

\* The types of Shell: only a line with a command gets to valery_exec_program(),
\* the parent of a process is a process, and no shell remembers more lines than
\* it has slots.
THEOREM Types == Spec => []TypeOK
<1>1. Init => TypeInv
  BY InitTypes
<1>2. TypeInv /\ [Next]_vars => TypeInv'
  BY StepTypes
<1>3. TypeInv => TypeOK
  BY TypeInvOK
<1> QED
  BY <1>1, <1>2, <1>3, PTL DEF Spec

-----------------------------------------------------------------------------
(* What the actions do to the table.                                       *)

\* The process p goes on with what it does, and the rest of the table stays.
Moves(p) ==
  /\ \A q \in Procs : q # p => proc'[q] = proc[q]
  /\ proc[p].pc \in Living \ {"program"} /\ proc'[p].pc \in Living \ {"program"}
  /\ proc'[p].parent = proc[p].parent /\ proc'[p].left \in {proc[p].left, "none"}
  /\ proc'[p].eintr => proc[p].eintr
  /\ \/ proc'[p].orig \in {"cooked", proc[p].orig}
     \/ proc[p].pc # "prompt" /\ proc'[p].orig = term
  /\ \/ /\ proc[p].pc # "skip" /\ proc'[p].pc # "skip"
        /\ proc'[p].armed = proc[p].armed /\ proc'[p].flag = proc[p].flag
     \/ proc[p].flag /\ proc'[p].pc = "skip" /\ proc'[p].armed = proc[p].armed
     \/ proc[p].pc = "skip" /\ proc'[p].pc # "skip" /\ proc'[p].armed
  /\ \/ proc'[p].pc = "prompt" /\ term' = IF mode = "tty" THEN "raw" ELSE term
     \/ /\ proc[p].pc = "prompt" /\ proc'[p].pc # "prompt"
        /\ term' = IF mode = "tty" THEN proc[p].orig ELSE term
     \/ proc[p].pc # "prompt" /\ proc'[p].pc # "prompt" /\ term' = term

LEMMA LineMoves ==
  ASSUME TypeInv, NEW p \in Procs,
         \/ PromptStart(p) \/ PromptAhead(p) \/ PromptEOF(p)
         \/ \E line \in Typed : PromptLine(p, line)
  PROVE  Moves(p) /\ ~ At(p, "wait")
<1>1. proc[p] \in Process /\ proc \in [Procs -> Sound]
  BY DEF TypeInv, Sound
<1>2. CASE PromptStart(p)
  <2>1. proc' = [proc EXCEPT ![p] = [proc[p] EXCEPT !.pc = "prompt", !.orig = term]]
    BY <1>2 DEF PromptStart
  <2>2. /\ proc'[p].pc = "prompt" /\ proc'[p].parent = proc[p].parent
        /\ proc'[p].left = proc[p].left /\ proc'[p].eintr = proc[p].eintr
        /\ proc'[p].orig = term /\ proc'[p].armed = proc[p].armed
        /\ proc'[p].flag = proc[p].flag
    BY <1>1, <2>1 DEF Process
  <2> QED
    BY <1>1, <1>2, <2>1, <2>2 DEF PromptStart, At, Moves, Living, States
<1>3. ASSUME NEW line, NEW ahead, PromptReturns(p, line, ahead)
      PROVE  Moves(p) /\ ~ At(p, "wait")
  <2>1. proc' = [proc EXCEPT ![p] = [proc[p] EXCEPT
                   !.pc = "got", !.line = line, !.ahead = ahead,
                   !.eintr = FALSE, !.orig = "cooked"]]
    BY <1>3 DEF PromptReturns
  <2>2. /\ proc'[p].pc = "got" /\ proc'[p].parent = proc[p].parent
        /\ proc'[p].left = proc[p].left /\ ~ proc'[p].eintr
        /\ proc'[p].orig = "cooked" /\ proc'[p].armed = proc[p].armed
        /\ proc'[p].flag = proc[p].flag
    BY <1>1, <2>1 DEF Process
  <2> QED
    BY <1>1, <1>3, <2>1, <2>2 DEF PromptReturns, At, Moves, Living, States
<1> QED
  BY <1>2, <1>3 DEF PromptAhead, PromptEOF, PromptLine

LEMMA LoopMoves ==
  ASSUME TypeInv, NEW p \in Procs,
         SkipLine(p) \/ Rearm(p) \/ SaveFull(p) \/ EmptyLine(p) \/ Interpret(p)
  PROVE  Moves(p) /\ ~ At(p, "wait")
<1>1. proc[p] \in Process /\ proc \in [Procs -> Sound]
  BY DEF TypeInv, Sound
<1>2. CASE SkipLine(p)
  <2>1. proc' = [proc EXCEPT ![p] = [proc[p] EXCEPT
                   !.pc = "skip", !.flag = FALSE, !.line = Blank]]
    BY <1>2 DEF SkipLine
  <2>2. /\ proc'[p].pc = "skip" /\ proc'[p].parent = proc[p].parent
        /\ proc'[p].left = proc[p].left /\ proc'[p].eintr = proc[p].eintr
        /\ proc'[p].orig = proc[p].orig /\ proc'[p].armed = proc[p].armed
    BY <1>1, <2>1 DEF Process
  <2> QED
    BY <1>1, <1>2, <2>1, <2>2 DEF SkipLine, At, Moves, Living, States
<1>3. CASE Rearm(p)
  <2>1. proc' = [proc EXCEPT ![p] = [proc[p] EXCEPT !.pc = "ready", !.armed = TRUE]]
    BY <1>3 DEF Rearm
  <2>2. /\ proc'[p].pc = "ready" /\ proc'[p].parent = proc[p].parent
        /\ proc'[p].left = proc[p].left /\ proc'[p].eintr = proc[p].eintr
        /\ proc'[p].orig = proc[p].orig /\ proc'[p].armed
    BY <1>1, <2>1 DEF Process
  <2> QED
    BY <1>1, <1>3, <2>1, <2>2 DEF Rearm, At, Moves, Living, States
<1>4. CASE SaveFull(p)
  <2>1. proc' = [proc EXCEPT ![p] = [proc[p] EXCEPT !.pc = "lost"]]
    BY <1>4 DEF SaveFull
  <2>2. /\ proc'[p].pc = "lost" /\ proc'[p].parent = proc[p].parent
        /\ proc'[p].left = proc[p].left /\ proc'[p].eintr = proc[p].eintr
        /\ proc'[p].orig = proc[p].orig /\ proc'[p].armed = proc[p].armed
        /\ proc'[p].flag = proc[p].flag
    BY <1>1, <2>1 DEF Process
  <2> QED
    BY <1>1, <1>4, <2>1, <2>2 DEF SaveFull, At, Moves, Living, States
<1>5. CASE EmptyLine(p)
  <2>1. proc' = [proc EXCEPT ![p] = [proc[p] EXCEPT
                   !.pc = "ready", !.mem = Remembered(p)]]
    BY <1>5 DEF EmptyLine
  <2>2. /\ proc'[p].pc = "ready" /\ proc'[p].parent = proc[p].parent
        /\ proc'[p].left = proc[p].left /\ proc'[p].eintr = proc[p].eintr
        /\ proc'[p].orig = proc[p].orig /\ proc'[p].armed = proc[p].armed
        /\ proc'[p].flag = proc[p].flag
    BY <1>1, <2>1 DEF Process
  <2> QED
    BY <1>1, <1>5, <2>1, <2>2 DEF EmptyLine, Save, At, Moves, Living, States
<1>6. CASE Interpret(p)
  <2>1. proc' = [proc EXCEPT ![p] = [proc[p] EXCEPT
                   !.pc = "eval", !.mem = Remembered(p),
                   !.todo = Head(proc[p].line.stmts), !.rest = Tail(proc[p].line.stmts),
                   !.line = Blank]]
    BY <1>6 DEF Interpret
  <2>2. /\ proc'[p].pc = "eval" /\ proc'[p].parent = proc[p].parent
        /\ proc'[p].left = proc[p].left /\ proc'[p].eintr = proc[p].eintr
        /\ proc'[p].orig = proc[p].orig /\ proc'[p].armed = proc[p].armed
        /\ proc'[p].flag = proc[p].flag
    BY <1>1, <2>1 DEF Process
  <2> QED
    BY <1>1, <1>6, <2>1, <2>2 DEF Interpret, Save, At, Moves, Living, States
<1> QED
  BY <1>2, <1>3, <1>4, <1>5, <1>6

LEMMA FailMoves ==
  ASSUME TypeInv, NEW p \in Procs, ForkFails(p) \/ ExecFails(p) \/ WaitFails(p)
  PROVE  Moves(p)
<1>1. proc[p] \in Sound /\ proc \in [Procs -> Sound]
  BY DEF TypeInv
<1>2. CASE ForkFails(p) \/ ExecFails(p)
  <2>1. proc' = [proc EXCEPT ![p] = WaitFor(proc[p], 0)] /\ proc[p].pc \in {"eval", "exec"}
        /\ term' = term
    BY <1>2 DEF ForkFails, ExecFails, At
  <2>2. PICK r : r = WaitFor(proc[p], 0)
    OBVIOUS
  <2>3. /\ r.pc = "wait" /\ r.parent = proc[p].parent /\ r.left = "none"
        /\ r.flag = proc[p].flag /\ r.armed = proc[p].armed
        /\ r.eintr = proc[p].eintr /\ r.orig = proc[p].orig
    BY <1>1, <2>2, Numbers, WaitForFields
  <2> QED
    BY <1>1, <2>1, <2>2, <2>3 DEF Moves, Living, States
<1>3. CASE WaitFails(p)
  <2>1. PICK c \in {0, 1} : proc' = [proc EXCEPT ![p] = Evaluated(proc[p], c)]
    BY <1>3 DEF WaitFails
  <2>2. proc[p].pc = "wait" /\ term' = term
    BY <1>3 DEF WaitFails, At
  <2>3. PICK r : r = Evaluated(proc[p], c)
    OBVIOUS
  <2>4. /\ r.pc \in {"eval", "ready"} /\ r.parent = proc[p].parent
        /\ r.left = proc[p].left \/ r.left = "none"
        /\ r.flag = proc[p].flag /\ r.armed = proc[p].armed
        /\ ~ r.eintr /\ r.orig = proc[p].orig
    BY <1>1, <2>3, EvaluatedFields
  <2> QED
    BY <1>1, <2>1, <2>2, <2>3, <2>4 DEF Moves, Living, States
<1> QED
  BY <1>2, <1>3

\* fork(): p waits for q, which has what p had.
LEMMA ForkShape ==
  ASSUME TypeInv, NEW p \in Procs, Fork(p)
  PROVE  \E q \in Procs :
           /\ q # p /\ At(q, "free") /\ At(p, "eval")
           /\ \A x \in Procs : x \notin {p, q} => proc'[x] = proc[x]
           /\ proc'[p].pc = "wait" /\ proc'[p].parent = proc[p].parent
           /\ proc'[p].left = "none" /\ proc'[p].eintr = proc[p].eintr
           /\ proc'[p].orig = proc[p].orig /\ proc'[p].armed = proc[p].armed
           /\ proc'[p].flag = proc[p].flag /\ proc'[p].mem = proc[p].mem
           /\ proc'[q].pc = "exec" /\ proc'[q].parent = p
           /\ proc'[q].left = proc[p].left /\ proc'[q].eintr = proc[p].eintr
           /\ proc'[q].orig = proc[p].orig /\ proc'[q].armed = proc[p].armed
           /\ proc'[q].flag = proc[p].flag /\ proc'[q].mem = proc[p].mem
<1>1. PICK q \in Procs : /\ At(q, "free")
                         /\ proc' = [proc EXCEPT ![p] = WaitFor(proc[p], q),
                                                 ![q] = [proc[p] EXCEPT !.pc = "exec",
                                                                        !.parent = p]]
  BY DEF Fork
<1>2. proc[p] \in Sound /\ proc[p].pc = "eval" /\ proc[q].pc = "free" /\ p # q
  BY <1>1 DEF Fork, At, TypeInv
<1>3. q \in 0 .. MaxProcs
  BY Numbers
<1>4. PICK r : r = WaitFor(proc[p], q)
  OBVIOUS
<1>5. /\ r.pc = "wait" /\ r.parent = proc[p].parent /\ r.left = "none"
      /\ r.flag = proc[p].flag /\ r.armed = proc[p].armed
      /\ r.eintr = proc[p].eintr /\ r.orig = proc[p].orig /\ r.mem = proc[p].mem
  BY <1>2, <1>3, <1>4, WaitForFields
<1>6. PICK c : c = [proc[p] EXCEPT !.pc = "exec", !.parent = p]
  OBVIOUS
<1>7. /\ c.pc = "exec" /\ c.parent = p /\ c.left = proc[p].left
      /\ c.flag = proc[p].flag /\ c.armed = proc[p].armed
      /\ c.eintr = proc[p].eintr /\ c.orig = proc[p].orig /\ c.mem = proc[p].mem
  BY <1>2, <1>6 DEF Sound, Process
<1>8. proc' = [x \in Procs |-> IF x = p THEN r ELSE IF x = q THEN c ELSE proc[x]]
  BY <1>1, <1>2, <1>4, <1>6 DEF TypeInv
<1>9. proc'[p] = r /\ proc'[q] = c /\ \A x \in Procs : x \notin {p, q} => proc'[x] = proc[x]
  BY <1>2, <1>8
<1>10. At(q, "free") /\ At(p, "eval") /\ q # p
  BY <1>2 DEF At
<1> QED
  BY <1>5, <1>7, <1>9, <1>10

\* execve(): q is a program, and its parent knows that it runs.
LEMMA ExecShape ==
  ASSUME TypeInv, NEW q \in Procs, Exec(q)
  PROVE  /\ At(q, "exec") /\ proc'[q].pc = "program" /\ proc'[q].parent = proc[q].parent
         /\ proc'[q].left = "none" /\ ~ proc'[q].eintr /\ proc'[q].orig = "cooked"
         /\ ~ proc'[q].armed /\ ~ proc'[q].flag /\ proc'[q].mem = <<>>
         /\ \A r \in Procs : r # q =>
              /\ proc'[r].pc = proc[r].pc /\ proc'[r].parent = proc[r].parent
              /\ proc'[r].eintr = proc[r].eintr /\ proc'[r].orig = proc[r].orig
              /\ proc'[r].armed = proc[r].armed /\ proc'[r].flag = proc[r].flag
              /\ proc'[r].mem = proc[r].mem
              /\ r = proc[q].parent => proc'[r].left = "running"
              /\ r # proc[q].parent => proc'[r].left = proc[r].left
<1>1. proc'[q] = [Free EXCEPT !.pc = "program", !.parent = proc[q].parent]
  BY DEF Exec
<1>2. /\ proc'[q].pc = "program" /\ proc'[q].parent = proc[q].parent
      /\ proc'[q].left = "none" /\ ~ proc'[q].eintr /\ proc'[q].orig = "cooked"
      /\ ~ proc'[q].armed /\ ~ proc'[q].flag /\ proc'[q].mem = <<>>
  BY <1>1 DEF Free
<1>3. ASSUME NEW r \in Procs, r # q
      PROVE  /\ proc'[r].pc = proc[r].pc /\ proc'[r].parent = proc[r].parent
             /\ proc'[r].eintr = proc[r].eintr /\ proc'[r].orig = proc[r].orig
             /\ proc'[r].armed = proc[r].armed /\ proc'[r].flag = proc[r].flag
             /\ proc'[r].mem = proc[r].mem
             /\ r = proc[q].parent => proc'[r].left = "running"
             /\ r # proc[q].parent => proc'[r].left = proc[r].left
  <2>1. proc[r] \in Process
    BY DEF TypeInv, Sound
  <2>2. CASE r = proc[q].parent
    <3>1. proc'[r] = [proc[r] EXCEPT !.left = "running"]
      BY <1>3, <2>2 DEF Exec
    <3> QED
      BY <2>1, <2>2, <3>1 DEF Process
  <2>3. CASE r # proc[q].parent
    <3>1. proc'[r] = proc[r]
      BY <1>3, <2>3 DEF Exec
    <3> QED
      BY <2>3, <3>1
  <2> QED
    BY <2>2, <2>3
<1>4. At(q, "exec")
  BY DEF Exec
<1> QED
  BY <1>2, <1>3, <1>4

\* waitpid(): the zombie q is gone, and p goes on with its status.
LEMMA WaitShape ==
  ASSUME TypeInv, NEW p \in Procs, WaitReturns(p)
  PROVE  \E q \in Children(p) :
           /\ q # p /\ At(q, "zombie") /\ At(p, "wait") /\ proc'[q] = Free
           /\ \A x \in Procs : x \notin {p, q} => proc'[x] = proc[x]
           /\ proc'[p].pc \in {"eval", "ready"} /\ proc'[p].parent = proc[p].parent
           /\ ~ proc'[p].eintr /\ proc'[p].orig = proc[p].orig
           /\ proc'[p].armed = proc[p].armed /\ proc'[p].flag = proc[p].flag
           /\ proc'[p].mem = proc[p].mem
           /\ proc'[p].left = proc[p].left \/ proc'[p].left = "none"
           /\ proc[q].status = 1 => proc'[p].left = "none"
<1>1. PICK q \in Children(p) :
        /\ At(q, "zombie")
        /\ proc' = [proc EXCEPT ![q] = Free, ![p] = Evaluated(proc[p], proc[q].status)]
  BY DEF WaitReturns
<1>2. q \in Procs /\ At(p, "wait") /\ p # q
  BY <1>1 DEF WaitReturns, At, Children
<1>3. proc[p] \in Sound /\ proc[q].status \in {0, 1}
  BY <1>2 DEF TypeInv, Sound, Process
<1>4. PICK r : r = Evaluated(proc[p], proc[q].status)
  OBVIOUS
<1>5. /\ r.pc \in {"eval", "ready"} /\ r.parent = proc[p].parent /\ ~ r.eintr
      /\ r.flag = proc[p].flag /\ r.armed = proc[p].armed /\ r.orig = proc[p].orig
      /\ r.mem = proc[p].mem
      /\ r.left = proc[p].left \/ r.left = "none"
      /\ proc[q].status = 1 => r.left = "none"
  BY <1>3, <1>4, EvaluatedFields
<1>6. proc' = [x \in Procs |-> IF x = p THEN r ELSE IF x = q THEN Free ELSE proc[x]]
  BY <1>1, <1>2, <1>4 DEF TypeInv
<1>7. proc'[p] = r /\ proc'[q] = Free /\ \A x \in Procs : x \notin {p, q} => proc'[x] = proc[x]
  BY <1>2, <1>6
<1> QED
  BY <1>1, <1>2, <1>5, <1>7

\* catch_sigint() leaves alone what the chain is made of.
LEMMA SignalledFields ==
  ASSUME TypeInv, NEW killed, NEW p \in Procs, NEW t, t = Signalled(killed)
  PROVE  /\ t[p].pc = proc[p].pc /\ t[p].parent = proc[p].parent
         /\ t[p].left = proc[p].left /\ t[p].orig = proc[p].orig
         /\ t[p].status = proc[p].status /\ t[p].mem = proc[p].mem
<1>1. proc[p] \in Process /\ restart \in BOOLEAN
  BY DEF TypeInv, Sound, ScalarsOK
<1>2. CASE p \in {q \in Alive : ~ At(q, "program")} \ killed
  <2>1. t[p] = Caught(proc[p])
    BY <1>2 DEF Signalled
  <2> QED
    BY <1>1, <1>2, <2>1 DEF Caught, Process
<1>3. CASE p \notin {q \in Alive : ~ At(q, "program")} \ killed
  <2>1. t[p] = proc[p]
    BY <1>3 DEF Signalled
  <2> QED
    BY <2>1
<1> QED
  BY <1>2, <1>3

\* It interrupts no system call where signal() restarts them.
LEMMA SignalledRestarts ==
  ASSUME TypeInv, restart, NEW killed, NEW p \in Procs, NEW t, t = Signalled(killed)
  PROVE  t[p].eintr => proc[p].eintr
<1>1. proc[p] \in Process /\ restart \in BOOLEAN
  BY DEF TypeInv, Sound, ScalarsOK
<1>2. CASE p \in {q \in Alive : ~ At(q, "program")} \ killed
  <2>1. t[p] = Caught(proc[p])
    BY <1>2 DEF Signalled
  <2> QED
    BY <1>1, <1>2, <2>1 DEF Caught, Process
<1>3. CASE p \notin {q \in Alive : ~ At(q, "program")} \ killed
  <2>1. t[p] = proc[p]
    BY <1>3 DEF Signalled
  <2> QED
    BY <2>1
<1> QED
  BY <1>2, <1>3

\* The handler is gone where signal() resets it, but it has set the flag.
LEMMA SignalledHandler ==
  ASSUME TypeInv, NEW killed, NEW p \in Procs, NEW t, t = Signalled(killed)
  PROVE  \/ t[p].armed = proc[p].armed /\ t[p].flag = proc[p].flag
         \/ /\ p \in Alive \ killed /\ ~ At(p, "program")
            /\ t[p].armed = restart /\ t[p].flag
<1>1. proc[p] \in Process /\ restart \in BOOLEAN
  BY DEF TypeInv, Sound, ScalarsOK
<1>2. CASE p \in {q \in Alive : ~ At(q, "program")} \ killed
  <2>1. t[p] = Caught(proc[p])
    BY <1>2 DEF Signalled
  <2> QED
    BY <1>1, <1>2, <2>1 DEF Caught, Process
<1>3. CASE p \notin {q \in Alive : ~ At(q, "program")} \ killed
  <2>1. t[p] = proc[p]
    BY <1>3 DEF Signalled
  <2> QED
    BY <2>1
<1> QED
  BY <1>2, <1>3

\* The end of one command or more.
Ends(p) ==
  /\ proc[p].pc \in Living \ {"prompt", "wait"} /\ term' = term
  /\ \E s \in {0, 1} : proc' = Ended(proc, {p}, s)

LEMMA GoneEnds ==
  ASSUME NEW p \in Procs,
         \/ Crash(p) \/ Leave(p) \/ ParseError(p) \/ SourceDone(p)
         \/ EmptyCommand(p) \/ ProgramEnds(p)
  PROVE  Ends(p)
BY DEF Crash, Leave, ParseError, SourceDone, EmptyCommand, ProgramEnds, Save, At,
       Ends, Living, States

\* Nothing but Sigint and Init touches how a valery is used.
LEMMA UseKept == [Next]_vars => UNCHANGED use
<1> SUFFICES ASSUME [Next]_vars PROVE UNCHANGED use
  OBVIOUS
<1>1. CASE UNCHANGED vars \/ Sigint \/ InputEnds
  BY <1>1 DEF vars, Sigint, InputEnds
<1>2. ASSUME NEW p \in Procs,
             \/ Own(p) \/ ProgramEnds(p) \/ Crash(p)
             \/ \E line \in Typed : PromptLine(p, line)
      PROVE  UNCHANGED use
  BY <1>2 DEF Own, Calls, ProgramEnds, PromptLine, PromptStart, PromptAhead, PromptEOF,
     PromptReturns, SkipLine, Rearm, SaveFull, Crash, EmptyLine, Leave, ParseError, Interpret,
     SourceDone,
     EmptyCommand, Fork, ForkFails, Exec, ExecFails, WaitReturns, WaitFails
<1> QED
  BY <1>1, <1>2 DEF Next

\* The kinds of steps there are.
LEMMA Steps ==
  ASSUME TypeInv, [Next]_vars
  PROVE  \/ UNCHANGED <<proc, term>>
         \/ Sigint
         \/ \E p \in Procs : \/ Moves(p) /\ (~ At(p, "wait") \/ WaitFails(p))
                             \/ Fork(p) \/ Exec(p) \/ WaitReturns(p) \/ Ends(p)
<1>1. CASE UNCHANGED vars \/ InputEnds
  BY <1>1 DEF vars, InputEnds
<1>2. CASE Sigint
  BY <1>2
<1>3. ASSUME NEW p \in Procs,
             \/ Own(p) \/ ProgramEnds(p) \/ Crash(p)
             \/ \E line \in Typed : PromptLine(p, line)
      PROVE  \/ Moves(p) /\ (~ At(p, "wait") \/ WaitFails(p))
             \/ Fork(p) \/ Exec(p) \/ WaitReturns(p) \/ Ends(p)
  <2>1. CASE ForkFails(p) \/ ExecFails(p) \/ WaitFails(p)
    <3>1. ~ At(p, "wait") \/ WaitFails(p)
      BY <2>1 DEF ForkFails, ExecFails, At
    <3> QED
      BY <2>1, <3>1, FailMoves
  <2>2. CASE ~ (ForkFails(p) \/ ExecFails(p) \/ WaitFails(p))
    BY <1>3, <2>2, LineMoves, LoopMoves, GoneEnds DEF Own, Calls
  <2> QED
    BY <2>1, <2>2
<1> QED
  BY <1>1, <1>2, <1>3 DEF Next

-----------------------------------------------------------------------------
(* The handler.                                                            *)

\* Who is alive after others have ended was so before.
LEMMA EndedAlive ==
  ASSUME NEW table \in [Procs -> Sound], NEW D \in SUBSET Procs, NEW s \in {0, 1},
         NEW q \in Procs, Ended(table, D, s)[q].pc \notin {"free", "zombie"}
  PROVE  /\ q \notin D /\ Ended(table, D, s)[q].pc = table[q].pc
         /\ Ended(table, D, s)[q].armed = table[q].armed
         /\ Ended(table, D, s)[q].flag = table[q].flag
<1>1. Ended(table, D, s)[q] # Free
  BY DEF Free
<1>2. q \notin D
  <2>1. SUFFICES ASSUME q \in D PROVE FALSE
    OBVIOUS
  <2>2. table[q].parent \notin D /\ table[q].parent # 0
    BY <1>1, <2>1, EndedFree
  <2> QED
    BY <2>1, <2>2, EndedZombie
<1>3. table[q].pc # "zombie" \/ table[q].parent \notin D
  BY <1>1, <1>2, EndedFree
<1> QED
  BY <1>2, <1>3, EndedStays

LEMMA StepArmed == TypeInv /\ ArmedInv /\ [Next]_vars => ArmedInv'
<1> SUFFICES ASSUME TypeInv, ArmedInv, [Next]_vars PROVE ArmedInv'
  OBVIOUS
<1>1. restart' = restart /\ mode' = mode /\ restart \in BOOLEAN
  BY UseKept DEF use, TypeInv, ScalarsOK
<1>2. CASE UNCHANGED <<proc, term>>
  BY <1>1, <1>2 DEF ArmedInv, Alive, At
<1>3. ASSUME NEW p \in Procs, Moves(p)
      PROVE  ArmedInv'
  BY <1>1, <1>3 DEF Moves, ArmedInv, Alive, At, Living, States
<1>4. ASSUME NEW p \in Procs, Fork(p)
      PROVE  ArmedInv'
  <2>1. PICK q \in Procs :
          /\ At(p, "eval") /\ proc'[p].pc = "wait" /\ proc'[q].pc = "exec"
          /\ \A x \in Procs : x \notin {p, q} => proc'[x] = proc[x]
          /\ proc'[p].armed = proc[p].armed /\ proc'[p].flag = proc[p].flag
          /\ proc'[q].armed = proc[p].armed /\ proc'[q].flag = proc[p].flag
    BY <1>4, ForkShape
  <2> QED
    BY <1>1, <2>1 DEF ArmedInv, Alive, At
<1>5. ASSUME NEW q \in Procs, Exec(q)
      PROVE  ArmedInv'
  <2>1. /\ proc'[q].pc = "program" /\ ~ proc'[q].armed /\ ~ proc'[q].flag
        /\ \A r \in Procs : r # q =>
             /\ proc'[r].pc = proc[r].pc
             /\ proc'[r].armed = proc[r].armed /\ proc'[r].flag = proc[r].flag
    BY <1>5, ExecShape
  <2> QED
    BY <1>1, <2>1 DEF ArmedInv, Alive, At
<1>6. ASSUME NEW p \in Procs, WaitReturns(p)
      PROVE  ArmedInv'
  <2>1. PICK q \in Children(p) :
          /\ At(p, "wait") /\ proc'[q] = Free /\ proc'[p].pc \in {"eval", "ready"}
          /\ \A x \in Procs : x \notin {p, q} => proc'[x] = proc[x]
          /\ proc'[p].armed = proc[p].armed /\ proc'[p].flag = proc[p].flag
    BY <1>6, WaitShape
  <2>2. q \in Procs /\ Free.pc = "free"
    BY DEF Children, Free
  <2> QED
    BY <1>1, <2>1, <2>2 DEF ArmedInv, Alive, At
<1>7. ASSUME NEW p \in Procs, Ends(p)
      PROVE  ArmedInv'
  <2>1. \A q \in Alive' : /\ q \in Procs /\ proc'[q].pc = proc[q].pc
                          /\ proc'[q].armed = proc[q].armed /\ proc'[q].flag = proc[q].flag
    BY <1>7, EndedAlive DEF Ends, TypeInv, Alive
  <2> QED
    BY <1>1, <2>1 DEF ArmedInv, Alive, At
<1>8. CASE Sigint
  <2> DEFINE killed == {p \in {q \in Alive : ~ At(q, "program")} : ~ proc[p].armed}
  <2> DEFINE t == Signalled(killed)
  <2>1. PICK K \in SUBSET {q \in Procs : At(q, "program")} :
          proc' = Ended(t, K \cup killed, 1)
    BY <1>8 DEF Sigint, Signalled
  <2>2. t \in [Procs -> Sound]
    BY <2>1, SignalledTypes
  <2>3. K \cup killed \in SUBSET Procs
    BY <2>1 DEF Alive
  <2>4. \A q \in Alive' : /\ q \in Procs \ killed /\ proc'[q].pc = t[q].pc
                          /\ proc'[q].armed = t[q].armed /\ proc'[q].flag = t[q].flag
    BY <2>1, <2>2, <2>3, EndedAlive DEF Alive
  <2>5. \A q \in Alive' :
          /\ q \in Procs \ killed /\ proc'[q].pc = proc[q].pc
          /\ \/ proc'[q].armed = proc[q].armed /\ proc'[q].flag = proc[q].flag
             \/ /\ ~ At(q, "program") /\ q \in Alive
                /\ proc'[q].armed = restart /\ proc'[q].flag
    BY <2>1, <2>4, SignalledFields, SignalledHandler
  <2>6. \A q \in Alive' : q \in Alive
    BY <2>5 DEF Alive, At
  <2>7. \A q \in Alive' : /\ At(q, "program")' <=> At(q, "program")
                          /\ At(q, "skip")' <=> At(q, "skip")
    BY <2>5 DEF At
  <2> QED
    BY <1>1, <2>5, <2>6, <2>7 DEF ArmedInv
<1> QED
  BY <1>2, <1>3, <1>4, <1>5, <1>6, <1>7, <1>8, Steps

LEMMA InitArmed == Init => ArmedInv
<1> SUFFICES ASSUME Init PROVE ArmedInv
  OBVIOUS
<1>1. 1 \in Procs /\ Free.pc = "free"
  BY ShellAssumption DEF Procs, Free
<1>2. CASE mode = "source"
  <2>1. PICK first : /\ proc = [p \in Procs |-> IF p = 1 THEN first ELSE Free]
                     /\ \E l \in Typed : first = [Free EXCEPT !.pc = "got", !.line = l]
    BY <1>2 DEF Init
  <2>2. ~ first.armed /\ ~ first.flag /\ first.pc = "got"
    BY <2>1 DEF Free
  <2> QED
    BY <1>1, <1>2, <2>1, <2>2 DEF ArmedInv, Alive, At
<1>3. CASE mode # "source"
  <2>1. proc = [p \in Procs |-> IF p = 1 THEN [Free EXCEPT !.pc = "ready", !.armed = TRUE]
                                ELSE Free]
    BY <1>3 DEF Init
  <2> QED
    BY <1>1, <1>3, <2>1 DEF ArmedInv, Alive, Free
<1> QED
  BY <1>2, <1>3

\* However ctrl+c falls between catch_sigint() and the main loop, and whoever
\* has inherited what it did: the handler is there, or received_sigint is set and
\* the loop is going to see it, or it has seen it and calls signal() next.
THEOREM HandlerStays == Spec => []ArmedUnlessFlagged
<1>1. Init => TypeInv /\ ArmedInv
  BY InitTypes, InitArmed
<1>2. (TypeInv /\ ArmedInv) /\ [Next]_vars => (TypeInv /\ ArmedInv)'
  BY StepTypes, StepArmed
<1>3. ArmedInv => ArmedUnlessFlagged
  BY DEF ArmedInv, ArmedUnlessFlagged
<1> QED
  BY <1>1, <1>2, <1>3, PTL DEF Spec

-----------------------------------------------------------------------------
(* The chain of processes, where waitpid() is restarted.                   *)

\* Whoever does not wait is the last of the chain.
LEMMA EndOfChain ==
  ASSUME ChainInv, NEW p \in Procs, Leaf(p), NEW q \in Procs, Exists(q), ~ At(q, "wait")
  PROVE  q = p
BY DEF ChainInv

\* What a shell knows of the program of the left command, the last one shows.
LEMMA Known ==
  ASSUME ChainInv, LeftInv, NEW p \in Procs, Leaf(p), NEW q \in Procs
  PROVE  /\ proc[q].left = "running" => At(p, "program") /\ proc[p].parent = q
         /\ proc[q].left = "failed" =>
              At(p, "zombie") /\ proc[p].parent = q /\ proc[p].status = 1
<1>1. ASSUME proc[q].left = "running"
      PROVE  At(p, "program") /\ proc[p].parent = q
  <2>1. PICK c \in Children(q) : At(c, "program")
    BY <1>1 DEF LeftInv
  <2>2. c = p
    BY <2>1, EndOfChain DEF Children, Exists, At
  <2> QED
    BY <2>1, <2>2 DEF Children
<1>2. ASSUME proc[q].left = "failed"
      PROVE  At(p, "zombie") /\ proc[p].parent = q /\ proc[p].status = 1
  <2>1. PICK c \in Children(q) : At(c, "zombie") /\ proc[c].status = 1
    BY <1>2 DEF LeftInv
  <2>2. c = p
    BY <2>1, EndOfChain DEF Children, Exists, At
  <2> QED
    BY <2>1, <2>2 DEF Children
<1> QED
  BY <1>1, <1>2

\* The chain depends on who exists, waits and is whose child.
LEMMA SameChain ==
  ASSUME ChainInv, NEW p \in Procs, Leaf(p),
         \A q \in Procs : /\ proc'[q].parent = proc[q].parent
                          /\ proc'[q].eintr => proc[q].eintr
                          /\ Exists(q)' <=> Exists(q)
                          /\ q # p => proc'[q].pc = proc[q].pc,
         At(p, "zombie")' => proc[p].parent # 0
  PROVE  ChainInv' /\ Leaf(p)' /\ \A q \in Procs : Children(q)' = Children(q)
<1>1. \A q \in Procs : Children(q)' = Children(q)
  BY DEF Children, Exists
<1>2. \A q \in Procs : Leaf(q)' <=> Leaf(q)
  BY <1>1 DEF Leaf
<1>3. \A q \in Procs : Exists(q)' /\ ~ At(q, "wait")' => Leaf(q)'
  BY <1>2 DEF ChainInv, At
<1>4. \A q, r, x \in Procs : q \in Children(r)' /\ x \in Children(r)' => q = x
  BY <1>1 DEF ChainInv
<1>5. \A q \in Procs : At(q, "zombie")' => proc'[q].parent # 0
  BY DEF ChainInv, At
<1>6. (\A q \in Procs : ~ proc[q].eintr)'
  BY DEF ChainInv
<1>7. (\A q, r \in Procs : Leaf(q) /\ Leaf(r) => q = r)'
  BY <1>2 DEF ChainInv
<1> QED
  BY <1>1, <1>2, <1>3, <1>4, <1>5, <1>6, <1>7 DEF ChainInv

LEMMA MovesChain ==
  ASSUME TypeInv, TypeInv', BSDInv, restart, UNCHANGED use, NEW p \in Procs, Moves(p),
         ~ At(p, "wait") \/ WaitFails(p)
  PROVE  BSDInv'
<1>1. ChainInv /\ TermInv /\ LeftInv
  BY DEF BSDInv
<1>2. Exists(p) /\ proc[p].pc \notin {"program", "zombie"}
  BY DEF Moves, Living, Exists, At
<1>3. Leaf(p)
  <2>1. CASE ~ At(p, "wait")
    BY <1>1, <1>2, <2>1 DEF ChainInv
  <2>2. CASE WaitFails(p)
    BY <1>1, <1>2, <2>2 DEF WaitFails, ChainInv, Leaf
  <2> QED
    BY <2>1, <2>2
<1>4. ChainInv' /\ Leaf(p)'
  <2>1. \A q \in Procs : /\ proc'[q].parent = proc[q].parent
                         /\ proc'[q].eintr => proc[q].eintr
                         /\ Exists(q)' <=> Exists(q)
                         /\ q # p => proc'[q].pc = proc[q].pc
    BY DEF Moves, Exists, At, Living
  <2>2. ~ At(p, "zombie")'
    BY DEF Moves, At, Living
  <2> QED
    BY <1>1, <1>3, <2>1, <2>2, SameChain
<1>5. LeftInv'
  <2>1. \A q \in Procs : proc[q].left \notin {"running", "failed"}
    BY <1>1, <1>2, <1>3, Known DEF At
  <2>2. \A q \in Procs : proc'[q].left \notin {"running", "failed"}
    BY <2>1 DEF Moves
  <2> QED
    BY <2>2 DEF LeftInv
<1>6. TermInv'
  <2>1. term \in {"cooked", "raw"} /\ restart' = restart /\ mode' = mode
    BY DEF TypeInv, ScalarsOK, use
  <2>2. \A q \in Procs : At(q, "prompt") => q = p
    BY <1>1, <1>3, EndOfChain DEF Exists, At
  <2>3. \A q \in Procs : At(q, "prompt")' => q = p
    BY <2>2 DEF Moves, At
  <2>4. term = "raw" <=> mode = "tty" /\ proc[p].pc = "prompt"
    BY <1>1, <2>2 DEF TermInv, At
  <2>5. proc[p].orig = "cooked"
    BY <1>1 DEF TermInv
  <2>6. term' = "raw" <=> mode = "tty" /\ proc'[p].pc = "prompt"
    BY <2>1, <2>4, <2>5 DEF Moves
  <2>7. proc'[p].orig = "cooked"
    BY <2>1, <2>4, <2>5 DEF Moves
  <2>8. \A q \in Procs : proc'[q].orig = "cooked"
    BY <1>1, <2>7 DEF Moves, TermInv
  <2> QED
    BY <2>1, <2>3, <2>6, <2>8 DEF TermInv, At
<1> QED
  BY <1>4, <1>5, <1>6 DEF BSDInv

LEMMA ExecChain ==
  ASSUME TypeInv, TypeInv', BSDInv, restart, UNCHANGED use, NEW p \in Procs, Exec(p)
  PROVE  BSDInv'
<1>1. ChainInv /\ TermInv /\ LeftInv
  BY DEF BSDInv
<1>2. /\ At(p, "exec") /\ proc'[p].pc = "program" /\ proc'[p].parent = proc[p].parent
      /\ proc'[p].left = "none" /\ ~ proc'[p].eintr /\ proc'[p].orig = "cooked"
      /\ \A r \in Procs : r # p =>
           /\ proc'[r].pc = proc[r].pc /\ proc'[r].parent = proc[r].parent
           /\ proc'[r].eintr = proc[r].eintr /\ proc'[r].orig = proc[r].orig
           /\ r = proc[p].parent => proc'[r].left = "running"
           /\ r # proc[p].parent => proc'[r].left = proc[r].left
  BY ExecShape
<1>3. Exists(p) /\ Leaf(p)
  BY <1>1, <1>2 DEF ChainInv, Exists, At
<1>4. ChainInv' /\ \A q \in Procs : Children(q)' = Children(q)
  <2>1. \A q \in Procs : /\ proc'[q].parent = proc[q].parent
                         /\ proc'[q].eintr => proc[q].eintr
                         /\ Exists(q)' <=> Exists(q)
                         /\ q # p => proc'[q].pc = proc[q].pc
    BY <1>2 DEF Exists, At
  <2>2. ~ At(p, "zombie")'
    BY <1>2 DEF At
  <2> QED
    BY <1>1, <1>3, <2>1, <2>2, SameChain
<1>5. LeftInv'
  <2>1. \A q \in Procs : proc[q].left \notin {"running", "failed"}
    BY <1>1, <1>2, <1>3, Known DEF At
  <2>2. ASSUME NEW q \in Procs, proc'[q].left \in {"running", "failed"}
        PROVE  /\ proc'[q].left = "running" /\ At(q, "wait")'
               /\ p \in Children(q)' /\ At(p, "program")'
    <3>1. q # p /\ q = proc[p].parent /\ proc'[q].left = "running"
      BY <1>2, <2>1, <2>2
    <3>2. p \in Children(q)
      BY <1>3, <3>1 DEF Children, Exists
    <3>3. At(q, "wait")
      <4>1. Exists(q)
        BY <3>1, Numbers DEF TypeInv, ParentsInv, Living, Exists, At
      <4> QED
        BY <1>1, <3>2, <4>1 DEF ChainInv, Leaf
    <3> QED
      BY <1>2, <1>4, <3>1, <3>2, <3>3 DEF At
  <2> QED
    BY <2>2 DEF LeftInv
<1>6. TermInv'
  <2>1. \A q \in Procs : At(q, "prompt")' <=> At(q, "prompt")
    BY <1>2 DEF At
  <2>2. term' = term /\ mode' = mode
    BY DEF Exec, use
  <2>3. \A q \in Procs : proc'[q].orig = "cooked"
    BY <1>1, <1>2 DEF TermInv
  <2> QED
    BY <1>1, <2>1, <2>2, <2>3 DEF TermInv
<1> QED
  BY <1>4, <1>5, <1>6 DEF BSDInv

LEMMA ForkChain ==
  ASSUME TypeInv, TypeInv', BSDInv, restart, UNCHANGED use, NEW p \in Procs, Fork(p)
  PROVE  BSDInv'
<1>1. ChainInv /\ TermInv /\ LeftInv
  BY DEF BSDInv
<1>2. PICK q \in Procs :
           /\ q # p /\ At(q, "free") /\ At(p, "eval")
           /\ \A x \in Procs : x \notin {p, q} => proc'[x] = proc[x]
           /\ proc'[p].pc = "wait" /\ proc'[p].parent = proc[p].parent
           /\ proc'[p].left = "none" /\ proc'[p].eintr = proc[p].eintr
           /\ proc'[p].orig = proc[p].orig
           /\ proc'[q].pc = "exec" /\ proc'[q].parent = p
           /\ proc'[q].left = proc[p].left /\ proc'[q].eintr = proc[p].eintr
           /\ proc'[q].orig = proc[p].orig
  BY ForkShape
<1>3. Exists(p) /\ Leaf(p)
  BY <1>1, <1>2 DEF ChainInv, Exists, At
<1>4. Children(p)' = {q} /\ Children(q)' = {}
  <2>1. Children(p) = {} /\ \A x \in Procs : At(x, "free") \/ proc[x].parent # q
    BY <1>2, <1>3, Numbers DEF Leaf, TypeInv, ParentsInv, Living, At
  <2>2. proc[p].parent # q /\ proc[p].parent # p
    BY <1>2, <2>1 DEF Children, At
  <2> QED
    BY <1>2, <2>1, <2>2 DEF Children, At
<1>5. \A x \in Procs : x \notin {p, q} =>
        /\ Children(x)' = Children(x) /\ Exists(x)' = Exists(x) /\ At(x, "wait")' = At(x, "wait")
  BY <1>2 DEF Children, Exists, At
<1>6. \A x \in Procs : x # q => ~ Leaf(x)'
  <2>1. ~ Leaf(p)'
    BY <1>4 DEF Leaf
  <2>2. \A x \in Procs : x \notin {p, q} => ~ Leaf(x)
    BY <1>1, <1>3 DEF ChainInv
  <2>3. \A x \in Procs : x \notin {p, q} => ~ Leaf(x)'
    BY <1>5, <2>2 DEF Leaf
  <2> QED
    BY <2>1, <2>3
<1>7. ChainInv'
  <2>1. (\A x \in Procs : ~ proc[x].eintr)'
    BY <1>1, <1>2 DEF ChainInv
  <2>2. (\A x \in Procs : Exists(x) /\ ~ At(x, "wait") => Leaf(x))'
    <3>1. Leaf(q)' /\ At(p, "wait")'
      BY <1>2, <1>4 DEF Leaf, Exists, At
    <3>2. \A x \in Procs : x \notin {p, q} => At(x, "wait") \/ ~ Exists(x)
      BY <1>1, <1>3, EndOfChain
    <3> QED
      BY <1>5, <3>1, <3>2
  <2>3. (\A x, y, z \in Procs : y \in Children(x) /\ z \in Children(x) => y = z)'
    BY <1>1, <1>4, <1>5 DEF ChainInv
  <2>4. (\A x, y \in Procs : Leaf(x) /\ Leaf(y) => x = y)'
    BY <1>6
  <2>5. (\A x \in Procs : At(x, "zombie") => proc[x].parent # 0)'
    BY <1>1, <1>2 DEF ChainInv, At
  <2> QED
    BY <2>1, <2>2, <2>3, <2>4, <2>5 DEF ChainInv
<1>8. LeftInv'
  <2>1. \A x \in Procs : proc[x].left \notin {"running", "failed"}
    BY <1>1, <1>2, <1>3, Known DEF At
  <2>2. \A x \in Procs : proc'[x].left \notin {"running", "failed"}
    BY <1>2, <2>1
  <2> QED
    BY <2>2 DEF LeftInv
<1>9. TermInv'
  <2>1. \A x \in Procs : ~ At(x, "prompt")
    BY <1>1, <1>2, <1>3, EndOfChain DEF Exists, At
  <2>2. \A x \in Procs : ~ At(x, "prompt")'
    BY <1>2, <2>1 DEF At
  <2>3. term' = term /\ mode' = mode
    BY DEF Fork, use
  <2>4. \A x \in Procs : proc'[x].orig = "cooked"
    BY <1>1, <1>2 DEF TermInv
  <2> QED
    BY <1>1, <2>1, <2>2, <2>3, <2>4 DEF TermInv
<1> QED
  BY <1>7, <1>8, <1>9 DEF BSDInv

LEMMA WaitChain ==
  ASSUME TypeInv, TypeInv', BSDInv, restart, UNCHANGED use, NEW p \in Procs, WaitReturns(p)
  PROVE  BSDInv'
<1>1. ChainInv /\ TermInv /\ LeftInv
  BY DEF BSDInv
<1>2. PICK q \in Children(p) :
           /\ q # p /\ At(q, "zombie") /\ At(p, "wait") /\ proc'[q] = Free
           /\ \A x \in Procs : x \notin {p, q} => proc'[x] = proc[x]
           /\ proc'[p].pc \in {"eval", "ready"} /\ proc'[p].parent = proc[p].parent
           /\ ~ proc'[p].eintr /\ proc'[p].orig = proc[p].orig
           /\ proc'[p].left = proc[p].left \/ proc'[p].left = "none"
           /\ proc[q].status = 1 => proc'[p].left = "none"
  BY WaitShape
<1>3. /\ Free.pc = "free" /\ Free.parent = 0 /\ Free.left = "none" /\ ~ Free.eintr
      /\ Free.orig = "cooked"
  BY DEF Free
<1>4. q \in Procs /\ proc[q].parent = p /\ Leaf(q)
  BY <1>1, <1>2 DEF Children, ChainInv, Exists, At
<1>5. Children(p)' = {} /\ \A x \in Procs : x \notin {p, q} => Children(x)' = Children(x)
  <2>1. Children(p) = {q}
    BY <1>1, <1>2 DEF ChainInv, Children
  <2>2. p \notin Children(p) /\ q \notin Children(q)
    BY <1>2, <1>4, <2>1 DEF Leaf
  <2>3. \A x, y \in Procs : y \in Children(x)' <=> (y \in Children(x) /\ y # q)
    BY <1>2, <1>3, <1>4 DEF Children, At
  <2> QED
    BY <1>4, <2>1, <2>3 DEF Children
<1>6. \A x \in Procs : x \notin {p, q} =>
        Exists(x)' = Exists(x) /\ At(x, "wait")' = At(x, "wait")
  BY <1>2 DEF Exists, At
<1>7. ~ Exists(q)' /\ ~ Leaf(q)' /\ Leaf(p)'
  BY <1>2, <1>3, <1>5 DEF Exists, Leaf, At
<1>8. \A x \in Procs : x # p => ~ Leaf(x)'
  <2>1. \A x \in Procs : x \notin {p, q} => ~ Leaf(x)
    BY <1>1, <1>4 DEF ChainInv
  <2>2. \A x \in Procs : x \notin {p, q} => ~ Leaf(x)'
    BY <1>5, <1>6, <2>1 DEF Leaf
  <2> QED
    BY <1>7, <2>2
<1>9. ChainInv'
  <2>1. (\A x \in Procs : ~ proc[x].eintr)'
    BY <1>1, <1>2, <1>3 DEF ChainInv
  <2>2. (\A x \in Procs : Exists(x) /\ ~ At(x, "wait") => Leaf(x))'
    <3>1. \A x \in Procs : x \notin {p, q} => At(x, "wait") \/ ~ Exists(x)
      BY <1>1, <1>4, EndOfChain
    <3> QED
      BY <1>6, <1>7, <3>1
  <2>3. (\A x, y, z \in Procs : y \in Children(x) /\ z \in Children(x) => y = z)'
    <3>1. Children(q)' = {}
      BY <1>2, <1>3, <1>4 DEF Leaf, Children, At
    <3> QED
      BY <1>1, <1>5, <3>1 DEF ChainInv
  <2>4. (\A x, y \in Procs : Leaf(x) /\ Leaf(y) => x = y)'
    BY <1>8
  <2>5. (\A x \in Procs : At(x, "zombie") => proc[x].parent # 0)'
    BY <1>1, <1>2, <1>3 DEF ChainInv, At
  <2> QED
    BY <2>1, <2>2, <2>3, <2>4, <2>5 DEF ChainInv
<1>10. LeftInv'
  <2>1. \A x \in Procs : x # p => proc[x].left \notin {"running", "failed"}
    BY <1>1, <1>4, Known
  <2>2. proc'[p].left \notin {"running", "failed"}
    BY <1>1, <1>2, <1>4, Known DEF At
  <2>3. \A x \in Procs : proc'[x].left \notin {"running", "failed"}
    BY <1>2, <1>3, <2>1, <2>2
  <2> QED
    BY <2>3 DEF LeftInv
<1>11. TermInv'
  <2>1. \A x \in Procs : ~ At(x, "prompt")
    BY <1>1, <1>2, <1>4, EndOfChain DEF Exists, At
  <2>2. \A x \in Procs : ~ At(x, "prompt")'
    BY <1>2, <1>3, <2>1 DEF At
  <2>3. term' = term /\ mode' = mode
    BY DEF WaitReturns, use
  <2>4. \A x \in Procs : proc'[x].orig = "cooked"
    BY <1>1, <1>2, <1>3 DEF TermInv
  <2> QED
    BY <1>1, <2>1, <2>2, <2>3, <2>4 DEF TermInv
<1> QED
  BY <1>9, <1>10, <1>11 DEF BSDInv

\* A step that nothing of the chain is changed by.
LEMMA SameTable ==
  ASSUME BSDInv, restart, UNCHANGED use, term' = term,
         \A q \in Procs :
           /\ proc'[q].pc = proc[q].pc /\ proc'[q].parent = proc[q].parent
           /\ proc'[q].left = proc[q].left /\ proc'[q].orig = proc[q].orig
           /\ proc'[q].status = proc[q].status
           /\ proc'[q].eintr => proc[q].eintr
  PROVE  BSDInv'
<1>1. ChainInv /\ TermInv /\ LeftInv
  BY DEF BSDInv
<1>2. \A q \in Procs : /\ Children(q)' = Children(q) /\ Exists(q)' = Exists(q)
                       /\ Leaf(q)' = Leaf(q) /\ At(q, "wait")' = At(q, "wait")
                       /\ At(q, "prompt")' = At(q, "prompt")
  BY DEF Children, Exists, Leaf, At
<1>3. ChainInv'
  <2>1. (\A p \in Procs : ~ proc[p].eintr)'
    BY <1>1 DEF ChainInv
  <2>2. (\A p \in Procs : At(p, "zombie") => proc[p].parent # 0)'
    BY <1>1 DEF ChainInv, At
  <2> QED
    BY <1>1, <1>2, <2>1, <2>2 DEF ChainInv
<1>4. TermInv'
  BY <1>1, <1>2 DEF TermInv, use
<1>5. LeftInv'
  <2>1. \A q \in Procs : \A c \in Children(q) :
          /\ At(c, "program")' = At(c, "program") /\ At(c, "zombie")' = At(c, "zombie")
          /\ proc'[c].status = proc[c].status
    BY DEF Children, At
  <2> QED
    BY <1>1, <1>2, <2>1 DEF LeftInv
<1> QED
  BY <1>3, <1>4, <1>5 DEF BSDInv

\* The end of the last of the chain, also if a signal has just come.
LEMMA EndChain ==
  ASSUME TypeInv, BSDInv, restart, UNCHANGED use, term' = term,
         NEW t \in [Procs -> Sound],
         \A q \in Procs :
           /\ t[q].pc = proc[q].pc /\ t[q].parent = proc[q].parent
           /\ t[q].left = proc[q].left /\ t[q].orig = proc[q].orig
           /\ t[q].eintr => proc[q].eintr,
         NEW p \in Procs, proc[p].pc \in Living \ {"wait", "prompt"},
         NEW s \in {0, 1}, proc' = Ended(t, {p}, s)
  PROVE  BSDInv'
<1>1. ChainInv /\ TermInv /\ LeftInv
  BY DEF BSDInv
<1>2. Exists(p) /\ Leaf(p) /\ ~ At(p, "zombie")
  BY <1>1 DEF ChainInv, Exists, At, Living
<1>3. \A q \in Procs : proc[q].parent # p
  <2>1. \A q \in Procs : proc[q].pc = "free" => proc[q].parent = 0
    BY DEF TypeInv, Sound
  <2> QED
    BY <1>2, <2>1, Numbers DEF Leaf, Children, At
<1>4. {p} \in SUBSET Procs
  OBVIOUS
<1>5. \A q \in Procs : q # p =>
        /\ proc'[q].pc = proc[q].pc /\ proc'[q].parent = proc[q].parent
        /\ proc'[q].orig = proc[q].orig
        /\ proc'[q].eintr => proc[q].eintr
  BY <1>3, <1>4, EndedStays
<1>6. \A q \in Procs : q # p /\ ~ (At(p, "program") /\ proc[p].parent = q) =>
        proc'[q].left = proc[q].left
  BY <1>3, <1>4, EndedLeft DEF At
<1>7. \A q \in Procs : q # p /\ At(p, "program") /\ proc[p].parent = q =>
        proc'[q].left = IF s = 0 THEN "ok" ELSE "failed"
  BY <1>3, <1>4, EndedLearns DEF At
<1>8. CASE proc[p].parent # 0
  <2>1. /\ proc'[p].pc = "zombie" /\ proc'[p].parent = proc[p].parent
        /\ proc'[p].status = s /\ proc'[p].left = "none" /\ ~ proc'[p].eintr
        /\ proc'[p].orig = "cooked"
    BY <1>3, <1>4, <1>8, EndedZombie
  <2>2. ChainInv' /\ \A q \in Procs : Children(q)' = Children(q)
    <3>1. \A q \in Procs : /\ proc'[q].parent = proc[q].parent
                           /\ proc'[q].eintr => proc[q].eintr
                           /\ Exists(q)' <=> Exists(q)
                           /\ q # p => proc'[q].pc = proc[q].pc
      BY <1>2, <1>5, <2>1 DEF Exists, At
    <3> QED
      BY <1>1, <1>2, <1>8, <3>1, SameChain
  <2>3. LeftInv'
    <3>1. ASSUME NEW q \in Procs, proc'[q].left \in {"running", "failed"}
          PROVE  /\ proc'[q].left = "failed" /\ At(q, "wait")'
                 /\ p \in Children(q)' /\ At(p, "zombie")' /\ proc'[p].status = 1
      <4>1. q # p /\ proc[p].parent = q /\ proc'[q].left = "failed" /\ s = 1
        <5>1. q # p
          BY <2>1, <3>1
        <5>2. At(p, "program") /\ proc[p].parent = q
          BY <1>1, <1>2, <1>6, <3>1, <5>1, Known
        <5> QED
          BY <1>7, <3>1, <5>1, <5>2
      <4>2. p \in Children(q)
        BY <1>2, <4>1 DEF Children, Exists
      <4>3. At(q, "wait")
        <5>1. Exists(q)
          BY <4>1, Numbers DEF TypeInv, ParentsInv, Living, Exists, At
        <5> QED
          BY <1>1, <4>2, <5>1 DEF ChainInv, Leaf
      <4> QED
        BY <1>5, <2>1, <2>2, <4>1, <4>2, <4>3 DEF At
    <3> QED
      BY <3>1 DEF LeftInv
  <2>4. \A q \in Procs : proc'[q].orig = "cooked" /\ (At(q, "prompt")' => At(q, "prompt"))
    BY <1>1, <1>5, <2>1, ZenonT(40) DEF TermInv, At
  <2>5. \A q \in Procs : ~ At(q, "prompt")
    BY <1>1, <1>2, EndOfChain DEF Exists, At
  <2>6. TermInv'
    BY <1>1, <2>4, <2>5 DEF TermInv
  <2> QED
    BY <2>2, <2>3, <2>6 DEF BSDInv
<1>9. CASE proc[p].parent = 0
  <2>1. proc'[p] = Free
    BY <1>4, <1>9, EndedFree
  <2>2. /\ proc'[p].pc = "free" /\ proc'[p].parent = 0 /\ ~ proc'[p].eintr
        /\ proc'[p].left = "none" /\ proc'[p].orig = "cooked"
    BY <2>1 DEF Free
  <2>3. \A q \in Procs : Children(q)' = Children(q)
    <3>1. \A q \in Procs : proc[p].parent # q
      BY <1>9, Numbers
    <3>2. \A q, r \in Procs : r \in Children(q)' <=> r \in Children(q)
      <4> TAKE q, r \in Procs
      <4>1. CASE r = p
        <5>1. r \notin Children(q)'
          BY <2>2, <4>1 DEF Children, At
        <5>2. r \notin Children(q)
          BY <3>1, <4>1 DEF Children
        <5> QED
          BY <5>1, <5>2
      <4>2. CASE r # p
        <5>1. proc'[r].pc = proc[r].pc /\ proc'[r].parent = proc[r].parent
          BY <1>5, <4>2
        <5> QED
          BY <5>1 DEF Children, At
      <4> QED
        BY <4>1, <4>2
    <3> QED
      BY <3>2 DEF Children
  <2>4. \A q \in Procs : Exists(q)' => q # p /\ Exists(q)
    BY <1>5, <2>2 DEF Exists, At
  <2>5. \A q \in Procs : ~ Leaf(q)'
    BY <1>1, <1>2, <2>3, <2>4 DEF Leaf, ChainInv
  <2>6. \A q \in Procs : Exists(q)' => At(q, "wait")'
    <3>1. \A q \in Procs : Exists(q)' => At(q, "wait")
      BY <1>1, <1>2, <2>4, EndOfChain
    <3> QED
      BY <1>5, <2>4, <3>1 DEF At
  <2>7. ChainInv'
    <3>1. (\A q \in Procs : ~ proc[q].eintr)'
      BY <1>1, <1>5, <2>2 DEF ChainInv
    <3>2. (\A q \in Procs : At(q, "zombie") => proc[q].parent # 0)'
      <4>1. \A q \in Procs : At(q, "zombie")' => q # p /\ At(q, "zombie")
        BY <1>5, <2>2 DEF At
      <4>2. \A q \in Procs : At(q, "zombie") => proc[q].parent # 0
        BY <1>1 DEF ChainInv
      <4> QED
        BY <1>5, <4>1, <4>2
    <3>3. (\A x, y, z \in Procs : y \in Children(x) /\ z \in Children(x) => y = z)'
      BY <1>1, <2>3 DEF ChainInv
    <3> QED
      BY <2>5, <2>6, <3>1, <3>2, <3>3 DEF ChainInv
  <2>8. LeftInv'
    <3>1. \A q \in Procs : proc[q].left \notin {"running", "failed"}
      BY <1>1, <1>2, <1>9, Known, Numbers
    <3>2. \A q \in Procs : proc'[q].left \notin {"running", "failed"}
      BY <1>6, <1>9, <2>2, <3>1, Numbers
    <3> QED
      BY <3>2 DEF LeftInv
  <2>9. \A q \in Procs : proc'[q].orig = "cooked" /\ (At(q, "prompt")' => At(q, "prompt"))
    BY <1>1, <1>5, <2>2, ZenonT(40) DEF TermInv, At
  <2>10. \A q \in Procs : ~ At(q, "prompt")
    BY <1>1, <1>2, EndOfChain DEF Exists, At
  <2>11. TermInv'
    BY <1>1, <2>9, <2>10 DEF TermInv
  <2> QED
    BY <2>7, <2>8, <2>11 DEF BSDInv
<1> QED
  BY <1>8, <1>9

\* In the main loop ctrl+c kills no shell, and the last of the chain at most.
LEMMA SigintLoop ==
  ASSUME TypeInv, ArmedInv, BSDInv, restart, mode # "source", Sigint
  PROVE  BSDInv'
<1> DEFINE killed == {p \in {q \in Alive : ~ At(q, "program")} : ~ proc[p].armed}
           t == Signalled(killed)
<1>1. PICK K \in SUBSET {q \in Procs : At(q, "program")} : proc' = Ended(t, K \cup killed, 1)
  BY DEF Sigint, Signalled
<1>2. killed = {}
  BY DEF ArmedInv
<1>3. t \in [Procs -> Sound]
  BY SignalledTypes
<1>4. \A q \in Procs :
        /\ t[q].pc = proc[q].pc /\ t[q].parent = proc[q].parent
        /\ t[q].left = proc[q].left /\ t[q].orig = proc[q].orig
        /\ t[q].status = proc[q].status
        /\ t[q].eintr => proc[q].eintr
  <2> SUFFICES ASSUME NEW q \in Procs
               PROVE  /\ t[q].pc = proc[q].pc /\ t[q].parent = proc[q].parent
                      /\ t[q].left = proc[q].left /\ t[q].orig = proc[q].orig
                      /\ t[q].status = proc[q].status
                      /\ t[q].eintr => proc[q].eintr
    OBVIOUS
  <2>1. t = Signalled(killed)
    OBVIOUS
  <2> HIDE DEF t, killed
  <2> QED
    BY <2>1, SignalledFields, SignalledRestarts
<1>5. UNCHANGED use /\ term' = term
  BY DEF Sigint
<1> HIDE DEF t, killed
<1>6. CASE K = {}
  <2>1. proc' = Ended(t, {}, 1) /\ {} \in SUBSET Procs
    BY <1>1, <1>2, <1>6
  <2>2. \A q \in Procs :
          /\ proc'[q].pc = t[q].pc /\ proc'[q].parent = t[q].parent
          /\ proc'[q].orig = t[q].orig /\ proc'[q].status = t[q].status
          /\ proc'[q].eintr = t[q].eintr
    BY <1>3, <2>1, EndedStays
  <2>3. \A q \in Procs : proc'[q].left = t[q].left
    BY <1>3, <2>1, EndedLeft
  <2> QED
    BY <1>4, <1>5, <2>2, <2>3, SameTable
<1>7. ASSUME NEW p \in K
      PROVE  BSDInv'
  <2>1. p \in Procs /\ proc[p].pc = "program"
    BY <1>7 DEF At
  <2>2. ChainInv
    BY DEF BSDInv
  <2>3. Leaf(p)
    BY <2>1, <2>2 DEF ChainInv, Exists, At
  <2>4. K \cup killed = {p}
    BY <1>2, <1>7, <2>2, <2>3, EndOfChain DEF Exists, At
  <2>5. proc' = Ended(t, {p}, 1)
    BY <1>1, <2>4
  <2>6. proc[p].pc \in Living \ {"wait", "prompt"}
    BY <2>1 DEF Living, States
  <2> QED
    BY <1>3, <1>4, <1>5, <2>1, <2>5, <2>6, EndChain
<1> QED
  BY <1>6, <1>7

\* Where a source is interpreted it kills all of them, but for a program that
\* catches it.
LEMMA SigintSource ==
  ASSUME TypeInv, ArmedInv, BSDInv, restart, mode = "source", Sigint
  PROVE  BSDInv'
<1> DEFINE shells == {q \in Alive : ~ At(q, "program")}
           t == Signalled(shells)
<1>1. PICK K \in SUBSET {q \in Procs : At(q, "program")} : proc' = Ended(t, K \cup shells, 1)
  <2>1. shells = {p \in shells : ~ proc[p].armed}
    BY DEF ArmedInv
  <2> QED
    BY <2>1 DEF Sigint, Signalled
<1>2. t \in [Procs -> Sound]
  BY SignalledTypes
<1>3. \A q \in Procs :
        /\ t[q].pc = proc[q].pc /\ t[q].parent = proc[q].parent
        /\ t[q].left = proc[q].left /\ t[q].orig = proc[q].orig
        /\ t[q].status = proc[q].status
        /\ t[q].eintr => proc[q].eintr
  <2> SUFFICES ASSUME NEW q \in Procs
               PROVE  /\ t[q].pc = proc[q].pc /\ t[q].parent = proc[q].parent
                      /\ t[q].left = proc[q].left /\ t[q].orig = proc[q].orig
                      /\ t[q].status = proc[q].status
                      /\ t[q].eintr => proc[q].eintr
    OBVIOUS
  <2>1. t = Signalled(shells)
    OBVIOUS
  <2> HIDE DEF t, shells
  <2> QED
    BY <2>1, SignalledFields, SignalledRestarts
<1>4. UNCHANGED use /\ term' = term
  BY DEF Sigint
<1> DEFINE D == K \cup shells
<1>5. D \in SUBSET Procs
  BY <1>1 DEF Alive
<1>6. ChainInv /\ TermInv /\ LeftInv
  BY DEF BSDInv
<1>7. \A q \in Procs : proc[q].parent # 0 => proc[q].parent \in D
  <2>1. SUFFICES ASSUME NEW q \in Procs, proc[q].parent # 0
                 PROVE  proc[q].parent \in shells
    OBVIOUS
  <2>2. PICK m \in Procs : m = proc[q].parent /\ proc[m].pc \in Living
    BY <2>1 DEF TypeInv, ParentsInv
  <2>3. q \in Children(m)
    <3>1. proc[q].pc # "free"
      BY <2>1 DEF TypeInv, Sound
    <3> QED
      BY <2>2, <3>1 DEF Children, At
  <2>4. At(m, "wait")
    BY <1>6, <2>2, <2>3 DEF ChainInv, Leaf, Exists, At, Living
  <2> QED
    BY <2>2, <2>4 DEF Alive, At
<1> HIDE DEF t, D
<1>8. proc' = Ended(t, D, 1)
  BY <1>1 DEF D
<1>9. \A q \in Procs : q \in D \/ At(q, "zombie") => proc'[q] = Free
  <2>1. \A q \in Procs : At(q, "zombie") => proc[q].parent # 0
    BY <1>6 DEF ChainInv
  <2> QED
    BY <1>2, <1>3, <1>5, <1>7, <1>8, <2>1, EndedFree DEF At
<1>10. \A q \in Procs : q \notin D /\ ~ At(q, "zombie") =>
        /\ proc'[q].pc = proc[q].pc /\ proc'[q].parent = 0
        /\ proc'[q].orig = proc[q].orig
        /\ proc'[q].eintr => proc[q].eintr
  <2>1. \A q \in Procs : proc[q].parent = 0 \/ proc[q].parent \in D
    BY <1>7
  <2> QED
    BY <1>2, <1>3, <1>5, <1>8, <2>1, EndedStays DEF At
<1>11. /\ Free.pc = "free" /\ Free.parent = 0 /\ Free.left = "none" /\ ~ Free.eintr
       /\ Free.orig = "cooked"
  BY DEF Free
<1>12. \A q \in Procs :
         /\ proc'[q].pc = "free" \/ (At(q, "program") /\ proc'[q].pc = "program")
         /\ proc'[q].parent = 0 /\ proc'[q].orig = "cooked" /\ ~ proc'[q].eintr
  <2> SUFFICES ASSUME NEW q \in Procs
               PROVE  /\ proc'[q].pc = "free" \/ (At(q, "program") /\ proc'[q].pc = "program")
                      /\ proc'[q].parent = 0 /\ proc'[q].orig = "cooked"
                      /\ ~ proc'[q].eintr
    OBVIOUS
  <2>1. CASE q \in D \/ At(q, "zombie")
    BY <1>9, <1>11, <2>1
  <2>2. CASE q \notin D /\ ~ At(q, "zombie")
    <3>1. At(q, "free") \/ At(q, "program")
      BY <2>2 DEF D, Alive, At
    <3>2. proc[q].orig = "cooked" /\ ~ proc[q].eintr
      BY <1>6 DEF ChainInv, TermInv
    <3> QED
      BY <1>10, <2>2, <3>1, <3>2 DEF At
  <2> QED
    BY <2>1, <2>2
<1>13. ChainInv'
  <2>1. \A q \in Procs : Children(q)' = {}
    BY <1>12, Numbers DEF Children
  <2>2. \A q \in Procs : Exists(q)' => At(q, "program") /\ Exists(q)
    BY <1>12 DEF Exists, At
  <2>3. \A p, q \in Procs : Exists(p)' /\ Exists(q)' => p = q
    <3>1. \A q \in Procs : Exists(q)' => Leaf(q)
      BY <1>6, <2>2 DEF ChainInv, At
    <3> QED
      BY <1>6, <3>1 DEF ChainInv
  <2>4. (\A q \in Procs : At(q, "zombie") => proc[q].parent # 0)'
    BY <1>12 DEF At
  <2> QED
    BY <1>12, <2>1, <2>3, <2>4 DEF ChainInv, Leaf
<1>14. LeftInv'
  <2>1. \A q \in Procs : proc'[q].left \notin {"running", "failed"}
    <3>1. \A q \in Procs : q \in D \/ At(q, "zombie") => proc'[q].left = "none"
      BY <1>9, <1>11
    <3>2. ASSUME NEW q \in Procs, q \notin D, ~ At(q, "zombie")
          PROVE  proc'[q].left \notin {"running", "failed"}
      <4>1. ~ At(q, "wait")
        BY <3>2 DEF D, Alive, At
      <4>2. proc[q].left \notin {"running", "failed"}
        BY <1>6, <4>1 DEF LeftInv
      <4>3. \A p \in D : proc[p].parent # q
        BY <1>5, <1>7, <3>2, Numbers
      <4>4. proc'[q].left = t[q].left
        BY <1>2, <1>3, <1>5, <1>8, <3>2, <4>3, EndedLeft DEF At
      <4> QED
        BY <1>3, <4>2, <4>4
    <3> QED
      BY <3>1, <3>2
  <2> QED
    BY <2>1 DEF LeftInv
<1>15. TermInv'
  <2>1. \A q \in Procs : ~ At(q, "prompt")'
    BY <1>12 DEF At
  <2> QED
    BY <1>4, <1>6, <1>12, <2>1 DEF TermInv, use
<1> QED
  BY <1>13, <1>14, <1>15 DEF BSDInv

LEMMA StepBSD == TypeInv /\ ArmedInv /\ BSDInv /\ [Next]_vars => BSDInv'
<1> SUFFICES ASSUME TypeInv, ArmedInv, BSDInv, [Next]_vars, restart PROVE BSDInv'
  BY UseKept DEF BSDInv, use
<1>1. UNCHANGED use /\ TypeInv'
  BY UseKept, StepTypes
<1>2. CASE UNCHANGED <<proc, term>>
  BY <1>1, <1>2, SameTable
<1>3. CASE Sigint
  BY <1>3, SigintLoop, SigintSource
<1>4. ASSUME NEW p \in Procs, Ends(p)
      PROVE  BSDInv'
  <2>1. PICK s \in {0, 1} : proc' = Ended(proc, {p}, s)
    BY <1>4 DEF Ends
  <2>2. proc \in [Procs -> Sound] /\ term' = term /\ proc[p].pc \in Living \ {"wait", "prompt"}
    BY <1>4 DEF Ends, TypeInv
  <2> QED
    BY <1>1, <2>1, <2>2, EndChain
<1> QED
  BY <1>1, <1>2, <1>3, <1>4, Steps, MovesChain, ForkChain, ExecChain, WaitChain

LEMMA InitBSD == Init => BSDInv
<1> SUFFICES ASSUME Init PROVE BSDInv
  OBVIOUS
<1>1. PICK first : /\ proc = [p \in Procs |-> IF p = 1 THEN first ELSE Free]
                   /\ \/ \E l \in Typed : first = [Free EXCEPT !.pc = "got", !.line = l]
                      \/ first = [Free EXCEPT !.pc = "ready", !.armed = TRUE]
  BY DEF Init
<1>2. /\ first.pc \in {"got", "ready"} /\ first.parent = 0 /\ first.left = "none"
      /\ ~ first.eintr /\ first.orig = "cooked"
  BY <1>1 DEF Free
<1>3. /\ Free.pc = "free" /\ Free.parent = 0 /\ Free.left = "none"
      /\ ~ Free.eintr /\ Free.orig = "cooked"
  BY DEF Free
<1>4. \A p \in Procs : /\ proc[p].parent = 0 /\ proc[p].left = "none"
                       /\ ~ proc[p].eintr /\ proc[p].orig = "cooked"
                       /\ proc[p].pc \in {"got", "ready", "free"}
                       /\ p # 1 => proc[p].pc = "free"
  BY <1>1, <1>2, <1>3
<1>5. \A p \in Procs : Children(p) = {} /\ (Exists(p) => p = 1)
  BY <1>4, Numbers DEF Children, Exists, At
<1>6. ChainInv
  BY <1>4, <1>5 DEF ChainInv, Leaf, At
<1>7. TermInv
  BY <1>4 DEF Init, TermInv, At
<1>8. LeftInv
  BY <1>4 DEF LeftInv
<1> QED
  BY <1>6, <1>7, <1>8 DEF BSDInv

\* The invariant of Shell, of which each part needs the ones before it.
ShellInv == TypeInv /\ ArmedInv /\ BSDInv

LEMMA ShellInvariant == Spec => []ShellInv
<1>1. Init => ShellInv
  BY InitTypes, InitArmed, InitBSD DEF ShellInv
<1>2. ShellInv /\ [Next]_vars => ShellInv'
  BY StepTypes, StepArmed, StepBSD DEF ShellInv
<1> QED
  BY <1>1, <1>2, PTL DEF Spec

\* Where waitpid() is restarted, one process at a time reads the terminal or
\* runs, for however many failed commands have turned children into shells,
\* whatever is killed by ctrl+c and whichever calls fail.
THEOREM OneProcessActive == Spec => []OneActive
<1>1. ShellInv => OneActive
  <2> SUFFICES ASSUME ShellInv, restart, NEW p \in Alive, NEW q \in Alive,
                      ~ At(p, "wait"), ~ At(q, "wait")
               PROVE  p = q
    BY DEF OneActive
  <2>1. p \in Procs /\ q \in Procs /\ Exists(p) /\ Exists(q)
    BY DEF Alive, Exists, At
  <2>2. ChainInv
    BY DEF ShellInv, BSDInv
  <2> QED
    BY <2>1, <2>2 DEF ChainInv
<1> QED
  BY <1>1, ShellInvariant, PTL

\* In that build the terminal is raw exactly while some shell reads a line, so
\* that no program runs on a raw terminal and none is left behind.
THEOREM TerminalRestored == Spec => []TermFollowsPrompt
<1>1. ShellInv => TermFollowsPrompt
  BY DEF ShellInv, BSDInv, TermInv, TermFollowsPrompt
<1> QED
  BY <1>1, ShellInvariant, PTL

\* In that build the right command of && is not started while the program of
\* the left one runs, or after it has failed.
THEOREM RightWaitsForLeft == Spec => AndIfStops
<1> DEFINE Stops == \A p \in Procs :
                      restart /\ proc[p].left \in {"running", "failed"} => ~ Fork(p)
<1>1. ShellInv => Stops
  BY DEF ShellInv, BSDInv, LeftInv, Fork, At
<1>2. ShellInv /\ [Next]_vars => [Stops]_vars
  BY <1>1
<1>3. Spec => [][Stops]_vars
  BY <1>2, ShellInvariant, PTL DEF Spec
<1> QED
  BY <1>3 DEF AndIfStops

-----------------------------------------------------------------------------
(* The lines that are in the file, and those a shell has.                  *)

\* InOrder() reads one number more.
Counted(n, line) == IF line = n + 1 THEN n + 1 ELSE n

\* How far it has come after each of the first z numbers.
Counts(c, q, z) ==
  c \in [0 .. z -> Nat] /\ c[0] = 0 /\ \A k \in 0 .. z - 1 : c[k + 1] = Counted(c[k], q[k + 1])

\* The function FoldLeft() is defined by.
Count(q) ==
  CHOOSE f : f = [s \in SUBSET DOMAIN q |->
                    IF s = {} THEN 0 ELSE Counted(f[s \ {Max(s)}], q[Max(s)])]

LEMMA InOrderFolds ==
  ASSUME NEW q
  PROVE  InOrder(q) = Count(q)[DOMAIN q]
BY DEF InOrder, FoldLeft, MapThenFoldSet, Count, Counted

LEMMA Counting ==
  ASSUME NEW q \in Seq(Nat), NEW z, z = Len(q)
  PROVE  \E c : Counts(c, q, z) /\ InOrder(q) = c[z]
<1>1. z \in Nat /\ DOMAIN q = 1 .. z
  BY LenProperties
<1> DEFINE step == [n \in Nat |-> [line \in Nat |-> Counted(n, line)]]
<1>2. step \in [Nat -> [Nat -> Nat]]
  BY DEF Counted
<1> HIDE DEF step
<1>3. PICK g \in [SUBSET (1 .. z) -> Nat] : IsFold(g, step, 0, q, 1 .. z)
  <2>1. PICK N : N = Nat
    OBVIOUS
  <2>2. step \in [N -> [N -> N]] /\ q \in Seq(N) /\ 0 \in N
    BY <1>2, <2>1
  <2>3. \E g \in [SUBSET (1 .. Len(q)) -> N] : IsFold(g, step, 0, q, 1 .. Len(q))
    BY ONLY <2>2, FoldIs
  <2> QED
    BY <2>1, <2>3
<1>4. ASSUME NEW s \in SUBSET (1 .. z)
      PROVE  g[s] = IF s = {} THEN 0 ELSE Counted(g[s \ {Max(s)}], q[Max(s)])
  <2>1. g[s] = IF s = {} THEN 0 ELSE step[g[s \ {Max(s)}]][q[Max(s)]]
    BY <1>3 DEF IsFold
  <2>2. CASE s # {}
    <3>1. PICK m : m = Max(s)
      OBVIOUS
    <3>2. m \in 1 .. z
      BY <1>1, <2>2, <3>1, LastOne
    <3>3. q[m] \in Nat
      BY <3>2, ElementOfSeq
    <3>4. g[s \ {m}] \in Nat
      BY <1>3
    <3>5. step[g[s \ {m}]][q[m]] = Counted(g[s \ {m}], q[m])
      BY <3>3, <3>4 DEF step
    <3> QED
      BY <2>1, <2>2, <3>1, <3>5
  <2> QED
    BY <2>1, <2>2
<1>5. g = [s \in SUBSET DOMAIN q |->
             IF s = {} THEN 0 ELSE Counted(g[s \ {Max(s)}], q[Max(s)])]
  BY <1>1, <1>3, <1>4
<1>6. PICK f : f = Count(q)
  OBVIOUS
<1>7. f = [s \in SUBSET DOMAIN q |->
             IF s = {} THEN 0 ELSE Counted(f[s \ {Max(s)}], q[Max(s)])]
  BY <1>5, <1>6 DEF Count
<1>8. \A s \in SUBSET (1 .. z) :
        f[s] = IF s = {} THEN 0 ELSE Counted(f[s \ {Max(s)}], q[Max(s)])
  BY <1>1, <1>7
<1>9. f[1 .. 0] = 0
  <2>1. 1 .. 0 = {} /\ 1 .. 0 \in SUBSET (1 .. z)
    OBVIOUS
  <2> QED
    BY <1>8, <2>1
<1>10. ASSUME NEW k \in 0 .. z - 1
       PROVE  f[1 .. k + 1] = Counted(f[1 .. k], q[k + 1])
  <2>1. PICK s : s = 1 .. k + 1
    OBVIOUS
  <2>2. s # {} /\ Max(s) = k + 1 /\ s \ {k + 1} = 1 .. k
    <3>1. k \in Nat
      BY <1>1
    <3> QED
      BY <2>1, <3>1, FirstPositions
  <2>3. s \in SUBSET (1 .. z)
    BY <1>1, <2>1
  <2>4. f[s] = Counted(f[s \ {Max(s)}], q[Max(s)])
    BY <1>8, <2>2, <2>3
  <2> QED
    BY <2>1, <2>2, <2>4
<1> DEFINE good == {n \in Nat : n <= z => f[1 .. n] \in Nat}
<1>11. 0 .. z \subseteq good
  <2>1. good \in SUBSET Nat /\ 0 \in good
    BY <1>9
  <2>2. ASSUME NEW n \in good, n < z
        PROVE  n + 1 \in good
    <3>1. n \in Nat /\ n \in 0 .. z - 1 /\ f[1 .. n] \in Nat
      BY <1>1, <2>2
    <3>2. f[1 .. n + 1] = Counted(f[1 .. n], q[n + 1])
      BY <1>10, <3>1
    <3>3. f[1 .. n + 1] \in Nat
      BY <3>1, <3>2 DEF Counted
    <3> QED
      BY <3>1, <3>3
  <2> HIDE DEF good
  <2> QED
    BY <1>1, <2>1, <2>2, UpTo
<1> DEFINE c == [k \in 0 .. z |-> f[1 .. k]]
<1>12. c \in [0 .. z -> Nat]
  BY <1>11
<1>13. c[0] = 0 /\ c[z] = f[1 .. z]
  BY <1>1, <1>9
<1>14. \A k \in 0 .. z - 1 : c[k + 1] = Counted(c[k], q[k + 1])
  <2> TAKE k \in 0 .. z - 1
  <2>1. k \in 0 .. z /\ k + 1 \in 0 .. z
    BY <1>1
  <2> QED
    BY <1>10, <2>1
<1> HIDE DEF c
<1>15. InOrder(q) = c[z]
  BY <1>1, <1>6, <1>13, InOrderFolds
<1> QED
  BY <1>12, <1>13, <1>14, <1>15 DEF Counts

\* Two sequences that begin with the same numbers.
LEMMA CountsAgree ==
  ASSUME NEW c, NEW d, NEW q, NEW r, NEW m \in Nat, NEW n \in Nat, m <= n,
         Counts(c, q, m), Counts(d, r, n), \A k \in 1 .. m : q[k] = r[k]
  PROVE  c[m] = d[m]
<1> DEFINE good == {k \in Nat : k <= m => c[k] = d[k]}
<1>1. good \in SUBSET Nat /\ 0 \in good
  BY DEF Counts
<1>2. ASSUME NEW k \in good, k < m
      PROVE  k + 1 \in good
  <2>1. k \in Nat /\ k \in 0 .. m - 1 /\ k \in 0 .. n - 1 /\ k + 1 \in 1 .. m /\ c[k] = d[k]
    BY <1>2
  <2>2. c[k + 1] = Counted(c[k], q[k + 1]) /\ d[k + 1] = Counted(d[k], r[k + 1])
    BY <2>1 DEF Counts
  <2> QED
    BY <2>1, <2>2
<1> HIDE DEF good
<1>3. m \in good
  <2>1. 0 .. m \subseteq good /\ m \in 0 .. m
    BY <1>1, <1>2, UpTo
  <2> QED
    BY <2>1
<1> QED
  BY <1>3 DEF good

LEMMA InOrderTypes ==
  ASSUME NEW q \in Seq(Nat)
  PROVE  InOrder(q) \in Nat
<1>1. PICK z \in Nat : z = Len(q)
  BY LenProperties
<1>2. PICK c : Counts(c, q, z) /\ InOrder(q) = c[z]
  BY <1>1, Counting
<1> QED
  BY <1>2 DEF Counts

LEMMA InOrderNothing == InOrder(<<>>) = 0
<1>1. PICK q \in Seq(Nat) : q = <<>> /\ Len(q) = 0
  BY EmptySeq
<1>2. PICK c : Counts(c, q, 0) /\ InOrder(q) = c[0]
  BY <1>1, Counting
<1> QED
  BY <1>1, <1>2 DEF Counts

\* The next number at the end is counted.
LEMMA InOrderNext ==
  ASSUME NEW q \in Seq(Nat), NEW n \in Nat, n = InOrder(q) + 1
  PROVE  InOrder(Append(q, n)) = n
<1>1. PICK z \in Nat, m \in Nat : z = Len(q) /\ m = z + 1
  BY LenProperties
<1>2. PICK r : r = Append(q, n)
  OBVIOUS
<1>3. r \in Seq(Nat) /\ Len(r) = m /\ r[m] = n /\ \A k \in 1 .. z : r[k] = q[k]
  BY <1>1, <1>2, AppendProperties
<1>4. PICK c : Counts(c, q, z) /\ InOrder(q) = c[z]
  BY <1>1, Counting
<1>5. PICK d : Counts(d, r, m) /\ InOrder(r) = d[m]
  BY <1>3, Counting
<1>6. c[z] = d[z]
  <2>1. z <= m
    BY <1>1
  <2> QED
    BY <1>3, <1>4, <1>5, <2>1, CountsAgree
<1>7. z \in 0 .. m - 1
  BY <1>1
<1>8. d[m] = Counted(d[z], r[m])
  BY <1>1, <1>5, <1>7 DEF Counts
<1> QED
  BY <1>2, <1>3, <1>4, <1>5, <1>6, <1>8 DEF Counted

\* Numbers that were counted before change nothing.
LEMMA InOrderKnown ==
  ASSUME NEW q \in Seq(Nat), NEW x \in Seq(Nat), \A i \in DOMAIN x : x[i] <= InOrder(q)
  PROVE  InOrder(q \o x) = InOrder(q)
<1>1. PICK z \in Nat, y \in Nat, m \in Nat : z = Len(q) /\ y = Len(x) /\ m = z + y
  BY LenProperties
<1>2. PICK r : r = q \o x
  OBVIOUS
<1>3. /\ r \in Seq(Nat) /\ Len(r) = m /\ \A k \in 1 .. z : r[k] = q[k]
      /\ \A k \in 1 .. y : r[z + k] = x[k]
  <2>1. /\ r \in Seq(Nat) /\ Len(r) = Len(q) + Len(x)
        /\ \A i \in 1 .. Len(q) + Len(x) : r[i] = IF i <= Len(q) THEN q[i] ELSE x[i - Len(q)]
    BY <1>2, ConcatProperties
  <2>2. \A k \in 1 .. z : k \in 1 .. m /\ k <= z
    BY <1>1
  <2>3. \A k \in 1 .. y : z + k \in 1 .. m /\ ~ (z + k <= z) /\ z + k - z = k
    BY <1>1
  <2>4. \A k \in 1 .. z : r[k] = q[k]
    BY <1>1, <2>1, <2>2
  <2>5. \A k \in 1 .. y : r[z + k] = x[k]
    <3> TAKE k \in 1 .. y
    <3>1. PICK i \in 1 .. m : i = z + k
      BY <2>3
    <3>2. ~ (i <= z) /\ i - z = k
      BY <2>3, <3>1
    <3>3. r[i] = x[i - z]
      BY <1>1, <2>1, <3>2
    <3> QED
      BY <3>1, <3>2, <3>3
  <2> QED
    BY <1>1, <2>1, <2>4, <2>5
<1>4. PICK c : Counts(c, q, z) /\ InOrder(q) = c[z]
  BY <1>1, Counting
<1>5. PICK d : Counts(d, r, m) /\ InOrder(r) = d[m]
  BY <1>3, Counting
<1>6. c[z] = d[z]
  <2>1. z <= m
    BY <1>1
  <2> QED
    BY <1>3, <1>4, <1>5, <2>1, CountsAgree
<1>7. \A k \in 1 .. y : x[k] <= d[z]
  <2>1. DOMAIN x = 1 .. y
    BY <1>1, LenProperties
  <2> QED
    BY <1>4, <1>6, <2>1
<1> DEFINE good == {k \in Nat : k <= y => d[z + k] = d[z]}
<1>8. good \in SUBSET Nat /\ 0 \in good
  BY <1>1
<1>9. ASSUME NEW k \in good, k < y
      PROVE  k + 1 \in good
  <2>1. k \in Nat /\ d[z + k] = d[z] /\ k + 1 \in 1 .. y
    BY <1>9
  <2>2. PICK i \in 0 .. m - 1 : i = z + k
    BY <1>1, <1>9, <2>1
  <2>3. PICK j \in 1 .. y : j = k + 1 /\ z + j = i + 1
    BY <1>1, <2>1, <2>2
  <2>4. d[i + 1] = Counted(d[i], r[i + 1])
    BY <1>5 DEF Counts
  <2>5. r[i + 1] = x[j] /\ x[j] <= d[z]
    BY <1>3, <1>7, <2>3
  <2>6. d[z] \in Nat /\ x[j] \in Nat
    <3>1. z \in 0 .. m /\ j \in 1 .. Len(x)
      BY <1>1
    <3> QED
      BY <1>5, <3>1, ElementOfSeq DEF Counts
  <2>7. d[i + 1] = d[z]
    BY <2>1, <2>2, <2>4, <2>5, <2>6 DEF Counted
  <2> QED
    BY <2>1, <2>3, <2>7
<1> HIDE DEF good
<1>10. y \in good
  <2>1. 0 .. y \subseteq good
    BY ONLY y \in Nat, <1>8, <1>9, UpTo
  <2>2. y \in 0 .. y
    BY <1>1
  <2> QED
    BY <2>1, <2>2
<1>11. d[z + y] = d[z]
  BY <1>10 DEF good
<1> QED
  BY <1>1, <1>2, <1>4, <1>5, <1>6, <1>11

\* A shell has a line more, which is the next one.
LEMMA NextKept ==
  ASSUME NEW q \in Seq(Nat), NEW x \in Seq(Nat), NEW n \in Nat, InOrder(q \o x) = n
  PROVE  InOrder(q \o Append(x, n + 1)) = n + 1
<1>1. PICK m \in Nat : m = n + 1
  OBVIOUS
<1>2. PICK r : r = q \o x
  OBVIOUS
<1>3. r \in Seq(Nat) /\ InOrder(r) = n
  BY <1>2, ConcatProperties
<1>4. InOrder(Append(r, m)) = m
  BY <1>1, <1>3, InOrderNext
<1>5. q \o Append(x, m) = Append(r, m)
  BY ONLY <1>2, q \in Seq(Nat), x \in Seq(Nat), m \in Nat, AppendBehind
<1> QED
  BY <1>1, <1>4, <1>5

\* A shell whose children, if it has any, have saved nothing since it forked
\* them.
IsShell(p) == proc[p].pc \notin {"free", "program", "zombie"}
Current(p) ==
  /\ IsShell(p)
  /\ \A q \in Children(p) : proc[q].pc \in {"exec", "program", "zombie"}

\* The file and what such a shell remembers make up all that was saved.  What
\* its ancestors remember is part of it, and is met again when they write it.
CurrentKept == \A p \in Procs : Current(p) => InOrder(file \o proc[p].mem) = saved
FileKept == (\A p \in Procs : ~ IsShell(p)) => InOrder(file) = saved
MemSaved == \A p \in Procs : \A i \in DOMAIN proc[p].mem : proc[p].mem[i] <= saved
SourceUnsaved ==
  mode = "source" => /\ file = <<>> /\ saved = 0
                     /\ \A p \in Procs : proc[p].mem = <<>>
ExecParents == \A p \in Procs : At(p, "exec") => proc[p].parent # 0

OrderParts == CurrentKept /\ FileKept /\ MemSaved /\ SourceUnsaved /\ ExecParents
OrderInv == restart /\ clean => OrderParts

\* Steps that save nothing.
Unsaved ==
  /\ file' = file /\ saved' = saved
  /\ \A p \in Procs : \E q \in Procs : proc'[p].mem \in {proc[q].mem, <<>>}
  /\ \A p \in Procs : Current(p)' =>
       \E q \in Procs : Current(q) /\ proc'[p].mem = proc[q].mem
  /\ (\A p \in Procs : ~ IsShell(p)') => \A p \in Procs : ~ IsShell(p)
  /\ \A p \in Procs : At(p, "exec")' => proc'[p].parent # 0

LEMMA UnsavedOrder ==
  ASSUME OrderParts, mode' = mode, Unsaved
  PROVE  OrderParts'
<1>1. CurrentKept'
  BY DEF OrderParts, CurrentKept, Unsaved
<1>2. FileKept'
  BY DEF OrderParts, FileKept, Unsaved
<1>3. MemSaved'
  <2> SUFFICES ASSUME NEW p \in Procs
               PROVE  \A i \in DOMAIN proc'[p].mem : proc'[p].mem[i] <= saved'
    BY DEF MemSaved
  <2>1. PICK q \in Procs : proc'[p].mem \in {proc[q].mem, <<>>}
    BY DEF Unsaved
  <2>2. CASE proc'[p].mem = proc[q].mem
    BY <2>2 DEF OrderParts, MemSaved, Unsaved
  <2>3. CASE proc'[p].mem = <<>>
    <3>1. DOMAIN proc'[p].mem = {}
      BY <2>3
    <3> QED
      BY <3>1
  <2> QED
    BY <2>1, <2>2, <2>3
<1>4. SourceUnsaved'
  BY DEF OrderParts, SourceUnsaved, Unsaved
<1>5. ExecParents'
  BY DEF ExecParents, Unsaved
<1> QED
  BY <1>1, <1>2, <1>3, <1>4, <1>5 DEF OrderParts

\* The last of the chain, unless it is about to call execve(), is the only such
\* shell.
LEMMA OnlyCurrent ==
  ASSUME ChainInv, NEW p \in Procs, Leaf(p), IsShell(p), ~ At(p, "exec")
  PROVE  /\ Current(p)
         /\ \A q \in Procs : Current(q) => q = p
<1>1. Current(p)
  BY DEF Current, Leaf
<1>2. ASSUME NEW q \in Procs, Current(q)
      PROVE  q = p
  <2>1. CASE Children(q) = {}
    <3>1. Leaf(q)
      BY <1>2, <2>1 DEF Leaf, Current, IsShell, Exists, At
    <3> QED
      BY <3>1 DEF ChainInv
  <2>2. ASSUME NEW x \in Children(q)
        PROVE  FALSE
    <3>1. x \in Procs /\ proc[x].pc \in {"exec", "program", "zombie"}
      BY <1>2, <2>2 DEF Current, Children
    <3>2. x = p
      BY <3>1, EndOfChain DEF Exists, At
    <3> QED
      BY <3>1, <3>2 DEF IsShell, At
  <2> QED
    BY <2>1, <2>2
<1> QED
  BY <1>1, <1>2

\* What is remembered is a sequence of numbers.
LEMMA MemTypes ==
  ASSUME TypeInv
  PROVE  /\ file \in Seq(Nat) /\ saved \in Nat
         /\ \A p \in Procs : proc[p].mem \in Seq(Nat)
BY DEF TypeInv, ScalarsOK, Sound, Process

\* Who goes on without saving anything.
LEMMA MovesUnsaved ==
  ASSUME OrderParts, NEW p \in Procs, Moves(p), proc'[p].pc # "exec",
         file' = file, saved' = saved, proc'[p].mem = proc[p].mem
  PROVE  Unsaved
<1>1. /\ \A q \in Procs : proc'[q].mem = proc[q].mem /\ proc'[q].parent = proc[q].parent
      /\ \A q \in Procs : q # p => proc'[q].pc = proc[q].pc
      /\ IsShell(p) /\ IsShell(p)' /\ ~ At(p, "free") /\ ~ At(p, "free")'
  BY DEF Moves, Living, IsShell, At
<1>2. \A q \in Procs : Children(q)' = Children(q)
  BY <1>1 DEF Children, At
<1>3. \A q \in Procs : IsShell(q)' <=> IsShell(q)
  BY <1>1 DEF IsShell
<1>4. ASSUME NEW q \in Procs, Current(q)'
      PROVE  Current(q)
  <2>1. p \notin Children(q)
    BY <1>1, <1>2, <1>4 DEF Current, IsShell
  <2>2. \A x \in Children(q) : x \in Procs /\ x # p
    BY <2>1 DEF Children
  <2> QED
    BY <1>1, <1>2, <1>3, <1>4, <2>2 DEF Current
<1>5. \A q \in Procs : At(q, "exec")' => proc'[q].parent # 0
  BY <1>1 DEF OrderParts, ExecParents, At
<1> QED
  BY <1>1, <1>3, <1>4, <1>5 DEF Unsaved

\* hist_save(): the shell that is the last of the chain has the line.
LEMMA SaveOrder ==
  ASSUME TypeInv, ChainInv, OrderParts, mode' = mode, NEW p \in Procs, NEW kind, Save(p, kind),
         Moves(p), proc'[p].pc # "exec", proc'[p].mem = Remembered(p), file' = file
  PROVE  OrderParts'
<1>1. Leaf(p) /\ IsShell(p) /\ ~ At(p, "exec")
  BY DEF Save, ChainInv, At, IsShell, Exists
<1>2. /\ \A q \in Procs : q # p => proc'[q] = proc[q]
      /\ \A q \in Procs : proc'[q].parent = proc[q].parent
      /\ \A q \in Procs : At(q, "free")' <=> At(q, "free")
      /\ IsShell(p)'
  BY DEF Moves, Living, At, IsShell
<1>3. CASE mode = "source"
  <2>1. \A q \in Procs : proc[q].mem = <<>>
    BY <1>3 DEF OrderParts, SourceUnsaved
  <2>2. saved' = saved /\ proc'[p].mem = proc[p].mem
    BY <1>3, <2>1 DEF Save, Remembered
  <2>3. Unsaved
    BY <2>2, MovesUnsaved
  <2> QED
    BY <2>3, UnsavedOrder
<1>4. CASE mode # "source"
  <2>1. PICK x : x = proc[p].mem
    OBVIOUS
  <2>2. PICK n \in Nat : n = saved /\ saved' = n + 1
    BY <1>4, MemTypes DEF Save
  <2>3. x \in Seq(Nat) /\ proc'[p].mem = Append(x, n + 1) /\ file \in Seq(Nat)
    BY <1>4, <2>1, <2>2, MemTypes DEF Remembered
  <2>4. Current(p) /\ \A q \in Procs : Current(q) => q = p
    BY <1>1, OnlyCurrent
  <2>5. InOrder(file' \o proc'[p].mem) = saved'
    <3>1. InOrder(file \o x) = n
      BY <2>1, <2>2, <2>4 DEF OrderParts, CurrentKept
    <3>2. InOrder(file \o Append(x, n + 1)) = n + 1
      BY <2>2, <2>3, <3>1, NextKept
    <3> QED
      BY <2>2, <2>3, <3>2
  <2>6. ASSUME NEW q \in Procs, Current(q)'
        PROVE  q = p
    <3> SUFFICES ASSUME q # p PROVE FALSE
      OBVIOUS
    <3>1. IsShell(q) /\ Children(q)' = Children(q)
      BY <1>2, <2>6 DEF Current, IsShell, Children, At
    <3>2. PICK y \in Children(q) : proc[y].pc \notin {"exec", "program", "zombie"}
      BY <2>4, <3>1 DEF Current
    <3>3. y \in Procs /\ proc'[y].pc \in {"exec", "program", "zombie"}
      BY <2>6, <3>1, <3>2 DEF Current, Children
    <3>4. y # p
      BY <1>2, <3>3 DEF IsShell
    <3> QED
      BY <1>2, <3>2, <3>3, <3>4
  <2>7. CurrentKept'
    BY <2>5, <2>6 DEF CurrentKept
  <2>8. FileKept' /\ SourceUnsaved'
    BY <1>2, <1>4 DEF FileKept, SourceUnsaved
  <2>9. ExecParents'
    BY <1>2 DEF OrderParts, ExecParents, At
  <2>10. MemSaved'
    <3>1. ASSUME NEW q \in Procs, q # p, NEW i \in DOMAIN proc[q].mem
          PROVE  proc[q].mem[i] <= n + 1
      <4>1. proc[q].mem[i] <= n
        BY <2>2 DEF OrderParts, MemSaved
      <4>2. proc[q].mem[i] \in Nat
        BY MemTypes, LenProperties, ElementOfSeq
      <4> QED
        BY <4>1, <4>2
    <3>2. ASSUME NEW i \in DOMAIN proc'[p].mem
          PROVE  proc'[p].mem[i] <= n + 1
      <4>1. PICK z \in Nat, m \in Nat : z = Len(x) /\ m = n + 1
        BY <2>2, <2>3, LenProperties
      <4>2. PICK y : y = Append(x, m)
        OBVIOUS
      <4>3. y \in Seq(Nat) /\ Len(y) = z + 1 /\ y[z + 1] = m /\ \A k \in 1 .. z : y[k] = x[k]
        BY <2>3, <4>1, <4>2, AppendProperties
      <4>4. DOMAIN y = 1 .. z + 1 /\ DOMAIN x = 1 .. z /\ proc'[p].mem = y
        BY <2>3, <4>1, <4>2, <4>3, LenProperties
      <4>5. \A k \in 1 .. z : x[k] <= n
        BY <2>1, <2>2, <4>4 DEF OrderParts, MemSaved
      <4>6. \A k \in 1 .. z : x[k] \in Nat
        BY <2>3, <4>1, ElementOfSeq
      <4>7. i \in 1 .. z \/ i = z + 1
        BY <3>2, <4>1, <4>4
      <4> QED
        BY <2>2, <4>1, <4>3, <4>4, <4>5, <4>6, <4>7
    <3> QED
      BY <1>2, <2>2, <3>1, <3>2 DEF MemSaved
  <2> QED
    BY <2>7, <2>8, <2>9, <2>10 DEF OrderParts
<1> QED
  BY <1>3, <1>4

\* Processes without children end: the other shells stay what they are.
LEMMA EndedShells ==
  ASSUME TypeInv, NEW table \in [Procs -> Sound], NEW D \in SUBSET Procs, NEW s \in {0, 1},
         proc' = Ended(table, D, s), \A q \in D : Children(q) = {},
         \A q \in Procs : /\ table[q].pc = proc[q].pc /\ table[q].parent = proc[q].parent
                          /\ table[q].mem = proc[q].mem,
         NEW q \in Procs
  PROVE  /\ proc'[q].mem \in {proc[q].mem, <<>>}
         /\ IsShell(q)' =>
              /\ IsShell(q) /\ q \notin D /\ proc'[q].mem = proc[q].mem
              /\ proc'[q].pc = proc[q].pc /\ proc'[q].parent = proc[q].parent
<1>1. CASE proc'[q] = Free
  BY <1>1 DEF Free, IsShell
<1>2. CASE proc'[q] # Free /\ q \in D
  <2>1. table[q].parent \notin D /\ table[q].parent # 0
    BY <1>2, EndedFree
  <2>2. proc'[q].pc = "zombie" /\ proc'[q].mem = <<>>
    BY <1>2, <2>1, EndedZombie
  <2> QED
    BY <2>2 DEF IsShell
<1>3. CASE proc'[q] # Free /\ q \notin D
  <2>1. table[q].pc # "zombie" \/ table[q].parent \notin D
    BY <1>3, EndedFree
  <2>2. /\ table[q].parent \notin D => proc'[q].parent = table[q].parent
        /\ proc'[q].pc = table[q].pc /\ proc'[q].mem = table[q].mem
    BY <1>3, <2>1, EndedStays
  <2>3. IsShell(q) => table[q].parent \notin D
    BY DEF IsShell, Children, At
  <2> QED
    BY <1>3, <2>2, <2>3 DEF IsShell
<1> QED
  BY <1>1, <1>2, <1>3

\* What the programs D save is nothing.
LEMMA ProgramsUnsaved ==
  ASSUME TypeInv, ChainInv, OrderParts,
         NEW table \in [Procs -> Sound], NEW D \in SUBSET Procs, NEW s \in {0, 1},
         proc' = Ended(table, D, s), \A q \in D : At(q, "program"),
         \A q \in Procs : /\ table[q].pc = proc[q].pc /\ table[q].parent = proc[q].parent
                          /\ table[q].mem = proc[q].mem,
         file' = file, saved' = saved
  PROVE  Unsaved
<1>1. \A q \in D : Children(q) = {}
  BY DEF ChainInv, Leaf, Exists, At
<1>2. \A q \in Procs :
        /\ proc'[q].mem \in {proc[q].mem, <<>>}
        /\ IsShell(q)' => /\ IsShell(q) /\ q \notin D /\ proc'[q].mem = proc[q].mem
                          /\ proc'[q].pc = proc[q].pc /\ proc'[q].parent = proc[q].parent
  BY <1>1, EndedShells
<1>3. ASSUME NEW q \in Procs, IsShell(q)
      PROVE  IsShell(q)'
  <2>1. q \notin D /\ table[q].pc # "zombie"
    BY <1>3 DEF IsShell, At
  <2>2. proc'[q].pc = table[q].pc
    BY <2>1, EndedStays
  <2> QED
    BY <1>3, <2>2 DEF IsShell
<1>4. ASSUME NEW q \in Procs, Current(q)'
      PROVE  Current(q) /\ proc'[q].mem = proc[q].mem
  <2>1. IsShell(q) /\ q \notin D /\ proc'[q].mem = proc[q].mem
    BY <1>2, <1>4 DEF Current
  <2>2. ASSUME NEW x \in Children(q)
        PROVE  proc[x].pc \in {"exec", "program", "zombie"}
    <3>1. x \in Procs /\ proc[x].parent = q /\ proc[x].pc # "free"
      BY <2>2 DEF Children, At
    <3>2. CASE x \in D
      BY <3>2 DEF At
    <3>3. CASE x \notin D
      <4>1. proc'[x].parent = q /\ proc'[x].pc = proc[x].pc
        BY <2>1, <3>1, <3>3, EndedStays
      <4>2. x \in Children(q)'
        BY <3>1, <4>1 DEF Children, At
      <4> QED
        BY <1>4, <4>1, <4>2 DEF Current
    <3> QED
      BY <3>2, <3>3
  <2> QED
    BY <2>1, <2>2 DEF Current
<1>5. ASSUME NEW q \in Procs, At(q, "exec")'
      PROVE  proc'[q].parent # 0
  <2>1. IsShell(q)'
    BY <1>5 DEF IsShell, At
  <2> QED
    BY <1>2, <1>5, <2>1 DEF OrderParts, ExecParents, At
<1> QED
  BY <1>2, <1>3, <1>4, <1>5 DEF Unsaved

\* "exit": all that was saved is in the file.
LEMMA LeaveOrder ==
  ASSUME TypeInv, ChainInv, OrderParts, mode' = mode, NEW p \in Procs, Leave(p)
  PROVE  OrderParts'
<1>1. /\ Leaf(p) /\ IsShell(p) /\ ~ At(p, "exec") /\ Current(p)
      /\ proc \in [Procs -> Sound] /\ proc' = Ended(proc, {p}, 0)
  <2>1. Leaf(p) /\ IsShell(p) /\ ~ At(p, "exec")
    BY DEF Leave, Save, ChainInv, At, IsShell, Exists
  <2> QED
    BY <2>1, OnlyCurrent DEF TypeInv, Leave
<1>2. \A q \in Procs :
        /\ proc'[q].mem \in {proc[q].mem, <<>>}
        /\ IsShell(q)' => /\ IsShell(q) /\ q # p
                          /\ proc'[q].pc = proc[q].pc /\ proc'[q].parent = proc[q].parent
  <2>1. {p} \in SUBSET Procs /\ \A q \in {p} : Children(q) = {}
    BY <1>1 DEF Leaf
  <2> QED
    BY <1>1, <2>1, EndedShells
<1>3. PICK x \in Seq(Nat), n \in Nat : x = proc[p].mem /\ n = saved
  BY MemTypes
<1>4. file \in Seq(Nat) /\ InOrder(file \o x) = n
  BY <1>1, <1>3, MemTypes DEF OrderParts, CurrentKept
<1>5. /\ file' \in Seq(Nat) /\ saved' \in Nat /\ saved' >= saved /\ InOrder(file') = saved'
      /\ mode = "source" => file' = <<>> /\ saved' = 0
  <2>1. CASE mode = "source"
    <3>1. saved' = saved /\ file' = file \o <<>> /\ saved = 0 /\ file = <<>>
      BY <2>1 DEF Leave, Save, Remembered, OrderParts, SourceUnsaved
    <3>2. <<>> \in Seq(Nat) /\ <<>> \o <<>> = <<>>
      BY EmptySeq, ConcatEmptySeq
    <3> QED
      BY <3>1, <3>2, InOrderNothing
  <2>2. CASE mode # "source"
    <3>1. saved' = n + 1 /\ file' = file \o Append(x, n + 1)
      BY <1>3, <2>2 DEF Leave, Save, Remembered
    <3>2. InOrder(file') = n + 1
      BY <1>4, <3>1, NextKept
    <3>3. file' \in Seq(Nat)
      <4>1. Append(x, n + 1) \in Seq(Nat)
        BY <1>4, AppendProperties
      <4> QED
        BY <1>4, <3>1, <4>1, ConcatProperties
    <3> QED
      BY <1>3, <2>2, <3>1, <3>2, <3>3
  <2> QED
    BY <2>1, <2>2
<1>6. \A q \in Procs : proc'[q].mem \in Seq(Nat)
  BY <1>2, MemTypes, EmptySeq
<1>7. ASSUME NEW q \in Procs, NEW i \in DOMAIN proc'[q].mem
      PROVE  proc'[q].mem[i] <= saved'
  <2>1. proc'[q].mem = proc[q].mem
    <3>1. proc'[q].mem = <<>> => DOMAIN proc'[q].mem = {}
      OBVIOUS
    <3> QED
      BY <1>2, <1>7, <3>1
  <2>2. proc[q].mem[i] <= saved
    BY <1>7, <2>1 DEF OrderParts, MemSaved
  <2>3. proc[q].mem[i] \in Nat
    BY <1>7, <2>1, MemTypes, LenProperties, ElementOfSeq
  <2> QED
    BY <1>3, <1>5, <2>1, <2>2, <2>3
<1>8. CurrentKept'
  <2> SUFFICES ASSUME NEW q \in Procs PROVE InOrder(file' \o proc'[q].mem) = saved'
    BY DEF CurrentKept
  <2>1. PICK f, y : f = file' /\ y = proc'[q].mem
    OBVIOUS
  <2>2. f \in Seq(Nat) /\ y \in Seq(Nat) /\ \A i \in DOMAIN y : y[i] <= InOrder(f)
    BY <1>5, <1>6, <1>7, <2>1
  <2>3. InOrder(f \o y) = InOrder(f)
    BY ONLY <2>2, InOrderKnown
  <2> QED
    BY <1>5, <2>1, <2>3
<1>9. FileKept' /\ MemSaved'
  BY <1>5, <1>7 DEF FileKept, MemSaved
<1>10. SourceUnsaved'
  <2>1. mode = "source" => \A q \in Procs : proc'[q].mem = <<>>
    BY <1>2 DEF OrderParts, SourceUnsaved
  <2> QED
    BY <1>5, <2>1 DEF SourceUnsaved
<1>11. ExecParents'
  <2>1. \A q \in Procs : At(q, "exec")' => IsShell(q)'
    BY DEF At, IsShell
  <2> QED
    BY <1>2, <2>1 DEF OrderParts, ExecParents, At
<1> QED
  BY <1>8, <1>9, <1>10, <1>11 DEF OrderParts

\* A source saves nothing, in whichever shell it ends.
LEMMA SourceOrder ==
  ASSUME TypeInv, ChainInv, OrderParts, mode' = mode, NEW p \in Procs, SourceDone(p)
  PROVE  OrderParts'
<1>1. /\ Children(p) = {} /\ proc \in [Procs -> Sound] /\ proc' = Ended(proc, {p}, 0)
      /\ mode = "source" /\ file' = file /\ saved' = saved
  BY DEF SourceDone, ChainInv, At, Exists, Leaf, TypeInv
<1>2. file = <<>> /\ saved = 0 /\ \A q \in Procs : proc[q].mem = <<>>
  BY <1>1 DEF OrderParts, SourceUnsaved
<1>3. \A q \in Procs :
        /\ proc'[q].mem = <<>>
        /\ IsShell(q)' => proc'[q].pc = proc[q].pc /\ proc'[q].parent = proc[q].parent
  <2>1. PICK D \in SUBSET Procs : D = {p} /\ \A q \in D : Children(q) = {}
    BY <1>1
  <2>2. \A q \in Procs :
          /\ proc'[q].mem \in {proc[q].mem, <<>>}
          /\ IsShell(q)' => proc'[q].pc = proc[q].pc /\ proc'[q].parent = proc[q].parent
    BY <1>1, <2>1, EndedShells
  <2> QED
    BY <1>2, <2>2
<1>4. InOrder(<<>>) = 0 /\ <<>> \o <<>> = <<>>
  BY InOrderNothing, EmptySeq, ConcatEmptySeq
<1>5. CurrentKept' /\ FileKept' /\ SourceUnsaved'
  BY <1>1, <1>2, <1>3, <1>4 DEF CurrentKept, FileKept, SourceUnsaved
<1>6. MemSaved'
  <2>1. \A q \in Procs : DOMAIN proc'[q].mem = {}
    BY <1>3
  <2> QED
    BY <2>1 DEF MemSaved
<1>7. ExecParents'
  <2>1. \A q \in Procs : At(q, "exec")' => IsShell(q)'
    BY DEF At, IsShell
  <2> QED
    BY <1>3, <2>1 DEF OrderParts, ExecParents, At
<1> QED
  BY <1>5, <1>6, <1>7 DEF OrderParts

\* fork(): the child remembers what its parent does.
LEMMA ForkUnsaved ==
  ASSUME TypeInv, ChainInv, OrderParts, NEW p \in Procs, Fork(p)
  PROVE  Unsaved
<1>1. PICK q \in Procs :
           /\ q # p /\ At(q, "free") /\ At(p, "eval")
           /\ \A x \in Procs : x \notin {p, q} => proc'[x] = proc[x]
           /\ proc'[p].pc = "wait" /\ proc'[p].parent = proc[p].parent
           /\ proc'[p].mem = proc[p].mem
           /\ proc'[q].pc = "exec" /\ proc'[q].parent = p /\ proc'[q].mem = proc[p].mem
  BY ForkShape
<1>2. file' = file /\ saved' = saved
  BY DEF Fork
<1>3. Leaf(p) /\ IsShell(p)
  BY <1>1 DEF ChainInv, Exists, IsShell, At
<1>4. Current(p)
  BY <1>3 DEF Leaf, Current
<1>5. ASSUME NEW x \in Procs, x \notin {p, q}, Current(x)'
      PROVE  Current(x) /\ proc'[x].mem = proc[x].mem
  <2>1. IsShell(x) /\ Children(x) \subseteq Children(x)'
    BY <1>1, <1>5 DEF Current, IsShell, Children, At
  <2>2. \A y \in Children(x) : y \in Procs /\ y # q
    BY <1>1 DEF Children
  <2>3. p \notin Children(x)
    BY <1>1, <1>5, <2>1 DEF Current
  <2> QED
    BY <1>1, <1>5, <2>1, <2>2, <2>3 DEF Current
<1>6. \A x \in Procs : Current(x)' => \E y \in Procs : Current(y) /\ proc'[x].mem = proc[y].mem
  BY <1>1, <1>4, <1>5
<1>7. IsShell(p)'
  BY <1>1 DEF IsShell
<1>8. \A x \in Procs : At(x, "exec")' => proc'[x].parent # 0
  <2>1. p # 0
    BY Numbers
  <2> QED
    BY <1>1, <2>1 DEF OrderParts, ExecParents, At
<1>9. \A x \in Procs : \E y \in Procs : proc'[x].mem \in {proc[y].mem, <<>>}
  BY <1>1
<1> QED
  BY <1>2, <1>6, <1>7, <1>8, <1>9 DEF Unsaved

\* execve(): the shell that waits for the program has all that the child had.
LEMMA ExecUnsaved ==
  ASSUME TypeInv, ChainInv, OrderParts, NEW q \in Procs, Exec(q)
  PROVE  Unsaved
<1>1. /\ At(q, "exec") /\ proc'[q].pc = "program" /\ proc'[q].parent = proc[q].parent
      /\ proc'[q].mem = <<>>
      /\ \A r \in Procs : r # q =>
           /\ proc'[r].pc = proc[r].pc /\ proc'[r].parent = proc[r].parent
           /\ proc'[r].mem = proc[r].mem
  BY ExecShape
<1>2. file' = file /\ saved' = saved
  BY DEF Exec
<1>3. \A r \in Procs : Children(r)' = Children(r)
  BY <1>1 DEF Children, At
<1>4. ASSUME NEW r \in Procs, Current(r)'
      PROVE  Current(r) /\ proc'[r].mem = proc[r].mem
  <2>1. r # q /\ IsShell(r)
    BY <1>1, <1>4 DEF Current, IsShell
  <2>2. \A x \in Children(r) : x \in Procs
    BY DEF Children
  <2> QED
    BY <1>1, <1>3, <1>4, <2>1, <2>2 DEF Current, At
<1>5. PICK p \in Procs : p = proc[q].parent /\ IsShell(p)'
  <2>1. proc[q].parent # 0
    BY <1>1 DEF OrderParts, ExecParents
  <2>2. PICK p \in Procs : p = proc[q].parent /\ proc[p].pc \in Living
    BY <2>1 DEF TypeInv, ParentsInv
  <2>3. q \in Children(p)
    BY <1>1, <2>2 DEF Children, At
  <2>4. At(p, "wait")
    BY <2>2, <2>3 DEF ChainInv, Leaf, Exists, At, Living
  <2>5. p # q
    BY <1>1, <2>4 DEF At
  <2> QED
    BY <1>1, <2>2, <2>4, <2>5 DEF IsShell, At
<1>6. \A r \in Procs : At(r, "exec")' => proc'[r].parent # 0
  BY <1>1 DEF OrderParts, ExecParents, At
<1> QED
  BY <1>1, <1>2, <1>4, <1>5, <1>6 DEF Unsaved

\* waitpid(): the zombie had nothing.
LEMMA WaitUnsaved ==
  ASSUME TypeInv, OrderParts, NEW p \in Procs, WaitReturns(p)
  PROVE  Unsaved
<1>1. PICK q \in Children(p) :
           /\ q # p /\ At(q, "zombie") /\ At(p, "wait") /\ proc'[q] = Free
           /\ \A x \in Procs : x \notin {p, q} => proc'[x] = proc[x]
           /\ proc'[p].pc \in {"eval", "ready"} /\ proc'[p].parent = proc[p].parent
           /\ proc'[p].mem = proc[p].mem
  BY WaitShape
<1>2. file' = file /\ saved' = saved
  BY DEF WaitReturns
<1>3. Free.pc = "free" /\ Free.mem = <<>>
  BY DEF Free
<1>4. ASSUME NEW r \in Procs, Current(r)'
      PROVE  Current(r) /\ proc'[r].mem = proc[r].mem
  <2>1. r # q /\ IsShell(r) /\ proc'[r].mem = proc[r].mem
    BY <1>1, <1>3, <1>4 DEF Current, IsShell, At
  <2>2. p \notin Children(r)
    <3>1. p \in Children(r) => p \in Children(r)'
      BY <1>1 DEF Children, At
    <3> QED
      BY <1>1, <1>4, <3>1 DEF Current
  <2>3. ASSUME NEW x \in Children(r)
        PROVE  proc[x].pc \in {"exec", "program", "zombie"}
    <3>1. CASE x = q
      BY <1>1, <3>1 DEF At
    <3>2. CASE x # q
      <4>1. x \in Procs /\ x \notin {p, q}
        BY <2>2, <2>3, <3>2 DEF Children
      <4>2. proc'[x] = proc[x] /\ x \in Children(r)'
        BY <1>1, <2>3, <4>1 DEF Children, At
      <4> QED
        BY <1>4, <4>2 DEF Current
    <3> QED
      BY <3>1, <3>2
  <2> QED
    BY <2>1, <2>3 DEF Current
<1>5. IsShell(p)'
  BY <1>1 DEF IsShell
<1>6. \A x \in Procs : proc'[x].mem \in {proc[x].mem, <<>>}
  BY <1>1, <1>3
<1>7. \A x \in Procs : At(x, "exec")' => proc'[x].parent # 0
  BY <1>1, <1>3 DEF OrderParts, ExecParents, At
<1> QED
  BY <1>2, <1>4, <1>5, <1>6, <1>7 DEF Unsaved

\* ctrl+c, where it ends no shell.
LEMMA SigintUnsaved ==
  ASSUME TypeInv, ChainInv, OrderParts, Sigint, clean'
  PROVE  Unsaved
<1>1. PICK K \in SUBSET {q \in Procs : At(q, "program")} :
        proc' = Ended(Signalled({}), K, 1)
  <2>1. PICK K \in SUBSET {q \in Procs : At(q, "program")} :
          LET shells == {p \in Alive : ~ At(p, "program")}
              killed == {p \in shells : ~ proc[p].armed}
          IN  /\ proc' = Ended([p \in Procs |-> IF p \in shells \ killed
                                                  THEN Caught(proc[p]) ELSE proc[p]],
                               K \cup killed, 1)
              /\ clean' = (clean /\ killed = {})
    BY DEF Sigint
  <2>2. {p \in {q \in Alive : ~ At(q, "program")} : ~ proc[p].armed} = {}
    BY <2>1
  <2>3. K \cup {} = K
    OBVIOUS
  <2> QED
    BY <2>1, <2>2, <2>3 DEF Signalled
<1>2. PICK t : t = Signalled({})
  OBVIOUS
<1>3. t \in [Procs -> Sound]
  BY <1>2, SignalledTypes
<1>4. \A q \in Procs : /\ t[q].pc = proc[q].pc /\ t[q].parent = proc[q].parent
                       /\ t[q].mem = proc[q].mem
  BY <1>2, SignalledFields
<1>5. K \in SUBSET Procs /\ \A q \in K : At(q, "program")
  OBVIOUS
<1>6. file' = file /\ saved' = saved
  BY DEF Sigint
<1> QED
  BY <1>1, <1>2, <1>3, <1>4, <1>5, <1>6, ProgramsUnsaved

LEMMA ProgramEndsUnsaved ==
  ASSUME TypeInv, ChainInv, OrderParts, NEW p \in Procs, ProgramEnds(p)
  PROVE  Unsaved
<1>1. PICK s \in {0, 1} : proc' = Ended(proc, {p}, s)
  BY DEF ProgramEnds
<1>2. PICK D \in SUBSET Procs : D = {p} /\ \A q \in D : At(q, "program")
  BY DEF ProgramEnds
<1>3. proc \in [Procs -> Sound] /\ file' = file /\ saved' = saved
  BY DEF TypeInv, ProgramEnds
<1> QED
  BY <1>1, <1>2, <1>3, ProgramsUnsaved

\* prompt(), a line that is dropped and what fails leave the history alone.
LEMMA PromptUnsaved ==
  ASSUME TypeInv, OrderParts, NEW p \in Procs,
         \/ PromptStart(p) \/ PromptAhead(p) \/ PromptEOF(p) \/ SkipLine(p) \/ Rearm(p)
         \/ \E line \in Typed : PromptLine(p, line)
  PROVE  Unsaved
<1>1. Moves(p)
  BY LineMoves, LoopMoves
<1>2. proc[p] \in Process /\ proc \in [Procs -> Sound]
  BY DEF TypeInv, Sound
<1>3. file' = file /\ saved' = saved
  BY DEF PromptStart, PromptAhead, PromptEOF, PromptLine, PromptReturns, SkipLine,
         Rearm
<1>4. proc'[p].mem = proc[p].mem /\ proc'[p].pc # "exec"
  <2>1. CASE PromptStart(p)
    <3>1. proc' = [proc EXCEPT ![p] = [proc[p] EXCEPT !.pc = "prompt", !.orig = term]]
      BY <2>1 DEF PromptStart
    <3> QED
      BY <1>2, <3>1 DEF Process
  <2>2. CASE SkipLine(p)
    <3>1. proc' = [proc EXCEPT ![p] = [proc[p] EXCEPT
                     !.pc = "skip", !.flag = FALSE, !.line = Blank]]
      BY <2>2 DEF SkipLine
    <3> QED
      BY <1>2, <3>1 DEF Process
  <2>3. ASSUME NEW line, NEW ahead, PromptReturns(p, line, ahead)
        PROVE  proc'[p].mem = proc[p].mem /\ proc'[p].pc # "exec"
    <3>1. proc' = [proc EXCEPT ![p] = [proc[p] EXCEPT
                     !.pc = "got", !.line = line, !.ahead = ahead,
                     !.eintr = FALSE, !.orig = "cooked"]]
      BY <2>3 DEF PromptReturns
    <3> QED
      BY <1>2, <3>1 DEF Process
  <2>4. CASE Rearm(p)
    <3>1. proc' = [proc EXCEPT ![p] = [proc[p] EXCEPT !.pc = "ready", !.armed = TRUE]]
      BY <2>4 DEF Rearm
    <3> QED
      BY <1>2, <3>1 DEF Process
  <2> QED
    BY <2>1, <2>2, <2>3, <2>4 DEF PromptAhead, PromptEOF, PromptLine
<1> QED
  BY <1>1, <1>3, <1>4, MovesUnsaved

LEMMA FailUnsaved ==
  ASSUME TypeInv, OrderParts, NEW p \in Procs, ForkFails(p) \/ ExecFails(p) \/ WaitFails(p)
  PROVE  Unsaved
<1>1. Moves(p) /\ proc[p] \in Sound /\ proc \in [Procs -> Sound]
  BY FailMoves DEF TypeInv
<1>2. file' = file /\ saved' = saved
  BY DEF ForkFails, ExecFails, WaitFails
<1>3. CASE ForkFails(p) \/ ExecFails(p)
  <2>1. PICK r : r = WaitFor(proc[p], 0) /\ proc'[p] = r
    BY <1>1, <1>3 DEF ForkFails, ExecFails
  <2>2. r.pc = "wait" /\ r.mem = proc[p].mem
    BY <1>1, <2>1, Numbers, WaitForFields
  <2> QED
    BY <1>1, <1>2, <2>1, <2>2, MovesUnsaved
<1>4. CASE WaitFails(p)
  <2>1. \E c \in {0, 1} : proc'[p] = Evaluated(proc[p], c)
    BY <1>1, <1>4 DEF WaitFails
  <2>2. proc'[p].pc \in {"eval", "ready"} /\ proc'[p].mem = proc[p].mem
    BY <1>1, <2>1, EvaluatedFields
  <2> QED
    BY <1>1, <1>2, <2>2, MovesUnsaved
<1> QED
  BY <1>3, <1>4

\* The empty line and one with a command.
LEMMA LineOrder ==
  ASSUME TypeInv, ChainInv, OrderParts, mode' = mode, NEW p \in Procs,
         EmptyLine(p) \/ Interpret(p)
  PROVE  OrderParts'
<1>1. Moves(p)
  BY LoopMoves
<1>2. proc[p] \in Process /\ proc \in [Procs -> Sound]
  BY DEF TypeInv, Sound
<1>3. CASE EmptyLine(p)
  <2>1. proc' = [proc EXCEPT ![p] = [proc[p] EXCEPT !.pc = "ready", !.mem = Remembered(p)]]
    BY <1>3 DEF EmptyLine
  <2>2. proc'[p].pc # "exec" /\ proc'[p].mem = Remembered(p)
    BY <1>2, <2>1 DEF Process
  <2>3. Save(p, "blank") /\ file' = file
    BY <1>3 DEF EmptyLine
  <2> QED
    BY <1>1, <2>2, <2>3, SaveOrder
<1>4. CASE Interpret(p)
  <2>1. proc' = [proc EXCEPT ![p] = [proc[p] EXCEPT
                   !.pc = "eval", !.mem = Remembered(p),
                   !.todo = Head(proc[p].line.stmts), !.rest = Tail(proc[p].line.stmts),
                   !.line = Blank]]
    BY <1>4 DEF Interpret
  <2>2. proc'[p].pc # "exec" /\ proc'[p].mem = Remembered(p)
    BY <1>2, <2>1 DEF Process
  <2>3. Save(p, "run") /\ file' = file
    BY <1>4 DEF Interpret
  <2> QED
    BY <1>1, <2>2, <2>3, SaveOrder
<1> QED
  BY <1>3, <1>4

\* Nothing happens in the table.
LEMMA StillOrder ==
  ASSUME OrderParts, mode' = mode, UNCHANGED <<proc, file, saved>>
  PROVE  OrderParts'
<1>1. proc' = proc /\ file' = file /\ saved' = saved
  OBVIOUS
<1>2. \A p \in Procs : Current(p)' => Current(p)
  BY <1>1 DEF IsShell, Children, At, Current
<1>3. (\A p \in Procs : ~ IsShell(p)') => \A p \in Procs : ~ IsShell(p)
  BY <1>1 DEF IsShell
<1>4. \A p \in Procs : At(p, "exec")' => proc'[p].parent # 0
  BY <1>1 DEF OrderParts, ExecParents, At
<1>5. Unsaved
  BY <1>1, <1>2, <1>3, <1>4 DEF Unsaved
<1> QED
  BY <1>5, UnsavedOrder

\* A shell that was lost is not found again.
LEMMA CleanKept == [Next]_vars /\ clean' => clean
<1> SUFFICES ASSUME [Next]_vars, clean' PROVE clean
  OBVIOUS
<1>1. CASE UNCHANGED vars \/ InputEnds
  BY <1>1 DEF vars, InputEnds
<1>2. CASE Sigint
  BY <1>2 DEF Sigint
<1>3. ASSUME NEW p \in Procs,
             \/ Own(p) \/ ProgramEnds(p) \/ Crash(p)
             \/ \E line \in Typed : PromptLine(p, line)
      PROVE  clean' = clean
  BY <1>3 DEF Own, Calls, ProgramEnds, PromptLine, PromptStart, PromptAhead, PromptEOF,
     PromptReturns, SkipLine, Rearm, SaveFull, Crash, EmptyLine, Leave, ParseError, Interpret,
     SourceDone,
     EmptyCommand, Fork, ForkFails, Exec, ExecFails, WaitReturns, WaitFails
<1> QED
  BY <1>1, <1>2, <1>3 DEF Next

LEMMA StepOrder == TypeInv /\ BSDInv /\ OrderInv /\ [Next]_vars => OrderInv'
<1> SUFFICES ASSUME TypeInv, BSDInv, OrderInv, [Next]_vars, restart', clean'
             PROVE  OrderParts'
  BY DEF OrderInv
<1>1. restart /\ mode' = mode /\ clean
  BY UseKept, CleanKept DEF use
<1>2. ChainInv /\ OrderParts
  BY <1>1 DEF BSDInv, OrderInv
<1>3. CASE UNCHANGED vars \/ InputEnds
  BY <1>1, <1>2, <1>3, StillOrder DEF vars, InputEnds
<1>4. CASE Sigint
  BY <1>1, <1>2, <1>4, SigintUnsaved, UnsavedOrder
<1>5. ASSUME NEW p \in Procs,
             \/ Own(p) \/ ProgramEnds(p) \/ Crash(p)
             \/ \E line \in Typed : PromptLine(p, line)
      PROVE  OrderParts'
  <2>1. ~ (SaveFull(p) \/ Crash(p) \/ ParseError(p) \/ EmptyCommand(p))
    BY DEF SaveFull, Crash, ParseError, EmptyCommand
  <2>2. CASE \/ PromptStart(p) \/ PromptAhead(p) \/ PromptEOF(p)
             \/ SkipLine(p) \/ Rearm(p)
             \/ \E line \in Typed : PromptLine(p, line)
    BY <1>1, <1>2, <2>2, PromptUnsaved, UnsavedOrder
  <2>3. CASE EmptyLine(p) \/ Interpret(p)
    BY <1>1, <1>2, <2>3, LineOrder
  <2>4. CASE Leave(p)
    BY <1>1, <1>2, <2>4, LeaveOrder
  <2>5. CASE SourceDone(p)
    BY <1>1, <1>2, <2>5, SourceOrder
  <2>6. CASE ForkFails(p) \/ ExecFails(p) \/ WaitFails(p)
    BY <1>1, <1>2, <2>6, FailUnsaved, UnsavedOrder
  <2>7. CASE Fork(p)
    BY <1>1, <1>2, <2>7, ForkUnsaved, UnsavedOrder
  <2>8. CASE Exec(p)
    BY <1>1, <1>2, <2>8, ExecUnsaved, UnsavedOrder
  <2>9. CASE WaitReturns(p)
    BY <1>1, <1>2, <2>9, WaitUnsaved, UnsavedOrder
  <2>10. CASE ProgramEnds(p)
    BY <1>1, <1>2, <2>10, ProgramEndsUnsaved, UnsavedOrder
  <2> QED
    BY <1>5, <2>1, <2>2, <2>3, <2>4, <2>5, <2>6, <2>7, <2>8, <2>9, <2>10 DEF Own, Calls
<1> QED
  BY <1>3, <1>4, <1>5 DEF Next

LEMMA InitOrder == Init => OrderInv
<1> SUFFICES ASSUME Init PROVE OrderParts
  BY DEF OrderInv
<1>1. PICK first : /\ proc = [p \in Procs |-> IF p = 1 THEN first ELSE Free]
                   /\ \/ \E l \in Typed : first = [Free EXCEPT !.pc = "got", !.line = l]
                      \/ first = [Free EXCEPT !.pc = "ready", !.armed = TRUE]
  BY DEF Init
<1>2. first.pc \in {"got", "ready"} /\ first.mem = <<>>
  BY <1>1 DEF Free
<1>3. Free.pc = "free" /\ Free.mem = <<>>
  BY DEF Free
<1>4. \A p \in Procs : proc[p].mem = <<>> /\ proc[p].pc # "exec"
  BY <1>1, <1>2, <1>3
<1>5. file = <<>> /\ saved = 0
  BY DEF Init
<1>6. InOrder(<<>>) = 0 /\ <<>> \o <<>> = <<>>
  BY InOrderNothing, EmptySeq, ConcatEmptySeq
<1>7. CurrentKept /\ FileKept /\ SourceUnsaved /\ ExecParents
  BY <1>4, <1>5, <1>6 DEF CurrentKept, FileKept, SourceUnsaved, ExecParents, At
<1>8. MemSaved
  <2>1. \A p \in Procs : DOMAIN proc[p].mem = {}
    BY <1>4
  <2> QED
    BY <2>1 DEF MemSaved
<1> QED
  BY <1>7, <1>8 DEF OrderParts

\* Where waitpid() is restarted, every line is in the history file and in the
\* order in which it was taken, once all shells have left through "exit":
\* though a shell that a failed execve() has left writes again what its parent
\* remembers too, and each of them only appends when it leaves.
THEOREM OrderKept == Spec => []TypedOrderKept
<1>1. TypeInv /\ OrderInv => TypedOrderKept
  <2> SUFFICES ASSUME OrderInv, restart, clean, \A p \in Procs : At(p, "free")
               PROVE  InOrder(file) = saved
    BY DEF TypedOrderKept
  <2>1. \A p \in Procs : ~ IsShell(p)
    BY DEF IsShell, At
  <2> QED
    BY <2>1 DEF OrderInv, OrderParts, FileKept
<1>2. ShellInv /\ OrderInv /\ [Next]_vars => OrderInv'
  BY StepOrder DEF ShellInv
<1>3. ShellInv => TypeInv
  BY DEF ShellInv
<1>4. Spec => []OrderInv
  BY <1>2, InitOrder, ShellInvariant, PTL DEF Spec
<1> QED
  BY <1>1, <1>3, <1>4, ShellInvariant, PTL
=============================================================================
