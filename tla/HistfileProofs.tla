--------------------------- MODULE HistfileProofs ---------------------------
(***************************************************************************)
(* Theorems about Histfile, for every value of its constants.              *)
(***************************************************************************)
EXTENDS Histfile, FiniteSetTheorems, WellFoundedInduction, TLAPS

-----------------------------------------------------------------------------
(* Lemmas about numbers and texts.                                         *)

\* Every nonempty set of natural numbers has a least element.
LEMMA LeastNumber ==
  ASSUME NEW S \in SUBSET Nat, S # {}
  PROVE  \E m \in S : \A k \in S : m <= k
<1>1. IsWellFoundedOn(OpToRel(<, Nat), Nat)
  BY NatLessThanWellFounded
<1>2. \E m \in S : \A k \in S : <<k, m>> \notin OpToRel(<, Nat)
  BY <1>1, WFMin
<1>3. \E m \in S : \A k \in S : ~ (k < m)
  BY <1>2 DEF OpToRel
<1> QED BY <1>3

\* Min picks the least element of a nonempty set of natural numbers.
LEMMA MinIsLeast ==
  ASSUME NEW S \in SUBSET Nat, S # {}
  PROVE  Min(S) \in S /\ \A k \in S : Min(S) <= k
BY LeastNumber DEF Min

\* The newlines of a text are finitely many.
LEMMA NewLinesFinite ==
  ASSUME NEW t \in Text
  PROVE  IsFiniteSet(t.nl) /\ Cardinality(t.nl) \in Nat
<1>1. t.nl \in SUBSET Nat /\ t.size \in Nat /\ \A q \in t.nl : q <= t.size
  BY DEF Text
<1>2. IsFiniteSet(t.nl)
  BY <1>1, FS_BoundedSetOfNaturals
<1> QED BY <1>2, FS_CardinalityType

LEMMA SizeType ==
  ASSUME NEW t \in Text
  PROVE  t.size \in Nat
BY DEF Text

\* The operators that build texts build texts.
LEMMA TextsAreTexts ==
  /\ \A n \in Nat : Plain(n) \in Text /\ LineOf(n) \in Text
  /\ Empty \in Text /\ NewLine \in Text
BY DEF Plain, LineOf, Empty, NewLine, Text

LEMMA CatType ==
  ASSUME NEW a \in Text, NEW b \in Text
  PROVE  Cat(a, b) \in Text
BY DEF Cat, Text

LEMMA EntryType ==
  ASSUME NEW t \in Text
  PROVE  Entry(t) \in Text
BY CatType, TextsAreTexts DEF Entry

LEMMA FirstRestType ==
  ASSUME NEW t \in Text, NEW n \in 0 .. t.size
  PROVE  First(t, n) \in Text /\ Rest(t, n) \in Text
<1>1. t.size \in Nat /\ t.nl \subseteq Nat /\ \A q \in t.nl : q < t.size
  BY DEF Text
<1>2. n \in Nat /\ t.size - n \in Nat
  BY <1>1
<1>3. {q \in t.nl : q < n} \in SUBSET Nat
  BY <1>1
<1>4. {q - n : q \in {x \in t.nl : x >= n}} \in SUBSET Nat
      /\ \A q \in {q - n : q \in {x \in t.nl : x >= n}} : q < t.size - n
  BY <1>1, <1>2
<1> QED BY <1>1, <1>2, <1>3, <1>4 DEF First, Rest, Text

LEMMA ChopType ==
  ASSUME NEW t \in Text, t.size # 0
  PROVE  Chop(t) \in Text
<1>1. t.size - 1 \in 0 .. t.size
  BY DEF Text
<1> QED BY <1>1, FirstRestType DEF Chop

\* A command in a slot is a text; it is empty only if the line was.
LEMMA CopiedLineType ==
  ASSUME NEW t \in Text, NEW s \in CopiedLine(t)
  PROVE  s \in Text /\ (t.size # 0 => s.size # 0)
<1>1. CASE t.size < MaxLine
  BY <1>1 DEF CopiedLine
<1>2. CASE ~ (t.size < MaxLine)
  <2>1. MaxLine \in 0 .. t.size /\ MaxLine # 0
    BY <1>2, SizeType, HistfileAssumption
  <2>2. PICK j \in Junk : s = Cat(First(t, MaxLine), j)
    BY <1>2 DEF CopiedLine
  <2>3. j \in Text /\ First(t, MaxLine) \in Text
    BY <2>1, FirstRestType, HistfileAssumption
  <2>4. s.size = MaxLine + j.size
    BY <2>2 DEF Cat, First
  <2>5. s \in Text
    BY <2>2, <2>3, CatType
  <2>6. s.size # 0
    BY <2>1, <2>3, <2>4, SizeType
  <2> QED BY <2>5, <2>6
<1> QED BY <1>1, <1>2

\* Texts are equal when their sizes and their newlines are.
LEMMA TextEqual ==
  ASSUME NEW a \in Text, NEW b \in Text, a.size = b.size, a.nl = b.nl
  PROVE  a = b
BY DEF Text

\* It does not matter where a text is cut before its parts are appended.
LEMMA CatAssociative ==
  ASSUME NEW a \in Text, NEW b \in Text, NEW c \in Text
  PROVE  Cat(Cat(a, b), c) = Cat(a, Cat(b, c))
<1> DEFINE l == Cat(Cat(a, b), c)
           r == Cat(a, Cat(b, c))
<1>1. a.size \in Nat /\ b.size \in Nat /\ c.size \in Nat
      /\ a.nl \subseteq Nat /\ b.nl \subseteq Nat /\ c.nl \subseteq Nat
  BY DEF Text
<1>2. l \in Text /\ r \in Text
  BY CatType
<1>3. l.size = r.size
  BY <1>1 DEF Cat
<1>4. ASSUME NEW q \in c.nl
      PROVE  (a.size + b.size) + q = a.size + (b.size + q)
  BY <1>1
<1>5. /\ l.nl = (a.nl \cup {a.size + q : q \in b.nl})
                 \cup {(a.size + b.size) + q : q \in c.nl}
      /\ r.nl = a.nl \cup {a.size + q : q \in b.nl \cup {b.size + x : x \in c.nl}}
  BY DEF Cat
<1>6. {a.size + q : q \in b.nl \cup {b.size + x : x \in c.nl}}
       = {a.size + q : q \in b.nl} \cup {a.size + (b.size + q) : q \in c.nl}
  OBVIOUS
<1>7. {(a.size + b.size) + q : q \in c.nl} = {a.size + (b.size + q) : q \in c.nl}
  BY <1>4
<1>8. l.nl = r.nl
  BY <1>5, <1>6, <1>7
<1> QED BY <1>2, <1>3, <1>8, TextEqual

\* The two parts of a text make up the text.
LEMMA FirstThenRest ==
  ASSUME NEW t \in Text, NEW n \in 0 .. t.size
  PROVE  Cat(First(t, n), Rest(t, n)) = t
<1> DEFINE c == Cat(First(t, n), Rest(t, n))
<1>1. t.size \in Nat /\ t.nl \subseteq Nat /\ n \in Nat
  BY DEF Text
<1>2. c \in Text
  BY FirstRestType, CatType
<1>3. c.size = t.size
  BY <1>1 DEF Cat, First, Rest
<1>4. c.nl = {q \in t.nl : q < n}
             \cup {n + q : q \in {x - n : x \in {y \in t.nl : y >= n}}}
  BY DEF Cat, First, Rest
<1>5. {n + q : q \in {x - n : x \in {y \in t.nl : y >= n}}} = {y \in t.nl : y >= n}
  <2>1. ASSUME NEW y \in t.nl PROVE n + (y - n) = y
    BY <1>1
  <2>2. {n + q : q \in {x - n : x \in {y \in t.nl : y >= n}}}
         = {n + (x - n) : x \in {y \in t.nl : y >= n}}
    OBVIOUS
  <2> QED BY <2>1, <2>2
<1>6. \A q \in t.nl : q < n \/ q >= n
  BY <1>1
<1>7. c.nl = t.nl
  BY <1>4, <1>5, <1>6
<1> QED BY <1>2, <1>3, <1>7, TextEqual

\* Appending keeps what is there.
LEMMA CatPrefix ==
  ASSUME NEW a \in Text, NEW b \in Text
  PROVE  IsPrefixOf(a, a) /\ IsPrefixOf(a, Cat(a, b))
BY DEF IsPrefixOf, Cat, Text

LEMMA CatEmpty ==
  ASSUME NEW a \in Text
  PROVE  Cat(a, Empty) = a
<1>1. Cat(a, Empty) \in Text
  BY CatType, TextsAreTexts
<1>2. Cat(a, Empty).size = a.size /\ Cat(a, Empty).nl = a.nl
  BY DEF Cat, Empty, Plain, Text
<1> QED BY <1>1, <1>2, TextEqual

LEMMA PrefixTransitive ==
  ASSUME NEW a \in Text, NEW b \in Text, NEW c \in Text,
         IsPrefixOf(a, b), IsPrefixOf(b, c)
  PROVE  IsPrefixOf(a, c)
BY DEF IsPrefixOf, Text

LEMMA PrefixCat ==
  ASSUME NEW a \in Text, NEW b \in Text, NEW c \in Text, IsPrefixOf(b, c)
  PROVE  IsPrefixOf(Cat(a, b), Cat(a, c))
<1>1. a.size \in Nat /\ b.size \in Nat /\ c.size \in Nat /\ b.size <= c.size
      /\ a.nl \subseteq Nat /\ b.nl \subseteq Nat /\ c.nl \subseteq Nat
      /\ (\A q \in a.nl : q < a.size) /\ b.nl = {q \in c.nl : q < b.size}
  BY DEF Text, IsPrefixOf
<1>2. a.nl \cup {a.size + q : q \in b.nl}
       = {q \in a.nl \cup {a.size + x : x \in c.nl} : q < a.size + b.size}
  BY <1>1
<1> QED BY <1>1, <1>2 DEF IsPrefixOf, Cat

\* A line that starts inside a text ends behind its start, inside the text; so
\* fgets() reads at least one character of it.
LEMMA LineEndBounds ==
  ASSUME NEW t \in Text, NEW o \in Nat, o < t.size
  PROVE  LineEnd(t, o) \in o + 1 .. t.size
<1> DEFINE ahead == {q \in t.nl : q >= o}
<1>1. ahead \in SUBSET Nat /\ \A q \in ahead : q >= o /\ q < t.size
  BY DEF Text
<1>2. CASE ahead = {}
  BY <1>2 DEF LineEnd, Text
<1>3. CASE ahead # {}
  <2>1. Min(ahead) \in ahead
    BY <1>1, <1>3, MinIsLeast
  <2>2. LineEnd(t, o) = Min(ahead) + 1
    BY <1>3 DEF LineEnd
  <2> QED BY <1>1, <2>1, <2>2 DEF Text
<1> QED BY <1>2, <1>3

LEMMA FgetsLenType ==
  ASSUME NEW t \in Text, NEW o \in Nat, o < t.size
  PROVE  FgetsLen(t, o) \in Nat \ {0}
<1>1. LineEnd(t, o) - o \in Nat \ {0}
  BY LineEndBounds DEF Text
<1> QED BY <1>1, HistfileAssumption DEF FgetsLen

-----------------------------------------------------------------------------
(* Type correctness.                                                       *)

\* A saved text is appended to the saved ones.
LEMMA AppendText ==
  ASSUME NEW s \in Seq(Text), NEW t \in Text
  PROVE  /\ Append(s, t) \in Seq(Text)
         /\ Len(Append(s, t)) = Len(s) + 1
         /\ \A i \in 1 .. Len(s) : Append(s, t)[i] = s[i]
         /\ Append(s, t)[Len(s) + 1] = t
OBVIOUS

\* Whatever enter submits is a text.
LEMMA SubmittedType ==
  ASSUME TypeOK
  PROVE  Submitted \subseteq Text
BY CatType, TextsAreTexts, HistfileAssumption DEF TypeOK, Submitted

\* What the saved commands amount to is a text.
LEMMA JournalType ==
  ASSUME TypeOK
  PROVE  /\ Len(journal) \in 1 .. Len(journal)
         /\ journal[Len(journal)] \in Text
BY DEF TypeOK

\* fputs() loses nothing: what is in the file and in the buffer afterwards is
\* what was there before and the new text behind it.  As long as the buffer holds
\* it all, nothing is written.
LEMMA FputsWrites ==
  ASSUME file \in Text, out \in Text, NEW t \in Text, Fputs(t)
  PROVE  /\ file' \in Text /\ out' \in Text
         /\ Cat(file', out') = Cat(Cat(file, out), t)
         /\ IsPrefixOf(file, file')
         /\ out.size + t.size <= BufSize => file' = file /\ out' = Cat(out, t)
<1> DEFINE all == Cat(out, t)
<1>1. all \in Text /\ all.size = out.size + t.size /\ all.size \in Nat
  BY CatType, SizeType DEF Cat
<1>2. Cat(file, all) = Cat(Cat(file, out), t)
  BY CatAssociative
<1>3. CASE all.size <= BufSize
  <2>1. out' = all /\ file' = file
    BY <1>3 DEF Fputs
  <2> QED BY <1>1, <1>2, <2>1, CatPrefix
<1>4. CASE ~ (all.size <= BufSize)
  <2>1. PICK n \in all.size - BufSize .. all.size :
          file' = Cat(file, First(all, n)) /\ out' = Rest(all, n)
    BY <1>4 DEF Fputs
  <2>2. n \in 0 .. all.size
    BY <1>1, <1>4, <2>1, HistfileAssumption
  <2>3. First(all, n) \in Text /\ Rest(all, n) \in Text
    BY <1>1, <2>2, FirstRestType
  <2>4. Cat(file', out') = Cat(file, Cat(First(all, n), Rest(all, n)))
    BY <2>1, <2>3, CatAssociative
  <2>5. Cat(file', out') = Cat(file, all)
    BY <1>1, <2>2, <2>4, FirstThenRest
  <2>6. IsPrefixOf(file, file') /\ file' \in Text
    BY <2>1, <2>3, CatPrefix, CatType
  <2> QED BY <1>1, <1>2, <1>4, <2>1, <2>3, <2>5, <2>6
<1> QED BY <1>3, <1>4

LEMMA InitTypeOK == Init => TypeOK
<1> SUFFICES ASSUME Init PROVE TypeOK
  OBVIOUS
<1>1. <<Empty>> \in Seq(Text) /\ Len(<<Empty>>) = 1
  BY TextsAreTexts
<1>2. buf \in [src : {"none", "file", "memory", "slot", "stale"},
              at : Nat, text : Text]
  BY TextsAreTexts DEF Init
<1>3. file \in Text
  BY HistfileAssumption DEF Init
<1>4. stored \in Seq(Text) /\ Len(stored) = 0
  BY DEF Init
<1>5. journal \in Seq(Text) /\ Len(journal) = Len(stored) + 1
  BY <1>1, <1>4 DEF Init
<1>6. phase = "off" /\ base = file /\ out = Empty
      /\ fp = 0 /\ pos = 0 /\ f_len = 0 /\ f_chars = 0 /\ dir = HIST_UP
      /\ seek = 0 /\ wi = 0 /\ sessions = 0
  BY DEF Init
<1>7. crossed \in BOOLEAN
  BY Zenon DEF Init
<1>8. MaxCommands \in Nat /\ Empty \in Text
  BY TextsAreTexts, HistfileAssumption
<1> QED BY <1>2, <1>3, <1>4, <1>5, <1>6, <1>7, <1>8
        DEF TypeOK, Writing, Phases, Faults

LEMMA NextTypeOK == TypeOK /\ [Next]_vars => TypeOK'
<1> SUFFICES ASSUME TypeOK, [Next]_vars PROVE TypeOK'
  OBVIOUS
<1> USE HistfileAssumption, TextsAreTexts
        DEF Phases, Faults, Writing, scan, counts, write, session, LineLeft
<1>1. CASE HistMalloc
  <2>1. Cardinality(file.nl) \in Nat /\ file.size \in Nat
    BY NewLinesFinite DEF TypeOK, Text
  <2> QED BY <1>1, <2>1
      DEF TypeOK, HistMalloc, StartSession, CountLines, CountChars, Decr
<1>2. CASE HistMallocNoFile
  BY <1>2 DEF TypeOK, HistMallocNoFile, StartSession
<1>3. CASE HistResetPos
  <2>1. buf' \in [src : {"none", "file", "memory", "slot", "stale"},
                 at : Nat, text : Text]
    BY <1>3 DEF TypeOK, HistResetPos
  <2>2. fp' \in Nat /\ pos' \in Nat
    BY <1>3, SizeType, SMTT(20) DEF TypeOK, HistResetPos
  <2> QED BY <1>3, <2>1, <2>2 DEF TypeOK, HistResetPos
<1>4. CASE HistResetPosNoFile
  BY <1>4 DEF TypeOK, HistResetPosNoFile
<1>5. ASSUME NEW key \in Keys, ReadFromMemory(key) PROVE TypeOK'
  <2>1. Moved(key) \in Nat /\ Moved(key) - f_len \in Nat
    BY <1>5 DEF TypeOK, ReadFromMemory, OutOfBounds, Moved, Decr
  <2>2. ASSUME Moved(key) - f_len < Len(stored),
               NEW t \in CopiedLine(stored[Moved(key) - f_len + 1])
        PROVE  t \in Text
    BY <2>1, <2>2, CopiedLineType DEF TypeOK
  <2>3. buf' \in [src : {"none", "file", "memory", "slot", "stale"},
                 at : Nat, text : Text]
    BY <1>5, <2>1, <2>2 DEF TypeOK, ReadFromMemory
  <2> QED BY <1>5, <2>1, <2>3 DEF TypeOK, ReadFromMemory
<1>6. ASSUME NEW key \in Keys, StartScan(key) PROVE TypeOK'
  BY <1>6 DEF TypeOK, StartScan, OutOfBounds, Moved, Decr
<1>7. CASE Scan
  BY <1>7 DEF TypeOK, Scan, ScanHit, ScanUp, ScanDown, AfterGetc
<1>8. CASE ReadLine
  <2> USE DEF NoScan
  <2>1. CASE fp < file.size
    <3>1. Plain(FgetsLen(file, fp) - 1) \in Text
      BY <2>1, FgetsLenType DEF TypeOK
    <3>2. fp \in Nat /\ file.size \in Nat /\ ~ (fp >= file.size)
      BY <2>1, SizeType DEF TypeOK
    <3>3. buf' \in [src : {"none", "file", "memory", "slot", "stale"},
                   at : Nat, text : Text] /\ phase' = "browse"
      BY <1>8, <3>1, <3>2 DEF TypeOK, ReadLine
    <3> QED BY <1>8, <3>3 DEF TypeOK, ReadLine
  <2>2. CASE fp >= file.size
    <3>1. buf.text.size # 0 => Chop(buf.text) \in Text
      BY ChopType DEF TypeOK
    <3>2. fp \in Nat /\ file.size \in Nat /\ ~ (fp < file.size)
      BY <2>2, SizeType DEF TypeOK
    <3>3. buf' \in [src : {"none", "file", "memory", "slot", "stale"},
                   at : Nat, text : Text] /\ phase' \in Phases \ {"flushing", "exiting"}
      BY <1>8, <3>1, <3>2 DEF TypeOK, ReadLine
    <3> QED BY <1>8, <3>3 DEF TypeOK, ReadLine
  <2>3. fp \in Nat /\ file.size \in Nat
    BY SizeType DEF TypeOK
  <2> QED BY <2>1, <2>2, <2>3
<1>9. ASSUME NEW t \in Submitted, Interrupted(t) PROVE TypeOK'
  BY <1>9, SubmittedType DEF TypeOK, Interrupted
<1>10. ASSUME NEW t \in Submitted, HistSave(t) PROVE TypeOK'
  <2>1. t \in Text
    BY SubmittedType
  <2>2. PICK s \in CopiedLine(t) :
          /\ stored' = Append(stored, s)
          /\ journal' = Append(journal, Cat(journal[Len(journal)], Entry(s)))
    BY <1>10 DEF HistSave
  <2>3. s \in Text
    BY <2>1, CopiedLineType
  <2>4. Cat(journal[Len(journal)], Entry(s)) \in Text
    BY <2>3, JournalType, CatType, EntryType
  <2>5. stored' \in Seq(Text) /\ Len(stored') = Len(stored) + 1
    BY <2>2, <2>3, AppendText DEF TypeOK
  <2>6. journal' \in Seq(Text) /\ Len(journal') = Len(journal) + 1
    BY <2>2, <2>4, AppendText DEF TypeOK
  <2> QED BY <1>10, <2>1, <2>5, <2>6 DEF TypeOK, HistSave
<1>11. ASSUME NEW t \in Submitted, HistSaveFull(t) PROVE TypeOK'
  BY <1>11, SubmittedType DEF TypeOK, HistSaveFull
<1>12. CASE NextPrompt
  BY <1>12 DEF TypeOK, NextPrompt
<1>13. CASE Exit
  BY <1>13 DEF TypeOK, Exit
<1>14. CASE HistWriteCommand
  <2>1. wi + 1 \in 1 .. Len(stored) /\ stored[wi + 1] \in Text
    BY <1>14 DEF TypeOK, HistWriteCommand
  <2>2. file' \in Text /\ out' \in Text
    <3>1. Entry(stored[wi + 1]) \in Text
      BY <2>1, EntryType
    <3>2. ASSUME Fputs(Entry(stored[wi + 1])) PROVE file' \in Text /\ out' \in Text
      BY <3>1, <3>2, FputsWrites DEF TypeOK
    <3> QED BY <1>14, <3>2 DEF TypeOK, HistWriteCommand
  <2> QED BY <1>14, <2>1, <2>2 DEF TypeOK, HistWriteCommand
<1>15. CASE HistWriteEnd
  <2>1. Cat(file, out) \in Text /\ file.size + out.size \in Nat
    BY CatType, SizeType DEF TypeOK
  <2> QED BY <1>15, <2>1 DEF TypeOK, HistWriteEnd, WriteEnds
<1>16. CASE Killed
  <2>1. buf' \in [src : {"none", "file", "memory", "slot", "stale"},
                 at : Nat, text : Text]
    BY <1>16 DEF Killed
  <2> QED BY <1>16, <2>1 DEF TypeOK, Killed, NoScan
<1>17. CASE UNCHANGED vars
  BY <1>17 DEF TypeOK, vars
<1> QED BY <1>1, <1>2, <1>3, <1>4, <1>5, <1>6, <1>7, <1>8, <1>9, <1>10, <1>11,
           <1>12, <1>13, <1>14, <1>15, <1>16, <1>17 DEF Next

\* Every reachable state of the history is well typed; in particular hist_write()
\* never reads, and hist_save() never fills, a slot that does not exist.
THEOREM TypeCorrect == Spec => []TypeOK
BY InitTypeOK, NextTypeOK, PTL DEF Spec

-----------------------------------------------------------------------------
(* The history file only grows, and by whole sessions.                     *)

LEMMA FileKept ==
  ASSUME TypeOK, [Next]_vars
  PROVE  IsPrefixOf(file, file')
<1>1. file \in Text /\ out \in Text
  BY DEF TypeOK
<1>2. CASE HistWriteEnd
  BY <1>1, <1>2, CatPrefix DEF HistWriteEnd
<1>3. CASE HistWriteCommand
  <2>1. CASE file' = file
    BY <1>1, <2>1, CatPrefix
  <2>2. CASE Fputs(Entry(stored[wi + 1])) /\ stored[wi + 1] \in Text
    BY <1>1, <2>2, EntryType, FputsWrites
  <2>3. stored[wi + 1] \in Text
    BY <1>3 DEF HistWriteCommand, TypeOK
  <2> QED BY <1>3, <2>1, <2>2, <2>3 DEF HistWriteCommand
<1>4. CASE ~ HistWriteEnd /\ ~ HistWriteCommand
  <2>1. file' = file
    BY <1>4 DEF Next, vars, HistMalloc, HistMallocNoFile, StartSession,
       HistResetPos, HistResetPosNoFile, ReadFromMemory, StartScan, Scan,
       ReadLine, Interrupted, HistSave, HistSaveFull, NextPrompt, Exit, Killed
  <2> QED BY <2>1, <1>1, CatPrefix
<1> QED BY <1>2, <1>3, <1>4

\* No step changes or removes what the file holds.
THEOREM FileOnlyGrows == Spec => AppendOnly
<1>1. TypeOK /\ [Next]_vars => [IsPrefixOf(file, file')]_vars
  BY FileKept
<1> QED BY <1>1, TypeCorrect, PTL DEF Spec, AppendOnly

\* What hist_write() relies on.  The journal is the text of the saved commands,
\* one after the other; file and stream together hold the part of it that the
\* loop has reached; the file is as it was opened until hist_write() runs, and
\* until it ends when the commands fit the buffer of the stream.
Ended == phase \in {"off", "exited", "limitFault"}

WriteInv ==
  /\ Len(journal) = Len(stored) + 1 /\ journal[1] = Empty
  /\ \A i \in 1 .. Len(stored) :
       /\ stored[i].size # 0
       /\ journal[i + 1] = Cat(journal[i], Entry(stored[i]))
  /\ \A i \in 1 .. Len(journal) : IsPrefixOf(journal[i], journal[Len(journal)])
  /\ Writing => Cat(file, out) = Cat(base, journal[wi + 1])
  /\ ~ Writing => out = Empty
  /\ ~ Ended => \/ file = base
                \/ Writing /\ journal[Len(journal)].size > BufSize
  /\ ExitIsDurable

\* The steps of a session that WriteInv does not notice.
LEMMA WriteInvUnchanged ==
  ASSUME WriteInv, UNCHANGED <<file, out, session>>,
         ~ Writing, ~ Writing',
         phase' \in {"exited", "limitFault"} => phase' = phase,
         ~ Ended' => ~ Ended
  PROVE  WriteInv'
<1>1. /\ file' = file /\ out' = out /\ stored' = stored
      /\ base' = base /\ journal' = journal
  BY DEF session
<1>2. ExitIsDurable'
  BY <1>1 DEF WriteInv, ExitIsDurable
<1> QED BY <1>1, <1>2 DEF WriteInv

\* At the start of a session nothing is saved and the file is as it is.
LEMMA FreshWriteInv ==
  ASSUME base \in Text, file = base, stored = <<>>, journal = <<Empty>>,
         out = Empty, ~ Writing
  PROVE  WriteInv
<1>1. Len(journal) = 1 /\ Len(stored) = 0 /\ journal[1] = Empty
  OBVIOUS
<1>2. IsPrefixOf(Empty, Empty) /\ IsPrefixOf(base, base)
      /\ IsPrefixOf(base, Cat(base, Empty)) /\ Cat(base, Empty) = base
  BY CatPrefix, CatEmpty, TextsAreTexts
<1>3. ExitIsDurable
  BY <1>1, <1>2 DEF ExitIsDurable
<1> QED BY <1>1, <1>2, <1>3 DEF WriteInv

LEMMA InitWriteInv == Init => WriteInv
<1>1. Init => file \in Text /\ base = file /\ stored = <<>> /\ journal = <<Empty>>
              /\ out = Empty /\ phase = "off"
  BY HistfileAssumption DEF Init
<1> QED BY <1>1, FreshWriteInv DEF Writing

LEMMA NextWriteInv == TypeOK /\ WriteInv /\ [Next]_vars => WriteInv'
<1> SUFFICES ASSUME TypeOK, WriteInv, [Next]_vars PROVE WriteInv'
  OBVIOUS
<1> DEFINE n == Len(stored)
           mine == journal[Len(journal)]
<1>0. /\ n \in Nat /\ Len(journal) = n + 1 /\ journal[1] = Empty /\ wi \in Nat
      /\ file \in Text /\ base \in Text /\ out \in Text /\ mine \in Text
      /\ \A i \in 1 .. n : stored[i] \in Text
      /\ \A i \in 1 .. n + 1 : journal[i] \in Text
  BY DEF TypeOK, WriteInv
<1>1. CASE HistMalloc \/ HistMallocNoFile
  <2>1. /\ base' = file /\ file' = file /\ stored' = <<>> /\ journal' = <<Empty>>
        /\ out' = out /\ phase \in {"off", "exited"} /\ phase' \in {"ready", "noFile"}
    BY <1>1 DEF HistMalloc, HistMallocNoFile, StartSession, write
  <2>2. Len(journal') = 1 /\ Len(stored') = 0 /\ journal'[1] = Empty /\ out' = Empty
        /\ file' = base' /\ ~ Writing'
    BY <2>1 DEF WriteInv, Writing
  <2>3. IsPrefixOf(Empty, Empty) /\ IsPrefixOf(file, file)
        /\ IsPrefixOf(file, Cat(file, Empty)) /\ Cat(file, Empty) = file
    BY <1>0, CatPrefix, CatEmpty, TextsAreTexts
  <2>4. ExitIsDurable'
    BY <2>1, <2>2, <2>3 DEF ExitIsDurable
  <2> QED BY <2>2, <2>3, <2>4 DEF WriteInv
<1>2. CASE HistResetPos \/ HistResetPosNoFile \/ Scan \/ ReadLine \/ NextPrompt
  BY <1>2, WriteInvUnchanged DEF HistResetPos, HistResetPosNoFile, Scan,
     ScanHit, ScanUp, ScanDown, ReadLine, NextPrompt, write, Writing, Ended
<1>3. ASSUME NEW key \in Keys, ReadFromMemory(key) \/ StartScan(key)
       PROVE  WriteInv'
  BY <1>3, WriteInvUnchanged DEF ReadFromMemory, StartScan, write, Writing, Ended
<1>4. ASSUME NEW t \in Submitted, Interrupted(t) PROVE WriteInv'
  BY <1>4, WriteInvUnchanged DEF Interrupted, write, Writing, Ended
<1>5. ASSUME NEW t \in Submitted, HistSave(t) PROVE WriteInv'
  <2>1. t \in Text /\ t.size # 0
    BY SubmittedType, HistfileAssumption, SizeType
       DEF Submitted, TypeOK, Cat, NewLine, LineOf
  <2>2. PICK s \in CopiedLine(t) :
          /\ stored' = Append(stored, s)
          /\ journal' = Append(journal, Cat(mine, Entry(s)))
    BY <1>5 DEF HistSave
  <2>3. s \in Text /\ s.size # 0
    BY <2>1, <2>2, CopiedLineType
  <2> DEFINE more == Cat(mine, Entry(s))
  <2>4. more \in Text /\ IsPrefixOf(mine, more) /\ IsPrefixOf(more, more)
    BY <1>0, <2>3, CatType, EntryType, CatPrefix
  <2>5. /\ Len(stored') = n + 1 /\ stored'[n + 1] = s
        /\ \A i \in 1 .. n : stored'[i] = stored[i]
    BY <2>2, <2>3, AppendText DEF TypeOK
  <2>6. /\ Len(journal') = n + 2 /\ journal'[n + 2] = more
        /\ \A i \in 1 .. n + 1 : journal'[i] = journal[i]
    BY <1>0, <2>2, <2>4, AppendText DEF TypeOK
  <2>7. ASSUME NEW i \in 1 .. n + 1
        PROVE  /\ stored'[i].size # 0
               /\ journal'[i + 1] = Cat(journal'[i], Entry(stored'[i]))
    <3>1. CASE i = n + 1
      BY <1>0, <3>1, <2>3, <2>5, <2>6
    <3>2. CASE i \in 1 .. n
      BY <1>0, <3>2, <2>5, <2>6 DEF WriteInv
    <3> QED BY <1>0, <3>1, <3>2
  <2>8. ASSUME NEW i \in 1 .. n + 2 PROVE IsPrefixOf(journal'[i], more)
    <3>1. CASE i = n + 2
      BY <2>4, <2>6, <3>1
    <3>2. CASE i \in 1 .. n + 1
      <4>1. IsPrefixOf(journal[i], mine) /\ journal[i] \in Text
        BY <1>0, <3>2 DEF WriteInv
      <4>2. IsPrefixOf(journal[i], more)
        BY <1>0, <2>4, <4>1, PrefixTransitive
      <4> QED BY <2>6, <3>2, <4>2
    <3> QED BY <1>0, <3>1, <3>2
  <2>9. file' = file /\ base' = base /\ out' = out /\ out = Empty
        /\ file = base /\ phase' = "saved"
    BY <1>5 DEF HistSave, WriteInv, Writing, write, Ended
  <2>10. ExitIsDurable'
    <3>1. IsPrefixOf(base, base) /\ IsPrefixOf(base, Cat(base, more))
      BY <1>0, <2>4, CatPrefix
    <3> QED BY <2>6, <2>9, <3>1 DEF ExitIsDurable
  <2>11. journal'[1] = Empty
    BY <1>0, <2>6
  <2> QED BY <1>0, <2>5, <2>6, <2>7, <2>8, <2>9, <2>10, <2>11
          DEF WriteInv, Writing, Ended
<1>6. CASE Exit \/ \E t \in Submitted : HistSaveFull(t)
  <2>1. /\ wi' = 0 /\ UNCHANGED <<file, out, stored, base, journal>>
        /\ phase' \in {"exiting", "flushing"} /\ ~ Writing /\ ~ Ended
    BY <1>6 DEF Exit, HistSaveFull, session, Writing, Ended
  <2>2. out = Empty /\ file = base
    BY <2>1 DEF WriteInv
  <2>3. ExitIsDurable'
    BY <2>1 DEF WriteInv, ExitIsDurable
  <2> QED BY <1>0, <2>1, <2>2, <2>3 DEF WriteInv
<1>8. CASE HistWriteCommand
  <2>1. /\ wi + 1 \in 1 .. n /\ Writing /\ wi' = wi + 1
        /\ UNCHANGED <<phase, stored, base, journal>>
    BY <1>8, <1>0 DEF HistWriteCommand, session
  <2> DEFINE e == Entry(stored[wi + 1])
  <2>2. e \in Text /\ Fputs(e)
    BY <1>0, <1>8, <2>1, EntryType DEF HistWriteCommand, WriteInv
  <2>3. Cat(file, out) = Cat(base, journal[wi + 1])
        /\ journal[wi + 2] = Cat(journal[wi + 1], e)
        /\ journal[wi + 1] \in Text /\ journal[wi + 2] \in Text
    BY <1>0, <2>1 DEF WriteInv
  <2>4. Cat(file', out') = Cat(base, journal[wi + 2])
    BY <1>0, <2>2, <2>3, FputsWrites, CatAssociative
  <2>5. file' \in Text /\ out' \in Text /\ IsPrefixOf(file, file')
    BY <1>0, <2>2, FputsWrites
  <2>6. IsPrefixOf(journal[wi + 2], mine)
    BY <1>0, <2>1 DEF WriteInv
  <2>7. IsPrefixOf(base, file') /\ IsPrefixOf(file', Cat(base, mine))
    <3>1. IsPrefixOf(base, file)
      BY DEF WriteInv, ExitIsDurable
    <3>2. IsPrefixOf(file', Cat(base, journal[wi + 2]))
      BY <2>4, <2>5, CatPrefix
    <3>3. IsPrefixOf(Cat(base, journal[wi + 2]), Cat(base, mine))
      BY <1>0, <2>3, <2>6, PrefixCat
    <3>4. Cat(base, journal[wi + 2]) \in Text /\ Cat(base, mine) \in Text
      BY <1>0, <2>3, CatType
    <3> QED BY <1>0, <2>5, <3>1, <3>2, <3>3, <3>4, PrefixTransitive
  <2>8. Writing' /\ wi' + 1 = wi + 2
    BY <1>0, <2>1 DEF Writing
  <2>9. Cat(file', out') = Cat(base', journal'[wi' + 1])
    BY <2>1, <2>4, <2>8
  <2>10. CASE mine.size <= BufSize
    <3>1. file = base
      BY <1>0, <2>1, <2>10, SizeType, HistfileAssumption DEF WriteInv, Writing, Ended
    <3>2. out.size = journal[wi + 1].size
      BY <1>0, <2>3, <3>1, SizeType DEF Cat
    <3>3. out.size + e.size = journal[wi + 2].size
      BY <1>0, <2>2, <2>3, <3>2, SizeType DEF Cat
    <3>4. out.size + e.size <= BufSize
      BY <1>0, <2>3, <2>6, <2>10, <3>3, SizeType, HistfileAssumption DEF IsPrefixOf
    <3>5. file' = base
      BY <1>0, <2>2, <3>1, <3>4, FputsWrites
    <3>6. ExitIsDurable'
      BY <2>1, <2>7, <3>5 DEF ExitIsDurable, Writing
    <3> QED BY <2>1, <2>8, <2>9, <3>5, <3>6 DEF WriteInv
  <2>11. CASE ~ (mine.size <= BufSize)
    <3>1. mine.size > BufSize
      BY <1>0, <2>11, SizeType, HistfileAssumption
    <3>2. ExitIsDurable'
      BY <2>1, <2>7, <2>11 DEF ExitIsDurable, Writing
    <3> QED BY <2>1, <2>8, <2>9, <3>1, <3>2 DEF WriteInv
  <2> QED BY <2>10, <2>11
<1>9. CASE HistWriteEnd
  <2>1. Writing /\ wi = n /\ file' = Cat(file, out) /\ out' = Empty
        /\ phase' \in {"exited", "limitFault"}
        /\ UNCHANGED <<stored, base, journal>>
    BY <1>9 DEF HistWriteEnd, WriteEnds, session
  <2>2. file' = Cat(base, mine)
    BY <1>0, <2>1 DEF WriteInv
  <2>3. IsPrefixOf(base, file') /\ IsPrefixOf(file', file')
    BY <1>0, <2>2, CatPrefix, CatType
  <2>4. ExitIsDurable'
    BY <2>1, <2>2, <2>3 DEF ExitIsDurable
  <2> QED BY <1>0, <2>1, <2>4 DEF WriteInv, Writing, Ended
<1>10. CASE Killed
  <2>1. /\ phase' = "off" /\ out' = Empty
        /\ UNCHANGED <<file, stored, base, journal>>
    BY <1>10 DEF Killed, session
  <2>2. ExitIsDurable'
    BY <2>1 DEF WriteInv, ExitIsDurable
  <2> QED BY <1>0, <2>1, <2>2 DEF WriteInv, Writing, Ended
<1>11. CASE UNCHANGED vars
  BY <1>11 DEF vars, write, session, WriteInv, ExitIsDurable, Writing, Ended
<1> QED BY <1>1, <1>2, <1>5, <1>6, <1>8, <1>9, <1>10, <1>11, <1>3, <1>4 DEF Next

\* A session that ends through "exit" has appended all its commands, in order; a
\* session that ends in any other way has appended the first part of them, and
\* nothing or everything where they fit the buffer of the stream.
THEOREM ExitDurable == Spec => []ExitIsDurable
<1>1. WriteInv => ExitIsDurable
  BY DEF WriteInv
<1> QED BY <1>1, TypeCorrect, InitWriteInv, NextWriteInv, PTL DEF Spec

\* An entry ends in a newline, whatever was cut off the command.
LEMMA EntryEnds ==
  ASSUME NEW t \in Text, NEW u \in Text
  PROVE  Cat(u, Entry(t)).size - 1 \in Cat(u, Entry(t)).nl
<1>1. t.size \in Nat /\ u.size \in Nat
  BY SizeType
<1>2. Entry(t).size = t.size + 1 /\ t.size \in Entry(t).nl
  BY <1>1 DEF Entry, Cat, NewLine, LineOf
<1>3. Cat(u, Entry(t)).size - 1 = u.size + t.size
  BY <1>1, <1>2 DEF Cat
<1> QED BY <1>2, <1>3 DEF Cat

\* No two commands of a session that has left through "exit" share a line.
THEOREM CommandsSeparate == Spec => []CommandsEndLines
<1>1. TypeOK /\ WriteInv => CommandsEndLines
  <2> SUFFICES ASSUME TypeOK, WriteInv, phase = "exited", NEW i \in DOMAIN stored
               PROVE  base.size + journal[i + 1].size - 1 \in file.nl
    BY DEF CommandsEndLines
  <2> DEFINE j == journal[i + 1]
             mine == journal[Len(journal)]
  <2>1. /\ i \in 1 .. Len(stored) /\ Len(journal) = Len(stored) + 1
        /\ stored[i] \in Text /\ journal[i] \in Text /\ j \in Text
        /\ base \in Text /\ mine \in Text /\ i + 1 \in 1 .. Len(journal)
    BY DEF TypeOK
  <2>2. j.size - 1 \in j.nl
    BY <2>1, EntryEnds DEF WriteInv
  <2>3. IsPrefixOf(j, mine) /\ file = Cat(base, mine)
    BY <2>1 DEF WriteInv, ExitIsDurable
  <2>4. j.size - 1 \in mine.nl
    BY <2>2, <2>3 DEF IsPrefixOf
  <2>5. base.size + (j.size - 1) \in file.nl
    BY <2>3, <2>4 DEF Cat
  <2>6. base.size + (j.size - 1) = base.size + j.size - 1
    BY <2>1, SizeType
  <2> QED BY <2>5, <2>6
<1> QED BY <1>1, TypeCorrect, InitWriteInv, NextWriteInv, PTL DEF Spec

-----------------------------------------------------------------------------
(* Browsing stays in sync.                                                 *)

\* The line numbers of two neighbouring offsets differ by the newline between.
LEMMA LineNoStep ==
  ASSUME NEW t \in Text, NEW o \in Nat
  PROVE  /\ LineNo(t, o) \in Nat
         /\ o \in t.nl => LineNo(t, o + 1) = LineNo(t, o) + 1
         /\ o \notin t.nl => LineNo(t, o + 1) = LineNo(t, o)
<1> DEFINE before(n) == {q \in t.nl : q < n}
<1>1. IsFiniteSet(t.nl) /\ t.nl \subseteq Nat
  BY NewLinesFinite DEF Text
<1>2. IsFiniteSet(before(o)) /\ Cardinality(before(o)) \in Nat
  BY <1>1, FS_Subset, FS_CardinalityType
<1>3. CASE o \in t.nl
  <2>1. before(o + 1) = before(o) \cup {o} /\ o \notin before(o)
    BY <1>1, <1>3
  <2>2. Cardinality(before(o) \cup {o}) = Cardinality(before(o)) + 1
    BY <1>2, <2>1, FS_AddElement
  <2> QED BY <1>2, <1>3, <2>1, <2>2 DEF LineNo
<1>4. CASE o \notin t.nl
  <2>1. before(o + 1) = before(o)
    BY <1>1, <1>4
  <2> QED BY <1>2, <1>4, <2>1 DEF LineNo
<1> QED BY <1>3, <1>4

\* All newlines are before the end; a line that is not the last has a newline
\* in front of it.
LEMMA LineNoBounds ==
  ASSUME NEW t \in Text
  PROVE  /\ LineNo(t, t.size) = Cardinality(t.nl)
         /\ LineNo(t, 0) = 0
         /\ \A o \in Nat : LineNo(t, o) < Cardinality(t.nl) =>
              \E q \in t.nl : q >= o
<1>1. {q \in t.nl : q < t.size} = t.nl
  BY DEF Text
<1>2. {q \in t.nl : q < 0} = {} /\ Cardinality({}) = 0
  BY FS_EmptySet DEF Text
<1>3. ASSUME NEW o \in Nat, LineNo(t, o) < Cardinality(t.nl)
      PROVE  \E q \in t.nl : q >= o
  <2>1. SUFFICES ASSUME \A q \in t.nl : ~ (q >= o) PROVE FALSE
    OBVIOUS
  <2>2. {q \in t.nl : q < o} = t.nl
    BY <2>1 DEF Text
  <2> QED BY <1>3, <2>2, NewLinesFinite DEF LineNo
<1> QED BY <1>1, <1>2, <1>3 DEF LineNo

\* The offset o is behind the newline before line n; the first line has none,
\* and after a scan up to it the stream is left one behind its start.
LineStart(o, n) == o # 0 /\ o - 1 \in file.nl /\ LineNo(file, o) = n
AtLine(o, n) == LineStart(o, n) \/ (o = 1 /\ n = 0)

\* Browsing a clean file, action by action: what the offset of the stream and
\* the position of the scan say about hist->pos.
SyncInv ==
  Clean(file) /\ ~ crossed =>
    /\ phase = "browse" /\ pos >= f_len =>
         /\ fp = file.size
         /\ buf.src \in {"none", "memory", "slot"}
         /\ buf.src = "memory" => pos = f_len + buf.at
    /\ phase = "browse" /\ pos < f_len =>
         /\ AtLine(fp, pos)
         /\ buf.src = "file"
         /\ buf.at = 0 \/ buf.at - 1 \in file.nl
         /\ pos = LineNo(file, buf.at)
    /\ phase = "scan" => pos < f_len
    /\ phase = "scan" /\ dir = HIST_UP =>
         \/ /\ fp = seek + 1 /\ seek \in file.nl /\ fp \notin file.nl
            /\ LineNo(file, fp) = pos + 1
         \/ fp = seek /\ LineNo(file, seek + 1) = pos
    /\ phase = "scan" /\ dir # HIST_UP =>
         /\ LineNo(file, fp) = pos - 1
         /\ fp = seek \/ (fp = seek + 1 /\ fp \notin file.nl)
    /\ phase = "read" =>
         /\ pos < f_len
         /\ LineNo(file, fp) = pos
         /\ \/ fp = seek /\ LineStart(fp, pos)
            \/ fp = 0 /\ seek = 1 /\ pos = 0
    /\ phase # "chopFault"

LEMMA InitCounts == Init => CountsAreCurrent
BY DEF Init, CountsAreCurrent

LEMMA NextCounts == CountsAreCurrent /\ [Next]_vars => CountsAreCurrent'
<1> SUFFICES ASSUME CountsAreCurrent, [Next]_vars PROVE CountsAreCurrent'
  OBVIOUS
<1>1. CASE HistMalloc
  BY <1>1 DEF HistMalloc, StartSession, CountsAreCurrent, CountLines, CountChars
<1>2. CASE HistWriteEnd
  BY <1>2 DEF HistWriteEnd, WriteEnds, CountsAreCurrent
<1>3. CASE HistWriteCommand
  BY <1>3 DEF HistWriteCommand, Writing, CountsAreCurrent
<1>4. CASE ~ (HistMalloc \/ HistWriteEnd \/ HistWriteCommand)
  BY <1>4 DEF CountsAreCurrent, Next, vars, counts, HistMallocNoFile,
     StartSession, HistResetPos, HistResetPosNoFile, ReadFromMemory, StartScan,
     Scan, ReadLine, Interrupted, HistSave, HistSaveFull, NextPrompt, Exit, Killed
<1> QED BY <1>1, <1>2, <1>3, <1>4

\* While the user browses, f_len and f_chars describe the file as it is.
THEOREM CountsCurrent == Spec => []CountsAreCurrent
BY InitCounts, NextCounts, PTL DEF Spec

LEMMA InitSync == Init => SyncInv
BY DEF Init, SyncInv

\* SyncInv says nothing of the other phases.
LEMMA SyncElsewhere ==
  ASSUME phase' \notin {"browse", "scan", "read", "chopFault"}
  PROVE  SyncInv'
BY DEF SyncInv

LEMMA NextSync == TypeOK /\ CountsAreCurrent /\ SyncInv /\ [Next]_vars => SyncInv'
<1> SUFFICES ASSUME TypeOK, CountsAreCurrent, SyncInv, [Next]_vars,
                    Clean(file'), ~ crossed'
             PROVE  SyncInv'
  BY DEF SyncInv
<1>0. /\ file \in Text /\ fp \in Nat /\ pos \in Nat /\ seek \in Nat
      /\ file.size \in Nat /\ file.nl \subseteq Nat
      /\ f_len \in Nat /\ Len(stored) \in Nat
  BY DEF TypeOK, Text
<1>1. CASE HistResetPos
  <2>1. /\ phase' = "browse" /\ file' = file /\ fp' = file'.size
        /\ f_len' = f_len /\ pos' = f_len + Len(stored)
    BY <1>1 DEF HistResetPos, counts
  <2>2. buf'.src = "none"
    BY <1>1 DEF HistResetPos, TypeOK
  <2>3. pos' >= f_len'
    BY <1>0, <2>1
  <2> QED BY <1>0, <2>1, <2>2, <2>3 DEF SyncInv
<1>2. ASSUME NEW key \in Keys, ReadFromMemory(key) PROVE SyncInv'
  <2>1. /\ file' = file /\ fp' = fp /\ f_len' = f_len /\ phase = "browse"
        /\ pos' = Moved(key) /\ Moved(key) + 1 > f_len
        /\ crossed' = (crossed \/ pos < f_len)
    BY <1>2 DEF ReadFromMemory, counts
  <2>2. ~ crossed /\ ~ (pos < f_len)
    BY <2>1, Zenon
  <2>3. Moved(key) \in Nat
    BY <1>0, HistfileAssumption DEF Moved, Decr
  <2>4. /\ file' = file /\ fp' = fp /\ f_len' = f_len /\ phase = "browse"
        /\ pos' = Moved(key) /\ pos' >= f_len /\ pos >= f_len /\ ~ crossed
    BY <1>0, <2>1, <2>2, <2>3
  <2>5. Clean(file) /\ fp = file.size
    BY <2>4 DEF SyncInv
  <2>6. \/ phase' = "slotFault"
        \/ /\ phase' = "browse" /\ buf'.src \in {"memory", "slot"}
           /\ buf'.at = pos' - f_len
    BY <1>2, <2>4 DEF ReadFromMemory
  <2>7. CASE phase' = "slotFault"
    BY <2>7, SyncElsewhere
  <2>8. CASE phase' = "browse" /\ buf'.src \in {"memory", "slot"}
             /\ buf'.at = pos' - f_len
    <3>1. pos' \in Nat /\ pos' = f_len + buf'.at
      BY <1>0, <2>4, <2>8, <1>2, HistfileAssumption
         DEF Moved, Decr, ReadFromMemory, OutOfBounds
    <3> QED BY <1>0, <2>4, <2>5, <2>8, <3>1 DEF SyncInv
  <2> QED BY <2>6, <2>7, <2>8
<1>3. ASSUME NEW key \in Keys, StartScan(key) PROVE SyncInv'
  <2>1. /\ file' = file /\ fp' = fp /\ f_len' = f_len /\ phase = "browse"
        /\ phase' = "scan" /\ pos' = Moved(key) /\ pos' + 1 <= f_len
        /\ dir' = key /\ seek' = (IF fp # 0 THEN fp - 1 ELSE 0)
        /\ ~ OutOfBounds(key) /\ ~ crossed
    BY <1>3 DEF StartScan, counts
  <2>2. Clean(file) /\ f_len = Cardinality(file.nl)
    BY <2>1 DEF CountsAreCurrent
  <2>3. CASE pos >= f_len
    <3>1. key = HIST_UP /\ pos = f_len /\ pos # 0 /\ pos' = pos - 1
      BY <1>0, <2>1, <2>3, HistfileAssumption DEF Moved, OutOfBounds, Decr
    <3>2. fp = file.size
      BY <2>1, <2>2, <2>3 DEF SyncInv
    <3>3. file.nl # {}
      BY <2>2, <3>1, FS_EmptySet
    <3>4. fp # 0 /\ fp - 1 \in file.nl /\ fp \notin file.nl
      BY <1>0, <2>2, <3>2, <3>3 DEF Clean, Text
    <3>5. LineNo(file, fp) = pos
      BY <2>2, <3>1, <3>2, <1>0, LineNoBounds
    <3> QED BY <1>0, <2>1, <2>3, <3>1, <3>4, <3>5 DEF SyncInv
  <2>4. CASE pos < f_len /\ key = HIST_UP
    <3>1. pos # 0 /\ pos' = pos - 1
      BY <1>0, <2>1, <2>4 DEF Moved, OutOfBounds, Decr
    <3>2. fp # 0 /\ fp - 1 \in file.nl /\ LineNo(file, fp) = pos
      BY <2>1, <2>2, <2>4, <3>1 DEF SyncInv, AtLine, LineStart
    <3>3. fp \notin file.nl
      BY <1>0, <2>2, <3>2 DEF Clean
    <3> QED BY <1>0, <2>1, <2>4, <3>1, <3>2, <3>3 DEF SyncInv
  <2>5. CASE pos < f_len /\ key # HIST_UP
    <3>1. pos' = pos + 1
      BY <2>1, <2>5 DEF Moved
    <3>2. fp # 0 /\ fp \notin file.nl
      BY <1>0, <2>1, <2>2, <2>5 DEF SyncInv, AtLine, LineStart, Clean
    <3>3. LineNo(file, fp) = pos
      <4>1. CASE LineStart(fp, pos)
        BY <4>1 DEF LineStart
      <4>2. CASE fp = 1 /\ pos = 0
        BY <1>0, <2>2, <4>2, LineNoBounds, LineNoStep DEF Clean
      <4> QED BY <2>1, <2>2, <2>5, <4>1, <4>2 DEF SyncInv, AtLine
    <3> QED BY <1>0, <2>1, <2>5, <3>1, <3>2, <3>3 DEF SyncInv
  <2> QED BY <1>0, <2>3, <2>4, <2>5
<1>4. CASE Scan
  <2>1. /\ file' = file /\ pos' = pos /\ f_len' = f_len /\ phase = "scan"
        /\ dir' = dir /\ ~ crossed
        /\ phase' \in {"scan", "read"}
    BY <1>4 DEF Scan, ScanHit, ScanUp, ScanDown, counts
  <2>2. /\ Clean(file) /\ f_len = Cardinality(file.nl) /\ pos < f_len
        /\ f_chars = file.size + 1
    BY <2>1 DEF CountsAreCurrent, SyncInv
  <2>3. CASE ScanHit
    <3>1. fp \in file.nl /\ fp' = fp + 1 /\ seek' = seek + 1 /\ phase' = "read"
      BY <1>0, <2>3 DEF ScanHit, AfterGetc, Text
    <3>2. LineNo(file, fp + 1) = LineNo(file, fp) + 1
      BY <1>0, <3>1, LineNoStep
    <3>3. fp = seek
      BY <2>1, <2>2, <3>1 DEF SyncInv
    <3>4. LineNo(file, fp + 1) = pos
      <4>1. CASE dir = HIST_UP
        BY <1>0, <2>1, <2>2, <3>1, <3>3, <4>1 DEF SyncInv
      <4>2. CASE dir # HIST_UP
        BY <1>0, <2>1, <2>2, <3>2, <4>2 DEF SyncInv
      <4> QED BY <4>1, <4>2
    <3> QED BY <1>0, <2>1, <2>2, <3>1, <3>3, <3>4 DEF SyncInv, LineStart
  <2>4. CASE ScanUp
    <3>1. fp \notin file.nl /\ dir = HIST_UP
      BY <2>4 DEF ScanUp
    <3>2. LineNo(file, seek) = pos
      <4>1. CASE fp = seek + 1 /\ seek \in file.nl /\ LineNo(file, fp) = pos + 1
        BY <1>0, <4>1, LineNoStep
      <4>2. CASE fp = seek /\ LineNo(file, seek + 1) = pos
        BY <1>0, <3>1, <4>2, LineNoStep
      <4> QED BY <2>1, <2>2, <3>1, <4>1, <4>2 DEF SyncInv
    <3>3. CASE seek = 0 /\ phase' = "read" /\ fp' = 0 /\ seek' = 1
      <4>1. pos = 0 /\ LineNo(file, 0) = 0
        BY <1>0, <3>2, <3>3, LineNoBounds
      <4> QED BY <2>1, <2>2, <3>3, <4>1 DEF SyncInv
    <3>4. CASE seek # 0 /\ phase' = "scan" /\ fp' = seek - 1 /\ seek' = seek - 1
      BY <1>0, <2>1, <2>2, <3>1, <3>2, <3>4 DEF SyncInv
    <3> QED BY <2>1, <2>4, <3>3, <3>4 DEF ScanUp
  <2>5. CASE ScanDown
    <3>1. fp \notin file.nl /\ dir # HIST_UP /\ seek' = seek + 1
      BY <2>5 DEF ScanDown
    <3>2. LineNo(file, fp) = pos - 1 /\ (fp = seek \/ fp = seek + 1)
      BY <2>1, <2>2, <3>1 DEF SyncInv
    <3>3. PICK q \in file.nl : q >= fp
      BY <1>0, <2>2, <3>2, LineNoBounds
    <3>4. seek # f_chars
      BY <1>0, <2>2, <3>2, <3>3 DEF Text
    <3>5. phase' = "scan" /\ fp' = seek + 1
      BY <2>1, <2>5, <3>4 DEF ScanDown
    <3>6. LineNo(file, seek + 1) = pos - 1
      BY <1>0, <3>1, <3>2, LineNoStep
    <3> QED BY <1>0, <2>1, <2>2, <3>1, <3>5, <3>6 DEF SyncInv
  <2> QED BY <1>4, <2>3, <2>4, <2>5 DEF Scan
<1>5. CASE ReadLine
  <2>1. /\ file' = file /\ pos' = pos /\ f_len' = f_len /\ phase = "read"
        /\ fp' = seek /\ ~ crossed
    BY <1>5 DEF ReadLine, counts
  <2>2. /\ Clean(file) /\ f_len = Cardinality(file.nl) /\ pos < f_len
        /\ LineNo(file, fp) = pos
        /\ (fp = seek /\ LineStart(fp, pos)) \/ (fp = 0 /\ seek = 1 /\ pos = 0)
    BY <2>1 DEF CountsAreCurrent, SyncInv
  <2>3. PICK q \in file.nl : q >= fp
    BY <1>0, <2>2, LineNoBounds
  <2>4. fp < file.size /\ ~ (fp >= file.size)
    BY <1>0, <2>3 DEF Text
  <2>5. phase' = "browse" /\ buf'.src = "file" /\ buf'.at = fp
    BY <1>5, <2>4 DEF ReadLine
  <2>6. AtLine(seek, pos) /\ (fp = 0 \/ fp - 1 \in file.nl)
    BY <2>2 DEF AtLine, LineStart
  <2> QED BY <1>0, <2>1, <2>2, <2>5, <2>6 DEF SyncInv, AtLine, LineStart
<1>6. CASE UNCHANGED vars
  BY <1>6 DEF vars, counts, scan, SyncInv, AtLine, LineStart
<1>7. CASE phase' \notin {"browse", "scan", "read", "chopFault"}
  BY <1>7, SyncElsewhere
<1>8. CASE HistMalloc \/ HistMallocNoFile \/ HistResetPosNoFile \/ NextPrompt
           \/ Exit \/ HistWriteCommand \/ HistWriteEnd \/ Killed
           \/ \E t \in Submitted : Interrupted(t) \/ HistSave(t) \/ HistSaveFull(t)
  BY <1>7, <1>8 DEF HistMalloc, HistMallocNoFile, HistResetPosNoFile, NextPrompt,
     Exit, HistWriteCommand, HistWriteEnd, WriteEnds, Writing, Killed,
     Interrupted, HistSave, HistSaveFull
<1> QED BY <1>1, <1>2, <1>3, <1>4, <1>5, <1>6, <1>8 DEF Next

\* Browsing a clean file stays in sync: the line in the prompt is the one
\* hist->pos stands for, and no scan comes back without a line.
THEOREM BrowsingInSync == Spec => [](ShownInSync /\ NeverChopsEmpty)
<1>1. TypeOK /\ SyncInv => ShownInSync /\ NeverChopsEmpty
  BY DEF TypeOK, SyncInv, ShownInSync, NeverChopsEmpty
<1> QED BY <1>1, TypeCorrect, CountsCurrent, InitSync, NextSync, PTL DEF Spec

-----------------------------------------------------------------------------
(* Scans down find a newline, on every file and in sync or not.            *)

\* How many newlines there are from offset o on.
LinesAhead(t, o) == Cardinality({q \in t.nl : q >= o})

\* Where a read may leave the stream when hist->pos is n and lines were counted:
\* at a blank line, which it never leaves; with as many newlines ahead as there
\* are lines behind n; at the start of a line with one newline too few; or at
\* the 1 that a scan up to the start of the file leaves.
StandsAt(t, lines, o, n) ==
  \/ o \in t.nl
  \/ lines <= n + LinesAhead(t, o)
  \/ o - 1 \in t.nl /\ lines <= n + 1 + LinesAhead(t, o)
  \/ o = 1

\* hist->pos may run ahead of the stream, but the newlines in front of the stream
\* do not become fewer than hist->pos has lines left.  None of this uses that the
\* file is as it was when it was counted, only that it did not lose a newline.
AheadInv ==
  /\ phase \in {"ready", "browse", "scan", "read", "saved"} =>
       f_len <= Cardinality(file.nl)
  /\ phase = "browse" => (fp # 0 \/ f_len = 0) /\ StandsAt(file, f_len, fp, pos)
  /\ phase = "scan" => pos + 1 <= f_len
  /\ phase = "scan" /\ dir = HIST_UP =>
       \/ fp = seek + 1 /\ StandsAt(file, f_len, fp, pos + 1)
       \/ fp = seek /\ f_len <= pos + 1 + LinesAhead(file, seek + 1)
  /\ phase = "scan" /\ dir # HIST_UP =>
       \/ fp = seek + 1 /\ fp \in file.nl
       \/ fp \in {seek, seek + 1} /\ f_len <= pos + LinesAhead(file, fp)
  /\ phase = "read" => seek # 0 /\ StandsAt(file, f_len, seek, pos)

\* The newlines ahead of two neighbouring offsets differ by the one between.
LEMMA LinesAheadStep ==
  ASSUME NEW t \in Text, NEW o \in Nat
  PROVE  /\ LinesAhead(t, o) \in Nat /\ LinesAhead(t, o + 1) \in Nat
         /\ o \in t.nl => LinesAhead(t, o) = LinesAhead(t, o + 1) + 1
         /\ o \notin t.nl => LinesAhead(t, o) = LinesAhead(t, o + 1)
<1> DEFINE ahead(n) == {q \in t.nl : q >= n}
<1>1. IsFiniteSet(t.nl) /\ t.nl \subseteq Nat
  BY NewLinesFinite DEF Text
<1>2. IsFiniteSet(ahead(o)) /\ IsFiniteSet(ahead(o + 1))
  BY <1>1, FS_Subset
<1>3. Cardinality(ahead(o)) \in Nat /\ Cardinality(ahead(o + 1)) \in Nat
  BY <1>2, FS_CardinalityType
<1>4. CASE o \in t.nl
  <2>1. ahead(o) = ahead(o + 1) \cup {o} /\ o \notin ahead(o + 1)
    BY <1>1, <1>4
  <2>2. Cardinality(ahead(o + 1) \cup {o}) = Cardinality(ahead(o + 1)) + 1
    BY <1>2, <2>1, FS_AddElement
  <2> QED BY <1>3, <1>4, <2>1, <2>2 DEF LinesAhead
<1>5. CASE o \notin t.nl
  <2>1. ahead(o) = ahead(o + 1)
    BY <1>1, <1>5
  <2> QED BY <1>3, <1>5, <2>1 DEF LinesAhead
<1> QED BY <1>4, <1>5

\* All newlines are ahead of the start, and one that is counted is there.
LEMMA LinesAheadBounds ==
  ASSUME NEW t \in Text
  PROVE  /\ Cardinality(t.nl) <= 1 + LinesAhead(t, 1)
         /\ \A o \in Nat : LinesAhead(t, o) # 0 => \E q \in t.nl : q >= o
<1>1. {q \in t.nl : q >= 0} = t.nl
  BY DEF Text
<1>2. LinesAhead(t, 0) = Cardinality(t.nl)
  BY <1>1 DEF LinesAhead
<1>3. LinesAhead(t, 0) \in Nat /\ LinesAhead(t, 1) \in Nat
      /\ LinesAhead(t, 0) <= 1 + LinesAhead(t, 1)
  BY LinesAheadStep
<1>4. ASSUME NEW o \in Nat, LinesAhead(t, o) # 0
      PROVE  \E q \in t.nl : q >= o
  <2>1. SUFFICES ASSUME \A q \in t.nl : ~ (q >= o) PROVE FALSE
    OBVIOUS
  <2>2. {q \in t.nl : q >= o} = {}
    BY <2>1
  <2> QED BY <1>4, <2>2, FS_EmptySet DEF LinesAhead
<1> QED BY <1>2, <1>3, <1>4

LEMMA InitAhead == Init => AheadInv
BY DEF Init, AheadInv

\* AheadInv says nothing of the other phases.
LEMMA AheadElsewhere ==
  ASSUME phase' \notin {"ready", "browse", "scan", "read", "saved"}
  PROVE  AheadInv'
BY DEF AheadInv

LEMMA NextAhead == TypeOK /\ AheadInv /\ [Next]_vars => AheadInv'
<1> SUFFICES ASSUME TypeOK, AheadInv, [Next]_vars PROVE AheadInv'
  OBVIOUS
<1>0. /\ file \in Text /\ fp \in Nat /\ pos \in Nat /\ seek \in Nat
      /\ f_len \in Nat /\ Len(stored) \in Nat /\ Cardinality(file.nl) \in Nat
      /\ file.size \in Nat /\ file.nl \subseteq Nat
  <2>1. /\ file \in Text /\ fp \in Nat /\ pos \in Nat /\ seek \in Nat
        /\ f_len \in Nat /\ Len(stored) \in Nat
    BY DEF TypeOK
  <2>2. file.size \in Nat /\ file.nl \subseteq Nat
    BY <2>1 DEF Text
  <2> QED BY <2>1, <2>2, NewLinesFinite
<1>1. CASE HistMalloc
  <2>1. phase' = "ready" /\ file' = file /\ f_len' = Cardinality(file.nl)
    BY <1>1 DEF HistMalloc, StartSession, CountLines
  <2> QED BY <1>0, <2>1 DEF AheadInv
<1>2. CASE HistResetPos
  <2>1. /\ phase = "ready" /\ phase' = "browse" /\ file' = file /\ fp' = file.size
        /\ f_len' = f_len /\ pos' = f_len + Len(stored)
    BY <1>2 DEF HistResetPos, counts
  <2>2. f_len <= Cardinality(file.nl)
    BY <2>1 DEF AheadInv
  <2>3. fp' # 0 \/ f_len' = 0
    <3>1. file.size = 0 => file.nl = {}
      BY <1>0 DEF Text
    <3>2. file.nl = {} => f_len = 0
      BY <1>0, <2>2, FS_EmptySet
    <3> QED BY <2>1, <3>1, <3>2
  <2>4. LinesAhead(file, file.size) \in Nat
    BY <1>0, LinesAheadStep
  <2>5. StandsAt(file, f_len, file.size, pos')
    BY <1>0, <2>1, <2>4 DEF StandsAt
  <2> QED BY <2>1, <2>2, <2>3, <2>5 DEF AheadInv
<1>3. ASSUME NEW key \in Keys, ReadFromMemory(key) PROVE AheadInv'
  <2>1. /\ phase = "browse" /\ file' = file /\ fp' = fp /\ f_len' = f_len
        /\ pos' = Moved(key) /\ Moved(key) + 1 > f_len /\ ~ OutOfBounds(key)
        /\ phase' \in {"browse", "slotFault"}
    BY <1>3 DEF ReadFromMemory, counts
  <2>2. pos' \in Nat /\ pos' >= f_len
    BY <1>0, <2>1 DEF Moved, OutOfBounds, Decr
  <2>3. LinesAhead(file, fp) \in Nat
    BY <1>0, LinesAheadStep
  <2>4. StandsAt(file, f_len, fp, pos')
    BY <1>0, <2>2, <2>3 DEF StandsAt
  <2>5. f_len <= Cardinality(file.nl) /\ (fp # 0 \/ f_len = 0)
    BY <2>1 DEF AheadInv
  <2> QED BY <2>1, <2>4, <2>5 DEF AheadInv
<1>4. ASSUME NEW key \in Keys, StartScan(key) PROVE AheadInv'
  <2>1. /\ phase = "browse" /\ phase' = "scan" /\ file' = file /\ fp' = fp
        /\ f_len' = f_len /\ pos' = Moved(key) /\ Moved(key) + 1 <= f_len
        /\ dir' = key /\ seek' = (IF fp # 0 THEN fp - 1 ELSE 0) /\ ~ OutOfBounds(key)
    BY <1>4 DEF StartScan, counts
  <2>2. /\ f_len <= Cardinality(file.nl)
        /\ fp # 0 \/ f_len = 0
        /\ StandsAt(file, f_len, fp, pos)
    BY <2>1 DEF AheadInv
  <2>3. pos' \in Nat /\ pos' + 1 <= f_len
    BY <1>0, <2>1 DEF Moved, OutOfBounds, Decr
  <2>4. f_len <= Cardinality(file.nl) /\ fp # 0 /\ fp = seek' + 1
    BY <1>0, <2>1, <2>3, <2>1 DEF AheadInv
  <2>5. CASE key = HIST_UP
    <3>1. pos = pos' + 1
      BY <1>0, <2>1, <2>5 DEF Moved, OutOfBounds, Decr
    <3> QED BY <2>1, <2>2, <2>3, <2>4, <2>5, <3>1 DEF AheadInv
  <2>6. CASE key # HIST_UP
    <3>1. pos' = pos + 1
      BY <2>1, <2>6 DEF Moved
    <3>2. LinesAhead(file, fp) \in Nat /\ LinesAhead(file, 1) \in Nat
      BY <1>0, LinesAheadStep
    <3>3. Cardinality(file.nl) <= 1 + LinesAhead(file, 1)
      BY <1>0, LinesAheadBounds
    <3>4. fp \in file.nl \/ f_len <= pos' + LinesAhead(file, fp)
      BY <1>0, <2>2, <2>4, <3>1, <3>2, <3>3 DEF StandsAt
    <3> QED BY <2>1, <2>2, <2>3, <2>4, <2>6, <3>4 DEF AheadInv
  <2> QED BY <2>5, <2>6
<1>5. CASE Scan
  <2>1. /\ phase = "scan" /\ phase' \in {"scan", "read"} /\ file' = file
        /\ f_len' = f_len /\ pos' = pos /\ dir' = dir
    BY <1>5 DEF Scan, ScanHit, ScanUp, ScanDown, counts
  <2>2. f_len <= Cardinality(file.nl) /\ pos + 1 <= f_len
    BY <2>1 DEF AheadInv
  <2>3. /\ LinesAhead(file, seek) \in Nat /\ LinesAhead(file, seek + 1) \in Nat
        /\ seek \in file.nl => LinesAhead(file, seek) = LinesAhead(file, seek + 1) + 1
        /\ seek \notin file.nl => LinesAhead(file, seek) = LinesAhead(file, seek + 1)
    BY <1>0, LinesAheadStep
  <2>4. CASE ScanHit
    <3>1. fp \in file.nl /\ phase' = "read" /\ seek' = seek + 1
      BY <2>4 DEF ScanHit
    <3>2. StandsAt(file, f_len, seek + 1, pos)
      <4>1. CASE fp = seek + 1
        BY <3>1, <4>1 DEF StandsAt
      <4>2. CASE fp = seek
        <5>1. seek + 1 \in Nat /\ (seek + 1) - 1 = seek
          BY <1>0
        <5>2. f_len <= pos + 1 + LinesAhead(file, seek + 1)
          <6>1. CASE dir = HIST_UP
            BY <1>0, <2>1, <4>2, <6>1 DEF AheadInv
          <6>2. CASE dir # HIST_UP
            <7>1. f_len <= pos + LinesAhead(file, fp)
              BY <1>0, <2>1, <4>2, <6>2 DEF AheadInv
            <7> QED BY <1>0, <2>3, <3>1, <4>2, <5>1, <7>1
          <6> QED BY <6>1, <6>2
        <5> QED BY <3>1, <4>2, <5>1, <5>2 DEF StandsAt
      <4> QED BY <2>1, <4>1, <4>2 DEF AheadInv
    <3> QED BY <1>0, <2>1, <2>2, <3>1, <3>2 DEF AheadInv
  <2>5. CASE ScanUp
    <3>1. fp \notin file.nl /\ dir = HIST_UP
      BY <2>5 DEF ScanUp
    <3>2. CASE seek = 0 /\ phase' = "read" /\ seek' = 1
      BY <2>1, <2>2, <3>2 DEF AheadInv, StandsAt
    <3>3. CASE seek # 0 /\ phase' = "scan" /\ fp' = seek - 1 /\ seek' = seek - 1
      <4>1. seek - 1 \in Nat /\ (seek - 1) + 1 = seek /\ seek + 1 \in Nat
            /\ (seek + 1) - 1 = seek
        BY <1>0, <3>3
      <4>2. LinesAhead(file, seek + 1) <= LinesAhead(file, seek)
        BY <1>0, <2>3, <4>1
      <4>3. f_len <= pos + 1 + LinesAhead(file, seek)
        <5>1. CASE fp = seek + 1 /\ StandsAt(file, f_len, fp, pos + 1)
          <6>1. fp # 1 /\ fp - 1 = seek
            BY <1>0, <3>3, <5>1
          <6>2. \/ f_len <= pos + 1 + LinesAhead(file, seek + 1)
                \/ seek \in file.nl /\ f_len <= pos + 1 + 1 + LinesAhead(file, seek + 1)
            BY <3>1, <5>1, <6>1 DEF StandsAt
          <6> QED BY <1>0, <2>3, <4>1, <4>2, <6>2, SMTT(20)
        <5>2. CASE f_len <= pos + 1 + LinesAhead(file, seek + 1)
          BY <1>0, <2>3, <4>1, <4>2, <5>2
        <5> QED BY <2>1, <3>1, <5>1, <5>2 DEF AheadInv
      <4> QED BY <2>1, <2>2, <3>1, <3>3, <4>1, <4>3 DEF AheadInv
    <3> QED BY <2>1, <2>5, <3>2, <3>3 DEF ScanUp
  <2>6. CASE ScanDown
    <3>1. fp \notin file.nl /\ dir # HIST_UP /\ seek' = seek + 1
      BY <2>6 DEF ScanDown
    <3>2. fp \in {seek, seek + 1} /\ f_len <= pos + LinesAhead(file, fp)
      BY <2>1, <3>1 DEF AheadInv
    <3>3. f_len <= pos + LinesAhead(file, seek + 1)
      BY <1>0, <2>3, <3>1, <3>2
    <3>4. CASE phase' = "read"
      BY <1>0, <2>1, <2>2, <3>1, <3>3, <3>4 DEF AheadInv, StandsAt
    <3>5. CASE phase' = "scan" /\ fp' = seek + 1
      BY <1>0, <2>1, <2>2, <3>1, <3>3, <3>5 DEF AheadInv
    <3> QED BY <2>1, <2>6, <3>4, <3>5 DEF ScanDown
  <2> QED BY <1>5, <2>4, <2>5, <2>6 DEF Scan
<1>6. CASE ReadLine
  <2>1. /\ phase = "read" /\ phase' \in {"browse", "chopFault"} /\ file' = file
        /\ f_len' = f_len /\ pos' = pos /\ fp' = seek
    BY <1>6 DEF ReadLine, counts
  <2> QED BY <2>1 DEF AheadInv
<1>7. CASE UNCHANGED vars
  BY <1>7 DEF vars, counts, scan, AheadInv
<1>8. CASE NextPrompt \/ \E t \in Submitted : Interrupted(t) \/ HistSave(t)
  <2>1. /\ phase \in {"saved", "browse"} /\ phase' \in {"ready", "saved"}
        /\ file' = file /\ f_len' = f_len
    BY <1>8 DEF NextPrompt, Interrupted, HistSave, counts
  <2> QED BY <2>1 DEF AheadInv
<1>9. CASE HistMallocNoFile \/ HistResetPosNoFile \/ Exit \/ HistWriteCommand
           \/ HistWriteEnd \/ Killed \/ \E t \in Submitted : HistSaveFull(t)
  <2>1. phase' \notin {"ready", "browse", "scan", "read", "saved"}
    BY <1>9 DEF HistMallocNoFile, HistResetPosNoFile, Exit, HistWriteCommand,
       HistWriteEnd, WriteEnds, Writing, Killed, HistSaveFull
  <2> QED BY <2>1, AheadElsewhere
<1> QED BY <1>1, <1>2, <1>3, <1>4, <1>5, <1>6, <1>7, <1>8, <1>9 DEF Next

LEMMA AheadFinds ==
  ASSUME TypeOK, AheadInv
  PROVE  DownFindsNewLine
<1> SUFFICES ASSUME phase = "scan", dir = HIST_DOWN
             PROVE  \E q \in file.nl : q >= fp
  BY DEF DownFindsNewLine
<1>1. /\ file \in Text /\ fp \in Nat /\ pos \in Nat /\ f_len \in Nat
      /\ dir # HIST_UP /\ file.nl \subseteq Nat
  BY HistfileAssumption DEF TypeOK, Text
<1>2. LinesAhead(file, fp) \in Nat
  BY <1>1, LinesAheadStep
<1>3. fp \in file.nl \/ LinesAhead(file, fp) # 0
  BY <1>1, <1>2 DEF AheadInv
<1> QED BY <1>1, <1>3, LinesAheadBounds

\* A scan down has a newline in front of it on every file, clean or not, and
\* wherever browsing has left the stream: it never runs into the end of the file.
THEOREM DownEndsAtNewLine == Spec => []DownFindsNewLine
<1>1. TypeOK /\ AheadInv => DownFindsNewLine
  BY AheadFinds
<1> QED BY <1>1, TypeCorrect, InitAhead, NextAhead, PTL DEF Spec

\* NeverChopsEmpty: on a clean file prompt() always has a line to take the newline
\* off, until browsing comes back from the file into memory.
THEOREM AlwaysALine == Spec => []NeverChopsEmpty
BY BrowsingInSync, PTL

-----------------------------------------------------------------------------
(* On clean histories the arrow up implements HistoryCursor.               *)

\* What the theorem is about: the arrow up, one session, clean histories.  Arrow
\* down, and the file that a session leaves behind, do not implement the cursor.
UpOnClean ==
  Keys \subseteq {HIST_UP} /\ MaxSessions <= 1 /\ \A t \in InitFiles : Clean(t)

\* hist->pos counts the lines of the file this session found and the commands of
\* the session; a scan that runs goes up; what is shown is a line or a command.
CursorInv ==
  /\ base \in InitFiles /\ ~ crossed
  /\ sessions \in {0, 1}
  /\ sessions = 0 => phase = "off" /\ file = base /\ stored = <<>>
  /\ phase \in {"ready", "browse", "scan", "read", "saved"} =>
       file = base /\ f_len = CountLines(base)
  /\ phase = "browse" => pos <= f_len + Len(stored)
  /\ phase = "browse" => buf.src \in {"none", "memory", "file"}
  /\ phase \in {"scan", "read"} => dir = HIST_UP /\ pos + 1 <= f_len

LEMMA InitCursor ==
  ASSUME UpOnClean, Init
  PROVE  CursorInv
BY DEF Init, CursorInv

\* CursorInv of the phases in which nobody browses.
LEMMA CursorElsewhere ==
  ASSUME CursorInv, ~ crossed', base' = base, sessions' = sessions, sessions # 0,
         phase' \notin {"ready", "browse", "scan", "read", "saved"}
  PROVE  CursorInv'
BY DEF CursorInv

\* From memory the arrow up reads a command that was saved.
LEMMA UpReadsMemory ==
  ASSUME UpOnClean, TypeOK, CursorInv, NEW key \in Keys, ReadFromMemory(key)
  PROVE  /\ phase = "browse" /\ file' = file /\ f_len' = f_len /\ base' = base
         /\ stored' = stored /\ sessions' = sessions /\ pos' = pos - 1 /\ pos # 0
         /\ phase' = "browse" /\ buf'.src = "memory" /\ buf'.at = pos' - f_len
         /\ ~ crossed' /\ pos' <= f_len + Len(stored)
<1>0. pos \in Nat /\ f_len \in Nat /\ Len(stored) \in Nat /\ stored \in Seq(Text)
      /\ MaxCommands \in Nat /\ Len(stored) <= MaxCommands
  BY HistfileAssumption DEF TypeOK
<1>1. /\ phase = "browse" /\ file' = file /\ f_len' = f_len /\ base' = base
      /\ stored' = stored /\ sessions' = sessions /\ pos' = pos - 1 /\ pos # 0
      /\ Moved(key) = pos - 1
      /\ pos' + 1 > f_len /\ crossed' = (crossed \/ pos < f_len)
  BY <1>0 DEF UpOnClean, ReadFromMemory, Moved, OutOfBounds, Decr, counts, session
<1>2. /\ ~ crossed /\ ~ (pos < f_len) /\ pos - 1 - f_len < Len(stored)
      /\ pos' \in Nat /\ pos' <= f_len + Len(stored)
  BY <1>0, <1>1 DEF CursorInv
<1>3. ~ crossed'
  BY <1>1, <1>2, Zenon
<1>4. PICK k : k = pos - 1 - f_len
  OBVIOUS
<1>5. ~ (k >= MaxCommands) /\ k \notin Len(stored) .. MaxCommands - 1
  BY <1>0, <1>2, <1>4
<1>6. phase' = "browse" /\ buf'.src = "memory" /\ buf'.at = k
  BY <1>1, <1>4, <1>5 DEF ReadFromMemory
<1> QED BY <1>1, <1>2, <1>3, <1>4, <1>6

LEMMA NextCursor ==
  ASSUME UpOnClean, TypeOK, CountsAreCurrent, WriteInv, SyncInv, CursorInv, [Next]_vars,
         SyncInv'
  PROVE  CursorInv'
<1>0. /\ file \in Text /\ fp \in Nat /\ pos \in Nat /\ seek \in Nat
      /\ f_len \in Nat /\ Len(stored) \in Nat /\ sessions \in Nat /\ stored \in Seq(Text)
  BY DEF TypeOK
<1>1. ASSUME StartSession
      PROVE  /\ sessions = 0 /\ sessions' = 1 /\ base' = base /\ file' = file
             /\ file = base /\ ~ crossed' /\ stored' = <<>>
  BY <1>0, <1>1, HistfileAssumption DEF StartSession, CursorInv, UpOnClean
<1>2. CASE HistMalloc
  BY <1>1, <1>2 DEF HistMalloc, CursorInv, CountLines
<1>3. CASE HistMallocNoFile
  BY <1>1, <1>3 DEF HistMallocNoFile, CursorInv
<1>4. CASE HistResetPos
  BY <1>0, <1>4 DEF HistResetPos, counts, session, CursorInv, TypeOK
<1>5. ASSUME NEW key \in Keys, ReadFromMemory(key) PROVE CursorInv'
  BY <1>0, <1>5, UpReadsMemory DEF CursorInv
<1>6. ASSUME NEW key \in Keys, StartScan(key) PROVE CursorInv'
  <2>1. key = HIST_UP
    BY <1>6 DEF UpOnClean
  <2> QED BY <1>0, <1>6, <2>1 DEF StartScan, counts, session, CursorInv, Moved, OutOfBounds, Decr
<1>7. CASE Scan
  BY <1>7 DEF Scan, ScanHit, ScanUp, ScanDown, counts, session, CursorInv
<1>8. CASE ReadLine
  <2>1. /\ phase = "read" /\ file' = file /\ f_len' = f_len /\ base' = base
        /\ stored' = stored /\ sessions' = sessions /\ pos' = pos /\ crossed' = crossed
        /\ phase' \in {"browse", "chopFault"}
    BY <1>8 DEF ReadLine, counts, session
  <2>2. Clean(file) /\ ~ crossed /\ pos + 1 <= f_len /\ sessions # 0
    BY <2>1 DEF CursorInv, UpOnClean
  <2>3. phase' = "browse" /\ buf'.src = "file"
    BY <1>0, <2>1, <2>2 DEF SyncInv
  <2> QED BY <1>0, <2>1, <2>2, <2>3 DEF CursorInv
<1>9. CASE \E t \in Submitted : Interrupted(t) \/ HistSave(t)
  BY <1>9 DEF Interrupted, HistSave, counts, session, CursorInv
<1>10. CASE NextPrompt
  BY <1>10 DEF NextPrompt, counts, session, CursorInv
<1>11. CASE HistResetPosNoFile \/ Exit \/ HistWriteCommand \/ HistWriteEnd \/ Killed
            \/ \E t \in Submitted : HistSaveFull(t)
  <2>1. phase # "off"
    BY <1>11 DEF HistResetPosNoFile, Exit, HistWriteCommand, HistWriteEnd, Writing, Killed,
       HistSaveFull
  <2>2. /\ phase' \notin {"ready", "browse", "scan", "read", "saved"}
        /\ base' = base /\ sessions' = sessions /\ ~ crossed'
    BY <1>11 DEF HistResetPosNoFile, Exit, HistWriteCommand, HistWriteEnd, Writing, WriteEnds,
       Killed, HistSaveFull, session, CursorInv
  <2> QED BY <2>1, <2>2, CursorElsewhere DEF CursorInv
<1>12. CASE UNCHANGED vars
  BY <1>12 DEF vars, counts, scan, session, CursorInv
<1> QED BY <1>2, <1>3, <1>4, <1>5, <1>6, <1>7, <1>8, <1>9, <1>10, <1>11, <1>12 DEF Next

\* A step of the shell is a step of the cursor or changes nothing it sees.
LEMMA StepCursor ==
  ASSUME UpOnClean, TypeOK, CursorInv, SyncInv, CursorInv', SyncInv', [Next]_vars
  PROVE  [Abstract!Next]_(Abstract!vars)
<1>0. /\ file \in Text /\ base \in Text /\ pos \in Nat /\ f_len \in Nat
      /\ Len(stored) \in Nat /\ stored \in Seq(Text)
  BY DEF TypeOK
<1>a. ASSUME phase \notin {"browse", "scan", "read"}
      PROVE  Cursor = Total /\ Shown = Total
  BY <1>a DEF Cursor, Shown, Browsing
<1>b. ASSUME phase' \notin {"browse", "scan", "read"}
      PROVE  Cursor' = Total' /\ Shown' = Total'
  BY <1>b DEF Cursor, Shown, Browsing
<1>c. ASSUME Cursor' = Total', Shown' = Total', Total' = Total
      PROVE  Abstract!Next
  BY <1>c DEF Abstract!Next, Abstract!Drop, Abstract!Fresh
<1>d. ASSUME sessions # 0, base' = base, stored' = stored, sessions' = sessions
      PROVE  Total' = Total
  BY <1>d DEF Total
<1>1. ASSUME StartSession, phase' \in {"ready", "noFile"}
      PROVE  Abstract!Next
  <2>1. sessions = 0 /\ phase = "off" /\ sessions' # 0 /\ base' \in Text /\ stored' = <<>>
    BY <1>0, <1>1 DEF StartSession, CursorInv, UpOnClean, TypeOK
  <2>2. Total = 0 /\ Total' = CountLines(base') + 0
    BY <2>1 DEF Total
  <2>3. Total' \in Nat
    BY <2>1, <2>2, NewLinesFinite DEF CountLines
  <2> QED BY <1>1, <1>b, <2>2, <2>3 DEF Abstract!Next, Abstract!Start, Abstract!Fresh
<1>2. CASE HistMalloc \/ HistMallocNoFile
  BY <1>1, <1>2 DEF HistMalloc, HistMallocNoFile
<1>3. CASE HistResetPos
  <2>1. /\ phase = "ready" /\ phase' = "browse" /\ base' = base /\ stored' = stored
        /\ sessions' = sessions /\ pos' = f_len + Len(stored) /\ buf'.src = "none"
    BY <1>3 DEF HistResetPos, session, TypeOK
  <2>2. sessions # 0 /\ f_len = CountLines(base)
    BY <2>1 DEF CursorInv
  <2>3. Total = CountLines(base) + Len(stored) /\ Total' = Total
    BY <1>d, <2>1, <2>2 DEF Total
  <2>4. Cursor' = Total' /\ Shown' = Total'
    BY <2>1, <2>2, <2>3 DEF Cursor, Shown, Browsing
  <2> QED BY <1>c, <2>3, <2>4
<1>4. ASSUME NEW key \in Keys, ReadFromMemory(key) PROVE Abstract!Next
  <2>1. /\ phase = "browse" /\ base' = base /\ stored' = stored /\ sessions' = sessions
        /\ pos' = pos - 1 /\ pos # 0
    BY <1>4, UpReadsMemory
  <2>2. sessions # 0 /\ f_len = CountLines(base) /\ CountLines(base) \in Nat
    BY <1>0, <2>1, NewLinesFinite DEF CursorInv, CountLines
  <2>3. phase' = "browse" /\ buf'.src = "memory" /\ buf'.at = pos' - f_len
    BY <1>4, UpReadsMemory
  <2>4. Cursor = pos /\ Cursor' = pos - 1
    BY <2>1, <2>3 DEF Cursor
  <2>5. Shown' = pos - 1
    BY <1>0, <2>1, <2>2, <2>3 DEF Shown, Browsing
  <2> QED
    BY <1>0, <1>d, <2>1, <2>2, <2>4, <2>5 DEF Abstract!Next, Abstract!Up, Abstract!Goto
<1>5. ASSUME NEW key \in Keys, StartScan(key) PROVE UNCHANGED Abstract!vars
  <2>1. /\ phase = "browse" /\ phase' = "scan" /\ base' = base /\ dir' = HIST_UP
        /\ stored' = stored /\ sessions' = sessions /\ pos' = pos - 1 /\ pos # 0
        /\ buf' = buf /\ file' = file
    BY <1>0, <1>5 DEF UpOnClean, StartScan, Moved, OutOfBounds, Decr, counts, session
  <2>2. Total' = Total
    BY <1>d, <2>1 DEF CursorInv
  <2>3. Cursor' = Cursor
    BY <1>0, <2>1 DEF Cursor
  <2>4. Shown' = Shown
    BY <2>1, <2>2 DEF Shown, Browsing
  <2> QED BY <2>2, <2>3, <2>4 DEF Abstract!vars
<1>6. CASE Scan
  <2>1. /\ phase = "scan" /\ phase' \in {"scan", "read"} /\ base' = base /\ dir' = dir
        /\ stored' = stored /\ sessions' = sessions /\ pos' = pos
        /\ buf' = buf /\ file' = file
    BY <1>6 DEF Scan, ScanHit, ScanUp, ScanDown, counts, session
  <2>2. Total' = Total
    BY <1>d, <2>1 DEF CursorInv
  <2>3. Cursor' = Cursor
    BY <2>1 DEF Cursor
  <2>4. Shown' = Shown
    BY <2>1, <2>2 DEF Shown, Browsing
  <2> QED BY <2>2, <2>3, <2>4 DEF Abstract!vars
<1>7. CASE ReadLine
  <2>1. /\ phase = "read" /\ phase' \in {"browse", "chopFault"} /\ base' = base
        /\ stored' = stored /\ sessions' = sessions /\ pos' = pos
        /\ file' = file /\ f_len' = f_len /\ crossed' = crossed
    BY <1>7 DEF ReadLine, counts, session
  <2>2. sessions # 0 /\ dir = HIST_UP /\ pos + 1 <= f_len /\ Clean(file) /\ ~ crossed
    BY <2>1 DEF CursorInv, UpOnClean
  <2>3. phase' = "browse" /\ buf'.src = "file" /\ LineNo(file', buf'.at) = pos
    BY <1>0, <2>1, <2>2 DEF SyncInv
  <2>4. Cursor = pos + 1 /\ Cursor' = pos /\ Shown' = pos
    BY <2>1, <2>2, <2>3 DEF Cursor, Shown, Browsing
  <2> QED
    BY <1>0, <1>d, <2>1, <2>2, <2>4 DEF Abstract!Next, Abstract!Up, Abstract!Goto
<1>8. CASE \E t \in Submitted : Interrupted(t) \/ HistSaveFull(t)
  <2>1. /\ phase = "browse" /\ phase' \notin {"browse", "scan", "read"} /\ base' = base
        /\ stored' = stored /\ sessions' = sessions
    BY <1>8 DEF Interrupted, HistSaveFull, session
  <2>2. sessions # 0
    BY <2>1 DEF CursorInv
  <2> QED BY <1>b, <1>c, <1>d, <2>1, <2>2
<1>9. CASE \E t \in Submitted : HistSave(t)
  <2>1. /\ phase = "browse" /\ phase' = "saved" /\ base' = base /\ sessions' = sessions
        /\ Len(stored') = Len(stored) + 1
    BY <1>0, <1>9 DEF HistSave
  <2>2. Total = CountLines(base) + Len(stored) /\ Total' = CountLines(base) + Len(stored')
    BY <2>1 DEF CursorInv, Total
  <2>3. CountLines(base) \in Nat
    BY <1>0, NewLinesFinite DEF CountLines
  <2>4. Total' = Total + 1
    BY <1>0, <2>1, <2>2, <2>3
  <2> QED BY <1>b, <2>1, <2>4 DEF Abstract!Next, Abstract!Save, Abstract!Fresh
<1>10. CASE HistResetPosNoFile \/ NextPrompt \/ Exit \/ HistWriteCommand \/ HistWriteEnd \/ Killed
  <2>1. /\ phase # "off" /\ phase' \notin {"browse", "scan", "read"} /\ base' = base
        /\ stored' = stored /\ sessions' = sessions
    BY <1>10 DEF HistResetPosNoFile, NextPrompt, Exit, HistWriteCommand, HistWriteEnd, Writing,
       WriteEnds, Killed, session
  <2>2. sessions # 0
    BY <2>1 DEF CursorInv
  <2> QED BY <1>b, <1>c, <1>d, <2>1, <2>2
<1>11. CASE UNCHANGED vars
  BY <1>11 DEF vars, session, scan, Abstract!vars, Total, Cursor, Shown, Browsing
<1> QED
  BY <1>2, <1>3, <1>4, <1>5, <1>6, <1>7, <1>8, <1>9, <1>10, <1>11 DEF Next

LEMMA StartCursor == Init => Abstract!Init
BY DEF Init, Abstract!Init, Total, Cursor, Shown, Browsing

\* ImplementsCursor: however long the lines and the session are, the n-th press of
\* the arrow up shows the n-th newest command, through memory and into the file.
THEOREM UpImplementsCursor ==
  ASSUME UpOnClean
  PROVE  Spec => ImplementsCursor
BY StartCursor, InitCursor, NextCursor, StepCursor, TypeCorrect, CountsCurrent,
   InitSync, NextSync, InitWriteInv, NextWriteInv, PTL DEF Spec, ImplementsCursor, Abstract!Spec

-----------------------------------------------------------------------------
(* What two shells append to one file, as texts.                           *)

\* s and behind it y, with x somewhere in y; not inside y when the whole that y is
\* a part of fits the buffer of a stream.
Split(f, s, x, y, whole) ==
  \E n \in 0 .. y.size : /\ f = Cat(Cat(s, First(y, n)), Cat(x, Rest(y, n)))
                         /\ whole.size <= BufSize => n \in {0, y.size}

\* f is s with x and y behind it, parts of mx and my, and neither has lost
\* anything; what fits the buffer of a stream is in one piece.
Woven(f, s, x, y, mx, my) ==
  /\ f.size = s.size + x.size + y.size
  /\ CountLines(f) = CountLines(s) + CountLines(x) + CountLines(y)
  /\ IsPrefixOf(s, f)
  /\ mx.size <= BufSize => Split(f, s, x, y, my)
  /\ my.size <= BufSize => Split(f, s, y, x, mx)

\* The lines of two texts add up.
LEMMA CountLinesCat ==
  ASSUME NEW a \in Text, NEW b \in Text
  PROVE  CountLines(Cat(a, b)) = CountLines(a) + CountLines(b)
<1> DEFINE moved == {a.size + q : q \in b.nl}
           f == [q \in b.nl |-> a.size + q]
<1>1. /\ a.size \in Nat /\ a.nl \subseteq Nat /\ b.nl \subseteq Nat
      /\ \A q \in a.nl : q < a.size
  BY DEF Text
<1>2. /\ IsFiniteSet(a.nl) /\ IsFiniteSet(b.nl)
      /\ Cardinality(a.nl) \in Nat /\ Cardinality(b.nl) \in Nat
  BY NewLinesFinite
<1>3. f \in Bijection(b.nl, moved)
  BY <1>1 DEF Bijection, Injection, Surjection, IsInjective
<1>4. IsFiniteSet(moved) /\ Cardinality(moved) = Cardinality(b.nl)
  BY <1>2, <1>3, FS_Bijection DEF ExistsBijection
<1>5. a.nl \cap moved = {}
  BY <1>1
<1>6. Cardinality(a.nl \cup moved) = Cardinality(a.nl) + Cardinality(moved) - 0
  BY <1>2, <1>4, <1>5, FS_Union, FS_EmptySet
<1>7. Cat(a, b).nl = a.nl \cup moved
  BY DEF Cat
<1> QED BY <1>2, <1>4, <1>6, <1>7 DEF CountLines

\* An empty text is the one without characters.
LEMMA EmptyText ==
  ASSUME NEW t \in Text
  PROVE  /\ t.size = 0 <=> t = Empty
         /\ Cat(Empty, t) = t
<1>1. ASSUME t.size = 0 PROVE t = Empty
  <2>1. t.nl = {}
    BY <1>1 DEF Text
  <2> QED BY <1>1, <2>1, TextsAreTexts, TextEqual DEF Empty, Plain
<1>2. Cat(Empty, t) = t
  <2>1. Cat(Empty, t) \in Text
    BY CatType, TextsAreTexts
  <2>2. t.nl \subseteq Nat /\ t.size \in Nat
    BY DEF Text
  <2>3. {0 + q : q \in t.nl} = t.nl
    BY <2>2
  <2>4. Cat(Empty, t).size = t.size /\ Cat(Empty, t).nl = t.nl
    BY <2>2, <2>3 DEF Cat, Empty, Plain
  <2> QED BY <2>1, <2>4, TextEqual
<1> QED BY <1>1, <1>2 DEF Empty, Plain

\* Where a text is cut, what is appended belongs to the second part.
LEMMA CutCat ==
  ASSUME NEW a \in Text, NEW b \in Text, NEW n \in 0 .. a.size
  PROVE  /\ First(Cat(a, b), n) = First(a, n)
         /\ Rest(Cat(a, b), n) = Cat(Rest(a, n), b)
         /\ First(a, n) \in Text /\ Rest(a, n) \in Text
<1>1. /\ a.size \in Nat /\ b.size \in Nat /\ n \in Nat /\ n <= a.size
      /\ a.nl \subseteq Nat /\ b.nl \subseteq Nat
  BY DEF Text
<1>2. First(a, n) \in Text /\ Rest(a, n) \in Text
  BY FirstRestType
<1>3. Cat(a, b) \in Text /\ n \in 0 .. Cat(a, b).size
  BY <1>1, CatType DEF Cat
<1>4. First(Cat(a, b), n) \in Text /\ Rest(Cat(a, b), n) \in Text
  BY <1>3, FirstRestType
<1>5. {q \in a.nl \cup {a.size + x : x \in b.nl} : q < n} = {q \in a.nl : q < n}
  BY <1>1
<1>6. First(Cat(a, b), n) = First(a, n)
  BY <1>5 DEF First, Cat
<1>7. Rest(Cat(a, b), n).nl = Cat(Rest(a, n), b).nl
  <2>1. ASSUME NEW q \in b.nl
        PROVE  (a.size + q) - n = (a.size - n) + q /\ a.size + q >= n
    BY <1>1
  <2>2. {q \in a.nl \cup {a.size + x : x \in b.nl} : q >= n}
        = {q \in a.nl : q >= n} \cup {a.size + x : x \in b.nl}
    BY <2>1
  <2>3. {q - n : q \in {y \in a.nl : y >= n} \cup {a.size + x : x \in b.nl}}
        = {q - n : q \in {y \in a.nl : y >= n}} \cup {(a.size + x) - n : x \in b.nl}
    OBVIOUS
  <2>4. {(a.size + x) - n : x \in b.nl} = {(a.size - n) + x : x \in b.nl}
    BY <2>1
  <2>5. Rest(Cat(a, b), n).nl
        = {q - n : q \in {y \in a.nl \cup {a.size + x : x \in b.nl} : y >= n}}
    BY DEF Rest, Cat
  <2>6. Cat(Rest(a, n), b).nl
        = {q - n : q \in {y \in a.nl : y >= n}} \cup {(a.size - n) + x : x \in b.nl}
    BY DEF Rest, Cat
  <2> QED BY <2>2, <2>3, <2>4, <2>5, <2>6
<1>8. Rest(Cat(a, b), n).size = Cat(Rest(a, n), b).size
  BY <1>1 DEF Rest, Cat
<1>9. Cat(Rest(a, n), b) \in Text
  BY <1>2, CatType
<1>10. Rest(Cat(a, b), n) = Cat(Rest(a, n), b)
  BY <1>4, <1>7, <1>8, <1>9, TextEqual
<1> QED BY <1>2, <1>6, <1>10

\* At its ends a text is cut into all of it and nothing.
LEMMA CutEnds ==
  ASSUME NEW a \in Text
  PROVE  /\ First(a, 0) = Empty /\ Rest(a, 0) = a
         /\ First(a, a.size) = a /\ Rest(a, a.size) = Empty
<1>1. a.size \in Nat /\ a.nl \subseteq Nat /\ \A q \in a.nl : q < a.size
  BY DEF Text
<1>2. /\ 0 \in 0 .. a.size /\ a.size \in 0 .. a.size
      /\ First(a, 0) \in Text /\ Rest(a, 0) \in Text
      /\ First(a, a.size) \in Text /\ Rest(a, a.size) \in Text
  BY <1>1, FirstRestType
<1>3. First(a, 0) = Empty
  BY <1>2, EmptyText DEF First
<1>4. Rest(a, a.size) = Empty
  <2>1. Rest(a, a.size).size = 0
    BY <1>1 DEF Rest
  <2> QED BY <1>2, <2>1, EmptyText
<1>5. Rest(a, 0) = a
  BY <1>2, <1>3, FirstThenRest, EmptyText
<1>6. First(a, a.size) = a
  BY <1>2, <1>4, FirstThenRest, CatEmpty
<1> QED BY <1>3, <1>4, <1>5, <1>6

\* A text and what is appended to it can be taken apart again.
LEMMA CutBehind ==
  ASSUME NEW a \in Text, NEW b \in Text
  PROVE  First(Cat(a, b), a.size) = a /\ Rest(Cat(a, b), a.size) = b
<1>1. a.size \in 0 .. a.size
  BY SizeType
<1> QED BY <1>1, CutCat, CutEnds, EmptyText

LEMMA SplitParts ==
  ASSUME NEW s \in Text, NEW x \in Text, NEW y \in Text, NEW n \in 0 .. y.size
  PROVE  /\ First(y, n) \in Text /\ Rest(y, n) \in Text
         /\ Cat(s, First(y, n)) \in Text /\ Cat(x, Rest(y, n)) \in Text
BY CutCat, CatType, TextsAreTexts

\* Appending to the outer text, or to the inner one before the outer one has grown
\* behind it, keeps what Split says.
LEMMA SplitOuter ==
  ASSUME NEW f, NEW s \in Text, NEW x \in Text, NEW y \in Text, NEW z \in Text, NEW whole,
         Split(f, s, x, y, whole),
         whole.size <= BufSize => z = Empty \/ y = Empty
  PROVE  Split(Cat(f, z), s, x, Cat(y, z), whole)
<1>1. PICK n \in 0 .. y.size : /\ f = Cat(Cat(s, First(y, n)), Cat(x, Rest(y, n)))
                               /\ whole.size <= BufSize => n \in {0, y.size}
  BY DEF Split
<1>2. y.size \in Nat /\ z.size \in Nat /\ Cat(y, z).size = y.size + z.size
  BY SizeType DEF Cat
<1>3. n \in 0 .. Cat(y, z).size
  BY <1>1, <1>2
<1>4. /\ First(Cat(y, z), n) = First(y, n)
      /\ Rest(Cat(y, z), n) = Cat(Rest(y, n), z)
  BY CutCat
<1>5. Cat(f, z) = Cat(Cat(s, First(y, n)), Cat(x, Cat(Rest(y, n), z)))
  <2>1. /\ Rest(y, n) \in Text /\ Cat(s, First(y, n)) \in Text
        /\ Cat(x, Rest(y, n)) \in Text
    BY SplitParts
  <2>2. Cat(f, z) = Cat(Cat(s, First(y, n)), Cat(Cat(x, Rest(y, n)), z))
    BY <1>1, <2>1, CatAssociative
  <2> QED BY <2>1, <2>2, CatAssociative
<1>6. whole.size <= BufSize => n \in {0, Cat(y, z).size}
  <2>1. CASE z = Empty
    BY <1>1, <2>1, CatEmpty
  <2>2. CASE y = Empty
    BY <1>1, <1>2, <2>2, EmptyText
  <2> QED BY <2>1, <2>2
<1> QED BY <1>3, <1>4, <1>5, <1>6 DEF Split

LEMMA SplitInner ==
  ASSUME NEW f, NEW s \in Text, NEW x \in Text, NEW y \in Text, NEW z \in Text, NEW whole,
         Split(f, s, x, y, whole), z = Empty \/ x = Empty
  PROVE  Split(Cat(f, z), s, Cat(x, z), y, whole)
<1>1. PICK n \in 0 .. y.size : /\ f = Cat(Cat(s, First(y, n)), Cat(x, Rest(y, n)))
                               /\ whole.size <= BufSize => n \in {0, y.size}
  BY DEF Split
<1>2. /\ First(y, n) \in Text /\ Rest(y, n) \in Text
      /\ Cat(s, First(y, n)) \in Text /\ Cat(x, Rest(y, n)) \in Text
  BY SplitParts
<1>3. CASE z = Empty
  <2>1. Cat(f, z) = f /\ Cat(x, z) = x
    BY <1>1, <1>2, <1>3, CatType, CatEmpty
  <2> QED BY <2>1
<1>4. CASE x = Empty
  <2>1. f = Cat(s, y)
    <3>1. f = Cat(Cat(s, First(y, n)), Rest(y, n))
      BY <1>1, <1>2, <1>4, EmptyText
    <3> QED BY <1>2, <3>1, CatAssociative, FirstThenRest
  <2>2. Cat(x, z) = z /\ Cat(z, Empty) = z
    BY <1>4, EmptyText, CatEmpty
  <2>3. y.size \in 0 .. y.size /\ First(y, y.size) = y /\ Rest(y, y.size) = Empty
    BY SizeType, CutEnds
  <2>4. Cat(f, z) = Cat(Cat(s, First(y, y.size)), Cat(Cat(x, z), Rest(y, y.size)))
    BY <2>1, <2>2, <2>3
  <2> QED BY <2>3, <2>4 DEF Split
<1> QED BY <1>3, <1>4

\* One of the two appends z.
LEMMA WovenAppend ==
  ASSUME NEW f \in Text, NEW s \in Text, NEW x \in Text, NEW y \in Text, NEW z \in Text,
         NEW mx \in Text, NEW my \in Text, Woven(f, s, x, y, mx, my),
         mx.size <= BufSize => z = Empty \/ x = Empty
  PROVE  Woven(Cat(f, z), s, Cat(x, z), y, mx, my)
<1>1. /\ f.size \in Nat /\ s.size \in Nat /\ x.size \in Nat /\ y.size \in Nat
      /\ z.size \in Nat
  BY SizeType
<1>2. Cat(f, z).size = s.size + Cat(x, z).size + y.size
  BY <1>1 DEF Woven, Cat
<1>3. CountLines(Cat(f, z)) = CountLines(s) + CountLines(Cat(x, z)) + CountLines(y)
  <2>1. /\ CountLines(f) \in Nat /\ CountLines(s) \in Nat /\ CountLines(x) \in Nat
        /\ CountLines(y) \in Nat /\ CountLines(z) \in Nat
    BY NewLinesFinite DEF CountLines
  <2>2. /\ CountLines(Cat(f, z)) = CountLines(f) + CountLines(z)
        /\ CountLines(Cat(x, z)) = CountLines(x) + CountLines(z)
    BY CountLinesCat
  <2> QED BY <2>1, <2>2 DEF Woven
<1>4. IsPrefixOf(s, Cat(f, z))
  <2>1. IsPrefixOf(s, f) /\ IsPrefixOf(f, Cat(f, z)) /\ Cat(f, z) \in Text
    BY CatPrefix, CatType DEF Woven
  <2> QED BY <2>1, PrefixTransitive
<1>5. mx.size <= BufSize => Split(Cat(f, z), s, Cat(x, z), y, my)
  BY SplitInner DEF Woven
<1>6. my.size <= BufSize => Split(Cat(f, z), s, y, Cat(x, z), mx)
  BY SplitOuter DEF Woven
<1> QED BY <1>2, <1>3, <1>4, <1>5, <1>6 DEF Woven

\* It does not matter which is which.
LEMMA WovenSwap ==
  ASSUME NEW f \in Text, NEW s \in Text, NEW x \in Text, NEW y \in Text,
         NEW mx, NEW my, Woven(f, s, x, y, mx, my)
  PROVE  Woven(f, s, y, x, my, mx)
<1>1. /\ f.size \in Nat /\ s.size \in Nat /\ x.size \in Nat /\ y.size \in Nat
      /\ CountLines(s) \in Nat /\ CountLines(x) \in Nat /\ CountLines(y) \in Nat
  BY SizeType, NewLinesFinite DEF CountLines
<1> QED BY <1>1 DEF Woven

\* What a shell will write may still change as long as it has written nothing.
LEMMA WovenLater ==
  ASSUME NEW f \in Text, NEW s \in Text, NEW y \in Text,
         NEW mx, NEW my, NEW mz, Woven(f, s, Empty, y, mx, my),
         mz.size <= BufSize => mx.size <= BufSize
  PROVE  Woven(f, s, Empty, y, mz, my)
<1>1. ASSUME Split(f, s, y, Empty, mx)
      PROVE  Split(f, s, y, Empty, mz)
  <2>1. Empty.size = 0 /\ 0 .. 0 = {0}
    BY DEF Empty, Plain
  <2> QED BY <1>1, <2>1 DEF Split
<1> QED BY <1>1 DEF Woven

\* At the start nobody has written.
LEMMA WovenStart ==
  ASSUME NEW s \in Text, NEW mx, NEW my
  PROVE  Woven(s, s, Empty, Empty, mx, my)
<1>1. /\ Empty.size = 0 /\ 0 \in 0 .. 0 /\ CountLines(Empty) = 0
      /\ s.size \in Nat /\ CountLines(s) \in Nat
  BY SizeType, NewLinesFinite, FS_EmptySet DEF Empty, Plain, CountLines
<1>2. First(Empty, 0) = Empty /\ Rest(Empty, 0) = Empty
  BY TextsAreTexts, CutEnds
<1>3. s = Cat(Cat(s, Empty), Cat(Empty, Empty))
  BY TextsAreTexts, CatEmpty
<1>4. \A whole : Split(s, s, Empty, Empty, whole)
  BY <1>1, <1>2, <1>3 DEF Split
<1> QED BY <1>1, <1>4, CatPrefix DEF Woven

-----------------------------------------------------------------------------
(* A shell that is not alone.  What follows does not use what is in the    *)
(* file, so it holds as well where another shell writes into it.           *)

\* All that the session has saved, and what of it is in the file.
Mine == journal[Len(journal)]
Put == IF phase \in {"exited", "limitFault"} THEN Mine
       ELSE IF Writing THEN First(journal[wi + 1], journal[wi + 1].size - out.size)
       ELSE Empty

\* The journal adds up the saved commands; what hist_write() has gone through is
\* in the file or, behind that, in the stream, and all in the stream while it fits.
JournalInv ==
  /\ Len(journal) = Len(stored) + 1 /\ journal[1] = Empty
  /\ \A i \in 1 .. Len(stored) : stored[i].size # 0
  /\ \A i \in 1 .. Len(stored) : journal[i + 1] = Cat(journal[i], Entry(stored[i]))
  /\ \A i \in 1 .. Len(journal) : journal[i].size <= Mine.size
  /\ sessions = 0 => phase = "off" /\ journal = <<Empty>>
  /\ Writing => /\ out.size <= journal[wi + 1].size
                /\ Cat(Put, out) = journal[wi + 1]
                /\ Mine.size <= BufSize => Put = Empty
  /\ ~ Writing => out = Empty

\* What a step of a shell does to the file and to what the shell has put there.
SessionStep ==
  \/ /\ phase \in {"off", "exited"} /\ phase' \in {"ready", "noFile"}
     /\ sessions < MaxSessions /\ sessions' = sessions + 1
     /\ file' = file /\ base' = file /\ journal' = <<Empty>>
  \/ phase' = "off" /\ sessions' = sessions /\ sessions # 0
  \/ /\ base' = base /\ sessions' = sessions
     /\ phase = "off" => phase' = "off"
     /\ \E x \in Text : /\ file' = Cat(file, x) /\ Put' = Cat(Put, x)
                        /\ Mine.size <= BufSize => x = Empty \/ Put = Empty
     /\ \/ journal' = journal
        \/ Put = Empty /\ file' = file /\ Put' = Empty /\ Mine.size <= Mine'.size

\* fputs() adds to the file a first part of what is in the buffer and of the new
\* text, and nothing as long as the buffer holds it all.
LEMMA FputsAdds ==
  ASSUME file \in Text, out \in Text, NEW t \in Text, Fputs(t)
  PROVE  \E x \in Text : /\ file' = Cat(file, x) /\ out' \in Text
                         /\ Cat(x, out') = Cat(out, t)
                         /\ Cat(out, t).size <= BufSize => x = Empty
<1> DEFINE all == Cat(out, t)
<1>1. all \in Text /\ all.size \in Nat
  BY CatType, SizeType
<1>2. CASE all.size <= BufSize
  <2>1. out' = all /\ file' = file
    BY <1>2 DEF Fputs
  <2>2. file' = Cat(file, Empty) /\ Cat(Empty, out') = all /\ Empty \in Text
    BY <1>1, <2>1, CatEmpty, EmptyText, TextsAreTexts
  <2> QED BY <1>1, <2>1, <2>2
<1>3. CASE ~ (all.size <= BufSize)
  <2>1. PICK n \in all.size - BufSize .. all.size :
          file' = Cat(file, First(all, n)) /\ out' = Rest(all, n)
    BY <1>3 DEF Fputs
  <2>2. n \in 0 .. all.size
    BY <1>1, <1>3, <2>1, HistfileAssumption
  <2>3. First(all, n) \in Text /\ Rest(all, n) \in Text
        /\ Cat(First(all, n), Rest(all, n)) = all
    BY <1>1, <2>2, FirstRestType, FirstThenRest
  <2> QED BY <1>3, <2>1, <2>3
<1> QED BY <1>2, <1>3

\* The texts of a session that writes.
LEMMA WritingTypes ==
  ASSUME TypeOK, JournalInv
  PROVE  /\ Mine \in Text /\ Put \in Text /\ Len(stored) \in Nat
         /\ Len(journal) = Len(stored) + 1 /\ file \in Text /\ out \in Text /\ wi \in Nat
         /\ \A i \in 1 .. Len(stored) : stored[i] \in Text
         /\ \A i \in 1 .. Len(stored) + 1 : journal[i] \in Text
<1>1. /\ Len(stored) \in Nat /\ Len(journal) = Len(stored) + 1 /\ file \in Text
      /\ out \in Text /\ wi \in Nat
      /\ Writing => wi <= Len(stored)
      /\ \A i \in 1 .. Len(stored) : stored[i] \in Text
      /\ \A i \in 1 .. Len(stored) + 1 : journal[i] \in Text
  BY DEF TypeOK
<1>2. Mine \in Text
  BY <1>1 DEF Mine
<1>3. ASSUME Writing
      PROVE  First(journal[wi + 1], journal[wi + 1].size - out.size) \in Text
  <2>1. wi + 1 \in 1 .. Len(stored) + 1
    BY <1>1, <1>3
  <2>2. PICK j \in Text : j = journal[wi + 1]
    BY <1>1, <2>1
  <2>3. out.size <= j.size
    BY <1>3, <2>2 DEF JournalInv
  <2>4. j.size - out.size \in 0 .. j.size
    BY <1>1, <2>3, SizeType
  <2> QED BY <2>2, <2>4, FirstRestType
<1>4. Put \in Text
  BY <1>2, <1>3, TextsAreTexts DEF Put
<1> QED BY <1>1, <1>2, <1>4

LEMMA InitJournal == Init => JournalInv
<1> SUFFICES ASSUME Init PROVE JournalInv
  OBVIOUS
<1>1. /\ journal = <<Empty>> /\ stored = <<>> /\ out = Empty /\ phase = "off"
  BY DEF Init
<1>2. Len(journal) = 1 /\ journal[1] = Empty /\ Len(stored) = 0
  BY <1>1
<1>3. \A i \in 1 .. Len(journal) : journal[i].size <= Mine.size
  BY <1>2 DEF Mine, Empty, Plain
<1> QED BY <1>1, <1>2, <1>3 DEF JournalInv, Writing

\* JournalInv and SessionStep of the steps that change nothing they are about.
LEMMA SessionIdle ==
  ASSUME TypeOK, JournalInv, UNCHANGED <<file, out, session>>, ~ Writing, ~ Writing',
         sessions = 0 => phase' = "off", phase = "off" => phase' = "off",
         phase' \in {"exited", "limitFault"} <=> phase \in {"exited", "limitFault"}
  PROVE  JournalInv' /\ SessionStep
<1>1. /\ file' = file /\ out' = out /\ stored' = stored /\ base' = base
      /\ journal' = journal /\ sessions' = sessions
  BY DEF session
<1>2. JournalInv'
  BY <1>1 DEF JournalInv, Mine
<1>3. Put' = Put
  BY <1>1 DEF Put, Mine
<1>4. file' = Cat(file, Empty) /\ Put' = Cat(Put, Empty)
  BY <1>1, <1>3, WritingTypes, CatEmpty
<1> QED BY <1>1, <1>2, <1>4, TextsAreTexts DEF SessionStep

LEMMA NextJournal ==
  ASSUME TypeOK, JournalInv, [Next]_vars
  PROVE  JournalInv' /\ SessionStep
<1> DEFINE n == Len(stored)
<1>0. /\ Mine \in Text /\ Put \in Text /\ n \in Nat /\ Len(journal) = n + 1
      /\ file \in Text /\ out \in Text /\ wi \in Nat
      /\ \A i \in 1 .. n : stored[i] \in Text
      /\ \A i \in 1 .. n + 1 : journal[i] \in Text
  BY WritingTypes
<1>1. CASE HistMalloc \/ HistMallocNoFile
  <2>1. /\ base' = file /\ file' = file /\ stored' = <<>> /\ journal' = <<Empty>>
        /\ out' = out /\ phase \in {"off", "exited"} /\ phase' \in {"ready", "noFile"}
        /\ sessions < MaxSessions /\ sessions' = sessions + 1
    BY <1>1 DEF HistMalloc, HistMallocNoFile, StartSession, write
  <2>2. Len(journal') = 1 /\ Len(stored') = 0 /\ journal'[1] = Empty
    BY <2>1
  <2>3. ~ Writing /\ ~ Writing' /\ out' = Empty
    BY <2>1 DEF Writing, JournalInv
  <2>4. \A i \in 1 .. Len(journal') : journal'[i].size <= Mine'.size
    BY <2>2 DEF Mine, Empty, Plain
  <2>5. sessions' # 0
    BY <2>1 DEF TypeOK
  <2>6. JournalInv'
    BY <2>2, <2>3, <2>4, <2>5 DEF JournalInv
  <2> QED BY <2>1, <2>6 DEF SessionStep
<1>2. CASE HistResetPos \/ HistResetPosNoFile \/ Scan \/ ReadLine \/ NextPrompt
  BY <1>2, SessionIdle DEF HistResetPos, HistResetPosNoFile, Scan, JournalInv,
     ScanHit, ScanUp, ScanDown, ReadLine, NextPrompt, write, Writing
<1>3. ASSUME NEW key \in Keys, ReadFromMemory(key) \/ StartScan(key)
      PROVE  JournalInv' /\ SessionStep
  BY <1>3, SessionIdle DEF ReadFromMemory, StartScan, write, Writing, JournalInv
<1>4. ASSUME NEW t \in Submitted, Interrupted(t)
      PROVE  JournalInv' /\ SessionStep
  BY <1>4, SessionIdle DEF Interrupted, write, Writing, JournalInv
<1>5. ASSUME NEW t \in Submitted, HistSave(t)
      PROVE  JournalInv' /\ SessionStep
  <2>1. t \in Text /\ t.size # 0
    BY SubmittedType, HistfileAssumption, SizeType
       DEF Submitted, TypeOK, Cat, NewLine, LineOf
  <2>2. PICK s \in CopiedLine(t) :
          /\ stored' = Append(stored, s)
          /\ journal' = Append(journal, Cat(Mine, Entry(s)))
    BY <1>5 DEF HistSave, Mine
  <2>3. s \in Text /\ s.size # 0
    BY <2>1, <2>2, CopiedLineType
  <2> DEFINE more == Cat(Mine, Entry(s))
  <2>4. more \in Text /\ more.size = Mine.size + Entry(s).size
        /\ Entry(s) \in Text /\ more.size \in Nat /\ Mine.size \in Nat
        /\ Mine.size <= more.size
    <3>1. more \in Text /\ Entry(s) \in Text
      BY <1>0, <2>3, CatType, EntryType
    <3> QED BY <1>0, <3>1, SizeType DEF Cat
  <2>5. /\ Len(stored') = n + 1 /\ stored'[n + 1] = s
        /\ \A i \in 1 .. n : stored'[i] = stored[i]
    BY <2>2, <2>3, AppendText DEF TypeOK
  <2>6. /\ Len(journal') = n + 2 /\ journal'[n + 2] = more
        /\ \A i \in 1 .. n + 1 : journal'[i] = journal[i]
    BY <1>0, <2>2, <2>4, AppendText DEF TypeOK
  <2>7. Mine' = more /\ journal[n + 1] = Mine
    BY <1>0, <2>6 DEF Mine
  <2>8. ASSUME NEW i \in 1 .. n + 1
        PROVE  /\ stored'[i].size # 0
               /\ journal'[i + 1] = Cat(journal'[i], Entry(stored'[i]))
    <3>1. CASE i = n + 1
      BY <1>0, <3>1, <2>3, <2>5, <2>6, <2>7
    <3>2. CASE i \in 1 .. n
      BY <1>0, <3>2, <2>5, <2>6 DEF JournalInv
    <3> QED BY <1>0, <3>1, <3>2
  <2>9. ASSUME NEW i \in 1 .. n + 2 PROVE journal'[i].size <= Mine'.size
    <3>1. CASE i = n + 2
      BY <2>4, <2>6, <2>7, <3>1
    <3>2. CASE i \in 1 .. n + 1
      <4>1. journal[i].size <= Mine.size /\ journal[i].size \in Nat
        BY <1>0, <3>2, SizeType DEF JournalInv
      <4> QED BY <2>4, <2>6, <2>7, <3>2, <4>1
    <3> QED BY <1>0, <3>1, <3>2
  <2>10. /\ phase = "browse" /\ phase' = "saved" /\ file' = file /\ out' = out
         /\ base' = base /\ sessions' = sessions
    BY <1>5 DEF HistSave, write
  <2>11. ~ Writing /\ ~ Writing' /\ Put = Empty /\ Put' = Empty /\ out' = Empty
         /\ sessions' # 0
    BY <2>10 DEF Writing, Put, JournalInv
  <2>12. JournalInv'
    <3>1. journal'[1] = Empty
      BY <1>0, <2>6 DEF JournalInv
    <3> QED BY <1>0, <2>5, <2>6, <2>8, <2>9, <2>11, <3>1 DEF JournalInv
  <2>13. /\ file' = Cat(file, Empty) /\ Put' = Cat(Put, Empty) /\ Empty \in Text
         /\ Mine.size <= Mine'.size
    BY <1>0, <2>4, <2>7, <2>10, <2>11, CatEmpty, TextsAreTexts
  <2> QED BY <2>10, <2>11, <2>12, <2>13 DEF SessionStep
<1>6. CASE Exit \/ \E t \in Submitted : HistSaveFull(t)
  <2>1. /\ wi' = 0 /\ UNCHANGED <<file, out, stored, base, journal, sessions>>
        /\ phase' \in {"exiting", "flushing"} /\ phase \in {"saved", "browse"}
    BY <1>6 DEF Exit, HistSaveFull, session
  <2>2. ~ Writing /\ Writing' /\ out = Empty /\ Put = Empty /\ sessions # 0
        /\ journal[1] = Empty /\ journal[wi' + 1] = Empty
    BY <2>1 DEF Writing, Put, JournalInv
  <2>3. Put' = Empty
    <3>1. Put' = First(Empty, Empty.size - Empty.size)
      BY <2>1, <2>2 DEF Put, Writing
    <3> QED BY <3>1, CutEnds, TextsAreTexts DEF Empty, Plain
  <2>4. Cat(Put', out') = journal'[wi' + 1] /\ out'.size <= journal'[wi' + 1].size
    BY <2>1, <2>2, <2>3, CatEmpty, TextsAreTexts DEF Empty, Plain
  <2>5. JournalInv'
    BY <2>1, <2>2, <2>3, <2>4 DEF JournalInv, Mine
  <2>6. file' = Cat(file, Empty) /\ Put' = Cat(Put, Empty) /\ Empty \in Text
    BY <1>0, <2>1, <2>2, <2>3, CatEmpty, TextsAreTexts
  <2> QED BY <2>1, <2>2, <2>5, <2>6 DEF SessionStep
<1>7. CASE HistWriteCommand
  <2>1. /\ Writing /\ wi < n /\ wi' = wi + 1
        /\ UNCHANGED <<phase, stored, base, journal, sessions>>
    BY <1>7 DEF HistWriteCommand, session
  <2>2. wi + 1 \in 1 .. n /\ wi + 1 \in 1 .. n + 1 /\ wi + 2 \in 1 .. n + 1
        /\ wi + 1 + 1 = wi + 2 /\ wi' + 1 = wi + 2
    BY <1>0, <2>1
  <2>3. PICK e \in Text : e = Entry(stored[wi + 1])
    BY <1>0, <2>2, EntryType
  <2>4. PICK j \in Text : j = journal[wi + 1]
    BY <1>0, <2>2
  <2>5. PICK k \in Text : k = journal[wi + 2]
    BY <1>0, <2>2
  <2>6. /\ Cat(Put, out) = j
        /\ Mine.size <= BufSize => Put = Empty
        /\ k = Cat(j, e) /\ k.size <= Mine.size
    <3>1. journal[wi + 1 + 1] = Cat(journal[wi + 1], Entry(stored[wi + 1]))
      BY <2>2 DEF JournalInv
    <3>2. journal[wi + 2].size <= Mine.size
      BY <1>0, <2>2 DEF JournalInv
    <3> QED BY <2>1, <2>2, <2>3, <2>4, <2>5, <3>1, <3>2 DEF JournalInv
  <2>7. Fputs(e)
    BY <1>7, <2>2, <2>3 DEF HistWriteCommand, JournalInv
  <2>8. PICK x \in Text : /\ file' = Cat(file, x) /\ out' \in Text
                          /\ Cat(x, out') = Cat(out, e)
                          /\ Cat(out, e).size <= BufSize => x = Empty
    <3>1. file \in Text /\ out \in Text
      BY <1>0
    <3> QED BY <2>7, <3>1, FputsAdds
  <2>9. k = Cat(Cat(Put, x), out') /\ Cat(Put, x) \in Text
    <3>1. k = Cat(Put, Cat(out, e))
      BY <1>0, <2>6, CatAssociative
    <3> QED BY <1>0, <2>8, <3>1, CatAssociative, CatType
  <2>10. out'.size <= k.size /\ k.size - out'.size = Cat(Put, x).size
    <3>1. k.size = Cat(Put, x).size + out'.size
      BY <2>9 DEF Cat
    <3> QED BY <2>8, <2>9, <3>1, SizeType
  <2>11. Put' = Cat(Put, x)
    <3>1. Put' = First(k, k.size - out'.size)
      BY <2>1, <2>2, <2>5 DEF Put, Writing
    <3>2. First(k, Cat(Put, x).size) = Cat(Put, x)
      BY <2>8, <2>9, CutBehind
    <3> QED BY <2>10, <3>1, <3>2
  <2>12. Mine.size <= BufSize => Put = Empty /\ x = Empty
    <3>1. SUFFICES ASSUME Mine.size <= BufSize PROVE Put = Empty /\ x = Empty
      OBVIOUS
    <3>2. Put = Empty
      BY <2>6, <3>1
    <3>3. k = Cat(out, e)
      BY <1>0, <2>6, <3>2, EmptyText
    <3>4. k.size <= BufSize
      BY <1>0, <2>5, <2>6, <3>1, SizeType, HistfileAssumption
    <3> QED BY <2>8, <3>2, <3>3, <3>4
  <2>13. Mine' = Mine /\ Writing'
    BY <2>1 DEF Mine, Writing
  <2>14. Mine'.size <= BufSize => Put' = Empty
    <3>1. Cat(Empty, Empty) = Empty
      BY CatEmpty, TextsAreTexts
    <3> QED BY <2>11, <2>12, <2>13, <3>1
  <2>15. journal'[wi' + 1] = k
    BY <2>1, <2>2, <2>5
  <2>16. JournalInv'
    BY <2>1, <2>9, <2>10, <2>11, <2>13, <2>14, <2>15 DEF JournalInv
  <2> QED BY <2>1, <2>8, <2>11, <2>12, <2>16 DEF SessionStep
<1>8. CASE HistWriteEnd
  <2>1. /\ Writing /\ wi = n /\ file' = Cat(file, out) /\ out' = Empty
        /\ phase' \in {"exited", "limitFault"}
        /\ UNCHANGED <<stored, base, journal, sessions>>
    BY <1>8 DEF HistWriteEnd, WriteEnds, session
  <2>2. ~ Writing' /\ Mine' = Mine /\ Put' = Mine
    BY <2>1 DEF Writing, Mine, Put
  <2>3. Put' = Cat(Put, out)
    BY <1>0, <2>1, <2>2 DEF JournalInv, Mine
  <2>4. Mine.size <= BufSize => Put = Empty
    BY <2>1 DEF JournalInv
  <2>5. sessions # 0 /\ phase # "off"
    BY <2>1 DEF JournalInv, Writing
  <2>6. JournalInv'
    BY <2>1, <2>2, <2>5 DEF JournalInv
  <2> QED BY <1>0, <2>1, <2>3, <2>4, <2>5, <2>6 DEF SessionStep
<1>9. CASE Killed
  <2>1. /\ phase # "off" /\ phase' = "off" /\ out' = Empty
        /\ UNCHANGED <<stored, journal, sessions>>
    BY <1>9 DEF Killed, session
  <2>2. sessions # 0
    BY <2>1 DEF JournalInv
  <2>3. ~ Writing' /\ Mine' = Mine
    BY <2>1 DEF Writing, Mine
  <2>4. JournalInv'
    BY <2>1, <2>2, <2>3 DEF JournalInv
  <2> QED BY <2>1, <2>2, <2>4 DEF SessionStep
<1>10. CASE UNCHANGED vars
  <2>1. UNCHANGED <<file, phase, wi, out, stored, base, journal, sessions>>
    BY <1>10 DEF vars, write, session
  <2>2. Put' = Put /\ Mine' = Mine
    BY <2>1 DEF Put, Mine, Writing
  <2>3. JournalInv'
    BY <2>1, <2>2 DEF JournalInv, Writing
  <2>4. file' = Cat(file, Empty) /\ Put' = Cat(Put, Empty) /\ Empty \in Text
    BY <1>0, <2>1, <2>2, CatEmpty, TextsAreTexts
  <2> QED BY <2>1, <2>3, <2>4 DEF SessionStep
<1> QED BY <1>1, <1>2, <1>3, <1>4, <1>5, <1>6, <1>7, <1>8, <1>9, <1>10 DEF Next

\* What this shell and another one have made of the file, if each was started at
\* most once: y of all its commands my is what the other one has put there, ob is
\* the file it found, os counts its sessions.  The shell that found the smaller
\* file found what there was before either of them wrote.
Joint(y, my, ob, os) ==
  /\ base.size = ob.size => base = ob
  /\ sessions = 0 \/ os = 0 => base = ob
  /\ Woven(file, IF base.size <= ob.size THEN base ELSE ob, Put, y, Mine, my)

\* A step of this shell that does not kill it keeps the file woven.
LEMMA StepJoint ==
  ASSUME TypeOK, JournalInv, TypeOK', JournalInv', SessionStep, MaxSessions <= 1,
         NEW y \in Text, NEW my \in Text, NEW ob \in Text, NEW os,
         os = 0 => y = Empty, Joint(y, my, ob, os),
         phase' = "off" => sessions' = 0
  PROVE  Joint(y, my, ob, os)'
<1> DEFINE s == IF base.size <= ob.size THEN base ELSE ob
<1>0. /\ file \in Text /\ base \in Text /\ file' \in Text /\ Put \in Text
      /\ Mine \in Text /\ Mine' \in Text /\ s \in Text /\ sessions \in Nat
  <2>1. Mine \in Text /\ Put \in Text
    BY WritingTypes
  <2>2. Mine' \in Text
    BY SMTT(20) DEF TypeOK, Mine
  <2> QED BY <2>1, <2>2 DEF TypeOK
<1>1. CASE /\ phase \in {"off", "exited"} /\ phase' \in {"ready", "noFile"}
           /\ sessions < MaxSessions /\ sessions' = sessions + 1
           /\ file' = file /\ base' = file /\ journal' = <<Empty>>
  <2>1. sessions = 0 /\ sessions' # 0 /\ phase = "off" /\ journal = <<Empty>>
    BY <1>0, <1>1, HistfileAssumption DEF JournalInv
  <2>2. base = ob /\ s = ob
    BY <2>1 DEF Joint
  <2>3. Put = Empty /\ Mine = Empty
    BY <2>1 DEF Put, Mine, Writing
  <2>4. Put' = Empty /\ Mine' = Empty
    BY <1>1 DEF Put, Mine, Writing
  <2>5. Woven(file, ob, Empty, y, Empty, my)
    BY <2>2, <2>3 DEF Joint
  <2>6. IsPrefixOf(ob, file) /\ file.size = ob.size + 0 + y.size
    BY <2>5 DEF Woven, Empty, Plain
  <2>7. ob.size \in Nat /\ file.size \in Nat /\ y.size \in Nat
    BY <1>0, SizeType
  <2>8. file.size = ob.size => file = ob
    <3>1. SUFFICES ASSUME file.size = ob.size PROVE file = ob
      OBVIOUS
    <3>2. y = Empty
      BY <2>6, <2>7, <3>1, EmptyText
    <3>3. ob.nl = file.nl
      BY <1>0, <2>6, <3>1 DEF IsPrefixOf, Text
    <3> QED BY <1>0, <3>1, <3>3, TextEqual
  <2>9. os = 0 => file = ob
    BY <2>6, <2>7, <2>8 DEF Empty, Plain
  <2>10. (IF file.size <= ob.size THEN file ELSE ob) = ob
    BY <2>6, <2>7, <2>8 DEF IsPrefixOf
  <2> QED BY <1>1, <2>1, <2>4, <2>5, <2>8, <2>9, <2>10 DEF Joint
<1>2. CASE phase' = "off" /\ sessions' = sessions /\ sessions # 0
  BY <1>2
<1>3. CASE /\ base' = base /\ sessions' = sessions
           /\ phase = "off" => phase' = "off"
           /\ \E x \in Text : /\ file' = Cat(file, x) /\ Put' = Cat(Put, x)
                              /\ Mine.size <= BufSize => x = Empty \/ Put = Empty
           /\ \/ journal' = journal
              \/ /\ Put = Empty /\ file' = file /\ Put' = Empty
                 /\ Mine.size <= Mine'.size
  <2>1. Woven(file, s, Put, y, Mine, my)
    BY DEF Joint
  <2>2. Woven(file', s, Put', y, Mine', my)
    <3>1. CASE journal' = journal
      <4>1. PICK x \in Text : /\ file' = Cat(file, x) /\ Put' = Cat(Put, x)
                              /\ Mine.size <= BufSize => x = Empty \/ Put = Empty
        BY <1>3
      <4>2. Woven(Cat(file, x), s, Cat(Put, x), y, Mine, my)
        BY <1>0, <2>1, <4>1, WovenAppend
      <4>3. Mine' = Mine
        BY <3>1 DEF Mine
      <4> QED BY <4>1, <4>2, <4>3
    <3>2. CASE /\ Put = Empty /\ file' = file /\ Put' = Empty
               /\ Mine.size <= Mine'.size
      <4>1. Mine'.size <= BufSize => Mine.size <= BufSize
        BY <1>0, <3>2, SizeType, HistfileAssumption
      <4>2. Woven(file, s, Empty, y, Mine', my)
        BY <1>0, <2>1, <3>2, <4>1, WovenLater
      <4> QED BY <3>2, <4>2
    <3> QED BY <1>3, <3>1, <3>2
  <2> QED BY <1>3, <2>2 DEF Joint
<1> QED BY <1>1, <1>2, <1>3 DEF SessionStep

\* At the start, and seen from the other shell.
LEMMA StartJoint ==
  ASSUME file \in Text, base = file, Put = Empty, NEW my, NEW os
  PROVE  Joint(Empty, my, file, os)
BY WovenStart DEF Joint

LEMMA SwapJoint ==
  ASSUME file \in Text, base \in Text, Put \in Text,
         NEW y \in Text, NEW my, NEW ob \in Text, NEW os, Joint(y, my, ob, os)
  PROVE  /\ ob.size = base.size => ob = base
         /\ os = 0 \/ sessions = 0 => ob = base
         /\ Woven(file, IF ob.size <= base.size THEN ob ELSE base, y, Put, my, Mine)
<1> DEFINE s == IF base.size <= ob.size THEN base ELSE ob
<1>1. (IF ob.size <= base.size THEN ob ELSE base) = s
  BY SizeType DEF Joint
<1>2. s \in Text /\ Woven(file, s, Put, y, Mine, my)
  BY DEF Joint
<1>3. Woven(file, s, y, Put, my, Mine)
  BY <1>2, WovenSwap
<1> QED BY <1>1, <1>3 DEF Joint

\* A shell that was not started has put nothing into the file.
LEMMA NothingPut ==
  ASSUME TypeOK, JournalInv, sessions = 0
  PROVE  Put = Empty
BY DEF JournalInv, Put, Writing

\* What holds of a shell whatever another one writes.
ShellInv == TypeOK /\ JournalInv /\ AheadInv

LEMMA StartShell == Init => ShellInv /\ file \in Text /\ base = file /\ Put = Empty
<1>1. Init => file \in Text /\ base = file /\ phase = "off"
  BY HistfileAssumption DEF Init
<1>2. phase = "off" => Put = Empty
  BY DEF Put, Writing
<1> QED BY <1>1, <1>2, InitTypeOK, InitJournal, InitAhead DEF ShellInv

LEMMA OwnStep ==
  ASSUME ShellInv, [Next]_vars
  PROVE  ShellInv' /\ SessionStep /\ IsPrefixOf(file, file')
BY NextTypeOK, NextJournal, NextAhead, FileKept DEF ShellInv

\* As the file grows, no newline of it is lost.
LEMMA AheadGrows ==
  ASSUME NEW t \in Text, NEW u \in Text, IsPrefixOf(t, u)
  PROVE  /\ t.nl \subseteq u.nl
         /\ Cardinality(t.nl) \in Nat /\ Cardinality(u.nl) \in Nat
         /\ Cardinality(t.nl) <= Cardinality(u.nl)
         /\ \A o \in Nat : /\ LinesAhead(t, o) \in Nat /\ LinesAhead(u, o) \in Nat
                           /\ LinesAhead(t, o) <= LinesAhead(u, o)
<1>1. t.nl \subseteq u.nl
  BY DEF IsPrefixOf
<1>2. /\ IsFiniteSet(t.nl) /\ IsFiniteSet(u.nl)
      /\ Cardinality(t.nl) \in Nat /\ Cardinality(u.nl) \in Nat
  BY NewLinesFinite
<1>3. Cardinality(t.nl) <= Cardinality(u.nl)
  BY <1>1, <1>2, FS_Subset
<1>4. ASSUME NEW o \in Nat
      PROVE  /\ LinesAhead(t, o) \in Nat /\ LinesAhead(u, o) \in Nat
             /\ LinesAhead(t, o) <= LinesAhead(u, o)
  <2> DEFINE small == {q \in t.nl : q >= o}
             big == {q \in u.nl : q >= o}
  <2>1. small \subseteq big
    BY <1>1
  <2>2. IsFiniteSet(big)
    BY <1>2, FS_Subset
  <2>3. IsFiniteSet(small) /\ Cardinality(small) <= Cardinality(big)
    BY <2>1, <2>2, FS_Subset
  <2>4. Cardinality(small) \in Nat /\ Cardinality(big) \in Nat
    BY <2>2, <2>3, FS_CardinalityType
  <2> QED BY <2>3, <2>4 DEF LinesAhead
<1> QED BY <1>1, <1>2, <1>3, <1>4

LEMMA StandsGrows ==
  ASSUME NEW t \in Text, NEW u \in Text, IsPrefixOf(t, u), NEW lines \in Nat,
         NEW o \in Nat, NEW n \in Nat, StandsAt(t, lines, o, n)
  PROVE  StandsAt(u, lines, o, n)
<1>1. t.nl \subseteq u.nl /\ LinesAhead(t, o) \in Nat /\ LinesAhead(u, o) \in Nat
      /\ LinesAhead(t, o) <= LinesAhead(u, o)
  BY AheadGrows
<1> QED BY <1>1 DEF StandsAt

\* What another shell appends, also while this one browses, does not disturb it.
LEMMA OtherStep ==
  ASSUME ShellInv, file' \in Text, IsPrefixOf(file, file'),
         UNCHANGED <<phase, fp, pos, counts, scan, buf, write, session, crossed>>
  PROVE  ShellInv' /\ Put' = Put /\ Mine' = Mine
<1>1. /\ phase' = phase /\ fp' = fp /\ pos' = pos /\ f_len' = f_len
      /\ f_chars' = f_chars /\ dir' = dir /\ seek' = seek /\ buf' = buf
      /\ wi' = wi /\ out' = out /\ stored' = stored /\ base' = base
      /\ journal' = journal /\ sessions' = sessions /\ crossed' = crossed
  BY DEF counts, scan, write, session
<1>2. TypeOK'
  BY <1>1 DEF ShellInv, TypeOK, Writing
<1>3. Put' = Put /\ Mine' = Mine
  BY <1>1 DEF Put, Mine, Writing
<1>4. JournalInv'
  BY <1>1, <1>3 DEF ShellInv, JournalInv, Writing
<1>5. AheadInv'
  <2>1. /\ file \in Text /\ fp \in Nat /\ pos \in Nat /\ seek \in Nat
        /\ f_len \in Nat /\ pos + 1 \in Nat /\ seek + 1 \in Nat
    BY DEF ShellInv, TypeOK
  <2>2. /\ file.nl \subseteq file'.nl
        /\ Cardinality(file.nl) \in Nat /\ Cardinality(file'.nl) \in Nat
        /\ Cardinality(file.nl) <= Cardinality(file'.nl)
        /\ \A o \in Nat : /\ LinesAhead(file, o) \in Nat /\ LinesAhead(file', o) \in Nat
                          /\ LinesAhead(file, o) <= LinesAhead(file', o)
    BY <2>1, AheadGrows
  <2>3. AheadInv
    BY DEF ShellInv
  <2>4. phase \in {"ready", "browse", "scan", "read", "saved"} =>
          f_len <= Cardinality(file'.nl)
    BY <2>1, <2>2, <2>3 DEF AheadInv
  <2>5. phase = "browse" => (fp # 0 \/ f_len = 0) /\ StandsAt(file', f_len, fp, pos)
    BY <2>1, <2>3, StandsGrows DEF AheadInv
  <2>6. phase = "scan" => pos + 1 <= f_len
    BY <2>3 DEF AheadInv
  <2>7. phase = "scan" /\ dir = HIST_UP =>
          \/ fp = seek + 1 /\ StandsAt(file', f_len, fp, pos + 1)
          \/ fp = seek /\ f_len <= pos + 1 + LinesAhead(file', seek + 1)
    <3>1. CASE fp = seek + 1 /\ StandsAt(file, f_len, fp, pos + 1)
      BY <2>1, <3>1, StandsGrows
    <3>2. CASE fp = seek /\ f_len <= pos + 1 + LinesAhead(file, seek + 1)
      BY <2>1, <2>2, <3>2
    <3> QED BY <2>3, <3>1, <3>2 DEF AheadInv
  <2>8. phase = "scan" /\ dir # HIST_UP =>
          \/ fp = seek + 1 /\ fp \in file'.nl
          \/ fp \in {seek, seek + 1} /\ f_len <= pos + LinesAhead(file', fp)
    BY <2>1, <2>2, <2>3 DEF AheadInv
  <2>9. phase = "read" => seek # 0 /\ StandsAt(file', f_len, seek, pos)
    BY <2>1, <2>3, StandsGrows DEF AheadInv
  <2> QED BY <1>1, <2>4, <2>5, <2>6, <2>7, <2>8, <2>9 DEF AheadInv
<1> QED BY <1>2, <1>3, <1>4, <1>5 DEF ShellInv
=============================================================================
