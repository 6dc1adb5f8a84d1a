------------------------ MODULE SharedHistoryProofs ------------------------
(***************************************************************************)
(* Theorems about SharedHistory.  What one shell does is proved once, in   *)
(* HistfileProofs, and used here for each of the two.                      *)
(***************************************************************************)
EXTENDS SharedHistory, TLAPS

AP == INSTANCE HistfileProofs
       WITH
            phase <- phaseA, fp <- fpA, stored <- storedA,
            pos <- posA, f_len <- f_lenA, f_chars <- f_charsA,
            dir <- dirA, seek <- seekA, buf <- bufA,
            wi <- wiA, out <- outA, base <- baseA,
            journal <- journalA, crossed <- crossedA, sessions <- sessionsA

BP == INSTANCE HistfileProofs
       WITH
            phase <- phaseB, fp <- fpB, stored <- storedB,
            pos <- posB, f_len <- f_lenB, f_chars <- f_charsB,
            dir <- dirB, seek <- seekB, buf <- bufB,
            wi <- wiB, out <- outB, base <- baseB,
            journal <- journalB, crossed <- crossedB, sessions <- sessionsB

\* The two names of one definition.
LEMMA SameAssumption == AP!HistfileAssumption /\ BP!HistfileAssumption
BY SharedHistoryAssumption DEF A!HistfileAssumption, AP!HistfileAssumption,
   BP!HistfileAssumption, A!Text, AP!Text, BP!Text

LEMMA SameInitA == A!Init <=> AP!Init
BY DEF A!Init, AP!Init, A!Empty, AP!Empty, A!Plain, AP!Plain
LEMMA SameInitB == B!Init <=> BP!Init
BY DEF B!Init, BP!Init, B!Empty, BP!Empty, B!Plain, BP!Plain

LEMMA SameNextA == [A!Next]_(A!vars) <=> [AP!Next]_(AP!vars)
BY DEF A!Next, AP!Next, A!HistMalloc, AP!HistMalloc, A!HistMallocNoFile,
   AP!HistMallocNoFile, A!StartSession, AP!StartSession, A!HistResetPos,
   AP!HistResetPos, A!HistResetPosNoFile, AP!HistResetPosNoFile,
   A!ReadFromMemory, AP!ReadFromMemory, A!StartScan, AP!StartScan,
   A!OutOfBounds, AP!OutOfBounds, A!Moved, AP!Moved, A!Decr, AP!Decr, A!Scan,
   AP!Scan, A!ScanHit, AP!ScanHit, A!ScanUp, AP!ScanUp, A!ScanDown,
   AP!ScanDown, A!AfterGetc, AP!AfterGetc, A!ReadLine, AP!ReadLine, A!NoScan,
   AP!NoScan, A!Interrupted, AP!Interrupted, A!HistSave, AP!HistSave,
   A!HistSaveFull, AP!HistSaveFull, A!NextPrompt, AP!NextPrompt, A!Exit,
   AP!Exit, A!HistWriteCommand, AP!HistWriteCommand, A!HistWriteEnd,
   AP!HistWriteEnd, A!WriteEnds, AP!WriteEnds, A!Writing, AP!Writing, A!Fputs,
   AP!Fputs, A!Entry, AP!Entry, A!Killed, AP!Killed, A!LineLeft, AP!LineLeft,
   A!Submitted, AP!Submitted, A!CopiedLine, AP!CopiedLine, A!Cat, AP!Cat,
   A!First, AP!First, A!Rest, AP!Rest, A!Chop, AP!Chop, A!FgetsLen,
   AP!FgetsLen, A!LineEnd, AP!LineEnd, A!CountLines, AP!CountLines,
   A!CountChars, AP!CountChars, A!Empty, AP!Empty, A!Plain, AP!Plain,
   A!LineOf, AP!LineOf, A!NewLine, AP!NewLine, A!counts, AP!counts, A!scan,
   AP!scan, A!write, AP!write, A!session, AP!session, A!vars, AP!vars,
   A!Cardinality, AP!Cardinality, A!Min, AP!Min

LEMMA SameNextB == [B!Next]_(B!vars) <=> [BP!Next]_(BP!vars)
BY DEF B!Next, BP!Next, B!HistMalloc, BP!HistMalloc, B!HistMallocNoFile,
   BP!HistMallocNoFile, B!StartSession, BP!StartSession, B!HistResetPos,
   BP!HistResetPos, B!HistResetPosNoFile, BP!HistResetPosNoFile,
   B!ReadFromMemory, BP!ReadFromMemory, B!StartScan, BP!StartScan,
   B!OutOfBounds, BP!OutOfBounds, B!Moved, BP!Moved, B!Decr, BP!Decr, B!Scan,
   BP!Scan, B!ScanHit, BP!ScanHit, B!ScanUp, BP!ScanUp, B!ScanDown,
   BP!ScanDown, B!AfterGetc, BP!AfterGetc, B!ReadLine, BP!ReadLine, B!NoScan,
   BP!NoScan, B!Interrupted, BP!Interrupted, B!HistSave, BP!HistSave,
   B!HistSaveFull, BP!HistSaveFull, B!NextPrompt, BP!NextPrompt, B!Exit,
   BP!Exit, B!HistWriteCommand, BP!HistWriteCommand, B!HistWriteEnd,
   BP!HistWriteEnd, B!WriteEnds, BP!WriteEnds, B!Writing, BP!Writing, B!Fputs,
   BP!Fputs, B!Entry, BP!Entry, B!Killed, BP!Killed, B!LineLeft, BP!LineLeft,
   B!Submitted, BP!Submitted, B!CopiedLine, BP!CopiedLine, B!Cat, BP!Cat,
   B!First, BP!First, B!Rest, BP!Rest, B!Chop, BP!Chop, B!FgetsLen,
   BP!FgetsLen, B!LineEnd, BP!LineEnd, B!CountLines, BP!CountLines,
   B!CountChars, BP!CountChars, B!Empty, BP!Empty, B!Plain, BP!Plain,
   B!LineOf, BP!LineOf, B!NewLine, BP!NewLine, B!counts, BP!counts, B!scan,
   BP!scan, B!write, BP!write, B!session, BP!session, B!vars, BP!vars,
   B!Cardinality, BP!Cardinality, B!Min, BP!Min

LEMMA SameText == A!Text = AP!Text /\ B!Text = BP!Text /\ AP!Text = BP!Text
BY DEF A!Text, B!Text, AP!Text, BP!Text

LEMMA SameEmpty == A!Empty = AP!Empty /\ B!Empty = BP!Empty /\ AP!Empty = BP!Empty
BY DEF A!Empty, B!Empty, AP!Empty, BP!Empty, A!Plain, B!Plain, AP!Plain, BP!Plain

LEMMA SamePrefix ==
  ASSUME NEW a, NEW b
  PROVE  /\ A!IsPrefixOf(a, b) <=> AP!IsPrefixOf(a, b)
         /\ AP!IsPrefixOf(a, b) <=> BP!IsPrefixOf(a, b)
BY DEF A!IsPrefixOf, AP!IsPrefixOf, BP!IsPrefixOf

LEMMA SameWoven ==
  ASSUME NEW f, NEW s, NEW x, NEW y, NEW mx, NEW my
  PROVE  AP!Woven(f, s, x, y, mx, my) <=> BP!Woven(f, s, x, y, mx, my)
BY DEF AP!Woven, BP!Woven, AP!Split, BP!Split, AP!Cat, BP!Cat, AP!First, BP!First,
   AP!Rest, BP!Rest, AP!IsPrefixOf, BP!IsPrefixOf, AP!CountLines, BP!CountLines,
   AP!Cardinality, BP!Cardinality

-----------------------------------------------------------------------------
(* Each shell keeps its own invariant, whatever the other one writes.      *)

SharedInv == AP!ShellInv /\ BP!ShellInv

LEMMA InitShared ==
  ASSUME Init
  PROVE  /\ SharedInv /\ file \in AP!Text /\ baseA = file /\ baseB = file
         /\ AP!Put = AP!Empty /\ BP!Put = BP!Empty
BY SameAssumption, SameInitA, SameInitB, AP!StartShell, BP!StartShell
   DEF Init, SharedInv

LEMMA StepA ==
  ASSUME SharedInv, A!Next, UNCHANGED memoryB
  PROVE  /\ SharedInv' /\ AP!SessionStep /\ AP!IsPrefixOf(file, file')
         /\ BP!Put' = BP!Put /\ BP!Mine' = BP!Mine
<1>1. [AP!Next]_(AP!vars)
  BY SameNextA
<1>2. AP!ShellInv' /\ AP!SessionStep /\ AP!IsPrefixOf(file, file')
  BY <1>1, SameAssumption, AP!OwnStep DEF SharedInv
<1>3. file' \in BP!Text /\ BP!IsPrefixOf(file, file')
  BY <1>2, SameText, SamePrefix DEF AP!ShellInv, AP!TypeOK
<1>4. UNCHANGED <<phaseB, fpB, posB, BP!counts, BP!scan, bufB, BP!write,
                  BP!session, crossedB>>
  BY DEF memoryB, BP!counts, BP!scan, BP!write, BP!session
<1>5. BP!ShellInv' /\ BP!Put' = BP!Put /\ BP!Mine' = BP!Mine
  BY <1>3, <1>4, SameAssumption, BP!OtherStep DEF SharedInv
<1> QED BY <1>2, <1>5 DEF SharedInv

LEMMA StepB ==
  ASSUME SharedInv, B!Next, UNCHANGED memoryA
  PROVE  /\ SharedInv' /\ BP!SessionStep /\ BP!IsPrefixOf(file, file')
         /\ AP!Put' = AP!Put /\ AP!Mine' = AP!Mine
<1>1. [BP!Next]_(BP!vars)
  BY SameNextB
<1>2. BP!ShellInv' /\ BP!SessionStep /\ BP!IsPrefixOf(file, file')
  BY <1>1, SameAssumption, BP!OwnStep DEF SharedInv
<1>3. file' \in AP!Text /\ AP!IsPrefixOf(file, file')
  BY <1>2, SameText, SamePrefix DEF BP!ShellInv, BP!TypeOK
<1>4. UNCHANGED <<phaseA, fpA, posA, AP!counts, AP!scan, bufA, AP!write,
                  AP!session, crossedA>>
  BY DEF memoryA, AP!counts, AP!scan, AP!write, AP!session
<1>5. AP!ShellInv' /\ AP!Put' = AP!Put /\ AP!Mine' = AP!Mine
  BY <1>3, <1>4, SameAssumption, AP!OtherStep DEF SharedInv
<1> QED BY <1>2, <1>5 DEF SharedInv

LEMMA NextShared ==
  ASSUME SharedInv, [Next]_vars
  PROVE  SharedInv' /\ AP!IsPrefixOf(file, file')
<1>1. CASE A!Next /\ UNCHANGED memoryB
  BY <1>1, StepA
<1>2. CASE B!Next /\ UNCHANGED memoryA
  BY <1>2, StepB, SamePrefix
<1>3. CASE UNCHANGED vars
  <2>1. UNCHANGED A!vars
    BY <1>3 DEF vars, memoryA, A!vars, A!counts, A!scan, A!write, A!session
  <2>2. UNCHANGED B!vars
    BY <1>3 DEF vars, memoryB, B!vars, B!counts, B!scan, B!write, B!session
  <2>3. AP!ShellInv' /\ AP!IsPrefixOf(file, file')
    BY <2>1, SameNextA, SameAssumption, AP!OwnStep DEF SharedInv
  <2>4. BP!ShellInv'
    BY <2>2, SameNextB, SameAssumption, BP!OwnStep DEF SharedInv
  <2> QED BY <2>3, <2>4 DEF SharedInv
<1> QED BY <1>1, <1>2, <1>3 DEF Next

\* Neither shell changes or removes what the file holds, wherever the other one
\* is and however often both are started.
THEOREM BothOnlyAppend == Spec => AppendOnly
<1>1. Init => SharedInv
  BY InitShared
<1>2. SharedInv /\ [Next]_vars => SharedInv'
  BY NextShared
<1>3. SharedInv /\ [Next]_vars => [A!IsPrefixOf(file, file')]_vars
  BY NextShared, SamePrefix
<1> QED BY <1>1, <1>2, <1>3, PTL DEF Spec, AppendOnly

\* The scans down of a shell end at a newline although its f_chars was counted
\* before the other shell wrote, possibly in the middle of the scan.
THEOREM DownEndsAtNewLine == Spec => []DownFindsNewLine
<1>1. Init => SharedInv
  BY InitShared
<1>2. SharedInv /\ [Next]_vars => SharedInv'
  BY NextShared
<1>3. SharedInv => DownFindsNewLine
  <2>1. SharedInv => AP!DownFindsNewLine
    BY SameAssumption, AP!AheadFinds DEF SharedInv, AP!ShellInv
  <2>2. DownFindsNewLine <=> AP!DownFindsNewLine
    BY DEF DownFindsNewLine, A!DownFindsNewLine, AP!DownFindsNewLine
  <2> QED BY <2>1, <2>2
<1> QED BY <1>1, <1>2, <1>3, PTL DEF Spec

-----------------------------------------------------------------------------
(* Two shells that each ran once.                                          *)

\* Neither was killed.
BothLive == /\ phaseA = "off" => sessionsA = 0
            /\ phaseB = "off" => sessionsB = 0

\* The file is what there was before them and what the two have put there, woven
\* into each other; seen from each of the two.
JointA == SharedInv /\ (BothLive => AP!Joint(BP!Put, BP!Mine, baseB, sessionsB))
JointB == SharedInv /\ (BothLive => BP!Joint(AP!Put, AP!Mine, baseA, sessionsA))

\* What a shell has put there and all it will put there, as texts.
LEMMA PutTexts ==
  ASSUME SharedInv
  PROVE  /\ AP!Put \in AP!Text /\ AP!Mine \in AP!Text /\ baseA \in AP!Text
         /\ BP!Put \in AP!Text /\ BP!Mine \in AP!Text /\ baseB \in AP!Text
         /\ file \in AP!Text
         /\ sessionsA \in Nat /\ sessionsB \in Nat
         /\ sessionsA = 0 => AP!Put = AP!Empty
         /\ sessionsB = 0 => BP!Put = BP!Empty
<1>1. AP!TypeOK /\ AP!JournalInv /\ BP!TypeOK /\ BP!JournalInv
  BY DEF SharedInv, AP!ShellInv, BP!ShellInv
<1>2. AP!Put \in AP!Text /\ AP!Mine \in AP!Text
  BY <1>1, SameAssumption, AP!WritingTypes
<1>3. BP!Put \in BP!Text /\ BP!Mine \in BP!Text
  BY <1>1, SameAssumption, BP!WritingTypes
<1>4. /\ file \in AP!Text /\ baseA \in AP!Text /\ baseB \in BP!Text
      /\ sessionsA \in Nat /\ sessionsB \in Nat
  BY <1>1 DEF AP!TypeOK, BP!TypeOK
<1>5. sessionsA = 0 => AP!Put = AP!Empty
  BY <1>1, SameAssumption, AP!NothingPut
<1>6. sessionsB = 0 => BP!Put = BP!Empty
  BY <1>1, SameAssumption, BP!NothingPut
<1> QED BY <1>2, <1>3, <1>4, <1>5, <1>6, SameText

\* Joint from the point of view of the other shell.
LEMMA SeenFromB ==
  ASSUME SharedInv, AP!Joint(BP!Put, BP!Mine, baseB, sessionsB)
  PROVE  BP!Joint(AP!Put, AP!Mine, baseA, sessionsA)
<1>1. PICK y \in AP!Text : y = BP!Put
  BY PutTexts
<1>2. PICK my \in AP!Text : my = BP!Mine
  BY PutTexts
<1>3. PICK ob \in AP!Text : ob = baseB
  BY PutTexts
<1>4. PICK os : os = sessionsB
  OBVIOUS
<1>5. AP!Joint(y, my, ob, os)
  BY <1>1, <1>2, <1>3, <1>4
<1>6. /\ ob.size = baseA.size => ob = baseA
      /\ os = 0 \/ sessionsA = 0 => ob = baseA
      /\ AP!Woven(file, IF ob.size <= baseA.size THEN ob ELSE baseA, y, AP!Put,
                  my, AP!Mine)
  BY <1>5, PutTexts, SameAssumption, AP!SwapJoint
<1>7. BP!Woven(file, IF ob.size <= baseA.size THEN ob ELSE baseA, y, AP!Put,
               my, AP!Mine)
  BY <1>6, SameWoven
<1> QED BY <1>1, <1>2, <1>3, <1>4, <1>6, <1>7 DEF BP!Joint

LEMMA SeenFromA ==
  ASSUME SharedInv, BP!Joint(AP!Put, AP!Mine, baseA, sessionsA)
  PROVE  AP!Joint(BP!Put, BP!Mine, baseB, sessionsB)
<1>1. PICK y \in AP!Text : y = AP!Put
  BY PutTexts
<1>2. PICK my \in AP!Text : my = AP!Mine
  BY PutTexts
<1>3. PICK ob \in AP!Text : ob = baseA
  BY PutTexts
<1>4. PICK os : os = sessionsA
  OBVIOUS
<1>5. BP!Joint(y, my, ob, os)
  BY <1>1, <1>2, <1>3, <1>4
<1>6. /\ ob.size = baseB.size => ob = baseB
      /\ os = 0 \/ sessionsB = 0 => ob = baseB
      /\ BP!Woven(file, IF ob.size <= baseB.size THEN ob ELSE baseB, y, BP!Put,
                  my, BP!Mine)
  BY <1>5, PutTexts, SameText, SameAssumption, BP!SwapJoint
<1>7. AP!Woven(file, IF ob.size <= baseB.size THEN ob ELSE baseB, y, BP!Put,
               my, BP!Mine)
  BY <1>6, SameWoven
<1> QED BY <1>1, <1>2, <1>3, <1>4, <1>6, <1>7 DEF AP!Joint

LEMMA SameJoint == JointA <=> JointB
BY SeenFromA, SeenFromB DEF JointA, JointB

LEMMA InitJoint == Init => JointA
<1> SUFFICES ASSUME Init PROVE JointA
  OBVIOUS
<1>1. /\ SharedInv /\ file \in AP!Text /\ baseA = file /\ baseB = file
      /\ AP!Put = AP!Empty /\ BP!Put = BP!Empty
  BY InitShared
<1>2. PICK my : my = BP!Mine
  OBVIOUS
<1>3. PICK os : os = sessionsB
  OBVIOUS
<1>4. AP!Joint(AP!Empty, my, file, os)
  BY <1>1, SameAssumption, AP!StartJoint
<1> QED BY <1>1, <1>2, <1>3, <1>4, SameEmpty DEF JointA

LEMMA NextJointA ==
  ASSUME MaxSessions <= 1, JointA, A!Next, UNCHANGED memoryB
  PROVE  JointA'
<1>1. SharedInv /\ SharedInv'
  BY StepA DEF JointA
<1> SUFFICES ASSUME BothLive'
             PROVE  AP!Joint(BP!Put, BP!Mine, baseB, sessionsB)'
  BY <1>1 DEF JointA
<1>2. /\ AP!SessionStep /\ BP!Put' = BP!Put /\ BP!Mine' = BP!Mine
      /\ baseB' = baseB /\ sessionsB' = sessionsB /\ phaseB' = phaseB
  BY <1>1, StepA DEF memoryB
<1>3. BothLive
  <2>1. MaxSessions \in Nat
    BY SameAssumption DEF AP!HistfileAssumption
  <2> QED BY <1>1, <1>2, <2>1, PutTexts DEF BothLive, AP!SessionStep
<1>4. PICK y \in AP!Text : y = BP!Put
  BY <1>1, PutTexts
<1>5. PICK my \in AP!Text : my = BP!Mine
  BY <1>1, PutTexts
<1>6. PICK ob \in AP!Text : ob = baseB
  BY <1>1, PutTexts
<1>7. PICK os : os = sessionsB
  OBVIOUS
<1>8. AP!Joint(y, my, ob, os)
  BY <1>3, <1>4, <1>5, <1>6, <1>7 DEF JointA
<1>9. os = 0 => y = AP!Empty
  BY <1>1, <1>4, <1>7, PutTexts, SameEmpty
<1>10. AP!TypeOK /\ AP!JournalInv /\ AP!TypeOK' /\ AP!JournalInv'
  BY <1>1 DEF SharedInv, AP!ShellInv
<1>11. phaseA' = "off" => sessionsA' = 0
  BY DEF BothLive
<1>12. AP!Joint(y, my, ob, os)'
  BY <1>2, <1>8, <1>9, <1>10, <1>11, SameText, SameAssumption, AP!StepJoint
<1> QED BY <1>2, <1>4, <1>5, <1>6, <1>7, <1>12

LEMMA NextJointB ==
  ASSUME MaxSessions <= 1, JointB, B!Next, UNCHANGED memoryA
  PROVE  JointB'
<1>1. SharedInv /\ SharedInv'
  BY StepB DEF JointB
<1> SUFFICES ASSUME BothLive'
             PROVE  BP!Joint(AP!Put, AP!Mine, baseA, sessionsA)'
  BY <1>1 DEF JointB
<1>2. /\ BP!SessionStep /\ AP!Put' = AP!Put /\ AP!Mine' = AP!Mine
      /\ baseA' = baseA /\ sessionsA' = sessionsA /\ phaseA' = phaseA
  BY <1>1, StepB DEF memoryA
<1>3. BothLive
  <2>1. MaxSessions \in Nat
    BY SameAssumption DEF AP!HistfileAssumption
  <2> QED BY <1>1, <1>2, <2>1, PutTexts DEF BothLive, BP!SessionStep
<1>4. PICK y \in AP!Text : y = AP!Put
  BY <1>1, PutTexts
<1>5. PICK my \in AP!Text : my = AP!Mine
  BY <1>1, PutTexts
<1>6. PICK ob \in AP!Text : ob = baseA
  BY <1>1, PutTexts
<1>7. PICK os : os = sessionsA
  OBVIOUS
<1>8. BP!Joint(y, my, ob, os)
  BY <1>3, <1>4, <1>5, <1>6, <1>7 DEF JointB
<1>9. os = 0 => y = BP!Empty
  BY <1>1, <1>4, <1>7, PutTexts, SameEmpty
<1>10. BP!TypeOK /\ BP!JournalInv /\ BP!TypeOK' /\ BP!JournalInv'
  BY <1>1 DEF SharedInv, BP!ShellInv
<1>11. phaseB' = "off" => sessionsB' = 0
  BY DEF BothLive
<1>12. BP!Joint(y, my, ob, os)'
  BY <1>2, <1>8, <1>9, <1>10, <1>11, SameText, SameAssumption, BP!StepJoint
<1> QED BY <1>2, <1>4, <1>5, <1>6, <1>7, <1>12

\* Two shells that each ran once and left through "exit" have lost nothing to each
\* other: file and journals hold the same bytes and lines, and the commands of a
\* shell that fit the buffer of its stream stand in one piece.
THEOREM ExitsLoseNothing ==
  ASSUME MaxSessions <= 1
  PROVE  Spec => []NothingLost
<1>1. Init => JointA
  BY InitJoint
<1>2. JointA <=> JointB
  BY SameJoint
<1>3. JointA /\ JointB /\ [Next]_vars => JointA' \/ JointB'
  <2> SUFFICES ASSUME JointA, JointB, [Next]_vars PROVE JointA' \/ JointB'
    OBVIOUS
  <2>1. CASE A!Next /\ UNCHANGED memoryB
    BY <2>1, NextJointA
  <2>2. CASE B!Next /\ UNCHANGED memoryA
    BY <2>2, NextJointB
  <2>3. CASE UNCHANGED vars
    <3>1. SharedInv'
      BY NextShared DEF JointA
    <3>2. /\ file' = file /\ phaseA' = phaseA /\ phaseB' = phaseB
          /\ sessionsA' = sessionsA /\ sessionsB' = sessionsB
          /\ baseA' = baseA /\ baseB' = baseB
      BY <2>3 DEF vars, memoryA, memoryB
    <3>3. AP!Put' = AP!Put /\ AP!Mine' = AP!Mine
          /\ BP!Put' = BP!Put /\ BP!Mine' = BP!Mine
      BY <2>3 DEF vars, memoryA, memoryB, AP!Put, BP!Put, AP!Mine, BP!Mine,
         AP!Writing, BP!Writing
    <3> QED BY <3>1, <3>2, <3>3 DEF JointA, BothLive, AP!Joint
  <2> QED BY <2>1, <2>2, <2>3 DEF Next
<1>4. JointA => NothingLost
  <2> SUFFICES ASSUME JointA, phaseA = "exited", phaseB = "exited"
               PROVE  NothingLost
    BY DEF NothingLost
  <2>1. SharedInv /\ AP!Joint(BP!Put, BP!Mine, baseB, sessionsB)
    BY DEF JointA, BothLive
  <2> DEFINE start == IF baseA.size <= baseB.size THEN baseA ELSE baseB
             a == journalA[Len(journalA)]
             b == journalB[Len(journalB)]
             Inside(x, y) == \E n \in Cuts(y) :
               file = A!Cat(A!Cat(start, A!First(y, n)), A!Cat(x, A!Rest(y, n)))
  <2>2. AP!Put = a /\ AP!Mine = a /\ BP!Put = b /\ BP!Mine = b
    BY DEF AP!Put, AP!Mine, BP!Put, BP!Mine
  <2>3. AP!Woven(file, start, a, b, a, b)
    BY <2>1, <2>2 DEF AP!Joint
  <2>4. a \in AP!Text /\ b \in AP!Text /\ start \in AP!Text
    BY <2>1, <2>2, PutTexts
  <2>5. ASSUME NEW x, NEW y, AP!Split(file, start, x, y, y)
        PROVE  Inside(x, y)
    <3>1. PICK n \in 0 .. y.size :
            /\ file = AP!Cat(AP!Cat(start, AP!First(y, n)), AP!Cat(x, AP!Rest(y, n)))
            /\ y.size <= BufSize => n \in {0, y.size}
      BY <2>5 DEF AP!Split
    <3>2. n \in Cuts(y)
      BY <3>1 DEF Cuts
    <3>3. file = A!Cat(A!Cat(start, A!First(y, n)), A!Cat(x, A!Rest(y, n)))
      BY <3>1 DEF A!Cat, AP!Cat, A!First, AP!First, A!Rest, AP!Rest
    <3> QED BY <3>2, <3>3
  <2>6. a.size <= BufSize => Inside(a, b)
    BY <2>3, <2>5 DEF AP!Woven
  <2>7. b.size <= BufSize => Inside(b, a)
    BY <2>3, <2>5 DEF AP!Woven
  <2>8. /\ file.size = start.size + a.size + b.size
        /\ A!CountLines(file) = A!CountLines(start) + A!CountLines(a) + A!CountLines(b)
        /\ A!IsPrefixOf(start, file)
    BY <2>3, SamePrefix DEF AP!Woven, A!CountLines, AP!CountLines,
       A!Cardinality, AP!Cardinality
  <2> QED BY <2>6, <2>7, <2>8 DEF NothingLost
<1> QED BY <1>1, <1>2, <1>3, <1>4, PTL DEF Spec
=============================================================================
