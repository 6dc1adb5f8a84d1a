------------------------- MODULE EnvironmentProofs -------------------------
(***************************************************************************)
(* Theorems about Environment, for every configuration, every set of       *)
(* directories and all sizes.                                              *)
(***************************************************************************)
EXTENDS ConfigProofs

\* The phases before the main loop in which a variable has been set.
Starting == {"open", "config", "paths"}

-----------------------------------------------------------------------------
(* Lemmas about the operators.                                             *)

\* env_update_pwd() sets PWD to the directory, and OLDPWD to what PWD was.
LEMMA AfterPwdGet ==
  \A dir :
    /\ {PWD, OLDPWD} \subseteq DOMAIN AfterPwd(dir)
    /\ AfterPwd(dir)[PWD] = dir
    /\ PWD \in DOMAIN table => AfterPwd(dir)[OLDPWD] = table[PWD]
<1> TAKE dir
<1> DEFINE old == IF IsSet(PWD) THEN table[PWD] ELSE dir
           first == Put(table, OLDPWD, old)
<1>1. PWD # OLDPWD
  <2>1. "PWD" # "OLDPWD"
    OBVIOUS
  <2>2. PWD[1] = "PWD" /\ OLDPWD[1] = "OLDPWD"
    BY DEF PWD, OLDPWD
  <2> QED
    BY <2>1, <2>2
<1> HIDE DEF old
<1>2. OLDPWD \in DOMAIN first /\ first[OLDPWD] = old
  <2>1. DOMAIN first = DOMAIN table \cup {OLDPWD}
    BY PutGet
  <2>2. first[OLDPWD] = old
    BY PutGet
  <2> QED
    BY <2>1, <2>2
<1>3. AfterPwd(dir) = Put(first, PWD, dir)
  BY DEF AfterPwd, old
<1> HIDE DEF first
<1>4. /\ DOMAIN AfterPwd(dir) = DOMAIN first \cup {PWD}
      /\ AfterPwd(dir)[PWD] = dir
      /\ AfterPwd(dir)[OLDPWD] = first[OLDPWD]
  <2>1. DOMAIN AfterPwd(dir) = DOMAIN first \cup {PWD}
    BY <1>3, PutGet
  <2>2. AfterPwd(dir)[PWD] = dir
    BY <1>3, PutGet
  <2>3. AfterPwd(dir)[OLDPWD] = first[OLDPWD]
    BY <1>1, <1>2, <1>3, PutGet
  <2> QED
    BY <2>1, <2>2, <2>3
<1>5. PWD \in DOMAIN table => old = table[PWD]
  BY DEF old, IsSet
<1> QED
  BY <1>2, <1>4, <1>5

\* The last two of a trail that is one longer.
LEMMA TrailGrows ==
  ASSUME NEW S, NEW s \in Seq(S), NEW x \in S, Len(s) <= 2
  PROVE  LET t == LastTwo(Append(s, x))
         IN  /\ t \in Seq(S) /\ Len(t) \in 1 .. 2 /\ t[Len(t)] = x
             /\ Len(t) = 2 => s # <<>> /\ t[1] = s[Len(s)]
<1> DEFINE a == Append(s, x)
<1>0. Len(s) \in {0, 1, 2} /\ (s # <<>> <=> Len(s) # 0)
  <2>1. Len(s) \in Nat
    OBVIOUS
  <2>2. Len(s) <= 2
    OBVIOUS
  <2>4. Len(s) \in {0, 1, 2}
    <3>1. \A n \in Nat : n <= 2 => n \in {0, 1, 2}
      OBVIOUS
    <3> QED
      BY <2>1, <2>2, <3>1
  <2>3. s # <<>> <=> Len(s) # 0
    OBVIOUS
  <2> QED
    BY <2>3, <2>4
<1>1. /\ a \in Seq(S) /\ Len(a) = Len(s) + 1 /\ a[Len(a)] = x
      /\ \A i \in 1 .. Len(s) : a[i] = s[i]
  OBVIOUS
<1> HIDE DEF a
<1>2. CASE Len(a) > 2
  <2>1. Len(s) = 2 /\ Len(a) = 3
    BY <1>0, <1>1, <1>2
  <2>2. Tail(a) \in Seq(S) /\ Len(Tail(a)) = 2 /\ Tail(a)[1] = a[2] /\ Tail(a)[2] = a[3]
    BY <1>1, <2>1, SMTT(20)
  <2>3. LastTwo(a) = Tail(a)
    BY <1>2 DEF LastTwo
  <2>4. /\ LastTwo(a) \in Seq(S) /\ Len(LastTwo(a)) = 2
        /\ LastTwo(a)[1] = s[2] /\ LastTwo(a)[2] = x
    <3>1. a[2] = s[2] /\ a[3] = x
      BY <1>1, <2>1
    <3> QED
      BY <2>2, <2>3, <3>1
  <2>5. s # <<>>
    BY <1>0, <2>1
  <2> QED
    BY <2>1, <2>4, <2>5 DEF a
<1>3. CASE ~ (Len(a) > 2)
  <2>1. LastTwo(a) = a /\ Len(a) \in 1 .. 2
    BY <1>0, <1>1, <1>3 DEF LastTwo
  <2>2. Len(a) = 2 => Len(s) = 1 /\ a[1] = s[1]
    BY <1>0, <1>1
  <2>3. /\ LastTwo(a) \in Seq(S) /\ Len(LastTwo(a)) \in 1 .. 2
        /\ LastTwo(a)[Len(LastTwo(a))] = x
        /\ Len(LastTwo(a)) = 2 => s # <<>> /\ LastTwo(a)[1] = s[Len(s)]
    BY <1>0, <1>1, <2>1, <2>2
  <2> QED
    BY <2>3 DEF a
<1> QED
  BY <1>2, <1>3

\* The steps of the start lead to the main loop from Starting.
LEMMA LoadPhases ==
  ASSUME Load
  PROVE  /\ phase \in {"malloc"} \cup Starting
         /\ phase' \in Starting \cup {"loop", "exited", "fault"}
         /\ phase' = "loop" => phase \in Starting
BY DEF Load, EnvMalloc, OpenConfig, ReadLine, UnwrapPaths, NextPath, PathsDone,
       Starting

-----------------------------------------------------------------------------
(* PWD and OLDPWD.                                                         *)

\* PwdTrail alone is not inductive: env_update_pwd() reads the old PWD, which
\* has to be there, and the loop begins without a directory.
TrailInv ==
  /\ cwd \in Dirs \cup {NoDir}
  /\ visited \in Seq(Dirs) /\ Len(visited) <= 2
  /\ phase \in {"malloc"} \cup Starting => visited = <<>>
  /\ phase = "loop" /\ visited # <<>> => {PWD, OLDPWD} \subseteq DOMAIN table
  /\ PwdTrail

LEMMA TrailInit == EnvInit => TrailInv
BY DEF EnvInit, Init, TrailInv, PwdTrail

\* env_update() is the one step that changes the trail.
LEMMA TrailUpdate ==
  ASSUME TrailInv, EnvUpdate
  PROVE  TrailInv'
<1>1. phase = "loop" /\ cwd' = cwd
  BY DEF EnvUpdate
<1>2. phase' \in {"loop", "fault"}
  BY <1>1, UpdatePs1Phase DEF EnvUpdate
<1>3. CASE PwdFails
  <2>1. table' = table /\ visited' = visited
    BY <1>3 DEF EnvUpdate
  <2> QED
    BY <1>1, <1>2, <2>1 DEF TrailInv, PwdTrail, Starting
<1>4. CASE ~ PwdFails
  <2>1. table' = AfterPwd(cwd) /\ visited' = LastTwo(Append(visited, cwd))
    BY <1>4 DEF EnvUpdate
  <2>2. cwd \in Dirs /\ visited \in Seq(Dirs) /\ Len(visited) <= 2
    BY <1>4 DEF TrailInv, PwdFails
  <2>3. /\ visited' \in Seq(Dirs) /\ Len(visited') \in 1 .. 2
        /\ visited'[Len(visited')] = cwd
        /\ Len(visited') = 2 => visited # <<>> /\ visited'[1] = visited[Len(visited)]
    BY <2>1, <2>2, TrailGrows
  <2>4. /\ {PWD, OLDPWD} \subseteq DOMAIN table'
        /\ table'[PWD] = cwd
        /\ PWD \in DOMAIN table => table'[OLDPWD] = table[PWD]
    BY <2>1, AfterPwdGet
  <2>5. visited # <<>> => PWD \in DOMAIN table /\ table[PWD] = visited[Len(visited)]
    BY <1>1 DEF TrailInv, PwdTrail
  <2>6. PwdTrail'
    BY <2>3, <2>4, <2>5 DEF PwdTrail
  <2> QED
    BY <1>1, <1>2, <2>2, <2>3, <2>4, <2>6 DEF TrailInv, Starting
<1> QED
  BY <1>3, <1>4

LEMMA TrailNext == TrailInv /\ [Next]_vars => TrailInv'
<1> SUFFICES ASSUME TrailInv, [Next]_vars PROVE TrailInv'
  OBVIOUS
<1>1. CASE Load /\ UNCHANGED <<cache, given, seen>>
  <2>1. visited = <<>>
    BY <1>1, LoadPhases DEF TrailInv
  <2> QED
    BY <1>1, <2>1 DEF TrailInv, PwdTrail, seen
<1>2. CASE EnvUpdate
  BY <1>2, TrailUpdate
<1>3. CASE DirectoryMoves
  BY <1>3 DEF DirectoryMoves, TrailInv, PwdTrail
<1>4. CASE EnvGen
  <2>1. phase = "loop" /\ phase' \in {"loop", "fault"} /\ table' = table /\ seen' = seen
    BY <1>4 DEF EnvGen, EnvGenAnew, EnvGenCached
  <2> QED
    BY <2>1 DEF TrailInv, PwdTrail, seen, Starting
<1>5. ASSUME NEW key \in Removable, EnvRm(key)
      PROVE  TrailInv'
  <2>1. phase = "loop" /\ phase' = phase /\ seen' = seen /\ table' = Without(table, key)
    BY <1>5 DEF EnvRm
  <2>2. PWD # key /\ OLDPWD # key
    BY EnvironmentAssumption DEF PWD, OLDPWD
  <2>3. \A k \in {PWD, OLDPWD} \cap DOMAIN table :
          k \in DOMAIN table' /\ table'[k] = table[k]
    BY <2>1, <2>2, WithoutGet
  <2> QED
    BY <2>1, <2>3 DEF TrailInv, PwdTrail, seen, Starting
<1>6. CASE UNCHANGED vars
  BY <1>6 DEF vars, seen, TrailInv, PwdTrail
<1> QED
  BY <1>1, <1>2, <1>3, <1>4, <1>5, <1>6 DEF Next

\* PWD and OLDPWD are the directories of the last two prompts that knew one
\* (env_update_pwd()), for every configuration and every set of directories.
THEOREM PwdFollows == Spec => []PwdTrail
<1>1. TrailInv => PwdTrail
  BY DEF TrailInv
<1> QED
  BY TrailInit, TrailNext, <1>1, PTL DEF Spec

-----------------------------------------------------------------------------
(* The prompt.                                                             *)

\* A table whose values are texts.
HoldsTexts(t) == \A key \in DOMAIN t : t[key] \in Seq(Chars)

\* What the loop over PS1 keeps: whether the last character was a backslash and
\* what may be in ps1_tmp; what it begins with, and one turn of it.
Drafts == [escape : BOOLEAN, shown : SUBSET Seq(Chars)]
Blank == [escape |-> FALSE, shown |-> {<<>>}]
Appended(S, X) == {s \o x : s \in S, x \in X}
Turn(t, r, c) ==
  IF c = "\\" THEN [r EXCEPT !.escape = TRUE]
  ELSE [escape |-> FALSE,
        shown  |-> Appended(r.shown, IF r.escape THEN Escaped(c, t) ELSE {<<c>>})]

\* The function FoldLeft() is defined by.
Fold(t, q) ==
  CHOOSE f : f = [s \in SUBSET DOMAIN q |->
                    IF s = {} THEN Blank ELSE Turn(t, f[s \ {Max(s)}], q[Max(s)])]

LEMMA RenderedFolds ==
  ASSUME NEW t
  PROVE  Rendered(t) = Fold(t, t[PS1])[DOMAIN t[PS1]].shown
BY DEF Rendered, FoldLeft, MapThenFoldSet, Fold, Turn, Blank, Appended

\* What vstr_starts_with() returns is a text.
LEMMA StartsWithTypes ==
  ASSUME NEW str \in Seq(Chars), NEW prefix \in Seq(Chars)
  PROVE  StartsWith(str, prefix) \subseteq Seq(Chars)
<1>1. Junk \subseteq Seq(Chars)
  BY EnvironmentAssumption DEF Chars
<1>2. SubSeq(str, Len(prefix) + 2, Len(str)) \in Seq(Chars)
  <2>1. PICK m \in Nat \ {0}, n \in Nat : m = Len(prefix) + 2 /\ n = Len(str)
    BY LenProperties
  <2>2. CASE m <= n + 1
    BY <2>1, <2>2, PartOf
  <2>3. CASE ~ (m <= n + 1)
    <3>1. SubSeq(str, m, n) = <<>>
      BY <2>3, SubSeqEmpty
    <3> QED
      BY <2>1, <3>1, EmptySeq
  <2> QED
    BY <2>1, <2>2, <2>3
<1> QED
  BY <1>1, <1>2 DEF StartsWith

LEMMA TwoChars ==
  ASSUME NEW S, NEW c \in S, NEW d \in S
  PROVE  <<c, d>> \in Seq(S)
OBVIOUS

LEMMA DirectoryTypes ==
  ASSUME NEW t, HoldsTexts(t)
  PROVE  Directory(t) \subseteq Seq(Chars)
<1>1. <<>> \in Seq(Chars)
  BY EmptySeq
<1>2. ASSUME PWD \in DOMAIN t
      PROVE  Directory(t) \subseteq Seq(Chars)
  <2> DEFINE below == IF HOME \in DOMAIN t THEN StartsWith(t[PWD], t[HOME]) ELSE {}
  <2>1. below \subseteq Seq(Chars)
    BY <1>2, StartsWithTypes DEF HoldsTexts
  <2>2. Directory(t) = IF below = {} THEN {t[PWD]} ELSE {<<"~", "/">> \o rest : rest \in below}
    BY <1>2 DEF Directory
  <2>3. t[PWD] \in Seq(Chars)
    BY <1>2 DEF HoldsTexts
  <2> HIDE DEF below
  <2>4. <<"~", "/">> \in Seq(Chars)
    <3>1. "~" \in Chars /\ "/" \in Chars
      BY SymbolsAssumption DEF Chars
    <3> QED
      BY <3>1, TwoChars
  <2>5. \A rest \in below : <<"~", "/">> \o rest \in Seq(Chars)
    BY <2>1, <2>4, ConcatProperties
  <2> QED
    BY <2>2, <2>3, <2>5
<1> QED
  BY <1>1, <1>2 DEF Directory

LEMMA EscapedTypes ==
  ASSUME NEW t, HoldsTexts(t), NEW c
  PROVE  Escaped(c, t) \subseteq Seq(Chars)
<1>1. Directory(t) \subseteq Seq(Chars)
  BY DirectoryTypes
<1>2. Colour("cyan") \subseteq Seq(Chars) /\ Colour("plain") \subseteq Seq(Chars)
  <2>1. "cyan" \in Chars /\ "plain" \in Chars /\ "garbled" \in Chars
    BY SymbolsAssumption DEF Chars
  <2>2. \A sequence \in Chars : Colour(sequence) \subseteq Seq(Chars)
    BY <2>1, OneChar DEF Colour
  <2> QED
    BY <2>1, <2>2
<1>3. <<IF uid = Root THEN "#" ELSE "$">> \in Seq(Chars)
  <2>1. (IF uid = Root THEN "#" ELSE "$") \in Chars
    BY SymbolsAssumption DEF Chars
  <2> QED
    BY <2>1, OneChar
<1>4. <<>> \in Seq(Chars)
  BY EmptySeq
<1> QED
  BY <1>1, <1>2, <1>3, <1>4 DEF Escaped

LEMMA TurnTypes ==
  ASSUME NEW t, HoldsTexts(t), NEW r \in Drafts, NEW c \in Chars
  PROVE  Turn(t, r, c) \in Drafts
<1>1. Escaped(c, t) \subseteq Seq(Chars)
  BY EscapedTypes
<1>2. <<c>> \in Seq(Chars)
  BY OneChar
<1>3. r.escape \in BOOLEAN /\ r.shown \subseteq Seq(Chars)
  BY DEF Drafts
<1> DEFINE more == IF r.escape THEN Escaped(c, t) ELSE {<<c>>}
<1>4. more \subseteq Seq(Chars)
  BY <1>1, <1>2
<1>5. Appended(r.shown, more) \subseteq Seq(Chars)
  <2> HIDE DEF more
  <2>1. \A s \in r.shown, x \in more : s \o x \in Seq(Chars)
    BY <1>3, <1>4, ConcatProperties
  <2> QED
    BY SMTT(30), <2>1 DEF Appended
<1>6. [escape |-> FALSE, shown |-> Appended(r.shown, more)] \in Drafts
  BY <1>5 DEF Drafts
<1>7. [r EXCEPT !.escape = TRUE] \in Drafts
  BY DEF Drafts
<1> QED
  BY <1>6, <1>7 DEF Turn

\* The drafts, from a blank one to the prompt, each one turn from the last.
LEMMA Drafting ==
  ASSUME NEW t, HoldsTexts(t), PS1 \in DOMAIN t
  PROVE  \E z \in Nat : \E f :
           /\ z = Len(t[PS1]) /\ f[1 .. 0] = Blank /\ Rendered(t) = f[1 .. z].shown
           /\ \A k \in 0 .. z : f[1 .. k] \in Drafts
           /\ \A k \in 0 .. z - 1 : f[1 .. k + 1] = Turn(t, f[1 .. k], t[PS1][k + 1])
<1>1. PICK q \in Seq(Chars) : q = t[PS1]
  BY DEF HoldsTexts
<1>2. PICK z \in Nat : z = Len(q) /\ DOMAIN q = 1 .. z
  BY LenProperties
<1> DEFINE step == [r \in Drafts |-> [c \in Chars |-> Turn(t, r, c)]]
<1>3. step \in [Drafts -> [Chars -> Drafts]]
  BY TurnTypes
<1>4. Blank \in Drafts
  BY EmptySeq DEF Blank, Drafts
<1> HIDE DEF step
<1>5. PICK g \in [SUBSET (1 .. z) -> Drafts] : IsFold(g, step, Blank, q, 1 .. z)
  BY <1>2, <1>3, <1>4, FoldIs
<1>6. ASSUME NEW s \in SUBSET (1 .. z)
      PROVE  g[s] = IF s = {} THEN Blank ELSE Turn(t, g[s \ {Max(s)}], q[Max(s)])
  <2>1. g[s] = IF s = {} THEN Blank ELSE step[g[s \ {Max(s)}]][q[Max(s)]]
    BY <1>5 DEF IsFold
  <2>2. CASE s # {}
    <3>1. PICK m : m = Max(s)
      OBVIOUS
    <3>2. m \in 1 .. z
      BY <2>2, <3>1, LastOne
    <3>3. q[m] \in Chars
      BY <1>2, <3>2, ElementOfSeq
    <3>4. g[s \ {m}] \in Drafts
      BY <1>5
    <3>5. step[g[s \ {m}]][q[m]] = Turn(t, g[s \ {m}], q[m])
      BY <3>3, <3>4 DEF step
    <3> QED
      BY <2>1, <2>2, <3>1, <3>5
  <2> QED
    BY <2>1, <2>2
<1>7. g = [s \in SUBSET DOMAIN q |->
             IF s = {} THEN Blank ELSE Turn(t, g[s \ {Max(s)}], q[Max(s)])]
  BY <1>2, <1>5, <1>6
<1>8. PICK f : f = Fold(t, q)
  OBVIOUS
<1>9. f = [s \in SUBSET DOMAIN q |->
             IF s = {} THEN Blank ELSE Turn(t, f[s \ {Max(s)}], q[Max(s)])]
  BY <1>7, <1>8 DEF Fold
<1>10. \A s \in SUBSET (1 .. z) :
         f[s] = IF s = {} THEN Blank ELSE Turn(t, f[s \ {Max(s)}], q[Max(s)])
  BY <1>2, <1>9
<1>11. f[1 .. 0] = Blank
  <2>1. 1 .. 0 = {} /\ 1 .. 0 \in SUBSET (1 .. z)
    OBVIOUS
  <2> QED
    BY <1>10, <2>1
<1>12. ASSUME NEW k \in 0 .. z - 1
       PROVE  f[1 .. k + 1] = Turn(t, f[1 .. k], q[k + 1])
  <2>1. PICK s : s = 1 .. k + 1
    OBVIOUS
  <2>2. s # {} /\ Max(s) = k + 1 /\ s \ {k + 1} = 1 .. k
    <3>1. k \in Nat
      OBVIOUS
    <3> QED
      BY <2>1, <3>1, FirstPositions
  <2>3. s \in SUBSET (1 .. z)
    BY <2>1
  <2>4. f[s] = Turn(t, f[s \ {Max(s)}], q[Max(s)])
    BY <1>10, <2>2, <2>3
  <2> QED
    BY <2>1, <2>2, <2>4
<1>13. ASSUME NEW k \in 0 .. z
       PROVE  f[1 .. k] \in Drafts
  <2> DEFINE good == {n \in Nat : n <= z => f[1 .. n] \in Drafts}
  <2>1. good \in SUBSET Nat /\ 0 \in good
    BY <1>4, <1>11
  <2>2. ASSUME NEW n \in good, n < z
        PROVE  n + 1 \in good
    <3>1. n \in Nat /\ n \in 0 .. z - 1 /\ f[1 .. n] \in Drafts
      BY <2>2
    <3>2. n + 1 \in 1 .. Len(q)
      BY <1>2, <2>2, <3>1
    <3>3. q[n + 1] \in Chars
      BY <3>2, ElementOfSeq
    <3>4. f[1 .. n + 1] \in Drafts
      BY <1>12, <3>1, <3>3, TurnTypes
    <3> QED
      BY <3>1, <3>4
  <2> HIDE DEF good
  <2>3. k \in good
    BY <2>1, <2>2, UpTo
  <2> QED
    BY <2>3 DEF good
<1>14. Rendered(t) = f[1 .. z].shown
  BY <1>1, <1>2, <1>8, RenderedFolds
<1> QED
  BY <1>1, <1>2, <1>11, <1>12, <1>13, <1>14

\* The prompt is a text.
LEMMA RenderedTypes ==
  ASSUME NEW t, HoldsTexts(t), PS1 \in DOMAIN t
  PROVE  Rendered(t) \subseteq Seq(Chars)
<1>1. PICK z \in Nat : \E f :
           Rendered(t) = f[1 .. z].shown /\ \A k \in 0 .. z : f[1 .. k] \in Drafts
  BY Drafting
<1>2. PICK f : Rendered(t) = f[1 .. z].shown /\ \A k \in 0 .. z : f[1 .. k] \in Drafts
  BY <1>1
<1>3. f[1 .. z] \in Drafts
  BY <1>2
<1> QED
  BY <1>2, <1>3 DEF Drafts

-----------------------------------------------------------------------------
(* The types.                                                              *)

\* What is written into ps1_tmp and into environ is inside it.
SizesInv ==
  /\ ps1 \in Seq(Chars) /\ Len(ps1) < MaxPs1
  /\ Cardinality(environ) < EnvSize
  /\ unsized \subseteq environ /\ Cardinality(unsized) <= 1
  /\ given \subseteq environ

LEMMA SizesInit == EnvInit => SizesInv
<1>1. Cardinality({}) = 0
  BY FS_EmptySet
<1>2. <<>> \in Seq(Chars) /\ Len(<<>>) = 0
  BY EmptySeq
<1> QED
  BY <1>1, <1>2, EnvironmentAssumption DEF EnvInit, SizesInv

\* env_gen() fills no more rows than the table has variables.
LEMMA EntriesFit ==
  ASSUME IsFiniteSet(DOMAIN table)
  PROVE  Cardinality({Entry(table, k) : k \in DOMAIN table}) <= Cardinality(DOMAIN table)
<1> DEFINE rows == {Entry(table, k) : k \in DOMAIN table}
           f == [k \in DOMAIN table |-> Entry(table, k)]
<1>1. f \in Surjection(DOMAIN table, rows)
  BY DEF Surjection
<1> HIDE DEF rows, f
<1>2. Cardinality(rows) <= Cardinality(DOMAIN table)
  BY <1>1, FS_Surjection
<1> QED
  BY <1>2 DEF rows

\* A set with nothing but one element has a cardinality of at most one.
LEMMA AtMostOne ==
  ASSUME NEW S, NEW e, S \subseteq {e}
  PROVE  Cardinality(S) <= 1
<1>1. S = {} \/ S = {e}
  OBVIOUS
<1>2. Cardinality({}) = 0 /\ Cardinality({e}) = 1
  BY FS_EmptySet, FS_Singleton
<1> QED
  BY <1>1, <1>2

LEMMA GenSizes ==
  ASSUME SizesInv, IsFiniteSet(DOMAIN table), EnvGen
  PROVE  SizesInv'
<1>1. ps1' = ps1
  BY DEF EnvGen, EnvGenAnew, EnvGenCached, seen
<1>2. CASE EnvGenCached
  BY <1>1, <1>2 DEF EnvGenCached, SizesInv
<1>3. CASE EnvGenAnew /\ ~ (Cardinality(DOMAIN table) < EnvSize)
  BY <1>1, <1>3 DEF EnvGenAnew, SizesInv, cache
<1>4. CASE EnvGenAnew /\ Cardinality(DOMAIN table) < EnvSize
  <2>1. environ' = {Entry(table, k) : k \in DOMAIN table} /\ given' = environ'
    BY <1>4 DEF EnvGenAnew
  <2>2. Cardinality(environ') <= Cardinality(DOMAIN table)
    BY <2>1, EntriesFit
  <2>3. Cardinality(DOMAIN table) \in Nat
    BY FS_CardinalityType
  <2>4. IsFiniteSet(environ') /\ Cardinality(environ') \in Nat
    <3>1. [k \in DOMAIN table |-> Entry(table, k)] \in Surjection(DOMAIN table, environ')
      BY <2>1 DEF Surjection
    <3>2. IsFiniteSet(environ')
      BY <3>1, FS_Surjection
    <3> QED
      BY <3>2, FS_CardinalityType
  <2>5. Cardinality(environ') < EnvSize
    BY <1>4, <2>2, <2>3, <2>4, EnvironmentAssumption
  <2>6. PICK k \in DOMAIN table : unsized' = {Entry(table, k)}
    BY <1>4 DEF EnvGenAnew
  <2>7. unsized' \subseteq environ'
    BY <2>1, <2>6
  <2>8. Cardinality(unsized') <= 1
    BY <2>6, AtMostOne
  <2> QED
    BY <1>1, <2>1, <2>5, <2>7, <2>8 DEF SizesInv
<1> QED
  BY <1>2, <1>3, <1>4 DEF EnvGen

LEMMA UpdateSizes ==
  ASSUME SizesInv, EnvUpdate, HoldsTexts(table')
  PROVE  SizesInv'
<1>1. cache' = cache /\ given' = {} /\ UpdatePs1(table')
  BY DEF EnvUpdate
<1>2. ps1' \in Seq(Chars) /\ Len(ps1') < MaxPs1
  <2>1. CASE ps1' = ps1
    BY <2>1 DEF SizesInv
  <2>2. CASE ps1' # ps1
    <3>1. PS1 \in DOMAIN table' /\ ps1' \in Rendered(table') /\ Len(ps1') < MaxPs1
      BY <1>1, <2>2 DEF UpdatePs1, Faults
    <3> QED
      BY <3>1, RenderedTypes
  <2> QED
    BY <2>1, <2>2
<1> QED
  BY <1>1, <1>2 DEF SizesInv, cache

LEMMA SizesNext == EnvInv /\ EnvInv' /\ SizesInv /\ [Next]_vars => SizesInv'
<1> SUFFICES ASSUME EnvInv, EnvInv', SizesInv, [Next]_vars PROVE SizesInv'
  OBVIOUS
<1>1. CASE cache' = cache /\ ps1' = ps1 /\ (given' = given \/ given' = {})
  BY <1>1 DEF cache, SizesInv
<1>2. CASE EnvUpdate
  <2>1. HoldsTexts(table')
    BY DEF EnvInv, StartsInv, TextInv, HoldsTexts
  <2> QED
    BY <1>2, <2>1, UpdateSizes
<1>3. CASE EnvGen
  BY <1>3, GenSizes DEF EnvInv, StartsInv, TextInv
<1>4. CASE Load /\ UNCHANGED <<cache, given, seen>>
  BY <1>1, <1>4 DEF seen
<1>5. CASE DirectoryMoves
  BY <1>1, <1>5 DEF DirectoryMoves
<1>6. ASSUME NEW key \in Removable, EnvRm(key)
      PROVE  SizesInv'
  BY <1>1, <1>6 DEF EnvRm, seen
<1>7. CASE UNCHANGED vars
  BY <1>1, <1>7 DEF vars, seen
<1> QED
  BY <1>2, <1>3, <1>4, <1>5, <1>6, <1>7 DEF Next

\* What is kept are texts, the paths have room for one more, the prompt fits
\* ps1_tmp with its 0 and the variables fit environ with its NULL, for every
\* configuration, every set of directories and all sizes.
THEOREM Types == Spec => []TypeOK
<1>1. EnvInv /\ SizesInv /\ TrailInv => TypeOK
  <2> SUFFICES ASSUME EnvInv, SizesInv, TrailInv PROVE TypeOK
    OBVIOUS
  <2>1. \A p \in Range(paths) : p \in Seq(STRING) /\ Len(p) < MaxEnvLen
    <3> TAKE p \in Range(paths)
    <3>1. PICK i \in DOMAIN paths : p = paths[i]
      BY DEF Range
    <3>2. paths[i] \in Seq(Chars)
      BY ElementOfSeq, LenProperties DEF EnvInv, StartsInv, FitInv
    <3> QED
      BY <3>1, <3>2 DEF EnvInv, StartsInv, FitInv, Chars
  <2>2. /\ phase \in Phases /\ uid \in Uids /\ update \in BOOLEAN
        /\ \A key \in DOMAIN table : table[key] \in Seq(STRING)
        /\ capacity \in Nat /\ Len(paths) < capacity
    BY DEF EnvInv, StartsInv, TextInv, FitInv, Chars
  <2>3. Len(visited) <= 2
    BY DEF TrailInv
  <2> QED
    BY <2>1, <2>2, <2>3 DEF TypeOK, SizesInv, Chars
<1> QED
  BY EnvStarts, EnvNext, SizesInit, SizesNext, TrailInit, TrailNext, <1>1, PTL DEF Spec

-----------------------------------------------------------------------------
(* The directory in the prompt.                                            *)

\* The loop over PS1 at a backslash, and at another character.
LEMMA TurnAtBackslash ==
  ASSUME NEW t, NEW r \in Drafts, NEW c, c = "\\"
  PROVE  Turn(t, r, c).escape = TRUE /\ Turn(t, r, c).shown = r.shown
BY DEF Turn, Drafts

LEMMA TurnElsewhere ==
  ASSUME NEW t, NEW r, NEW c, c # "\\"
  PROVE  Turn(t, r, c).shown =
           Appended(r.shown, IF r.escape THEN Escaped(c, t) ELSE {<<c>>})
BY DEF Turn

LEMMA AppendedIs ==
  ASSUME NEW S, NEW X, NEW p \in Appended(S, X)
  PROVE  \E s \in S, x \in X : p = s \o x
BY DEF Appended

\* What is in ps1_tmp stays there, and something comes behind it or nothing.
LEMMA TurnAppends ==
  ASSUME NEW t, HoldsTexts(t), NEW r \in Drafts, NEW c \in Chars,
         NEW p \in Turn(t, r, c).shown
  PROVE  \E s \in r.shown : \E y \in Seq(Chars) : p = s \o y
<1>1. CASE c = "\\"
  <2>1. p \in r.shown /\ r.shown \subseteq Seq(Chars)
    <3>1. Turn(t, r, c).shown = r.shown
      BY <1>1, TurnAtBackslash
    <3>2. r.shown \subseteq Seq(Chars)
      BY DEF Drafts
    <3> QED
      BY <3>1, <3>2
  <2>2. p = p \o <<>> /\ <<>> \in Seq(Chars)
    BY <2>1, ConcatEmptySeq, EmptySeq
  <2> QED
    BY <2>1, <2>2
<1>2. CASE c # "\\"
  <2> DEFINE more == IF r.escape THEN Escaped(c, t) ELSE {<<c>>}
  <2>1. more \subseteq Seq(Chars)
    <3>1. Escaped(c, t) \subseteq Seq(Chars) /\ {<<c>>} \subseteq Seq(Chars)
      BY EscapedTypes, OneChar
    <3> QED
      BY <3>1
  <2>2. Turn(t, r, c).shown = Appended(r.shown, more)
    BY <1>2, TurnElsewhere
  <2> HIDE DEF more
  <2>3. PICK s \in r.shown, x \in more : p = s \o x
    <3>1. PICK before : before = r.shown
      OBVIOUS
    <3>2. p \in Appended(before, more)
      BY <2>2, <3>1
    <3>3. \E s \in before, x \in more : p = s \o x
      BY ONLY <3>2, AppendedIs
    <3> QED
      BY ONLY <3>1, <3>3
  <2> QED
    BY <2>1, <2>3
<1> QED
  BY <1>1, <1>2

\* A text with a directory in it.
ShownIn(p, t) ==
  \E s \in Seq(Chars), x \in Directory(t), y \in Seq(Chars) : p = (s \o x) \o y

LEMMA ShownStays ==
  ASSUME NEW t, HoldsTexts(t), NEW p, ShownIn(p, t), NEW z \in Seq(Chars)
  PROVE  ShownIn(p \o z, t)
<1>1. PICK s \in Seq(Chars), x \in Directory(t), y \in Seq(Chars) : p = (s \o x) \o y
  BY DEF ShownIn
<1>2. x \in Seq(Chars)
  BY DirectoryTypes
<1>3. s \o x \in Seq(Chars) /\ y \o z \in Seq(Chars)
  BY <1>2, ConcatProperties
<1>4. p \o z = (s \o x) \o (y \o z)
  <2>1. PICK u \in Seq(Chars) : u = s \o x
    BY <1>3
  <2>2. (u \o y) \o z = u \o (y \o z)
    BY SMTT(30), ConcatAssociative
  <2> QED
    BY <1>1, <2>1, <2>2
<1> QED
  BY <1>3, <1>4 DEF ShownIn

\* Where PS1 has a \D, the directory is in the prompt.
LEMMA DirectoryShown ==
  ASSUME NEW t, HoldsTexts(t), PS1 \in DOMAIN t,
         NEW i \in Nat \ {0}, i < Len(t[PS1]), t[PS1][i] = "\\", t[PS1][i + 1] = "D",
         NEW p \in Rendered(t)
  PROVE  ShownIn(p, t)
<1>1. PICK q \in Seq(Chars) : q = t[PS1]
  BY DEF HoldsTexts
<1>2. PICK z \in Nat : \E f :
           /\ z = Len(q) /\ Rendered(t) = f[1 .. z].shown
           /\ \A k \in 0 .. z : f[1 .. k] \in Drafts
           /\ \A k \in 0 .. z - 1 : f[1 .. k + 1] = Turn(t, f[1 .. k], q[k + 1])
  BY SMTT(30), <1>1, Drafting
<1>3. PICK f :
           /\ z = Len(q) /\ Rendered(t) = f[1 .. z].shown
           /\ \A k \in 0 .. z : f[1 .. k] \in Drafts
           /\ \A k \in 0 .. z - 1 : f[1 .. k + 1] = Turn(t, f[1 .. k], q[k + 1])
  BY <1>2
<1>4. \A k \in 0 .. z - 1 : q[k + 1] \in Chars
  BY <1>3, ElementOfSeq
<1>5. f[1 .. i].escape = TRUE
  <2>1. PICK k \in 0 .. z - 1 : k + 1 = i
    <3>1. i - 1 \in 0 .. z - 1 /\ (i - 1) + 1 = i
      BY <1>1, <1>3
    <3> QED
      BY <3>1
  <2>2. f[1 .. i] = Turn(t, f[1 .. k], q[i])
    BY <1>3, <2>1
  <2>3. f[1 .. k] \in Drafts
    BY <1>3, <2>1
  <2>4. q[i] = "\\"
    BY <1>1
  <2>5. PICK c : c = q[i]
    OBVIOUS
  <2>6. Turn(t, f[1 .. k], c).escape = TRUE
    BY <2>3, <2>4, <2>5, TurnAtBackslash
  <2> QED
    BY <2>2, <2>5, <2>6
<1>6. \A o \in f[1 .. i + 1].shown : ShownIn(o, t)
  <2>1. i \in 0 .. z - 1
    BY <1>1, <1>3
  <2>2. PICK c : c = "D"
    OBVIOUS
  <2>3. c # "\\" /\ q[i + 1] = c
    BY <1>1, <2>2
  <2>4. f[1 .. i + 1] = Turn(t, f[1 .. i], c)
    BY <1>3, <2>1, <2>3
  <2>5. Escaped(c, t) = Directory(t)
    BY <2>2 DEF Escaped
  <2>6. f[1 .. i + 1].shown = Appended(f[1 .. i].shown, Directory(t))
    <3>1. PICK r : r = f[1 .. i]
      OBVIOUS
    <3>2. r.escape = TRUE
      BY <1>5, <3>1
    <3>3. Turn(t, r, c).shown = Appended(r.shown, Escaped(c, t))
      BY <2>3, <3>2, TurnElsewhere
    <3> QED
      BY <2>4, <2>5, <3>1, <3>3
  <2>7. f[1 .. i].shown \subseteq Seq(Chars)
    BY <1>3, <2>1 DEF Drafts
  <2> TAKE o \in f[1 .. i + 1].shown
  <2>8. PICK s \in f[1 .. i].shown, x \in Directory(t) : o = s \o x
    <3>1. PICK before : before = f[1 .. i].shown
      OBVIOUS
    <3>2. o \in Appended(before, Directory(t))
      BY <2>6, <3>1
    <3>3. \E s \in before, x \in Directory(t) : o = s \o x
      BY ONLY <3>2, AppendedIs
    <3> QED
      BY ONLY <3>1, <3>3
  <2>9. s \o x \in Seq(Chars) /\ <<>> \in Seq(Chars)
    BY <2>7, <2>8, DirectoryTypes, ConcatProperties, EmptySeq
  <2>10. o = (s \o x) \o <<>>
    BY <2>8, <2>9, ConcatEmptySeq
  <2> QED
    BY <2>7, <2>8, <2>9, <2>10 DEF ShownIn
<1> DEFINE good == {n \in Nat : i + 1 + n <= z => \A o \in f[1 .. i + 1 + n].shown : ShownIn(o, t)}
<1>7. 0 \in good
  <2>1. i + 1 + 0 = i + 1
    OBVIOUS
  <2> QED
    BY <1>6, <2>1
<1>8. ASSUME NEW n \in good
      PROVE  n + 1 \in good
  <2>1. n \in Nat /\ n + 1 \in Nat
    OBVIOUS
  <2> SUFFICES ASSUME i + 1 + (n + 1) <= z, NEW o \in f[1 .. i + 1 + (n + 1)].shown
               PROVE  ShownIn(o, t)
    BY <2>1
  <2>2. PICK k \in 0 .. z - 1 : k = i + 1 + n
    BY <2>1
  <2>3. k + 1 = i + 1 + (n + 1) /\ k <= z
    BY <2>1, <2>2
  <2>4. \A u \in f[1 .. k].shown : ShownIn(u, t)
    BY <2>2, <2>3
  <2>5. f[1 .. k + 1] = Turn(t, f[1 .. k], q[k + 1]) /\ f[1 .. k] \in Drafts
    BY <1>3, <2>2
  <2>6. PICK u \in f[1 .. k].shown : \E y \in Seq(Chars) : o = u \o y
    <3>1. PICK r \in Drafts, c \in Chars : r = f[1 .. k] /\ c = q[k + 1]
      BY <1>4, <2>2, <2>5
    <3>2. o \in Turn(t, r, c).shown
      BY <2>3, <2>5, <3>1
    <3>3. \E u \in r.shown : \E y \in Seq(Chars) : o = u \o y
      BY <3>2, TurnAppends
    <3> QED
      BY <3>1, <3>3
  <2> QED
    BY <2>4, <2>6, ShownStays
<1> HIDE DEF good
<1>9. PICK n \in Nat : i + 1 + n = z
  <2>1. z - (i + 1) \in Nat /\ i + 1 + (z - (i + 1)) = z
    BY <1>1, <1>3
  <2> QED
    BY <2>1
<1>10. n \in good
  <2>1. good \in SUBSET Nat
    BY DEF good
  <2>2. 0 .. n \subseteq good
    BY <1>7, <1>8, <2>1, UpTo
  <2> QED
    BY <2>2
<1>11. \A o \in f[1 .. z].shown : ShownIn(o, t)
  BY <1>9, <1>10 DEF good
<1> QED
  BY <1>3, <1>11

\* The text x has w for h in front of what d has behind it.
StandsFor(x, w, h, d) == x \in Seq(Chars) /\ x # <<>> /\ x[1] = w /\ h \o Tail(x) = d

\* Two characters in front of a text.
TwoBefore(x, w, c, r) ==
  /\ x \in Seq(Chars) /\ Len(x) = Len(r) + 2 /\ x[1] = w /\ x[2] = c
  /\ \A j \in 1 .. Len(r) : x[j + 2] = r[j]

LEMMA TwoThen ==
  ASSUME NEW w \in Chars, NEW c \in Chars, NEW r \in Seq(Chars), NEW x, x = <<w, c>> \o r
  PROVE  TwoBefore(x, w, c, r)
<1>1. PICK g : g = <<w, c>>
  OBVIOUS
<1>2. g \in Seq(Chars) /\ Len(g) = 2 /\ g[1] = w /\ g[2] = c
  BY <1>1, TwoChars
<1>3. PICK a \in Nat : a = Len(g)
  BY <1>2
<1>4. PICK b \in Nat : b = Len(r)
  BY LenProperties
<1>5. g \o r \in Seq(Chars) /\ Len(g \o r) = Len(g) + Len(r)
  BY <1>2, ConcatProperties
<1>6. \A i \in 1 .. Len(g) + Len(r) :
        (g \o r)[i] = IF i <= Len(g) THEN g[i] ELSE r[i - Len(g)]
  BY <1>2, ConcatProperties
<1>7. x \in Seq(Chars) /\ Len(x) = b + 2
  BY <1>1, <1>2, <1>4, <1>5
<1>8. \A i \in 1 .. 2 + b : x[i] = IF i <= 2 THEN g[i] ELSE r[i - 2]
  BY <1>1, <1>2, <1>4, <1>6
<1>9. x[1] = w /\ x[2] = c
  <2>1. 1 \in 1 .. 2 + b /\ 2 \in 1 .. 2 + b
    OBVIOUS
  <2> QED
    BY <1>2, <1>8, <2>1
<1>10. ASSUME NEW j \in 1 .. b
       PROVE  x[j + 2] = r[j]
  <2>1. PICK i \in 1 .. 2 + b : i = j + 2 /\ ~ (i <= 2) /\ i - 2 = j
    OBVIOUS
  <2> QED
    BY <1>8, <2>1
<1> QED
  BY <1>4, <1>7, <1>9, <1>10 DEF TwoBefore

\* A directory below home is home, the slash and the rest.
LEMMA BelowHome ==
  ASSUME NEW h \in Seq(Chars), NEW d \in Seq(Chars), IsPrefix(h, d), h # d,
         NEW c, d[Len(h) + 1] = c,
         NEW r, r = SubSeq(d, Len(h) + 2, Len(d)), NEW w \in Chars,
         NEW x, x = <<w, c>> \o r
  PROVE  StandsFor(x, w, h, d)
<1>1. PICK n \in Nat, z \in Nat : n = Len(h) /\ z = Len(d)
  BY LenProperties
<1>2. n <= z /\ SubSeq(h, 1, n) = SubSeq(d, 1, n)
  BY <1>1 DEF IsPrefix
<1>3. SubSeq(h, 1, n) = h /\ SubSeq(d, 1, z) = d
  BY <1>1, SubSeqFull
<1>4. n < z
  <2>1. n # z
    BY <1>2, <1>3
  <2> QED
    BY <1>2, <2>1
<1>5. \A i \in 1 .. n : h[i] = d[i]
  <2>1. 1 \in Nat \ {0} /\ 1 <= n + 1 /\ n <= Len(h) /\ n <= Len(d) /\ n + 1 - 1 = n
    BY <1>1, <1>2
  <2>2. \A i \in 1 .. n + 1 - 1 : SubSeq(h, 1, n)[i] = h[1 + i - 1]
    BY <2>1, PartOf
  <2>3. \A i \in 1 .. n + 1 - 1 : SubSeq(d, 1, n)[i] = d[1 + i - 1]
    BY <2>1, PartOf
  <2>4. \A i \in 1 .. n : 1 + i - 1 = i
    OBVIOUS
  <2> QED
    BY <1>2, <2>1, <2>2, <2>3, <2>4
<1>6. c \in Chars
  <2>1. n + 1 \in 1 .. Len(d)
    BY <1>1, <1>4
  <2> QED
    BY <1>1, <2>1, ElementOfSeq
<1>7. r \in Seq(Chars) /\ Len(r) = z - n - 1 /\ \A i \in 1 .. z - n - 1 : r[i] = d[n + 1 + i]
  <2>1. PICK m \in Nat \ {0} : m = n + 2
    OBVIOUS
  <2>2. m <= z + 1 /\ z <= Len(d) /\ z + 1 - m = z - n - 1
    BY <1>1, <1>4, <2>1
  <2>3. r = SubSeq(d, m, z)
    BY <1>1, <2>1
  <2>4. /\ SubSeq(d, m, z) \in Seq(Chars) /\ Len(SubSeq(d, m, z)) = z + 1 - m
        /\ \A i \in 1 .. z + 1 - m : SubSeq(d, m, z)[i] = d[m + i - 1]
    BY <2>2, PartOf
  <2>5. \A i \in 1 .. z - n - 1 : m + i - 1 = n + 1 + i
    BY <2>1
  <2> QED
    BY <2>2, <2>3, <2>4, <2>5
<1>8. PICK g : g = <<w, c>>
  OBVIOUS
<1>9. g \in Seq(Chars) /\ Len(g) = 2 /\ g[1] = w /\ g[2] = c
  BY <1>6, <1>8, TwoChars
<1>10. /\ x \in Seq(Chars) /\ Len(x) = z - n + 1
       /\ x[1] = w /\ x[2] = c /\ \A i \in 3 .. z - n + 1 : x[i] = d[n + i - 1]
  <2>1. /\ x \in Seq(Chars) /\ Len(x) = Len(r) + 2 /\ x[1] = w /\ x[2] = c
        /\ \A j \in 1 .. Len(r) : x[j + 2] = r[j]
    <3>1. r \in Seq(Chars)
      BY <1>7
    <3>2. TwoBefore(x, w, c, r)
      BY ONLY <1>6, <3>1, TwoThen, w \in Chars, x = <<w, c>> \o r
    <3> QED
      BY ONLY <3>2 DEF TwoBefore
  <2>2. Len(r) + 2 = z - n + 1
    <3>1. PICK b \in Nat : b = Len(r)
      BY <1>7, LenProperties
    <3>2. b = z - n - 1
      BY <1>7, <3>1
    <3>3. b + 2 = z - n + 1
      BY <3>2
    <3> QED
      BY <3>1, <3>3
  <2>3. ASSUME NEW i \in 3 .. z - n + 1
        PROVE  x[i] = d[n + i - 1]
    <3>1. PICK j \in 1 .. z - n - 1 : j + 2 = i /\ n + 1 + j = n + i - 1
      BY <1>4
    <3>2. x[j + 2] = r[j]
      BY <1>7, <2>1, <3>1
    <3>3. r[j] = d[n + 1 + j]
      BY <1>7
    <3> QED
      BY <3>1, <3>2, <3>3
  <2> QED
    BY <2>1, <2>2, <2>3
<1>11. x # <<>>
  BY <1>4, <1>10, LenProperties
<1>12. PICK y : y = Tail(x)
  OBVIOUS
<1>13. /\ y \in Seq(Chars) /\ Len(y) = z - n
       /\ \A i \in 1 .. z - n : y[i] = d[n + i]
  <2>1. /\ y \in Seq(Chars) /\ Len(y) = Len(x) - 1
        /\ \A i \in 1 .. Len(y) : y[i] = x[i + 1]
    BY <1>10, <1>11, <1>12, HeadTailProperties
  <2>2. Len(y) = z - n
    BY <1>10, <2>1
  <2>3. ASSUME NEW i \in 1 .. z - n
        PROVE  y[i] = d[n + i]
    <3>1. y[i] = x[i + 1]
      BY <2>1, <2>2
    <3>2. CASE i = 1
      BY <1>1, <1>10, <3>1, <3>2
    <3>3. CASE i # 1
      <4>1. PICK j \in 3 .. z - n + 1 : j = i + 1 /\ n + j - 1 = n + i
        BY <3>3
      <4>2. x[j] = d[n + j - 1]
        BY <1>10
      <4> QED
        BY <3>1, <4>1, <4>2
    <3> QED
      BY <3>2, <3>3
  <2> QED
    BY <2>1, <2>2, <2>3
<1>14. h \o y = d
  <2>1. PICK u : u = h \o y
    OBVIOUS
  <2>2. /\ u \in Seq(Chars) /\ Len(u) = n + (z - n)
        /\ \A i \in 1 .. n + (z - n) : u[i] = IF i <= n THEN h[i] ELSE y[i - n]
    <3>1. PICK b \in Nat : b = z - n
      BY <1>4
    <3>2. y \in Seq(Chars) /\ Len(y) = b
      BY <1>13, <3>1
    <3>3. /\ u \in Seq(Chars) /\ Len(u) = n + b
          /\ \A i \in 1 .. n + b : u[i] = IF i <= n THEN h[i] ELSE y[i - n]
      BY <1>1, <2>1, <3>2, ConcatProperties
    <3> QED
      BY <3>1, <3>3
  <2>3. n + (z - n) = z
    OBVIOUS
  <2>4. ASSUME NEW i \in 1 .. z
        PROVE  u[i] = d[i]
    <3>1. CASE i <= n
      BY <1>5, <2>2, <2>3, <3>1
    <3>2. CASE ~ (i <= n)
      <4>1. PICK j \in 1 .. z - n : j = i - n /\ n + j = i
        BY <3>2
      <4>2. u[i] = y[j]
        BY <2>2, <2>3, <3>2, <4>1
      <4>3. y[j] = d[n + j]
        BY <1>13
      <4> QED
        BY <4>1, <4>2, <4>3
    <3> QED
      BY <3>1, <3>2
  <2> QED
    BY <1>1, <2>1, <2>2, <2>3, <2>4, SeqEqual
<1> QED
  BY <1>10, <1>11, <1>12, <1>14 DEF StandsFor

\* What the prompt shows for the directory stands for it, unless the directory is
\* HOME or only begins with its letters.
HomeIn(home, t) == home \in Seq(Chars) /\ (HOME \in DOMAIN t => home = t[HOME])
TrulyBelow(home, d) == IsPrefix(home, d) => home # d /\ d[Len(home) + 1] = "/"
Depicts(x, d, home) == x \in Seq(Chars) /\ x # <<>> /\ Denotes(x, d, home)

LEMMA DirectoryDenotes ==
  ASSUME NEW t, HoldsTexts(t), PWD \in DOMAIN t, NEW d, d = t[PWD], d # <<>>,
         NEW home, HomeIn(home, t), TrulyBelow(home, d), NEW x \in Directory(t)
  PROVE  Depicts(x, d, home)
<1>1. d \in Seq(Chars) /\ d = t[PWD]
  BY DEF HoldsTexts
<1>0. home \in Seq(Chars) /\ (HOME \in DOMAIN t => home = t[HOME])
  BY DEF HomeIn
<1> DEFINE below == IF HOME \in DOMAIN t THEN StartsWith(d, home) ELSE {}
<1>2. Directory(t) = IF below = {} THEN {d} ELSE {<<"~", "/">> \o rest : rest \in below}
  BY <1>0, <1>1 DEF Directory
<1> HIDE DEF below
<1>3. CASE below = {}
  BY <1>1, <1>2, <1>3 DEF Depicts, Denotes
<1>4. CASE below # {}
  <2>1. PICK rest \in below : x = <<"~", "/">> \o rest
    BY <1>2, <1>4
  <2>2. rest \in StartsWith(d, home)
    BY DEF below
  <2>3. IsPrefix(home, d)
    BY <2>2 DEF StartsWith
  <2>4. home # d /\ d[Len(home) + 1] = "/"
    BY <2>3 DEF TrulyBelow
  <2>5. rest = SubSeq(d, Len(home) + 2, Len(d))
    BY <2>2, <2>3, <2>4 DEF StartsWith
  <2>6. PICK w, c : w = "~" /\ c = "/"
    OBVIOUS
  <2>7. w \in Chars
    BY <2>6, SymbolsAssumption DEF Chars
  <2>8. d[Len(home) + 1] = c
    BY <2>4, <2>6
  <2>9. PICK y : y = <<w, c>> \o rest
    OBVIOUS
  <2>10. StandsFor(y, w, home, d)
    BY ONLY <2>3, <2>4, <2>5, <2>7, <2>8, <2>9, BelowHome, <1>0, <1>1
  <2>11. x = y
    BY <2>1, <2>6, <2>9
  <2> QED
    BY <2>6, <2>10, <2>11 DEF Depicts, Denotes, StandsFor
<1> QED
  BY <1>3, <1>4

\* Where a part of a text is.
PartOfText(x, p) == \E i, j \in DOMAIN p : SubSeq(p, i, j) = x

LEMMA PartWhere ==
  ASSUME NEW s \in Seq(Chars), NEW x \in Seq(Chars), NEW y \in Seq(Chars), x # <<>>,
         NEW p, p = (s \o x) \o y
  PROVE  PartOfText(x, p)
<1>1. PICK a \in Nat, b \in Nat, e \in Nat : a = Len(s) /\ b = Len(x) /\ e = Len(y)
  BY LenProperties
<1>2. b # 0
  BY <1>1, EmptySeq
<1>3. PICK u : u = s \o x
  OBVIOUS
<1>4. /\ u \in Seq(Chars) /\ Len(u) = a + b
      /\ \A i \in 1 .. a + b : u[i] = IF i <= a THEN s[i] ELSE x[i - a]
  BY <1>1, <1>3, ConcatProperties
<1>5. /\ p \in Seq(Chars) /\ Len(p) = a + b + e
      /\ \A i \in 1 .. a + b + e : p[i] = IF i <= a + b THEN u[i] ELSE y[i - (a + b)]
  BY <1>1, <1>3, <1>4, ConcatProperties
<1>6. PICK i \in Nat \ {0}, j \in Nat : i = a + 1 /\ j = a + b
  OBVIOUS
<1>7. DOMAIN p = 1 .. a + b + e
  BY <1>5, LenProperties
<1>8. i \in DOMAIN p /\ j \in DOMAIN p
  BY <1>2, <1>6, <1>7
<1>9. PICK q : q = SubSeq(p, i, j)
  OBVIOUS
<1>10. q \in Seq(Chars) /\ Len(q) = b /\ \A h \in 1 .. b : q[h] = p[a + h]
  <2>1. i <= j + 1 /\ j <= Len(p) /\ j + 1 - i = b
    BY <1>5, <1>6
  <2>2. /\ q \in Seq(Chars) /\ Len(q) = j + 1 - i
        /\ \A h \in 1 .. j + 1 - i : q[h] = p[i + h - 1]
    BY SMTT(30), <1>5, <1>9, <2>1, PartOf
  <2>3. \A h \in 1 .. b : i + h - 1 = a + h
    BY <1>6
  <2> QED
    BY <2>1, <2>2, <2>3
<1>11. ASSUME NEW h \in 1 .. b
       PROVE  q[h] = x[h]
  <2>1. PICK g \in 1 .. a + b : g = a + h
    OBVIOUS
  <2>2. g \in 1 .. a + b + e /\ ~ (g <= a) /\ g - a = h
    BY <2>1
  <2>3. p[g] = u[g]
    BY <1>5, <2>2
  <2>4. u[g] = x[g - a]
    BY <1>4, <2>2
  <2> QED
    BY <1>10, <2>1, <2>2, <2>3, <2>4
<1>12. q = x
  BY <1>1, <1>10, <1>11, SeqEqual
<1> QED
  BY <1>8, <1>9, <1>12 DEF PartOfText

LEMMA UpdateShows ==
  ASSUME EnvInv', TrailInv', EnvUpdate, phase' = "loop", visited' # <<>>,
         NEW home, home = IF HOME \in DOMAIN table' THEN table'[HOME] ELSE <<>>,
         NEW dir, dir = visited'[Len(visited')],
         IsPrefix(home, dir) => home # dir /\ dir[Len(home) + 1] = "/",
         \E i \in DOMAIN table'[PS1] :
            /\ i < Len(table'[PS1]) /\ table'[PS1][i] = "\\" /\ table'[PS1][i + 1] = "D"
  PROVE  \E i, j \in DOMAIN ps1' : Denotes(SubSeq(ps1', i, j), dir, home)
<1>1. PICK t : t = table'
  OBVIOUS
<1>2. HoldsTexts(t)
  BY <1>1 DEF EnvInv, StartsInv, TextInv, HoldsTexts
<1>3. PWD \in DOMAIN t /\ t[PWD] = dir
  BY <1>1 DEF TrailInv, PwdTrail
<1>4. dir # <<>>
  <2>1. visited' \in Seq(Dirs) /\ Len(visited') \in 1 .. Len(visited')
    BY LenProperties, EmptySeq DEF TrailInv
  <2>2. dir \in Dirs
    BY <2>1, ElementOfSeq
  <2> QED
    BY <2>2, EnvironmentAssumption
<1>5. PS1 \in DOMAIN t /\ ps1' \in Rendered(t)
  BY <1>1 DEF EnvUpdate, UpdatePs1, Faults
<1>6. PICK q \in Seq(Chars) : q = t[PS1]
  BY <1>2, <1>5 DEF HoldsTexts
<1>7. PICK i \in DOMAIN q : i < Len(q) /\ q[i] = "\\" /\ q[i + 1] = "D"
  BY <1>1, <1>6
<1>8. i \in Nat \ {0}
  BY <1>6, <1>7, LenProperties
<1>9. ShownIn(ps1', t)
  BY <1>2, <1>5, <1>6, <1>7, <1>8, DirectoryShown
<1>10. PICK s \in Seq(Chars), x \in Directory(t), y \in Seq(Chars) : ps1' = (s \o x) \o y
  BY <1>9 DEF ShownIn
<1>11. HomeIn(home, t)
  <2>1. CASE HOME \in DOMAIN t
    BY <1>1, <1>2, <2>1 DEF HoldsTexts, HomeIn
  <2>2. CASE HOME \notin DOMAIN t
    <3>1. home = <<>>
      BY <1>1, <2>2
    <3> QED
      BY <2>2, <3>1, EmptySeq DEF HomeIn
  <2> QED
    BY <2>1, <2>2
<1>12. TrulyBelow(home, dir)
  BY DEF TrulyBelow
<1>13. Depicts(x, dir, home)
  BY ONLY <1>2, <1>3, <1>4, <1>11, <1>12, DirectoryDenotes, x \in Directory(t)
<1>14. PartOfText(x, ps1')
  <2>1. x \in Seq(Chars) /\ x # <<>>
    BY <1>13 DEF Depicts
  <2>2. PICK p : p = ps1'
    OBVIOUS
  <2>3. p = (s \o x) \o y
    BY <1>10, <2>2
  <2>4. PartOfText(x, p)
    BY ONLY <2>1, <2>3, PartWhere, s \in Seq(Chars), y \in Seq(Chars)
  <2> QED
    BY <2>2, <2>4
<1> QED
  <2>1. PICK a \in DOMAIN ps1', b \in DOMAIN ps1' : SubSeq(ps1', a, b) = x
    BY <1>14 DEF PartOfText
  <2>2. Denotes(x, dir, home)
    BY <1>13 DEF Depicts
  <2> QED
    BY <2>1, <2>2

\* A prompt with \D shows the directory the shell was last known to be in
\* (env_update(), env_update_ps1()), apart from those vstr_starts_with() takes for
\* ones below HOME, for every text of PS1 and every set of directories.
THEOREM PromptShowsDirectory == Spec => ShowsDirectory
<1>1. EnvInv' /\ TrailInv' /\ [Next]_vars =>
        [EnvUpdate /\ phase' = "loop" /\ visited' # <<>> =>
           LET dir  == visited'[Len(visited')]
               home == IF HOME \in DOMAIN table' THEN table'[HOME] ELSE <<>>
               value == table'[PS1]
           IN  /\ \E i \in DOMAIN value :
                    i < Len(value) /\ value[i] = "\\" /\ value[i + 1] = "D"
               /\ IsPrefix(home, dir) => home # dir /\ dir[Len(home) + 1] = "/"
               => \E i, j \in DOMAIN ps1' : Denotes(SubSeq(ps1', i, j), dir, home)]_vars
  BY UpdateShows
<1> QED
  BY EnvStarts, EnvNext, TrailInit, TrailNext, <1>1, PTL DEF Spec, ShowsDirectory
=============================================================================
