---------------------------- MODULE ParserProofs ----------------------------
(***************************************************************************)
(* Theorems about Lexer and Parser, for every source, every set of         *)
(* reserved words and every capacity a list of tokens begins with.         *)
(***************************************************************************)
EXTENDS Parser, SequenceTheorems, FiniteSetTheorems, FoldProofs, TLAPS

\* The last token is the one the parser stops at, and there is no other such.
EndsWithEOF ==
  /\ tokens # <<>> /\ tokens[Len(tokens)].type = "T_EOF"
  /\ \A t \in 1 .. Len(tokens) - 1 : tokens[t].type # "T_EOF"

\* The scanner does not leave the source, but for the 0 behind a comment, and no
\* token ends beyond what is scanned.  One that ends the list is only there when
\* the scanner has come to the end.
ScanInv ==
  /\ source \in Seq(Chars) /\ at \in Nat /\ tokens \in Seq(Token) /\ phase \in Phases
  /\ IF phase = "overrun" THEN at = Len(source) + 1 ELSE at <= Len(source)
  /\ \A t \in DOMAIN tokens : tokens[t].to <= at
  /\ phase = "lex" => \A t \in DOMAIN tokens : tokens[t].type # "T_EOF"
  /\ phase \in {"parse", "parsed"} => EndsWithEOF
  /\ phase = "exit" => EndsWithEOF \/ \A t \in DOMAIN tokens : tokens[t].type # "T_EOF"

\* There is room for every token, however often the list has grown.
RoomInv == capacity \in Nat \ {0} /\ Len(tokens) <= capacity

\* Where the parser is: at a token, and with as many commands as the function
\* that runs has to have.
PlaceInv ==
  /\ phase \in {"lex", "overrun"} => function = "parse" /\ pos = 1
  /\ phase = "parse" => pos \in DOMAIN tokens
  /\ statement \in Seq(Seq(Nat)) /\ statements \in Seq(Seq(Seq(Nat)))
  /\ pos \in Nat /\ function \in {"parse", "left", "right"}
  /\ function = "parse" => Len(statement) = 0
  /\ function = "left" => Len(statement) = 1
  /\ function = "right" => Len(statement) = 2
  /\ \A s \in DOMAIN statements : Len(statements[s]) \in {1, 2}

\* No two && among the first n tokens of the list without a newline between them.
LinesApart(list, n) ==
  \A t, u \in 1 .. n :
    list[t].type = "T_AND_IF" /\ list[u].type = "T_AND_IF" /\ t < u =>
      \E l \in 1 .. n : list[l].type = "T_NEWLINE" /\ t < l /\ l < u

\* No && after the last newline of them.
NoneOpen(list, n) ==
  \A t \in 1 .. n : list[t].type = "T_AND_IF" =>
    \E l \in 1 .. n : list[l].type = "T_NEWLINE" /\ t < l

\* An && after it.
OneOpen(list, n) ==
  \E t \in 1 .. n :
    /\ list[t].type = "T_AND_IF"
    /\ \A l \in 1 .. n : t < l => list[l].type # "T_NEWLINE"

Accepted(list, n) ==
  /\ \A t \in 1 .. n :
       list[t].type \in {"T_WORD", "T_STRING", "T_AND_IF", "T_NEWLINE"}
  /\ LinesApart(list, n)

\* What the parser has accepted is a beginning of the grammar, and which function
\* runs says what may follow it.
ReadInv ==
  phase = "parse" =>
    /\ Accepted(tokens, pos - 1)
    /\ function = "parse" => /\ NoneOpen(tokens, pos - 1)
                             /\ pos > 1 => tokens[pos - 1].type = "T_NEWLINE"
    /\ function = "left" =>
         /\ NoneOpen(tokens, pos - 1)
         /\ \/ Full \/ tokens[pos].type # "T_EOF"
            \/ pos > 1 /\ tokens[pos - 1].type \in {"T_WORD", "T_STRING"}
    /\ function = "right" =>
         /\ OneOpen(tokens, pos - 1)
         /\ pos > 1 /\ tokens[pos - 1].type \in {"T_WORD", "T_STRING", "T_AND_IF"}

ParserInv == ScanInv /\ RoomInv /\ TokensCover /\ StaysInSource
               /\ PlaceInv /\ ReadInv /\ AcceptsGrammar

-----------------------------------------------------------------------------
(* The scanner.                                                            *)

\* The loops that look for the end of a word, a string or a comment find the
\* first character of a set, or the end of the source.
LEMMA FirstAfterIs ==
  ASSUME source \in Seq(Chars), NEW i \in Nat, i <= Len(source), NEW C
  PROVE  /\ FirstAfter(i, C) \in i + 1 .. Len(source) + 1
         /\ FirstAfter(i, C) <= Len(source) => source[FirstAfter(i, C)] \in C
         /\ \A k \in i + 1 .. FirstAfter(i, C) - 1 : source[k] \notin C
<1>1. PICK n \in Nat : n = Len(source)
  BY LenProperties
<1> DEFINE Hit(j) == j = n + 1 \/ source[j] \in C
           Found == {j \in i + 1 .. n + 1 : Hit(j)}
<1>2. Found \in SUBSET Nat /\ Found # {}
  <2>1. n + 1 \in Found
    BY <1>1
  <2> QED
    BY <1>1, <2>1
<1>3. \E m \in Found : \A k \in Found : m <= k
  <2> HIDE DEF Found
  <2> QED
    BY <1>2, FirstOne
<1>4. PICK m \in Found : \A k \in Found : m <= k
  BY <1>3
<1>5. m \in i + 1 .. Len(source) + 1 /\ (m = Len(source) + 1 \/ source[m] \in C)
  BY <1>1, <1>4
<1>6. ASSUME NEW k \in i + 1 .. m - 1
      PROVE  source[k] \notin C
  <2>1. k \in i + 1 .. n + 1 /\ k < m
    BY <1>1, <1>5
  <2>2. k \notin Found
    BY <1>4, <1>5, <2>1
  <2> QED
    BY <2>1, <2>2
<1> DEFINE Q(j) == /\ j = Len(source) + 1 \/ source[j] \in C
                   /\ \A k \in i + 1 .. j - 1 : source[k] \notin C
<1>7. \E j \in i + 1 .. Len(source) + 1 : Q(j)
  BY <1>5, <1>6
<1>8. FirstAfter(i, C) = CHOOSE j \in i + 1 .. Len(source) + 1 : Q(j)
  BY DEF FirstAfter
<1>9. FirstAfter(i, C) \in i + 1 .. Len(source) + 1 /\ Q(FirstAfter(i, C))
  <2> HIDE DEF Q
  <2> QED
    BY <1>7, <1>8
<1> QED
  BY <1>1, <1>9

LEMMA AddTokenAppends ==
  ASSUME tokens \in Seq(Token), RoomInv, NEW type \in Types, NEW from \in Nat, NEW to \in Nat,
         AddToken(type, from, to)
  PROVE  /\ tokens' \in Seq(Token) /\ Len(tokens) \in Nat /\ Len(tokens') = Len(tokens) + 1
         /\ \A t \in 1 .. Len(tokens) : tokens'[t] = tokens[t]
         /\ tokens'[Len(tokens) + 1].type = type
         /\ tokens'[Len(tokens) + 1].from = from
         /\ tokens'[Len(tokens) + 1].to = to
         /\ RoomInv'
<1>1. PICK e : e = [type |-> type, from |-> from, to |-> to]
  OBVIOUS
<1>2. e \in Token /\ e.type = type /\ e.from = from /\ e.to = to
  BY <1>1 DEF Token
<1>3. tokens' = Append(tokens, e)
  BY <1>1 DEF AddToken
<1>4. /\ tokens' \in Seq(Token) /\ Len(tokens') = Len(tokens) + 1 /\ Len(tokens) \in Nat
      /\ \A t \in 1 .. Len(tokens) : tokens'[t] = tokens[t]
      /\ tokens'[Len(tokens) + 1] = e
  BY <1>2, <1>3, AppendProperties, LenProperties
<1>5. RoomInv'
  <2>1. /\ capacity \in Nat \ {0} /\ Len(tokens) <= capacity
        /\ capacity' = IF Len(tokens) >= capacity THEN capacity * 2 ELSE capacity
    BY DEF RoomInv, AddToken
  <2>2. capacity' \in Nat \ {0} /\ Len(tokens) + 1 <= capacity'
    BY <1>4, <2>1
  <2> QED
    BY <1>4, <2>2 DEF RoomInv
<1> QED
  BY <1>2, <1>4, <1>5

\* A token that begins behind what is scanned and ends in what then is.
LEMMA TokenScanned ==
  ASSUME ScanInv, RoomInv, TokensCover, phase = "lex",
         NEW type \in Types, NEW from \in Nat, NEW to \in Nat,
         AddToken(type, from, to), source' = source, at < from, to <= at',
         at' \in at .. Len(source), phase' \in {"lex", "parse"},
         (phase' = "parse") <=> (type = "T_EOF"),
         \A i \in at + 1 .. at' : i \in from .. to \/ source[i] \in {Blank, Tab, Quote}
  PROVE  ScanInv' /\ RoomInv' /\ TokensCover'
<1>1. PICK n \in Nat : n = Len(tokens)
  BY LenProperties DEF ScanInv
<1>2. /\ tokens' \in Seq(Token) /\ Len(tokens') = n + 1
      /\ \A t \in 1 .. n : tokens'[t] = tokens[t]
      /\ tokens'[n + 1].type = type /\ tokens'[n + 1].from = from /\ tokens'[n + 1].to = to
      /\ RoomInv'
  BY <1>1, AddTokenAppends DEF ScanInv
<1>3. DOMAIN tokens = 1 .. n /\ DOMAIN tokens' = 1 .. n + 1
  BY <1>1, <1>2, LenProperties DEF ScanInv
<1>4. /\ source \in Seq(Chars) /\ at \in Nat /\ at' \in Nat /\ Len(source) \in Nat
      /\ \A t \in 1 .. n : tokens[t] \in Token /\ tokens[t].to <= at
                          /\ tokens[t].type # "T_EOF"
  <2>1. source \in Seq(Chars) /\ Len(source) \in Nat
    BY LenProperties DEF ScanInv
  <2>2. at \in Nat /\ at' \in Nat
    BY <2>1 DEF ScanInv
  <2>3. ASSUME NEW t \in 1 .. n
        PROVE  tokens[t] \in Token /\ tokens[t].to <= at /\ tokens[t].type # "T_EOF"
    BY <1>1, <1>3, <2>3, ElementOfSeq DEF ScanInv
  <2> QED
    BY <2>1, <2>2, <2>3
<1>5. ASSUME NEW t \in 1 .. n + 1
      PROVE  tokens'[t].to <= at'
  <2>1. CASE t \in 1 .. n
    <3>1. tokens[t].to \in Nat /\ tokens[t].to <= at
      BY <1>4, <2>1 DEF Token
    <3> QED
      BY <1>2, <1>4, <2>1, <3>1
  <2>2. CASE t = n + 1
    BY <1>2, <2>2
  <2> QED
    BY <2>1, <2>2
<1>6. ScanInv'
  <2>1. phase' = "lex" => \A t \in 1 .. n + 1 : tokens'[t].type # "T_EOF"
    BY <1>2, <1>4
  <2>2. phase' = "parse" => EndsWithEOF'
    <3> SUFFICES ASSUME phase' = "parse"
                 PROVE  EndsWithEOF'
      OBVIOUS
    <3>1. tokens' # <<>> /\ tokens'[Len(tokens')].type = "T_EOF"
      BY <1>2
    <3>2. \A t \in 1 .. n : tokens'[t].type # "T_EOF"
      BY <1>2, <1>4
    <3>3. Len(tokens') - 1 = n
      BY <1>2
    <3> QED
      BY <3>1, <3>2, <3>3 DEF EndsWithEOF
  <2>3. phase' \in Phases
    BY DEF Phases
  <2> QED
    BY <1>2, <1>3, <1>4, <1>5, <2>1, <2>2, <2>3 DEF ScanInv
<1>7. ASSUME NEW t \in 1 .. n + 1, NEW u \in 1 .. n + 1, t < u
      PROVE  tokens'[t].to < tokens'[u].from
  <2>1. t \in 1 .. n
    BY <1>7
  <2>2. tokens'[t] = tokens[t] /\ tokens[t].to \in Nat /\ tokens[t].to <= at
    BY <1>2, <1>4, <2>1 DEF Token
  <2>3. CASE u \in 1 .. n
    BY <1>2, <1>3, <1>7, <2>1, <2>2, <2>3 DEF TokensCover
  <2>4. CASE u = n + 1
    BY <1>2, <1>4, <2>2, <2>4
  <2> QED
    BY <2>3, <2>4
<1>8. ASSUME NEW i \in 1 .. at'
      PROVE  \/ InToken(i)'
             \/ source[i] \in {Blank, Tab, Quote}
             \/ \E h \in 1 .. i : /\ source[h] = "#" /\ ~ InToken(h)'
                                  /\ \A k \in h .. i - 1 : source[k] # "\n"
  <2>1. CASE i \in 1 .. at
    <3>1. \A h \in 1 .. at : InToken(h)' <=> InToken(h)
      <4>1. \A h \in 1 .. at : h \notin from .. to
        BY <1>4
      <4>2. \A h : InToken(h)' <=> \E t \in 1 .. n + 1 : h \in tokens'[t].from .. tokens'[t].to
        BY <1>3 DEF InToken
      <4>3. \A h : InToken(h) <=> \E t \in 1 .. n : h \in tokens[t].from .. tokens[t].to
        BY <1>3 DEF InToken
      <4>4. \A t \in 1 .. n + 1 : t \in 1 .. n \/ t = n + 1
        OBVIOUS
      <4>5. \A t \in 1 .. n : t \in 1 .. n + 1
        OBVIOUS
      <4> QED
        BY <1>2, <4>1, <4>2, <4>3, <4>4, <4>5
    <3>2. \/ InToken(i)
          \/ source[i] \in {Blank, Tab, Quote}
          \/ \E h \in 1 .. i : /\ source[h] = "#" /\ ~ InToken(h)
                               /\ \A k \in h .. i - 1 : source[k] # "\n"
      BY <2>1 DEF TokensCover
    <3>3. 1 .. i \subseteq 1 .. at
      BY <1>4, <2>1
    <3> QED
      BY <2>1, <3>1, <3>2, <3>3
  <2>2. CASE i \in at + 1 .. at'
    <3>1. i \in from .. to => InToken(i)'
      <4>1. n + 1 \in 1 .. n + 1
        OBVIOUS
      <4> QED
        BY <1>2, <1>3, <4>1 DEF InToken
    <3> QED
      BY <2>2, <3>1
  <2> QED
    BY <1>4, <2>1, <2>2
<1>9. TokensCover'
  BY <1>3, <1>7, <1>8 DEF TokensCover
<1> QED
  BY <1>2, <1>6, <1>9

\* What the scanner keeps, in the source and in the list.
LexInv == ScanInv /\ RoomInv /\ TokensCover /\ StaysInSource

LEMMA LexInitially ==
  LexInit => LexInv
<1> SUFFICES ASSUME LexInit
             PROVE  LexInv
  OBVIOUS
<1>1. source \in Seq(Chars) /\ InitialCapacity \in Nat \ {0}
  BY LexerAssumption DEF LexInit
<1>2. Len(source) \in Nat /\ tokens \in Seq(Token) /\ Len(tokens) = 0 /\ DOMAIN tokens = {}
  BY <1>1, LenProperties DEF LexInit
<1>3. ScanInv
  BY <1>1, <1>2 DEF LexInit, ScanInv, Phases
<1>4. RoomInv /\ StaysInSource
  BY <1>1, <1>2 DEF LexInit, RoomInv, StaysInSource
<1>5. TokensCover
  BY <1>2 DEF LexInit, TokensCover
<1> QED
  BY <1>3, <1>4, <1>5 DEF LexInv

\* One token of one or two characters.
LEMMA OperatorKeeps ==
  ASSUME LexInv, Operator \/ Newline
  PROVE  LexInv'
<1>1. /\ phase = "lex" /\ phase' = phase /\ source' = source /\ at \in Nat
      /\ Len(source) \in Nat /\ at < Len(source) /\ at' = at + 1
  BY LenProperties DEF LexInv, ScanInv, Operator, Newline, NextIs
<1>2. PICK type \in {"T_OPERATOR", "T_NEWLINE"} : AddToken(type, at + 1, at + 1)
  BY DEF Operator, Newline
<1>3. \A i \in at + 1 .. at' : i \in at + 1 .. at + 1
  BY <1>1
<1>4. ScanInv' /\ RoomInv' /\ TokensCover'
  <2>1. /\ type \in Types /\ type # "T_EOF" /\ at + 1 \in Nat /\ at < at + 1 /\ at + 1 <= at'
        /\ at' \in at .. Len(source) /\ phase' \in {"lex", "parse"} /\ phase' # "parse"
    BY <1>1, <1>2 DEF Types
  <2> QED
    BY <1>1, <1>2, <1>3, <2>1, TokenScanned DEF LexInv
<1>5. StaysInSource'
  BY <1>1 DEF StaysInSource
<1> QED
  BY <1>4, <1>5 DEF LexInv

LEMMA MatchKeeps ==
  ASSUME LexInv, Match
  PROVE  LexInv'
<1>1. /\ phase = "lex" /\ phase' = phase /\ source' = source /\ at \in Nat
      /\ Len(source) \in Nat /\ at < Len(source)
  BY LenProperties DEF LexInv, ScanInv, Match, NextIs
<1>2. PICK type \in {"T_AND_IF", "T_OPERATOR"} :
        at' \in {at + 1, at + 2} /\ at' <= Len(source) /\ AddToken(type, at + 1, at')
  <2>1. PICK c \in DOMAIN Seconds, two \in BOOLEAN :
          /\ two => at + 2 <= Len(source)
          /\ at' = IF two THEN at + 2 ELSE at + 1
          /\ AddToken(IF two /\ c = "&" THEN "T_AND_IF" ELSE "T_OPERATOR", at + 1, at')
    BY DEF Match
  <2>2. at' \in {at + 1, at + 2} /\ at' <= Len(source)
    BY <1>1, <2>1
  <2> QED
    BY <2>1, <2>2
<1>3. \A i \in at + 1 .. at' : i \in at + 1 .. at'
  OBVIOUS
<1>4. ScanInv' /\ RoomInv' /\ TokensCover'
  <2>1. /\ type \in Types /\ type # "T_EOF" /\ at + 1 \in Nat /\ at' \in Nat
        /\ at < at + 1 /\ at' <= at'
        /\ at' \in at .. Len(source) /\ phase' \in {"lex", "parse"} /\ phase' # "parse"
    BY <1>1, <1>2 DEF Types
  <2> QED
    BY <1>1, <1>2, <1>3, <2>1, TokenScanned DEF LexInv
<1>5. StaysInSource'
  BY <1>1 DEF StaysInSource
<1> QED
  BY <1>4, <1>5 DEF LexInv

\* No token: what is scanned is a blank or a comment.
LEMMA NothingScanned ==
  ASSUME LexInv, phase = "lex", UNCHANGED <<source, tokens, capacity>>,
         at < at', at' <= Len(source) + 1, at' \in Nat,
         phase' = IF at' > Len(source) THEN "overrun" ELSE phase,
         phase' # "overrun" =>
           \A i \in at + 1 .. at' :
             \/ source[i] \in {Blank, Tab, Quote}
             \/ \E h \in at + 1 .. i : /\ source[h] = "#"
                                      /\ \A k \in h .. i - 1 : source[k] # "\n"
  PROVE  ScanInv' /\ RoomInv' /\ TokensCover'
<1>1. /\ source \in Seq(Chars) /\ Len(source) \in Nat /\ at \in Nat
      /\ tokens \in Seq(Token) /\ Len(tokens) \in Nat /\ DOMAIN tokens = 1 .. Len(tokens)
      /\ \A t \in DOMAIN tokens : tokens[t] \in Token /\ tokens[t].to <= at
                                 /\ tokens[t].type # "T_EOF"
  BY LenProperties, ElementOfSeq DEF LexInv, ScanInv
<1>2. \A t \in DOMAIN tokens : tokens[t].to <= at'
  BY <1>1 DEF Token
<1>3. ScanInv'
  <2>1. IF phase' = "overrun" THEN at' = Len(source) + 1 ELSE at' <= Len(source)
    BY <1>1
  <2>2. phase' \in {"lex", "overrun"}
    OBVIOUS
  <2> QED
    BY <1>1, <1>2, <2>1, <2>2 DEF ScanInv, Phases
<1>4. RoomInv'
  BY DEF LexInv, RoomInv
<1>5. \A i : InToken(i)' <=> InToken(i)
  BY DEF InToken
<1>6. \A h \in Nat : h > at => ~ InToken(h)
  BY <1>1 DEF InToken, Token
<1>7. ASSUME phase' # "overrun", NEW i \in 1 .. at'
      PROVE  \/ InToken(i)
             \/ source[i] \in {Blank, Tab, Quote}
             \/ \E h \in 1 .. i : /\ source[h] = "#" /\ ~ InToken(h)
                                  /\ \A k \in h .. i - 1 : source[k] # "\n"
  <2>1. CASE i \in 1 .. at
    BY <2>1 DEF LexInv, TokensCover
  <2>2. CASE i \in at + 1 .. at'
    <3>1. \/ source[i] \in {Blank, Tab, Quote}
          \/ \E h \in at + 1 .. i : /\ source[h] = "#"
                                   /\ \A k \in h .. i - 1 : source[k] # "\n"
      BY <1>7, <2>2
    <3>2. \A h \in at + 1 .. i : h \in 1 .. i /\ ~ InToken(h)
      BY <1>1, <1>6
    <3> QED
      BY <3>1, <3>2
  <2> QED
    BY <1>1, <2>1, <2>2
<1>8. TokensCover'
  <2>1. \A t, u \in DOMAIN tokens : t < u => tokens[t].to < tokens[u].from
    BY DEF LexInv, TokensCover
  <2> QED
    BY <1>5, <1>7, <2>1 DEF TokensCover
<1> QED
  BY <1>3, <1>4, <1>8

LEMMA WhitespaceKeeps ==
  ASSUME LexInv, Whitespace
  PROVE  LexInv'
<1>1. /\ phase = "lex" /\ phase' = phase /\ UNCHANGED <<source, tokens, capacity>>
      /\ at \in Nat /\ Len(source) \in Nat /\ at < Len(source) /\ at' = at + 1
      /\ source[at + 1] \in {Blank, Tab}
  BY LenProperties DEF LexInv, ScanInv, Whitespace, NextIs
<1>2. \A i \in at + 1 .. at' : source[i] \in {Blank, Tab, Quote}
  BY <1>1
<1>3. /\ at < at' /\ at' <= Len(source) + 1 /\ at' \in Nat
      /\ phase' = IF at' > Len(source) THEN "overrun" ELSE phase
  BY <1>1
<1>4. ScanInv' /\ RoomInv' /\ TokensCover'
  BY <1>1, <1>2, <1>3, NothingScanned
<1>5. StaysInSource'
  BY <1>1 DEF StaysInSource
<1> QED
  BY <1>4, <1>5 DEF LexInv

\* A comment of a source that ends in a newline ends inside it.
LEMMA CommentKeeps ==
  ASSUME LexInv, Comment
  PROVE  LexInv'
<1>1. /\ phase = "lex" /\ UNCHANGED <<source, tokens, capacity>>
      /\ source \in Seq(Chars) /\ at \in Nat /\ Len(source) \in Nat /\ at < Len(source)
      /\ source[at + 1] = "#" /\ at' = FirstAfter(at, {"\n"})
      /\ phase' = IF at' > Len(source) THEN "overrun" ELSE phase
  BY LenProperties DEF LexInv, ScanInv, Comment, NextIs
<1>2. /\ at' \in at + 1 .. Len(source) + 1
      /\ \A k \in at + 1 .. at' - 1 : source[k] \notin {"\n"}
  BY <1>1, FirstAfterIs
<1>3. ASSUME NEW i \in at + 1 .. at'
      PROVE  \E h \in at + 1 .. i : /\ source[h] = "#"
                                   /\ \A k \in h .. i - 1 : source[k] # "\n"
  <2>1. at + 1 \in at + 1 .. i
    BY <1>1
  <2>2. \A k \in at + 1 .. i - 1 : source[k] # "\n"
    <3>1. \A k \in at + 1 .. i - 1 : k \in at + 1 .. at' - 1
      BY <1>1, <1>2
    <3> QED
      BY <1>2, <3>1
  <2> QED
    BY <1>1, <2>1, <2>2
<1>4. at < at' /\ at' <= Len(source) + 1 /\ at' \in Nat
  BY <1>1, <1>2
<1>5. ScanInv' /\ RoomInv' /\ TokensCover'
  BY <1>1, <1>3, <1>4, NothingScanned
<1>6. StaysInSource'
  <2> SUFFICES ASSUME source[Len(source)] = "\n"
               PROVE  phase' # "overrun"
    BY <1>1 DEF StaysInSource
  <2>1. ASSUME at' = Len(source) + 1
        PROVE  FALSE
    <3>1. Len(source) \in at + 1 .. at' - 1
      BY <1>1, <2>1
    <3> QED
      BY <1>2, <3>1
  <2> QED
    BY <1>1, <1>2, <2>1
<1> QED
  BY <1>5, <1>6 DEF LexInv

LEMMA StringKeeps ==
  ASSUME LexInv, String
  PROVE  LexInv'
<1>1. /\ phase = "lex" /\ phase' = phase /\ source' = source /\ source \in Seq(Chars)
      /\ at \in Nat /\ Len(source) \in Nat /\ at < Len(source) /\ source[at + 1] = Quote
  BY LenProperties DEF LexInv, ScanInv, String, NextIs
<1>2. PICK next \in Nat : next = at + 1
  BY <1>1
<1>3. PICK quote : /\ quote = FirstAfter(next, {Quote}) /\ quote <= Len(source)
                   /\ at' = quote /\ AddToken("T_STRING", at + 2, quote - 1)
  BY <1>2 DEF String
<1>4. quote \in next + 1 .. Len(source) + 1 /\ source[quote] \in {Quote}
  <2>1. PICK C : C = {Quote}
    OBVIOUS
  <2>2. quote = FirstAfter(next, C) /\ next <= Len(source) /\ quote <= Len(source)
    BY <1>1, <1>2, <1>3, <2>1
  <2>3. quote \in next + 1 .. Len(source) + 1 /\ source[quote] \in C
    BY <1>1, <2>2, FirstAfterIs
  <2> QED
    BY <2>1, <2>3
<1>5. quote \in Nat /\ quote >= at + 2
  BY <1>1, <1>2, <1>4
<1>6. PICK from \in Nat, to \in Nat : from = at + 2 /\ to = quote - 1
  BY <1>1, <1>5
<1>7. ASSUME NEW i \in at + 1 .. at'
      PROVE  i \in from .. to \/ source[i] \in {Blank, Tab, Quote}
  <2>1. i = at + 1 \/ i = quote \/ i \in from .. to
    BY <1>1, <1>3, <1>5, <1>6
  <2> QED
    BY <1>1, <1>4, <2>1
<1>8. ScanInv' /\ RoomInv' /\ TokensCover'
  <2>1. /\ "T_STRING" \in Types /\ at < from /\ to <= at'
        /\ at' \in at .. Len(source) /\ phase' \in {"lex", "parse"} /\ phase' # "parse"
    BY <1>1, <1>3, <1>5, <1>6 DEF Types
  <2>2. AddToken("T_STRING", from, to)
    BY <1>3, <1>6
  <2> QED
    BY <1>1, <1>7, <2>1, <2>2, TokenScanned DEF LexInv
<1>9. StaysInSource'
  BY <1>1 DEF StaysInSource
<1> QED
  BY <1>8, <1>9 DEF LexInv

LEMMA StringNotTerminatedKeeps ==
  ASSUME LexInv, StringNotTerminated
  PROVE  LexInv'
<1>1. /\ phase = "lex" /\ phase' = "exit" /\ UNCHANGED <<source, at, tokens, capacity>>
  BY DEF StringNotTerminated, NextIs
<1>2. ScanInv'
  BY <1>1 DEF LexInv, ScanInv, Phases
<1>3. RoomInv' /\ StaysInSource'
  BY <1>1 DEF LexInv, RoomInv, StaysInSource
<1>4. TokensCover'
  BY <1>1 DEF LexInv, TokensCover, InToken
<1> QED
  BY <1>2, <1>3, <1>4 DEF LexInv

LEMMA WordKeeps ==
  ASSUME LexInv, Word
  PROVE  LexInv'
<1>1. /\ phase = "lex" /\ phase' = phase /\ source' = source /\ source \in Seq(Chars)
      /\ at \in Nat /\ Len(source) \in Nat /\ at < Len(source)
  BY LenProperties DEF LexInv, ScanInv, Word, NextIs
<1>2. PICK next \in Nat : next = at + 1
  BY <1>1
<1>3. PICK type \in {"T_RESERVED", "T_WORD"} :
        at' = FirstAfter(next, Terminals) - 1 /\ AddToken(type, next, at')
  BY <1>2 DEF Word
<1>4. FirstAfter(next, Terminals) \in next + 1 .. Len(source) + 1
  BY <1>1, <1>2, FirstAfterIs
<1>5. at' \in Nat /\ at' >= at + 1 /\ at' <= Len(source)
  BY <1>1, <1>2, <1>3, <1>4
<1>6. \A i \in at + 1 .. at' : i \in next .. at'
  BY <1>2
<1>7. ScanInv' /\ RoomInv' /\ TokensCover'
  <2>1. /\ type \in Types /\ type # "T_EOF" /\ at < next /\ at' <= at'
        /\ at' \in at .. Len(source) /\ phase' \in {"lex", "parse"} /\ phase' # "parse"
    BY <1>1, <1>2, <1>3, <1>5 DEF Types
  <2> QED
    BY <1>1, <1>3, <1>5, <1>6, <2>1, TokenScanned DEF LexInv
<1>8. StaysInSource'
  BY <1>1 DEF StaysInSource
<1> QED
  BY <1>7, <1>8 DEF LexInv

LEMMA EndOfSourceKeeps ==
  ASSUME LexInv, EndOfSource
  PROVE  LexInv'
<1>1. /\ phase = "lex" /\ phase' = "parse" /\ source' = source /\ at' = at
      /\ at \in Nat /\ Len(source) \in Nat /\ at = Len(source)
      /\ AddToken("T_EOF", at + 1, at)
  BY LenProperties DEF LexInv, ScanInv, EndOfSource
<1>2. PICK from \in Nat : from = at + 1
  BY <1>1
<1>3. ScanInv' /\ RoomInv' /\ TokensCover'
  <2>1. /\ "T_EOF" \in Types /\ at < from /\ at <= at'
        /\ at' \in at .. Len(source) /\ phase' \in {"lex", "parse"}
    BY <1>1, <1>2 DEF Types
  <2>2. \A i \in at + 1 .. at' : FALSE
    BY <1>1
  <2>3. AddToken("T_EOF", from, at)
    BY <1>1, <1>2
  <2> QED
    BY <1>1, <2>1, <2>2, <2>3, TokenScanned DEF LexInv
<1>4. StaysInSource'
  BY <1>1 DEF StaysInSource
<1> QED
  BY <1>3, <1>4 DEF LexInv

LEMMA LexKeeps ==
  ASSUME LexInv, Lex
  PROVE  LexInv'
<1>1. CASE Operator \/ Newline
  BY <1>1, OperatorKeeps
<1>2. CASE Match
  BY <1>2, MatchKeeps
<1>3. CASE Whitespace
  BY <1>3, WhitespaceKeeps
<1>4. CASE Comment
  BY <1>4, CommentKeeps
<1>5. CASE String
  BY <1>5, StringKeeps
<1>6. CASE StringNotTerminated
  BY <1>6, StringNotTerminatedKeeps
<1>7. CASE Word
  BY <1>7, WordKeeps
<1>8. CASE EndOfSource
  BY <1>8, EndOfSourceKeeps
<1> QED
  BY <1>1, <1>2, <1>3, <1>4, <1>5, <1>6, <1>7, <1>8 DEF Lex

-----------------------------------------------------------------------------
(* The parser.                                                             *)

LEMMA Initially ==
  Init => ParserInv
<1> SUFFICES ASSUME Init
             PROVE  ParserInv
  OBVIOUS
<1>1. LexInv
  BY LexInitially DEF Init
<1>2. phase = "lex" /\ pos = 1 /\ function = "parse" /\ statement = <<>> /\ statements = <<>>
  BY DEF Init, LexInit
<1>3. PlaceInv
  BY <1>2 DEF PlaceInv
<1>4. ReadInv /\ AcceptsGrammar
  BY <1>2 DEF ReadInv, AcceptsGrammar, Refused
<1> QED
  BY <1>1, <1>3, <1>4 DEF ParserInv, LexInv

\* While the source is scanned the parser waits at its first token.
LEMMA LexStepKeeps ==
  ASSUME ParserInv, Lex, UNCHANGED parseVars
  PROVE  ParserInv'
<1>1. LexInv'
  BY LexKeeps DEF ParserInv, LexInv
<1>2. /\ phase = "lex" /\ phase' \in {"lex", "overrun", "parse", "exit"}
      /\ phase' = "exit" => tokens' = tokens
  BY DEF Lex, Operator, Match, Whitespace, Newline, Comment, String, StringNotTerminated,
         Word, EndOfSource, NextIs
<1>3. /\ pos' = 1 /\ function' = "parse" /\ statement' = statement /\ statements' = statements
  BY <1>2 DEF parseVars, ParserInv, PlaceInv
<1>4. phase' = "parse" => 1 \in DOMAIN tokens'
  <2>1. phase' = "parse" => tokens' \in Seq(Token) /\ tokens' # <<>>
    BY <1>1 DEF LexInv, ScanInv, EndsWithEOF
  <2> QED
    BY <2>1, EmptySeq, LenProperties
<1>5. PlaceInv'
  BY <1>2, <1>3, <1>4 DEF ParserInv, PlaceInv
<1>6. ReadInv'
  BY <1>3 DEF ReadInv, Accepted, LinesApart, NoneOpen
<1>7. AcceptsGrammar'
  <2>1. ~ Refused'
    <3> SUFFICES ASSUME phase' = "exit", tokens' # <<>>
                 PROVE  Last(tokens').type # "T_EOF"
      BY DEF Refused
    <3>1. tokens \in Seq(Token) /\ tokens # <<>> /\ tokens' = tokens
      BY <1>2 DEF ParserInv, ScanInv
    <3>2. Len(tokens) \in DOMAIN tokens
      BY <3>1, EmptySeq, LenProperties
    <3> QED
      BY <1>2, <3>1, <3>2 DEF ParserInv, ScanInv, Last
  <2> QED
    BY <1>2, <2>1 DEF AcceptsGrammar
<1> QED
  BY <1>1, <1>5, <1>6, <1>7 DEF ParserInv, LexInv

\* The parser leaves what was scanned alone.
LEMMA ScannedStays ==
  ASSUME ParserInv, UNCHANGED lexVars, phase = "parse", phase' \in {"parse", "parsed", "exit"}
  PROVE  LexInv'
<1>1. ScanInv' /\ RoomInv'
  BY DEF ParserInv, ScanInv, RoomInv, EndsWithEOF, Phases, lexVars
<1>2. TokensCover' /\ StaysInSource'
  BY DEF ParserInv, TokensCover, InToken, StaysInSource, lexVars
<1> QED
  BY <1>1, <1>2 DEF LexInv

\* What is known where the parser looks at a token.
LEMMA AtToken ==
  ASSUME ParserInv, phase = "parse"
  PROVE  /\ Len(tokens) \in Nat /\ pos \in 1 .. Len(tokens)
         /\ tokens \in Seq(Token) /\ DOMAIN tokens = 1 .. Len(tokens)
         /\ tokens[Len(tokens)].type = "T_EOF"
         /\ tokens[pos].type # "T_EOF" => pos + 1 \in 1 .. Len(tokens)
         /\ \A t \in 1 .. Len(tokens) : tokens[t].type = "T_EOF" => t = Len(tokens)
         /\ statement \in Seq(Seq(Nat)) /\ Len(statement) \in Nat
         /\ statements \in Seq(Seq(Seq(Nat))) /\ Len(statements) \in Nat
<1>1. /\ Len(tokens) \in Nat /\ tokens \in Seq(Token) /\ DOMAIN tokens = 1 .. Len(tokens)
      /\ statement \in Seq(Seq(Nat)) /\ Len(statement) \in Nat
      /\ statements \in Seq(Seq(Seq(Nat))) /\ Len(statements) \in Nat
  BY LenProperties DEF ParserInv, ScanInv, PlaceInv
<1>2. /\ tokens[Len(tokens)].type = "T_EOF"
      /\ \A t \in 1 .. Len(tokens) - 1 : tokens[t].type # "T_EOF"
  BY DEF ParserInv, ScanInv, EndsWithEOF
<1>3. pos \in 1 .. Len(tokens)
  BY <1>1 DEF ParserInv, PlaceInv
<1>4. ASSUME NEW t \in 1 .. Len(tokens), tokens[t].type = "T_EOF", t # Len(tokens)
      PROVE  FALSE
  <2>1. t \in 1 .. Len(tokens) - 1
    BY <1>1, <1>4
  <2> QED
    BY <1>2, <1>4, <2>1
<1>5. tokens[pos].type # "T_EOF" => pos + 1 \in 1 .. Len(tokens)
  BY <1>1, <1>2, <1>3
<1> QED
  BY <1>1, <1>2, <1>3, <1>4, <1>5

\* Behind a token that does not end the list there is another one.
LEMMA NextThere ==
  ASSUME ParserInv, phase = "parse", tokens[pos].type # "T_EOF"
  PROVE  /\ pos \in Nat /\ pos >= 1 /\ pos + 1 \in DOMAIN tokens
         /\ statement \in Seq(Seq(Nat)) /\ statements \in Seq(Seq(Seq(Nat)))
<1>1. PICK n : n = Len(tokens)
  OBVIOUS
<1>2. n \in Nat /\ pos \in 1 .. n /\ pos + 1 \in 1 .. n /\ DOMAIN tokens = 1 .. n
  BY <1>1, AtToken
<1>3. pos \in Nat /\ pos >= 1
  BY <1>2
<1> QED
  BY <1>2, <1>3, AtToken

\* As long as the parser is not done, nothing has been refused.
LEMMA NotDone ==
  ASSUME phase' = "parse"
  PROVE  AcceptsGrammar'
BY DEF AcceptsGrammar, Refused

\* The next token is accepted.
LEMMA OneMore ==
  ASSUME NEW list, NEW n \in Nat, NEW m \in Nat, m = n + 1, Accepted(list, n),
         list[m].type \in {"T_WORD", "T_STRING", "T_AND_IF", "T_NEWLINE"},
         list[m].type = "T_AND_IF" => NoneOpen(list, n)
  PROVE  /\ Accepted(list, m)
         /\ list[m].type \in {"T_WORD", "T_STRING"} /\ NoneOpen(list, n) => NoneOpen(list, m)
         /\ list[m].type \in {"T_WORD", "T_STRING"} /\ OneOpen(list, n) => OneOpen(list, m)
         /\ list[m].type = "T_AND_IF" => OneOpen(list, m)
         /\ list[m].type = "T_NEWLINE" => NoneOpen(list, m)
<1>1. \A t \in 1 .. m : t \in 1 .. n \/ t = m
  OBVIOUS
<1>2. \A t \in 1 .. n : t \in 1 .. m /\ t < m
  OBVIOUS
<1>3. m \in 1 .. m
  OBVIOUS
<1>4. \A t \in 1 .. m : list[t].type \in {"T_WORD", "T_STRING", "T_AND_IF", "T_NEWLINE"}
  BY <1>1 DEF Accepted
<1>5. ASSUME NEW t \in 1 .. m, NEW u \in 1 .. m, t < u,
             list[t].type = "T_AND_IF", list[u].type = "T_AND_IF"
      PROVE  \E l \in 1 .. m : list[l].type = "T_NEWLINE" /\ t < l /\ l < u
  <2>1. t \in 1 .. n
    BY <1>1, <1>5
  <2>2. CASE u \in 1 .. n
    <3>1. \E l \in 1 .. n : list[l].type = "T_NEWLINE" /\ t < l /\ l < u
      BY <1>5, <2>1, <2>2 DEF Accepted, LinesApart
    <3> QED
      BY <1>2, <3>1
  <2>3. CASE u = m
    <3>1. \E l \in 1 .. n : list[l].type = "T_NEWLINE" /\ t < l
      BY <1>5, <2>1, <2>3 DEF NoneOpen
    <3> QED
      BY <1>2, <2>3, <3>1
  <2> QED
    BY <1>1, <2>2, <2>3
<1>6. Accepted(list, m)
  BY <1>4, <1>5 DEF Accepted, LinesApart
<1>7. ASSUME list[m].type \in {"T_WORD", "T_STRING"}, NoneOpen(list, n)
      PROVE  NoneOpen(list, m)
  <2> SUFFICES ASSUME NEW t \in 1 .. m, list[t].type = "T_AND_IF"
               PROVE  \E l \in 1 .. m : list[l].type = "T_NEWLINE" /\ t < l
    BY DEF NoneOpen
  <2>1. t \in 1 .. n
    BY <1>1, <1>7
  <2>2. \E l \in 1 .. n : list[l].type = "T_NEWLINE" /\ t < l
    BY <1>7, <2>1 DEF NoneOpen
  <2> QED
    BY <1>2, <2>2
<1>8. ASSUME list[m].type \in {"T_WORD", "T_STRING"}, OneOpen(list, n)
      PROVE  OneOpen(list, m)
  <2>1. PICK t \in 1 .. n : /\ list[t].type = "T_AND_IF"
                            /\ \A l \in 1 .. n : t < l => list[l].type # "T_NEWLINE"
    BY <1>8 DEF OneOpen
  <2>2. \A l \in 1 .. m : t < l => list[l].type # "T_NEWLINE"
    BY <1>1, <1>8, <2>1
  <2> QED
    BY <1>2, <2>1, <2>2 DEF OneOpen
<1>9. ASSUME list[m].type = "T_AND_IF"
      PROVE  OneOpen(list, m)
  <2>1. \A l \in 1 .. m : ~ (m < l)
    OBVIOUS
  <2> QED
    BY <1>3, <1>9, <2>1 DEF OneOpen
<1>10. ASSUME list[m].type = "T_NEWLINE"
       PROVE  NoneOpen(list, m)
  <2> SUFFICES ASSUME NEW t \in 1 .. m, list[t].type = "T_AND_IF"
               PROVE  \E l \in 1 .. m : list[l].type = "T_NEWLINE" /\ t < l
    BY DEF NoneOpen
  <2>1. t \in 1 .. n
    BY <1>1, <1>10
  <2> QED
    BY <1>2, <1>3, <1>10, <2>1
<1> QED
  BY <1>6, <1>7, <1>8, <1>9, <1>10

LEMMA ProgramKeeps ==
  ASSUME ParserInv, Program
  PROVE  ParserInv'
<1>1. /\ phase = "parse" /\ phase' = "parse" /\ function = "parse" /\ function' = "left"
      /\ statement' = <<<<>>>> /\ UNCHANGED lexVars /\ pos' = pos
      /\ statements' = statements
      /\ Full \/ tokens[pos].type # "T_EOF"
  BY DEF Program, In, Check
<1>2. LexInv'
  BY <1>1, ScannedStays
<1>3. PlaceInv'
  <2>1. statement' \in Seq(Seq(Nat))
    <3>1. <<>> \in Seq(Nat)
      OBVIOUS
    <3>2. <<<<>>>> \in Seq(Seq(Nat))
      BY <3>1
    <3> QED
      BY <1>1, <3>2
  <2>2. Len(statement') = 1
    <3>1. PICK e : e = <<>>
      OBVIOUS
    <3>2. Len(<<e>>) = 1
      OBVIOUS
    <3>3. statement' = <<e>>
      BY <1>1, <3>1
    <3> QED
      BY <3>2, <3>3
  <2>3. /\ phase' = "parse" /\ function' = "left" /\ pos' = pos
        /\ statements' = statements /\ tokens' = tokens
    BY <1>1 DEF lexVars
  <2>4. /\ pos \in Nat /\ pos \in DOMAIN tokens /\ statements \in Seq(Seq(Seq(Nat)))
        /\ \A s \in DOMAIN statements : Len(statements[s]) \in {1, 2}
    BY <1>1 DEF ParserInv, PlaceInv
  <2> QED
    BY <2>1, <2>2, <2>3, <2>4 DEF PlaceInv
<1>4. ReadInv'
  BY <1>1 DEF ParserInv, ReadInv, Full, lexVars
<1> QED
  BY <1>1, <1>2, <1>3, <1>4, NotDone DEF ParserInv, LexInv

LEMMA ParseReturnsKeeps ==
  ASSUME ParserInv, ParseReturns
  PROVE  ParserInv'
<1>1. /\ phase = "parse" /\ phase' = "parsed" /\ function = "parse"
      /\ UNCHANGED lexVars /\ UNCHANGED parseVars /\ tokens[pos].type = "T_EOF"
  BY DEF ParseReturns, In, Check
<1>2. LexInv'
  BY <1>1, ScannedStays
<1>3. PlaceInv' /\ ReadInv'
  BY <1>1 DEF ParserInv, PlaceInv, ReadInv, lexVars, parseVars
<1>4. PICK n \in Nat : n = Len(tokens) /\ pos = n
  BY <1>1, AtToken
<1>5. Accepted(tokens, n - 1) /\ (n > 1 => tokens[n - 1].type = "T_NEWLINE")
  BY <1>1, <1>4 DEF ParserInv, ReadInv
<1>6. InGrammar
  BY <1>4, <1>5 DEF InGrammar, Accepted, LinesApart
<1>7. InGrammar'
  BY <1>1, <1>6 DEF InGrammar, lexVars
<1>8. AcceptsGrammar'
  BY <1>1, <1>7 DEF AcceptsGrammar, Refused
<1> QED
  BY <1>2, <1>3, <1>8 DEF ParserInv, LexInv

LEMMA CommandKeeps ==
  ASSUME ParserInv, Command
  PROVE  ParserInv'
<1>1. /\ phase = "parse" /\ phase' = "parse" /\ function \in {"left", "right"}
      /\ function' = function /\ UNCHANGED lexVars /\ pos' = pos + 1
      /\ statements' = statements /\ tokens[pos].type \in {"T_WORD", "T_STRING"}
      /\ statement' = [statement EXCEPT ![Len(statement)] = Append(@, pos)]
  BY DEF Command, In, AtWord, Check
<1>2. LexInv'
  BY <1>1, ScannedStays
<1>3. pos \in Nat /\ pos >= 1 /\ pos + 1 \in DOMAIN tokens /\ statement \in Seq(Seq(Nat))
  <2>1. phase = "parse" /\ tokens[pos].type # "T_EOF"
    BY <1>1
  <2> QED
    BY <2>1, NextThere
<1>4. statement' \in Seq(Seq(Nat)) /\ Len(statement') = Len(statement)
  <2>1. PICK k \in Nat : k = Len(statement)
    BY <1>3, LenProperties
  <2>2. k \in 1 .. Len(statement)
    BY <1>1, <2>1 DEF ParserInv, PlaceInv
  <2>3. PICK e : e = Append(statement[k], pos)
    OBVIOUS
  <2>4. e \in Seq(Nat)
    <3>1. statement[k] \in Seq(Nat)
      BY <1>3, <2>2, ElementOfSeq
    <3> QED
      BY <1>3, <2>3, <3>1, AppendProperties
  <2>5. statement' = [statement EXCEPT ![k] = e]
    BY <1>1, <2>1, <2>3
  <2> QED
    BY <1>3, <2>2, <2>4, <2>5, ExceptSeq
<1>5. PlaceInv'
  BY <1>1, <1>3, <1>4 DEF ParserInv, PlaceInv, lexVars
<1>6. PICK n \in Nat, m \in Nat : n = pos - 1 /\ m = pos /\ m = n + 1
  BY <1>3
<1>7. /\ Accepted(tokens, m)
      /\ function = "left" => NoneOpen(tokens, m)
      /\ function = "right" => OneOpen(tokens, m)
  <2>1. /\ Accepted(tokens, n) /\ tokens[m].type \in {"T_WORD", "T_STRING"}
        /\ function = "left" => NoneOpen(tokens, n)
        /\ function = "right" => OneOpen(tokens, n)
    BY <1>1, <1>6 DEF ParserInv, ReadInv
  <2> QED
    BY <1>6, <2>1, OneMore
<1>8. ReadInv'
  <2>1. pos' - 1 = m /\ pos' > 1 /\ tokens' = tokens /\ tokens[m].type \in {"T_WORD", "T_STRING"}
    BY <1>1, <1>3, <1>6 DEF lexVars
  <2> QED
    BY <1>1, <1>7, <2>1 DEF ReadInv
<1> QED
  BY <1>1, <1>2, <1>5, <1>8, NotDone DEF ParserInv, LexInv

LEMMA AndIfKeeps ==
  ASSUME ParserInv, AndIf
  PROVE  ParserInv'
<1>1. /\ phase = "parse" /\ phase' = "parse" /\ function = "left" /\ function' = "right"
      /\ UNCHANGED lexVars /\ pos' = pos + 1
      /\ statements' = statements /\ tokens[pos].type = "T_AND_IF"
      /\ statement' = Append(statement, <<>>)
  BY DEF AndIf, In, Check
<1>2. LexInv'
  BY <1>1, ScannedStays
<1>3. pos \in Nat /\ pos >= 1 /\ pos + 1 \in DOMAIN tokens /\ statement \in Seq(Seq(Nat))
  <2>1. phase = "parse" /\ tokens[pos].type # "T_EOF"
    BY <1>1
  <2> QED
    BY <2>1, NextThere
<1>4. statement' \in Seq(Seq(Nat)) /\ Len(statement') = 2
  <2>1. <<>> \in Seq(Nat)
    OBVIOUS
  <2>2. Len(statement) = 1
    BY <1>1 DEF ParserInv, PlaceInv
  <2>3. PICK e : e = <<>>
    OBVIOUS
  <2>4. PICK S : S = Seq(Nat)
    OBVIOUS
  <2>5. statement' = Append(statement, e) /\ e \in S /\ statement \in Seq(S)
    BY <1>1, <1>3, <2>1, <2>3, <2>4
  <2>6. statement' \in Seq(S) /\ Len(statement') = Len(statement) + 1
    BY <2>5, AppendProperties
  <2> QED
    BY <2>2, <2>4, <2>6
<1>5. PlaceInv'
  BY <1>1, <1>3, <1>4 DEF ParserInv, PlaceInv, lexVars
<1>6. PICK n \in Nat, m \in Nat : n = pos - 1 /\ m = pos /\ m = n + 1
  BY <1>3
<1>7. Accepted(tokens, m) /\ OneOpen(tokens, m)
  <2>1. Accepted(tokens, n) /\ tokens[m].type = "T_AND_IF" /\ NoneOpen(tokens, n)
    BY <1>1, <1>6 DEF ParserInv, ReadInv
  <2> QED
    BY <1>6, <2>1, OneMore
<1>8. ReadInv'
  <2>1. pos' - 1 = m /\ pos' > 1 /\ tokens' = tokens /\ tokens[m].type = "T_AND_IF"
    BY <1>1, <1>3, <1>6 DEF lexVars
  <2> QED
    BY <1>1, <1>7, <2>1 DEF ReadInv
<1> QED
  BY <1>1, <1>2, <1>5, <1>8, NotDone DEF ParserInv, LexInv

LEMMA ConsumeNewlineKeeps ==
  ASSUME ParserInv, ConsumeNewline
  PROVE  ParserInv'
<1>1. /\ phase = "parse" /\ phase' = "parse" /\ function \in {"left", "right"}
      /\ function' = "parse" /\ UNCHANGED lexVars /\ pos' = pos + 1
      /\ tokens[pos].type = "T_NEWLINE"
      /\ statements' = Append(statements, statement) /\ statement' = <<>>
  BY DEF ConsumeNewline, In, Check
<1>2. LexInv'
  BY <1>1, ScannedStays
<1>3. /\ pos \in Nat /\ pos >= 1 /\ pos + 1 \in DOMAIN tokens /\ statement \in Seq(Seq(Nat))
      /\ statements \in Seq(Seq(Seq(Nat)))
  <2>1. phase = "parse" /\ tokens[pos].type # "T_EOF"
    BY <1>1
  <2> QED
    BY <2>1, NextThere
<1>4. /\ statements' \in Seq(Seq(Seq(Nat)))
      /\ \A s \in DOMAIN statements' : Len(statements'[s]) \in {1, 2}
  <2>1. PICK k \in Nat : k = Len(statements)
    BY <1>3, LenProperties
  <2>2. /\ statements' \in Seq(Seq(Seq(Nat))) /\ Len(statements') = k + 1
        /\ \A s \in 1 .. k : statements'[s] = statements[s]
        /\ statements'[k + 1] = statement
    BY <1>1, <1>3, <2>1, AppendProperties
  <2>3. DOMAIN statements' = 1 .. k + 1 /\ DOMAIN statements = 1 .. k
    BY <1>3, <2>1, <2>2, LenProperties
  <2>4. Len(statement) \in {1, 2} /\ \A s \in 1 .. k : Len(statements[s]) \in {1, 2}
    BY <1>1, <2>3 DEF ParserInv, PlaceInv
  <2>5. \A s \in 1 .. k + 1 : s \in 1 .. k \/ s = k + 1
    OBVIOUS
  <2> QED
    BY <2>2, <2>3, <2>4, <2>5
<1>5. PlaceInv'
  <2>1. <<>> \in Seq(Seq(Nat)) /\ Len(<<>>) = 0
    OBVIOUS
  <2> QED
    BY <1>1, <1>3, <1>4, <2>1 DEF PlaceInv, lexVars
<1>6. PICK n \in Nat, m \in Nat : n = pos - 1 /\ m = pos /\ m = n + 1
  BY <1>3
<1>7. Accepted(tokens, m) /\ NoneOpen(tokens, m)
  <2>1. Accepted(tokens, n) /\ tokens[m].type = "T_NEWLINE"
    BY <1>1, <1>6 DEF ParserInv, ReadInv
  <2> QED
    BY <1>6, <2>1, OneMore
<1>8. ReadInv'
  <2>1. pos' - 1 = m /\ tokens' = tokens /\ tokens[m].type = "T_NEWLINE"
    BY <1>1, <1>3, <1>6 DEF lexVars
  <2> QED
    BY <1>1, <1>7, <2>1 DEF ReadInv
<1> QED
  BY <1>1, <1>2, <1>5, <1>8, NotDone DEF ParserInv, LexInv

\* What consume() refuses is not in the grammar, if check_single() could look at it.
LEMMA NewlineExpectedKeeps ==
  ASSUME ParserInv, NewlineExpected
  PROVE  ParserInv'
<1>1. /\ phase = "parse" /\ phase' = "exit" /\ function \in {"left", "right"}
      /\ UNCHANGED lexVars /\ UNCHANGED parseVars
  BY DEF NewlineExpected, In
<1>2. LexInv'
  BY <1>1, ScannedStays
<1>3. PlaceInv' /\ ReadInv'
  BY <1>1 DEF ParserInv, PlaceInv, ReadInv, lexVars, parseVars
<1>4. ASSUME ~ Full, InGrammar
      PROVE  FALSE
  <2>1. PICK n \in Nat : /\ n = Len(tokens) /\ pos \in 1 .. n
                         /\ \A t \in 1 .. n : tokens[t].type = "T_EOF" => t = n
                         /\ tokens[n].type = "T_EOF"
    BY <1>1, AtToken
  <2>2. /\ tokens[pos].type \notin {"T_WORD", "T_STRING", "T_NEWLINE"}
        /\ function = "left" => tokens[pos].type # "T_AND_IF"
    BY <1>1, <1>4 DEF NewlineExpected, AtWord, Check, In
  <2>3. /\ \A t \in 1 .. n - 1 :
              tokens[t].type \in {"T_WORD", "T_STRING", "T_AND_IF", "T_NEWLINE"}
        /\ n > 1 => tokens[n - 1].type = "T_NEWLINE"
        /\ \A t, u \in 1 .. n - 1 :
              tokens[t].type = "T_AND_IF" /\ tokens[u].type = "T_AND_IF" /\ t < u =>
                \E l \in 1 .. n - 1 : tokens[l].type = "T_NEWLINE" /\ t < l /\ l < u
    BY <1>4, <2>1 DEF InGrammar
  <2>4. CASE pos = n
    <3>1. pos > 1 /\ tokens[pos - 1].type # "T_NEWLINE"
      BY <1>1, <1>4, <2>1, <2>4 DEF ParserInv, ReadInv
    <3> QED
      BY <2>3, <2>4, <3>1
  <2>5. CASE pos \in 1 .. n - 1
    <3>1. function = "right" /\ tokens[pos].type = "T_AND_IF"
      BY <1>1, <2>2, <2>3, <2>5
    <3>2. OneOpen(tokens, pos - 1)
      BY <1>1, <3>1 DEF ParserInv, ReadInv
    <3>3. PICK t \in 1 .. pos - 1 :
            /\ tokens[t].type = "T_AND_IF"
            /\ \A l \in 1 .. pos - 1 : t < l => tokens[l].type # "T_NEWLINE"
      BY <3>2 DEF OneOpen
    <3>4. t \in 1 .. n - 1 /\ t < pos
      BY <2>1, <2>5
    <3>5. PICK l \in 1 .. n - 1 : tokens[l].type = "T_NEWLINE" /\ t < l /\ l < pos
      BY <2>3, <2>5, <3>1, <3>3, <3>4
    <3>6. l \in 1 .. pos - 1
      BY <2>1, <3>5
    <3> QED
      BY <3>3, <3>5, <3>6
  <2> QED
    BY <2>1, <2>4, <2>5
<1>5. ~ InGrammar \/ Full
  BY <1>4
<1>6. ~ InGrammar' \/ Full'
  BY <1>1, <1>5 DEF InGrammar, Full, lexVars
<1>7. AcceptsGrammar'
  BY <1>1, <1>6 DEF AcceptsGrammar
<1> QED
  BY <1>2, <1>3, <1>7 DEF ParserInv, LexInv

LEMMA StepKeeps ==
  ParserInv /\ [Next]_vars => ParserInv'
<1> SUFFICES ASSUME ParserInv, [Next]_vars
             PROVE  ParserInv'
  OBVIOUS
<1>1. CASE Lex /\ UNCHANGED parseVars
  BY <1>1, LexStepKeeps
<1>2. CASE Program
  BY <1>2, ProgramKeeps
<1>3. CASE ParseReturns
  BY <1>3, ParseReturnsKeeps
<1>4. CASE Command
  BY <1>4, CommandKeeps
<1>5. CASE AndIf
  BY <1>5, AndIfKeeps
<1>6. CASE ConsumeNewline
  BY <1>6, ConsumeNewlineKeeps
<1>7. CASE NewlineExpected
  BY <1>7, NewlineExpectedKeeps
<1>8. CASE UNCHANGED vars
  <2>1. ScanInv' /\ RoomInv' /\ PlaceInv' /\ ReadInv'
    BY <1>8 DEF ParserInv, ScanInv, RoomInv, EndsWithEOF, PlaceInv, ReadInv, Full,
                vars, lexVars, parseVars
  <2>2. TokensCover' /\ StaysInSource' /\ AcceptsGrammar'
    <3>1. TokensCover' /\ StaysInSource'
      BY <1>8 DEF ParserInv, TokensCover, InToken, StaysInSource, vars, lexVars
    <3>2. AcceptsGrammar'
      BY <1>8 DEF ParserInv, AcceptsGrammar, Refused, InGrammar, Full, vars, lexVars,
                  parseVars
    <3> QED
      BY <3>1, <3>2
  <2> QED
    BY <2>1, <2>2 DEF ParserInv
<1> QED
  BY <1>1, <1>2, <1>3, <1>4, <1>5, <1>6, <1>7, <1>8 DEF Next, Parse

LEMMA ParserInvariant ==
  Spec => []ParserInv
BY Initially, StepKeeps, PTL DEF Spec

\* TypeOK: the list has room for every token that add_token() puts into it, and the
\* parser never looks at a token behind the last one.
THEOREM TypesKept ==
  Spec => []TypeOK
<1>1. ParserInv => TypeOK
  <2> SUFFICES ASSUME ParserInv
               PROVE  TypeOK
    OBVIOUS
  <2>1. /\ source \in Seq(Chars) /\ at \in Nat /\ tokens \in Seq(Token)
        /\ phase \in Phases
    BY DEF ParserInv, ScanInv
  <2>2. capacity \in Nat /\ Len(tokens) <= capacity
    BY DEF ParserInv, RoomInv
  <2>3. /\ function \in {"parse", "left", "right"}
        /\ phase = "parse" => pos \in DOMAIN tokens
        /\ \A s \in DOMAIN statements : Len(statements[s]) \in {1, 2}
    BY DEF ParserInv, PlaceInv
  <2> QED
    BY <2>1, <2>2, <2>3 DEF TypeOK
<1> QED
  BY ParserInvariant, <1>1, PTL

\* TokensCover: scan_token() leaves out blanks, quotes and comments and nothing else,
\* and puts no character into two tokens.
THEOREM Covered ==
  Spec => []TokensCover
BY ParserInvariant, PTL DEF ParserInv

\* StaysInSource: a source that ends in a newline is not read beyond its end.
THEOREM InSource ==
  Spec => []StaysInSource
BY ParserInvariant, PTL DEF ParserInv

\* AcceptsGrammar: the recursive descent accepts only what expression_grammar has, and
\* refuses nothing else but lists that are exactly full.
THEOREM GrammarKept ==
  Spec => []AcceptsGrammar
BY ParserInvariant, PTL DEF ParserInv

-----------------------------------------------------------------------------
(* The tree.                                                               *)

Trees == Seq(Seq(Seq(Nat)))
Words(tree) == FlattenSeq(FlattenSeq(tree))
Pairs(tree) == {s \in DOMAIN tree : Len(tree[s]) = 2}
TakenOf(list, n, types) == {t \in 1 .. n : list[t].type \in types}

\* Before the tree is begun it is empty.
TreeInv ==
  /\ phase \in {"lex", "overrun"} => statements = <<>>
  /\ TreeKeepsTokens

\* The last of a sequence.
IsLast(q, k, r, c, S) ==
  q = Append(r, c) /\ c = q[k] /\ \A e \in S : [q EXCEPT ![k] = e] = Append(r, e)

LEMMA LastApart ==
  ASSUME NEW S, NEW q \in Seq(S), q # <<>>, NEW k, k = Len(q)
  PROVE  \E r \in Seq(S), c \in S : IsLast(q, k, r, c, S)
<1>1. k \in Nat /\ k # 0 /\ k \in 1 .. Len(q)
  BY LenProperties, EmptySeq
<1>2. PICK j \in Nat : j + 1 = k
  <2>1. k - 1 \in Nat /\ k - 1 + 1 = k
    BY <1>1
  <2> QED
    BY <2>1
<1>3. PICK r : r = [i \in 1 .. j |-> q[i]]
  OBVIOUS
<1>4. q[k] \in S /\ \A i \in 1 .. j : q[i] \in S /\ i \in 1 .. Len(q) /\ i # k
  BY <1>1, <1>2, ElementOfSeq
<1>5. r \in Seq(S) /\ Len(r) = j /\ \A i \in 1 .. j : r[i] = q[i]
  BY <1>3, <1>4
<1>6. ASSUME NEW e \in S
      PROVE  [q EXCEPT ![k] = e] = Append(r, e)
  <2>1. PICK x, y : x = [q EXCEPT ![k] = e] /\ y = Append(r, e)
    OBVIOUS
  <2>2. /\ x \in Seq(S) /\ Len(x) = k
        /\ \A i \in 1 .. k : x[i] = IF i = k THEN e ELSE q[i]
    BY <1>1, <2>1, ExceptSeq
  <2>3. y \in Seq(S) /\ Len(y) = k /\ y[k] = e /\ \A i \in 1 .. j : y[i] = r[i]
    BY <1>2, <1>5, <2>1, AppendProperties
  <2>4. ASSUME NEW i \in 1 .. k
        PROVE  x[i] = y[i]
    <3>1. i = k \/ i \in 1 .. j
      BY <1>2
    <3> QED
      BY <1>4, <1>5, <2>2, <2>3, <3>1
  <2>5. x \in Seq(S) /\ y \in Seq(S) /\ Len(x) = Len(y) /\ \A i \in 1 .. Len(x) : x[i] = y[i]
    BY <2>2, <2>3, <2>4
  <2>6. x = y
    BY ONLY <2>5, SeqEqual
  <2> QED
    BY <2>1, <2>6
<1>7. q = Append(r, q[k])
  <2>1. [q EXCEPT ![k] = q[k]] = q
    BY <1>1
  <2> QED
    BY <1>4, <1>6, <2>1
<1> QED
  BY <1>4, <1>5, <1>6, <1>7 DEF IsLast

\* The words of a tree whose last statement has a last command.
WordsBefore(w, tree, r) ==
  /\ w = Words(Append(tree, r))
  /\ r = <<>> => w = Words(tree)
  /\ \A c \in Seq(Nat) : Words(Append(tree, Append(r, c))) = w \o c

LEMMA WordsOfLast ==
  ASSUME NEW tree \in Trees, NEW r \in Seq(Seq(Nat))
  PROVE  \E w \in Seq(Nat) : WordsBefore(w, tree, r)
<1>1. PICK S : S = Seq(Nat)
  OBVIOUS
<1>2. tree \in Seq(Seq(S)) /\ r \in Seq(S)
  BY <1>1 DEF Trees
<1>3. PICK commands : commands = FlattenSeq(tree)
  OBVIOUS
<1>4. commands \in Seq(S) /\ \A s \in Seq(S) : FlattenSeq(Append(tree, s)) = commands \o s
  BY <1>2, <1>3, FlattenAppend
<1>5. PICK front : front = commands \o r
  OBVIOUS
<1>6. front \in Seq(S)
  BY <1>2, <1>4, <1>5, ConcatProperties
<1>7. PICK w : w = FlattenSeq(front)
  OBVIOUS
<1>8. /\ w \in Seq(Nat)
      /\ \A c \in Seq(Nat) : FlattenSeq(Append(front, c)) = w \o c
  <2>1. PICK N : N = Nat
    OBVIOUS
  <2>2. front \in Seq(Seq(N))
    BY <1>1, <1>6, <2>1
  <2>3. FlattenSeq(front) \in Seq(N) /\ \A c \in Seq(N) : FlattenSeq(Append(front, c)) = FlattenSeq(front) \o c
    <3>1. <<>> \in Seq(N)
      OBVIOUS
    <3> QED
      BY ONLY <2>2, <3>1, FlattenAppend
  <2> QED
    BY ONLY <1>7, <2>1, <2>3
<1>9. w = Words(Append(tree, r))
  BY <1>2, <1>4, <1>5, <1>7 DEF Words
<1>10. r = <<>> => w = Words(tree)
  <2>1. commands \o <<>> = commands
    BY <1>4, ConcatEmptySeq
  <2> QED
    BY <1>3, <1>5, <1>7, <2>1 DEF Words
<1>11. ASSUME NEW c \in Seq(Nat)
       PROVE  Words(Append(tree, Append(r, c))) = w \o c
  <2>1. c \in S
    BY <1>1
  <2>2. Append(r, c) \in Seq(S)
    BY <1>2, <2>1, AppendProperties
  <2>3. commands \o Append(r, c) = Append(front, c)
    BY SMTT(30), <1>2, <1>4, <1>5, <2>1, AppendBehind
  <2>4. FlattenSeq(Append(tree, Append(r, c))) = Append(front, c)
    BY <1>4, <2>2, <2>3
  <2> QED
    BY <1>8, <2>4 DEF Words
<1> QED
  BY <1>8, <1>9, <1>10, <1>11 DEF WordsBefore

\* A statement that has begun has no words yet.
LEMMA WordsOfNew ==
  ASSUME NEW tree \in Trees
  PROVE  Words(Append(tree, <<<<>>>>)) = Words(tree)
<1>1. PICK r, c : r = <<>> /\ c = <<>>
  OBVIOUS
<1>2. r \in Seq(Seq(Nat)) /\ c \in Seq(Nat)
  BY <1>1, EmptySeq
<1>3. PICK w \in Seq(Nat) : WordsBefore(w, tree, r)
  BY ONLY <1>2, WordsOfLast, tree \in Trees
<1>4. w \o c = w
  BY <1>1, ConcatEmptySeq
<1>5. Append(r, c) = <<c>>
  BY <1>1
<1>6. w = Words(tree) /\ Words(Append(tree, Append(r, c))) = w \o c
  BY <1>1, <1>2, <1>3 DEF WordsBefore
<1> QED
  BY <1>1, <1>4, <1>5, <1>6

\* Nor does the command behind &&.
LEMMA WordsOfRight ==
  ASSUME NEW tree \in Trees, NEW s \in Seq(Seq(Nat))
  PROVE  Words(Append(tree, Append(s, <<>>))) = Words(Append(tree, s))
<1>1. PICK c : c = <<>>
  OBVIOUS
<1>2. c \in Seq(Nat)
  BY <1>1, EmptySeq
<1>3. PICK w \in Seq(Nat) : WordsBefore(w, tree, s)
  BY WordsOfLast
<1>4. w \o c = w
  BY <1>1, ConcatEmptySeq
<1>5. w = Words(Append(tree, s)) /\ Words(Append(tree, Append(s, c))) = w \o c
  BY <1>2, <1>3 DEF WordsBefore
<1> QED
  BY <1>1, <1>4, <1>5

\* A word more in the last command, which is the k-th.
WithWord(s, k, n) == [s EXCEPT ![k] = Append(@, n)]

LEMMA WordsOfMore ==
  ASSUME NEW tree \in Trees, NEW s \in Seq(Seq(Nat)), s # <<>>, NEW k, k = Len(s),
         NEW n \in Nat
  PROVE  /\ Words(Append(tree, s)) \in Seq(Nat)
         /\ Words(Append(tree, WithWord(s, k, n))) = Append(Words(Append(tree, s)), n)
<1>1. PICK S : S = Seq(Nat)
  OBVIOUS
<1>2. PICK r \in Seq(S), c \in S :
        s = Append(r, c) /\ c = s[k] /\ \A e \in S : [s EXCEPT ![k] = e] = Append(r, e)
  <2>1. s \in Seq(S) /\ s # <<>> /\ k = Len(s)
    BY <1>1
  <2>2. PICK r \in Seq(S), c \in S : IsLast(s, k, r, c, S)
    BY ONLY <2>1, LastApart
  <2> QED
    BY <2>2 DEF IsLast
<1>3. PICK e : e = Append(c, n)
  OBVIOUS
<1>4. r \in Seq(Seq(Nat)) /\ c \in Seq(Nat) /\ e \in Seq(Nat) /\ e \in S
  BY <1>1, <1>2, <1>3, AppendProperties
<1>5. PICK w \in Seq(Nat) : \A d \in Seq(Nat) : Words(Append(tree, Append(r, d))) = w \o d
  <2>1. PICK w \in Seq(Nat) : WordsBefore(w, tree, r)
    BY <1>4, WordsOfLast
  <2> QED
    BY <2>1 DEF WordsBefore
<1>6. Words(Append(tree, s)) = w \o c
  BY <1>2, <1>4, <1>5
<1>7. WithWord(s, k, n) = Append(r, e)
  <2>1. WithWord(s, k, n) = [s EXCEPT ![k] = e]
    BY <1>2, <1>3 DEF WithWord
  <2> QED
    BY <1>2, <1>4, <2>1
<1>8. Words(Append(tree, Append(r, e))) = w \o e
  BY <1>4, <1>5
<1>9. w \o e = Append(w \o c, n)
  BY ONLY SMTT(30), <1>3, <1>4, n \in Nat, w \in Seq(Nat), AppendBehind
<1>10. w \o c \in Seq(Nat)
  BY <1>4, ConcatProperties
<1> QED
  BY <1>6, <1>7, <1>8, <1>9, <1>10

\* A number behind all others.
LEMMA AscendingMore ==
  ASSUME NEW q \in Seq(Nat), NEW W, Ascending(q, W), NEW n \in Nat, \A w \in W : w < n
  PROVE  Ascending(Append(q, n), W \cup {n})
<1>1. PICK k \in Nat : k = Len(q)
  BY LenProperties
<1>2. PICK x : x = Append(q, n)
  OBVIOUS
<1>3. /\ x \in Seq(Nat) /\ Len(x) = k + 1 /\ x[k + 1] = n /\ \A i \in 1 .. k : x[i] = q[i]
  BY <1>1, <1>2, AppendProperties
<1>4. DOMAIN q = 1 .. k /\ DOMAIN x = 1 .. k + 1
  BY <1>1, <1>3, LenProperties
<1>5. W = {q[i] : i \in 1 .. k} /\ \A i, j \in 1 .. k : i < j => q[i] < q[j]
  BY <1>4 DEF Ascending, Range
<1>6. \A i \in 1 .. k + 1 : i \in 1 .. k \/ i = k + 1
  OBVIOUS
<1>7. \A i \in 1 .. k : i \in 1 .. k + 1
  OBVIOUS
<1>8. {x[i] : i \in 1 .. k + 1} = W \cup {n}
  BY <1>3, <1>5, <1>6, <1>7
<1>9. ASSUME NEW i \in 1 .. k + 1, NEW j \in 1 .. k + 1, i < j
      PROVE  x[i] < x[j]
  <2>1. i \in 1 .. k /\ x[i] = q[i]
    BY <1>3, <1>9
  <2>2. CASE j \in 1 .. k
    BY <1>3, <1>5, <1>9, <2>1, <2>2
  <2>3. CASE j = k + 1
    <3>1. q[i] \in W
      BY <1>5, <2>1
    <3> QED
      BY <1>3, <2>1, <2>3, <3>1
  <2> QED
    BY <1>6, <2>2, <2>3
<1> QED
  BY <1>2, <1>4, <1>8, <1>9 DEF Ascending, Range

\* What a token more adds to those that were taken.
MoreTaken(list, n, m, types) ==
  LET old == TakenOf(list, n, types)
      new == TakenOf(list, m, types)
  IN  /\ IsFiniteSet(old) /\ \A t \in old : t < m
      /\ list[m].type \in types => /\ new = old \cup {m}
                                  /\ Cardinality(new) = Cardinality(old) + 1
      /\ list[m].type \notin types => new = old

LEMMA TakenMore ==
  ASSUME NEW list, NEW n \in Nat, NEW m \in Nat, m = n + 1, NEW types
  PROVE  MoreTaken(list, n, m, types)
<1>1. PICK old : old = TakenOf(list, n, types)
  OBVIOUS
<1>2. IsFiniteSet(old)
  <2>1. IsFiniteSet(1 .. n) /\ old \in SUBSET (1 .. n)
    BY <1>1, FS_Interval DEF TakenOf
  <2> QED
    BY ONLY <2>1, FS_Subset
<1>3. /\ \A t \in 1 .. n : t < m /\ t \in 1 .. m
      /\ \A t \in 1 .. m : t \in 1 .. n \/ t = m
      /\ m \in 1 .. m
  OBVIOUS
<1>4. \A t \in old : t < m
  BY <1>1, <1>3 DEF TakenOf
<1>5. list[m].type \in types => TakenOf(list, m, types) = old \cup {m}
  BY <1>1, <1>3 DEF TakenOf
<1>6. list[m].type \notin types => TakenOf(list, m, types) = old
  BY <1>1, <1>3 DEF TakenOf
<1>7. Cardinality(old \cup {m}) = Cardinality(old) + 1
  <2>1. m \notin old
    BY <1>4
  <2> QED
    BY ONLY <1>2, <2>1, FS_AddElement
<1> QED
  BY <1>1, <1>2, <1>4, <1>5, <1>6, <1>7 DEF MoreTaken

\* A statement more.
LEMMA PairsOfMore ==
  ASSUME NEW tree \in Trees, NEW s \in Seq(Seq(Nat))
  PROVE  /\ Len(s) # 2 => Pairs(Append(tree, s)) = Pairs(tree)
         /\ Len(s) = 2 => Cardinality(Pairs(Append(tree, s))) = Cardinality(Pairs(tree)) + 1
<1>1. PICK k \in Nat, m \in Nat : k = Len(tree) /\ m = k + 1
  BY LenProperties DEF Trees
<1>2. PICK x : x = Append(tree, s)
  OBVIOUS
<1>3. x \in Trees /\ Len(x) = m /\ x[m] = s /\ \A i \in 1 .. k : x[i] = tree[i]
  BY <1>1, <1>2, AppendProperties DEF Trees
<1>4. DOMAIN tree = 1 .. k /\ DOMAIN x = 1 .. m
  BY <1>1, <1>3, LenProperties DEF Trees
<1>5. /\ \A i \in 1 .. k : i < m /\ i \in 1 .. m
      /\ \A i \in 1 .. m : i \in 1 .. k \/ i = m
      /\ m \in 1 .. m
  BY <1>1
<1>6. PICK old : old = Pairs(tree)
  OBVIOUS
<1>7. old = {i \in 1 .. k : Len(tree[i]) = 2} /\ Pairs(x) = {i \in 1 .. m : Len(x[i]) = 2}
  BY <1>4, <1>6 DEF Pairs
<1>8. Len(s) # 2 => Pairs(x) = old
  BY <1>3, <1>5, <1>7
<1>9. Len(s) = 2 => Pairs(x) = old \cup {m}
  BY <1>3, <1>5, <1>7
<1>10. Cardinality(old \cup {m}) = Cardinality(old) + 1
  <2>1. old \in SUBSET (1 .. k)
    BY <1>7
  <2>2. IsFiniteSet(old)
    <3>1. IsFiniteSet(1 .. k)
      BY FS_Interval
    <3> QED
      BY ONLY <2>1, <3>1, FS_Subset
  <2>3. m \notin old
    BY <1>1, <1>7
  <2> QED
    BY ONLY <2>2, <2>3, FS_AddElement
<1> QED
  BY <1>2, <1>6, <1>8, <1>9, <1>10

\* What TreeKeepsTokens says of a tree, the statements that are complete, and
\* the first n tokens.
Kept(tree, complete, list, n) ==
  /\ Ascending(Words(tree), TakenOf(list, n, {"T_WORD", "T_STRING"}))
  /\ complete = Cardinality(TakenOf(list, n, {"T_NEWLINE"}))
  /\ Cardinality(Pairs(tree)) = Cardinality(TakenOf(list, n, {"T_AND_IF"}))

\* Nothing is read and nothing is built.
LEMMA KeptNothing ==
  ASSUME NEW list
  PROVE  Kept(<<>>, 0, list, 0)
<1>1. PICK tree : tree = <<>>
  OBVIOUS
<1>2. Words(tree) = <<>>
  BY <1>1, FlattenNothing DEF Words
<1>3. \A types : TakenOf(list, 0, types) = {}
  BY DEF TakenOf
<1>4. Pairs(tree) = {}
  BY <1>1 DEF Pairs
<1>5. Cardinality({}) = 0
  BY FS_EmptySet
<1>6. Ascending(<<>>, {})
  BY DEF Ascending, Range
<1> QED
  BY <1>1, <1>2, <1>3, <1>4, <1>5, <1>6 DEF Kept

\* program() begins.
LEMMA KeptNew ==
  ASSUME NEW tree \in Trees, NEW complete, NEW list, NEW n, Kept(tree, complete, list, n)
  PROVE  Kept(Append(tree, <<<<>>>>), complete, list, n)
<1>1. Words(Append(tree, <<<<>>>>)) = Words(tree)
  BY WordsOfNew
<1>2. PICK c : c = <<>>
  OBVIOUS
<1>3. <<c>> \in Seq(Seq(Nat)) /\ Len(<<c>>) # 2
  <2>1. c \in Seq(Nat)
    BY <1>2, EmptySeq
  <2> QED
    BY <2>1
<1>4. Pairs(Append(tree, <<c>>)) = Pairs(tree)
  BY <1>3, PairsOfMore
<1> QED
  BY <1>1, <1>2, <1>4 DEF Kept

\* command() takes a word.
LEMMA KeptWord ==
  ASSUME NEW tree \in Trees, NEW s \in Seq(Seq(Nat)), s # <<>>, NEW k, k = Len(s),
         NEW complete, NEW list, NEW n \in Nat, NEW m \in Nat, m = n + 1,
         NEW y, y = WithWord(s, k, m),
         list[m].type \in {"T_WORD", "T_STRING"}, Kept(Append(tree, s), complete, list, n)
  PROVE  Kept(Append(tree, y), complete, list, m)
<1>1. PICK x : x = Append(tree, s)
  OBVIOUS
<1>2. Words(x) \in Seq(Nat) /\ Words(Append(tree, y)) = Append(Words(x), m)
  <2>1. /\ Words(Append(tree, s)) \in Seq(Nat)
        /\ Words(Append(tree, y)) = Append(Words(Append(tree, s)), m)
    <3>1. tree \in Trees /\ s \in Seq(Seq(Nat)) /\ s # <<>> /\ k = Len(s) /\ m \in Nat
          /\ y = WithWord(s, k, m)
      OBVIOUS
    <3> QED
      BY ONLY <3>1, WordsOfMore
  <2> QED
    BY <1>1, <2>1
<1>3. y \in Seq(Seq(Nat)) /\ Len(y) = k
  <2>1. k \in 1 .. Len(s)
    BY LenProperties, EmptySeq
  <2>2. s[k] \in Seq(Nat)
    BY <2>1, ElementOfSeq
  <2>3. PICK e : e = Append(s[k], m)
    OBVIOUS
  <2>4. e \in Seq(Nat) /\ y = [s EXCEPT ![k] = e]
    BY <2>2, <2>3, AppendProperties DEF WithWord
  <2> QED
    BY ONLY <2>1, <2>4, s \in Seq(Seq(Nat)), k = Len(s), ExceptSeq
<1>4. Cardinality(Pairs(Append(tree, y))) = Cardinality(Pairs(x))
  <2>1. /\ k # 2 => Pairs(x) = Pairs(tree)
        /\ k = 2 => Cardinality(Pairs(x)) = Cardinality(Pairs(tree)) + 1
    BY <1>1, PairsOfMore
  <2>2. /\ k # 2 => Pairs(Append(tree, y)) = Pairs(tree)
        /\ k = 2 => Cardinality(Pairs(Append(tree, y))) = Cardinality(Pairs(tree)) + 1
    BY <1>3, PairsOfMore
  <2> QED
    BY <2>1, <2>2
<1>5. PICK W : W = TakenOf(list, n, {"T_WORD", "T_STRING"})
  OBVIOUS
<1>6. (\A w \in W : w < m) /\ TakenOf(list, m, {"T_WORD", "T_STRING"}) = W \cup {m}
  <2>1. MoreTaken(list, n, m, {"T_WORD", "T_STRING"})
    BY TakenMore
  <2> QED
    BY <1>5, <2>1 DEF MoreTaken
<1>7. Ascending(Append(Words(x), m), W \cup {m})
  <2>1. Ascending(Words(x), W)
    BY <1>1, <1>5 DEF Kept
  <2>2. PICK q : q = Words(x)
    OBVIOUS
  <2> QED
    BY <1>2, <1>6, <2>1, <2>2, AscendingMore
<1>8. /\ TakenOf(list, m, {"T_NEWLINE"}) = TakenOf(list, n, {"T_NEWLINE"})
      /\ TakenOf(list, m, {"T_AND_IF"}) = TakenOf(list, n, {"T_AND_IF"})
  <2>1. MoreTaken(list, n, m, {"T_NEWLINE"}) /\ MoreTaken(list, n, m, {"T_AND_IF"})
    BY TakenMore
  <2>2. list[m].type \notin {"T_NEWLINE"} /\ list[m].type \notin {"T_AND_IF"}
    OBVIOUS
  <2> QED
    BY <2>1, <2>2 DEF MoreTaken
<1> QED
  BY <1>1, <1>2, <1>4, <1>6, <1>7, <1>8 DEF Kept

\* and_if() begins the command behind &&.
LEMMA KeptAnd ==
  ASSUME NEW tree \in Trees, NEW s \in Seq(Seq(Nat)), Len(s) = 1,
         NEW complete, NEW list, NEW n \in Nat, NEW m \in Nat, m = n + 1,
         list[m].type = "T_AND_IF", Kept(Append(tree, s), complete, list, n)
  PROVE  Kept(Append(tree, Append(s, <<>>)), complete, list, m)
<1>1. PICK y : y = Append(s, <<>>)
  OBVIOUS
<1>2. Words(Append(tree, y)) = Words(Append(tree, s))
  <2>1. Words(Append(tree, Append(s, <<>>))) = Words(Append(tree, s))
    BY WordsOfRight
  <2> QED
    BY <1>1, <2>1
<1>3. y \in Seq(Seq(Nat)) /\ Len(y) = 2
  <2>1. PICK S, c : S = Seq(Nat) /\ c = <<>>
    OBVIOUS
  <2>2. c \in S /\ s \in Seq(S)
    BY <2>1, EmptySeq
  <2>3. y \in Seq(S) /\ Len(y) = Len(s) + 1
    BY <1>1, <2>1, <2>2, AppendProperties
  <2> QED
    BY <2>1, <2>3
<1>4. Pairs(Append(tree, s)) = Pairs(tree)
  <2>1. Len(s) # 2 => Pairs(Append(tree, s)) = Pairs(tree)
    BY ONLY PairsOfMore, tree \in Trees, s \in Seq(Seq(Nat))
  <2> QED
    BY <2>1
<1>5. Cardinality(Pairs(Append(tree, y))) = Cardinality(Pairs(tree)) + 1
  BY <1>3, PairsOfMore
<1>6. /\ MoreTaken(list, n, m, {"T_WORD", "T_STRING"})
      /\ MoreTaken(list, n, m, {"T_NEWLINE"}) /\ MoreTaken(list, n, m, {"T_AND_IF"})
  BY TakenMore
<1>7. /\ list[m].type \notin {"T_WORD", "T_STRING"} /\ list[m].type \notin {"T_NEWLINE"}
      /\ list[m].type \in {"T_AND_IF"}
  OBVIOUS
<1> QED
  BY <1>1, <1>2, <1>4, <1>5, <1>6, <1>7 DEF Kept, MoreTaken

\* consume() takes the newline, and the statement is complete.
LEMMA KeptLine ==
  ASSUME NEW tree, NEW complete, NEW list, NEW n \in Nat, NEW m \in Nat, m = n + 1,
         list[m].type = "T_NEWLINE", Kept(tree, complete, list, n)
  PROVE  Kept(tree, complete + 1, list, m)
<1>1. /\ MoreTaken(list, n, m, {"T_WORD", "T_STRING"})
      /\ MoreTaken(list, n, m, {"T_NEWLINE"}) /\ MoreTaken(list, n, m, {"T_AND_IF"})
  BY TakenMore
<1>2. /\ list[m].type \notin {"T_WORD", "T_STRING"} /\ list[m].type \in {"T_NEWLINE"}
      /\ list[m].type \notin {"T_AND_IF"}
  OBVIOUS
<1> QED
  BY <1>1, <1>2 DEF Kept, MoreTaken

\* parse() stops at the token that ends the list.
LEMMA KeptEnd ==
  ASSUME NEW tree, NEW complete, NEW list, NEW n \in Nat, NEW m \in Nat, m = n + 1,
         list[m].type = "T_EOF", Kept(tree, complete, list, n)
  PROVE  Kept(tree, complete, list, m)
<1>1. /\ MoreTaken(list, n, m, {"T_WORD", "T_STRING"})
      /\ MoreTaken(list, n, m, {"T_NEWLINE"}) /\ MoreTaken(list, n, m, {"T_AND_IF"})
  BY TakenMore
<1>2. /\ list[m].type \notin {"T_WORD", "T_STRING"} /\ list[m].type \notin {"T_NEWLINE"}
      /\ list[m].type \notin {"T_AND_IF"}
  OBVIOUS
<1> QED
  BY <1>1, <1>2 DEF Kept, MoreTaken

\* How far the parser has come.
Read == IF phase = "parse" THEN pos - 1 ELSE Len(tokens)

LEMMA KeepsTokensIs ==
  TreeKeepsTokens <=>
    (phase \in {"parse", "parsed"} => Kept(Tree, Len(statements), tokens, Read))
BY DEF TreeKeepsTokens, Kept, Words, Pairs, TakenOf, Taken, Read

LEMMA KeepsTokensAfter ==
  ASSUME phase' \in {"parse", "parsed"} => Kept(Tree', Len(statements'), tokens', Read')
  PROVE  TreeKeepsTokens'
BY DEF TreeKeepsTokens, Kept, Words, Pairs, TakenOf, Taken, Read

LEMMA TreeInitially ==
  Init => TreeInv
BY DEF Init, LexInit, TreeInv, TreeKeepsTokens

\* Between the scanner and the parser nothing is read.
LEMMA LexKeepsTree ==
  ASSUME ParserInv, TreeInv, Lex, UNCHANGED parseVars
  PROVE  TreeInv'
<1>1. /\ phase = "lex" /\ phase' \in {"lex", "overrun", "parse", "exit"}
      /\ pos' = 1 /\ statement' = statement /\ statements' = <<>>
  BY DEF Lex, Operator, Match, Whitespace, Newline, Comment, String, StringNotTerminated,
         Word, EndOfSource, NextIs, parseVars, ParserInv, PlaceInv, TreeInv
<1>2. statement = <<>>
  <2>1. statement \in Seq(Seq(Nat)) /\ Len(statement) = 0
    BY <1>1 DEF ParserInv, PlaceInv
  <2> QED
    BY <2>1, EmptySeq
<1>3. Tree' = <<>> /\ Len(statements') = 0
  BY <1>1, <1>2 DEF Tree
<1>4. phase' \in {"parse", "parsed"} => Kept(Tree', Len(statements'), tokens', Read')
  <2>1. PICK list, tree : list = tokens' /\ tree = <<>>
    OBVIOUS
  <2>2. Kept(tree, 0, list, 0)
    BY <2>1, KeptNothing
  <2>3. phase' = "parse" => Read' = 0
    BY <1>1 DEF Read
  <2>4. phase' # "parsed" /\ Tree' = tree
    BY <1>1, <1>3, <2>1
  <2>5. CASE phase' = "parse"
    <3>1. Tree' = tree /\ Len(statements') = 0 /\ tokens' = list /\ Read' = 0
      BY <1>3, <2>1, <2>3, <2>4, <2>5
    <3> QED
      BY ONLY <2>2, <3>1
  <2> QED
    BY <2>4, <2>5
<1>5. TreeKeepsTokens'
  BY <1>4, KeepsTokensAfter
<1> QED
  BY <1>1, <1>5 DEF TreeInv

\* The tree while program() runs and while it does not.
InProgram ==
  /\ statements \in Trees /\ statement \in Seq(Seq(Nat)) /\ statement # <<>>
  /\ Tree = Append(statements, statement)

LEMMA TreeIs ==
  ASSUME ParserInv
  PROVE  /\ function = "parse" => statements \in Trees /\ Tree = statements
         /\ function \in {"left", "right"} => InProgram
<1>1. /\ statements \in Trees /\ statement \in Seq(Seq(Nat)) /\ pos \in Nat
      /\ function = "parse" => Len(statement) = 0
      /\ function = "left" => Len(statement) = 1
      /\ function = "right" => Len(statement) = 2
  BY DEF ParserInv, PlaceInv, Trees
<1>2. statement = <<>> <=> Len(statement) = 0
  BY <1>1, EmptySeq
<1> QED
  BY <1>1, <1>2 DEF Tree, InProgram

\* The same after a step.
LEMMA TreeAfter ==
  ASSUME ParserInv'
  PROVE  /\ function' = "parse" => Tree' = statements'
         /\ function' \in {"left", "right"} => Tree' = Append(statements', statement')
<1>1. /\ statements' \in Trees /\ statement' \in Seq(Seq(Nat))
      /\ function' = "parse" => Len(statement') = 0
      /\ function' = "left" => Len(statement') = 1
      /\ function' = "right" => Len(statement') = 2
  BY DEF ParserInv, PlaceInv, Trees
<1>2. statement' = <<>> <=> Len(statement') = 0
  BY <1>1, EmptySeq
<1>3. Tree' = IF statement' = <<>> THEN statements' ELSE Append(statements', statement')
  BY DEF Tree
<1>4. CASE function' = "parse"
  BY <1>1, <1>2, <1>3, <1>4
<1>5. CASE function' \in {"left", "right"}
  <2>1. statement' # <<>>
    BY SMTT(30), <1>1, <1>2, <1>5
  <2> QED
    BY <1>3, <1>5, <2>1
<1> QED
  BY <1>4, <1>5

LEMMA PosIs ==
  ASSUME ParserInv, phase = "parse"
  PROVE  \E n \in Nat, m \in Nat : n = pos - 1 /\ m = pos /\ m = n + 1
<1>1. Len(tokens) \in Nat /\ pos \in 1 .. Len(tokens)
  BY AtToken
<1>2. pos \in Nat /\ pos - 1 \in Nat /\ pos = pos - 1 + 1
  BY <1>1
<1> QED
  BY <1>2

\* A step of the parser that keeps what TreeKeepsTokens says keeps TreeInv.
LEMMA TreeInvIs ==
  ASSUME phase' = "parse", Kept(Tree', Len(statements'), tokens', Read')
  PROVE  TreeInv'
<1>1. TreeKeepsTokens'
  BY KeepsTokensAfter
<1> QED
  BY <1>1 DEF TreeInv

LEMMA ProgramKeepsTree ==
  ASSUME ParserInv, ParserInv', TreeInv, Program
  PROVE  TreeInv'
<1>1. /\ phase = "parse" /\ phase' = "parse" /\ function = "parse" /\ function' = "left"
      /\ statement' = <<<<>>>> /\ tokens' = tokens /\ pos' = pos /\ statements' = statements
  BY DEF Program, In, lexVars
<1>2. statements \in Trees /\ Tree = statements /\ Tree' = Append(statements, statement')
  BY <1>1, TreeIs DEF Tree
<1>3. Read' = Read
  BY <1>1 DEF Read
<1>4. Kept(statements, Len(statements), tokens, Read)
  BY <1>1, <1>2, KeepsTokensIs DEF TreeInv
<1>5. Kept(Append(statements, <<<<>>>>), Len(statements), tokens, Read)
  BY <1>2, <1>4, KeptNew
<1> QED
  BY <1>1, <1>2, <1>3, <1>5, TreeInvIs

LEMMA ParseReturnsKeepsTree ==
  ASSUME ParserInv, TreeInv, ParseReturns
  PROVE  TreeInv'
<1>1. /\ phase = "parse" /\ phase' = "parsed" /\ function = "parse" /\ tokens' = tokens
      /\ UNCHANGED parseVars /\ tokens[pos].type = "T_EOF"
  BY DEF ParseReturns, In, Check, lexVars
<1>2. PICK n \in Nat, m \in Nat : n = pos - 1 /\ m = pos /\ m = n + 1 /\ m = Len(tokens)
  <2>1. pos = Len(tokens) /\ pos \in 1 .. Len(tokens) /\ Len(tokens) \in Nat
    BY <1>1, AtToken
  <2>2. pos \in Nat /\ pos - 1 \in Nat /\ pos = pos - 1 + 1
    BY <2>1
  <2> QED
    BY <2>1, <2>2
<1>3. Kept(Tree, Len(statements), tokens, n)
  <2>1. Read = n
    BY <1>1, <1>2 DEF Read
  <2> QED
    BY <1>1, <2>1, KeepsTokensIs DEF TreeInv
<1>4. Kept(Tree, Len(statements), tokens, m)
  BY <1>1, <1>2, <1>3, KeptEnd
<1>5. Tree' = Tree /\ Len(statements') = Len(statements) /\ Read' = m
  BY <1>1, <1>2 DEF Tree, Read, parseVars
<1>6. TreeKeepsTokens'
  BY <1>1, <1>4, <1>5, KeepsTokensAfter
<1> QED
  BY <1>1, <1>6 DEF TreeInv

LEMMA CommandKeepsTree ==
  ASSUME ParserInv, ParserInv', TreeInv, Command
  PROVE  TreeInv'
<1>1. /\ phase = "parse" /\ phase' = "parse" /\ function \in {"left", "right"}
      /\ function' = function /\ tokens' = tokens /\ pos' = pos + 1
      /\ statements' = statements /\ tokens[pos].type \in {"T_WORD", "T_STRING"}
      /\ statement' = WithWord(statement, Len(statement), pos)
  BY DEF Command, In, AtWord, Check, lexVars, WithWord
<1>2. InProgram
  BY <1>1, TreeIs
<1>3. Tree' = Append(statements, statement')
  BY <1>1, TreeAfter
<1>4. PICK n \in Nat, m \in Nat : n = pos - 1 /\ m = pos /\ m = n + 1
  BY <1>1, PosIs
<1>5. Read = n /\ Read' = m
  BY <1>1, <1>4 DEF Read
<1>6. PICK complete, k : complete = Len(statements) /\ k = Len(statement)
  OBVIOUS
<1>7. Kept(Append(statements, statement), complete, tokens, n)
  BY <1>1, <1>2, <1>5, <1>6, KeepsTokensIs DEF TreeInv, InProgram
<1>8. /\ tokens[m].type \in {"T_WORD", "T_STRING"}
      /\ statement' = WithWord(statement, k, m)
  BY <1>1, <1>4, <1>6
<1>9. Kept(Append(statements, statement'), complete, tokens, m)
  BY ONLY <1>2, <1>4, <1>6, <1>7, <1>8, n \in Nat, m \in Nat, KeptWord DEF InProgram
<1> QED
  BY <1>1, <1>3, <1>5, <1>6, <1>9, TreeInvIs

LEMMA AndIfKeepsTree ==
  ASSUME ParserInv, ParserInv', TreeInv, AndIf
  PROVE  TreeInv'
<1>1. /\ phase = "parse" /\ phase' = "parse" /\ function = "left" /\ function' = "right"
      /\ tokens' = tokens /\ pos' = pos + 1
      /\ statements' = statements /\ tokens[pos].type = "T_AND_IF"
      /\ statement' = Append(statement, <<>>)
  BY DEF AndIf, In, Check, lexVars
<1>2. InProgram /\ Len(statement) = 1
  BY <1>1, TreeIs DEF ParserInv, PlaceInv
<1>3. Tree' = Append(statements, Append(statement, <<>>))
  <2>1. Tree' = Append(statements', statement')
    BY <1>1, TreeAfter
  <2> QED
    BY <1>1, <2>1
<1>4. PICK n \in Nat, m \in Nat : n = pos - 1 /\ m = pos /\ m = n + 1
  BY <1>1, PosIs
<1>5. Read = n /\ Read' = m
  BY <1>1, <1>4 DEF Read
<1>6. PICK complete : complete = Len(statements)
  OBVIOUS
<1>7. Kept(Append(statements, statement), complete, tokens, n)
  BY <1>1, <1>2, <1>5, <1>6, KeepsTokensIs DEF TreeInv, InProgram
<1>8. tokens[m].type = "T_AND_IF"
  BY <1>1, <1>4
<1>9. Kept(Append(statements, Append(statement, <<>>)), complete, tokens, m)
  BY ONLY <1>2, <1>4, <1>7, <1>8, n \in Nat, m \in Nat, KeptAnd DEF InProgram
<1> QED
  BY <1>1, <1>3, <1>5, <1>6, <1>9, TreeInvIs

LEMMA ConsumeNewlineKeepsTree ==
  ASSUME ParserInv, ParserInv', TreeInv, ConsumeNewline
  PROVE  TreeInv'
<1>1. /\ phase = "parse" /\ phase' = "parse" /\ function \in {"left", "right"}
      /\ function' = "parse" /\ tokens' = tokens /\ pos' = pos + 1
      /\ tokens[pos].type = "T_NEWLINE" /\ statements' = Append(statements, statement)
  BY DEF ConsumeNewline, In, Check, lexVars
<1>2. InProgram
  BY <1>1, TreeIs
<1>3. Tree' = Tree
  <2>1. Tree' = statements'
    BY <1>1, TreeAfter
  <2> QED
    BY <1>1, <1>2, <2>1 DEF InProgram
<1>4. PICK n \in Nat, m \in Nat : n = pos - 1 /\ m = pos /\ m = n + 1
  BY <1>1, PosIs
<1>5. Read = n /\ Read' = m
  BY <1>1, <1>4 DEF Read
<1>6. PICK complete, tree : complete = Len(statements) /\ tree = Tree
  OBVIOUS
<1>7. Len(statements') = complete + 1
  BY <1>1, <1>2, <1>6, AppendProperties DEF Trees, InProgram
<1>8. Kept(tree, complete, tokens, n) /\ tokens[m].type = "T_NEWLINE"
  BY <1>1, <1>4, <1>5, <1>6, KeepsTokensIs DEF TreeInv
<1>9. Kept(tree, complete + 1, tokens, m)
  BY ONLY <1>4, <1>8, n \in Nat, m \in Nat, KeptLine
<1> QED
  BY <1>1, <1>3, <1>5, <1>6, <1>7, <1>9, TreeInvIs

LEMMA TreeStepKeeps ==
  ParserInv /\ ParserInv' /\ TreeInv /\ [Next]_vars => TreeInv'
<1> SUFFICES ASSUME ParserInv, ParserInv', TreeInv, [Next]_vars
             PROVE  TreeInv'
  OBVIOUS
<1>1. CASE Lex /\ UNCHANGED parseVars
  BY <1>1, LexKeepsTree
<1>2. CASE Program
  BY <1>2, ProgramKeepsTree
<1>3. CASE ParseReturns
  BY <1>3, ParseReturnsKeepsTree
<1>4. CASE Command
  BY <1>4, CommandKeepsTree
<1>5. CASE AndIf
  BY <1>5, AndIfKeepsTree
<1>6. CASE ConsumeNewline
  BY <1>6, ConsumeNewlineKeepsTree
<1>7. CASE NewlineExpected
  BY <1>7 DEF NewlineExpected, TreeInv, TreeKeepsTokens
<1>8. CASE UNCHANGED vars
  BY <1>8 DEF TreeInv, TreeKeepsTokens, Tree, Taken, vars, lexVars, parseVars
<1> QED
  BY <1>1, <1>2, <1>3, <1>4, <1>5, <1>6, <1>7, <1>8 DEF Next, Parse

\* TreeKeepsTokens: program(), and_if() and command() lose no word and take none twice,
\* and make one statement of each line and one BinaryExpr of each &&.
THEOREM TreeKept ==
  Spec => []TreeKeepsTokens
<1>1. Spec => []TreeInv
  BY ParserInvariant, TreeInitially, TreeStepKeeps, PTL DEF Spec
<1> QED
  BY <1>1, PTL DEF TreeInv
=============================================================================
