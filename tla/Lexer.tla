------------------------------- MODULE Lexer -------------------------------
(***************************************************************************)
(* src/src/valery/interpreter/lexer.c: the source that valery_interpret()  *)
(* gets becomes a list of tokens, one call of scan_token() at a time.      *)
(*                                                                         *)
(* Characters that the lexer treats alike are one character here, see      *)
(* Chars.  A token is its type and the piece of the source it stands for.  *)
(***************************************************************************)
EXTENDS Naturals, Sequences

CONSTANTS
  Sources,         \* the source texts, sequences of Chars
  Reserved,        \* the reserved words, sequences of Chars
  InitialCapacity  \* tokens a new list has room for, 32 in the code

VARIABLES
  source,   \* the argument of tokenize()
  at,       \* how many of its characters are before source_cpy
  tokens,   \* tl->tokens[0 .. size - 1]
  capacity, \* tl->capacity
  phase     \* where valery_interpret() is, see Phases

lexVars == <<source, at, tokens, capacity>>

Blank == " "
Tab   == "\t"
Quote == "\""

\* By what scan_token() and is_terminal() do with a character.
Chars ==
  {"a", "r",         \* letters and all that has no case of its own
   "[",              \* and ]: begin a word like a letter, but end one as well
   Blank, "\n", "#", "&", Quote,
   Tab,              \* and \r: skipped like a blank, but does not end a word
   "(",              \* ) { } ; too: an operator that ends a word
   "$",              \* * too: an operator that does not
   "|", ">",         \* < like >: operators of one or two characters
   "=", ".", "!"}    \* the same, but they do not end a word

ASSUME LexerAssumption ==
  /\ Sources \subseteq Seq(Chars) /\ Reserved \subseteq Seq(Chars)
  /\ InitialCapacity \in Nat \ {0}

Phases == {"lex",      \* in the loop of tokenize()
           "overrun",  \* source_cpy has passed the end of the source
           "parse",    \* in the loop of parse()
           "parsed",   \* parse() has returned
           "exit"}     \* valery_exit_parse_error()

Types == {"T_WORD", "T_STRING", "T_AND_IF", "T_NEWLINE", "T_EOF",
          "T_RESERVED", "T_OPERATOR"}

Token == [type : Types, from : Nat, to : Nat]

LexInit ==
  /\ source \in Sources /\ at = 0
  /\ tokens = <<>> /\ capacity = InitialCapacity /\ phase = "lex"

\* is_terminal(): these end a word, and so does the end of the source.
Terminals == {Blank, "\n", "&", Quote, "(", "[", "|", ">"}

\* What match() looks for behind the first character of an operator.
Seconds ==
  [c \in {"&", "|", "=", ".", ">", "!"} |->
     CASE c = ">" -> {"="} [] c = "!" -> {"!", "="} [] OTHER -> {c}]

\* The first position after i with a character of C, or the end of the source.
FirstAfter(i, C) ==
  CHOOSE j \in i + 1 .. Len(source) + 1 :
    /\ j = Len(source) + 1 \/ source[j] \in C
    /\ \A k \in i + 1 .. j - 1 : source[k] \notin C

\* Mistake: the list doubles one token too late.
AddTokenLate(type, from, to) ==
  /\ tokens' = Append(tokens, [type |-> type, from |-> from, to |-> to])
  /\ capacity' = IF Len(tokens) > capacity THEN capacity * 2 ELSE capacity

\* add_token(): the list doubles when it is full before the token is added.
AddToken(type, from, to) ==
  /\ tokens' = Append(tokens, [type |-> type, from |-> from, to |-> to])
  /\ capacity' = IF Len(tokens) >= capacity THEN capacity * 2 ELSE capacity

\* scan_token() and c is the next character.
NextIs(c) == phase = "lex" /\ at < Len(source) /\ source[at + 1] = c

Operator ==
  /\ \E c \in {"(", "$"} : NextIs(c)
  /\ at' = at + 1 /\ AddToken("T_OPERATOR", at + 1, at + 1)
  /\ UNCHANGED <<source, phase>>

\* Mistake: match() looks at the second character and leaves it where it is.
MatchStays ==
  /\ \E c \in DOMAIN Seconds :
       /\ NextIs(c)
       /\ LET two == at + 2 <= Len(source) /\ source[at + 2] \in Seconds[c]
          IN  AddToken(IF two /\ c = "&" THEN "T_AND_IF" ELSE "T_OPERATOR",
                       at + 1, IF two THEN at + 2 ELSE at + 1)
  /\ at' = at + 1
  /\ UNCHANGED <<source, phase>>

\* An operator of one or two characters: match() takes the second one.
Match ==
  /\ \E c \in DOMAIN Seconds :
       /\ NextIs(c)
       /\ LET two == at + 2 <= Len(source) /\ source[at + 2] \in Seconds[c]
          IN  /\ at' = IF two THEN at + 2 ELSE at + 1
              /\ AddToken(IF two /\ c = "&" THEN "T_AND_IF" ELSE "T_OPERATOR",
                          at + 1, at')
  /\ UNCHANGED <<source, phase>>

Whitespace ==
  /\ NextIs(Blank) \/ NextIs(Tab)
  /\ at' = at + 1
  /\ UNCHANGED <<source, tokens, capacity, phase>>

Newline ==
  /\ NextIs("\n")
  /\ at' = at + 1 /\ AddToken("T_NEWLINE", at + 1, at + 1)
  /\ UNCHANGED <<source, phase>>

\* Mistake: the comment also takes the first character of the next line.
CommentTooLong ==
  /\ NextIs("#")
  /\ at' = FirstAfter(at, {"\n"}) + 1
  /\ phase' = IF at' > Len(source) THEN "overrun" ELSE phase
  /\ UNCHANGED <<source, tokens, capacity>>

\* A comment takes its newline with it, or the 0 that ends the source.
Comment ==
  /\ NextIs("#")
  /\ at' = FirstAfter(at, {"\n"})
  /\ phase' = IF at' > Len(source) THEN "overrun" ELSE phase
  /\ UNCHANGED <<source, tokens, capacity>>

String ==
  /\ NextIs(Quote)
  /\ LET quote == FirstAfter(at + 1, {Quote}) IN
       /\ quote <= Len(source)
       /\ at' = quote /\ AddToken("T_STRING", at + 2, quote - 1)
  /\ UNCHANGED <<source, phase>>

StringNotTerminated ==
  /\ NextIs(Quote)
  /\ FirstAfter(at + 1, {Quote}) = Len(source) + 1
  /\ phase' = "exit"
  /\ UNCHANGED <<source, at, tokens, capacity>>

\* word(): its first character, whatever it is, and the others up to the next
\* terminal, reserved or not.
Word ==
  /\ \E c \in {"a", "r", "["} : NextIs(c)
  /\ LET end == FirstAfter(at + 1, Terminals) - 1
         type == IF SubSeq(source, at + 1, end) \in Reserved
                   THEN "T_RESERVED" ELSE "T_WORD"
     IN  at' = end /\ AddToken(type, at + 1, end)
  /\ UNCHANGED <<source, phase>>

\* The sentinel token; tokenize() returns and parse() starts.
EndOfSource ==
  /\ phase = "lex" /\ at = Len(source) /\ phase' = "parse"
  /\ AddToken("T_EOF", at + 1, at)
  /\ UNCHANGED <<source, at>>

Lex == \/ Operator \/ Match \/ Whitespace \/ Newline \/ Comment
       \/ String \/ StringNotTerminated \/ Word \/ EndOfSource

-----------------------------------------------------------------------------
(* Properties.                                                             *)

\* Positions of the source inside a comment: a "#" that no token holds, and
\* what follows it up to the end of its line.
InToken(i) == \E t \in DOMAIN tokens : i \in tokens[t].from .. tokens[t].to

\* Every character that was scanned is in exactly one token, unless it is a
\* blank, a tab, a quote, or from a "#" on to the end of that line; the tokens are
\* in the order of the source.  So operators of two characters are not taken for
\* two, or half of them for the next token, and nothing falls between a word and
\* what ends it.
TokensCover ==
  /\ \A t, u \in DOMAIN tokens : t < u => tokens[t].to < tokens[u].from
  /\ phase # "overrun" =>
       \A i \in 1 .. at :
         \/ InToken(i)
         \/ source[i] \in {Blank, Tab, Quote}
         \/ \E h \in 1 .. i : /\ source[h] = "#" /\ ~ InToken(h)
                              /\ \A k \in h .. i - 1 : source[k] # "\n"

\* A source that ends in a newline, as every line of prompt() does, is never
\* read beyond its end, whatever comments and strings it has.
StaysInSource ==
  source # <<>> /\ source[Len(source)] = "\n" => phase # "overrun"
=============================================================================
