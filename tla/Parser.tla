------------------------------- MODULE Parser -------------------------------
(***************************************************************************)
(* src/src/valery/interpreter/parser.c and parser_utils.c: the token list  *)
(* of the lexer becomes a list of statements, by recursive descent.        *)
(*                                                                         *)
(* A statement is a sequence of one command, or of the two commands of a   *)
(* BinaryExpr; a command is the sequence of the positions of its tokens.   *)
(***************************************************************************)
EXTENDS Lexer, FiniteSetsExt, SequencesExt

VARIABLES
  pos,        \* tokenlist->pos, counted from 1
  function,   \* the function of the parser that runs
  statement,  \* what program() has built so far
  statements  \* what parse() has collected

parseVars == <<pos, function, statement, statements>>
vars == <<lexVars, phase, parseVars>>

Init ==
  /\ LexInit
  /\ pos = 1 /\ function = "parse" /\ statement = <<>> /\ statements = <<>>

\* add_token() has just filled the list.
Full == Len(tokens) >= capacity

\* check_single(): means to stay inside the list, but compares its size with
\* its capacity.
Check(type) == ~ Full /\ tokens[pos].type = type

In(name) == phase = "parse" /\ function = name

\* while (!check(T_EOF)): program() and in it command() are called.
Program ==
  /\ In("parse") /\ ~ Check("T_EOF")
  /\ function' = "left" /\ statement' = <<<<>>>>
  /\ UNCHANGED <<lexVars, phase, pos, statements>>

ParseReturns ==
  /\ In("parse") /\ Check("T_EOF")
  /\ phase' = "parsed"
  /\ UNCHANGED <<lexVars, parseVars>>

AtWord == Check("T_WORD") \/ Check("T_STRING")

\* Mistake: previous() is the token after the one that was matched.
CommandNext ==
  /\ In("left") \/ In("right")
  /\ AtWord
  /\ pos' = pos + 1
  /\ statement' = [statement EXCEPT ![Len(statement)] = Append(@, pos + 1)]
  /\ UNCHANGED <<lexVars, phase, function, statements>>

\* command(): one turn of its loop.
Command ==
  /\ In("left") \/ In("right")
  /\ AtWord
  /\ pos' = pos + 1
  /\ statement' = [statement EXCEPT ![Len(statement)] = Append(@, pos)]
  /\ UNCHANGED <<lexVars, phase, function, statements>>

\* Mistake: and_if() loops.
AndIfLoops ==
  /\ In("left") \/ In("right")
  /\ Check("T_AND_IF")
  /\ pos' = pos + 1 /\ function' = "right"
  /\ statement' = Append(statement, <<>>)
  /\ UNCHANGED <<lexVars, phase, statements>>

\* and_if(): the left command is followed by &&.
AndIf ==
  /\ In("left") /\ Check("T_AND_IF")
  /\ pos' = pos + 1 /\ function' = "right"
  /\ statement' = Append(statement, <<>>)
  /\ UNCHANGED <<lexVars, phase, statements>>

\* consume(T_NEWLINE), and program() returns.
ConsumeNewline ==
  /\ In("left") \/ In("right")
  /\ Check("T_NEWLINE")
  /\ pos' = pos + 1 /\ function' = "parse"
  /\ statements' = Append(statements, statement) /\ statement' = <<>>
  /\ UNCHANGED <<lexVars, phase>>

\* Mistake: consume() reports the error and returns.
NewlineExpectedReturns ==
  /\ \/ In("left") /\ ~ Check("T_AND_IF")
     \/ In("right")
  /\ ~ AtWord /\ ~ Check("T_NEWLINE")
  /\ function' = "parse" /\ statement' = <<>>
  /\ UNCHANGED <<lexVars, phase, pos, statements>>

\* consume() exits the shell.
NewlineExpected ==
  /\ \/ In("left") /\ ~ Check("T_AND_IF")
     \/ In("right")
  /\ ~ AtWord /\ ~ Check("T_NEWLINE")
  /\ phase' = "exit"
  /\ UNCHANGED <<lexVars, parseVars>>

Parse == \/ Program \/ ParseReturns \/ Command \/ AndIf
         \/ ConsumeNewline \/ NewlineExpected

Next == (Lex /\ UNCHANGED parseVars) \/ Parse

Spec == Init /\ [][Next]_vars

\* One thread that waits for nothing.
FairSpec == Spec /\ WF_vars(Next)

-----------------------------------------------------------------------------
(* Properties.                                                             *)

\* Every variable holds a value of its type, and what the parser looks at or
\* has kept is a token of the list.
TypeOK ==
  /\ source \in Seq(Chars) /\ at \in Nat /\ tokens \in Seq(Token)
  /\ capacity \in Nat /\ Len(tokens) <= capacity
  /\ phase \in Phases /\ function \in {"parse", "left", "right"}
  /\ phase = "parse" => pos \in DOMAIN tokens
  /\ \A s \in DOMAIN statements : Len(statements[s]) \in {1, 2}

\* expression_grammar, its first part: (and_if "\n")* EOF, where and_if is one
\* command or two around &&, and a command is any number of words.
InGrammar ==
  LET n == Len(tokens)
      OfType(type) == {t \in 1 .. n - 1 : tokens[t].type = type}
  IN  /\ \A t \in 1 .. n - 1 :
           tokens[t].type \in {"T_WORD", "T_STRING", "T_AND_IF", "T_NEWLINE"}
      /\ n > 1 => tokens[n - 1].type = "T_NEWLINE"
      /\ \A t, u \in OfType("T_AND_IF") :
           t < u => \E l \in OfType("T_NEWLINE") : t < l /\ l < u

\* consume() has left the shell.
Refused == phase = "exit" /\ tokens # <<>> /\ Last(tokens).type = "T_EOF"

\* The parser accepts nothing that is not in the grammar, and of that it only
\* refuses the lists that fill the memory they are in.
AcceptsGrammar ==
  /\ phase = "parsed" => InGrammar
  /\ Refused => ~ InGrammar \/ Full

\* What parse() and program() have built so far, and the tokens of some types
\* they have built it from.
Tree == IF statement = <<>> THEN statements ELSE Append(statements, statement)
Taken(types) ==
  {t \in 1 .. IF phase = "parse" THEN pos - 1 ELSE Len(tokens) : tokens[t].type \in types}

\* A sequence of numbers is a set of them in order.
Ascending(q, S) == Range(q) = S /\ \A i, j \in DOMAIN q : i < j => q[i] < q[j]

\* The tree keeps every word of the source once and in its order, and has one
\* statement for each line and one && for each BinaryExpr.
TreeKeepsTokens ==
  phase \in {"parse", "parsed"} =>
    /\ Ascending(FlattenSeq(FlattenSeq(Tree)), Taken({"T_WORD", "T_STRING"}))
    /\ Len(statements) = Cardinality(Taken({"T_NEWLINE"}))
    /\ Cardinality({s \in DOMAIN Tree : Len(Tree[s]) = 2}) = Cardinality(Taken({"T_AND_IF"}))

\* valery_interpret() always gets to a tree or leaves the shell: no source
\* keeps the loops of tokenize(), parse() and command() going.
Done == phase \in {"parsed", "exit", "overrun"}
ParseEnds == <>Done

(* What the grammar says and the code does not do.                         *)

\* expression_grammar: a source that is in the grammar is parsed.
GrammarAccepted == Refused => ~ InGrammar
=============================================================================
