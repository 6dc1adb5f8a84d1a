------------------------------ MODULE MCShell ------------------------------
(* Instances of Shell for TLC.                                             *)
EXTENDS Shell

BothBuilds == {TRUE, FALSE}
BSDBuild == {TRUE}

Line(kind) == [kind |-> kind, stmts |-> <<>>]
Run(stmts) == [kind |-> "run", stmts |-> stmts]

\* A line of each kind, a command that does not exist, and two commands of
\* which the first or none is missing.
SomeLines ==
  {Line("blank"), Line("exit"), Line("error"),
   Run(<<<<"missing">>>>), Run(<<<<"ls", "ls">>>>), Run(<<<<"missing", "ls">>>>)}

\* Input and sources: a command without a word, behind &&; a command that does
\* not exist, as it is recalled from memory; two lines in one.
SomeInput ==
  {Line("exit"), Line("error"), Run(<<<<"ls", "nothing">>>>),
   Run(<<<<"missing">>, <<"nothing">>>>), Run(<<<<"missing", "ls">>, <<"ls">>>>)}
=============================================================================
