---------------------------- MODULE Environment ----------------------------
(***************************************************************************)
(* The environment of a running shell: src/src/valery/env.c with pwd() of  *)
(* builtins/pwd.c and vstr_starts_with() of lib/vstring.c.  Each turn of   *)
(* the main loop calls env_update(), which records the directory and makes *)
(* the prompt from PS1.  env_gen() and env_rm(), which env.h offers, have  *)
(* no caller yet; they may come between any two turns.                     *)
(***************************************************************************)
EXTENDS Config

CONSTANTS
  Dirs,       \* where the shell's directory may be
  Removable,  \* the variables a caller of env_rm() removes, not PWD or OLDPWD
  Junk,       \* what memory behind the end of a string may hold
  MaxPs1,     \* the size of ps1_tmp, 1024 in the code
  EnvSize     \* ENV_HT_SIZE, 64 in the code

VARIABLES
  cwd,      \* the directory of the process, or NoDir when it was removed
  ps1,      \* env->ps1
  environ,  \* env_vars->environ[0 .. n - 1], a set since the order is arbitrary
  unsized,  \* the entries from env_vars->size on
  given,    \* what env_gen() has just put into env_str of its caller
  visited   \* history variable: the directories pwd() has seen, the last two

cache == <<environ, unsized>>
seen  == <<cwd, ps1, visited>>
vars  == <<phase, uid, table, update, loading, cache, given, seen>>

ASSUME EnvironmentAssumption ==
  /\ Dirs \subseteq Seq(STRING) \ {<<>>} /\ NoDir \notin Dirs /\ Junk \subseteq Seq(STRING)
  /\ MaxPs1 \in Nat \ {0} /\ EnvSize \in Nat \ {0}
  /\ {<<"PWD">>, <<"OLDPWD">>} \cap Removable = {}

\* What a prompt may show besides the text of PS1 and paths.  That these are
\* strings is nothing that could fail, but something the provers do not know.
ASSUME SymbolsAssumption ==
  {"#", "$", "~", "/", "cyan", "plain", "garbled"} \subseteq STRING

PS1    == <<"PS1">>
PWD    == <<"PWD">>
OLDPWD == <<"OLDPWD">>

EnvInit ==
  /\ Init
  /\ cwd \in Dirs /\ ps1 = <<>> /\ visited = <<>>
  /\ environ = {} /\ unsized = {} /\ given = {}

-----------------------------------------------------------------------------
(* env_update()                                                            *)

\* Mistake: PWD is set first, and what old points at is the new value.
AfterPwdInPlace(dir) == Put(Put(table, PWD, dir), OLDPWD, dir)

\* env_update_pwd(): the table once pwd() has returned dir.
AfterPwd(dir) ==
  LET old == IF IsSet(PWD) THEN table[PWD] ELSE dir
  IN  Put(Put(table, OLDPWD, old), PWD, dir)

\* What vstr_starts_with() may return: nothing, or what follows the character
\* behind the prefix.  When nothing is behind it, that is past the end of str.
StartsWith(str, prefix) ==
  IF ~ IsPrefix(prefix, str) THEN {}
  ELSE IF prefix = str THEN Junk
  ELSE {SubSeq(str, Len(prefix) + 2, Len(str))}

\* \D: PWD, with HOME replaced by ~.
Directory(t) ==
  IF PWD \notin DOMAIN t THEN {<<>>}
  ELSE LET below == IF HOME \in DOMAIN t THEN StartsWith(t[PWD], t[HOME]) ELSE {}
       IN  IF below = {} THEN {t[PWD]} ELSE {<<"~", "/">> \o rest : rest \in below}

\* \C and \E are appended where ps1_tmp, which nobody has initialised, has its
\* first 0, but counted at pos.
Colour(sequence) == {<<sequence>>, <<"garbled">>}

\* The value of PS1 has such an escape, and strncat() is called.
Coloured(value) ==
  \E i \in DOMAIN value :
    i < Len(value) /\ value[i] = "\\" /\ value[i + 1] \in {"C", "E"}

\* What an escaped character may be replaced by.
Escaped(c, t) ==
  CASE c = "$" -> {<<IF uid = Root THEN "#" ELSE "$">>}
    [] c = "D" -> Directory(t)
    [] c = "C" -> Colour("cyan")
    [] c = "E" -> Colour("plain")
    [] OTHER   -> {<<>>}

\* The loop of env_update_ps1() over the value of PS1: what may be in ps1_tmp.
Rendered(t) ==
  LET step(r, c) ==
        IF c = "\\" THEN [r EXCEPT !.escape = TRUE]
        ELSE [escape |-> FALSE,
              shown  |-> {s \o x : s \in r.shown,
                                   x \in IF r.escape THEN Escaped(c, t) ELSE {<<c>>}}]
  IN  FoldLeft(step, [escape |-> FALSE, shown |-> {<<>>}], t[PS1]).shown

\* What the shell does next is not defined.
Faults == phase' = "fault" /\ UNCHANGED ps1

\* env_update_ps1(): without PS1 the loop reads through the NULL that env_get()
\* has returned, strncat() may find the first 0 at the end of ps1_tmp or beyond,
\* and a prompt that does not fit is written behind ps1_tmp.
UpdatePs1(t) ==
  IF PS1 \notin DOMAIN t THEN Faults
  ELSE \/ Coloured(t[PS1]) /\ Faults
       \/ \E shown \in Rendered(t) :
            IF Len(shown) < MaxPs1 THEN ps1' = shown /\ UNCHANGED phase ELSE Faults

LastTwo(s) == IF Len(s) > 2 THEN Tail(s) ELSE s

\* Mistake: the prompt is made before the directory is looked up.
EnvUpdatePs1First ==
  /\ phase = "loop" /\ cwd # NoDir
  /\ table' = AfterPwd(cwd) /\ update' = TRUE
  /\ visited' = LastTwo(Append(visited, cwd))
  /\ UpdatePs1(table)
  /\ given' = {}
  /\ UNCHANGED <<uid, loading, cache, cwd>>

\* pwd() returns 1, because getcwd() has failed.
PwdFails == cwd = NoDir

\* One turn of the main loop; when pwd() fails PWD stays what it was.
EnvUpdate ==
  /\ phase = "loop"
  /\ \/ /\ ~ PwdFails
        /\ table' = AfterPwd(cwd) /\ update' = TRUE
        /\ visited' = LastTwo(Append(visited, cwd))
     \/ PwdFails /\ UNCHANGED <<table, update, visited>>
  /\ UpdatePs1(table')
  /\ given' = {}
  /\ UNCHANGED <<uid, loading, cache, cwd>>

\* Someone else renames or removes the directory the shell is in; the shell
\* itself never calls cd().
DirectoryMoves ==
  /\ phase = "loop" /\ cwd # NoDir
  /\ cwd' \in Dirs \cup {NoDir}
  /\ given' = {}
  /\ UNCHANGED <<phase, uid, table, update, loading, cache, ps1, visited>>

-----------------------------------------------------------------------------
(* The rest of env.h.                                                      *)

\* env_rm()
EnvRm(key) ==
  /\ phase = "loop" /\ table' = Without(table, key) /\ update' = TRUE
  /\ given' = {}
  /\ UNCHANGED <<phase, uid, loading, cache, seen>>

\* "KEY=VALUE" in a row of environ, cut to its size.
Entry(t, key) ==
  LET all == key \o <<"=">> \o t[key]
  IN  SubSeq(all, 1, IF Len(all) < MaxEnvLen THEN Len(all) ELSE MaxEnvLen - 1)

\* env_gen() after a change: every entry is made anew and handed out, but size
\* becomes one less than their number.  The rows of environ and of env_str are
\* not enough for EnvSize variables and the NULL behind them.
EnvGenAnew ==
  /\ phase = "loop" /\ update
  /\ IF Cardinality(DOMAIN table) < EnvSize
       THEN /\ environ' = {Entry(table, k) : k \in DOMAIN table}
            /\ given' = environ'
            /\ \E k \in DOMAIN table : unsized' = {Entry(table, k)}
            /\ update' = FALSE /\ UNCHANGED phase
       ELSE phase' = "fault" /\ UNCHANGED <<update, cache, given>>
  /\ UNCHANGED <<uid, table, loading, seen>>

\* env_gen() without a change since: the cache up to its size.
EnvGenCached ==
  /\ phase = "loop" /\ ~ update
  /\ given' = environ \ unsized
  /\ UNCHANGED <<phase, uid, table, update, loading, environ, unsized, seen>>

EnvGen == EnvGenAnew \/ EnvGenCached

-----------------------------------------------------------------------------

Next ==
  \/ Load /\ UNCHANGED <<cache, given, seen>>
  \/ EnvUpdate \/ DirectoryMoves \/ EnvGen
  \/ \E key \in Removable : EnvRm(key)

Spec == EnvInit /\ [][Next]_vars

-----------------------------------------------------------------------------
(* Properties.                                                             *)

\* Texts have their types, and what is written into an array is inside it: the
\* paths with room for one more, ps1_tmp with its 0, environ with its NULL.
TypeOK ==
  /\ phase \in Phases /\ uid \in Uids /\ update \in BOOLEAN
  /\ \A key \in DOMAIN table : table[key] \in Seq(STRING)
  /\ \A p \in Range(paths) : p \in Seq(STRING) /\ Len(p) < MaxEnvLen
  /\ capacity \in Nat /\ Len(paths) < capacity
  /\ ps1 \in Seq(STRING) /\ Len(ps1) < MaxPs1
  /\ Cardinality(environ) < EnvSize
  /\ unsized \subseteq environ /\ Cardinality(unsized) <= 1
  /\ given \subseteq environ
  /\ Len(visited) <= 2

\* PWD is the directory of the last prompt that knew one and OLDPWD that of the
\* one before, also where the configuration sets either, the directory goes
\* away for a while, or nothing has changed between the two prompts.
PwdTrail ==
  phase = "loop" /\ visited # <<>> =>
    /\ table[PWD] = visited[Len(visited)]
    /\ Len(visited) = 2 => table[OLDPWD] = visited[1]

\* p is path itself, or stands for it with ~ for home.
Denotes(p, path, home) ==
  p = path \/ (p # <<>> /\ p[1] = "~" /\ home \o Tail(p) = path)

\* A prompt with \D shows the directory the shell was last known to be in, and
\* not the one of an earlier prompt; apart from the directories vstr_starts_with()
\* takes for ones below HOME: HOME itself and those whose name only begins alike.
ShowsDirectory ==
  [][EnvUpdate /\ phase' = "loop" /\ visited' # <<>> =>
       LET dir  == visited'[Len(visited')]
           home == IF HOME \in DOMAIN table' THEN table'[HOME] ELSE <<>>
           value == table'[PS1]
       IN  /\ \E i \in DOMAIN value :
                i < Len(value) /\ value[i] = "\\" /\ value[i + 1] = "D"
           /\ IsPrefix(home, dir) => home # dir /\ dir[Len(home) + 1] = "/"
           => \E i, j \in DOMAIN ps1' : Denotes(SubSeq(ps1', i, j), dir, home)]_vars
=============================================================================
