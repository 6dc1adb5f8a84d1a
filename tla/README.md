# valery in TLA+

valery is a small interactive UNIX shell in C. This directory holds TLA+ modules
that model its history file, its prompt, its lexer and parser, its processes and its
environment,
configurations that check them with TLC, and theorems about all of these parts that
TLAPS proves. `PROJECT.json` lists the runs, which source lines every definition
translates, the hazards the properties are for, the mistakes each property
detects, and the findings.

Paths below are relative to the repository; `valery/` is `src/valery/` and
`interpreter/` is `src/valery/interpreter/`.

## 1. Inventory

| Component | Files | State | Operations | What makes it correct |
|---|---|---|---|---|
| history file | `valery/histfile.c`, `histfile.h` | the file `~/.valery_hist`, the stream `fp`, `pos`, `s_len` and the slots, `f_len`, `f_chars` | open and count, reset, traverse and read a line, save, write, free | what is in the file stays; an `exit` stores all that was typed, in order; the arrows show the neighbouring command; every scan ends |
| prompt | `valery/prompt.c`, `prompt.h` | `buf`, `buf_size`, `buf_capacity`, `cursor_position`, the saved terminal mode | start, type, erase, move, recall, enlarge, enter | the bytes are the text the user sees; the line is a string; nothing is written outside the buffer; the terminal is restored |
| string helpers | `src/lib/vstring.c` | none | insert and remove a character, find, compare, trim | stay inside the buffer |
| main loop and signals | `valery/valery.c` | `received_sigint`, the installed handler | prompt, skip, save, leave, interpret; `-c`, `--help`, `--license` | ctrl+c never ends the shell; every line is saved before it is run; it ends with the source of `-c` |
| program execution | `interpreter/impl/exec.c` | the process table | fork, execve, waitpid | one process of the terminal at a time; every child is collected |
| interpreter | `interpreter/interpreter.c` | `glob_exit_code` | evaluate a command, `&&` | the right side of `&&` runs only after the left one succeeded |
| lexer | `interpreter/lexer.c`, `lexer.h` | position in the source, the token list | one scan per token | every character ends up in one token; the source is not left |
| parser | `interpreter/parser.c`, `parser_utils.c` | position in the token list, the tree | recursive descent over `expression_grammar` | accepts the grammar and nothing else; keeps every word; ends |
| tree printing | `interpreter/ast.c` | none | debug output | - |
| environment | `valery/env.c`, `builtins/pwd.c` | a table of variables and its `update` flag, the cached `environ`, `ps1` | get, set, remove, generate, `PWD`/`OLDPWD`, the prompt from `PS1` | every entry is handed out; the prompt and `PWD` show where the shell is |
| configuration | `valery/load_config.c` | the paths | read `.valeryrc` into the environment, split `PATH` | every line arrives whole, the last one counts; every directory of `PATH` is kept |
| builtins | `src/builtins/*.c` | none | `cd`, `which`, `history`, `pwd`, `help` | - |
| errors and allocation | `valery/common.c` | none | leave with a message, checked allocation | - |
| nicc, sac | git submodules, not in the repository | containers | hash map, array, arena | - |

How they interact: `valery()` calls `env_init()`, which reads the configuration or
ends the shell. In each turn of its loop it calls `env_update()`, which makes the prompt, and `prompt()`, which calls `hist_reset_pos()` and,
for the arrow keys, `hist_get_line()`, which writes into the buffer of the prompt.
The line goes to `hist_save()` and then to `valery_interpret()`, that is through
`tokenize()`, `parse()` and `interpret()` to `valery_exec_program()`. `exit` calls
`hist_write()`. A parse error calls `exit(1)` from the depth of the parser. There are
no threads; what runs concurrently are processes: the shell and its programs, a
child that could not `execve()` and goes on as a second shell, the second shell in
another terminal, and the signal handler. They share the terminal, its mode, and
the history file.

Hard behaviours, each listed with its line under `hazards`: offsets and counters
that move by separate rules; counters taken once and used for the life of the
shell; unsigned differences that pass below 0; a slot or a buffer that is full; a
crash between two commands or inside `hist_write()`; two shells on one file;
a failing `fork()` or `execve()`; `waitpid()` interrupted by the ctrl+c meant for the
program; a handler that the system removes; strings over stale bytes; lines read
ahead that `fork()` copies; input that ends; a table that `strtok()` writes into;
a directory that goes away.

## 2. Modules

| Module | Models | Role |
|---|---|---|
| `Histfile` | `histfile.c`, the calls that `prompt()` and `valery()` make to it | one shell and its history, over several sessions and crashes |
| `HistoryCursor` | - | what browsing promises: a cursor over a numbered list |
| `SharedHistory` | two `Histfile`s on one file | composition |
| `Shell` | `valery.c`, `exec.c`, `interpreter.c`, terminal mode of `prompt.c`, `signal()` | processes |
| `Lexer`, `Parser` | `lexer.c`; `parser.c`, `parser_utils.c` | text to tokens to statements |
| `Prompt` | the buffer of `prompt.c`, `vstring.c` | bytes |
| `LineEditor` | - | what the user of the prompt expects |
| `Config` | `load_config.c`, the start of `env.c` | the configuration becomes the table and the paths |
| `Environment` | `env.c`, `pwd.c`, `vstr_starts_with` | the same table in the main loop |
| `HistfileProofs`, `SharedHistoryProofs` | - | theorems about one shell and its history, and about two |
| `ShellProofs`, `PromptProofs` | - | theorems about `Shell`, and about `Prompt` and its refinement |
| `ParserProofs` | - | theorems about `Lexer` and `Parser` |
| `ConfigProofs`, `EnvironmentProofs` | - | theorems about `Environment`: what the start leaves behind, and the main loop |
| `FoldProofs` | - | lemmas about folds and concatenation |
| `MC...` | - | instances for TLC |

A definition with a comment that starts with "Mistake:" is not part of a
specification. It is the definition after it with a plausible bug; exchanging the
two makes some property fail, which shows that the property depends on that line.

### Histfile

A text is a record of its size and the offsets of its newlines. Nothing else of a
text decides what `hist_traverse()` does, and two different texts of the same shape
are browsed alike. `fp`, `pos`, `f_len`, `f_chars`, `s_len` (`Len(stored)`) are the C
variables; `f_pos` is only ever assigned `f_len` and is left out. `pos - 1`
and `s_len + f_len - 1` wrap at `SizeMax` (`Decr`). Each turn of the scan loop is a
step (`ScanHit`, `ScanUp`, `ScanDown`), so it can fail to end; each turn of the loop of
`hist_write()` is a step, so the shell can be killed between them. `out` is the
buffer of the stream, at most `BufSize` bytes: a kill loses it, and what does not fit goes to
the file early, cut anywhere (`Fputs`). `CopiedLine` is what a slot or the prompt's buffer holds
after `strncpy()`: a line that is too long has no 0, and the string goes on with
whatever is in memory behind (`Junk`). `phase` is the place in the code. Reading or
writing outside memory ends in one of the `...Fault` phases, from which only `Killed`
leads on; there is no guess what the C program would do after that.

`buf` keeps what put the bytes into the prompt (`src`, `at`) next to their size:
`READ_FROM_MEMORY`, `READ_FROM_HIST`, or `stale` when `fgets()` read nothing. `base`,
`journal` and `crossed` are history variables. `crossed` notes that browsing has come
back from the file to memory, after which the stream no longer agrees with `pos`
(finding `up_down_up`). The refinement mapping to `HistoryCursor` is at the end of the module: the list
is the file's lines followed by the commands of the session.

`Killed` stands for every end without `hist_write()`: a parse error, a signal, a
terminal that goes away.

### SharedHistory

Two instances of `Histfile` with all their variables doubled except `file`. Each
step of one leaves the memory of the other alone. What does not fit the stream's
buffer is written in pieces, between which the other shell may write.

### Shell

A record per process: where it is (`pc`), parent, the pid it waits for, the
commands of its statement and the statements of its line not yet evaluated, its copy of
the stored lines, the lines in the buffer of its standard input, the signal
flag, whether the handler is installed, whether a system call was interrupted,
the terminal mode its `prompt()` saved. `Fork` copies the record, as `fork()` copies
memory. `ExecFails` leaves the child in `waitpid(0)`, from where it continues as a
shell: this is what `exec.c` does, which has no `exit()` behind `execve()`.
`ForkFails` waits with pid -1. `WaitFails` gives an arbitrary exit status, since
`status` is uninitialised then. A signal can arrive between any two steps, also between
the one that resets the flag (`SkipLine`) and the one that installs the handler again (`Rearm`). `Restarts` is what `signal()` means: `build.sh` gets
the BSD one (handler stays, system calls restart), the Makefile with `-std=c99` the
System V one (one shot, `EINTR`). `saved` numbers the lines as they are saved, so
`file` shows their order.

`mode` is how valery is used. On a terminal (`tty`) `prompt()` sets its mode. On a pipe it
cannot, and the input may end (`InputEnds`): `getchar()` then returns EOF for ever, which is
an empty line each time, until `SaveFull` writes behind the last slot. What the process does
after that is not defined: it is `lost`, may end in any step (`Crash`), and need not. With `-c` (`source`) there is no history
and no handler, and a shell is over when the source is, also the second
shell of a command that does not exist. A statement without words is the command `Nothing`: the
name of its program is read through a pointer nobody has written, so the shell may
end (`EmptyCommand`), and what it executes may exist or not.

### Lexer, Parser

One action per branch of `scan_token()` and one per call of the parser that looks
at a token. Characters that `scan_token()` and `is_terminal()` treat alike are one character (`Chars`):
a tab and a carriage return are skipped between words but do not end one, brackets end one and may begin the next, and
the operators are split by whether they end a word. An operator of two characters is one token (`Match`). The position
`at` may pass the end of the source (`overrun`) as `source_cpy` does. `Full` is the
comparison of size and capacity in `check_single()`. A tree is a sequence of
statements, each of one or two commands, each a sequence of token positions. A
source can have several lines, as with `-c`.

### Prompt

All `buf_capacity` bytes, those nobody has written and those earlier lines left
included. `vstr_insert_c` and `vstr_remove_idx` work on the string up to the first 0
(`StrLen`), which need not be the line. `strncpy()` from memory pads with zeros,
`fgets()` does not. `command` is one of the lines given to `hist_save()`, whichever; `Slot` is what `strncpy()` made of
it, with no 0 in it if the line was too long, so that `RecallFromMemory` goes on in what is behind the slot in the
buffer, or out of the buffer. `Fetched` is what `fgets()` and the chopping of its last character leave of a line of the
file. `written` and `zeroed` are history variables. `overflow` and
`sentinel` are the phases in which a byte outside the buffer was used.

### Config, Environment

A text is a sequence of symbols, of which a name the code looks for is one. `table` is
the hash table; nicc, whose code is not there, is taken to set and remove. One
step per line that `fgets()` returns (`ReadLine`) and per token of `strtok()` (`NextPath`), so
that growing arrays and lines cut into pieces are seen; `UnwrapPaths` cuts the value of `PATH`
in the table, as `strtok()` does. `EnvUpdate` is one turn of the main loop: `PWD`, then
the prompt. What a string that is read past its end yields is `Junk`; a colour is
either what it should be or garbled, or is appended outside `ps1_tmp`. Writing outside an array and reading NULL is the phase
`fault`. `environ` is a set because the order of the hash table is arbitrary; `unsized` is what
`env_gen()` leaves out of its size. Nobody calls `env_gen()` and `env_rm()` yet; the
model lets them be called between any two turns, as `env.h` offers them. The directory of
the shell changes only from outside, since `cd()` has no caller.

## 3. Runs

Every run bounds the user, not the code: the constants of the code that matter
(slots, line length, capacities) are small so that their limits are reached.

| Run | Distinct states |
|---|---|
| `histfile_sessions` | 709 000 |
| `histfile_cursor` | 63 000 |
| `shared` | 1 184 000 |
| `shell` | 375 000 |
| `shell_input` | 113 000 |
| `environment` | 104 000 |
| `parser` | 299 000 |
| `prompt` | 1 336 000 |

### Runs that pass

**`histfile_sessions`** (`Histfile_sessions.cfg`). Two sessions, two slots, both arrows,
no history, a clean one of three lines, and an odd one: blank
line, no newline at the end, a line longer than `fgets()` takes. The lines typed are an
empty one and one that does not fit its slot; the buffer of the stream has two
bytes, so that entries are cut everywhere. Both sessions may be killed anywhere. Two slots are enough for memory to be browsed
and to be full; three file lines for a scan to have a line on both sides. Shows:
`TypeOK`; `AppendOnly` and `ExitIsDurable` (the file only grows; leaving through `exit`
stores exactly the commands, in order, a crash a first part of them, and nothing or all of
them where they fit the stream's buffer); `CommandsEndLines` (no two commands
share a line, also where `hist_save()` has cut off the newline of one);
`CountsAreCurrent` (the counters cannot be stale in the shell that took them);
`ShownInSync` and `NeverChopsEmpty` (on a file without blank lines the offset of the
stream stands for the line `pos` stands for, and there is a line to read, until
browsing first returns to memory); `DownFindsNewLine` and `LoopsEnd` (every scan ends,
in sync or not, on every file).

**`histfile_cursor`** (`Histfile_cursor.cfg`). Arrow up on clean files, three slots:
`Histfile` implements `HistoryCursor`, so that the n-th press shows the n-th newest
command across the boundary of memory and file, and no step shows anything else.
Arrow down and unclean files are left out because the code does not implement the
cursor there: see the findings.

**`shared`** (`SharedHistory_append.cfg`). Two shells, one slot and one session each, both arrows.
`NothingLost` (what each shell has written survives, in its order, wherever the
pieces of the other one come in between), `AppendOnly`, and `DownFindsNewLine`, which says that the stale
`f_chars` of one shell is never what ends its scan.

**`shell`** (`Shell_processes.cfg`). Up to three processes, two lines besides `exit`, two
ctrl+c, both builds. Three processes are a shell, a second shell that came out of
a failed `execve()`, and a command of that one. `ArmedUnlessFlagged` holds in both
builds: the handler is missing only while the flag tells the main loop to install
it, and between the two statements that do. `OneActive`, `TermFollowsPrompt`, `AndIfStops`, `TypedOrderKept` and `Reaped` are
conditional on the build that restarts `waitpid()`; where it does not, a shell goes on
while its program runs, which the run explores as well. `TypedOrderKept` says that
whatever second shells have done, all the typed lines can be found in the file in
their order; `AndIfStops` that the right side is not started while the left one runs
or after it failed.

**`shell_input`** (`Shell_input.cfg`). The three modes in the build that restarts `waitpid()`, three
processes, three slots and three lines, of which one may be read ahead; lines with
several statements, with a missing program and without words. `OneActive` and
`TypedOrderKept` (lines that two shells have in their buffers are saved by both, and still
the file has all that was taken in order); `SourceEnds` (a source ends every shell of the
chain, however many there are, unless a program they wait for does not end); `EofFillsHistory` (the end
of the input ends none: the shell goes on with empty lines until it writes behind its slots, unless the last line it got was the end
of it or a program does not end).

**`environment`** (`Environment_loop.cfg`). All pairs of eight lines (settings of `PATH`, `HOME`, `PWD`
and another variable, comments, junk), two prompts with one more line or none, and lines
that do not fit or have no newline; then a main loop with three directories, `HOME`
among them, and none. The array of paths starts with two places, so it grows. `ConfigArrives` compares the table
with a definition over the whole file; `PathsUnwrapped` the array with the parts between the
colons; `PwdTrail` and `ShowsDirectory` follow the directory and its name in the
prompt through any sequence of turns and removals. What the
code does where these do not apply is under the findings.

**`parser`** (`Parser_grammar.cfg`). All texts of up to three characters of every class and of up to four of those that make words, alone and as a
line, and lines of up to five pieces (words, the reserved word, strings, comments, `&&`, newlines), with
lists that start with two tokens so that they double several times and are often
exactly full. `TokensCover`, `StaysInSource`, `AcceptsGrammar` (with full lists as the
one exception, see the findings), `TreeKeepsTokens`, `ParseEnds`.

**`prompt`** (`Prompt_editor.cfg`). A buffer of three bytes that can grow to six, at
most eleven bytes written, memory that holds zeros or junk; lines of the file and lines of the session, those that fit and
those that do not. Eleven bytes are enough for a line that fills its slot to be
entered and recalled behind a longer one, also beyond the end of the buffer. `LineIsTerminated` (what
the caller gets is the line, as a C string, although the line is not terminated
while it is edited), `StaysInBuffer` (as long as fewer bytes were put into a zeroed
buffer than fit, none lands outside), `ImplementsEditor` (`Prompt` implements
`LineEditor`: insertion, erasure, moves and recall in any order change the text as the user
expects; a lost key is a stutter; of a recalled line that has filled its slot `LineEditor` promises what was kept and
nothing about what follows).

### Runs that find a disagreement

| Run | Property | What the code says and what happens |
|---|---|---|
| `own_history` | `GetLineFindsLine` | `hist_get_line()` "puts the current hist line into the buf argument"; the blank line `hist_write()` leaves behind every command makes the next session read nothing and chop an empty buffer |
| `up_down_up` | `TraversesOneLine` | `hist_traverse()` "traverses the hist one line"; up into the file, down into memory and up again skips a line |
| `prompt_recall` | `RecallShowsLine` | the arrow keys "store the corresponding hist line inside buf"; of a line that filled its slot they store more, the bytes an earlier line left behind it |
| `full_list` | `GrammarAccepted` | `expression_grammar`; a line whose tokens fill the list exactly is a parse error |

Findings without a run are things met on the way which the models contain but for
which no separate run is kept; they are in `PROJECT.json` with their lines: `hist_write()`
does not clear the memory, two shells of a missing command both write the older
lines and run what was read ahead, arrow down
at a fresh prompt, the session lost to a parse error, the right side of `&&` run
after a left side that does not exist, `-c` without a newline, a recalled `exit`, the
sentinel byte behind a buffer that is one short of full, keys lost when the buffer
grows, the terminating 0 of words and strings, statements without words, EOF taken for
empty lines until the slots are gone, a comment that takes the newline of its command with it,
a missing `PS1`, `~` for directories that only begin like `HOME`, colours at a
place nobody has initialised, a prompt that does not fit, the entry `env_gen()` leaves out, `PATH` cut by `strtok()`, the last
character of a line without a newline.

## 4. Fairness

`Histfile` has weak fairness of `Scan`, `ReadLine`, `HistWriteCommand` and `HistWriteEnd`:
the shell is one thread and waits for nothing in these loops. None of the user, of starting
a shell, or of `Killed`. `Parser` has weak fairness of `Next` for the same reason. `Shell`
has weak fairness per process: of the calls around a command (`CallSpec`, enough for
`Reaped`), or of everything a process of valery does on its own (`FairSpec`, for
`SourceEnds` and `EofFillsHistory`). `Crash` is not fair, and nothing is claimed of a shell that is lost. The kernel runs every process that can run. Neither the end of
a program nor the next line of the user nor the end of the input is fair, so
nothing rests on them. `SharedHistory`, `Prompt` and `Environment` state safety only.

Deadlock is not checked: each model really stops, when the user has used up the
bound on sessions, lines or bytes, when `valery_interpret()` is done, or when the shell
has exited or is lost. `LoopsEnd`, `ParseEnds`, `Reaped` and `SourceEnds` say what must not
be stuck before that, `EofFillsHistory` what the end of the input leads to.

## 5. Theorems

TLC checks every property below on the instances of section 3; the theorems
hold for every value of the constants that the assumptions allow. Each proof follows one pattern: an inductive
invariant, a lemma per action that it survives, and the property as a consequence.

### The history (`HistfileProofs`)

For every set of keys, files and lines and every value of the bounds that `HistfileAssumption` allows:

* `TypeCorrect`: `Spec => []TypeOK`. `TypeOK` is inductive by itself. It holds that the
  stored commands fit the slots and that the loop of `hist_write()` stays within
  them, on which the other proofs rest.
* `FileOnlyGrows`: `Spec => AppendOnly`. Only `HistWriteCommand` and `HistWriteEnd` change the
  file, and `Cat` keeps its first argument (`CatPrefix`); needs `TypeOK` for the texts.
* `ExitDurable`: `Spec => []ExitIsDurable`. Not inductive: what is on disk depends on what
  the stream still holds. `WriteInv` adds that while `hist_write()` runs the file and the stream
  together are what the first `wi` commands amount to (`Cat(file, out) = Cat(base,
  journal[wi + 1])`), that `journal` grows by one entry per command, that the stream is
  empty otherwise, and that the file is still `base` unless a write was too large for the buffer. It rests on
  `CatAssociative` and `FputsWrites`: however `fputs()` cuts, nothing is lost between the two.
* `CommandsSeparate`: `Spec => []CommandsEndLines`. From `WriteInv` and `EntryEnds`: an entry
  ends in a newline whatever the slot holds, and is at its place in the file.
* `CountsCurrent`: `Spec => []CountsAreCurrent`. Inductive by itself: no action leads from writing back to
  browsing.
* `BrowsingInSync`: `Spec => [](ShownInSync /\ NeverChopsEmpty)`. `ShownInSync` speaks of a shown line only.
  `SyncInv` adds where the stream stands when nothing is shown or a scan runs:
  in `browse` it stands behind line `pos`, in `scan` the offset lies
  inside the line that is being looked for, in `read` at its start. It rests on
  `LineNoStep` and `LineNoBounds`, which say how the number of the line changes with
  the offset, and on `TypeCorrect` and `CountsCurrent`. `AlwaysALine` states the second half by itself.
* `DownEndsAtNewLine`: `Spec => []DownFindsNewLine`, on unclean files and out of sync too, so
  `SyncInv` is of no use. `AheadInv` says what all keys keep: `pos` may run ahead of the stream, but
  the newlines in front of the stream do not become fewer than `pos` has lines left. Arrow up, arrow
  down, the scan and the reading of a line each move both sides; only the end of `hist_malloc()` and
  `hist_reset_pos()` set them.
* `UpImplementsCursor`: the refinement `ImplementsCursor` for the setting of the run
  `histfile_cursor`, which the theorem names as its hypothesis `UpOnClean`: one session, arrow up only, clean files. Without these the code does not
  implement the cursor (findings `own_history` and `up_down_up`). `CursorInv` says that the number of presses, `pos` and
  the shown line agree, and `SyncInv` gives the line; every step maps to a step of the cursor or a stutter.

The only assumption is `HistfileAssumption`: the two directions differ, files and
lines are texts, a line is not empty, there is at least one slot, and a line has
room for two bytes. The lemmas about `Cardinality` cite the library.

### Two shells (`SharedHistoryProofs`)

Both shells are instances of `HistfileProofs`, and what is proved of one must hold while the other writes. A part of
the invariants of `Histfile` compares the file with the counters of the shell and is false with two
shells. `ShellInv` is the part that survives the other one's appends: types, `AheadInv` (newlines ahead can
only become more: `AheadGrows`), and `JournalInv`, which relates the own writing to `Put`, what the shell has written so far,
not to the file. `OwnStep` and `OtherStep` are the two halves of the induction.

* `BothOnlyAppend`: `Spec => AppendOnly`. `DownEndsAtNewLine`: `Spec => []DownFindsNewLine`; the stale counters are too
  small, never too large.
* `ExitsLoseNothing`: `Spec => []NothingLost` for one session of each, the hypothesis `MaxSessions <= 1`. `Joint` says that the file is the older of the two
  bases with the writes of both shells behind it (`Woven`: its bytes and its lines are those of the three together, and
  what fits the buffer of a stream is there in one piece).
  The hypothesis is needed because a shell that starts again takes the other one's lines into its base, after
  which "what was there before" is no longer one of the two bases.

`SharedHistoryAssumption` is `HistfileAssumption` for the instances.

### Processes (`ShellProofs`)

For any number of processes, slots, lines and signals, both builds and all modes:

* `Types`: `Spec => []TypeOK`. `TypeInv` adds the records' fields (`Sound`: who executes has a command to execute)
  and that a parent lives.
* `HandlerStays`: `Spec => []ArmedUnlessFlagged`: the handler is installed, or the flag is set, or the shell is between the
  two statements that reset the one and install the other. In the build without restarts a second ctrl+c in
  either of the last two cases ends the shell, so this is not a claim that ctrl+c never does. `ArmedInv` adds the programs, which inherit their parent's
  handler, and `-c`, where there is none.
* `OneProcessActive` (`[]OneActive`), `TerminalRestored` (`[]TermFollowsPrompt`), `RightWaitsForLeft` (`AndIfStops`), in the build that
  restarts `waitpid()`. `OneActive` alone does not survive a step, because it does not
  say who waits for whom: `ChainInv` says that the processes are a
  chain of shells each waiting for the next, with one end, and that no call has been interrupted.
  `TermInv` says that every saved mode is the cooked one, because prompts do not overlap;
  `LeftInv` ties what a shell knows of its left command to the child it waits for. Each action extends the chain at its end
  (`ForkChain`), takes the end away (`EndChain`, `WaitChain`) or moves the process there (`MovesChain`).
* `OrderKept`: `Spec => []TypedOrderKept`, in the same build. What a shell remembers overlaps with what its
  ancestors do, so no sum over the shells says what is still to be written. `OrderInv` looks at one shell instead, the last of the
  chain (`Current`): the file and what this one remembers make up all that was saved, and nobody remembers a line that was not
  saved. A fork hands that over to the child (`ForkUnsaved`); a shell that leaves appends what completes the file, and
  what its ancestors append later was met before (`LeaveOrder`, from `InOrderKnown`). What `InOrder()` reads comes from
  `FoldProofs`. The property's condition, that every shell left through `exit`, is that of `OrderInv` as well: a shell that is
  killed takes its lines with it.

`ShellAssumption` says what the constants are, that a line that is run has a statement and no
statement is empty.

### Prompt (`PromptProofs`)

For every capacity, every text and whatever memory holds:

* `Types`, `Terminated` (`[]LineIsTerminated`), `InBuffer` (`[]StaysInBuffer`). The line is not terminated while it is edited,
  so `PromptInv` adds `NoNul` (no 0 inside the line, thus the string is at least as long as the line), `CommandNoNul` (nor inside
  a line that was saved) and
  `HighWater` (in a buffer that came as zeros nothing but zeros is behind the bytes `written`, thus it is at most as long as they are).
* `Implements`: `Spec => ImplementsEditor`. `InsertEffect`, `BackspaceEffect`, `FileEffect` and `MemoryEffect` say byte by byte what the
  functions of `vstring.c` and the recalls do to the buffer; from those the text is what `LineEditor` makes of it.

`PromptAssumption` has that letters are neither newline nor 0, that `MAX_COMMAND_LEN` is at least 2, and that the
buffer may have as many bytes. It says nothing of how long lines are: `Implements` also covers slots without a 0, of which
`LineEditor` asks only that what the slot holds comes first. That more than the line may follow is the run `prompt_recall`.

### Lexer and parser (`ParserProofs`)

For every set of sources and every initial capacity of the list:

* `TypesKept`: `Spec => []TypeOK`. `RoomInv` says that the doubling is in time; that the parser does not look
  behind the last token needs `PlaceInv`, of which the core is that the list ends in `T_EOF` and no other token is one.
* `Covered` (`[]TokensCover`) and `InSource` (`[]StaysInSource`): `ScanInv` says that tokens lie one behind
  the other up to the position of the scan, and that what lies between them is blank, tab, quote or comment.
* `GrammarKept`: `Spec => []AcceptsGrammar`. `PlaceInv` says which tokens stand in front of each place of the recursive
  descent, and `ReadInv` that what has been read of the tokens is a beginning of `expression_grammar` that this place may follow.
  Both directions are proved: what is accepted is in the grammar, and what is refused is not, but for full lists.
* `TreeKept`: `Spec => []TreeKeepsTokens`. `TreeInv` adds that nothing has been built while the source is scanned. What the tree
  has and what was read of the list are compared by `Kept`, and one lemma (`KeptNew`, `KeptWord`, `KeptAnd`, `KeptLine`, `KeptEnd`)
  says what each function of the parser does to both: a word goes behind all words of the tree (`WordsOfMore`, `AscendingMore`), `&&`
  makes a pair of the last statement, a newline completes it. That the words of a tree are those of its
  parts comes from `FoldProofs`.

### Environment (`EnvironmentProofs`)

For every configuration, home directory, set of directories
and size:

* `PwdFollows`: `Spec => []PwdTrail`. Not inductive: `env_update_pwd()` reads the old `PWD`.
  `TrailInv` adds that nothing has been visited before the main loop begins, and that `PWD` and
  `OLDPWD` are in the table from the first prompt on. It rests on `PutGet`, `AfterPwdGet`
  and `TrailGrows`.
* `Types`: `Spec => []TypeOK`. The prompt and the entries are made by folds over `PS1` and over the table; `FoldIs` of
  `FoldProofs` says what a fold yields for the first positions of a sequence, so that a property of the draft
  (`Drafting`) goes from one character of `PS1` to the next. `SizesInv` has the sizes, the start's
  invariants the rest.
* `PromptShowsDirectory`: `Spec => ShowsDirectory`. What `\D` puts in is followed from the character of `PS1` where it
  stands into the finished prompt (`DirectoryShown`); `BelowHome` says that `~`, a slash and the rest that
  `vstr_starts_with()` finds is the directory, and where it is not, the hypotheses of `ShowsDirectory` say so.

### The start (`ConfigProofs`)

`Spec` of `Environment` begins with the start of the shell, so these theorems are about the steps of `Config` within
it. For every file, every home directory, every `MAX_ENV_LEN` and every first length of the array:

* `Arrives`: `Spec => []ConfigArrives`. `RowsInv` says that the lines up to a newline are read, and that for these
  the table is what the file assigns (`Holds`). A line is one piece of `fgets()` when it is short enough (`LineGrows`,
  `PieceAssigns`), and of several lines for one variable the last one counts.
* `Unwrapped`: `Spec => []PathsUnwrapped`. `PathsInv` says that the array holds, in order, the parts of `PATH` in front of
  the place `strtok()` is at (`SplitTo`), although the value in the table is cut there.
* `StartsInv`, on which all of this and the theorems of `EnvironmentProofs` rest, is proved together with them: texts are texts,
  a piece that was read fits its buffer, the array has room for one more.

The assumptions are `ConfigAssumption` (files and directories are texts, the sizes leave room for a character and for a path), `EnvironmentAssumption`
(a directory has a name, the arrays are not empty, and no caller of `env_rm()` removes `PWD` or `OLDPWD`, which no code
does) and `SymbolsAssumption`, that the symbols a prompt may show are strings, which the provers do not know by themselves.

`FoldProofs` proves by an induction over sets of positions that the function by which the community modules
define a fold exists, and what it yields. The library's rules for induction take an operator, so the induction is done by hand,
from the first position at which the statement fails. It goes on to sequences of sequences: what joins two folds
(`FlattenJoins`), and that an element more at the end adds itself to the concatenation (`FlattenAppend`).

### Checked by TLC only

Liveness (`LoopsEnd`, `ParseEnds`, `Reaped`, `SourceEnds`, `EofFillsHistory`) is out of reach of the prover.

## 6. Not modelled

* Input from a file: when a process ends, the C library moves the offset of the file
  back over what it has read ahead, and another shell reads it again. `Shell` has a terminal
  and a pipe.
* A hangup of the terminal, other than as a shell that is killed (`Killed` in `Histfile`).
* The table of aliases: one entry, never read. `--help` and `--license`: output.
* That `hist_init()` uses the `HOME` of the configuration while the configuration was read
  from that of the password file.
* Builtins: `cd`, `which` and `history` have no caller.
* Tree printing, echo, escape sequences of the terminal, allocation failure, the
  contents of nicc and sac.

## 7. Plan

All parts that keep state are modelled and checked, and what is safety among the properties is proved. Next:

1. The statements of `Parser` as the lines of `Shell`.
