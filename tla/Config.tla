------------------------------- MODULE Config -------------------------------
(***************************************************************************)
(* The start of the environment: env_malloc() of src/src/valery/env.c and  *)
(* load_config.c, which reads ~/.valeryrc line by line and takes its PATH  *)
(* apart.                                                                  *)
(*                                                                         *)
(* A text is a sequence of symbols.  The names the code looks for ("PATH", *)
(* "HOME", ...) are one symbol each, and so are the characters it looks    *)
(* for; other symbols stand for themselves.                                *)
(***************************************************************************)
EXTENDS Integers, Sequences, SequencesExt

CONSTANTS
  Files,         \* the files ~/.valeryrc the shell may find
  Passwd,        \* what getpwuid() may have as the home directory
  NoDir,         \* in Passwd: an entry without a home directory
  NoEntry,       \* in Passwd: no entry for the user
  Uids,          \* the users that may run the shell
  Root,          \* UID_ROOT
  MaxEnvLen,     \* MAX_ENV_LEN, 4096 in the code
  StartingPaths  \* STARTING_PATHS, 5 in the code

VARIABLES
  phase,     \* where the shell is, see Phases
  uid,       \* env->uid
  table,     \* env_vars->ht: the variables and their values
  update,    \* env_vars->update: the table has changed
  config,    \* history variable: the file that was read
  input,     \* what parse_config() has not read of it
  left,      \* what strtok() has not returned of PATH
  paths,     \* p->paths[0 .. p->size - 1]
  capacity   \* p->capacity

loading == <<config, input, left, paths, capacity>>

ASSUME ConfigAssumption ==
  /\ Files \subseteq Seq(STRING)
  /\ Passwd \subseteq Seq(STRING) \cup {NoDir, NoEntry}
  /\ Uids \subseteq STRING
  /\ MaxEnvLen \in Nat \ {0, 1} /\ StartingPaths \in Nat \ {0, 1}

Phases == {"malloc",  \* env_malloc() has begun
           "open",    \* parse_config() looks for the file
           "config",  \* parse_config() reads it
           "paths",   \* unwrap_paths() splits PATH
           "loop",    \* the main loop
           "exited",  \* valery_exit_internal_error()
           "fault"}   \* the shell did something undefined and is lost

-----------------------------------------------------------------------------
(* The table.                                                              *)

PATH == <<"PATH">>
HOME == <<"HOME">>
UID  == <<"UID">>

\* ht_set() and ht_rm().
Put(t, key, value) == [k \in DOMAIN t \cup {key} |-> IF k = key THEN value ELSE t[k]]
Without(t, key) == [k \in DOMAIN t \ {key} |-> t[k]]

\* env_get(env_vars, key) is not NULL.
IsSet(key) == key \in DOMAIN table

\* env_set()
EnvSet(key, value) == table' = Put(table, key, value) /\ update' = TRUE

Init ==
  /\ phase = "malloc" /\ uid \in Uids
  /\ table = <<>> /\ update = FALSE
  /\ config = <<>> /\ input = <<>> /\ left = <<>>
  /\ paths = <<>> /\ capacity = StartingPaths

\* env_malloc(): set_home_dir(), whose result is ignored, and set_uid().
EnvMalloc ==
  /\ phase = "malloc"
  /\ \E dir \in Passwd :
       \/ /\ dir = NoEntry  \* pw is NULL
          /\ phase' = "fault" /\ UNCHANGED <<table, update>>
       \/ /\ dir # NoEntry /\ phase' = "open"
          /\ table' = Put(IF dir = NoDir THEN table ELSE Put(table, HOME, dir),
                          UID, <<uid>>)
          /\ update' = TRUE
  /\ UNCHANGED <<uid, loading>>

-----------------------------------------------------------------------------
(* parse_config()                                                          *)

\* get_config_path() succeeds.
HasConfigPath == IsSet(HOME)

\* fopen(): without the path or without the file the shell exits.
OpenConfig ==
  /\ phase = "open"
  /\ \/ /\ HasConfigPath /\ phase' = "config"
        /\ \E f \in Files : config' = f /\ input' = f
     \/ phase' = "exited" /\ UNCHANGED <<config, input>>
  /\ UNCHANGED <<uid, table, update, left, paths, capacity>>

\* What fgets(buf, MAX_ENV_LEN, fp) reads: up to a newline, or as much as fits.
PieceLen(t) ==
  LET full == IF Len(t) < MaxEnvLen THEN Len(t) ELSE MaxEnvLen - 1
      ends == {i \in 1 .. full : t[i] = "\n"}
  IN  IF ends = {} THEN full ELSE Min(ends)
Piece == SubSeq(input, 1, PieceLen(input))

\* vstr_find_first_c(t, c): where c is first, 0 when it is nowhere.
FindFirst(t, c) == SelectInSeq(t, LAMBDA x : x = c)

\* The line is not a comment and has an equals sign.
IsSetting(line) == line[1] # "#" /\ FindFirst(line, "=") # 0

\* Mistake: the newline stays in the value.
ValueWithNewline(line) == SubSeq(line, FindFirst(line, "=") + 1, Len(line))

KeyOf(line) == SubSeq(line, 1, FindFirst(line, "=") - 1)

\* The value is cut in front of the last character of the line, which is its
\* newline only where it has one.
ValueOf(line) == SubSeq(line, FindFirst(line, "=") + 1, Len(line) - 1)

\* Where the equals sign is the last character the value is cut in front of
\* its start: what the 0 is written over may or may not matter.
CutsBefore(line) == FindFirst(line, "=") = Len(line)

ReadLine ==
  /\ phase = "config" /\ input # <<>>
  /\ input' = SubSeq(input, Len(Piece) + 1, Len(input))
  /\ \/ ~ IsSetting(Piece) /\ UNCHANGED <<phase, table, update>>
     \/ IsSetting(Piece) /\ EnvSet(KeyOf(Piece), ValueOf(Piece)) /\ UNCHANGED phase
     \/ /\ IsSetting(Piece) /\ CutsBefore(Piece)
        /\ phase' = "fault" /\ UNCHANGED <<table, update>>
  /\ UNCHANGED <<uid, config, left, paths, capacity>>

-----------------------------------------------------------------------------
(* unwrap_paths(): strtok() splits the value of PATH in the table itself.  *)

\* Mistake: strsep(), to which two colons have an empty token between them.
TokenStartStrsep(t) == IF t = <<>> THEN 0 ELSE 1

\* Where strtok() finds the next token of t, and the first character behind.
TokenStart(t) == SelectInSeq(t, LAMBDA x : x # ":")
TokenEnd(t) ==
  LET ends == {i \in TokenStart(t) .. Len(t) : t[i] = ":"}
  IN  IF ends = {} THEN Len(t) + 1 ELSE Min(ends)

\* The end of the file, and the first strtok(), which puts a 0 behind the first
\* token: from here on that is the end of the value of PATH.
UnwrapPaths ==
  /\ phase = "config" /\ input = <<>>
  /\ \/ /\ ~ IsSet(PATH)
        /\ phase' = "loop" /\ UNCHANGED <<table, left>>
     \/ /\ IsSet(PATH)
        /\ phase' = "paths" /\ left' = table[PATH]
        /\ LET value == table[PATH]
           IN  table' = IF TokenStart(value) = 0 THEN table
                        ELSE Put(table, PATH, SubSeq(value, 1, TokenEnd(value) - 1))
  /\ UNCHANGED <<uid, update, config, input, paths, capacity>>

\* Mistake: the test is for one more than can be reached.
RoomTooLate == IF Len(paths) = capacity + 1 THEN capacity * 2 ELSE capacity

\* path_increase() doubles the array one path before it is full.
Room == IF Len(paths) = capacity - 1 THEN capacity * 2 ELSE capacity

\* One turn of the loop over the tokens.
NextPath ==
  /\ phase = "paths" /\ TokenStart(left) # 0
  /\ capacity' = Room
  /\ paths' = Append(paths, SubSeq(left, TokenStart(left), TokenEnd(left) - 1))
  /\ left' = SubSeq(left, TokenEnd(left) + 1, Len(left))
  /\ UNCHANGED <<phase, uid, table, update, config, input>>

\* strtok() returned NULL.
PathsDone ==
  /\ phase = "paths" /\ TokenStart(left) = 0
  /\ phase' = "loop" /\ left' = <<>>
  /\ UNCHANGED <<uid, table, update, config, input, paths, capacity>>

Load == EnvMalloc \/ OpenConfig \/ ReadLine \/ UnwrapPaths \/ NextPath \/ PathsDone

-----------------------------------------------------------------------------
(* Properties.                                                             *)

\* The lines of a text, as pairs of the first position and that of the newline.
LinesOf(t) == {l \in (DOMAIN t) \X (DOMAIN t) :
                 /\ l[1] <= l[2] /\ t[l[2]] = "\n"
                 /\ l[1] = 1 \/ t[l[1] - 1] = "\n"
                 /\ \A i \in l[1] .. l[2] - 1 : t[i] # "\n"}

\* The keys a text assigns and the lines that do: those that are no comment,
\* up to their first equals sign.
Assignments(t) ==
  {[key |-> SubSeq(t, x[1][1], x[2] - 1), at |-> x[2],
    value |-> SubSeq(t, x[2] + 1, x[1][2] - 1)] :
     x \in {y \in LinesOf(t) \X DOMAIN t :
       /\ y[2] \in y[1][1] .. y[1][2] /\ t[y[2]] = "=" /\ t[y[1][1]] # "#"
       /\ \A i \in y[1][1] .. y[2] - 1 : t[i] # "="}}

Keys(t) == {a.key : a \in Assignments(t)}

\* The last assignment counts.
Assigned(t, key) ==
  LET mine == {a \in Assignments(t) : a.key = key}
  IN  (CHOOSE a \in mine : \A b \in mine : b.at <= a.at).value

\* A file whose lines fit buf and end in a newline.
WellFormed(t) == /\ t # <<>> => t[Len(t)] = "\n"
                 /\ \A l \in LinesOf(t) : l[2] - l[1] + 1 < MaxEnvLen

\* Once a well-formed file is read, the table holds what env_malloc() has set
\* and the variables of the file, each with the value its last line assigns,
\* whatever the order of the lines, their lengths, further equals signs, and
\* comments and lines that are neither in between.
ConfigArrives ==
  phase = "config" /\ input = <<>> /\ WellFormed(config) =>
    /\ DOMAIN table = {HOME, UID} \cup Keys(config)
    /\ \A key \in Keys(config) : table[key] = Assigned(config, key)

\* The parts of a text between its colons, empty ones left out.
Parts(t) == {l \in (DOMAIN t) \X (DOMAIN t) :
               /\ l[1] <= l[2]
               /\ l[1] = 1 \/ t[l[1] - 1] = ":"
               /\ l[2] = Len(t) \/ t[l[2] + 1] = ":"
               /\ \A i \in l[1] .. l[2] : t[i] # ":"}

\* The directories of the configured PATH are all in env->paths, in order and
\* whole, however often the array has grown, and there is room for one more.
PathsUnwrapped ==
  phase = "loop" /\ WellFormed(config) /\ PATH \in Keys(config) =>
    LET value == Assigned(config, PATH) IN
      /\ Len(paths) < capacity
      /\ Len(paths) = Cardinality(Parts(value))
      /\ \A l \in Parts(value) :
           paths[Cardinality({m \in Parts(value) : m[1] <= l[1]})]
             = SubSeq(value, l[1], l[2])
=============================================================================
