------------------------------- MODULE Environ -------------------------------
(***************************************************************************)
(* The shell's variables (env/*.c) and the builtins that change them:      *)
(* export, unset and cd (builtins/*.c).                                    *)
(*                                                                         *)
(* The variables are a linked list, changed in place, grown at the head.   *)
(* The process keeps the environment it was started with beside it, which  *)
(* nothing changes and getenv() still reads.  Every entry is exportable:   *)
(* add_env is only ever called with 1.                                     *)
(*                                                                         *)
(* A builtin is served argument by argument.  cd is three steps, because   *)
(* directories come and go between chdir() and getcwd().                   *)
(***************************************************************************)
EXTENDS Integers, FiniteSets, SequencesExt

CONSTANTS
  Key,                \* names of variables; numbers, in the order of strcmp
  HOME, PWD, OLDPWD, SHLVL,  \* four of them
  Atom,               \* pieces of values
  Dir,                \* those that name a directory
  Level,              \* those that say how deep a shell is
  FirstLevel,         \* "1"
  NoValue,            \* value NULL: declared by export without a value
  Absent,             \* not in the list
  Start,              \* environments the shell may be started with
  Arg,                \* arguments of export and unset
  MaxArgs,            \* bound: arguments of one call
  MaxCalls            \* bound: calls of builtins

Value == Seq(Atom)

ASSUME EnvironAssumption ==
  /\ Key \subseteq Int /\ IsFiniteSet(Key) /\ {HOME, PWD, OLDPWD, SHLVL} \subseteq Key
  /\ Cardinality({HOME, PWD, OLDPWD, SHLVL}) = 4
  /\ Dir \subseteq Atom /\ Level \subseteq Value /\ FirstLevel \in Level
  /\ {NoValue, Absent} \cap Value = {} /\ NoValue # Absent
  /\ Start \subseteq [Key -> Value \cup {Absent}]
  /\ Arg \subseteq [form : {"name", "assign", "append", "bad"}, key : Key, text : Value]
  /\ MaxArgs \in Nat /\ MaxCalls \in Nat

VARIABLES
  env,      \* the list: entries [key, value]
  environ,  \* the environment of the process
  call,     \* the builtin being served: "none", "export", "unset", "cd"
  args,     \* its arguments not served yet
  bad,      \* has_error of builtin_export
  step,     \* how far cd is: "no", "old", "new"
  old,      \* oldpwd: what getcwd() returned when cd began; Absent: NULL
  status,   \* g_exit_status
  cwd,      \* the directory the shell is in
  there,    \* the directories that exist
  calls,    \* how much of the bound is used
  (* history *)
  before,   \* the directory the shell was in before the last cd that worked
  recorded  \* PWD and OLDPWD are as that cd left them

vars == <<env, environ, call, args, bad, step, old, status, cwd, there, calls,
          before, recorded>>

-----------------------------------------------------------------------------
(* The list *)

Keys(l) == {l[i].key : i \in DOMAIN l}

\* The entry the walk from the head finds.
IndexOf(l, k) == CHOOSE i \in DOMAIN l : l[i].key = k /\ \A j \in 1..i-1 : l[j].key # k

GetEnvValue(l, k) == IF k \in Keys(l) THEN l[IndexOf(l, k)].value ELSE NoValue

AddEnv(l, k, v) == Cons([key |-> k, value |-> v], l)

UpdateEnv(l, k, v) == [l EXCEPT ![IndexOf(l, k)].value = v]

\* Mutant: the name is not looked for.
UpdateByAdding(l, k, v) == AddEnv(l, k, v)
UpdateEnvVar(l, k, v) == IF k \in Keys(l) THEN UpdateEnv(l, k, v) ELSE AddEnv(l, k, v)

\* Mutant: everything before the entry is lost too.
UnsetDropsHead(l, k) ==
  IF k \in Keys(l) THEN SubSeq(l, IndexOf(l, k) + 1, Len(l)) ELSE l
UnsetEnv(l, k) == IF k \in Keys(l) THEN RemoveAt(l, IndexOf(l, k)) ELSE l

\* copy_env: the entries of envp, each put at the head; their order is envp's.
CopyEnv(e) ==
  LET S == {k \in Key : e[k] # Absent}
      N == 1..Cardinality(S) IN
  {[i \in N |-> [key |-> f[i], value |-> e[f[i]]]] :
     f \in {g \in [N -> S] : /\ \A i, j \in N : g[i] = g[j] => i = j
                             /\ \A k \in S : \E i \in N : g[i] = k}}

\* init_shlvl: one more than the number atoi reads in the value inherited, or 1.
InitShlvl(l) ==
  IF SHLVL \in Keys(l) THEN {UpdateEnv(l, SHLVL, v) : v \in Level}
  ELSE {AddEnv(l, SHLVL, FirstLevel)}

Init ==
  /\ environ \in Start /\ env \in UNION {InitShlvl(l) : l \in CopyEnv(environ)}
  /\ call = "none" /\ args = <<>> /\ bad = FALSE /\ step = "no" /\ old = Absent
  /\ status = 0 /\ there = Dir /\ cwd \in Dir
  /\ calls = 0 /\ before = cwd /\ recorded = FALSE

-----------------------------------------------------------------------------
(* export *)

Call(name) == call = "none" /\ calls < MaxCalls /\ calls' = calls + 1 /\ call' = name

\* A call with arguments starts.
Begin(name) ==
  /\ Call(name)
  /\ \E n \in 1..MaxArgs : args' \in [1..n -> Arg]
  /\ bad' = FALSE
  /\ UNCHANGED <<env, environ, step, old, status, cwd, there, before, recorded>>

\* export without arguments prints the variables in order (CopyEnvListSorted, below); the
\* status stays as it was, unless there is nothing to print.
ExportList ==
  /\ call = "none" /\ calls < MaxCalls /\ calls' = calls + 1
  /\ status' = IF env = <<>> THEN 1 ELSE status
  /\ UNCHANGED <<env, environ, call, args, bad, step, old, cwd, there, before, recorded>>

\* env prints the variables that have a value (BuiltinEnv, below).
EnvList ==
  /\ call = "none" /\ calls < MaxCalls /\ calls' = calls + 1
  /\ status' = 0
  /\ UNCHANGED <<env, environ, call, args, bad, step, old, cwd, there, before, recorded>>

Recorded(k) == recorded /\ k \notin {PWD, OLDPWD}

\* NAME, not in the list: mark_as_exportable adds it without a value; in the
\* list, it is exportable already.
MarkAsExportable(a) ==
  IF a.key \in Keys(env) THEN UNCHANGED <<env, status>>
  ELSE env' = AddEnv(env, a.key, NoValue) /\ status' = 0

\* NAME=text, or NAME+=text after what the variable holds.
HandleKeyValuePair(a) ==
  LET held == IF GetEnvValue(env, a.key) = NoValue THEN <<>> ELSE GetEnvValue(env, a.key)
  IN /\ env' = UpdateEnvVar(env, a.key, IF a.form = "append" THEN held \o a.text ELSE a.text)
     /\ status' = 0

\* process_export_arg: one argument.  A name that is no identifier sets the
\* status to 1, and the next one that assigns (update_or_add_env) or adds a name to
\* the list (mark_as_exportable) sets it back.
ExportArg ==
  /\ call = "export" /\ args # <<>>
  /\ args' = Tail(args)
  /\ LET a == Head(args) IN
     \/ /\ a.form = "bad"
        /\ status' = 1 /\ bad' = TRUE
        /\ UNCHANGED <<env, recorded>>
     \/ /\ a.form = "name" /\ MarkAsExportable(a)
        /\ recorded' = Recorded(a.key) /\ UNCHANGED bad
     \/ /\ a.form \in {"assign", "append"} /\ HandleKeyValuePair(a)
        /\ recorded' = Recorded(a.key) /\ UNCHANGED bad
  /\ UNCHANGED <<environ, call, step, old, cwd, there, calls, before>>

ExportDone ==
  /\ call = "export" /\ args = <<>>
  /\ call' = "none" /\ status' = IF bad THEN status ELSE 0
  /\ UNCHANGED <<env, environ, args, bad, step, old, cwd, there, calls, before, recorded>>

-----------------------------------------------------------------------------
(* unset *)

\* A valid name is removed; NAME=text counts as valid and names no variable;
\* the status is 0 whatever the arguments.
UnsetArg ==
  /\ call = "unset" /\ args # <<>>
  /\ args' = Tail(args)
  /\ IF Head(args).form = "name"
     THEN env' = UnsetEnv(env, Head(args).key) /\ recorded' = Recorded(Head(args).key)
     ELSE UNCHANGED <<env, recorded>>
  /\ UNCHANGED <<environ, call, bad, step, old, status, cwd, there, calls, before>>

UnsetDone ==
  /\ call = "unset" /\ args = <<>>
  /\ call' = "none" /\ status' = 0
  /\ UNCHANGED <<env, environ, args, bad, step, old, cwd, there, calls, before, recorded>>

-----------------------------------------------------------------------------
(* cd *)

\* The directory a text names, if there is one: chdir() accepts it.
Enters(text, d) == d \in there /\ text = <<d>>

\* What cd's argument names: nothing or the empty string for $HOME, "-" for
\* $OLDPWD, or a directory.
Targets == {GetEnvValue(env, HOME), GetEnvValue(env, OLDPWD)} \cup {<<d>> : d \in Dir}

\* Mutant: oldpwd is read after chdir().
CdReadsOldLate ==
  /\ Call("cd")
  /\ \E t \in Targets, d \in Dir :
       /\ Enters(t, d)
       /\ cwd' = d /\ old' = d /\ before' = cwd
  /\ step' = "old" /\ recorded' = FALSE
  /\ UNCHANGED <<env, environ, args, bad, status, there>>

\* getcwd() for oldpwd, which fails where the directory is gone, then chdir().
CdChdir ==
  /\ Call("cd")
  /\ \E t \in Targets, d \in Dir :
       /\ Enters(t, d)
       /\ cwd' = d /\ old' = (IF cwd \in there THEN cwd ELSE Absent) /\ before' = cwd
  /\ step' = "old" /\ recorded' = FALSE
  /\ UNCHANGED <<env, environ, args, bad, status, there>>

\* Mutant: the status is what chdir() returned.
CdFailsMinusOne ==
  /\ call = "none" /\ calls < MaxCalls /\ calls' = calls + 1
  /\ status' = -1
  /\ UNCHANGED <<env, environ, call, args, bad, step, old, cwd, there, before, recorded>>

\* Too many arguments, no such variable, or chdir() fails: nothing changes.
CdFails ==
  /\ call = "none" /\ calls < MaxCalls /\ calls' = calls + 1
  /\ status' = 1
  /\ UNCHANGED <<env, environ, call, args, bad, step, old, cwd, there, before, recorded>>

CdRecordsOld ==
  /\ step = "old" /\ step' = "new"
  /\ env' = IF old = Absent THEN env ELSE UpdateEnvVar(env, OLDPWD, <<old>>)
  /\ UNCHANGED <<environ, call, args, bad, old, status, cwd, there, calls, before, recorded>>

CdRecordsNew ==
  /\ step = "new" /\ step' = "no" /\ call' = "none" /\ status' = 0
  /\ env' = IF cwd \in there THEN UpdateEnvVar(env, PWD, <<cwd>>) ELSE env
  /\ recorded' = (old # Absent /\ cwd \in there) /\ old' = Absent
  /\ UNCHANGED <<environ, args, bad, cwd, there, calls, before>>

\* Somebody else removes a directory.
Vanishes(d) ==
  /\ d \in there /\ there' = there \ {d}
  /\ UNCHANGED <<env, environ, call, args, bad, step, old, status, cwd, calls,
                 before, recorded>>

Idle == call = "none" /\ calls = MaxCalls /\ UNCHANGED vars

Next ==
  \/ Begin("export") \/ Begin("unset") \/ ExportList \/ EnvList
  \/ ExportArg \/ ExportDone \/ UnsetArg \/ UnsetDone
  \/ CdChdir \/ CdFails \/ CdRecordsOld \/ CdRecordsNew
  \/ (\E d \in Dir : Vanishes(d)) \/ Idle

Spec == Init /\ [][Next]_vars

-----------------------------------------------------------------------------
(* What the list is read for *)

\* Mutant: the walk does not go beyond the head.
InsertSecond(l, e) ==
  IF l = <<>> \/ e.key < l[1].key THEN Cons(e, l)
  ELSE <<l[1], e>> \o SubSeq(l, 2, Len(l))
\* insert_sorted: at the head, or after the entries that come before it.
InsertSorted(l, e) ==
  IF l = <<>> \/ e.key < l[1].key THEN Cons(e, l)
  ELSE LET m == Max({i \in DOMAIN l : \A j \in 2..i : l[j].key < e.key})
       IN SubSeq(l, 1, m) \o <<e>> \o SubSeq(l, m + 1, Len(l))

\* copy_env_list_sorted: what export prints.
CopyEnvListSorted(l) ==
  LET sorted[i \in 0..Len(l)] ==
        IF i = 0 THEN <<>> ELSE InsertSorted(sorted[i - 1], l[i])
  IN  sorted[Len(l)]

\* builtin_env: what env prints.
BuiltinEnv(l) ==
  LET printed[i \in 0..Len(l)] ==
        IF i = 0 THEN <<>>
        ELSE printed[i - 1] \o (IF l[i].value # NoValue THEN <<l[i]>> ELSE <<>>)
  IN  printed[Len(l)]

\* convert_env_list_to_array: what a program is given, up to the first name
\* without a value.
ConvertEnvListToArray(l) ==
  SubSeq(l, 1, Min({i \in DOMAIN l : l[i].value = NoValue} \cup {Len(l) + 1}) - 1)

\* $NAME at the start of a word, and inside double quotes or a word.
Dollar(k) == GetEnvValue(env, k)
QuotedDollar(k) == IF environ[k] = Absent THEN NoValue ELSE environ[k]

-----------------------------------------------------------------------------
Entry == [key : Key, value : Value \cup {NoValue}]

\* Type invariant.
TypeOK ==
  /\ env \in Seq(Entry) /\ environ \in [Key -> Value \cup {Absent}]
  /\ call \in {"none", "export", "unset", "cd"} /\ args \in Seq(Arg)
  /\ bad \in BOOLEAN /\ step \in {"no", "old", "new"} /\ old \in Dir \cup {Absent}
  /\ status \in {0, 1} /\ cwd \in Dir /\ there \subseteq Dir /\ calls \in 0..MaxCalls
  /\ before \in Dir /\ recorded \in BOOLEAN
  /\ step # "no" <=> call = "cd"
  /\ call \in {"none", "cd"} => args = <<>>

\* A name has one entry: every addition looks for it first.
Unique(l) == \A i, j \in DOMAIN l : l[i].key = l[j].key => i = j
UniqueKeys == Unique(env)

\* After a cd that could read both directories, and until somebody assigns to
\* them, PWD is where the shell is and OLDPWD where it was, so that "cd -"
\* goes back, although directories vanish meanwhile.
PwdTracks ==
  recorded /\ call = "none" =>
    GetEnvValue(env, PWD) = <<cwd>> /\ GetEnvValue(env, OLDPWD) = <<before>>

\* A program is given what env prints, each name once, with PWD and OLDPWD as the
\* last cd left them, as long as every name has a value: one without hides all
\* names behind it in the list from the programs (convert_env_list_to_array).
ChildSees ==
  LET array == ConvertEnvListToArray(env) IN
  (\A i \in DOMAIN env : env[i].value # NoValue) =>
     /\ array = BuiltinEnv(env) /\ Unique(array)
     /\ recorded /\ call = "none" =>
          {[key |-> PWD, value |-> <<cwd>>], [key |-> OLDPWD, value |-> <<before>>]}
             \subseteq ToSet(array)

\* export without arguments prints every variable once, in order.
ListingSorted ==
  LET l == CopyEnvListSorted(env) IN
  /\ \A i \in 1..Len(l)-1 : l[i].key < l[i+1].key
  /\ {l[i] : i \in DOMAIN l} = {env[i] : i \in DOMAIN env}

\* The list is a map: in-place updates, additions at the head and removals from
\* the middle amount to one assignment to one name, requested by its argument.
LookupIn(l) == [k \in Key |-> IF k \in Keys(l) THEN l[IndexOf(l, k)].value ELSE Absent]

Asked(a) ==
  [what |-> IF call = "unset" THEN IF a.form = "name" THEN "remove" ELSE "refuse"
            ELSE IF a.form = "bad" THEN "refuse"
            ELSE IF a.form = "name" THEN "declare" ELSE a.form,
   key |-> a.key, text |-> a.text]

Requests == [i \in DOMAIN args |-> Asked(args[i])]

Map == INSTANCE VarMap WITH
  map <- LookupIn(env), todo <- Requests, DirKeys <- {PWD, OLDPWD}

ImplementsMap == Map!Spec

-----------------------------------------------------------------------------
(* What the tests ask for and the code does not do *)

\* "update env variable value" (minishell_tester/manual_tests/mandatory:4-6):
\* an assigned variable has its new value wherever it is expanded.  SHLVL, which
\* nobody assigned, is left out.
SameValue == \A k \in Key \ {SHLVL} : Dollar(k) = QuotedDollar(k)

=============================================================================
