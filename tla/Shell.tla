------------------------------- MODULE Shell --------------------------------
(***************************************************************************)
(* One shell from prompt to prompt (main.c): a line is read, tokenized,    *)
(* parsed and dispatched.  Simple commands and exit are here in full; a    *)
(* list of commands (Pipeline) and its heredocs (Heredoc) by their         *)
(* outcomes only.                                                          *)
(***************************************************************************)
EXTENDS Tokenizer, Parser, Grammar

CONSTANTS
  Lines,      \* lines given to minishell -c, each a sequence of lexemes
  Session,    \* lines typed at a prompt, one after the other
  Builtins,   \* the words is_builtin knows
  Exit,       \* the word exit
  Dirs,       \* PATH split at its colons, or None when it is not set
  Files,      \* what a path names: "program", "noexec" or "dir"
  Codes,      \* exit codes of programs and builtins
  Garbage,    \* what an uninitialised wait status may decode to
  LongMax     \* the largest value of a long

\* What parse_commands builds.
Cmd == [argv : Seq(Seq(Char)), redirs : Seq([type : Redirection, filename : Seq(Char)]),
        contrasting : BOOLEAN]

ASSUME ShellAssumption ==
  /\ None \notin Cmd
  /\ Codes \cup Garbage \subseteq 0..255 /\ LongMax \in Nat /\ (LongMax + 1) % 256 = 0
  /\ DOMAIN Files \cap {<<".">>, <<".", "/">>} = {}
  /\ \A line \in Lines \cup Session : TextOf(line) \in Seq(Char)

VARIABLES
  pc,               \* "prompt", "open", "tokens", "parse", "dispatch", "list",
                    \* "waitpid", "done", "ended" or "crashed"
  mode,             \* "loop", or "c" for minishell -c
  typed,            \* the line as it was typed
  handler,          \* of SIGINT: "main", "executing", "heredoc" or "default"
  hdcInterrupted,   \* hdc_interrupted
  code,             \* what the shell exits with
  child,            \* what the child of a simple command ends with
  did,              \* history: what became of the line
  began,            \* history: the status when the line was read
  struck,           \* history: a Ctrl+C since the line was read
  freed             \* history: how often the line was freed

lineVars == <<typed, child, did, began, struck, freed>>
shVars   == <<pc, mode, handler, hdcInterrupted, code>>
vars     == <<tokVars, parseVars, status, lineVars, shVars>>

Text0 == TextOf(typed)
----------------------------------------------------------------------------
(* Reading a line.                                                         *)

\* quotes_closed: a backslash hides the character behind it, outside quotes and in.
QuotesClosed(text) ==
  LET Toggle(q, c) == [q EXCEPT !.in = IF @ = c THEN "" ELSE c]
      Step(q, c) == CASE q.skip                              -> [q EXCEPT !.skip = FALSE]
                      [] ~q.skip /\ c = "'" /\ q.in # "\""   -> Toggle(q, c)
                      [] ~q.skip /\ c = "\"" /\ q.in # "'"   -> Toggle(q, c)
                      [] ~q.skip /\ c = "\\"                 -> [q EXCEPT !.skip = TRUE]
                      [] OTHER                               -> q
  IN  FoldLeft(Step, [in |-> "", skip |-> FALSE], text).in = ""

\* input_is_open: quotes that do not close, or nothing behind the first pipe.
InputIsOpen(text) ==
  LET pipes == {i \in DOMAIN text : text[i] = "|"}
      pp    == Min(pipes)
  IN  \/ ~QuotesClosed(text)
      \/ /\ pipes # {} /\ pp # 1
         /\ \A i \in pp + 1..Len(text) : text[i] = " "
         /\ text[pp - 1] \notin Angle

\* The loop of main_loop starts, or c_mode with its argument; hdc_interrupted is
\* initialised in the loop only.
Init ==
  /\ tpc = "loop" /\ rest = <<>> /\ head = <<>> /\ current = None /\ status = 0
  /\ code = None /\ child = None /\ did = "nothing" /\ began = 0 /\ struck = FALSE /\ freed = 0
  /\ \/ /\ mode = "loop" /\ pc = "prompt" /\ typed = <<>>
        /\ handler = "main" /\ hdcInterrupted = FALSE
     \/ /\ mode = "c" /\ pc = "open" /\ typed \in Lines
        /\ handler = "default" /\ hdcInterrupted \in BOOLEAN
  /\ t = Struct(Text0) /\ env = Start

ReadLine ==
  /\ pc = "prompt" /\ pc' = "open"
  /\ typed' \in Session /\ t' = Struct(TextOf(typed')) /\ began' = status
  /\ UNCHANGED <<tpc, env, parseVars, status, mode, handler, hdcInterrupted, code, child, did,
                 struck, freed>>

\* readline returns NULL: the shell exits with the last status.
Eof ==
  /\ pc = "prompt" /\ pc' = "ended" /\ code' = status
  /\ UNCHANGED <<tokVars, parseVars, status, lineVars, mode, handler, hdcInterrupted>>

\* Mutant: an open line is dropped without being freed.
CheckInputLeaks ==
  /\ pc = "open"
  /\ LET open == InputIsOpen(Text0)
     IN  /\ status' = IF open THEN 2 ELSE status
         /\ pc' = IF open /\ mode = "loop" THEN "done" ELSE "tokens"
  /\ UNCHANGED <<tokVars, parseVars, lineVars, mode, handler, hdcInterrupted, code>>

\* An open line is dropped; -c mode looks at the answer no further.
CheckInput ==
  /\ pc = "open"
  /\ LET open == InputIsOpen(Text0)
     IN  /\ status' = IF open THEN 2 ELSE status
         /\ pc' = IF open /\ mode = "loop" THEN "done" ELSE "tokens"
         /\ freed' = IF open /\ mode = "loop" THEN freed + 1 ELSE freed
  /\ UNCHANGED <<tokVars, parseVars, typed, child, did, began, struck, mode, handler,
                 hdcInterrupted, code>>

TokenStep ==
  /\ pc = "tokens" /\ Tokenize
  /\ UNCHANGED <<env, parseVars, lineVars, shVars>>

\* tokens() frees the line on either way out; without tokens nothing is run.
TokensReturn ==
  /\ pc = "tokens" /\ tpc = "done"
  /\ freed' = freed + 1 /\ rest' = t.list
  /\ pc' = IF t.list = <<>> THEN "done" ELSE "parse"
  /\ UNCHANGED <<tokVars, head, current, status, typed, child, did, began, struck, mode,
                 handler, hdcInterrupted, code>>

ParseStep ==
  /\ pc = "parse" /\ Parse
  /\ pc' = IF rest = <<>> THEN "dispatch" ELSE "parse"
  /\ UNCHANGED <<tokVars, lineVars, mode, handler, hdcInterrupted, code>>
----------------------------------------------------------------------------
(* process_commands.                                                       *)

First == head[1]
HasWord == First.argv # <<>>
Word == First.argv[1]

AllDots(word) == word # <<>> /\ ToSet(word) = {"."}

\* command_particular_cases: the status of a first word that is never looked up.
Particular ==
  CASE Len(First.argv) = 1 /\ Word = <<>>         -> 127
    [] HasWord /\ Word = <<".">>                  -> 2
    [] HasWord /\ Word = <<".", "/">>             -> 126
    [] HasWord /\ Word # <<".">> /\ AllDots(Word) -> 127
    [] OTHER                                      -> None

IsExit == HasWord /\ Word = Exit
Contrasting == \E i \in DOMAIN head : head[i].contrasting
HasPipeOrRedir == Len(head) > 1 \/ First.redirs # <<>>

\* The line is over: process_commands returns.
Done(what) == pc' = "done" /\ did' = what

ParticularCase ==
  /\ pc = "dispatch" /\ Particular # None
  /\ status' = Particular /\ Done("particular")
  /\ UNCHANGED <<tokVars, parseVars, typed, child, began, struck, freed, mode, handler,
                 hdcInterrupted, code>>

\* A redirection without a file name anywhere in the list: nothing is run.
DropContrasting ==
  /\ pc = "dispatch" /\ Particular = None /\ ~IsExit /\ Contrasting
  /\ Done("nothing")
  /\ UNCHANGED <<tokVars, parseVars, status, typed, child, began, struck, freed, mode, handler,
                 hdcInterrupted, code>>
----------------------------------------------------------------------------
(* builtin_exit.                                                           *)

StrIsNumeric(word) ==
  \A i \in DOMAIN word : word[i] \in Digit \/ (i = 1 /\ word[i] \in {"+", "-"})

DigitValue(c) == CHOOSE d \in 0..9 : Figure(d) = c

\* Two's complement: what does not fit a long is cut to its width.
Wrap(n) == ((n + LongMax + 1) % (2 * (LongMax + 1))) - (LongMax + 1)

\* number_atolli: the digits, from the last to the first, times powers of ten.
NumberAtolli(digits) ==
  LET n == Len(digits)
      sum[k \in 0..n] ==
        IF k = 0 THEN [a |-> 0, p |-> 1]
        ELSE [a |-> Wrap(sum[k - 1].a + DigitValue(digits[n - k + 1]) * sum[k - 1].p),
              p |-> Wrap(sum[k - 1].p * 10)]
  IN  sum[n].a

SignOf(word) == IF word # <<>> /\ word[1] = "-" THEN -1 ELSE 1
DigitsOf(word) == IF word # <<>> /\ word[1] \in {"+", "-"} THEN Tail(word) ELSE word

\* ft_atolli of a numeric word.
Atolli(word) == Wrap(NumberAtolli(DigitsOf(word)) * SignOf(word))

\* Mutant: the code is not cut to a byte.
ExitCodeUncut(argv) ==
  CASE Len(argv) = 1                           -> status
    [] Len(argv) > 1 /\ ~StrIsNumeric(argv[2]) -> 2
    [] Len(argv) > 2 /\ StrIsNumeric(argv[2])  -> 1
    [] OTHER                                   -> Atolli(argv[2])

\* Mutant: the code is cut to seven bits.
ExitCodeSevenBits(argv) ==
  CASE Len(argv) = 1                           -> status
    [] Len(argv) > 1 /\ ~StrIsNumeric(argv[2]) -> 2
    [] Len(argv) > 2 /\ StrIsNumeric(argv[2])  -> 1
    [] OTHER                                   -> Atolli(argv[2]) % 128

ExitCode(argv) ==
  CASE Len(argv) = 1                           -> status
    [] Len(argv) > 1 /\ ~StrIsNumeric(argv[2]) -> 2
    [] Len(argv) > 2 /\ StrIsNumeric(argv[2])  -> 1
    [] OTHER                                   -> Atolli(argv[2]) % 256

\* exit ends the shell as the first word of the line, whatever comes behind it.
BuiltinExit ==
  /\ pc = "dispatch" /\ Particular = None /\ IsExit
  /\ code' = ExitCode(First.argv) /\ pc' = "ended" /\ did' = "exit"
  /\ UNCHANGED <<tokVars, parseVars, status, typed, child, began, struck, freed, mode, handler,
                 hdcInterrupted>>
----------------------------------------------------------------------------
(* exec_single_command.                                                    *)

\* get_command_path; access(path, X_OK) lets directories pass.
CommandPath(word) ==
  LET Candidate(i) == Dirs[i] \o <<"/">> \o word
      found == {i \in DOMAIN Dirs : /\ Candidate(i) \in DOMAIN Files
                                    /\ Files[Candidate(i)] # "noexec"}
  IN  IF word \in {<<".">>, <<".", "/">>} THEN None
      ELSE IF "/" \in ToSet(word) THEN word
      ELSE IF Dirs = None \/ found = {} THEN None
      ELSE Candidate(Min(found))

\* What a child that is given a path ends with: the checks before execve(), a
\* failing execve(), the program's own code or a signal.
PathStatus(path) ==
  CASE path \notin DOMAIN Files                          -> {127}
    [] path \in DOMAIN Files /\ Files[path] # "program" -> {126}
    [] OTHER                                            -> Codes \cup {1, 130, 131}

Simple == /\ pc = "dispatch" /\ Particular = None /\ ~IsExit /\ ~Contrasting
          /\ ~HasPipeOrRedir

\* A builtin runs in the shell itself and sets the status; export, unset and cd
\* change the list, as Environ says.
RunBuiltin ==
  /\ Simple /\ HasWord /\ Word \in Builtins
  /\ status' \in Codes /\ env' \in Lists /\ Done("ran")
  /\ UNCHANGED <<t, tpc, parseVars, typed, child, began, struck, freed, mode, handler,
                 hdcInterrupted, code>>

\* A command without words is left over when nothing stands beside a pipe.
NotFound ==
  /\ Simple
  /\ \/ HasWord /\ Word \notin Builtins /\ CommandPath(Word) = None /\ status' = 127
     \/ ~HasWord /\ status' = status
  /\ Done("ran")
  /\ UNCHANGED <<tokVars, parseVars, typed, child, began, struck, freed, mode, handler,
                 hdcInterrupted, code>>

ForkChild ==
  /\ Simple /\ HasWord /\ Word \notin Builtins /\ CommandPath(Word) # None
  /\ \/ /\ child' \in PathStatus(CommandPath(Word)) /\ pc' = "waitpid" /\ did' = "ran"
     \/ child' = child /\ Done("failed")
  /\ UNCHANGED <<tokVars, parseVars, status, typed, began, struck, freed, mode, handler,
                 hdcInterrupted, code>>

\* parent_or_error: the child's end decides the status.
WaitPid ==
  /\ pc = "waitpid"
  /\ status' = child /\ pc' = "done"
  /\ UNCHANGED <<tokVars, parseVars, lineVars, mode, handler, hdcInterrupted, code>>

\* Mutant: the prompt's handler does not restart calls either.
WaitPidNeverRestarts ==
  /\ pc = "waitpid" /\ mode = "loop"
  /\ status' \in Garbage \cup {130} /\ pc' = "done" /\ struck' = TRUE
  /\ UNCHANGED <<tokVars, parseVars, typed, child, did, began, freed, mode, handler,
                 hdcInterrupted, code>>

\* A Ctrl+C with a handler that was installed without SA_RESTART: waitpid()
\* fails, nobody looks, and what happens to be in `status' is decoded.
WaitPidInterrupted ==
  /\ pc = "waitpid" /\ handler = "executing"
  /\ status' \in Garbage \cup {130} /\ pc' = "done" /\ struck' = TRUE
  /\ UNCHANGED <<tokVars, parseVars, typed, child, did, began, freed, mode, handler,
                 hdcInterrupted, code>>
----------------------------------------------------------------------------
(* exec_command_list: what Heredoc and Pipeline detail.                    *)

HasHeredoc(cmd) == \E i \in DOMAIN cmd.redirs : cmd.redirs[i].type = "DLESS"
LineHasHeredoc == \E i \in DOMAIN head : HasHeredoc(head[i])

\* What the last command of a list leaves in the status.
LastStatus(cmd) ==
  LET path == CommandPath(cmd.argv[1])
  IN  (IF cmd.redirs = <<>> THEN {} ELSE {1}) \cup
      IF cmd.argv # <<>> /\ cmd.argv[1] \in Builtins THEN Codes
      ELSE IF cmd.argv = <<>> \/ path = None THEN {0}
      ELSE PathStatus(path)

StartList ==
  /\ pc = "dispatch" /\ Particular = None /\ ~IsExit /\ ~Contrasting /\ HasPipeOrRedir
  /\ pc' = "list" /\ handler' = "heredoc"
  /\ UNCHANGED <<tokVars, parseVars, status, lineVars, mode, hdcInterrupted, code>>

\* A Ctrl+C ends the collection of the line's heredocs, or a file cannot be made.
HeredocsAbandoned ==
  /\ pc = "list" /\ LineHasHeredoc
  /\ \/ /\ ~hdcInterrupted /\ hdcInterrupted' = TRUE /\ struck' = TRUE /\ status' = 130
     \/ UNCHANGED <<hdcInterrupted, struck, status>>
  /\ handler' = "main" /\ Done("abandoned")
  /\ UNCHANGED <<tokVars, parseVars, typed, child, began, freed, mode, code>>

\* The list is dropped because hdc_interrupted is set when the collection ends.
ListDropped ==
  /\ pc = "list" /\ hdcInterrupted
  /\ Done("dropped")
  /\ UNCHANGED <<tokVars, parseVars, status, typed, child, began, struck, freed, mode, handler,
                 hdcInterrupted, code>>

\* The list runs to its end, a Ctrl+C cuts the wait for it short, or a call fails
\* and the prompt is given back without its handler.
RunList ==
  /\ pc = "list" /\ ~hdcInterrupted
  /\ \/ /\ status' \in LastStatus(Last(head)) /\ handler' = "main" /\ Done("ran")
        /\ struck' = struck
     \/ status' = 130 /\ handler' = "main" /\ struck' = TRUE /\ Done("ran")
     \/ status' = status /\ handler' = "executing" /\ struck' = struck /\ Done("failed")
  /\ UNCHANGED <<tokVars, parseVars, typed, child, began, freed, mode, hdcInterrupted, code>>
----------------------------------------------------------------------------
(* The end of a line.                                                      *)

\* Mutant: hdc_interrupted is not reset.
NextLineKeepsInterruption ==
  /\ pc = "done" /\ mode = "loop"
  /\ pc' = "prompt"
  /\ typed' = <<>> /\ t' = Struct(<<>>) /\ tpc' = "loop"
  /\ rest' = <<>> /\ head' = <<>> /\ current' = None
  /\ child' = None /\ did' = "nothing" /\ began' = 0 /\ struck' = FALSE /\ freed' = 0
  /\ UNCHANGED <<env, status, mode, handler, hdcInterrupted, code>>

\* The prompt returns; nothing of the line is kept but the status.
NextLine ==
  /\ pc = "done" /\ mode = "loop"
  /\ pc' = "prompt" /\ hdcInterrupted' = FALSE
  /\ typed' = <<>> /\ t' = Struct(<<>>) /\ tpc' = "loop"
  /\ rest' = <<>> /\ head' = <<>> /\ current' = None
  /\ child' = None /\ did' = "nothing" /\ began' = 0 /\ struck' = FALSE /\ freed' = 0
  /\ UNCHANGED <<env, status, mode, handler, code>>

\* c_mode frees its copy of the line once more when free_input is set; a second
\* free() ends the program or does not.
ReturnFromC ==
  /\ pc = "done" /\ mode = "c"
  /\ freed' = IF t.free_input THEN freed + 1 ELSE freed
  /\ \/ pc' = "ended" /\ code' = status
     \/ freed' > 1 /\ pc' = "crashed" /\ code' = code
  /\ UNCHANGED <<tokVars, parseVars, status, typed, child, did, began, struck, mode, handler,
                 hdcInterrupted>>

\* Ctrl+C at the prompt.
Interrupt ==
  /\ pc = "prompt" /\ status' = 130
  /\ UNCHANGED <<tokVars, parseVars, lineVars, shVars>>

Stopped == pc \in {"ended", "crashed"} /\ UNCHANGED vars

LineStep ==
  \/ CheckInput \/ TokenStep \/ TokensReturn \/ ParseStep
  \/ ParticularCase \/ DropContrasting \/ BuiltinExit
  \/ RunBuiltin \/ NotFound \/ ForkChild \/ WaitPid \/ WaitPidInterrupted
  \/ StartList \/ HeredocsAbandoned \/ ListDropped \/ RunList
  \/ NextLine \/ ReturnFromC

Next == ReadLine \/ Eof \/ Interrupt \/ LineStep \/ Stopped

Spec == Init /\ [][Next]_vars

\* Nothing of a line is under way.  In every other state a LineStep is enabled:
\* the runs, which look for deadlocks, find none.
Idle == pc \in {"prompt", "ended", "crashed"}

\* The shell runs, and programs and heredocs come to an end; nobody has to type.
\* This is WF_vars(LineStep) with its ENABLED written out.
FairSpec == Spec /\ ([]<>Idle \/ []<><<LineStep>>_vars)
----------------------------------------------------------------------------
(* Types *)

\* Type invariant: the status and the exit code are bytes, the list is one the
\* builtins may leave, and what the parser takes and makes are tokens and commands.
TypeOK ==
  /\ env \in Lists
  /\ rest \in Seq([type : TokenTypes, value : Seq(Char)])
  /\ current \in Cmd \cup {None} /\ head \in Seq(Cmd)
  /\ pc \in {"prompt", "open", "tokens", "parse", "dispatch", "list", "waitpid", "done",
             "ended", "crashed"}
  /\ mode \in {"loop", "c"} /\ hdcInterrupted \in BOOLEAN
  /\ handler \in {"main", "executing", "heredoc", "default"}
  /\ {status, began} \subseteq 0..255 /\ {code, child} \subseteq 0..255 \cup {None}
  /\ did \in {"nothing", "particular", "exit", "ran", "failed", "abandoned", "dropped"}
  /\ struck \in BOOLEAN /\ freed \in 0..2

(* The line that is run is the line that was typed *)

Back == pc \in {"done", "ended", "crashed"}
Shape0 == Shape(typed, began)
Tokens0 == Meant(Shape0)

\* A line of the language reaches process_commands as the commands it states:
\* words and redirections in order, quotes joined, variables and $? expanded,
\* nothing lost, split or merged (tokens() and parse_commands() together).  Left out
\* is what the code gets wrong: a quoted word or an unset variable that touches an
\* operator which does not end it ('a'|b has the word a|, a'b'>f is the one word ab>f,
\* KeptApart), and a command before a pipe in which no word is left, which the
\* parser reports and then joins to the next one (Wordless).
CommandsAsTyped ==
  pc = "dispatch" \/ Back =>
    (Stated(typed) /\ KeptApart(typed) /\ ~Malformed(Shape0) /\ ~Wordless(Tokens0)
       => head = IF Tokens0 = <<>> THEN <<>> ELSE Commands(Tokens0))

\* A line that is not of the language runs nothing and leaves 2, wherever its
\* error stands (check_pipes, redir_*, input_is_open).  Left out is what the code
\* does otherwise: a first word that process_commands treats by itself comes
\* before the look at the redirections; of a pipe at the beginning only one that is
\* the first character of the line is refused; and where an operator that is touched
\* does not end what stands before it (KeptApart) the error is not seen at all: a'b'>
\* runs the word ab>, and a <>> f has a redirection from >>.
RejectedRunsNothing ==
  Back /\ Stated(typed) /\ KeptApart(typed) /\ Malformed(Shape0) /\ Shape0[1].type # "PIPE"
       /\ ~Wordless(Tokens0) =>
    did \in {"particular", "exit"} \/ (did = "nothing" /\ status = 2)

\* Whatever was typed, a line tokens() refuses leaves 2, and nothing of it is
\* parsed: the status of the error is not lost between the place it is found at
\* and the end of the line.
RefusedLeavesTwo ==
  Back /\ tpc = "done" /\ Fails => status = 2 /\ head = <<>> /\ did = "nothing"

\* What parse_commands hands to the executor: every command that feeds a pipe has
\* a word, and when one is marked for a redirection without a file name the
\* status is 2, whatever stood behind it.
ListWellFormed ==
  pc = "dispatch" =>
    /\ \A i \in 1..Len(head) - 1 : head[i].argv # <<>>
    /\ Contrasting => status = 2

\* The text between the first character of the line and the last.
Inner == SubSeq(Text0, 2, Len(Text0) - 1)

\* The name behind the i-th character of a text.
NameEnd(text, i) ==
  Min({k \in i + 1..Len(text) + 1 : k = Len(text) + 1 \/ text[k] \notin NameChar})
NameAt(text, i) == SubSeq(text, i + 1, NameEnd(text, i) - 1)

\* A name that is read alike in quotes and in a heredoc: getenv() and the shell's
\* list have the same value for it, it does not begin with a digit, and check_var,
\* which goes on reading at the second character of the value, finds none there
\* that means something to it.  The two stores differ in what export, unset and cd
\* have changed, and in SHLVL from the start.
Agreed(name) ==
  /\ name \in DOMAIN Env \cap DOMAIN env /\ env[name] = Env[name] /\ name[1] \notin Digit
  /\ Env[name] # <<>> /\ ToSet(Env[name]) \cap {DQuote, "\\", "?"} = {}

\* The line is one pair of double quotes around text with such names.
OnePair ==
  /\ Len(Text0) > 2 /\ Text0[1] = DQuote /\ Text0[Len(Text0)] = DQuote
  /\ ToSet(Inner) \cap {DQuote, "\\"} = {}
  /\ \A i \in DOMAIN Inner :
       Inner[i] = "$" => NameAt(Inner, i) = <<>> \/ Agreed(NameAt(Inner, i))

\* What stands in double quotes expands as a line of a heredoc does, although the
\* two are expanded by different code from different stores (check_var asks
\* getenv(), expand_heredoc_line the shell's list), for names with one and the same
\* value in both that is not empty.  The others are read differently: one whose value
\* was changed, or SHLVL, has its old value in quotes; one that is not set stays as
\* it is in quotes; and behind an empty value check_var skips a character.
QuotedLikeHeredoc ==
  pc = "dispatch" /\ OnePair =>
    head = <<[InitCommand EXCEPT !.argv = <<ExpandHeredocLine(Inner, env)>>]>>

\* No piece of a word is left behind when the line ends (tmp_token), unless a
\* variable stood at its end.
NoWordLost ==
  pc = "tokens" /\ tpc = "done" /\ ~Fails /\ "$" \notin ToSet(Text0) => t.tmp_token = None

(* The session *)

\* The status after a simple command is what its child ended with, unless a
\* Ctrl+C came while a failed list had left its handler: then waitpid() fails
\* (exec_single_cmd_2.c), and the status is 130 or garbage.
StatusIsChilds ==
  pc = "done" /\ child # None => status = child \/ (struck /\ handler # "main")

\* A list is dropped for an interruption of its own heredocs only: what an
\* earlier line left in hdc_interrupted is forgotten.  In -c mode it was never
\* initialised.
OwnInterruption == did = "dropped" => mode = "c"

\* Whatever became of the line, it has been freed once when the next is read,
\* although quotes and variables replaced it many times.  In -c mode it is freed
\* once more when an empty pair of quotes was cut out of it.
LineFreedOnce ==
  Back /\ typed # <<>> => freed = IF mode = "c" /\ pc # "done" /\ did # "exit" /\ t.free_input THEN 2 ELSE 1

\* The number a numeric word states.
Decimal(digits) ==
  LET upto[k \in 0..Len(digits)] == IF k = 0 THEN 0 ELSE 10 * upto[k - 1] + DigitValue(digits[k])
  IN  upto[Len(digits)]
Value(word) == SignOf(word) * Decimal(DigitsOf(word))

OnlyWords == \A i \in DOMAIN t.list : t.list[i].type = "WORD"

\* A number that a long can hold.
InLong(n) == n \in -(LongMax + 1)..LongMax

\* The shell leaves a session only on end of input or a line whose first word is
\* exit: with the low byte of the number it was given, up to the limits of a long and
\* whatever the powers of ten wrapped to on the way; with 2 or 1 for what is no number
\* or too much; and without a number with the status of the line before, or with 2
\* when the line has an error that only the parser sees (exit < and < f | exit).  Of a
\* number beyond the limits it says nothing: OverflowRefused does.
LeavesAsAsked ==
  LET argv == First.argv
  IN  pc = "ended" /\ mode = "loop" =>
        IF did # "exit" THEN typed = <<>> /\ code = status
        ELSE /\ argv # <<>> /\ argv[1] = Exit
             /\ Len(argv) = 1 => code = began \/ (code = 2 /\ ~OnlyWords)
             /\ Len(argv) = 2 =>
                  /\ ~StrIsNumeric(argv[2]) => code = 2
                  /\ StrIsNumeric(argv[2]) /\ InLong(Value(argv[2])) => code = Value(argv[2]) % 256
             /\ Len(argv) > 2 => code = IF StrIsNumeric(argv[2]) THEN 1 ELSE 2

(* The inductive invariant *)

\* How often the line has been freed, and which part of the line's history is
\* blank, at each place.
LineInv ==
  /\ pc \in {"prompt", "open", "tokens"} => freed = 0
  /\ pc \in {"parse", "dispatch", "list", "waitpid", "done"} => freed = 1
  /\ pc = "prompt" => typed = <<>>
  /\ pc \notin {"waitpid", "done", "ended", "crashed"} => child = None /\ did = "nothing"
  /\ pc = "waitpid" => child \in 0..255
  /\ did = "exit" => pc = "ended"

\* In the loop hdc_interrupted is set between the interruption and the prompt only.
HdcInv == mode = "loop" /\ hdcInterrupted => pc = "done"

\* An error of the tokenizer ends it within a step; nothing clears the status.
ErrorInv ==
  /\ pc \in {"prompt", "open"} => t = Struct(Text0) /\ tpc = "loop"
  /\ pc = "tokens" =>
       /\ t.error => tpc \in {"tail", "loop", "done"} /\ status = 2
       /\ tpc = "done" /\ Fails => status = 2 /\ t.list = <<>>
  /\ pc \in {"prompt", "open", "tokens"} => head = <<>> /\ current = None
  /\ pc \in {"parse", "dispatch", "list", "waitpid"} => tpc = "done" /\ ~Fails

\* Every finished command has a word, and a mark leaves its trace in the status.
ParseInv ==
  /\ pc = "parse" => \A i \in DOMAIN head : head[i].argv # <<>>
  /\ pc \in {"parse", "dispatch"} => (Contrasting => status = 2)
  /\ pc = "parse" /\ current # None /\ current.contrasting => status = 2

\* The status of the line before is what $? and exit find, until the line has an
\* error of its own; what the parser has still to read are tokens of the line.
StatusInv ==
  /\ mode = "loop" /\ pc = "open" => status = began
  /\ mode = "loop" /\ pc = "tokens" => status = began \/ t.error \/ (tpc = "done" /\ Fails)
  /\ mode = "loop" /\ pc \in {"parse", "dispatch"} => status = began \/ (status = 2 /\ ~OnlyWords)
  /\ pc = "parse" => \A i \in DOMAIN rest : \E j \in DOMAIN t.list : rest[i] = t.list[j]

\* What is left of a word while a line without variables is read (NoWordLost).
WordInv == pc = "tokens" /\ "$" \notin ToSet(Text0) => WordInHand

\* One pair of quotes on its way through tokens() and parse_commands()
\* (QuotedLikeHeredoc).  While check_var expands the line, what it has done and what
\* is left of the text as it was typed make up the expansion of the whole: `done' is
\* in front of the index `from', and up to there check_var has nothing more to read.
HalfExpanded ==
  \E i \in 1..Len(Inner) + 1 :
    LET left == SubSeq(Inner, i, Len(Inner))
        from == Len(t.input) - 1 - Len(left)
        done == Text(t, 1, from)
    IN  /\ 1 <= t.pos /\ t.pos <= t.count /\ t.count <= from
        /\ t.input = <<DQuote>> \o done \o left \o <<DQuote>>
        /\ ToSet(done) \cap {DQuote, "\\"} = {}
        /\ \A k \in 1..from - 1 : At(t, k) = "$" => k < t.count /\ At(t, k + 1) # "?"
        /\ ExpandHeredocLine(Inner, Env) = done \o ExpandHeredocLine(left, Env)

PairOpen ==
  /\ t.double_quote /\ ~t.single_quote /\ ~t.error /\ ~t.continue_var
  /\ t.quote = 0 /\ t.anchor_pos = 0 /\ t.list = <<>> /\ t.tmp_token = None

PairClosed ==
  /\ ~QuoteOpen /\ ~t.error
  /\ t.pos = Len(t.input) /\ t.anchor_pos = Len(t.input)
  /\ t.list = <<Token("WORD", ExpandHeredocLine(Inner, Env))>>

PairInTokens ==
  \/ tpc = "loop" /\ t = Struct(Text0)
  \/ tpc = "open" /\ PairOpen /\ HalfExpanded
  \/ /\ tpc = "close" /\ PairOpen /\ 1 <= t.pos /\ t.pos < Len(t.input)
     /\ t.input = <<DQuote>> \o ExpandHeredocLine(Inner, Env) \o <<DQuote>>
     /\ ToSet(ExpandHeredocLine(Inner, Env)) \cap {DQuote, "\\"} = {}
  \/ tpc \in {"var", "tail", "loop"} /\ PairClosed
  \/ tpc = "done" /\ t.list = <<Token("WORD", ExpandHeredocLine(Inner, Env))>>

PairInParse ==
  /\ head = <<>>
  /\ \/ rest = <<Token("WORD", ExpandHeredocLine(Inner, Env))>> /\ current = None
     \/ rest = <<>> /\ current = [InitCommand EXCEPT !.argv = <<ExpandHeredocLine(Inner, Env)>>]

PairInv ==
  OnePair => (pc = "tokens" => PairInTokens) /\ (pc = "parse" => PairInParse)

\* The seven together are inductive, and imply what the theorems state.
IInv ==
  /\ LineInv /\ HdcInv /\ ErrorInv /\ ParseInv /\ StatusInv /\ WordInv /\ PairInv
  /\ RefusedLeavesTwo /\ ListWellFormed /\ StatusIsChilds /\ OwnInterruption /\ LineFreedOnce
  /\ QuotedLikeHeredoc

\* Every line comes to an end: tokens() leaves its loop whatever quotes,
\* variables and metacharacters do to the line it walks over.
LineEnds == ~Idle ~> Idle

\* manual_tests/mandatory:17-20, "#invalid command, followed by empty variable, should
\* clear the exit code": a line that expands to nothing clears the 127 of a command
\* that was not found.
EmptyClears ==
  pc = "done" /\ Stated(typed) /\ typed # <<>> /\ Tokens0 = <<>> /\ began = 127 => status = 0

\* os_specific:8 and :11 (exit 9223372036854775808, exit -9223372036854775809), which
\* tester:79 compares with bash: a number that no long can hold is no number, and the
\* shell leaves with 2.
OverflowRefused ==
  LET argv == First.argv
  IN  mode = "loop" /\ did = "exit" /\ Len(argv) = 2 /\ StrIsNumeric(argv[2])
        /\ ~InLong(Value(argv[2])) => code = 2
=============================================================================
