----------------------------- MODULE Tokenizer ------------------------------
(***************************************************************************)
(* The tokenizer (parser/tokenize*.c, utils.c to utils6.c): a cursor `pos' *)
(* walks over the line, an `anchor_pos' stays where the word it is in      *)
(* began, and quotes and variables rewrite the line under both.  Indices   *)
(* are the code's, from 0; a line is a sequence of characters, and the     *)
(* character behind its last is NUL.                                       *)
(*                                                                         *)
(* A name is looked up in one of two places: the environment the process   *)
(* was started with, which getenv() reads and nothing changes, or the      *)
(* shell's own list, which export, unset and cd change and in which        *)
(* init_shlvl has another SHLVL from the start.                            *)
(*                                                                         *)
(* Values of variables hold no `$' (ValuesAssumption): the code expands    *)
(* what it has just put into the line once more, and a value that names    *)
(* its own variable keeps it in this loop for ever.  No variable has an    *)
(* empty name: getenv("") finds none.                                      *)
(***************************************************************************)
EXTENDS Tokens

CONSTANTS
  Char,   \* what a line may hold
  Env,    \* what getenv() finds: a function from the names of variables to texts
  Start,  \* what get_env_value() finds when the shell starts, as such a function
  Lists,  \* what it may find later
  NUL     \* the end of the line

ASSUME ValuesAssumption ==
  /\ NameChar \cup Angle \cup {Space, "|", "$", "?", "'", DQuote} \subseteq Char /\ NUL \notin Char
  /\ None \notin Nat
  /\ \A list \in Lists \cup {Env} :
       /\ DOMAIN list \subseteq Seq(NameChar) \ {<<>>}
       /\ \A name \in DOMAIN list : list[name] \in Seq(Char \ {"$"})
  /\ Start \in Lists

VARIABLES
  t,           \* the cursor of tokens(), with token_list as its field `list'
  tpc,         \* where its loop stands
  env          \* the shell's list of variables: the value of each that has one

tokVars == <<t, tpc, env>>
----------------------------------------------------------------------------
(* Reading the line.                                                       *)

At(s, i) == IF i \in 0..Len(s.input) - 1 THEN s.input[i + 1] ELSE NUL
Text(s, from, upto) == SubSeq(s.input, from + 1, upto)
Rest(s, from) == Text(s, from, Len(s.input))

\* The first index from `from' on whose character is not in S.
SkipOver(s, from, S) ==
  Min({k \in from..Len(s.input) + 1 : At(s, k) \notin S})

\* The first index from `from' on where the two characters stand.
Occurs(s, from, c, d) ==
  LET at == {k \in from..Len(s.input) : At(s, k) = c /\ At(s, k + 1) = d}
  IN  IF at = {} THEN None ELSE Min(at)
----------------------------------------------------------------------------
(* The list of tokens, and the word that is being put together from quoted *)
(* pieces (tmp_token).                                                     *)

AddCustomToken(s, value, type) ==
  [s EXCEPT !.list = Append(@, Token(type, value))]

LastStr(s, text) ==
  [AddCustomToken(s, s.tmp_token \o text, "WORD") EXCEPT !.tmp_token = None]

TempToken(s, text) ==
  [s EXCEPT !.tmp_token = IF @ = None THEN text ELSE @ \o text]

SetMetacharType(token) ==
  IF token.type # "METACHAR" THEN token
  ELSE [token EXCEPT !.type =
          CASE token.value[1] = "|"                               -> "PIPE"
            [] token.value = <<"<", "<">>                         -> "DLESS"
            [] token.value[1] = "<" /\ token.value # <<"<", "<">> -> "LESS"
            [] token.value = <<">", ">">>                         -> "DGREAT"
            [] OTHER                                              -> "GREAT"]

\* The text from the anchor to the cursor becomes a token.
AddToken(s) ==
  LET from  == IF At(s, s.pos) = NUL THEN s.anchor_pos
               ELSE Min({SkipOver(s, s.anchor_pos, {Space}), Max({s.pos, s.anchor_pos})})
      redir == from = s.pos /\ At(s, from) \in Angle
      upto  == IF redir THEN s.pos + 1 ELSE s.pos
      text  == Text(s, from, upto)
      moved == [s EXCEPT !.anchor_pos = upto, !.pos = upto]
  IN  IF s.pos > Len(s.input) THEN s
      ELSE IF redir /\ At(s, s.pos + 1) \in Angle THEN [s EXCEPT !.anchor_pos = from]
      ELSE IF upto = from \/ At(s, from) = Space
        THEN [moved EXCEPT !.anchor_pos = from + 1]
      ELSE IF s.tmp_token # None THEN LastStr(moved, text)
      ELSE LET type == IF text[1] \in Angle \cup {"|"} THEN "METACHAR" ELSE "WORD"
           IN  [AddCustomToken(moved, text, type) EXCEPT !.pos = s.pos]
----------------------------------------------------------------------------
(* Quotes.                                                                 *)

Quotes(s) ==
  LET single == At(s, s.pos) = "'" /\ ~s.double_quote
      double == At(s, s.pos) = DQuote /\ ~s.single_quote
  IN  IF ~single /\ ~double THEN s
      ELSE [s EXCEPT !.single_quote = IF single THEN ~@ ELSE @,
                     !.double_quote = IF double THEN ~@ ELSE @,
                     !.anchor_pos = IF At(s, @) = Space THEN @ + 1 ELSE @,
                     !.quote = s.pos, !.pos = @ + 1]

\* Mutant: the end of the line does not end a word.
PrepareStrKeepsLast(s) ==
  LET text == Text(s, s.anchor_pos, s.pos)
      next == At(s, s.pos + 1)
      ends == next \in {Space} \cup Angle
  IN  IF next = At(s, s.quote) \/ ~ends THEN TempToken(s, text)
      ELSE IF s.tmp_token # None THEN LastStr(s, text)
      ELSE AddCustomToken(s, text, "WORD")

\* The piece in quotes begins a word: it is the word, or a part of it.
PrepareStr(s) ==
  LET text == Text(s, s.anchor_pos, s.pos)
      next == At(s, s.pos + 1)
      ends == next \in {NUL, Space} \cup Angle
  IN  IF next = At(s, s.quote) \/ ~ends THEN TempToken(s, text)
      ELSE IF s.tmp_token # None THEN LastStr(s, text)
      ELSE AddCustomToken(s, text, "WORD")

\* Mutant: the cursor stays behind the quotes that are cut out.
HandleFirstQuoteCaseStays(s) ==
  [s EXCEPT !.input = Text(s, 0, s.quote) \o Rest(s, s.quote + 2), !.free_input = TRUE]

\* An empty pair of quotes inside a word is cut out of the line.
HandleFirstQuoteCase(s) ==
  [s EXCEPT !.input = Text(s, 0, s.quote) \o Rest(s, s.quote + 2),
            !.pos = s.anchor_pos, !.free_input = TRUE]

\* A word begins outside the quotes and goes on inside them.
HandleMiddleQuoteCase(s) ==
  LET text == Text(s, s.anchor_pos, s.quote) \o Text(s, s.quote + 1, s.pos)
      ends == At(s, s.pos + 1) \in {NUL, Space}
      done == CASE ~ends                       -> TempToken(s, text)
                [] ends /\ s.tmp_token # None  -> LastStr(s, text)
                [] OTHER                       -> AddCustomToken(s, text, "WORD")
  IN  [done EXCEPT !.pos = @ + 1]

PrepareQuotes(s) ==
  LET done == IF s.pos = s.quote + 1 THEN HandleFirstQuoteCase(s) ELSE HandleMiddleQuoteCase(s)
  IN  [done EXCEPT !.anchor_pos = done.pos]

\* The anchor moves into the quotes if it stands on them.
InQuotes(s) ==
  LET c == At(s, s.anchor_pos)
  IN  [s EXCEPT !.anchor_pos = IF c = At(s, s.pos) THEN @ + 1 ELSE @]

HandleDoubleQuote(s) ==
  LET piece == PrepareStr(InQuotes(s))
      done  == IF s.pos <= s.anchor_pos THEN s
               ELSE IF s.quote # s.anchor_pos THEN PrepareQuotes(s)
               ELSE [piece EXCEPT !.pos = @ + 1, !.anchor_pos = s.pos + 1]
  IN  [done EXCEPT !.double_quote = FALSE,
                   !.continue_var = IF At(done, done.pos) = DQuote THEN ~@ ELSE @]

HandleSingleQuote(s) ==
  LET piece == PrepareStr(InQuotes(s))
      done  == IF s.pos <= s.anchor_pos THEN s
               ELSE IF s.quote # s.anchor_pos THEN PrepareQuotes(s)
               ELSE [piece EXCEPT !.anchor_pos = s.pos + 1]
  IN  [done EXCEPT !.single_quote = FALSE,
                   !.pos = IF At(done, @) # NUL THEN @ + 1 ELSE @]
----------------------------------------------------------------------------
(* Variables and $?.                                                       *)

\* The first $? behind the anchor becomes the digits of the status.
ExpandExitStatus(s) ==
  LET at == Occurs(s, s.anchor_pos, "$", "?")
  IN  IF at = None THEN s
      ELSE [s EXCEPT !.input = Text(s, 0, at) \o Itoa[status] \o Rest(s, at + 2)]

\* A name inside double quotes, its `$' at index at: getenv() is asked, and a name
\* it does not find stays.
HandleVariableExpansion(s, at) ==
  LET end  == SkipOver(s, at + 1, NameChar)
      name == Text(s, at + 1, end)
  IN  IF name \notin DOMAIN Env THEN s
      ELSE [s EXCEPT !.input = Text(s, 0, at) \o Env[name] \o Rest(s, end)]

\* A lone `$' is itself.
HandleLonelyDollar(s) ==
  LET done == IF s.tmp_token # None THEN LastStr(s, <<"$">>)
              ELSE AddCustomToken(s, <<"$">>, "WORD")
  IN  [done EXCEPT !.anchor_pos = @ + 1, !.pos = s.anchor_pos + 1]

\* Mutant: a name that is not set is not stepped over.
HandleEnvVarStays(s) ==
  LET end  == SkipOver(s, IF s.pos = s.anchor_pos THEN s.pos + 1 ELSE s.pos, NameChar)
      name == Text(s, s.anchor_pos + 1, end)
  IN  IF name \in DOMAIN env
      THEN [s EXCEPT !.input = Text(s, 0, s.anchor_pos) \o env[name] \o Rest(s, end),
                     !.pos = s.anchor_pos]
      ELSE s

\* A word that begins with a name: its value in the list is read as if it had been
\* typed.
HandleEnvVar(s) ==
  LET end  == SkipOver(s, IF s.pos = s.anchor_pos THEN s.pos + 1 ELSE s.pos, NameChar)
      name == Text(s, s.anchor_pos + 1, end)
      gone == IF s.tmp_token = None THEN s ELSE LastStr(s, <<>>)
  IN  IF name \in DOMAIN env
      THEN [s EXCEPT !.input = Text(s, 0, s.anchor_pos) \o env[name] \o Rest(s, end),
                     !.pos = s.anchor_pos]
      ELSE [gone EXCEPT !.anchor_pos = end, !.pos = end]

\* A name behind other characters of a word: getenv() again.
IsVar2(s) ==
  LET last   == SkipOver(s, s.pos + 1, NameChar) - 1
      prefix == Text(s, s.anchor_pos, s.pos)
      name   == IF last = s.pos THEN <<"$">> ELSE Text(s, s.pos + 1, last + 1)
      num    == s.num_var \/ At(s, s.pos + 1) \in Digit
      after  == IF num THEN Text(s, s.anchor_pos + Len(name) + 1, last) ELSE <<>>
  IN  IF name \in DOMAIN Env
      THEN [s EXCEPT !.input = Text(s, 0, s.anchor_pos) \o prefix \o Env[name] \o Rest(s, last + 1),
                     !.pos = last, !.num_var = num]
      ELSE [AddCustomToken(s, prefix \o after, "WORD")
              EXCEPT !.pos = last + 1, !.anchor_pos = last + 1, !.num_var = FALSE]

IsVar(s) ==
  LET a == [s EXCEPT !.anchor_pos = IF At(s, @) = Space THEN @ + 1 ELSE @]
  IN  IF At(s, s.pos + 1) = "?" THEN ExpandExitStatus(s)
      ELSE IF At(a, a.anchor_pos) # "$" THEN IsVar2(a)
      ELSE IF At(a, a.anchor_pos + 1) \in {NUL, Space} THEN HandleLonelyDollar(a)
      ELSE HandleEnvVar(a)

\* Mutant: the name behind `$?' is read as text.
ExpandHeredocLineKeepsMark(line, list) ==
  LET from[i \in 1..Len(line) + 1] ==
        LET end == Min({k \in i + 1..Len(line) + 1 : k = Len(line) + 1 \/ line[k] \notin NameChar})
            name == SubSeq(line, i + 1, end - 1)
        IN  CASE i = Len(line) + 1 -> <<>>
              [] line[i] = "$" /\ i < Len(line) /\ line[i + 1] = "?" -> Itoa[status] \o from[i + 1]
              [] line[i] = "$" /\ i < Len(line) /\ line[i + 1] \in Letter \cup {"_"} ->
                   (IF name \in DOMAIN list THEN list[name] ELSE <<>>) \o from[end]
              [] OTHER -> <<line[i]>> \o from[i + 1]
  IN  from[1]

\* A line of a heredoc: names are replaced by their values in the list and $? by
\* the status; a name without a value vanishes.
ExpandHeredocLine(line, list) ==
  LET from[i \in 1..Len(line) + 1] ==
        LET end == Min({k \in i + 1..Len(line) + 1 : k = Len(line) + 1 \/ line[k] \notin NameChar})
            name == SubSeq(line, i + 1, end - 1)
        IN  CASE i = Len(line) + 1 -> <<>>
              [] line[i] = "$" /\ i < Len(line) /\ line[i + 1] = "?" -> Itoa[status] \o from[i + 2]
              [] line[i] = "$" /\ i < Len(line) /\ line[i + 1] \in Letter \cup {"_"} ->
                   (IF name \in DOMAIN list THEN list[name] ELSE <<>>) \o from[end]
              [] OTHER -> <<line[i]>> \o from[i + 1]
  IN  from[1]
----------------------------------------------------------------------------
(* Metacharacters.                                                         *)

OneLessMore(s) == AddToken([s EXCEPT !.pos = IF @ = s.anchor_pos THEN @ + 1 ELSE @])

TwoLessMore(s) ==
  LET a    == [s EXCEPT !.anchor_pos = SkipOver(s, @, {Space})]
      word == IF At(a, a.anchor_pos) \in Angle THEN a
              ELSE [AddCustomToken(a, Text(a, a.anchor_pos, a.pos), "WORD")
                      EXCEPT !.anchor_pos = a.pos]
      done == AddToken([word EXCEPT !.pos = @ + 2])
  IN  [done EXCEPT !.anchor_pos = done.pos]

TripleMeta(s) == AddToken([s EXCEPT !.pos = @ + 2, !.error = TRUE])

\* The word before a pipe is read from the line again, back to a delimiter.
CheckPipes(s) ==
  LET start == Max({0} \cup {k \in 1..s.pos : At(s, k - 1) \in {Space, "|"} \cup Angle})
      word  == IF start = s.pos THEN s ELSE AddCustomToken(s, Text(s, start, s.pos), "WORD")
      a     == [word EXCEPT !.anchor_pos = s.pos]
  IN  IF s.pos = 0 \/ At(s, SkipOver(s, s.pos + 1, {Space})) \in {NUL, "|"}
      THEN [a EXCEPT !.error = TRUE]
      ELSE AddToken([a EXCEPT !.pos = @ + 1])

\* The character under the cursor as it is alone, doubled or tripled.
MetaToken(s) ==
  LET c  == At(s, s.pos)
      c1 == At(s, s.pos + 1)
      c2 == At(s, s.pos + 2)
  IN  CASE c = Space                         -> AddToken(s)
        [] c = "|"                           -> CheckPipes(s)
        [] c \in Angle /\ c1 # c             -> OneLessMore(s)
        [] c \in Angle /\ c1 = c /\ c2 # c   -> TwoLessMore(s)
        [] c \in Angle /\ c1 = c /\ c2 = c   -> TripleMeta(s)
        [] OTHER                             -> s

Metacharacters(s0) ==
  LET s == [s0 EXCEPT !.pos = Min({@, Len(s0.input)})]
      m == MetaToken(s)
      d == At(m, m.pos)
  IN  IF At(s, s.pos) = NUL \/ (d \in Angle /\ At(m, m.pos - 1) # Space) \/ d \in {DQuote, "'", "$"}
      THEN m ELSE [m EXCEPT !.pos = @ + 1]
----------------------------------------------------------------------------
(* The loop of tokens().                                                   *)

Struct(line) ==
  [input |-> line, pos |-> 0, count |-> 0, anchor_pos |-> 0, quote |-> 0, list |-> <<>>,
   single_quote |-> FALSE, double_quote |-> FALSE, continue_var |-> FALSE,
   tmp_token |-> None, num_var |-> FALSE, free_input |-> FALSE, error |-> FALSE]

InLine == At(t, t.pos) # NUL
QuoteOpen == t.single_quote \/ t.double_quote

ReadQuotes ==
  /\ tpc = "loop" /\ InLine /\ ~t.error
  /\ t' = LET s == Quotes(t) IN [s EXCEPT !.count = s.pos]
  /\ tpc' = "open"
  /\ UNCHANGED status

Plain(s) == {k \in s.count + 1..Len(s.input) + 1 : At(s, k) \in {NUL, DQuote, "$"}}

\* check_var: up to the closing quote, names are expanded where they stand.  The
\* index goes on behind the `$' of what has just been put into the line.
CheckVar ==
  /\ tpc = "open" /\ t.double_quote
  /\ LET here == At(t, t.count)  next == At(t, t.count + 1)
     IN  IF here \in {NUL, DQuote} \/ (here = "$" /\ next = DQuote)
         THEN tpc' = "close" /\ t' = t
         ELSE /\ tpc' = "open"
              /\ t' = CASE here = "$" /\ next = "?" ->
                             [ExpandExitStatus([t EXCEPT !.pos = t.count]) EXCEPT !.count = @ + 1]
                       [] here = "$" /\ next \notin {"?", Space} ->
                             [HandleVariableExpansion(t, t.count) EXCEPT !.count = @ + 1]
                       [] OTHER -> [t EXCEPT !.count = Min(Plain(t))]
  /\ UNCHANGED status

\* The closing quote is looked for behind the cursor.
OpenQuotes ==
  /\ tpc = "close" \/ (tpc = "open" /\ ~t.double_quote)
  /\ LET ends == {k \in t.pos..Len(t.input) :
                    /\ At(t, k) = (IF t.single_quote THEN "'" ELSE DQuote)
                    /\ At(t, k - 1) # "\\"}
         c    == [t EXCEPT !.pos = Min(ends \cup {Len(t.input)})]
         done == CASE ~QuoteOpen                     -> t
                   [] QuoteOpen /\ ends = {}         -> c
                   [] t.single_quote /\ ends # {}    -> HandleSingleQuote(c)
                   [] OTHER                          -> HandleDoubleQuote(c)
     IN  /\ t' = [done EXCEPT !.continue_var = FALSE]
         /\ tpc' = IF done.continue_var THEN "tail" ELSE "var"
  /\ UNCHANGED status

ReadVar ==
  /\ tpc = "var"
  /\ LET var == At(t, t.pos) = "$" /\ ~t.single_quote
     IN  /\ t' = IF var THEN IsVar(t) ELSE t
         /\ tpc' = IF ~InLine \/ (At(t, t.pos) = "$" /\ At(t', t'.pos) = "'")
                   THEN "tail" ELSE "meta"
  /\ UNCHANGED status

\* Mutant: an error of the metacharacters leaves the status as it was.
ReadMetaKeepsStatus ==
  /\ tpc = "meta"
  /\ t' = Metacharacters(t) /\ tpc' = "tail"
  /\ UNCHANGED status

ReadMeta ==
  /\ tpc = "meta"
  /\ t' = Metacharacters(t) /\ tpc' = "tail"
  /\ status' = IF t'.error THEN 2 ELSE status

\* The last word of the line.
LastWord(s) ==
  IF s.pos = Len(s.input) /\ s.pos # s.anchor_pos THEN AddToken(s) ELSE s

ReadTail ==
  /\ tpc = "tail"
  /\ t' = LastWord(t) /\ tpc' = "loop"
  /\ UNCHANGED status

Fails == QuoteOpen \/ t.error

\* tokens() returns its list, or NULL after a syntax error.
EndTokens ==
  /\ tpc = "loop" /\ (~InLine \/ t.error)
  /\ LET s == LastWord(t)
     IN  t' = [s EXCEPT !.list = IF Fails THEN <<>>
                                 ELSE [i \in DOMAIN @ |-> SetMetacharType(@[i])]]
  /\ tpc' = "done"
  /\ status' = IF QuoteOpen THEN 2 ELSE status

Tokenize ==
  \/ ReadQuotes \/ CheckVar \/ OpenQuotes \/ ReadVar \/ ReadMeta \/ ReadTail \/ EndTokens
----------------------------------------------------------------------------
(* The cursor.                                                             *)

\* Wherever tokens() looks at the character under the cursor without asking for
\* the length first, the cursor is in the line; the anchor always is, and is not
\* behind the cursor.  Quotes and values shorten the line under both, and is_var()
\* does leave the cursor behind its end (an empty variable behind the beginning of
\* a word): metacharacters() takes it back first.  Inside a pair of quotes the
\* anchor is not behind the opening one and the cursor is; a pair that is still open
\* when the line ends takes the cursor there (quotes, open_quotes).
CursorInLine ==
  /\ t.anchor_pos <= t.pos /\ t.anchor_pos <= Len(t.input)
  /\ ~(t.single_quote /\ t.double_quote)
  /\ tpc \in {"open", "close", "var"} => t.pos <= Len(t.input)
  /\ tpc \in {"tail", "loop"} => t.pos <= Len(t.input) + 1
  /\ tpc \in {"open", "close"} /\ QuoteOpen => t.anchor_pos <= t.quote /\ t.quote < t.pos
  /\ tpc \in {"open", "close"} /\ ~QuoteOpen => t.pos < Len(t.input)
  /\ tpc \in {"var", "tail", "loop"} /\ QuoteOpen => t.pos >= Len(t.input)
  /\ tpc = "open" /\ t.double_quote => t.pos <= t.count
  /\ tpc = "meta" => ~QuoteOpen

\* A piece of a word that is held back (tmp_token) waits for characters that are
\* still to come: in a line without variables the anchor stands on the next of them,
\* and what opened a pair of quotes is a quote, so that no piece is left when the
\* line ends.  Quotes cut pieces out of the line, but none puts a `$' there.
WordInHand ==
  /\ "$" \notin ToSet(t.input)
  /\ tpc # "done" /\ t.tmp_token # None /\ ~t.error =>
       t.pos <= Len(t.input) /\ At(t, t.anchor_pos) \notin {Space, NUL}
  /\ tpc \in {"open", "close"} /\ QuoteOpen => At(t, t.quote) \notin {Space, NUL}
  /\ tpc = "done" /\ ~Fails => t.tmp_token = None
=============================================================================
