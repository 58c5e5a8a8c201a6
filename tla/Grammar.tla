------------------------------ MODULE Grammar -------------------------------
(***************************************************************************)
(* What a line means: the abstract specification of the tokenizer and the  *)
(* parser together.  A typed line is a sequence of lexemes, each with its  *)
(* text and what it says, so that nothing here reads characters.           *)
(***************************************************************************)
EXTENDS Tokens

\* A lexeme is "blank", "word", "status" ($?), "pipe", "redir" or "raw": typed
\* characters whose meaning is not stated.  `says' holds the words a word stands
\* for (a variable may stand for any number) or the type of a redirection.  `form'
\* says of a word how it is written: "bare" (without quotes, and its variables are
\* set), "unset" (a variable that is not), "quoted" (quotes around all of it),
\* "opened" (it begins in quotes and goes on outside) or "closed" (the reverse).
TokensOf(lexeme, st) ==
  CASE lexeme.is = "word"   -> IF lexeme.says = <<>> THEN <<Token("VOID", <<>>)>>
                               ELSE [i \in DOMAIN lexeme.says |-> Token("WORD", lexeme.says[i])]
    [] lexeme.is = "status" -> <<Token("WORD", Itoa[st])>>
    [] lexeme.is = "pipe"   -> <<Token("PIPE", lexeme.text)>>
    [] lexeme.is = "redir"  -> <<Token(lexeme.says, lexeme.text)>>
    [] OTHER                -> <<>>

TextOf(line) == FlattenSeq([i \in DOMAIN line |-> line[i].text])

\* The tokens of a line; a word that expands to nothing is first there, then not.
Shape(line, st) == FlattenSeq([i \in DOMAIN line |-> TokensOf(line[i], st)])
Meant(shape) == SelectSeq(shape, LAMBDA token : token.type # "VOID")

\* A line whose meaning is stated: no raw characters.
Stated(line) == \A i \in DOMAIN line : line[i].is # "raw"

\* The tokenizer misses the operator m where it touches the lexeme l.  A word that
\* ends in quotes it did not begin in goes on over every operator (utils4.c:112-114),
\* one that only began in them over a doubled redirection (utils5.c:58-69).  Before
\* a pipe only a bare word ends: any other is read from the line again, with the pipe
\* or after it has been read already (tokenize_utils_2.c:8-13).  A redirection and a
\* doubled one behind it are read as one, and from a redirection the cursor steps
\* over a pipe behind it (tokenize_utils.c:55-72).
Missed(l, m) ==
  LET word    == l.is \in {"word", "status"}
      doubled == {"DLESS", "DGREAT"}
  IN  \/ m.is = "redir" /\ word /\ l.form = "closed"
      \/ m.is = "redir" /\ m.says \in doubled /\ word /\ l.form = "opened"
      \/ m.is = "redir" /\ m.says \in doubled /\ l.is = "redir"
      \/ m.is = "pipe" /\ word /\ l.form # "bare"
      \/ m.is = "pipe" /\ l.is = "redir"

\* Nothing in the line touches an operator that is missed for it.
KeptApart(line) == \A i \in 1..Len(line) - 1 : ~Missed(line[i], line[i + 1])
----------------------------------------------------------------------------
IsRedir(token) == token.type \in Redirection

\* The commands are what stands between the pipes.
Segments(tokens) ==
  LET ends == {0, Len(tokens) + 1} \cup {i \in DOMAIN tokens : tokens[i].type = "PIPE"}
      at   == SetToSortSeq(ends, <)
  IN  [k \in 1..Len(at) - 1 |-> SubSeq(tokens, at[k] + 1, at[k + 1] - 1)]

\* The tokens of a segment at which `test' holds, in order.
Pick(segment, test(_)) ==
  LET at == SetToSortSeq({i \in DOMAIN segment : test(i)}, <)
  IN  [k \in DOMAIN at |-> at[k]]

\* The words of a segment that are not the name of a redirection's file.
Words(segment) ==
  Pick(segment, LAMBDA i : ~IsRedir(segment[i]) /\ ~(i > 1 /\ IsRedir(segment[i - 1])))

Command(segment) ==
  LET words  == Words(segment)
      redirs == Pick(segment, LAMBDA i : IsRedir(segment[i]))
  IN  [argv   |-> [k \in DOMAIN words |-> segment[words[k]].value],
       redirs |-> [k \in DOMAIN redirs |-> [type     |-> segment[redirs[k]].type,
                                            filename |-> segment[redirs[k] + 1].value]],
       contrasting |-> FALSE]

Commands(tokens) == [k \in DOMAIN Segments(tokens) |-> Command(Segments(tokens)[k])]
----------------------------------------------------------------------------
\* Not in the language: nothing as it is typed beside a pipe, a redirection that
\* no word is left for.
Malformed(shape) ==
  LET tokens == Meant(shape)
  IN  \/ \E i \in DOMAIN shape :
           /\ shape[i].type = "PIPE"
           /\ i \in {1, Len(shape)} \/ shape[i + 1].type = "PIPE"
      \/ \E i \in DOMAIN tokens :
           /\ IsRedir(tokens[i])
           /\ i = Len(tokens) \/ tokens[i + 1].type # "WORD"

\* A command without words and with a pipe behind it, or nothing at all behind one.
Wordless(tokens) ==
  LET s == Segments(tokens)
  IN  \/ \E k \in 1..Len(s) - 1 : Words(s[k]) = <<>>
      \/ Len(s) > 1 /\ Last(s) = <<>>
=============================================================================
