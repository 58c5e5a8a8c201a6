------------------------------ MODULE MCShell -------------------------------
(***************************************************************************)
(* Shell on short lines: all sequences of a few lexemes, whose meaning is  *)
(* stated, and all sequences of a few characters, whose meaning is not.    *)
(***************************************************************************)
EXTENDS Shell, TLC

\* What the shell was started with; s is its SHLVL, which it counts up at once, and
\* b is what export and unset change later.
Unchanging == <<"H">> :> <<"c", " ", "c">> @@ <<"e">> :> <<>>
Environment == Unchanging @@ <<"b">> :> <<"c">> @@ <<"s">> :> <<"1">>
Begun       == Unchanging @@ <<"b">> :> <<"c">> @@ <<"s">> :> <<"2">>
Exported    == Unchanging @@ <<"b">> :> <<"d">> @@ <<"s">> :> <<"2">>
Removed     == Unchanging @@ <<"s">> :> <<"2">>
Stores      == {Begun, Exported, Removed}

Characters == NameChar \cup Angle \cup {Space, "|", "$", "?", "'", DQuote, "\\", ".", "/", "-"}

\* Lexemes.
Word1(text, says, form) == [text |-> text, is |-> "word", says |-> says, form |-> form]
Plain1(c)  == Word1(<<c>>, <<<<c>>>>, "bare")
Blank      == [text |-> <<" ">>, is |-> "blank"]
Pipe       == [text |-> <<"|">>, is |-> "pipe"]
Op(text, type) == [text |-> text, is |-> "redir", says |-> type]
In         == Op(<<"<">>, "LESS")
Append2    == Op(<<">", ">">>, "DGREAT")
Here       == Op(<<"<", "<">>, "DLESS")
A          == Plain1("a")
Quoted     == Word1(<<"'", "a", " ", "|", "'", "b">>, <<<<"a", " ", "|", "b">>>>, "opened")
Mixed      == Word1(<<"c", "\"", "$", "b", "\"">>, <<<<"c", "c">>>>, "closed")
Split      == Word1(<<"$", "H">>, <<<<"c">>, <<"c">>>>, "bare")
Unset      == Word1(<<"$", "u">>, <<>>, "unset")
EmptyWord  == Word1(<<"\"", "\"">>, <<<<>>>>, "quoted")
Status     == [text |-> <<"$", "?">>, is |-> "status", form |-> "bare"]
Raw(text)  == <<[text |-> text, is |-> "raw"]>>

\* Two words that touch are one, as two `<' are; two blanks are as good as one.
IsWord(l) == l.is \in {"word", "status"}
Tidy(line) ==
  \A i \in 1..Len(line) - 1 :
    /\ ~(IsWord(line[i]) /\ IsWord(line[i + 1]))
    /\ ~(line[i] = line[i + 1] /\ line[i] \in {Blank, In})
Sequences(S, n) == UNION {[1..k -> S] : k \in 1..n}

Lexemes == {Blank, Pipe, In, Append2, A, Quoted, Mixed, Split, Unset, EmptyWord, Status}
LexemeLines(S, n) == {l \in Sequences(S, n) : Tidy(l)}
RawLines == {Raw(l) : l \in Sequences({"a", "b", " ", "|", "<", ">", "'", "\"", "$"}, 4)}
            \cup {Raw(l) : l \in [1..5 -> {"a", "'", "\"", "$"}]}
            \cup {Raw(l) : l \in Sequences({"a", "'", "\"", "\\"}, 4)}
            \cup {Raw(l) : l \in Sequences({"a", "e", "$", "'"}, 4)}
BetweenQuotes == Sequences({"$", "?", "b", "1", " ", "'", "|"}, 4)
InQuotes1 == {Raw(<<"\"">> \o l \o <<"\"">>) :
                l \in BetweenQuotes \cup Sequences({"$", "b", "s"}, 3)}

\* The session: what a line leaves for the next.
Spaced(words) == FlattenSeq([i \in DOMAIN words |-> <<words[i], Blank>>])
X(n) == Spaced(<<Plain1("x"), n>>)
Number(text) == Word1(text, <<text>>, "bare")
\* One beyond the limits of a long, on either side.
Overlong == {X(Number(<<"3", "2", "7", "6", "8">>)), X(Number(<<"-", "3", "2", "7", "6", "9">>))}
SessionLines == {
  Spaced(<<A>>), Spaced(<<Plain1("d")>>), Spaced(<<Plain1("n")>>), Spaced(<<Plain1("f")>>),
  Spaced(<<Plain1("e"), Status>>), Spaced(<<Plain1("e"), Quoted>>), Spaced(<<EmptyWord>>),
  Spaced(<<A, Pipe, Plain1("f")>>), Spaced(<<A, Here, Plain1("e")>>),
  Spaced(<<Plain1("e"), In, Plain1("f")>>), Spaced(<<A, In>>), Spaced(<<Unset>>),
  Spaced(<<Number(<<".">>)>>), Spaced(<<Number(<<".", "/">>)>>), Spaced(<<Number(<<".", ".">>)>>),
  Spaced(<<Number(<<"/", "a">>)>>), Spaced(<<Number(<<"/", "z">>)>>),
  Raw(<<"a", "'">>), Raw(<<"a", "|">>), Raw(<<"a", "'", "'", "b">>),
  Raw(<<"\"", "$", "b", "\"">>),
  <<Plain1("x")>>, X(Plain1("7")), X(Number(<<"3", "0", "0">>)), X(Number(<<"-", "1">>)),
  X(Number(<<"3", "2", "7", "6", "7">>)), X(Number(<<"-", "3", "2", "7", "6", "8">>)),
  X(Number(<<"0", "0", "0", "3", "2", "7", "6", "7">>)), X(A), X(EmptyWord),
  X(Status), Spaced(<<Plain1("x"), Plain1("7"), A>>), Spaced(<<Plain1("x"), Pipe, A>>),
  Spaced(<<Plain1("x"), In>>), Spaced(<<In, Plain1("f"), Pipe, Plain1("x")>>) } \cup Overlong

\* A command that is not found, and a line of an unset variable.
EmptyLines == {Spaced(<<Plain1("f")>>), Spaced(<<Unset>>)}

AllLines == LexemeLines(Lexemes, 4) \cup LexemeLines({Blank, Pipe, In, A, Quoted, Unset}, 5)
            \cup LexemeLines({Blank, Pipe, Here, A, Quoted}, 6)
            \cup RawLines \cup InQuotes1 \cup SessionLines

Path == <<<<"p">>, <<"/">>>>
Tree == <<"p", "/", "a">> :> "program" @@ <<"p", "/", "n">> :> "noexec" @@ <<"p", "/">> :> "dir"
        @@ <<"p", "/", "d">> :> "dir" @@ <<"/", "a">> :> "program"
BuiltinWords == {<<"e">>}
ExitWord == <<"x">>
=============================================================================
