----------------------------- MODULE MCHeredoc ------------------------------
(***************************************************************************)
(* Heredoc on the lines of minishell_tester/manual_tests/heredoc that      *)
(* differ in how their redirections interact, and three with file names    *)
(* that look like a temporary file's.                                      *)
(***************************************************************************)
EXTENDS Heredoc, TLC

CONSTANTS I1, I2, I3, I4, I5, Plain, Hidden

Inodes == {I1, I2, I3, I4, I5}
Files  == {Plain, Hidden}

Hdc(c)    == [cmd |-> c, type |-> "hdc", name |-> None, typed |-> -1]
In(c, f)  == [cmd |-> c, type |-> "in", name |-> f, typed |-> -1]
Out(c, f) == [cmd |-> c, type |-> "out", name |-> f, typed |-> -1]
App(c, f) == [cmd |-> c, type |-> "app", name |-> f, typed |-> -1]

TwoOfOne     == [n |-> 1, redirs |-> <<Hdc(1), Hdc(1)>>]                 \* cat <<A <<B
OneEach      == [n |-> 2, redirs |-> <<Hdc(1), Hdc(2)>>]                 \* cat <<A | cat <<B
MissingFirst == [n |-> 2, redirs |-> <<Hdc(1), In(1, Plain), Hdc(1)>>]   \* cat <<A <missing <<B | ls
ToHidden     == [n |-> 2, redirs |-> <<Hdc(1), Out(1, Hidden), In(2, Hidden)>>]
AppendsTo    == [n |-> 1, redirs |-> <<Out(1, Plain), App(1, Hidden), Hdc(1)>>]

AllLines  == {TwoOfOne, OneEach, MissingFirst, ToHidden, AppendsTo}
=============================================================================
