----------------------------- MODULE MCEnviron ------------------------------
(***************************************************************************)
(* Environ with six names, in the order HOME < NEW < OLDPWD < PWD <        *)
(* SHLVL < VAR, two directories and two pieces of text that are none.      *)
(***************************************************************************)
EXTENDS Environ

CONSTANTS Here, Away, Word, One

Names == 1..6
Dirs  == {Here, Away}
Atoms == {Here, Away, Word, One}
Ones  == <<One>>
Levels == {Ones}

Full == [k \in Names |-> CASE k = 1 -> <<Away>> [] k = 4 -> <<Here>>
                           [] k = 6 -> <<Word>> [] OTHER -> Absent]
Bare == [k \in Names |-> IF k = 5 THEN <<Word>> ELSE Absent]
Starts == {Full, Bare}

Args == {[form |-> x[1], key |-> x[2], text |-> <<Word>>] :
           x \in {<<"name", 2>>, <<"name", 5>>, <<"assign", 2>>, <<"assign", 4>>,
                  <<"append", 6>>, <<"bad", 2>>}}
=============================================================================
