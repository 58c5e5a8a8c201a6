------------------------------- MODULE VarMap --------------------------------
(***************************************************************************)
(* What export, unset and cd are asked to do to the variables of the       *)
(* shell: a map from names to values, and requests served one at a time    *)
(* and in order, each of which changes its own name and no other.          *)
(***************************************************************************)
EXTENDS Sequences

CONSTANTS Key,        \* names
          Value,      \* values: sequences, since they can be appended to
          NoValue,    \* declared without a value
          Absent,     \* not a variable
          DirKeys,    \* the names cd records directories in
          SHLVL,      \* the name of the shell's depth
          Level,      \* its values
          Start       \* the environments the shell can be given

VARIABLES map,    \* the variables
          todo    \* requests not served yet: [what, key, text]

Init ==
  /\ \E e \in Start, v \in Level : map = [e EXCEPT ![SHLVL] = v]
  /\ todo = <<>>

Request == [what : {"assign", "append", "declare", "remove", "refuse"},
            key : Key, text : Value]

Ask == todo = <<>> /\ todo' \in Seq(Request) /\ UNCHANGED map

Text(k) == IF map[k] \in {NoValue, Absent} THEN <<>> ELSE map[k]

After(r) ==
  CASE r.what = "assign"  -> [map EXCEPT ![r.key] = r.text]
    [] r.what = "append"  -> [map EXCEPT ![r.key] = Text(r.key) \o r.text]
    [] r.what = "declare" -> [map EXCEPT ![r.key] = IF @ = Absent THEN NoValue ELSE @]
    [] r.what = "remove"  -> [map EXCEPT ![r.key] = Absent]
    [] r.what = "refuse"  -> map

Serve == todo # <<>> /\ map' = After(Head(todo)) /\ todo' = Tail(todo)

\* cd records a directory.
Record ==
  /\ todo = <<>> /\ UNCHANGED todo
  /\ \E k \in DirKeys : map'[k] \in Value /\ map' = [map EXCEPT ![k] = map'[k]]

Next == Ask \/ Serve \/ Record

Spec == Init /\ [][Next]_<<map, todo>>
=============================================================================
