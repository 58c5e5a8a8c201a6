-------------------------------- MODULE Job ---------------------------------
(***************************************************************************)
(* What the user of the shell is promised of a command line: the prompt    *)
(* comes back, once every command of the line has ended and not before,    *)
(* with the status of the last one.  No process, pipe or signal is named.  *)
(***************************************************************************)
EXTENDS Integers

CONSTANTS MaxLen,   \* bound: commands in a line
          Status,   \* exit statuses
          None      \* the last command has not ended

VARIABLES phase,    \* "idle": the prompt waits; "running"; "gone"
          size,     \* commands in the line
          open,     \* indices of the commands that have not ended
          last,     \* the last command's status, once it has ended
          verdict   \* $?

vars == <<phase, size, open, last, verdict>>

Init == /\ phase = "idle" /\ size = 0 /\ open = {} /\ last = None /\ verdict = 0

Begin(n) ==
  /\ phase = "idle" /\ phase' = "running"
  /\ size' = n /\ open' = 1..n /\ last' = None
  /\ UNCHANGED verdict

\* Commands end in any order.
Finish(i, c) ==
  /\ phase = "running" /\ i \in open
  /\ open' = open \ {i}
  /\ last' = IF i = size THEN c ELSE last
  /\ UNCHANGED <<phase, size, verdict>>

\* $? becomes the last command's status, maybe before the others have ended.
Report ==
  /\ phase = "running" /\ last # None
  /\ verdict' = last
  /\ UNCHANGED <<phase, size, open, last>>

Return ==
  /\ phase = "running" /\ open = {} /\ verdict = last
  /\ phase' = "idle"
  /\ UNCHANGED <<size, open, last, verdict>>

\* The line is abandoned before any of it ran.
Abandon ==
  /\ phase = "running" /\ open = 1..size /\ last = None
  /\ phase' = "idle" /\ open' = {}
  /\ UNCHANGED <<size, last, verdict>>

Quit == phase = "idle" /\ phase' = "gone" /\ UNCHANGED <<size, open, last, verdict>>

Next ==
  \/ \E n \in 1..MaxLen : Begin(n)
  \/ \E i \in open, c \in Status : Finish(i, c)
  \/ Report \/ Return \/ Abandon \/ Quit

Spec == Init /\ [][Next]_vars
=============================================================================
