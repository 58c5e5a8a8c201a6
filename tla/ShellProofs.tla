---------------------------- MODULE ShellProofs -----------------------------
(***************************************************************************)
(* One line after another, for any lines, variables, files and programs:   *)
(* each is freed as often as it should be, a refused one leaves 2 and runs *)
(* nothing, no line is dropped for the interruption of an earlier one, and *)
(* the shell leaves with what exit was asked for.                          *)
(***************************************************************************)
EXTENDS Shell, QuoteProofs

Sequence(s) == \E S : s \in Seq(S)

\* What the invariant needs beyond IInv: the range of the variables it reads.
Typing ==
  /\ pc \in {"prompt", "open", "tokens", "parse", "dispatch", "list", "waitpid", "done",
             "ended", "crashed"}
  /\ mode \in {"loop", "c"} /\ status \in 0..255 /\ env \in Lists
  /\ DOMAIN t = Fields /\ Sequence(head)
  /\ current # None => DOMAIN current = {"argv", "redirs", "contrasting"}

\* The parts of IInv that do not look at the values of the tokens.
SessionInv ==
  /\ LineInv /\ HdcInv /\ ErrorInv /\ ParseInv
  /\ RefusedLeavesTwo /\ ListWellFormed /\ StatusIsChilds /\ OwnInterruption /\ LineFreedOnce

Inv == Typing /\ SessionInv

LEMMA AppendAny ==
  ASSUME NEW s, Sequence(s), NEW e
  PROVE  /\ Sequence(Append(s, e)) /\ Len(s) \in Nat
         /\ DOMAIN s = 1..Len(s) /\ DOMAIN Append(s, e) = 1..Len(s) + 1
         /\ Len(Append(s, e)) = Len(s) + 1
         /\ \A i \in 1..Len(s) : Append(s, e)[i] = s[i]
         /\ Append(s, e)[Len(s) + 1] = e
<1>1. PICK S : s \in Seq(S)
  BY DEF Sequence
<1> DEFINE T == S \cup {e}
<1>2. s \in Seq(T) /\ e \in T
  BY <1>1
<1> HIDE DEF T
<1>3. Append(s, e) \in Seq(T)
  BY <1>2
<1> QED BY <1>2, <1>3 DEF Sequence

LEMMA InitInv == Init => Inv
<1> SUFFICES ASSUME Init PROVE Inv
  OBVIOUS
<1>1. Sequence(<<>>)
  BY DEF Sequence
<1>2. DOMAIN t = Fields
  BY StructStarts DEF Init
<1>3. Typing
  BY <1>1, <1>2, ValuesAssumption DEF Init, Typing
<1>4. LineInv /\ HdcInv /\ ErrorInv /\ ParseInv
  BY DEF Init, LineInv, HdcInv, ErrorInv, ParseInv
<1>5. RefusedLeavesTwo /\ ListWellFormed /\ StatusIsChilds /\ OwnInterruption /\ LineFreedOnce
  BY DEF Init, RefusedLeavesTwo, ListWellFormed, StatusIsChilds, OwnInterruption, LineFreedOnce,
         Back
<1> QED BY <1>3, <1>4, <1>5 DEF Inv, SessionInv

LEMMA EmptyText == TextOf(<<>>) = <<>>
<1> DEFINE f == [i \in DOMAIN <<>> |-> (<<>>[i]).text]
<1>1. f = <<>>
  OBVIOUS
<1>2. TextOf(<<>>) = FlattenSeq(f)
  BY DEF TextOf
<1> HIDE DEF f
<1> QED BY <1>1, <1>2 DEF FlattenSeq

LEMMA PathStatusByte == \A path : PathStatus(path) \subseteq 0..255
BY ShellAssumption DEF PathStatus

LEMMA LastStatusByte == \A cmd : LastStatus(cmd) \subseteq 0..255
<1> SUFFICES ASSUME NEW cmd PROVE LastStatus(cmd) \subseteq 0..255
  OBVIOUS
<1> DEFINE path == CommandPath(cmd.argv[1])
           some == IF cmd.argv # <<>> /\ cmd.argv[1] \in Builtins THEN Codes
                   ELSE IF cmd.argv = <<>> \/ path = None THEN {0}
                   ELSE PathStatus(path)
<1>1. LastStatus(cmd) = (IF cmd.redirs = <<>> THEN {} ELSE {1}) \cup some
  BY DEF LastStatus
<1>2. some \in {{0}, Codes, PathStatus(path)}
  OBVIOUS
<1>3. {0} \subseteq 0..255 /\ Codes \subseteq 0..255 /\ PathStatus(path) \subseteq 0..255
  <2>1. Codes \subseteq 0..255
    BY ShellAssumption
  <2> QED BY <2>1, PathStatusByte
<1>4. some \subseteq 0..255
  BY <1>2, <1>3
<1> DEFINE redir == IF cmd.redirs = <<>> THEN {} ELSE {1}
<1>5. redir \subseteq 0..255
  OBVIOUS
<1> HIDE DEF some, path, redir
<1>6. LastStatus(cmd) = redir \cup some
  BY <1>1 DEF redir
<1> QED BY <1>4, <1>5, <1>6

LEMMA NextInv == Inv /\ [Next]_vars => Inv'
<1> SUFFICES ASSUME Inv, [Next]_vars PROVE Inv'
  OBVIOUS
<1> USE DEF Inv, SessionInv, vars, tokVars, parseVars, lineVars, shVars
<1>1. CASE ReadLine
  <2>1. Typing'
    BY StructStarts, <1>1 DEF ReadLine, Typing
  <2>2. LineInv'
    BY <1>1 DEF ReadLine, LineInv, Typing
  <2>3. HdcInv'
    BY <1>1 DEF ReadLine, HdcInv, Typing
  <2>4. ErrorInv'
    BY <1>1 DEF ReadLine, ErrorInv, Fails, QuoteOpen, Text0, Typing
  <2>5. ParseInv'
    BY <1>1 DEF ReadLine, ParseInv, Contrasting, Typing
  <2>6. (RefusedLeavesTwo /\ ListWellFormed)'
    BY <1>1 DEF ReadLine, RefusedLeavesTwo, ListWellFormed, Back, Fails, QuoteOpen, Contrasting, ErrorInv, LineInv, ParseInv, Typing
  <2>7. (StatusIsChilds /\ OwnInterruption)'
    BY <1>1 DEF ReadLine, StatusIsChilds, OwnInterruption, LineInv, HdcInv, Typing
  <2>8. LineFreedOnce'
    BY <1>1 DEF ReadLine, LineFreedOnce, Back, LineInv, Typing
  <2> QED BY <2>1, <2>2, <2>3, <2>4, <2>5, <2>6, <2>7, <2>8
<1>2. CASE Eof
  <2>1. Typing'
    BY <1>2 DEF Eof, Typing
  <2>2. LineInv'
    BY <1>2 DEF Eof, LineInv, Typing
  <2>3. HdcInv'
    BY <1>2 DEF Eof, HdcInv, Typing
  <2>4. ErrorInv'
    BY <1>2 DEF Eof, ErrorInv, Fails, QuoteOpen, Text0, Typing
  <2>5. ParseInv'
    BY <1>2 DEF Eof, ParseInv, Contrasting, Typing
  <2>6. (RefusedLeavesTwo /\ ListWellFormed)'
    BY <1>2 DEF Eof, RefusedLeavesTwo, ListWellFormed, Back, Fails, QuoteOpen, Contrasting, ErrorInv, LineInv, ParseInv, Typing
  <2>7. (StatusIsChilds /\ OwnInterruption)'
    BY <1>2 DEF Eof, StatusIsChilds, OwnInterruption, LineInv, HdcInv, Typing
  <2>8. LineFreedOnce'
    BY <1>2 DEF Eof, LineFreedOnce, Back, LineInv, Typing
  <2> QED BY <2>1, <2>2, <2>3, <2>4, <2>5, <2>6, <2>7, <2>8
<1>3. CASE Interrupt
  <2>1. Typing'
    BY <1>3 DEF Interrupt, Typing
  <2>2. LineInv'
    BY <1>3 DEF Interrupt, LineInv, Typing
  <2>3. HdcInv'
    BY <1>3 DEF Interrupt, HdcInv, Typing
  <2>4. ErrorInv'
    BY <1>3 DEF Interrupt, ErrorInv, Fails, QuoteOpen, Text0, Typing
  <2>5. ParseInv'
    BY <1>3 DEF Interrupt, ParseInv, Contrasting, Typing
  <2>6. (RefusedLeavesTwo /\ ListWellFormed)'
    BY <1>3 DEF Interrupt, RefusedLeavesTwo, ListWellFormed, Back, Fails, QuoteOpen, Contrasting, ErrorInv, LineInv, ParseInv, Typing
  <2>7. (StatusIsChilds /\ OwnInterruption)'
    BY <1>3 DEF Interrupt, StatusIsChilds, OwnInterruption, LineInv, HdcInv, Typing
  <2>8. LineFreedOnce'
    BY <1>3 DEF Interrupt, LineFreedOnce, Back, LineInv, Typing
  <2> QED BY <2>1, <2>2, <2>3, <2>4, <2>5, <2>6, <2>7, <2>8
<1>4. CASE Stopped
  <2>1. Typing'
    BY <1>4 DEF Stopped, Typing
  <2>2. LineInv'
    BY <1>4 DEF Stopped, LineInv, Typing
  <2>3. HdcInv'
    BY <1>4 DEF Stopped, HdcInv, Typing
  <2>4. ErrorInv'
    BY <1>4 DEF Stopped, ErrorInv, Fails, QuoteOpen, Text0, Typing
  <2>5. ParseInv'
    BY <1>4 DEF Stopped, ParseInv, Contrasting, Typing
  <2>6. (RefusedLeavesTwo /\ ListWellFormed)'
    BY <1>4 DEF Stopped, RefusedLeavesTwo, ListWellFormed, Back, Fails, QuoteOpen, Contrasting, ErrorInv, LineInv, ParseInv, Typing
  <2>7. (StatusIsChilds /\ OwnInterruption)'
    BY <1>4 DEF Stopped, StatusIsChilds, OwnInterruption, LineInv, HdcInv, Typing
  <2>8. LineFreedOnce'
    BY <1>4 DEF Stopped, LineFreedOnce, Back, LineInv, Typing
  <2> QED BY <2>1, <2>2, <2>3, <2>4, <2>5, <2>6, <2>7, <2>8
<1>5. CASE CheckInput
  <2>1. Typing'
    BY <1>5 DEF CheckInput, Typing
  <2>2. LineInv'
    BY <1>5 DEF CheckInput, LineInv, Typing
  <2>3. HdcInv'
    BY <1>5 DEF CheckInput, HdcInv, Typing
  <2>4. ErrorInv'
    BY StructStarts, <1>5 DEF CheckInput, ErrorInv, Fails, QuoteOpen, Text0, Typing
  <2>5. ParseInv'
    BY <1>5 DEF CheckInput, ParseInv, Contrasting, Typing
  <2>6. (RefusedLeavesTwo /\ ListWellFormed)'
    BY <1>5 DEF CheckInput, RefusedLeavesTwo, ListWellFormed, Back, Fails, QuoteOpen, Contrasting, ErrorInv, LineInv, ParseInv, Typing
  <2>7. (StatusIsChilds /\ OwnInterruption)'
    BY <1>5 DEF CheckInput, StatusIsChilds, OwnInterruption, LineInv, HdcInv, Typing
  <2>8. LineFreedOnce'
    BY <1>5 DEF CheckInput, LineFreedOnce, Back, LineInv, Typing
  <2> QED BY <2>1, <2>2, <2>3, <2>4, <2>5, <2>6, <2>7, <2>8
<1>6. CASE TokensReturn
  <2>1. Typing'
    BY <1>6 DEF TokensReturn, Typing
  <2>2. LineInv'
    BY <1>6 DEF TokensReturn, LineInv, Typing
  <2>3. HdcInv'
    BY <1>6 DEF TokensReturn, HdcInv, Typing
  <2>4. ErrorInv'
    BY <1>6 DEF TokensReturn, ErrorInv, Fails, QuoteOpen, Text0, Typing
  <2>5. ParseInv'
    BY <1>6 DEF TokensReturn, ParseInv, Contrasting, Typing, ErrorInv
  <2>6. (RefusedLeavesTwo /\ ListWellFormed)'
    BY <1>6 DEF TokensReturn, RefusedLeavesTwo, ListWellFormed, Back, Fails, QuoteOpen, Contrasting, ErrorInv, LineInv, ParseInv, Typing
  <2>7. (StatusIsChilds /\ OwnInterruption)'
    BY <1>6 DEF TokensReturn, StatusIsChilds, OwnInterruption, LineInv, HdcInv, Typing
  <2>8. LineFreedOnce'
    BY <1>6 DEF TokensReturn, LineFreedOnce, Back, LineInv, Typing
  <2> QED BY <2>1, <2>2, <2>3, <2>4, <2>5, <2>6, <2>7, <2>8
<1>7. CASE ParticularCase
  <2>1. Typing'
    BY <1>7 DEF ParticularCase, Done, Particular, Typing
  <2>2. LineInv'
    BY <1>7 DEF ParticularCase, Done, Particular, LineInv, Typing
  <2>3. HdcInv'
    BY <1>7 DEF ParticularCase, Done, Particular, HdcInv, Typing
  <2>4. ErrorInv'
    BY <1>7 DEF ParticularCase, Done, Particular, ErrorInv, Fails, QuoteOpen, Text0, Typing
  <2>5. ParseInv'
    BY <1>7 DEF ParticularCase, Done, Particular, ParseInv, Contrasting, Typing
  <2>6. (RefusedLeavesTwo /\ ListWellFormed)'
    BY <1>7 DEF ParticularCase, Done, Particular, RefusedLeavesTwo, ListWellFormed, Back, Fails, QuoteOpen, Contrasting, ErrorInv, LineInv, ParseInv, Typing
  <2>7. (StatusIsChilds /\ OwnInterruption)'
    BY <1>7 DEF ParticularCase, Done, Particular, StatusIsChilds, OwnInterruption, LineInv, HdcInv, Typing
  <2>8. LineFreedOnce'
    BY <1>7 DEF ParticularCase, Done, Particular, LineFreedOnce, Back, LineInv, Typing
  <2> QED BY <2>1, <2>2, <2>3, <2>4, <2>5, <2>6, <2>7, <2>8
<1>8. CASE DropContrasting
  <2>1. Typing'
    BY <1>8 DEF DropContrasting, Done, Typing
  <2>2. LineInv'
    BY <1>8 DEF DropContrasting, Done, LineInv, Typing
  <2>3. HdcInv'
    BY <1>8 DEF DropContrasting, Done, HdcInv, Typing
  <2>4. ErrorInv'
    BY <1>8 DEF DropContrasting, Done, ErrorInv, Fails, QuoteOpen, Text0, Typing
  <2>5. ParseInv'
    BY <1>8 DEF DropContrasting, Done, ParseInv, Contrasting, Typing
  <2>6. (RefusedLeavesTwo /\ ListWellFormed)'
    BY <1>8 DEF DropContrasting, Done, RefusedLeavesTwo, ListWellFormed, Back, Fails, QuoteOpen, Contrasting, ErrorInv, LineInv, ParseInv, Typing
  <2>7. (StatusIsChilds /\ OwnInterruption)'
    BY <1>8 DEF DropContrasting, Done, StatusIsChilds, OwnInterruption, LineInv, HdcInv, Typing
  <2>8. LineFreedOnce'
    BY <1>8 DEF DropContrasting, Done, LineFreedOnce, Back, LineInv, Typing
  <2> QED BY <2>1, <2>2, <2>3, <2>4, <2>5, <2>6, <2>7, <2>8
<1>9. CASE BuiltinExit
  <2>1. Typing'
    BY <1>9 DEF BuiltinExit, Typing
  <2>2. LineInv'
    BY <1>9 DEF BuiltinExit, LineInv, Typing
  <2>3. HdcInv'
    BY <1>9 DEF BuiltinExit, HdcInv, Typing
  <2>4. ErrorInv'
    BY <1>9 DEF BuiltinExit, ErrorInv, Fails, QuoteOpen, Text0, Typing
  <2>5. ParseInv'
    BY <1>9 DEF BuiltinExit, ParseInv, Contrasting, Typing
  <2>6. (RefusedLeavesTwo /\ ListWellFormed)'
    BY <1>9 DEF BuiltinExit, RefusedLeavesTwo, ListWellFormed, Back, Fails, QuoteOpen, Contrasting, ErrorInv, LineInv, ParseInv, Typing
  <2>7. (StatusIsChilds /\ OwnInterruption)'
    BY <1>9 DEF BuiltinExit, StatusIsChilds, OwnInterruption, LineInv, HdcInv, Typing
  <2>8. LineFreedOnce'
    BY <1>9 DEF BuiltinExit, LineFreedOnce, Back, LineInv, Typing
  <2> QED BY <2>1, <2>2, <2>3, <2>4, <2>5, <2>6, <2>7, <2>8
<1>10. CASE RunBuiltin
  <2>1. Typing'
    BY ShellAssumption, <1>10 DEF RunBuiltin, Done, Simple, Typing
  <2>2. LineInv'
    BY <1>10 DEF RunBuiltin, Done, Simple, LineInv, Typing
  <2>3. HdcInv'
    BY <1>10 DEF RunBuiltin, Done, Simple, HdcInv, Typing
  <2>4. ErrorInv'
    BY <1>10 DEF RunBuiltin, Done, Simple, ErrorInv, Fails, QuoteOpen, Text0, Typing
  <2>5. ParseInv'
    BY <1>10 DEF RunBuiltin, Done, Simple, ParseInv, Contrasting, Typing
  <2>6. (RefusedLeavesTwo /\ ListWellFormed)'
    BY <1>10 DEF RunBuiltin, Done, Simple, RefusedLeavesTwo, ListWellFormed, Back, Fails, QuoteOpen, Contrasting, ErrorInv, LineInv, ParseInv, Typing
  <2>7. (StatusIsChilds /\ OwnInterruption)'
    BY <1>10 DEF RunBuiltin, Done, Simple, StatusIsChilds, OwnInterruption, LineInv, HdcInv, Typing
  <2>8. LineFreedOnce'
    BY <1>10 DEF RunBuiltin, Done, Simple, LineFreedOnce, Back, LineInv, Typing
  <2> QED BY <2>1, <2>2, <2>3, <2>4, <2>5, <2>6, <2>7, <2>8
<1>11. CASE NotFound
  <2>1. Typing'
    BY <1>11 DEF NotFound, Done, Simple, Typing
  <2>2. LineInv'
    BY <1>11 DEF NotFound, Done, Simple, LineInv, Typing
  <2>3. HdcInv'
    BY <1>11 DEF NotFound, Done, Simple, HdcInv, Typing
  <2>4. ErrorInv'
    BY <1>11 DEF NotFound, Done, Simple, ErrorInv, Fails, QuoteOpen, Text0, Typing
  <2>5. ParseInv'
    BY <1>11 DEF NotFound, Done, Simple, ParseInv, Contrasting, Typing
  <2>6. (RefusedLeavesTwo /\ ListWellFormed)'
    BY <1>11 DEF NotFound, Done, Simple, RefusedLeavesTwo, ListWellFormed, Back, Fails, QuoteOpen, Contrasting, ErrorInv, LineInv, ParseInv, Typing
  <2>7. (StatusIsChilds /\ OwnInterruption)'
    BY <1>11 DEF NotFound, Done, Simple, StatusIsChilds, OwnInterruption, LineInv, HdcInv, Typing
  <2>8. LineFreedOnce'
    BY <1>11 DEF NotFound, Done, Simple, LineFreedOnce, Back, LineInv, Typing
  <2> QED BY <2>1, <2>2, <2>3, <2>4, <2>5, <2>6, <2>7, <2>8
<1>12. CASE ForkChild
  <2>1. Typing'
    BY <1>12 DEF ForkChild, Done, Simple, Typing
  <2>2. LineInv'
    BY PathStatusByte, <1>12 DEF ForkChild, Done, Simple, LineInv, Typing
  <2>3. HdcInv'
    BY <1>12 DEF ForkChild, Done, Simple, HdcInv, Typing
  <2>4. ErrorInv'
    BY <1>12 DEF ForkChild, Done, Simple, ErrorInv, Fails, QuoteOpen, Text0, Typing
  <2>5. ParseInv'
    BY <1>12 DEF ForkChild, Done, Simple, ParseInv, Contrasting, Typing
  <2>6. (RefusedLeavesTwo /\ ListWellFormed)'
    BY <1>12 DEF ForkChild, Done, Simple, RefusedLeavesTwo, ListWellFormed, Back, Fails, QuoteOpen, Contrasting, ErrorInv, LineInv, ParseInv, Typing
  <2>7. (StatusIsChilds /\ OwnInterruption)'
    BY <1>12 DEF ForkChild, Done, Simple, StatusIsChilds, OwnInterruption, LineInv, HdcInv, Typing
  <2>8. LineFreedOnce'
    BY <1>12 DEF ForkChild, Done, Simple, LineFreedOnce, Back, LineInv, Typing
  <2> QED BY <2>1, <2>2, <2>3, <2>4, <2>5, <2>6, <2>7, <2>8
<1>13. CASE WaitPid
  <2>1. Typing'
    BY <1>13 DEF WaitPid, Typing, LineInv
  <2>2. LineInv'
    BY <1>13 DEF WaitPid, LineInv, Typing
  <2>3. HdcInv'
    BY <1>13 DEF WaitPid, HdcInv, Typing
  <2>4. ErrorInv'
    BY <1>13 DEF WaitPid, ErrorInv, Fails, QuoteOpen, Text0, Typing
  <2>5. ParseInv'
    BY <1>13 DEF WaitPid, ParseInv, Contrasting, Typing
  <2>6. (RefusedLeavesTwo /\ ListWellFormed)'
    BY <1>13 DEF WaitPid, RefusedLeavesTwo, ListWellFormed, Back, Fails, QuoteOpen, Contrasting, ErrorInv, LineInv, ParseInv, Typing
  <2>7. (StatusIsChilds /\ OwnInterruption)'
    BY <1>13 DEF WaitPid, StatusIsChilds, OwnInterruption, LineInv, HdcInv, Typing
  <2>8. LineFreedOnce'
    BY <1>13 DEF WaitPid, LineFreedOnce, Back, LineInv, Typing
  <2> QED BY <2>1, <2>2, <2>3, <2>4, <2>5, <2>6, <2>7, <2>8
<1>14. CASE WaitPidInterrupted
  <2>1. Typing'
    BY ShellAssumption, <1>14 DEF WaitPidInterrupted, Typing
  <2>2. LineInv'
    BY <1>14 DEF WaitPidInterrupted, LineInv, Typing
  <2>3. HdcInv'
    BY <1>14 DEF WaitPidInterrupted, HdcInv, Typing
  <2>4. ErrorInv'
    BY <1>14 DEF WaitPidInterrupted, ErrorInv, Fails, QuoteOpen, Text0, Typing
  <2>5. ParseInv'
    BY <1>14 DEF WaitPidInterrupted, ParseInv, Contrasting, Typing
  <2>6. (RefusedLeavesTwo /\ ListWellFormed)'
    BY <1>14 DEF WaitPidInterrupted, RefusedLeavesTwo, ListWellFormed, Back, Fails, QuoteOpen, Contrasting, ErrorInv, LineInv, ParseInv, Typing
  <2>7. (StatusIsChilds /\ OwnInterruption)'
    BY <1>14 DEF WaitPidInterrupted, StatusIsChilds, OwnInterruption, LineInv, HdcInv, Typing
  <2>8. LineFreedOnce'
    BY <1>14 DEF WaitPidInterrupted, LineFreedOnce, Back, LineInv, Typing
  <2> QED BY <2>1, <2>2, <2>3, <2>4, <2>5, <2>6, <2>7, <2>8
<1>15. CASE StartList
  <2>1. Typing'
    BY <1>15 DEF StartList, Typing
  <2>2. LineInv'
    BY <1>15 DEF StartList, LineInv, Typing
  <2>3. HdcInv'
    BY <1>15 DEF StartList, HdcInv, Typing
  <2>4. ErrorInv'
    BY <1>15 DEF StartList, ErrorInv, Fails, QuoteOpen, Text0, Typing
  <2>5. ParseInv'
    BY <1>15 DEF StartList, ParseInv, Contrasting, Typing
  <2>6. (RefusedLeavesTwo /\ ListWellFormed)'
    BY <1>15 DEF StartList, RefusedLeavesTwo, ListWellFormed, Back, Fails, QuoteOpen, Contrasting, ErrorInv, LineInv, ParseInv, Typing
  <2>7. (StatusIsChilds /\ OwnInterruption)'
    BY <1>15 DEF StartList, StatusIsChilds, OwnInterruption, LineInv, HdcInv, Typing
  <2>8. LineFreedOnce'
    BY <1>15 DEF StartList, LineFreedOnce, Back, LineInv, Typing
  <2> QED BY <2>1, <2>2, <2>3, <2>4, <2>5, <2>6, <2>7, <2>8
<1>16. CASE HeredocsAbandoned
  <2>1. Typing'
    BY <1>16 DEF HeredocsAbandoned, Done, Typing
  <2>2. LineInv'
    BY <1>16 DEF HeredocsAbandoned, Done, LineInv, Typing
  <2>3. HdcInv'
    BY <1>16 DEF HeredocsAbandoned, Done, HdcInv, Typing
  <2>4. ErrorInv'
    BY <1>16 DEF HeredocsAbandoned, Done, ErrorInv, Fails, QuoteOpen, Text0, Typing
  <2>5. ParseInv'
    BY <1>16 DEF HeredocsAbandoned, Done, ParseInv, Contrasting, Typing
  <2>6. (RefusedLeavesTwo /\ ListWellFormed)'
    BY <1>16 DEF HeredocsAbandoned, Done, RefusedLeavesTwo, ListWellFormed, Back, Fails, QuoteOpen, Contrasting, ErrorInv, LineInv, ParseInv, Typing
  <2>7. (StatusIsChilds /\ OwnInterruption)'
    BY <1>16 DEF HeredocsAbandoned, Done, StatusIsChilds, OwnInterruption, LineInv, HdcInv, Typing
  <2>8. LineFreedOnce'
    BY <1>16 DEF HeredocsAbandoned, Done, LineFreedOnce, Back, LineInv, Typing
  <2> QED BY <2>1, <2>2, <2>3, <2>4, <2>5, <2>6, <2>7, <2>8
<1>17. CASE ListDropped
  <2>1. Typing'
    BY <1>17 DEF ListDropped, Done, Typing
  <2>2. LineInv'
    BY <1>17 DEF ListDropped, Done, LineInv, Typing
  <2>3. HdcInv'
    BY <1>17 DEF ListDropped, Done, HdcInv, Typing
  <2>4. ErrorInv'
    BY <1>17 DEF ListDropped, Done, ErrorInv, Fails, QuoteOpen, Text0, Typing
  <2>5. ParseInv'
    BY <1>17 DEF ListDropped, Done, ParseInv, Contrasting, Typing
  <2>6. (RefusedLeavesTwo /\ ListWellFormed)'
    BY <1>17 DEF ListDropped, Done, RefusedLeavesTwo, ListWellFormed, Back, Fails, QuoteOpen, Contrasting, ErrorInv, LineInv, ParseInv, Typing
  <2>7. (StatusIsChilds /\ OwnInterruption)'
    BY <1>17 DEF ListDropped, Done, StatusIsChilds, OwnInterruption, LineInv, HdcInv, Typing
  <2>8. LineFreedOnce'
    BY <1>17 DEF ListDropped, Done, LineFreedOnce, Back, LineInv, Typing
  <2> QED BY <2>1, <2>2, <2>3, <2>4, <2>5, <2>6, <2>7, <2>8
<1>18. CASE RunList
  <2>1. Typing'
    BY LastStatusByte, <1>18 DEF RunList, Done, Typing
  <2>2. LineInv'
    BY <1>18 DEF RunList, Done, LineInv, Typing
  <2>3. HdcInv'
    BY <1>18 DEF RunList, Done, HdcInv, Typing
  <2>4. ErrorInv'
    BY <1>18 DEF RunList, Done, ErrorInv, Fails, QuoteOpen, Text0, Typing
  <2>5. ParseInv'
    BY <1>18 DEF RunList, Done, ParseInv, Contrasting, Typing
  <2>6. (RefusedLeavesTwo /\ ListWellFormed)'
    BY <1>18 DEF RunList, Done, RefusedLeavesTwo, ListWellFormed, Back, Fails, QuoteOpen, Contrasting, ErrorInv, LineInv, ParseInv, Typing
  <2>7. (StatusIsChilds /\ OwnInterruption)'
    BY <1>18 DEF RunList, Done, StatusIsChilds, OwnInterruption, LineInv, HdcInv, Typing
  <2>8. LineFreedOnce'
    BY <1>18 DEF RunList, Done, LineFreedOnce, Back, LineInv, Typing
  <2> QED BY <2>1, <2>2, <2>3, <2>4, <2>5, <2>6, <2>7, <2>8
<1>19. CASE NextLine
  <2>seq. Sequence(<<>>)
    BY DEF Sequence
  <2>1. Typing'
    BY StructStarts, <2>seq, <1>19 DEF NextLine, Typing
  <2>2. LineInv'
    BY <1>19 DEF NextLine, LineInv, Typing
  <2>3. HdcInv'
    BY <1>19 DEF NextLine, HdcInv, Typing
  <2>4. ErrorInv'
    BY EmptyText, <1>19 DEF NextLine, ErrorInv, Fails, QuoteOpen, Text0, Typing
  <2>5. ParseInv'
    BY <1>19 DEF NextLine, ParseInv, Contrasting, Typing
  <2>6. (RefusedLeavesTwo /\ ListWellFormed)'
    BY <1>19 DEF NextLine, RefusedLeavesTwo, ListWellFormed, Back, Fails, QuoteOpen, Contrasting, ErrorInv, LineInv, ParseInv, Typing
  <2>7. (StatusIsChilds /\ OwnInterruption)'
    BY <1>19 DEF NextLine, StatusIsChilds, OwnInterruption, LineInv, HdcInv, Typing
  <2>8. LineFreedOnce'
    BY <1>19 DEF NextLine, LineFreedOnce, Back, LineInv, Typing
  <2> QED BY <2>1, <2>2, <2>3, <2>4, <2>5, <2>6, <2>7, <2>8
<1>20. CASE ReturnFromC
  <2>1. Typing'
    BY <1>20 DEF ReturnFromC, Typing
  <2>2. LineInv'
    BY <1>20 DEF ReturnFromC, LineInv, Typing
  <2>3. HdcInv'
    BY <1>20 DEF ReturnFromC, HdcInv, Typing
  <2>4. ErrorInv'
    BY <1>20 DEF ReturnFromC, ErrorInv, Fails, QuoteOpen, Text0, Typing
  <2>5. ParseInv'
    BY <1>20 DEF ReturnFromC, ParseInv, Contrasting, Typing
  <2>6. (RefusedLeavesTwo /\ ListWellFormed)'
    BY <1>20 DEF ReturnFromC, RefusedLeavesTwo, ListWellFormed, Back, Fails, QuoteOpen, Contrasting, ErrorInv, LineInv, ParseInv, Typing
  <2>7. (StatusIsChilds /\ OwnInterruption)'
    BY <1>20 DEF ReturnFromC, StatusIsChilds, OwnInterruption, LineInv, HdcInv, Typing
  <2>8. LineFreedOnce'
    BY <1>20 DEF ReturnFromC, LineFreedOnce, Back, LineInv, Typing
  <2> QED BY <2>1, <2>2, <2>3, <2>4, <2>5, <2>6, <2>7, <2>8
<1>21. CASE TokenStep
  <2>1. pc = "tokens" /\ Tokenize /\ UNCHANGED <<env, parseVars, lineVars, shVars>>
    BY <1>21 DEF TokenStep
  <2>2. TokInv
    BY <2>1 DEF Typing, ErrorInv, TokInv
  <2>3. TokInv'
    BY <2>1, <2>2, TokenizeKeeps
  <2>4. status' \in {2, status}
    BY <2>1 DEF Tokenize, ReadQuotes, CheckVar, OpenQuotes, ReadVar, ReadMeta, ReadTail, EndTokens
  <2>5. Typing'
    BY <2>1, <2>3, <2>4 DEF Typing, TokInv
  <2>6. (LineInv /\ HdcInv /\ ParseInv)'
    BY <2>1 DEF LineInv, HdcInv, ParseInv
  <2>7. ErrorInv'
    BY <2>1, <2>3 DEF ErrorInv, TokInv
  <2>8. (RefusedLeavesTwo /\ ListWellFormed /\ StatusIsChilds /\ OwnInterruption /\ LineFreedOnce)'
    BY <2>1 DEF LineInv, RefusedLeavesTwo, ListWellFormed, StatusIsChilds, OwnInterruption,
                LineFreedOnce, Back
  <2> QED BY <2>5, <2>6, <2>7, <2>8
<1>22. CASE ParseStep
  <2>1. /\ pc = "parse" /\ Parse /\ UNCHANGED <<tokVars, lineVars, mode, handler, hdcInterrupted, code>>
        /\ pc' = IF rest = <<>> THEN "dispatch" ELSE "parse"
    BY <1>22 DEF ParseStep
  <2>2. /\ DOMAIN Current = {"argv", "redirs", "contrasting"}
        /\ Current.contrasting => status = 2
    BY <2>1 DEF Current, InitCommand, Typing, ParseInv
  <2>3. /\ status' \in {2, status} /\ (status = 2 => status' = 2)
        /\ current' # None => DOMAIN current' = {"argv", "redirs", "contrasting"}
        /\ current' # None /\ current'.contrasting => status' = 2
        /\ \/ head' = head
           \/ /\ rest = <<>> /\ current # None /\ current = Current
              /\ head' = Append(head, Current)
           \/ /\ rest # <<>> /\ Current.argv # <<>>
              /\ head' = Append(head, Current)
    <3>1. CASE HandleRedirToken
      BY <3>1, <2>2 DEF HandleRedirToken, AddRedir
    <3>2. CASE HandlePipeToken
      BY <3>2, <2>2 DEF HandlePipeToken
    <3>3. CASE HandleWord
      BY <3>3, <2>2 DEF HandleWord, AddArgument
    <3>4. CASE EndParse
      BY <3>4, <2>2 DEF EndParse, Current
    <3> QED BY <2>1, <3>1, <3>2, <3>3, <3>4 DEF Parse
  <2>4. Sequence(head) /\ \A i \in DOMAIN head : head[i].argv # <<>>
    BY <2>1 DEF Typing, ParseInv
  <2>5. /\ Sequence(head')
        /\ pc' = "parse" => \A i \in DOMAIN head' : head'[i].argv # <<>>
        /\ \A i \in 1..Len(head') - 1 : head'[i].argv # <<>>
        /\ Contrasting' => status' = 2
    <3>1. DOMAIN head = 1..Len(head) /\ Len(head) \in Nat
      BY <2>4, AppendAny
    <3>2. CASE head' = head
      BY <2>1, <2>3, <2>4, <3>1, <3>2 DEF Contrasting, ParseInv
    <3>3. CASE head' = Append(head, Current)
      <4>1. /\ Sequence(head') /\ DOMAIN head' = 1..Len(head) + 1 /\ Len(head') = Len(head) + 1
            /\ \A i \in 1..Len(head) : head'[i] = head[i]
            /\ head'[Len(head) + 1] = Current
        BY <2>4, <3>3, AppendAny
      <4>2. \A i \in 1..Len(head') - 1 : head'[i].argv # <<>>
        BY <2>4, <3>1, <4>1
      <4>3. ASSUME pc' = "parse" PROVE \A i \in DOMAIN head' : head'[i].argv # <<>>
        <5>1. rest # <<>>
          BY <2>1, <4>3
        <5>2. head' = head \/ Current.argv # <<>>
          BY <2>3, <5>1
        <5>3. CASE head' = head
          BY <2>4, <5>3
        <5>4. CASE Current.argv # <<>>
          BY <2>4, <3>1, <4>1, <5>4
        <5> QED BY <5>2, <5>3, <5>4
      <4>4. Contrasting' => status' = 2
        BY <2>1, <2>2, <2>3, <3>1, <4>1 DEF Contrasting, ParseInv
      <4> QED BY <4>1, <4>2, <4>3, <4>4
    <3> QED BY <2>3, <3>2, <3>3
  <2>6. Typing'
    BY <2>1, <2>3, <2>5 DEF Typing
  <2>7. (LineInv /\ HdcInv)'
    BY <2>1 DEF LineInv, HdcInv
  <2>8. ErrorInv'
    BY <2>1 DEF ErrorInv, Fails, QuoteOpen
  <2>9. ParseInv'
    BY <2>1, <2>3, <2>5 DEF ParseInv
  <2>10. (RefusedLeavesTwo /\ ListWellFormed)'
    BY <2>1, <2>5 DEF RefusedLeavesTwo, ListWellFormed, Back
  <2>11. (StatusIsChilds /\ OwnInterruption /\ LineFreedOnce)'
    BY <2>1 DEF LineInv, StatusIsChilds, OwnInterruption, LineFreedOnce, Back
  <2> QED BY <2>6, <2>7, <2>8, <2>9, <2>10, <2>11
<1>23. CASE UNCHANGED vars
  <2>1. Typing' /\ LineInv' /\ HdcInv'
    BY <1>23 DEF Typing, LineInv, HdcInv
  <2>2. ErrorInv' /\ ParseInv'
    BY <1>23 DEF ErrorInv, Fails, QuoteOpen, Text0, ParseInv, Contrasting
  <2>3. (RefusedLeavesTwo /\ ListWellFormed)'
    BY <1>23 DEF RefusedLeavesTwo, ListWellFormed, Back, Fails, QuoteOpen, Contrasting
  <2>4. (StatusIsChilds /\ OwnInterruption /\ LineFreedOnce)'
    BY <1>23 DEF StatusIsChilds, OwnInterruption, LineFreedOnce, Back
  <2> QED BY <2>1, <2>2, <2>3, <2>4
<1> QED
  BY <1>1, <1>2, <1>3, <1>4, <1>5, <1>6, <1>7, <1>8, <1>9, <1>10, <1>11, <1>12, <1>13, <1>14,
     <1>15, <1>16, <1>17, <1>18, <1>19, <1>20, <1>21, <1>22, <1>23 DEF Next, LineStep, Stopped
----------------------------------------------------------------------------
LEMMA AlwaysInv == Spec => []Inv
<1>1. Init => Inv
  BY InitInv
<1>2. Inv /\ [Next]_vars => Inv'
  BY NextInv
<1> QED BY <1>1, <1>2, PTL DEF Spec

----------------------------------------------------------------------------
(* The cursor of the tokenizer.                                            *)

LEMMA CursorStarts ==
  ASSUME NEW line \in Seq(Char), t' = Struct(line), tpc' = "loop", status' \in 0..255
  PROVE  CursorOk'
<1>1. /\ Typed(t') /\ t'.pos = 0 /\ t'.anchor_pos = 0 /\ t'.input = line
      /\ ~t'.single_quote /\ ~t'.double_quote
  BY StructTyped
<1>2. Len(line) \in Nat
  OBVIOUS
<1> QED BY <1>1, <1>2 DEF CursorOk, CursorInLine, QuoteOpen

LEMMA CursorStep == Inv /\ Inv' /\ CursorOk /\ [Next]_vars => CursorOk'
<1> SUFFICES ASSUME Inv, Inv', CursorOk, [Next]_vars PROVE CursorOk'
  OBVIOUS
<1>0. status' \in 0..255
  BY DEF Inv, Typing
<1>1. CASE ReadLine
  <2>1. TextOf(typed') \in Seq(Char)
    BY <1>1, ShellAssumption DEF ReadLine
  <2>2. t' = Struct(TextOf(typed')) /\ tpc' = "loop"
    BY <1>1 DEF ReadLine, Inv, SessionInv, ErrorInv
  <2> QED BY <1>0, <2>1, <2>2, CursorStarts
<1>2. CASE NextLine
  <2>1. t' = Struct(<<>>) /\ tpc' = "loop" /\ <<>> \in Seq(Char)
    BY <1>2 DEF NextLine
  <2> QED BY <1>0, <2>1, CursorStarts
<1>3. CASE TokenStep
  BY <1>3, TokenizeStep DEF TokenStep, Inv, Typing
<1>4. CASE UNCHANGED <<t, tpc>>
  BY <1>0, <1>4 DEF CursorOk, CursorInLine, QuoteOpen
<1>5. ReadLine \/ NextLine \/ TokenStep \/ UNCHANGED <<t, tpc>>
  <2>1. ASSUME Eof \/ Interrupt \/ Stopped \/ UNCHANGED vars PROVE UNCHANGED <<t, tpc>>
    BY <2>1 DEF Eof, Interrupt, Stopped, vars, tokVars
  <2>2. ASSUME CheckInput \/ TokensReturn \/ ParseStep \/ ParticularCase \/ DropContrasting
               \/ BuiltinExit \/ RunBuiltin \/ NotFound \/ ForkChild \/ WaitPid
        PROVE  UNCHANGED <<t, tpc>>
    BY <2>2 DEF CheckInput, TokensReturn, ParseStep, ParticularCase, DropContrasting, BuiltinExit,
                RunBuiltin, NotFound, ForkChild, WaitPid, tokVars
  <2>3. ASSUME WaitPidInterrupted \/ StartList \/ HeredocsAbandoned \/ ListDropped \/ RunList
               \/ ReturnFromC
        PROVE  UNCHANGED <<t, tpc>>
    BY <2>3 DEF WaitPidInterrupted, StartList, HeredocsAbandoned, ListDropped, RunList,
                ReturnFromC, tokVars
  <2> QED BY <2>1, <2>2, <2>3 DEF Next, LineStep
<1> QED BY <1>1, <1>2, <1>3, <1>4, <1>5

LEMMA AlwaysCursorOk == Spec => []CursorOk
<1>1. Init => CursorOk
  <2> SUFFICES ASSUME Init PROVE CursorOk
    OBVIOUS
  <2>1. t = Struct(TextOf(typed)) /\ tpc = "loop" /\ status \in 0..255
    BY DEF Init, Text0
  <2>2. TextOf(typed) \in Seq(Char)
    <3>1. <<>> \in Seq(Char)
      OBVIOUS
    <3>2. typed = <<>> \/ typed \in Lines
      BY DEF Init
    <3> QED BY <3>1, <3>2, EmptyText, ShellAssumption
  <2>3. PICK line \in Seq(Char) : t = Struct(line)
    BY <2>1, <2>2
  <2>4. /\ Typed(t) /\ t.pos = 0 /\ t.anchor_pos = 0 /\ t.input = line
        /\ ~t.single_quote /\ ~t.double_quote
    BY <2>3, StructTyped
  <2>5. Len(line) \in Nat
    OBVIOUS
  <2> QED BY <2>1, <2>4, <2>5 DEF CursorOk, CursorInLine, QuoteOpen
<1>2. CursorOk /\ Inv /\ Inv' /\ [Next]_vars => CursorOk'
  BY CursorStep
<1> QED BY <1>1, <1>2, AlwaysInv, PTL DEF Spec

----------------------------------------------------------------------------
(* The words of a line without variables.                                  *)

LEMMA WordStarts ==
  ASSUME NEW line, t = Struct(line), tpc = "loop", "$" \notin ToSet(line)
  PROVE  WordInHand
<1>1. t.input = line /\ t.tmp_token = None
  BY DEF Struct
<1> QED BY <1>1 DEF WordInHand

LEMMA WordStep == Inv /\ CursorOk /\ WordInv /\ [Next]_vars => WordInv'
<1> SUFFICES ASSUME Inv, CursorOk, WordInv, [Next]_vars, pc' = "tokens", "$" \notin ToSet(Text0')
             PROVE  WordInHand'
  BY DEF WordInv
<1>1. CASE CheckInput
  <2>1. t = Struct(Text0) /\ tpc = "loop"
    BY <1>1 DEF CheckInput, Inv, SessionInv, ErrorInv
  <2>2. UNCHANGED <<t, tpc, typed>>
    BY <1>1 DEF CheckInput, tokVars
  <2>3. "$" \notin ToSet(Text0)
    BY <2>2 DEF Text0
  <2>4. WordInHand
    BY <2>1, <2>3, WordStarts
  <2> QED BY <2>2, <2>4 DEF WordInHand, Fails, QuoteOpen
<1>2. CASE TokenStep
  <2>1. pc = "tokens" /\ Tokenize /\ UNCHANGED typed
    BY <1>2 DEF TokenStep, lineVars
  <2>2. TokInv
    BY <2>1 DEF Inv, SessionInv, Typing, ErrorInv, TokInv
  <2>3. WordInHand
    BY <2>1 DEF WordInv, Text0
  <2> QED BY <2>1, <2>2, <2>3, TokenizeHolds
<1>3. CASE UNCHANGED vars
  <2>1. pc = "tokens" /\ UNCHANGED <<t, tpc, typed>>
    BY <1>3 DEF vars, tokVars, lineVars, shVars
  <2>2. WordInHand
    BY <2>1 DEF WordInv, Text0
  <2> QED BY <2>1, <2>2 DEF WordInHand, Fails, QuoteOpen
<1>4. CheckInput \/ TokenStep \/ UNCHANGED vars
  <2>1. ~ (ReadLine \/ NextLine \/ Eof)
    BY DEF ReadLine, NextLine, Eof
  <2>i. ~ Interrupt
    <3>1. Interrupt => pc = "prompt" /\ UNCHANGED pc
      BY DEF Interrupt, shVars
    <3> QED BY <3>1
  <2>s. Stopped => UNCHANGED vars
    BY DEF Stopped
  <2>2. ~ (TokensReturn \/ ParseStep \/ ParticularCase \/ DropContrasting \/ BuiltinExit
           \/ RunBuiltin \/ NotFound \/ ForkChild \/ WaitPid)
    BY DEF TokensReturn, ParseStep, ParticularCase, DropContrasting, BuiltinExit, RunBuiltin,
           NotFound, ForkChild, WaitPid, Done
  <2>3. ~ (WaitPidInterrupted \/ StartList \/ HeredocsAbandoned \/ ListDropped \/ RunList
           \/ ReturnFromC)
    BY DEF WaitPidInterrupted, StartList, HeredocsAbandoned, ListDropped, RunList, ReturnFromC, Done
  <2> QED BY <2>1, <2>i, <2>s, <2>2, <2>3 DEF Next, LineStep
<1> QED BY <1>1, <1>2, <1>3, <1>4

LEMMA AlwaysWordInv == Spec => []WordInv
<1>1. Init => WordInv
  BY DEF Init, WordInv
<1>2. Inv /\ CursorOk /\ WordInv /\ [Next]_vars => WordInv'
  BY WordStep
<1> QED BY <1>1, <1>2, AlwaysInv, AlwaysCursorOk, PTL DEF Spec

----------------------------------------------------------------------------
(* The number exit is given: ft_atolli adds up the digits from the last,   *)
(* and wraps on the way; what it returns is congruent to the number.       *)

Width == 2 * (LongMax + 1)

LEMMA WrapIs ==
  ASSUME NEW n \in Int
  PROVE  /\ Wrap(n) \in Int
         /\ \E q \in Int : n = Wrap(n) + q * Width
<1> DEFINE w == 2 * (LongMax + 1)
           m == n + LongMax + 1
<1>1. LongMax \in Nat /\ w \in Nat /\ w > 0 /\ m \in Int
  BY ShellAssumption
<1>2. Wrap(n) = (m % w) - (LongMax + 1)
  BY DEF Wrap
<1> HIDE DEF w
<1>3. m % w \in Int /\ m \div w \in Int /\ m = (m \div w) * w + (m % w)
  BY <1>1
<1>4. n = m - (LongMax + 1)
  BY <1>1
<1> HIDE DEF m
<1>5. PICK q \in Int : q = m \div w
  BY <1>3
<1>6. PICK r \in Int : r = m % w
  BY <1>3
<1>7. m = q * w + r /\ Wrap(n) = r - (LongMax + 1)
  BY <1>2, <1>3, <1>5, <1>6
<1>8. q * w \in Int
  BY <1>1
<1>9. n = Wrap(n) + q * w
  BY <1>1, <1>4, <1>7, <1>8
<1>10. w = Width
  BY DEF w, Width
<1> QED BY <1>1, <1>7, <1>9, <1>10

LEMMA DigitValueIs ==
  ASSUME NEW c \in Digit
  PROVE  DigitValue(c) \in 0..9
<1>1. /\ Figure(0) = "0" /\ Figure(1) = "1" /\ Figure(2) = "2" /\ Figure(3) = "3"
      /\ Figure(4) = "4" /\ Figure(5) = "5" /\ Figure(6) = "6" /\ Figure(7) = "7"
      /\ Figure(8) = "8" /\ Figure(9) = "9"
  BY DEF Figure
<1>2. \E d \in 0..9 : Figure(d) = c
  BY <1>1 DEF Digit
<1> QED BY <1>2 DEF DigitValue

LEMMA WidthIs == Width \in Int /\ \E k \in Int : Width = 256 * k
<1>1. LongMax \in Nat /\ (LongMax + 1) % 256 = 0
  BY ShellAssumption
<1>2. LongMax + 1 = 256 * ((LongMax + 1) \div 256) /\ (LongMax + 1) \div 256 \in Int
  BY <1>1
<1>3. PICK k \in Int : LongMax + 1 = 256 * k
  BY <1>2
<1>4. Width \in Int /\ 2 * k \in Int /\ Width = 256 * (2 * k)
  BY <1>1, <1>3 DEF Width
<1> QED BY <1>4

\* One digit further: what has been added up and what is still to the left of it
\* make the number, but for multiples of the width.
LEMMA OneDigit ==
  ASSUME NEW h \in Int, NEW v \in Int, NEW p \in Int, NEW a \in Int, NEW w \in Int,
         NEW p1 \in Int, NEW a1 \in Int, NEW q1 \in Int, NEW q2 \in Int,
         p * 10 = p1 + q1 * w, a + v * p = a1 + q2 * w
  PROVE  (10 * h + v) * p + a = h * p1 + a1 + (h * q1 + q2) * w
OBVIOUS

LEMMA DecimalIs ==
  ASSUME NEW digits \in Seq(Digit)
  PROVE  \E upto : /\ upto \in [0..Len(digits) -> Int] /\ upto[0] = 0
                   /\ \A k \in 1..Len(digits) :
                        upto[k] = 10 * upto[k - 1] + DigitValue(digits[k])
                   /\ Decimal(digits) = upto[Len(digits)]
<1>1. PICK N \in Nat : N = Len(digits) /\ DOMAIN digits = 1..N
  OBVIOUS
<1>2. \A k \in 1..N : DigitValue(digits[k]) \in Int
  <2>1. \A k \in 1..N : digits[k] \in Digit
    BY <1>1
  <2> QED BY <2>1, DigitValueIs
<1>3. PICK G : G = [x \in Int \X (1..N) |-> 10 * x[1] + DigitValue(digits[x[2]])]
  OBVIOUS
<1>4. \A s \in Int, k \in 1..N : G[<<s, k>>] = 10 * s + DigitValue(digits[k])
  BY <1>3
<1>5. PICK f : Iterates(f, N, Int, 0, G)
  <2>1. ASSUME NEW s \in Int, NEW k \in 1..N PROVE G[<<s, k>>] \in Int
    <3>1. G[<<s, k>>] = 10 * s + DigitValue(digits[k])
      BY <1>4
    <3>2. PICK d \in Int : d = DigitValue(digits[k])
      BY <1>2
    <3>3. 10 * s + d \in Int
      OBVIOUS
    <3> QED BY <3>1, <3>2, <3>3
  <2>2. 0 \in Int
    OBVIOUS
  <2> QED BY <2>1, <2>2, LoopExists
<1>6. f = [k \in 0..N |-> IF k = 0 THEN 0 ELSE 10 * f[k - 1] + DigitValue(digits[k])]
  <2>1. ASSUME NEW k \in 0..N, k # 0 PROVE f[k] = 10 * f[k - 1] + DigitValue(digits[k])
    <3>1. k \in 1..N /\ f[k - 1] \in Int
      BY <1>5, <2>1 DEF Iterates
    <3> QED BY <1>4, <1>5, <3>1 DEF Iterates
  <2>2. f = [k \in 0..N |-> f[k]] /\ f[0] = 0
    BY <1>5 DEF Iterates
  <2> QED BY <2>1, <2>2
<1>7. PICK u : /\ u = [k \in 0..N |-> IF k = 0 THEN 0 ELSE 10 * u[k - 1] + DigitValue(digits[k])]
               /\ Decimal(digits) = u[N]
  BY <1>1, <1>6 DEF Decimal
<1>8. u[0] = 0 /\ \A k \in 1..N : u[k] = 10 * u[k - 1] + DigitValue(digits[k])
  <2>1. \A k \in 0..N : u[k] = IF k = 0 THEN 0 ELSE 10 * u[k - 1] + DigitValue(digits[k])
    BY <1>7
  <2>2. \A k \in 1..N : k \in 0..N /\ k # 0
    OBVIOUS
  <2>3. 0 \in 0..N
    OBVIOUS
  <2> QED BY <2>1, <2>2, <2>3
<1>9. \A k \in 0..N : k \in {k1 \in 0..N : u[k1] \in Int}
  <2> DEFINE P == {k1 \in 0..N : u[k1] \in Int}
  <2>1. 0 \in P
    BY <1>8
  <2>2. \A k \in 1..N : k - 1 \in P => k \in P
    BY <1>2, <1>8
  <2> HIDE DEF P
  <2>3. \A k \in 0..N : k \in P
    BY <2>1, <2>2, EveryIteration
  <2> QED BY <2>3 DEF P
<1>10. u \in [0..N -> Int]
  <2>1. u = [k \in 0..N |-> u[k]]
    BY <1>7
  <2>2. \A k \in 0..N : u[k] \in Int
    BY <1>9
  <2> QED BY <2>1, <2>2
<1> QED BY <1>1, <1>7, <1>8, <1>10

\* number_atolli after k digits: what it has added up and the digits still to the
\* left of them are the number, but for a multiple of the width.
LEMMA NumberAtolliIs ==
  ASSUME NEW digits \in Seq(Digit)
  PROVE  /\ NumberAtolli(digits) \in Int /\ Decimal(digits) \in Int
         /\ \E q \in Int : Decimal(digits) = NumberAtolli(digits) + q * Width
<1>1. PICK N \in Nat : N = Len(digits) /\ DOMAIN digits = 1..N
  OBVIOUS
<1>2. PICK v : v = [k \in 1..N |-> DigitValue(digits[k])]
  OBVIOUS
<1>3. \A k \in 1..N : v[k] \in Int
  <2>1. ASSUME NEW k \in 1..N PROVE v[k] \in Int
    <3>1. digits[k] \in Digit
      BY <1>1
    <3>2. DigitValue(digits[k]) \in Int
      BY <3>1, DigitValueIs
    <3> QED BY <1>2, <3>2
  <2> QED BY <2>1
<1>4. PICK u : /\ u \in [0..N -> Int] /\ u[0] = 0
               /\ \A k \in 1..N : u[k] = 10 * u[k - 1] + v[k]
               /\ Decimal(digits) = u[N]
  <2>1. PICK upto : /\ upto \in [0..N -> Int] /\ upto[0] = 0
                    /\ \A k \in 1..N : upto[k] = 10 * upto[k - 1] + DigitValue(digits[k])
                    /\ Decimal(digits) = upto[N]
    BY <1>1, DecimalIs
  <2>2. \A k \in 1..N : upto[k] = 10 * upto[k - 1] + v[k]
    BY <1>2, <2>1
  <2> QED BY <2>1, <2>2
<1> DEFINE Pair == [a : Int, p : Int]
           One(s, k) == [a |-> Wrap(s.a + DigitValue(digits[N - k + 1]) * s.p),
                         p |-> Wrap(s.p * 10)]
<1>5. ASSUME NEW s \in Pair, NEW k \in 1..N
      PROVE  /\ One(s, k) \in Pair /\ N - k + 1 \in 1..N
             /\ One(s, k).a = Wrap(s.a + v[N - k + 1] * s.p) /\ One(s, k).p = Wrap(s.p * 10)
  <2>1. N - k + 1 \in 1..N /\ s.a \in Int /\ s.p \in Int
    OBVIOUS
  <2>2. v[N - k + 1] \in Int /\ v[N - k + 1] = DigitValue(digits[N - k + 1])
    BY <1>2, <1>3, <2>1
  <2>3. s.a + v[N - k + 1] * s.p \in Int /\ s.p * 10 \in Int
    BY <2>1, <2>2
  <2>4. Wrap(s.a + v[N - k + 1] * s.p) \in Int /\ Wrap(s.p * 10) \in Int
    BY <2>3, WrapIs
  <2> QED BY <2>1, <2>2, <2>4
<1>6. PICK G : G = [x \in Pair \X (1..N) |-> One(x[1], x[2])]
  OBVIOUS
<1>7. \A s \in Pair, k \in 1..N : G[<<s, k>>] = One(s, k)
  <2> HIDE DEF One, Pair
  <2> QED BY <1>6
<1>8. PICK f : Iterates(f, N, Pair, [a |-> 0, p |-> 1], G)
  <2>1. \A s \in Pair, k \in 1..N : G[<<s, k>>] \in Pair
    <3> HIDE DEF One, Pair
    <3> QED BY <1>5, <1>7
  <2>2. [a |-> 0, p |-> 1] \in Pair
    OBVIOUS
  <2> HIDE DEF One, Pair
  <2> QED BY <2>1, <2>2, LoopExists
<1>9. f = [k \in 0..N |-> IF k = 0 THEN [a |-> 0, p |-> 1] ELSE One(f[k - 1], k)]
  <2> HIDE DEF One, Pair
  <2>1. ASSUME NEW k \in 0..N, k # 0 PROVE f[k] = One(f[k - 1], k)
    <3>1. k \in 1..N /\ f[k - 1] \in Pair
      BY <1>8, <2>1 DEF Iterates
    <3> QED BY <1>7, <1>8, <3>1 DEF Iterates
  <2>2. f = [k \in 0..N |-> f[k]] /\ f[0] = [a |-> 0, p |-> 1]
    BY <1>8 DEF Iterates
  <2> QED BY <2>1, <2>2
<1>10. PICK s : /\ s = [k \in 0..N |-> IF k = 0 THEN [a |-> 0, p |-> 1] ELSE One(s[k - 1], k)]
                /\ NumberAtolli(digits) = s[N].a
  <2>1. f = [k \in 0..Len(digits) |-> IF k = 0 THEN [a |-> 0, p |-> 1]
               ELSE [a |-> Wrap(f[k - 1].a + DigitValue(digits[Len(digits) - k + 1]) * f[k - 1].p),
                     p |-> Wrap(f[k - 1].p * 10)]]
    BY <1>1, <1>9
  <2>2. PICK s : /\ s = [k \in 0..Len(digits) |-> IF k = 0 THEN [a |-> 0, p |-> 1]
                        ELSE [a |-> Wrap(s[k - 1].a + DigitValue(digits[Len(digits) - k + 1])
                                                        * s[k - 1].p),
                              p |-> Wrap(s[k - 1].p * 10)]]
                 /\ NumberAtolli(digits) = s[Len(digits)].a
    BY <2>1, Zenon DEF NumberAtolli
  <2> QED BY <1>1, <2>2
<1>11. s[0] = [a |-> 0, p |-> 1] /\ \A k \in 1..N : s[k] = One(s[k - 1], k)
  <2> HIDE DEF One
  <2>1. \A k \in 0..N : s[k] = IF k = 0 THEN [a |-> 0, p |-> 1] ELSE One(s[k - 1], k)
    BY <1>10
  <2>2. \A k \in 1..N : k \in 0..N /\ k # 0
    OBVIOUS
  <2>3. 0 \in 0..N
    OBVIOUS
  <2> QED BY <2>1, <2>2, <2>3
<1> DEFINE P == {k \in 0..N : /\ s[k] \in Pair
                              /\ \E q \in Int : u[N] = u[N - k] * s[k].p + s[k].a + q * Width}
<1>12. 0 \in P
  <2>1. u[N] \in Int /\ Width \in Int
    BY <1>4, WidthIs
  <2>2. u[N] = u[N - 0] * s[0].p + s[0].a + 0 * Width
    BY <1>11, <2>1
  <2>3. 0 \in 0..N /\ 0 \in Int /\ s[0] \in Pair
    BY <1>11
  <2> HIDE DEF Pair
  <2> QED BY <2>2, <2>3
<1>13. ASSUME NEW k \in 1..N, k - 1 \in P PROVE k \in P
  <2>1. PICK r \in Int : u[N] = u[N - (k - 1)] * s[k - 1].p + s[k - 1].a + r * Width
    BY <1>13
  <2>2. PICK z \in Pair : z = s[k - 1]
    BY <1>13
  <2>3. s[k] = One(z, k)
    BY <1>11, <2>2
  <2>4. /\ s[k] \in Pair /\ N - k + 1 \in 1..N
        /\ s[k].a = Wrap(z.a + v[N - k + 1] * z.p) /\ s[k].p = Wrap(z.p * 10)
    <3> HIDE DEF One, Pair
    <3> QED BY <1>5, <2>2, <2>3
  <2>5. PICK d \in Int : d = v[N - k + 1]
    BY <1>3, <2>4
  <2>6. PICK h \in Int : h = u[N - k]
    <3>1. N - k \in 0..N
      OBVIOUS
    <3> QED BY <1>4, <3>1
  <2>7. u[N - (k - 1)] = 10 * h + d
    <3>1. N - (k - 1) = N - k + 1 /\ (N - k + 1) - 1 = N - k
      OBVIOUS
    <3> QED BY <1>4, <2>4, <2>5, <2>6, <3>1
  <2>8. PICK a \in Int, p \in Int : a = z.a /\ p = z.p
    BY <2>2
  <2>9. PICK a1 \in Int, p1 \in Int : a1 = s[k].a /\ p1 = s[k].p
    BY <2>4
  <2>10. PICK q1 \in Int : p * 10 = p1 + q1 * Width
    <3>1. p * 10 \in Int
      BY <2>8
    <3> QED BY <2>4, <2>8, <2>9, <3>1, WrapIs
  <2>11. PICK q2 \in Int : a + d * p = a1 + q2 * Width
    <3>1. PICK n \in Int : n = a + d * p
      BY <2>5, <2>8
    <3>2. s[k].a = Wrap(n)
      BY <2>4, <2>5, <2>8, <3>1
    <3>3. a1 = Wrap(n)
      BY <2>9, <3>2
    <3>4. \E q \in Int : n = Wrap(n) + q * Width
      BY <3>1, WrapIs
    <3> QED BY <3>1, <3>3, <3>4
  <2>12. (10 * h + d) * p + a = h * p1 + a1 + (h * q1 + q2) * Width
    BY <2>10, <2>11, OneDigit, WidthIs
  <2>13. u[N] = (10 * h + d) * p + a + r * Width
    BY <2>1, <2>2, <2>7, <2>8
  <2>14. h * q1 + q2 + r \in Int /\ u[N] = h * p1 + a1 + (h * q1 + q2 + r) * Width
    <3>1. Width \in Int /\ h * q1 + q2 \in Int /\ h * p1 + a1 \in Int
      BY WidthIs
    <3>2. ASSUME NEW x \in Int, NEW y \in Int, NEW w \in Int
          PROVE  x + y * w + r * w = x + (y + r) * w
      OBVIOUS
    <3>3. u[N] = h * p1 + a1 + (h * q1 + q2) * Width + r * Width
      BY <2>12, <2>13
    <3> QED BY <3>1, <3>2, <3>3
  <2>15. u[N] = u[N - k] * s[k].p + s[k].a + (h * q1 + q2 + r) * Width
    BY <2>6, <2>9, <2>14
  <2>16. k \in 0..N
    OBVIOUS
  <2> HIDE DEF Pair
  <2> QED BY <2>4, <2>14, <2>15, <2>16
<1>14. N \in P
  <2> HIDE DEF P
  <2>1. \A k \in 0..N : k \in P
    BY <1>12, <1>13, EveryIteration
  <2>2. N \in 0..N
    OBVIOUS
  <2> QED BY <2>1, <2>2
<1>15. PICK q \in Int : u[N] = u[N - N] * s[N].p + s[N].a + q * Width
  BY <1>14
<1>16. s[N].p \in Int /\ s[N].a \in Int /\ u[N] \in Int
  BY <1>4, <1>14
<1>17. u[N] = s[N].a + q * Width
  <2>1. N - N = 0 /\ Width \in Int
    BY WidthIs
  <2>2. u[N - N] * s[N].p = 0
    BY <1>4, <1>16, <2>1
  <2> QED BY <1>15, <1>16, <2>1, <2>2
<1> QED BY <1>4, <1>10, <1>16, <1>17

LEMMA MembersType ==
  ASSUME NEW S, NEW T, NEW s \in Seq(S), \A i \in 1..Len(s) : s[i] \in T
  PROVE  s \in Seq(T)
<1>1. s = [i \in 1..Len(s) |-> s[i]] /\ Len(s) \in Nat
  OBVIOUS
<1> QED BY <1>1

LEMMA DigitsOfIs ==
  ASSUME NEW word \in Seq(Char), StrIsNumeric(word)
  PROVE  DigitsOf(word) \in Seq(Digit) /\ SignOf(word) \in Int
<1>1. DOMAIN word = 1..Len(word) /\ Len(word) \in Nat
  OBVIOUS
<1>2. \A i \in 1..Len(word) : word[i] \in Digit \/ (i = 1 /\ word[i] \in {"+", "-"})
  BY <1>1 DEF StrIsNumeric
<1>3. SignOf(word) \in Int
  BY DEF SignOf
<1>4. CASE word # <<>> /\ word[1] \in {"+", "-"}
  <2>1. /\ Tail(word) \in Seq(Char) /\ Len(Tail(word)) = Len(word) - 1
        /\ \A i \in 1..Len(Tail(word)) : Tail(word)[i] = word[i + 1]
    BY <1>4, HeadTailProperties
  <2>2. \A i \in 1..Len(Tail(word)) : Tail(word)[i] \in Digit
    <3>1. \A i \in 1..Len(word) - 1 : i + 1 \in 1..Len(word) /\ i + 1 # 1
      BY <1>1
    <3> QED BY <1>2, <2>1, <3>1
  <2>3. Tail(word) \in Seq(Digit)
    BY <2>1, <2>2, MembersType
  <2> QED BY <1>3, <1>4, <2>3 DEF DigitsOf
<1>5. CASE ~(word # <<>> /\ word[1] \in {"+", "-"})
  <2>1. \A i \in 1..Len(word) : word[i] \in Digit
    BY <1>2, <1>5
  <2>2. word \in Seq(Digit)
    BY <2>1, MembersType
  <2> QED BY <1>3, <1>5, <2>2 DEF DigitsOf
<1> QED BY <1>4, <1>5

\* A number of any length and its conversion have the same low byte.
\* One byte is left of both numbers, and it is the same.
SameByte(x, y) == x % 256 \in 0..255 /\ x % 256 = y % 256

LEMMA AtolliByte ==
  ASSUME NEW word \in Seq(Char), StrIsNumeric(word)
  PROVE  SameByte(Atolli(word), Value(word))
<1>1. PICK sign \in Int : sign = SignOf(word)
  BY DigitsOfIs
<1>2. PICK n \in Int, d \in Int, q \in Int :
        /\ n = NumberAtolli(DigitsOf(word)) /\ d = Decimal(DigitsOf(word))
        /\ d = n + q * Width
  BY DigitsOfIs, NumberAtolliIs
<1>3. PICK x \in Int, r \in Int : x = Atolli(word) /\ n * sign = x + r * Width
  <2>1. n * sign \in Int
    OBVIOUS
  <2>2. Atolli(word) = Wrap(n * sign)
    BY <1>1, <1>2 DEF Atolli
  <2> QED BY <2>1, <2>2, WrapIs
<1>4. PICK k \in Int : Width = 256 * k
  BY WidthIs
<1>5. Value(word) = sign * d
  BY <1>1, <1>2 DEF Value
<1>6. sign * d = x + 256 * ((sign * q + r) * k)
  <2>1. ASSUME NEW s \in Int, NEW n1 \in Int, NEW q1 \in Int, NEW w \in Int
        PROVE  s * (n1 + q1 * w) = n1 * s + s * q1 * w
    OBVIOUS
  <2>2. sign * d = n * sign + sign * q * Width
    BY <1>2, <1>4, <2>1
  <2>3. ASSUME NEW x1 \in Int, NEW y1 \in Int, NEW r1 \in Int, NEW k1 \in Int
        PROVE  (x1 + r1 * (256 * k1)) + y1 * (256 * k1) = x1 + 256 * ((y1 + r1) * k1)
    OBVIOUS
  <2>4. sign * q \in Int
    OBVIOUS
  <2> QED BY <1>3, <1>4, <2>2, <2>3, <2>4
<1>7. PICK m \in Int, y \in Int : m = (sign * q + r) * k /\ y = sign * d
  OBVIOUS
<1>8. y % 256 = x % 256 /\ x % 256 \in 0..255
  BY <1>6, <1>7
<1> QED BY <1>3, <1>5, <1>7, <1>8 DEF SameByte
----------------------------------------------------------------------------
(* From the tokens to the code the shell leaves with.                      *)

Tok == [type : TokenTypes, value : Seq(Char)]

\* What the parser takes and makes; when it returns there is a command.
ListTyped ==
  /\ rest \in Seq(Tok) /\ current \in Cmd \cup {None} /\ head \in Seq(Cmd)
  /\ pc = "parse" => rest # <<>> \/ current # None \/ head # <<>>
  /\ pc = "dispatch" => head # <<>>

\* The rest of TypeOK.
FlagsTyped ==
  /\ hdcInterrupted \in BOOLEAN /\ handler \in {"main", "executing", "heredoc", "default"}
  /\ began \in 0..255 /\ code \in 0..255 \cup {None} /\ child \in 0..255 \cup {None}
  /\ did \in {"nothing", "particular", "exit", "ran", "failed", "abandoned", "dropped"}
  /\ struck \in BOOLEAN /\ freed \in 0..2

Asked == ListTyped /\ FlagsTyped /\ StatusInv /\ LeavesAsAsked

LEMMA ExitCodeIs ==
  ASSUME NEW argv \in Seq(Seq(Char)), argv # <<>>, status \in 0..255
  PROVE  /\ ExitCode(argv) \in 0..255
         /\ Len(argv) = 1 => ExitCode(argv) = status
         /\ Len(argv) = 2 =>
              ExitCode(argv) = IF StrIsNumeric(argv[2]) THEN Value(argv[2]) % 256 ELSE 2
         /\ Len(argv) > 2 => ExitCode(argv) = IF StrIsNumeric(argv[2]) THEN 1 ELSE 2
<1>1. PICK n \in Nat : n = Len(argv) /\ n # 0
  OBVIOUS
<1>2. CASE n = 1
  BY <1>1, <1>2 DEF ExitCode
<1>3. CASE n > 1 /\ ~StrIsNumeric(argv[2])
  BY <1>1, <1>3 DEF ExitCode
<1>4. CASE n > 2 /\ StrIsNumeric(argv[2])
  <2>1. ExitCode(argv) = 1
    <3>1. n # 1 /\ n > 1
      BY <1>4
    <3> QED BY <1>1, <1>4, <3>1 DEF ExitCode
  <2>2. Len(argv) # 1 /\ Len(argv) # 2 /\ 1 \in 0..255
    <3>1. n # 1 /\ n # 2 /\ 1 \in 0..255
      BY <1>4
    <3> QED BY <1>1, <3>1, Zenon
  <2> QED BY <1>4, <2>1, <2>2
<1>5. CASE n = 2 /\ StrIsNumeric(argv[2])
  <2>1. argv[2] \in Seq(Char)
    <3>1. Len(argv) = 2
      BY <1>1, <1>5
    <3> QED BY <3>1
  <2>2. PICK c : c = Atolli(argv[2]) % 256
    OBVIOUS
  <2>3. c \in 0..255 /\ c = Value(argv[2]) % 256
    <3>1. PICK word \in Seq(Char) : word = argv[2]
      BY <2>1
    <3>2. Atolli(word) % 256 \in 0..255 /\ Atolli(word) % 256 = Value(word) % 256
      <4>1. StrIsNumeric(word)
        BY <1>5, <3>1
      <4>2. SameByte(Atolli(word), Value(word))
        BY <3>1, <4>1, AtolliByte
      <4> QED BY <4>2 DEF SameByte
    <3> QED BY <2>2, <3>1, <3>2
  <2>4. ExitCode(argv) = c
    BY <1>1, <1>5, <2>2 DEF ExitCode
  <2> QED BY <1>1, <1>5, <2>3, <2>4
<1>6. n = 1 \/ n = 2 \/ n > 2
  BY <1>1
<1>7. n = 2 \/ n > 2 => n > 1
  BY <1>1
<1> QED BY <1>2, <1>3, <1>4, <1>5, <1>6, <1>7

LEMMA AfterTokens ==
  ASSUME NEW s \in Seq(Tok), NEW m \in Nat
  PROVE  /\ SubSeq(s, m + 1, Len(s)) \in Seq(Tok)
         /\ \A i \in DOMAIN SubSeq(s, m + 1, Len(s)) :
              i + m \in DOMAIN s /\ SubSeq(s, m + 1, Len(s))[i] = s[i + m]
<1> HIDE DEF Tok
<1> QED OBVIOUS

LEMMA CommandIs ==
  ASSUME NEW c \in Cmd
  PROVE  /\ c # None
         /\ \A word \in Seq(Char) : AddArgument(c, word) \in Cmd
         /\ \A type \in Redirection, name \in Seq(Char) : AddRedir(c, type, name) \in Cmd
         /\ [c EXCEPT !.contrasting = TRUE] \in Cmd
<1>1. c # None
  BY ShellAssumption
<1> DEFINE Redir == [type : Redirection, filename : Seq(Char)]
<1>2. /\ c = [argv |-> c.argv, redirs |-> c.redirs, contrasting |-> c.contrasting]
      /\ c.argv \in Seq(Seq(Char)) /\ c.redirs \in Seq(Redir) /\ c.contrasting \in BOOLEAN
  BY DEF Cmd
<1>3. ASSUME NEW word \in Seq(Char) PROVE AddArgument(c, word) \in Cmd
  <2>1. Append(c.argv, word) \in Seq(Seq(Char))
    BY <1>2
  <2>2. AddArgument(c, word) = [c EXCEPT !.argv = Append(c.argv, word)]
    BY DEF AddArgument
  <2> QED BY <2>1, <2>2 DEF Cmd
<1>4. ASSUME NEW type \in Redirection, NEW name \in Seq(Char)
      PROVE  AddRedir(c, type, name) \in Cmd
  <2>1. [type |-> type, filename |-> name] \in Redir
    OBVIOUS
  <2>2. Append(c.redirs, [type |-> type, filename |-> name]) \in Seq(Redir)
    <3> HIDE DEF Redir
    <3> QED BY <1>2, <2>1
  <2>3. AddRedir(c, type, name)
          = [c EXCEPT !.redirs = Append(c.redirs, [type |-> type, filename |-> name])]
    BY DEF AddRedir
  <2> QED BY <2>2, <2>3 DEF Cmd
<1>5. [c EXCEPT !.contrasting = TRUE] \in Cmd
  BY DEF Cmd
<1> QED BY <1>1, <1>3, <1>4, <1>5

LEMMA NewCommand == InitCommand \in Cmd
BY DEF InitCommand, Cmd

\* parse_commands: one or two tokens of the line are taken, and the status changes
\* with a token that is no word only.
LEMMA ParseTakes ==
  ASSUME ListTyped, status \in 0..255, ParseStep
  PROVE  /\ ListTyped' /\ status' \in 0..255
         /\ \A i \in DOMAIN rest' : \E j \in DOMAIN rest : rest'[i] = rest[j]
         /\ status' = status \/ (status' = 2 /\ rest # <<>> /\ rest[1].type # "WORD")
<1>1. /\ pc = "parse" /\ Parse /\ pc' = IF rest = <<>> THEN "dispatch" ELSE "parse"
  BY DEF ParseStep
<1>2. /\ rest \in Seq(Tok) /\ head \in Seq(Cmd)
      /\ rest # <<>> \/ current # None \/ head # <<>>
  BY <1>1 DEF ListTyped
<1>3. Current \in Cmd /\ (current # None => current \in Cmd)
  BY NewCommand DEF ListTyped, Current
<1>4. \A i \in DOMAIN rest : rest[i].type \in TokenTypes /\ rest[i].value \in Seq(Char)
  <2>1. ASSUME NEW i \in DOMAIN rest PROVE rest[i] \in Tok
    <3> HIDE DEF Tok
    <3> QED BY <1>2
  <2> QED BY <2>1 DEF Tok
<1>t. rest # <<>> => /\ Tail(rest) = SubSeq(rest, 2, Len(rest))
                     /\ 1 \in DOMAIN rest /\ (Len(rest) > 1 => 2 \in DOMAIN rest)
  BY <1>2
<1>5. CASE HandleRedirToken
  <2>1. /\ rest # <<>> /\ rest[1].type \in Redirection
        /\ rest' = SubSeq(rest, 3, Len(rest)) /\ head' = head
        /\ \/ /\ HasOperand /\ current' = AddRedir(Current, rest[1].type, rest[2].value)
              /\ status' = status
           \/ current' = [Current EXCEPT !.contrasting = TRUE] /\ status' = 2
    BY <1>5 DEF HandleRedirToken
  <2>2. current' \in Cmd
    <3>1. CASE HasOperand /\ current' = AddRedir(Current, rest[1].type, rest[2].value)
      <4>1. 2 \in DOMAIN rest
        BY <1>t, <2>1, <3>1 DEF HasOperand
      <4>2. rest[2].value \in Seq(Char)
        BY <1>4, <4>1
      <4> QED BY <1>3, <2>1, <3>1, <4>2, CommandIs
    <3>2. CASE current' = [Current EXCEPT !.contrasting = TRUE]
      BY <1>3, <3>2, CommandIs
    <3> QED BY <2>1, <3>1, <3>2
  <2>3. rest' \in Seq(Tok) /\ \A i \in DOMAIN rest' : i + 2 \in DOMAIN rest /\ rest'[i] = rest[i + 2]
    <3>1. 2 \in Nat /\ 2 + 1 = 3
      OBVIOUS
    <3> QED BY <1>2, <2>1, <3>1, AfterTokens
  <2>4. rest[1].type # "WORD"
    BY <2>1 DEF Redirection
  <2>5. pc' = "parse" /\ current' # None
    BY <1>1, <2>1, <2>2, CommandIs
  <2> QED BY <1>2, <2>1, <2>2, <2>3, <2>4, <2>5 DEF ListTyped
<1>6. CASE HandlePipeToken
  <2>1. /\ rest # <<>> /\ rest[1].type = "PIPE" /\ rest' = Tail(rest)
        /\ \/ current' = Current /\ head' = head /\ status' = 2
           \/ current' = None /\ head' = Append(head, Current) /\ status' = status
    BY <1>6 DEF HandlePipeToken
  <2>2. current' \in Cmd \cup {None} /\ head' \in Seq(Cmd) /\ (current' # None \/ head' # <<>>)
    <3>1. CASE current' = Current /\ head' = head
      BY <1>2, <1>3, <3>1, CommandIs
    <3>2. CASE current' = None /\ head' = Append(head, Current)
      <4>1. Append(head, Current) \in Seq(Cmd) /\ Append(head, Current) # <<>>
        BY <1>2, <1>3
      <4> QED BY <3>2, <4>1
    <3> QED BY <2>1, <3>1, <3>2
  <2>3. rest' \in Seq(Tok) /\ \A i \in DOMAIN rest' : i + 1 \in DOMAIN rest /\ rest'[i] = rest[i + 1]
    <3>1. 1 \in Nat /\ 1 + 1 = 2
      OBVIOUS
    <3> QED BY <1>2, <1>t, <2>1, <3>1, AfterTokens
  <2>4. pc' = "parse" /\ rest[1].type # "WORD"
    BY <1>1, <2>1
  <2>5. ListTyped'
    BY <2>2, <2>3, <2>4 DEF ListTyped
  <2>6. \A i \in DOMAIN rest' : \E j \in DOMAIN rest : rest'[i] = rest[j]
    BY <2>3
  <2>7. /\ status' \in 0..255
        /\ status' = status \/ (status' = 2 /\ rest # <<>> /\ rest[1].type # "WORD")
    <3>1. 2 \in 0..255 /\ (status' = 2 \/ status' = status)
      BY <2>1
    <3> QED BY <2>1, <2>4, <3>1
  <2> QED BY <2>5, <2>6, <2>7
<1>7. CASE HandleWord
  <2>1. /\ rest # <<>> /\ rest[1].type = "WORD" /\ rest' = Tail(rest)
        /\ current' = AddArgument(Current, rest[1].value) /\ head' = head /\ status' = status
    BY <1>7 DEF HandleWord
  <2>2. current' \in Cmd
    <3>1. rest[1].value \in Seq(Char)
      BY <1>4, <1>t, <2>1
    <3> QED BY <1>3, <2>1, <3>1, CommandIs
  <2>3. rest' \in Seq(Tok) /\ \A i \in DOMAIN rest' : i + 1 \in DOMAIN rest /\ rest'[i] = rest[i + 1]
    <3>1. 1 \in Nat /\ 1 + 1 = 2
      OBVIOUS
    <3> QED BY <1>2, <1>t, <2>1, <3>1, AfterTokens
  <2>4. pc' = "parse" /\ current' # None
    BY <1>1, <2>1, <2>2, CommandIs
  <2> QED BY <1>2, <2>1, <2>2, <2>3, <2>4 DEF ListTyped
<1>8. CASE EndParse
  <2>1. /\ rest = <<>> /\ rest' = rest /\ status' = status /\ current' = None
        /\ head' = IF current = None THEN head ELSE Append(head, current)
    BY <1>8 DEF EndParse
  <2>2. head' \in Seq(Cmd) /\ head' # <<>>
    <3>1. CASE current = None
      BY <1>2, <2>1, <3>1
    <3>2. CASE current # None
      <4>1. Append(head, current) \in Seq(Cmd) /\ Append(head, current) # <<>>
        BY <1>2, <1>3, <3>2
      <4> QED BY <2>1, <3>2, <4>1
    <3> QED BY <3>1, <3>2
  <2>3. pc' = "dispatch"
    BY <1>1, <2>1
  <2> QED BY <1>2, <2>1, <2>2, <2>3 DEF ListTyped
<1> QED BY <1>1, <1>5, <1>6, <1>7, <1>8 DEF Parse

LEMMA Elsewhere ==
  ASSUME [Next]_vars
  PROVE  \/ ReadLine \/ CheckInput \/ TokenStep \/ TokensReturn \/ ParseStep \/ NextLine
         \/ UNCHANGED vars
         \/ UNCHANGED parseVars /\ pc' \notin {"open", "tokens", "parse", "dispatch"}
<1>1. ASSUME Eof \/ Interrupt
      PROVE  UNCHANGED parseVars /\ pc' \notin {"open", "tokens", "parse", "dispatch"}
  BY <1>1 DEF Eof, Interrupt, shVars
<1>2. ASSUME ParticularCase \/ DropContrasting \/ BuiltinExit \/ RunBuiltin \/ NotFound \/ WaitPid
      PROVE  UNCHANGED parseVars /\ pc' \notin {"open", "tokens", "parse", "dispatch"}
  BY <1>2 DEF ParticularCase, DropContrasting, BuiltinExit, RunBuiltin, NotFound, WaitPid, Done
<1>3. ASSUME ForkChild
      PROVE  UNCHANGED parseVars /\ pc' \notin {"open", "tokens", "parse", "dispatch"}
  BY <1>3 DEF ForkChild, Done
<1>4. ASSUME WaitPidInterrupted \/ StartList \/ HeredocsAbandoned \/ ListDropped \/ RunList
             \/ ReturnFromC
      PROVE  UNCHANGED parseVars /\ pc' \notin {"open", "tokens", "parse", "dispatch"}
  BY <1>4 DEF WaitPidInterrupted, StartList, HeredocsAbandoned, ListDropped, RunList, ReturnFromC,
              Done
<1>5. Stopped => UNCHANGED vars
  BY DEF Stopped
<1> QED BY <1>1, <1>2, <1>3, <1>4, <1>5 DEF Next, LineStep

LEMMA ListStep == Inv /\ CursorOk /\ ListTyped /\ [Next]_vars => ListTyped'
<1> SUFFICES ASSUME Inv, CursorOk, ListTyped, [Next]_vars PROVE ListTyped'
  OBVIOUS
<1>1. CASE TokensReturn
  <2>1. /\ rest' = t.list /\ UNCHANGED <<head, current>>
        /\ pc' = IF t.list = <<>> THEN "done" ELSE "parse"
    BY <1>1 DEF TokensReturn
  <2>2. rest' \in Seq(Tok)
    BY <2>1 DEF CursorOk, Typed, Tok
  <2> QED BY <2>1, <2>2 DEF ListTyped
<1>2. CASE ParseStep
  BY <1>2, ParseTakes DEF Inv, Typing
<1>3. CASE NextLine
  <2>1. rest' = <<>> /\ head' = <<>> /\ current' = None /\ pc' = "prompt"
    BY <1>3 DEF NextLine
  <2>2. <<>> \in Seq(Tok) /\ <<>> \in Seq(Cmd)
    OBVIOUS
  <2> QED BY <2>1, <2>2 DEF ListTyped
<1>4. CASE ReadLine \/ CheckInput \/ TokenStep
  <2>1. UNCHANGED parseVars /\ pc' \notin {"parse", "dispatch"}
    BY <1>4 DEF ReadLine, CheckInput, TokenStep, shVars
  <2> QED BY <2>1 DEF ListTyped, parseVars
<1>5. CASE UNCHANGED vars
  BY <1>5 DEF ListTyped, vars, parseVars, shVars
<1>6. CASE UNCHANGED parseVars /\ pc' \notin {"open", "tokens", "parse", "dispatch"}
  BY <1>6 DEF ListTyped, parseVars
<1> QED BY <1>1, <1>2, <1>3, <1>4, <1>5, <1>6, Elsewhere

\* Up to the dispatch the status is that of the line before, or the line has an error.
LEMMA StatusStep == Inv /\ CursorOk /\ ListTyped /\ StatusInv /\ [Next]_vars => StatusInv'
<1> SUFFICES ASSUME Inv, CursorOk, ListTyped, StatusInv, [Next]_vars PROVE StatusInv'
  OBVIOUS
<1>1. CASE ReadLine
  BY <1>1 DEF ReadLine, StatusInv
<1>2. CASE CheckInput
  <2>1. /\ pc = "open" /\ pc' \in {"done", "tokens"} /\ UNCHANGED <<mode, began>>
        /\ mode = "loop" /\ pc' = "tokens" => status' = status
    BY <1>2 DEF CheckInput
  <2> QED BY <2>1 DEF StatusInv
<1>3. CASE TokenStep
  <2>1. pc = "tokens" /\ pc' = "tokens" /\ Tokenize /\ UNCHANGED <<mode, began>>
    BY <1>3 DEF TokenStep, lineVars, shVars
  <2>2. TokInv
    BY <2>1 DEF Inv, SessionInv, Typing, ErrorInv, TokInv
  <2>3. /\ tpc # "done" /\ (t.error => t'.error)
        /\ status' = status \/ t'.error \/ (tpc' = "done" /\ Fails')
    BY <2>1, <2>2, TokenizeStatus
  <2> QED BY <2>1, <2>3 DEF StatusInv
<1>4. CASE TokensReturn
  <2>1. /\ pc = "tokens" /\ tpc = "done" /\ rest' = t.list /\ UNCHANGED <<t, mode, began, status>>
        /\ pc' = IF t.list = <<>> THEN "done" ELSE "parse"
    BY <1>4 DEF TokensReturn, tokVars
  <2>2. pc' = "parse" => ~Fails /\ ~t.error
    BY <2>1 DEF Inv, SessionInv, ErrorInv, Fails
  <2> QED BY <2>1, <2>2 DEF StatusInv
<1>5. CASE ParseStep
  <2>1. pc = "parse" /\ pc' \in {"parse", "dispatch"} /\ UNCHANGED <<t, mode, began>>
    BY <1>5 DEF ParseStep, tokVars, lineVars
  <2>2. /\ \A i \in DOMAIN rest' : \E j \in DOMAIN rest : rest'[i] = rest[j]
        /\ status' = status \/ (status' = 2 /\ rest # <<>> /\ rest[1].type # "WORD")
    BY <1>5, ParseTakes DEF Inv, Typing
  <2>3. \A i \in DOMAIN rest : \E j \in DOMAIN t.list : rest[i] = t.list[j]
    BY <2>1 DEF StatusInv
  <2>4. rest # <<>> /\ rest[1].type # "WORD" => ~OnlyWords
    <3>1. rest # <<>> => 1 \in DOMAIN rest
      BY DEF ListTyped
    <3> QED BY <2>3, <3>1 DEF OnlyWords
  <2>5. OnlyWords' = OnlyWords
    BY <2>1 DEF OnlyWords
  <2>6. \A i \in DOMAIN rest' : \E j \in DOMAIN t'.list : rest'[i] = t'.list[j]
    BY <2>1, <2>2, <2>3
  <2>7. mode' = "loop" => status' = began' \/ (status' = 2 /\ ~OnlyWords')
    BY <2>1, <2>2, <2>4, <2>5 DEF StatusInv
  <2> QED BY <2>1, <2>6, <2>7 DEF StatusInv
<1>6. CASE NextLine
  BY <1>6 DEF NextLine, StatusInv
<1>7. CASE UNCHANGED vars
  BY <1>7 DEF StatusInv, OnlyWords, Fails, QuoteOpen, vars, tokVars, parseVars, lineVars, shVars
<1>8. CASE pc' \notin {"open", "tokens", "parse", "dispatch"}
  BY <1>8 DEF StatusInv
<1> QED BY <1>1, <1>2, <1>3, <1>4, <1>5, <1>6, <1>7, <1>8, Elsewhere

LEMMA FirstIs ==
  ASSUME ListTyped, pc = "dispatch"
  PROVE  First \in Cmd /\ First.argv \in Seq(Seq(Char))
<1>1. head \in Seq(Cmd) /\ head # <<>>
  BY DEF ListTyped
<1>2. First \in Cmd
  BY <1>1 DEF First
<1> QED BY <1>2 DEF Cmd

\* The code of an exit, from the words of the first command.
LEMMA ExitIs ==
  ASSUME ListTyped, status \in 0..255, BuiltinExit
  PROVE  LET argv == First.argv
         IN  /\ argv # <<>> /\ argv[1] = Exit /\ code' \in 0..255
             /\ Len(argv) = 1 => code' = status
             /\ Len(argv) = 2 =>
                  code' = IF StrIsNumeric(argv[2]) THEN Value(argv[2]) % 256 ELSE 2
             /\ Len(argv) > 2 => code' = IF StrIsNumeric(argv[2]) THEN 1 ELSE 2
<1>1. pc = "dispatch" /\ First.argv # <<>> /\ First.argv[1] = Exit /\ code' = ExitCode(First.argv)
  BY DEF BuiltinExit, IsExit, HasWord, Word
<1>2. First.argv \in Seq(Seq(Char))
  BY <1>1, FirstIs
<1> QED BY <1>1, <1>2, ExitCodeIs

LEMMA FlagsStep == Inv /\ Inv' /\ ListTyped /\ FlagsTyped /\ [Next]_vars => FlagsTyped'
<1> SUFFICES ASSUME Inv, Inv', ListTyped, FlagsTyped, [Next]_vars PROVE FlagsTyped'
  OBVIOUS
<1>t. status \in 0..255 /\ status' \in 0..255
  BY DEF Inv, Typing
<1>f. /\ pc \in {"prompt", "open", "tokens"} => freed = 0
      /\ pc \in {"parse", "dispatch", "list", "waitpid", "done"} => freed = 1
  BY DEF Inv, SessionInv, LineInv
<1>1. CASE ReadLine \/ Eof \/ Interrupt
  BY <1>t, <1>1 DEF ReadLine, Eof, Interrupt, FlagsTyped, lineVars, shVars
<1>2. CASE CheckInput \/ TokensReturn
  <2>1. /\ pc \in {"open", "tokens"} /\ (freed' = freed + 1 \/ freed' = freed)
        /\ UNCHANGED <<handler, hdcInterrupted, code, child, did, began, struck>>
    BY <1>2, Zenon DEF CheckInput, TokensReturn
  <2>2. freed' \in 0..2
    BY <1>f, <2>1
  <2> QED BY <2>1, <2>2 DEF FlagsTyped
<1>3. CASE TokenStep \/ ParseStep
  <2>1. UNCHANGED <<handler, hdcInterrupted, code, lineVars>>
    BY <1>3 DEF TokenStep, ParseStep, shVars
  <2> QED BY <2>1 DEF FlagsTyped, lineVars
<1>4. CASE ParticularCase \/ DropContrasting \/ RunBuiltin \/ NotFound
  BY <1>4 DEF ParticularCase, DropContrasting, RunBuiltin, NotFound, Done, FlagsTyped
<1>5. CASE BuiltinExit
  <2>1. code' \in 0..255
    BY <1>t, <1>5, ExitIs
  <2> QED BY <1>5, <2>1 DEF BuiltinExit, FlagsTyped
<1>6. CASE ForkChild
  <2>1. child' \in PathStatus(CommandPath(Word)) \/ child' = child
    BY <1>6 DEF ForkChild
  <2>2. child' \in 0..255 \cup {None}
    BY <2>1, PathStatusByte DEF FlagsTyped
  <2>3. did' \in {"ran", "failed"} /\ UNCHANGED <<began, struck, freed, handler, hdcInterrupted, code>>
    BY <1>6 DEF ForkChild, Done
  <2> QED BY <2>2, <2>3 DEF FlagsTyped
<1>7. CASE WaitPid \/ WaitPidInterrupted \/ StartList
  <2>1. /\ handler' = handler \/ handler' = "heredoc"
        /\ UNCHANGED <<hdcInterrupted, code, child, did, began, freed>>
    BY <1>7 DEF WaitPid, WaitPidInterrupted, StartList, lineVars
  <2>2. struck' \in BOOLEAN
    BY <1>7, Zenon DEF WaitPid, WaitPidInterrupted, StartList, lineVars, FlagsTyped
  <2> QED BY <2>1, <2>2 DEF FlagsTyped
<1>8. CASE HeredocsAbandoned \/ ListDropped
  <2>1. /\ handler' \in {"main", handler} /\ did' \in {"abandoned", "dropped"}
        /\ UNCHANGED <<child, began, freed, code>>
    BY <1>8 DEF HeredocsAbandoned, ListDropped, Done
  <2>2. hdcInterrupted' \in BOOLEAN /\ struck' \in BOOLEAN
    BY <1>8, Zenon DEF HeredocsAbandoned, ListDropped, FlagsTyped
  <2> QED BY <2>1, <2>2 DEF FlagsTyped
<1>9. CASE RunList
  BY <1>9 DEF RunList, Done, FlagsTyped
<1>10. CASE NextLine
  <2>1. /\ child' = None /\ did' = "nothing" /\ began' = 0 /\ freed' = 0
        /\ UNCHANGED <<handler, code>>
    BY <1>10 DEF NextLine
  <2>2. hdcInterrupted' \in BOOLEAN /\ struck' \in BOOLEAN
    BY <1>10, Zenon DEF NextLine
  <2> QED BY <2>1, <2>2 DEF FlagsTyped
<1>11. CASE ReturnFromC
  BY <1>t, <1>f, <1>11 DEF ReturnFromC, FlagsTyped
<1>12. CASE UNCHANGED vars
  BY <1>12 DEF FlagsTyped, vars, lineVars, shVars
<1>13. Stopped => UNCHANGED vars
  BY DEF Stopped
<1> QED BY <1>1, <1>2, <1>3, <1>4, <1>5, <1>6, <1>7, <1>8, <1>9, <1>10, <1>11, <1>12, <1>13
        DEF Next, LineStep

\* The shell leaves at an end of input, after an exit or, with an argument, after its line.
LEMMA Leaves ==
  ASSUME [Next]_vars, pc' = "ended"
  PROVE  Eof \/ BuiltinExit \/ ReturnFromC \/ UNCHANGED vars
<1>1. ~(ReadLine \/ CheckInput \/ TokenStep \/ TokensReturn \/ ParseStep \/ Interrupt)
  BY DEF ReadLine, CheckInput, TokenStep, TokensReturn, ParseStep, Interrupt, shVars
<1>2. ~(ParticularCase \/ DropContrasting \/ RunBuiltin \/ NotFound \/ ForkChild \/ WaitPid)
  BY DEF ParticularCase, DropContrasting, RunBuiltin, NotFound, ForkChild, WaitPid, Done
<1>3. ~(WaitPidInterrupted \/ StartList \/ HeredocsAbandoned \/ ListDropped \/ RunList \/ NextLine)
  BY DEF WaitPidInterrupted, StartList, HeredocsAbandoned, ListDropped, RunList, NextLine, Done
<1>4. Stopped => UNCHANGED vars
  BY DEF Stopped
<1> QED BY <1>1, <1>2, <1>3, <1>4 DEF Next, LineStep

LEMMA LeavesStep == Inv /\ ListTyped /\ StatusInv /\ LeavesAsAsked /\ [Next]_vars => LeavesAsAsked'
<1> SUFFICES ASSUME Inv, ListTyped, StatusInv, LeavesAsAsked, [Next]_vars,
                    pc' = "ended", mode' = "loop"
             PROVE  LeavesAsAsked'
  BY DEF LeavesAsAsked
<1>1. CASE Eof
  <2>1. did' # "exit" /\ typed' = <<>> /\ code' = status'
    BY <1>1 DEF Eof, lineVars, Inv, SessionInv, LineInv
  <2> QED BY <2>1 DEF LeavesAsAsked
<1>2. CASE BuiltinExit
  <2> DEFINE argv == First.argv
  <2>1. /\ argv # <<>> /\ argv[1] = Exit
        /\ Len(argv) = 1 => code' = status
        /\ Len(argv) = 2 => code' = IF StrIsNumeric(argv[2]) THEN Value(argv[2]) % 256 ELSE 2
        /\ Len(argv) > 2 => code' = IF StrIsNumeric(argv[2]) THEN 1 ELSE 2
    BY <1>2, ExitIs DEF Inv, Typing
  <2>2. pc = "dispatch" /\ did' = "exit" /\ UNCHANGED <<tokVars, parseVars, status, began, mode>>
    BY <1>2 DEF BuiltinExit
  <2>3. status = began \/ (status = 2 /\ ~OnlyWords)
    BY <2>2 DEF StatusInv
  <2>4. First' = First /\ OnlyWords' = OnlyWords
    BY <2>2 DEF First, OnlyWords, tokVars, parseVars
  <2>5. Len(argv) = 1 => code' = began' \/ (code' = 2 /\ ~OnlyWords')
    BY <2>1, <2>2, <2>3, <2>4
  <2> HIDE DEF argv
  <2>6. First'.argv = argv
    BY <2>4 DEF argv
  <2> QED BY <2>1, <2>2, <2>5, <2>6 DEF LeavesAsAsked
<1>3. CASE ReturnFromC
  BY <1>3 DEF ReturnFromC
<1>4. CASE UNCHANGED vars
  BY <1>4 DEF LeavesAsAsked, First, OnlyWords, vars, tokVars, parseVars, lineVars, shVars
<1> QED BY <1>1, <1>2, <1>3, <1>4, Leaves

LEMMA AlwaysAsked == Spec => []Asked
<1>1. Init => Asked
  <2> SUFFICES ASSUME Init PROVE Asked
    OBVIOUS
  <2>1. <<>> \in Seq(Tok) /\ <<>> \in Seq(Cmd)
    OBVIOUS
  <2>2. ListTyped
    BY <2>1 DEF Init, ListTyped
  <2>3. FlagsTyped
    <3>1. hdcInterrupted \in BOOLEAN /\ struck \in BOOLEAN
      BY Zenon DEF Init
    <3>2. /\ code = None /\ child = None /\ did = "nothing" /\ began = 0 /\ freed = 0
          /\ handler \in {"main", "default"}
      BY DEF Init
    <3> QED BY <3>1, <3>2 DEF FlagsTyped
  <2>4. StatusInv /\ LeavesAsAsked
    BY DEF Init, StatusInv, LeavesAsAsked
  <2> QED BY <2>2, <2>3, <2>4 DEF Asked
<1>2. Inv /\ Inv' /\ CursorOk /\ Asked /\ [Next]_vars => Asked'
  BY ListStep, FlagsStep, StatusStep, LeavesStep DEF Asked
<1> QED BY <1>1, <1>2, AlwaysInv, AlwaysCursorOk, PTL DEF Spec

----------------------------------------------------------------------------
(* One pair of quotes from the prompt to the executor.                     *)

\* What stands in the line is text.
LineTyped == Text0 \in Seq(Char)

LEMMA AlwaysLineTyped == Spec => []LineTyped
<1>0. TextOf(<<>>) \in Seq(Char)
  <2>1. <<>> \in Seq(Char)
    OBVIOUS
  <2> QED BY <2>1, EmptyText
<1>1. Init => LineTyped
  <2> SUFFICES ASSUME Init PROVE LineTyped
    OBVIOUS
  <2>1. typed = <<>> \/ typed \in Lines
    BY DEF Init
  <2> QED BY <1>0, <2>1, ShellAssumption DEF LineTyped, Text0
<1>2. LineTyped /\ [Next]_vars => LineTyped'
  <2> SUFFICES ASSUME LineTyped, [Next]_vars PROVE LineTyped'
    OBVIOUS
  <2>1. CASE ReadLine
    <3>1. typed' \in Session
      BY <2>1 DEF ReadLine
    <3> QED BY <3>1, ShellAssumption DEF LineTyped, Text0
  <2>2. CASE NextLine
    <3>1. typed' = <<>>
      BY <2>2 DEF NextLine
    <3> QED BY <1>0, <3>1 DEF LineTyped, Text0
  <2>3. CASE UNCHANGED typed
    BY <2>3 DEF LineTyped, Text0
  <2>4. ReadLine \/ NextLine \/ UNCHANGED typed
    <3>1. ASSUME Eof \/ Interrupt \/ Stopped \/ UNCHANGED vars PROVE UNCHANGED typed
      BY <3>1 DEF Eof, Interrupt, Stopped, vars, lineVars
    <3>2. ASSUME CheckInput \/ TokenStep \/ TokensReturn \/ ParseStep \/ ParticularCase
                 \/ DropContrasting \/ BuiltinExit \/ RunBuiltin \/ NotFound \/ ForkChild \/ WaitPid
          PROVE  UNCHANGED typed
      BY <3>2 DEF CheckInput, TokenStep, TokensReturn, ParseStep, ParticularCase, DropContrasting,
                  BuiltinExit, RunBuiltin, NotFound, ForkChild, WaitPid, lineVars
    <3>3. ASSUME WaitPidInterrupted \/ StartList \/ HeredocsAbandoned \/ ListDropped \/ RunList
                 \/ ReturnFromC
          PROVE  UNCHANGED typed
      BY <3>3 DEF WaitPidInterrupted, StartList, HeredocsAbandoned, ListDropped, RunList,
                  ReturnFromC, lineVars
    <3> QED BY <3>1, <3>2, <3>3 DEF Next, LineStep
  <2> QED BY <2>1, <2>2, <2>3, <2>4
<1> QED BY <1>1, <1>2, PTL DEF Spec

\* What a heredoc would make of the pair does not change between two lines.
LEMMA HeredocStays ==
  ASSUME Text0 \in Seq(Char), OnePair, status \in 0..255, env \in Lists,
         typed' = typed, env' = env, status' = status
  PROVE  ExpandHeredocLine(Inner, env)' = ExpandHeredocLine(Inner, Env)
<1>x. PICK x, list : x = Inner /\ list = env
  OBVIOUS
<1>1. ExpandHeredocLine(x, list)' = ExpandHeredocLine(x, list)
  BY DEF ExpandHeredocLine
<1>2. Inner' = x /\ env' = list
  BY <1>x, SameLine
<1>3. ExpandHeredocLine(x, list) = ExpandHeredocLine(x, Env)
  BY <1>x, StoresAgree
<1> QED BY <1>x, <1>1, <1>2, <1>3

LEMMA PairStep ==
  Inv /\ CursorOk /\ LineTyped /\ PairInv /\ QuotedLikeHeredoc /\ [Next]_vars
    => PairInv' /\ QuotedLikeHeredoc'
<1> SUFFICES ASSUME Inv, CursorOk, LineTyped, PairInv, QuotedLikeHeredoc, [Next]_vars
             PROVE  PairInv' /\ QuotedLikeHeredoc'
  OBVIOUS
<1>0. Typed(t) /\ status \in 0..255 /\ Text0 \in Seq(Char) /\ env \in Lists
  BY DEF CursorOk, LineTyped, Inv, Typing
<1>1. CASE CheckInput
  <2>1. t = Struct(Text0) /\ tpc = "loop"
    BY <1>1 DEF CheckInput, Inv, SessionInv, ErrorInv
  <2>2. UNCHANGED <<t, tpc, env, typed>> /\ pc' \in {"done", "tokens"}
    BY <1>1 DEF CheckInput, tokVars
  <2>3. PairInTokens'
    BY <2>1, <2>2, SameLine DEF PairInTokens
  <2> QED BY <2>2, <2>3 DEF PairInv, QuotedLikeHeredoc
<1>2. CASE TokenStep
  <2>1. pc = "tokens" /\ pc' = "tokens" /\ Tokenize /\ UNCHANGED <<env, typed>>
    BY <1>2 DEF TokenStep, lineVars, shVars
  <2>2. ASSUME OnePair' PROVE PairInTokens'
    <3>1. OnePair /\ PairInTokens
      BY <2>1, <2>2, SameLine DEF PairInv
    <3> QED BY <1>0, <2>1, <3>1, PairTokensStep
  <2> QED BY <2>1, <2>2 DEF PairInv, QuotedLikeHeredoc
<1>3. CASE TokensReturn
  <2>1. /\ pc = "tokens" /\ tpc = "done" /\ rest' = t.list /\ pc' \in {"done", "parse"}
        /\ UNCHANGED <<head, current, status, typed, env>>
    BY <1>3 DEF TokensReturn, tokVars
  <2>2. head = <<>> /\ current = None
    BY <2>1 DEF Inv, SessionInv, ErrorInv
  <2>3. ASSUME OnePair' PROVE PairInParse'
    <3>1. t.list = <<Token("WORD", ExpandHeredocLine(Inner, Env))>>
      BY <2>1, <2>3, SameLine DEF PairInv, PairInTokens
    <3>2. ExpandHeredocLine(Inner, Env)' = ExpandHeredocLine(Inner, Env)
      <4>1. PICK x : x = Inner
        OBVIOUS
      <4> QED BY <2>1, <4>1, ExpandStays, SameLine
    <3> QED BY <2>1, <2>2, <3>1, <3>2 DEF PairInParse
  <2> QED BY <2>1, <2>3 DEF PairInv, QuotedLikeHeredoc
<1>4. CASE ParseStep
  <2>1. /\ pc = "parse" /\ Parse /\ pc' = (IF rest = <<>> THEN "dispatch" ELSE "parse")
        /\ typed' = typed /\ env' = env
    BY <1>4 DEF ParseStep, lineVars, tokVars
  <2> SUFFICES ASSUME OnePair'
               PROVE  /\ pc' = "parse" => PairInParse'
                      /\ pc' = "dispatch" =>
                           head' = <<[InitCommand EXCEPT !.argv = <<ExpandHeredocLine(Inner, env)'>>]>>
    BY <2>1 DEF PairInv, QuotedLikeHeredoc
  <2>2. OnePair /\ PairInParse
    BY <2>1, SameLine DEF PairInv
  <2>h. status' = status => ExpandHeredocLine(Inner, env)' = ExpandHeredocLine(Inner, Env)
    BY <1>0, <2>1, <2>2, HeredocStays
  <2>e. PICK e : e = ExpandHeredocLine(Inner, Env)
    OBVIOUS
  <2>3. status' = status => ExpandHeredocLine(Inner, Env)' = e
    <3>1. PICK x : x = Inner
      OBVIOUS
    <3> QED BY <2>1, <2>e, <3>1, ExpandStays, SameLine
  <2>4. CASE rest = <<Token("WORD", e)>> /\ current = None
    <3>1. rest # <<>> /\ rest[1].type = "WORD" /\ rest[1].value = e /\ Tail(rest) = <<>>
      BY <2>4 DEF Token
    <3>2. HandleWord
      BY <2>1, <3>1 DEF Parse, HandleRedirToken, HandlePipeToken, EndParse, Redirection
    <3>3. /\ current' = [InitCommand EXCEPT !.argv = <<e>>] /\ rest' = <<>> /\ head' = head
          /\ status' = status
      <4>1. Append(InitCommand.argv, e) = <<e>>
        BY DEF InitCommand
      <4> QED BY <2>4, <3>1, <3>2, <4>1 DEF HandleWord, AddArgument, Current
    <3> QED BY <2>1, <2>2, <2>3, <3>1, <3>3 DEF PairInParse
  <2>5. CASE rest = <<>> /\ current = [InitCommand EXCEPT !.argv = <<e>>]
    <3>1. EndParse
      BY <2>1, <2>5 DEF Parse, HandleRedirToken, HandlePipeToken, HandleWord
    <3>2. current # None
      <4>1. OnePair
        BY <2>1, SameLine
      <4>2. PairText(Inner)
        BY <1>0, <4>1, PairIs
      <4>3. PICK x : x = Inner
        OBVIOUS
      <4>4. x \in Seq(Char) /\ 1 \in 1..Len(x) + 1
        BY <4>2, <4>3 DEF PairText
      <4>5. PICK f : HeredocMakes(x, f)
        BY <1>0, <4>4, HeredocExists
      <4>6. e \in Seq(Char)
        BY <2>e, <4>3, <4>4, <4>5 DEF HeredocMakes, Expansion
      <4>7. current \in Cmd
        <5>1. Append(InitCommand.argv, e) = <<e>>
          BY DEF InitCommand
        <5>2. current = AddArgument(InitCommand, e)
          BY <2>5, <5>1 DEF AddArgument
        <5> QED BY <4>6, <5>2, NewCommand, CommandIs
      <4> QED BY <4>7, CommandIs
    <3>3. head' = <<[InitCommand EXCEPT !.argv = <<e>>]>> /\ status' = status
      BY <2>2, <2>5, <3>1, <3>2 DEF EndParse, PairInParse
    <3> QED BY <2>1, <2>e, <2>h, <2>5, <3>3
  <2> QED BY <2>2, <2>e, <2>4, <2>5 DEF PairInParse
<1>5. CASE UNCHANGED vars
  <2>1. UNCHANGED <<t, tpc, env, pc, typed, status, rest, head, current>>
    BY <1>5 DEF vars, tokVars, parseVars, lineVars, shVars
  <2>2. ExpandHeredocLine(Inner, Env)' = ExpandHeredocLine(Inner, Env)
    <3>1. PICK x : x = Inner
      OBVIOUS
    <3> QED BY <2>1, <3>1, ExpandStays, SameLine
  <2>3. PairInv'
    <3>1. ASSUME OnePair', pc' = "tokens" PROVE PairInTokens'
      <4>1. OnePair /\ PairInTokens
        BY <2>1, <3>1, SameLine DEF PairInv
      <4> QED BY <1>0, <2>1, <4>1, PairTokensStep
    <3>2. ASSUME OnePair', pc' = "parse" PROVE PairInParse'
      <4>1. PairInParse
        BY <2>1, <3>2, SameLine DEF PairInv
      <4> QED BY <2>1, <2>2, <4>1 DEF PairInParse
    <3> QED BY <3>1, <3>2 DEF PairInv
  <2>4. QuotedLikeHeredoc'
    <3>1. PICK x, list : x = Inner /\ list = env
      OBVIOUS
    <3>2. ExpandHeredocLine(x, list)' = ExpandHeredocLine(x, list)
      BY <2>1 DEF ExpandHeredocLine
    <3>3. ExpandHeredocLine(Inner, env)' = ExpandHeredocLine(Inner, env)
      BY <2>1, <3>1, <3>2, SameLine
    <3> QED BY <2>1, <3>3, SameLine DEF QuotedLikeHeredoc
  <2> QED BY <2>3, <2>4
<1>6. CASE ReadLine \/ NextLine
  <2>1. pc' \notin {"tokens", "parse", "dispatch"}
    BY <1>6 DEF ReadLine, NextLine
  <2> QED BY <2>1 DEF PairInv, QuotedLikeHeredoc
<1>7. CASE pc' \notin {"open", "tokens", "parse", "dispatch"}
  BY <1>7 DEF PairInv, QuotedLikeHeredoc
<1> QED BY <1>1, <1>2, <1>3, <1>4, <1>5, <1>6, <1>7, Elsewhere

LEMMA AlwaysPairInv == Spec => [](PairInv /\ QuotedLikeHeredoc)
<1>1. Init => PairInv /\ QuotedLikeHeredoc
  BY DEF Init, PairInv, QuotedLikeHeredoc
<1>2. /\ Inv /\ CursorOk /\ LineTyped /\ PairInv /\ QuotedLikeHeredoc /\ [Next]_vars
      => PairInv' /\ QuotedLikeHeredoc'
  BY PairStep
<1> QED BY <1>1, <1>2, AlwaysInv, AlwaysCursorOk, AlwaysLineTyped, PTL DEF Spec

----------------------------------------------------------------------------
(* The theorems.                                                           *)

\* The seven parts of the invariant, and what they imply, hold in every session.
THEOREM SessionInvariant == Spec => []IInv
<1>1. Inv /\ Asked /\ WordInv /\ PairInv /\ QuotedLikeHeredoc => IInv
  BY DEF Inv, SessionInv, Asked, IInv
<1> QED BY <1>1, AlwaysInv, AlwaysAsked, AlwaysWordInv, AlwaysPairInv, PTL

\* Whatever is typed, every list of tokens the parser is given and every list of
\* commands it makes is one, and g_exit_status, the exit code and what a child ends
\* with are bytes.
THEOREM TypesCorrect == Spec => []TypeOK
<1>1. Inv /\ Asked => TypeOK
  BY DEF Inv, Typing, Asked, ListTyped, FlagsTyped, TypeOK, Tok
<1> QED BY <1>1, AlwaysInv, AlwaysAsked, PTL

\* The shell leaves a session with what exit was asked for: the low byte of any
\* number that a long can hold, however many zeros it begins with and whatever the
\* powers of ten in ft_atolli wrap to, for any width of a long; or with the status of
\* the line before.
THEOREM LeavesCorrect == Spec => []LeavesAsAsked
<1>1. Asked => LeavesAsAsked
  BY DEF Asked
<1> QED BY <1>1, AlwaysAsked, PTL

\* g_exit_status is a byte, whatever the shell ran, refused or was interrupted in.
THEOREM StatusIsByte == Spec => [](status \in 0..255)
<1>1. Inv => status \in 0..255
  BY DEF Inv, Typing
<1> QED BY <1>1, AlwaysInv, PTL

\* A line tokens() refuses leaves 2, and nothing of it is parsed or run.
THEOREM RefusedLinesLeaveTwo == Spec => []RefusedLeavesTwo
<1>1. IInv => RefusedLeavesTwo
  BY DEF IInv
<1> QED BY <1>1, SessionInvariant, PTL

\* Every command that feeds a pipe has a word, and a redirection without a file
\* name is in the status when the list is dispatched.
THEOREM ListsAreWellFormed == Spec => []ListWellFormed
<1>1. IInv => ListWellFormed
  BY DEF IInv
<1> QED BY <1>1, SessionInvariant, PTL

\* The status of a simple command is its child's, unless a Ctrl+C met the handler
\* a failed list had left.
THEOREM StatusIsFaithful == Spec => []StatusIsChilds
<1>1. IInv => StatusIsChilds
  BY DEF IInv
<1> QED BY <1>1, SessionInvariant, PTL

\* No list of an interactive shell is dropped for an earlier interruption.
THEOREM InterruptionsAreForgotten == Spec => []OwnInterruption
<1>1. IInv => OwnInterruption
  BY DEF IInv
<1> QED BY <1>1, SessionInvariant, PTL

\* No line is lost or freed twice in the loop; in -c mode it is freed twice
\* exactly when an empty pair of quotes was cut out of it.
THEOREM LinesAreFreed == Spec => []LineFreedOnce
<1>1. IInv => LineFreedOnce
  BY DEF IInv
<1> QED BY <1>1, SessionInvariant, PTL

\* Wherever tokens() reads the character under its cursor without asking for the
\* length of the line first, there is one, or the end of the line, for any line and
\* any variables; the anchor is never behind the cursor, and the quote that is open
\* stands between them.
THEOREM CursorStaysInLine == Spec => []CursorInLine
<1>1. CursorOk => CursorInLine
  BY DEF CursorOk
<1> QED BY <1>1, AlwaysCursorOk, PTL

\* A word is put together from pieces that quotes cut out of the line; whatever is
\* quoted in a line without variables, wherever pipes, angles and blanks end its
\* words and whether or not quotes shorten it, none is left in tmp_token when
\* tokens() returns the list.
THEOREM WordsAreKept == Spec => []NoWordLost
<1>1. WordInv => NoWordLost
  BY DEF WordInv, WordInHand, NoWordLost
<1> QED BY <1>1, AlwaysWordInv, PTL

\* What stands in one pair of double quotes reaches the executor as a line of a
\* heredoc would be read, although check_var and expand_heredoc_line share neither
\* code nor store: any text whose names have one value in getenv() and in the shell's
\* list at that moment, a value neither of the two treats specially (Agreed).
THEOREM QuotesExpandAlike == Spec => []QuotedLikeHeredoc
BY AlwaysPairInv, PTL
=============================================================================
