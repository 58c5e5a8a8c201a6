------------------------------- MODULE Parser -------------------------------
(***************************************************************************)
(* parse_commands (parser/parse_utils.c and what it calls): a list of      *)
(* tokens becomes a list of commands, one action for each token the loop   *)
(* looks at.  The loop's other condition, token->error, is never true: the *)
(* flag is set on a token the loop has already left.                       *)
(***************************************************************************)
EXTENDS Tokens

VARIABLES
  rest,      \* the tokens from `token' on
  head,      \* the finished commands
  current    \* the command that is being put together

parseVars == <<rest, head, current>>

InitCommand == [argv |-> <<>>, redirs |-> <<>>, contrasting |-> FALSE]

\* init_command, at the first token of a command.
Current == IF current = None THEN InitCommand ELSE current

AddArgument(cmd, word) == [cmd EXCEPT !.argv = Append(@, word)]
AddRedir(cmd, type, name) ==
  [cmd EXCEPT !.redirs = Append(@, [type |-> type, filename |-> name])]

HasOperand == Len(rest) > 1 /\ rest[2].type = "WORD"

\* Mutant: a redirection without a file name leaves the command as it is.
RedirForgetsError ==
  /\ rest # <<>> /\ rest[1].type \in Redirection
  /\ IF HasOperand
     THEN /\ current' = AddRedir(Current, rest[1].type, rest[2].value)
          /\ status' = status
     ELSE current' = Current /\ status' = 2
  /\ rest' = SubSeq(rest, 3, Len(rest))
  /\ UNCHANGED head

\* A redirection takes the token behind it, whatever it is; when that is no
\* word, the command is marked and will not run.
HandleRedirToken ==
  /\ rest # <<>> /\ rest[1].type \in Redirection
  /\ IF HasOperand
     THEN /\ current' = AddRedir(Current, rest[1].type, rest[2].value)
          /\ status' = status
     ELSE current' = [Current EXCEPT !.contrasting = TRUE] /\ status' = 2
  /\ rest' = SubSeq(rest, 3, Len(rest))
  /\ UNCHANGED head

\* Mutant: the words behind the pipe go on in the same command.
PipeKeepsCurrent ==
  /\ rest # <<>> /\ rest[1].type = "PIPE"
  /\ current' = Current
  /\ IF Current.argv = <<>>
     THEN status' = 2 /\ head' = head
     ELSE status' = status /\ head' = Append(head, Current)
  /\ rest' = Tail(rest)

\* Mutant: a pipe ends any command.
PipeEndsEmpty ==
  /\ rest # <<>> /\ rest[1].type = "PIPE"
  /\ current' = None /\ head' = Append(head, Current)
  /\ status' = IF Current.argv = <<>> THEN 2 ELSE status
  /\ rest' = Tail(rest)

\* A pipe ends the current command.  One without words is kept, after a message:
\* the words behind the pipe are added to it.
HandlePipeToken ==
  /\ rest # <<>> /\ rest[1].type = "PIPE"
  /\ IF Current.argv = <<>>
     THEN current' = Current /\ status' = 2 /\ head' = head
     ELSE current' = None /\ status' = status /\ head' = Append(head, Current)
  /\ rest' = Tail(rest)

HandleWord ==
  /\ rest # <<>> /\ rest[1].type = "WORD"
  /\ current' = AddArgument(Current, rest[1].value)
  /\ rest' = Tail(rest)
  /\ UNCHANGED <<head, status>>

\* The command the list of tokens ends in is added: parse_commands returns.
EndParse ==
  /\ rest = <<>>
  /\ head' = (IF current = None THEN head ELSE Append(head, current)) /\ current' = None
  /\ UNCHANGED <<rest, status>>

Parse == HandleRedirToken \/ HandlePipeToken \/ HandleWord \/ EndParse
=============================================================================
