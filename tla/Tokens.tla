------------------------------- MODULE Tokens -------------------------------
(***************************************************************************)
(* What tokens() and parse_commands() share: a list of tokens, each a      *)
(* record of a type and a value, and g_exit_status.  A text is a sequence  *)
(* of characters.                                                          *)
(***************************************************************************)
EXTENDS Integers, SequencesExt

CONSTANT None   \* a null pointer

VARIABLE status \* g_exit_status

Redirection == {"LESS", "GREAT", "DLESS", "DGREAT"}
TokenTypes == Redirection \cup {"WORD", "PIPE", "METACHAR"}
Token(type, value) == [type |-> type, value |-> value]

Space == " "
DQuote == "\""
Angle == {"<", ">"}
Digit == {"0", "1", "2", "3", "4", "5", "6", "7", "8", "9"}
Letter == {"a", "b", "c", "d", "e", "f", "g", "h", "i", "j", "k", "l", "m",
           "n", "o", "p", "q", "r", "s", "t", "u", "v", "w", "x", "y", "z",
           "A", "B", "C", "D", "E", "F", "G", "H", "I", "J", "K", "L", "M",
           "N", "O", "P", "Q", "R", "S", "T", "U", "V", "W", "X", "Y", "Z"}
NameChar == Letter \cup Digit \cup {"_"}

\* ft_itoa of a status, which is a byte.
Figure(n) == <<"0", "1", "2", "3", "4", "5", "6", "7", "8", "9">>[(n % 10) + 1]
Itoa == [n \in 0..255 |->
  LET all == <<Figure(n \div 100), Figure(n \div 10), Figure(n)>>
  IN  SubSeq(all, IF n < 10 THEN 3 ELSE IF n < 100 THEN 2 ELSE 1, 3)]
=============================================================================
