-------------------------- MODULE TokenizerProofs ---------------------------
(***************************************************************************)
(* What the functions of the tokenizer do to its state, for any line and   *)
(* any variables.  First the flags that decide whether the line is         *)
(* refused: they change at the places named here and nowhere else.  Then   *)
(* where the cursor can stand, although quotes and values make the line    *)
(* shorter and longer under it.  And what becomes of the pieces a word is  *)
(* put together from, in a line without variables.                         *)
(***************************************************************************)
EXTENDS Tokenizer, LoopTheorems, SequenceTheorems, TLAPS

Fields == DOMAIN Struct(<<>>)

\* The record keeps its fields and its error flag; and its quotes as well.
KeepsError(s, r) == DOMAIN r = Fields /\ r.error = s.error
KeepsFlags(s, r) ==
  KeepsError(s, r) /\ r.single_quote = s.single_quote /\ r.double_quote = s.double_quote

LEMMA FieldNames ==
  Fields = {"input", "pos", "count", "anchor_pos", "quote", "list", "single_quote",
            "double_quote", "continue_var", "tmp_token", "num_var", "free_input", "error"}
BY DEF Fields, Struct

----------------------------------------------------------------------------
(* The list of tokens.                                                     *)

LEMMA AddCustomTokenKeeps ==
  ASSUME NEW s, DOMAIN s = Fields, NEW value, NEW type
  PROVE  KeepsFlags(s, AddCustomToken(s, value, type))
BY FieldNames DEF AddCustomToken, KeepsFlags, KeepsError

LEMMA LastStrKeeps ==
  ASSUME NEW s, DOMAIN s = Fields, NEW text
  PROVE  KeepsFlags(s, LastStr(s, text))
<1> DEFINE r == AddCustomToken(s, s.tmp_token \o text, "WORD")
<1>1. KeepsFlags(s, r)
  BY AddCustomTokenKeeps
<1> QED BY <1>1, FieldNames DEF LastStr, KeepsFlags, KeepsError

LEMMA TempTokenKeeps ==
  ASSUME NEW s, DOMAIN s = Fields, NEW text
  PROVE  KeepsFlags(s, TempToken(s, text))
BY FieldNames DEF TempToken, KeepsFlags, KeepsError

LEMMA AddTokenKeeps ==
  ASSUME NEW s, DOMAIN s = Fields
  PROVE  KeepsFlags(s, AddToken(s))
<1> DEFINE from  == IF At(s, s.pos) = NUL THEN s.anchor_pos
                    ELSE Min({SkipOver(s, s.anchor_pos, {Space}), Max({s.pos, s.anchor_pos})})
           redir == from = s.pos /\ At(s, from) \in Angle
           upto  == IF redir THEN s.pos + 1 ELSE s.pos
           text  == Text(s, from, upto)
           moved == [s EXCEPT !.anchor_pos = upto, !.pos = upto]
           type  == IF text[1] \in Angle \cup {"|"} THEN "METACHAR" ELSE "WORD"
<1>1. DOMAIN moved = Fields /\ KeepsFlags(s, moved)
  <2> HIDE DEF upto
  <2> QED BY FieldNames DEF KeepsFlags, KeepsError
<1>2. AddToken(s) =
        IF s.pos > Len(s.input) THEN s
        ELSE IF redir /\ At(s, s.pos + 1) \in Angle THEN [s EXCEPT !.anchor_pos = from]
        ELSE IF upto = from \/ At(s, from) = Space THEN [moved EXCEPT !.anchor_pos = from + 1]
        ELSE IF s.tmp_token # None THEN LastStr(moved, text)
        ELSE [AddCustomToken(moved, text, type) EXCEPT !.pos = s.pos]
  BY DEF AddToken
<1> HIDE DEF from, redir, upto, text, moved, type
<1>3. KeepsFlags(moved, LastStr(moved, text))
  BY <1>1, LastStrKeeps
<1>4. KeepsFlags(moved, AddCustomToken(moved, text, type))
  BY <1>1, AddCustomTokenKeeps
<1>5. KeepsFlags(s, [s EXCEPT !.anchor_pos = from])
  BY FieldNames DEF KeepsFlags, KeepsError
<1>6. KeepsFlags(s, [moved EXCEPT !.anchor_pos = from + 1])
  BY <1>1, FieldNames DEF KeepsFlags, KeepsError
<1>7. KeepsFlags(s, [AddCustomToken(moved, text, type) EXCEPT !.pos = s.pos])
  BY <1>1, <1>4, FieldNames DEF KeepsFlags, KeepsError
<1> QED BY <1>1, <1>2, <1>3, <1>5, <1>6, <1>7 DEF KeepsFlags, KeepsError

LEMMA LastWordKeeps ==
  ASSUME NEW s, DOMAIN s = Fields
  PROVE  KeepsFlags(s, LastWord(s))
BY AddTokenKeeps DEF LastWord, KeepsFlags, KeepsError

----------------------------------------------------------------------------
(* Quotes.                                                                 *)

LEMMA QuotesKeeps ==
  ASSUME NEW s, DOMAIN s = Fields
  PROVE  KeepsError(s, Quotes(s))
BY FieldNames DEF Quotes, KeepsError

LEMMA PrepareStrKeeps ==
  ASSUME NEW s, DOMAIN s = Fields
  PROVE  KeepsFlags(s, PrepareStr(s))
<1> DEFINE text == Text(s, s.anchor_pos, s.pos)
<1>1. KeepsFlags(s, TempToken(s, text)) /\ KeepsFlags(s, LastStr(s, text))
      /\ KeepsFlags(s, AddCustomToken(s, text, "WORD"))
  BY TempTokenKeeps, LastStrKeeps, AddCustomTokenKeeps
<1>2. PrepareStr(s) \in {TempToken(s, text), LastStr(s, text), AddCustomToken(s, text, "WORD")}
  BY DEF PrepareStr
<1> HIDE DEF text
<1> QED BY <1>1, <1>2

LEMMA PrepareQuotesKeeps ==
  ASSUME NEW s, DOMAIN s = Fields
  PROVE  KeepsFlags(s, PrepareQuotes(s))
<1>1. KeepsFlags(s, HandleFirstQuoteCase(s))
  BY FieldNames DEF HandleFirstQuoteCase, KeepsFlags, KeepsError
<1>2. KeepsFlags(s, HandleMiddleQuoteCase(s))
  <2> DEFINE text == Text(s, s.anchor_pos, s.quote) \o Text(s, s.quote + 1, s.pos)
             ends == At(s, s.pos + 1) \in {NUL, Space}
             done == CASE ~ends                       -> TempToken(s, text)
                       [] ends /\ s.tmp_token # None  -> LastStr(s, text)
                       [] OTHER                       -> AddCustomToken(s, text, "WORD")
  <2>1. KeepsFlags(s, TempToken(s, text)) /\ KeepsFlags(s, LastStr(s, text))
        /\ KeepsFlags(s, AddCustomToken(s, text, "WORD"))
    BY TempTokenKeeps, LastStrKeeps, AddCustomTokenKeeps
  <2>2. HandleMiddleQuoteCase(s) = [done EXCEPT !.pos = done.pos + 1]
    BY DEF HandleMiddleQuoteCase
  <2>3. done \in {TempToken(s, text), LastStr(s, text), AddCustomToken(s, text, "WORD")}
    OBVIOUS
  <2> HIDE DEF text, ends, done
  <2>4. KeepsFlags(s, done)
    BY <2>1, <2>3
  <2> QED BY <2>2, <2>4, FieldNames DEF KeepsFlags, KeepsError
<1> DEFINE done == IF s.pos = s.quote + 1 THEN HandleFirstQuoteCase(s) ELSE HandleMiddleQuoteCase(s)
<1>3. PrepareQuotes(s) = [done EXCEPT !.anchor_pos = done.pos]
  BY DEF PrepareQuotes
<1>4. KeepsFlags(s, done)
  BY <1>1, <1>2
<1> HIDE DEF done
<1> QED BY <1>3, <1>4, FieldNames DEF KeepsFlags, KeepsError

LEMMA InQuotesKeeps ==
  ASSUME NEW s, DOMAIN s = Fields
  PROVE  KeepsFlags(s, InQuotes(s))
BY FieldNames DEF InQuotes, KeepsFlags, KeepsError

LEMMA QuoteHandlersKeep ==
  ASSUME NEW s, DOMAIN s = Fields
  PROVE  KeepsError(s, HandleDoubleQuote(s)) /\ KeepsError(s, HandleSingleQuote(s))
<1> DEFINE piece == PrepareStr(InQuotes(s))
<1>1. DOMAIN InQuotes(s) = Fields /\ KeepsError(s, InQuotes(s))
  BY InQuotesKeeps DEF KeepsFlags, KeepsError
<1>2. KeepsError(s, piece)
  BY <1>1, PrepareStrKeeps DEF KeepsFlags, KeepsError
<1>3. KeepsError(s, PrepareQuotes(s))
  BY PrepareQuotesKeeps DEF KeepsFlags
<1> HIDE DEF piece
<1>4. KeepsError(s, HandleDoubleQuote(s))
  <2> DEFINE done == IF s.pos <= s.anchor_pos THEN s
                     ELSE IF s.quote # s.anchor_pos THEN PrepareQuotes(s)
                     ELSE [piece EXCEPT !.pos = piece.pos + 1, !.anchor_pos = s.pos + 1]
  <2>1. HandleDoubleQuote(s) =
          [done EXCEPT !.double_quote = FALSE,
                       !.continue_var = IF At(done, done.pos) = DQuote THEN ~done.continue_var
                                        ELSE done.continue_var]
    BY DEF HandleDoubleQuote, piece
  <2>2. KeepsError(s, [piece EXCEPT !.pos = piece.pos + 1, !.anchor_pos = s.pos + 1])
    BY <1>2, FieldNames DEF KeepsError
  <2>3. KeepsError(s, done)
    BY <1>3, <2>2 DEF KeepsError
  <2> HIDE DEF done
  <2> QED BY <2>1, <2>3, FieldNames DEF KeepsError
<1>5. KeepsError(s, HandleSingleQuote(s))
  <2> DEFINE done == IF s.pos <= s.anchor_pos THEN s
                     ELSE IF s.quote # s.anchor_pos THEN PrepareQuotes(s)
                     ELSE [piece EXCEPT !.anchor_pos = s.pos + 1]
  <2>1. HandleSingleQuote(s) =
          [done EXCEPT !.single_quote = FALSE,
                       !.pos = IF At(done, done.pos) # NUL THEN done.pos + 1 ELSE done.pos]
    BY DEF HandleSingleQuote, piece
  <2>2. KeepsError(s, [piece EXCEPT !.anchor_pos = s.pos + 1])
    BY <1>2, FieldNames DEF KeepsError
  <2>3. KeepsError(s, done)
    BY <1>3, <2>2 DEF KeepsError
  <2> HIDE DEF done
  <2> QED BY <2>1, <2>3, FieldNames DEF KeepsError
<1> QED BY <1>4, <1>5

----------------------------------------------------------------------------
(* Variables and $?.                                                       *)

LEMMA ExpansionsKeep ==
  ASSUME NEW s, DOMAIN s = Fields, NEW at
  PROVE  KeepsError(s, ExpandExitStatus(s)) /\ KeepsError(s, HandleVariableExpansion(s, at))
<1>1. KeepsError(s, ExpandExitStatus(s))
  BY FieldNames DEF ExpandExitStatus, KeepsError
<1>2. KeepsError(s, HandleVariableExpansion(s, at))
  BY FieldNames DEF HandleVariableExpansion, KeepsError
<1> QED BY <1>1, <1>2

LEMMA HandleLonelyDollarKeeps ==
  ASSUME NEW s, DOMAIN s = Fields
  PROVE  KeepsError(s, HandleLonelyDollar(s))
<1> DEFINE done == IF s.tmp_token # None THEN LastStr(s, <<"$">>)
                   ELSE AddCustomToken(s, <<"$">>, "WORD")
<1>1. HandleLonelyDollar(s) =
        [done EXCEPT !.anchor_pos = done.anchor_pos + 1, !.pos = s.anchor_pos + 1]
  BY DEF HandleLonelyDollar
<1>2. KeepsError(s, done)
  BY LastStrKeeps, AddCustomTokenKeeps DEF KeepsFlags
<1> HIDE DEF done
<1> QED BY <1>1, <1>2, FieldNames DEF KeepsError

LEMMA HandleEnvVarKeeps ==
  ASSUME NEW s, DOMAIN s = Fields
  PROVE  KeepsError(s, HandleEnvVar(s))
<1> DEFINE end  == SkipOver(s, IF s.pos = s.anchor_pos THEN s.pos + 1 ELSE s.pos, NameChar)
           name == Text(s, s.anchor_pos + 1, end)
           gone == IF s.tmp_token = None THEN s ELSE LastStr(s, <<>>)
           line == Text(s, 0, s.anchor_pos) \o env[name] \o Rest(s, end)
<1>1. HandleEnvVar(s) = IF name \in DOMAIN env
                        THEN [s EXCEPT !.input = line, !.pos = s.anchor_pos]
                        ELSE [gone EXCEPT !.anchor_pos = end, !.pos = end]
  BY DEF HandleEnvVar
<1>2. KeepsError(s, gone)
  BY LastStrKeeps DEF KeepsFlags, KeepsError
<1> HIDE DEF end, name, gone, line
<1> QED BY <1>1, <1>2, FieldNames DEF KeepsError

LEMMA IsVar2Keeps ==
  ASSUME NEW s, DOMAIN s = Fields
  PROVE  KeepsError(s, IsVar2(s))
<1> DEFINE last   == SkipOver(s, s.pos + 1, NameChar) - 1
           prefix == Text(s, s.anchor_pos, s.pos)
           name   == IF last = s.pos THEN <<"$">> ELSE Text(s, s.pos + 1, last + 1)
           num    == s.num_var \/ At(s, s.pos + 1) \in Digit
           after  == IF num THEN Text(s, s.anchor_pos + Len(name) + 1, last) ELSE <<>>
           line   == Text(s, 0, s.anchor_pos) \o prefix \o Env[name] \o Rest(s, last + 1)
           done   == AddCustomToken(s, prefix \o after, "WORD")
<1>1. IsVar2(s) =
        IF name \in DOMAIN Env
        THEN [s EXCEPT !.input = line, !.pos = last, !.num_var = num]
        ELSE [done EXCEPT !.pos = last + 1, !.anchor_pos = last + 1, !.num_var = FALSE]
  BY DEF IsVar2
<1>2. KeepsError(s, done)
  BY AddCustomTokenKeeps DEF KeepsFlags
<1> HIDE DEF last, prefix, name, num, after, line, done
<1> QED BY <1>1, <1>2, FieldNames DEF KeepsError

LEMMA IsVarKeeps ==
  ASSUME NEW s, DOMAIN s = Fields
  PROVE  KeepsError(s, IsVar(s))
<1> DEFINE a == [s EXCEPT !.anchor_pos = IF At(s, s.anchor_pos) = Space THEN s.anchor_pos + 1
                                         ELSE s.anchor_pos]
<1>1. IsVar(s) \in {ExpandExitStatus(s), IsVar2(a), HandleLonelyDollar(a), HandleEnvVar(a)}
  BY DEF IsVar
<1>2. DOMAIN a = Fields /\ KeepsError(s, a)
  BY FieldNames DEF KeepsError
<1> HIDE DEF a
<1>3. KeepsError(s, ExpandExitStatus(s))
  BY ExpansionsKeep
<1>4. KeepsError(a, IsVar2(a)) /\ KeepsError(a, HandleLonelyDollar(a)) /\ KeepsError(a, HandleEnvVar(a))
  BY <1>2, IsVar2Keeps, HandleLonelyDollarKeeps, HandleEnvVarKeeps
<1> QED BY <1>1, <1>2, <1>3, <1>4 DEF KeepsError

----------------------------------------------------------------------------
(* Metacharacters may set the error flag; the record keeps its fields.     *)

LEMMA AddTokenFields ==
  ASSUME NEW s, DOMAIN s = Fields
  PROVE  DOMAIN AddToken(s) = Fields
BY AddTokenKeeps DEF KeepsFlags, KeepsError

LEMMA CheckPipesFields ==
  ASSUME NEW s, DOMAIN s = Fields
  PROVE  DOMAIN CheckPipes(s) = Fields
<1> DEFINE start == Max({0} \cup {k \in 1..s.pos : At(s, k - 1) \in {Space, "|"} \cup Angle})
           word  == IF start = s.pos THEN s ELSE AddCustomToken(s, Text(s, start, s.pos), "WORD")
           a     == [word EXCEPT !.anchor_pos = s.pos]
           b     == [a EXCEPT !.pos = a.pos + 1]
<1>1. DOMAIN word = Fields
  BY AddCustomTokenKeeps DEF KeepsFlags, KeepsError
<1>2. CheckPipes(s) \in {[a EXCEPT !.error = TRUE], AddToken(b)}
  BY DEF CheckPipes
<1> HIDE DEF start, word
<1>3. DOMAIN [a EXCEPT !.error = TRUE] = Fields /\ DOMAIN b = Fields
  BY <1>1
<1> HIDE DEF a, b
<1> QED BY <1>2, <1>3, AddTokenFields

LEMMA MetacharactersFields ==
  ASSUME NEW s0, DOMAIN s0 = Fields
  PROVE  DOMAIN Metacharacters(s0) = Fields
<1> DEFINE s  == [s0 EXCEPT !.pos = Min({s0.pos, Len(s0.input)})]
           m  == MetaToken(s)
<1>1. DOMAIN s = Fields
  OBVIOUS
<1>2. Metacharacters(s0) \in {m, [m EXCEPT !.pos = m.pos + 1]}
  BY DEF Metacharacters
<1>3. m \in {s, AddToken(s), CheckPipes(s), OneLessMore(s), TwoLessMore(s), TripleMeta(s)}
  BY Zenon DEF MetaToken
<1> HIDE DEF s, m
<1>4. DOMAIN OneLessMore(s) = Fields
  <2> DEFINE b == [s EXCEPT !.pos = IF s.pos = s.anchor_pos THEN s.pos + 1 ELSE s.pos]
  <2>1. OneLessMore(s) = AddToken(b) /\ DOMAIN b = Fields
    BY <1>1 DEF OneLessMore
  <2> HIDE DEF b
  <2> QED BY <2>1, AddTokenFields
<1>5. DOMAIN TwoLessMore(s) = Fields
  <2> DEFINE a    == [s EXCEPT !.anchor_pos = SkipOver(s, s.anchor_pos, {Space})]
             next == AddCustomToken(a, Text(a, a.anchor_pos, a.pos), "WORD")
             word == IF At(a, a.anchor_pos) \in Angle THEN a ELSE [next EXCEPT !.anchor_pos = a.pos]
             b    == [word EXCEPT !.pos = word.pos + 2]
             done == AddToken(b)
  <2>1. TwoLessMore(s) = [done EXCEPT !.anchor_pos = done.pos]
    BY DEF TwoLessMore
  <2>2. DOMAIN a = Fields
    BY <1>1
  <2> HIDE DEF a
  <2>3. DOMAIN next = Fields
    BY <2>2, AddCustomTokenKeeps DEF KeepsFlags, KeepsError
  <2> HIDE DEF next
  <2>4. DOMAIN b = Fields
    BY <2>2, <2>3
  <2> HIDE DEF b
  <2>5. DOMAIN done = Fields
    BY <2>4, AddTokenFields
  <2> HIDE DEF done
  <2> QED BY <2>1, <2>5
<1>6. DOMAIN TripleMeta(s) = Fields
  <2> DEFINE b == [s EXCEPT !.pos = s.pos + 2, !.error = TRUE]
  <2>1. TripleMeta(s) = AddToken(b) /\ DOMAIN b = Fields
    BY <1>1 DEF TripleMeta
  <2> HIDE DEF b
  <2> QED BY <2>1, AddTokenFields
<1>7. DOMAIN m = Fields
  BY <1>1, <1>3, <1>4, <1>5, <1>6, AddTokenFields, CheckPipesFields
<1> QED BY <1>2, <1>7

----------------------------------------------------------------------------
(* The loop.                                                               *)

\* An error of the tokenizer ends it within a step, and what it returns then is
\* no token and the status 2.
TokInv ==
  /\ DOMAIN t = Fields
  /\ t.error => tpc \in {"tail", "loop", "done"} /\ status = 2
  /\ tpc = "done" /\ Fails => status = 2 /\ t.list = <<>>

LEMMA StructStarts == ASSUME NEW line PROVE DOMAIN Struct(line) = Fields /\ ~Struct(line).error
BY DEF Struct, Fields

LEMMA TokenizeKeeps == TokInv /\ Tokenize => TokInv'
<1> SUFFICES ASSUME TokInv, Tokenize PROVE TokInv'
  OBVIOUS
<1>f. DOMAIN t = Fields
  BY DEF TokInv
<1>1. CASE ReadQuotes
  <2> DEFINE s == Quotes(t)
  <2>1. t' = [s EXCEPT !.count = s.pos] /\ tpc' = "open" /\ ~t.error
    BY <1>1 DEF ReadQuotes
  <2>2. KeepsError(t, s)
    BY <1>f, QuotesKeeps
  <2> HIDE DEF s
  <2> QED BY <1>f, <2>1, <2>2, FieldNames DEF TokInv, KeepsError
<1>2. CASE CheckVar
  <2> DEFINE a == [t EXCEPT !.pos = t.count]
             x == ExpandExitStatus(a)
             v == HandleVariableExpansion(t, t.count)
  <2>1. /\ tpc = "open" /\ tpc' \in {"open", "close"}
        /\ t' \in {t, [x EXCEPT !.count = x.count + 1], [v EXCEPT !.count = v.count + 1],
                   [t EXCEPT !.count = Min(Plain(t))]}
    BY <1>2 DEF CheckVar
  <2>2. DOMAIN a = Fields /\ KeepsError(t, a)
    BY <1>f, FieldNames DEF KeepsError
  <2> HIDE DEF a
  <2>3. KeepsError(t, x) /\ KeepsError(t, v)
    BY <1>f, <2>2, ExpansionsKeep DEF KeepsError
  <2> HIDE DEF x, v
  <2>4. ~t.error
    BY <2>1 DEF TokInv
  <2> QED BY <1>f, <2>1, <2>3, <2>4, FieldNames DEF TokInv, KeepsError
<1>3. CASE OpenQuotes
  <2> DEFINE ends == {k \in t.pos..Len(t.input) :
                        /\ At(t, k) = (IF t.single_quote THEN "'" ELSE DQuote)
                        /\ At(t, k - 1) # "\\"}
             c    == [t EXCEPT !.pos = Min(ends \cup {Len(t.input)})]
             done == CASE ~QuoteOpen                     -> t
                       [] QuoteOpen /\ ends = {}         -> c
                       [] t.single_quote /\ ends # {}    -> HandleSingleQuote(c)
                       [] OTHER                          -> HandleDoubleQuote(c)
  <2>1. /\ tpc \in {"close", "open"} /\ tpc' \in {"tail", "var"}
        /\ t' = [done EXCEPT !.continue_var = FALSE]
    BY <1>3 DEF OpenQuotes
  <2>2. DOMAIN c = Fields /\ KeepsError(t, c)
    BY <1>f, FieldNames DEF KeepsError
  <2>3. done \in {t, c, HandleSingleQuote(c), HandleDoubleQuote(c)}
    OBVIOUS
  <2> HIDE DEF ends, c, done
  <2>4. KeepsError(t, done)
    BY <1>f, <2>2, <2>3, QuoteHandlersKeep DEF KeepsError
  <2>5. ~t.error
    BY <2>1 DEF TokInv
  <2> QED BY <2>1, <2>4, <2>5, FieldNames DEF TokInv, KeepsError
<1>4. CASE ReadVar
  <2>1. tpc = "var" /\ t' \in {t, IsVar(t)} /\ tpc' \in {"tail", "meta"}
    BY <1>4 DEF ReadVar
  <2>2. ~t.error /\ KeepsError(t, IsVar(t))
    BY <1>f, <2>1, IsVarKeeps DEF TokInv
  <2> QED BY <1>f, <2>1, <2>2 DEF TokInv, KeepsError
<1>5. CASE ReadMeta
  <2>1. DOMAIN t' = Fields
    BY <1>f, <1>5, MetacharactersFields DEF ReadMeta
  <2> QED BY <1>5, <2>1 DEF ReadMeta, TokInv
<1>6. CASE ReadTail
  <2>1. KeepsFlags(t, t') /\ tpc = "tail" /\ tpc' = "loop" /\ status' = status
    BY <1>f, <1>6, LastWordKeeps DEF ReadTail
  <2> QED BY <2>1 DEF TokInv, KeepsFlags, KeepsError
<1>7. CASE EndTokens
  <2> DEFINE s == LastWord(t)
             list == IF Fails THEN <<>> ELSE [i \in DOMAIN s.list |-> SetMetacharType(s.list[i])]
  <2>1. /\ tpc = "loop" /\ tpc' = "done" /\ t' = [s EXCEPT !.list = list]
        /\ status' = IF t.single_quote \/ t.double_quote THEN 2 ELSE status
    BY <1>7 DEF EndTokens, QuoteOpen
  <2>2. KeepsFlags(t, s)
    BY <1>f, LastWordKeeps
  <2> HIDE DEF s
  <2>3. /\ DOMAIN t' = Fields /\ t'.error = t.error /\ t'.single_quote = t.single_quote
        /\ t'.double_quote = t.double_quote /\ t'.list = list
    <3> HIDE DEF list
    <3> QED BY <2>1, <2>2, FieldNames DEF KeepsFlags, KeepsError
  <2>4. Fails' <=> Fails
    BY <2>3 DEF Fails, QuoteOpen
  <2>5. Fails' => status' = 2 /\ t'.list = <<>>
    BY <2>1, <2>3, <2>4 DEF Fails, QuoteOpen, TokInv
  <2> QED BY <2>1, <2>3, <2>5 DEF TokInv
<1> QED BY <1>1, <1>2, <1>3, <1>4, <1>5, <1>6, <1>7 DEF Tokenize

\* An error is not taken back, and the status changes with an error only.
LEMMA TokenizeStatus ==
  ASSUME TokInv, Tokenize
  PROVE  /\ tpc # "done" /\ (t.error => t'.error)
         /\ status' = status \/ t'.error \/ (tpc' = "done" /\ Fails')
<1>f. DOMAIN t = Fields
  BY DEF TokInv
<1>1. CASE ReadQuotes \/ CheckVar \/ OpenQuotes \/ ReadVar
  <2>1. tpc \in {"loop", "open", "close", "var"} /\ ~t.error /\ status' = status
    BY <1>1 DEF ReadQuotes, CheckVar, OpenQuotes, ReadVar, TokInv
  <2> QED BY <2>1
<1>2. CASE ReadMeta
  BY <1>2 DEF ReadMeta, TokInv
<1>3. CASE ReadTail
  <2>1. KeepsFlags(t, t') /\ tpc = "tail" /\ status' = status
    BY <1>f, <1>3, LastWordKeeps DEF ReadTail
  <2> QED BY <2>1 DEF KeepsFlags, KeepsError
<1>4. CASE EndTokens
  <2> DEFINE s == LastWord(t)
             list == IF Fails THEN <<>> ELSE [i \in DOMAIN s.list |-> SetMetacharType(s.list[i])]
  <2>1. /\ tpc = "loop" /\ tpc' = "done" /\ t' = [s EXCEPT !.list = list]
        /\ status' = IF QuoteOpen THEN 2 ELSE status
    BY <1>4 DEF EndTokens
  <2>2. KeepsFlags(t, s)
    BY <1>f, LastWordKeeps
  <2> HIDE DEF s
  <2>3. /\ t'.error = t.error /\ t'.single_quote = t.single_quote
        /\ t'.double_quote = t.double_quote
    <3> HIDE DEF list
    <3> QED BY <2>1, <2>2, FieldNames DEF KeepsFlags, KeepsError
  <2> QED BY <2>1, <2>3 DEF Fails, QuoteOpen
<1> QED BY <1>1, <1>2, <1>3, <1>4 DEF Tokenize

----------------------------------------------------------------------------
(* The cursor.                                                             *)

Typed(s) ==
  /\ DOMAIN s = Fields
  /\ s.input \in Seq(Char)
  /\ s.pos \in Nat /\ s.count \in Nat /\ s.anchor_pos \in Nat /\ s.quote \in Nat
  /\ s.list \in Seq([type : TokenTypes, value : Seq(Char)])
  /\ s.tmp_token # None => s.tmp_token \in Seq(Char)
  /\ {s.single_quote, s.double_quote, s.continue_var, s.num_var, s.free_input, s.error}
       \subseteq BOOLEAN

\* The line and the open quotes stay as they are.
Walks(s, r) ==
  /\ Typed(r) /\ r.input = s.input
  /\ r.single_quote = s.single_quote /\ r.double_quote = s.double_quote

\* The cursor stays as well.
Stays(s, r) ==
  /\ Walks(s, r)
  /\ r.pos = s.pos /\ r.anchor_pos = s.anchor_pos /\ r.quote = s.quote /\ r.count = s.count

----------------------------------------------------------------------------
(* Reading the line.                                                       *)

LEMMA MinIsLeast ==
  ASSUME NEW S, S \subseteq Nat, S # {}
  PROVE  Min(S) \in S /\ \A y \in S : Min(S) <= y
<1>1. \E x \in S : \A y \in S : x <= y
  BY LeastMember
<1> QED BY <1>1 DEF Min

LEMMA AtEnd ==
  ASSUME NEW s, s.input \in Seq(Char), NEW i \in Int
  PROVE  At(s, i) = NUL <=> i \notin 0..Len(s.input) - 1
<1>1. CASE i \in 0..Len(s.input) - 1
  <2>1. i + 1 \in 1..Len(s.input)
    BY <1>1
  <2>2. s.input[i + 1] \in Char
    BY <2>1
  <2> QED BY <1>1, <2>2, ValuesAssumption DEF At
<1> QED BY <1>1 DEF At

LEMMA TextType ==
  ASSUME NEW s, s.input \in Seq(Char), NEW from \in Nat, NEW upto \in Nat,
         upto <= Len(s.input) \/ upto <= from
  PROVE  /\ Text(s, from, upto) \in Seq(Char)
         /\ Len(Text(s, from, upto)) = IF from < upto THEN upto - from ELSE 0
BY DEF Text

\* A part of the line is replaced.
LEMMA SpliceType ==
  ASSUME NEW s, s.input \in Seq(Char), NEW x \in Seq(Char),
         NEW at \in 0..Len(s.input), NEW to \in 0..Len(s.input)
  PROVE  /\ Text(s, 0, at) \o x \o Rest(s, to) \in Seq(Char)
         /\ Len(Text(s, 0, at) \o x \o Rest(s, to)) = at + Len(x) + (Len(s.input) - to)
<1>1. PICK a : a = Text(s, 0, at)
  OBVIOUS
<1>2. PICK b : b = Rest(s, to)
  OBVIOUS
<1>3. /\ Len(s.input) \in Nat /\ at \in Nat /\ at <= Len(s.input)
      /\ to \in Nat /\ to <= Len(s.input)
  OBVIOUS
<1>4. a \in Seq(Char) /\ Len(a) = at
  <2>1. Text(s, 0, at) \in Seq(Char) /\ Len(Text(s, 0, at)) = IF 0 < at THEN at - 0 ELSE 0
    BY <1>3, TextType
  <2> QED BY <1>1, <1>3, <2>1
<1>5. b \in Seq(Char) /\ Len(b) = Len(s.input) - to
  <2>1. /\ Rest(s, to) \in Seq(Char)
        /\ Len(Rest(s, to)) = IF to < Len(s.input) THEN Len(s.input) - to ELSE 0
    <3>1. PICK n \in Nat : n = Len(s.input) /\ n <= Len(s.input)
      BY <1>3
    <3>2. /\ Text(s, to, n) \in Seq(Char)
          /\ Len(Text(s, to, n)) = IF to < n THEN n - to ELSE 0
      BY <1>3, <3>1, TextType
    <3> QED BY <3>1, <3>2 DEF Rest
  <2> QED BY <1>2, <1>3, <2>1
<1>6. PICK c : c = a \o x
  OBVIOUS
<1>c. c \in Seq(Char) /\ Len(c) = Len(a) + Len(x)
  BY <1>4, <1>6, ConcatProperties
<1>7. c \o b \in Seq(Char) /\ Len(c \o b) = Len(c) + Len(b)
  BY <1>5, <1>c, ConcatProperties
<1>8. Len(c \o b) = at + Len(x) + (Len(s.input) - to)
  BY <1>3, <1>4, <1>5, <1>c, <1>7
<1> QED BY <1>1, <1>2, <1>6, <1>7, <1>8

\* SkipOver stops in the line or behind its end.
LEMMA SkipOverStops ==
  ASSUME NEW s, s.input \in Seq(Char), NEW S, NUL \notin S,
         NEW from \in Nat, from <= Len(s.input)
  PROVE  /\ SkipOver(s, from, S) \in Nat
         /\ from <= SkipOver(s, from, S) /\ SkipOver(s, from, S) <= Len(s.input)
         /\ At(s, SkipOver(s, from, S)) \notin S
         /\ \A k \in from..SkipOver(s, from, S) - 1 : At(s, k) \in S
<1> DEFINE stops == {k \in from..Len(s.input) + 1 : At(s, k) \notin S}
<1>1. Len(s.input) \in stops
  BY AtEnd
<1>2. stops \subseteq Nat
  OBVIOUS
<1> PICK m : m = Min(stops)
  OBVIOUS
<1>3. m \in stops /\ \A y \in stops : m <= y
  BY <1>1, <1>2, MinIsLeast
<1>n. m \in Nat /\ from <= m
  BY <1>3
<1>4. m <= Len(s.input)
  BY <1>1, <1>3
<1>5. \A k \in from..m - 1 : At(s, k) \in S
  <2> SUFFICES ASSUME NEW k \in from..m - 1, At(s, k) \notin S PROVE FALSE
    OBVIOUS
  <2>1. k \in from..Len(s.input) + 1 /\ ~ (m <= k)
    BY <1>3, <1>4
  <2>2. k \in stops
    BY <2>1
  <2> QED BY <1>3, <2>1, <2>2
<1>6. SkipOver(s, from, S) = m
  BY DEF SkipOver
<1> QED BY <1>n, <1>3, <1>4, <1>5, <1>6

----------------------------------------------------------------------------
(* Moving the cursor and the anchor.                                       *)

LEMMA CursorMoves ==
  ASSUME NEW s, Typed(s), NEW p \in Nat
  PROVE  /\ Walks(s, [s EXCEPT !.pos = p])
         /\ [s EXCEPT !.pos = p].pos = p /\ [s EXCEPT !.pos = p].anchor_pos = s.anchor_pos
         /\ [s EXCEPT !.pos = p].quote = s.quote /\ [s EXCEPT !.pos = p].count = s.count
<1>1. PICK r : r = [s EXCEPT !.pos = p]
  OBVIOUS
<1>2. Walks(s, r) /\ r.pos = p /\ r.anchor_pos = s.anchor_pos /\ r.quote = s.quote /\ r.count = s.count
  BY <1>1, FieldNames DEF Walks, Typed
<1> QED BY <1>1, <1>2

\* The cursor goes back to where it was in s; the anchor stays.
GoesBack(s, c, up) ==
  \E r : r = [c EXCEPT !.pos = s.pos] /\ Walks(s, r) /\ r.pos = s.pos /\ r.anchor_pos = up

LEMMA CursorGoesBack ==
  ASSUME NEW s, NEW c, Walks(s, c), s.pos \in Nat, NEW up, c.anchor_pos = up
  PROVE  GoesBack(s, c, up)
<1>1. /\ Walks(c, [c EXCEPT !.pos = s.pos]) /\ [c EXCEPT !.pos = s.pos].pos = s.pos
      /\ [c EXCEPT !.pos = s.pos].anchor_pos = c.anchor_pos
  BY CursorMoves DEF Walks
<1> QED BY <1>1 DEF Walks, GoesBack

LEMMA AnchorMoves ==
  ASSUME NEW s, Typed(s), NEW p \in Nat
  PROVE  /\ Walks(s, [s EXCEPT !.anchor_pos = p])
         /\ [s EXCEPT !.anchor_pos = p].anchor_pos = p /\ [s EXCEPT !.anchor_pos = p].pos = s.pos
         /\ [s EXCEPT !.anchor_pos = p].quote = s.quote /\ [s EXCEPT !.anchor_pos = p].count = s.count
<1>1. PICK r : r = [s EXCEPT !.anchor_pos = p]
  OBVIOUS
<1>2. Walks(s, r) /\ r.anchor_pos = p /\ r.pos = s.pos /\ r.quote = s.quote /\ r.count = s.count
  BY <1>1, FieldNames DEF Walks, Typed
<1> QED BY <1>1, <1>2

----------------------------------------------------------------------------
(* The list of tokens.                                                     *)

LEMMA AddCustomTokenStays ==
  ASSUME NEW s, Typed(s), NEW value \in Seq(Char), NEW type \in TokenTypes
  PROVE  Stays(s, AddCustomToken(s, value, type))
<1> DEFINE token == Token(type, value)
<1>1. token \in [type : TokenTypes, value : Seq(Char)]
  BY DEF Token
<1> HIDE DEF token
<1>2. Append(s.list, token) \in Seq([type : TokenTypes, value : Seq(Char)])
  BY <1>1 DEF Typed
<1>3. PICK l : l = Append(s.list, token)
  OBVIOUS
<1>4. AddCustomToken(s, value, type) = [s EXCEPT !.list = l]
  BY <1>3 DEF AddCustomToken, token
<1> QED BY <1>2, <1>3, <1>4, FieldNames DEF Typed, Stays, Walks

LEMMA TempTokenStays ==
  ASSUME NEW s, Typed(s), NEW text \in Seq(Char)
  PROVE  Stays(s, TempToken(s, text))
<1> DEFINE joined == IF s.tmp_token = None THEN text ELSE s.tmp_token \o text
<1>1. joined \in Seq(Char)
  BY DEF Typed
<1>2. TempToken(s, text) = [s EXCEPT !.tmp_token = joined]
  BY DEF TempToken
<1> HIDE DEF joined
<1> QED BY <1>1, <1>2, FieldNames DEF Typed, Stays, Walks

LEMMA LastStrStays ==
  ASSUME NEW s, Typed(s), s.tmp_token # None, NEW text \in Seq(Char)
  PROVE  Stays(s, LastStr(s, text))
<1>0. s.tmp_token \in Seq(Char)
  BY DEF Typed
<1>1. PICK joined : joined = s.tmp_token \o text
  OBVIOUS
<1>j. joined \in Seq(Char)
  BY <1>0, <1>1, ConcatProperties
<1>w. "WORD" \in TokenTypes
  BY DEF TokenTypes
<1> DEFINE r == AddCustomToken(s, joined, "WORD")
<1>2. Stays(s, r)
  BY <1>j, <1>w, AddCustomTokenStays
<1>3. LastStr(s, text) = [r EXCEPT !.tmp_token = None]
  BY <1>1 DEF LastStr
<1> HIDE DEF r
<1> QED BY <1>2, <1>3, FieldNames DEF Typed, Stays, Walks

LEMMA Numbers ==
  ASSUME NEW s, Typed(s)
  PROVE  /\ s.pos \in Nat /\ s.count \in Nat /\ s.anchor_pos \in Nat /\ s.quote \in Nat
         /\ s.input \in Seq(Char) /\ Len(s.input) \in Nat
BY DEF Typed

LEMMA MinOfTwo ==
  ASSUME NEW a \in Nat, NEW b \in Nat
  PROVE  /\ Min({a, b}) = IF a <= b THEN a ELSE b
         /\ Max({a, b}) = IF a <= b THEN b ELSE a
<1>1. PICK m : m = Min({a, b})
  OBVIOUS
<1>2. m \in {a, b} /\ \A y \in {a, b} : m <= y
  BY <1>1, MinIsLeast
<1>3. m = IF a <= b THEN a ELSE b
  BY <1>2
<1>4. \E x \in {a, b} : \A y \in {a, b} : x >= y
  <2>1. CASE a <= b
    BY <2>1
  <2>2. CASE b <= a
    BY <2>2
  <2> QED BY <2>1, <2>2
<1>5. PICK x : x = Max({a, b})
  OBVIOUS
<1>6. x \in {a, b} /\ \A y \in {a, b} : x >= y
  BY <1>4, <1>5 DEF Max
<1>7. x = IF a <= b THEN b ELSE a
  BY <1>6
<1> QED BY <1>1, <1>3, <1>5, <1>7

LEMMA NulIsNone ==
  NUL \notin NameChar \cup Angle \cup {Space, "|", "$", "?", "'", DQuote}
BY ValuesAssumption

----------------------------------------------------------------------------
(* add_token().                                                            *)

\* Where a new word begins: the blanks before the cursor are skipped.
Begins(s) ==
  IF At(s, s.pos) = NUL THEN s.anchor_pos
  ELSE Min({SkipOver(s, s.anchor_pos, {Space}), Max({s.pos, s.anchor_pos})})

\* Nothing but blanks lies between the anchor and the cursor.
Blanks(s) == \A k \in s.anchor_pos..s.pos - 1 : At(s, k) = Space

LEMMA BeginsWhere ==
  ASSUME NEW s, Typed(s), s.anchor_pos <= s.pos, s.pos <= Len(s.input)
  PROVE  /\ Begins(s) \in Nat /\ s.anchor_pos <= Begins(s) /\ Begins(s) <= s.pos
         /\ At(s, s.pos) = NUL => Begins(s) = s.anchor_pos
         /\ At(s, s.pos) # NUL /\ Begins(s) = s.pos => Blanks(s)
         /\ At(s, s.pos) # NUL /\ Begins(s) # s.pos => At(s, Begins(s)) # Space
<1>1. PICK m : m = SkipOver(s, s.anchor_pos, {Space})
  OBVIOUS
<1>2. NUL \notin {Space}
  BY NulIsNone
<1>3. /\ s.anchor_pos \in Nat /\ s.pos \in Nat /\ Len(s.input) \in Nat
      /\ s.input \in Seq(Char) /\ s.anchor_pos <= Len(s.input)
  BY Numbers
<1>4. /\ m \in Nat /\ s.anchor_pos <= m /\ m <= Len(s.input) /\ At(s, m) \notin {Space}
      /\ \A k \in s.anchor_pos..m - 1 : At(s, k) \in {Space}
  BY <1>1, <1>2, <1>3, SkipOverStops
<1>5. Max({s.pos, s.anchor_pos}) = s.pos
  BY MinOfTwo DEF Typed
<1>n. m \in Nat /\ s.pos \in Nat /\ s.anchor_pos \in Nat /\ s.anchor_pos <= m
  BY <1>3, <1>4
<1>6. Min({m, s.pos}) = IF m <= s.pos THEN m ELSE s.pos
  BY <1>n, MinOfTwo
<1>7. Begins(s) = IF At(s, s.pos) = NUL THEN s.anchor_pos ELSE IF m <= s.pos THEN m ELSE s.pos
  BY <1>1, <1>5, <1>6 DEF Begins
<1>8. ASSUME s.pos <= m PROVE Blanks(s)
  <2> SUFFICES ASSUME NEW k \in s.anchor_pos..s.pos - 1 PROVE At(s, k) = Space
    BY DEF Blanks
  <2>1. k \in s.anchor_pos..m - 1
    BY <1>n, <1>8
  <2> QED BY <1>4, <2>1
<1>9. At(s, m) # Space
  BY <1>4
<1>10. CASE At(s, s.pos) = NUL
  BY <1>n, <1>7, <1>10
<1>11. CASE At(s, s.pos) # NUL /\ m < s.pos
  <2>1. Begins(s) = m /\ m # s.pos
    BY <1>n, <1>7, <1>11
  <2>2. Begins(s) \in Nat /\ s.anchor_pos <= Begins(s) /\ Begins(s) <= s.pos
    BY <1>n, <1>11, <2>1
  <2> QED BY <1>9, <1>11, <2>1, <2>2, Zenon
<1>12. CASE At(s, s.pos) # NUL /\ s.pos <= m
  <2>1. Begins(s) = s.pos
    BY <1>n, <1>7, <1>12
  <2>2. Begins(s) \in Nat /\ s.anchor_pos <= Begins(s) /\ Begins(s) <= s.pos
    BY <1>n, <2>1
  <2> QED BY <1>8, <1>12, <2>1, <2>2, Zenon
<1>13. m < s.pos \/ s.pos <= m
  BY <1>n
<1> QED BY <1>10, <1>11, <1>12, <1>13, Zenon

\* What add_token() does to the cursor.
Lands(s, r) ==
  /\ Walks(s, r)
  /\ s.pos <= r.pos /\ r.pos <= Len(s.input)
  /\ s.anchor_pos < s.pos \/ At(s, s.pos) # NUL => r.anchor_pos <= Len(s.input)
  /\ \/ r.anchor_pos <= r.pos
     \/ r.anchor_pos = r.pos + 1 /\ r.pos = s.pos /\ Blanks(s) /\ At(s, s.pos) # NUL
     \/ s.anchor_pos = s.pos /\ At(s, s.pos) = NUL

LEMMA AddTokenLands ==
  ASSUME NEW s, Typed(s), s.anchor_pos <= s.pos, s.pos <= Len(s.input)
  PROVE  Lands(s, AddToken(s))
<1> PICK from : from = Begins(s)
  OBVIOUS
<1> PICK up : up = IF from = s.pos /\ At(s, from) \in Angle THEN s.pos + 1 ELSE s.pos
  OBVIOUS
<1> PICK text : text = Text(s, from, up)
  OBVIOUS
<1> PICK mv : mv = [s EXCEPT !.anchor_pos = up, !.pos = up]
  OBVIOUS
<1> PICK type : type = IF text[1] \in Angle \cup {"|"} THEN "METACHAR" ELSE "WORD"
  OBVIOUS
<1>1. /\ from \in Nat /\ s.anchor_pos <= from /\ from <= s.pos
      /\ At(s, s.pos) = NUL => from = s.anchor_pos
      /\ At(s, s.pos) # NUL /\ from = s.pos => Blanks(s)
      /\ At(s, s.pos) # NUL /\ from # s.pos => At(s, from) # Space
  BY BeginsWhere
<1>2. /\ s.input \in Seq(Char) /\ s.pos \in Nat /\ s.anchor_pos \in Nat /\ Len(s.input) \in Nat
      /\ At(s, s.pos) # NUL <=> s.pos < Len(s.input)
  BY AtEnd, Numbers
<1>3. NUL \notin Angle
  BY NulIsNone
<1>4. up \in Nat /\ s.pos <= up /\ up <= Len(s.input) /\ up <= s.pos + 1 /\ from \in Nat /\ from <= up
  <2>1. from \in Nat /\ from <= s.pos
    BY <1>1, <1>2
  <2>2. from = s.pos /\ At(s, from) \in Angle => s.pos + 1 <= Len(s.input)
    BY <1>2, <1>3
  <2>3. up = s.pos \/ (up = s.pos + 1 /\ s.pos + 1 <= Len(s.input))
    BY <2>2
  <2> QED BY <1>2, <2>1, <2>3
<1>5. Typed(mv) /\ mv.input = s.input /\ mv.single_quote = s.single_quote
      /\ mv.double_quote = s.double_quote /\ mv.pos = up /\ mv.anchor_pos = up
      /\ mv.tmp_token = s.tmp_token
  BY <1>4, FieldNames DEF Typed
<1>6. text \in Seq(Char)
  BY <1>2, <1>4, TextType
<1>7. type \in TokenTypes
  BY DEF TokenTypes
<1>8. AddToken(s) =
        IF (from = s.pos /\ At(s, from) \in Angle) /\ At(s, s.pos + 1) \in Angle
        THEN [s EXCEPT !.anchor_pos = from]
        ELSE IF up = from \/ At(s, from) = Space THEN [mv EXCEPT !.anchor_pos = from + 1]
        ELSE IF s.tmp_token # None THEN LastStr(mv, text)
        ELSE [AddCustomToken(mv, text, type) EXCEPT !.pos = s.pos]
  <2>1. ~ (s.pos > Len(s.input))
    BY <1>2
  <2> QED BY <2>1 DEF AddToken, Begins
<1>9. ASSUME (from = s.pos /\ At(s, from) \in Angle) /\ At(s, s.pos + 1) \in Angle
      PROVE  Lands(s, [s EXCEPT !.anchor_pos = from])
  <2> PICK r : r = [s EXCEPT !.anchor_pos = from]
    OBVIOUS
  <2>1. Walks(s, r) /\ r.pos = s.pos /\ r.anchor_pos = from
    BY <1>4, FieldNames DEF Walks, Typed
  <2> QED BY <1>2, <1>9, <2>1 DEF Lands
<1>10. ASSUME up = from \/ At(s, from) = Space
       PROVE  Lands(s, [mv EXCEPT !.anchor_pos = from + 1])
  <2> PICK r : r = [mv EXCEPT !.anchor_pos = from + 1]
    OBVIOUS
  <2>1. Walks(s, r) /\ r.pos = up /\ r.anchor_pos = from + 1
    BY <1>4, <1>5, FieldNames DEF Walks, Typed
  <2>2. Space \notin Angle
    BY DEF Angle, Space
  <2>3. CASE At(s, s.pos) = NUL
    <3>1. up = s.pos /\ from = s.anchor_pos /\ ~ (s.pos < Len(s.input))
      BY <1>1, <1>2, <1>3, <2>3
    <3>2. s.anchor_pos = s.pos \/ s.anchor_pos < s.pos
      BY <1>2
    <3> QED BY <1>2, <2>1, <2>3, <3>1, <3>2 DEF Lands
  <2>4. CASE At(s, s.pos) # NUL
    <3>1. from = s.pos /\ Blanks(s)
      BY <1>1, <1>2, <1>4, <1>10, <2>4
    <3>2. up = s.pos
      BY <1>2, <1>10, <2>2, <3>1
    <3> QED BY <1>2, <2>1, <2>4, <3>1, <3>2 DEF Lands
  <2> QED BY <2>3, <2>4
<1>11. ASSUME s.tmp_token # None
       PROVE  Lands(s, LastStr(mv, text))
  <2> PICK r : r = LastStr(mv, text)
    OBVIOUS
  <2>1. Stays(mv, r)
    BY <1>5, <1>6, <1>11, LastStrStays
  <2> QED BY <1>2, <1>4, <1>5, <2>1 DEF Lands, Stays, Walks
<1>12. ASSUME ~ (up = from \/ At(s, from) = Space)
       PROVE  Lands(s, [AddCustomToken(mv, text, type) EXCEPT !.pos = s.pos])
  <2> PICK c : c = AddCustomToken(mv, text, type)
    OBVIOUS
  <2>1. Stays(mv, c)
    BY <1>5, <1>6, <1>7, AddCustomTokenStays
  <2>c. Walks(s, c) /\ c.anchor_pos = up
    BY <1>5, <2>1 DEF Stays, Walks
  <2>2. PICK r : r = [c EXCEPT !.pos = s.pos] /\ Walks(s, r) /\ r.pos = s.pos /\ r.anchor_pos = up
    <3>1. s.pos \in Nat
      BY <1>2
    <3>2. GoesBack(s, c, up)
      BY <2>c, <3>1, CursorGoesBack
    <3> QED BY <3>2 DEF GoesBack
  <2>3. up = s.pos \/ (up = s.pos + 1 /\ from = s.pos /\ At(s, s.pos) # NUL)
    BY <1>3
  <2> QED BY <1>1, <1>2, <1>4, <2>2, <2>3 DEF Lands
<1> QED BY <1>8, <1>9, <1>10, <1>11, <1>12, Zenon

LEMMA LastWordLands ==
  ASSUME NEW s, Typed(s), s.anchor_pos <= s.pos, s.anchor_pos <= Len(s.input)
  PROVE  /\ Walks(s, LastWord(s)) /\ LastWord(s).pos = s.pos
         /\ LastWord(s).anchor_pos <= s.pos /\ LastWord(s).anchor_pos <= Len(s.input)
<1>1. CASE s.pos = Len(s.input) /\ s.pos # s.anchor_pos
  <2> PICK r : r = AddToken(s)
    OBVIOUS
  <2>1. /\ s.pos \in Nat /\ s.anchor_pos \in Nat /\ s.input \in Seq(Char) /\ Len(s.input) \in Nat
        /\ s.anchor_pos < s.pos /\ s.pos <= Len(s.input)
    BY <1>1, Numbers
  <2>2. At(s, s.pos) = NUL
    BY <1>1, <2>1, AtEnd
  <2>3. Lands(s, r) /\ LastWord(s) = r
    BY <1>1, <2>1, AddTokenLands DEF LastWord
  <2>4. r.pos \in Nat /\ r.anchor_pos \in Nat
    BY <2>3, Numbers DEF Lands, Walks
  <2>5. /\ Walks(s, r) /\ s.pos <= r.pos /\ r.pos <= Len(s.input)
        /\ r.anchor_pos <= Len(s.input) /\ r.anchor_pos <= r.pos
    BY <2>1, <2>2, <2>3 DEF Lands
  <2> QED BY <1>1, <2>1, <2>3, <2>4, <2>5
<1>2. CASE ~ (s.pos = Len(s.input) /\ s.pos # s.anchor_pos)
  <2>1. LastWord(s) = s
    BY <1>2 DEF LastWord
  <2> QED BY <2>1 DEF Walks
<1> QED BY <1>1, <1>2

----------------------------------------------------------------------------
(* metacharacters().                                                       *)

\* What the cases of metacharacters() do to the cursor.
Fits(s, m) ==
  /\ Walks(s, m) /\ m.anchor_pos <= Len(s.input) /\ m.pos <= Len(s.input)
  /\ \/ m.anchor_pos <= m.pos
     \/ m.anchor_pos = m.pos + 1 /\ At(s, m.pos) = Space
     \/ m.anchor_pos = m.pos + 1 /\ At(s, m.pos) \in Angle /\ At(s, m.pos - 1) = Space

\* Behind a character that is no blank a token ends where the cursor is.
LEMMA AddTokenFits ==
  ASSUME NEW s, Typed(s), s.anchor_pos < s.pos, s.pos <= Len(s.input),
         NEW k \in s.anchor_pos..s.pos - 1, At(s, k) # Space
  PROVE  /\ Walks(s, AddToken(s)) /\ AddToken(s).anchor_pos <= Len(s.input)
         /\ AddToken(s).pos <= Len(s.input) /\ AddToken(s).anchor_pos <= AddToken(s).pos
<1> PICK r : r = AddToken(s)
  OBVIOUS
<1>0. s.pos \in Nat /\ s.anchor_pos \in Nat
  BY Numbers
<1>1. s.anchor_pos <= s.pos
  BY <1>0
<1>2. Lands(s, r)
  BY <1>1, AddTokenLands
<1>3. ~ Blanks(s)
  BY DEF Blanks
<1>4. /\ Walks(s, r) /\ r.pos <= Len(s.input) /\ r.anchor_pos <= Len(s.input)
      /\ r.anchor_pos <= r.pos
  BY <1>0, <1>2, <1>3 DEF Lands
<1> QED BY <1>4

LEMMA SpaceFits ==
  ASSUME NEW s, Typed(s), s.anchor_pos <= s.pos, s.pos < Len(s.input), At(s, s.pos) = Space
  PROVE  Fits(s, AddToken(s))
<1> PICK r : r = AddToken(s)
  OBVIOUS
<1>0. s.pos \in Nat /\ s.anchor_pos \in Nat /\ s.input \in Seq(Char) /\ Len(s.input) \in Nat
  BY Numbers
<1>1. s.pos <= Len(s.input)
  BY <1>0
<1>2. Lands(s, r)
  BY <1>1, AddTokenLands
<1>3. At(s, s.pos) # NUL
  BY NulIsNone
<1>4. /\ Walks(s, r) /\ r.pos <= Len(s.input) /\ r.anchor_pos <= Len(s.input)
      /\ r.anchor_pos <= r.pos \/ (r.anchor_pos = r.pos + 1 /\ r.pos = s.pos)
  BY <1>0, <1>2, <1>3 DEF Lands
<1> QED BY <1>4 DEF Fits

LEMMA OneLessMoreFits ==
  ASSUME NEW s, Typed(s), s.anchor_pos <= s.pos, s.pos < Len(s.input), At(s, s.pos) \in Angle
  PROVE  Fits(s, OneLessMore(s))
<1>0. s.pos \in Nat /\ s.anchor_pos \in Nat /\ s.input \in Seq(Char) /\ Len(s.input) \in Nat
  BY Numbers
<1>1. s.pos <= Len(s.input)
  BY <1>0
<1>2. At(s, s.pos) # Space
  BY DEF Angle, Space
<1>b. PICK b : b = [s EXCEPT !.pos = IF s.pos = s.anchor_pos THEN s.pos + 1 ELSE s.pos]
  OBVIOUS
<1>3. /\ Walks(s, b) /\ b.anchor_pos = s.anchor_pos
      /\ b.pos = IF s.pos = s.anchor_pos THEN s.pos + 1 ELSE s.pos
  <2> PICK p \in Nat : p = IF s.pos = s.anchor_pos THEN s.pos + 1 ELSE s.pos
    BY <1>0
  <2>1. b = [s EXCEPT !.pos = p]
    BY <1>b
  <2> QED BY <2>1, FieldNames DEF Walks, Typed
<1>4. OneLessMore(s) = AddToken(b)
  BY <1>b DEF OneLessMore
<1>5. \A k : At(b, k) = At(s, k)
  BY <1>3 DEF At, Walks
<1> PICK r : r = AddToken(b)
  OBVIOUS
<1>6. Typed(b) /\ b.input = s.input
  BY <1>3 DEF Walks
<1>7. CASE s.pos = s.anchor_pos
  <2>1. s.pos \in b.anchor_pos..b.pos - 1 /\ b.anchor_pos < b.pos /\ b.pos <= Len(b.input)
    BY <1>0, <1>3, <1>6, <1>7
  <2>2. Walks(b, r) /\ r.anchor_pos <= Len(b.input) /\ r.pos <= Len(b.input) /\ r.anchor_pos <= r.pos
    BY <1>2, <1>5, <1>6, <2>1, AddTokenFits
  <2> QED BY <1>3, <1>4, <2>2 DEF Fits, Walks
<1>8. CASE s.pos # s.anchor_pos
  <2>1. b.pos = s.pos
    BY <1>3, <1>8
  <2>2. Lands(b, r)
    BY <1>0, <1>1, <1>3, <1>6, <2>1, AddTokenLands
  <2>3. s.anchor_pos < s.pos /\ s.pos - 1 \in s.anchor_pos..s.pos - 1
    BY <1>0, <1>8
  <2>4. Blanks(b) => At(s, s.pos - 1) = Space
    BY <1>3, <1>5, <2>1, <2>3 DEF Blanks
  <2>5. /\ Walks(b, r) /\ r.pos <= Len(s.input) /\ r.anchor_pos <= Len(s.input)
        /\ \/ r.anchor_pos <= r.pos
           \/ r.anchor_pos = r.pos + 1 /\ r.pos = s.pos /\ At(s, s.pos - 1) = Space
    BY <1>0, <1>3, <1>6, <2>1, <2>2, <2>3, <2>4 DEF Lands
  <2> QED BY <1>3, <1>4, <2>5 DEF Fits, Walks
<1> QED BY <1>7, <1>8

LEMMA TwoLessMoreFits ==
  ASSUME NEW s, Typed(s), s.anchor_pos <= s.pos, s.pos + 2 <= Len(s.input), At(s, s.pos) \in Angle
  PROVE  Fits(s, TwoLessMore(s))
<1>0. s.pos \in Nat /\ s.anchor_pos \in Nat /\ s.input \in Seq(Char) /\ Len(s.input) \in Nat
  BY Numbers
<1>m. PICK m : m = SkipOver(s, s.anchor_pos, {Space})
  OBVIOUS
<1>1. m \in Nat /\ s.anchor_pos <= m /\ \A k \in s.anchor_pos..m - 1 : At(s, k) \in {Space}
  <2>1. s.anchor_pos <= Len(s.input)
    BY <1>0
  <2>2. NUL \notin {Space}
    BY NulIsNone
  <2> QED BY <1>0, <1>m, <2>1, <2>2, SkipOverStops
<1>2. Space \notin Angle
  BY DEF Angle, Space
<1>3. m <= s.pos
  <2> SUFFICES ASSUME s.pos < m PROVE FALSE
    BY <1>0, <1>1
  <2>1. s.pos \in s.anchor_pos..m - 1
    BY <1>0, <1>1
  <2>2. At(s, s.pos) = Space
    BY <1>1, <2>1
  <2> QED BY <1>2, <2>2
<1>a. PICK a : a = [s EXCEPT !.anchor_pos = m]
  OBVIOUS
<1>4. Walks(s, a) /\ a.anchor_pos = m /\ a.pos = s.pos
  BY <1>a, <1>1, AnchorMoves
<1>t. PICK text : text = Text(a, m, s.pos)
  OBVIOUS
<1>5. text \in Seq(Char) /\ "WORD" \in TokenTypes
  <2>1. a.input \in Seq(Char) /\ s.pos <= Len(a.input)
    BY <1>0, <1>4 DEF Walks
  <2> QED BY <1>0, <1>1, <1>t, <2>1, TextType DEF TokenTypes
<1>c. PICK c : c = AddCustomToken(a, text, "WORD")
  OBVIOUS
<1>6. Walks(s, c) /\ c.pos = s.pos
  <2>1. Stays(a, c)
    BY <1>c, <1>4, <1>5, AddCustomTokenStays DEF Walks
  <2> QED BY <1>4, <2>1 DEF Stays, Walks
<1>w. PICK w : w = IF At(a, m) \in Angle THEN a ELSE [c EXCEPT !.anchor_pos = s.pos]
  OBVIOUS
<1>7. Walks(s, w) /\ w.pos = s.pos /\ w.anchor_pos \in {m, s.pos}
  <2>1. PICK x : x = [c EXCEPT !.anchor_pos = s.pos]
    OBVIOUS
  <2>2. Walks(c, x) /\ x.anchor_pos = s.pos /\ x.pos = c.pos
    BY <1>0, <1>6, <2>1, AnchorMoves DEF Walks
  <2>3. w \in {a, x}
    BY <1>w, <2>1
  <2> QED BY <1>4, <1>6, <2>2, <2>3 DEF Walks
<1>b. PICK b : b = [w EXCEPT !.pos = s.pos + 2]
  OBVIOUS
<1>8. Walks(w, b) /\ b.pos = s.pos + 2 /\ b.anchor_pos = w.anchor_pos
  BY <1>0, <1>7, <1>b, CursorMoves DEF Walks
<1>d. PICK d : d = AddToken(b)
  OBVIOUS
<1>9. Walks(s, d) /\ d.pos <= Len(s.input) /\ d.pos \in Nat
  <2>1. Typed(b) /\ b.input = s.input
    BY <1>7, <1>8 DEF Walks
  <2>2. b.anchor_pos <= b.pos /\ b.pos <= Len(b.input)
    BY <1>0, <1>1, <1>3, <1>7, <1>8, <2>1
  <2>3. Lands(b, d)
    BY <1>d, <2>1, <2>2, AddTokenLands
  <2>4. Walks(b, d) /\ d.pos <= Len(b.input)
    BY <2>3 DEF Lands
  <2> QED BY <1>7, <1>8, <2>1, <2>4, Numbers DEF Walks
<1>r. PICK r : r = [d EXCEPT !.anchor_pos = d.pos]
  OBVIOUS
<1>10. Walks(d, r) /\ r.pos = d.pos /\ r.anchor_pos = d.pos
  BY <1>9, <1>r, AnchorMoves DEF Walks
<1>11. TwoLessMore(s) = r
  <2>1. w = IF At(a, a.anchor_pos) \in Angle THEN a
            ELSE [AddCustomToken(a, Text(a, a.anchor_pos, a.pos), "WORD") EXCEPT !.anchor_pos = a.pos]
    BY <1>4, <1>t, <1>c, <1>w
  <2>2. b = [w EXCEPT !.pos = w.pos + 2]
    BY <1>7, <1>b
  <2> QED BY <1>m, <1>a, <1>d, <1>r, <2>1, <2>2 DEF TwoLessMore
<1>12. Walks(s, r)
  BY <1>9, <1>10 DEF Walks
<1>13. r.anchor_pos <= Len(s.input) /\ r.pos <= Len(s.input) /\ r.anchor_pos <= r.pos
  BY <1>9, <1>10
<1> QED BY <1>11, <1>12, <1>13 DEF Fits

LEMMA TripleMetaFits ==
  ASSUME NEW s, Typed(s), s.anchor_pos <= s.pos, s.pos + 2 <= Len(s.input), At(s, s.pos) \in Angle
  PROVE  Fits(s, TripleMeta(s))
<1>0. s.pos \in Nat /\ s.anchor_pos \in Nat /\ s.input \in Seq(Char) /\ Len(s.input) \in Nat
  BY Numbers
<1> PICK b : b = [s EXCEPT !.pos = s.pos + 2, !.error = TRUE]
  OBVIOUS
<1>1. Walks(s, b) /\ b.pos = s.pos + 2 /\ b.anchor_pos = s.anchor_pos
  BY <1>0, FieldNames DEF Walks, Typed
<1>2. TripleMeta(s) = AddToken(b)
  BY DEF TripleMeta
<1>3. /\ Typed(b) /\ b.anchor_pos < b.pos /\ b.pos <= Len(b.input) /\ b.input = s.input
      /\ s.pos \in b.anchor_pos..b.pos - 1
  BY <1>0, <1>1 DEF Walks
<1>4. At(b, s.pos) # Space
  BY <1>3 DEF At, Angle, Space
<1> PICK r : r = AddToken(b)
  OBVIOUS
<1>5. Walks(b, r) /\ r.anchor_pos <= Len(b.input) /\ r.pos <= Len(b.input) /\ r.anchor_pos <= r.pos
  BY <1>3, <1>4, AddTokenFits
<1> QED BY <1>1, <1>2, <1>5 DEF Fits, Walks

LEMMA MaxOfSome ==
  ASSUME NEW n \in Nat, NEW S, S \subseteq 0..n, S # {}
  PROVE  Max(S) \in S
<1> DEFINE T == {n - x : x \in S}
<1>1. T \subseteq Nat /\ T # {}
  OBVIOUS
<1>2. PICK y \in T : \A z \in T : y <= z
  BY <1>1, LeastMember
<1>3. PICK x \in S : y = n - x
  BY <1>2
<1>4. ASSUME NEW w \in S PROVE x >= w
  <2>1. n - w \in T
    OBVIOUS
  <2>2. n - x <= n - w
    BY <1>2, <1>3, <2>1
  <2>3. w \in Int /\ x \in Int
    OBVIOUS
  <2> QED BY <2>2, <2>3
<1>5. \E v \in S : \A w \in S : v >= w
  BY <1>4
<1> QED BY <1>5 DEF Max

LEMMA CheckPipesFits ==
  ASSUME NEW s, Typed(s), s.anchor_pos <= s.pos, s.pos < Len(s.input), At(s, s.pos) = "|"
  PROVE  Fits(s, CheckPipes(s))
<1>0. s.pos \in Nat /\ s.anchor_pos \in Nat /\ s.input \in Seq(Char) /\ Len(s.input) \in Nat
  BY Numbers
<1> DEFINE back == {0} \cup {k \in 1..s.pos : At(s, k - 1) \in {Space, "|"} \cup Angle}
<1> PICK start : start = Max(back)
  OBVIOUS
<1>1. start \in Nat /\ start <= s.pos
  <2>1. back \subseteq 0..s.pos /\ back # {}
    BY <1>0
  <2>2. start \in back
    BY <1>0, <2>1, MaxOfSome
  <2> QED BY <1>0, <2>1, <2>2
<1> PICK text : text = Text(s, start, s.pos)
  OBVIOUS
<1>2. text \in Seq(Char) /\ "WORD" \in TokenTypes
  BY <1>0, <1>1, TextType DEF TokenTypes
<1> PICK w : w = IF start = s.pos THEN s ELSE AddCustomToken(s, text, "WORD")
  OBVIOUS
<1>3. Walks(s, w) /\ w.pos = s.pos
  <2>1. Stays(s, AddCustomToken(s, text, "WORD"))
    BY <1>2, AddCustomTokenStays
  <2> QED BY <2>1 DEF Stays, Walks
<1> PICK a : a = [w EXCEPT !.anchor_pos = s.pos]
  OBVIOUS
<1>4. Walks(s, a) /\ a.pos = s.pos /\ a.anchor_pos = s.pos
  BY <1>0, <1>3, FieldNames DEF Walks, Typed
<1> PICK e : e = [a EXCEPT !.error = TRUE]
  OBVIOUS
<1> PICK b : b = [a EXCEPT !.pos = s.pos + 1]
  OBVIOUS
<1>5. CheckPipes(s) \in {e, AddToken(b)}
  <2>1. b = [a EXCEPT !.pos = a.pos + 1]
    BY <1>4
  <2> QED BY <2>1 DEF CheckPipes
<1>6. Fits(s, e)
  BY <1>0, <1>4, FieldNames DEF Fits, Walks, Typed
<1>7. Walks(s, b) /\ b.pos = s.pos + 1 /\ b.anchor_pos = s.pos
  BY <1>0, <1>4, FieldNames DEF Walks, Typed
<1>8. Fits(s, AddToken(b))
  <2>1. /\ Typed(b) /\ b.anchor_pos < b.pos /\ b.pos <= Len(b.input) /\ b.input = s.input
        /\ s.pos \in b.anchor_pos..b.pos - 1
    BY <1>0, <1>7 DEF Walks
  <2>2. At(b, s.pos) # Space
    BY <2>1 DEF At, Space
  <2> PICK r : r = AddToken(b)
    OBVIOUS
  <2>3. Walks(b, r) /\ r.anchor_pos <= Len(b.input) /\ r.pos <= Len(b.input) /\ r.anchor_pos <= r.pos
    BY <2>1, <2>2, AddTokenFits
  <2> QED BY <1>7, <2>3 DEF Fits, Walks
<1> QED BY <1>5, <1>6, <1>8

LEMMA Distinct ==
  /\ Space \notin Angle \cup {"|", "$", "?", "'", DQuote}
  /\ DQuote \notin Angle \cup {"|", "$", "?", "'"}
  /\ "|" \notin Angle \cup {"'", "$"} /\ "'" \notin Angle /\ "$" \notin Angle
  /\ "'" # "$" /\ "$" # "?" /\ "'" # "?"
BY Zenon DEF Angle, Space, DQuote

LEMMA MetaFits ==
  ASSUME NEW s, Typed(s), s.anchor_pos <= s.pos, s.pos < Len(s.input)
  PROVE  Fits(s, MetaToken(s))
<1>0. s.pos \in Nat /\ s.anchor_pos \in Nat /\ s.input \in Seq(Char) /\ Len(s.input) \in Nat
  BY Numbers
<1>c. PICK c : c = At(s, s.pos)
  OBVIOUS
<1>c1. PICK c1 : c1 = At(s, s.pos + 1)
  OBVIOUS
<1>c2. PICK c2 : c2 = At(s, s.pos + 2)
  OBVIOUS
<1>m. PICK m : m = CASE c = Space -> AddToken(s)
                     [] c = "|" -> CheckPipes(s)
                     [] c \in Angle /\ c1 # c -> OneLessMore(s)
                     [] c \in Angle /\ c1 = c /\ c2 # c -> TwoLessMore(s)
                     [] c \in Angle /\ c1 = c /\ c2 = c -> TripleMeta(s)
                     [] OTHER -> s
  OBVIOUS
<1>1. Space \notin Angle /\ Space # "|" /\ "|" \notin Angle
  BY Distinct
<1>2. ASSUME c = Space PROVE Fits(s, m)
  <2>1. m = AddToken(s)
    BY <1>m, <1>1, <1>2
  <2> QED BY <1>c, <1>2, <2>1, SpaceFits
<1>3. ASSUME c = "|" PROVE Fits(s, m)
  <2>1. m = CheckPipes(s)
    BY <1>m, <1>1, <1>3
  <2> QED BY <1>c, <1>3, <2>1, CheckPipesFits
<1>4. ASSUME c \in Angle /\ c1 # c PROVE Fits(s, m)
  <2>1. m = OneLessMore(s)
    BY <1>m, <1>1, <1>4
  <2> QED BY <1>c, <1>4, <2>1, OneLessMoreFits
<1>5. ASSUME c \in Angle /\ c1 = c PROVE Fits(s, m)
  <2>1. NUL \notin Angle
    BY NulIsNone
  <2>2. s.pos + 2 <= Len(s.input)
    <3>1. At(s, s.pos + 1) # NUL
      BY <1>c1, <1>5, <2>1
    <3>2. s.pos + 1 \in Int
      BY <1>0
    <3>3. s.pos + 1 \in 0..Len(s.input) - 1
      BY <1>0, <3>1, <3>2, AtEnd
    <3> QED BY <1>0, <3>3
  <2>3. CASE c2 # c
    <3>1. m = TwoLessMore(s)
      BY <1>m, <1>1, <1>5, <2>3
    <3> QED BY <1>c, <1>5, <2>2, <3>1, TwoLessMoreFits
  <2>4. CASE c2 = c
    <3>1. m = TripleMeta(s)
      BY <1>m, <1>1, <1>5, <2>4
    <3> QED BY <1>c, <1>5, <2>2, <3>1, TripleMetaFits
  <2> QED BY <2>3, <2>4
<1>6. ASSUME c # Space /\ c # "|" /\ c \notin Angle PROVE Fits(s, m)
  <2>1. m = s
    BY <1>m, <1>6
  <2> QED BY <1>0, <2>1 DEF Fits, Walks
<1>7. Fits(s, m)
  BY <1>2, <1>3, <1>4, <1>5, <1>6
<1>8. MetaToken(s) = m
  BY <1>m, <1>c, <1>c1, <1>c2 DEF MetaToken
<1> QED BY <1>7, <1>8

\* metacharacters() leaves the cursor behind the anchor.
LEMMA MetaLands ==
  ASSUME NEW s0, Typed(s0), s0.anchor_pos <= s0.pos, s0.anchor_pos <= Len(s0.input)
  PROVE  /\ Walks(s0, Metacharacters(s0))
         /\ Metacharacters(s0).anchor_pos <= Metacharacters(s0).pos
         /\ Metacharacters(s0).anchor_pos <= Len(s0.input)
         /\ Metacharacters(s0).pos <= Len(s0.input) + 1
<1>0. s0.pos \in Nat /\ s0.anchor_pos \in Nat /\ s0.input \in Seq(Char) /\ Len(s0.input) \in Nat
  BY Numbers
<1>p. PICK p : p = Min({s0.pos, Len(s0.input)})
  OBVIOUS
<1>1. p \in Nat /\ s0.anchor_pos <= p /\ p <= Len(s0.input)
  BY <1>0, <1>p, MinOfTwo
<1>s. PICK s : s = [s0 EXCEPT !.pos = p]
  OBVIOUS
<1>2. Walks(s0, s) /\ s.pos = p /\ s.anchor_pos = s0.anchor_pos
  BY <1>1, <1>s, CursorMoves
<1>3. Typed(s) /\ s.input = s0.input
  BY <1>2 DEF Walks
<1>c. PICK c : c = At(s, s.pos)
  OBVIOUS
<1>m. PICK m : m = MetaToken(s)
  OBVIOUS
<1>d. PICK d : d = At(m, m.pos)
  OBVIOUS
<1>r. PICK r : r = IF c = NUL \/ (d \in Angle /\ At(m, m.pos - 1) # Space) \/ d \in {DQuote, "'", "$"}
                   THEN m ELSE [m EXCEPT !.pos = @ + 1]
  OBVIOUS
<1>4. Metacharacters(s0) = r
  <2>1. s = [s0 EXCEPT !.pos = Min({@, Len(s0.input)})]
    BY <1>p, <1>s
  <2> QED BY <1>c, <1>m, <1>d, <1>r, <2>1, Zenon DEF Metacharacters
<1>5. CASE c = NUL
  <2>1. NUL # Space /\ NUL # "|" /\ NUL \notin Angle
    BY NulIsNone
  <2>2. m = s
    BY <1>m, <1>c, <1>5, <2>1, Zenon DEF MetaToken
  <2>3. r = s
    BY <1>r, <1>5, <2>2
  <2> QED BY <1>0, <1>1, <1>2, <1>4, <2>3
<1>6. CASE c # NUL
  <2>1. s.pos < Len(s.input)
    BY <1>0, <1>1, <1>2, <1>3, <1>c, <1>6, AtEnd
  <2>2. Fits(s, m)
    BY <1>1, <1>2, <1>3, <1>m, <1>c, <2>1, MetaFits
  <2>3. /\ Walks(s0, m) /\ m.pos \in Nat /\ m.anchor_pos \in Nat
        /\ m.anchor_pos <= Len(s0.input) /\ m.pos <= Len(s0.input)
        /\ \A k : At(m, k) = At(s, k)
    BY <1>2, <1>3, <2>2, Numbers DEF Fits, Walks, At
  <2>4. CASE r = m
    <3>1. m.anchor_pos <= m.pos
      <4>1. CASE At(s, m.pos) = Space
        <5>1. d = Space
          BY <1>d, <2>3, <4>1
        <5>2. ~ (c = NUL \/ (d \in Angle /\ At(m, m.pos - 1) # Space) \/ d \in {DQuote, "'", "$"})
          BY <1>6, <5>1, Distinct
        <5>3. r = [m EXCEPT !.pos = m.pos + 1]
          BY <1>r, <5>2
        <5>4. r.pos = m.pos + 1
          BY <2>3, <5>3, FieldNames DEF Walks, Typed
        <5> QED BY <2>3, <2>4, <5>4
      <4>2. CASE At(s, m.pos) \in Angle /\ At(s, m.pos - 1) = Space
        <5>1. d \in Angle /\ At(m, m.pos - 1) = Space
          BY <1>d, <2>3, <4>2
        <5>2. ~ (c = NUL \/ (d \in Angle /\ At(m, m.pos - 1) # Space) \/ d \in {DQuote, "'", "$"})
          BY <1>6, <5>1, Distinct
        <5>3. r = [m EXCEPT !.pos = m.pos + 1]
          BY <1>r, <5>2
        <5>4. r.pos = m.pos + 1
          BY <2>3, <5>3, FieldNames DEF Walks, Typed
        <5> QED BY <2>3, <2>4, <5>4
      <4> QED BY <2>2, <4>1, <4>2 DEF Fits
    <3> QED BY <1>0, <1>4, <2>3, <2>4, <3>1
  <2>5. CASE r = [m EXCEPT !.pos = m.pos + 1]
    <3>1. m.anchor_pos <= m.pos + 1
      BY <2>2, <2>3 DEF Fits
    <3>2. Walks(m, r) /\ r.pos = m.pos + 1 /\ r.anchor_pos = m.anchor_pos
      BY <2>3, <2>5, CursorMoves DEF Walks
    <3>3. Walks(s0, r)
      BY <2>3, <3>2 DEF Walks
    <3>4. r.pos <= Len(s0.input) + 1 /\ r.anchor_pos <= r.pos /\ r.anchor_pos <= Len(s0.input)
      BY <1>0, <2>3, <3>1, <3>2
    <3> QED BY <1>4, <3>3, <3>4
  <2>6. r = m \/ r = [m EXCEPT !.pos = m.pos + 1]
    BY <1>r
  <2> QED BY <2>4, <2>5, <2>6
<1> QED BY <1>5, <1>6

----------------------------------------------------------------------------
(* Quotes.                                                                 *)

\* The anchor does not lie behind the cursor, nor the cursor behind the line.
Inside(s) == s.anchor_pos <= s.pos /\ s.pos <= Len(s.input)

LEMMA QuotesOpen ==
  ASSUME NEW s, Typed(s), s.anchor_pos <= s.pos, s.pos < Len(s.input),
         ~s.single_quote, ~s.double_quote
  PROVE  /\ Typed(Quotes(s)) /\ Quotes(s).input = s.input /\ Inside(Quotes(s))
         /\ ~ (Quotes(s).single_quote /\ Quotes(s).double_quote)
         /\ Quotes(s).single_quote \/ Quotes(s).double_quote =>
              Quotes(s).anchor_pos <= Quotes(s).quote /\ Quotes(s).quote < Quotes(s).pos
         /\ ~Quotes(s).single_quote /\ ~Quotes(s).double_quote => Quotes(s).pos < Len(s.input)
<1>0. s.pos \in Nat /\ s.anchor_pos \in Nat /\ s.input \in Seq(Char) /\ Len(s.input) \in Nat
  BY Numbers
<1>c. PICK c : c = At(s, s.pos)
  OBVIOUS
<1>r. PICK r : r = Quotes(s)
  OBVIOUS
<1>1. CASE c # "'" /\ c # DQuote
  <2>1. r = s
    BY <1>r, <1>c, <1>1 DEF Quotes
  <2> QED BY <1>0, <1>r, <2>1 DEF Inside
<1>2. CASE c = "'" \/ c = DQuote
  <2>a. PICK a \in Nat : a = IF At(s, s.anchor_pos) = Space THEN s.anchor_pos + 1 ELSE s.anchor_pos
    BY <1>0
  <2>1. a <= s.pos
    <3>1. CASE s.anchor_pos = s.pos
      <4>1. At(s, s.anchor_pos) # Space
        BY <1>c, <1>2, <3>1, Distinct
      <4> QED BY <1>0, <2>a, <3>1, <4>1
    <3>2. CASE s.anchor_pos < s.pos
      BY <1>0, <2>a, <3>2
    <3> QED BY <1>0, <3>1, <3>2
  <2>2. PICK q \in BOOLEAN : q = (c = "'")
    OBVIOUS
  <2>3. r = [s EXCEPT !.single_quote = q, !.double_quote = ~q,
                      !.anchor_pos = a, !.quote = s.pos, !.pos = s.pos + 1]
    <3>1. CASE q
      <4>1. c = "'" /\ c # DQuote
        BY <2>2, <3>1, Distinct
      <4>2. r = [s EXCEPT !.single_quote = ~@, !.double_quote = @,
                          !.anchor_pos = IF At(s, @) = Space THEN @ + 1 ELSE @,
                          !.quote = s.pos, !.pos = @ + 1]
        BY <1>r, <1>c, <4>1 DEF Quotes
      <4>3. s.single_quote = FALSE /\ s.double_quote = FALSE
        BY DEF Typed
      <4> QED BY <2>a, <3>1, <4>2, <4>3
    <3>2. CASE ~q
      <4>1. c # "'" /\ c = DQuote
        BY <1>2, <2>2, <3>2, Distinct
      <4>2. r = [s EXCEPT !.single_quote = @, !.double_quote = ~@,
                          !.anchor_pos = IF At(s, @) = Space THEN @ + 1 ELSE @,
                          !.quote = s.pos, !.pos = @ + 1]
        BY <1>r, <1>c, <4>1 DEF Quotes
      <4>3. s.single_quote = FALSE /\ s.double_quote = FALSE
        BY DEF Typed
      <4> QED BY <2>a, <3>2, <4>2, <4>3
    <3> QED BY <3>1, <3>2
  <2>4. /\ Typed(r) /\ r.input = s.input /\ r.pos = s.pos + 1 /\ r.anchor_pos = a /\ r.quote = s.pos
        /\ r.single_quote = q /\ r.double_quote = ~q
    BY <1>0, <2>3, FieldNames DEF Typed
  <2>5. Inside(r)
    BY <1>0, <2>1, <2>4 DEF Inside
  <2>6. ~ (r.single_quote /\ r.double_quote) /\ ~ (~r.single_quote /\ ~r.double_quote)
    BY <2>4
  <2>7. r.anchor_pos <= r.quote /\ r.quote < r.pos
    BY <1>0, <2>1, <2>4
  <2> QED BY <1>r, <2>4, <2>5, <2>6, <2>7, Zenon
<1> QED BY <1>1, <1>2

LEMMA PrepareStrStays ==
  ASSUME NEW s, Typed(s), s.pos <= Len(s.input)
  PROVE  Stays(s, PrepareStr(s))
<1>1. PICK text : text = Text(s, s.anchor_pos, s.pos)
  OBVIOUS
<1>2. text \in Seq(Char)
  BY <1>1, TextType DEF Typed
<1>3. "WORD" \in TokenTypes
  BY DEF TokenTypes
<1>4. \/ PrepareStr(s) = TempToken(s, text)
      \/ s.tmp_token # None /\ PrepareStr(s) = LastStr(s, text)
      \/ PrepareStr(s) = AddCustomToken(s, text, "WORD")
  BY <1>1 DEF PrepareStr
<1> QED BY <1>2, <1>3, <1>4, TempTokenStays, LastStrStays, AddCustomTokenStays

\* A pair of quotes is closed: the cursor and the anchor are behind it.
PutBehind(s, r) ==
  /\ Typed(r) /\ r.anchor_pos = r.pos /\ r.pos <= Len(r.input)
  /\ r.single_quote = s.single_quote /\ r.double_quote = s.double_quote

LEMMA FirstQuoteCaseLands ==
  ASSUME NEW s, Typed(s), s.anchor_pos <= s.quote, s.pos = s.quote + 1, s.pos < Len(s.input)
  PROVE  /\ Typed(HandleFirstQuoteCase(s)) /\ HandleFirstQuoteCase(s).pos = s.anchor_pos
         /\ s.anchor_pos <= Len(HandleFirstQuoteCase(s).input)
         /\ HandleFirstQuoteCase(s).single_quote = s.single_quote
         /\ HandleFirstQuoteCase(s).double_quote = s.double_quote
<1>0. /\ s.pos \in Nat /\ s.anchor_pos \in Nat /\ s.quote \in Nat /\ s.input \in Seq(Char)
      /\ Len(s.input) \in Nat
  BY Numbers
<1>1. PICK line : line = Text(s, 0, s.quote) \o <<>> \o Rest(s, s.quote + 2)
  OBVIOUS
<1>2. line \in Seq(Char) /\ Len(line) = s.quote + 0 + (Len(s.input) - (s.quote + 2))
  <2>1. s.quote \in 0..Len(s.input) /\ s.quote + 2 \in 0..Len(s.input) /\ <<>> \in Seq(Char)
    BY <1>0
  <2>e. Len(<<>>) = 0
    OBVIOUS
  <2>2. PICK x : x = <<>> /\ x \in Seq(Char) /\ Len(x) = 0
    BY <2>1, <2>e, Zenon
  <2>a. PICK at \in 0..Len(s.input), to \in 0..Len(s.input) : at = s.quote /\ to = s.quote + 2
    BY <2>1
  <2>b. /\ Text(s, 0, at) \o x \o Rest(s, to) \in Seq(Char)
        /\ Len(Text(s, 0, at) \o x \o Rest(s, to)) = at + Len(x) + (Len(s.input) - to)
    <3>1. s.input \in Seq(Char) /\ x \in Seq(Char)
      BY <1>0, <2>2
    <3> QED BY <3>1, SpliceType, Zenon
  <2>3. /\ Text(s, 0, s.quote) \o x \o Rest(s, s.quote + 2) \in Seq(Char)
        /\ Len(Text(s, 0, s.quote) \o x \o Rest(s, s.quote + 2))
             = s.quote + Len(x) + (Len(s.input) - (s.quote + 2))
    BY <2>a, <2>b
  <2> QED BY <1>1, <2>2, <2>3
<1>3. Text(s, 0, s.quote) \o <<>> = Text(s, 0, s.quote)
  <2>1. Text(s, 0, s.quote) \in Seq(Char)
    BY <1>0, TextType
  <2>2. PICK a \in Seq(Char) : a = Text(s, 0, s.quote)
    BY <2>1
  <2>3. a \o <<>> = a
    OBVIOUS
  <2> QED BY <2>2, <2>3
<1>r. PICK r : r = HandleFirstQuoteCase(s)
  OBVIOUS
<1>4. r = [s EXCEPT !.input = line, !.pos = s.anchor_pos, !.free_input = TRUE]
  BY <1>r, <1>1, <1>3 DEF HandleFirstQuoteCase
<1>5. /\ Typed(r) /\ r.pos = s.anchor_pos /\ r.input = line
      /\ r.single_quote = s.single_quote /\ r.double_quote = s.double_quote
  BY <1>0, <1>2, <1>4, FieldNames DEF Typed
<1>6. s.anchor_pos <= Len(line)
  BY <1>0, <1>2
<1> QED BY <1>r, <1>5, <1>6

LEMMA MiddleQuoteCaseLands ==
  ASSUME NEW s, Typed(s), s.quote < s.pos, s.pos < Len(s.input)
  PROVE  Walks(s, HandleMiddleQuoteCase(s)) /\ HandleMiddleQuoteCase(s).pos = s.pos + 1
<1>0. /\ s.pos \in Nat /\ s.anchor_pos \in Nat /\ s.quote \in Nat /\ s.input \in Seq(Char)
      /\ Len(s.input) \in Nat /\ s.quote <= Len(s.input)
  BY Numbers
<1>1. PICK a : a = Text(s, s.anchor_pos, s.quote)
  OBVIOUS
<1>2. PICK b : b = Text(s, s.quote + 1, s.pos)
  OBVIOUS
<1>3. a \in Seq(Char)
  BY <1>0, <1>1, TextType
<1>4. b \in Seq(Char)
  <2>1. PICK n \in Nat : n = s.quote + 1
    BY <1>0
  <2>2. Text(s, n, s.pos) \in Seq(Char)
    BY <1>0, TextType
  <2> QED BY <1>2, <2>1, <2>2
<1>5. PICK text : text = a \o b
  OBVIOUS
<1>6. text \in Seq(Char) /\ "WORD" \in TokenTypes
  BY <1>3, <1>4, <1>5, ConcatProperties DEF TokenTypes
<1>e. PICK ends : ends = (At(s, s.pos + 1) \in {NUL, Space})
  OBVIOUS
<1>7. PICK done : done = CASE ~ends                      -> TempToken(s, text)
                           [] ends /\ s.tmp_token # None -> LastStr(s, text)
                           [] OTHER                      -> AddCustomToken(s, text, "WORD")
  OBVIOUS
<1>8. Stays(s, done)
  <2>1. \/ done = TempToken(s, text) \/ (s.tmp_token # None /\ done = LastStr(s, text))
        \/ done = AddCustomToken(s, text, "WORD")
    BY <1>7
  <2> QED BY <1>6, <2>1, TempTokenStays, LastStrStays, AddCustomTokenStays
<1>9. HandleMiddleQuoteCase(s) = [done EXCEPT !.pos = s.pos + 1]
  <2>1. HandleMiddleQuoteCase(s) = [done EXCEPT !.pos = @ + 1]
    BY <1>1, <1>2, <1>5, <1>e, <1>7, Zenon DEF HandleMiddleQuoteCase
  <2> QED BY <1>8, <2>1 DEF Stays
<1>10. Typed(done)
  BY <1>8 DEF Stays, Walks
<1>11. PICK r : r = [done EXCEPT !.pos = s.pos + 1]
  OBVIOUS
<1>12. Walks(done, r) /\ r.pos = s.pos + 1
  <2>1. PICK p \in Nat : p = s.pos + 1
    BY <1>0
  <2> QED BY <1>10, <1>11, <2>1, CursorMoves
<1> QED BY <1>8, <1>9, <1>11, <1>12 DEF Stays, Walks

LEMMA PrepareQuotesLands ==
  ASSUME NEW s, Typed(s), s.anchor_pos <= s.quote, s.quote < s.pos, s.pos < Len(s.input)
  PROVE  PutBehind(s, PrepareQuotes(s))
<1>0. s.pos \in Nat /\ s.input \in Seq(Char) /\ Len(s.input) \in Nat /\ s.anchor_pos \in Nat
  BY Numbers
<1>d. PICK done : done = IF s.pos = s.quote + 1 THEN HandleFirstQuoteCase(s) ELSE HandleMiddleQuoteCase(s)
  OBVIOUS
<1>1. /\ Typed(done) /\ done.pos \in Nat /\ done.pos <= Len(done.input)
      /\ done.single_quote = s.single_quote /\ done.double_quote = s.double_quote
  <2>1. CASE s.pos = s.quote + 1
    <3>1. done = HandleFirstQuoteCase(s)
      BY <1>d, <2>1
    <3> QED BY <1>0, <2>1, <3>1, FirstQuoteCaseLands
  <2>2. CASE s.pos # s.quote + 1
    <3>1. done = HandleMiddleQuoteCase(s)
      BY <1>d, <2>2
    <3>2. Walks(s, done) /\ done.pos = s.pos + 1
      BY <3>1, MiddleQuoteCaseLands
    <3> QED BY <1>0, <3>2 DEF Walks
  <2> QED BY <2>1, <2>2
<1>2. PICK r : r = [done EXCEPT !.anchor_pos = done.pos]
  OBVIOUS
<1>3. Walks(done, r) /\ r.anchor_pos = done.pos /\ r.pos = done.pos
  BY <1>1, <1>2, AnchorMoves
<1>4. PrepareQuotes(s) = r
  BY <1>d, <1>2 DEF PrepareQuotes
<1> QED BY <1>1, <1>3, <1>4 DEF PutBehind, Walks

\* The piece in quotes stands where a word begins.
LEMMA PieceLands ==
  ASSUME NEW s, Typed(s), s.anchor_pos < s.pos, s.pos <= Len(s.input)
  PROVE  Walks(s, PrepareStr(InQuotes(s))) /\ PrepareStr(InQuotes(s)).pos = s.pos
<1>0. s.pos \in Nat /\ s.anchor_pos \in Nat
  BY Numbers
<1>1. PICK a \in Nat : a = IF At(s, s.anchor_pos) = At(s, s.pos) THEN s.anchor_pos + 1 ELSE s.anchor_pos
  BY <1>0
<1>2. PICK i : i = [s EXCEPT !.anchor_pos = a]
  OBVIOUS
<1>3. InQuotes(s) = i
  BY <1>1, <1>2 DEF InQuotes
<1>4. Walks(s, i) /\ i.pos = s.pos
  BY <1>2, AnchorMoves
<1>5. Typed(i) /\ i.pos <= Len(i.input)
  BY <1>4 DEF Walks
<1>6. Stays(i, PrepareStr(i))
  BY <1>5, PrepareStrStays
<1> QED BY <1>3, <1>4, <1>6 DEF Stays, Walks

LEMMA DoubleQuoteLands ==
  ASSUME NEW s, Typed(s), s.anchor_pos <= s.quote, s.quote < s.pos, s.pos < Len(s.input)
  PROVE  /\ Typed(HandleDoubleQuote(s)) /\ Inside(HandleDoubleQuote(s))
         /\ HandleDoubleQuote(s).single_quote = s.single_quote
         /\ HandleDoubleQuote(s).double_quote = FALSE
<1>0. /\ s.pos \in Nat /\ s.anchor_pos \in Nat /\ s.quote \in Nat /\ s.input \in Seq(Char)
      /\ Len(s.input) \in Nat /\ s.anchor_pos < s.pos /\ s.pos <= Len(s.input)
  BY Numbers
<1>p. PICK piece : piece = PrepareStr(InQuotes(s))
  OBVIOUS
<1>1. Walks(s, piece) /\ piece.pos = s.pos
  BY <1>0, <1>p, PieceLands
<1>b. PICK b : b = [piece EXCEPT !.pos = s.pos + 1, !.anchor_pos = s.pos + 1]
  OBVIOUS
<1>2. PutBehind(s, b)
  BY <1>0, <1>1, <1>b, FieldNames DEF PutBehind, Walks, Typed
<1>d. PICK done : done = IF s.pos <= s.anchor_pos THEN s
                         ELSE IF s.quote # s.anchor_pos THEN PrepareQuotes(s) ELSE b
  OBVIOUS
<1>3. PutBehind(s, done)
  <2>1. CASE s.quote # s.anchor_pos
    <3>1. done = PrepareQuotes(s)
      BY <1>0, <1>d, <2>1
    <3> QED BY <3>1, PrepareQuotesLands
  <2>2. CASE s.quote = s.anchor_pos
    <3>1. done = b
      BY <1>0, <1>d, <2>2
    <3> QED BY <1>2, <3>1
  <2> QED BY <2>1, <2>2
<1>r. PICK r : r = HandleDoubleQuote(s)
  OBVIOUS
<1>4. r = [done EXCEPT !.double_quote = FALSE,
                       !.continue_var = IF At(done, done.pos) = DQuote THEN ~@ ELSE @]
  <2> DEFINE p0 == PrepareStr(InQuotes(s))
             d0 == IF s.pos <= s.anchor_pos THEN s
                   ELSE IF s.quote # s.anchor_pos THEN PrepareQuotes(s)
                   ELSE [p0 EXCEPT !.pos = @ + 1, !.anchor_pos = s.pos + 1]
  <2>1. r = [d0 EXCEPT !.double_quote = FALSE,
                       !.continue_var = IF At(d0, d0.pos) = DQuote THEN ~@ ELSE @]
    BY <1>r DEF HandleDoubleQuote
  <2>2. b = [p0 EXCEPT !.pos = @ + 1, !.anchor_pos = s.pos + 1]
    BY <1>1, <1>b, <1>p
  <2>3. d0 = done
    BY <1>d, <2>2
  <2> HIDE DEF d0, p0
  <2> QED BY <2>1, <2>3
<1>v. PICK v \in BOOLEAN : v = IF At(done, done.pos) = DQuote THEN ~done.continue_var ELSE done.continue_var
  BY <1>3 DEF PutBehind, Typed
<1>5. r = [done EXCEPT !.double_quote = FALSE, !.continue_var = v]
  BY <1>4, <1>v
<1>6. Typed(done) /\ done.anchor_pos = done.pos /\ done.pos <= Len(done.input) /\ done.single_quote = s.single_quote
  BY <1>3 DEF PutBehind
<1>7. /\ Typed(r) /\ r.anchor_pos = done.anchor_pos /\ r.pos = done.pos /\ r.input = done.input
      /\ r.single_quote = done.single_quote /\ r.double_quote = FALSE
  BY <1>5, <1>6, FieldNames DEF Typed
<1>8. Inside(r)
  BY <1>6, <1>7, Numbers DEF Inside
<1> QED BY <1>r, <1>6, <1>7, <1>8

LEMMA SingleQuoteLands ==
  ASSUME NEW s, Typed(s), s.anchor_pos <= s.quote, s.quote < s.pos, s.pos < Len(s.input)
  PROVE  /\ Typed(HandleSingleQuote(s)) /\ Inside(HandleSingleQuote(s))
         /\ HandleSingleQuote(s).double_quote = s.double_quote
         /\ HandleSingleQuote(s).single_quote = FALSE
<1>0. /\ s.pos \in Nat /\ s.anchor_pos \in Nat /\ s.quote \in Nat /\ s.input \in Seq(Char)
      /\ Len(s.input) \in Nat /\ s.anchor_pos < s.pos /\ s.pos <= Len(s.input)
  BY Numbers
<1>p. PICK piece : piece = PrepareStr(InQuotes(s))
  OBVIOUS
<1>1. Walks(s, piece) /\ piece.pos = s.pos
  BY <1>0, <1>p, PieceLands
<1>b. PICK b : b = [piece EXCEPT !.anchor_pos = s.pos + 1]
  OBVIOUS
<1>2. /\ Walks(s, b) /\ b.pos = s.pos /\ b.anchor_pos = s.pos + 1
  BY <1>0, <1>1, <1>b, FieldNames DEF Walks, Typed
<1>d. PICK done : done = IF s.pos <= s.anchor_pos THEN s
                         ELSE IF s.quote # s.anchor_pos THEN PrepareQuotes(s) ELSE b
  OBVIOUS
<1>k. PICK ahead : ahead = IF At(done, done.pos) # NUL THEN done.pos + 1 ELSE done.pos
  OBVIOUS
<1>r. PICK r : r = HandleSingleQuote(s)
  OBVIOUS
<1>4. r = [done EXCEPT !.single_quote = FALSE, !.pos = ahead]
  <2>1. r = [done EXCEPT !.single_quote = FALSE, !.pos = IF At(done, @) # NUL THEN @ + 1 ELSE @]
    <3> DEFINE p0 == PrepareStr(InQuotes(s))
               d0 == IF s.pos <= s.anchor_pos THEN s
                     ELSE IF s.quote # s.anchor_pos THEN PrepareQuotes(s)
                     ELSE [p0 EXCEPT !.anchor_pos = s.pos + 1]
    <3>1. r = [d0 EXCEPT !.single_quote = FALSE, !.pos = IF At(d0, @) # NUL THEN @ + 1 ELSE @]
      BY <1>r DEF HandleSingleQuote
    <3>2. b = [p0 EXCEPT !.anchor_pos = s.pos + 1]
      BY <1>b, <1>p
    <3>3. d0 = done
      BY <1>d, <3>2
    <3> HIDE DEF d0, p0
    <3> QED BY <3>1, <3>3
  <2> QED BY <1>k, <2>1
<1>5. /\ Typed(done) /\ done.pos \in Nat /\ done.anchor_pos \in Nat /\ ahead \in Nat
      /\ done.anchor_pos <= ahead /\ ahead <= Len(done.input) /\ done.double_quote = s.double_quote
  <2>1. CASE s.quote # s.anchor_pos
    <3>1. done = PrepareQuotes(s)
      BY <1>0, <1>d, <2>1
    <3>2. PutBehind(s, done)
      BY <3>1, PrepareQuotesLands
    <3>3. /\ Typed(done) /\ done.anchor_pos = done.pos /\ done.pos <= Len(done.input)
          /\ done.pos \in Nat /\ Len(done.input) \in Nat /\ done.double_quote = s.double_quote
      BY <3>2, Numbers DEF PutBehind
    <3>4. At(done, done.pos) # NUL => done.pos + 1 <= Len(done.input)
      BY <3>3, AtEnd DEF Typed
    <3> QED BY <1>k, <3>3, <3>4
  <2>2. CASE s.quote = s.anchor_pos
    <3>1. done = b
      BY <1>0, <1>d, <2>2
    <3>2. Typed(done) /\ done.pos = s.pos /\ done.anchor_pos = s.pos + 1 /\ done.input = s.input
          /\ done.double_quote = s.double_quote
      BY <1>2, <3>1 DEF Walks
    <3>3. At(done, done.pos) # NUL
      BY <1>0, <3>2, AtEnd DEF Typed
    <3> QED BY <1>0, <1>k, <3>2, <3>3
  <2> QED BY <2>1, <2>2
<1>7. /\ Typed(r) /\ r.anchor_pos = done.anchor_pos /\ r.pos = ahead /\ r.input = done.input
      /\ r.double_quote = done.double_quote /\ r.single_quote = FALSE
  BY <1>4, <1>5, FieldNames DEF Typed
<1>8. Inside(r)
  BY <1>5, <1>7 DEF Inside
<1> QED BY <1>r, <1>5, <1>7, <1>8

----------------------------------------------------------------------------
(* Variables and $?.                                                       *)

LEMMA FigureType == ASSUME NEW n \in Nat PROVE Figure(n) \in Digit
<1>1. n % 10 \in 0..9
  OBVIOUS
<1> PICK d \in 1..10 : d = (n % 10) + 1
  BY <1>1
<1>2. Figure(n) = <<"0", "1", "2", "3", "4", "5", "6", "7", "8", "9">>[d]
  BY DEF Figure
<1>3. <<"0", "1", "2", "3", "4", "5", "6", "7", "8", "9">>[d] \in Digit
  BY DEF Digit
<1> QED BY <1>2, <1>3

LEMMA ItoaType ==
  ASSUME NEW n \in 0..255
  PROVE  Itoa[n] \in Seq(Char) /\ Len(Itoa[n]) >= 1
<1>1. n \in Nat /\ n \div 100 \in Nat /\ n \div 10 \in Nat
  OBVIOUS
<1>2. Digit \subseteq Char
  BY ValuesAssumption DEF NameChar
<1>3. Figure(n) \in Char /\ Figure(n \div 10) \in Char /\ Figure(n \div 100) \in Char
  BY <1>1, <1>2, FigureType
<1> PICK all : all = <<Figure(n \div 100), Figure(n \div 10), Figure(n)>>
  OBVIOUS
<1>4. all \in Seq(Char) /\ Len(all) = 3
  BY <1>3
<1> PICK f \in 1..3 : f = IF n < 10 THEN 3 ELSE IF n < 100 THEN 2 ELSE 1
  BY <1>1
<1>5. Itoa[n] = SubSeq(all, f, 3)
  BY DEF Itoa
<1>6. SubSeq(all, f, 3) \in Seq(Char) /\ Len(SubSeq(all, f, 3)) >= 1
  BY <1>4
<1> QED BY <1>5, <1>6

\* The line is another one; everything else stays.
Rewrites(s, r) ==
  /\ Typed(r) /\ r.pos = s.pos /\ r.anchor_pos = s.anchor_pos /\ r.quote = s.quote
  /\ r.count = s.count /\ r.single_quote = s.single_quote /\ r.double_quote = s.double_quote

LEMMA ExitStatusLands ==
  ASSUME NEW s, Typed(s), status \in 0..255, NEW k \in Nat, s.anchor_pos <= k,
         At(s, k) = "$", At(s, k + 1) = "?"
  PROVE  Rewrites(s, ExpandExitStatus(s)) /\ k + 1 <= Len(ExpandExitStatus(s).input)
<1>0. s.pos \in Nat /\ s.anchor_pos \in Nat /\ s.input \in Seq(Char) /\ Len(s.input) \in Nat
  BY Numbers
<1>1. \A i \in Nat : At(s, i + 1) = "?" => i + 2 <= Len(s.input)
  <2> SUFFICES ASSUME NEW i \in Nat, At(s, i + 1) = "?" PROVE i + 2 <= Len(s.input)
    OBVIOUS
  <2>1. NUL # "?" /\ i + 1 \in Int
    BY NulIsNone
  <2>2. i + 1 \in 0..Len(s.input) - 1
    BY <1>0, <2>1, AtEnd
  <2> QED BY <1>0, <2>2
<1>2. k + 2 <= Len(s.input)
  BY <1>1
<1> DEFINE stands == {i \in s.anchor_pos..Len(s.input) : At(s, i) = "$" /\ At(s, i + 1) = "?"}
<1> PICK m : m = Min(stands)
  OBVIOUS
<1>3. k \in stands /\ stands \subseteq Nat
  BY <1>0, <1>2
<1>4. m \in stands /\ m <= k
  BY <1>3, MinIsLeast
<1>5. m \in Nat /\ m + 2 <= Len(s.input)
  BY <1>1, <1>3, <1>4
<1>6. Occurs(s, s.anchor_pos, "$", "?") = m
  BY <1>3 DEF Occurs
<1> HIDE DEF stands
<1>l. PICK line : line = Text(s, 0, m) \o Itoa[status] \o Rest(s, m + 2)
  OBVIOUS
<1>7. line \in Seq(Char) /\ Len(line) \in Nat /\ Len(line) >= Len(s.input) - 1
  <2>x. PICK x : x = Itoa[status]
    OBVIOUS
  <2>0. x \in Seq(Char) /\ Len(x) >= 1
    BY <2>x, ItoaType
  <2>1. x \in Seq(Char) /\ Len(x) >= 1 /\ Len(x) \in Nat
    BY <2>0
  <2>2. m \in 0..Len(s.input) /\ m + 2 \in 0..Len(s.input)
    BY <1>0, <1>5
  <2>3. line \in Seq(Char) /\ Len(line) = m + Len(x) + (Len(s.input) - (m + 2))
    BY <1>0, <1>l, <2>x, <2>1, <2>2, SpliceType
  <2>4. m + Len(x) + (Len(s.input) - (m + 2)) >= Len(s.input) - 1
    BY <1>0, <1>5, <2>1
  <2>5. Len(line) \in Nat
    BY <2>3
  <2>6. Len(line) >= Len(s.input) - 1
    BY <2>3, <2>4
  <2> QED BY <2>3, <2>5, <2>6
<1> PICK r : r = ExpandExitStatus(s)
  OBVIOUS
<1>8. CASE m = None
  <2>1. r = s
    BY <1>6, <1>8 DEF ExpandExitStatus
  <2> QED BY <1>0, <1>2, <2>1 DEF Rewrites
<1>9. CASE m # None
  <2>1. r = [s EXCEPT !.input = line]
    BY <1>6, <1>9, <1>l DEF ExpandExitStatus
  <2>2. Rewrites(s, r) /\ r.input = line
    BY <1>7, <2>1, FieldNames DEF Rewrites, Typed
  <2>3. k + 1 <= Len(line)
    BY <1>0, <1>2, <1>7
  <2> QED BY <2>2, <2>3
<1> QED BY <1>8, <1>9

LEMMA ValueType ==
  ASSUME NEW list \in Lists \cup {Env}, NEW name \in DOMAIN list
  PROVE  list[name] \in Seq(Char) /\ Len(list[name]) \in Nat
<1>1. list[name] \in Seq(Char \ {"$"})
  BY ValuesAssumption
<1>2. \A v \in Seq(Char \ {"$"}) : v \in Seq(Char) /\ Len(v) \in Nat
  OBVIOUS
<1> QED BY <1>1, <1>2

LEMMA VariableExpansionLands ==
  ASSUME NEW s, Typed(s), NEW at \in Nat, at < Len(s.input)
  PROVE  /\ Rewrites(s, HandleVariableExpansion(s, at))
         /\ at <= Len(HandleVariableExpansion(s, at).input)
<1>0. s.input \in Seq(Char) /\ Len(s.input) \in Nat
  BY Numbers
<1> PICK end : end = SkipOver(s, at + 1, NameChar)
  OBVIOUS
<1>1. end \in Nat /\ end <= Len(s.input)
  <2>1. NUL \notin NameChar
    BY NulIsNone
  <2>2. PICK n \in Nat : n = at + 1 /\ n <= Len(s.input)
    BY <1>0
  <2> QED BY <1>0, <2>1, <2>2, SkipOverStops
<1> PICK name : name = Text(s, at + 1, end)
  OBVIOUS
<1> PICK r : r = HandleVariableExpansion(s, at)
  OBVIOUS
<1>2. CASE name \notin DOMAIN Env
  <2>1. r = s
    BY <1>2 DEF HandleVariableExpansion
  <2> QED BY <1>0, <2>1 DEF Rewrites
<1>3. CASE name \in DOMAIN Env
  <2> PICK v : v = Env[name]
    OBVIOUS
  <2> PICK line : line = Text(s, 0, at) \o v \o Rest(s, end)
    OBVIOUS
  <2>1. v \in Seq(Char) /\ Len(v) \in Nat
    BY <1>3, ValueType
  <2>2. at \in 0..Len(s.input) /\ end \in 0..Len(s.input)
    BY <1>0, <1>1
  <2>3. line \in Seq(Char) /\ Len(line) = at + Len(v) + (Len(s.input) - end)
    BY <1>0, <2>1, <2>2, SpliceType
  <2>4. r = [s EXCEPT !.input = line]
    BY <1>3 DEF HandleVariableExpansion
  <2>5. Rewrites(s, r) /\ r.input = line
    BY <2>3, <2>4, FieldNames DEF Rewrites, Typed
  <2>6. at <= at + Len(v) + (Len(s.input) - end)
    BY <1>0, <1>1, <2>1
  <2>7. at <= Len(line)
    BY <2>3, <2>6
  <2> QED BY <2>5, <2>7
<1> QED BY <1>2, <1>3

\* What is_var() promises about the cursor: it may be left behind the line.
VarLands(s, r) ==
  /\ Typed(r) /\ r.anchor_pos <= r.pos /\ r.anchor_pos <= Len(r.input)
  /\ r.single_quote = s.single_quote /\ r.double_quote = s.double_quote

LEMMA LonelyDollarLands ==
  ASSUME NEW s, Typed(s), s.anchor_pos < Len(s.input)
  PROVE  VarLands(s, HandleLonelyDollar(s))
<1>0. s.anchor_pos \in Nat /\ s.input \in Seq(Char) /\ Len(s.input) \in Nat
  BY Numbers
<1>1. <<"$">> \in Seq(Char) /\ "WORD" \in TokenTypes
  BY ValuesAssumption DEF TokenTypes
<1>d. PICK done : done = IF s.tmp_token # None THEN LastStr(s, <<"$">>)
                         ELSE AddCustomToken(s, <<"$">>, "WORD")
  OBVIOUS
<1>2. Stays(s, done)
  BY <1>1, <1>d, LastStrStays, AddCustomTokenStays
<1>3. Typed(done) /\ done.anchor_pos = s.anchor_pos /\ done.input = s.input
      /\ done.single_quote = s.single_quote /\ done.double_quote = s.double_quote
  BY <1>2 DEF Stays, Walks
<1>4. HandleLonelyDollar(s) = [done EXCEPT !.anchor_pos = s.anchor_pos + 1, !.pos = s.anchor_pos + 1]
  <2>1. HandleLonelyDollar(s) = [done EXCEPT !.anchor_pos = @ + 1, !.pos = s.anchor_pos + 1]
    BY <1>d, Zenon DEF HandleLonelyDollar
  <2> QED BY <1>3, <2>1
<1>r. PICK r : r = [done EXCEPT !.anchor_pos = s.anchor_pos + 1, !.pos = s.anchor_pos + 1]
  OBVIOUS
<1>5. /\ Typed(r) /\ r.anchor_pos = s.anchor_pos + 1 /\ r.pos = s.anchor_pos + 1 /\ r.input = s.input
      /\ r.single_quote = s.single_quote /\ r.double_quote = s.double_quote
  BY <1>0, <1>3, <1>r, FieldNames DEF Typed
<1>6. r.anchor_pos <= r.pos /\ r.anchor_pos <= Len(r.input)
  BY <1>0, <1>5
<1> QED BY <1>4, <1>r, <1>5, <1>6 DEF VarLands

LEMMA EnvVarLands ==
  ASSUME NEW s, Typed(s), env \in Lists, s.anchor_pos <= s.pos, s.pos < Len(s.input)
  PROVE  VarLands(s, HandleEnvVar(s))
<1>0. s.pos \in Nat /\ s.anchor_pos \in Nat /\ s.input \in Seq(Char) /\ Len(s.input) \in Nat
  BY Numbers
<1>f. PICK from \in Nat : from = IF s.pos = s.anchor_pos THEN s.pos + 1 ELSE s.pos
  BY <1>0
<1>e. PICK end : end = SkipOver(s, from, NameChar)
  OBVIOUS
<1>1. end \in Nat /\ end <= Len(s.input)
  <2>1. NUL \notin NameChar
    BY NulIsNone
  <2>2. from <= Len(s.input)
    BY <1>0, <1>f
  <2> QED BY <1>0, <1>e, <2>1, <2>2, SkipOverStops
<1>n. PICK name : name = Text(s, s.anchor_pos + 1, end)
  OBVIOUS
<1>r. PICK r : r = HandleEnvVar(s)
  OBVIOUS
<1>2. CASE name \in DOMAIN env
  <2>v. PICK v : v = env[name]
    OBVIOUS
  <2>l. PICK line : line = Text(s, 0, s.anchor_pos) \o v \o Rest(s, end)
    OBVIOUS
  <2>1. v \in Seq(Char) /\ Len(v) \in Nat
    BY <1>2, <2>v, ValueType
  <2>2. s.anchor_pos \in 0..Len(s.input) /\ end \in 0..Len(s.input)
    BY <1>0, <1>1
  <2>3. line \in Seq(Char) /\ Len(line) = s.anchor_pos + Len(v) + (Len(s.input) - end)
    BY <1>0, <2>l, <2>1, <2>2, SpliceType
  <2>4. r = [s EXCEPT !.input = line, !.pos = s.anchor_pos]
    BY <1>f, <1>e, <1>n, <1>r, <1>2, <2>v, <2>l DEF HandleEnvVar
  <2>5. /\ Typed(r) /\ r.input = line /\ r.pos = s.anchor_pos /\ r.anchor_pos = s.anchor_pos
        /\ r.single_quote = s.single_quote /\ r.double_quote = s.double_quote
    BY <1>0, <2>3, <2>4, FieldNames DEF Typed
  <2>6. s.anchor_pos <= s.anchor_pos + Len(v) + (Len(s.input) - end) /\ s.anchor_pos <= s.anchor_pos
    BY <1>0, <1>1, <2>1
  <2> QED BY <1>r, <2>3, <2>5, <2>6 DEF VarLands
<1>3. CASE name \notin DOMAIN env
  <2>g. PICK gone : gone = IF s.tmp_token = None THEN s ELSE LastStr(s, <<>>)
    OBVIOUS
  <2>1. Walks(s, gone)
    <3>1. <<>> \in Seq(Char)
      OBVIOUS
    <3>2. CASE s.tmp_token = None
      BY <2>g, <3>2 DEF Walks
    <3>3. CASE s.tmp_token # None
      BY <2>g, <3>1, <3>3, LastStrStays DEF Stays
    <3> QED BY <3>2, <3>3
  <2>2. r = [gone EXCEPT !.anchor_pos = end, !.pos = end]
    BY <1>f, <1>e, <1>n, <1>r, <1>3, <2>g DEF HandleEnvVar
  <2>3. /\ Typed(r) /\ r.input = s.input /\ r.pos = end /\ r.anchor_pos = end
        /\ r.single_quote = s.single_quote /\ r.double_quote = s.double_quote
    BY <1>1, <2>1, <2>2, FieldNames DEF Typed, Walks
  <2> QED BY <1>1, <1>r, <2>3 DEF VarLands
<1> QED BY <1>2, <1>3

LEMMA ThreeParts ==
  ASSUME NEW a \in Seq(Char), NEW b \in Seq(Char), NEW c \in Seq(Char)
  PROVE  (a \o b) \o c = a \o (b \o c)
BY ConcatAssociative

LEMMA IsVar2Lands ==
  ASSUME NEW s, Typed(s), s.anchor_pos <= s.pos, s.pos < Len(s.input)
  PROVE  VarLands(s, IsVar2(s))
<1>0. s.pos \in Nat /\ s.anchor_pos \in Nat /\ s.input \in Seq(Char) /\ Len(s.input) \in Nat
  BY Numbers
<1>e. PICK end : end = SkipOver(s, s.pos + 1, NameChar)
  OBVIOUS
<1>1. end \in Nat /\ s.pos + 1 <= end /\ end <= Len(s.input)
  <2>1. NUL \notin NameChar
    BY NulIsNone
  <2>2. PICK n \in Nat : n = s.pos + 1 /\ n <= Len(s.input)
    BY <1>0
  <2> QED BY <1>0, <1>e, <2>1, <2>2, SkipOverStops
<1>l. PICK last \in Nat : last = end - 1
  BY <1>0, <1>1
<1>2. s.pos <= last /\ last + 1 = end /\ last <= Len(s.input) /\ last + 1 \in Nat
  BY <1>0, <1>1, <1>l
<1>p. PICK prefix : prefix = Text(s, s.anchor_pos, s.pos)
  OBVIOUS
<1>3. prefix \in Seq(Char) /\ Len(prefix) = s.pos - s.anchor_pos
  <2>1. s.pos <= Len(s.input) \/ s.pos <= s.anchor_pos
    BY <1>0
  <2>2. /\ prefix \in Seq(Char)
        /\ Len(prefix) = IF s.anchor_pos < s.pos THEN s.pos - s.anchor_pos ELSE 0
    BY <1>0, <1>p, <2>1, TextType
  <2> QED BY <1>0, <2>2
<1>n. PICK name : name = IF last = s.pos THEN <<"$">> ELSE Text(s, s.pos + 1, last + 1)
  OBVIOUS
<1>4. Len(name) \in Nat
  <2>1. CASE last = s.pos
    BY <1>n, <2>1
  <2>2. CASE last # s.pos
    <3>1. name = Text(s, s.pos + 1, last + 1)
      BY <1>n, <2>2
    <3>2. PICK x : x = Text(s, s.pos + 1, end)
      OBVIOUS
    <3>3. x \in Seq(Char)
      <4>1. PICK n \in Nat : n = s.pos + 1
        BY <1>0
      <4> QED BY <1>0, <1>1, <3>2, <4>1, TextType
    <3> QED BY <1>2, <3>1, <3>2, <3>3
  <2> QED BY <2>1, <2>2
<1>m. PICK num \in BOOLEAN : num = (s.num_var \/ At(s, s.pos + 1) \in Digit)
  OBVIOUS
<1>a. PICK after : after = IF num THEN Text(s, s.anchor_pos + Len(name) + 1, last) ELSE <<>>
  OBVIOUS
<1>5. after \in Seq(Char)
  <2>1. PICK n \in Nat : n = s.anchor_pos + Len(name) + 1
    BY <1>0, <1>4
  <2>2. Text(s, n, last) \in Seq(Char) /\ <<>> \in Seq(Char)
    BY <1>0, <1>2, TextType
  <2> QED BY <1>a, <2>1, <2>2
<1>r. PICK r : r = IsVar2(s)
  OBVIOUS
<1>6. r = IF name \in DOMAIN Env
          THEN [s EXCEPT !.input = Text(s, 0, s.anchor_pos) \o prefix \o Env[name] \o Rest(s, last + 1),
                         !.pos = last, !.num_var = num]
          ELSE [AddCustomToken(s, prefix \o after, "WORD")
                  EXCEPT !.pos = last + 1, !.anchor_pos = last + 1, !.num_var = FALSE]
  BY <1>e, <1>l, <1>p, <1>n, <1>m, <1>a, <1>r DEF IsVar2
<1>7. CASE name \in DOMAIN Env
  <2>v. PICK v : v = Env[name]
    OBVIOUS
  <2>x. PICK x : x = prefix \o v
    OBVIOUS
  <2>l. PICK line : line = Text(s, 0, s.anchor_pos) \o x \o Rest(s, last + 1)
    OBVIOUS
  <2>1. v \in Seq(Char) /\ Len(v) \in Nat
    BY <1>7, <2>v, ValueType
  <2>2. x \in Seq(Char) /\ Len(x) = Len(prefix) + Len(v)
    BY <1>3, <2>1, <2>x, ConcatProperties
  <2>3. s.anchor_pos \in 0..Len(s.input) /\ last + 1 \in 0..Len(s.input)
    BY <1>0, <1>1, <1>2
  <2>4. line \in Seq(Char) /\ Len(line) = s.anchor_pos + Len(x) + (Len(s.input) - (last + 1))
    BY <1>0, <2>l, <2>2, <2>3, SpliceType
  <2>5. line = Text(s, 0, s.anchor_pos) \o prefix \o Env[name] \o Rest(s, last + 1)
    <3>1. PICK b : b = Text(s, 0, s.anchor_pos)
      OBVIOUS
    <3>2. b \in Seq(Char)
      BY <1>0, <3>1, TextType
    <3>3. b \o x = (b \o prefix) \o v
      <4>1. (b \o prefix) \o v = b \o (prefix \o v)
        <5>1. prefix \in Seq(Char) /\ v \in Seq(Char)
          BY <1>3, <2>1
        <5> QED BY <3>2, <5>1, ThreeParts
      <4> QED BY <2>x, <4>1, Zenon
    <3> QED BY <2>l, <2>v, <3>1, <3>3
  <2>6. r = [s EXCEPT !.input = line, !.pos = last, !.num_var = num]
    BY <1>6, <1>7, <2>5
  <2>7. /\ Typed(r) /\ r.input = line /\ r.pos = last /\ r.anchor_pos = s.anchor_pos
        /\ r.single_quote = s.single_quote /\ r.double_quote = s.double_quote
    BY <1>0, <2>4, <2>6, FieldNames DEF Typed
  <2>8. s.anchor_pos <= last
    BY <1>0, <1>2
  <2>9. s.anchor_pos <= s.anchor_pos + (s.pos - s.anchor_pos + Len(v)) + (Len(s.input) - (last + 1))
    BY <1>0, <1>1, <1>2, <2>1
  <2>10. s.anchor_pos <= Len(line)
    BY <1>3, <2>2, <2>4, <2>9
  <2> QED BY <1>r, <2>7, <2>8, <2>10 DEF VarLands
<1>8. CASE name \notin DOMAIN Env
  <2>x. PICK x : x = prefix \o after
    OBVIOUS
  <2>1. x \in Seq(Char) /\ "WORD" \in TokenTypes
    BY <1>3, <1>5, <2>x, ConcatProperties DEF TokenTypes
  <2>w. PICK w : w = AddCustomToken(s, x, "WORD")
    OBVIOUS
  <2>2. Walks(s, w)
    BY <2>1, <2>w, AddCustomTokenStays DEF Stays
  <2>3. r = [w EXCEPT !.pos = last + 1, !.anchor_pos = last + 1, !.num_var = FALSE]
    BY <1>6, <1>8, <2>x, <2>w
  <2>4. /\ Typed(r) /\ r.input = s.input /\ r.pos = last + 1 /\ r.anchor_pos = last + 1
        /\ r.single_quote = s.single_quote /\ r.double_quote = s.double_quote
    BY <1>2, <2>2, <2>3, FieldNames DEF Typed, Walks
  <2>5. last + 1 <= Len(s.input)
    BY <1>1, <1>2
  <2> QED BY <1>r, <1>2, <2>4, <2>5 DEF VarLands
<1> QED BY <1>7, <1>8

LEMMA IsVarLands ==
  ASSUME NEW s, Typed(s), status \in 0..255, env \in Lists, s.anchor_pos <= s.pos,
         s.pos < Len(s.input), At(s, s.pos) = "$"
  PROVE  VarLands(s, IsVar(s))
<1>0. s.pos \in Nat /\ s.anchor_pos \in Nat /\ s.input \in Seq(Char) /\ Len(s.input) \in Nat
  BY Numbers
<1>r. PICK r : r = IsVar(s)
  OBVIOUS
<1>1. CASE At(s, s.pos + 1) = "?"
  <2>1. r = ExpandExitStatus(s)
    BY <1>r, <1>1 DEF IsVar
  <2>2. Rewrites(s, r) /\ s.pos + 1 <= Len(r.input)
    BY <1>0, <1>1, <2>1, ExitStatusLands
  <2>3. Len(r.input) \in Nat
    BY <2>2, Numbers DEF Rewrites
  <2>4. s.anchor_pos <= Len(r.input)
    BY <1>0, <2>2, <2>3
  <2> QED BY <1>r, <2>2, <2>4 DEF VarLands, Rewrites
<1>2. CASE At(s, s.pos + 1) # "?"
  <2>k. PICK k \in Nat : k = IF At(s, s.anchor_pos) = Space THEN s.anchor_pos + 1 ELSE s.anchor_pos
    BY <1>0
  <2>1. k <= s.pos
    <3>1. CASE s.anchor_pos = s.pos
      <4>1. At(s, s.anchor_pos) # Space
        BY <3>1, Distinct
      <4> QED BY <1>0, <2>k, <3>1, <4>1
    <3>2. CASE s.anchor_pos < s.pos
      BY <1>0, <2>k, <3>2
    <3> QED BY <1>0, <3>1, <3>2
  <2>a. PICK a : a = [s EXCEPT !.anchor_pos = k]
    OBVIOUS
  <2>2. Walks(s, a) /\ a.anchor_pos = k /\ a.pos = s.pos
    BY <2>a, AnchorMoves
  <2>3. /\ Typed(a) /\ a.anchor_pos <= a.pos /\ a.pos < Len(a.input) /\ a.anchor_pos < Len(a.input)
        /\ a.single_quote = s.single_quote /\ a.double_quote = s.double_quote
    BY <1>0, <2>1, <2>2 DEF Walks
  <2>4. r = IF At(a, a.anchor_pos) # "$" THEN IsVar2(a)
            ELSE IF At(a, a.anchor_pos + 1) \in {NUL, Space} THEN HandleLonelyDollar(a)
            ELSE HandleEnvVar(a)
    BY <1>r, <1>2, <2>k, <2>a DEF IsVar
  <2>5. VarLands(a, r)
    BY <2>3, <2>4, IsVar2Lands, LonelyDollarLands, EnvVarLands
  <2> QED BY <1>r, <2>3, <2>5 DEF VarLands
<1> QED BY <1>1, <1>2

----------------------------------------------------------------------------
(* The loop of tokens().                                                   *)

CursorOk == Typed(t) /\ status \in 0..255 /\ CursorInLine

LEMMA InLineIs ==
  ASSUME Typed(t)
  PROVE  InLine <=> t.pos < Len(t.input)
<1>1. t.pos \in Nat /\ t.input \in Seq(Char) /\ Len(t.input) \in Nat
  BY Numbers
<1> QED BY <1>1, AtEnd DEF InLine

LEMMA StructTyped ==
  ASSUME NEW line \in Seq(Char)
  PROVE  /\ Typed(Struct(line)) /\ Struct(line).pos = 0 /\ Struct(line).anchor_pos = 0
         /\ Struct(line).input = line
         /\ ~Struct(line).single_quote /\ ~Struct(line).double_quote
BY StructStarts DEF Typed, Struct

LEMMA CountMoves ==
  ASSUME NEW s, Typed(s), NEW n \in Nat
  PROVE  /\ Typed([s EXCEPT !.count = n]) /\ [s EXCEPT !.count = n].count = n
         /\ [s EXCEPT !.count = n].pos = s.pos /\ [s EXCEPT !.count = n].anchor_pos = s.anchor_pos
         /\ [s EXCEPT !.count = n].quote = s.quote /\ [s EXCEPT !.count = n].input = s.input
         /\ [s EXCEPT !.count = n].single_quote = s.single_quote
         /\ [s EXCEPT !.count = n].double_quote = s.double_quote
<1>1. PICK r : r = [s EXCEPT !.count = n]
  OBVIOUS
<1>2. /\ Typed(r) /\ r.count = n /\ r.pos = s.pos /\ r.anchor_pos = s.anchor_pos
      /\ r.quote = s.quote /\ r.input = s.input /\ r.single_quote = s.single_quote
      /\ r.double_quote = s.double_quote
  BY <1>1, FieldNames DEF Typed
<1> QED BY <1>1, <1>2

LEMMA ReadQuotesStep == CursorOk /\ ReadQuotes => CursorOk'
<1> SUFFICES ASSUME CursorOk, ReadQuotes PROVE CursorOk'
  OBVIOUS
<1>0. /\ t.pos \in Nat /\ t.anchor_pos \in Nat /\ t.input \in Seq(Char) /\ Len(t.input) \in Nat
      /\ Typed(t) /\ tpc = "loop" /\ tpc' = "open" /\ status' \in 0..255
  BY Numbers DEF CursorOk, ReadQuotes
<1>1. t.anchor_pos <= t.pos /\ t.pos < Len(t.input) /\ ~t.single_quote /\ ~t.double_quote
  BY <1>0, InLineIs DEF CursorOk, CursorInLine, ReadQuotes, QuoteOpen
<1>q. PICK q : q = Quotes(t)
  OBVIOUS
<1>2. /\ Typed(q) /\ q.input = t.input /\ Inside(q) /\ ~ (q.single_quote /\ q.double_quote)
      /\ q.single_quote \/ q.double_quote => q.anchor_pos <= q.quote /\ q.quote < q.pos
      /\ ~q.single_quote /\ ~q.double_quote => q.pos < Len(t.input)
  BY <1>0, <1>1, <1>q, QuotesOpen
<1>r. PICK r : r = [q EXCEPT !.count = q.pos]
  OBVIOUS
<1>3. t' = r
  BY <1>q, <1>r DEF ReadQuotes
<1>4. /\ Typed(r) /\ r.count = q.pos /\ r.pos = q.pos /\ r.anchor_pos = q.anchor_pos
      /\ r.quote = q.quote /\ r.input = q.input /\ r.single_quote = q.single_quote
      /\ r.double_quote = q.double_quote /\ q.pos \in Nat /\ q.anchor_pos \in Nat
  BY <1>2, <1>r, CountMoves, Numbers
<1>5. q.anchor_pos <= Len(t.input) /\ q.pos <= q.pos
  BY <1>0, <1>2, <1>4 DEF Inside
<1> QED BY <1>0, <1>2, <1>3, <1>4, <1>5 DEF CursorOk, CursorInLine, QuoteOpen, Inside

\* What expanding a name inside double quotes leaves of the cursor.
Expanded(s, r) ==
  /\ Typed(r) /\ r.anchor_pos = s.anchor_pos /\ r.quote = s.quote
  /\ r.single_quote = s.single_quote /\ r.double_quote = s.double_quote
  /\ s.pos <= r.pos /\ r.pos <= Len(r.input) /\ r.pos <= r.count

LEMMA CheckVarStep == CursorOk /\ CheckVar => CursorOk'
<1> SUFFICES ASSUME CursorOk, CheckVar PROVE CursorOk'
  OBVIOUS
<1>0. /\ t.pos \in Nat /\ t.anchor_pos \in Nat /\ t.input \in Seq(Char) /\ Len(t.input) \in Nat
      /\ t.quote \in Nat /\ t.count \in Nat
      /\ Typed(t) /\ tpc = "open" /\ t.double_quote /\ status \in 0..255 /\ status' \in 0..255
  BY Numbers DEF CursorOk, CheckVar
<1>1. /\ t.anchor_pos <= t.quote /\ t.quote < t.pos /\ t.pos <= Len(t.input) /\ t.pos <= t.count
      /\ ~t.single_quote /\ t.anchor_pos <= t.count
  BY <1>0 DEF CursorOk, CursorInLine, QuoteOpen
<1>h. PICK here : here = At(t, t.count)
  OBVIOUS
<1>n. PICK next : next = At(t, t.count + 1)
  OBVIOUS
<1>2. CASE here \in {NUL, DQuote} \/ (here = "$" /\ next = DQuote)
  <2>1. t' = t /\ tpc' = "close"
    BY <1>h, <1>n, <1>2 DEF CheckVar
  <2> QED BY <1>0, <1>1, <2>1 DEF CursorOk, CursorInLine, QuoteOpen
<1>3. CASE ~ (here \in {NUL, DQuote} \/ (here = "$" /\ next = DQuote))
  <2>1. t.count < Len(t.input)
    BY <1>0, <1>h, <1>3, AtEnd
  <2>2. /\ tpc' = "open"
        /\ t' = CASE here = "$" /\ next = "?" ->
                       [ExpandExitStatus([t EXCEPT !.pos = t.count]) EXCEPT !.count = @ + 1]
                  [] here = "$" /\ next \notin {"?", Space} ->
                       [HandleVariableExpansion(t, t.count) EXCEPT !.count = @ + 1]
                  [] OTHER -> [t EXCEPT !.count = Min(Plain(t))]
    BY <1>h, <1>n, <1>3 DEF CheckVar
  <2>3. ASSUME here = "$", next = "?" PROVE Expanded(t, t')
    <3>p. PICK p : p = [t EXCEPT !.pos = t.count]
      OBVIOUS
    <3>1. Walks(t, p) /\ p.pos = t.count /\ p.anchor_pos = t.anchor_pos /\ p.quote = t.quote
          /\ p.count = t.count
      BY <1>0, <3>p, CursorMoves
    <3>2. Typed(p) /\ p.anchor_pos <= t.count /\ At(p, t.count) = "$" /\ At(p, t.count + 1) = "?"
      BY <1>0, <1>1, <1>h, <1>n, <2>3, <3>1 DEF Walks, At
    <3>e. PICK e : e = ExpandExitStatus(p)
      OBVIOUS
    <3>3. Rewrites(p, e) /\ t.count + 1 <= Len(e.input)
      BY <1>0, <3>2, <3>e, ExitStatusLands
    <3>r. PICK r : r = [e EXCEPT !.count = t.count + 1]
      OBVIOUS
    <3>4. t' = r
      <4>1. t' = [e EXCEPT !.count = @ + 1]
        BY <2>2, <2>3, <3>e, <3>p
      <4> QED BY <3>1, <3>3, <3>r, <4>1 DEF Rewrites
    <3>5. /\ Typed(r) /\ r.count = t.count + 1 /\ r.pos = e.pos /\ r.anchor_pos = e.anchor_pos
          /\ r.quote = e.quote /\ r.input = e.input /\ r.single_quote = e.single_quote
          /\ r.double_quote = e.double_quote
      <4>1. PICK k \in Nat : k = t.count + 1
        BY <1>0
      <4>2. Typed(e)
        BY <3>3 DEF Rewrites
      <4> QED BY <3>r, <4>1, <4>2, CountMoves
    <3>6. /\ r.pos = t.count /\ r.anchor_pos = t.anchor_pos /\ r.quote = t.quote
          /\ r.single_quote = t.single_quote /\ r.double_quote = t.double_quote
      BY <3>1, <3>3, <3>5 DEF Rewrites, Walks
    <3>7. Len(r.input) \in Nat
      BY <3>5, Numbers
    <3>8. t.count <= Len(r.input) /\ t.count <= t.count + 1
      BY <1>0, <3>3, <3>5, <3>7
    <3> QED BY <1>1, <3>4, <3>5, <3>6, <3>8 DEF Expanded
  <2>4. ASSUME here = "$", next \notin {"?", Space} PROVE Expanded(t, t')
    <3>e. PICK e : e = HandleVariableExpansion(t, t.count)
      OBVIOUS
    <3>1. Rewrites(t, e) /\ t.count <= Len(e.input)
      BY <1>0, <2>1, <3>e, VariableExpansionLands
    <3>r. PICK r : r = [e EXCEPT !.count = t.count + 1]
      OBVIOUS
    <3>2. t' = r
      <4>1. t' = [e EXCEPT !.count = @ + 1]
        BY <2>2, <2>4, <3>e
      <4> QED BY <3>1, <3>r, <4>1 DEF Rewrites
    <3>3. /\ Typed(r) /\ r.count = t.count + 1 /\ r.pos = e.pos /\ r.anchor_pos = e.anchor_pos
          /\ r.quote = e.quote /\ r.input = e.input /\ r.single_quote = e.single_quote
          /\ r.double_quote = e.double_quote
      <4>1. PICK k \in Nat : k = t.count + 1
        BY <1>0
      <4>2. Typed(e)
        BY <3>1 DEF Rewrites
      <4> QED BY <3>r, <4>1, <4>2, CountMoves
    <3>4. Len(r.input) \in Nat
      BY <3>3, Numbers
    <3>5. t.pos <= Len(r.input) /\ t.pos <= t.count + 1 /\ t.pos <= t.pos
      BY <1>0, <1>1, <3>1, <3>3, <3>4
    <3> QED BY <3>1, <3>2, <3>3, <3>5 DEF Expanded, Rewrites
  <2>5. ASSUME ~ (here = "$" /\ next = "?"), ~ (here = "$" /\ next \notin {"?", Space})
        PROVE  Expanded(t, t')
    <3>m. PICK m : m = Min(Plain(t))
      OBVIOUS
    <3>1. Plain(t) \subseteq Nat /\ Len(t.input) \in Plain(t)
      <4>1. Len(t.input) \in t.count + 1..Len(t.input) + 1
        BY <1>0, <2>1
      <4>2. At(t, Len(t.input)) = NUL
        BY <1>0, AtEnd
      <4>3. Plain(t) \subseteq Nat
        BY <1>0 DEF Plain
      <4> QED BY <4>1, <4>2, <4>3 DEF Plain
    <3>2. m \in Plain(t)
      BY <3>1, <3>m, MinIsLeast
    <3>3. m \in Nat /\ t.count + 1 <= m
      <4>1. m \in Nat /\ m \in t.count + 1..Len(t.input) + 1
        BY <3>1, <3>2 DEF Plain
      <4> QED BY <1>0, <4>1
    <3>4. t' = [t EXCEPT !.count = m]
      BY <2>2, <2>5, <3>m
    <3>r. PICK r : r = [t EXCEPT !.count = m]
      OBVIOUS
    <3>5. /\ Typed(r) /\ r.count = m /\ r.pos = t.pos /\ r.anchor_pos = t.anchor_pos
          /\ r.quote = t.quote /\ r.input = t.input /\ r.single_quote = t.single_quote
          /\ r.double_quote = t.double_quote
      <4>1. Typed(t) /\ m \in Nat
        BY <1>0, <3>3
      <4> QED BY <3>r, <4>1, CountMoves
    <3>6. t.pos <= m /\ t.pos <= t.pos /\ t.pos <= Len(t.input)
      BY <1>0, <1>1, <3>3
    <3> QED BY <3>4, <3>r, <3>5, <3>6 DEF Expanded
  <2>r. PICK r : r = t'
    OBVIOUS
  <2>6. Expanded(t, r)
    BY <2>3, <2>4, <2>5, <2>r
  <2>7. /\ r.pos \in Nat /\ r.anchor_pos \in Nat /\ Len(r.input) \in Nat /\ r.quote \in Nat
        /\ r.count \in Nat /\ Typed(r)
    BY <2>6, Numbers DEF Expanded
  <2>8. /\ r.anchor_pos <= r.quote /\ r.quote < r.pos /\ r.pos <= Len(r.input)
        /\ r.anchor_pos <= r.pos /\ r.anchor_pos <= Len(r.input) /\ r.pos <= r.count
        /\ ~r.single_quote /\ r.double_quote
    BY <1>0, <1>1, <2>6, <2>7 DEF Expanded
  <2> QED BY <1>0, <2>2, <2>r, <2>7, <2>8 DEF CursorOk, CursorInLine, QuoteOpen
<1> QED BY <1>2, <1>3

LEMMA OpenQuotesStep == CursorOk /\ OpenQuotes => CursorOk'
<1> SUFFICES ASSUME CursorOk, OpenQuotes PROVE CursorOk'
  OBVIOUS
<1>0. /\ t.pos \in Nat /\ t.anchor_pos \in Nat /\ t.input \in Seq(Char) /\ Len(t.input) \in Nat
      /\ t.quote \in Nat /\ Typed(t) /\ tpc \in {"open", "close"} /\ status' \in 0..255
  BY Numbers DEF CursorOk, OpenQuotes
<1>1. /\ t.anchor_pos <= t.pos /\ t.pos <= Len(t.input)
      /\ ~ (t.single_quote /\ t.double_quote)
      /\ QuoteOpen => t.anchor_pos <= t.quote /\ t.quote < t.pos
  BY <1>0 DEF CursorOk, CursorInLine
<1> DEFINE closing == {k \in t.pos..Len(t.input) :
                         /\ At(t, k) = (IF t.single_quote THEN "'" ELSE DQuote)
                         /\ At(t, k - 1) # "\\"}
<1>e. PICK ends : ends = closing
  OBVIOUS
<1>m. PICK m : m = Min(ends \cup {Len(t.input)})
  OBVIOUS
<1>c. PICK c : c = [t EXCEPT !.pos = m]
  OBVIOUS
<1>d. PICK done : done = CASE ~QuoteOpen                     -> t
                           [] QuoteOpen /\ ends = {}         -> c
                           [] t.single_quote /\ ends # {} -> HandleSingleQuote(c)
                           [] OTHER                       -> HandleDoubleQuote(c)
  OBVIOUS
<1>2. /\ t' = [done EXCEPT !.continue_var = FALSE]
      /\ tpc' = IF done.continue_var THEN "tail" ELSE "var"
  BY <1>e, <1>m, <1>c, <1>d, Zenon DEF OpenQuotes
<1>3. /\ m \in Nat /\ t.pos <= m /\ m <= Len(t.input)
      /\ ends # {} => m < Len(t.input)
      /\ ends = {} => m = Len(t.input)
  <2>1. closing \subseteq Nat /\ Len(t.input) \in Nat /\ \A k \in closing : t.pos <= k /\ k <= Len(t.input)
    BY <1>0
  <2>2. ends \cup {Len(t.input)} \subseteq Nat /\ ends \cup {Len(t.input)} # {}
    BY <1>0, <1>e, <2>1
  <2>3. m \in ends \cup {Len(t.input)} /\ \A y \in ends \cup {Len(t.input)} : m <= y
    BY <1>m, <2>2, MinIsLeast
  <2>4. \A k \in closing : k < Len(t.input)
    <3> SUFFICES ASSUME NEW k \in closing PROVE k < Len(t.input)
      OBVIOUS
    <3>1. At(t, k) # NUL
      BY NulIsNone
    <3>2. k \in 0..Len(t.input) - 1
      BY <1>0, <3>1, AtEnd
    <3> QED BY <1>0, <3>2
  <2>5. \A k \in ends : t.pos <= k /\ k < Len(t.input) /\ k \in Nat
    BY <1>e, <2>1, <2>4
  <2> HIDE DEF closing
  <2>6. CASE ends = {}
    BY <1>0, <1>1, <2>3, <2>6
  <2>7. CASE ends # {}
    <3>1. PICK k \in ends : TRUE
      BY <2>7
    <3>2. m <= k /\ k < Len(t.input) /\ k \in Nat /\ m \in Nat
      BY <2>2, <2>3, <2>5, <3>1
    <3>3. m < Len(t.input)
      BY <1>0, <3>2
    <3>4. m \in ends
      BY <1>0, <2>3, <3>3
    <3> QED BY <1>0, <2>5, <2>7, <3>2, <3>3, <3>4
  <2> QED BY <2>6, <2>7
<1> HIDE DEF closing
<1>4. /\ Walks(t, c) /\ c.pos = m /\ c.anchor_pos = t.anchor_pos /\ c.quote = t.quote
      /\ Typed(c) /\ c.input = t.input
      /\ c.single_quote = t.single_quote /\ c.double_quote = t.double_quote
  BY <1>0, <1>3, <1>c, CursorMoves DEF Walks
<1>5. /\ Typed(done) /\ Inside(done) /\ ~ (done.single_quote /\ done.double_quote)
      /\ done.single_quote \/ done.double_quote => done.pos >= Len(done.input)
  <2>1. CASE ~t.single_quote /\ ~t.double_quote
    <3>1. done = t
      <4>1. ~QuoteOpen /\ ~ (t.single_quote /\ ends # {})
        BY <2>1 DEF QuoteOpen
      <4> QED BY <1>d, <4>1
    <3> QED BY <1>0, <1>1, <2>1, <3>1 DEF Inside
  <2>2. CASE (t.single_quote \/ t.double_quote) /\ ends = {}
    <3>1. done = c
      <4>1. QuoteOpen /\ ends = {}
        BY <2>2 DEF QuoteOpen
      <4> QED BY <1>d, <4>1
    <3>2. c.anchor_pos <= c.pos /\ c.pos <= Len(c.input) /\ c.pos >= Len(c.input)
      BY <1>0, <1>1, <1>3, <1>4, <2>2
    <3> QED BY <1>1, <1>4, <3>1, <3>2 DEF Inside
  <2>3. CASE (t.single_quote \/ t.double_quote) /\ ends # {}
    <3>1. c.anchor_pos <= c.quote /\ c.quote < c.pos /\ c.pos < Len(c.input)
      BY <1>0, <1>1, <1>3, <1>4, <2>3 DEF QuoteOpen
    <3>2. CASE t.single_quote
      <4>1. done = HandleSingleQuote(c)
        <5>1. QuoteOpen /\ ends # {}
          BY <2>3 DEF QuoteOpen
        <5> QED BY <1>d, <3>2, <5>1
      <4>2. /\ Typed(done) /\ Inside(done) /\ done.double_quote = c.double_quote
            /\ done.single_quote = FALSE
        BY <1>4, <3>1, <4>1, SingleQuoteLands
      <4>3. ~done.double_quote /\ ~done.single_quote
        BY <1>1, <1>4, <3>2, <4>2
      <4> QED BY <4>2, <4>3
    <3>3. CASE ~t.single_quote
      <4>1. done = HandleDoubleQuote(c)
        <5>1. QuoteOpen /\ ends # {}
          BY <2>3 DEF QuoteOpen
        <5> QED BY <1>d, <3>3, <5>1
      <4>2. /\ Typed(done) /\ Inside(done) /\ done.single_quote = c.single_quote
            /\ done.double_quote = FALSE
        BY <1>4, <3>1, <4>1, DoubleQuoteLands
      <4>3. ~done.double_quote /\ ~done.single_quote
        BY <1>4, <3>3, <4>2
      <4> QED BY <4>2, <4>3
    <3> QED BY <3>2, <3>3
  <2> QED BY <2>1, <2>2, <2>3
<1>r. PICK r : r = [done EXCEPT !.continue_var = FALSE]
  OBVIOUS
<1>6. /\ Typed(r) /\ r.pos = done.pos /\ r.anchor_pos = done.anchor_pos /\ r.input = done.input
      /\ r.single_quote = done.single_quote /\ r.double_quote = done.double_quote
  BY <1>5, <1>r, FieldNames DEF Typed
<1>7. tpc' \in {"tail", "var"}
  BY <1>2
<1>8. r.pos \in Nat /\ r.anchor_pos \in Nat /\ Len(r.input) \in Nat
  BY <1>6, Numbers
<1>9. /\ r.anchor_pos <= r.pos /\ r.pos <= Len(r.input) /\ r.pos <= Len(r.input) + 1
      /\ r.anchor_pos <= Len(r.input)
  BY <1>5, <1>6, <1>8 DEF Inside
<1> QED BY <1>0, <1>2, <1>r, <1>5, <1>6, <1>7, <1>9 DEF CursorOk, CursorInLine, QuoteOpen

LEMMA ReadVarStep == CursorOk /\ env \in Lists /\ ReadVar => CursorOk'
<1> SUFFICES ASSUME CursorOk, env \in Lists, ReadVar PROVE CursorOk'
  OBVIOUS
<1>0. /\ t.pos \in Nat /\ t.anchor_pos \in Nat /\ t.input \in Seq(Char) /\ Len(t.input) \in Nat
      /\ Typed(t) /\ tpc = "var" /\ status \in 0..255 /\ status' \in 0..255
  BY Numbers DEF CursorOk, ReadVar
<1>1. /\ t.anchor_pos <= t.pos /\ t.pos <= Len(t.input) /\ t.anchor_pos <= Len(t.input)
      /\ ~ (t.single_quote /\ t.double_quote)
      /\ t.single_quote \/ t.double_quote => t.pos >= Len(t.input)
  BY <1>0 DEF CursorOk, CursorInLine, QuoteOpen
<1>c. PICK c : c = At(t, t.pos)
  OBVIOUS
<1>r. PICK r : r = t'
  OBVIOUS
<1>2. /\ r = IF c = "$" /\ ~t.single_quote THEN IsVar(t) ELSE t
      /\ tpc' = IF ~InLine \/ (c = "$" /\ At(r, r.pos) = "'") THEN "tail" ELSE "meta"
  BY <1>c, <1>r DEF ReadVar
<1>3. c = "$" => t.pos < Len(t.input) /\ ~t.single_quote /\ ~t.double_quote
  <2>1. NUL # "$"
    BY NulIsNone
  <2>2. c = "$" => t.pos < Len(t.input)
    <3>1. c # NUL => t.pos < Len(t.input)
      BY <1>0, <1>c, AtEnd
    <3> QED BY <2>1, <3>1
  <2> QED BY <1>0, <1>1, <2>2
<1>4. tpc' \in {"tail", "meta"} /\ (tpc' = "meta" => t.pos < Len(t.input))
  BY <1>0, <1>2, InLineIs
<1>5. CASE c # "$"
  <2>1. r = t
    BY <1>2, <1>5
  <2>2. tpc' = "meta" => ~t.single_quote /\ ~t.double_quote
    BY <1>0, <1>1, <1>4
  <2>3. t.pos <= Len(t.input) + 1
    BY <1>0, <1>1
  <2> QED BY <1>0, <1>1, <1>r, <1>4, <2>1, <2>2, <2>3 DEF CursorOk, CursorInLine, QuoteOpen
<1>6. CASE c = "$"
  <2>1. r = IsVar(t)
    BY <1>2, <1>3, <1>6
  <2>2. VarLands(t, r)
    BY <1>0, <1>1, <1>c, <1>3, <1>6, <2>1, IsVarLands
  <2>3. /\ Typed(r) /\ r.anchor_pos <= r.pos /\ r.anchor_pos <= Len(r.input)
        /\ ~r.single_quote /\ ~r.double_quote
    BY <1>3, <1>6, <2>2 DEF VarLands
  <2>4. r.pos \in Nat /\ r.input \in Seq(Char) /\ Len(r.input) \in Nat
    BY <2>3, Numbers
  <2>5. tpc' = "tail" => r.pos <= Len(r.input) + 1
    <3>1. SUFFICES ASSUME tpc' = "tail" PROVE r.pos <= Len(r.input) + 1
      OBVIOUS
    <3>2. InLine
      BY <1>0, <1>3, <1>6, InLineIs
    <3>3. At(r, r.pos) = "'" /\ NUL # "'"
      BY <1>2, <3>1, <3>2, NulIsNone
    <3>4. r.pos \in 0..Len(r.input) - 1
      BY <2>4, <3>3, AtEnd
    <3> QED BY <2>4, <3>4
  <2> QED BY <1>0, <1>r, <1>4, <2>3, <2>5 DEF CursorOk, CursorInLine, QuoteOpen
<1> QED BY <1>5, <1>6

LEMMA ReadMetaStep == CursorOk /\ ReadMeta => CursorOk'
<1> SUFFICES ASSUME CursorOk, ReadMeta PROVE CursorOk'
  OBVIOUS
<1>r. PICK r : r = Metacharacters(t)
  OBVIOUS
<1>0. Typed(t) /\ tpc = "meta" /\ tpc' = "tail" /\ status' \in 0..255 /\ t' = r
  BY <1>r DEF CursorOk, ReadMeta
<1>1. /\ t.anchor_pos <= t.pos /\ t.anchor_pos <= Len(t.input)
      /\ ~t.single_quote /\ ~t.double_quote
  BY <1>0 DEF CursorOk, CursorInLine, QuoteOpen
<1>2. /\ Walks(t, r) /\ r.anchor_pos <= r.pos /\ r.anchor_pos <= Len(t.input)
      /\ r.pos <= Len(t.input) + 1
  BY <1>0, <1>1, <1>r, MetaLands
<1> QED BY <1>0, <1>1, <1>2 DEF CursorOk, CursorInLine, QuoteOpen, Walks

LEMMA ReadTailStep == CursorOk /\ ReadTail => CursorOk'
<1> SUFFICES ASSUME CursorOk, ReadTail PROVE CursorOk'
  OBVIOUS
<1>r. PICK r : r = LastWord(t)
  OBVIOUS
<1>0. Typed(t) /\ tpc = "tail" /\ tpc' = "loop" /\ status' \in 0..255 /\ t' = r
  BY <1>r DEF CursorOk, ReadTail
<1>1. /\ t.anchor_pos <= t.pos /\ t.anchor_pos <= Len(t.input) /\ t.pos <= Len(t.input) + 1
      /\ ~ (t.single_quote /\ t.double_quote)
      /\ t.single_quote \/ t.double_quote => t.pos >= Len(t.input)
  BY <1>0 DEF CursorOk, CursorInLine, QuoteOpen
<1>2. /\ Walks(t, r) /\ r.pos = t.pos /\ r.anchor_pos <= t.pos /\ r.anchor_pos <= Len(t.input)
  BY <1>0, <1>1, <1>r, LastWordLands
<1> QED BY <1>0, <1>1, <1>2 DEF CursorOk, CursorInLine, QuoteOpen, Walks

LEMMA SetMetacharTypeType ==
  ASSUME NEW token \in [type : TokenTypes, value : Seq(Char)]
  PROVE  SetMetacharType(token) \in [type : TokenTypes, value : Seq(Char)]
<1>1. PICK type : type = CASE token.value[1] = "|"                               -> "PIPE"
                           [] token.value = <<"<", "<">>                         -> "DLESS"
                           [] token.value[1] = "<" /\ token.value # <<"<", "<">> -> "LESS"
                           [] token.value = <<">", ">">>                         -> "DGREAT"
                           [] OTHER                                              -> "GREAT"
  OBVIOUS
<1>2. type \in {"PIPE", "DLESS", "LESS", "DGREAT", "GREAT"}
  BY <1>1
<1>3. type \in TokenTypes
  BY <1>2 DEF TokenTypes, Redirection
<1>4. SetMetacharType(token) \in {token, [token EXCEPT !.type = type]}
  BY <1>1 DEF SetMetacharType
<1> QED BY <1>3, <1>4

LEMMA EndTokensStep == CursorOk /\ EndTokens => CursorOk'
<1> SUFFICES ASSUME CursorOk, EndTokens PROVE CursorOk'
  OBVIOUS
<1>s. PICK s : s = LastWord(t)
  OBVIOUS
<1>l. PICK list : list = IF Fails THEN <<>> ELSE [i \in DOMAIN s.list |-> SetMetacharType(s.list[i])]
  OBVIOUS
<1>r. PICK r : r = [s EXCEPT !.list = list]
  OBVIOUS
<1>0. Typed(t) /\ tpc = "loop" /\ tpc' = "done" /\ status' \in 0..255
  BY DEF CursorOk, EndTokens
<1>1. t' = r
  BY <1>s, <1>l, <1>r DEF EndTokens
<1>2. /\ t.anchor_pos <= t.pos /\ t.anchor_pos <= Len(t.input)
      /\ ~ (t.single_quote /\ t.double_quote)
  BY <1>0 DEF CursorOk, CursorInLine
<1>3. /\ Walks(t, s) /\ s.pos = t.pos /\ s.anchor_pos <= t.pos /\ s.anchor_pos <= Len(t.input)
  BY <1>0, <1>2, <1>s, LastWordLands
<1> DEFINE T == [type : TokenTypes, value : Seq(Char)]
<1>4. list \in Seq(T)
  <2>1. s.list \in Seq(T)
    BY <1>3 DEF Walks, Typed
  <2> HIDE DEF T
  <2>2. PICK old \in Seq(T) : old = s.list
    BY <2>1
  <2>3. \A i \in DOMAIN old : SetMetacharType(old[i]) \in T
    <3> SUFFICES ASSUME NEW i \in DOMAIN old PROVE SetMetacharType(old[i]) \in T
      OBVIOUS
    <3>1. PICK token : token = old[i]
      OBVIOUS
    <3>2. token \in T
      BY <3>1
    <3>3. SetMetacharType(token) \in T
      BY <3>2, SetMetacharTypeType DEF T
    <3> QED BY <3>1, <3>3
  <2>4. [i \in DOMAIN old |-> SetMetacharType(old[i])] \in Seq(T)
    BY <2>2, <2>3
  <2>5. <<>> \in Seq(T)
    OBVIOUS
  <2> QED BY <1>l, <2>2, <2>4, <2>5
<1>5. /\ Typed(r) /\ r.pos = s.pos /\ r.anchor_pos = s.anchor_pos /\ r.input = s.input
      /\ r.single_quote = s.single_quote /\ r.double_quote = s.double_quote
  BY <1>3, <1>4, <1>r, FieldNames DEF Typed, Walks
<1> QED BY <1>0, <1>1, <1>2, <1>3, <1>5 DEF CursorOk, CursorInLine, Walks

LEMMA TokenizeStep == CursorOk /\ env \in Lists /\ Tokenize => CursorOk'
BY ReadQuotesStep, CheckVarStep, OpenQuotesStep, ReadVarStep, ReadMetaStep, ReadTailStep,
   EndTokensStep DEF Tokenize

----------------------------------------------------------------------------
(* The word that is put together from pieces.                              *)

\* The anchor is on a character of a word.
OnWord(s) == At(s, s.anchor_pos) \notin {Space, NUL}

\* If a piece is held back, the line goes on with the word.
Held(s) == s.tmp_token # None => s.pos <= Len(s.input) /\ OnWord(s)

\* No blanks are skipped on the way to it.
LEMMA SkipsNoBlanks ==
  ASSUME NEW s, Typed(s), s.anchor_pos <= Len(s.input), OnWord(s)
  PROVE  SkipOver(s, s.anchor_pos, {Space}) = s.anchor_pos
<1>1. PICK m : m = SkipOver(s, s.anchor_pos, {Space})
  OBVIOUS
<1>2. s.anchor_pos \in Nat /\ s.input \in Seq(Char)
  BY Numbers
<1>3. m \in Nat /\ s.anchor_pos <= m /\ \A k \in s.anchor_pos..m - 1 : At(s, k) \in {Space}
  <2>1. NUL \notin {Space}
    BY NulIsNone
  <2> QED BY <1>1, <1>2, <2>1, SkipOverStops
<1>4. m = s.anchor_pos
  <2> SUFFICES ASSUME s.anchor_pos < m PROVE FALSE
    BY <1>2, <1>3
  <2>1. s.anchor_pos \in s.anchor_pos..m - 1
    BY <1>2, <1>3
  <2>2. At(s, s.anchor_pos) = Space
    BY <1>3, <2>1
  <2> QED BY <2>2 DEF OnWord
<1> QED BY <1>1, <1>4

LEMMA WordBegins ==
  ASSUME NEW s, Typed(s), s.anchor_pos <= s.pos, s.pos <= Len(s.input), OnWord(s)
  PROVE  Begins(s) = s.anchor_pos
<1>1. s.anchor_pos \in Nat /\ s.pos \in Nat /\ Len(s.input) \in Nat /\ s.anchor_pos <= Len(s.input)
  BY Numbers
<1>2. SkipOver(s, s.anchor_pos, {Space}) = s.anchor_pos
  BY <1>1, SkipsNoBlanks
<1>3. Max({s.pos, s.anchor_pos}) = s.pos
  <2>1. s.pos \in Nat /\ s.anchor_pos \in Nat
    BY <1>1
  <2>2. Max({s.pos, s.anchor_pos}) = IF s.pos <= s.anchor_pos THEN s.anchor_pos ELSE s.pos
    BY <2>1, MinOfTwo
  <2> QED BY <2>1, <2>2
<1>4. Min({s.anchor_pos, s.pos}) = s.anchor_pos
  BY <1>1, MinOfTwo
<1> QED BY <1>2, <1>3, <1>4 DEF Begins

\* What the list of tokens is given leaves no piece that was not there.
LEMMA PieceGoes ==
  ASSUME NEW s, Typed(s), NEW text
  PROVE  LastStr(s, text).tmp_token = None
<1>1. PICK c : c = AddCustomToken(s, s.tmp_token \o text, "WORD")
  OBVIOUS
<1>2. DOMAIN c = Fields
  BY <1>1, AddCustomTokenKeeps DEF Typed, KeepsFlags, KeepsError
<1>3. LastStr(s, text) = [c EXCEPT !.tmp_token = None]
  BY <1>1 DEF LastStr
<1> QED BY <1>2, <1>3, FieldNames

LEMMA PieceStays ==
  ASSUME NEW s, Typed(s), NEW value, NEW type
  PROVE  AddCustomToken(s, value, type).tmp_token = s.tmp_token
<1>1. PICK l : l = Append(s.list, Token(type, value))
  OBVIOUS
<1>2. AddCustomToken(s, value, type) = [s EXCEPT !.list = l]
  BY <1>1 DEF AddCustomToken
<1> QED BY <1>2, FieldNames DEF Typed

\* add_token() finishes a word whose rest lies between the anchor and the cursor,
\* and never holds a piece back.
LEMMA AddTokenFinishes ==
  ASSUME NEW s, Typed(s), s.anchor_pos <= s.pos, s.pos <= Len(s.input)
  PROVE  /\ AddToken(s).tmp_token \in {s.tmp_token, None}
         /\ OnWord(s) /\ s.anchor_pos < s.pos => AddToken(s).tmp_token = None
<1>f. PICK from : from = Begins(s)
  OBVIOUS
<1>u. PICK up : up = IF from = s.pos /\ At(s, from) \in Angle THEN s.pos + 1 ELSE s.pos
  OBVIOUS
<1>x. PICK text : text = Text(s, from, up)
  OBVIOUS
<1>m. PICK mv : mv = [s EXCEPT !.anchor_pos = up, !.pos = up]
  OBVIOUS
<1>y. PICK type : type = IF text[1] \in Angle \cup {"|"} THEN "METACHAR" ELSE "WORD"
  OBVIOUS
<1>1. s.pos \in Nat /\ s.anchor_pos \in Nat /\ Len(s.input) \in Nat
  BY Numbers
<1>2. up \in Nat
  BY <1>1, <1>u
<1>3. Typed(mv) /\ mv.tmp_token = s.tmp_token
  BY <1>2, <1>m, FieldNames DEF Typed
<1> DEFINE angles == (from = s.pos /\ At(s, from) \in Angle) /\ At(s, s.pos + 1) \in Angle
           blank  == up = from \/ At(s, from) = Space
<1>4. AddToken(s) =
        IF angles THEN [s EXCEPT !.anchor_pos = from]
        ELSE IF blank THEN [mv EXCEPT !.anchor_pos = from + 1]
        ELSE IF s.tmp_token # None THEN LastStr(mv, text)
        ELSE [AddCustomToken(mv, text, type) EXCEPT !.pos = s.pos]
  <2>1. ~ (s.pos > Len(s.input))
    BY <1>1
  <2> QED BY <1>f, <1>u, <1>x, <1>m, <1>y, <2>1 DEF AddToken, Begins
<1>5. LastStr(mv, text).tmp_token = None
  BY <1>3, PieceGoes
<1>6. [AddCustomToken(mv, text, type) EXCEPT !.pos = s.pos].tmp_token = s.tmp_token
  <2>1. PICK c : c = AddCustomToken(mv, text, type)
    OBVIOUS
  <2>2. c.tmp_token = s.tmp_token /\ DOMAIN c = Fields
    <3>1. c.tmp_token = mv.tmp_token
      <4>1. AddCustomToken(mv, text, type).tmp_token = mv.tmp_token
        BY <1>3, PieceStays
      <4> QED BY <2>1, <4>1
    <3>2. DOMAIN mv = Fields
      BY <1>3 DEF Typed
    <3>3. KeepsFlags(mv, c)
      BY <2>1, <3>2, AddCustomTokenKeeps
    <3> QED BY <1>3, <3>1, <3>3 DEF KeepsFlags, KeepsError
  <2> QED BY <2>1, <2>2, FieldNames
<1>7. [s EXCEPT !.anchor_pos = from].tmp_token = s.tmp_token
  BY FieldNames DEF Typed
<1>8. [mv EXCEPT !.anchor_pos = from + 1].tmp_token = s.tmp_token
  BY <1>3, FieldNames DEF Typed
<1>9. ASSUME OnWord(s), s.anchor_pos < s.pos PROVE ~angles /\ ~blank
  <2>1. from = s.anchor_pos
    BY <1>9, <1>f, WordBegins
  <2>2. from # s.pos
    BY <1>1, <1>9, <2>1
  <2>3. up = s.pos /\ At(s, from) # Space
    BY <1>9, <1>u, <2>1, <2>2 DEF OnWord
  <2> QED BY <2>2, <2>3
<1> HIDE DEF angles, blank
<1>10. AddToken(s).tmp_token \in {s.tmp_token, None}
  BY <1>4, <1>5, <1>6, <1>7, <1>8
<1>11. OnWord(s) /\ s.anchor_pos < s.pos => AddToken(s).tmp_token = None
  BY <1>4, <1>5, <1>6, <1>9
<1> QED BY <1>10, <1>11

LEMMA PieceFinished ==
  ASSUME NEW s, Typed(s), s.anchor_pos <= s.pos, s.pos <= Len(s.input),
         s.tmp_token # None => OnWord(s) /\ s.anchor_pos < s.pos
  PROVE  AddToken(s).tmp_token = None
BY AddTokenFinishes

\* What metacharacters() does to a piece: it is finished, or the line is refused,
\* or there was no metacharacter.
Drops(s, r) == r.tmp_token # None => r = s \/ r.error

LEMMA SpaceDrops ==
  ASSUME NEW s, Typed(s), Held(s), s.anchor_pos <= s.pos, s.pos < Len(s.input),
         At(s, s.pos) = Space
  PROVE  AddToken(s).tmp_token = None
<1>1. s.pos \in Nat /\ s.anchor_pos \in Nat /\ Len(s.input) \in Nat
  BY Numbers
<1>2. s.pos <= Len(s.input)
  BY <1>1
<1>3. ASSUME s.tmp_token # None PROVE OnWord(s) /\ s.anchor_pos < s.pos
  <2>1. OnWord(s)
    BY <1>3 DEF Held
  <2>2. s.anchor_pos # s.pos
    BY <2>1 DEF OnWord
  <2> QED BY <1>1, <2>1, <2>2
<1> QED BY <1>2, <1>3, PieceFinished

LEMMA OneLessMoreDrops ==
  ASSUME NEW s, Typed(s), Held(s), s.anchor_pos <= s.pos, s.pos < Len(s.input)
  PROVE  OneLessMore(s).tmp_token = None
<1>0. s.pos \in Nat /\ s.anchor_pos \in Nat /\ Len(s.input) \in Nat
  BY Numbers
<1>p. PICK p \in Nat : p = IF s.pos = s.anchor_pos THEN s.pos + 1 ELSE s.pos
  BY <1>0
<1>b. PICK b : b = [s EXCEPT !.pos = p]
  OBVIOUS
<1>1. OneLessMore(s) = AddToken(b)
  BY <1>p, <1>b DEF OneLessMore
<1>2. /\ Typed(b) /\ b.input = s.input /\ b.pos = p /\ b.anchor_pos = s.anchor_pos
      /\ b.tmp_token = s.tmp_token
  BY <1>b, FieldNames DEF Typed
<1>3. b.anchor_pos < b.pos /\ b.anchor_pos <= b.pos /\ b.pos <= Len(b.input)
  BY <1>0, <1>p, <1>2
<1>4. b.tmp_token # None => OnWord(b)
  BY <1>2 DEF Held, OnWord, At
<1>5. AddToken(b).tmp_token = None
  BY <1>2, <1>3, <1>4, PieceFinished
<1> QED BY <1>1, <1>5

LEMMA TwoLessMoreDrops ==
  ASSUME NEW s, Typed(s), Held(s), s.anchor_pos <= s.pos, s.pos + 2 <= Len(s.input),
         At(s, s.pos) \in Angle
  PROVE  TwoLessMore(s).tmp_token = None
<1>0. /\ s.pos \in Nat /\ s.anchor_pos \in Nat /\ Len(s.input) \in Nat /\ s.input \in Seq(Char)
      /\ s.anchor_pos <= Len(s.input)
  BY Numbers
<1>m. PICK m : m = SkipOver(s, s.anchor_pos, {Space})
  OBVIOUS
<1>1. /\ m \in Nat /\ m <= s.pos
      /\ s.tmp_token # None => m = s.anchor_pos /\ At(s, m) \notin {Space, NUL}
  <2>1. NUL \notin {Space} /\ Space \notin Angle
    BY NulIsNone, Distinct
  <2>2. m \in Nat /\ s.anchor_pos <= m /\ \A k \in s.anchor_pos..m - 1 : At(s, k) \in {Space}
    BY <1>0, <1>m, <2>1, SkipOverStops
  <2>3. m <= s.pos
    <3> SUFFICES ASSUME s.pos < m PROVE FALSE
      BY <1>0, <2>2
    <3>1. s.pos \in s.anchor_pos..m - 1
      BY <1>0, <2>2
    <3> QED BY <2>1, <2>2, <3>1
  <2>4. ASSUME s.tmp_token # None PROVE m = s.anchor_pos /\ At(s, m) \notin {Space, NUL}
    <3>1. OnWord(s)
      BY <2>4 DEF Held
    <3>2. m = s.anchor_pos
      BY <1>0, <1>m, <3>1, SkipsNoBlanks
    <3> QED BY <3>1, <3>2 DEF OnWord
  <2> QED BY <2>2, <2>3, <2>4
<1>a. PICK a : a = [s EXCEPT !.anchor_pos = m]
  OBVIOUS
<1>2. /\ Typed(a) /\ a.input = s.input /\ a.pos = s.pos /\ a.anchor_pos = m
      /\ a.tmp_token = s.tmp_token
  BY <1>1, <1>a, FieldNames DEF Typed
<1>t. PICK text : text = Text(a, m, s.pos)
  OBVIOUS
<1>c. PICK c : c = AddCustomToken(a, text, "WORD")
  OBVIOUS
<1>3. Stays(a, c) /\ c.tmp_token = s.tmp_token
  <2>1. text \in Seq(Char)
    <3>1. a.input \in Seq(Char) /\ s.pos <= Len(a.input)
      BY <1>0, <1>2
    <3> QED BY <1>0, <1>1, <1>t, <3>1, TextType
  <2>2. "WORD" \in TokenTypes
    BY DEF TokenTypes
  <2>3. Stays(a, c)
    BY <1>2, <1>c, <2>1, <2>2, AddCustomTokenStays
  <2>4. c.tmp_token = a.tmp_token
    BY <1>2, <1>c, PieceStays
  <2> QED BY <1>2, <2>3, <2>4
<1>w. PICK w : w = IF At(a, m) \in Angle THEN a ELSE [c EXCEPT !.anchor_pos = s.pos]
  OBVIOUS
<1>4. /\ Typed(w) /\ w.input = s.input /\ w.pos = s.pos /\ w.anchor_pos \in {m, s.pos}
      /\ w.tmp_token = s.tmp_token
  <2>1. PICK x : x = [c EXCEPT !.anchor_pos = s.pos]
    OBVIOUS
  <2>2. Typed(c) /\ c.input = s.input /\ c.pos = s.pos
    BY <1>2, <1>3 DEF Stays, Walks
  <2>3. /\ Typed(x) /\ x.input = s.input /\ x.pos = s.pos /\ x.anchor_pos = s.pos
        /\ x.tmp_token = s.tmp_token
    BY <1>0, <1>3, <2>1, <2>2, FieldNames DEF Typed
  <2>4. w \in {a, x}
    BY <1>w, <2>1
  <2> QED BY <1>2, <2>3, <2>4
<1>b. PICK b : b = [w EXCEPT !.pos = s.pos + 2]
  OBVIOUS
<1>5. /\ Typed(b) /\ b.input = s.input /\ b.pos = s.pos + 2 /\ b.anchor_pos \in {m, s.pos}
      /\ b.tmp_token = s.tmp_token
  BY <1>0, <1>4, <1>b, FieldNames DEF Typed
<1>6. b.anchor_pos < b.pos /\ b.anchor_pos <= b.pos /\ b.pos <= Len(b.input)
  BY <1>0, <1>1, <1>5
<1>7. b.tmp_token # None => OnWord(b)
  <2>1. At(s, s.pos) \notin {Space, NUL}
    BY NulIsNone, Distinct
  <2>2. At(b, b.anchor_pos) = At(s, b.anchor_pos)
    BY <1>5 DEF At
  <2> QED BY <1>1, <1>5, <2>1, <2>2 DEF OnWord
<1>d. PICK d : d = AddToken(b)
  OBVIOUS
<1>8. d.tmp_token = None /\ DOMAIN d = Fields
  <2>1. AddToken(b).tmp_token = None
    BY <1>5, <1>6, <1>7, PieceFinished
  <2>2. DOMAIN AddToken(b) = Fields
    BY <1>5, AddTokenFields DEF Typed
  <2> QED BY <1>d, <2>1, <2>2
<1>9. TwoLessMore(s) = [d EXCEPT !.anchor_pos = d.pos]
  <2>1. w = IF At(a, a.anchor_pos) \in Angle THEN a
            ELSE [AddCustomToken(a, Text(a, a.anchor_pos, a.pos), "WORD") EXCEPT !.anchor_pos = a.pos]
    BY <1>2, <1>t, <1>c, <1>w
  <2>2. b = [w EXCEPT !.pos = w.pos + 2]
    BY <1>4, <1>b
  <2> QED BY <1>m, <1>a, <1>d, <2>1, <2>2 DEF TwoLessMore
<1> QED BY <1>8, <1>9, FieldNames

LEMMA TripleMetaRefuses ==
  ASSUME NEW s, Typed(s)
  PROVE  TripleMeta(s).error
<1>1. PICK b : b = [s EXCEPT !.pos = s.pos + 2, !.error = TRUE]
  OBVIOUS
<1>2. DOMAIN b = Fields /\ b.error = TRUE
  BY <1>1, FieldNames DEF Typed
<1>3. TripleMeta(s) = AddToken(b)
  BY <1>1 DEF TripleMeta
<1>4. AddToken(b).error = b.error
  BY <1>2, AddTokenKeeps DEF KeepsFlags, KeepsError
<1> QED BY <1>2, <1>3, <1>4

LEMMA CheckPipesDrops ==
  ASSUME NEW s, Typed(s), s.anchor_pos <= s.pos, s.pos < Len(s.input), At(s, s.pos) = "|"
  PROVE  CheckPipes(s).tmp_token = None \/ CheckPipes(s).error
<1>0. s.pos \in Nat /\ s.anchor_pos \in Nat /\ s.input \in Seq(Char) /\ Len(s.input) \in Nat
  BY Numbers
<1> DEFINE back == {0} \cup {k \in 1..s.pos : At(s, k - 1) \in {Space, "|"} \cup Angle}
<1>s. PICK start : start = Max(back)
  OBVIOUS
<1>t. PICK text : text = Text(s, start, s.pos)
  OBVIOUS
<1>1. text \in Seq(Char) /\ "WORD" \in TokenTypes
  <2>1. back \subseteq 0..s.pos /\ back # {}
    BY <1>0
  <2>2. start \in back
    BY <1>0, <1>s, <2>1, MaxOfSome
  <2>3. start \in Nat /\ s.pos <= Len(s.input)
    BY <1>0, <2>1, <2>2
  <2> QED BY <1>0, <1>t, <2>3, TextType DEF TokenTypes
<1>w. PICK w : w = IF start = s.pos THEN s ELSE AddCustomToken(s, text, "WORD")
  OBVIOUS
<1>2. Typed(w) /\ w.input = s.input /\ w.pos = s.pos
  <2>1. Stays(s, AddCustomToken(s, text, "WORD"))
    BY <1>1, AddCustomTokenStays
  <2> QED BY <1>w, <2>1 DEF Stays, Walks
<1>a. PICK a : a = [w EXCEPT !.anchor_pos = s.pos]
  OBVIOUS
<1>3. Typed(a) /\ a.input = s.input /\ a.pos = s.pos /\ a.anchor_pos = s.pos
  BY <1>0, <1>2, <1>a, FieldNames DEF Typed
<1>e. PICK e : e = [a EXCEPT !.error = TRUE]
  OBVIOUS
<1>b. PICK b : b = [a EXCEPT !.pos = s.pos + 1]
  OBVIOUS
<1>4. CheckPipes(s) \in {e, AddToken(b)}
  <2>1. b = [a EXCEPT !.pos = a.pos + 1]
    BY <1>3, <1>b
  <2> QED BY <1>s, <1>t, <1>w, <1>a, <1>e, <2>1 DEF CheckPipes
<1>5. e.error = TRUE
  BY <1>3, <1>e, FieldNames DEF Typed
<1>6. Typed(b) /\ b.input = s.input /\ b.pos = s.pos + 1 /\ b.anchor_pos = s.pos
  BY <1>0, <1>3, <1>b, FieldNames DEF Typed
<1>7. b.anchor_pos < b.pos /\ b.anchor_pos <= b.pos /\ b.pos <= Len(b.input)
  BY <1>0, <1>6
<1>8. OnWord(b)
  <2>1. "|" \notin {Space, NUL}
    BY NulIsNone, Distinct
  <2> QED BY <1>6, <2>1 DEF OnWord, At
<1>9. AddToken(b).tmp_token = None
  BY <1>6, <1>7, <1>8, PieceFinished
<1> QED BY <1>4, <1>5, <1>9

LEMMA MetaDrops ==
  ASSUME NEW s, Typed(s), Held(s), s.anchor_pos <= s.pos, s.pos < Len(s.input)
  PROVE  Drops(s, MetaToken(s))
<1>0. s.pos \in Nat /\ s.anchor_pos \in Nat /\ s.input \in Seq(Char) /\ Len(s.input) \in Nat
  BY Numbers
<1>c. PICK c : c = At(s, s.pos)
  OBVIOUS
<1>c1. PICK c1 : c1 = At(s, s.pos + 1)
  OBVIOUS
<1>c2. PICK c2 : c2 = At(s, s.pos + 2)
  OBVIOUS
<1>m. PICK m : m = CASE c = Space -> AddToken(s)
                     [] c = "|" -> CheckPipes(s)
                     [] c \in Angle /\ c1 # c -> OneLessMore(s)
                     [] c \in Angle /\ c1 = c /\ c2 # c -> TwoLessMore(s)
                     [] c \in Angle /\ c1 = c /\ c2 = c -> TripleMeta(s)
                     [] OTHER -> s
  OBVIOUS
<1>1. Space \notin Angle /\ Space # "|" /\ "|" \notin Angle
  BY Distinct
<1>2. ASSUME c = Space PROVE Drops(s, m)
  <2>1. m = AddToken(s)
    BY <1>m, <1>1, <1>2
  <2>2. AddToken(s).tmp_token = None
    BY <1>c, <1>2, SpaceDrops
  <2> QED BY <2>1, <2>2 DEF Drops
<1>3. ASSUME c = "|" PROVE Drops(s, m)
  <2>1. m = CheckPipes(s)
    BY <1>m, <1>1, <1>3
  <2>2. CheckPipes(s).tmp_token = None \/ CheckPipes(s).error
    BY <1>c, <1>3, CheckPipesDrops
  <2> QED BY <2>1, <2>2 DEF Drops
<1>4. ASSUME c \in Angle /\ c1 # c PROVE Drops(s, m)
  <2>1. m = OneLessMore(s)
    BY <1>m, <1>1, <1>4
  <2>2. OneLessMore(s).tmp_token = None
    BY OneLessMoreDrops
  <2> QED BY <2>1, <2>2 DEF Drops
<1>5. ASSUME c \in Angle /\ c1 = c PROVE Drops(s, m)
  <2>1. NUL \notin Angle
    BY NulIsNone
  <2>2. s.pos + 2 <= Len(s.input)
    <3>1. At(s, s.pos + 1) # NUL
      BY <1>c1, <1>5, <2>1
    <3>2. s.pos + 1 \in Int
      BY <1>0
    <3>3. s.pos + 1 \in 0..Len(s.input) - 1
      BY <1>0, <3>1, <3>2, AtEnd
    <3> QED BY <1>0, <3>3
  <2>3. CASE c2 # c
    <3>1. m = TwoLessMore(s)
      BY <1>m, <1>1, <1>5, <2>3
    <3>2. TwoLessMore(s).tmp_token = None
      BY <1>c, <1>5, <2>2, TwoLessMoreDrops
    <3> QED BY <3>1, <3>2 DEF Drops
  <2>4. CASE c2 = c
    <3>1. m = TripleMeta(s)
      BY <1>m, <1>1, <1>5, <2>4
    <3> QED BY <3>1, TripleMetaRefuses DEF Drops
  <2> QED BY <2>3, <2>4
<1>6. ASSUME c # Space /\ c # "|" /\ c \notin Angle PROVE Drops(s, m)
  BY <1>m, <1>6 DEF Drops
<1>7. Drops(s, m)
  BY <1>2, <1>3, <1>4, <1>5, <1>6
<1>8. MetaToken(s) = m
  BY <1>m, <1>c, <1>c1, <1>c2 DEF MetaToken
<1> QED BY <1>7, <1>8

\* A piece that is still there behind metacharacters() goes on as before.
LEMMA MetaHolds ==
  ASSUME NEW s, Typed(s), Held(s), s.anchor_pos <= s.pos, s.anchor_pos <= Len(s.input)
  PROVE  ~Metacharacters(s).error => Held(Metacharacters(s))
<1>0. s.pos \in Nat /\ s.anchor_pos \in Nat /\ s.input \in Seq(Char) /\ Len(s.input) \in Nat
  BY Numbers
<1>p. PICK p : p = Min({s.pos, Len(s.input)})
  OBVIOUS
<1>1. p \in Nat /\ s.anchor_pos <= p /\ p <= Len(s.input) /\ (s.pos <= Len(s.input) => p = s.pos)
  BY <1>0, <1>p, MinOfTwo
<1>a. PICK a : a = [s EXCEPT !.pos = p]
  OBVIOUS
<1>2. /\ Typed(a) /\ a.input = s.input /\ a.pos = p /\ a.anchor_pos = s.anchor_pos
      /\ a.tmp_token = s.tmp_token
  BY <1>1, <1>a, FieldNames DEF Typed
<1>3. Held(a)
  BY <1>1, <1>2 DEF Held, OnWord, At
<1>m. PICK m : m = MetaToken(a)
  OBVIOUS
<1>d. PICK d : d = At(m, m.pos)
  OBVIOUS
<1>r. PICK r : r = IF At(a, a.pos) = NUL \/ (d \in Angle /\ At(m, m.pos - 1) # Space)
                      \/ d \in {DQuote, "'", "$"}
                   THEN m ELSE [m EXCEPT !.pos = @ + 1]
  OBVIOUS
<1>4. Metacharacters(s) = r
  <2>1. a = [s EXCEPT !.pos = Min({@, Len(s.input)})]
    BY <1>p, <1>a
  <2> QED BY <1>m, <1>d, <1>r, <2>1, Zenon DEF Metacharacters
<1>5. CASE At(a, a.pos) = NUL
  <2>1. NUL # Space /\ NUL # "|" /\ NUL \notin Angle
    BY NulIsNone
  <2>2. m = a
    BY <1>m, <1>5, <2>1, Zenon DEF MetaToken
  <2>3. r = a
    BY <1>r, <1>5, <2>2
  <2> QED BY <1>3, <1>4, <2>3
<1>6. CASE At(a, a.pos) # NUL
  <2>1. a.pos < Len(a.input) /\ a.anchor_pos <= a.pos
    <3>1. a.pos \in Int /\ a.input \in Seq(Char)
      BY <1>0, <1>1, <1>2
    <3>2. a.pos \in 0..Len(a.input) - 1
      BY <1>6, <3>1, AtEnd
    <3> QED BY <1>0, <1>1, <1>2, <3>2
  <2>2. Drops(a, m)
    BY <1>2, <1>3, <1>m, <2>1, MetaDrops
  <2>3. DOMAIN m = Fields
    BY <1>2, <1>m, <2>1, MetaFits DEF Fits, Walks, Typed
  <2>4. r.tmp_token = m.tmp_token /\ r.error = m.error
    BY <1>r, <2>3, FieldNames
  <2>5. ASSUME ~r.error, r.tmp_token # None PROVE r.pos <= Len(r.input) /\ OnWord(r)
    <3>1. m = a
      BY <2>2, <2>4, <2>5 DEF Drops
    <3>2. r = a \/ r = [a EXCEPT !.pos = a.pos + 1]
      BY <1>r, <3>1
    <3>3. r.input = a.input /\ r.anchor_pos = a.anchor_pos /\ r.pos \in {a.pos, a.pos + 1}
      BY <1>2, <3>2, FieldNames DEF Typed
    <3>4. OnWord(a)
      BY <1>3, <2>4, <2>5, <3>1 DEF Held
    <3>5. OnWord(r)
      BY <3>3, <3>4 DEF OnWord, At
    <3>6. a.pos \in Nat /\ Len(a.input) \in Nat
      BY <1>2, Numbers
    <3> QED BY <2>1, <3>3, <3>5, <3>6
  <2> QED BY <1>4, <2>5 DEF Held
<1> QED BY <1>5, <1>6

\* The last word of the line takes the piece with it.
LEMMA LastWordHolds ==
  ASSUME NEW s, Typed(s), Held(s), s.anchor_pos <= s.pos
  PROVE  /\ Held(LastWord(s))
         /\ At(s, s.pos) = NUL => LastWord(s).tmp_token = None
<1>0. s.pos \in Nat /\ s.anchor_pos \in Nat /\ s.input \in Seq(Char) /\ Len(s.input) \in Nat
  BY Numbers
<1>1. CASE s.pos = Len(s.input) /\ s.pos # s.anchor_pos
  <2>1. s.anchor_pos < s.pos /\ s.pos <= Len(s.input)
    BY <1>0, <1>1
  <2>2. AddToken(s).tmp_token = None
    BY <2>1, PieceFinished DEF Held
  <2>3. LastWord(s) = AddToken(s)
    BY <1>1 DEF LastWord
  <2> QED BY <2>2, <2>3 DEF Held
<1>2. CASE ~ (s.pos = Len(s.input) /\ s.pos # s.anchor_pos)
  <2>1. LastWord(s) = s
    BY <1>2 DEF LastWord
  <2>2. ASSUME At(s, s.pos) = NUL, s.tmp_token # None PROVE FALSE
    <3>1. OnWord(s) /\ s.pos <= Len(s.input)
      BY <2>2 DEF Held
    <3>2. s.pos \notin 0..Len(s.input) - 1
      BY <1>0, <2>2, AtEnd
    <3>3. s.pos = Len(s.input)
      BY <1>0, <3>1, <3>2
    <3>4. At(s, s.anchor_pos) # NUL
      BY <3>1 DEF OnWord
    <3>5. s.anchor_pos # s.pos
      BY <2>2, <3>4
    <3> QED BY <1>2, <3>3, <3>5
  <2> QED BY <2>1, <2>2
<1> QED BY <1>1, <1>2

\* A quote that opens is one, and the anchor stays on the word.
LEMMA QuotesHold ==
  ASSUME NEW s, Typed(s), Held(s), s.anchor_pos <= s.pos, s.pos < Len(s.input),
         ~s.single_quote, ~s.double_quote
  PROVE  /\ Held(Quotes(s)) /\ Quotes(s).input = s.input
         /\ Quotes(s).single_quote \/ Quotes(s).double_quote =>
              At(s, Quotes(s).quote) \notin {Space, NUL}
<1>0. s.pos \in Nat /\ s.anchor_pos \in Nat /\ s.input \in Seq(Char) /\ Len(s.input) \in Nat
  BY Numbers
<1>c. PICK c : c = At(s, s.pos)
  OBVIOUS
<1>r. PICK r : r = Quotes(s)
  OBVIOUS
<1>1. CASE c # "'" /\ c # DQuote
  <2>1. r = s
    BY <1>r, <1>c, <1>1 DEF Quotes
  <2> QED BY <1>r, <2>1
<1>2. CASE c = "'" \/ c = DQuote
  <2>a. PICK a : a = IF At(s, s.anchor_pos) = Space THEN s.anchor_pos + 1 ELSE s.anchor_pos
    OBVIOUS
  <2>1. \E x, y : r = [s EXCEPT !.single_quote = x, !.double_quote = y,
                                !.anchor_pos = a, !.quote = s.pos, !.pos = s.pos + 1]
    BY <1>r, <1>c, <1>2, <2>a DEF Quotes
  <2>2. /\ r.input = s.input /\ r.pos = s.pos + 1 /\ r.anchor_pos = a /\ r.quote = s.pos
        /\ r.tmp_token = s.tmp_token
    BY <2>1, FieldNames DEF Typed
  <2>3. ASSUME r.tmp_token # None PROVE r.pos <= Len(r.input) /\ OnWord(r)
    <3>1. OnWord(s)
      BY <2>2, <2>3 DEF Held
    <3>2. a = s.anchor_pos
      BY <2>a, <3>1 DEF OnWord
    <3>3. OnWord(r)
      BY <2>2, <3>1, <3>2 DEF OnWord, At
    <3> QED BY <1>0, <2>2, <3>3
  <2>4. At(s, r.quote) \notin {Space, NUL}
    BY <1>c, <1>2, <2>2, NulIsNone, Distinct
  <2> QED BY <1>r, <2>2, <2>3, <2>4 DEF Held
<1> QED BY <1>1, <1>2

\* The piece between the quotes is held back only if the word goes on behind them.
LEMMA PieceHolds ==
  ASSUME NEW s, Typed(s), At(s, s.quote) \notin {Space, NUL}
  PROVE  PrepareStr(InQuotes(s)).tmp_token # None => At(s, s.pos + 1) \notin {Space, NUL}
<1>0. s.anchor_pos \in Nat
  BY Numbers
<1>a. PICK a \in Nat : a = IF At(s, s.anchor_pos) = At(s, s.pos) THEN s.anchor_pos + 1 ELSE s.anchor_pos
  BY <1>0
<1>i. PICK i : i = [s EXCEPT !.anchor_pos = a]
  OBVIOUS
<1>1. InQuotes(s) = i
  BY <1>a, <1>i DEF InQuotes
<1>2. /\ Typed(i) /\ i.input = s.input /\ i.pos = s.pos /\ i.quote = s.quote
  BY <1>i, FieldNames DEF Typed
<1>3. At(i, i.pos + 1) = At(s, s.pos + 1) /\ At(i, i.quote) = At(s, s.quote)
  BY <1>2 DEF At
<1>t. PICK text : text = Text(i, i.anchor_pos, i.pos)
  OBVIOUS
<1>n. PICK next : next = At(i, i.pos + 1)
  OBVIOUS
<1>4. PrepareStr(i) = IF next = At(i, i.quote) \/ ~ (next \in {NUL, Space} \cup Angle) THEN TempToken(i, text)
                      ELSE IF i.tmp_token # None THEN LastStr(i, text)
                      ELSE AddCustomToken(i, text, "WORD")
  BY <1>t, <1>n DEF PrepareStr
<1>5. LastStr(i, text).tmp_token = None
  BY <1>2, PieceGoes
<1>6. AddCustomToken(i, text, "WORD").tmp_token = i.tmp_token
  BY <1>2, PieceStays
<1>7. ASSUME next \in {Space, NUL} PROVE PrepareStr(i).tmp_token = None
  <2>1. ~ (next = At(i, i.quote) \/ ~ (next \in {NUL, Space} \cup Angle))
    BY <1>3, <1>7
  <2> QED BY <1>4, <1>5, <1>6, <2>1
<1> QED BY <1>1, <1>3, <1>n, <1>7

\* What comes before the place where the line is cut stays, and nothing is added.
Shortens(s, line, at) ==
  /\ line \in Seq(Char) /\ at <= Len(line)
  /\ \A k \in 0..at - 1 : line[k + 1] = s.input[k + 1]
  /\ ToSet(line) \subseteq ToSet(s.input)

LEMMA CutLine ==
  ASSUME NEW s, s.input \in Seq(Char), NEW at \in Nat, NEW to \in Nat,
         at <= to, to <= Len(s.input)
  PROVE  Shortens(s, Text(s, 0, at) \o Rest(s, to), at)
<1>l. PICK line : line = Text(s, 0, at) \o Rest(s, to)
  OBVIOUS
<1>i. PICK in \in Seq(Char) : in = s.input
  OBVIOUS
<1>a. PICK a : a = SubSeq(in, 1, at)
  OBVIOUS
<1>b. PICK b : b = SubSeq(in, to + 1, Len(in))
  OBVIOUS
<1>1. /\ a \in Seq(Char) /\ Len(a) = at
      /\ \A k \in 1..at : a[k] = in[k]
  BY <1>i, <1>a
<1>2. /\ b \in Seq(Char) /\ Len(b) = Len(in) - to
      /\ \A k \in 1..Len(in) - to : b[k] = in[to + k]
  BY <1>i, <1>b
<1>3. line = a \o b
  BY <1>i, <1>a, <1>b, <1>l DEF Text, Rest
<1>4. /\ line \in Seq(Char) /\ Len(line) = Len(a) + Len(b)
      /\ \A k \in 1..Len(a) + Len(b) : line[k] = IF k <= Len(a) THEN a[k] ELSE b[k - Len(a)]
  <2>1. a \in Seq(Char) /\ b \in Seq(Char)
    BY <1>1, <1>2
  <2>2. /\ a \o b \in Seq(Char) /\ Len(a \o b) = Len(a) + Len(b)
        /\ \A k \in 1..Len(a) + Len(b) : (a \o b)[k] = IF k <= Len(a) THEN a[k] ELSE b[k - Len(a)]
    BY <2>1, ConcatProperties
  <2> QED BY <1>3, <2>2
<1>5. \A k \in 1..Len(line) : \E j \in 1..Len(in) : line[k] = in[j]
  <2> SUFFICES ASSUME NEW k \in 1..Len(line) PROVE \E j \in 1..Len(in) : line[k] = in[j]
    OBVIOUS
  <2>0. Len(in) \in Nat /\ to <= Len(in)
    BY <1>i
  <2>1. CASE k <= at
    <3>1. k \in 1..at /\ k \in 1..Len(in) /\ k \in 1..Len(a) + Len(b)
      BY <1>1, <1>2, <1>4, <2>0, <2>1
    <3> QED BY <1>1, <1>4, <2>1, <3>1
  <2>2. CASE at < k
    <3>1. /\ k \in 1..Len(a) + Len(b) /\ k - at \in 1..Len(in) - to
          /\ to + (k - at) \in 1..Len(in) /\ ~ (k <= Len(a))
      BY <1>1, <1>2, <1>4, <2>0, <2>2
    <3>2. line[k] = b[k - at]
      BY <1>1, <1>4, <3>1
    <3> QED BY <1>2, <3>1, <3>2
  <2> QED BY <2>1, <2>2
<1>6. ToSet(line) \subseteq ToSet(s.input)
  <2>1. DOMAIN line = 1..Len(line) /\ DOMAIN in = 1..Len(in)
    BY <1>4
  <2>2. \A x \in ToSet(line) : \E k \in 1..Len(line) : x = line[k]
    BY <2>1 DEF ToSet
  <2>3. \A j \in 1..Len(in) : in[j] \in ToSet(in)
    BY <2>1 DEF ToSet
  <2> SUFFICES ASSUME NEW x \in ToSet(line) PROVE x \in ToSet(in)
    BY <1>i
  <2>4. PICK k \in 1..Len(line) : x = line[k]
    BY <2>2
  <2>5. PICK j \in 1..Len(in) : line[k] = in[j]
    BY <1>5
  <2> QED BY <2>3, <2>4, <2>5
<1>7. \A k \in 0..at - 1 : line[k + 1] = s.input[k + 1]
  <2> SUFFICES ASSUME NEW k \in 0..at - 1 PROVE line[k + 1] = s.input[k + 1]
    OBVIOUS
  <2>1. k + 1 \in 1..at /\ k + 1 \in 1..Len(a) + Len(b) /\ k + 1 <= Len(a)
    BY <1>1, <1>2, <1>i
  <2> QED BY <1>1, <1>4, <1>i, <2>1
<1>8. at <= Len(line)
  BY <1>1, <1>2, <1>4, <1>i
<1> QED BY <1>4, <1>6, <1>7, <1>8, <1>l DEF Shortens

\* A pair of quotes is closed: the anchor is where the word goes on.
PutOnWord(s, r) ==
  Typed(r) /\ ToSet(r.input) \subseteq ToSet(s.input) /\ (r.tmp_token # None => OnWord(r))

\* An empty pair of quotes is cut out behind the beginning of the word.
LEMMA FirstQuoteCaseHolds ==
  ASSUME NEW s, Typed(s), Held(s), s.anchor_pos < s.quote, s.pos = s.quote + 1,
         s.pos < Len(s.input)
  PROVE  /\ ToSet(HandleFirstQuoteCase(s).input) \subseteq ToSet(s.input)
         /\ HandleFirstQuoteCase(s).tmp_token # None =>
              At(HandleFirstQuoteCase(s), s.anchor_pos) \notin {Space, NUL}
<1>0. /\ s.pos \in Nat /\ s.anchor_pos \in Nat /\ s.quote \in Nat /\ s.input \in Seq(Char)
      /\ Len(s.input) \in Nat
  BY Numbers
<1>l. PICK line : line = Text(s, 0, s.quote) \o Rest(s, s.quote + 2)
  OBVIOUS
<1>1. /\ line \in Seq(Char) /\ s.quote <= Len(line)
      /\ \A k \in 0..s.quote - 1 : line[k + 1] = s.input[k + 1]
      /\ ToSet(line) \subseteq ToSet(s.input)
  <2>1. PICK at \in Nat, to \in Nat : at = s.quote /\ to = s.quote + 2
    BY <1>0
  <2>2. s.input \in Seq(Char) /\ at <= to /\ to <= Len(s.input)
    BY <1>0, <2>1
  <2>3. Shortens(s, Text(s, 0, at) \o Rest(s, to), at)
    BY <2>1, <2>2, CutLine
  <2>4. Shortens(s, line, s.quote)
    BY <1>l, <2>1, <2>3
  <2> QED BY <2>4 DEF Shortens
<1>r. PICK r : r = HandleFirstQuoteCase(s)
  OBVIOUS
<1>2. r = [s EXCEPT !.input = line, !.pos = s.anchor_pos, !.free_input = TRUE]
  BY <1>r, <1>l DEF HandleFirstQuoteCase
<1>3. r.input = line /\ r.tmp_token = s.tmp_token
  BY <1>2, FieldNames DEF Typed
<1>4. At(r, s.anchor_pos) = At(s, s.anchor_pos)
  <2>1. s.anchor_pos \in 0..s.quote - 1
    BY <1>0
  <2>2. s.anchor_pos \in 0..Len(s.input) - 1 /\ s.anchor_pos \in 0..Len(line) - 1
    BY <1>0, <1>1
  <2> QED BY <1>1, <1>3, <2>1, <2>2 DEF At
<1> QED BY <1>r, <1>1, <1>3, <1>4 DEF Held, OnWord

LEMMA MiddleQuoteCaseHolds ==
  ASSUME NEW s, Typed(s), s.quote < s.pos, s.pos < Len(s.input)
  PROVE  HandleMiddleQuoteCase(s).tmp_token # None => At(s, s.pos + 1) \notin {Space, NUL}
<1>t. PICK text : text = Text(s, s.anchor_pos, s.quote) \o Text(s, s.quote + 1, s.pos)
  OBVIOUS
<1>e. PICK ends \in BOOLEAN : ends <=> At(s, s.pos + 1) \in {NUL, Space}
  OBVIOUS
<1>d. PICK done : done = CASE ~ends                      -> TempToken(s, text)
                           [] ends /\ s.tmp_token # None -> LastStr(s, text)
                           [] OTHER                      -> AddCustomToken(s, text, "WORD")
  OBVIOUS
<1>1. HandleMiddleQuoteCase(s) = [done EXCEPT !.pos = @ + 1]
  <2>1. ends = (At(s, s.pos + 1) \in {NUL, Space})
    BY <1>e
  <2> QED BY <1>t, <1>d, <2>1, Zenon DEF HandleMiddleQuoteCase
<1>2. DOMAIN s = Fields
  BY DEF Typed
<1>3. CASE ends /\ s.tmp_token # None
  <2>1. done = LastStr(s, text)
    BY <1>d, <1>3
  <2>2. done.tmp_token = None /\ DOMAIN done = Fields
    BY <1>2, <2>1, PieceGoes, LastStrKeeps DEF KeepsFlags, KeepsError
  <2> QED BY <1>1, <2>2, FieldNames
<1>4. CASE ends /\ s.tmp_token = None
  <2>1. done = AddCustomToken(s, text, "WORD")
    BY <1>d, <1>4
  <2>2. done.tmp_token = None
    BY <1>4, <2>1, PieceStays
  <2>3. DOMAIN done = Fields
    BY <1>2, <2>1, AddCustomTokenKeeps DEF KeepsFlags, KeepsError
  <2> QED BY <1>1, <2>2, <2>3, FieldNames
<1>5. CASE ~ends
  BY <1>e, <1>5
<1> QED BY <1>3, <1>4, <1>5

LEMMA PrepareQuotesHolds ==
  ASSUME NEW s, Typed(s), Held(s), s.anchor_pos < s.quote, s.quote < s.pos, s.pos < Len(s.input)
  PROVE  PutOnWord(s, PrepareQuotes(s))
<1>0. s.pos \in Nat /\ s.input \in Seq(Char) /\ Len(s.input) \in Nat /\ s.anchor_pos \in Nat
      /\ s.quote \in Nat /\ s.anchor_pos <= s.quote
  BY Numbers
<1>d. PICK done : done = IF s.pos = s.quote + 1 THEN HandleFirstQuoteCase(s) ELSE HandleMiddleQuoteCase(s)
  OBVIOUS
<1>1. /\ Typed(done) /\ done.pos \in Nat /\ ToSet(done.input) \subseteq ToSet(s.input)
      /\ done.tmp_token # None => At(done, done.pos) \notin {Space, NUL}
  <2>1. CASE s.pos = s.quote + 1
    <3>1. done = HandleFirstQuoteCase(s)
      BY <1>d, <2>1
    <3>2. Typed(done) /\ done.pos = s.anchor_pos
      BY <1>0, <2>1, <3>1, FirstQuoteCaseLands
    <3> QED BY <1>0, <2>1, <3>1, <3>2, FirstQuoteCaseHolds
  <2>2. CASE s.pos # s.quote + 1
    <3>1. done = HandleMiddleQuoteCase(s)
      BY <1>d, <2>2
    <3>2. Typed(done) /\ done.input = s.input /\ done.pos = s.pos + 1
      BY <3>1, MiddleQuoteCaseLands DEF Walks
    <3>3. At(done, done.pos) = At(s, s.pos + 1)
      BY <3>2 DEF At
    <3>4. done.tmp_token # None => At(s, s.pos + 1) \notin {Space, NUL}
      BY <3>1, MiddleQuoteCaseHolds
    <3> QED BY <1>0, <3>2, <3>3, <3>4
  <2> QED BY <2>1, <2>2
<1>r. PICK r : r = [done EXCEPT !.anchor_pos = done.pos]
  OBVIOUS
<1>2. /\ Typed(r) /\ r.anchor_pos = done.pos /\ r.pos = done.pos /\ r.input = done.input
      /\ r.tmp_token = done.tmp_token
  BY <1>1, <1>r, FieldNames DEF Typed
<1>3. PrepareQuotes(s) = r
  BY <1>d, <1>r DEF PrepareQuotes
<1> QED BY <1>1, <1>2, <1>3 DEF PutOnWord, OnWord, At

\* A piece whose quote the anchor stands on.
LEMMA AnchoredPieceHolds ==
  ASSUME NEW s, Typed(s), s.anchor_pos < s.pos, s.pos < Len(s.input),
         At(s, s.quote) \notin {Space, NUL}, NEW n \in Nat
  PROVE  PutOnWord(s, [PrepareStr(InQuotes(s)) EXCEPT !.anchor_pos = s.pos + 1])
         /\ PutOnWord(s, [PrepareStr(InQuotes(s)) EXCEPT !.pos = n, !.anchor_pos = s.pos + 1])
<1>0. s.pos \in Nat /\ Len(s.input) \in Nat /\ s.pos <= Len(s.input)
  BY Numbers
<1>p. PICK piece : piece = PrepareStr(InQuotes(s))
  OBVIOUS
<1>1. Typed(piece) /\ piece.input = s.input
  BY <1>0, <1>p, PieceLands DEF Walks
<1>2. piece.tmp_token # None => At(s, s.pos + 1) \notin {Space, NUL}
  BY <1>p, PieceHolds
<1>a. PICK a : a = [piece EXCEPT !.anchor_pos = s.pos + 1]
  OBVIOUS
<1>b. PICK b : b = [piece EXCEPT !.pos = n, !.anchor_pos = s.pos + 1]
  OBVIOUS
<1>3. /\ Typed(a) /\ a.input = s.input /\ a.anchor_pos = s.pos + 1 /\ a.tmp_token = piece.tmp_token
  BY <1>0, <1>1, <1>a, FieldNames DEF Typed
<1>4. /\ Typed(b) /\ b.input = s.input /\ b.anchor_pos = s.pos + 1 /\ b.tmp_token = piece.tmp_token
  BY <1>0, <1>1, <1>b, FieldNames DEF Typed
<1>5. PutOnWord(s, a)
  BY <1>2, <1>3 DEF PutOnWord, OnWord, At
<1>6. PutOnWord(s, b)
  BY <1>2, <1>4 DEF PutOnWord, OnWord, At
<1> QED BY <1>p, <1>a, <1>b, <1>5, <1>6

\* Behind a pair of quotes the piece is followed by the rest of its word.
LEMMA DoubleQuoteHolds ==
  ASSUME NEW s, Typed(s), Held(s), s.anchor_pos <= s.quote, s.quote < s.pos, s.pos < Len(s.input),
         At(s, s.quote) \notin {Space, NUL}
  PROVE  /\ Held(HandleDoubleQuote(s))
         /\ ToSet(HandleDoubleQuote(s).input) \subseteq ToSet(s.input)
<1>0. /\ s.pos \in Nat /\ s.anchor_pos \in Nat /\ s.quote \in Nat /\ Len(s.input) \in Nat
      /\ s.anchor_pos < s.pos /\ s.pos <= Len(s.input)
  BY Numbers
<1>p. PICK piece : piece = PrepareStr(InQuotes(s))
  OBVIOUS
<1>1. piece.pos = s.pos /\ DOMAIN piece = Fields
  BY <1>0, <1>p, PieceLands DEF Walks, Typed
<1>b. PICK b : b = [piece EXCEPT !.pos = @ + 1, !.anchor_pos = s.pos + 1]
  OBVIOUS
<1>2. PutOnWord(s, b)
  <2>1. PICK n \in Nat : n = s.pos + 1
    BY <1>0
  <2>2. b = [piece EXCEPT !.pos = n, !.anchor_pos = s.pos + 1]
    BY <1>1, <1>b, <2>1
  <2> QED BY <1>0, <1>p, <2>2, AnchoredPieceHolds
<1>d. PICK done : done = IF s.pos <= s.anchor_pos THEN s
                         ELSE IF s.quote # s.anchor_pos THEN PrepareQuotes(s) ELSE b
  OBVIOUS
<1>3. PutOnWord(s, done)
  <2>1. CASE s.quote # s.anchor_pos
    <3>1. done = PrepareQuotes(s)
      BY <1>0, <1>d, <2>1
    <3>2. s.anchor_pos < s.quote
      BY <1>0, <2>1
    <3> QED BY <3>1, <3>2, PrepareQuotesHolds
  <2>2. CASE s.quote = s.anchor_pos
    <3>1. done = b
      BY <1>0, <1>d, <2>2
    <3> QED BY <1>2, <3>1
  <2> QED BY <2>1, <2>2
<1>r. PICK r : r = HandleDoubleQuote(s)
  OBVIOUS
<1>v. PICK v : v = IF At(done, done.pos) = DQuote THEN ~done.continue_var ELSE done.continue_var
  OBVIOUS
<1>4. r = [done EXCEPT !.double_quote = FALSE, !.continue_var = v]
  BY <1>r, <1>p, <1>b, <1>d, <1>v DEF HandleDoubleQuote
<1>5. /\ r.input = done.input /\ r.anchor_pos = done.anchor_pos /\ r.tmp_token = done.tmp_token
  BY <1>3, <1>4, FieldNames DEF PutOnWord, Typed
<1>6. r.pos <= Len(r.input)
  BY <1>r, DoubleQuoteLands DEF Inside
<1> QED BY <1>r, <1>3, <1>5, <1>6 DEF PutOnWord, Held, OnWord, At

LEMMA SingleQuoteHolds ==
  ASSUME NEW s, Typed(s), Held(s), s.anchor_pos <= s.quote, s.quote < s.pos, s.pos < Len(s.input),
         At(s, s.quote) \notin {Space, NUL}
  PROVE  /\ Held(HandleSingleQuote(s))
         /\ ToSet(HandleSingleQuote(s).input) \subseteq ToSet(s.input)
<1>0. /\ s.pos \in Nat /\ s.anchor_pos \in Nat /\ s.quote \in Nat /\ Len(s.input) \in Nat
      /\ s.anchor_pos < s.pos /\ s.pos <= Len(s.input)
  BY Numbers
<1>b. PICK b : b = [PrepareStr(InQuotes(s)) EXCEPT !.anchor_pos = s.pos + 1]
  OBVIOUS
<1>2. PutOnWord(s, b)
  BY <1>0, <1>b, AnchoredPieceHolds
<1>d. PICK done : done = IF s.pos <= s.anchor_pos THEN s
                         ELSE IF s.quote # s.anchor_pos THEN PrepareQuotes(s) ELSE b
  OBVIOUS
<1>3. PutOnWord(s, done)
  <2>1. CASE s.quote # s.anchor_pos
    <3>1. done = PrepareQuotes(s)
      BY <1>0, <1>d, <2>1
    <3>2. s.anchor_pos < s.quote
      BY <1>0, <2>1
    <3> QED BY <3>1, <3>2, PrepareQuotesHolds
  <2>2. CASE s.quote = s.anchor_pos
    <3>1. done = b
      BY <1>0, <1>d, <2>2
    <3> QED BY <1>2, <3>1
  <2> QED BY <2>1, <2>2
<1>r. PICK r : r = HandleSingleQuote(s)
  OBVIOUS
<1>v. PICK v : v = IF At(done, done.pos) # NUL THEN done.pos + 1 ELSE done.pos
  OBVIOUS
<1>4. r = [done EXCEPT !.single_quote = FALSE, !.pos = v]
  BY <1>r, <1>b, <1>d, <1>v DEF HandleSingleQuote
<1>5. /\ r.input = done.input /\ r.anchor_pos = done.anchor_pos /\ r.tmp_token = done.tmp_token
  BY <1>3, <1>4, FieldNames DEF PutOnWord, Typed
<1>6. r.pos <= Len(r.input)
  BY <1>r, SingleQuoteLands DEF Inside
<1> QED BY <1>r, <1>3, <1>5, <1>6 DEF PutOnWord, Held, OnWord, At

LEMMA NoDollar ==
  ASSUME NEW s, s.input \in Seq(Char), "$" \notin ToSet(s.input), NEW i \in Int
  PROVE  At(s, i) # "$"
<1>1. CASE i \in 0..Len(s.input) - 1
  <2>1. i + 1 \in DOMAIN s.input
    BY <1>1
  <2>2. At(s, i) \in ToSet(s.input)
    BY <1>1, <2>1 DEF At, ToSet
  <2> QED BY <2>2
<1>2. CASE i \notin 0..Len(s.input) - 1
  BY <1>2, NulIsNone DEF At
<1> QED BY <1>1, <1>2

\* What a step of the loop has to keep.
LEMMA LoopHolds ==
  ASSUME "$" \notin ToSet(t.input)', (~t.error => Held(t))', tpc' # "done",
         (tpc \in {"open", "close"} /\ QuoteOpen => At(t, t.quote) \notin {Space, NUL})'
  PROVE  WordInHand'
BY DEF WordInHand, Held, OnWord

LEMMA ReadQuotesHolds ==
  ASSUME CursorOk, WordInHand, ReadQuotes
  PROVE  WordInHand'
<1>1. Typed(t) /\ tpc = "loop" /\ tpc' = "open" /\ ~t.error
  BY DEF CursorOk, ReadQuotes
<1>2. t.anchor_pos <= t.pos /\ t.pos < Len(t.input) /\ ~t.single_quote /\ ~t.double_quote
  <2>1. t.pos \in Nat /\ Len(t.input) \in Nat
    BY <1>1, Numbers
  <2> QED BY <1>1, <2>1, InLineIs DEF CursorOk, CursorInLine, ReadQuotes, QuoteOpen
<1>3. Held(t) /\ "$" \notin ToSet(t.input)
  BY <1>1 DEF WordInHand, Held, OnWord
<1>q. PICK q : q = Quotes(t)
  OBVIOUS
<1>4. /\ Held(q) /\ q.input = t.input
      /\ q.single_quote \/ q.double_quote => At(t, q.quote) \notin {Space, NUL}
  BY <1>1, <1>2, <1>3, <1>q, QuotesHold
<1>5. DOMAIN q = Fields
  BY <1>1, <1>q, QuotesKeeps DEF Typed, KeepsError
<1>r. PICK r : r = [q EXCEPT !.count = q.pos]
  OBVIOUS
<1>6. t' = r
  BY <1>q, <1>r DEF ReadQuotes
<1>7. /\ r.input = q.input /\ r.anchor_pos = q.anchor_pos /\ r.pos = q.pos /\ r.quote = q.quote
      /\ r.tmp_token = q.tmp_token /\ r.single_quote = q.single_quote
      /\ r.double_quote = q.double_quote
  BY <1>5, <1>r, FieldNames
<1>8. Held(r) /\ At(r, r.quote) = At(t, q.quote)
  BY <1>4, <1>7 DEF Held, OnWord, At
<1> QED BY <1>1, <1>3, <1>4, <1>6, <1>7, <1>8, LoopHolds DEF QuoteOpen

LEMMA CheckVarHolds ==
  ASSUME CursorOk, TokInv, WordInHand, CheckVar
  PROVE  WordInHand'
<1>1. /\ Typed(t) /\ tpc = "open" /\ tpc' \in {"open", "close"} /\ ~t.error
      /\ QuoteOpen
  BY DEF CursorOk, TokInv, CheckVar, QuoteOpen
<1>2. /\ Held(t) /\ "$" \notin ToSet(t.input) /\ At(t, t.quote) \notin {Space, NUL}
  BY <1>1 DEF WordInHand, Held, OnWord
<1>3. At(t, t.count) # "$"
  <2>1. t.input \in Seq(Char) /\ t.count \in Int
    BY <1>1, Numbers
  <2> QED BY <1>2, <2>1, NoDollar
<1>4. \E m : t' = t \/ t' = [t EXCEPT !.count = m]
  BY <1>3 DEF CheckVar
<1>5. /\ t'.input = t.input /\ t'.anchor_pos = t.anchor_pos /\ t'.pos = t.pos /\ t'.quote = t.quote
      /\ t'.tmp_token = t.tmp_token
  BY <1>1, <1>4, FieldNames DEF Typed
<1>6. Held(t)' /\ At(t, t.quote)' = At(t, t.quote)
  BY <1>2, <1>5 DEF Held, OnWord, At
<1> QED BY <1>1, <1>2, <1>5, <1>6, LoopHolds

LEMMA OpenQuotesHolds ==
  ASSUME CursorOk, TokInv, WordInHand, OpenQuotes
  PROVE  WordInHand'
<1>0. /\ t.pos \in Nat /\ t.anchor_pos \in Nat /\ t.input \in Seq(Char) /\ Len(t.input) \in Nat
      /\ t.quote \in Nat /\ Typed(t) /\ tpc \in {"open", "close"} /\ ~t.error
  BY Numbers DEF CursorOk, OpenQuotes, TokInv
<1>1. /\ t.anchor_pos <= t.pos /\ t.pos <= Len(t.input)
      /\ ~ (t.single_quote /\ t.double_quote)
      /\ QuoteOpen => t.anchor_pos <= t.quote /\ t.quote < t.pos
  BY <1>0 DEF CursorOk, CursorInLine
<1>2. /\ Held(t) /\ "$" \notin ToSet(t.input)
      /\ QuoteOpen => At(t, t.quote) \notin {Space, NUL}
  BY <1>0 DEF WordInHand, Held, OnWord
<1> DEFINE closing == {k \in t.pos..Len(t.input) :
                         /\ At(t, k) = (IF t.single_quote THEN "'" ELSE DQuote)
                         /\ At(t, k - 1) # "\\"}
<1>e. PICK ends : ends = closing
  OBVIOUS
<1>m. PICK m : m = Min(ends \cup {Len(t.input)})
  OBVIOUS
<1>c. PICK c : c = [t EXCEPT !.pos = m]
  OBVIOUS
<1>d. PICK done : done = CASE ~QuoteOpen                     -> t
                           [] QuoteOpen /\ ends = {}         -> c
                           [] t.single_quote /\ ends # {} -> HandleSingleQuote(c)
                           [] OTHER                       -> HandleDoubleQuote(c)
  OBVIOUS
<1>3. /\ t' = [done EXCEPT !.continue_var = FALSE]
      /\ tpc' = IF done.continue_var THEN "tail" ELSE "var"
  BY <1>e, <1>m, <1>c, <1>d, Zenon DEF OpenQuotes
<1>4. /\ m \in Nat /\ t.pos <= m /\ m <= Len(t.input)
      /\ ends # {} => m < Len(t.input)
  <2>1. \A k \in closing : k \in Nat /\ t.pos <= k /\ k < Len(t.input)
    <3> SUFFICES ASSUME NEW k \in closing PROVE k \in Nat /\ t.pos <= k /\ k < Len(t.input)
      OBVIOUS
    <3>1. At(t, k) # NUL
      BY NulIsNone
    <3>2. k \in Int
      OBVIOUS
    <3>3. k \in 0..Len(t.input) - 1
      BY <1>0, <3>1, <3>2, AtEnd
    <3> QED BY <1>0, <3>3
  <2> HIDE DEF closing
  <2>2. ends \cup {Len(t.input)} \subseteq Nat /\ ends \cup {Len(t.input)} # {}
    BY <1>0, <1>e, <2>1
  <2>3. m \in ends \cup {Len(t.input)} /\ \A y \in ends \cup {Len(t.input)} : m <= y
    BY <1>m, <2>2, MinIsLeast
  <2>4. m \in Nat /\ t.pos <= m /\ m <= Len(t.input)
    BY <1>0, <1>1, <1>e, <2>1, <2>3
  <2>5. ASSUME NEW k \in ends PROVE m < Len(t.input)
    <3>1. m <= k /\ k < Len(t.input) /\ k \in Nat
      BY <1>e, <2>1, <2>3
    <3> QED BY <1>0, <2>4, <3>1
  <2> QED BY <2>4, <2>5
<1> HIDE DEF closing
<1>5. /\ Typed(c) /\ c.input = t.input /\ c.pos = m /\ c.anchor_pos = t.anchor_pos
      /\ c.quote = t.quote /\ c.tmp_token = t.tmp_token
  BY <1>0, <1>4, <1>c, FieldNames DEF Typed
<1>6. Held(c) /\ At(c, c.quote) = At(t, t.quote)
  BY <1>2, <1>4, <1>5 DEF Held, OnWord, At
<1>7. Held(done) /\ ToSet(done.input) \subseteq ToSet(t.input) /\ DOMAIN done = Fields
  <2>1. CASE ~QuoteOpen
    <3>1. done = t
      BY <1>d, <2>1 DEF QuoteOpen
    <3> QED BY <1>0, <1>2, <3>1 DEF Typed
  <2>2. CASE QuoteOpen /\ ends = {}
    <3>1. done = c
      BY <1>d, <2>2 DEF QuoteOpen
    <3> QED BY <1>5, <1>6, <3>1 DEF Typed
  <2>3. CASE QuoteOpen /\ ends # {}
    <3>1. /\ c.anchor_pos <= c.quote /\ c.quote < c.pos /\ c.pos < Len(c.input)
          /\ At(c, c.quote) \notin {Space, NUL}
      BY <1>0, <1>1, <1>2, <1>4, <1>5, <1>6, <2>3
    <3>2. done = HandleSingleQuote(c) \/ done = HandleDoubleQuote(c)
      BY <1>d, <2>3
    <3>3. Held(done) /\ ToSet(done.input) \subseteq ToSet(c.input)
      BY <1>5, <1>6, <3>1, <3>2, SingleQuoteHolds, DoubleQuoteHolds
    <3>4. DOMAIN done = Fields
      BY <1>5, <3>2, QuoteHandlersKeep DEF Typed, KeepsError
    <3> QED BY <1>5, <3>3, <3>4
  <2> QED BY <2>1, <2>2, <2>3
<1>r. PICK r : r = [done EXCEPT !.continue_var = FALSE]
  OBVIOUS
<1>8. /\ r.input = done.input /\ r.anchor_pos = done.anchor_pos /\ r.pos = done.pos
      /\ r.tmp_token = done.tmp_token
  BY <1>7, <1>r, FieldNames
<1>9. Held(r) /\ "$" \notin ToSet(r.input)
  BY <1>2, <1>7, <1>8 DEF Held, OnWord, At
<1>10. t' = r /\ tpc' \in {"tail", "var"}
  BY <1>3, <1>r
<1> QED BY <1>9, <1>10, LoopHolds

LEMMA ReadVarHolds ==
  ASSUME CursorOk, TokInv, WordInHand, ReadVar
  PROVE  WordInHand'
<1>1. Typed(t) /\ tpc = "var" /\ tpc' \in {"tail", "meta"} /\ ~t.error
  BY DEF CursorOk, TokInv, ReadVar
<1>2. Held(t) /\ "$" \notin ToSet(t.input)
  BY <1>1 DEF WordInHand, Held, OnWord
<1>3. At(t, t.pos) # "$"
  <2>1. t.input \in Seq(Char) /\ t.pos \in Int
    BY <1>1, Numbers
  <2> QED BY <1>2, <2>1, NoDollar
<1>4. t' = t
  BY <1>3 DEF ReadVar
<1> QED BY <1>1, <1>2, <1>4, LoopHolds

LEMMA ReadMetaHolds ==
  ASSUME CursorOk, TokInv, WordInHand, ReadMeta
  PROVE  WordInHand'
<1>r. PICK r : r = Metacharacters(t)
  OBVIOUS
<1>1. Typed(t) /\ tpc = "meta" /\ tpc' = "tail" /\ ~t.error /\ t' = r
  BY <1>r DEF CursorOk, TokInv, ReadMeta
<1>2. Held(t) /\ "$" \notin ToSet(t.input)
  BY <1>1 DEF WordInHand, Held, OnWord
<1>3. t.anchor_pos <= t.pos /\ t.anchor_pos <= Len(t.input)
  BY DEF CursorOk, CursorInLine
<1>4. ~r.error => Held(r)
  BY <1>1, <1>2, <1>3, <1>r, MetaHolds
<1>5. r.input = t.input
  BY <1>1, <1>3, <1>r, MetaLands DEF Walks
<1> QED BY <1>1, <1>2, <1>4, <1>5, LoopHolds

LEMMA ReadTailHolds ==
  ASSUME CursorOk, WordInHand, ReadTail
  PROVE  WordInHand'
<1>r. PICK r : r = LastWord(t)
  OBVIOUS
<1>1. Typed(t) /\ tpc = "tail" /\ tpc' = "loop" /\ t' = r
  BY <1>r DEF CursorOk, ReadTail
<1>2. (~t.error => Held(t)) /\ "$" \notin ToSet(t.input)
  BY <1>1 DEF WordInHand, Held, OnWord
<1>3. t.anchor_pos <= t.pos /\ t.anchor_pos <= Len(t.input)
  BY DEF CursorOk, CursorInLine
<1>4. r.input = t.input /\ r.error = t.error
  BY <1>1, <1>3, <1>r, LastWordLands, LastWordKeeps DEF Walks, Typed, KeepsFlags, KeepsError
<1>5. ~r.error => Held(r)
  BY <1>1, <1>2, <1>3, <1>4, <1>r, LastWordHolds
<1> QED BY <1>1, <1>2, <1>4, <1>5, LoopHolds

\* The line is at its end, unless it is refused.
LEMMA EndTokensHolds ==
  ASSUME CursorOk, WordInHand, EndTokens
  PROVE  WordInHand'
<1>s. PICK s : s = LastWord(t)
  OBVIOUS
<1>l. PICK list : list = IF Fails THEN <<>> ELSE [i \in DOMAIN s.list |-> SetMetacharType(s.list[i])]
  OBVIOUS
<1>1. /\ Typed(t) /\ tpc = "loop" /\ tpc' = "done" /\ t' = [s EXCEPT !.list = list]
      /\ ~InLine \/ t.error
  BY <1>s, <1>l DEF CursorOk, EndTokens
<1>2. (~t.error => Held(t)) /\ "$" \notin ToSet(t.input)
  BY <1>1 DEF WordInHand, Held, OnWord
<1>3. t.anchor_pos <= t.pos /\ t.anchor_pos <= Len(t.input)
  BY DEF CursorOk, CursorInLine
<1>4. s.input = t.input /\ s.error = t.error /\ DOMAIN s = Fields
  BY <1>1, <1>3, <1>s, LastWordLands, LastWordKeeps DEF Walks, Typed, KeepsFlags, KeepsError
<1>5. ~t.error => s.tmp_token = None
  BY <1>1, <1>2, <1>3, <1>s, LastWordHolds DEF InLine
<1>6. t'.input = t.input /\ t'.error = t.error /\ t'.tmp_token = s.tmp_token
  BY <1>1, <1>4, FieldNames
<1>7. ~Fails' => t'.tmp_token = None
  BY <1>5, <1>6 DEF Fails
<1>8. "$" \notin ToSet(t'.input)
  BY <1>2, <1>6
<1> QED BY <1>1, <1>7, <1>8 DEF WordInHand

LEMMA TokenizeHolds == CursorOk /\ TokInv /\ WordInHand /\ Tokenize => WordInHand'
BY ReadQuotesHolds, CheckVarHolds, OpenQuotesHolds, ReadVarHolds, ReadMetaHolds, ReadTailHolds,
   EndTokensHolds DEF Tokenize
=============================================================================
