---------------------------- MODULE QuoteProofs -----------------------------
(***************************************************************************)
(* One pair of double quotes: what check_var makes of the text in it, step *)
(* by step, is what expand_heredoc_line makes of the same text, for any    *)
(* text whose names are read alike by both (OnePair).                      *)
(***************************************************************************)
EXTENDS Shell, TokenizerProofs

\* A text that is read from the end: what stands at i, and behind it what has been
\* made of the rest, from the place next[i] on.
Joins(f, n, piece, next) ==
  /\ f = [i \in 1..n + 1 |-> f[i]] /\ f[n + 1] = <<>>
  /\ \A i \in 1..n : f[i] = piece[i] \o f[next[i]]

\* There is such a reading, of any length.
LEMMA JoinExists ==
  ASSUME NEW n \in Nat, NEW S, NEW piece, \A i \in 1..n : piece[i] \in Seq(S),
         NEW next, \A i \in 1..n : next[i] \in i + 1..n + 1
  PROVE  \E f \in [1..n + 1 -> Seq(S)] : Joins(f, n, piece, next)
<1> DEFINE Part(f, m) == /\ f \in [n + 1 - m..n + 1 -> Seq(S)] /\ f[n + 1] = <<>>
                         /\ \A i \in n + 1 - m..n : f[i] = piece[i] \o f[next[i]]
           P == {m \in 0..n : \E f : Part(f, m)}
<1>1. 0 \in P
  <2>1. PICK f : f = [i \in n + 1..n + 1 |-> <<>>]
    OBVIOUS
  <2>2. Part(f, 0)
    <3>1. n + 1 - 0 = n + 1 /\ n + 1..n = {} /\ n + 1 \in n + 1..n + 1 /\ <<>> \in Seq(S)
      OBVIOUS
    <3> QED BY <2>1, <3>1
  <2>3. 0 \in 0..n
    OBVIOUS
  <2> QED BY <2>2, <2>3
<1>2. ASSUME NEW m \in 1..n, m - 1 \in P PROVE m \in P
  <2>1. PICK f : Part(f, m - 1)
    BY <1>2
  <2>2. PICK k \in 1..n : k = n + 1 - m /\ n + 1 - (m - 1) = k + 1
    OBVIOUS
  <2>3. /\ f \in [k + 1..n + 1 -> Seq(S)] /\ f[n + 1] = <<>>
        /\ \A i \in k + 1..n : f[i] = piece[i] \o f[next[i]]
    BY <2>1, <2>2
  <2>4. PICK g : g = [i \in k..n + 1 |-> IF i = k THEN piece[k] \o f[next[k]] ELSE f[i]]
    OBVIOUS
  <2>5. \A i \in k + 1..n + 1 : i \in k..n + 1 /\ i # k
    OBVIOUS
  <2>6. \A i \in k + 1..n + 1 : g[i] = f[i]
    BY <2>4, <2>5
  <2>7. next[k] \in k + 1..n + 1
    OBVIOUS
  <2>8. g[k] = piece[k] \o f[next[k]]
    <3>1. k \in k..n + 1
      OBVIOUS
    <3> QED BY <2>4, <3>1
  <2>9. piece[k] \o f[next[k]] \in Seq(S)
    <3>1. piece[k] \in Seq(S) /\ f[next[k]] \in Seq(S)
      BY <2>3, <2>7
    <3> QED BY <3>1, ConcatProperties
  <2>10. g \in [k..n + 1 -> Seq(S)]
    <3>1. ASSUME NEW i \in k..n + 1
          PROVE  (IF i = k THEN piece[k] \o f[next[k]] ELSE f[i]) \in Seq(S)
      <4>1. i # k => i \in k + 1..n + 1
        OBVIOUS
      <4> QED BY <2>3, <2>9, <4>1
    <3> QED BY <2>4, <3>1
  <2>11. ASSUME NEW i \in k..n PROVE g[i] = piece[i] \o g[next[i]]
    <3>1. i \in 1..n /\ next[i] \in k + 1..n + 1
      <4>1. i \in 1..n
        OBVIOUS
      <4>2. next[i] \in i + 1..n + 1
        BY <4>1
      <4> QED BY <4>1, <4>2
    <3>2. g[next[i]] = f[next[i]]
      BY <2>6, <3>1
    <3>3. CASE i = k
      BY <2>8, <3>2, <3>3
    <3>4. CASE i # k
      <4>1. i \in k + 1..n /\ i \in k + 1..n + 1
        BY <3>4
      <4>2. g[i] = f[i] /\ f[i] = piece[i] \o f[next[i]]
        BY <2>3, <2>6, <4>1
      <4> QED BY <3>2, <4>2
    <3> QED BY <3>3, <3>4
  <2>12. g[n + 1] = <<>>
    <3>1. n + 1 \in k + 1..n + 1
      OBVIOUS
    <3> QED BY <2>3, <2>6, <3>1
  <2>13. Part(g, m)
    BY <2>2, <2>10, <2>11, <2>12
  <2>14. m \in 0..n
    OBVIOUS
  <2> HIDE DEF Part
  <2> QED BY <2>13, <2>14
<1>3. \A m \in 0..n : m \in P
  <2> HIDE DEF P
  <2> QED BY <1>1, <1>2, EveryIteration
<1>4. PICK f : Part(f, n)
  <2>1. n \in 0..n
    OBVIOUS
  <2> HIDE DEF Part
  <2> QED BY <1>3, <2>1
<1>5. n + 1 - n = 1
  OBVIOUS
<1> QED BY <1>4, <1>5 DEF Joins

\* And only one.
LEMMA JoinUnique ==
  ASSUME NEW n \in Nat, NEW piece, NEW next, \A i \in 1..n : next[i] \in i + 1..n + 1,
         NEW f, Joins(f, n, piece, next), NEW g, Joins(g, n, piece, next)
  PROVE  f = g
<1> DEFINE P == {m \in 0..n : \A j \in n + 1 - m..n + 1 : f[j] = g[j]}
<1>1. 0 \in P
  <2>1. f[n + 1] = g[n + 1]
    BY DEF Joins
  <2>2. 0 \in 0..n /\ \A j \in n + 1 - 0..n + 1 : j = n + 1
    OBVIOUS
  <2> QED BY <2>1, <2>2
<1>2. ASSUME NEW m \in 1..n, m - 1 \in P PROVE m \in P
  <2>1. PICK k \in 1..n : k = n + 1 - m /\ n + 1 - (m - 1) = k + 1
    OBVIOUS
  <2>2. \A j \in k + 1..n + 1 : f[j] = g[j]
    BY <1>2, <2>1
  <2>3. f[k] = g[k]
    <3>1. next[k] \in k + 1..n + 1
      OBVIOUS
    <3>2. f[k] = piece[k] \o f[next[k]] /\ g[k] = piece[k] \o g[next[k]]
      BY DEF Joins
    <3> QED BY <2>2, <3>1, <3>2
  <2>4. \A j \in k..n + 1 : j = k \/ j \in k + 1..n + 1
    OBVIOUS
  <2>5. \A j \in k..n + 1 : f[j] = g[j]
    BY <2>2, <2>3, <2>4
  <2>6. m \in 0..n
    OBVIOUS
  <2> QED BY <2>1, <2>5, <2>6
<1>3. n \in P
  <2>1. n \in 0..n
    OBVIOUS
  <2> HIDE DEF P
  <2>2. \A m \in 0..n : m \in P
    BY <1>1, <1>2, EveryIteration
  <2> QED BY <2>1, <2>2
<1>4. \A j \in 1..n + 1 : f[j] = g[j]
  <2>1. n + 1 - n = 1
    OBVIOUS
  <2> QED BY <1>3, <2>1
<1> QED BY <1>4 DEF Joins

----------------------------------------------------------------------------
(* What a line of a heredoc expands to.                                    *)

IsMark(text, i) == text[i] = "$" /\ i < Len(text) /\ text[i + 1] = "?"
IsName(text, i) == text[i] = "$" /\ i < Len(text) /\ text[i + 1] \in Letter \cup {"_"}

PieceIn(text, i, list) ==
  IF IsMark(text, i) THEN Itoa[status]
  ELSE IF IsName(text, i)
       THEN IF NameAt(text, i) \in DOMAIN list THEN list[NameAt(text, i)] ELSE <<>>
       ELSE <<text[i]>>
PieceAt(text, i) == PieceIn(text, i, Env)
NextAt(text, i) ==
  IF IsMark(text, i) THEN i + 2 ELSE IF IsName(text, i) THEN NameEnd(text, i) ELSE i + 1

\* A name ends behind its `$', before the first character that is in no name.
LEMMA NameEndIs ==
  ASSUME NEW text \in Seq(Char), NEW i \in 1..Len(text)
  PROVE  /\ NameEnd(text, i) \in i + 1..Len(text) + 1
         /\ NameEnd(text, i) = Len(text) + 1 \/ text[NameEnd(text, i)] \notin NameChar
         /\ \A k \in i + 1..NameEnd(text, i) - 1 : text[k] \in NameChar
<1> DEFINE N == Len(text)
           ends == {k \in i + 1..N + 1 : k = N + 1 \/ text[k] \notin NameChar}
<1>1. N + 1 \in ends /\ ends \subseteq Nat
  OBVIOUS
<1>2. PICK m : m = Min(ends)
  OBVIOUS
<1>3. m \in ends /\ \A y \in ends : m <= y
  BY <1>1, <1>2, MinIsLeast
<1>4. ASSUME NEW k \in i + 1..m - 1 PROVE text[k] \in NameChar
  <2>1. k \in i + 1..N + 1 /\ ~(m <= k)
    BY <1>3
  <2>2. k \notin ends
    BY <1>3, <2>1
  <2> QED BY <2>1, <2>2
<1>5. NameEnd(text, i) = m
  BY <1>2 DEF NameEnd
<1> QED BY <1>3, <1>4, <1>5

\* Nowhere else.
LEMMA NameEndOnly ==
  ASSUME NEW text \in Seq(Char), NEW i \in 1..Len(text), NEW m \in i + 1..Len(text) + 1,
         m = Len(text) + 1 \/ text[m] \notin NameChar,
         \A k \in i + 1..m - 1 : text[k] \in NameChar
  PROVE  NameEnd(text, i) = m
<1>1. PICK e : e = NameEnd(text, i)
  OBVIOUS
<1>2. /\ e \in i + 1..Len(text) + 1
      /\ e = Len(text) + 1 \/ text[e] \notin NameChar
      /\ \A k \in i + 1..e - 1 : text[k] \in NameChar
  BY <1>1, NameEndIs
<1>3. ~(m < e)
  <2> SUFFICES ASSUME m < e PROVE FALSE
    OBVIOUS
  <2>1. m \in i + 1..e - 1 /\ m # Len(text) + 1
    BY <1>2
  <2>2. text[m] \in NameChar
    BY <1>2, <2>1
  <2> QED BY <2>1, <2>2
<1>4. ~(e < m)
  <2> SUFFICES ASSUME e < m PROVE FALSE
    OBVIOUS
  <2>1. e \in i + 1..m - 1 /\ e # Len(text) + 1
    BY <1>2
  <2>2. text[e] \in NameChar
    BY <2>1
  <2> QED BY <1>2, <2>1, <2>2
<1> QED BY <1>1, <1>2, <1>3, <1>4

\* What stands at a place is a text, and what follows begins behind it.
LEMMA PieceIs ==
  ASSUME NEW text \in Seq(Char), NEW i \in 1..Len(text), status \in 0..255,
         NEW list \in Lists \cup {Env}
  PROVE  PieceIn(text, i, list) \in Seq(Char) /\ NextAt(text, i) \in i + 1..Len(text) + 1
<1>1. NextAt(text, i) \in i + 1..Len(text) + 1
  <2>1. NameEnd(text, i) \in i + 1..Len(text) + 1
    BY NameEndIs
  <2>2. IsMark(text, i) => i < Len(text)
    BY DEF IsMark
  <2> QED BY <2>1, <2>2 DEF NextAt
<1>2. PieceIn(text, i, list) \in Seq(Char)
  <2>1. Itoa[status] \in Seq(Char)
    BY ItoaType
  <2>2. \A name \in DOMAIN list : list[name] \in Seq(Char)
    BY ValueType
  <2>3. <<>> \in Seq(Char) /\ <<text[i]>> \in Seq(Char)
    OBVIOUS
  <2> QED BY <2>1, <2>2, <2>3 DEF PieceIn
<1> QED BY <1>1, <1>2

\* The function that expand_heredoc_line computes from the end of the line.
LEMMA ExpandJoins ==
  ASSUME NEW text \in Seq(Char), status \in 0..255, NEW list \in Lists \cup {Env},
         NEW piece, piece = [i \in 1..Len(text) |-> PieceIn(text, i, list)],
         NEW next, next = [i \in 1..Len(text) |-> NextAt(text, i)]
  PROVE  \E f \in [1..Len(text) + 1 -> Seq(Char)] :
           Joins(f, Len(text), piece, next) /\ ExpandHeredocLine(text, list) = f[1]
<1>1. PICK N \in Nat : N = Len(text)
  OBVIOUS
<1>2. /\ \A i \in 1..N : piece[i] = PieceIn(text, i, list) /\ piece[i] \in Seq(Char)
      /\ \A i \in 1..N : next[i] = NextAt(text, i) /\ next[i] \in i + 1..N + 1
  <2>1. \A i \in 1..N : PieceIn(text, i, list) \in Seq(Char) /\ NextAt(text, i) \in i + 1..N + 1
    BY <1>1, PieceIs
  <2> QED BY <1>1, <2>1
<1> DEFINE Body(f, i) ==
      LET end == Min({k \in i + 1..Len(text) + 1 : k = Len(text) + 1 \/ text[k] \notin NameChar})
          name == SubSeq(text, i + 1, end - 1)
      IN  CASE i = Len(text) + 1 -> <<>>
            [] text[i] = "$" /\ i < Len(text) /\ text[i + 1] = "?" -> Itoa[status] \o f[i + 2]
            [] text[i] = "$" /\ i < Len(text) /\ text[i + 1] \in Letter \cup {"_"} ->
                 (IF name \in DOMAIN list THEN list[name] ELSE <<>>) \o f[end]
            [] OTHER -> <<text[i]>> \o f[i + 1]
<1>3. ASSUME NEW f, NEW i \in 1..N
      PROVE  Body(f, i) = piece[i] \o f[next[i]]
  <2>1. i # Len(text) + 1
    BY <1>1
  <2>2. "?" \notin Letter \cup {"_"}
    BY DEF Letter
  <2>3. CASE IsMark(text, i)
    <3>1. piece[i] = Itoa[status] /\ next[i] = i + 2
      BY <1>2, <2>3 DEF PieceIn, NextAt
    <3>2. Body(f, i) = Itoa[status] \o f[i + 2]
      BY <2>1, <2>2, <2>3 DEF IsMark
    <3> QED BY <3>1, <3>2
  <2>4. CASE IsName(text, i)
    <3>1. ~IsMark(text, i)
      BY <2>2, <2>4 DEF IsMark, IsName
    <3>2. /\ piece[i] = IF NameAt(text, i) \in DOMAIN list THEN list[NameAt(text, i)] ELSE <<>>
          /\ next[i] = NameEnd(text, i)
      BY <1>2, <2>4, <3>1 DEF PieceIn, NextAt
    <3>3. Body(f, i) = (IF NameAt(text, i) \in DOMAIN list THEN list[NameAt(text, i)] ELSE <<>>)
                         \o f[NameEnd(text, i)]
      BY <2>1, <2>4, <3>1 DEF IsName, IsMark, NameAt, NameEnd
    <3> QED BY <3>2, <3>3
  <2>5. CASE ~IsMark(text, i) /\ ~IsName(text, i)
    <3>1. piece[i] = <<text[i]>> /\ next[i] = i + 1
      BY <1>2, <2>5 DEF PieceIn, NextAt
    <3>2. Body(f, i) = <<text[i]>> \o f[i + 1]
      BY <2>1, <2>5 DEF IsMark, IsName
    <3> QED BY <3>1, <3>2
  <2> QED BY <2>3, <2>4, <2>5
<1>4. ASSUME NEW f PROVE Body(f, N + 1) = <<>>
  <2>1. N + 1 = Len(text) + 1 /\ ~(N + 1 < Len(text))
    BY <1>1
  <2> QED BY <2>1
<1>5. PICK f \in [1..N + 1 -> Seq(Char)] : Joins(f, N, piece, next)
  BY <1>2, JoinExists
<1>6. f = [i \in 1..Len(text) + 1 |-> Body(f, i)]
  <2>1. ASSUME NEW i \in 1..N + 1 PROVE f[i] = Body(f, i)
    <3> HIDE DEF Body
    <3>1. CASE i = N + 1
      BY <1>4, <1>5, <3>1 DEF Joins
    <3>2. CASE i \in 1..N
      <4>1. f[i] = piece[i] \o f[next[i]]
        BY <1>5, <3>2 DEF Joins
      <4>2. Body(f, i) = piece[i] \o f[next[i]]
        BY <1>3, <3>2
      <4> QED BY <4>1, <4>2
    <3> QED BY <3>1, <3>2
  <2>2. f = [i \in 1..N + 1 |-> f[i]]
    BY <1>5 DEF Joins
  <2> HIDE DEF Body
  <2> QED BY <1>1, <2>1, <2>2
<1>7. PICK u : u = [i \in 1..Len(text) + 1 |-> Body(u, i)] /\ ExpandHeredocLine(text, list) = u[1]
  BY <1>6 DEF ExpandHeredocLine
<1> HIDE DEF Body
<1>8. u[N + 1] = <<>> /\ \A i \in 1..N : u[i] = piece[i] \o u[next[i]]
  <2>1. \A i \in 1..N + 1 : u[i] = Body(u, i)
    BY <1>1, <1>7
  <2>2. N + 1 \in 1..N + 1 /\ \A i \in 1..N : i \in 1..N + 1
    OBVIOUS
  <2> QED BY <1>3, <1>4, <2>1, <2>2
<1>9. Joins(u, N, piece, next)
  BY <1>1, <1>7, <1>8 DEF Joins
<1>10. u = f
  BY <1>2, <1>5, <1>9, JoinUnique
<1> QED BY <1>1, <1>5, <1>7, <1>10

\* A part of the end of a sequence is a part of the sequence.
LEMMA PartOfPart ==
  ASSUME NEW S, NEW s \in Seq(S), NEW m \in 1..Len(s) + 1,
         NEW a \in Nat, NEW b \in Nat, 1 <= a, m + b <= Len(s) + 1
  PROVE  SubSeq(SubSeq(s, m, Len(s)), a, b) = SubSeq(s, m + a - 1, m + b - 1)
<1>1. PICK r : r = SubSeq(s, m, Len(s))
  OBVIOUS
<1>2. /\ r \in Seq(S) /\ Len(r) = Len(s) + 1 - m
      /\ \A j \in 1..Len(s) + 1 - m : r[j] = s[m + j - 1]
  BY <1>1
<1>3. PICK x : x = SubSeq(r, a, b)
  OBVIOUS
<1>4. PICK y : y = SubSeq(s, m + a - 1, m + b - 1)
  OBVIOUS
<1>5. b <= Len(r)
  BY <1>2
<1>6. PICK n \in Nat : n = IF a <= b THEN b + 1 - a ELSE 0
  <2>1. (IF a <= b THEN b + 1 - a ELSE 0) \in Nat
    OBVIOUS
  <2> QED BY <2>1
<1>7. x \in Seq(S) /\ Len(x) = n /\ \A j \in 1..n : x[j] = r[a + j - 1]
  BY <1>2, <1>3, <1>5, <1>6
<1>8. y \in Seq(S) /\ Len(y) = n /\ \A j \in 1..n : y[j] = s[(m + a - 1) + j - 1]
  BY <1>4, <1>6
<1>9. \A j \in 1..n : x[j] = y[j]
  <2> SUFFICES ASSUME NEW j \in 1..n PROVE x[j] = y[j]
    OBVIOUS
  <2>1. a + j - 1 \in 1..Len(s) + 1 - m /\ m + (a + j - 1) - 1 = (m + a - 1) + j - 1
    BY <1>6
  <2> QED BY <1>2, <1>7, <1>8, <2>1
<1>10. x = y
  BY <1>7, <1>8, <1>9
<1> QED BY <1>1, <1>3, <1>4, <1>10

\* The end of a text is read like the text.
LEMMA EndIsReadAlike ==
  ASSUME NEW text \in Seq(Char), NEW m \in 1..Len(text) + 1,
         NEW r, r = SubSeq(text, m, Len(text)), NEW j \in 1..Len(r)
  PROVE  /\ PieceAt(r, j) = PieceAt(text, m + j - 1)
         /\ NextAt(r, j) = NextAt(text, m + j - 1) - (m - 1)
<1>1. PICK N \in Nat, n \in Nat : N = Len(text) /\ n = Len(r) /\ n = N + 1 - m
  OBVIOUS
<1>n. m \in Nat /\ 1 <= m /\ j \in Nat /\ 1 <= j /\ j <= n
  BY <1>1
<1>2. r \in Seq(Char) /\ \A k \in 1..n : r[k] = text[m + k - 1]
  BY <1>1
<1>3. PICK i \in 1..N : i = m + j - 1
  BY <1>1
<1>4. r[j] = text[i] /\ (j < n <=> i < N) /\ (j < n => r[j + 1] = text[i + 1])
  <2>1. r[j] = text[i] /\ (j < n <=> i < N)
    BY <1>1, <1>2, <1>3
  <2>2. j < n => j + 1 \in 1..n /\ m + (j + 1) - 1 = i + 1
    BY <1>1, <1>3
  <2> QED BY <1>2, <2>1, <2>2
<1>5. (IsMark(r, j) <=> IsMark(text, i)) /\ (IsName(r, j) <=> IsName(text, i))
  BY <1>1, <1>4 DEF IsMark, IsName
<1>6. PICK e : e = NameEnd(text, i)
  OBVIOUS
<1>7. /\ e \in i + 1..N + 1
      /\ e = N + 1 \/ text[e] \notin NameChar
      /\ \A k \in i + 1..e - 1 : text[k] \in NameChar
  BY <1>1, <1>6, NameEndIs
<1>8. NameEnd(r, j) = e - (m - 1)
  <2>1. PICK d \in Nat : d = e - (m - 1) /\ d \in j + 1..n + 1 /\ m + d - 1 = e
    BY <1>1, <1>3, <1>7
  <2>2. d = n + 1 \/ r[d] \notin NameChar
    <3>1. d # n + 1 => d \in 1..n /\ e # N + 1
      BY <1>1, <1>n, <1>7, <2>1
    <3> QED BY <1>2, <1>7, <2>1, <3>1
  <2>3. ASSUME NEW k \in j + 1..d - 1 PROVE r[k] \in NameChar
    <3>1. k \in 1..n /\ m + k - 1 \in i + 1..e - 1
      BY <1>1, <1>n, <1>3, <1>7, <2>1
    <3> QED BY <1>2, <1>7, <3>1
  <2>4. j \in 1..Len(r)
    OBVIOUS
  <2> QED BY <1>1, <1>2, <2>1, <2>2, <2>3, NameEndOnly
<1>9. NameAt(r, j) = NameAt(text, i)
  <2>1. PICK a \in Nat, b \in Nat : a = j + 1 /\ b = e - (m - 1) - 1
    BY <1>1, <1>3, <1>7
  <2>2. 1 <= a /\ m + b <= N + 1 /\ m + a - 1 = i + 1 /\ m + b - 1 = e - 1
    BY <1>1, <1>3, <1>7, <2>1
  <2>3. SubSeq(r, a, b) = SubSeq(text, m + a - 1, m + b - 1)
    BY <1>1, <2>2, PartOfPart
  <2> QED BY <1>6, <1>8, <2>1, <2>2, <2>3 DEF NameAt
<1>10. PieceAt(r, j) = PieceAt(text, i)
  BY <1>4, <1>5, <1>9 DEF PieceAt, PieceIn
<1>11. NextAt(r, j) = NextAt(text, i) - (m - 1)
  <2>1. (i + 2) - (m - 1) = j + 2 /\ (i + 1) - (m - 1) = j + 1
    BY <1>3
  <2> QED BY <1>5, <1>6, <1>8, <2>1 DEF NextAt
<1> QED BY <1>3, <1>10, <1>11

\* The rest of a line expands alike wherever it stands.
LEMMA ExpandSuffixes ==
  ASSUME NEW text \in Seq(Char), status \in 0..255
  PROVE  \E f \in [1..Len(text) + 1 -> Seq(Char)] :
           /\ f[Len(text) + 1] = <<>>
           /\ \A i \in 1..Len(text) : f[i] = PieceAt(text, i) \o f[NextAt(text, i)]
           /\ \A i \in 1..Len(text) + 1 : f[i] = ExpandHeredocLine(SubSeq(text, i, Len(text)), Env)
<1>1. PICK N \in Nat : N = Len(text)
  OBVIOUS
<1>2. PICK piece, next : /\ piece = [i \in 1..N |-> PieceAt(text, i)]
                         /\ next = [i \in 1..N |-> NextAt(text, i)]
  OBVIOUS
<1>3. PICK f \in [1..N + 1 -> Seq(Char)] : Joins(f, N, piece, next)
  <2>1. piece = [i \in 1..N |-> PieceIn(text, i, Env)]
    BY <1>2 DEF PieceAt
  <2> QED BY <1>1, <1>2, <2>1, ExpandJoins
<1>4. f[N + 1] = <<>> /\ \A i \in 1..N : f[i] = PieceAt(text, i) \o f[NextAt(text, i)]
  BY <1>2, <1>3 DEF Joins
<1>5. ASSUME NEW m \in 1..N + 1 PROVE f[m] = ExpandHeredocLine(SubSeq(text, m, N), Env)
  <2>1. PICK r : r = SubSeq(text, m, N)
    OBVIOUS
  <2>2. PICK n \in Nat : r \in Seq(Char) /\ n = Len(r) /\ n = N + 1 - m
    <3>1. N + 1 - m \in Nat /\ r \in Seq(Char) /\ Len(r) = N + 1 - m
      BY <1>1, <2>1
    <3> QED BY <3>1
  <2>3. PICK p, x : p = [j \in 1..n |-> PieceAt(r, j)] /\ x = [j \in 1..n |-> NextAt(r, j)]
    OBVIOUS
  <2>4. PICK u \in [1..n + 1 -> Seq(Char)] : Joins(u, n, p, x) /\ ExpandHeredocLine(r, Env) = u[1]
    <3>1. /\ p = [j \in 1..Len(r) |-> PieceIn(r, j, Env)]
          /\ x = [j \in 1..Len(r) |-> NextAt(r, j)]
      BY <2>2, <2>3 DEF PieceAt
    <3>2. \E u \in [1..Len(r) + 1 -> Seq(Char)] :
            Joins(u, Len(r), p, x) /\ ExpandHeredocLine(r, Env) = u[1]
      BY <2>2, <3>1, ExpandJoins
    <3> QED BY <2>2, <3>2
  <2>5. PICK g : g = [j \in 1..n + 1 |-> f[m + j - 1]]
    OBVIOUS
  <2>6. ASSUME NEW j \in 1..n PROVE g[j] = p[j] \o g[x[j]] /\ x[j] \in j + 1..n + 1
    <3>1. PICK i \in 1..N : i = m + j - 1
      BY <2>2
    <3>2. p[j] = PieceAt(text, i) /\ x[j] = NextAt(text, i) - (m - 1)
      <4>1. PieceAt(r, j) = PieceAt(text, i) /\ NextAt(r, j) = NextAt(text, i) - (m - 1)
        <5>1. m \in 1..Len(text) + 1 /\ j \in 1..Len(r) /\ r = SubSeq(text, m, Len(text))
          BY <1>1, <2>1, <2>2
        <5> QED BY <3>1, <5>1, EndIsReadAlike
      <4> QED BY <2>3, <4>1
    <3>3. PICK k : k = NextAt(text, i)
      OBVIOUS
    <3>4. k \in i + 1..N + 1
      BY <1>1, <3>3, PieceIs
    <3>5. x[j] \in j + 1..n + 1 /\ m + x[j] - 1 = k
      <4>1. x[j] = k - (m - 1) /\ m \in Nat /\ k \in Nat /\ j \in Nat
        BY <3>2, <3>3, <3>4
      <4> QED BY <2>2, <3>1, <3>4, <4>1
    <3>6. g[x[j]] = f[k] /\ g[j] = f[i]
      <4>1. x[j] \in 1..n + 1 /\ j \in 1..n + 1
        BY <3>5
      <4> QED BY <2>5, <3>1, <3>5, <4>1
    <3> QED BY <1>4, <3>1, <3>2, <3>3, <3>5, <3>6
  <2>7. g[n + 1] = <<>>
    <3>1. n + 1 \in 1..n + 1 /\ m + (n + 1) - 1 = N + 1
      BY <2>2
    <3> QED BY <1>4, <2>5, <3>1
  <2>8. g = [j \in 1..n + 1 |-> g[j]]
    BY <2>5
  <2>9. Joins(g, n, p, x)
    BY <2>6, <2>7, <2>8 DEF Joins
  <2>10. u = g
    BY <2>4, <2>6, <2>9, JoinUnique
  <2>11. g[1] = f[m]
    <3>1. 1 \in 1..n + 1 /\ m + 1 - 1 = m
      OBVIOUS
    <3> QED BY <2>5, <3>1
  <2> QED BY <2>1, <2>4, <2>10, <2>11
<1> QED BY <1>1, <1>3, <1>4, <1>5

\* Characters that mean nothing expand to themselves.
LEMMA BlockExpands ==
  ASSUME NEW text \in Seq(Char), status \in 0..255, NEW f \in [1..Len(text) + 1 -> Seq(Char)],
         \A j \in 1..Len(text) : f[j] = PieceAt(text, j) \o f[NextAt(text, j)],
         NEW i \in 1..Len(text) + 1, NEW m \in i..Len(text) + 1,
         \A j \in i..m - 1 : ~IsMark(text, j) /\ ~IsName(text, j)
  PROVE  f[i] = SubSeq(text, i, m - 1) \o f[m]
<1>1. PICK N \in Nat, n \in Nat : N = Len(text) /\ n = m - i
  OBVIOUS
<1> DEFINE P == {j \in 0..n : f[i] = SubSeq(text, i, i + j - 1) \o f[i + j]}
<1>2. 0 \in P
  <2>1. PICK x : x = f[i]
    OBVIOUS
  <2>2. x \in Seq(Char) /\ <<>> \o x = x
    BY <2>1, ConcatEmptySeq
  <2>3. SubSeq(text, i, i + 0 - 1) = <<>>
    BY SubSeqEmpty
  <2>4. i + 0 = i /\ 0 \in 0..n
    BY <1>1
  <2> QED BY <2>1, <2>2, <2>3, <2>4
<1>3. ASSUME NEW j \in 1..n, j - 1 \in P PROVE j \in P
  <2>1. PICK k \in 1..N : k = i + j - 1 /\ k \in i..m - 1
    BY <1>1
  <2>2. f[i] = SubSeq(text, i, k - 1) \o f[k]
    <3>1. i + (j - 1) - 1 = k - 1 /\ i + (j - 1) = k
      BY <2>1
    <3> QED BY <1>3, <3>1
  <2>3. f[k] = <<text[k]>> \o f[k + 1]
    <3>1. PieceAt(text, k) = <<text[k]>> /\ NextAt(text, k) = k + 1
      BY <2>1 DEF PieceAt, PieceIn, NextAt
    <3> QED BY <1>1, <3>1
  <2>4. PICK a, b, c : a = SubSeq(text, i, k - 1) /\ b = <<text[k]>> /\ c = f[k + 1]
    OBVIOUS
  <2>5. a \in Seq(Char) /\ b \in Seq(Char) /\ c \in Seq(Char)
    <3>1. SubSeq(text, i, k - 1) \in Seq(Char)
      BY <1>1, <2>1
    <3>2. text[k] \in Char /\ k + 1 \in 1..Len(text) + 1
      BY <1>1
    <3>3. f[k + 1] \in Seq(Char)
      BY <3>2
    <3>4. \A x \in Char : <<x>> \in Seq(Char)
      OBVIOUS
    <3> QED BY <2>4, <3>1, <3>2, <3>3, <3>4
  <2>6. (a \o b) \o c = a \o (b \o c)
    BY <2>5, ThreeParts
  <2>7. SubSeq(text, i, k) = a \o b
    <3>1. i \in 1..Len(text) /\ k \in i..Len(text)
      BY <1>1, <2>1
    <3> QED BY <2>4, <3>1, SubSeqRecursiveSecond
  <2>8. f[i] = SubSeq(text, i, k) \o f[k + 1]
    BY <2>2, <2>3, <2>4, <2>6, <2>7
  <2>9. i + j - 1 = k /\ i + j = k + 1 /\ j \in 0..n
    BY <2>1
  <2> QED BY <2>8, <2>9
<1>4. n \in P
  <2> HIDE DEF P
  <2>1. \A j \in 0..n : j \in P
    BY <1>2, <1>3, EveryIteration
  <2>2. n \in 0..n
    OBVIOUS
  <2> QED BY <2>1, <2>2
<1>5. i + n = m /\ i + n - 1 = m - 1
  BY <1>1
<1> QED BY <1>4, <1>5

----------------------------------------------------------------------------
(* A line in double quotes, done up to the i-th character of the text.      *)

HalfLine(done, text, i) == <<DQuote>> \o done \o SubSeq(text, i, Len(text)) \o <<DQuote>>

\* Two sequences in a row, character by character.
LEMMA TwoParts ==
  ASSUME NEW S, NEW a \in Seq(S), NEW b \in Seq(S)
  PROVE  /\ a \o b \in Seq(S) /\ Len(a \o b) = Len(a) + Len(b)
         /\ \A k \in 1..Len(a) : (a \o b)[k] = a[k]
         /\ \A k \in 1..Len(b) : (a \o b)[Len(a) + k] = b[k]
<1>0. Len(a) \in Nat /\ Len(b) \in Nat
  OBVIOUS
<1>1. /\ a \o b \in Seq(S) /\ Len(a \o b) = Len(a) + Len(b)
      /\ \A k \in 1..Len(a) + Len(b) : (a \o b)[k] = IF k <= Len(a) THEN a[k] ELSE b[k - Len(a)]
  BY ConcatProperties
<1>2. ASSUME NEW k \in 1..Len(a) PROVE (a \o b)[k] = a[k]
  <2>1. k \in 1..Len(a) + Len(b) /\ k <= Len(a)
    BY <1>0
  <2> QED BY <1>1, <2>1
<1>3. ASSUME NEW k \in 1..Len(b) PROVE (a \o b)[Len(a) + k] = b[k]
  <2>1. PICK j \in 1..Len(a) + Len(b) : j = Len(a) + k /\ ~(j <= Len(a)) /\ j - Len(a) = k
    BY <1>0
  <2> QED BY <1>1, <2>1
<1> QED BY <1>1, <1>2, <1>3

\* Four sequences in a row.
InRow(z, S, a, b, c, d) ==
  /\ z \in Seq(S) /\ Len(z) = Len(a) + Len(b) + Len(c) + Len(d)
  /\ \A k \in 1..Len(a) : z[k] = a[k]
  /\ \A k \in 1..Len(b) : z[Len(a) + k] = b[k]
  /\ \A k \in 1..Len(c) : z[Len(a) + Len(b) + k] = c[k]
  /\ \A k \in 1..Len(d) : z[Len(a) + Len(b) + Len(c) + k] = d[k]

\* Four sequences in a row, as a half-expanded line is made.
LEMMA FourParts ==
  ASSUME NEW S, NEW a \in Seq(S), NEW b \in Seq(S), NEW c \in Seq(S), NEW d \in Seq(S)
  PROVE  InRow(a \o b \o c \o d, S, a, b, c, d)
<1>0. PICK la \in Nat, lb \in Nat, lc \in Nat, ld \in Nat :
        la = Len(a) /\ lb = Len(b) /\ lc = Len(c) /\ ld = Len(d)
  OBVIOUS
<1>z. PICK z : z = a \o b \o c \o d
  OBVIOUS
<1>1. PICK x : x = a \o b
  OBVIOUS
<1>2. PICK y : y = x \o c
  OBVIOUS
<1>3. z = y \o d
  BY <1>z, <1>1, <1>2
<1>4. PICK m \in Nat, n \in Nat : m = la + lb /\ n = la + lb + lc
  OBVIOUS
<1>5. /\ x \in Seq(S) /\ Len(x) = m
      /\ \A k \in 1..la : x[k] = a[k]
      /\ \A k \in 1..lb : x[la + k] = b[k]
  BY <1>0, <1>1, <1>4, TwoParts
<1>6. /\ y \in Seq(S) /\ Len(y) = m + lc
      /\ \A k \in 1..m : y[k] = x[k]
      /\ \A k \in 1..lc : y[m + k] = c[k]
  <2>1. x \in Seq(S)
    BY <1>5
  <2>2. /\ x \o c \in Seq(S) /\ Len(x \o c) = Len(x) + Len(c)
        /\ \A k \in 1..Len(x) : (x \o c)[k] = x[k]
        /\ \A k \in 1..Len(c) : (x \o c)[Len(x) + k] = c[k]
    BY <2>1, TwoParts
  <2> QED BY <1>0, <1>2, <1>5, <2>2
<1>7. /\ z \in Seq(S) /\ Len(z) = n + ld
      /\ \A k \in 1..n : z[k] = y[k]
      /\ \A k \in 1..ld : z[n + k] = d[k]
  <2>1. y \in Seq(S)
    BY <1>6
  <2>n. Len(y) = n
    BY <1>4, <1>6
  <2>2. /\ y \o d \in Seq(S) /\ Len(y \o d) = Len(y) + Len(d)
        /\ \A k \in 1..Len(y) : (y \o d)[k] = y[k]
        /\ \A k \in 1..Len(d) : (y \o d)[Len(y) + k] = d[k]
    BY <2>1, TwoParts
  <2> QED BY <1>0, <1>3, <2>n, <2>2
<1>8. ASSUME NEW k \in 1..m PROVE z[k] = x[k]
  <2>1. k \in 1..n
    BY <1>4
  <2> QED BY <1>6, <1>7, <2>1
<1>9. ASSUME NEW k \in 1..la PROVE z[k] = a[k]
  <2>1. k \in 1..m
    BY <1>4
  <2> QED BY <1>5, <1>8, <2>1
<1>10. ASSUME NEW k \in 1..lb PROVE z[la + k] = b[k]
  <2>1. la + k \in 1..m
    BY <1>4
  <2> QED BY <1>5, <1>8, <2>1
<1>11. ASSUME NEW k \in 1..lc PROVE z[la + lb + k] = c[k]
  <2>1. m + k \in 1..n /\ la + lb + k = m + k
    BY <1>4
  <2> QED BY <1>6, <1>7, <2>1
<1> QED BY <1>0, <1>z, <1>4, <1>7, <1>9, <1>10, <1>11 DEF InRow

ReadsHalf(s, text, done, i, from, last) ==
  /\ s.input \in Seq(Char) /\ Len(s.input) = last + 1
  /\ At(s, 0) = DQuote /\ At(s, last) = DQuote
  /\ \A k \in 1..from - 1 : At(s, k) = done[k]
  /\ \A k \in i..Len(text) : At(s, from + (k - i)) = text[k]

\* The same character by character: where the text begins and where the line ends.
LEMMA HalfLineReads ==
  ASSUME NEW s, NEW text \in Seq(Char), NEW done \in Seq(Char), NEW i \in 1..Len(text) + 1,
         s.input = HalfLine(done, text, i),
         NEW from \in Nat, from = Len(done) + 1,
         NEW last \in Nat, last = from + (Len(text) + 1 - i)
  PROVE  ReadsHalf(s, text, done, i, from, last)
<1>1. PICK N \in Nat : N = Len(text)
  OBVIOUS
<1>f. PICK left : left = SubSeq(text, i, N)
  OBVIOUS
<1>2. /\ left \in Seq(Char) /\ Len(left) = N + 1 - i
      /\ \A k \in 1..N + 1 - i : left[k] = text[i + k - 1]
  BY <1>1, <1>f
<1>3. PICK q : q = <<DQuote>>
  OBVIOUS
<1>4. q \in Seq(Char) /\ Len(q) = 1 /\ q[1] = DQuote
  BY <1>3, ValuesAssumption
<1>5. PICK z : z = q \o done \o left \o q
  OBVIOUS
<1>6. s.input = z
  BY <1>1, <1>f, <1>3, <1>5 DEF HalfLine
<1>7. PICK n \in Nat : n = Len(done) /\ from = n + 1 /\ last = n + 1 + (N + 1 - i)
  BY <1>1
<1>8. /\ z \in Seq(Char) /\ Len(z) = 1 + n + (N + 1 - i) + 1
      /\ z[1] = DQuote
      /\ \A k \in 1..n : z[1 + k] = done[k]
      /\ \A k \in 1..N + 1 - i : z[1 + n + k] = left[k]
      /\ z[1 + n + (N + 1 - i) + 1] = DQuote
  <2>1. PICK lq \in Nat, l \in Nat : lq = Len(q) /\ lq = 1 /\ l = Len(left) /\ l = N + 1 - i
    <3>1. Len(left) \in Nat
      BY <1>2
    <3> QED BY <1>2, <1>4, <3>1
  <2>q. q \in Seq(Char) /\ left \in Seq(Char) /\ n = Len(done)
    BY <1>2, <1>4, <1>7
  <2>2. /\ z \in Seq(Char) /\ Len(z) = lq + n + l + lq
        /\ \A k \in 1..lq : z[k] = q[k]
        /\ \A k \in 1..n : z[lq + k] = done[k]
        /\ \A k \in 1..l : z[lq + n + k] = left[k]
        /\ \A k \in 1..lq : z[lq + n + l + k] = q[k]
    <3>1. InRow(q \o done \o left \o q, Char, q, done, left, q)
      BY <2>q, FourParts
    <3> QED BY <1>5, <1>7, <2>1, <3>1 DEF InRow
  <2>3. 1 \in 1..lq
    BY <2>1
  <2> QED BY <1>4, <2>1, <2>2, <2>3
<1>9. Len(z) = last + 1
  BY <1>1, <1>7, <1>8
<1>10. \A k \in 0..last : At(s, k) = z[k + 1]
  BY <1>6, <1>9 DEF At
<1>11. At(s, 0) = DQuote /\ At(s, last) = DQuote
  <2>1. 0 \in 0..last /\ last \in 0..last /\ 0 + 1 = 1 /\ last + 1 = 1 + n + (N + 1 - i) + 1
    BY <1>1, <1>7
  <2> QED BY <1>8, <1>10, <2>1
<1>12. \A k \in 1..from - 1 : At(s, k) = done[k]
  <2>1. \A k \in 1..from - 1 : k \in 1..n /\ k \in 0..last /\ k + 1 = 1 + k
    BY <1>1, <1>7
  <2> QED BY <1>8, <1>10, <2>1
<1>13. ASSUME NEW k \in i..N PROVE At(s, from + (k - i)) = text[k]
  <2>1. PICK j \in 1..N + 1 - i : j = k - i + 1 /\ i + j - 1 = k
    BY <1>1
  <2>2. from + (k - i) \in 0..last /\ from + (k - i) + 1 = 1 + n + j
    BY <1>1, <1>7, <2>1
  <2>3. At(s, from + (k - i)) = z[1 + n + j]
    BY <1>10, <2>2
  <2>4. z[1 + n + j] = left[j] /\ left[j] = text[i + j - 1]
    BY <1>2, <1>8, <2>1
  <2> QED BY <2>1, <2>3, <2>4
<1> QED BY <1>1, <1>6, <1>8, <1>9, <1>11, <1>12, <1>13 DEF ReadsHalf

\* Sequences with the same members are the same.
LEMMA SameSequence ==
  ASSUME NEW S, NEW x \in Seq(S), NEW y \in Seq(S), Len(x) = Len(y),
         \A k \in 1..Len(x) : x[k] = y[k]
  PROVE  x = y
BY SeqEqual

PartsOfHalf(s, text, done, i, from) ==
  /\ Text(s, 1, from) = done
  /\ Text(s, 0, from) = <<DQuote>> \o done
  /\ \A m \in i..Len(text) + 1 :
       /\ Text(s, from, from + (m - i)) = SubSeq(text, i, m - 1)
       /\ Rest(s, from + (m - i)) = SubSeq(text, m, Len(text)) \o <<DQuote>>

\* What stands before a place in such a line, and what behind it.
LEMMA HalfLineParts ==
  ASSUME NEW s, NEW text \in Seq(Char), NEW done \in Seq(Char), NEW i \in 1..Len(text) + 1,
         s.input = HalfLine(done, text, i), NEW from \in Nat, from = Len(done) + 1
  PROVE  PartsOfHalf(s, text, done, i, from)
<1>1. PICK N \in Nat : N = Len(text)
  OBVIOUS
<1>2. PICK last \in Nat : last = from + (N + 1 - i)
  BY <1>1
<1>3. /\ s.input \in Seq(Char) /\ Len(s.input) = last + 1
      /\ At(s, 0) = DQuote /\ At(s, last) = DQuote
      /\ \A k \in 1..from - 1 : At(s, k) = done[k]
      /\ \A k \in i..N : At(s, from + (k - i)) = text[k]
  <2>1. ReadsHalf(s, text, done, i, from, last)
    BY <1>1, <1>2, HalfLineReads
  <2> QED BY <1>1, <2>1 DEF ReadsHalf
<1>4. PICK n \in Nat : n = Len(done) /\ from = n + 1
  OBVIOUS
<1>5. from <= last
  BY <1>1, <1>2
<1>6. \A k \in 1..last + 1 : s.input[k] = At(s, k - 1)
  <2>1. \A k \in 1..last + 1 : k - 1 \in 0..Len(s.input) - 1 /\ (k - 1) + 1 = k
    BY <1>3
  <2> QED BY <2>1 DEF At
<1>7. ASSUME NEW a \in Nat, NEW b \in Nat, a <= b, b <= last + 1
      PROVE  /\ Text(s, a, b) \in Seq(Char) /\ Len(Text(s, a, b)) = b - a
             /\ \A k \in 1..b - a : Text(s, a, b)[k] = At(s, a + k - 1)
  <2>1. PICK x : x = SubSeq(s.input, a + 1, b)
    OBVIOUS
  <2>2. /\ x \in Seq(Char) /\ Len(x) = b - a
        /\ \A k \in 1..b - a : x[k] = s.input[(a + 1) + k - 1]
    BY <1>3, <1>7, <2>1
  <2>3. \A k \in 1..b - a : (a + 1) + k - 1 \in 1..last + 1 /\ ((a + 1) + k - 1) - 1 = a + k - 1
    BY <1>7
  <2>4. \A k \in 1..b - a : x[k] = At(s, a + k - 1)
    BY <1>6, <2>2, <2>3
  <2> QED BY <2>1, <2>2, <2>4 DEF Text
<1>8. Text(s, 1, from) = done
  <2>1. PICK x : x = Text(s, 1, from)
    OBVIOUS
  <2>2. /\ x \in Seq(Char) /\ Len(x) = from - 1
        /\ \A k \in 1..from - 1 : x[k] = At(s, 1 + k - 1)
    <3>1. 1 \in Nat /\ 1 <= from /\ from <= last + 1
      BY <1>2, <1>4, <1>5
    <3> QED BY <1>7, <2>1, <3>1
  <2>3. ASSUME NEW k \in 1..n PROVE x[k] = done[k]
    <3>1. k \in 1..from - 1 /\ 1 + k - 1 = k
      BY <1>4
    <3> QED BY <1>3, <2>2, <3>1
  <2>4. Len(x) = n
    BY <1>4, <2>2
  <2> QED BY <1>4, <2>1, <2>2, <2>3, <2>4, SameSequence
<1>9. Text(s, 0, from) = <<DQuote>> \o done
  <2>1. PICK x : x = Text(s, 0, from)
    OBVIOUS
  <2>2. /\ x \in Seq(Char) /\ Len(x) = n + 1
        /\ \A k \in 1..n + 1 : x[k] = At(s, 0 + k - 1)
    <3>1. 0 \in Nat /\ 0 <= from /\ from <= last + 1
      BY <1>2, <1>5
    <3>2. /\ Text(s, 0, from) \in Seq(Char) /\ Len(Text(s, 0, from)) = from - 0
          /\ \A k \in 1..from - 0 : Text(s, 0, from)[k] = At(s, 0 + k - 1)
      BY <1>7, <3>1
    <3>3. from - 0 = n + 1
      BY <1>4
    <3> QED BY <2>1, <3>2, <3>3
  <2>3. PICK q : q = <<DQuote>>
    OBVIOUS
  <2>4. q \in Seq(Char) /\ Len(q) = 1 /\ q[1] = DQuote
    BY <2>3, ValuesAssumption
  <2>5. PICK y : y = q \o done
    OBVIOUS
  <2>6. /\ y \in Seq(Char) /\ Len(y) = 1 + n /\ y[1] = DQuote
        /\ \A k \in 1..n : y[1 + k] = done[k]
    <3>1. /\ q \o done \in Seq(Char) /\ Len(q \o done) = Len(q) + Len(done)
          /\ \A k \in 1..Len(q) : (q \o done)[k] = q[k]
          /\ \A k \in 1..Len(done) : (q \o done)[Len(q) + k] = done[k]
      <4>1. q \in Seq(Char)
        BY <2>4
      <4> QED BY <4>1, TwoParts
    <3>2. 1 \in 1..Len(q)
      BY <2>4
    <3> QED BY <1>4, <2>4, <2>5, <3>1, <3>2
  <2>7. ASSUME NEW k \in 1..n + 1 PROVE x[k] = y[k]
    <3>1. CASE k = 1
      <4>1. 0 + k - 1 = 0
        BY <3>1
      <4> QED BY <1>3, <2>2, <2>6, <3>1, <4>1
    <3>2. CASE k # 1
      <4>1. PICK j \in 1..n : j = k - 1 /\ 0 + k - 1 = j /\ 1 + j = k
        BY <3>2
      <4>2. j \in 1..from - 1
        BY <1>4
      <4> QED BY <1>3, <2>2, <2>6, <4>1, <4>2
    <3> QED BY <3>1, <3>2
  <2>8. Len(y) = n + 1
    BY <2>6
  <2>9. x = y
    BY <2>2, <2>6, <2>7, <2>8, SameSequence
  <2> QED BY <2>1, <2>3, <2>5, <2>9
<1>10. ASSUME NEW m \in i..N + 1 PROVE Text(s, from, from + (m - i)) = SubSeq(text, i, m - 1)
  <2>1. PICK x : x = Text(s, from, from + (m - i))
    OBVIOUS
  <2>2. PICK l \in Nat : l = m - i
    BY <1>1
  <2>3. /\ x \in Seq(Char) /\ Len(x) = l
        /\ \A k \in 1..l : x[k] = At(s, from + k - 1)
    <3>1. PICK b \in Nat : b = from + l /\ from <= b /\ b <= last + 1 /\ b - from = l
      <4>1. l <= N + 1 - i
        BY <1>1, <2>2
      <4> QED BY <1>1, <1>2, <4>1
    <3>2. /\ Text(s, from, b) \in Seq(Char) /\ Len(Text(s, from, b)) = b - from
          /\ \A k \in 1..b - from : Text(s, from, b)[k] = At(s, from + k - 1)
      BY <1>7, <3>1
    <3> QED BY <2>1, <2>2, <3>1, <3>2
  <2>4. PICK y : y = SubSeq(text, i, m - 1)
    OBVIOUS
  <2>5. y \in Seq(Char) /\ Len(y) = l /\ \A k \in 1..l : y[k] = text[i + k - 1]
    BY <1>1, <2>2, <2>4
  <2>6. ASSUME NEW k \in 1..l PROVE x[k] = y[k]
    <3>1. i + k - 1 \in i..N /\ from + ((i + k - 1) - i) = from + k - 1
      BY <1>1, <2>2
    <3> QED BY <1>3, <2>3, <2>5, <3>1
  <2>7. x = y
    BY <2>3, <2>5, <2>6, SameSequence
  <2> QED BY <2>1, <2>4, <2>7
<1>11. ASSUME NEW m \in i..N + 1
       PROVE  Rest(s, from + (m - i)) = SubSeq(text, m, N) \o <<DQuote>>
  <2>1. PICK a \in Nat : a = from + (m - i)
    <3>1. m - i \in Nat
      BY <1>1
    <3>2. from + (m - i) \in Nat
      BY <3>1
    <3> QED BY <3>2
  <2>2. PICK x : x = Rest(s, a)
    OBVIOUS
  <2>3. PICK l \in Nat : l = N + 1 - m /\ a + l = last
    <3>1. N + 1 - m \in Nat /\ m \in Nat /\ i \in Nat
      BY <1>1
    <3>2. a + (N + 1 - m) = last
      BY <1>2, <2>1, <3>1
    <3> QED BY <3>1, <3>2
  <2>4. /\ x \in Seq(Char) /\ Len(x) = l + 1
        /\ \A k \in 1..l + 1 : x[k] = At(s, a + k - 1)
    <3>1. PICK b \in Nat : b = last + 1 /\ a <= b /\ b <= last + 1 /\ b - a = l + 1
      <4>1. last + 1 \in Nat /\ a <= last + 1 /\ (last + 1) - a = l + 1
        BY <2>1, <2>3
      <4> QED BY <4>1
    <3>2. x = Text(s, a, b)
      BY <1>3, <2>2, <3>1 DEF Rest
    <3>3. /\ Text(s, a, b) \in Seq(Char) /\ Len(Text(s, a, b)) = b - a
          /\ \A k \in 1..b - a : Text(s, a, b)[k] = At(s, a + k - 1)
      BY <1>7, <2>1, <3>1
    <3> QED BY <3>1, <3>2, <3>3
  <2>5. PICK z : z = SubSeq(text, m, N)
    OBVIOUS
  <2>6. z \in Seq(Char) /\ Len(z) = l /\ \A k \in 1..l : z[k] = text[m + k - 1]
    BY <1>1, <2>3, <2>5
  <2>7. PICK q : q = <<DQuote>>
    OBVIOUS
  <2>8. q \in Seq(Char) /\ Len(q) = 1 /\ q[1] = DQuote
    BY <2>7, ValuesAssumption
  <2>9. PICK y : y = z \o q
    OBVIOUS
  <2>10. /\ y \in Seq(Char) /\ Len(y) = l + 1 /\ y[l + 1] = DQuote
         /\ \A k \in 1..l : y[k] = z[k]
    <3>1. /\ z \o q \in Seq(Char) /\ Len(z \o q) = Len(z) + Len(q)
          /\ \A k \in 1..Len(z) : (z \o q)[k] = z[k]
          /\ \A k \in 1..Len(q) : (z \o q)[Len(z) + k] = q[k]
      <4>1. z \in Seq(Char)
        BY <2>6
      <4>2. q \in Seq(Char)
        BY <2>8
      <4> QED BY <4>1, <4>2, TwoParts
    <3>2. 1 \in 1..Len(q)
      BY <2>8
    <3> QED BY <2>6, <2>8, <2>9, <3>1, <3>2
  <2>11. ASSUME NEW k \in 1..l + 1 PROVE x[k] = y[k]
    <3>1. CASE k = l + 1
      <4>1. a + k - 1 = last
        BY <2>3, <3>1
      <4> QED BY <1>3, <2>4, <2>10, <3>1, <4>1
    <3>2. CASE k # l + 1
      <4>a. l \in Nat
        BY <2>3
      <4>0. k \in Nat /\ l \in Nat /\ 1 <= k /\ k <= l
        BY <3>2, <4>a
      <4>1. k \in 1..l /\ m + k - 1 \in i..N /\ from + ((m + k - 1) - i) = a + k - 1
        BY <1>1, <2>1, <2>3, <4>0
      <4> QED BY <1>3, <2>4, <2>6, <2>10, <4>1
    <3> QED BY <3>1, <3>2
  <2>12. Len(x) = Len(y)
    BY <2>4, <2>10
  <2>13. x = y
    BY <2>4, <2>10, <2>11, <2>12, SameSequence
  <2> QED BY <2>1, <2>2, <2>5, <2>7, <2>9, <2>13
<1> QED BY <1>1, <1>8, <1>9, <1>10, <1>11 DEF PartsOfHalf

\* What takes the place of a part of the text is done.
LEMMA HalfLineGrows ==
  ASSUME NEW text \in Seq(Char), NEW done \in Seq(Char), NEW v \in Seq(Char),
         NEW m \in 1..Len(text) + 1
  PROVE  (<<DQuote>> \o done) \o v \o (SubSeq(text, m, Len(text)) \o <<DQuote>>)
           = HalfLine(done \o v, text, m)
<1>1. PICK q : q = <<DQuote>>
  OBVIOUS
<1>2. PICK z : z = SubSeq(text, m, Len(text))
  OBVIOUS
<1>3. q \in Seq(Char) /\ z \in Seq(Char)
  BY <1>1, <1>2, ValuesAssumption
<1>q. q \in Seq(Char)
  BY <1>3
<1>z. z \in Seq(Char)
  BY <1>3
<1>4. (q \o done) \o v = q \o (done \o v)
  BY <1>q, ThreeParts
<1>5. PICK x : x = q \o (done \o v)
  OBVIOUS
<1>6. x \in Seq(Char)
  <2>1. done \o v \in Seq(Char)
    BY ConcatProperties
  <2> QED BY <1>3, <1>5, <2>1, ConcatProperties
<1>7. x \o (z \o q) = (x \o z) \o q
  BY <1>q, <1>z, <1>6, ThreeParts
<1> QED BY <1>1, <1>2, <1>4, <1>5, <1>7 DEF HalfLine

\* A part of the text that stays as it is is done, too.
LEMMA HalfLineGoesOn ==
  ASSUME NEW text \in Seq(Char), NEW done \in Seq(Char), NEW i \in 1..Len(text) + 1,
         NEW m \in i..Len(text) + 1
  PROVE  HalfLine(done, text, i) = HalfLine(done \o SubSeq(text, i, m - 1), text, m)
<1>1. PICK q : q = <<DQuote>>
  OBVIOUS
<1>2. PICK z : z = SubSeq(text, m, Len(text))
  OBVIOUS
<1>3. PICK v : v = SubSeq(text, i, m - 1)
  OBVIOUS
<1>4. q \in Seq(Char) /\ z \in Seq(Char) /\ v \in Seq(Char)
  BY <1>1, <1>2, <1>3, ValuesAssumption
<1>5. SubSeq(text, i, Len(text)) = v \o z
  <2>1. PICK k \in i - 1..Len(text) : k = m - 1 /\ k + 1 = m
    OBVIOUS
  <2>2. PICK n \in k..Len(text) : n = Len(text)
    BY <2>1
  <2>3. SubSeq(text, i, k) \o SubSeq(text, k + 1, n) = SubSeq(text, i, n)
    BY <2>1, <2>2, ConcatAdjacentSubSeq
  <2> QED BY <1>2, <1>3, <2>1, <2>2, <2>3
<1>6. PICK x : x = q \o done
  OBVIOUS
<1>7. x \in Seq(Char)
  BY <1>4, <1>6, ConcatProperties
<1>q. q \in Seq(Char)
  BY <1>4
<1>v. v \in Seq(Char)
  BY <1>4
<1>z. z \in Seq(Char)
  BY <1>4
<1>8. x \o (v \o z) = (x \o v) \o z
  BY <1>v, <1>z, <1>7, ThreeParts
<1>9. x \o v = q \o (done \o v)
  <2>1. (q \o done) \o v = q \o (done \o v)
    BY <1>q, <1>v, ThreeParts
  <2> QED BY <1>6, <2>1
<1> QED BY <1>1, <1>2, <1>3, <1>5, <1>6, <1>8, <1>9 DEF HalfLine

----------------------------------------------------------------------------
(* check_var in a pair of double quotes.                                   *)

\* f[i] is what the text from its i-th character on expands to.
Expansion(text, f) ==
  /\ f \in [1..Len(text) + 1 -> Seq(Char)] /\ f[Len(text) + 1] = <<>>
  /\ \A i \in 1..Len(text) : f[i] = PieceAt(text, i) \o f[NextAt(text, i)]

PairText(text) ==
  /\ text \in Seq(Char)
  /\ \A i \in 1..Len(text) : text[i] \notin {DQuote, "\\"}
  /\ \A i \in 1..Len(text) : text[i] = "$" => NameAt(text, i) = <<>> \/ Agreed(NameAt(text, i))

\* The first i - 1 characters of the text have become `done'.
Expanding(s, text, f, i, done) ==
  /\ i \in 1..Len(text) + 1 /\ done \in Seq(Char) /\ s.input = HalfLine(done, text, i)
  /\ s.pos \in Nat /\ s.count \in Nat
  /\ 1 <= s.pos /\ s.pos <= s.count /\ s.count <= Len(done) + 1
  /\ \A k \in 1..Len(done) : done[k] \notin {DQuote, "\\"}
  /\ \A k \in 1..Len(done) : done[k] = "$" => k < s.count /\ At(s, k + 1) # "?"
  /\ f[1] = done \o f[i]

\* A piece is added to it.
LEMMA Advances ==
  ASSUME NEW text, PairText(text), NEW f, Expansion(text, f), NEW s, NEW i, NEW done,
         Expanding(s, text, f, i, done), NEW m \in i..Len(text) + 1, NEW v \in Seq(Char),
         f[i] = v \o f[m], NEW r, r.input = HalfLine(done \o v, text, m),
         r.pos \in Nat, r.count \in Nat, 1 <= r.pos, r.pos <= r.count, s.count <= r.count,
         r.count <= Len(done) + Len(v) + 1,
         \A k \in 1..Len(v) : v[k] \notin {DQuote, "\\"},
         \A k \in 1..Len(v) : v[k] = "$" => /\ Len(done) + k < r.count
                                            /\ At(r, Len(done) + k + 1) # "?",
         At(s, Len(done) + 1) # "?" => At(r, Len(done) + 1) # "?"
  PROVE  Expanding(r, text, f, m, done \o v)
<1>0. PICK n \in Nat, l \in Nat : n = Len(done) /\ l = Len(v)
  BY DEF Expanding
<1>1. /\ done \in Seq(Char) /\ s.count \in Nat /\ text \in Seq(Char)
      /\ i \in 1..Len(text) + 1 /\ s.input = HalfLine(done, text, i)
  BY DEF Expanding, PairText
<1>2. PICK d : d = done \o v
  OBVIOUS
<1>3. /\ d \in Seq(Char) /\ Len(d) = n + l
      /\ \A k \in 1..n : d[k] = done[k]
      /\ \A k \in 1..l : d[n + k] = v[k]
  <2>1. /\ done \o v \in Seq(Char) /\ Len(done \o v) = Len(done) + Len(v)
        /\ \A k \in 1..Len(done) : (done \o v)[k] = done[k]
        /\ \A k \in 1..Len(v) : (done \o v)[Len(done) + k] = v[k]
    BY <1>1, TwoParts
  <2> QED BY <1>0, <1>2, <2>1
<1>4. m \in 1..Len(text) + 1
  BY <1>1
<1>5. f[1] = d \o f[m]
  <2>1. f[i] \in Seq(Char) /\ f[m] \in Seq(Char)
    BY <1>1, <1>4 DEF Expansion
  <2>2. f[1] = done \o f[i]
    BY DEF Expanding
  <2>3. PICK w : w = f[m]
    OBVIOUS
  <2>4. (done \o v) \o w = done \o (v \o w)
    <3>1. done \in Seq(Char)
      BY <1>1
    <3>2. w \in Seq(Char)
      BY <2>1, <2>3
    <3> QED BY <3>1, <3>2, ThreeParts
  <2> QED BY <1>2, <2>2, <2>3, <2>4
<1>6. \A k \in 1..n + l : k \in 1..n \/ \E j \in 1..l : k = n + j
  <2> SUFFICES ASSUME NEW k \in 1..n + l, k \notin 1..n PROVE \E j \in 1..l : k = n + j
    OBVIOUS
  <2>1. k - n \in 1..l /\ k = n + (k - n)
    OBVIOUS
  <2> QED BY <2>1
<1>7. ASSUME NEW k \in 1..n + l PROVE d[k] \notin {DQuote, "\\"}
  <2>1. CASE k \in 1..n
    BY <1>0, <1>3, <2>1 DEF Expanding
  <2>2. CASE \E j \in 1..l : k = n + j
    BY <1>0, <1>3, <2>2
  <2> QED BY <1>6, <2>1, <2>2
<1>8. \A k \in 1..n : At(s, k) = done[k]
  <2>1. PICK from \in Nat, last \in Nat : from = n + 1 /\ last = from + (Len(text) + 1 - i)
    <3>1. n + 1 \in Nat /\ n + 1 + (Len(text) + 1 - i) \in Nat
      BY <1>1
    <3> QED BY <3>1
  <2>2. ReadsHalf(s, text, done, i, from, last)
    BY <1>0, <1>1, <2>1, HalfLineReads
  <2>3. \A k \in 1..n : k \in 1..from - 1
    BY <2>1
  <2> QED BY <2>2, <2>3 DEF ReadsHalf
<1>9. \A k \in 1..n + l : At(r, k) = d[k]
  <2>1. PICK from \in Nat, last \in Nat : from = n + l + 1 /\ last = from + (Len(text) + 1 - m)
    <3>1. n + l + 1 \in Nat /\ n + l + 1 + (Len(text) + 1 - m) \in Nat
      BY <1>1, <1>4
    <3> QED BY <3>1
  <2>2. ReadsHalf(r, text, d, m, from, last)
    BY <1>1, <1>2, <1>3, <1>4, <2>1, HalfLineReads
  <2>3. \A k \in 1..n + l : k \in 1..from - 1
    BY <2>1
  <2> QED BY <2>2, <2>3 DEF ReadsHalf
<1>10. ASSUME NEW k \in 1..n + l, d[k] = "$" PROVE k < r.count /\ At(r, k + 1) # "?"
  <2>1. CASE k \in 1..n
    <3>1. k < s.count /\ At(s, k + 1) # "?"
      BY <1>0, <1>3, <1>10, <2>1 DEF Expanding
    <3>2. k < r.count
      BY <1>1, <2>1, <3>1
    <3>3. CASE k = n
      BY <1>0, <3>1, <3>2, <3>3
    <3>4. CASE k # n
      <4>1. k + 1 \in 1..n /\ k + 1 \in 1..n + l
        BY <2>1, <3>4
      <4> QED BY <1>3, <1>8, <1>9, <3>1, <3>2, <4>1
    <3> QED BY <3>3, <3>4
  <2>2. CASE \E j \in 1..l : k = n + j
    BY <1>0, <1>3, <1>10, <2>2
  <2> QED BY <1>6, <2>1, <2>2
<1>11. r.count <= Len(d) + 1
  BY <1>0, <1>3
<1> QED BY <1>2, <1>3, <1>4, <1>5, <1>7, <1>10, <1>11 DEF Expanding

\* A `$' under the index of check_var stands where the text is as it was typed.
LEMMA AtDollar ==
  ASSUME NEW text, PairText(text), NEW f, NEW s, NEW i, NEW done,
         Expanding(s, text, f, i, done), At(s, s.count) = "$"
  PROVE  /\ s.count = Len(done) + 1 /\ i \in 1..Len(text) /\ text[i] = "$"
         /\ At(s, s.count + 1) = IF i < Len(text) THEN text[i + 1] ELSE DQuote
<1>0. /\ done \in Seq(Char) /\ s.count \in Nat /\ text \in Seq(Char)
      /\ i \in 1..Len(text) + 1 /\ s.input = HalfLine(done, text, i)
      /\ 1 <= s.count /\ s.count <= Len(done) + 1
  BY DEF Expanding, PairText
<1>1. PICK N \in Nat, from \in Nat, last \in Nat :
        N = Len(text) /\ from = Len(done) + 1 /\ last = from + (N + 1 - i)
  <2>1. Len(text) \in Nat /\ Len(done) + 1 \in Nat
    BY <1>0
  <2>2. Len(text) + 1 - i \in Nat
    BY <1>0, <2>1
  <2>3. Len(done) + 1 + (Len(text) + 1 - i) \in Nat
    BY <2>1, <2>2
  <2> QED BY <2>1, <2>3
<1>2. ReadsHalf(s, text, done, i, from, last)
  BY <1>0, <1>1, HalfLineReads
<1>3. s.count = from
  <2> SUFFICES ASSUME s.count # from PROVE FALSE
    BY <1>1
  <2>1. s.count \in 1..from - 1 /\ s.count \in 1..Len(done)
    BY <1>0, <1>1
  <2>2. done[s.count] = "$"
    BY <1>2, <2>1 DEF ReadsHalf
  <2>3. s.count < s.count
    BY <2>1, <2>2 DEF Expanding
  <2> QED BY <1>0, <2>3
<1>4. i # N + 1
  <2> SUFFICES ASSUME i = N + 1 PROVE FALSE
    OBVIOUS
  <2>1. from = last
    BY <1>1
  <2>2. At(s, from) = DQuote
    BY <1>2, <2>1 DEF ReadsHalf
  <2> QED BY <1>3, <2>2, Distinct
<1>5. i \in 1..N
  BY <1>0, <1>1, <1>4
<1>6. text[i] = "$"
  <2>1. i \in i..N /\ from + (i - i) = from
    BY <1>5
  <2> QED BY <1>1, <1>2, <1>3, <2>1 DEF ReadsHalf
<1>7. At(s, from + 1) = IF i < N THEN text[i + 1] ELSE DQuote
  <2>1. CASE i < N
    <3>1. i + 1 \in i..N /\ from + ((i + 1) - i) = from + 1
      BY <1>5, <2>1
    <3> QED BY <1>1, <1>2, <2>1, <3>1 DEF ReadsHalf
  <2>2. CASE ~(i < N)
    <3>1. from + 1 = last
      BY <1>1, <1>5, <2>2
    <3> QED BY <1>2, <2>2, <3>1 DEF ReadsHalf
  <2> QED BY <2>1, <2>2
<1> QED BY <1>1, <1>3, <1>5, <1>6, <1>7

\* A status is written in digits.
LEMMA ItoaDigits ==
  ASSUME NEW n \in 0..255
  PROVE  \A k \in 1..Len(Itoa[n]) : Itoa[n][k] \in Digit
<1>1. n \in Nat /\ n \div 100 \in Nat /\ n \div 10 \in Nat
  OBVIOUS
<1>2. Figure(n) \in Digit /\ Figure(n \div 10) \in Digit /\ Figure(n \div 100) \in Digit
  BY <1>1, FigureType
<1> PICK all : all = <<Figure(n \div 100), Figure(n \div 10), Figure(n)>>
  OBVIOUS
<1>3. all \in Seq(Digit) /\ Len(all) = 3
  BY <1>2
<1> PICK f \in 1..3 : f = IF n < 10 THEN 3 ELSE IF n < 100 THEN 2 ELSE 1
  BY <1>1
<1>4. Itoa[n] = SubSeq(all, f, 3)
  BY DEF Itoa
<1>5. SubSeq(all, f, 3) \in Seq(Digit)
  BY <1>3
<1>6. \A x \in Seq(Digit) : \A k \in 1..Len(x) : x[k] \in Digit
  OBVIOUS
<1> QED BY <1>4, <1>5, <1>6

\* The quote at the beginning of the line is open, and nothing has been read yet.
Opens(s) ==
  /\ Typed(s) /\ s.double_quote /\ ~s.single_quote /\ ~s.error /\ ~s.continue_var
  /\ s.quote = 0 /\ s.anchor_pos = 0 /\ s.list = <<>> /\ s.tmp_token = None

Moved(r, x, p, c) == Opens(r) /\ r.input = x /\ r.pos = p /\ r.count = c

\* An open quote, after the line and the cursors have changed.
LEMMA OpenMoves ==
  ASSUME NEW s, Opens(s), NEW x \in Seq(Char), NEW p \in Nat, NEW c \in Nat
  PROVE  Moved([s EXCEPT !.input = x, !.pos = p, !.count = c], x, p, c)
<1>1. PICK r : r = [s EXCEPT !.input = x, !.pos = p, !.count = c]
  OBVIOUS
<1>2. Opens(r) /\ r.input = x /\ r.pos = p /\ r.count = c
  BY <1>1, FieldNames DEF Opens, Typed
<1> QED BY <1>1, <1>2 DEF Moved

\* A run of characters ends where the first other one stands.
LEMMA SkipOverOnly ==
  ASSUME NEW s, s.input \in Seq(Char), NEW S, NUL \notin S, NEW from \in Nat,
         NEW m \in Nat, from <= m, m <= Len(s.input), At(s, m) \notin S,
         \A k \in from..m - 1 : At(s, k) \in S
  PROVE  SkipOver(s, from, S) = m
<1>0. Len(s.input) \in Nat /\ from <= Len(s.input)
  OBVIOUS
<1>1. PICK e : e = SkipOver(s, from, S)
  OBVIOUS
<1>2. /\ e \in Nat /\ from <= e /\ e <= Len(s.input) /\ At(s, e) \notin S
      /\ \A k \in from..e - 1 : At(s, k) \in S
  BY <1>0, <1>1, SkipOverStops
<1>3. ~(m < e)
  <2> SUFFICES ASSUME m < e PROVE FALSE
    OBVIOUS
  <2>1. m \in from..e - 1
    BY <1>2
  <2> QED BY <1>2, <2>1
<1>4. ~(e < m)
  <2> SUFFICES ASSUME e < m PROVE FALSE
    OBVIOUS
  <2>1. e \in from..m - 1
    BY <1>2
  <2> QED BY <1>2, <2>1
<1> QED BY <1>1, <1>2, <1>3, <1>4

\* A piece stands where the text began.
Stands(r, done, v) == At(r, Len(done) + 1) = v[1]

\* The first character of a piece that has been put into the line.
LEMMA PieceStands ==
  ASSUME NEW text \in Seq(Char), NEW done \in Seq(Char), NEW v \in Seq(Char), Len(v) >= 1,
         NEW m \in 1..Len(text) + 1, NEW r, r.input = HalfLine(done \o v, text, m)
  PROVE  Stands(r, done, v)
<1>0. PICK n \in Nat, l \in Nat : n = Len(done) /\ l = Len(v) /\ l >= 1
  OBVIOUS
<1>1. PICK d : d = done \o v
  OBVIOUS
<1>2. d \in Seq(Char) /\ Len(d) = n + l /\ \A k \in 1..l : d[n + k] = v[k]
  <2>1. /\ done \o v \in Seq(Char) /\ Len(done \o v) = Len(done) + Len(v)
        /\ \A k \in 1..Len(v) : (done \o v)[Len(done) + k] = v[k]
    BY TwoParts
  <2> QED BY <1>0, <1>1, <2>1
<1>3. PICK from \in Nat, last \in Nat : from = n + l + 1 /\ last = from + (Len(text) + 1 - m)
  <2>1. n + l + 1 \in Nat /\ n + l + 1 + (Len(text) + 1 - m) \in Nat
    OBVIOUS
  <2> QED BY <2>1
<1>4. ReadsHalf(r, text, d, m, from, last)
  BY <1>1, <1>2, <1>3, HalfLineReads
<1>5. n + 1 \in 1..from - 1 /\ 1 \in 1..l
  BY <1>0, <1>3
<1> QED BY <1>0, <1>2, <1>4, <1>5 DEF ReadsHalf, Stands


\* $? in quotes becomes the digits of the status.
LEMMA MarkExpands ==
  ASSUME NEW text, PairText(text), NEW f, Expansion(text, f), NEW s, Opens(s), NEW i, NEW done,
         Expanding(s, text, f, i, done), status \in 0..255,
         At(s, s.count) = "$", At(s, s.count + 1) = "?",
         NEW r, r = [ExpandExitStatus([s EXCEPT !.pos = s.count]) EXCEPT !.count = @ + 1]
  PROVE  Opens(r) /\ \E m, d : Expanding(r, text, f, m, d)
<1>0. /\ done \in Seq(Char) /\ s.count \in Nat /\ s.pos \in Nat /\ text \in Seq(Char)
      /\ i \in 1..Len(text) + 1 /\ s.input = HalfLine(done, text, i)
      /\ 1 <= s.pos /\ s.pos <= s.count /\ s.count <= Len(done) + 1
  BY DEF Expanding, PairText
<1>1. PICK N \in Nat, from \in Nat, last \in Nat :
        N = Len(text) /\ from = Len(done) + 1 /\ last = from + (N + 1 - i)
  <2>1. Len(text) \in Nat /\ Len(done) + 1 \in Nat
    BY <1>0
  <2>2. Len(text) + 1 - i \in Nat
    BY <1>0, <2>1
  <2>3. Len(done) + 1 + (Len(text) + 1 - i) \in Nat
    BY <2>1, <2>2
  <2> QED BY <2>1, <2>3
<1>2. ReadsHalf(s, text, done, i, from, last)
  BY <1>0, <1>1, HalfLineReads
<1>3. /\ s.count = from /\ i \in 1..N /\ text[i] = "$"
      /\ At(s, from + 1) = IF i < N THEN text[i + 1] ELSE DQuote
  <2>1. /\ s.count = Len(done) + 1 /\ i \in 1..Len(text) /\ text[i] = "$"
        /\ At(s, s.count + 1) = IF i < Len(text) THEN text[i + 1] ELSE DQuote
    BY AtDollar
  <2> QED BY <1>1, <2>1
<1>4. i < N /\ text[i + 1] = "?"
  BY <1>3, Distinct
<1>m. PICK m \in i..Len(text) + 1 : m = i + 2 /\ m \in 1..Len(text) + 1
  BY <1>1, <1>3, <1>4
<1>v. PICK v : v = Itoa[status]
  OBVIOUS
<1>5. v \in Seq(Char) /\ Len(v) \in Nat /\ Len(v) >= 1
  <2>1. v \in Seq(Char) /\ Len(v) >= 1
    BY <1>v, ItoaType
  <2> QED BY <2>1
<1>6. f[i] = v \o f[m]
  <2>1. IsMark(text, i)
    BY <1>1, <1>3, <1>4 DEF IsMark
  <2> QED BY <1>1, <1>3, <1>m, <1>v, <2>1 DEF Expansion, PieceAt, PieceIn, NextAt
<1>p. PICK p : p = [s EXCEPT !.pos = from]
  OBVIOUS
<1>7. p.input = s.input /\ p.anchor_pos = 0 /\ p.count = from
  <2>1. Walks(s, p) /\ p.anchor_pos = s.anchor_pos /\ p.count = s.count
    BY <1>p, CursorMoves DEF Opens
  <2> QED BY <1>3, <2>1 DEF Walks, Opens
<1>a. \A k : At(p, k) = At(s, k)
  BY <1>7 DEF At
<1>8. Occurs(p, p.anchor_pos, "$", "?") = from
  <2> DEFINE stands == {k \in p.anchor_pos..Len(p.input) : At(p, k) = "$" /\ At(p, k + 1) = "?"}
  <2>1. from \in stands
    <3>1. from \in 0..Len(s.input)
      <4>1. Len(s.input) = last + 1 /\ from <= last
        BY <1>0, <1>1, <1>2 DEF ReadsHalf
      <4> QED BY <4>1
    <3> QED BY <1>3, <1>7, <1>a, <3>1
  <2>2. stands \subseteq Nat
    BY <1>7
  <2>3. ASSUME NEW y \in stands PROVE from <= y
    <3>1. y \in Nat /\ At(s, y) = "$" /\ At(s, y + 1) = "?"
      BY <1>7, <1>a
    <3> HIDE DEF stands
    <3> SUFFICES ASSUME ~(from <= y) PROVE FALSE
      OBVIOUS
    <3>2. y # 0
      BY <1>2, <3>1, Distinct DEF ReadsHalf
    <3>3. y \in 1..from - 1 /\ y \in 1..Len(done)
      <4>1. y \in 1..from - 1
        BY <1>1, <3>1, <3>2
      <4>2. from - 1 = Len(done)
        BY <1>0, <1>1
      <4> QED BY <4>1, <4>2
    <3>4. done[y] = "$"
      BY <1>2, <3>1, <3>3 DEF ReadsHalf
    <3> QED BY <3>1, <3>3, <3>4 DEF Expanding
  <2>4. PICK l : l = Min(stands)
    OBVIOUS
  <2>5. l = from
    <3>1. l \in stands /\ l <= from
      BY <2>1, <2>2, <2>4, MinIsLeast
    <3>2. l \in Nat /\ from <= l
      BY <2>2, <2>3, <3>1
    <3> QED BY <3>1, <3>2
  <2> QED BY <2>1, <2>4, <2>5 DEF Occurs
<1>x. PICK x : x = Text(p, 0, from) \o Itoa[status] \o Rest(p, from + 2)
  OBVIOUS
<1>9. ExpandExitStatus(p) = [p EXCEPT !.input = x]
  <2>1. from # None
    BY ValuesAssumption
  <2> QED BY <1>8, <1>x, <2>1 DEF ExpandExitStatus
<1>10. x = HalfLine(done \o v, text, m)
  <2>1. Text(p, 0, from) = Text(s, 0, from) /\ Rest(p, from + 2) = Rest(s, from + 2)
    BY <1>7 DEF Rest, Text
  <2>2. from + (m - i) = from + 2
    BY <1>0, <1>m
  <2>3. /\ Text(s, 0, from) = <<DQuote>> \o done
        /\ Rest(s, from + (m - i)) = SubSeq(text, m, Len(text)) \o <<DQuote>>
    <3>1. PartsOfHalf(s, text, done, i, from)
      BY <1>0, <1>1, HalfLineParts
    <3> QED BY <1>m, <3>1 DEF PartsOfHalf
  <2>4. (<<DQuote>> \o done) \o v \o (SubSeq(text, m, Len(text)) \o <<DQuote>>)
          = HalfLine(done \o v, text, m)
    BY <1>0, <1>5, <1>m, HalfLineGrows
  <2> QED BY <1>v, <1>x, <2>1, <2>2, <2>3, <2>4
<1>11. x \in Seq(Char)
  <2>1. p.input \in Seq(Char) /\ from \in 0..Len(p.input) /\ from + 2 \in 0..Len(p.input)
    <3>1. s.input \in Seq(Char) /\ Len(s.input) = last + 1 /\ from + 1 <= last
      BY <1>0, <1>1, <1>2, <1>4 DEF ReadsHalf
    <3> QED BY <1>7, <3>1
  <2>2. PICK z \in 0..Len(p.input) : z = from + 2
    BY <2>1
  <2>3. Text(p, 0, from) \o v \o Rest(p, z) \in Seq(Char)
    BY <1>5, <2>1, SpliceType
  <2> QED BY <1>v, <1>x, <2>2, <2>3
<1>12. r = [s EXCEPT !.input = x, !.pos = from, !.count = from + 1]
  <2>1. DOMAIN s = Fields /\ DOMAIN p = Fields
    BY <1>p DEF Opens, Typed
  <2>2. r = [[p EXCEPT !.input = x] EXCEPT !.count = @ + 1]
    BY <1>3, <1>p, <1>9
  <2>3. r = [p EXCEPT !.input = x, !.count = from + 1]
    BY <1>7, <2>1, <2>2, FieldNames
  <2> QED BY <1>p, <2>1, <2>3, FieldNames
<1>13. Opens(r) /\ r.input = x /\ r.pos = from /\ r.count = from + 1
  <2>1. PICK c \in Nat : c = from + 1
    OBVIOUS
  <2>2. Moved([s EXCEPT !.input = x, !.pos = from, !.count = c], x, from, c)
    BY <1>1, <1>11, <2>1, OpenMoves
  <2> QED BY <1>12, <2>1, <2>2 DEF Moved
<1>14. At(r, from) = v[1]
  <2>1. r.input = HalfLine(done \o v, text, m)
    BY <1>10, <1>13
  <2>2. Stands(r, done, v)
    BY <1>0, <1>5, <1>m, <2>1, PieceStands
  <2> QED BY <1>1, <2>2 DEF Stands
<1>15. \A k \in 1..Len(v) : v[k] \notin {DQuote, "\\", "$", "?"}
  <2>1. \A k \in 1..Len(v) : v[k] \in Digit
    BY <1>v, ItoaDigits
  <2>2. Digit \cap {DQuote, "\\", "$", "?"} = {}
    BY DEF Digit, DQuote
  <2> QED BY <2>1, <2>2
<1>16. /\ r.input = HalfLine(done \o v, text, m) /\ r.pos \in Nat /\ r.count \in Nat
       /\ 1 <= r.pos /\ r.pos <= r.count /\ s.count <= r.count
       /\ r.count <= Len(done) + Len(v) + 1
  <2>1. Len(done) \in Nat /\ 1 <= from
    BY <1>0, <1>1
  <2>2. from + 1 \in Nat /\ from <= from + 1 /\ from + 1 <= Len(done) + Len(v) + 1
    BY <1>1, <1>5, <2>1
  <2> QED BY <1>1, <1>3, <1>10, <1>13, <2>1, <2>2
<1>17. At(r, Len(done) + 1) # "?"
  <2>1. 1 \in 1..Len(v)
    BY <1>5
  <2> QED BY <1>1, <1>14, <1>15, <2>1
<1>18. Expanding(r, text, f, m, done \o v)
  BY <1>5, <1>6, <1>15, <1>16, <1>17, Advances
<1> QED BY <1>13, <1>18


\* The name behind a `$' of the text as check_var reads it in the line.
LEMMA NameInLine ==
  ASSUME NEW text \in Seq(Char), NEW done \in Seq(Char), NEW i \in 1..Len(text),
         NEW s, s.input = HalfLine(done, text, i), NEW from \in Nat, from = Len(done) + 1
  PROVE  /\ SkipOver(s, from + 1, NameChar) = from + (NameEnd(text, i) - i)
         /\ Text(s, from + 1, from + (NameEnd(text, i) - i)) = NameAt(text, i)
<1>1. PICK N \in Nat, last \in Nat : N = Len(text) /\ last = from + (N + 1 - i)
  <2>1. Len(text) \in Nat /\ from + (Len(text) + 1 - i) \in Nat
    OBVIOUS
  <2> QED BY <2>1
<1>2. ReadsHalf(s, text, done, i, from, last)
  <2>1. i \in 1..Len(text) + 1
    OBVIOUS
  <2> QED BY <1>1, <2>1, HalfLineReads
<1>3. PICK e \in i + 1..N + 1 : e = NameEnd(text, i)
  BY <1>1, NameEndIs
<1>4. /\ e = N + 1 \/ text[e] \notin NameChar
      /\ \A k \in i + 1..e - 1 : text[k] \in NameChar
  BY <1>1, <1>3, NameEndIs
<1>5. PICK b \in Nat : b = from + (e - i)
  <2>1. from + (e - i) \in Nat
    OBVIOUS
  <2> QED BY <2>1
<1>6. from + 1 <= b /\ b <= last
  BY <1>1, <1>5
<1>7. s.input \in Seq(Char) /\ b <= Len(s.input)
  <2>1. s.input \in Seq(Char) /\ Len(s.input) = last + 1
    BY <1>2 DEF ReadsHalf
  <2> QED BY <1>6, <2>1
<1>8. At(s, b) \notin NameChar
  <2>1. CASE e = N + 1
    <3>1. At(s, b) = DQuote
      BY <1>1, <1>2, <1>5, <2>1 DEF ReadsHalf
    <3> QED BY <3>1 DEF DQuote, NameChar, Letter, Digit
  <2>2. CASE e # N + 1
    <3>1. e \in i..N
      BY <2>2
    <3> QED BY <1>1, <1>2, <1>4, <1>5, <2>2, <3>1 DEF ReadsHalf
  <2> QED BY <2>1, <2>2
<1>9. ASSUME NEW k \in from + 1..b - 1 PROVE At(s, k) \in NameChar
  <2>1. PICK j \in i + 1..e - 1 : j = i + (k - from)
    <3>1. i + (k - from) \in i + 1..e - 1
      BY <1>5
    <3> QED BY <3>1
  <2>2. j \in i..N /\ from + (j - i) = k
    BY <2>1
  <2>3. At(s, k) = text[j]
    BY <1>1, <1>2, <2>2 DEF ReadsHalf
  <2> QED BY <1>4, <2>3
<1>10. SkipOver(s, from + 1, NameChar) = b
  <2>1. NUL \notin NameChar
    BY NulIsNone
  <2>2. PICK a \in Nat : a = from + 1
    OBVIOUS
  <2> QED BY <1>6, <1>7, <1>8, <1>9, <2>1, <2>2, SkipOverOnly
<1>11. Text(s, from + 1, b) = NameAt(text, i)
  <2>1. PICK d : d = done \o SubSeq(text, i, i)
    OBVIOUS
  <2>2. d \in Seq(Char) /\ Len(d) = from
    <3>1. SubSeq(text, i, i) \in Seq(Char) /\ Len(SubSeq(text, i, i)) = 1
      OBVIOUS
    <3>2. d \in Seq(Char) /\ Len(d) = Len(done) + 1
      BY <2>1, <3>1, ConcatProperties
    <3> QED BY <3>2
  <2>3. s.input = HalfLine(d, text, i + 1)
    <3>1. PICK m \in i..Len(text) + 1 : m = i + 1 /\ m - 1 = i
      OBVIOUS
    <3>2. HalfLine(done, text, i) = HalfLine(done \o SubSeq(text, i, m - 1), text, m)
      <4>1. i \in 1..Len(text) + 1
        OBVIOUS
      <4> QED BY <4>1, HalfLineGoesOn
    <3> QED BY <2>1, <3>1, <3>2
  <2>4. PICK a \in Nat, j \in 1..Len(text) + 1 : a = from + 1 /\ j = i + 1
    <3>1. from + 1 \in Nat /\ i + 1 \in 1..Len(text) + 1
      OBVIOUS
    <3> QED BY <3>1
  <2>5. PartsOfHalf(s, text, d, j, a)
    BY <2>2, <2>3, <2>4, HalfLineParts
  <2>6. e \in j..Len(text) + 1 /\ a + (e - j) = b
    BY <1>1, <1>5, <2>4
  <2>7. Text(s, a, b) = SubSeq(text, j, e - 1)
    BY <2>5, <2>6 DEF PartsOfHalf
  <2> QED BY <1>3, <2>4, <2>7 DEF NameAt
<1> QED BY <1>3, <1>5, <1>10, <1>11

\* What stands behind a `$' of the text begins a name, or there is none.
LEMMA NameBegins ==
  ASSUME NEW text \in Seq(Char), NEW i \in 1..Len(text), text[i] = "$"
  PROVE  /\ NameAt(text, i) = <<>> => ~IsName(text, i)
         /\ NameAt(text, i) # <<>> /\ NameAt(text, i)[1] \notin Digit => IsName(text, i)
<1>1. PICK N \in Nat, e \in i + 1..Len(text) + 1 : N = Len(text) /\ e = NameEnd(text, i)
  BY NameEndIs
<1>2. /\ e = N + 1 \/ text[e] \notin NameChar
      /\ \A k \in i + 1..e - 1 : text[k] \in NameChar
  BY <1>1, NameEndIs
<1>3. PICK name : name = SubSeq(text, i + 1, e - 1)
  OBVIOUS
<1>4. /\ Len(name) = e - 1 - i
      /\ \A k \in 1..e - 1 - i : name[k] = text[(i + 1) + k - 1]
  BY <1>1, <1>3
<1>5. NameAt(text, i) = name
  BY <1>1, <1>3 DEF NameAt
<1>6. ASSUME name = <<>> PROVE ~IsName(text, i)
  <2>1. e = i + 1
    <3>1. Len(name) = 0
      BY <1>6
    <3> QED BY <1>1, <1>4, <3>1
  <2>2. Letter \cup {"_"} \subseteq NameChar
    BY Zenon DEF NameChar
  <2>3. ~(i < Len(text)) \/ text[i + 1] \notin NameChar
    BY <1>1, <1>2, <2>1
  <2> QED BY <2>2, <2>3 DEF IsName
<1>7. ASSUME name # <<>>, name[1] \notin Digit PROVE IsName(text, i)
  <2>1. e # i + 1
    <3> SUFFICES ASSUME e = i + 1 PROVE FALSE
      OBVIOUS
    <3>1. name = <<>>
      BY <1>3, SubSeqEmpty
    <3> QED BY <1>7, <3>1
  <2>2. i + 1 \in i + 1..e - 1 /\ i + 1 <= N
    BY <1>1, <2>1
  <2>3. name[1] = text[i + 1]
    <3>1. 1 \in 1..e - 1 - i /\ (i + 1) + 1 - 1 = i + 1
      BY <1>1, <2>1
    <3> QED BY <1>4, <3>1
  <2>4. text[i + 1] \in Letter \cup {"_"}
    BY <1>2, <1>7, <2>2, <2>3 DEF NameChar
  <2>5. i < Len(text)
    BY <1>1, <2>2
  <2> QED BY <2>4, <2>5 DEF IsName
<1> QED BY <1>5, <1>6, <1>7


\* A part of one character.
LEMMA OneCharacter ==
  ASSUME NEW S, NEW s \in Seq(S), NEW i \in 1..Len(s)
  PROVE  SubSeq(s, i, i) = <<s[i]>> /\ <<s[i]>> \in Seq(S)
<1>1. PICK z : z = SubSeq(s, i, i)
  OBVIOUS
<1>2. z \in Seq(S) /\ Len(z) = 1 /\ z[1] = s[i]
  <2>1. /\ i \in 1..Len(s) + 1 /\ i \in i - 1..Len(s) /\ (i + 1) - i = 1 /\ (i - 1) + 1 = i
    OBVIOUS
  <2>2. z \in Seq(S)
    BY <1>1
  <2>3. Len(z) = 1
    BY <1>1, <2>1
  <2>4. z[1] = s[i]
    BY <1>1, <2>1
  <2> QED BY <2>2, <2>3, <2>4
<1>3. z = <<s[i]>>
  BY <1>2
<1> QED BY <1>1, <1>2, <1>3

\* A name in quotes becomes its value, or its `$' is passed over.
LEMMA NameExpands ==
  ASSUME NEW text, PairText(text), NEW f, Expansion(text, f), NEW s, Opens(s), NEW i, NEW done,
         Expanding(s, text, f, i, done),
         At(s, s.count) = "$", At(s, s.count + 1) \notin {"?", DQuote},
         NEW r, r = [HandleVariableExpansion(s, s.count) EXCEPT !.count = @ + 1]
  PROVE  Opens(r) /\ \E m, d : Expanding(r, text, f, m, d)
<1>0. /\ done \in Seq(Char) /\ s.count \in Nat /\ s.pos \in Nat /\ text \in Seq(Char)
      /\ i \in 1..Len(text) + 1 /\ s.input = HalfLine(done, text, i)
      /\ 1 <= s.pos /\ s.pos <= s.count /\ s.count <= Len(done) + 1
  BY DEF Expanding, PairText
<1>1. PICK N \in Nat, from \in Nat : N = Len(text) /\ from = Len(done) + 1
  <2>1. Len(text) \in Nat /\ Len(done) + 1 \in Nat
    BY <1>0
  <2> QED BY <2>1
<1>3. /\ s.count = from /\ i \in 1..N /\ text[i] = "$"
      /\ At(s, from + 1) = IF i < N THEN text[i + 1] ELSE DQuote
  <2>1. /\ s.count = Len(done) + 1 /\ i \in 1..Len(text) /\ text[i] = "$"
        /\ At(s, s.count + 1) = IF i < Len(text) THEN text[i + 1] ELSE DQuote
    BY AtDollar
  <2> QED BY <1>1, <2>1
<1>4. ~IsMark(text, i)
  BY <1>1, <1>3 DEF IsMark
<1>5. PICK e \in i + 1..Len(text) + 1 : e = NameEnd(text, i) /\ e \in i..Len(text) + 1
  BY <1>0, <1>1, <1>3, NameEndIs
<1>n. PICK name : name = NameAt(text, i)
  OBVIOUS
<1>6. /\ SkipOver(s, from + 1, NameChar) = from + (e - i)
      /\ Text(s, from + 1, from + (e - i)) = name
  BY <1>0, <1>1, <1>3, <1>5, <1>n, NameInLine
<1>p. PICK p : p = HandleVariableExpansion(s, s.count)
  OBVIOUS
<1>x. PICK x : x = Text(s, 0, from) \o Env[name] \o Rest(s, from + (e - i))
  OBVIOUS
<1>7. p = IF name \notin DOMAIN Env THEN s ELSE [s EXCEPT !.input = x]
  BY <1>3, <1>6, <1>p, <1>x DEF HandleVariableExpansion
<1>d. DOMAIN s = Fields /\ s.input \in Seq(Char)
  BY DEF Opens, Typed
<1>c. PICK c \in Nat : c = from + 1
  OBVIOUS
<1>8. CASE name = <<>>
  <2>1. p = s
    <3>1. name \notin DOMAIN Env
      BY <1>8, ValuesAssumption
    <3> QED BY <1>7, <3>1
  <2>2. r = [s EXCEPT !.input = s.input, !.pos = s.pos, !.count = c]
    <3>1. r = [s EXCEPT !.count = @ + 1]
      BY <1>p, <2>1
    <3> QED BY <1>3, <1>c, <1>d, <3>1, FieldNames
  <2>3. Moved(r, s.input, s.pos, c)
    <3>1. Moved([s EXCEPT !.input = s.input, !.pos = s.pos, !.count = c], s.input, s.pos, c)
      BY <1>0, <1>c, <1>d, OpenMoves
    <3> QED BY <2>2, <3>1
  <2>m. PICK m \in i..Len(text) + 1 : m = i + 1 /\ m - 1 = i
    BY <1>0, <1>1, <1>3
  <2>v. PICK v : v = SubSeq(text, i, m - 1)
    OBVIOUS
  <2>4. v = <<"$">> /\ v \in Seq(Char) /\ Len(v) = 1
    <3>1. i \in 1..Len(text) /\ v = SubSeq(text, i, i)
      BY <1>1, <1>3, <2>m, <2>v
    <3>2. v = <<text[i]>> /\ v \in Seq(Char)
      BY <1>0, <3>1, OneCharacter
    <3> QED BY <1>3, <3>2
  <2>5. f[i] = v \o f[m]
    <3>1. ~IsName(text, i)
      BY <1>0, <1>1, <1>3, <1>8, <1>n, NameBegins
    <3>2. PieceAt(text, i) = v /\ NextAt(text, i) = m
      BY <1>3, <1>4, <2>m, <2>4, <3>1 DEF PieceAt, PieceIn, NextAt
    <3> QED BY <1>1, <1>3, <3>2 DEF Expansion
  <2>6. r.input = HalfLine(done \o v, text, m)
    <3>1. HalfLine(done, text, i) = HalfLine(done \o v, text, m)
      BY <1>0, <2>m, <2>v, HalfLineGoesOn
    <3> QED BY <1>0, <2>3, <3>1 DEF Moved
  <2>a. \A k : At(r, k) = At(s, k)
    BY <2>3 DEF At, Moved
  <2>7. /\ r.pos \in Nat /\ r.count \in Nat /\ 1 <= r.pos /\ r.pos <= r.count
        /\ s.count <= r.count /\ r.count <= Len(done) + Len(v) + 1
    <3>1. r.pos = s.pos /\ r.count = c
      BY <2>3 DEF Moved
    <3>2. Len(done) \in Nat
      BY <1>0
    <3>3. s.pos <= c /\ s.count <= c /\ c <= Len(done) + Len(v) + 1
      BY <1>0, <1>1, <1>3, <1>c, <2>4, <3>2
    <3> QED BY <1>0, <1>c, <3>1, <3>3
  <2>8. ASSUME NEW k \in 1..Len(v)
        PROVE  /\ v[k] \notin {DQuote, "\\"}
               /\ Len(done) + k < r.count /\ At(r, Len(done) + k + 1) # "?"
    <3>1. k = 1
      BY <2>4
    <3>2. v[k] = "$"
      BY <2>4, <3>1
    <3>3. Len(done) + k = from /\ r.count = from + 1
      BY <1>1, <1>c, <2>3, <3>1 DEF Moved
    <3>4. At(s, from + 1) # "?"
      BY <1>3
    <3>5. At(r, Len(done) + k + 1) # "?"
      BY <2>a, <3>3, <3>4
    <3>6. v[k] \notin {DQuote, "\\"}
      BY <3>2, Distinct
    <3> QED BY <1>1, <3>3, <3>5, <3>6
  <2>9. At(r, Len(done) + 1) # "?"
    BY <1>1, <1>3, <2>a, Distinct
  <2>10. Expanding(r, text, f, m, done \o v)
    BY <2>4, <2>5, <2>6, <2>7, <2>8, <2>9, Advances
  <2> QED BY <2>3, <2>10 DEF Moved
<1>9. CASE Agreed(name)
  <2>v. PICK v : v = Env[name]
    OBVIOUS
  <2>1. name \in DOMAIN Env /\ name # <<>>
    BY <1>9, ValuesAssumption DEF Agreed
  <2>2. v \in Seq(Char) /\ Len(v) \in Nat /\ Len(v) >= 1
    <3>1. v \in Seq(Char) /\ v # <<>>
      BY <1>9, <2>v, <2>1, ValueType DEF Agreed
    <3> QED BY <3>1
  <2>3. \A k \in 1..Len(v) : v[k] \notin {DQuote, "\\", "?", "$"}
    <3>1. v \in Seq(Char \ {"$"})
      BY <2>v, <2>1, ValuesAssumption
    <3>2. ToSet(v) \cap {DQuote, "\\", "?"} = {}
      BY <1>9, <2>v DEF Agreed
    <3>3. \A k \in 1..Len(v) : v[k] \in ToSet(v) /\ v[k] # "$"
      BY <3>1 DEF ToSet
    <3> QED BY <3>2, <3>3
  <2>m. PICK m \in i..Len(text) + 1 : m = e /\ m \in 1..Len(text) + 1
    BY <1>0, <1>1, <1>3, <1>5
  <2>4. f[i] = v \o f[m]
    <3>1. IsName(text, i)
      BY <1>0, <1>1, <1>3, <1>9, <1>n, <2>1, NameBegins DEF Agreed
    <3>2. PieceAt(text, i) = v /\ NextAt(text, i) = m
      BY <1>4, <1>5, <1>n, <2>v, <2>1, <2>m, <3>1 DEF PieceAt, PieceIn, NextAt
    <3> QED BY <1>1, <1>3, <3>2 DEF Expansion
  <2>5. x = HalfLine(done \o v, text, m)
    <3>1. /\ Text(s, 0, from) = <<DQuote>> \o done
          /\ Rest(s, from + (m - i)) = SubSeq(text, m, Len(text)) \o <<DQuote>>
      <4>1. PartsOfHalf(s, text, done, i, from)
        BY <1>0, <1>1, HalfLineParts
      <4> QED BY <2>m, <4>1 DEF PartsOfHalf
    <3>2. (<<DQuote>> \o done) \o v \o (SubSeq(text, m, Len(text)) \o <<DQuote>>)
            = HalfLine(done \o v, text, m)
      BY <1>0, <2>2, <2>m, HalfLineGrows
    <3> QED BY <1>x, <2>v, <2>m, <3>1, <3>2
  <2>6. x \in Seq(Char)
    <3>1. PICK last \in Nat : last = from + (N + 1 - i)
      <4>1. N \in Nat /\ from \in Nat /\ i \in 1..N
        BY <1>1, <1>3
      <4>2. from + (N + 1 - i) \in Nat
        BY <4>1
      <4> QED BY <4>2
    <3>2. ReadsHalf(s, text, done, i, from, last)
      BY <1>0, <1>1, <3>1, HalfLineReads
    <3>3. PICK z \in 0..Len(s.input) : z = from + (e - i) /\ from \in 0..Len(s.input)
      <4>1. Len(s.input) = last + 1
        BY <3>2 DEF ReadsHalf
      <4>a. N = Len(text) /\ N \in Nat /\ from \in Nat /\ i \in 1..N /\ e \in i + 1..N + 1
        BY <1>1, <1>3, <1>5
      <4>b. i \in Nat /\ e \in Nat /\ i <= N /\ i <= e /\ e <= N + 1
        BY <4>a
      <4>2. from + (e - i) \in 0..last + 1 /\ from \in 0..last + 1
        <5>1. last = from + (N + 1 - i) /\ last \in Nat /\ N \in Nat /\ from \in Nat
          BY <3>1, <4>a
        <5>2. PICK k \in Nat : k = e - i
          <6>1. e - i \in Nat
            BY <4>b
          <6> QED BY <6>1
        <5>3. PICK g \in Nat : g = N + 1 - i
          <6>1. N + 1 - i \in Nat
            BY <4>b, <5>1
          <6> QED BY <6>1
        <5>4. k <= g
          BY <4>b, <5>1, <5>2, <5>3
        <5>5. from + k \in 0..last + 1 /\ from \in 0..last + 1
          BY <5>1, <5>2, <5>3, <5>4
        <5> QED BY <5>2, <5>5
      <4> QED BY <4>1, <4>2
    <3>4. Text(s, 0, from) \o v \o Rest(s, z) \in Seq(Char)
      BY <1>d, <2>2, <3>3, SpliceType
    <3> QED BY <1>x, <2>v, <3>3, <3>4
  <2>7. r = [s EXCEPT !.input = x, !.pos = s.pos, !.count = c]
    <3>1. p = [s EXCEPT !.input = x]
      BY <1>7, <2>1
    <3>2. p.count = from /\ DOMAIN p = Fields
      BY <1>3, <1>d, <3>1, FieldNames
    <3>3. r = [p EXCEPT !.count = c]
      BY <1>c, <1>p, <3>2
    <3> QED BY <1>d, <3>1, <3>3, FieldNames
  <2>8. Moved(r, x, s.pos, c)
    <3>1. Moved([s EXCEPT !.input = x, !.pos = s.pos, !.count = c], x, s.pos, c)
      BY <1>0, <1>c, <2>6, OpenMoves
    <3> QED BY <2>7, <3>1
  <2>9. r.input = HalfLine(done \o v, text, m)
    BY <2>5, <2>8 DEF Moved
  <2>10. /\ r.pos \in Nat /\ r.count \in Nat /\ 1 <= r.pos /\ r.pos <= r.count
         /\ s.count <= r.count /\ r.count <= Len(done) + Len(v) + 1
    <3>1. r.pos = s.pos /\ r.count = c
      BY <2>8 DEF Moved
    <3>2. Len(done) \in Nat
      BY <1>0
    <3>3. s.pos <= c /\ s.count <= c /\ c <= Len(done) + Len(v) + 1
      BY <1>0, <1>1, <1>3, <1>c, <2>2, <3>2
    <3> QED BY <1>0, <1>c, <3>1, <3>3
  <2>11. At(r, Len(done) + 1) # "?"
    <3>1. Stands(r, done, v)
      BY <1>0, <2>2, <2>9, <2>m, PieceStands
    <3>2. 1 \in 1..Len(v)
      BY <2>2
    <3> QED BY <2>3, <3>1, <3>2 DEF Stands
  <2>12. \A k \in 1..Len(v) : v[k] \notin {DQuote, "\\"} /\ v[k] # "$"
    BY <2>3
  <2>13. Expanding(r, text, f, m, done \o v)
    BY <2>2, <2>4, <2>9, <2>10, <2>11, <2>12, Advances
  <2> QED BY <2>8, <2>13 DEF Moved
<1> QED BY <1>1, <1>3, <1>8, <1>9, <1>n DEF PairText


\* What means nothing in quotes is passed over up to the next `$' or the quote.
LEMMA PlainExpands ==
  ASSUME NEW text, PairText(text), NEW f, Expansion(text, f), NEW s, Opens(s), NEW i, NEW done,
         Expanding(s, text, f, i, done), status \in 0..255,
         At(s, s.count) \notin {NUL, DQuote},
         At(s, s.count) # "$" \/ At(s, s.count + 1) = Space,
         NEW r, r = [s EXCEPT !.count = Min(Plain(s))]
  PROVE  Opens(r) /\ \E m, d : Expanding(r, text, f, m, d)
<1>0. /\ done \in Seq(Char) /\ s.count \in Nat /\ s.pos \in Nat /\ text \in Seq(Char)
      /\ i \in 1..Len(text) + 1 /\ s.input = HalfLine(done, text, i)
      /\ 1 <= s.pos /\ s.pos <= s.count /\ s.count <= Len(done) + 1
  BY DEF Expanding, PairText
<1>1. PICK N \in Nat, from \in Nat, last \in Nat :
        N = Len(text) /\ from = Len(done) + 1 /\ last = from + (N + 1 - i)
  <2>1. Len(text) \in Nat /\ Len(done) + 1 \in Nat
    BY <1>0
  <2>2. Len(text) + 1 - i \in Nat
    BY <1>0, <2>1
  <2>3. Len(done) + 1 + (Len(text) + 1 - i) \in Nat
    BY <2>1, <2>2
  <2> QED BY <2>1, <2>3
<1>2. ReadsHalf(s, text, done, i, from, last)
  BY <1>0, <1>1, HalfLineReads
<1>d. DOMAIN s = Fields /\ s.input \in Seq(Char) /\ Len(s.input) = last + 1
  BY <1>2 DEF Opens, Typed, ReadsHalf
<1>l. i <= N + 1 /\ from <= last /\ s.count <= from /\ s.count < last
  <2>1. i <= N + 1 /\ from <= last /\ s.count <= from
    BY <1>0, <1>1
  <2>2. s.count # last
    BY <1>2 DEF ReadsHalf
  <2> QED BY <1>0, <2>1, <2>2
<1>c. PICK c : c = Min(Plain(s))
  OBVIOUS
<1>3. /\ c \in Nat /\ s.count + 1 <= c /\ c <= last /\ At(s, c) \in {NUL, DQuote, "$"}
      /\ \A k \in s.count + 1..c - 1 : At(s, k) \notin {NUL, DQuote, "$"}
  <2>1. last \in Plain(s)
    <3>1. last \in s.count + 1..Len(s.input) + 1
      <4>1. s.count \in Nat /\ last \in Nat /\ s.count < last /\ Len(s.input) = last + 1
        BY <1>0, <1>d, <1>l
      <4> QED BY <4>1
    <3> QED BY <1>2, <3>1 DEF Plain, ReadsHalf
  <2>2. Plain(s) \subseteq Nat
    BY <1>0 DEF Plain
  <2>3. c \in Plain(s) /\ \A y \in Plain(s) : c <= y
    BY <1>c, <2>1, <2>2, MinIsLeast
  <2>4. /\ c \in Nat /\ c <= last /\ c \in s.count + 1..Len(s.input) + 1
        /\ At(s, c) \in {NUL, DQuote, "$"}
    BY <2>1, <2>2, <2>3 DEF Plain
  <2>5. ASSUME NEW k \in s.count + 1..c - 1 PROVE At(s, k) \notin {NUL, DQuote, "$"}
    <3>1. k \in s.count + 1..Len(s.input) + 1 /\ ~(c <= k)
      <4>0. s.count \in Nat /\ c \in Nat /\ k \in s.count + 1..c - 1
        BY <1>0, <2>4, <2>5
      <4>1. k \in Nat /\ s.count + 1 <= k /\ k < c
        BY <4>0
      <4>2. c <= last /\ Len(s.input) = last + 1 /\ c \in Nat
        BY <1>d, <2>4
      <4>3. k <= last + 2
        BY <4>1, <4>2
      <4>4. s.count \in Nat /\ Len(s.input) + 1 = last + 2
        BY <1>0, <4>2
      <4> QED BY <4>1, <4>2, <4>3, <4>4
    <3>2. k \notin Plain(s)
      BY <2>3, <3>1
    <3> QED BY <3>1, <3>2 DEF Plain
  <2>6. s.count + 1 <= c
    BY <1>0, <2>4
  <2> QED BY <2>4, <2>5, <2>6
<1>4. from <= c
  <2> SUFFICES ASSUME c < from PROVE FALSE
    BY <1>3
  <2>1. c \in 1..from - 1 /\ c \in 1..Len(done)
    <3>1. c \in Nat /\ 1 <= c
      BY <1>0, <1>3
    <3>2. from \in Nat /\ from - 1 = Len(done)
      BY <1>0, <1>1
    <3>3. c \in 1..from - 1
      BY <3>1, <3>2
    <3> QED BY <3>2, <3>3
  <2>2. At(s, c) = done[c] /\ done[c] \in Char
    BY <1>0, <1>2, <2>1 DEF ReadsHalf
  <2>3. done[c] # DQuote /\ done[c] # NUL
    BY <2>1, <2>2, ValuesAssumption DEF Expanding
  <2>4. done[c] = "$"
    BY <1>3, <2>2, <2>3
  <2>5. c < s.count
    BY <2>1, <2>4 DEF Expanding
  <2> QED BY <1>0, <1>3, <2>5
<1>m. PICK m \in i..Len(text) + 1 : m = i + (c - from) /\ m - i = c - from
  <2>1. i \in Nat /\ N = Len(text) /\ last = from + (N + 1 - i) /\ c <= last
    BY <1>0, <1>1, <1>3
  <2>2. c \in Nat /\ from <= c
    BY <1>3, <1>4
  <2>3. i + (c - from) \in i..N + 1 /\ (i + (c - from)) - i = c - from
    BY <1>1, <2>1, <2>2
  <2> QED BY <2>1, <2>3
<1>i. /\ i \in Nat /\ N \in Nat /\ c \in Nat /\ from \in Nat /\ m \in Nat /\ s.count \in Nat
      /\ m - 1 <= N /\ m - i = c - from /\ from <= c /\ s.count <= from /\ i <= m
  <2>a. i \in Nat /\ i <= N + 1
    <3>1. i \in 1..Len(text) + 1 /\ N = Len(text) /\ N \in Nat
      BY <1>0, <1>1
    <3> QED BY <3>1
  <2>1. i \in Nat /\ m \in Nat /\ m - 1 <= N /\ i <= m
    <3>1. m \in i..Len(text) + 1 /\ N = Len(text) /\ N \in Nat
      BY <1>1, <1>m
    <3> QED BY <2>a, <3>1
  <2> QED BY <1>0, <1>3, <1>4, <1>l, <1>m, <2>1
<1>v. PICK v : v = SubSeq(text, i, m - 1)
  OBVIOUS
<1>5. /\ v \in Seq(Char) /\ Len(v) = m - i
      /\ \A k \in 1..m - i : v[k] = text[i + k - 1]
  <2>1. text \in Seq(Char) /\ i \in Nat /\ i >= 1 /\ m \in Nat /\ i <= m /\ m - 1 <= Len(text)
    BY <1>0, <1>1, <1>i
  <2>2. v \in Seq(Char)
    BY <1>v, <2>1
  <2>3. Len(v) = m - i
    BY <1>v, <2>1
  <2>4. \A k \in 1..m - i : v[k] = text[i + k - 1]
    BY <1>v, <2>1
  <2> QED BY <2>2, <2>3, <2>4
<1>6. r = [s EXCEPT !.input = s.input, !.pos = s.pos, !.count = c]
  BY <1>c, <1>d, FieldNames
<1>7. Moved(r, s.input, s.pos, c)
  <2>1. Moved([s EXCEPT !.input = s.input, !.pos = s.pos, !.count = c], s.input, s.pos, c)
    BY <1>0, <1>3, <1>d, OpenMoves
  <2> QED BY <1>6, <2>1
<1>8. r.input = HalfLine(done \o v, text, m)
  <2>1. HalfLine(done, text, i) = HalfLine(done \o v, text, m)
    BY <1>0, <1>m, <1>v, HalfLineGoesOn
  <2> QED BY <1>0, <1>7, <2>1 DEF Moved
<1>a. \A k : At(r, k) = At(s, k)
  BY <1>7 DEF At, Moved
<1>9. ASSUME NEW j \in i..m - 1
      PROVE  /\ j \in i..N /\ At(s, from + (j - i)) = text[j] /\ from + (j - i) < c
             /\ text[j] = "$" => /\ j = i /\ s.count = from
                                 /\ At(s, from + 1) = Space
  <2>1. j \in i..N /\ from + (j - i) < c /\ from + (j - i) \in Nat
    BY <1>i, <1>9
  <2>2. At(s, from + (j - i)) = text[j]
    BY <1>1, <1>2, <2>1 DEF ReadsHalf
  <2>3. ASSUME text[j] = "$" PROVE j = i /\ s.count = from /\ At(s, from + 1) = Space
    <3>1. from + (j - i) \notin s.count + 1..c - 1
      BY <1>3, <2>2, <2>3
    <3>2. from + (j - i) <= s.count
      BY <1>i, <2>1, <3>1
    <3>3. j = i /\ s.count = from
      BY <1>i, <1>9, <3>2
    <3>4. from + (i - i) = from
      BY <1>0
    <3>5. At(s, from) = "$"
      BY <2>2, <2>3, <3>3, <3>4
    <3> QED BY <3>3, <3>5
  <2> QED BY <2>1, <2>2, <2>3
<1>10. f[i] = v \o f[m]
  <2>1. ASSUME NEW j \in i..m - 1 PROVE ~IsMark(text, j) /\ ~IsName(text, j)
    <3>1. CASE text[j] # "$"
      BY <3>1 DEF IsMark, IsName
    <3>2. CASE text[j] = "$"
      <4>1. j = i /\ s.count = from /\ At(s, from + 1) = Space /\ j \in i..N
        BY <1>9, <3>2
      <4>2. At(s, s.count) = "$"
        <5>1. At(s, from + (j - i)) = text[j] /\ from + (j - i) = from
          BY <1>0, <1>9, <4>1
        <5> QED BY <3>2, <4>1, <5>1
      <4>3. At(s, s.count + 1) = IF i < Len(text) THEN text[i + 1] ELSE DQuote
        BY <4>2, AtDollar
      <4>4. i < Len(text) => text[i + 1] = Space
        BY <4>1, <4>3
      <4>5. Space # "?" /\ Space \notin Letter \cup {"_"}
        BY DEF Space, Letter
      <4> QED BY <4>1, <4>4, <4>5 DEF IsMark, IsName
    <3> QED BY <3>1, <3>2
  <2>2. /\ f \in [1..Len(text) + 1 -> Seq(Char)]
        /\ \A j \in 1..Len(text) : f[j] = PieceAt(text, j) \o f[NextAt(text, j)]
    BY DEF Expansion
  <2>3. text \in Seq(Char) /\ i \in 1..Len(text) + 1
    BY <1>0
  <2>m. m \in i..Len(text) + 1
    BY <1>m
  <2>4. f[i] = SubSeq(text, i, m - 1) \o f[m]
    BY <2>m, <2>1, <2>2, <2>3, BlockExpands
  <2> QED BY <1>v, <2>4
<1>11. /\ r.pos \in Nat /\ r.count \in Nat /\ 1 <= r.pos /\ r.pos <= r.count
       /\ s.count <= r.count /\ r.count <= Len(done) + Len(v) + 1 /\ r.count = c
  <2>1. r.pos = s.pos /\ r.count = c
    BY <1>7 DEF Moved
  <2>2. Len(done) \in Nat
    BY <1>0
  <2>3. s.pos <= c /\ s.count <= c /\ c <= Len(done) + Len(v) + 1
    <3>1. s.pos \in Nat /\ s.count \in Nat /\ s.pos <= s.count
      BY <1>0
    <3>2. c \in Nat /\ s.count + 1 <= c
      BY <1>3
    <3>3. c = Len(done) + Len(v) + 1 /\ Len(v) \in Nat
      <4>1. Len(v) = c - from /\ from = Len(done) + 1 /\ Len(v) \in Nat
        BY <1>1, <1>5, <1>m
      <4> QED BY <2>2, <3>2, <4>1
    <3>4. s.count <= c /\ s.pos <= c
      BY <3>1, <3>2
    <3> QED BY <3>2, <3>3, <3>4
  <2> QED BY <1>0, <1>3, <2>1, <2>3
<1>12. ASSUME NEW k \in 1..Len(v)
       PROVE  /\ v[k] \notin {DQuote, "\\"}
              /\ v[k] = "$" => Len(done) + k < r.count /\ At(r, Len(done) + k + 1) # "?"
  <2>1. PICK j \in i..m - 1 : j = i + k - 1 /\ k \in 1..m - i
    <3>0. i \in Nat /\ m \in Nat /\ i <= m /\ Len(v) = m - i
      BY <1>5, <1>i
    <3>a. k \in 1..m - i
      BY <3>0
    <3>b. k \in Nat /\ 1 <= k /\ k <= m - i
      BY <3>0, <3>a
    <3>1. i + k - 1 \in i..m - 1 /\ k \in 1..m - i
      BY <3>0, <3>a, <3>b
    <3> QED BY <3>1
  <2>2. v[k] = text[j]
    BY <1>5, <2>1
  <2>3. v[k] \notin {DQuote, "\\"}
    <3>1. j \in 1..Len(text)
      <4>1. 1 <= i
        BY <1>0
      <4>2. j \in i..m - 1 /\ N = Len(text)
        BY <1>1, <2>1
      <4> QED BY <1>i, <4>1, <4>2
    <3> QED BY <2>2, <3>1 DEF PairText
  <2>4. ASSUME v[k] = "$" PROVE Len(done) + k < r.count /\ At(r, Len(done) + k + 1) # "?"
    <3>1. j = i /\ s.count = from /\ At(s, from + 1) = Space
      BY <1>9, <2>2, <2>4
    <3>2. k = 1 /\ Len(done) + k = from
      <4>1. k = 1
        <5>1. i = i + k - 1 /\ i \in Nat /\ k \in Nat
          BY <1>i, <2>1, <3>1
        <5> QED BY <5>1
      <4> QED BY <1>1, <4>1
    <3>3. from < c
      <4>1. s.count + 1 <= c
        BY <1>3
      <4> QED BY <1>i, <3>1, <4>1
    <3>4. At(r, from + 1) # "?"
      BY <1>a, <3>1, Distinct
    <3> QED BY <1>11, <3>2, <3>3, <3>4
  <2> QED BY <2>3, <2>4
<1>13. At(s, Len(done) + 1) # "?" => At(r, Len(done) + 1) # "?"
  BY <1>a
<1>14. Expanding(r, text, f, m, done \o v)
  BY <1>5, <1>8, <1>10, <1>11, <1>12, <1>13, Advances
<1> QED BY <1>7, <1>14 DEF Moved

\* At the closing quote the whole text has been expanded.
LEMMA Closes ==
  ASSUME NEW text, PairText(text), NEW f, Expansion(text, f), NEW s, NEW i, NEW done,
         Expanding(s, text, f, i, done),
         \/ At(s, s.count) \in {NUL, DQuote}
         \/ At(s, s.count) = "$" /\ At(s, s.count + 1) = DQuote
  PROVE  /\ s.input = <<DQuote>> \o f[1] \o <<DQuote>> /\ f[1] \in Seq(Char)
         /\ 1 <= s.pos /\ s.pos < Len(s.input)
         /\ \A k \in 1..Len(f[1]) : f[1][k] \notin {DQuote, "\\"}
<1>0. /\ done \in Seq(Char) /\ s.count \in Nat /\ s.pos \in Nat /\ text \in Seq(Char)
      /\ i \in 1..Len(text) + 1 /\ s.input = HalfLine(done, text, i)
      /\ 1 <= s.pos /\ s.pos <= s.count /\ s.count <= Len(done) + 1
  BY DEF Expanding, PairText
<1>1. PICK N \in Nat, from \in Nat, last \in Nat :
        N = Len(text) /\ from = Len(done) + 1 /\ last = from + (N + 1 - i)
  <2>1. Len(text) \in Nat /\ Len(done) + 1 \in Nat
    BY <1>0
  <2>2. Len(text) + 1 - i \in Nat
    BY <1>0, <2>1
  <2>3. Len(done) + 1 + (Len(text) + 1 - i) \in Nat
    BY <2>1, <2>2
  <2> QED BY <2>1, <2>3
<1>2. ReadsHalf(s, text, done, i, from, last)
  BY <1>0, <1>1, HalfLineReads
<1>e. SubSeq(text, N + 1, N) = <<>>
  BY SubSeqEmpty
<1>3. PICK x : x = f[1]
  OBVIOUS
<1>4. /\ s.input = HalfLine(x, text, N + 1) /\ x \in Seq(Char)
      /\ \A k \in 1..Len(x) : x[k] \notin {DQuote, "\\"}
  <2>1. CASE At(s, s.count) \in {NUL, DQuote}
    <3>1. i = N + 1
      <4>1. s.count = from
        <5> SUFFICES ASSUME s.count # from PROVE FALSE
          OBVIOUS
        <5>1. s.count \in 1..from - 1 /\ s.count \in 1..Len(done)
          BY <1>0, <1>1
        <5>2. At(s, s.count) = done[s.count] /\ done[s.count] \in Char
          BY <1>0, <1>2, <5>1 DEF ReadsHalf
        <5> QED BY <2>1, <5>1, <5>2, ValuesAssumption DEF Expanding
      <4> SUFFICES ASSUME i # N + 1 PROVE FALSE
        OBVIOUS
      <4>2. i \in i..N /\ i \in 1..N /\ from + (i - i) = from
        BY <1>0, <1>1
      <4>3. At(s, from) = text[i]
        BY <1>1, <1>2, <4>2 DEF ReadsHalf
      <4>4. text[i] \in Char /\ text[i] # DQuote
        BY <1>0, <1>1, <4>2 DEF PairText
      <4> QED BY <2>1, <4>1, <4>3, <4>4, ValuesAssumption
    <3>2. x = done
      <4>1. f[i] = <<>> /\ f[1] = done \o f[i]
        BY <1>1, <3>1 DEF Expansion, Expanding
      <4> QED BY <1>0, <1>3, <4>1, ConcatEmptySeq
    <3> QED BY <1>0, <3>1, <3>2 DEF Expanding
  <2>2. CASE At(s, s.count) = "$" /\ At(s, s.count + 1) = DQuote
    <3>1. i = N /\ i \in 1..N /\ text[i] = "$"
      <4>1. /\ i \in 1..Len(text) /\ text[i] = "$"
            /\ At(s, s.count + 1) = IF i < Len(text) THEN text[i + 1] ELSE DQuote
        BY <2>2, AtDollar
      <4>2. ~(i < Len(text))
        <5> SUFFICES ASSUME i < Len(text) PROVE FALSE
          OBVIOUS
        <5>1. i + 1 \in 1..Len(text)
          BY <1>0, <4>1
        <5> QED BY <2>2, <4>1, <5>1 DEF PairText
      <4> QED BY <1>0, <1>1, <4>1, <4>2
    <3>2. PICK m \in i..Len(text) + 1 : m = N + 1 /\ m - 1 = i
      BY <1>1, <3>1
    <3>3. SubSeq(text, i, m - 1) = <<"$">> /\ <<"$">> \in Seq(Char)
      BY <1>0, <1>1, <3>1, <3>2, OneCharacter
    <3>4. PICK d : d = done \o <<"$">>
      OBVIOUS
    <3>5. s.input = HalfLine(d, text, N + 1)
      <4>1. HalfLine(done, text, i) = HalfLine(done \o SubSeq(text, i, m - 1), text, m)
        BY <1>0, HalfLineGoesOn
      <4> QED BY <1>0, <3>2, <3>3, <3>4, <4>1
    <3>6. x = d
      <4>1. f[i] = <<"$">> \o f[i + 1] /\ f[i + 1] = <<>>
        <5>0. i \in 1..Len(text) /\ i + 1 = Len(text) + 1
          BY <1>1, <3>1
        <5>1. ~IsMark(text, i) /\ ~IsName(text, i)
          <6>1. ~(i < Len(text))
            <7>1. Len(text) \in Nat
              BY <1>0
            <7> QED BY <5>0, <7>1
          <6> QED BY <6>1 DEF IsMark, IsName
        <5>2. PieceAt(text, i) = <<text[i]>> /\ NextAt(text, i) = i + 1
          BY <5>1 DEF PieceAt, PieceIn, NextAt
        <5>3. f[i] = PieceAt(text, i) \o f[NextAt(text, i)]
          BY <5>0 DEF Expansion
        <5>4. f[Len(text) + 1] = <<>>
          BY DEF Expansion
        <5> QED BY <3>1, <5>0, <5>2, <5>3, <5>4
      <4>2. f[i] = <<"$">>
        BY <3>3, <4>1, ConcatEmptySeq
      <4> QED BY <1>3, <3>4, <4>2 DEF Expanding
    <3>7. /\ d \in Seq(Char) /\ Len(d) = Len(done) + 1
          /\ \A k \in 1..Len(done) : d[k] = done[k]
          /\ d[Len(done) + 1] = "$"
      <4>1. PICK q : q = <<"$">>
        OBVIOUS
      <4>2. q \in Seq(Char) /\ Len(q) = 1 /\ q[1] = "$"
        BY <3>3, <4>1
      <4>a. done \in Seq(Char)
        BY <1>0
      <4>b. q \in Seq(Char)
        BY <4>2
      <4>3. /\ done \o q \in Seq(Char) /\ Len(done \o q) = Len(done) + Len(q)
            /\ \A k \in 1..Len(done) : (done \o q)[k] = done[k]
            /\ \A k \in 1..Len(q) : (done \o q)[Len(done) + k] = q[k]
        BY <4>a, <4>b, TwoParts
      <4>4. 1 \in 1..Len(q)
        BY <4>2
      <4> QED BY <3>4, <4>1, <4>2, <4>3, <4>4
    <3>8. ASSUME NEW k \in 1..Len(d) PROVE d[k] \notin {DQuote, "\\"}
      <4>1. k \in 1..Len(done) \/ k = Len(done) + 1
        BY <1>0, <3>7
      <4>2. "$" \notin {DQuote, "\\"}
        BY DEF DQuote
      <4> QED BY <3>7, <4>1, <4>2 DEF Expanding
    <3> QED BY <3>5, <3>6, <3>7, <3>8
  <2> QED BY <2>1, <2>2
<1>5. s.input = <<DQuote>> \o x \o <<DQuote>>
  <2>1. PICK q : q = <<DQuote>> \o x
    OBVIOUS
  <2>2. q \in Seq(Char)
    <3>1. <<DQuote>> \in Seq(Char)
      BY ValuesAssumption
    <3> QED BY <1>4, <2>1, <3>1, ConcatProperties
  <2>3. q \o <<>> = q
    BY <2>2, ConcatEmptySeq
  <2> QED BY <1>1, <1>4, <1>e, <2>1, <2>3 DEF HalfLine
<1>6. s.pos < Len(s.input)
  <2>1. Len(s.input) = last + 1 /\ from <= last
    BY <1>0, <1>1, <1>2 DEF ReadsHalf
  <2> QED BY <1>0, <1>1, <2>1
<1> QED BY <1>0, <1>3, <1>4, <1>5, <1>6


AtTheQuote(s) ==
  \/ At(s, s.count) \in {NUL, DQuote}
  \/ At(s, s.count) = "$" /\ At(s, s.count + 1) = DQuote

\* check_var takes a piece of what is left, or has come to the closing quote.
LEMMA CheckVarExpands ==
  ASSUME NEW text, PairText(text), NEW f, Expansion(text, f), NEW i, NEW done,
         Opens(t), Expanding(t, text, f, i, done), status \in 0..255, CheckVar
  PROVE  \/ tpc' = "open" /\ Opens(t') /\ \E m, d : Expanding(t', text, f, m, d)
         \/ tpc' = "close" /\ t' = t /\ AtTheQuote(t)
<1>s. PICK s : s = t
  OBVIOUS
<1>r. PICK r : r = t'
  OBVIOUS
<1>1. Opens(s) /\ Expanding(s, text, f, i, done)
  BY <1>s
<1>2. CASE AtTheQuote(s)
  BY <1>s, <1>2 DEF AtTheQuote, CheckVar
<1>3. CASE ~AtTheQuote(s)
  <2>1. /\ tpc' = "open" /\ At(s, s.count) \notin {NUL, DQuote}
        /\ r = CASE At(s, s.count) = "$" /\ At(s, s.count + 1) = "?" ->
                      [ExpandExitStatus([s EXCEPT !.pos = s.count]) EXCEPT !.count = @ + 1]
                 [] At(s, s.count) = "$" /\ At(s, s.count + 1) \notin {"?", Space} ->
                      [HandleVariableExpansion(s, s.count) EXCEPT !.count = @ + 1]
                 [] OTHER -> [s EXCEPT !.count = Min(Plain(s))]
    BY <1>s, <1>r, <1>3 DEF AtTheQuote, CheckVar
  <2>2. Opens(r) /\ \E m, d : Expanding(r, text, f, m, d)
    <3>1. CASE At(s, s.count) = "$" /\ At(s, s.count + 1) = "?"
      <4>1. r = [ExpandExitStatus([s EXCEPT !.pos = s.count]) EXCEPT !.count = @ + 1]
        BY <2>1, <3>1
      <4> QED BY <1>1, <3>1, <4>1, MarkExpands
    <3>2. CASE At(s, s.count) = "$" /\ At(s, s.count + 1) \notin {"?", Space}
      <4>1. r = [HandleVariableExpansion(s, s.count) EXCEPT !.count = @ + 1]
        BY <2>1, <3>2
      <4>2. At(s, s.count + 1) \notin {"?", DQuote}
        BY <1>3, <3>2 DEF AtTheQuote
      <4> QED BY <1>1, <3>2, <4>1, <4>2, NameExpands
    <3>3. CASE At(s, s.count) # "$" \/ At(s, s.count + 1) = Space
      <4>1. r = [s EXCEPT !.count = Min(Plain(s))]
        BY <2>1, <3>3, Distinct
      <4> QED BY <1>1, <2>1, <3>3, <4>1, PlainExpands
    <3> QED BY <3>1, <3>2, <3>3
  <2> QED BY <1>r, <2>1, <2>2
<1> QED BY <1>2, <1>3

\* What HalfExpanded says of the index i, with the expansions of the whole text and
\* of what is left of it given.
HalfAt(s, text, i, whole, end) ==
  LET left == SubSeq(text, i, Len(text))
      from == Len(s.input) - 1 - Len(left)
      done == Text(s, 1, from)
  IN  /\ 1 <= s.pos /\ s.pos <= s.count /\ s.count <= from
      /\ s.input = <<DQuote>> \o done \o left \o <<DQuote>>
      /\ ToSet(done) \cap {DQuote, "\\"} = {}
      /\ \A k \in 1..from - 1 : At(s, k) = "$" => k < s.count /\ At(s, k + 1) # "?"
      /\ whole = done \o end

\* HalfExpanded, for the record and the text it is about.
LEMMA HalfIs ==
  HalfExpanded <=>
    \E i \in 1..Len(Inner) + 1 :
      HalfAt(t, Inner, i, ExpandHeredocLine(Inner, Env), ExpandHeredocLine(SubSeq(Inner, i, Len(Inner)), Env))
BY DEF HalfExpanded, HalfAt

\* A line of a heredoc expands to the same as long as the status is the same.
LEMMA ExpandStays ==
  ASSUME NEW x, status' = status
  PROVE  ExpandHeredocLine(x, Env)' = ExpandHeredocLine(x, Env)
BY DEF ExpandHeredocLine

\* How HalfExpanded is shown of the next state.
LEMMA HalfPrimed ==
  ASSUME NEW r, NEW x, t' = r, Inner' = x, status' = status, NEW i \in 1..Len(x) + 1,
         HalfAt(r, x, i, ExpandHeredocLine(x, Env), ExpandHeredocLine(SubSeq(x, i, Len(x)), Env))
  PROVE  HalfExpanded'
<1>1. PICK left : left = SubSeq(x, i, Len(x))
  OBVIOUS
<1>2. /\ ExpandHeredocLine(x, Env)' = ExpandHeredocLine(x, Env)
      /\ ExpandHeredocLine(left, Env)' = ExpandHeredocLine(left, Env)
  BY ExpandStays
<1>3. HalfAt(r, x, i, ExpandHeredocLine(x, Env)', ExpandHeredocLine(left, Env)')
  BY <1>1, <1>2
<1> QED BY <1>1, <1>3 DEF HalfExpanded, HalfAt, Text, At

\* How much of the text is left.
LEMMA LeftIs ==
  ASSUME NEW text \in Seq(Char), NEW i \in 1..Len(text) + 1
  PROVE  Len(SubSeq(text, i, Len(text))) = Len(text) + 1 - i
OBVIOUS

\* HalfAt, as the lemmas about the steps of check_var read it ...
LEMMA HalfExpands ==
  ASSUME NEW text, PairText(text), NEW f, Expansion(text, f), NEW s, Opens(s),
         NEW i \in 1..Len(text) + 1, HalfAt(s, text, i, f[1], f[i])
  PROVE  \E done : Expanding(s, text, f, i, done)
<1>0. text \in Seq(Char) /\ s.input \in Seq(Char) /\ s.pos \in Nat /\ s.count \in Nat
  BY DEF PairText, Opens, Typed
<1>1. PICK N \in Nat : N = Len(text)
  BY <1>0
<1>2. Len(SubSeq(text, i, Len(text))) = N + 1 - i
  BY <1>0, <1>1, LeftIs
<1>i. i \in Nat /\ i <= N + 1
  <2>1. i \in 1..N + 1
    BY <1>1
  <2> QED BY <2>1
<1>3. PICK L \in Nat, from \in Int : L = Len(s.input) /\ from = L - 1 - (N + 1 - i)
  <2>1. Len(s.input) \in Nat
    BY <1>0
  <2>2. Len(s.input) - 1 - (N + 1 - i) \in Int
    BY <1>i, <2>1
  <2> QED BY <2>1, <2>2
<1>4. PICK done : done = Text(s, 1, from)
  OBVIOUS
<1>5. /\ 1 <= s.pos /\ s.pos <= s.count /\ s.count <= from
      /\ s.input = <<DQuote>> \o done \o SubSeq(text, i, Len(text)) \o <<DQuote>>
      /\ ToSet(done) \cap {DQuote, "\\"} = {}
      /\ \A k \in 1..from - 1 : At(s, k) = "$" => k < s.count /\ At(s, k + 1) # "?"
      /\ f[1] = done \o f[i]
  BY <1>2, <1>3, <1>4 DEF HalfAt
<1>6. from \in Nat /\ 1 <= from /\ from <= L
  <2>1. s.pos \in Nat /\ s.count \in Nat /\ 1 <= s.pos /\ s.pos <= s.count /\ s.count <= from
    BY <1>0, <1>5
  <2>2. from \in Nat /\ 1 <= from
    <3>1. s.count \in Nat /\ from \in Int /\ 1 <= s.count /\ s.count <= from
      BY <1>3, <2>1
    <3> QED BY <3>1
  <2> QED BY <1>i, <1>3, <2>2
<1>7. done \in Seq(Char) /\ Len(done) = from - 1
  <2>1. 1 + 1 = 2 /\ done = SubSeq(s.input, 2, from)
    BY <1>4 DEF Text
  <2>2. s.input \in Seq(Char) /\ from \in Nat /\ 1 <= from /\ from <= Len(s.input)
    BY <1>0, <1>3, <1>6
  <2>3. done \in Seq(Char)
    BY <2>1, <2>2
  <2>4. Len(done) = from - 1
    BY <2>1, <2>2
  <2> QED BY <2>3, <2>4
<1>8. s.input = HalfLine(done, text, i)
  BY <1>5 DEF HalfLine
<1>9. from = Len(done) + 1
  BY <1>6, <1>7
<1>10. \A k \in 1..from - 1 : At(s, k) = done[k]
  <2>1. PICK last \in Nat : last = from + (N + 1 - i)
    BY <1>1, <1>6
  <2>2. ReadsHalf(s, text, done, i, from, last)
    BY <1>0, <1>1, <1>6, <1>7, <1>8, <1>9, <2>1, HalfLineReads
  <2> QED BY <2>2 DEF ReadsHalf
<1>11. \A k \in 1..Len(done) : done[k] \notin {DQuote, "\\"}
  <2>1. ASSUME NEW k \in 1..Len(done) PROVE done[k] \in ToSet(done)
    <3>1. k \in DOMAIN done
      BY <1>7
    <3> QED BY <3>1 DEF ToSet
  <2> QED BY <1>5, <2>1
<1>12. \A k \in 1..Len(done) : done[k] = "$" => k < s.count /\ At(s, k + 1) # "?"
  BY <1>5, <1>7, <1>10
<1>13. s.count <= Len(done) + 1
  BY <1>5, <1>9
<1>14. Expanding(s, text, f, i, done)
  BY <1>0, <1>5, <1>7, <1>8, <1>11, <1>12, <1>13 DEF Expanding
<1> QED BY <1>14

\* ... and as the invariant does.
LEMMA ExpandingHalf ==
  ASSUME NEW text, PairText(text), NEW f, NEW s, NEW i, NEW done,
         Expanding(s, text, f, i, done)
  PROVE  i \in 1..Len(text) + 1 /\ HalfAt(s, text, i, f[1], f[i])
<1>0. /\ text \in Seq(Char) /\ i \in 1..Len(text) + 1 /\ done \in Seq(Char)
      /\ s.input = HalfLine(done, text, i)
  BY DEF PairText, Expanding
<1>1. PICK N \in Nat, from \in Nat, last \in Nat :
        N = Len(text) /\ from = Len(done) + 1 /\ last = from + (N + 1 - i)
  <2>1. Len(text) \in Nat /\ Len(done) + 1 \in Nat
    BY <1>0
  <2>2. Len(text) + 1 - i \in Nat
    BY <1>0, <2>1
  <2>3. Len(done) + 1 + (Len(text) + 1 - i) \in Nat
    BY <2>1, <2>2
  <2> QED BY <2>1, <2>3
<1>2. ReadsHalf(s, text, done, i, from, last)
  BY <1>0, <1>1, HalfLineReads
<1>3. PartsOfHalf(s, text, done, i, from)
  BY <1>0, <1>1, HalfLineParts
<1>4. Len(SubSeq(text, i, Len(text))) = N + 1 - i
  BY <1>0, <1>1, LeftIs
<1>5. from = Len(s.input) - 1 - Len(SubSeq(text, i, Len(text)))
  <2>1. Len(s.input) = last + 1
    BY <1>2 DEF ReadsHalf
  <2> QED BY <1>0, <1>1, <1>4, <2>1
<1>6. done = Text(s, 1, from)
  BY <1>3 DEF PartsOfHalf
<1>7. s.input = <<DQuote>> \o done \o SubSeq(text, i, Len(text)) \o <<DQuote>>
  BY <1>0 DEF HalfLine
<1>8. ToSet(done) \cap {DQuote, "\\"} = {}
  BY <1>0 DEF Expanding, ToSet
<1>9. ASSUME NEW k \in 1..from - 1, At(s, k) = "$" PROVE k < s.count /\ At(s, k + 1) # "?"
  <2>1. k \in 1..Len(done)
    BY <1>0, <1>1
  <2>2. done[k] = "$"
    BY <1>2, <1>9 DEF ReadsHalf
  <2> QED BY <2>1, <2>2 DEF Expanding
<1>10. 1 <= s.pos /\ s.pos <= s.count /\ s.count <= from /\ f[1] = done \o f[i]
  BY <1>1 DEF Expanding
<1> QED BY <1>0, <1>5, <1>6, <1>7, <1>8, <1>9, <1>10 DEF HalfAt

\* The line is the pair of quotes with nothing of the text expanded yet.
LEMMA PairIs ==
  ASSUME Text0 \in Seq(Char), OnePair
  PROVE  PairText(Inner) /\ Len(Inner) >= 1 /\ Text0 = HalfLine(<<>>, Inner, 1)
<1>x. PICK x : x = Inner
  OBVIOUS
<1>z. PICK z : z = Text0
  OBVIOUS
<1>1. /\ z \in Seq(Char) /\ Len(z) > 2 /\ z[1] = DQuote /\ z[Len(z)] = DQuote
      /\ x = SubSeq(z, 2, Len(z) - 1)
  BY <1>x, <1>z DEF OnePair, Inner
<1>2. PICK N \in Nat : N = Len(z) - 2 /\ N >= 1
  <2>1. Len(z) \in Nat /\ Len(z) > 2
    BY <1>1
  <2>2. Len(z) - 2 \in Nat /\ Len(z) - 2 >= 1
    BY <2>1
  <2> QED BY <2>2
<1>3. x \in Seq(Char) /\ Len(x) = N /\ \A k \in 1..N : x[k] = z[1 + k]
  BY <1>1, <1>2
<1>4. ASSUME NEW i \in 1..Len(x) PROVE x[i] \notin {DQuote, "\\"}
  <2>1. x[i] \in ToSet(x)
    <3>1. i \in DOMAIN x
      BY <1>3
    <3> QED BY <3>1 DEF ToSet
  <2> QED BY <1>x, <2>1 DEF OnePair
<1>5. \A i \in 1..Len(x) : x[i] = "$" => NameAt(x, i) = <<>> \/ Agreed(NameAt(x, i))
  <2>1. DOMAIN x = 1..Len(x)
    BY <1>3
  <2> QED BY <1>x, <2>1 DEF OnePair
<1>6. z = HalfLine(<<>>, x, 1)
  <2>1. PICK q, e : q = <<DQuote>> /\ e = <<>>
    OBVIOUS
  <2>2. q \in Seq(Char) /\ Len(q) = 1 /\ q[1] = DQuote
    BY <2>1, ValuesAssumption
  <2>3. e \in Seq(Char) /\ Len(e) = 0
    BY <2>1
  <2>4. SubSeq(x, 1, Len(x)) = x
    BY <1>3, SubSeqFull
  <2>5. PICK y : y = q \o e \o x \o q
    OBVIOUS
  <2>6. InRow(y, Char, q, e, x, q)
    BY <1>3, <2>2, <2>3, <2>5, FourParts
  <2>7. /\ y \in Seq(Char) /\ Len(y) = 1 + N + 1 /\ y[1] = DQuote
        /\ \A k \in 1..N : y[1 + k] = x[k]
        /\ y[1 + N + 1] = DQuote
    <3>1. /\ y \in Seq(Char) /\ Len(y) = 1 + 0 + N + 1 /\ \A k \in 1..1 : y[k] = q[k]
          /\ \A k \in 1..N : y[1 + 0 + k] = x[k]
          /\ \A k \in 1..1 : y[1 + 0 + N + k] = q[k]
      BY <1>3, <2>2, <2>3, <2>6 DEF InRow
    <3>2. 1 \in 1..1 /\ 1 + 0 = 1
      OBVIOUS
    <3> QED BY <2>2, <3>1, <3>2
  <2>8. Len(z) = Len(y)
    BY <1>1, <1>2, <2>7
  <2>9. ASSUME NEW k \in 1..Len(z) PROVE z[k] = y[k]
    <3>1. CASE k = 1
      BY <1>1, <2>7, <3>1
    <3>2. CASE k = 1 + N + 1
      BY <1>1, <1>2, <2>7, <2>8, <3>2
    <3>3. CASE k # 1 /\ k # 1 + N + 1
      <4>1. PICK j \in 1..N : k = 1 + j
        <5>1. k - 1 \in 1..N /\ k = 1 + (k - 1)
          BY <1>2, <2>7, <2>8, <3>3
        <5> QED BY <5>1
      <4> QED BY <1>3, <2>7, <4>1
    <3> QED BY <3>1, <3>2, <3>3
  <2>10. z = y
    <3>1. y \in Seq(Char) /\ z \in Seq(Char)
      BY <1>1, <2>7
    <3> QED BY <2>8, <2>9, <3>1, SameSequence
  <2> QED BY <2>1, <2>4, <2>5, <2>10 DEF HalfLine
<1> QED BY <1>x, <1>z, <1>2, <1>3, <1>4, <1>5, <1>6 DEF PairText

\* quotes() steps over the opening quote.
LEMMA PairBegins ==
  ASSUME NEW text, PairText(text), NEW f, Expansion(text, f), NEW line, line \in Seq(Char),
         line = HalfLine(<<>>, text, 1), t = Struct(line), ReadQuotes
  PROVE  tpc' = "open" /\ Opens(t') /\ Expanding(t', text, f, 1, <<>>)
<1>e. <<>> \in Seq(Char) /\ Len(<<>>) = 0
  OBVIOUS
<1>0. text \in Seq(Char) /\ Len(text) \in Nat /\ 1 \in 1..Len(text) + 1
  <2>1. text \in Seq(Char)
    BY DEF PairText
  <2> QED BY <2>1
<1>s. PICK s : s = Struct(line)
  OBVIOUS
<1>1. /\ s.input = line /\ s.pos = 0 /\ s.count = 0 /\ s.anchor_pos = 0 /\ s.quote = 0
      /\ s.list = <<>> /\ s.tmp_token = None /\ s.single_quote = FALSE /\ s.double_quote = FALSE
      /\ s.continue_var = FALSE /\ s.error = FALSE
  BY <1>s DEF Struct
<1>2. DOMAIN s = Fields /\ Typed(s)
  <2>1. Typed(s)
    BY <1>s, StructTyped
  <2> QED BY <2>1 DEF Typed
<1>3. At(s, 0) = DQuote
  <2>1. PICK from \in Nat, last \in Nat : from = 1 /\ last = from + (Len(text) + 1 - 1)
    BY <1>0
  <2>2. ReadsHalf(s, text, <<>>, 1, from, last)
    <3>1. from = Len(<<>>) + 1 /\ s.input = HalfLine(<<>>, text, 1)
      BY <1>1, <1>e, <2>1
    <3> QED BY <1>0, <1>e, <2>1, <3>1, HalfLineReads
  <2> QED BY <2>2 DEF ReadsHalf
<1>4. Quotes(s) = [s EXCEPT !.single_quote = FALSE, !.double_quote = TRUE, !.anchor_pos = 0,
                            !.quote = 0, !.pos = 1]
  <2>1. At(s, 0) = DQuote /\ DQuote # "'" /\ DQuote # Space
    BY <1>3, Distinct
  <2>2. At(s, s.pos) = DQuote /\ At(s, s.anchor_pos) # Space
    BY <1>1, <2>1
  <2>3. Quotes(s) = [s EXCEPT !.single_quote = @, !.double_quote = ~@,
                              !.anchor_pos = IF At(s, @) = Space THEN @ + 1 ELSE @,
                              !.quote = s.pos, !.pos = @ + 1]
    BY <1>1, <2>1, <2>2 DEF Quotes
  <2>4. 0 + 1 = 1
    OBVIOUS
  <2> QED BY <1>1, <2>2, <2>3, <2>4
<1>r. PICK r : r = [s EXCEPT !.single_quote = FALSE, !.double_quote = TRUE, !.anchor_pos = 0,
                             !.quote = 0, !.pos = 1, !.count = 1]
  OBVIOUS
<1>5. t' = r /\ tpc' = "open"
  <2>1. PICK c : c = Quotes(s)
    OBVIOUS
  <2>2. t' = [c EXCEPT !.count = c.pos] /\ tpc' = "open"
    BY <1>s, <2>1 DEF ReadQuotes
  <2>3. c.pos = 1
    BY <1>2, <1>4, <2>1, FieldNames
  <2>4. [c EXCEPT !.count = 1] = r
    BY <1>2, <1>4, <1>r, <2>1, FieldNames
  <2> QED BY <2>2, <2>3, <2>4
<1>6. /\ r.input = line /\ r.pos = 1 /\ r.count = 1 /\ Opens(r)
  <2>1. /\ DOMAIN r = Fields /\ r.input = line /\ r.pos = 1 /\ r.count = 1 /\ r.anchor_pos = 0
        /\ r.quote = 0 /\ r.list = s.list /\ r.tmp_token = s.tmp_token /\ r.single_quote = FALSE
        /\ r.double_quote = TRUE /\ r.continue_var = s.continue_var /\ r.num_var = s.num_var
        /\ r.free_input = s.free_input /\ r.error = s.error
    BY <1>1, <1>2, <1>r, FieldNames
  <2>2. /\ 0 \in Nat /\ 1 \in Nat /\ s.list \in Seq([type : TokenTypes, value : Seq(Char)])
        /\ s.tmp_token = None
        /\ {s.continue_var, s.num_var, s.free_input, s.error} \subseteq BOOLEAN
    BY <1>1, <1>2 DEF Typed
  <2>3. Typed(r)
    BY <2>1, <2>2 DEF Typed
  <2> QED BY <1>1, <2>1, <2>3 DEF Opens
<1>7. Expanding(r, text, f, 1, <<>>)
  <2>1. f[1] = <<>> \o f[1]
    <3>1. f[1] \in Seq(Char)
      BY <1>0 DEF Expansion
    <3> QED BY <3>1, ConcatEmptySeq
  <2>2. \A k \in 1..0 : FALSE
    OBVIOUS
  <2>3. 1 \in Nat /\ 1 <= 1 /\ 1 <= 0 + 1
    OBVIOUS
  <2> QED BY <1>0, <1>e, <1>6, <2>1, <2>2, <2>3 DEF Expanding
<1> QED BY <1>5, <1>6, <1>7

QuotedReads(s, e, last) ==
  /\ s.input \in Seq(Char) /\ Len(s.input) = last + 1 /\ At(s, 0) = DQuote /\ At(s, last) = DQuote
  /\ At(s, last + 1) = NUL
  /\ \A k \in 1..last - 1 : At(s, k) = e[k]
  /\ Text(s, 1, last) = e

\* A line that is one pair of quotes, character by character.
LEMMA QuotedLine ==
  ASSUME NEW s, NEW e \in Seq(Char), s.input = <<DQuote>> \o e \o <<DQuote>>,
         NEW last \in Nat, last = Len(e) + 1
  PROVE  QuotedReads(s, e, last)
<1>1. PICK x : x = <<>>
  OBVIOUS
<1>2. x \in Seq(Char) /\ Len(x) = 0 /\ 1 \in 1..Len(x) + 1 /\ SubSeq(x, 1, Len(x)) = <<>>
  BY <1>1
<1>3. s.input = HalfLine(e, x, 1)
  <2>1. PICK q : q = <<DQuote>> \o e
    OBVIOUS
  <2>2. q \in Seq(Char)
    BY <2>1, ValuesAssumption
  <2>3. q \o <<>> = q
    BY <2>2, ConcatEmptySeq
  <2> QED BY <1>2, <2>1, <2>3 DEF HalfLine
<1>4. last = last + (Len(x) + 1 - 1)
  BY <1>2
<1>5. ReadsHalf(s, x, e, 1, last, last)
  BY <1>2, <1>3, <1>4, HalfLineReads
<1>6. PartsOfHalf(s, x, e, 1, last)
  BY <1>2, <1>3, HalfLineParts
<1>7. At(s, last + 1) = NUL
  <2>1. Len(s.input) = last + 1
    BY <1>5 DEF ReadsHalf
  <2> QED BY <2>1 DEF At
<1> QED BY <1>5, <1>6, <1>7 DEF ReadsHalf, PartsOfHalf, QuotedReads

\* The pair of quotes is closed, and its text is a word.
Closed(s, e) ==
  /\ Typed(s) /\ ~s.single_quote /\ ~s.double_quote /\ ~s.error
  /\ s.pos = Len(s.input) /\ s.anchor_pos = Len(s.input) /\ s.list = <<Token("WORD", e)>>

\* handle_double_quote finds no quote in front of the last character, and takes all of
\* what stands between the two as one word.
LEMMA PairCloses ==
  ASSUME NEW e \in Seq(Char), Opens(t), t.input = <<DQuote>> \o e \o <<DQuote>>,
         1 <= t.pos, t.pos < Len(t.input), \A k \in 1..Len(e) : e[k] \notin {DQuote, "\\"},
         OpenQuotes
  PROVE  tpc' = "var" /\ Closed(t', e)
<1>s. PICK s : s = t
  OBVIOUS
<1>1. PICK last \in Nat : last = Len(e) + 1 /\ last >= 1
  <2>1. Len(e) + 1 \in Nat /\ Len(e) + 1 >= 1
    OBVIOUS
  <2> QED BY <2>1
<1>2. QuotedReads(s, e, last)
  BY <1>1, <1>s, QuotedLine
<1>0. /\ Opens(s) /\ Typed(s) /\ DOMAIN s = Fields /\ s.pos \in Nat /\ 1 <= s.pos /\ s.pos <= last
      /\ Len(s.input) = last + 1 /\ s.anchor_pos = 0 /\ s.quote = 0
  <2>1. Len(s.input) = last + 1 /\ Opens(s) /\ 1 <= s.pos /\ s.pos < Len(s.input)
    BY <1>2, <1>s DEF QuotedReads
  <2>2. Typed(s) /\ DOMAIN s = Fields /\ s.pos \in Nat /\ s.anchor_pos = 0 /\ s.quote = 0
    BY <2>1 DEF Opens, Typed
  <2> QED BY <2>1, <2>2
<1>e. PICK ends : ends = {k \in s.pos..Len(s.input) :
                            /\ At(s, k) = (IF s.single_quote THEN "'" ELSE DQuote)
                            /\ At(s, k - 1) # "\\"}
  OBVIOUS
<1>3. ends = {last}
  <2>1. ASSUME NEW k \in s.pos..last, k # last PROVE At(s, k) # DQuote
    <3>1. k \in 1..last - 1 /\ k \in 1..Len(e)
      BY <1>0, <1>1, <2>1
    <3> QED BY <1>2, <3>1 DEF QuotedReads
  <2>2. At(s, last + 1) # DQuote
    BY <1>2, ValuesAssumption DEF QuotedReads
  <2>3. At(s, last) = DQuote /\ At(s, last - 1) # "\\"
    <3>1. CASE last = 1
      <4>1. At(s, 0) = DQuote /\ last - 1 = 0
        BY <1>2, <3>1 DEF QuotedReads
      <4>2. DQuote # "\\"
        BY DEF DQuote
      <4> QED BY <1>2, <4>1, <4>2 DEF QuotedReads
    <3>2. CASE last # 1
      <4>1. last - 1 \in 1..last - 1 /\ last - 1 \in 1..Len(e)
        BY <1>1, <3>2
      <4> QED BY <1>2, <4>1 DEF QuotedReads
    <3> QED BY <3>1, <3>2
  <2>4. ~s.single_quote
    BY <1>0 DEF Opens
  <2>5. last \in s.pos..Len(s.input)
    BY <1>0, <1>1
  <2>6. last \in ends
    BY <1>e, <2>3, <2>4, <2>5
  <2>7. ASSUME NEW k \in ends PROVE k = last
    <3>1. k \in s.pos..last + 1 /\ At(s, k) = DQuote
      BY <1>0, <1>e, <2>4
    <3>2. k # last + 1
      BY <2>2, <3>1
    <3>3. k \in s.pos..last
      BY <1>0, <3>1, <3>2
    <3> QED BY <2>1, <3>1, <3>3
  <2> QED BY <2>6, <2>7
<1>c. PICK c : c = [s EXCEPT !.pos = last]
  OBVIOUS
<1>4. Min(ends \cup {Len(s.input)}) = last
  <2>1. PICK S : S = ends \cup {Len(s.input)}
    OBVIOUS
  <2>2. S = {last, last + 1} /\ S \subseteq Nat /\ last \in S
    BY <1>0, <1>1, <1>3, <2>1
  <2>3. PICK m : m = Min(S)
    OBVIOUS
  <2>4. m \in S /\ \A y \in S : m <= y
    BY <2>2, <2>3, MinIsLeast
  <2>5. (m = last \/ m = last + 1) /\ m <= last
    BY <2>2, <2>4
  <2>6. m = last
    BY <1>1, <2>5
  <2> QED BY <2>1, <2>3, <2>6
<1>5. PICK done : done = HandleDoubleQuote(c)
  OBVIOUS
<1>6. /\ t' = [done EXCEPT !.continue_var = FALSE]
      /\ tpc' = IF done.continue_var THEN "tail" ELSE "var"
  <2>1. ends # {} /\ ~s.single_quote /\ s.double_quote
    BY <1>0, <1>3 DEF Opens
  <2> QED BY <1>s, <1>e, <1>c, <1>4, <1>5, <2>1 DEF OpenQuotes, QuoteOpen
<1>7. /\ DOMAIN c = Fields /\ c.input = s.input /\ c.pos = last /\ c.anchor_pos = 0 /\ c.quote = 0
      /\ c.tmp_token = None /\ c.list = <<>>
  BY <1>0, <1>c, FieldNames DEF Opens
<1>a. \A k : At(c, k) = At(s, k)
  BY <1>7 DEF At
<1>8. PICK in : in = [c EXCEPT !.anchor_pos = 1]
  OBVIOUS
<1>9. InQuotes(c) = in
  <2>1. At(c, 0) = DQuote /\ At(c, last) = DQuote /\ 0 + 1 = 1
    BY <1>2, <1>a DEF QuotedReads
  <2> QED BY <1>7, <1>8, <2>1 DEF InQuotes
<1>10. PrepareStr(in) = AddCustomToken(in, e, "WORD")
  <2>1. /\ in.anchor_pos = 1 /\ in.pos = last /\ in.quote = 0
        /\ in.input = s.input /\ in.tmp_token = None
    BY <1>7, <1>8, FieldNames
  <2>2. Text(in, in.anchor_pos, in.pos) = e
    BY <1>2, <2>1 DEF QuotedReads, Text
  <2>3. At(in, in.pos + 1) = NUL /\ At(in, in.quote) = DQuote
    <3>1. \A k : At(in, k) = At(s, k)
      BY <2>1 DEF At
    <3> QED BY <1>2, <2>1, <3>1 DEF QuotedReads
  <2>4. NUL # DQuote
    BY ValuesAssumption
  <2> QED BY <2>1, <2>2, <2>3, <2>4 DEF PrepareStr
<1>11. PICK d : d = [in EXCEPT !.list = <<Token("WORD", e)>>, !.pos = last + 1,
                               !.anchor_pos = last + 1]
  OBVIOUS
<1>12. /\ DOMAIN d = Fields /\ d.input = s.input /\ d.pos = last + 1 /\ d.anchor_pos = last + 1
       /\ d.list = <<Token("WORD", e)>> /\ d.double_quote = s.double_quote
       /\ d.single_quote = s.single_quote /\ d.error = s.error /\ d.continue_var = s.continue_var
       /\ d.quote = 0 /\ d.count = s.count /\ d.tmp_token = None /\ d.num_var = s.num_var
       /\ d.free_input = s.free_input
  BY <1>0, <1>7, <1>8, <1>11, <1>c, FieldNames
<1>13. done = [d EXCEPT !.double_quote = FALSE, !.continue_var = FALSE]
  <2>1. PICK piece : piece = AddCustomToken(in, e, "WORD")
    OBVIOUS
  <2>2. in.list = <<>> /\ in.pos = last /\ DOMAIN in = Fields
    BY <1>7, <1>8, FieldNames
  <2>3. piece = [in EXCEPT !.list = <<Token("WORD", e)>>]
    <3>1. Append(<<>>, Token("WORD", e)) = <<Token("WORD", e)>>
      OBVIOUS
    <3> QED BY <2>1, <2>2, <3>1 DEF AddCustomToken
  <2>4. [piece EXCEPT !.pos = @ + 1, !.anchor_pos = c.pos + 1] = d
    BY <1>7, <1>11, <2>2, <2>3, FieldNames
  <2>5. ~(c.pos <= c.anchor_pos) /\ ~(c.quote # c.anchor_pos)
    BY <1>1, <1>7
  <2>6. At(d, d.pos) # DQuote
    <3>1. At(d, last + 1) = NUL
      <4>1. At(s, last + 1) = NUL
        BY <1>2 DEF QuotedReads
      <4> QED BY <1>12, <4>1 DEF At
    <3> QED BY <1>12, <3>1, ValuesAssumption
  <2>7. HandleDoubleQuote(c) = [d EXCEPT !.double_quote = FALSE, !.continue_var = @]
    BY <1>9, <1>10, <2>1, <2>4, <2>5, <2>6 DEF HandleDoubleQuote
  <2>8. d.continue_var = FALSE
    BY <1>0, <1>12 DEF Opens, Typed
  <2> QED BY <1>5, <2>7, <2>8
<1>r. PICK r : r = [done EXCEPT !.continue_var = FALSE]
  OBVIOUS
<1>14. /\ DOMAIN r = Fields /\ r.input = s.input /\ r.pos = last + 1 /\ r.anchor_pos = last + 1
       /\ r.list = <<Token("WORD", e)>> /\ r.double_quote = FALSE
       /\ r.single_quote = s.single_quote /\ r.error = s.error /\ r.continue_var = FALSE
       /\ r.quote = 0 /\ r.count = s.count /\ r.tmp_token = None /\ r.num_var = s.num_var
       /\ r.free_input = s.free_input /\ done.continue_var = FALSE
  BY <1>12, <1>13, <1>r, FieldNames
<1>15. Typed(r)
  <2>1. Token("WORD", e) \in [type : TokenTypes, value : Seq(Char)]
    BY DEF Token, TokenTypes
  <2>2. PICK w \in [type : TokenTypes, value : Seq(Char)] : w = Token("WORD", e)
    BY <2>1
  <2>3. r.list \in Seq([type : TokenTypes, value : Seq(Char)])
    BY <1>14, <2>2
  <2>4. last + 1 \in Nat
    BY <1>1
  <2> QED BY <1>0, <1>14, <2>3, <2>4 DEF Typed
<1>16. Closed(r, e)
  BY <1>0, <1>14, <1>15 DEF Closed, Opens
<1> QED BY <1>6, <1>14, <1>16, <1>r

\* Behind the closed pair there is nothing to read, and the list stays as it is.
LEMMA PairStays ==
  ASSUME NEW e \in Seq(Char), Closed(t, e), status \in 0..255,
         Tokenize, tpc \in {"var", "tail", "loop"}
  PROVE  /\ status' = status
         /\ \/ tpc' \in {"var", "tail", "loop"} /\ Closed(t', e)
            \/ tpc' = "done" /\ t'.list = <<Token("WORD", e)>>
<1>1. ~InLine /\ ~QuoteOpen /\ ~t.error /\ LastWord(t) = t
  <2>1. At(t, t.pos) = NUL
    <3>1. Len(t.input) \in Nat
      BY DEF Closed, Typed
    <3>2. Len(t.input) \notin 0..Len(t.input) - 1
      BY <3>1
    <3> QED BY <3>2 DEF Closed, At
  <2> QED BY <2>1 DEF Closed, InLine, QuoteOpen, LastWord
<1>2. ~(ReadQuotes \/ CheckVar \/ OpenQuotes \/ ReadMeta)
  BY <1>1 DEF ReadQuotes, CheckVar, OpenQuotes, ReadMeta
<1>3. CASE ReadVar
  <2>1. At(t, t.pos) # "$"
    BY <1>1, ValuesAssumption DEF InLine
  <2> QED BY <1>1, <1>3, <2>1 DEF ReadVar
<1>4. CASE ReadTail
  BY <1>1, <1>4 DEF ReadTail
<1>5. CASE EndTokens
  <2>1. PICK w : w = Token("WORD", e)
    OBVIOUS
  <2>2. SetMetacharType(w) = w
    BY <2>1 DEF SetMetacharType, Token
  <2>3. t.list = <<w>> /\ DOMAIN t = Fields
    BY <2>1 DEF Closed, Typed
  <2>4. tpc' = "done" /\ status' = status
    BY <1>1, <1>5 DEF EndTokens
  <2>5. t' = [t EXCEPT !.list = [i \in DOMAIN @ |-> SetMetacharType(@[i])]]
    BY <1>1, <1>5 DEF EndTokens, Fails
  <2>6. t'.list = [i \in DOMAIN t.list |-> SetMetacharType(t.list[i])]
    BY <2>3, <2>5, FieldNames
  <2>7. [i \in DOMAIN <<w>> |-> SetMetacharType(<<w>>[i])] = <<w>>
    BY <2>2
  <2> QED BY <2>1, <2>3, <2>4, <2>6, <2>7
<1> QED BY <1>2, <1>3, <1>4, <1>5 DEF Tokenize

\* Where a pair of quotes stands in the loop of tokens().
PairAt(s, at, line, text, f) ==
  \/ at = "loop" /\ s = Struct(line)
  \/ at = "open" /\ Opens(s) /\ \E i, done : Expanding(s, text, f, i, done)
  \/ /\ at = "close" /\ Opens(s) /\ 1 <= s.pos /\ s.pos < Len(s.input)
     /\ s.input = <<DQuote>> \o f[1] \o <<DQuote>>
     /\ \A k \in 1..Len(f[1]) : f[1][k] \notin {DQuote, "\\"}
  \/ at \in {"var", "tail", "loop"} /\ Closed(s, f[1])
  \/ at = "done" /\ s.list = <<Token("WORD", f[1])>>

\* Every step of the tokenizer keeps PairAt, from the opening quote to the token.
LEMMA PairTokenizes ==
  ASSUME NEW line, line \in Seq(Char), NEW text, PairText(text), line = HalfLine(<<>>, text, 1),
         NEW f, Expansion(text, f), status \in 0..255, PairAt(t, tpc, line, text, f), Tokenize
  PROVE  PairAt(t', tpc', line, text, f) /\ status' = status
<1>0. f[1] \in Seq(Char)
  <2>1. 1 \in 1..Len(text) + 1
    BY DEF PairText
  <2> QED BY <2>1 DEF Expansion
<1>1. CASE tpc = "loop" /\ t = Struct(line)
  <2>1. t.pos = 0 /\ t.input = line /\ ~t.error
    BY <1>1 DEF Struct
  <2>2. InLine
    <3>1. Typed(t)
      BY <1>1, StructTyped
    <3>2. PICK n \in Nat : n = Len(text)
      BY DEF PairText
    <3>3. ReadsHalf(t, text, <<>>, 1, 1, 1 + (n + 1 - 1))
      <4>1. PICK from \in Nat, last \in Nat : from = 1 /\ last = 1 + (n + 1 - 1)
        BY <3>2
      <4>2. /\ <<>> \in Seq(Char) /\ from = Len(<<>>) + 1
            /\ text \in Seq(Char) /\ 1 \in 1..Len(text) + 1
        BY <3>2, <4>1 DEF PairText
      <4>3. ReadsHalf(t, text, <<>>, 1, from, last)
        BY <2>1, <3>2, <4>1, <4>2, HalfLineReads
      <4> QED BY <4>1, <4>3
    <3> QED BY <2>1, <3>3, ValuesAssumption DEF InLine, ReadsHalf
  <2>3. ReadQuotes
    BY <1>1, <2>1, <2>2 DEF Tokenize, CheckVar, OpenQuotes, ReadVar, ReadMeta, ReadTail, EndTokens
  <2>4. tpc' = "open" /\ Opens(t') /\ Expanding(t', text, f, 1, <<>>)
    BY <1>1, <2>3, PairBegins
  <2> QED BY <2>3, <2>4 DEF PairAt, ReadQuotes
<1>2. CASE tpc = "open" /\ Opens(t) /\ \E i, done : Expanding(t, text, f, i, done)
  <2>1. PICK i, done : Expanding(t, text, f, i, done)
    BY <1>2
  <2>2. CheckVar
    BY <1>2 DEF Opens, Tokenize, ReadQuotes, OpenQuotes, ReadVar, ReadMeta, ReadTail, EndTokens
  <2>3. \/ tpc' = "open" /\ Opens(t') /\ \E m, d : Expanding(t', text, f, m, d)
        \/ tpc' = "close" /\ t' = t /\ AtTheQuote(t)
    BY <1>2, <2>1, <2>2, CheckVarExpands
  <2>4. CASE tpc' = "close" /\ t' = t /\ AtTheQuote(t)
    <3>1. /\ t.input = <<DQuote>> \o f[1] \o <<DQuote>>
          /\ 1 <= t.pos /\ t.pos < Len(t.input)
          /\ \A k \in 1..Len(f[1]) : f[1][k] \notin {DQuote, "\\"}
      BY <2>1, <2>4, Closes DEF AtTheQuote
    <3> QED BY <1>2, <2>2, <2>4, <3>1 DEF PairAt, CheckVar
  <2> QED BY <2>2, <2>3, <2>4 DEF PairAt, CheckVar
<1>3. CASE /\ tpc = "close" /\ Opens(t) /\ 1 <= t.pos /\ t.pos < Len(t.input)
           /\ t.input = <<DQuote>> \o f[1] \o <<DQuote>>
           /\ \A k \in 1..Len(f[1]) : f[1][k] \notin {DQuote, "\\"}
  <2>1. OpenQuotes
    BY <1>3 DEF Tokenize, ReadQuotes, CheckVar, ReadVar, ReadMeta, ReadTail, EndTokens
  <2>2. tpc' = "var" /\ Closed(t', f[1])
    BY <1>0, <1>3, <2>1, PairCloses
  <2> QED BY <2>1, <2>2 DEF PairAt, OpenQuotes
<1>4. CASE tpc \in {"var", "tail", "loop"} /\ Closed(t, f[1])
  BY <1>0, <1>4, PairStays DEF PairAt
<1>5. tpc # "done"
  BY DEF Tokenize, ReadQuotes, CheckVar, OpenQuotes, ReadVar, ReadMeta, ReadTail, EndTokens
<1> QED BY <1>1, <1>2, <1>3, <1>4, <1>5 DEF PairAt

----------------------------------------------------------------------------
(* One pair of quotes from the prompt to the executor.                     *)

\* What f says of the text is what a heredoc would make of it.
HeredocMakes(text, f) ==
  /\ Expansion(text, f) /\ f[1] = ExpandHeredocLine(text, Env)
  /\ \A i \in 1..Len(text) + 1 : f[i] = ExpandHeredocLine(SubSeq(text, i, Len(text)), Env)

\* What a line of a heredoc expands to, from every place of it on.
LEMMA HeredocExists ==
  ASSUME NEW text, text \in Seq(Char), status \in 0..255
  PROVE  \E f : HeredocMakes(text, f)
<1>1. PICK f \in [1..Len(text) + 1 -> Seq(Char)] :
        /\ f[Len(text) + 1] = <<>>
        /\ \A i \in 1..Len(text) : f[i] = PieceAt(text, i) \o f[NextAt(text, i)]
        /\ \A i \in 1..Len(text) + 1 : f[i] = ExpandHeredocLine(SubSeq(text, i, Len(text)), Env)
  BY ExpandSuffixes
<1>2. f[1] = ExpandHeredocLine(text, Env)
  <2>1. 1 \in 1..Len(text) + 1 /\ SubSeq(text, 1, Len(text)) = text
    BY SubSeqFull
  <2> QED BY <1>1, <2>1
<1> QED BY <1>1, <1>2 DEF HeredocMakes, Expansion

\* No member of a sequence is in a set.
LEMMA NoneOf ==
  ASSUME NEW S, NEW T, NEW x \in Seq(S)
  PROVE  ToSet(x) \cap T = {} <=> \A k \in 1..Len(x) : x[k] \notin T
<1>1. DOMAIN x = 1..Len(x)
  OBVIOUS
<1> QED BY <1>1 DEF ToSet

\* PairInTokens, as PairTokenizes reads it ...
LEMMA PairRead ==
  ASSUME NEW f, HeredocMakes(Inner, f), PairText(Inner), Typed(t), PairInTokens
  PROVE  PairAt(t, tpc, Text0, Inner, f)
<1>x. PICK x, z, s : x = Inner /\ z = Text0 /\ s = t
  OBVIOUS
<1>0. /\ Expansion(x, f) /\ f[1] = ExpandHeredocLine(x, Env) /\ f[1] \in Seq(Char)
      /\ \A i \in 1..Len(x) + 1 : f[i] = ExpandHeredocLine(SubSeq(x, i, Len(x)), Env)
  <2>1. Expansion(x, f)
    BY <1>x DEF HeredocMakes
  <2>2. 1 \in 1..Len(x) + 1
    BY <1>x DEF PairText
  <2>3. f[1] \in Seq(Char)
    BY <2>1, <2>2 DEF Expansion
  <2> QED BY <1>x, <2>1, <2>3 DEF HeredocMakes
<1>1. CASE tpc = "open" /\ PairOpen /\ HalfExpanded
  <2>1. Opens(s)
    BY <1>x, <1>1 DEF PairOpen, Opens
  <2>2. PICK i \in 1..Len(x) + 1 :
          HalfAt(s, x, i, ExpandHeredocLine(x, Env), ExpandHeredocLine(SubSeq(x, i, Len(x)), Env))
    BY <1>x, <1>1, HalfIs
  <2>3. HalfAt(s, x, i, f[1], f[i])
    BY <1>0, <2>2
  <2>4. \E done : Expanding(s, x, f, i, done)
    BY <1>0, <1>x, <2>1, <2>3, HalfExpands
  <2> QED BY <1>1, <1>x, <2>1, <2>4 DEF PairAt
<1>2. CASE /\ tpc = "close" /\ PairOpen /\ 1 <= t.pos /\ t.pos < Len(t.input)
           /\ t.input = <<DQuote>> \o ExpandHeredocLine(Inner, Env) \o <<DQuote>>
           /\ ToSet(ExpandHeredocLine(Inner, Env)) \cap {DQuote, "\\"} = {}
  <2>1. Opens(s)
    BY <1>x, <1>2 DEF PairOpen, Opens
  <2>2. \A k \in 1..Len(f[1]) : f[1][k] \notin {DQuote, "\\"}
    BY <1>0, <1>x, <1>2, NoneOf
  <2> QED BY <1>0, <1>x, <1>2, <2>1, <2>2 DEF PairAt
<1>3. CASE tpc \in {"var", "tail", "loop"} /\ PairClosed
  <2>1. Closed(s, f[1])
    BY <1>0, <1>x, <1>3 DEF PairClosed, Closed, QuoteOpen
  <2> QED BY <1>x, <1>3, <2>1 DEF PairAt
<1>4. CASE \/ tpc = "loop" /\ t = Struct(Text0)
           \/ tpc = "done" /\ t.list = <<Token("WORD", ExpandHeredocLine(Inner, Env))>>
  BY <1>0, <1>x, <1>4 DEF PairAt
<1> QED BY <1>1, <1>2, <1>3, <1>4 DEF PairInTokens

\* ... and back, in the next state.
LEMMA PairWritten ==
  ASSUME NEW line, NEW text, NEW f, HeredocMakes(text, f), PairText(text), status' = status,
         Text0' = line, Inner' = text, PairAt(t', tpc', line, text, f)
  PROVE  PairInTokens'
<1>r. PICK r : r = t'
  OBVIOUS
<1>0. /\ Expansion(text, f) /\ f[1] = ExpandHeredocLine(text, Env) /\ f[1] \in Seq(Char)
      /\ \A i \in 1..Len(text) + 1 : f[i] = ExpandHeredocLine(SubSeq(text, i, Len(text)), Env)
  <2>1. Expansion(text, f)
    BY DEF HeredocMakes
  <2>2. 1 \in 1..Len(text) + 1
    BY DEF PairText
  <2>3. f[1] \in Seq(Char)
    BY <2>1, <2>2 DEF Expansion
  <2> QED BY <2>1, <2>3 DEF HeredocMakes
<1>e. ExpandHeredocLine(Inner, Env)' = f[1]
  <2>1. ExpandHeredocLine(text, Env)' = ExpandHeredocLine(text, Env)
    BY ExpandStays
  <2> QED BY <1>0, <2>1
<1>1. CASE tpc' = "open" /\ Opens(r) /\ \E i, done : Expanding(r, text, f, i, done)
  <2>1. PICK i, done : Expanding(r, text, f, i, done)
    BY <1>1
  <2>2. i \in 1..Len(text) + 1 /\ HalfAt(r, text, i, f[1], f[i])
    BY <2>1, ExpandingHalf
  <2>3. HalfAt(r, text, i, ExpandHeredocLine(text, Env), ExpandHeredocLine(SubSeq(text, i, Len(text)), Env))
    BY <1>0, <2>2
  <2>4. HalfExpanded'
    BY <1>r, <2>2, <2>3, HalfPrimed
  <2>5. PairOpen'
    BY <1>r, <1>1 DEF PairOpen, Opens
  <2> QED BY <1>1, <2>4, <2>5 DEF PairInTokens
<1>2. CASE /\ tpc' = "close" /\ Opens(r) /\ 1 <= r.pos /\ r.pos < Len(r.input)
           /\ r.input = <<DQuote>> \o f[1] \o <<DQuote>>
           /\ \A k \in 1..Len(f[1]) : f[1][k] \notin {DQuote, "\\"}
  <2>1. ToSet(f[1]) \cap {DQuote, "\\"} = {}
    BY <1>0, <1>2, NoneOf
  <2>2. PairOpen'
    BY <1>r, <1>2 DEF PairOpen, Opens
  <2> QED BY <1>e, <1>r, <1>2, <2>1, <2>2 DEF PairInTokens
<1>3. CASE tpc' \in {"var", "tail", "loop"} /\ Closed(r, f[1])
  <2>1. PairClosed'
    BY <1>e, <1>r, <1>3 DEF PairClosed, Closed, QuoteOpen
  <2> QED BY <1>3, <2>1 DEF PairInTokens
<1>4. CASE \/ tpc' = "loop" /\ r = Struct(line)
           \/ tpc' = "done" /\ r.list = <<Token("WORD", f[1])>>
  BY <1>e, <1>r, <1>4 DEF PairInTokens
<1> QED BY <1>r, <1>1, <1>2, <1>3, <1>4 DEF PairAt

\* In one pair of quotes both stores have the same value for every name.
LEMMA StoresAgree ==
  ASSUME Text0 \in Seq(Char), OnePair, status \in 0..255, env \in Lists
  PROVE  ExpandHeredocLine(Inner, env) = ExpandHeredocLine(Inner, Env)
<1>l. PICK list \in Lists : list = env
  OBVIOUS
<1>x. PICK x : x = Inner
  OBVIOUS
<1>1. x \in Seq(Char) /\ \A i \in 1..Len(x) :
        x[i] = "$" => NameAt(x, i) = <<>> \/ Agreed(NameAt(x, i))
  BY <1>x, PairIs DEF PairText
<1>s. x \in Seq(Char)
  BY <1>1
<1>2. PICK n \in Nat : n = Len(x)
  BY <1>1
<1>3. ASSUME NEW i \in 1..n PROVE PieceIn(x, i, list) = PieceIn(x, i, Env)
  <2>1. ASSUME IsName(x, i), NameAt(x, i) = <<>>
        PROVE  NameAt(x, i) \notin DOMAIN list /\ NameAt(x, i) \notin DOMAIN Env
    BY <1>l, <2>1, ValuesAssumption
  <2>2. ASSUME IsName(x, i), NameAt(x, i) # <<>>
        PROVE  /\ NameAt(x, i) \in DOMAIN list /\ NameAt(x, i) \in DOMAIN Env
               /\ list[NameAt(x, i)] = Env[NameAt(x, i)]
    BY <1>l, <1>1, <1>2, <2>2 DEF IsName, Agreed
  <2> QED BY <2>1, <2>2 DEF PieceIn
<1>4. PICK p, q, next : /\ p = [i \in 1..n |-> PieceIn(x, i, list)]
                        /\ q = [i \in 1..n |-> PieceIn(x, i, Env)]
                        /\ next = [i \in 1..n |-> NextAt(x, i)]
  OBVIOUS
<1>5. p = q
  BY <1>3, <1>4
<1>6. PICK f \in [1..n + 1 -> Seq(Char)] :
        Joins(f, n, p, next) /\ ExpandHeredocLine(x, list) = f[1]
  <2>1. /\ p = [i \in 1..Len(x) |-> PieceIn(x, i, list)]
        /\ next = [i \in 1..Len(x) |-> NextAt(x, i)]
    BY <1>2, <1>4
  <2>2. list \in Lists \cup {Env}
    BY <1>l
  <2>3. \E f \in [1..Len(x) + 1 -> Seq(Char)] :
          Joins(f, Len(x), p, next) /\ ExpandHeredocLine(x, list) = f[1]
    BY <1>s, <2>1, <2>2, ExpandJoins
  <2> QED BY <1>2, <2>3
<1>7. PICK g \in [1..n + 1 -> Seq(Char)] :
        Joins(g, n, q, next) /\ ExpandHeredocLine(x, Env) = g[1]
  <2>1. /\ q = [i \in 1..Len(x) |-> PieceIn(x, i, Env)]
        /\ next = [i \in 1..Len(x) |-> NextAt(x, i)]
    BY <1>2, <1>4
  <2>2. \E g \in [1..Len(x) + 1 -> Seq(Char)] :
          Joins(g, Len(x), q, next) /\ ExpandHeredocLine(x, Env) = g[1]
    BY <1>s, <2>1, ExpandJoins
  <2> QED BY <1>2, <2>2
<1>8. \A i \in 1..n : next[i] \in i + 1..n + 1
  BY <1>1, <1>2, <1>4, PieceIs
<1>9. f = g
  BY <1>5, <1>6, <1>7, <1>8, JoinUnique
<1> QED BY <1>l, <1>x, <1>6, <1>7, <1>9

\* As long as the line is the same, so are its text and what is asked of it.
LEMMA SameLine ==
  ASSUME typed' = typed, env' = env
  PROVE  Text0' = Text0 /\ Inner' = Inner /\ (OnePair' <=> OnePair)
<1>1. Text0' = Text0 /\ Inner' = Inner
  BY DEF Text0, Inner
<1> QED BY <1>1 DEF OnePair, Agreed, NameAt, NameEnd

\* A step of the tokenizer keeps its part of PairInv.
LEMMA PairTokensStep ==
  ASSUME Text0 \in Seq(Char), OnePair, Typed(t), status \in 0..255, PairInTokens, typed' = typed,
         env' = env, Tokenize \/ UNCHANGED <<t, tpc, status>>
  PROVE  PairInTokens'
<1>1. PairText(Inner) /\ Text0 = HalfLine(<<>>, Inner, 1)
  BY PairIs
<1>2. PICK f : HeredocMakes(Inner, f)
  <2>1. Inner \in Seq(Char)
    BY <1>1 DEF PairText
  <2> QED BY <2>1, HeredocExists
<1>3. PairAt(t, tpc, Text0, Inner, f)
  BY <1>1, <1>2, PairRead
<1>x. PICK line, x : line = Text0 /\ x = Inner
  OBVIOUS
<1>4. PairAt(t', tpc', line, x, f) /\ status' = status
  <2>1. CASE Tokenize
    <3>1. Expansion(x, f)
      BY <1>2, <1>x DEF HeredocMakes
    <3> QED BY <1>1, <1>3, <1>x, <2>1, <3>1, PairTokenizes
  <2>2. CASE UNCHANGED <<t, tpc, status>>
    BY <1>3, <1>x, <2>2
  <2> QED BY <2>1, <2>2
<1>5. Text0' = line /\ Inner' = x
  BY <1>x, SameLine
<1> QED BY <1>1, <1>2, <1>x, <1>4, <1>5, PairWritten
=============================================================================
