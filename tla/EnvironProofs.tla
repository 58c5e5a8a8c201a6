---------------------------- MODULE EnvironProofs ----------------------------
(***************************************************************************)
(* The list of variables is a map: type correctness, unique names, and the *)
(* refinement of VarMap, for any names, values and arguments.              *)
(***************************************************************************)
EXTENDS Environ, LoopTheorems, FiniteSetTheorems, SequenceTheorems, TLAPS

LEMMA Removed ==
  ASSUME NEW S, NEW l \in Seq(S), NEW i \in DOMAIN l
  PROVE  /\ RemoveAt(l, i) \in Seq(S)
         /\ Len(RemoveAt(l, i)) = Len(l) - 1
         /\ \A j \in 1..Len(l)-1 : RemoveAt(l, i)[j] = IF j < i THEN l[j] ELSE l[j+1]
<1> DEFINE f == SubSeq(l, 1, i-1)  g == SubSeq(l, i+1, Len(l))
<1>1. /\ f \in Seq(S) /\ Len(f) = i - 1
      /\ \A j \in 1..i-1 : f[j] = l[j]
  OBVIOUS
<1>2. /\ g \in Seq(S) /\ Len(g) = Len(l) - i
      /\ \A j \in 1..Len(l)-i : g[j] = l[i+j]
  OBVIOUS
<1>3. RemoveAt(l, i) = f \o g
  BY DEF RemoveAt
<1> HIDE DEF f, g
<1>4. f \o g \in Seq(S) /\ Len(f \o g) = Len(l) - 1
  BY <1>1, <1>2
<1>5. ASSUME NEW j \in 1..Len(l)-1
      PROVE  (f \o g)[j] = IF j < i THEN l[j] ELSE l[j+1]
  <2>1. CASE j < i
    BY <1>1, <1>2, <2>1
  <2>2. CASE ~(j < i)
    <3>a. i \in Int /\ Len(l) \in Nat /\ j \in Int /\ j <= Len(l)-1 /\ i <= j /\ 1 <= i
      BY <2>2
    <3>b. j - (i-1) \in 1..Len(l)-i
      BY <3>a
    <3>c. j \in 1..(Len(f) + Len(g)) /\ ~(j <= Len(f))
      BY <1>1, <1>2, <3>a
    <3>d. (f \o g)[j] = g[j - Len(f)]
      <4>1. \A x \in 1..Len(f) + Len(g) : (f \o g)[x] = IF x <= Len(f) THEN f[x] ELSE g[x - Len(f)]
        BY <1>1, <1>2, ConcatProperties
      <4> QED BY <3>c, <4>1
    <3>1. (f \o g)[j] = g[j - (i-1)] /\ j - (i-1) \in 1..Len(l)-i
      BY <1>1, <3>b, <3>d
    <3>2. g[j - (i-1)] = l[i + (j - (i-1))]
      BY <1>2, <3>1
    <3> QED BY <2>2, <3>1, <3>2
  <2> QED BY <2>1, <2>2
<1> QED BY <1>3, <1>4, <1>5

LEMMA Consed ==
  ASSUME NEW S, NEW l \in Seq(S), NEW e \in S
  PROVE  /\ Cons(e, l) \in Seq(S) /\ Len(Cons(e, l)) = Len(l) + 1
         /\ Cons(e, l)[1] = e
         /\ \A j \in DOMAIN l : Cons(e, l)[j+1] = l[j]
BY DEF Cons

\* In a list without duplicates, an entry is what the lookup finds.
LEMMA LookupEntry ==
  ASSUME NEW l \in Seq(Entry), Unique(l), NEW i \in DOMAIN l
  PROVE  /\ IndexOf(l, l[i].key) = i
         /\ l[i].key \in Key /\ LookupIn(l)[l[i].key] = l[i].value
<1>a. l[i] \in Entry
  OBVIOUS
<1>1. l[i].key \in Key /\ l[i].key \in Keys(l)
  BY <1>a DEF Entry, Keys
<1>2. \A j \in 1..i-1 : l[j].key # l[i].key
  BY DEF Unique
<1>3. \A m \in DOMAIN l : l[m].key = l[i].key => m = i
  BY DEF Unique
<1>4. IndexOf(l, l[i].key) = i
  BY <1>2, <1>3 DEF IndexOf
<1> QED BY <1>1, <1>4 DEF LookupIn

LEMMA LookupAbsent ==
  ASSUME NEW l, NEW k \in Key, k \notin Keys(l)
  PROVE  LookupIn(l)[k] = Absent
BY DEF LookupIn

LEMMA AddLookup ==
  ASSUME NEW l \in Seq(Entry), Unique(l), NEW k \in Key, k \notin Keys(l),
         NEW v \in Value \cup {NoValue}
  PROVE  /\ AddEnv(l, k, v) \in Seq(Entry) /\ Unique(AddEnv(l, k, v))
         /\ LookupIn(AddEnv(l, k, v)) = [LookupIn(l) EXCEPT ![k] = v]
<1> DEFINE e == [key |-> k, value |-> v]  m == AddEnv(l, k, v)
<1>1. e \in Entry
  BY DEF Entry
<1>a. m = Cons(e, l)
  BY DEF AddEnv
<1>2. /\ m \in Seq(Entry) /\ Len(m) = Len(l) + 1 /\ m[1] = e
      /\ \A j \in DOMAIN l : m[j+1] = l[j]
  <2> HIDE DEF m, e
  <2>1. /\ Cons(e, l) \in Seq(Entry) /\ Len(Cons(e, l)) = Len(l) + 1
        /\ Cons(e, l)[1] = e
        /\ \A j \in DOMAIN l : Cons(e, l)[j+1] = l[j]
    BY <1>1, Consed
  <2> QED BY <1>a, <2>1
<1> HIDE DEF m
<1>3. \A j \in DOMAIN m : j = 1 \/ (j-1 \in DOMAIN l /\ m[j] = l[j-1])
  BY <1>2
<1>4. \A j \in DOMAIN l : l[j].key # k
  BY DEF Keys
<1>5. m[1].key = k /\ m[1].value = v
  BY <1>2
<1>6. Unique(m)
  <2> SUFFICES ASSUME NEW i \in DOMAIN m, NEW j \in DOMAIN m, m[i].key = m[j].key PROVE i = j
    BY DEF Unique
  <2>1. i \in Int /\ j \in Int
    BY <1>2
  <2> QED BY <1>3, <1>4, <1>5, <2>1 DEF Unique
<1>7. ASSUME NEW n \in Key PROVE LookupIn(m)[n] = [LookupIn(l) EXCEPT ![k] = v][n]
  <2>1. CASE n = k
    <3>1. 1 \in DOMAIN m
      BY <1>2
    <3>2. LookupIn(m)[k] = v
      BY <1>2, <1>5, <1>6, <3>1, LookupEntry
    <3> QED BY <2>1, <3>2 DEF LookupIn
  <2>2. CASE n # k /\ n \in Keys(l)
    <3>1. PICK i \in DOMAIN l : l[i].key = n
      BY <2>2 DEF Keys
    <3>2. i+1 \in DOMAIN m /\ m[i+1] = l[i]
      BY <1>2
    <3>3. LookupIn(m)[n] = l[i].value
      BY <1>2, <1>6, <3>1, <3>2, LookupEntry
    <3>4. LookupIn(l)[n] = l[i].value
      BY <3>1, LookupEntry
    <3> QED BY <2>2, <3>3, <3>4 DEF LookupIn
  <2>3. CASE n # k /\ n \notin Keys(l)
    <3>1. n \notin Keys(m)
      BY <1>3, <1>5, <2>3 DEF Keys
    <3> QED BY <2>3, <3>1, LookupAbsent DEF LookupIn
  <2> QED BY <2>1, <2>2, <2>3
<1>8. LookupIn(m) = [LookupIn(l) EXCEPT ![k] = v]
  BY <1>7 DEF LookupIn
<1> QED BY <1>2, <1>6, <1>8 DEF m

LEMMA UpdateLookup ==
  ASSUME NEW l \in Seq(Entry), Unique(l), NEW k \in Keys(l), NEW v \in Value \cup {NoValue}
  PROVE  /\ UpdateEnv(l, k, v) \in Seq(Entry) /\ Unique(UpdateEnv(l, k, v))
         /\ LookupIn(UpdateEnv(l, k, v)) = [LookupIn(l) EXCEPT ![k] = v]
<1> DEFINE m == UpdateEnv(l, k, v)
<1>1. PICK i \in DOMAIN l : l[i].key = k
  BY DEF Keys
<1>2. IndexOf(l, k) = i /\ k \in Key
  BY <1>1, LookupEntry
<1>3. m = [l EXCEPT ![i].value = v]
  BY <1>2 DEF UpdateEnv
<1>a. l[i] \in Entry
  OBVIOUS
<1>4. /\ [l[i] EXCEPT !.value = v] \in Entry
      /\ [l[i] EXCEPT !.value = v].key = l[i].key /\ [l[i] EXCEPT !.value = v].value = v
  BY <1>a DEF Entry
<1>5. /\ m \in Seq(Entry) /\ Len(m) = Len(l) /\ DOMAIN m = DOMAIN l
      /\ \A j \in DOMAIN l : m[j] = IF j = i THEN [l[i] EXCEPT !.value = v] ELSE l[j]
  BY <1>3, <1>4
<1> HIDE DEF m
<1>6. \A j \in DOMAIN l : m[j].key = l[j].key
  BY <1>4, <1>5
<1>7. Unique(m)
  BY <1>5, <1>6 DEF Unique
<1>8. m[i].value = v
  BY <1>4, <1>5
<1>9. ASSUME NEW n \in Key PROVE LookupIn(m)[n] = [LookupIn(l) EXCEPT ![k] = v][n]
  <2>1. CASE n = k
    <3>1. i \in DOMAIN m /\ m[i].key = k
      BY <1>1, <1>5, <1>6
    <3>2. LookupIn(m)[k] = v
      BY <1>5, <1>7, <1>8, <3>1, LookupEntry
    <3> QED BY <2>1, <3>2 DEF LookupIn
  <2>2. CASE n # k /\ n \in Keys(l)
    <3>1. PICK j \in DOMAIN l : l[j].key = n
      BY <2>2 DEF Keys
    <3>2. m[j] = l[j]
      BY <1>1, <1>5, <2>2, <3>1
    <3>3. LookupIn(m)[n] = l[j].value /\ LookupIn(l)[n] = l[j].value
      BY <1>5, <1>7, <3>1, <3>2, LookupEntry
    <3> QED BY <2>2, <3>3 DEF LookupIn
  <2>3. CASE n # k /\ n \notin Keys(l)
    <3>1. n \notin Keys(m)
      BY <1>5, <1>6, <2>3 DEF Keys
    <3> QED BY <2>3, <3>1, LookupAbsent DEF LookupIn
  <2> QED BY <2>1, <2>2, <2>3
<1>10. LookupIn(m) = [LookupIn(l) EXCEPT ![k] = v]
  BY <1>9 DEF LookupIn
<1> QED BY <1>5, <1>7, <1>10 DEF m

LEMMA UnsetLookup ==
  ASSUME NEW l \in Seq(Entry), Unique(l), NEW k \in Key
  PROVE  /\ UnsetEnv(l, k) \in Seq(Entry) /\ Unique(UnsetEnv(l, k))
         /\ LookupIn(UnsetEnv(l, k)) = [LookupIn(l) EXCEPT ![k] = Absent]
<1>1. CASE k \notin Keys(l)
  <2>1. UnsetEnv(l, k) = l
    BY <1>1 DEF UnsetEnv
  <2>2. LookupIn(l) = [LookupIn(l) EXCEPT ![k] = Absent]
    BY <1>1, LookupAbsent DEF LookupIn
  <2> QED BY <2>1, <2>2
<1>2. CASE k \in Keys(l)
  <2> DEFINE m == UnsetEnv(l, k)
  <2>1. PICK i \in DOMAIN l : l[i].key = k
    BY <1>2 DEF Keys
  <2>2. m = RemoveAt(l, i)
    BY <1>2, <2>1, LookupEntry DEF UnsetEnv
  <2>3. /\ m \in Seq(Entry) /\ Len(m) = Len(l) - 1
        /\ \A j \in 1..Len(l)-1 : m[j] = IF j < i THEN l[j] ELSE l[j+1]
    BY <2>2, Removed
  <2> HIDE DEF m
  <2>4. \A j \in DOMAIN m : LET s == IF j < i THEN j ELSE j + 1 IN
          s \in DOMAIN l /\ s # i /\ m[j] = l[s]
    BY <2>3
  <2>5. \A s \in DOMAIN l : s # i => \E j \in DOMAIN m : m[j] = l[s]
    <3> SUFFICES ASSUME NEW s \in DOMAIN l, s # i PROVE \E j \in DOMAIN m : m[j] = l[s]
      OBVIOUS
    <3>1. CASE s < i
      BY <2>3, <3>1
    <3>2. CASE s > i
      <4>1. s - 1 \in DOMAIN m /\ m[s-1] = l[s]
        BY <2>3, <3>2
      <4> QED BY <4>1
    <3> QED BY <3>1, <3>2
  <2>6. Unique(m)
    <3> SUFFICES ASSUME NEW a \in DOMAIN m, NEW b \in DOMAIN m, m[a].key = m[b].key PROVE a = b
      BY DEF Unique
    <3>1. a \in Int /\ b \in Int
      BY <2>3
    <3> QED BY <2>4, <3>1 DEF Unique
  <2>7. ASSUME NEW n \in Key PROVE LookupIn(m)[n] = [LookupIn(l) EXCEPT ![k] = Absent][n]
    <3>1. CASE n = k
      <4>1. n \notin Keys(m)
        BY <2>1, <2>4, <3>1 DEF Keys, Unique
      <4> QED BY <3>1, <4>1, LookupAbsent DEF LookupIn
    <3>2. CASE n # k /\ n \in Keys(l)
      <4>1. PICK s \in DOMAIN l : l[s].key = n
        BY <3>2 DEF Keys
      <4>2. PICK j \in DOMAIN m : m[j] = l[s]
        BY <2>1, <2>5, <3>2, <4>1
      <4>3. LookupIn(m)[n] = l[s].value /\ LookupIn(l)[n] = l[s].value
        BY <2>3, <2>6, <4>1, <4>2, LookupEntry
      <4> QED BY <3>2, <4>3 DEF LookupIn
    <3>3. CASE n # k /\ n \notin Keys(l)
      <4>1. n \notin Keys(m)
        BY <2>4, <3>3 DEF Keys
      <4> QED BY <3>3, <4>1, LookupAbsent DEF LookupIn
    <3> QED BY <3>1, <3>2, <3>3
  <2>8. LookupIn(m) = [LookupIn(l) EXCEPT ![k] = Absent]
    BY <2>7 DEF LookupIn
  <2> QED BY <2>3, <2>6, <2>8 DEF m
<1> QED BY <1>1, <1>2

LEMMA CopyLookup ==
  ASSUME NEW e \in Start, NEW l \in CopyEnv(e)
  PROVE  l \in Seq(Entry) /\ Unique(l) /\ LookupIn(l) = e
<1> DEFINE S == {k \in Key : e[k] # Absent}  N == 1..Cardinality(S)
<1>1. Cardinality(S) \in Nat
  BY EnvironAssumption, FS_Subset, FS_CardinalityType
<1>2. PICK f \in [N -> S] :
        /\ \A i, j \in N : f[i] = f[j] => i = j
        /\ \A k \in S : \E i \in N : f[i] = k
        /\ l = [i \in N |-> [key |-> f[i], value |-> e[f[i]]]]
  BY DEF CopyEnv
<1>3. e \in [Key -> Value \cup {Absent}]
  BY EnvironAssumption
<1>4. \A i \in N : l[i] = [key |-> f[i], value |-> e[f[i]]] /\ l[i] \in Entry
  BY <1>2, <1>3 DEF Entry
<1>5. l \in Seq(Entry) /\ DOMAIN l = N
  BY <1>1, <1>2, <1>4
<1>6. Unique(l)
  BY <1>2, <1>4, <1>5 DEF Unique
<1>7. ASSUME NEW n \in Key PROVE LookupIn(l)[n] = e[n]
  <2>1. CASE n \in S
    <3>1. PICK i \in N : f[i] = n
      BY <1>2, <2>1
    <3>2. l[i].key = n /\ l[i].value = e[n] /\ i \in DOMAIN l
      BY <1>4, <1>5, <3>1
    <3> QED BY <1>5, <1>6, <3>2, LookupEntry
  <2>2. CASE n \notin S
    <3>1. n \notin Keys(l)
      BY <1>2, <1>4, <1>5, <2>2 DEF Keys
    <3> QED BY <2>2, <3>1, LookupAbsent
  <2> QED BY <2>1, <2>2
<1>8. LookupIn(l) = e
  BY <1>3, <1>7 DEF LookupIn
<1> QED BY <1>5, <1>6, <1>8

-----------------------------------------------------------------------------
LEMMA UpdateVarLookup ==
  ASSUME NEW l \in Seq(Entry), Unique(l), NEW k \in Key, NEW v \in Value \cup {NoValue}
  PROVE  /\ UpdateEnvVar(l, k, v) \in Seq(Entry) /\ Unique(UpdateEnvVar(l, k, v))
         /\ LookupIn(UpdateEnvVar(l, k, v)) = [LookupIn(l) EXCEPT ![k] = v]
<1>1. CASE k \in Keys(l)
  BY <1>1, UpdateLookup DEF UpdateEnvVar
<1>2. CASE k \notin Keys(l)
  BY <1>2, AddLookup DEF UpdateEnvVar
<1> QED BY <1>1, <1>2

LEMMA ShlvlLookup ==
  ASSUME NEW l \in Seq(Entry), Unique(l), NEW m \in InitShlvl(l)
  PROVE  /\ m \in Seq(Entry) /\ Unique(m)
         /\ \E v \in Level : LookupIn(m) = [LookupIn(l) EXCEPT ![SHLVL] = v]
<1>1. SHLVL \in Key /\ FirstLevel \in Level /\ Level \subseteq Value
  BY EnvironAssumption
<1>2. CASE SHLVL \in Keys(l)
  <2>1. PICK v \in Level : m = UpdateEnv(l, SHLVL, v)
    BY <1>2 DEF InitShlvl
  <2> QED BY <1>1, <1>2, <2>1, UpdateLookup
<1>3. CASE SHLVL \notin Keys(l)
  <2>1. m = AddEnv(l, SHLVL, FirstLevel)
    BY <1>3 DEF InitShlvl
  <2> QED BY <1>1, <1>3, <2>1, AddLookup
<1> QED BY <1>2, <1>3

LEMMA ValueLookup ==
  ASSUME NEW l \in Seq(Entry), Unique(l), NEW k \in Key
  PROVE  /\ GetEnvValue(l, k) \in Value \cup {NoValue}
         /\ LookupIn(l)[k] \in Value \cup {NoValue, Absent}
         /\ GetEnvValue(l, k) = IF LookupIn(l)[k] = Absent THEN NoValue ELSE LookupIn(l)[k]
<1>1. CASE k \notin Keys(l)
  BY <1>1, LookupAbsent DEF GetEnvValue
<1>2. CASE k \in Keys(l)
  <2>1. PICK i \in DOMAIN l : l[i].key = k
    BY <1>2 DEF Keys
  <2>2. l[i] \in Entry
    OBVIOUS
  <2>3. l[i].value \in Value \cup {NoValue} /\ l[i].value # Absent
    BY <2>2, EnvironAssumption DEF Entry
  <2>4. GetEnvValue(l, k) = l[i].value /\ LookupIn(l)[k] = l[i].value
    BY <1>2, <2>1, LookupEntry DEF GetEnvValue
  <2> QED BY <2>3, <2>4
<1> QED BY <1>1, <1>2

MapVars == <<LookupIn(env), Requests>>

EInv == TypeOK /\ UniqueKeys

LEMMA InitMap == Init => EInv /\ Map!Init
<1> SUFFICES ASSUME Init PROVE EInv /\ Map!Init
  OBVIOUS
<1>1. /\ env \in Seq(Entry) /\ Unique(env)
      /\ \E v \in Level : LookupIn(env) = [environ EXCEPT ![SHLVL] = v]
  <2>1. PICK l \in CopyEnv(environ) : env \in InitShlvl(l)
    BY DEF Init
  <2>2. l \in Seq(Entry) /\ Unique(l) /\ LookupIn(l) = environ
    BY CopyLookup DEF Init
  <2> QED BY <2>1, <2>2, ShlvlLookup
<1>2. environ \in [Key -> Value \cup {Absent}]
  BY EnvironAssumption DEF Init
<1>3. TypeOK
  <2>1. /\ args \in Seq(Arg) /\ calls \in 0..MaxCalls
    BY EnvironAssumption DEF Init
  <2>2. cwd \in Dir /\ before \in Dir /\ there \subseteq Dir /\ old \in Dir \cup {Absent}
    BY DEF Init
  <2>3. /\ call = "none" /\ args = <<>> /\ step = "no" /\ status = 0
        /\ bad = FALSE /\ recorded = FALSE
    BY DEF Init
  <2> QED BY <1>1, <1>2, <2>1, <2>2, <2>3 DEF TypeOK
<1>4. Requests = <<>>
  BY DEF Init, Requests
<1>5. environ \in Start
  BY DEF Init
<1> QED BY <1>1, <1>3, <1>4, <1>5 DEF EInv, UniqueKeys, Map!Init

\* What every step that serves an argument does to the queue of requests.
LEMMA Taken ==
  ASSUME EInv, args # <<>>, args' = Tail(args), UNCHANGED call
  PROVE  /\ Head(args) \in Arg /\ args' \in Seq(Arg)
         /\ Requests # <<>> /\ Head(Requests) = Asked(Head(args))
         /\ Requests' = Tail(Requests)
<1>1. args \in Seq(Arg)
  BY DEF EInv, TypeOK
<1>2. \A a \in Arg : Asked(a)' = Asked(a)
  BY DEF Asked
<1>3. /\ Requests # <<>> /\ Head(Requests) = Asked(Head(args))
  BY <1>1 DEF Requests
<1>4. Requests' = [i \in DOMAIN args' |-> Asked(args'[i])]
  BY <1>1, <1>2 DEF Requests, Asked
<1>5. Tail(Requests) = [i \in DOMAIN args' |-> Asked(args'[i])]
  BY <1>1 DEF Requests
<1> QED BY <1>1, <1>3, <1>4, <1>5

LEMMA Fields ==
  ASSUME NEW a \in Arg
  PROVE  /\ a.form \in {"name", "assign", "append", "bad"} /\ a.key \in Key
         /\ a.text \in Value
         /\ Asked(a).key = a.key /\ Asked(a).text = a.text
         /\ Asked(a) \in Map!Request
<1>1. /\ a.form \in {"name", "assign", "append", "bad"} /\ a.key \in Key
      /\ a.text \in Value
  BY EnvironAssumption
<1> QED BY <1>1 DEF Asked, Map!Request

LEMMA ExportArgMaps ==
  ASSUME EInv, ExportArg
  PROVE  env' \in Seq(Entry) /\ Unique(env') /\ args' \in Seq(Arg) /\ Map!Serve
<1> DEFINE a == Head(args)
<1>1. env \in Seq(Entry) /\ Unique(env)
  BY DEF EInv, TypeOK, UniqueKeys
<1>2. args # <<>> /\ args' = Tail(args) /\ UNCHANGED call /\ call = "export"
  BY DEF ExportArg
<1>3. /\ a \in Arg /\ args' \in Seq(Arg)
      /\ Requests # <<>> /\ Head(Requests) = Asked(a) /\ Requests' = Tail(Requests)
  BY <1>2, Taken
<1>4. /\ a.key \in Key /\ a.text \in Value /\ Asked(a).key = a.key /\ Asked(a).text = a.text
  BY <1>3, Fields
<1> HIDE DEF a
<1>5. CASE a.form = "bad" /\ UNCHANGED env
  <2>1. Asked(a).what = "refuse"
    BY <1>2, <1>5 DEF Asked
  <2>2. Map!After(Asked(a)) = LookupIn(env)
    BY <2>1 DEF Map!After
  <2> QED BY <1>1, <1>3, <1>5, <2>2 DEF Map!Serve, LookupIn
<1>6. CASE a.form = "name" /\ MarkAsExportable(a)
  <2>1. Asked(a).what = "declare"
    BY <1>2, <1>6 DEF Asked
  <2>2. Map!After(Asked(a)) =
          [LookupIn(env) EXCEPT ![a.key] = IF @ = Absent THEN NoValue ELSE @]
    BY <1>4, <2>1 DEF Map!After
  <2>3. CASE a.key \in Keys(env)
    <3>1. env' = env
      BY <1>6, <2>3 DEF MarkAsExportable
    <3>2. PICK i \in DOMAIN env : env[i].key = a.key
      BY <2>3 DEF Keys
    <3>3. env[i] \in Entry
      BY <1>1
    <3>a. env[i].value # Absent
      BY <3>3, EnvironAssumption DEF Entry
    <3>b. LookupIn(env)[env[i].key] = env[i].value
      BY <1>1, <3>2, LookupEntry
    <3>4. LookupIn(env)[a.key] # Absent
      BY <3>2, <3>a, <3>b
    <3>5. Map!After(Asked(a)) = LookupIn(env)
      BY <2>2, <3>4 DEF LookupIn
    <3> QED BY <1>1, <1>3, <3>1, <3>5 DEF Map!Serve, LookupIn
  <2>4. CASE a.key \notin Keys(env)
    <3>1. env' = AddEnv(env, a.key, NoValue)
      BY <1>6, <2>4 DEF MarkAsExportable
    <3>2. /\ env' \in Seq(Entry) /\ Unique(env')
          /\ LookupIn(env') = [LookupIn(env) EXCEPT ![a.key] = NoValue]
      BY <1>1, <1>4, <2>4, <3>1, AddLookup
    <3>3. LookupIn(env)[a.key] = Absent
      BY <1>4, <2>4, LookupAbsent
    <3> QED BY <1>3, <2>2, <3>2, <3>3 DEF Map!Serve
  <2> QED BY <2>3, <2>4
<1>7. CASE a.form \in {"assign", "append"} /\ HandleKeyValuePair(a)
  <2> DEFINE held == IF GetEnvValue(env, a.key) = NoValue THEN <<>>
                     ELSE GetEnvValue(env, a.key)
             v == IF a.form = "append" THEN held \o a.text ELSE a.text
  <2>1. env' = UpdateEnvVar(env, a.key, v)
    BY <1>7 DEF HandleKeyValuePair
  <2> DEFINE g == GetEnvValue(env, a.key)  x == LookupIn(env)[a.key]
  <2>a. g \in Value \cup {NoValue} /\ g = (IF x = Absent THEN NoValue ELSE x)
    BY <1>1, <1>4, ValueLookup
  <2>b. <<>> \in Value /\ NoValue # Absent /\ Absent \notin Value
    BY EnvironAssumption DEF Value
  <2>c. held = (IF g = NoValue THEN <<>> ELSE g)
        /\ Map!Text(a.key) = (IF x = NoValue \/ x = Absent THEN <<>> ELSE x)
    BY DEF Map!Text
  <2> HIDE DEF held, g, x
  <2>2. held \in Value /\ held = Map!Text(a.key)
    BY <2>a, <2>b, <2>c
  <2>3. v \in Value
    BY <1>4, <2>2 DEF Value
  <2>4. Map!After(Asked(a)) = [LookupIn(env) EXCEPT ![a.key] = v]
    <3>1. CASE a.form = "assign"
      BY <1>2, <1>4, <3>1 DEF Map!After, Asked
    <3>2. CASE a.form = "append"
      <4>1. Asked(a).what = "append"
        BY <1>2, <3>2 DEF Asked
      <4> QED BY <1>4, <2>2, <3>2, <4>1 DEF Map!After
    <3> QED BY <1>7, <3>1, <3>2
  <2> HIDE DEF v
  <2>5. /\ env' \in Seq(Entry) /\ Unique(env')
        /\ LookupIn(env') = [LookupIn(env) EXCEPT ![a.key] = v]
    BY <1>1, <1>4, <2>1, <2>3, UpdateVarLookup
  <2> QED BY <1>3, <2>4, <2>5 DEF Map!Serve
<1> QED BY <1>5, <1>6, <1>7 DEF ExportArg, a

LEMMA UnsetArgMaps ==
  ASSUME EInv, UnsetArg
  PROVE  env' \in Seq(Entry) /\ Unique(env') /\ args' \in Seq(Arg) /\ Map!Serve
<1> DEFINE a == Head(args)
<1>1. env \in Seq(Entry) /\ Unique(env)
  BY DEF EInv, TypeOK, UniqueKeys
<1>2. args # <<>> /\ args' = Tail(args) /\ UNCHANGED call /\ call = "unset"
  BY DEF UnsetArg
<1>3. /\ a \in Arg /\ args' \in Seq(Arg)
      /\ Requests # <<>> /\ Head(Requests) = Asked(a) /\ Requests' = Tail(Requests)
  BY <1>2, Taken
<1>4. a.key \in Key /\ Asked(a).key = a.key
  BY <1>3, Fields
<1>5. \/ a.form = "name" /\ env' = UnsetEnv(env, a.key)
      \/ a.form # "name" /\ env' = env
  BY DEF UnsetArg
<1> HIDE DEF a
<1>6. CASE a.form = "name" /\ env' = UnsetEnv(env, a.key)
  <2>1. Asked(a).what = "remove"
    BY <1>2, <1>6 DEF Asked
  <2>2. Map!After(Asked(a)) = [LookupIn(env) EXCEPT ![a.key] = Absent]
    BY <1>4, <2>1 DEF Map!After
  <2>3. /\ env' \in Seq(Entry) /\ Unique(env')
        /\ LookupIn(env') = [LookupIn(env) EXCEPT ![a.key] = Absent]
    BY <1>1, <1>4, <1>6, UnsetLookup
  <2> QED BY <1>3, <2>2, <2>3 DEF Map!Serve
<1>7. CASE a.form # "name" /\ env' = env
  <2>1. Asked(a).what = "refuse"
    BY <1>2, <1>7 DEF Asked
  <2>2. Map!After(Asked(a)) = LookupIn(env)
    BY <2>1 DEF Map!After
  <2> QED BY <1>1, <1>3, <1>7, <2>2 DEF Map!Serve, LookupIn
<1> QED BY <1>5, <1>6, <1>7

\* Both steps in which cd records a directory.
LEMMA RecordMaps ==
  ASSUME EInv, CdRecordsOld \/ CdRecordsNew
  PROVE  /\ env' \in Seq(Entry) /\ Unique(env')
         /\ Map!Record \/ UNCHANGED MapVars
<1>1. env \in Seq(Entry) /\ Unique(env)
  BY DEF EInv, TypeOK, UniqueKeys
<1>2. Requests = <<>> /\ Requests' = <<>>
  <2>1. args = <<>> /\ args' = <<>>
    BY DEF EInv, TypeOK, CdRecordsOld, CdRecordsNew
  <2> QED BY <2>1 DEF Requests
<1>3. ASSUME NEW k \in {PWD, OLDPWD}, NEW d \in Dir, env' = UpdateEnvVar(env, k, <<d>>)
      PROVE  env' \in Seq(Entry) /\ Unique(env') /\ Map!Record
  <2>1. k \in Key /\ <<d>> \in Value
    BY EnvironAssumption DEF Value
  <2>2. /\ env' \in Seq(Entry) /\ Unique(env')
        /\ LookupIn(env') = [LookupIn(env) EXCEPT ![k] = <<d>>]
    BY <1>1, <1>3, <2>1, UpdateVarLookup
  <2>3. LookupIn(env')[k] = <<d>>
    BY <2>1, <2>2 DEF LookupIn
  <2> QED BY <1>2, <2>1, <2>2, <2>3 DEF Map!Record
<1>4. CASE env' = env
  BY <1>1, <1>2, <1>4 DEF MapVars, LookupIn
<1>5. CASE CdRecordsOld /\ env' # env
  <2>1. old \in Dir /\ env' = UpdateEnvVar(env, OLDPWD, <<old>>)
    BY <1>5 DEF CdRecordsOld, EInv, TypeOK
  <2> QED BY <1>3, <2>1
<1>6. CASE CdRecordsNew /\ env' # env
  <2>1. cwd \in Dir /\ env' = UpdateEnvVar(env, PWD, <<cwd>>)
    BY <1>6 DEF CdRecordsNew, EInv, TypeOK
  <2> QED BY <1>3, <2>1
<1> QED BY <1>4, <1>5, <1>6

\* A call starts: its arguments are the requests.
LEMMA BeginMaps ==
  ASSUME EInv, NEW name \in {"export", "unset"}, Begin(name)
  PROVE  args' \in Seq(Arg) /\ Map!Ask
<1>1. PICK n \in 1..MaxArgs : args' \in [1..n -> Arg]
  BY DEF Begin
<1>2. args' \in Seq(Arg)
  BY <1>1, EnvironAssumption
<1>3. Requests = <<>> /\ env' = env
  BY DEF EInv, TypeOK, Begin, Call, Requests
<1>4. DOMAIN Requests' = DOMAIN args'
  BY DEF Requests
<1>5. ASSUME NEW i \in DOMAIN args' PROVE Requests'[i] \in Map!Request
  <2> DEFINE x == args'[i]
  <2>1. x \in Arg
    BY <1>2
  <2>2. /\ x.form \in {"name", "assign", "append", "bad"} /\ x.key \in Key
        /\ x.text \in Value
    BY <2>1, EnvironAssumption
  <2>3. Requests'[i] =
          [what |-> IF call' = "unset" THEN IF x.form = "name" THEN "remove" ELSE "refuse"
                    ELSE IF x.form = "bad" THEN "refuse"
                    ELSE IF x.form = "name" THEN "declare" ELSE x.form,
           key |-> x.key, text |-> x.text]
    BY DEF Requests, Asked
  <2> HIDE DEF x
  <2> QED BY <2>2, <2>3 DEF Map!Request
<1>6. Requests' \in Seq(Map!Request)
  <2>1. Requests' = [i \in DOMAIN args' |-> Requests'[i]]
    BY <1>4 DEF Requests
  <2>2. \E m \in Nat : DOMAIN args' = 1..m
    BY <1>2
  <2> QED BY <1>5, <2>1, <2>2
<1> QED BY <1>2, <1>3, <1>6 DEF Map!Ask, LookupIn

-----------------------------------------------------------------------------
\* The parts of the type invariant that need no lemma, which every step keeps.
Rest ==
  /\ environ \in [Key -> Value \cup {Absent}]
  /\ call \in {"none", "export", "unset", "cd"} /\ bad \in BOOLEAN
  /\ step \in {"no", "old", "new"} /\ old \in Dir \cup {Absent}
  /\ status \in {0, 1} /\ cwd \in Dir /\ there \subseteq Dir /\ calls \in 0..MaxCalls
  /\ before \in Dir /\ recorded \in BOOLEAN
  /\ step # "no" <=> call = "cd"

LEMMA RestKept == EInv /\ [Next]_vars => Rest'
<1> SUFFICES ASSUME EInv, [Next]_vars PROVE Rest'
  OBVIOUS
<1>0. Rest /\ MaxCalls \in Nat
  BY EnvironAssumption DEF EInv, TypeOK, Rest
<1>1. ASSUME NEW name \in {"export", "unset"}, Begin(name) PROVE Rest'
  <2>1. calls' \in 0..MaxCalls /\ call' = name /\ call = "none" /\ bad' = FALSE
    BY <1>0, <1>1 DEF Begin, Call, Rest
  <2>2. UNCHANGED <<environ, step, old, status, cwd, there, before, recorded>>
    BY <1>1 DEF Begin
  <2> QED BY <1>0, <2>1, <2>2 DEF Rest
<1>2. CASE ExportList \/ EnvList
  BY <1>0, <1>2 DEF ExportList, EnvList, Rest
<1>3. CASE ExportArg
  <2>1. status' \in {0, 1} /\ bad' \in BOOLEAN /\ recorded' \in BOOLEAN
    BY <1>0, <1>3 DEF ExportArg, MarkAsExportable, HandleKeyValuePair, Recorded, Rest
  <2> QED BY <1>0, <1>3, <2>1 DEF ExportArg, Rest
<1>4. CASE ExportDone
  BY <1>0, <1>4 DEF ExportDone, Rest
<1>5. CASE UnsetArg
  <2>1. recorded' \in BOOLEAN
    BY <1>0, <1>5 DEF UnsetArg, Recorded, Rest
  <2> QED BY <1>0, <1>5, <2>1 DEF UnsetArg, Rest
<1>6. CASE UnsetDone
  BY <1>0, <1>6 DEF UnsetDone, Rest
<1>7. CASE CdChdir
  <2>1. calls' \in 0..MaxCalls /\ call' = "cd" /\ step' = "old" /\ recorded' = FALSE
    BY <1>0, <1>7 DEF CdChdir, Call, Rest
  <2>2. UNCHANGED <<environ, bad, status, there>>
    BY <1>7 DEF CdChdir
  <2>3. cwd' \in Dir /\ old' \in Dir \cup {Absent} /\ before' \in Dir
    BY <1>0, <1>7 DEF CdChdir, Rest
  <2> QED BY <1>0, <2>1, <2>2, <2>3 DEF Rest
<1>8. CASE CdFails
  BY <1>0, <1>8 DEF CdFails, Rest
<1>9. CASE CdRecordsOld
  BY <1>0, <1>9 DEF CdRecordsOld, Rest
<1>10. CASE CdRecordsNew
  BY <1>0, <1>10 DEF CdRecordsNew, Rest
<1>11. ASSUME NEW d \in Dir, Vanishes(d) PROVE Rest'
  BY <1>0, <1>11 DEF Vanishes, Rest
<1>12. CASE UNCHANGED vars
  BY <1>0, <1>12 DEF vars, Rest
<1> QED BY <1>1, <1>2, <1>3, <1>4, <1>5, <1>6, <1>7, <1>8, <1>9, <1>10, <1>11, <1>12
        DEF Next, Idle

\* Steps that leave the list and the queue alone.
LEMMA Quiet ==
  ASSUME EInv, UNCHANGED <<env, args>>, args = <<>> \/ UNCHANGED call
  PROVE  UNCHANGED MapVars
<1>1. LookupIn(env)' = LookupIn(env)
  BY DEF LookupIn
<1>2. Requests' = Requests
  BY DEF Requests, Asked
<1> QED BY <1>1, <1>2 DEF MapVars

LEMMA NextMap == EInv /\ [Next]_vars => EInv' /\ [Map!Next]_MapVars
<1> SUFFICES ASSUME EInv, [Next]_vars PROVE EInv' /\ [Map!Next]_MapVars
  OBVIOUS
<1> DEFINE Goal == /\ env' \in Seq(Entry) /\ Unique(env') /\ args' \in Seq(Arg)
                   /\ call' \in {"none", "cd"} => args' = <<>>
                   /\ [Map!Next]_MapVars
<1>a. env \in Seq(Entry) /\ Unique(env) /\ args \in Seq(Arg)
      /\ (call \in {"none", "cd"} => args = <<>>) /\ (step # "no" <=> call = "cd")
  BY DEF EInv, TypeOK, UniqueKeys
<1>b. ASSUME UNCHANGED <<env, args>>, args = <<>> \/ UNCHANGED call PROVE Goal
  BY <1>a, <1>b, Quiet
<1>c. ASSUME env' \in Seq(Entry), Unique(env'), args' \in Seq(Arg),
             call' \notin {"none", "cd"} \/ args' = <<>>,
             Map!Ask \/ Map!Serve \/ Map!Record \/ UNCHANGED MapVars
      PROVE  Goal
  BY <1>c DEF Map!Next
<1>d. SUFFICES Goal
  BY RestKept DEF EInv, TypeOK, Rest, UniqueKeys, Unique
<1> HIDE DEF Goal
<1>1. ASSUME NEW name \in {"export", "unset"}, Begin(name) PROVE Goal
  <2>1. env' = env /\ call' = name
    BY <1>1 DEF Begin, Call
  <2>2. args' \in Seq(Arg) /\ Map!Ask
    BY <1>1, BeginMaps
  <2> QED BY <1>a, <1>c, <2>1, <2>2
<1>2. CASE ExportList \/ EnvList
  BY <1>2, <1>b DEF ExportList, EnvList
<1>3. CASE ExportArg
  <2>1. call' = "export"
    BY <1>3 DEF ExportArg
  <2>2. env' \in Seq(Entry) /\ Unique(env') /\ args' \in Seq(Arg) /\ Map!Serve
    BY <1>3, ExportArgMaps
  <2> QED BY <1>c, <2>1, <2>2
<1>4. CASE ExportDone
  BY <1>4, <1>b DEF ExportDone
<1>5. CASE UnsetArg
  <2>1. call' = "unset"
    BY <1>5 DEF UnsetArg
  <2>2. env' \in Seq(Entry) /\ Unique(env') /\ args' \in Seq(Arg) /\ Map!Serve
    BY <1>5, UnsetArgMaps
  <2> QED BY <1>c, <2>1, <2>2
<1>6. CASE UnsetDone
  BY <1>6, <1>b DEF UnsetDone
<1>7. CASE CdChdir
  <2>1. call = "none" /\ UNCHANGED <<env, args>>
    BY <1>7 DEF CdChdir, Call
  <2> QED BY <1>a, <1>b, <2>1
<1>8. CASE CdFails
  BY <1>8, <1>b DEF CdFails
<1>9. CASE CdRecordsOld \/ CdRecordsNew
  <2>1. call = "cd" /\ args = <<>> /\ args' = args
    BY <1>9, <1>a DEF CdRecordsOld, CdRecordsNew
  <2>2. /\ env' \in Seq(Entry) /\ Unique(env')
        /\ Map!Record \/ UNCHANGED MapVars
    BY <1>9, RecordMaps
  <2> QED BY <1>c, <1>a, <2>1, <2>2
<1>11. ASSUME NEW d \in Dir, Vanishes(d) PROVE Goal
  BY <1>11, <1>b DEF Vanishes
<1>12. CASE UNCHANGED vars
  BY <1>12, <1>b DEF vars
<1> QED
  BY <1>1, <1>2, <1>3, <1>4, <1>5, <1>6, <1>7, <1>8, <1>9, <1>11, <1>12 DEF Next, Idle

\* Together: the invariant holds in every state.
LEMMA Invariance == Spec => []EInv
<1>1. Init => EInv
  BY InitMap
<1>2. EInv /\ [Next]_vars => EInv'
  BY NextMap
<1> QED BY <1>1, <1>2, PTL DEF Spec

\* Every state reached by export, unset and cd has the types TypeOK gives it.
THEOREM EnvironTypes == Spec => []TypeOK
<1>1. EInv => TypeOK
  BY DEF EInv
<1> QED BY <1>1, Invariance, PTL

\* No sequence of export, unset and cd gives a name two entries in the list.
THEOREM NamesUnique == Spec => []UniqueKeys
<1>1. EInv => UniqueKeys
  BY DEF EInv
<1> QED BY <1>1, Invariance, PTL

\* The linked list implements the map: every addition at the head, update in
\* place and removal is the one assignment its argument asks for.
THEOREM ListIsMap == Spec => ImplementsMap
<1>1. Init => Map!Init
  BY InitMap
<1>2. EInv /\ [Next]_vars => [Map!Next]_MapVars
  BY NextMap
<1> QED BY <1>1, <1>2, Invariance, PTL DEF Spec, ImplementsMap, Map!Spec, MapVars

-----------------------------------------------------------------------------
(* PWD and OLDPWD                                                          *)

\* What cd has written down, at each of its steps and until somebody else writes.
Tracks ==
  /\ step # "no" => ~recorded
  /\ step # "no" /\ old # Absent => old = before
  /\ step = "new" /\ old # Absent => LookupIn(env)[OLDPWD] = <<old>>
  /\ recorded => LookupIn(env)[PWD] = <<cwd>> /\ LookupIn(env)[OLDPWD] = <<before>>

LEMMA TwoNames == PWD \in Key /\ OLDPWD \in Key /\ PWD # OLDPWD
<1>1. {HOME, PWD, OLDPWD, SHLVL} \subseteq Key /\ Cardinality({HOME, PWD, OLDPWD, SHLVL}) = 4
  BY EnvironAssumption
<1>2. ASSUME PWD = OLDPWD PROVE FALSE
  <2>1. {HOME, PWD, OLDPWD, SHLVL} = ({SHLVL} \cup {HOME}) \cup {PWD}
    BY <1>2
  <2>2. IsFiniteSet({SHLVL}) /\ Cardinality({SHLVL}) = 1
    BY FS_Singleton
  <2>3. /\ IsFiniteSet({SHLVL} \cup {HOME})
        /\ Cardinality({SHLVL} \cup {HOME}) \in {1, 2}
    BY <2>2, FS_AddElement
  <2>4. Cardinality(({SHLVL} \cup {HOME}) \cup {PWD}) \in {1, 2, 3}
    BY <2>3, FS_AddElement
  <2> QED BY <1>1, <2>1, <2>4
<1> QED BY <1>1, <1>2

\* Serving an argument changes the value of its name only.
LEMMA ServeTouches ==
  ASSUME EInv, ExportArg \/ UnsetArg, NEW k \in Key, k # Head(args).key
  PROVE  LookupIn(env')[k] = LookupIn(env)[k] /\ LookupIn(env)' = LookupIn(env')
<1>1. args # <<>> /\ args' = Tail(args) /\ UNCHANGED call
  BY DEF ExportArg, UnsetArg
<1>2. /\ Head(args) \in Arg /\ Head(Requests) = Asked(Head(args))
      /\ Asked(Head(args)).key = Head(args).key
  BY <1>1, Taken, Fields
<1>3. Map!Serve
  BY ExportArgMaps, UnsetArgMaps
<1>4. LookupIn(env)' = LookupIn(env')
  BY DEF LookupIn
<1>5. LookupIn(env)' = Map!After(Head(Requests))
  BY <1>3 DEF Map!Serve
<1>6. Asked(Head(args)) \in Map!Request
  BY <1>2, Fields
<1>7. Map!After(Asked(Head(args)))[k] = LookupIn(env)[k]
  <2> DEFINE r == Asked(Head(args))
  <2>1. r.what \in {"assign", "append", "declare", "remove", "refuse"} /\ r.key # k
    BY <1>2, <1>6 DEF Map!Request
  <2>2. DOMAIN LookupIn(env) = Key
    BY DEF LookupIn
  <2> DEFINE L == LookupIn(env)
  <2>3. \A v : [L EXCEPT ![r.key] = v][k] = L[k]
    BY <2>1, <2>2
  <2>4. \E v : Map!After(r) \in {L, [L EXCEPT ![r.key] = v]}
    <3> HIDE DEF r
    <3>1. CASE r.what = "assign"
      BY <3>1 DEF Map!After
    <3>2. CASE r.what = "append"
      BY <3>2 DEF Map!After
    <3>3. CASE r.what = "declare"
      BY <3>3 DEF Map!After
    <3>4. CASE r.what = "remove"
      BY <3>4 DEF Map!After
    <3>5. CASE r.what = "refuse"
      BY <3>5 DEF Map!After
    <3> QED BY <2>1, <3>1, <3>2, <3>3, <3>4, <3>5
  <2> HIDE DEF r, L
  <2>5. PICK v : Map!After(r) \in {L, [L EXCEPT ![r.key] = v]}
    BY <2>4
  <2>6. Map!After(r)[k] = L[k]
    BY <2>3, <2>5
  <2> QED BY <2>6 DEF r, L
<1> QED BY <1>2, <1>4, <1>5, <1>7

LEMMA TracksKept == EInv /\ Tracks /\ [Next]_vars => Tracks'
<1> SUFFICES ASSUME EInv, Tracks, [Next]_vars PROVE Tracks'
  OBVIOUS
<1>a. /\ env \in Seq(Entry) /\ Unique(env) /\ (step # "no" <=> call = "cd")
      /\ old \in Dir \cup {Absent} /\ cwd \in Dir
  BY DEF EInv, TypeOK, UniqueKeys
<1>b. LookupIn(env)' = LookupIn(env')
  BY DEF LookupIn
<1>c. \A d \in Dir : <<d>> \in Value
  BY EnvironAssumption DEF Value
<1>1. ASSUME NEW name \in {"export", "unset"}, Begin(name) PROVE Tracks'
  BY <1>1, <1>b DEF Begin, Tracks
<1>2. CASE ExportList \/ EnvList
  BY <1>2, <1>b DEF ExportList, EnvList, Tracks
<1>3. CASE ExportArg \/ UnsetArg
  <2>1. /\ step = "no" /\ UNCHANGED <<step, old, cwd, before>>
        /\ recorded' => \/ recorded /\ Head(args).key \notin {PWD, OLDPWD}
                        \/ recorded /\ env' = env
    BY <1>3, <1>a DEF ExportArg, UnsetArg, Recorded
  <2>2. CASE recorded /\ Head(args).key \notin {PWD, OLDPWD}
    <3>1. /\ LookupIn(env')[PWD] = LookupIn(env)[PWD]
          /\ LookupIn(env')[OLDPWD] = LookupIn(env)[OLDPWD]
      BY <1>3, <2>2, TwoNames, ServeTouches
    <3> QED BY <1>b, <2>1, <3>1 DEF Tracks
  <2>3. CASE recorded /\ env' = env
    BY <1>b, <2>1, <2>3 DEF Tracks
  <2>4. CASE ~recorded'
    BY <2>1, <2>4 DEF Tracks
  <2> QED BY <2>1, <2>2, <2>3, <2>4
<1>4. CASE ExportDone
  BY <1>4, <1>b DEF ExportDone, Tracks
<1>5. CASE UnsetDone
  BY <1>5, <1>b DEF UnsetDone, Tracks
<1>6. CASE CdChdir
  BY <1>6 DEF CdChdir, Tracks
<1>7. CASE CdFails
  BY <1>7, <1>b DEF CdFails, Tracks
<1>8. CASE CdRecordsOld
  <2>1. step = "old" /\ step' = "new" /\ ~recorded /\ UNCHANGED <<old, before, recorded>>
    BY <1>8 DEF CdRecordsOld, Tracks
  <2>2. ASSUME old # Absent PROVE LookupIn(env')[OLDPWD] = <<old>>
    <3>1. env' = UpdateEnvVar(env, OLDPWD, <<old>>) /\ <<old>> \in Value
      BY <1>8, <1>a, <1>c, <2>2 DEF CdRecordsOld
    <3>2. LookupIn(env') = [LookupIn(env) EXCEPT ![OLDPWD] = <<old>>]
      BY <1>a, <3>1, TwoNames, UpdateVarLookup
    <3> QED BY <3>2, TwoNames DEF LookupIn
  <2> QED BY <1>b, <2>1, <2>2 DEF Tracks
<1>9. CASE CdRecordsNew
  <2>1. /\ step = "new" /\ step' = "no" /\ UNCHANGED <<before, cwd>>
        /\ recorded' => old # Absent /\ cwd \in there
    BY <1>9 DEF CdRecordsNew
  <2>2. ASSUME recorded'
        PROVE  LookupIn(env')[PWD] = <<cwd>> /\ LookupIn(env')[OLDPWD] = <<before>>
    <3>1. env' = UpdateEnvVar(env, PWD, <<cwd>>) /\ <<cwd>> \in Value
      BY <1>9, <1>a, <1>c, <2>1, <2>2 DEF CdRecordsNew
    <3>2. LookupIn(env') = [LookupIn(env) EXCEPT ![PWD] = <<cwd>>]
      BY <1>a, <3>1, TwoNames, UpdateVarLookup
    <3>3. LookupIn(env)[OLDPWD] = <<before>>
      BY <2>1, <2>2 DEF Tracks
    <3> QED BY <3>2, <3>3, TwoNames DEF LookupIn
  <2> QED BY <1>b, <2>1, <2>2 DEF Tracks
<1>10. ASSUME NEW d \in Dir, Vanishes(d) PROVE Tracks'
  BY <1>10, <1>b DEF Vanishes, Tracks
<1>11. CASE UNCHANGED vars
  BY <1>11, <1>b DEF vars, Tracks
<1> QED
  BY <1>1, <1>2, <1>3, <1>4, <1>5, <1>6, <1>7, <1>8, <1>9, <1>10, <1>11 DEF Next, Idle

\* After a cd that could read both directories PWD is where the shell is and
\* OLDPWD where it was, until somebody assigns to them.
THEOREM CdTracks == Spec => []PwdTracks
<1>1. Init => Tracks
  BY DEF Init, Tracks
<1>2. EInv /\ Tracks /\ [Next]_vars => Tracks'
  BY TracksKept
<1>3. EInv /\ Tracks => PwdTracks
  <2> SUFFICES ASSUME EInv, Tracks, recorded
               PROVE  GetEnvValue(env, PWD) = <<cwd>> /\ GetEnvValue(env, OLDPWD) = <<before>>
    BY DEF PwdTracks
  <2>1. env \in Seq(Entry) /\ Unique(env) /\ cwd \in Dir /\ before \in Dir
    BY DEF EInv, TypeOK, UniqueKeys
  <2>2. <<cwd>> # Absent /\ <<before>> # Absent
    <3>1. Dir \subseteq Atom /\ Absent \notin Value
      BY EnvironAssumption
    <3>2. <<cwd>> \in Value /\ <<before>> \in Value
      BY <2>1, <3>1 DEF Value
    <3> QED BY <3>1, <3>2
  <2>3. LookupIn(env)[PWD] = <<cwd>> /\ LookupIn(env)[OLDPWD] = <<before>>
    BY DEF Tracks
  <2> QED BY <2>1, <2>2, <2>3, TwoNames, ValueLookup
<1> QED BY <1>1, <1>2, <1>3, Invariance, PTL DEF Spec

-----------------------------------------------------------------------------
(* What export prints                                                      *)

Increasing(l) == \A i, j \in DOMAIN l : i < j => l[i].key < l[j].key

LEMMA Joined ==
  ASSUME NEW S, NEW f \in Seq(S), NEW g \in Seq(S)
  PROVE  /\ f \o g \in Seq(S) /\ Len(f \o g) = Len(f) + Len(g)
         /\ \A i \in 1..Len(f) : (f \o g)[i] = f[i]
         /\ \A i \in Len(f) + 1..Len(f) + Len(g) : (f \o g)[i] = g[i - Len(f)]
OBVIOUS

LEMMA Spliced ==
  ASSUME NEW S, NEW f \in Seq(S), NEW e \in S, NEW g \in Seq(S), NEW r, r = f \o <<e>> \o g
  PROVE  /\ r \in Seq(S) /\ Len(r) = Len(f) + 1 + Len(g)
         /\ \A i \in 1..Len(f) : r[i] = f[i]
         /\ r[Len(f) + 1] = e
         /\ \A i \in Len(f) + 2..Len(f) + 1 + Len(g) : r[i] = g[i - (Len(f) + 1)]
<1>1. PICK h : h = f \o <<e>>
  OBVIOUS
<1>2. /\ h \in Seq(S) /\ Len(h) = Len(f) + 1 /\ h[Len(f) + 1] = e
      /\ \A i \in 1..Len(f) : h[i] = f[i]
  BY <1>1
<1>3. /\ h \o g \in Seq(S) /\ Len(h \o g) = Len(h) + Len(g)
      /\ \A i \in 1..Len(h) : (h \o g)[i] = h[i]
      /\ \A i \in Len(h) + 1..Len(h) + Len(g) : (h \o g)[i] = g[i - Len(h)]
  BY <1>2, Joined
<1>4. r = h \o g
  BY <1>1
<1>5. Len(f) \in Nat /\ Len(g) \in Nat
  OBVIOUS
<1>6. /\ r \in Seq(S) /\ Len(r) = Len(f) + 1 + Len(g)
      /\ \A i \in 1..Len(f) + 1 : r[i] = h[i]
      /\ \A i \in Len(f) + 2..Len(f) + 1 + Len(g) : r[i] = g[i - (Len(f) + 1)]
  BY <1>2, <1>3, <1>4, <1>5
<1>7. /\ \A i \in 1..Len(f) : r[i] = f[i]
      /\ r[Len(f) + 1] = e
  BY <1>2, <1>5, <1>6
<1> QED BY <1>6, <1>7

\* An entry put behind the first m.
LEMMA Inserted ==
  ASSUME NEW l \in Seq(Entry), NEW e \in Entry, NEW m \in 0..Len(l)
  PROVE  LET r == SubSeq(l, 1, m) \o <<e>> \o SubSeq(l, m + 1, Len(l)) IN
         /\ r \in Seq(Entry) /\ Len(r) = Len(l) + 1
         /\ \A i \in 1..Len(l) + 1 : r[i] = IF i <= m THEN l[i]
                                            ELSE IF i = m + 1 THEN e ELSE l[i - 1]
<1>1. PICK f : f = SubSeq(l, 1, m)
  OBVIOUS
<1>2. PICK g : g = SubSeq(l, m + 1, Len(l))
  OBVIOUS
<1>3. f \in Seq(Entry) /\ Len(f) = m /\ \A i \in 1..m : f[i] = l[i]
  BY <1>1
<1>4. g \in Seq(Entry) /\ Len(g) = Len(l) - m /\ \A i \in 1..Len(l) - m : g[i] = l[m + i]
  BY <1>2
<1>5. PICK r : r = f \o <<e>> \o g
  OBVIOUS
<1>6. /\ r \in Seq(Entry) /\ Len(r) = Len(f) + 1 + Len(g)
      /\ \A i \in 1..Len(f) : r[i] = f[i]
      /\ r[Len(f) + 1] = e
      /\ \A i \in Len(f) + 2..Len(f) + 1 + Len(g) : r[i] = g[i - (Len(f) + 1)]
  <2>1. f \in Seq(Entry) /\ g \in Seq(Entry)
    BY <1>3, <1>4
  <2> QED BY <1>5, <2>1, Spliced
<1>7. m \in Nat /\ Len(l) \in Nat /\ Len(r) = Len(l) + 1 /\ Len(f) + 1 + Len(g) = Len(l) + 1
  BY <1>3, <1>4, <1>6
<1>8. ASSUME NEW i \in 1..Len(l) + 1
      PROVE  r[i] = IF i <= m THEN l[i] ELSE IF i = m + 1 THEN e ELSE l[i - 1]
  <2>1. CASE i <= m
    <3>1. r[i] = f[i] /\ f[i] = l[i]
      BY <1>3, <1>6, <1>7, <2>1
    <3> QED BY <2>1, <3>1
  <2>2. CASE i = m + 1
    BY <1>3, <1>6, <1>7, <2>2
  <2>3. CASE i > m + 1
    <3>1. i - (m + 1) \in 1..Len(l) - m /\ m + (i - (m + 1)) = i - 1 /\ ~(i <= m) /\ i # m + 1
      BY <1>7, <2>3
    <3>2. r[i] = g[i - (m + 1)]
      BY <1>3, <1>6, <1>7, <2>3
    <3>3. g[i - (m + 1)] = l[m + (i - (m + 1))]
      BY <1>4, <3>1
    <3> QED BY <3>1, <3>2, <3>3
  <2> QED BY <1>7, <2>1, <2>2, <2>3
<1> QED BY <1>1, <1>2, <1>5, <1>6, <1>7, <1>8

\* insert_sorted walks to the last entry that is not behind the new one.
LEMMA WalkEnds ==
  ASSUME NEW l \in Seq(Entry), l # <<>>, NEW e \in Entry,
         NEW T, T = {i \in DOMAIN l : \A j \in 2..i : l[j].key < e.key}
  PROVE  /\ Max(T) \in DOMAIN l
         /\ \A j \in 2..Max(T) : l[j].key < e.key
         /\ Max(T) < Len(l) => ~(l[Max(T) + 1].key < e.key)
<1>1. 1 \in T /\ T \subseteq 1..Len(l)
  OBVIOUS
<1>2. PICK m \in T : \A y \in T : m >= y
  <2> DEFINE D == {Len(l) - i : i \in T}
  <2>1. D \subseteq Nat /\ D # {}
    BY <1>1
  <2>2. PICK x \in D : \A y \in D : x <= y
    BY <2>1, LeastMember
  <2>3. PICK m \in T : x = Len(l) - m
    BY <2>2
  <2>4. \A y \in T : Len(l) - m <= Len(l) - y
    BY <2>2, <2>3
  <2>5. \A y \in T : m >= y
    BY <1>1, <2>3, <2>4
  <2> QED BY <2>5
<1>3. Max(T) \in T /\ \A y \in T : Max(T) >= y
  BY <1>2 DEF Max
<1> HIDE DEF Max
<1>4. PICK n : n = Max(T)
  OBVIOUS
<1>5. n \in T /\ n \in 1..Len(l) /\ \A y \in T : n >= y
  BY <1>1, <1>3, <1>4
<1>6. ASSUME n < Len(l), l[n + 1].key < e.key PROVE FALSE
  <2>1. n + 1 \in DOMAIN l /\ \A j \in 2..n + 1 : l[j].key < e.key
    BY <1>5, <1>6
  <2> QED BY <1>5, <2>1
<1> QED BY <1>4, <1>5, <1>6

LEMMA InsertSortedType ==
  ASSUME NEW l \in Seq(Entry), NEW e \in Entry
  PROVE  InsertSorted(l, e) \in Seq(Entry)
<1>1. CASE l = <<>> \/ e.key < l[1].key
  BY <1>1 DEF InsertSorted, Cons
<1>2. CASE ~(l = <<>> \/ e.key < l[1].key)
  <2> DEFINE T == {i \in DOMAIN l : \A j \in 2..i : l[j].key < e.key}
  <2>1. InsertSorted(l, e) = SubSeq(l, 1, Max(T)) \o <<e>> \o SubSeq(l, Max(T) + 1, Len(l))
    BY <1>2 DEF InsertSorted
  <2>2. Max(T) \in DOMAIN l
    BY <1>2, WalkEnds
  <2> HIDE DEF T
  <2>3. PICK m \in 0..Len(l) : m = Max(T)
    BY <2>2
  <2> QED BY <2>1, <2>3, Inserted
<1> QED BY <1>1, <1>2

\* An entry of another name goes where it belongs.
LEMMA InsertSortedKeeps ==
  ASSUME NEW l \in Seq(Entry), Increasing(l), NEW e \in Entry, e.key \notin Keys(l)
  PROVE  /\ InsertSorted(l, e) \in Seq(Entry) /\ Increasing(InsertSorted(l, e))
         /\ ToSet(InsertSorted(l, e)) = ToSet(l) \cup {e}
<1>1. PICK r : r = InsertSorted(l, e)
  OBVIOUS
<1>k. /\ \A i \in DOMAIN l : l[i].key \in Int /\ l[i].key # e.key
      /\ e.key \in Int
  <2>1. \A x \in Entry : x.key \in Int
    BY EnvironAssumption DEF Entry
  <2>2. \A i \in DOMAIN l : l[i] \in Entry /\ l[i].key \in Keys(l)
    BY DEF Keys
  <2> QED BY <2>1, <2>2
<1>2. PICK m \in 0..Len(l) :
        /\ r = SubSeq(l, 1, m) \o <<e>> \o SubSeq(l, m + 1, Len(l))
        /\ \A j \in 1..m : l[j].key < e.key
        /\ m < Len(l) => e.key < l[m + 1].key
  <2>1. CASE l = <<>> \/ e.key < l[1].key
    <3>1. r = Cons(e, l)
      BY <1>1, <2>1 DEF InsertSorted
    <3>2. SubSeq(l, 1, 0) = <<>> /\ SubSeq(l, 0 + 1, Len(l)) = l
      OBVIOUS
    <3>3. Cons(e, l) = (<<>> \o <<e>>) \o l
      BY DEF Cons
    <3>4. r = SubSeq(l, 1, 0) \o <<e>> \o SubSeq(l, 0 + 1, Len(l))
      BY <3>1, <3>2, <3>3
    <3>5. \A j \in 1..0 : l[j].key < e.key
      OBVIOUS
    <3>6. 0 \in 0..Len(l) /\ (0 < Len(l) => e.key < l[0 + 1].key)
      BY <2>1
    <3> QED BY <3>4, <3>5, <3>6
  <2>2. CASE ~(l = <<>> \/ e.key < l[1].key)
    <3> DEFINE T == {i \in DOMAIN l : \A j \in 2..i : l[j].key < e.key}
    <3>1. r = SubSeq(l, 1, Max(T)) \o <<e>> \o SubSeq(l, Max(T) + 1, Len(l))
      BY <1>1, <2>2 DEF InsertSorted
    <3>2. /\ Max(T) \in DOMAIN l
          /\ \A j \in 2..Max(T) : l[j].key < e.key
          /\ Max(T) < Len(l) => ~(l[Max(T) + 1].key < e.key)
      BY <2>2, WalkEnds
    <3>3. PICK m : m = Max(T)
      OBVIOUS
    <3> HIDE DEF T
    <3>4. \A j \in 1..m : l[j].key < e.key
      BY <1>k, <2>2, <3>2, <3>3
    <3>5. m < Len(l) => e.key < l[m + 1].key
      BY <1>k, <3>2, <3>3
    <3>6. m \in 0..Len(l)
      BY <3>2, <3>3
    <3>7. r = SubSeq(l, 1, m) \o <<e>> \o SubSeq(l, m + 1, Len(l))
      BY <3>1, <3>3
    <3> QED BY <3>4, <3>5, <3>6, <3>7
  <2> QED BY <2>1, <2>2
<1>3. /\ r \in Seq(Entry) /\ Len(r) = Len(l) + 1
      /\ \A i \in 1..Len(l) + 1 : r[i] = IF i <= m THEN l[i]
                                         ELSE IF i = m + 1 THEN e ELSE l[i - 1]
  <2> DEFINE q == SubSeq(l, 1, m) \o <<e>> \o SubSeq(l, m + 1, Len(l))
  <2>1. /\ q \in Seq(Entry) /\ Len(q) = Len(l) + 1
        /\ \A i \in 1..Len(l) + 1 : q[i] = IF i <= m THEN l[i]
                                           ELSE IF i = m + 1 THEN e ELSE l[i - 1]
    BY Inserted
  <2>2. r = q
    BY <1>2
  <2> HIDE DEF q
  <2> QED BY <2>1, <2>2
<1>4. \A i \in m + 1..Len(l) : e.key < l[i].key
  <2> SUFFICES ASSUME NEW i \in m + 1..Len(l) PROVE e.key < l[i].key
    OBVIOUS
  <2>1. m + 1 \in DOMAIN l /\ i \in DOMAIN l /\ e.key < l[m + 1].key
    BY <1>2
  <2>2. i = m + 1 \/ l[m + 1].key < l[i].key
    BY <2>1 DEF Increasing
  <2> QED BY <1>k, <2>1, <2>2
<1>5. Increasing(r)
  <2> SUFFICES ASSUME NEW i \in 1..Len(l) + 1, NEW j \in 1..Len(l) + 1, i < j
               PROVE  r[i].key < r[j].key
    BY <1>3 DEF Increasing
  <2>1. CASE j <= m
    <3>1. r[i] = l[i] /\ r[j] = l[j] /\ i \in DOMAIN l /\ j \in DOMAIN l
      BY <1>3, <2>1
    <3> QED BY <3>1 DEF Increasing
  <2>2. CASE j = m + 1
    <3>1. r[i] = l[i] /\ r[j] = e /\ i \in 1..m
      BY <1>3, <2>2
    <3> QED BY <1>2, <3>1
  <2>3. CASE j > m + 1 /\ i <= m
    <3>1. r[i] = l[i] /\ r[j] = l[j - 1] /\ i \in DOMAIN l /\ j - 1 \in DOMAIN l /\ i < j - 1
      BY <1>3, <2>3
    <3> QED BY <3>1 DEF Increasing
  <2>4. CASE j > m + 1 /\ i = m + 1
    <3>1. r[i] = e /\ r[j] = l[j - 1] /\ j - 1 \in m + 1..Len(l)
      BY <1>3, <2>4
    <3> QED BY <1>4, <3>1
  <2>5. CASE j > m + 1 /\ i > m + 1
    <3>1. /\ r[i] = l[i - 1] /\ r[j] = l[j - 1]
          /\ i - 1 \in DOMAIN l /\ j - 1 \in DOMAIN l /\ i - 1 < j - 1
      BY <1>3, <2>5
    <3> QED BY <3>1 DEF Increasing
  <2> QED BY <2>1, <2>2, <2>3, <2>4, <2>5
<1>6. ToSet(r) = ToSet(l) \cup {e}
  <2>1. ASSUME NEW i \in 1..Len(l) + 1 PROVE r[i] \in ToSet(l) \cup {e}
    <3>1. i <= m => i \in DOMAIN l
      OBVIOUS
    <3>2. ~(i <= m) /\ i # m + 1 => i - 1 \in DOMAIN l
      BY <1>2
    <3> QED BY <1>3, <3>1, <3>2 DEF ToSet
  <2>2. ASSUME NEW i \in DOMAIN l PROVE l[i] \in ToSet(r)
    <3>1. CASE i <= m
      <4>1. i \in DOMAIN r /\ r[i] = l[i]
        BY <1>3, <3>1
      <4> QED BY <4>1 DEF ToSet
    <3>2. CASE i > m
      <4>1. i + 1 \in DOMAIN r /\ r[i + 1] = l[i]
        BY <1>3, <3>2
      <4> QED BY <4>1 DEF ToSet
    <3> QED BY <3>1, <3>2
  <2>3. e \in ToSet(r)
    <3>1. m + 1 \in DOMAIN r /\ r[m + 1] = e
      BY <1>3
    <3> QED BY <3>1 DEF ToSet
  <2>4. DOMAIN r = 1..Len(l) + 1
    BY <1>3
  <2> QED BY <2>1, <2>2, <2>3, <2>4 DEF ToSet
<1> QED BY <1>1, <1>3, <1>5, <1>6

\* copy_env_list_sorted: after i iterations the first i entries are in order.
LEMMA CopyIsSorted ==
  ASSUME NEW l \in Seq(Entry), Unique(l)
  PROVE  /\ CopyEnvListSorted(l) \in Seq(Entry) /\ Increasing(CopyEnvListSorted(l))
         /\ ToSet(CopyEnvListSorted(l)) = ToSet(l)
<1>1. PICK N \in Nat : N = Len(l) /\ DOMAIN l = 1..N
  OBVIOUS
<1>2. PICK G : G = [p \in Seq(Entry) \X (1..N) |-> InsertSorted(p[1], l[p[2]])]
  OBVIOUS
<1>3. \A s \in Seq(Entry), i \in 1..N :
        G[<<s, i>>] = InsertSorted(s, l[i])
  BY <1>2
<1>4. \A s \in Seq(Entry), i \in 1..N : G[<<s, i>>] \in Seq(Entry)
  <2>1. \A i \in 1..N : l[i] \in Entry
    BY <1>1
  <2> QED BY <1>3, <2>1, InsertSortedType
<1>5. PICK f : Iterates(f, N, Seq(Entry), <<>>, G)
  <2>1. <<>> \in Seq(Entry)
    OBVIOUS
  <2> QED BY <1>4, <2>1, LoopExists
<1>6. f = [i \in 0..N |-> IF i = 0 THEN <<>> ELSE InsertSorted(f[i - 1], l[i])]
  <2>1. ASSUME NEW i \in 0..N, i # 0 PROVE f[i] = InsertSorted(f[i - 1], l[i])
    <3>1. i \in 1..N /\ f[i - 1] \in Seq(Entry)
      BY <1>5, <2>1 DEF Iterates
    <3> QED BY <1>3, <1>5, <3>1 DEF Iterates
  <2>2. f = [i \in 0..N |-> f[i]] /\ f[0] = <<>>
    BY <1>5 DEF Iterates
  <2> QED BY <2>1, <2>2
<1>7. PICK w : /\ w = [i \in 0..N |-> IF i = 0 THEN <<>> ELSE InsertSorted(w[i - 1], l[i])]
               /\ CopyEnvListSorted(l) = w[N]
  BY <1>1, <1>6 DEF CopyEnvListSorted
<1>8. w[0] = <<>> /\ \A i \in 1..N : w[i] = InsertSorted(w[i - 1], l[i])
  <2>1. \A i \in 0..N : w[i] = IF i = 0 THEN <<>> ELSE InsertSorted(w[i - 1], l[i])
    BY <1>7
  <2> QED BY <1>1, <2>1
<1>9. PICK P : P = {i \in 0..N : /\ w[i] \in Seq(Entry) /\ Increasing(w[i])
                                 /\ ToSet(w[i]) = {l[x] : x \in 1..i}}
  OBVIOUS
<1>10. 0 \in P
  <2>1. <<>> \in Seq(Entry) /\ Increasing(<<>>)
    BY DEF Increasing
  <2>2. ToSet(<<>>) = {} /\ {l[x] : x \in 1..0} = {}
    BY DEF ToSet
  <2>3. 0 \in 0..N
    BY <1>1
  <2>4. w[0] \in Seq(Entry) /\ Increasing(w[0]) /\ ToSet(w[0]) = {l[x] : x \in 1..0}
    BY <1>8, <2>1, <2>2, Zenon
  <2> QED BY <1>9, <2>3, <2>4
<1>11. ASSUME NEW i \in 1..N, i - 1 \in P PROVE i \in P
  <2>1. PICK s : s = w[i - 1]
    OBVIOUS
  <2>2. s \in Seq(Entry) /\ Increasing(s) /\ ToSet(s) = {l[x] : x \in 1..i - 1}
    BY <1>9, <1>11, <2>1
  <2>3. l[i] \in Entry /\ w[i] = InsertSorted(s, l[i])
    BY <1>1, <1>8, <2>1
  <2>4. l[i].key \notin Keys(s)
    <3> SUFFICES ASSUME NEW j \in DOMAIN s, s[j].key = l[i].key PROVE FALSE
      BY DEF Keys
    <3>1. PICK x \in 1..i - 1 : s[j] = l[x]
      BY <2>2 DEF ToSet
    <3>2. x \in DOMAIN l /\ i \in DOMAIN l /\ x # i
      BY <1>1
    <3> QED BY <3>1, <3>2 DEF Unique
  <2>5. /\ w[i] \in Seq(Entry) /\ Increasing(w[i])
        /\ ToSet(w[i]) = ToSet(s) \cup {l[i]}
    BY <2>2, <2>3, <2>4, InsertSortedKeeps
  <2>6. 1..i = (1..i - 1) \cup {i}
    OBVIOUS
  <2>7. ToSet(w[i]) = {l[x] : x \in 1..i}
    BY <2>2, <2>5, <2>6
  <2> QED BY <1>1, <1>9, <2>5, <2>7
<1>12. N \in P
  <2>1. \A i \in 0..N : i \in P
    BY <1>10, <1>11, EveryIteration
  <2> QED BY <2>1
<1>13. w[N] \in Seq(Entry) /\ Increasing(w[N]) /\ ToSet(w[N]) = {l[x] : x \in 1..N}
  BY <1>9, <1>12
<1>14. ToSet(l) = {l[x] : x \in 1..N}
  BY <1>1 DEF ToSet
<1> QED BY <1>7, <1>13, <1>14

\* builtin_env leaves out what has no value, and nothing else.
LEMMA EnvPrintsAll ==
  ASSUME NEW l \in Seq(Entry), \A i \in DOMAIN l : l[i].value # NoValue
  PROVE  BuiltinEnv(l) = l
<1>1. PICK N \in Nat : N = Len(l) /\ DOMAIN l = 1..N
  OBVIOUS
<1>2. PICK f : f = [i \in 0..N |-> SubSeq(l, 1, i)]
  OBVIOUS
<1>3. f[0] = <<>> /\ f[N] = l
  BY <1>1, <1>2
<1>4. ASSUME NEW i \in 1..N PROVE f[i] = f[i - 1] \o <<l[i]>>
  <2>0. f[i] = SubSeq(l, 1, i) /\ f[i - 1] = SubSeq(l, 1, i - 1)
    <3>1. i \in 0..N /\ i - 1 \in 0..N
      OBVIOUS
    <3> QED BY <1>2, <3>1
  <2>1. i - 1 \in 0..Len(l) /\ l[i] \in Entry
    BY <1>1
  <2>2. PICK h : h = SubSeq(l, 1, i - 1)
    OBVIOUS
  <2>3. h \in Seq(Entry) /\ Len(h) = i - 1 /\ \A x \in 1..i - 1 : h[x] = l[x]
    BY <1>1, <2>1, <2>2
  <2>4. PICK g : g = SubSeq(l, 1, i)
    OBVIOUS
  <2>5. g \in Seq(Entry) /\ Len(g) = i /\ \A x \in 1..i : g[x] = l[x]
    BY <1>1, <2>4
  <2>6. PICK r : r = h \o <<l[i]>>
    OBVIOUS
  <2>7. /\ r \in Seq(Entry) /\ Len(r) = i /\ r[i] = l[i]
        /\ \A x \in 1..i - 1 : r[x] = l[x]
    BY <2>1, <2>3, <2>6
  <2>8. \A x \in 1..i : r[x] = g[x]
    BY <2>5, <2>7
  <2>9. r = g
    BY <2>5, <2>7, <2>8
  <2> QED BY <2>0, <2>2, <2>4, <2>6, <2>9
<1>5. f = [i \in 0..N |-> IF i = 0 THEN <<>>
             ELSE f[i - 1] \o (IF l[i].value # NoValue THEN <<l[i]>> ELSE <<>>)]
  <2>1. ASSUME NEW i \in 0..N
        PROVE  f[i] = IF i = 0 THEN <<>>
                      ELSE f[i - 1] \o (IF l[i].value # NoValue THEN <<l[i]>> ELSE <<>>)
    <3>1. CASE i = 0
      BY <1>3, <3>1
    <3>2. CASE i # 0
      <4>1. i \in 1..N /\ l[i].value # NoValue
        BY <1>1, <3>2
      <4> QED BY <1>4, <3>2, <4>1
    <3> QED BY <3>1, <3>2
  <2> QED BY <1>2, <2>1
<1>6. PICK w : /\ w = [i \in 0..N |-> IF i = 0 THEN <<>>
                    ELSE w[i - 1] \o (IF l[i].value # NoValue THEN <<l[i]>> ELSE <<>>)]
               /\ BuiltinEnv(l) = w[N]
  BY <1>1, <1>5 DEF BuiltinEnv
<1>7. w[0] = <<>> /\ \A i \in 1..N : w[i] = w[i - 1] \o <<l[i]>>
  <2>1. \A i \in 0..N : w[i] = IF i = 0 THEN <<>>
                    ELSE w[i - 1] \o (IF l[i].value # NoValue THEN <<l[i]>> ELSE <<>>)
    BY <1>6
  <2>2. ASSUME NEW i \in 1..N PROVE w[i] = w[i - 1] \o <<l[i]>>
    <3>1. i \in 0..N /\ i # 0 /\ l[i].value # NoValue
      BY <1>1
    <3> QED BY <2>1, <3>1
  <2>3. 0 \in 0..N
    BY <1>1
  <2> QED BY <2>1, <2>2, <2>3
<1>8. PICK P : P = {i \in 0..N : w[i] = f[i]}
  OBVIOUS
<1>9. 0 \in P /\ \A i \in 1..N : i - 1 \in P => i \in P
  <2>1. 0 \in 0..N /\ \A i \in 1..N : i \in 0..N
    OBVIOUS
  <2> QED BY <1>3, <1>4, <1>7, <1>8, <2>1
<1>10. N \in P
  <2>1. \A i \in 0..N : i \in P
    BY <1>9, EveryIteration
  <2> QED BY <2>1
<1> QED BY <1>3, <1>6, <1>8, <1>10

\* export without arguments prints every variable of any list once, in the order
\* of the names: insert_sorted leaves nothing unsorted and drops nothing.
THEOREM ListingIsSorted == Spec => []ListingSorted
<1>1. EInv => ListingSorted
  <2> SUFFICES ASSUME EInv PROVE ListingSorted
    OBVIOUS
  <2>1. env \in Seq(Entry) /\ Unique(env)
    BY DEF EInv, TypeOK, UniqueKeys
  <2>2. PICK l : l = CopyEnvListSorted(env)
    OBVIOUS
  <2>3. l \in Seq(Entry) /\ Increasing(l) /\ ToSet(l) = ToSet(env)
    BY <2>1, <2>2, CopyIsSorted
  <2>4. \A i \in 1..Len(l) - 1 : l[i].key < l[i + 1].key
    <3> SUFFICES ASSUME NEW i \in 1..Len(l) - 1 PROVE l[i].key < l[i + 1].key
      OBVIOUS
    <3>1. i \in DOMAIN l /\ i + 1 \in DOMAIN l /\ i < i + 1
      BY <2>3
    <3> QED BY <2>3, <3>1 DEF Increasing
  <2> QED BY <2>2, <2>3, <2>4 DEF ListingSorted, ToSet
<1> QED BY <1>1, Invariance, PTL

\* As long as every name has a value, a program is given exactly what env prints,
\* each name once, with PWD and OLDPWD as the last cd left them.
THEOREM ProgramsSee == Spec => []ChildSees
<1>1. EInv /\ PwdTracks => ChildSees
  <2> SUFFICES ASSUME EInv, PwdTracks, \A i \in DOMAIN env : env[i].value # NoValue
               PROVE  LET array == ConvertEnvListToArray(env) IN
                      /\ array = BuiltinEnv(env) /\ Unique(array)
                      /\ recorded /\ call = "none" =>
                           {[key |-> PWD, value |-> <<cwd>>],
                            [key |-> OLDPWD, value |-> <<before>>]} \subseteq ToSet(array)
    BY DEF ChildSees
  <2>1. env \in Seq(Entry) /\ Unique(env) /\ cwd \in Dir /\ before \in Dir
    BY DEF EInv, TypeOK, UniqueKeys
  <2>2. ConvertEnvListToArray(env) = env
    <3>1. PICK T : T = {i \in DOMAIN env : env[i].value = NoValue} \cup {Len(env) + 1}
      OBVIOUS
    <3>2. T = {Len(env) + 1} /\ Len(env) \in Nat
      BY <2>1, <3>1
    <3>3. Min(T) - 1 = Len(env)
      BY <3>2 DEF Min
    <3>4. SubSeq(env, 1, Len(env)) = env
      BY <2>1
    <3> QED BY <3>1, <3>3, <3>4 DEF ConvertEnvListToArray
  <2>3. BuiltinEnv(env) = env
    BY <2>1, EnvPrintsAll
  <2>4. ASSUME NEW k \in Key, NEW d \in Dir, GetEnvValue(env, k) = <<d>>
        PROVE  [key |-> k, value |-> <<d>>] \in ToSet(env)
    <3>1. <<d>> # NoValue
      <4>1. Dir \subseteq Atom /\ NoValue \notin Value
        BY EnvironAssumption
      <4>2. <<d>> \in Value
        BY <4>1 DEF Value
      <4> QED BY <4>1, <4>2
    <3>2. k \in Keys(env) /\ env[IndexOf(env, k)].value = <<d>>
      BY <2>4, <3>1 DEF GetEnvValue
    <3>3. PICK i \in DOMAIN env : env[i].key = k
      BY <3>2 DEF Keys
    <3>4. env[i] \in Entry /\ env[i].value = <<d>>
      BY <2>1, <3>2, <3>3, LookupEntry
    <3>5. env[i] = [key |-> k, value |-> <<d>>]
      BY <3>3, <3>4 DEF Entry
    <3> QED BY <3>5 DEF ToSet
  <2>5. recorded /\ call = "none" =>
          {[key |-> PWD, value |-> <<cwd>>], [key |-> OLDPWD, value |-> <<before>>]}
             \subseteq ToSet(env)
    BY <2>1, <2>4, TwoNames DEF PwdTracks
  <2> QED BY <2>1, <2>2, <2>3, <2>5
<1> QED BY <1>1, Invariance, CdTracks, PTL
=============================================================================
