---------------------------- MODULE HeredocProofs ----------------------------
(***************************************************************************)
(* Theorems about Heredoc: its safety properties, for any lines, names,    *)
(* number of files and troubles.                                           *)
(***************************************************************************)
EXTENDS Heredoc, FiniteSetTheorems, WellFoundedInduction, TLAPS

LEMMA FirstIs ==
  ASSUME NEW S, S \subseteq Nat, S # {}
  PROVE  First(S) \in S /\ \A j \in S : First(S) <= j
<1>1. PICK x \in S : \A y \in S : ~ (<<y, x>> \in OpToRel(<, Nat))
  BY WFMin, NatLessThanWellFounded, Zenon
<1>2. \A y \in S : ~ (y < x)
  BY <1>1 DEF OpToRel
<1>3. \A y \in S : x <= y
  BY <1>2
<1> QED BY <1>3 DEF First

\* open() with O_CREAT, by whomever.
Opened(name, i) == Creates(name, i) \/ Appends(name, i)

\* A file that is made: its name is its only one, and no descriptor that
\* somebody keeps is of it, unless it had that name before.
LEMMA Made ==
  ASSUME TypeOK, DirInv, HeredocAssumption, NEW name \in Name, NEW i \in Inode, Opened(name, i)
  PROVE  /\ dir' = [dir EXCEPT ![name] = i] /\ data' \in {data, [data EXCEPT ![i] = <<>>]}
         /\ i \notin leaked
         /\ \A n \in Name : n # name => dir[n] # i
         /\ \/ dir[name] = i
            \/ dir[name] = None /\ i # out /\ \A k \in kids : i \notin {k.in, k.out}
<1>0. Reaches(name, i) /\ data' \in {data, [data EXCEPT ![i] = <<>>]}
  BY DEF Opened, Creates, Appends
<1>1. CASE dir[name] = None
  <2>1. i \in Free
    BY <1>0, <1>1 DEF Reaches
  <2> QED BY <1>0, <1>1, <2>1 DEF Reaches, Free, Entry
<1>2. CASE dir[name] # None
  BY <1>0, <1>2 DEF Reaches, DirInv, TypeOK
<1> QED BY <1>1, <1>2

\* A redirection one more line of whose body was typed.
LEMMA OneLineMore ==
  ASSUME NEW e \in Redir, IsHeredoc(e), NEW r, r = [e EXCEPT !.typed = @ + 1]
  PROVE  /\ r \in Redir /\ r.typed = e.typed + 1 /\ e.typed \in Nat /\ IsHeredoc(r)
         /\ r.type = e.type /\ r.cmd = e.cmd /\ r.name = e.name
<1>1. e.typed \in Nat
  BY DEF IsHeredoc, Redir
<1>2. r.typed = e.typed + 1 /\ r.type = e.type /\ r.cmd = e.cmd /\ r.name = e.name
  BY DEF Redir
<1>3. r \in Redir
  BY <1>1 DEF Redir
<1> QED BY <1>1, <1>2, <1>3 DEF IsHeredoc

LEMMA Updated ==
  ASSUME NEW S, NEW l \in Seq(S), NEW i \in DOMAIN l, NEW e \in S
  PROVE  /\ [l EXCEPT ![i] = e] \in Seq(S) /\ Len([l EXCEPT ![i] = e]) = Len(l)
         /\ DOMAIN [l EXCEPT ![i] = e] = DOMAIN l
         /\ [l EXCEPT ![i] = e][i] = e
         /\ \A j \in DOMAIN l : j # i => [l EXCEPT ![i] = e][j] = l[j]
OBVIOUS

LEMMA Entries ==
  ASSUME TypeOK
  PROVE  /\ line \in Seq(Redir) /\ DOMAIN line = 1..Len(line) /\ Len(line) \in Nat
         /\ \A i \in DOMAIN line : line[i] \in Redir
         /\ \A k \in kids : /\ k \in Kid /\ k.line \in Seq(Redir)
                            /\ \A i \in DOMAIN k.line : k.line[i] \in Redir
BY DEF TypeOK, Kid

LEMMA LineTyped ==
  ASSUME TypeOK
  PROVE  /\ Len(line) \in Nat /\ DOMAIN line = 1..Len(line)
         /\ at \in Nat /\ size \in Nat /\ counter \in Temp
         /\ \A i \in DOMAIN line : i \in Nat /\ line[i].cmd \in Nat
<1>1. \A i \in DOMAIN line : line[i] \in Redir
  BY DEF TypeOK
<1> QED BY <1>1 DEF TypeOK, Redir

\* The next heredoc of the walk, and the line once its file is made.
LEMMA NextHeredoc ==
  ASSUME IInv, HeredocAssumption, CreateHdcFile
  PROVE  /\ at' \in DOMAIN line /\ at <= at' /\ line[at'].type = "hdc"
         /\ \A i \in DOMAIN line : i < at' => line[i].type # "hdc"
         /\ counter' = counter + 1 /\ counter' <= 2 * at' - 1 /\ counter' <= MaxTemp
         /\ tmp' = counter /\ counter \in Temp
         /\ \E r \in Redir : /\ r = [line[at'] EXCEPT !.typed = 0]
                             /\ line' = [line EXCEPT ![at'] = r]
<1>1. Pending \subseteq Nat /\ Pending # {}
  BY Entries DEF IInv, Pending, CreateHdcFile
<1>2. at' \in Pending /\ \A j \in Pending : at' <= j
  BY <1>1, FirstIs DEF CreateHdcFile
<1>3. /\ at' \in DOMAIN line /\ at <= at' /\ line[at'].type = "hdc"
      /\ \A i \in DOMAIN line : i < at' => line[i].type # "hdc"
  <2>1. at' \in DOMAIN line /\ at <= at' /\ line[at'].type = "hdc"
    BY <1>2 DEF Pending
  <2>2. \A i \in DOMAIN line : i < at => line[i].type # "hdc"
    BY DEF IInv, WalkInv, Collecting, CreateHdcFile
  <2>3. ASSUME NEW i \in DOMAIN line, i < at', ~(i < at) PROVE line[i].type # "hdc"
    <3>1. i \notin Pending /\ i >= at
      BY <1>1, <1>2, <2>1, <2>3, Entries DEF IInv, TypeOK
    <3> QED BY <3>1 DEF Pending
  <2> QED BY <2>1, <2>2, <2>3
<1>4. /\ counter' = counter + 1 /\ counter' <= 2 * at' - 1 /\ counter' <= MaxTemp
      /\ counter \in Nat /\ counter \in Temp
  <2>1. /\ Len(line) \in Nat /\ DOMAIN line = 1..Len(line) /\ at \in Nat /\ counter \in Temp
        /\ counter' = counter + 1
    BY LineTyped DEF IInv, CreateHdcFile
  <2>2. counter <= 2 * (at - 1) /\ 2 * Len(line) <= MaxTemp
    BY DEF IInv, WalkInv, CreateHdcFile
  <2>3. counter \in Nat /\ MaxTemp \in Nat
    BY <2>1, HeredocAssumption DEF Temp
  <2> QED BY <1>3, <2>1, <2>2, <2>3
<1>5. [line[at'] EXCEPT !.typed = 0] \in Redir
  <2>1. line[at'] \in Redir
    BY <1>3, Entries DEF IInv
  <2> QED BY <2>1 DEF Redir
<1>6. line' = [line EXCEPT ![at'] = [line[at'] EXCEPT !.typed = 0]]
  BY DEF CreateHdcFile
<1> QED BY <1>3, <1>4, <1>5, <1>6 DEF CreateHdcFile

\* The heredoc that is converted is the one that has just been read.
LEMMA ConvertedIs ==
  ASSUME IInv, HeredocAssumption, Delimiter
  PROVE  /\ at \in DOMAIN line /\ counter \in Nat /\ counter' = counter + 1 /\ counter' <= 2 * at
         /\ counter' <= MaxTemp
         /\ \E r \in Redir : /\ r = [line[at] EXCEPT !.type = "in", !.name = tmp]
                             /\ line' = [line EXCEPT ![at] = r]
<1>0. /\ at \in DOMAIN line /\ line[at].type = "hdc" /\ tmp \in Temp /\ counter <= 2 * at - 1
      /\ \A i \in DOMAIN line : i < at => line[i].type # "hdc"
  BY DEF IInv, WalkInv, Delimiter, Reading, Collecting
<1>1. OfCommand \subseteq Nat /\ OfCommand # {} /\ at \in OfCommand
  BY <1>0, Entries DEF IInv, OfCommand
<1>2. First(OfCommand) = at
  <2>1. First(OfCommand) \in OfCommand /\ First(OfCommand) <= at
    BY <1>1, FirstIs
  <2>2. First(OfCommand) \in DOMAIN line /\ line[First(OfCommand)].type = "hdc"
    BY <2>1 DEF OfCommand
  <2> QED BY <1>0, <2>1, <2>2, Entries DEF IInv
<1>3. [line[at] EXCEPT !.type = "in", !.name = tmp] \in Redir
  BY <1>0, Entries DEF IInv, Redir, Name
<1>4. line' = [line EXCEPT ![at] = [line[at] EXCEPT !.type = "in", !.name = tmp]]
  BY <1>2 DEF Delimiter, Converted
<1>5. counter \in Nat /\ counter' = counter + 1 /\ counter' <= 2 * at /\ counter' <= MaxTemp
  BY <1>0, Entries, HeredocAssumption DEF IInv, WalkInv, Delimiter, TypeOK, Temp
<1> QED BY <1>0, <1>3, <1>4, <1>5

LEMMA Unlinking ==
  ASSUME TypeOK, HeredocAssumption, NEW names
  PROVE  /\ Unlinked(names) \in [Name -> Inode \cup {None}]
         /\ \A n \in Name : Unlinked(names)[n] = IF n \in names THEN None ELSE dir[n]
BY DEF Unlinked, TypeOK

-----------------------------------------------------------------------------
(* The steps of a child, one lemma for what each does to it.               *)

\* The redirection at hand.
LEMMA NextRedir ==
  ASSUME IInv, NEW k \in kids, KidRedirects(k)
  PROVE  /\ First(k.todo) \in k.todo /\ First(k.todo) \in DOMAIN k.line /\ First(k.todo) \in Nat
         /\ First(k.todo) # 0
         /\ k.line[First(k.todo)] \in Redir /\ k.line[First(k.todo)].cmd = k.cmd
         /\ k.line[First(k.todo)].type # "hdc"
<1>1. /\ k.todo \subseteq {i \in DOMAIN k.line : k.line[i].cmd = k.cmd}
      /\ \A i \in DOMAIN k.line : k.line[i].type # "hdc"
  BY DEF IInv, KidInv
<1>2. k.todo # {} /\ k.todo \subseteq Nat /\ DOMAIN k.line = 1..Len(k.line)
  BY <1>1, Entries DEF IInv, KidRedirects
<1> QED BY <1>1, <1>2, FirstIs, Entries DEF IInv

LEMMA InIs ==
  ASSUME IInv, HeredocAssumption, NEW k \in kids, KidRedirects(k), RedirIn(k),
         dir[k.line[First(k.todo)].name] # None
  PROVE  LET i == First(k.todo)  name == k.line[i].name
         IN  /\ name \in Name /\ dir[name] \in Inode
             /\ \E l \in Kid :
                  /\ l = [k EXCEPT !.todo = @ \ {i}, !.in = dir[name], !.from = i,
                                   !.rm = IF LooksTemp(name) THEN name ELSE None]
                  /\ kids' = (kids \ {k}) \cup {l} /\ UNCHANGED <<dir, data, lost>>
<1> DEFINE i == First(k.todo)  name == k.line[i].name
           l == [k EXCEPT !.todo = @ \ {i}, !.in = dir[name], !.from = i,
                          !.rm = IF LooksTemp(name) THEN name ELSE None]
<1>1. i \in Nat /\ k.line[i] \in Redir /\ k.line[i].type # "hdc" /\ i \in DOMAIN k.line /\ k \in Kid
  BY NextRedir, Entries DEF IInv
<1>2. name \in Name
  BY <1>1 DEF IInv, KidInv, Shape, RedirIn, Fetched, IsHeredoc, Name, Redir, HeredocAssumption
<1>3. dir[name] \in Inode
  BY <1>2 DEF IInv, TypeOK
<1>4. l \in Kid
  BY <1>1, <1>2, <1>3 DEF Kid
<1>5. kids' = (kids \ {k}) \cup {l} /\ UNCHANGED <<dir, data, lost>>
  BY DEF RedirIn, Becomes, Ends, fileVars
<1> QED BY <1>2, <1>3, <1>4, <1>5

LEMMA OutIs ==
  ASSUME IInv, HeredocAssumption, NEW k \in kids, KidRedirects(k), RedirOut(k)
  PROVE  LET i == First(k.todo)  name == k.line[i].name
         IN  /\ name \in UserFile
             /\ \/ Ends(k) /\ UNCHANGED <<dir, data>>
                \/ \E o \in Inode, l \in Kid :
                     /\ Opened(name, o)
                     /\ l = [k EXCEPT !.todo = @ \ {i}, !.out = l.out]
                     /\ kids' = (kids \ {k}) \cup {l} /\ lost' = lost
<1> DEFINE i == First(k.todo)  name == k.line[i].name
<1>1. i \in Nat /\ k.line[i] \in Redir /\ Output(k.line[i]) /\ i \in DOMAIN k.line /\ k \in Kid
  BY NextRedir, Entries DEF IInv, RedirOut
<1>2. name \in UserFile
  BY <1>1 DEF IInv, KidInv, Shape
<1>3. CASE Ends(k) /\ UNCHANGED fileVars
  BY <1>2, <1>3 DEF fileVars
<1>4. CASE ~(Ends(k) /\ UNCHANGED fileVars)
  <2>1. PICK o \in Inode, out1 \in Inode \cup {None} :
          /\ Opened(name, o) /\ lost' = lost
          /\ Becomes(k, [k EXCEPT !.todo = @ \ {i}, !.out = out1])
    BY <1>1, <1>4 DEF RedirOut, Opened, Kid
  <2> DEFINE l == [k EXCEPT !.todo = @ \ {i}, !.out = out1]
  <2>2. l \in Kid /\ l.out = out1
    BY <1>1, <2>1 DEF Kid
  <2> QED BY <1>2, <2>1, <2>2 DEF Becomes
<1> QED BY <1>3, <1>4

-----------------------------------------------------------------------------
(* Types.                                                                  *)

LEMMA KidTypes ==
  ASSUME IInv, HeredocAssumption, KidStep
  PROVE  TypeOK'
<1>1. PICK k \in kids : KidReady(k) \/ KidRedirects(k) \/ UnlinksFile(k) \/ KidExits(k)
  BY DEF KidStep
<1>2. k \in Kid /\ kids \subseteq Kid /\ lost \subseteq Name \cup {None}
  BY DEF IInv, TypeOK
<1>3. SUFFICES /\ dir' \in [Name -> Inode \cup {None}] /\ data' \in [Inode -> Seq(Nat \X Nat)]
               /\ kids' \subseteq Kid /\ lost' \subseteq Name \cup {None}
  BY DEF KidStep, shellVars, boundVars, TypeOK, IInv
<1>4. ASSUME Ends(k), UNCHANGED <<dir, data>>
      PROVE  /\ dir' \in [Name -> Inode \cup {None}] /\ data' \in [Inode -> Seq(Nat \X Nat)]
             /\ kids' \subseteq Kid /\ lost' \subseteq Name \cup {None}
  BY <1>2, <1>4 DEF Ends, Left, Name, IInv, TypeOK
<1>5. CASE KidReady(k)
  <2>1. [k EXCEPT !.ready = TRUE] \in Kid
    BY <1>2 DEF Kid
  <2> QED BY <1>2, <1>5, <2>1 DEF KidReady, Becomes, fileVars, IInv, TypeOK
<1>6. CASE KidRedirects(k)
  <2>1. CASE RedirIn(k)
    <3>1. CASE dir[k.line[First(k.todo)].name] = None
      BY <1>4, <2>1, <3>1 DEF RedirIn, fileVars
    <3>2. CASE dir[k.line[First(k.todo)].name] # None
      <4>1. PICK l \in Kid : kids' = (kids \ {k}) \cup {l} /\ UNCHANGED <<dir, data, lost>>
        BY <1>6, <2>1, <3>2, InIs
      <4> QED BY <1>2, <4>1 DEF IInv, TypeOK
    <3> QED BY <3>1, <3>2
  <2>2. CASE RedirOut(k)
    <3>1. CASE Ends(k) /\ UNCHANGED <<dir, data>>
      BY <1>4, <3>1
    <3>2. CASE ~(Ends(k) /\ UNCHANGED <<dir, data>>)
      <4> DEFINE name == k.line[First(k.todo)].name
      <4>1. PICK o \in Inode, l \in Kid : /\ Opened(name, o) /\ name \in Name
                                          /\ kids' = (kids \ {k}) \cup {l} /\ lost' = lost
        BY <1>6, <2>2, <3>2, OutIs DEF Name
      <4>2. dir' = [dir EXCEPT ![name] = o] /\ data' \in {data, [data EXCEPT ![o] = <<>>]}
        BY <4>1, Made DEF IInv
      <4>3. dir \in [Name -> Inode \cup {None}] /\ data \in [Inode -> Seq(Nat \X Nat)]
        BY DEF IInv, TypeOK
      <4>4. <<>> \in Seq(Nat \X Nat)
        OBVIOUS
      <4>5. data' \in [Inode -> Seq(Nat \X Nat)]
        BY <4>2, <4>3, <4>4
      <4>6. dir' \in [Name -> Inode \cup {None}]
        BY <4>1, <4>2, <4>3
      <4> QED BY <1>2, <4>1, <4>5, <4>6
    <3> QED BY <3>1, <3>2
  <2> QED BY <1>6, <2>1, <2>2 DEF KidRedirects
<1>7. CASE UnlinksFile(k)
  <2>1. [k EXCEPT !.rm = None] \in Kid
    BY <1>2 DEF Kid
  <2>2. dir' \in [Name -> Inode \cup {None}]
    BY <1>7, Unlinking DEF UnlinksFile, IInv
  <2>3. data' = data /\ lost' = lost /\ kids' \subseteq kids \cup {[k EXCEPT !.rm = None]}
    BY <1>7 DEF UnlinksFile, Becomes
  <2> QED BY <1>2, <2>1, <2>2, <2>3 DEF IInv, TypeOK
<1>8. CASE KidExits(k)
  BY <1>4, <1>8 DEF KidExits, fileVars
<1> QED BY <1>1, <1>5, <1>6, <1>7, <1>8

LEMMA TypesKept ==
  ASSUME IInv, HeredocAssumption, [Next]_vars
  PROVE  TypeOK'
<1> USE DEF shellVars, fileVars, boundVars, history
<1>0. TypeOK /\ WalkInv
  BY DEF IInv
<1>1. CASE StartJob
  <2>1. PICK l \in Line : line' = l.redirs /\ size' = l.n
    BY <1>1 DEF StartJob
  <2>2. line' \in Seq(Redir) /\ size' \in Nat /\ jobs' \in 0..MaxJobs /\ 0 \in Temp
    BY <1>0, <1>1, <2>1, HeredocAssumption DEF StartJob, TypeOK, Temp
  <2> QED BY <1>0, <1>1, <2>2 DEF StartJob, TypeOK
<1>2. CASE CreateHdcFile
  <2>1. PICK r \in Redir : line' = [line EXCEPT ![at'] = r] /\ at' \in DOMAIN line
    BY <1>2, NextHeredoc
  <2>2. line' \in Seq(Redir) /\ at' \in Nat
    BY <1>0, <2>1, Updated DEF TypeOK
  <2>3. counter \in Temp /\ counter' \in Temp /\ tmp' = counter
    BY <1>2, NextHeredoc DEF Temp
  <2>4. PICK i \in Inode : Opened(counter, i) /\ out' = i
    BY <1>2 DEF CreateHdcFile, Opened
  <2>5. dir' = [dir EXCEPT ![counter] = i] /\ data' \in {data, [data EXCEPT ![i] = <<>>]}
    BY <2>3, <2>4, Made DEF IInv, Name
  <2>6. dir' \in [Name -> Inode \cup {None}] /\ data' \in [Inode -> Seq(Nat \X Nat)]
    <3>1. dir \in [Name -> Inode \cup {None}] /\ data \in [Inode -> Seq(Nat \X Nat)]
      BY <1>0 DEF TypeOK
    <3>2. <<>> \in Seq(Nat \X Nat)
      OBVIOUS
    <3>3. dir' \in [Name -> Inode \cup {None}]
      BY <2>4, <2>5, <3>1
    <3>4. data' \in [Inode -> Seq(Nat \X Nat)]
      BY <2>4, <2>5, <3>1, <3>2
    <3> QED BY <3>3, <3>4
  <2>7. lost' \subseteq Name \cup {None}
    BY <1>0, <1>2 DEF TypeOK, CreateHdcFile
  <2> QED BY <1>0, <1>2, <2>2, <2>3, <2>4, <2>6, <2>7 DEF CreateHdcFile, TypeOK
<1>3. CASE CreateFails
  <2>1. PICK i \in Pending : TRUE
    BY <1>3 DEF CreateFails
  <2>2. i \in DOMAIN line /\ i >= at
    BY <2>1 DEF Pending
  <2>3. counter' \in Temp
    <3>1. /\ Len(line) \in Nat /\ DOMAIN line = 1..Len(line) /\ at \in Nat /\ counter \in Temp
      BY <1>0, LineTyped
    <3>2. /\ counter' = counter \/ (counter' = counter + 1 /\ counter <= 2 * (at - 1))
          /\ 2 * Len(line) <= MaxTemp /\ MaxTemp \in Nat
      BY <1>0, <1>3, HeredocAssumption DEF CreateFails, WalkInv
    <3> QED BY <2>2, <3>1, <3>2 DEF Temp
  <2>4. dir' \in [Name -> Inode \cup {None}]
    BY <1>0, <1>3, Unlinking DEF CreateFails
  <2>5. faults' \in 0..MaxTroubles
    BY <1>0, <1>3, HeredocAssumption DEF CreateFails, TypeOK
  <2> QED BY <1>0, <1>3, <2>3, <2>4, <2>5 DEF CreateFails, TypeOK
<1>4. CASE BodyLine
  <2>1. at \in DOMAIN line /\ out \in Inode /\ line[at].typed \in Int /\ line[at] \in Redir
    BY <1>0, <1>4, Entries DEF WalkInv, Reading, BodyLine, Redir
  <2>2. [line[at] EXCEPT !.typed = @ + 1] \in Redir
    BY <2>1 DEF Redir
  <2>3. line' = [line EXCEPT ![at] = [line[at] EXCEPT !.typed = @ + 1]]
    BY <1>4 DEF BodyLine
  <2>4. line' \in Seq(Redir)
    BY <1>0, <2>1, <2>2, <2>3, Updated DEF TypeOK
  <2>5. Append(data[out], <<jobs, at>>) \in Seq(Nat \X Nat)
    BY <1>0, <2>1 DEF TypeOK
  <2>6. data' \in [Inode -> Seq(Nat \X Nat)]
    BY <1>0, <1>4, <2>1, <2>5 DEF BodyLine, TypeOK
  <2> QED BY <1>0, <1>4, <2>4, <2>6 DEF BodyLine, TypeOK
<1>5. CASE Delimiter
  <2>1. PICK r \in Redir : line' = [line EXCEPT ![at] = r] /\ at \in DOMAIN line
    BY <1>5, ConvertedIs
  <2>2. line' \in Seq(Redir)
    BY <1>0, <2>1, Updated DEF TypeOK
  <2>3. counter' \in Temp
    BY <1>5, ConvertedIs DEF Temp
  <2> QED BY <1>0, <1>5, <2>2, <2>3 DEF Delimiter, TypeOK
<1>6. CASE Interrupted
  <2>1. dir' \in [Name -> Inode \cup {None}]
    BY <1>0, <1>6, Unlinking DEF Interrupted
  <2>2. out \in Inode
    BY <1>0, <1>6 DEF Interrupted, WalkInv, Reading
  <2>3. leaked' \subseteq Inode /\ noticed' \in Nat
    BY <1>0, <1>6, <2>2 DEF Interrupted, TypeOK
  <2> QED BY <1>0, <1>6, <2>1, <2>3 DEF Interrupted, TypeOK
<1>7. CASE Collected
  BY <1>0, <1>7 DEF Collected, TypeOK
<1>8. CASE Fork
  <2>1. jobs \in 1..MaxJobs
    BY <1>0, <1>8 DEF Fork, WalkInv, TypeOK
  <2>2. {i \in DOMAIN line : line[i].cmd = at} \subseteq Nat
    BY <1>0, Entries
  <2>3. NewKid(at) \in Kid
    BY <1>0, <2>1, <2>2 DEF NewKid, Kid, TypeOK
  <2> QED BY <1>0, <1>8, <2>3 DEF Fork, TypeOK
<1>9. CASE ForkFails
  <2>1. dir' \in [Name -> Inode \cup {None}]
    BY <1>0, <1>9, Unlinking DEF ForkFails, TypeOK
  <2>2. lost' \subseteq Name \cup {None}
    <3>1. NoChild \subseteq Name \cup {None}
      BY <1>0, Entries DEF NoChild, Redir
    <3> QED BY <1>0, <1>9, <3>1 DEF ForkFails, TypeOK
  <2>3. faults' \in 0..MaxTroubles
    BY <1>0, <1>9, HeredocAssumption DEF ForkFails, TypeOK
  <2>4. pc' \in {"prompt", "crashed"} /\ cutShort' \in BOOLEAN
    BY <1>9 DEF ForkFails
  <2> QED BY <1>0, <1>9, <2>1, <2>2, <2>3, <2>4 DEF ForkFails, TypeOK
<1>10. CASE WaitDone
  BY <1>0, <1>10 DEF WaitDone, TypeOK
<1>11. CASE KidStep
  BY <1>11, KidTypes
<1>12. CASE Sigint
  <2>1. PICK killed \in SUBSET kids :
          kids' = kids \ killed /\ lost' = lost \cup UNION {Left(k) : k \in killed}
    BY <1>12 DEF Sigint
  <2>2. \A k \in killed : Left(k) \subseteq Name
    BY DEF Left, Name
  <2>3. lost' \subseteq Name \cup {None}
    BY <1>0, <2>1, <2>2 DEF TypeOK
  <2>4. sigs' \in 0..MaxTroubles
    <3>1. /\ sigs \in 0..MaxTroubles /\ faults \in 0..MaxTroubles /\ MaxTroubles \in Nat
      BY <1>0, HeredocAssumption DEF TypeOK
    <3>2. sigs' = sigs + 1 /\ faults + sigs < MaxTroubles
      BY <1>12 DEF Sigint
    <3> QED BY <3>1, <3>2
  <2>5. pc' \in {"prompt", "collect", "read", "eintr", "fork", "wait", "crashed"}
    BY <1>0, <1>12 DEF Sigint, TypeOK
  <2>6. cutShort' \in BOOLEAN
    BY <1>0, <1>12 DEF Sigint, TypeOK
  <2> QED BY <1>0, <1>12, <2>1, <2>3, <2>4, <2>5, <2>6 DEF Sigint, TypeOK
<1>13. CASE UNCHANGED vars
  BY <1>0, <1>13 DEF vars, TypeOK
<1> QED BY <1>1, <1>2, <1>3, <1>4, <1>5, <1>6, <1>7, <1>8, <1>9, <1>10, <1>11, <1>12, <1>13
        DEF Next, ShellStep, Idle

-----------------------------------------------------------------------------
(* The walk of the line.                                                   *)

LEMMA WalkKept ==
  ASSUME IInv, HeredocAssumption, [Next]_vars
  PROVE  WalkInv'
<1> USE DEF shellVars, fileVars, boundVars, history
<1>0. TypeOK /\ WalkInv
  BY DEF IInv
<1>1. CASE StartJob
  <2>1. PICK l \in Line : line' = l.redirs /\ size' = l.n
    BY <1>1 DEF StartJob
  <2>2. /\ line' \in Seq(Redir) /\ 2 * Len(line') <= MaxTemp /\ size' >= 1
        /\ \A i \in DOMAIN line' : /\ line'[i].cmd \in 1..size' /\ line'[i].typed = -1
                                   /\ line'[i].name \in UserFile \cup {None}
                                   /\ line'[i].type # "hdc" => line'[i].name \in UserFile
    BY <2>1, HeredocAssumption
  <2>5. \A i \in DOMAIN line' : ~IsHeredoc(line'[i]) /\ i \in Nat /\ i >= 1
    <3>2. ASSUME NEW i \in DOMAIN line' PROVE ~IsHeredoc(line'[i])
      <4>1. line'[i].typed = -1
        BY <2>2
      <4> QED BY <4>1 DEF IsHeredoc
    <3>3. DOMAIN line' = 1..Len(line') /\ Len(line') \in Nat
      BY <2>2
    <3> QED BY <3>2, <3>3
  <2>3. Shape(line')
    <3>1. \A i \in DOMAIN line' : ~Fetched(line'[i])
      BY <2>5 DEF Fetched
    <3> QED BY <2>2, <2>5, <3>1 DEF Shape, Output
  <2>4. tmp' = None /\ out' = None /\ pc' = "collect" /\ at' = 1 /\ counter' = 0 /\ jobs' >= 1
    BY <1>0, <1>1 DEF StartJob, WalkInv, Reading, TypeOK
  <2>6. at' \in 1..Len(line') + 1
    BY <2>2, <2>4
  <2>7. \A i \in DOMAIN line' : ~(i < at')
    BY <2>4, <2>5
  <2>8. at' \in DOMAIN line' => ~IsHeredoc(line'[at'])
    BY <2>5
  <2>9. counter' <= 2 * (at' - 1)
    BY <2>4
  <2>10. \A i \in DOMAIN line' : i > at' => ~IsHeredoc(line'[i])
    BY <2>5
  <2> QED BY <2>2, <2>3, <2>4, <2>6, <2>7, <2>8, <2>9, <2>10 DEF WalkInv, Collecting, Reading
<1>2. CASE CreateHdcFile
  <2>1. PICK r \in Redir : /\ r = [line[at'] EXCEPT !.typed = 0]
                           /\ line' = [line EXCEPT ![at'] = r]
    BY <1>2, NextHeredoc
  <2>2. /\ at' \in DOMAIN line /\ at <= at' /\ line[at'].type = "hdc"
        /\ \A i \in DOMAIN line : i < at' => line[i].type # "hdc"
        /\ counter' = counter + 1 /\ counter' <= 2 * at' - 1 /\ tmp' = counter /\ counter \in Temp
        /\ counter \in Nat
    BY <1>2, NextHeredoc DEF Temp
  <2>3. /\ Len(line') = Len(line) /\ DOMAIN line' = DOMAIN line /\ line'[at'] = r
        /\ \A j \in DOMAIN line : j # at' => line'[j] = line[j]
    BY <1>0, <2>1, <2>2, Updated DEF TypeOK
  <2>4. r.type = "hdc" /\ r.cmd = line[at'].cmd /\ r.name = line[at'].name /\ IsHeredoc(r) /\ ~Fetched(r)
    BY <1>0, <2>1, <2>2, Entries DEF Redir, IsHeredoc, Fetched
  <2>5. Shape(line')
    BY <1>0, <2>2, <2>3, <2>4 DEF WalkInv, Shape, Output
  <2>l. /\ Len(line) \in Nat /\ DOMAIN line = 1..Len(line) /\ at \in Nat
        /\ \A i \in DOMAIN line : i \in Nat
    BY <1>0, LineTyped
  <2>6. at \in Nat /\ \A i \in DOMAIN line : i >= at => ~IsHeredoc(line[i])
    <3>1. /\ \A i \in DOMAIN line : i > at => ~IsHeredoc(line[i])
          /\ at \in DOMAIN line => ~IsHeredoc(line[at])
      BY <1>0, <1>2 DEF WalkInv, CreateHdcFile, Collecting
    <3> QED BY <2>l, <3>1
  <2>7. \A i \in DOMAIN line' : i > at' => ~IsHeredoc(line'[i])
    <3> SUFFICES ASSUME NEW i \in DOMAIN line, i > at' PROVE ~IsHeredoc(line'[i])
      BY <2>3
    <3>1. i \in Nat /\ at' \in Nat /\ i # at' /\ i >= at
      BY <2>2, <2>l
    <3> QED BY <2>3, <2>6, <3>1
  <2>8. \A i \in DOMAIN line' : i < at' /\ Fetched(line'[i]) => line'[i].name < tmp'
    <3> SUFFICES ASSUME NEW i \in DOMAIN line, i < at', Fetched(line[i]) PROVE line[i].name < counter
      BY <2>2, <2>3
    <3>1. i < at
      BY <1>0, <2>6, Entries DEF Fetched
    <3> QED BY <1>0, <1>2, <3>1 DEF WalkInv, Collecting, Reading, CreateHdcFile
  <2>9. at' \in 1..Len(line') + 1
    BY <1>0, <2>2, <2>3, Entries
  <2>10. pc' = "read" /\ jobs' = jobs /\ size' = size /\ out' \in Inode
    BY <1>2 DEF CreateHdcFile
  <2>11. /\ 2 * Len(line') <= MaxTemp /\ jobs >= 1 /\ size >= 1
         /\ \A i \in DOMAIN line' : line'[i].cmd \in 1..size'
    BY <1>0, <1>2, <2>2, <2>3, <2>4, <2>10 DEF WalkInv, CreateHdcFile
  <2>12. \A i \in DOMAIN line' : i < at' => line'[i].type # "hdc"
    BY <2>2, <2>3
  <2> QED BY <2>2, <2>3, <2>4, <2>5, <2>7, <2>8, <2>9, <2>10, <2>11, <2>12
          DEF WalkInv, Collecting, Reading
<1>3. CASE CreateFails
  BY <1>0, <1>3 DEF CreateFails, WalkInv, Reading, Collecting
<1>4. CASE BodyLine
  <2>1. at \in DOMAIN line /\ line[at].type = "hdc" /\ IsHeredoc(line[at]) /\ line[at] \in Redir
    BY <1>0, <1>4, Entries DEF WalkInv, Reading, BodyLine
  <2> DEFINE r == [line[at] EXCEPT !.typed = @ + 1]
  <2>2. /\ r \in Redir /\ r.type = "hdc" /\ r.cmd = line[at].cmd /\ r.name = line[at].name
        /\ IsHeredoc(r) /\ ~Fetched(r)
    BY <2>1, OneLineMore DEF Fetched
  <2>3. line' = [line EXCEPT ![at] = r]
    BY <1>4 DEF BodyLine
  <2> HIDE DEF r
  <2>4. /\ Len(line') = Len(line) /\ DOMAIN line' = DOMAIN line /\ line'[at] = r
        /\ \A j \in DOMAIN line : j # at => line'[j] = line[j]
    BY <1>0, <2>1, <2>2, <2>3, Updated DEF TypeOK
  <2>5. Shape(line')
    BY <1>0, <2>1, <2>2, <2>4 DEF WalkInv, Shape, Output
  <2>6. UNCHANGED <<pc, size, at, counter, tmp, out, jobs>> /\ pc = "read"
    BY <1>4 DEF BodyLine
  <2>7. /\ 2 * Len(line') <= MaxTemp /\ \A i \in DOMAIN line' : line'[i].cmd \in 1..size
    BY <1>0, <2>2, <2>4, <2>6 DEF WalkInv
  <2>8. \A i \in DOMAIN line' : /\ i < at => line'[i].type # "hdc"
                                /\ i > at => ~IsHeredoc(line'[i])
                                /\ i < at /\ Fetched(line'[i]) => line'[i].name < tmp
    BY <1>0, <2>1, <2>2, <2>4, <2>6, Entries DEF WalkInv, Collecting, Reading
  <2> QED BY <1>0, <2>1, <2>2, <2>4, <2>5, <2>6, <2>7, <2>8 DEF WalkInv, Collecting, Reading
<1>5. CASE Delimiter
  <2>1. PICK r \in Redir : /\ r = [line[at] EXCEPT !.type = "in", !.name = tmp]
                           /\ line' = [line EXCEPT ![at] = r]
    BY <1>5, ConvertedIs
  <2>2. /\ at \in DOMAIN line /\ counter \in Nat /\ counter' = counter + 1 /\ counter' <= 2 * at
        /\ tmp \in Temp /\ counter = tmp + 1 /\ tmp \in Nat /\ at \in Nat
    BY <1>0, <1>5, ConvertedIs, Entries DEF Delimiter, WalkInv, Reading, Temp
  <2>3. /\ Len(line') = Len(line) /\ DOMAIN line' = DOMAIN line /\ line'[at] = r
        /\ \A j \in DOMAIN line : j # at => line'[j] = line[j]
    BY <1>0, <2>1, <2>2, Updated DEF TypeOK
  <2>4. line[at] \in Redir /\ IsHeredoc(line[at])
    BY <1>0, <1>5, <2>2, Entries DEF Delimiter, WalkInv, Reading
  <2>5. r.type = "in" /\ r.name = tmp /\ r.cmd = line[at].cmd /\ IsHeredoc(r) /\ Fetched(r)
    BY <2>1, <2>4 DEF Redir, IsHeredoc, Fetched
  <2>6. \A i \in DOMAIN line : /\ i < at => line[i].type # "hdc"
                               /\ i > at => ~IsHeredoc(line[i])
                               /\ i < at /\ Fetched(line[i]) => line[i].name < tmp
    BY <1>0, <1>5 DEF Delimiter, WalkInv, Collecting, Reading
  <2>7. \A i \in DOMAIN line : i # at /\ Fetched(line[i]) => line[i].name # tmp
    <3> SUFFICES ASSUME NEW i \in DOMAIN line, i # at, Fetched(line[i]), line[i].name = tmp
                 PROVE  FALSE
      OBVIOUS
    <3>1. i \in Nat /\ (i < at \/ i > at)
      BY <1>0, <2>2, LineTyped
    <3>2. ~ (tmp < tmp)
      BY <2>2
    <3> QED BY <2>6, <3>1, <3>2 DEF Fetched
  <2>8. Shape(line')
    <3>1. ASSUME NEW i \in DOMAIN line'
          PROVE  /\ Output(line'[i]) => line'[i].name \in UserFile /\ ~IsHeredoc(line'[i])
                 /\ line'[i].type = "in" /\ ~IsHeredoc(line'[i]) => line'[i].name \in UserFile
                 /\ line'[i].type = "hdc" => line'[i].name \in UserFile \cup {None}
                 /\ Fetched(line'[i]) => line'[i].name \in Temp
      BY <1>0, <2>2, <2>3, <2>5 DEF WalkInv, Shape, Output
    <3>2. ASSUME NEW i \in DOMAIN line', NEW j \in DOMAIN line',
                 Fetched(line'[i]), Fetched(line'[j]), line'[i].name = line'[j].name
          PROVE  i = j
      <4>1. CASE i # at /\ j # at
        BY <1>0, <2>3, <3>2, <4>1 DEF WalkInv, Shape
      <4>2. CASE i = at \/ j = at
        BY <2>3, <2>5, <2>7, <3>2, <4>2
      <4> QED BY <4>1, <4>2
    <3> QED BY <3>1, <3>2 DEF Shape
  <2>9. pc' = "collect" /\ at' = at + 1 /\ tmp' = None /\ out' = None /\ UNCHANGED <<jobs, size>>
    BY <1>5 DEF Delimiter
  <2>10. /\ at' \in 1..Len(line') + 1 /\ counter' <= 2 * (at' - 1)
    BY <1>0, <2>2, <2>3, <2>9, Entries
  <2>11. \A i \in DOMAIN line' : /\ i < at' => line'[i].type # "hdc"
                                 /\ i >= at' => ~IsHeredoc(line'[i])
    <3> SUFFICES ASSUME NEW i \in DOMAIN line
                 PROVE  /\ i < at' => line'[i].type # "hdc"
                        /\ i >= at' => ~IsHeredoc(line'[i])
      BY <2>3
    <3>1. i \in Nat /\ (i < at' <=> i < at \/ i = at) /\ (i >= at' <=> i > at)
      BY <1>0, <2>2, <2>9, LineTyped
    <3>2. CASE i = at
      BY <2>2, <2>3, <2>5, <3>1, <3>2
    <3>3. CASE i # at
      BY <2>3, <2>6, <3>1, <3>3
    <3> QED BY <3>2, <3>3
  <2>12. \A i \in DOMAIN line' : i < at' /\ Fetched(line'[i]) => line'[i].name < counter'
    <3> SUFFICES ASSUME NEW i \in DOMAIN line, i < at', Fetched(line'[i])
                 PROVE  line'[i].name < counter'
      BY <2>3
    <3>1. CASE i = at
      BY <2>2, <2>3, <2>5, <3>1
    <3>2. CASE i # at
      <4>1. i < at /\ Fetched(line[i]) /\ line'[i] = line[i]
        BY <1>0, <2>2, <2>3, <2>9, <3>2, Entries
      <4>2. line[i].name \in Nat /\ line[i].name < tmp
        BY <1>0, <2>6, <4>1 DEF WalkInv, Shape, Temp
      <4> QED BY <2>2, <4>1, <4>2
    <3> QED BY <3>1, <3>2
  <2>13. /\ 2 * Len(line') <= MaxTemp /\ jobs >= 1 /\ size >= 1
         /\ \A i \in DOMAIN line' : line'[i].cmd \in 1..size
    <3>1. /\ 2 * Len(line) <= MaxTemp /\ jobs >= 1 /\ size >= 1
          /\ \A i \in DOMAIN line : line[i].cmd \in 1..size
      BY <1>0, <1>5 DEF WalkInv, Delimiter
    <3> QED BY <2>2, <2>3, <2>5, <3>1
  <2>14. at' \in Nat /\ \A i \in DOMAIN line' : i \in Nat
    BY <2>2, <2>3, <2>9, <1>0, Entries
  <2> QED BY <2>8, <2>9, <2>10, <2>11, <2>12, <2>13, <2>14 DEF WalkInv, Collecting, Reading
<1>6. CASE Interrupted
  BY <1>0, <1>6 DEF Interrupted, WalkInv, Reading, Collecting
<1>7. CASE Collected
  <2>1. \A i \in DOMAIN line : line[i].type # "hdc"
    <3> TAKE i \in DOMAIN line
    <3>1. CASE i < at
      BY <1>0, <1>7, <3>1 DEF Collected, WalkInv, Collecting
    <3>2. CASE ~(i < at)
      <4>1. i >= at
        BY <1>0, <3>2, Entries DEF TypeOK
      <4> QED BY <1>7, <4>1 DEF Collected, Pending
    <3> QED BY <3>1, <3>2
  <2>2. size \in Nat /\ size >= 1
    BY <1>0, <1>7 DEF Collected, WalkInv, TypeOK
  <2>3. at' \in 1..size
    BY <1>7, <2>2 DEF Collected
  <2> QED BY <1>0, <1>7, <2>1, <2>2, <2>3 DEF Collected, WalkInv, Reading, Collecting
<1>8. CASE Fork
  <2>1. at \in 1..size /\ size \in Nat
    BY <1>0, <1>8 DEF Fork, WalkInv, TypeOK
  <2>2. pc' = "fork" => at' \in 1..size
    BY <1>8, <2>1 DEF Fork
  <2>3. pc' \in {"fork", "wait"}
    BY <1>8 DEF Fork
  <2> QED BY <1>0, <1>8, <2>2, <2>3 DEF Fork, WalkInv, Reading, Collecting
<1>9. CASE ForkFails
  <2>1. pc' \in {"prompt", "crashed"}
    BY <1>9 DEF ForkFails
  <2> QED BY <1>0, <1>9, <2>1 DEF ForkFails, WalkInv, Reading, Collecting
<1>10. CASE WaitDone
  BY <1>0, <1>10 DEF WaitDone, WalkInv, Reading, Collecting
<1>11. CASE KidStep
  BY <1>0, <1>11 DEF KidStep, WalkInv, Reading, Collecting
<1>12. CASE Sigint
  <2>1. \/ pc' = pc
        \/ pc = "read" /\ pc' = "eintr"
        \/ pc = "wait" /\ pc' = "prompt"
    BY <1>12 DEF Sigint
  <2> QED BY <1>0, <1>12, <2>1 DEF Sigint, WalkInv, Reading, Collecting
<1>13. CASE UNCHANGED vars
  BY <1>0, <1>13 DEF vars, WalkInv, Reading, Collecting
<1> QED BY <1>1, <1>2, <1>3, <1>4, <1>5, <1>6, <1>7, <1>8, <1>9, <1>10, <1>11, <1>12, <1>13
        DEF Next, ShellStep, Idle

-----------------------------------------------------------------------------
(* What a child's step may do, and what children and directory keep.       *)

\* The child k becomes l.
Turns(k, l) ==
  /\ l \in Kid /\ kids' = (kids \ {k}) \cup {l}
  /\ l.job = k.job /\ l.cmd = k.cmd /\ l.line = k.line

Readies(k, l) ==
  /\ l.todo = k.todo /\ l.rm = k.rm /\ l.in = k.in /\ l.from = k.from
  /\ UNCHANGED <<dir, data, lost>>

Opens(k, l, i) ==
  /\ k.rm = None /\ k.line[i].type = "in"
  /\ k.line[i].name \in Name /\ dir[k.line[i].name] \in Inode
  /\ l.todo = k.todo \ {i} /\ l.in = dir[k.line[i].name] /\ l.from = i
  /\ l.rm = IF LooksTemp(k.line[i].name) THEN k.line[i].name ELSE None
  /\ UNCHANGED <<dir, data, lost>>

Writes(k, l, i, o) ==
  /\ k.rm = None /\ k.line[i].name \in UserFile
  /\ Opened(k.line[i].name, o)
  /\ l.todo = k.todo \ {i} /\ l.rm = None /\ l.in = k.in /\ l.from = k.from
  /\ lost' = lost

Removes(k, l) ==
  /\ l.todo = k.todo /\ l.rm = None /\ l.in = k.in /\ l.from = k.from
  /\ k.rm # None /\ dir' = Unlinked({k.rm})
  /\ UNCHANGED <<data, lost>>

Does(k) ==
  \/ Ends(k) /\ UNCHANGED <<dir, data>>
  \/ \E l \in Kid :
       /\ Turns(k, l)
       /\ \/ Readies(k, l) \/ Removes(k, l)
          \/ \E i \in k.todo : /\ i \in DOMAIN k.line /\ i # 0 /\ k.line[i].cmd = k.cmd
                               /\ Opens(k, l, i) \/ \E o \in Inode : Writes(k, l, i, o)

LEMMA KidDoes ==
  ASSUME IInv, HeredocAssumption, KidStep
  PROVE  /\ \E k \in kids : k \in Kid /\ Does(k)
         /\ UNCHANGED <<shellVars, boundVars, cutShort, noticed>>
<1>1. PICK k \in kids : KidReady(k) \/ KidRedirects(k) \/ UnlinksFile(k) \/ KidExits(k)
  BY DEF KidStep
<1>2. k \in Kid
  BY DEF IInv, TypeOK
<1> SUFFICES Does(k)
  BY <1>2 DEF KidStep
<1>3. CASE KidReady(k)
  <2> DEFINE l == [k EXCEPT !.ready = TRUE]
  <2>1. Turns(k, l) /\ Readies(k, l)
    BY <1>2, <1>3 DEF Kid, KidReady, Becomes, Turns, Readies, fileVars
  <2> QED BY <1>2, <2>1 DEF Does, Turns
<1>4. CASE KidRedirects(k)
  <2> DEFINE i == First(k.todo)
  <2>1. i \in k.todo /\ i \in DOMAIN k.line /\ i # 0 /\ k.line[i].cmd = k.cmd /\ k.rm = None
    BY <1>4, NextRedir DEF KidRedirects
  <2>2. CASE RedirIn(k)
    <3>1. CASE dir[k.line[i].name] = None
      BY <1>2, <2>2, <3>1 DEF RedirIn, fileVars, Does
    <3>2. CASE dir[k.line[i].name] # None
      <4>1. PICK l \in Kid :
              /\ l = [k EXCEPT !.todo = @ \ {i}, !.in = dir[k.line[i].name], !.from = i,
                               !.rm = IF LooksTemp(k.line[i].name) THEN k.line[i].name ELSE None]
              /\ kids' = (kids \ {k}) \cup {l} /\ UNCHANGED <<dir, data, lost>>
              /\ k.line[i].name \in Name /\ dir[k.line[i].name] \in Inode
        BY <1>4, <2>2, <3>2, InIs
      <4>2. Turns(k, l) /\ Opens(k, l, i)
        BY <1>2, <2>1, <2>2, <4>1 DEF Kid, Turns, Opens, RedirIn
      <4> QED BY <1>2, <2>1, <4>2 DEF Does
    <3> QED BY <3>1, <3>2
  <2>3. CASE RedirOut(k)
    <3>1. CASE Ends(k) /\ UNCHANGED <<dir, data>>
      BY <1>2, <3>1 DEF Does
    <3>2. CASE ~(Ends(k) /\ UNCHANGED <<dir, data>>)
      <4>1. PICK o \in Inode, l \in Kid :
              /\ Opened(k.line[i].name, o) /\ k.line[i].name \in UserFile
              /\ l = [k EXCEPT !.todo = @ \ {i}, !.out = l.out]
              /\ kids' = (kids \ {k}) \cup {l} /\ lost' = lost
        BY <1>4, <2>3, <3>2, OutIs
      <4>2. Turns(k, l) /\ Writes(k, l, i, o)
        BY <1>2, <2>1, <4>1 DEF Kid, Turns, Writes
      <4> QED BY <1>2, <2>1, <4>2 DEF Does
    <3> QED BY <3>1, <3>2
  <2> QED BY <1>4, <2>2, <2>3 DEF KidRedirects
<1>5. CASE UnlinksFile(k)
  <2> DEFINE l == [k EXCEPT !.rm = None]
  <2>1. Turns(k, l) /\ Removes(k, l)
    BY <1>2, <1>5 DEF Kid, UnlinksFile, Becomes, Turns, Removes
  <2> QED BY <1>2, <2>1 DEF Does, Turns
<1>6. CASE KidExits(k)
  BY <1>2, <1>6 DEF KidExits, Does, fileVars
<1> QED BY <1>1, <1>2, <1>3, <1>4, <1>5, <1>6

\* What a child is when it is forked.
LEMMA Forked ==
  ASSUME TypeOK
  PROVE  LET k == NewKid(at)
         IN  /\ k.job = jobs /\ k.cmd = at /\ k.line = line /\ k.rm = None /\ k.from = 0
             /\ k.todo = {i \in DOMAIN line : line[i].cmd = at} /\ k.in = None
BY DEF NewKid

\* Other steps leave the children as they are, or end some.
LEMMA KidsOf ==
  ASSUME IInv, HeredocAssumption, [Next]_vars
  PROVE  KidStep \/ Fork \/ kids' \subseteq kids
<1> USE DEF shellVars, fileVars, boundVars, history
<1>1. CASE Sigint
  BY <1>1 DEF Sigint
<1>2. CASE StartJob \/ CreateHdcFile \/ CreateFails \/ BodyLine \/ Delimiter \/ Interrupted
           \/ Collected \/ ForkFails \/ WaitDone
  BY <1>2 DEF StartJob, CreateHdcFile, CreateFails, BodyLine, Delimiter, Interrupted,
              Collected, ForkFails, WaitDone
<1>3. CASE UNCHANGED vars
  BY <1>3 DEF vars
<1> QED BY <1>1, <1>2, <1>3 DEF Next, ShellStep, Idle

LEMMA KidKept ==
  ASSUME IInv, HeredocAssumption, [Next]_vars
  PROVE  KidInv'
<1>0. KidInv /\ TypeOK
  BY DEF IInv
<1>1. CASE KidStep
  <2>1. PICK k \in kids : k \in Kid /\ Does(k)
    BY <1>1, KidDoes
  <2>2. CASE Ends(k)
    BY <1>0, <2>2 DEF Ends, KidInv, LooksTemp
  <2>3. CASE ~Ends(k)
    <3>1. PICK l \in Kid :
            /\ Turns(k, l)
            /\ \/ Readies(k, l) \/ Removes(k, l)
               \/ \E i \in k.todo : /\ i \in DOMAIN k.line /\ i # 0 /\ k.line[i].cmd = k.cmd
                                    /\ Opens(k, l, i) \/ \E o \in Inode : Writes(k, l, i, o)
      BY <2>1, <2>3 DEF Does
    <3>2. /\ Shape(k.line) /\ \A i \in DOMAIN k.line : k.line[i].type # "hdc"
          /\ k.todo \subseteq {i \in DOMAIN k.line : k.line[i].cmd = k.cmd}
          /\ k.rm # None => LooksTemp(k.rm)
          /\ k.from = 0 \/ k.from \in DOMAIN k.line
      BY <1>0, <2>1 DEF KidInv
    <3>3. /\ l.todo \subseteq k.todo /\ (l.rm # None => LooksTemp(l.rm))
          /\ l.from = 0 \/ l.from \in DOMAIN k.line
      BY <3>1, <3>2 DEF Readies, Removes, Opens, Writes
    <3>4. l.line = k.line /\ l.cmd = k.cmd /\ kids' = (kids \ {k}) \cup {l}
      BY <3>1 DEF Turns
    <3>5. /\ Shape(l.line) /\ \A i \in DOMAIN l.line : l.line[i].type # "hdc"
          /\ l.todo \subseteq {i \in DOMAIN l.line : l.line[i].cmd = l.cmd}
          /\ l.from = 0 \/ l.from \in DOMAIN l.line
      BY <3>2, <3>3, <3>4
    <3> QED BY <1>0, <3>3, <3>4, <3>5 DEF KidInv, LooksTemp
  <2> QED BY <2>2, <2>3
<1>2. CASE Fork
  <2>1. kids' = kids \cup {NewKid(at)} /\ Shape(line) /\ \A i \in DOMAIN line : line[i].type # "hdc"
    BY <1>2 DEF Fork, IInv, WalkInv
  <2> QED BY <1>0, <2>1, Forked DEF KidInv, LooksTemp
<1>3. CASE kids' \subseteq kids
  BY <1>0, <1>3 DEF KidInv, LooksTemp
<1> QED BY <1>1, <1>2, <1>3, KidsOf

-----------------------------------------------------------------------------
(* The directory.                                                          *)

LEMMA DirCreates ==
  ASSUME TypeOK, DirInv, HeredocAssumption, NEW name \in Name, NEW i \in Inode, Opened(name, i)
  PROVE  /\ \A m, n \in Name : dir'[m] = dir'[n] /\ dir'[m] # None => m = n
         /\ \A n \in Name : dir'[n] \notin leaked
         /\ \A n \in Name : dir'[n] = IF n = name THEN i ELSE dir[n]
         /\ \A n \in Name : n # name => dir[n] # i
         /\ out # None => \A n \in Name : dir'[n] = out => n = tmp
<1>1. /\ dir' = [dir EXCEPT ![name] = i] /\ i \notin leaked
      /\ \A n \in Name : n # name => dir[n] # i
      /\ \/ dir[name] = i
         \/ dir[name] = None /\ i # out /\ \A k \in kids : i \notin {k.in, k.out}
  BY Made
<1>2. dir \in [Name -> Inode \cup {None}]
  BY DEF TypeOK
<1>3. \A n \in Name : dir'[n] = IF n = name THEN i ELSE dir[n]
  BY <1>1, <1>2
<1> QED BY <1>1, <1>3 DEF DirInv

LEMMA DirUnlinks ==
  ASSUME TypeOK, DirInv, HeredocAssumption, NEW names, dir' = Unlinked(names)
  PROVE  /\ \A m, n \in Name : dir'[m] = dir'[n] /\ dir'[m] # None => m = n
         /\ \A n \in Name : dir'[n] \notin leaked
         /\ \A n \in Name : dir'[n] = IF n \in names THEN None ELSE dir[n]
         /\ out # None => \A n \in Name : dir'[n] = out => n = tmp
<1>1. \A n \in Name : dir'[n] = IF n \in names THEN None ELSE dir[n]
  BY Unlinking
<1>2. None \notin leaked
  BY DEF TypeOK, HeredocAssumption
<1> QED BY <1>1, <1>2 DEF DirInv

LEMMA DirKept ==
  ASSUME IInv, HeredocAssumption, [Next]_vars
  PROVE  DirInv'
<1> USE DEF shellVars, fileVars, boundVars, history
<1>0. TypeOK /\ WalkInv /\ DirInv
  BY DEF IInv
<1>1. CASE CreateHdcFile
  <2>1. PICK i \in Inode : Opened(counter, i) /\ out' = i
    BY <1>1 DEF CreateHdcFile, Opened
  <2>2. counter \in Name /\ tmp' = counter /\ UNCHANGED <<leaked, noticed>>
    BY <1>1, NextHeredoc DEF CreateHdcFile, Name
  <2>3. i \notin leaked
    BY <1>0, <2>1, <2>2, Made
  <2>4. /\ \A m, n \in Name : dir'[m] = dir'[n] /\ dir'[m] # None => m = n
        /\ \A n \in Name : dir'[n] \notin leaked
        /\ \A n \in Name : dir'[n] = IF n = counter THEN i ELSE dir[n]
        /\ \A n \in Name : n # counter => dir[n] # i
    BY <1>0, <2>1, <2>2, DirCreates
  <2> QED BY <1>0, <2>1, <2>2, <2>3, <2>4 DEF DirInv
<1>2. CASE CreateFails
  <2>1. dir' = Unlinked(Swept) /\ UNCHANGED <<leaked, out, tmp, noticed>>
    BY <1>2 DEF CreateFails
  <2> QED BY <1>0, <2>1, DirUnlinks DEF DirInv
<1>3. CASE Interrupted
  <2>1. /\ dir' = Unlinked(Swept \cup {tmp}) /\ leaked' = leaked \cup {out} /\ noticed' = noticed + 1
        /\ tmp' = None /\ out' = None /\ tmp \in Temp /\ out \in Inode /\ out # None
    BY <1>0, <1>3 DEF Interrupted, WalkInv, Reading, HeredocAssumption
  <2>2. /\ \A m, n \in Name : dir'[m] = dir'[n] /\ dir'[m] # None => m = n
        /\ \A n \in Name : dir'[n] \notin leaked
        /\ \A n \in Name : dir'[n] = IF n \in Swept \cup {tmp} THEN None ELSE dir[n]
        /\ \A n \in Name : dir'[n] = out => n = tmp
    BY <1>0, <2>1, DirUnlinks
  <2>3. \A n \in Name : dir'[n] # out
    BY <2>1, <2>2
  <2>4. out \notin leaked /\ IsFiniteSet(leaked) /\ Cardinality(leaked) = noticed
    BY <1>0, <2>1 DEF DirInv
  <2>5. IsFiniteSet(leaked') /\ Cardinality(leaked') = noticed'
    BY <2>1, <2>4, FS_AddElement
  <2> QED BY <2>1, <2>2, <2>3, <2>5 DEF DirInv
<1>4. CASE Delimiter
  <2>1. tmp' = None /\ out' = None /\ UNCHANGED <<dir, leaked, noticed>>
    BY <1>4 DEF Delimiter
  <2> QED BY <1>0, <2>1 DEF DirInv
<1>5. CASE ForkFails
  <2>1. PICK some : dir' = dir \/ dir' = Unlinked(some)
    BY <1>5 DEF ForkFails
  <2>2. UNCHANGED <<leaked, out, tmp, noticed>>
    BY <1>5 DEF ForkFails
  <2>3. CASE dir' = dir
    BY <1>0, <2>2, <2>3 DEF DirInv
  <2>4. CASE dir' = Unlinked(some)
    BY <1>0, <2>2, <2>4, DirUnlinks DEF DirInv
  <2> QED BY <2>1, <2>3, <2>4
<1>6. CASE KidStep
  <2>1. PICK k \in kids : k \in Kid /\ Does(k)
    BY <1>6, KidDoes
  <2>2. UNCHANGED <<leaked, out, tmp, noticed>>
    BY <1>6 DEF KidStep
  <2>3. CASE dir' = dir
    BY <1>0, <2>2, <2>3 DEF DirInv
  <2>4. ASSUME NEW some, dir' = Unlinked(some) PROVE DirInv'
    BY <1>0, <2>2, <2>4, DirUnlinks DEF DirInv
  <2>5. ASSUME NEW name \in UserFile, NEW o \in Inode, Opened(name, o) PROVE DirInv'
    <3>1. name \in Name
      BY DEF Name
    <3> QED BY <1>0, <2>2, <2>5, <3>1, DirCreates DEF DirInv
  <2> QED BY <2>1, <2>3, <2>4, <2>5 DEF Does, Readies, Opens, Writes, Removes
<1>7. CASE StartJob \/ BodyLine \/ Collected \/ Fork \/ WaitDone \/ Sigint \/ UNCHANGED vars
  <2>1. UNCHANGED <<dir, leaked, out, tmp, noticed>>
    BY <1>7 DEF StartJob, BodyLine, Collected, Fork, WaitDone, Sigint, vars
  <2> QED BY <1>0, <2>1 DEF DirInv
<1> QED BY <1>1, <1>2, <1>3, <1>4, <1>5, <1>6, <1>7 DEF Next, ShellStep, Idle

-----------------------------------------------------------------------------
(* The children of the job at hand.                                        *)

\* The last three parts of QuietInv that are about one child.
Own(k) ==
  /\ k.from # 0 => k.line[k.from].cmd = k.cmd /\ k.line[k.from].type = "in" /\ k.from \notin k.todo
  /\ k.rm # None => k.from # 0 /\ k.rm = k.line[k.from].name
  /\ k.from # 0 /\ IsHeredoc(k.line[k.from]) =>
       /\ k.in \in Inode
       /\ \A n \in Name : dir[n] = k.in => n = k.line[k.from].name

LEMMA QuietIs ==
  QuietInv <=>
    (~cutShort =>
      /\ pc \notin {"fork", "wait"} => kids = {}
      /\ \A k \in kids : k.job = jobs /\ k.line = line /\ (pc = "fork" => k.cmd < at) /\ Own(k)
      /\ \A k, l \in kids : k.cmd = l.cmd => k = l)
BY DEF QuietInv, Own

\* What a child does leaves the others their files.
LEMMA OthersOwn ==
  ASSUME IInv, HeredocAssumption, NEW k \in kids, Does(k), NEW m \in kids, Own(m)
  PROVE  Own(m)'
<1>0. TypeOK /\ DirInv /\ None \notin Inode
  BY DEF IInv, HeredocAssumption
<1>1. CASE dir' = dir
  BY <1>1 DEF Own, IsHeredoc
<1>2. ASSUME NEW some, dir' = Unlinked(some) PROVE Own(m)'
  <2>1. \A n \in Name : dir'[n] = IF n \in some THEN None ELSE dir[n]
    BY <1>0, <1>2, Unlinking
  <2> QED BY <1>0, <2>1 DEF Own, IsHeredoc
<1>3. ASSUME NEW name \in UserFile, NEW o \in Inode, Opened(name, o) PROVE Own(m)'
  <2>1. name \in Name
    BY DEF Name
  <2>2. \A n \in Name : dir'[n] = IF n = name THEN o ELSE dir[n]
    BY <1>0, <1>3, <2>1, DirCreates
  <2>3. dir[name] = o \/ o # m.in
    BY <1>0, <1>3, <2>1, Made
  <2>4. \A n \in Name : dir'[n] = m.in => dir[n] = m.in
    BY <2>1, <2>2, <2>3
  <2> QED BY <2>4 DEF Own, IsHeredoc
<1> QED BY <1>1, <1>2, <1>3 DEF Does, Readies, Opens, Writes, Removes

LEMMA TurnsOwn ==
  ASSUME IInv, HeredocAssumption, NEW k \in kids, NEW l \in Kid, Turns(k, l), Own(k), Own(k)',
         \/ Readies(k, l) \/ Removes(k, l)
         \/ \E i \in k.todo : /\ i \in DOMAIN k.line /\ i # 0 /\ k.line[i].cmd = k.cmd
                              /\ Opens(k, l, i) \/ \E o \in Inode : Writes(k, l, i, o)
  PROVE  Own(l)'
<1>0. l.line = k.line /\ l.cmd = k.cmd
  BY DEF Turns
<1>1. CASE Readies(k, l)
  BY <1>0, <1>1 DEF Readies, Own, IsHeredoc
<1>2. CASE Removes(k, l)
  BY <1>0, <1>2 DEF Removes, Own, IsHeredoc
<1>3. ASSUME NEW i \in k.todo, i # 0, k.line[i].cmd = k.cmd, Opens(k, l, i) PROVE Own(l)'
  <2>1. /\ l.from = i /\ l.in = dir[k.line[i].name] /\ l.in \in Inode /\ k.line[i].name \in Name
        /\ i \notin l.todo /\ k.line[i].type = "in" /\ dir' = dir
        /\ l.rm = IF LooksTemp(k.line[i].name) THEN k.line[i].name ELSE None
    BY <1>3 DEF Opens
  <2>2. \A n \in Name : dir[n] = l.in => n = k.line[i].name
    BY <2>1 DEF IInv, DirInv, HeredocAssumption
  <2> QED BY <1>0, <1>3, <2>1, <2>2 DEF Own, IsHeredoc
<1>4. ASSUME NEW i \in k.todo, NEW o \in Inode, Writes(k, l, i, o) PROVE Own(l)'
  BY <1>0, <1>4 DEF Writes, Own, IsHeredoc
<1> QED BY <1>1, <1>2, <1>3, <1>4

LEMMA QuietKept ==
  ASSUME IInv, HeredocAssumption, [Next]_vars
  PROVE  QuietInv'
<1> USE DEF shellVars, fileVars, boundVars, history
<1> SUFFICES ASSUME ~cutShort, ~cutShort'
             PROVE  /\ pc' \notin {"fork", "wait"} => kids' = {}
                    /\ \A k \in kids' : /\ k.job = jobs' /\ k.line = line' /\ (pc' = "fork" => k.cmd < at')
                                        /\ Own(k)'
                    /\ \A k, l \in kids' : k.cmd = l.cmd => k = l
  <2>1. cutShort => cutShort'
    BY DEF Next, StartJob, BodyLine, ShellStep, CreateHdcFile, CreateFails, Delimiter, Interrupted,
           Collected, Fork, ForkFails, WaitDone, KidStep, Sigint, Idle, vars
  <2> QED BY <2>1 DEF QuietInv, Own, IsHeredoc
<1>0. /\ pc \notin {"fork", "wait"} => kids = {}
      /\ \A k \in kids : k.job = jobs /\ k.line = line /\ (pc = "fork" => k.cmd < at) /\ Own(k)
      /\ \A k, l \in kids : k.cmd = l.cmd => k = l
  BY QuietIs DEF IInv
<1>1. CASE Fork
  <2>0. PICK n : n = NewKid(at)
    OBVIOUS
  <2>1. /\ n.job = jobs /\ n.cmd = at /\ n.line = line /\ n.rm = None /\ n.from = 0
    BY <2>0, Forked DEF IInv
  <2>2. kids' = kids \cup {n} /\ at' = at + 1 /\ at \in Nat /\ pc = "fork" /\ pc' \in {"fork", "wait"}
        /\ UNCHANGED <<dir, jobs, line>>
    BY <1>1, <2>0 DEF Fork, IInv, TypeOK
  <2>3. Own(n)'
    BY <2>1 DEF Own
  <2>4. \A k \in kids : Own(k)' /\ k.cmd < at /\ k.cmd \in Nat
    BY <1>0, <2>2 DEF Own, IsHeredoc, IInv, TypeOK, Kid
  <2>5. \A k \in kids' : k.job = jobs' /\ k.line = line' /\ k.cmd < at' /\ Own(k)'
    BY <1>0, <2>1, <2>2, <2>3, <2>4
  <2>6. \A k, l \in kids' : k.cmd = l.cmd => k = l
    BY <1>0, <2>1, <2>2, <2>4
  <2> QED BY <2>2, <2>5, <2>6
<1>2. CASE KidStep
  <2>1. PICK k \in kids : k \in Kid /\ Does(k)
    BY <1>2, KidDoes
  <2>2. UNCHANGED <<pc, at, line, jobs>>
    BY <1>2 DEF KidStep
  <2>3. \A m \in kids : Own(m)'
    BY <1>0, <2>1, OthersOwn
  <2>4. CASE Ends(k)
    BY <1>0, <2>2, <2>3, <2>4 DEF Ends
  <2>5. CASE ~Ends(k)
    <3>1. PICK l \in Kid :
            /\ Turns(k, l)
            /\ \/ Readies(k, l) \/ Removes(k, l)
               \/ \E i \in k.todo : /\ i \in DOMAIN k.line /\ i # 0 /\ k.line[i].cmd = k.cmd
                                    /\ Opens(k, l, i) \/ \E o \in Inode : Writes(k, l, i, o)
      BY <2>1, <2>5 DEF Does
    <3>2. Own(l)'
      BY <1>0, <2>3, <3>1, TurnsOwn
    <3>3. kids' = (kids \ {k}) \cup {l} /\ l.job = k.job /\ l.cmd = k.cmd /\ l.line = k.line
      BY <3>1 DEF Turns
    <3> QED BY <1>0, <2>2, <2>3, <3>2, <3>3
  <2> QED BY <2>4, <2>5
<1>3. CASE Sigint
  <2>1. UNCHANGED <<at, line, jobs, dir>> /\ kids' \subseteq kids
        /\ \/ pc' = pc
           \/ pc = "read" /\ pc' = "eintr"
           \/ pc = "wait" /\ pc' = "prompt" /\ kids' = {}
    BY <1>3 DEF Sigint
  <2>2. \A k \in kids : Own(k)'
    BY <1>0, <2>1 DEF Own, IsHeredoc
  <2> QED BY <1>0, <2>1, <2>2
<1>4. CASE StartJob \/ CreateHdcFile \/ CreateFails \/ BodyLine \/ Delimiter \/ Interrupted
           \/ Collected \/ ForkFails \/ WaitDone
  <2>1. kids = {} /\ kids' = kids
    BY <1>0, <1>4 DEF StartJob, CreateHdcFile, CreateFails, BodyLine, Delimiter, Interrupted,
                      Collected, ForkFails, WaitDone
  <2> QED BY <2>1
<1>5. CASE UNCHANGED vars
  <2>1. UNCHANGED <<pc, at, line, jobs, dir, kids>>
    BY <1>5 DEF vars
  <2>2. \A k \in kids : Own(k)'
    BY <1>0, <2>1 DEF Own, IsHeredoc
  <2> QED BY <1>0, <2>1, <2>2
<1> QED BY <1>1, <1>2, <1>3, <1>4, <1>5 DEF Next, ShellStep, Idle

-----------------------------------------------------------------------------
(* The bodies.                                                             *)

LEMMA BodyEmpty ==
  ASSUME NEW job, NEW l, NEW i, l[i].typed = 0
  PROVE  Body(job, l, i) = <<>>
BY DEF Body

LEMMA BodyGrows ==
  ASSUME NEW job, NEW l, NEW m, NEW i, l[i].typed \in Nat, m[i].typed = l[i].typed + 1
  PROVE  Body(job, m, i) = Append(Body(job, l, i), <<job, i>>)
BY DEF Body

\* What a child does to the directory leaves a heredoc it has still to open,
\* and those of other commands, where they are.
LEMMA HoldsKept ==
  ASSUME IInv, HeredocAssumption, ~cutShort, NEW k \in kids, Does(k),
         NEW job, NEW i \in DOMAIN k.line, Fetched(k.line[i]), Holds(job, k.line, i),
         k.line[i].cmd # k.cmd \/ i \in k.todo
  PROVE  Holds(job, k.line, i)'
<1> DEFINE name == k.line[i].name
<1>0. /\ TypeOK /\ DirInv /\ None \notin Inode /\ Shape(k.line) /\ UserFile \cap Temp = {}
      /\ name \in Temp /\ name \in Name /\ dir[name] \in Inode
      /\ dir \in [Name -> Inode \cup {None}] /\ data \in [Inode -> Seq(Nat \X Nat)]
  BY DEF IInv, KidInv, Shape, HeredocAssumption, Name, TypeOK, Holds
<1>1. CASE UNCHANGED <<dir, data>>
  BY <1>1 DEF Holds, Body
<1>2. CASE k.rm # None /\ dir' = Unlinked({k.rm}) /\ UNCHANGED data
  <2>1. /\ k.from # 0 /\ k.rm = k.line[k.from].name /\ k.from \in DOMAIN k.line
        /\ k.line[k.from].cmd = k.cmd /\ k.line[k.from].type = "in" /\ k.from \notin k.todo
    BY <1>2 DEF IInv, QuietInv, KidInv
  <2>2. k.rm # name
    <3>1. i # k.from
      BY <2>1
    <3> QED BY <1>0, <2>1, <3>1 DEF Shape, Fetched
  <2>3. dir'[name] = dir[name]
    BY <1>0, <1>2, <2>2, Unlinking
  <2> QED BY <1>2, <2>3 DEF Holds, Body
<1>3. ASSUME NEW made \in UserFile, NEW o \in Inode, Opened(made, o) PROVE Holds(job, k.line, i)'
  <2>1. made \in Name /\ made # name
    BY <1>0 DEF Name
  <2>2. /\ dir'[name] = dir[name] /\ dir[name] # o
    BY <1>0, <1>3, <2>1, DirCreates
  <2>3. data' \in {data, [data EXCEPT ![o] = <<>>]}
    BY <1>0, <1>3, <2>1, Made
  <2>4. data'[dir[name]] = data[dir[name]]
    BY <1>0, <2>2, <2>3
  <2> QED BY <2>2, <2>4 DEF Holds, Body
<1> QED BY <1>1, <1>2, <1>3 DEF Does, Readies, Opens, Writes, Removes

\* ... and what a child has open as it is.
LEMMA OpenKept ==
  ASSUME IInv, HeredocAssumption, NEW k \in kids, Does(k), NEW m \in kids, Own(m),
         m.from # 0, IsHeredoc(m.line[m.from])
  PROVE  data'[m.in] = data[m.in]
<1>1. ASSUME NEW made \in UserFile, NEW o \in Inode, Opened(made, o)
      PROVE  data'[m.in] = data[m.in]
  <2>1. /\ m.in \in Inode /\ m.line[m.from].type = "in" /\ m.from \in DOMAIN m.line
        /\ \A n \in Name : dir[n] = m.in => n = m.line[m.from].name
    BY DEF Own, IInv, KidInv
  <2>2. made \in Name /\ made # m.line[m.from].name
    BY <2>1 DEF IInv, KidInv, Shape, Fetched, Name, HeredocAssumption
  <2>3. data' \in {data, [data EXCEPT ![o] = <<>>]} /\ (dir[made] = o \/ o # m.in)
    BY <1>1, <2>2, Made DEF IInv
  <2>4. o # m.in
    BY <2>1, <2>2, <2>3
  <2> QED BY <2>1, <2>3, <2>4 DEF IInv, TypeOK
<1>2. CASE UNCHANGED data
  BY <1>2
<1> QED BY <1>1, <1>2 DEF Does, Readies, Opens, Writes, Removes

\* OwnBody, for one child.
Finds(m) ==
  /\ \A i \in m.todo : IsHeredoc(m.line[i]) => Holds(m.job, m.line, i)
  /\ m.from # 0 /\ IsHeredoc(m.line[m.from]) =>
       data[m.in] = Body(m.job, m.line, m.from)

LEMMA OthersFind ==
  ASSUME IInv, HeredocAssumption, ~cutShort, NEW k \in kids, Does(k), NEW m \in kids
  PROVE  Finds(m)'
<1>0. /\ Finds(m) /\ Own(m) /\ m.line = k.line /\ (m.cmd = k.cmd => m = k)
      /\ Shape(m.line) /\ \A i \in DOMAIN m.line : m.line[i].type # "hdc"
      /\ m.todo \subseteq {i \in DOMAIN m.line : m.line[i].cmd = m.cmd}
  BY DEF IInv, QuietInv, OwnBody, KidInv, Own, Finds
<1>1. ASSUME NEW i \in m.todo, IsHeredoc(m.line[i]) PROVE Holds(m.job, m.line, i)'
  <2>1. i \in DOMAIN k.line /\ k.line[i].cmd = m.cmd /\ Holds(m.job, k.line, i)
    BY <1>0, <1>1 DEF Finds
  <2>2. Fetched(k.line[i])
    BY <1>0, <1>1, <2>1 DEF Fetched, Holds
  <2>3. k.line[i].cmd # k.cmd \/ i \in k.todo
    BY <1>0, <2>1
  <2>4. Holds(m.job, k.line, i)'
    BY <2>1, <2>2, <2>3, HoldsKept
  <2> QED BY <1>0, <2>4
<1>2. ASSUME m.from # 0, IsHeredoc(m.line[m.from])
      PROVE  data'[m.in] = Body(m.job, m.line, m.from)
  BY <1>0, <1>2, OpenKept DEF Finds
<1> QED BY <1>1, <1>2 DEF Finds, IsHeredoc, Body

LEMMA TurnsFinds ==
  ASSUME IInv, HeredocAssumption, NEW k \in kids, NEW l \in Kid, Turns(k, l), Finds(k), Finds(k)',
         \/ Readies(k, l) \/ Removes(k, l)
         \/ \E i \in k.todo : /\ i \in DOMAIN k.line /\ i # 0 /\ k.line[i].cmd = k.cmd
                              /\ Opens(k, l, i) \/ \E o \in Inode : Writes(k, l, i, o)
  PROVE  Finds(l)'
<1>0. l.line = k.line /\ l.job = k.job
  BY DEF Turns
<1>1. CASE l.todo \subseteq k.todo /\ l.in = k.in /\ l.from = k.from
  BY <1>0, <1>1 DEF Finds
<1>2. ASSUME NEW i \in k.todo, Opens(k, l, i) PROVE Finds(l)'
  <2>1. /\ l.todo \subseteq k.todo /\ l.from = i /\ l.in = dir[k.line[i].name]
        /\ UNCHANGED <<dir, data>>
    BY <1>2 DEF Opens
  <2>2. IsHeredoc(k.line[i]) => data[l.in] = Body(k.job, k.line, i)
    BY <2>1 DEF Finds, Holds
  <2>3. IsHeredoc(l.line[l.from])' => (data[l.in])' = Body(l.job, l.line, l.from)'
    BY <1>0, <2>1, <2>2 DEF IsHeredoc, Body
  <2> QED BY <1>0, <2>1, <2>3 DEF Finds
<1> QED BY <1>1, <1>2 DEF Readies, Removes, Writes

LEMMA OwnBodyKept ==
  ASSUME IInv, HeredocAssumption, [Next]_vars
  PROVE  OwnBody'
<1> USE DEF shellVars, fileVars, boundVars, history
<1> SUFFICES ASSUME ~cutShort, ~cutShort', NEW m \in kids' PROVE Finds(m)'
  <2>1. cutShort => cutShort'
    BY DEF Next, StartJob, BodyLine, ShellStep, CreateHdcFile, CreateFails, Delimiter, Interrupted,
           Collected, Fork, ForkFails, WaitDone, KidStep, Sigint, Idle, vars
  <2> QED BY <2>1 DEF OwnBody, Finds, Holds, Body, IsHeredoc
<1>0. \A k \in kids : Finds(k)
  BY DEF IInv, OwnBody, Finds
<1>1. CASE UNCHANGED <<dir, data>> /\ m \in kids
  BY <1>0, <1>1 DEF Finds, Holds, Body
<1>2. CASE Fork
  <2>1. kids' = kids \cup {NewKid(at)} /\ UNCHANGED <<dir, data, line, jobs>> /\ pc = "fork"
    BY <1>2 DEF Fork
  <2>2. ASSUME m = NewKid(at) PROVE Finds(m)'
    <3>1. /\ m.job = jobs /\ m.line = line /\ m.from = 0
          /\ m.todo = {i \in DOMAIN line : line[i].cmd = at}
      BY <2>2, Forked DEF IInv
    <3>2. ASSUME NEW i \in m.todo, IsHeredoc(line[i]) PROVE Holds(jobs, line, i)
      <4>1. i \in DOMAIN line /\ line[i].cmd >= at
        BY <3>1 DEF IInv, TypeOK
      <4>2. line[i] \in Redir /\ line[i].type # "hdc" /\ ~Output(line[i])
        BY <2>1, <3>2, <4>1, Entries DEF IInv, WalkInv, Shape
      <4>3. Fetched(line[i])
        BY <3>2, <4>2 DEF Fetched, Output, Redir
      <4> QED BY <2>1, <4>1, <4>3 DEF IInv, BodyInv
    <3>3. \A i \in m.todo : IsHeredoc(m.line[i]) => Holds(m.job, m.line, i)
      BY <3>1, <3>2
    <3> QED BY <2>1, <3>1, <3>3 DEF Finds, Holds, Body, IsHeredoc
  <2> QED BY <1>1, <2>1, <2>2
<1>3. CASE KidStep
  <2>1. PICK k \in kids : k \in Kid /\ Does(k)
    BY <1>3, KidDoes
  <2>2. \A n \in kids : Finds(n)'
    BY <2>1, OthersFind
  <2>3. CASE Ends(k)
    BY <2>2, <2>3 DEF Ends
  <2>4. CASE ~Ends(k)
    <3>1. PICK l \in Kid :
            /\ Turns(k, l)
            /\ \/ Readies(k, l) \/ Removes(k, l)
               \/ \E i \in k.todo : /\ i \in DOMAIN k.line /\ i # 0 /\ k.line[i].cmd = k.cmd
                                    /\ Opens(k, l, i) \/ \E o \in Inode : Writes(k, l, i, o)
      BY <2>1, <2>4 DEF Does
    <3>2. Finds(l)'
      BY <1>0, <2>2, <3>1, TurnsFinds
    <3> QED BY <2>2, <3>1, <3>2 DEF Turns
  <2> QED BY <2>3, <2>4
<1>4. CASE StartJob \/ CreateHdcFile \/ CreateFails \/ BodyLine \/ Delimiter \/ Interrupted
           \/ Collected \/ ForkFails \/ WaitDone
  <2>1. kids = {} /\ kids' = kids
    BY <1>4 DEF IInv, QuietInv, StartJob, CreateHdcFile, CreateFails, BodyLine, Delimiter,
                Interrupted, Collected, ForkFails, WaitDone
  <2> QED BY <2>1
<1>5. CASE Sigint \/ UNCHANGED vars
  BY <1>1, <1>5 DEF Sigint, vars
<1> QED BY <1>2, <1>3, <1>4, <1>5 DEF Next, ShellStep, Idle

LEMMA BodyKept ==
  ASSUME IInv, HeredocAssumption, [Next]_vars
  PROVE  BodyInv'
<1> USE DEF shellVars, fileVars, boundVars, history
<1> SUFFICES ASSUME ~cutShort, ~cutShort' PROVE BodyInv'
  <2>1. cutShort => cutShort'
    BY DEF Next, StartJob, BodyLine, ShellStep, CreateHdcFile, CreateFails, Delimiter, Interrupted,
           Collected, Fork, ForkFails, WaitDone, KidStep, Sigint, Idle, vars
  <2> QED BY <2>1 DEF BodyInv
<1>0. TypeOK /\ WalkInv /\ DirInv /\ BodyInv /\ None \notin Inode
  BY DEF IInv, HeredocAssumption
<1>1. CASE StartJob
  <2>1. PICK l \in Line : line' = l.redirs
    BY <1>1 DEF StartJob
  <2>2. line' \in Seq(Redir) /\ at' = 1 /\ pc' = "collect"
    BY <1>1, <2>1, HeredocAssumption DEF StartJob
  <2>3. \A i \in DOMAIN line' : ~(i < at')
    BY <2>2
  <2> QED BY <2>2, <2>3 DEF BodyInv, Reading
<1>2. CASE CreateHdcFile
  <2>1. PICK r \in Redir : /\ r = [line[at'] EXCEPT !.typed = 0]
                           /\ line' = [line EXCEPT ![at'] = r]
    BY <1>2, NextHeredoc
  <2>2. /\ at' \in DOMAIN line /\ at <= at' /\ tmp' = counter /\ counter \in Temp
        /\ counter \in Name /\ counter \in Nat
        /\ pc' = "read" /\ pc = "collect" /\ jobs' = jobs
    BY <1>2, NextHeredoc DEF CreateHdcFile, Temp, Name
  <2>3. /\ DOMAIN line' = DOMAIN line /\ line'[at'] = r
        /\ \A j \in DOMAIN line : j # at' => line'[j] = line[j]
    BY <1>0, <2>1, <2>2, Updated DEF TypeOK
  <2>4. r.typed = 0
    BY <1>0, <2>1, <2>2, Entries DEF Redir
  <2>5. PICK o \in Inode : Creates(counter, o) /\ out' = o
    BY <1>2 DEF CreateHdcFile
  <2>6. /\ \A n \in Name : dir'[n] = IF n = counter THEN o ELSE dir[n]
        /\ \A n \in Name : n # counter => dir[n] # o
        /\ data' = [data EXCEPT ![o] = <<>>]
    <3>1. Opened(counter, o) /\ data' = [data EXCEPT ![o] = <<>>]
      BY <2>5 DEF Opened, Creates
    <3> QED BY <1>0, <2>2, <3>1, DirCreates
  <2>7. dir'[tmp'] = out' /\ data'[out'] = <<>> /\ Body(jobs', line', at') = <<>>
    BY <1>0, <2>2, <2>3, <2>4, <2>5, <2>6, BodyEmpty DEF TypeOK
  <2>8. ASSUME NEW i \in DOMAIN line', i < at', Fetched(line'[i]) PROVE Holds(jobs, line, i)'
    <3>1. i \in DOMAIN line /\ line'[i] = line[i] /\ Fetched(line[i]) /\ IsHeredoc(line[i])
      BY <2>2, <2>3, <2>8, <1>0, Entries DEF Fetched
    <3>2. i < at
      BY <1>0, <2>2, <3>1, Entries DEF WalkInv, Collecting, TypeOK
    <3>3. Holds(jobs, line, i) /\ line[i].name \in Temp /\ line[i].name < counter
      BY <1>0, <2>2, <3>1, <3>2 DEF BodyInv, WalkInv, Shape, Collecting, Reading
    <3>4. line[i].name # counter /\ line[i].name \in Name
      BY <2>2, <3>3 DEF Name, Temp
    <3>5. dir'[line[i].name] = dir[line[i].name] /\ dir[line[i].name] # o
          /\ dir[line[i].name] \in Inode
      BY <1>0, <2>6, <3>3, <3>4 DEF Holds, TypeOK
    <3>6. data'[dir[line[i].name]] = data[dir[line[i].name]]
      BY <1>0, <2>6, <3>5 DEF TypeOK
    <3> QED BY <2>2, <3>1, <3>3, <3>5, <3>6 DEF Holds, Body
  <2> QED BY <2>2, <2>7, <2>8 DEF BodyInv, Reading, Fetched, IsHeredoc, Holds, Body
<1>3. CASE BodyLine
  <2>1. /\ at \in DOMAIN line /\ IsHeredoc(line[at]) /\ line[at] \in Redir /\ out \in Inode
        /\ tmp \in Temp /\ pc = "read" /\ UNCHANGED <<pc, at, tmp, out, dir, jobs>>
        /\ dir[tmp] = out /\ data[out] = Body(jobs, line, at) /\ tmp \in Nat /\ tmp \in Name
    BY <1>0, <1>3, Entries DEF WalkInv, Reading, BodyLine, BodyInv, Temp, Name
  <2> DEFINE r == [line[at] EXCEPT !.typed = @ + 1]
  <2>2. r \in Redir /\ r.typed = line[at].typed + 1 /\ line[at].typed \in Nat
    BY <2>1, OneLineMore
  <2>3. line' = [line EXCEPT ![at] = r] /\ data' = [data EXCEPT ![out] = Append(data[out], <<jobs, at>>)]
    BY <1>3 DEF BodyLine
  <2> HIDE DEF r
  <2>4. /\ DOMAIN line' = DOMAIN line /\ line'[at] = r
        /\ \A j \in DOMAIN line : j # at => line'[j] = line[j]
    BY <1>0, <2>1, <2>2, <2>3, Updated DEF TypeOK
  <2>5. data'[out] = Append(Body(jobs, line, at), <<jobs, at>>)
    BY <1>0, <2>1, <2>3 DEF TypeOK
  <2>6. Body(jobs, line', at) = Append(Body(jobs, line, at), <<jobs, at>>)
    BY <2>2, <2>4, BodyGrows
  <2>7. ASSUME NEW i \in DOMAIN line', i < at, Fetched(line'[i]) PROVE Holds(jobs, line, i)'
    <3>1. i \in DOMAIN line /\ line'[i] = line[i] /\ Fetched(line[i])
      BY <1>0, <2>1, <2>4, <2>7, Entries
    <3>2. Holds(jobs, line, i) /\ line[i].name \in Temp /\ line[i].name < tmp
      BY <1>0, <2>1, <2>7, <3>1 DEF BodyInv, WalkInv, Shape, Collecting, Reading
    <3>3. line[i].name # tmp /\ line[i].name \in Name
      BY <2>1, <3>2 DEF Name, Temp
    <3>4. dir[line[i].name] # out /\ dir[line[i].name] \in Inode
      BY <1>0, <2>1, <3>2, <3>3 DEF DirInv, Holds, TypeOK
    <3>5. data'[dir[line[i].name]] = data[dir[line[i].name]]
      BY <1>0, <2>3, <3>4 DEF TypeOK
    <3> QED BY <2>1, <3>1, <3>2, <3>5 DEF Holds, Body
  <2> QED BY <2>1, <2>5, <2>6, <2>7 DEF BodyInv, Reading, Fetched, IsHeredoc, Holds, Body
<1>4. CASE Delimiter
  <2>1. PICK r \in Redir : /\ r = [line[at] EXCEPT !.type = "in", !.name = tmp]
                           /\ line' = [line EXCEPT ![at] = r]
    BY <1>4, ConvertedIs
  <2>2. /\ at \in DOMAIN line /\ line[at] \in Redir /\ out \in Inode /\ at' = at + 1
        /\ pc' = "collect" /\ UNCHANGED <<dir, data, jobs>>
        /\ dir[tmp] = out /\ data[out] = Body(jobs, line, at)
    BY <1>0, <1>4, Entries DEF WalkInv, Reading, Delimiter, BodyInv
  <2>3. /\ DOMAIN line' = DOMAIN line /\ line'[at] = r
        /\ \A j \in DOMAIN line : j # at => line'[j] = line[j]
    BY <1>0, <2>1, <2>2, Updated DEF TypeOK
  <2>4. r.type = "in" /\ r.name = tmp /\ r.typed = line[at].typed
    BY <2>1, <2>2 DEF Redir
  <2>5. ASSUME NEW i \in DOMAIN line', i < at', Fetched(line'[i]) PROVE Holds(jobs, line, i)'
    <3>1. CASE i = at
      BY <1>0, <2>2, <2>3, <2>4, <3>1 DEF Holds, Body
    <3>2. CASE i # at
      <4>1. i \in DOMAIN line /\ line'[i] = line[i] /\ Fetched(line[i]) /\ i < at
        BY <1>0, <2>2, <2>3, <2>5, <3>2, Entries
      <4>2. Holds(jobs, line, i)
        BY <1>0, <1>4, <4>1 DEF BodyInv, Collecting, Reading, Delimiter
      <4> QED BY <2>2, <4>1, <4>2 DEF Holds, Body
    <3> QED BY <3>1, <3>2
  <2> QED BY <2>2, <2>5 DEF BodyInv, Reading, Fetched, IsHeredoc, Holds, Body
<1>5. CASE Collected
  <2>1. ASSUME NEW i \in DOMAIN line, Fetched(line[i]) PROVE Holds(jobs, line, i)
    <3>1. i < at
      BY <1>0, <1>5, <2>1, Entries DEF Collected, WalkInv, Collecting, Fetched, TypeOK
    <3> QED BY <1>0, <1>5, <2>1, <3>1 DEF Collected, BodyInv, Collecting
  <2>2. pc' = "fork" /\ UNCHANGED <<line, jobs, dir, data>>
    BY <1>5 DEF Collected
  <2> QED BY <2>1, <2>2 DEF BodyInv, Collecting, Reading, Fetched, IsHeredoc, Holds, Body
<1>6. CASE Fork
  <2>1. /\ pc = "fork" /\ pc' \in {"fork", "wait"} /\ at' = at + 1
        /\ UNCHANGED <<line, jobs, dir, data>>
    BY <1>6 DEF Fork
  <2>2. \A i \in DOMAIN line : line[i].cmd >= at' => line[i].cmd >= at
    <3>1. at \in Nat /\ \A i \in DOMAIN line : line[i].cmd \in Nat
      BY <1>0, LineTyped
    <3> QED BY <2>1, <3>1
  <2> QED BY <1>0, <2>1, <2>2 DEF BodyInv, Collecting, Reading, Fetched, IsHeredoc, Holds, Body
<1>7. CASE KidStep
  <2>1. PICK k \in kids : k \in Kid /\ Does(k)
    BY <1>7, KidDoes
  <2>2. pc \in {"fork", "wait"} /\ k.line = line /\ (pc = "fork" => k.cmd < at)
    BY DEF IInv, QuietInv
  <2>3. UNCHANGED <<pc, line, jobs, at>>
    BY <1>7 DEF KidStep
  <2>4. ASSUME pc = "fork", NEW i \in DOMAIN line, line[i].cmd >= at, Fetched(line[i])
        PROVE  Holds(jobs, line, i)'
    <3>1. Holds(jobs, k.line, i)
      BY <1>0, <2>2, <2>4 DEF BodyInv
    <3>2. k.line[i].cmd # k.cmd
      <4>1. k.line[i] \in Redir /\ at \in Nat
        BY <1>0, <2>2, <2>4, Entries DEF TypeOK
      <4>2. k.line[i].cmd \in Nat /\ k.cmd \in Nat
        BY <2>1, <4>1 DEF Redir, Kid
      <4> QED BY <2>2, <2>4, <4>1, <4>2
    <3>3. Holds(jobs, k.line, i)'
      <4>1. PICK j : j = jobs
        OBVIOUS
      <4>2. Holds(j, k.line, i)'
        BY <2>1, <2>2, <2>4, <3>1, <3>2, <4>1, HoldsKept
      <4> QED BY <2>3, <4>1, <4>2 DEF Holds, Body
    <3> QED BY <2>2, <2>3, <3>3 DEF Holds, Body
  <2> QED BY <2>2, <2>3, <2>4 DEF BodyInv, Collecting, Reading, Fetched, IsHeredoc, Holds, Body
<1>8. CASE CreateFails \/ Interrupted \/ ForkFails \/ WaitDone
  <2>1. pc' \in {"prompt", "crashed"}
    BY <1>8 DEF CreateFails, Interrupted, ForkFails, WaitDone
  <2> QED BY <2>1 DEF BodyInv, Collecting, Reading
<1>9. CASE Sigint \/ UNCHANGED vars
  <2>1. /\ UNCHANGED <<line, at, tmp, out, jobs, dir, data>>
        /\ \/ pc' = pc
           \/ pc = "read" /\ pc' = "eintr"
           \/ pc = "wait" /\ pc' = "prompt"
    BY <1>9 DEF Sigint, vars
  <2> QED BY <1>0, <2>1 DEF BodyInv, Collecting, Reading, Fetched, IsHeredoc, Holds, Body
<1> QED BY <1>1, <1>2, <1>3, <1>4, <1>5, <1>6, <1>7, <1>8, <1>9 DEF Next, ShellStep, Idle

-----------------------------------------------------------------------------
(* The files that are left.                                                *)

\* Awaited, by something a step of the shell may change.
ByLine(n) ==
  \/ Reading /\ n = tmp
  \/ (Collecting \/ pc = "fork") /\ \E i \in DOMAIN line :
        line[i].name = n /\ (pc = "fork" => line[i].cmd >= at)

LEMMA AwaitedIs ==
  ASSUME NEW n
  PROVE  Awaited(n) <=> n \in lost \/ ByLine(n) \/ \E k \in kids : n \in Left(k)
BY DEF Awaited, ByLine

LEMMA LeftKept ==
  ASSUME IInv, HeredocAssumption, NEW k \in kids, NEW l \in Kid, Turns(k, l),
         \/ Readies(k, l) \/ Removes(k, l)
         \/ \E i \in k.todo : /\ i \in DOMAIN k.line /\ i # 0 /\ k.line[i].cmd = k.cmd
                              /\ Opens(k, l, i) \/ \E o \in Inode : Writes(k, l, i, o),
         NEW n \in Temp, n \in Left(k), dir'[n] # None
  PROVE  n \in Left(l)
<1>0. l.line = k.line /\ TypeOK /\ n \in Name
  BY DEF Turns, IInv, Name
<1>1. CASE l.todo = k.todo /\ l.rm = k.rm
  BY <1>0, <1>1 DEF Left
<1>2. CASE Removes(k, l)
  <2>1. n # k.rm
    BY <1>0, <1>2, Unlinking DEF Removes
  <2> QED BY <1>0, <1>2, <2>1 DEF Removes, Left
<1>3. ASSUME NEW i \in k.todo, Opens(k, l, i) PROVE n \in Left(l)
  <2>1. k.rm = None /\ l.todo = k.todo \ {i} /\ None \notin Temp
        /\ l.rm = IF LooksTemp(k.line[i].name) THEN k.line[i].name ELSE None
    BY <1>3 DEF Opens, HeredocAssumption, Name
  <2> QED BY <1>0, <2>1 DEF Left, LooksTemp
<1>4. ASSUME NEW i \in k.todo, NEW o \in Inode, Writes(k, l, i, o) PROVE n \in Left(l)
  <2>1. /\ k.rm = None /\ l.todo = k.todo \ {i} /\ None \notin Temp
        /\ k.line[i].name \notin Temp
    BY <1>4 DEF Writes, HeredocAssumption, Name
  <2> QED BY <1>0, <2>1 DEF Left
<1> QED BY <1>1, <1>2, <1>3, <1>4 DEF Readies

LEMMA FileKept ==
  ASSUME IInv, HeredocAssumption, [Next]_vars
  PROVE  FileInv'
<1> USE DEF shellVars, fileVars, boundVars, history
<1> SUFFICES ASSUME NEW n \in Temp, dir'[n] # None
             PROVE  n \in lost' \/ ByLine(n)' \/ \E k \in kids' : n \in Left(k)
  BY DEF FileInv, Awaited, ByLine, Left
<1>0. /\ TypeOK /\ WalkInv /\ DirInv /\ n \in Name /\ n # None /\ LooksTemp(n)
      /\ dir[n] # None => n \in lost \/ ByLine(n) \/ \E k \in kids : n \in Left(k)
  BY AwaitedIs DEF IInv, FileInv, Name, HeredocAssumption, LooksTemp
<1>1. CASE StartJob
  BY <1>0, <1>1 DEF StartJob, ByLine, Collecting, Reading
<1>2. CASE CreateHdcFile
  <2>1. PICK r \in Redir : /\ r = [line[at'] EXCEPT !.typed = 0]
                           /\ line' = [line EXCEPT ![at'] = r]
    BY <1>2, NextHeredoc
  <2>2. /\ at' \in DOMAIN line /\ tmp' = counter /\ counter \in Name
        /\ pc' = "read" /\ pc = "collect" /\ kids' = kids /\ lost' = lost \ {counter}
    BY <1>2, NextHeredoc DEF CreateHdcFile, Name
  <2>3. DOMAIN line' = DOMAIN line /\ \A j \in DOMAIN line : line'[j].name = line[j].name
    BY <1>0, <2>1, <2>2, Updated, Entries DEF TypeOK, Redir
  <2>4. CASE n = counter
    BY <2>2, <2>4 DEF ByLine, Reading
  <2>5. CASE n # counter
    <3>1. dir'[n] = dir[n]
      BY <1>0, <1>2, <2>2, <2>5, DirCreates DEF CreateHdcFile, Opened
    <3>2. ByLine(n) => ByLine(n)'
      BY <2>2, <2>3 DEF ByLine, Collecting, Reading
    <3> QED BY <1>0, <2>2, <2>5, <3>1, <3>2
  <2> QED BY <2>4, <2>5
<1>3. ASSUME NEW names, dir' = Unlinked(Swept \cup names), UNCHANGED <<kids, lost>>,
             Reading => tmp \in names
      PROVE  n \in lost' \/ \E k \in kids' : n \in Left(k)
  <2>1. n \notin Swept \cup names /\ dir[n] # None
    BY <1>0, <1>3, Unlinking
  <2>2. ~ByLine(n)
    BY <1>0, <1>3, <2>1 DEF ByLine, Swept
  <2> QED BY <1>0, <1>3, <2>1, <2>2
<1>4. CASE CreateFails
  <2>1. Swept = Swept \cup {} /\ ~Reading
    BY <1>4 DEF CreateFails, Reading
  <2> QED BY <1>3, <1>4, <2>1 DEF CreateFails
<1>5. CASE Interrupted
  BY <1>3, <1>5 DEF Interrupted
<1>6. CASE BodyLine
  <2>1. DOMAIN line' = DOMAIN line /\ \A j \in DOMAIN line : line'[j].name = line[j].name
    <3>1. at \in DOMAIN line /\ line[at] \in Redir /\ IsHeredoc(line[at])
      BY <1>0, <1>6, Entries DEF WalkInv, Reading, BodyLine
    <3> DEFINE r == [line[at] EXCEPT !.typed = @ + 1]
    <3>2. r \in Redir /\ r.name = line[at].name
      BY <3>1, OneLineMore
    <3>3. line' = [line EXCEPT ![at] = r]
      BY <1>6 DEF BodyLine
    <3> HIDE DEF r
    <3> QED BY <1>0, <3>1, <3>2, <3>3, Updated DEF TypeOK
  <2>2. UNCHANGED <<pc, at, tmp, dir, kids, lost>> /\ pc = "read"
    BY <1>6 DEF BodyLine
  <2> QED BY <1>0, <2>1, <2>2 DEF ByLine, Collecting, Reading
<1>7. CASE Delimiter
  <2>1. PICK r \in Redir : /\ r = [line[at] EXCEPT !.type = "in", !.name = tmp]
                           /\ line' = [line EXCEPT ![at] = r]
    BY <1>7, ConvertedIs
  <2>2. /\ at \in DOMAIN line /\ line[at] \in Redir /\ pc = "read" /\ pc' = "collect"
        /\ UNCHANGED <<dir, kids, lost>> /\ line[at].name \notin Temp
    BY <1>0, <1>7, Entries DEF WalkInv, Reading, Delimiter, Shape, HeredocAssumption, Name
  <2>3. /\ DOMAIN line' = DOMAIN line /\ line'[at].name = tmp
        /\ \A j \in DOMAIN line : j # at => line'[j] = line[j]
    BY <1>0, <2>1, <2>2, Updated DEF TypeOK, Redir
  <2>4. ByLine(n) => ByLine(n)'
    BY <2>2, <2>3 DEF ByLine, Collecting, Reading
  <2> QED BY <1>0, <2>2, <2>4
<1>8. CASE Collected
  <2>1. \A i \in DOMAIN line : line[i].cmd >= 1
    BY <1>0, <1>8, Entries DEF WalkInv, Collected
  <2>2. /\ pc = "collect" /\ pc' = "fork" /\ at' = 1
        /\ UNCHANGED <<line, tmp, dir, kids, lost>>
    BY <1>8 DEF Collected
  <2> QED BY <1>0, <2>1, <2>2 DEF ByLine, Collecting, Reading
<1>9. CASE Fork
  <2>1. /\ pc = "fork" /\ pc' = (IF at < size THEN "fork" ELSE "wait") /\ at' = at + 1
        /\ kids' = kids \cup {NewKid(at)} /\ UNCHANGED <<line, size, dir, lost>>
    BY <1>9 DEF Fork
  <2>2. ASSUME NEW i \in DOMAIN line, line[i].name = n, line[i].cmd = at
        PROVE  n \in Left(NewKid(at))
    BY <2>2, Forked, <1>0 DEF Left
  <2>3. ASSUME NEW i \in DOMAIN line, line[i].name = n, line[i].cmd > at
        PROVE  ByLine(n)'
    <3>1. line[i].cmd \in 1..size /\ at \in Nat /\ size \in Nat
      BY <1>0, <2>1 DEF WalkInv, TypeOK
    <3>2. pc' = "fork" /\ line[i].cmd >= at'
      BY <2>1, <2>3, <3>1
    <3> QED BY <2>1, <2>3, <3>2 DEF ByLine
  <2>4. \A i \in DOMAIN line : line[i].cmd >= at => line[i].cmd = at \/ line[i].cmd > at
    <3>1. at \in Nat /\ \A i \in DOMAIN line : line[i].cmd \in Nat
      BY <1>0, LineTyped
    <3> QED BY <3>1
  <2> QED BY <1>0, <2>1, <2>2, <2>3, <2>4 DEF ByLine, Collecting, Reading
<1>10. CASE ForkFails
  <2>1. kids' = kids /\ pc = "fork" /\ lost \subseteq lost'
    BY <1>10 DEF ForkFails
  <2>2. dir[n] # None
    BY <1>0, <1>10, Unlinking DEF ForkFails
  <2>3. ASSUME NEW i \in DOMAIN line, line[i].name = n, line[i].cmd >= at PROVE n \in lost'
    <3>1. n \in NoChild
      BY <2>3 DEF NoChild
    <3>2. CASE at = 1 /\ dir' = Unlinked(Swept)
      <4>1. n \in Swept
        BY <1>0, <2>3 DEF Swept, LooksTemp
      <4> QED BY <1>0, <3>2, <4>1, Unlinking
    <3>3. CASE lost' = lost \cup NoChild
      BY <3>1, <3>3
    <3>4. ASSUME NEW some, dir' = Unlinked(some), lost' = lost \cup (NoChild \ some)
          PROVE  n \in lost'
      <4>1. n \notin some
        BY <1>0, <3>4, Unlinking
      <4> QED BY <3>1, <3>4, <4>1
    <3> QED BY <1>10, <3>2, <3>3, <3>4 DEF ForkFails
  <2> QED BY <1>0, <2>1, <2>2, <2>3 DEF ByLine, Collecting, Reading
<1>11. CASE WaitDone
  BY <1>0, <1>11 DEF WaitDone, ByLine, Collecting, Reading
<1>12. CASE KidStep
  <2>1. PICK k \in kids : k \in Kid /\ Does(k)
    BY <1>12, KidDoes
  <2>2. ByLine(n) => ByLine(n)'
    BY <1>12 DEF KidStep, ByLine, Collecting, Reading
  <2>3. CASE Ends(k) /\ UNCHANGED <<dir, data>>
    BY <1>0, <2>2, <2>3 DEF Ends
  <2>4. CASE ~(Ends(k) /\ UNCHANGED <<dir, data>>)
    <3>1. PICK l \in Kid :
            /\ Turns(k, l)
            /\ \/ Readies(k, l) \/ Removes(k, l)
               \/ \E i \in k.todo : /\ i \in DOMAIN k.line /\ i # 0 /\ k.line[i].cmd = k.cmd
                                    /\ Opens(k, l, i) \/ \E o \in Inode : Writes(k, l, i, o)
      BY <2>1, <2>4 DEF Does
    <3>2. dir[n] # None /\ lost' = lost
      <4>1. CASE dir' = dir /\ lost' = lost
        BY <4>1
      <4>2. CASE Removes(k, l)
        BY <1>0, <4>2, Unlinking DEF Removes
      <4>3. ASSUME NEW i, NEW o \in Inode, Writes(k, l, i, o) PROVE dir[n] # None /\ lost' = lost
        <5>1. /\ k.line[i].name \in Name /\ k.line[i].name # n /\ Opened(k.line[i].name, o)
              /\ lost' = lost
          BY <4>3 DEF Writes, Name, HeredocAssumption
        <5> QED BY <1>0, <5>1, DirCreates
      <4> QED BY <3>1, <4>1, <4>2, <4>3 DEF Readies, Opens
    <3>3. n \in Left(k) => n \in Left(l)
      BY <3>1, LeftKept
    <3>4. kids' = (kids \ {k}) \cup {l}
      BY <3>1 DEF Turns
    <3> QED BY <1>0, <2>2, <3>2, <3>3, <3>4
  <2> QED BY <2>3, <2>4
<1>13. CASE Sigint
  <2>1. PICK killed \in SUBSET kids :
          kids' = kids \ killed /\ lost' = lost \cup UNION {Left(k) : k \in killed}
    BY <1>13 DEF Sigint
  <2>2. /\ UNCHANGED <<line, at, tmp, dir>>
        /\ \/ pc' = pc
           \/ pc = "read" /\ pc' = "eintr"
           \/ pc = "wait" /\ pc' = "prompt"
    BY <1>13 DEF Sigint
  <2>3. ByLine(n) => ByLine(n)'
    BY <2>2 DEF ByLine, Collecting, Reading
  <2> QED BY <1>0, <2>1, <2>2, <2>3
<1>14. CASE UNCHANGED vars
  BY <1>0, <1>14 DEF vars, ByLine, Collecting, Reading
<1> QED BY <1>1, <1>2, <1>4, <1>5, <1>6, <1>7, <1>8, <1>9, <1>10, <1>11, <1>12, <1>13, <1>14
        DEF Next, ShellStep, Idle

-----------------------------------------------------------------------------
(* The theorems.                                                           *)

LEMMA Starts ==
  ASSUME HeredocAssumption, Init
  PROVE  IInv
<1>1. PICK there \in SUBSET UserFile :
        LET place == CHOOSE f \in [there -> Inode] : IsInjective(f)
        IN  dir = [n \in Name |-> IF n \in there THEN place[n] ELSE None]
  BY DEF Init
<1> DEFINE place == CHOOSE f \in [there -> Inode] : IsInjective(f)
<1>2. place \in [there -> Inode] /\ IsInjective(place)
  <2>1. PICK f \in [UserFile -> Inode] : IsInjective(f)
    BY DEF HeredocAssumption
  <2> DEFINE g == [x \in there |-> f[x]]
  <2>2. g \in [there -> Inode] /\ IsInjective(g)
    BY <2>1 DEF IsInjective
  <2> HIDE DEF g
  <2> QED BY <2>2
<1> HIDE DEF place
<1>3. dir = [n \in Name |-> IF n \in there THEN place[n] ELSE None]
  BY <1>1 DEF place
<1>4. /\ \A m, n \in Name : dir[m] = dir[n] /\ dir[m] # None => m = n
      /\ \A n \in Temp : dir[n] = None
      /\ dir \in [Name -> Inode \cup {None}]
  BY <1>2, <1>3 DEF IsInjective, HeredocAssumption, Name
<1>5. TypeOK
  <2>1. data \in [Inode -> Seq(Nat \X Nat)]
    BY DEF Init
  <2>2. /\ line \in Seq(Redir) /\ size \in Nat /\ at \in Nat /\ counter \in Temp
        /\ jobs \in 0..MaxJobs /\ faults \in 0..MaxTroubles /\ sigs \in 0..MaxTroubles
    BY DEF Init, HeredocAssumption, Temp
  <2>3. kids \subseteq Kid /\ leaked \subseteq Inode /\ lost \subseteq Name \cup {None} /\ noticed \in Nat
    BY DEF Init
  <2> QED BY <1>4, <2>1, <2>2, <2>3 DEF Init, TypeOK
<1>6. WalkInv
  BY DEF Init, WalkInv, Shape, Collecting, Reading, HeredocAssumption
<1>7. IsFiniteSet({}) /\ Cardinality({}) = 0
  BY FS_EmptySet
<1>8. DirInv
  BY <1>4, <1>7 DEF Init, DirInv
<1>9. KidInv /\ QuietInv /\ OwnBody
  BY DEF Init, KidInv, QuietInv, OwnBody
<1>10. BodyInv
  BY DEF Init, BodyInv, Collecting, Reading
<1>11. FileInv
  BY <1>4 DEF FileInv
<1> QED BY <1>5, <1>6, <1>8, <1>9, <1>10, <1>11 DEF IInv

\* The inductive invariant holds: collecting, forking, opening and removing
\* keep every part of it, for any lines, files and troubles.
THEOREM HeredocInvariant ==
  Spec => []IInv
<1>1. Init => IInv
  BY HeredocAssumption, Starts
<1>2. IInv /\ [Next]_vars => IInv'
  BY HeredocAssumption, TypesKept, WalkKept, DirKept, KidKept, QuietKept, BodyKept, FileKept, OwnBodyKept
  DEF IInv
<1> QED BY <1>1, <1>2, PTL DEF Spec

\* Every variable has its type.
THEOREM HeredocTypes ==
  Spec => []TypeOK
<1>1. IInv => TypeOK
  BY DEF IInv
<1> QED BY <1>1, HeredocInvariant, PTL

\* When the forking begins every heredoc of the line has become an input
\* redirection of a file of its own that holds its body.
THEOREM AllCollectedCorrect ==
  Spec => []AllCollected
<1>1. IInv => AllCollected
  <2> SUFFICES ASSUME IInv, pc = "fork", at = 1, ~cutShort PROVE AllCollected
    BY DEF AllCollected
  <2>1. /\ \A i \in DOMAIN line : line[i].type # "hdc"
        /\ \A i \in DOMAIN line : line[i].cmd >= at
        /\ Shape(line)
    BY Entries DEF IInv, WalkInv
  <2>2. \A i \in DOMAIN line : IsHeredoc(line[i]) => Fetched(line[i])
    BY <2>1, Entries DEF IInv, Shape, Fetched, Output, Redir
  <2>3. ASSUME NEW i \in DOMAIN line, IsHeredoc(line[i])
        PROVE  Holds(jobs, line, i) /\ \A j \in DOMAIN line : line[j].name = line[i].name => j = i
    <3>1. Holds(jobs, line, i) /\ line[i].name \in Temp
      BY <2>1, <2>2, <2>3 DEF IInv, BodyInv, Shape
    <3>2. ASSUME NEW j \in DOMAIN line, line[j].name = line[i].name PROVE j = i
      <4>1. Fetched(line[j])
        BY <2>1, <2>2, <3>1, <3>2, Entries, HeredocAssumption DEF IInv, Shape, Output, Redir
      <4> QED BY <2>1, <2>2, <2>3, <3>2, <4>1 DEF Shape
    <3> QED BY <3>1, <3>2
  <2> QED BY <2>1, <2>3 DEF AllCollected
<1> QED BY <1>1, HeredocInvariant, PTL

\* A child reads the body that was typed for it, unless an earlier job was
\* abandoned while children of it were alive.
THEOREM OwnBodyCorrect ==
  Spec => []OwnBody
<1>1. IInv => OwnBody
  BY DEF IInv
<1> QED BY <1>1, HeredocInvariant, PTL

\* At the prompt, with no child alive, the only temporary files left are those
\* whose reader ended before opening them.
THEOREM NoFileLeftCorrect ==
  Spec => []NoFileLeft
<1>1. IInv => NoFileLeft
  BY DEF IInv, FileInv, Awaited, NoFileLeft, Reading, Collecting
<1> QED BY <1>1, HeredocInvariant, PTL

\* The shell keeps one descriptor for each collection that was interrupted, and
\* no other.
THEOREM DescriptorsKeptCorrect ==
  Spec => []DescriptorsKept
<1>1. IInv => DescriptorsKept
  BY DEF IInv, WalkInv, DirInv, Reading, DescriptorsKept
<1> QED BY <1>1, HeredocInvariant, PTL
=============================================================================
