------------------------------- MODULE Heredoc -------------------------------
(***************************************************************************)
(* Heredocs: the shell collects the bodies of a line into files named      *)
(* minish_hd_<n> in the current directory, the children open them like any *)
(* other input redirection and unlink them (executor/heredoc*.c,           *)
(* executor/exec_cmd_list_redirections.c).                                 *)
(*                                                                         *)
(* The names are the same for every line (the counter starts at 0), so     *)
(* what one line leaves in the directory, and a child of it that is still  *)
(* on its way to its file, meet the next line.  A file is an inode: an     *)
(* open descriptor keeps it after its name is gone.                        *)
(*                                                                         *)
(* A line's redirections are one sequence, in the order the two loops of   *)
(* process_all_heredocs walk them; "cmd" says which command owns each.     *)
(***************************************************************************)
EXTENDS Integers, Sequences, FiniteSets, Functions

CONSTANTS
  Line,       \* lines the user may type: [n: commands, redirs: sequence of redirections]
  UserFile,   \* names the user gives to redirections and heredoc delimiters
  Lookalike,  \* those that contain "minish_hd_"
  Inode,      \* files the directory can hold or a descriptor keep
  None,       \* no name, no inode
  MaxTemp,    \* bound: the counter in a temporary file's name
  MaxBody,    \* bound: lines of a heredoc's body
  MaxJobs,    \* bound: lines run by the shell
  MaxTroubles \* bound: open(), pipe() and fork() calls that fail and SIGINTs, together

Temp == 0..MaxTemp          \* n stands for ./minish_hd_<n>
Name == Temp \cup UserFile

Redir == [cmd : Nat, type : {"hdc", "in", "out", "app"}, name : Name \cup {None}, typed : Int]

ASSUME HeredocAssumption ==
  /\ {MaxTemp, MaxBody, MaxJobs, MaxTroubles} \subseteq Nat
  /\ None \notin Inode \cup Name /\ UserFile \cap Temp = {} /\ Lookalike \subseteq UserFile
  /\ \E f \in [UserFile -> Inode] : IsInjective(f)
  /\ \A l \in Line :
       /\ l.n \in Nat \ {0} /\ l.redirs \in Seq(Redir) /\ 2 * Len(l.redirs) <= MaxTemp
       /\ \A i \in DOMAIN l.redirs :
            /\ l.redirs[i].cmd \in 1..l.n /\ l.redirs[i].typed = -1
            /\ l.redirs[i].name \in UserFile \cup {None}
            /\ l.redirs[i].type # "hdc" => l.redirs[i].name \in UserFile
            /\ \A j \in DOMAIN l.redirs : i < j => l.redirs[i].cmd <= l.redirs[j].cmd

VARIABLES
  pc,       \* "prompt", "collect", "read", "eintr", "fork", "wait", "crashed"
  line,     \* the line's redirections; a collected heredoc is an "in" redirection
  size,     \* commands in the line
  at,       \* the redirection being collected, then the command being forked
  counter,  \* *ctx->counter
  tmp,      \* hdc.tmp_file
  out,      \* hdc.fd: the inode being written
  leaked,   \* inodes of descriptors the shell never closes
  dir,      \* the current directory: the inode of a name
  data,     \* what a file holds: for each line, the heredoc it was typed for
  kids,     \* the shell's children, of this job and of earlier ones
  jobs, faults, sigs,  \* how much of each bound is used
  (* history *)
  cutShort, \* a job was abandoned while children of it were alive
  lost,     \* files with no reader left to unlink them: it ended before opening its
            \* file, or was never forked and the shell did not remove the file
  noticed   \* collections that a SIGINT interrupted

shellVars == <<pc, line, size, at, counter, tmp, out, leaked>>
fileVars  == <<dir, data>>
boundVars == <<jobs, faults, sigs>>
history   == <<cutShort, lost, noticed>>
vars      == <<shellVars, fileVars, kids, boundVars, history>>

Init ==
  /\ pc = "prompt" /\ line = <<>> /\ size = 0 /\ at = 1 /\ counter = 0
  /\ tmp = None /\ out = None /\ leaked = {}
  /\ \E there \in SUBSET UserFile :
       LET place == CHOOSE f \in [there -> Inode] : IsInjective(f)
       IN  dir = [n \in Name |-> IF n \in there THEN place[n] ELSE None]
  /\ data = [i \in Inode |-> <<>>] /\ kids = {}
  /\ jobs = 0 /\ faults = 0 /\ sigs = 0
  /\ cutShort = FALSE /\ lost = {} /\ noticed = 0

-----------------------------------------------------------------------------
(* Files *)

Entry(i) == {n \in Name : dir[n] = i}
Free == {i \in Inode : Entry(i) = {} /\ i \notin leaked \cup {out}
                         /\ \A k \in kids : i \notin {k.in, k.out}}

\* open(name, O_CREAT) gives inode i: the name's own or, since inodes mean
\* nothing in themselves, any one that is free.
Reaches(name, i) ==
  /\ dir[name] = None => Free # {}
  /\ i = IF dir[name] = None THEN CHOOSE f \in Free : TRUE ELSE dir[name]
  /\ dir' = [dir EXCEPT ![name] = i]

\* With O_TRUNC the file is empty; with O_APPEND one that was there keeps its data.
Creates(name, i) == Reaches(name, i) /\ data' = [data EXCEPT ![i] = <<>>]
Appends(name, i) ==
  /\ Reaches(name, i)
  /\ data' = IF dir[name] = None THEN [data EXCEPT ![i] = <<>>] ELSE data

Unlinked(names) == [n \in Name |-> IF n \in names THEN None ELSE dir[n]]

LooksTemp(name) == name \in Temp \cup Lookalike

\* The names cleanup_heredoc_files unlinks: those of the line that contain
\* "minish_hd_", the delimiters of heredocs not collected yet included.
Swept == {n \in Name : LooksTemp(n) /\ \E i \in DOMAIN line : line[i].name = n}

First(S) == CHOOSE i \in S : \A j \in S : i <= j

\* What the user typed for redirection i of a job, as the file holds it.
Body(job, l, i) == [k \in 1..l[i].typed |-> <<job, i>>]

-----------------------------------------------------------------------------
(* process_all_heredocs *)

\* Mutant: the counter goes on from the line before.
StartJobKeepsCounter ==
  /\ pc = "prompt" /\ jobs < MaxJobs
  /\ \E l \in Line : line' = l.redirs /\ size' = l.n
  /\ pc' = "collect" /\ at' = 1 /\ jobs' = jobs + 1
  /\ UNCHANGED <<counter, tmp, out, leaked, fileVars, kids, faults, sigs, history>>

StartJob ==
  /\ pc = "prompt" /\ jobs < MaxJobs
  /\ \E l \in Line : line' = l.redirs /\ size' = l.n
  /\ pc' = "collect" /\ at' = 1 /\ counter' = 0 /\ jobs' = jobs + 1
  /\ UNCHANGED <<tmp, out, leaked, fileVars, kids, faults, sigs, history>>

\* The heredocs the walk of the line has not come to.
Pending == {i \in DOMAIN line : i >= at /\ line[i].type = "hdc"}

\* What process_cmd_heredocs takes for the heredocs of the command at hand.
OfCommand == {i \in DOMAIN line : line[i].cmd = line[at].cmd /\ line[i].type = "hdc"}

\* create_hdc_file: the next heredoc of the line gets the next name.
CreateHdcFile ==
  /\ pc = "collect" /\ Pending # {}
  /\ at' = First(Pending) /\ tmp' = counter /\ counter' = counter + 1
  /\ \E i \in Inode : Creates(counter, i) /\ out' = i
  /\ line' = [line EXCEPT ![at'].typed = 0]
  /\ lost' = lost \ {counter}
  /\ pc' = "read"
  /\ UNCHANGED <<size, leaked, kids, boundVars, cutShort, noticed>>

\* Mutant: the files collected before stay.
CreateFailsKeepsFiles ==
  /\ pc = "collect" /\ Pending # {} /\ faults + sigs < MaxTroubles
  /\ faults' = faults + 1 /\ counter' = counter + 1
  /\ pc' = "prompt"
  /\ UNCHANGED <<line, size, at, tmp, out, leaked, fileVars, kids, jobs, sigs, history>>

\* The file cannot be opened: process_all_heredocs removes the line's files and
\* returns -1, and nothing runs.
CreateFails ==
  /\ pc = "collect" /\ Pending # {} /\ faults + sigs < MaxTroubles
  /\ faults' = faults + 1 /\ counter' = counter + 1
  /\ dir' = Unlinked(Swept)
  /\ pc' = "prompt"
  /\ UNCHANGED <<line, size, at, tmp, out, leaked, data, kids, jobs, sigs, history>>

\* process_hdc_line with a line of the body: it is written at the end of the file.
BodyLine ==
  /\ pc = "read" /\ line[at].typed < MaxBody
  /\ data' = [data EXCEPT ![out] = Append(@, <<jobs, at>>)]
  /\ line' = [line EXCEPT ![at].typed = @ + 1]
  /\ UNCHANGED <<pc, size, at, counter, tmp, out, leaked, dir, kids, boundVars, history>>

\* Mutant: the last heredoc of the command is converted, not the first.
ConvertedLast ==
  [line EXCEPT ![CHOOSE i \in OfCommand : \A j \in OfCommand : j <= i] =
     [@ EXCEPT !.type = "in", !.name = tmp]]
\* apply_redir_hdc: the first heredoc of the command becomes an input redirection.
Converted ==
  [line EXCEPT ![First(OfCommand)] = [@ EXCEPT !.type = "in", !.name = tmp]]

\* Mutant: the descriptor is not closed.
DelimiterKeepsFd ==
  /\ pc = "read"
  /\ line' = Converted /\ counter' = counter + 1 /\ at' = at + 1
  /\ tmp' = None /\ out' = None /\ leaked' = leaked \cup {out}
  /\ pc' = "collect"
  /\ UNCHANGED <<size, fileVars, kids, boundVars, history>>

\* The delimiter or end of file: the file is closed and process_cmd_heredocs
\* advances the counter a second time.
Delimiter ==
  /\ pc = "read"
  /\ line' = Converted /\ counter' = counter + 1 /\ at' = at + 1
  /\ tmp' = None /\ out' = None
  /\ pc' = "collect"
  /\ UNCHANGED <<size, leaked, fileVars, kids, boundVars, history>>

\* read() failed with EINTR: process_hdc_line unlinks the file it was writing,
\* process_all_heredocs those collected before it, and nothing runs.  Nobody
\* closes hdc.fd.
Interrupted ==
  /\ pc = "eintr"
  /\ dir' = Unlinked(Swept \cup {tmp})
  /\ leaked' = leaked \cup {out} /\ noticed' = noticed + 1
  /\ tmp' = None /\ out' = None
  /\ pc' = "prompt"
  /\ UNCHANGED <<line, size, at, counter, data, kids, boundVars, cutShort, lost>>

Collected ==
  /\ pc = "collect" /\ Pending = {}
  /\ pc' = "fork" /\ at' = 1
  /\ UNCHANGED <<line, size, counter, tmp, out, leaked, fileVars, kids, boundVars, history>>

-----------------------------------------------------------------------------
(* exec_command_list_2 *)

\* A child has its own copy of the line and still has all its redirections to
\* apply, in order.
NewKid(c) ==
  [job |-> jobs, cmd |-> c, line |-> line, ready |-> FALSE,
   todo |-> {i \in DOMAIN line : line[i].cmd = c},
   rm |-> None, in |-> None, from |-> 0, out |-> None]

Fork ==
  /\ pc = "fork"
  /\ kids' = kids \cup {NewKid(at)}
  /\ at' = at + 1 /\ pc' = IF at < size THEN "fork" ELSE "wait"
  /\ UNCHANGED <<line, size, counter, tmp, out, leaked, fileVars, boundVars, history>>

\* The files of the commands that have no child yet.
NoChild == {line[i].name : i \in {j \in DOMAIN line : line[j].cmd >= at}}

\* Mutant: exec_cmd_list_clean is not called.
ForkFailsKeepsFiles ==
  /\ pc = "fork" /\ faults + sigs < MaxTroubles
  /\ faults' = faults + 1 /\ pc' = "prompt"
  /\ cutShort' = (cutShort \/ kids # {})
  /\ UNCHANGED <<line, size, at, counter, tmp, out, leaked, fileVars, kids, jobs, sigs, lost, noticed>>

\* pipe() or fork() fails and exec_cmd_list_clean(head) removes the files.  Once
\* the first command is freed it reads freed memory: the shell dies, or any of
\* the files are removed, and nobody will open the others that have no child.
ForkFails ==
  /\ pc = "fork" /\ faults + sigs < MaxTroubles
  /\ faults' = faults + 1
  /\ \/ at = 1 /\ dir' = Unlinked(Swept) /\ pc' = "prompt" /\ lost' = lost
     \/ at > 1 /\ dir' = dir /\ pc' = "crashed" /\ lost' = lost \cup NoChild
     \/ /\ at > 1 /\ pc' = "prompt"
        /\ \E some \in SUBSET Swept :
             dir' = Unlinked(some) /\ lost' = lost \cup (NoChild \ some)
  /\ cutShort' = (cutShort \/ kids # {})
  /\ UNCHANGED <<line, size, at, counter, tmp, out, leaked, data, kids, jobs, sigs, noticed>>

\* Mutant: the shell does not wait for its children.
WaitForNone ==
  /\ pc = "wait"
  /\ pc' = "prompt"
  /\ UNCHANGED <<line, size, at, counter, tmp, out, leaked, fileVars, kids, boundVars, history>>

\* wait_for_children: every child has ended.
WaitDone ==
  /\ pc = "wait" /\ kids = {}
  /\ pc' = "prompt"
  /\ UNCHANGED <<line, size, at, counter, tmp, out, leaked, fileVars, kids, boundVars, history>>

-----------------------------------------------------------------------------
(* A child *)

Becomes(k, l) == kids' = (kids \ {k}) \cup {l}

\* Temporary files a child would still have opened and unlinked.
Left(k) == ({k.line[i].name : i \in k.todo} \cup {k.rm}) \cap Temp

Ends(k) == kids' = kids \ {k} /\ lost' = lost \cup Left(k)

\* Signals are reset; until then the shell's handler swallows SIGINT.
KidReady(k) ==
  /\ ~k.ready /\ Becomes(k, [k EXCEPT !.ready = TRUE])
  /\ UNCHANGED <<fileVars, lost>>

\* apply_redir_in: a file that is missing ends the child; a file whose name
\* contains "minish_hd_" is unlinked once it is open, in a call of its own.
RedirIn(k) ==
  LET i == First(k.todo)  name == k.line[i].name IN
  /\ k.line[i].type = "in"
  /\ \/ dir[name] = None /\ Ends(k)
     \/ /\ dir[name] # None
        /\ Becomes(k, [k EXCEPT !.todo = @ \ {i}, !.in = dir[name], !.from = i,
                                !.rm = IF LooksTemp(name) THEN name ELSE None])
        /\ UNCHANGED lost
  /\ UNCHANGED fileVars

\* Mutant: the file stays.
KeepsFile(k) ==
  /\ k.rm # None
  /\ Becomes(k, [k EXCEPT !.rm = None])
  /\ UNCHANGED <<fileVars, lost>>
UnlinksFile(k) ==
  /\ k.rm # None
  /\ dir' = Unlinked({k.rm}) /\ Becomes(k, [k EXCEPT !.rm = None])
  /\ UNCHANGED <<data, lost>>

Output(r) == r.type \in {"out", "app"}

\* apply_redir_out1 (>) and _out2 (>>): the file is made, or it cannot be and the
\* child ends.  stdout stays as it is when the next redirection is an output too.
RedirOut(k) ==
  LET i == First(k.todo)  r == k.line[i]
      next == i + 1 \in k.todo /\ Output(k.line[i + 1]) IN
  /\ Output(r)
  /\ \/ Ends(k) /\ UNCHANGED fileVars
     \/ \E o \in Inode :
          /\ IF r.type = "out" THEN Creates(r.name, o) ELSE Appends(r.name, o)
          /\ Becomes(k, [k EXCEPT !.todo = @ \ {i}, !.out = IF next THEN @ ELSE o])
          /\ UNCHANGED lost

KidRedirects(k) ==
  /\ k.ready /\ k.rm = None /\ k.todo # {}
  /\ RedirIn(k) \/ RedirOut(k)

\* The command runs and exits.
KidExits(k) == k.ready /\ k.rm = None /\ k.todo = {} /\ Ends(k) /\ UNCHANGED fileVars

KidStep ==
  /\ \E k \in kids : KidReady(k) \/ KidRedirects(k) \/ UnlinksFile(k) \/ KidExits(k)
  /\ UNCHANGED <<shellVars, boundVars, cutShort, noticed>>

-----------------------------------------------------------------------------
\* Ctrl+C.  A heredoc notices it only while the shell is inside read(); in
\* wait() it may end the waiting.  It ends every child that has reset its
\* signals, save commands that run and catch it.
Sigint ==
  /\ pc # "crashed" /\ faults + sigs < MaxTroubles
  /\ sigs' = sigs + 1
  /\ pc' \in CASE pc = "read" -> {"read", "eintr"}
               [] pc = "wait" -> {"wait", "prompt"}
               [] OTHER       -> {pc}
  /\ \E killed \in SUBSET {k \in kids : k.ready} :
       /\ \A k \in kids : k.ready /\ (k.todo # {} \/ k.rm # None) => k \in killed
       /\ kids' = kids \ killed
       /\ lost' = lost \cup UNION {Left(k) : k \in killed}
  /\ cutShort' = (cutShort \/ (pc = "wait" /\ pc' = "prompt" /\ kids' # {}))
  /\ UNCHANGED <<line, size, at, counter, tmp, out, leaked, fileVars, jobs, faults, noticed>>

ShellStep ==
  \/ CreateHdcFile \/ CreateFails \/ Delimiter \/ Interrupted \/ Collected
  \/ Fork \/ ForkFails \/ WaitDone

\* Nothing more is typed.
Idle == pc \in {"prompt", "crashed"} /\ kids = {} /\ UNCHANGED vars

Next == StartJob \/ BodyLine \/ ShellStep \/ KidStep \/ Sigint \/ Idle

Spec == Init /\ [][Next]_vars

\* Processes that can run do, and the user ends every heredoc.
FairSpec == Spec /\ WF_vars(ShellStep) /\ WF_vars(KidStep)

-----------------------------------------------------------------------------
Kid == [job : 1..MaxJobs, cmd : Nat, line : Seq(Redir), ready : BOOLEAN,
        todo : SUBSET Nat, rm : Name \cup {None}, in : Inode \cup {None},
        from : Nat, out : Inode \cup {None}]

\* Type invariant.
TypeOK ==
  /\ pc \in {"prompt", "collect", "read", "eintr", "fork", "wait", "crashed"}
  /\ line \in Seq(Redir) /\ size \in Nat /\ at \in Nat /\ counter \in Temp
  /\ tmp \in Temp \cup {None} /\ out \in Inode \cup {None} /\ leaked \subseteq Inode
  /\ dir \in [Name -> Inode \cup {None}] /\ data \in [Inode -> Seq(Nat \X Nat)]
  /\ kids \subseteq Kid
  /\ jobs \in 0..MaxJobs /\ {faults, sigs} \subseteq 0..MaxTroubles
  /\ cutShort \in BOOLEAN /\ lost \subseteq Name \cup {None} /\ noticed \in Nat

IsHeredoc(r) == r.typed >= 0

\* The file of heredoc i of a line holds what was typed for it.
Holds(job, l, i) ==
  /\ l[i].type = "in" /\ dir[l[i].name] # None
  /\ data[dir[l[i].name]] = Body(job, l, i)

\* When the forking begins every heredoc of the line has become an input
\* redirection of a file of its own that holds its body (process_all_heredocs).
AllCollected ==
  pc = "fork" /\ at = 1 /\ ~cutShort =>
    /\ \A i \in DOMAIN line : line[i].type # "hdc"
    /\ \A i \in DOMAIN line : IsHeredoc(line[i]) =>
         /\ Holds(jobs, line, i)
         /\ \A j \in DOMAIN line : line[j].name = line[i].name => j = i

\* A child finds each of its heredocs where the line says, and what it has open
\* is the body typed for it, whatever other children and later redirections did
\* to the directory, unless an earlier job was abandoned with children alive.
OwnBody ==
  ~cutShort =>
    \A k \in kids :
      /\ \A i \in k.todo : IsHeredoc(k.line[i]) => Holds(k.job, k.line, i)
      /\ k.from # 0 /\ IsHeredoc(k.line[k.from]) =>
           data[k.in] = Body(k.job, k.line, k.from)

\* At the prompt, with no child alive, no temporary file is left, on any path out
\* of the collection and the execution, save two kinds: its reader ended before
\* opening it (an earlier redirection failed, or a signal killed it), or its
\* reader was never forked because pipe() or fork() failed for a LATER command
\* than the first, when the clean-up walks commands already freed.  When they
\* fail for the first one exec_cmd_list_clean has to remove every file.
NoFileLeft ==
  pc = "prompt" /\ kids = {} => {n \in Temp : dir[n] # None} \subseteq lost

\* The shell keeps no descriptor of a heredoc but the ones of interrupted
\* collections, which it never closes (process_heredoc returns before close).
DescriptorsKept ==
  /\ pc \notin {"read", "eintr"} => out = None
  /\ Cardinality(leaked) = noticed

-----------------------------------------------------------------------------
(* The inductive invariant *)

Reading == pc \in {"read", "eintr"}
Collecting == pc = "collect" \/ Reading

\* A redirection of a heredoc that has been collected.
Fetched(r) == IsHeredoc(r) /\ r.type = "in"

\* Collected heredocs, and only they, name temporary files, each its own.
Shape(l) ==
  /\ \A i \in DOMAIN l :
       /\ Output(l[i]) => l[i].name \in UserFile /\ ~IsHeredoc(l[i])
       /\ l[i].type = "in" /\ ~IsHeredoc(l[i]) => l[i].name \in UserFile
       /\ l[i].type = "hdc" => l[i].name \in UserFile \cup {None}
       /\ Fetched(l[i]) => l[i].name \in Temp
  /\ \A i, j \in DOMAIN l : Fetched(l[i]) /\ Fetched(l[j]) /\ l[i].name = l[j].name => i = j

\* The walk converts one heredoc after the other, and gives each a name beyond
\* all names given before.
WalkInv ==
  /\ Shape(line) /\ 2 * Len(line) <= MaxTemp
  /\ pc # "prompt" => jobs >= 1 /\ size >= 1
  /\ pc \in {"collect", "read", "eintr", "fork"} => \A i \in DOMAIN line : line[i].cmd \in 1..size
  /\ Collecting =>
       /\ at \in 1..Len(line) + 1
       /\ \A i \in DOMAIN line : i < at => line[i].type # "hdc"
       /\ \A i \in DOMAIN line : i > at => ~IsHeredoc(line[i])
       /\ \A i \in DOMAIN line : i < at /\ Fetched(line[i]) => line[i].name < IF Reading THEN tmp ELSE counter
  /\ pc = "collect" => /\ counter <= 2 * (at - 1)
                       /\ at \in DOMAIN line => ~IsHeredoc(line[at])
  /\ Reading => /\ at \in DOMAIN line /\ line[at].type = "hdc" /\ IsHeredoc(line[at])
                /\ tmp \in Temp /\ out \in Inode /\ counter = tmp + 1 /\ counter <= 2 * at - 1
  /\ ~Reading => tmp = None /\ out = None
  /\ pc = "fork" => at \in 1..size /\ \A i \in DOMAIN line : line[i].type # "hdc"

\* A file has one name; one that a descriptor of the shell keeps has none, or is
\* the one being written.
DirInv ==
  /\ \A m, n \in Name : dir[m] = dir[n] /\ dir[m] # None => m = n
  /\ \A n \in Name : dir[n] \notin leaked
  /\ out # None => out \notin leaked /\ \A n \in Name : dir[n] = out => n = tmp
  /\ IsFiniteSet(leaked) /\ Cardinality(leaked) = noticed

\* What a child has still to do is of the line it was forked with.
KidInv ==
  \A k \in kids :
    /\ Shape(k.line) /\ \A i \in DOMAIN k.line : k.line[i].type # "hdc"
    /\ k.todo \subseteq {i \in DOMAIN k.line : k.line[i].cmd = k.cmd}
    /\ k.rm # None => LooksTemp(k.rm)
    /\ k.from = 0 \/ k.from \in DOMAIN k.line

\* Unless a job was abandoned, the children are of the line at hand, one of each
\* command, and remove the names of their own redirections only.
QuietInv ==
  ~cutShort =>
    /\ pc \notin {"fork", "wait"} => kids = {}
    /\ \A k \in kids :
         /\ k.job = jobs /\ k.line = line /\ (pc = "fork" => k.cmd < at)
         /\ k.from # 0 => k.line[k.from].cmd = k.cmd /\ k.line[k.from].type = "in" /\ k.from \notin k.todo
         /\ k.rm # None => k.from # 0 /\ k.rm = k.line[k.from].name
         /\ k.from # 0 /\ IsHeredoc(k.line[k.from]) =>
              /\ k.in \in Inode
              /\ \A n \in Name : dir[n] = k.in => n = k.line[k.from].name
    /\ \A k, l \in kids : k.cmd = l.cmd => k = l

\* Where the bodies are meanwhile.
BodyInv ==
  ~cutShort =>
    /\ Collecting => \A i \in DOMAIN line : i < at /\ Fetched(line[i]) => Holds(jobs, line, i)
    /\ Reading => dir[tmp] = out /\ data[out] = Body(jobs, line, at)
    /\ pc = "fork" => \A i \in DOMAIN line : line[i].cmd >= at /\ Fetched(line[i]) => Holds(jobs, line, i)

\* Every temporary file has somebody who will remove it, or is given up.
Awaited(n) ==
  \/ n \in lost \/ (Reading /\ n = tmp)
  \/ \E k \in kids : n \in Left(k)
  \/ (Collecting \/ pc = "fork") /\ \E i \in DOMAIN line :
        line[i].name = n /\ (pc = "fork" => line[i].cmd >= at)

FileInv == \A n \in Temp : dir[n] # None => Awaited(n)

\* The parts together are inductive, and imply the four properties above.
IInv == TypeOK /\ WalkInv /\ DirInv /\ KidInv /\ QuietInv /\ BodyInv /\ FileInv /\ OwnBody

\* Liveness: every temporary file goes, unless its reader ended before opening it
\* or, a later command's pipe() or fork() having failed, was never forked.
FilesGo == \A n \in Temp : dir[n] # None ~> dir[n] = None \/ n \in lost

=============================================================================
