------------------------------ MODULE Pipeline ------------------------------
(***************************************************************************)
(* The pipeline executor: exec_command_list runs a list of commands, one   *)
(* child each, joined by pipes, and returns to the prompt with the status  *)
(* of the last one (executor/exec_cmd_list*.c).                            *)
(*                                                                         *)
(* The shell forks while earlier children already run, die or are killed,  *)
(* so a state has the shell's program counter AND the state of every       *)
(* child.  A process owns five descriptors (Fds): a pipe identifier in     *)
(* stdin, prev or r is that pipe's READ end, in stdout or w its WRITE end. *)
(* fork() copies the record, exit() closes it.                             *)
(*                                                                         *)
(* The shell runs job after job, so what one job leaves behind (children   *)
(* it did not reap, the signal handler) meets the next one.                *)
(***************************************************************************)
EXTENDS Integers, FiniteSets

CONSTANTS
  Pid,        \* process identifiers the kernel can give to children
  NoPid,      \* last_pid before the first fork
  Shell,      \* the shell itself
  PipeId,     \* pipes the kernel can give
  NoFd,       \* -1: no descriptor
  Tty,        \* the terminal
  Files,      \* files that redirections name
  Kinds,      \* programs commands may run: "builtin", "source", "filter", "loop"
  Codes,      \* exit codes of commands
  MaxLen,     \* bound: commands in a list
  MaxJobs,    \* bound: lists run by the shell
  MaxFaults,  \* bound: pipe() and fork() calls that fail for lack of resources
  MaxSigs,    \* bound: keyboard signals
  MaxOut,     \* bound: chunks a command writes of its own accord
  Cap         \* chunks a pipe holds

ASSUME PipelineAssumption ==
  /\ NoPid \notin Pid /\ Shell \notin Pid
  /\ PipeId \cap {NoFd, Tty} = {} /\ Files \cap (PipeId \cup {NoFd, Tty}) = {}
  /\ NoFd # Tty
  /\ Kinds \subseteq {"builtin", "source", "filter", "loop"}
  /\ Codes \subseteq 0..255
  /\ {MaxLen, MaxJobs, MaxFaults, MaxSigs, MaxOut} \subseteq Nat
  /\ MaxLen > 0 /\ Cap \in Nat \ {0}

VARIABLES
  (* the shell *)
  pc,       \* where exec_command_list stands; "prompt" when readline waits
  len,      \* length of the command list
  cmd,      \* index of the loop's cmd pointer; len + 1 is NULL
  live,     \* the list's nodes not freed yet
  lastPid,  \* last_pid
  handler,  \* the SIGINT disposition of the shell
  status,   \* g_exit_status
  pend,     \* a SIGINT arrived while the shell sleeps in wait()
  cut,      \* what cut the current job short, if anything
  intr,     \* a SIGINT reached the shell since the job began
  (* the processes: the shell's children, and everyone's descriptors *)
  st,       \* progress of a child; "free": no such process
  pos,      \* index of the command the child runs
  hasNext,  \* cmd->next, as the child's copy of the list has it
  prog,     \* what the child runs, once it runs
  todo,     \* chunks it still has to write
  sig,      \* signal sent to it and not yet delivered; 0: none
  wst,      \* wait status of a dead child
  fd,       \* the descriptors
  (* the kernel *)
  buf,      \* chunks in each pipe
  jobs, faults, sigs   \* how much of each bound is used

loopVars   == <<len, cmd, live, lastPid>>
shellVars  == <<pc, loopVars, handler, status, pend, cut, intr>>
childVars  == <<st, pos, hasNext, prog, todo, sig, wst>>
boundVars  == <<jobs, faults, sigs>>
vars       == <<shellVars, childVars, fd, buf, boundVars>>

SIGINT  == 2
SIGQUIT == 3
SIGPIPE == 13

Exited(c)   == [how |-> "exited", n |-> c]
Signaled(s) == [how |-> "signaled", n |-> s]
\* Mutant: the raw wait status, without WEXITSTATUS.
RawStatus(w) == IF w.how = "exited" THEN 256 * w.n ELSE w.n
\* What g_exit_status becomes for a wait status.
StatusOf(w) == IF w.how = "exited" THEN w.n ELSE 128 + w.n

TtyFds    == [stdin |-> Tty, stdout |-> Tty, prev |-> NoFd, r |-> NoFd, w |-> NoFd]
ClosedFds == [stdin |-> NoFd, stdout |-> NoFd, prev |-> NoFd, r |-> NoFd, w |-> NoFd]

Procs      == Pid \cup {Shell}
Readers(q) == {p \in Procs : q \in {fd[p].stdin, fd[p].prev, fd[p].r}}
Writers(q) == {p \in Procs : q \in {fd[p].stdout, fd[p].w}}
FreePipes  == {q \in PipeId : Readers(q) \cup Writers(q) = {}}
FreePids   == {p \in Pid : st[p] = "free"}

Unplumbed == {"forked", "plumb"}             \* holds copies of the shell's ends
Plumbed   == {"redir", "exec", "run"}        \* holds its own stdin and stdout
Alive(p)  == st[p] \in Unplumbed \cup Plumbed
Zombies   == {p \in Pid : st[p] = "zombie"}

Init ==
  /\ pc = "prompt" /\ len = 0 /\ cmd = 1 /\ live = {} /\ lastPid = NoPid
  /\ handler = "main" /\ status = 0 /\ pend = FALSE /\ cut = "none" /\ intr = FALSE
  /\ st = [p \in Pid |-> "free"] /\ pos = [p \in Pid |-> 0]
  /\ hasNext = [p \in Pid |-> FALSE] /\ prog = [p \in Pid |-> "none"]
  /\ todo = [p \in Pid |-> 0] /\ sig = [p \in Pid |-> 0]
  /\ wst = [p \in Pid |-> Exited(0)]
  /\ fd = [p \in Procs |-> IF p = Shell THEN TtyFds ELSE ClosedFds]
  /\ buf = [q \in PipeId |-> 0]
  /\ jobs = 0 /\ faults = 0 /\ sigs = 0

-----------------------------------------------------------------------------
(* The shell *)

\* What a reaped child did is forgotten when the next job begins.
Forget ==
  LET gone(p) == st[p] = "free" IN
  /\ pos' = [p \in Pid |-> IF gone(p) THEN 0 ELSE pos[p]]
  /\ hasNext' = [p \in Pid |-> hasNext[p] /\ ~gone(p)]
  /\ wst' = [p \in Pid |-> IF gone(p) THEN Exited(0) ELSE wst[p]]

\* exec_command_list is called with a list of n commands; its first call,
\* process_all_heredocs, begins by installing the heredoc handler.
StartJob(n) ==
  /\ pc = "prompt" /\ jobs < MaxJobs
  /\ pc' = "hdc" /\ len' = n /\ cmd' = 1 /\ live' = 1..n /\ lastPid' = NoPid
  /\ handler' = "heredoc" /\ cut' = "none" /\ intr' = FALSE
  /\ jobs' = jobs + 1 /\ Forget
  /\ UNCHANGED <<status, pend, st, prog, todo, sig, fd, buf, faults, sigs>>

\* The heredocs, if any, are collected; exec_command_list_2 begins.
HeredocsDone ==
  /\ pc = "hdc"
  /\ pc' = "pipe" /\ handler' = "executing"
  /\ UNCHANGED <<loopVars, status, pend, cut, intr, childVars, fd, buf, boundVars>>

\* Mutant: the list is not freed.
HeredocsAbandonedKeepsList(result) ==
  /\ pc = "hdc" /\ (result = 130 => intr)
  /\ status' = IF result = 130 THEN 130 ELSE status
  /\ pc' = "prompt" /\ handler' = "main" /\ cut' = "hdc"
  /\ UNCHANGED <<loopVars, pend, intr, childVars, fd, buf, boundVars>>

\* process_all_heredocs returned 130 (a SIGINT interrupted the reading) or -1
\* (a temporary file could not be opened): the list is freed and nothing runs.
HeredocsAbandoned(result) ==
  /\ pc = "hdc" /\ (result = 130 => intr)
  /\ status' = IF result = 130 THEN 130 ELSE status
  /\ pc' = "prompt" /\ live' = {} /\ handler' = "main" /\ cut' = "hdc"
  /\ UNCHANGED <<len, cmd, lastPid, pend, intr, childVars, fd, buf, boundVars>>

\* The top of the loop: a pipe to the next command, if there is one.
OpenPipe ==
  /\ pc = "pipe" /\ pc' = "fork"
  /\ \/ /\ cmd < len
        /\ \E q \in FreePipes :
             /\ fd' = [fd EXCEPT ![Shell].r = q, ![Shell].w = q]
             /\ buf' = [buf EXCEPT ![q] = 0]
     \/ cmd = len /\ UNCHANGED <<fd, buf>>
  /\ UNCHANGED <<loopVars, handler, status, pend, cut, intr, childVars, boundVars>>

\* A call fails when the kernel has nothing left to give, or when it is made
\* to fail (at most MaxFaults times) for want of descriptors or memory.
Fails(free) ==
  \/ free = {} /\ faults' = faults
  \/ faults < MaxFaults /\ faults' = faults + 1

\* pipe_error: only prev_fd is closed.
PipeError ==
  /\ pc = "pipe" /\ cmd < len /\ Fails(FreePipes)
  /\ fd' = [fd EXCEPT ![Shell].prev = NoFd]
  /\ pc' = "clean" /\ cut' = "fault"
  /\ UNCHANGED <<loopVars, handler, status, pend, intr, childVars, buf, jobs, sigs>>

\* fork: the child starts with a copy of the shell's descriptors and signals.
Fork ==
  /\ pc = "fork"
  /\ \E p \in FreePids :
       /\ st' = [st EXCEPT ![p] = "forked"]
       /\ pos' = [pos EXCEPT ![p] = cmd]
       /\ hasNext' = [hasNext EXCEPT ![p] = cmd < len]
       /\ fd' = [fd EXCEPT ![p] = fd[Shell]]
       /\ lastPid' = p
  /\ pc' = "parent"
  /\ UNCHANGED <<len, cmd, live, handler, status, pend, cut, intr,
                 prog, todo, sig, wst, buf, boundVars>>

\* Mutant: the ends of the new pipe stay open.
ForkErrorKeepsPipe ==
  /\ pc = "fork" /\ Fails(FreePids)
  /\ fd' = [fd EXCEPT ![Shell].prev = NoFd]
  /\ pc' = "clean" /\ cut' = "fault"
  /\ UNCHANGED <<loopVars, handler, status, pend, intr, childVars, buf, jobs, sigs>>

\* fork_error: prev_fd and both ends of the new pipe are closed.
ForkError ==
  /\ pc = "fork" /\ Fails(FreePids)
  /\ fd' = [fd EXCEPT ![Shell] = TtyFds]
  /\ pc' = "clean" /\ cut' = "fault"
  /\ UNCHANGED <<loopVars, handler, status, pend, intr, childVars, buf, jobs, sigs>>

\* Mutant: the write end is not closed.
ParentKeepsWriteEnd ==
  /\ pc = "parent"
  /\ fd' = [fd EXCEPT ![Shell].prev = IF fd[Shell].r # NoFd THEN fd[Shell].r ELSE NoFd,
                      ![Shell].r = NoFd]
  /\ live' = live \ {cmd} /\ cmd' = cmd + 1
  /\ pc' = IF cmd < len THEN "pipe" ELSE "wait"
  /\ UNCHANGED <<len, lastPid, handler, status, pend, cut, intr, childVars, buf, boundVars>>

\* Mutant: prev_fd is neither closed nor replaced once it is set.
ParentKeepsPrev ==
  /\ pc = "parent"
  /\ fd' = [fd EXCEPT ![Shell].prev = IF @ # NoFd THEN @ ELSE fd[Shell].r,
                      ![Shell].r = NoFd, ![Shell].w = NoFd]
  /\ live' = live \ {cmd} /\ cmd' = cmd + 1
  /\ pc' = IF cmd < len THEN "pipe" ELSE "wait"
  /\ UNCHANGED <<len, lastPid, handler, status, pend, cut, intr, childVars, buf, boundVars>>

\* child_and_parent_process, in the parent: prev_fd and the write end are
\* closed, the read end becomes prev_fd, the command is freed.
ParentCloses ==
  /\ pc = "parent"
  /\ fd' = [fd EXCEPT ![Shell].prev = IF fd[Shell].w # NoFd THEN fd[Shell].r ELSE NoFd,
                      ![Shell].r = NoFd, ![Shell].w = NoFd]
  /\ live' = live \ {cmd} /\ cmd' = cmd + 1
  /\ pc' = IF cmd < len THEN "pipe" ELSE "wait"
  /\ UNCHANGED <<len, lastPid, handler, status, pend, cut, intr, childVars, buf, boundVars>>

\* exec_cmd_list_clean(head), and exec_command_list returns without
\* set_sigint_main.  Once the loop has freed the head node the call reads and
\* frees freed memory: the shell dies, or it survives having freed any of the
\* nodes that were left.
CleanList ==
  /\ pc = "clean"
  /\ \/ /\ 1 \in live
        /\ live' = {} /\ pc' = "prompt"
     \/ /\ 1 \notin live
        /\ \/ live' = live /\ pc' = "crashed"
           \/ live' \in SUBSET live /\ pc' = "prompt"
  /\ UNCHANGED <<len, cmd, lastPid, handler, status, pend, cut, intr,
                 childVars, fd, buf, boundVars>>

-----------------------------------------------------------------------------
(* wait_for_children *)

\* Mutant: the executing handler stays installed.
BackWithoutHandler == pc' = "prompt" /\ handler' = handler
\* set_sigint_main and the return to the prompt.
BackToPrompt ==
  /\ pc' = "prompt" /\ handler' = "main"

\* Mutant: every child decides g_exit_status.
WaitReapAnyStatus(p) ==
  /\ pc \in {"wait", "blocked"} /\ st[p] = "zombie"
  /\ st' = [st EXCEPT ![p] = "free"] /\ status' = StatusOf(wst[p])
  /\ pc' = "wait" /\ pend' = FALSE
  /\ UNCHANGED <<loopVars, handler, cut, intr, pos, hasNext, prog, todo, sig, wst,
                 fd, buf, boundVars>>

\* wait() returns a dead child, whichever job it is from; only the last
\* command's child decides g_exit_status.  A handler that ran meanwhile ran
\* before the assignment.
WaitReap(p) ==
  /\ pc \in {"wait", "blocked"} /\ st[p] = "zombie"
  /\ st' = [st EXCEPT ![p] = "free"]
  /\ status' = IF p = lastPid THEN StatusOf(wst[p]) ELSE status
  /\ pc' = "wait" /\ pend' = FALSE
  /\ UNCHANGED <<loopVars, handler, cut, intr, pos, hasNext, prog, todo, sig, wst,
                 fd, buf, boundVars>>

\* No child is dead and some are alive: the shell sleeps in wait().
WaitBlock ==
  /\ pc = "wait" /\ Zombies = {} /\ FreePids # Pid
  /\ pc' = "blocked"
  /\ UNCHANGED <<loopVars, handler, status, pend, cut, intr, childVars, fd, buf, boundVars>>

\* sigint_executing was installed without SA_RESTART: with no dead child to
\* return, wait() fails with EINTR, the loop ends and the rest is not reaped.
WaitInterrupted ==
  /\ pc = "blocked" /\ pend /\ Zombies = {}
  /\ BackToPrompt /\ pend' = FALSE /\ cut' = "eintr"
  /\ UNCHANGED <<loopVars, status, intr, childVars, fd, buf, boundVars>>

\* Mutant: the loop ends with the last command's child.
WaitForLastOnly ==
  /\ pc = "wait" /\ st[lastPid] = "free"
  /\ BackToPrompt
  /\ UNCHANGED <<loopVars, status, pend, cut, intr, childVars, fd, buf, boundVars>>

\* wait() fails with ECHILD: every child has been reaped.
WaitDone ==
  /\ pc = "wait" /\ FreePids = Pid
  /\ BackToPrompt
  /\ UNCHANGED <<loopVars, status, pend, cut, intr, childVars, fd, buf, boundVars>>

\* readline returns NULL: main_loop ends and the shell exits.
Eof ==
  /\ pc = "prompt" /\ pc' = "exited"
  /\ UNCHANGED <<loopVars, handler, status, pend, cut, intr, childVars, fd, buf, boundVars>>

-----------------------------------------------------------------------------
(* A child, from fork() to exit() *)

\* Everything a child does by itself waits for the signals sent to it.
Runs(p, state) == st[p] = state /\ sig[p] = 0

\* exit() or a fatal signal: the descriptors close, the status waits for wait().
Dies(p, w) ==
  /\ st' = [st EXCEPT ![p] = "zombie"]
  /\ wst' = [wst EXCEPT ![p] = w]
  /\ fd' = [fd EXCEPT ![p] = ClosedFds]
  /\ prog' = [prog EXCEPT ![p] = "none"]
  /\ todo' = [todo EXCEPT ![p] = 0]
  /\ sig' = [sig EXCEPT ![p] = 0]
  /\ UNCHANGED <<pos, hasNext, buf>>

\* The child resets SIGINT and SIGQUIT to their default action; until then it
\* has the shell's: a handler that only notes SIGINT, and SIGQUIT ignored.
ChildSignals(p) ==
  /\ Runs(p, "forked")
  /\ st' = [st EXCEPT ![p] = "plumb"]
  /\ UNCHANGED <<pos, hasNext, prog, todo, sig, wst, fd, buf>>

\* Mutant: the child does not close the read end of the pipe it writes.
ChildKeepsReadEnd(p) ==
  /\ Runs(p, "plumb")
  /\ st' = [st EXCEPT ![p] = "redir"]
  /\ fd' = [fd EXCEPT ![p] =
       [stdin  |-> IF @.prev # NoFd THEN @.prev ELSE @.stdin,
        stdout |-> IF hasNext[p] THEN @.w ELSE @.stdout,
        prev   |-> NoFd, r |-> @.r, w |-> NoFd]]
  /\ UNCHANGED <<pos, hasNext, prog, todo, sig, wst, buf>>

\* handle_child_process: prev_fd becomes stdin, the new pipe's write end
\* becomes stdout, and every inherited copy is closed.
ChildPlumb(p) ==
  /\ Runs(p, "plumb")
  /\ st' = [st EXCEPT ![p] = "redir"]
  /\ fd' = [fd EXCEPT ![p] =
       [stdin  |-> IF @.prev # NoFd THEN @.prev ELSE @.stdin,
        stdout |-> IF hasNext[p] THEN @.w ELSE @.stdout,
        prev   |-> NoFd,
        r      |-> IF hasNext[p] THEN NoFd ELSE @.r,
        w      |-> IF hasNext[p] THEN NoFd ELSE @.w]]
  /\ UNCHANGED <<pos, hasNext, prog, todo, sig, wst, buf>>

\* apply_redirections: stdin, stdout, both or neither are replaced by files,
\* or a file cannot be opened and the child exits with 1.
ChildRedirect(p) ==
  /\ Runs(p, "redir")
  /\ \/ /\ st' = [st EXCEPT ![p] = "exec"]
        /\ \E i \in {fd[p].stdin} \cup Files, o \in {fd[p].stdout} \cup Files :
             fd' = [fd EXCEPT ![p].stdin = i, ![p].stdout = o]
        /\ UNCHANGED <<pos, hasNext, prog, todo, sig, wst, buf>>
     \/ Dies(p, Exited(1))

\* What a child that runs no program exits with: 126 and 127 from
\* execute_child_cmd_path, 1 from filter_args and execve, and 0 from
\* no_command_heredoc and from command_not_found, whose 127 is overwritten.
ExecErrors == {0, 1, 126, 127}

\* handle_child_cmd_path: the builtin or the program starts, or the child exits.
ChildExec(p) ==
  /\ Runs(p, "exec")
  /\ \/ /\ st' = [st EXCEPT ![p] = "run"]
        /\ \E k \in Kinds, n \in 0..MaxOut :
             /\ k \in {"filter", "loop"} => n = 0
             /\ prog' = [prog EXCEPT ![p] = k]
             /\ todo' = [todo EXCEPT ![p] = n]
        /\ UNCHANGED <<pos, hasNext, sig, wst, fd, buf>>
     \/ \E c \in ExecErrors \cap Codes : Dies(p, Exited(c))

-----------------------------------------------------------------------------
(* The commands.  A "source" (or a builtin) writes its chunks and exits; a   *)
(* "filter" copies stdin to stdout until end of file; a "loop" never ends.   *)

ReadsPipe(p)  == fd[p].stdin \in PipeId
WritesPipe(p) == fd[p].stdout \in PipeId

Read(p) ==
  /\ Runs(p, "run") /\ prog[p] = "filter" /\ todo[p] = 0
  /\ ReadsPipe(p) /\ buf[fd[p].stdin] > 0
  /\ buf' = [buf EXCEPT ![fd[p].stdin] = @ - 1]
  /\ todo' = [todo EXCEPT ![p] = 1]
  /\ UNCHANGED <<st, pos, hasNext, prog, sig, wst, fd>>

\* A chunk goes to the pipe if it has room.  With no reader left, SIGPIPE kills
\* a program; a builtin runs with SIGPIPE ignored and its write merely fails.
Write(p) ==
  /\ Runs(p, "run") /\ todo[p] > 0
  /\ \/ /\ WritesPipe(p) => Readers(fd[p].stdout) # {} /\ buf[fd[p].stdout] < Cap
        /\ buf' = [q \in PipeId |-> IF q = fd[p].stdout THEN buf[q] + 1 ELSE buf[q]]
        /\ todo' = [todo EXCEPT ![p] = @ - 1]
        /\ UNCHANGED <<st, pos, hasNext, prog, sig, wst, fd>>
     \/ /\ WritesPipe(p) /\ Readers(fd[p].stdout) = {}
        /\ \/ prog[p] # "builtin" /\ Dies(p, Signaled(SIGPIPE))
           \/ /\ prog[p] = "builtin"
              /\ todo' = [todo EXCEPT ![p] = @ - 1]
              /\ UNCHANGED <<st, pos, hasNext, prog, sig, wst, fd, buf>>

\* End of file: the pipe is empty and no process holds its write end.  Reading
\* the terminal or a file comes to an end too.
AtEof(p) == ReadsPipe(p) => buf[fd[p].stdin] = 0 /\ Writers(fd[p].stdin) = {}

Exit(p) ==
  /\ Runs(p, "run") /\ todo[p] = 0 /\ prog[p] # "loop"
  /\ prog[p] = "filter" => AtEof(p)
  /\ \E c \in Codes : Dies(p, Exited(c))

\* The default action of the signal, or the program catches it.
Delivered(p) ==
  /\ Alive(p) /\ sig[p] # 0
  /\ \/ Dies(p, Signaled(sig[p]))
     \/ /\ st[p] = "run" /\ prog[p] \in {"source", "filter"}
        /\ sig' = [sig EXCEPT ![p] = 0]
        /\ UNCHANGED <<st, pos, hasNext, prog, todo, wst, fd, buf>>

ChildStep(p) ==
  /\ \/ ChildSignals(p) \/ ChildPlumb(p) \/ ChildRedirect(p) \/ ChildExec(p)
     \/ Read(p) \/ Write(p) \/ Exit(p) \/ Delivered(p)
  /\ UNCHANGED <<shellVars, boundVars>>

-----------------------------------------------------------------------------
(* The keyboard.  The terminal signals the whole foreground group: the shell *)
(* and every child, of whichever job.                                        *)

SignalChildren(s) ==
  sig' = [p \in Pid |-> IF Alive(p) /\ st[p] # "forked" /\ sig[p] = 0 THEN s ELSE sig[p]]

\* sigint_main and sigint_executing set g_exit_status; sigint_heredoc does not.
Sigint ==
  /\ pc \notin {"exited", "crashed"} /\ sigs < MaxSigs
  /\ status' = IF handler = "heredoc" THEN status ELSE 130
  /\ pend' = (pc = "blocked")
  /\ intr' = TRUE /\ sigs' = sigs + 1
  /\ SignalChildren(SIGINT)
  /\ UNCHANGED <<pc, loopVars, handler, cut, st, pos, hasNext, prog, todo, wst,
                 fd, buf, jobs, faults>>

\* The shell ignores SIGQUIT.
Sigquit ==
  /\ pc \notin {"exited", "crashed"} /\ sigs < MaxSigs
  /\ sigs' = sigs + 1
  /\ SignalChildren(SIGQUIT)
  /\ UNCHANGED <<shellVars, st, pos, hasNext, prog, todo, wst, fd, buf, jobs, faults>>

-----------------------------------------------------------------------------
ShellStep ==
  \/ HeredocsDone \/ (\E result \in {130, -1} : HeredocsAbandoned(result))
  \/ OpenPipe \/ PipeError \/ Fork \/ ForkError \/ ParentCloses \/ CleanList
  \/ (\E p \in Pid : WaitReap(p)) \/ WaitBlock \/ WaitInterrupted \/ WaitDone

\* The shell is gone and its children have ended.
Terminated ==
  /\ pc \in {"exited", "crashed"} /\ \A p \in Pid : ~Alive(p)
  /\ UNCHANGED vars

Next ==
  \/ \E n \in 1..MaxLen : StartJob(n)
  \/ ShellStep \/ Eof
  \/ \E p \in Pid : ChildStep(p)
  \/ Sigint \/ Sigquit
  \/ Terminated

Spec == Init /\ [][Next]_vars

\* The scheduler runs every process that can run, and the user answers a
\* heredoc and ends the input of a command that reads the terminal.  Nobody
\* has to type a command line or a signal.
FairSpec ==
  /\ Spec
  /\ WF_vars(ShellStep)
  /\ \A p \in Pid : WF_vars(ChildStep(p))

-----------------------------------------------------------------------------
Slot      == PipeId \cup {NoFd}
FdRecord  == [stdin : Slot \cup Files \cup {Tty}, stdout : Slot \cup Files \cup {Tty},
              prev : Slot, r : Slot, w : Slot]
WaitStatus == [how : {"exited"}, n : 0..255]
                \cup [how : {"signaled"}, n : {SIGINT, SIGQUIT, SIGPIPE}]

ShellTypes ==
  /\ pc \in {"prompt", "hdc", "pipe", "fork", "parent", "clean",
             "wait", "blocked", "exited", "crashed"}
  /\ len \in 0..MaxLen /\ cmd \in 1..MaxLen + 1 /\ live \subseteq 1..MaxLen
  /\ lastPid \in Pid \cup {NoPid}
  /\ handler \in {"main", "heredoc", "executing"} /\ status \in 0..255
  /\ cut \in {"none", "hdc", "fault", "eintr"}
  /\ pend \in BOOLEAN /\ intr \in BOOLEAN
ChildTypes ==
  /\ st \in [Pid -> {"free", "zombie"} \cup Unplumbed \cup Plumbed]
  /\ pos \in [Pid -> 0..MaxLen] /\ hasNext \in [Pid -> BOOLEAN]
  /\ prog \in [Pid -> Kinds \cup {"none"}] /\ todo \in [Pid -> Nat]
  /\ sig \in [Pid -> {0, SIGINT, SIGQUIT}] /\ wst \in [Pid -> WaitStatus]
KernelTypes ==
  /\ fd \in [Procs -> FdRecord] /\ buf \in [PipeId -> 0..Cap]
  /\ jobs \in Nat /\ faults \in Nat /\ sigs \in Nat

\* Type invariant: every variable has the values its declaration names; the
\* status is a byte.
TypeOK == ShellTypes /\ ChildTypes /\ KernelTypes

(* The job the user sees *)

\* Commands of the list that have not been forked, and the children's commands.
Unforked == CASE pc \in {"hdc", "pipe", "fork"} -> cmd..len
              [] pc = "parent"                  -> cmd + 1..len
              [] OTHER                          -> {}
Running  == {i \in 1..len : \E p \in Pid : Alive(p) /\ pos[p] = i}

JobPhase == CASE pc = "prompt" -> "idle"
              [] pc = "exited" -> "gone"
              [] OTHER         -> "running"

\* The last command's wait status, once its child is dead.
LastStatus ==
  IF lastPid = NoPid \/ hasNext[lastPid] \/ Alive(lastPid)
  THEN -1 ELSE StatusOf(wst[lastPid])

\* What $? can become when nobody types a signal.
Statuses == Codes \cup ExecErrors \cup {128 + SIGPIPE}

Promise == INSTANCE Job WITH
  MaxLen <- MaxLen, Status <- Statuses, None <- -1,
  phase <- JobPhase, size <- len, open <- Unforked \cup Running,
  last <- LastStatus, verdict <- status

\* The executor implements Job when no call fails and nobody interrupts
\* (MaxFaults = MaxSigs = 0): interleaved children and the shell's own loop
\* amount to commands that end in any order, then one return.
ImplementsJob == Promise!Spec

(* Safety *)

\* The status at the prompt is the last command's, however the children's
\* deaths were ordered and whatever children of earlier jobs were reaped with
\* them, unless the user interrupted the job (wait_for_children's last_pid).
StatusIsLastCommands ==
  pc = "prompt" /\ jobs > 0 /\ cut = "none" =>
    /\ pos[lastPid] = len /\ ~hasNext[lastPid]
    /\ status = StatusOf(wst[lastPid]) \/ (intr /\ status = 130)

\* A job that was not cut short leaves nothing: no child of any job, no node of
\* the list, no open pipe, and the prompt's own handler.
NothingLeft ==
  pc = "prompt" /\ cut = "none" =>
    /\ FreePids = Pid /\ FreePipes = PipeId
    /\ live = {} /\ fd[Shell] = TtyFds /\ handler = "main"

\* At the prompt the shell has the prompt's handler, except after a pipe() or
\* fork() that failed: exec_command_list then returns before set_sigint_main.
PromptHandler ==
  pc = "prompt" => handler = IF cut = "fault" THEN "executing" ELSE "main"

\* The shell holds no end of a pipe once it stops forking, on every path out of
\* the loop: an end it kept would keep readers from seeing end of file.
ShellHoldsNoPipe ==
  pc \in {"prompt", "hdc", "clean", "wait", "blocked", "exited", "crashed"} =>
    fd[Shell] = TtyFds

\* The loop's list is owned to the node: what is not freed is what is still to
\* be run, nothing leaks, and a node is freed twice only on the error paths of a
\* later command (exec_cmd_list_clean(head)).
ListOwnership ==
  /\ pc \in {"hdc", "pipe", "fork", "parent", "clean"} => live = cmd..len
  /\ pc \in {"prompt", "wait", "blocked"} /\ cut # "fault" => live = {}
  /\ pc = "crashed" => cut = "fault" /\ cmd > 1

\* A plumbed child holds nothing but its stdin and stdout, and a command that
\* has a neighbour does not have the terminal on that side.
PlumbedEnds ==
  \A p \in Pid : st[p] \in Plumbed =>
    /\ fd[p].prev = NoFd /\ fd[p].r = NoFd /\ fd[p].w = NoFd
    /\ fd[p].stdin # NoFd /\ fd[p].stdout # NoFd
    /\ pos[p] > 1 => fd[p].stdin # Tty
    /\ hasNext[p] => fd[p].stdout # Tty

\* A pipe joins a command to the next one, and never two others, although the
\* kernel gives the pipes of dead jobs again while others still run.
PipeJoinsNeighbours ==
  \A p, o \in Pid :
    (/\ st[p] \in Plumbed /\ st[o] \in Plumbed
     /\ fd[p].stdout \in PipeId /\ fd[p].stdout = fd[o].stdin)
    => hasNext[p] /\ pos[o] = pos[p] + 1

-----------------------------------------------------------------------------
(* The inductive invariant: where the loop stands says what it owns *)

InLoop  == {"pipe", "fork", "parent"}
Waiting == {"wait", "blocked"}

LoopInv ==
  /\ pc \in InLoop \cup {"hdc", "clean"} => live = cmd..len /\ cmd <= len
  /\ pc \in Waiting => live = {}
  /\ pc \in InLoop \cup Waiting \cup {"hdc"} => cut = "none"
  /\ pc = "hdc" => cmd = 1
  /\ pc = "clean" => cut = "fault"
  /\ pc = "prompt" /\ cut # "fault" => live = {}
  /\ pc = "crashed" => cut = "fault" /\ cmd > 1
HandlerInv ==
  /\ pc = "prompt" => handler = IF cut = "fault" THEN "executing" ELSE "main"
  /\ pc = "hdc" => handler = "heredoc"
  /\ pc \in InLoop \cup Waiting \cup {"clean"} => handler = "executing"
\* Between two commands the shell holds the read end of the pipe behind it, and
\* across a fork both ends of the pipe ahead.
ShellFdInv ==
  LET f == fd[Shell] IN
  /\ f.stdin = Tty /\ f.stdout = Tty
  /\ pc \notin InLoop => f = TtyFds
  /\ pc = "pipe" => f.r = NoFd /\ f.w = NoFd
  /\ pc \in InLoop => f.prev \in IF cmd > 1 THEN PipeId ELSE {NoFd}
  /\ pc \in {"fork", "parent"} =>
       IF cmd < len THEN f.r = f.w /\ f.w \in PipeId ELSE f.r = NoFd /\ f.w = NoFd
\* last_pid names the child of the command forked last, which cannot be reaped
\* before the loop ends.
LastPidInv ==
  /\ pc = "parent" =>
       /\ lastPid \in Pid /\ st[lastPid] # "free"
       /\ pos[lastPid] = cmd /\ hasNext[lastPid] = (cmd < len)
  /\ pc \in Waiting \/ (pc = "prompt" /\ jobs > 0 /\ cut = "none") =>
       /\ lastPid \in Pid /\ pos[lastPid] = len /\ ~hasNext[lastPid]
       /\ \/ st[lastPid] # "free" /\ pc # "prompt"
          \/ status = StatusOf(wst[lastPid])
          \/ intr /\ status = 130
ReapedInv == pc = "prompt" /\ cut = "none" => FreePids = Pid

\* A child holds the shell's copies until it has plumbed itself, then its own
\* two ends; a dead process holds nothing.
Unplugged(p) ==
  /\ fd[p].stdin = Tty /\ fd[p].stdout = Tty
  /\ fd[p].prev \in IF pos[p] > 1 THEN PipeId ELSE {NoFd}
  /\ IF hasNext[p] THEN fd[p].r = fd[p].w /\ fd[p].w \in PipeId
                   ELSE fd[p].r = NoFd /\ fd[p].w = NoFd
Plugged(p) ==
  /\ fd[p].prev = NoFd /\ fd[p].r = NoFd /\ fd[p].w = NoFd
  /\ fd[p].stdin \in Files \cup IF pos[p] > 1 THEN PipeId ELSE {Tty}
  /\ fd[p].stdout \in Files \cup IF hasNext[p] THEN PipeId ELSE {Tty}
ChildFdInv ==
  \A p \in Pid :
    /\ ~Alive(p) => fd[p] = ClosedFds
    /\ st[p] \in Unplumbed => Unplugged(p)
    /\ st[p] \in Plumbed => Plugged(p)

\* Every end of a pipe, copies included, belongs to one joint of one list: the
\* joint after command i, for its writer's end and for the read end opened with
\* it, the joint before it for prev_fd and what becomes stdin.
Slots == {"stdin", "stdout", "prev", "r", "w"}
Joint(p, slot) == (IF p = Shell THEN cmd ELSE pos[p])
                  - (IF slot \in {"stdin", "prev"} THEN 1 ELSE 0)
JointInv ==
  \A p, o \in Procs : \A a, b \in Slots :
    fd[p][a] \in PipeId /\ fd[o][b] = fd[p][a] => Joint(p, a) = Joint(o, b)

IInv == /\ TypeOK /\ LoopInv /\ HandlerInv /\ ShellFdInv /\ LastPidInv /\ ReapedInv
        /\ ChildFdInv /\ JointInv

(* The inductive invariant of a shell that nobody interrupts and to which the
   kernel gives all it asks for: every process that is not free belongs to the
   current job, and the children are numbered in the order of their forks. *)

Quiet == sigs = 0 /\ cut # "fault"

\* Commands that have been forked.
Forked == CASE pc \in {"hdc", "pipe", "fork"} -> cmd - 1
            [] pc = "parent"                  -> cmd
            [] OTHER                          -> len

NoSignal == /\ ~pend /\ ~intr /\ cut # "eintr"
            /\ \A p \in Pid : sig[p] = 0 /\ StatusOf(wst[p]) \in Statuses
Settled  == pc \in {"prompt", "hdc", "exited"} => FreePids = Pid
\* One child for each command, which knows whether it is the last one.
Numbered == \A p \in Pid :
  /\ pos[p] \in 0..Forked /\ (pos[p] = 0 => st[p] = "free")
  /\ pos[p] # 0 => hasNext[p] = (pos[p] < len)
  /\ \A o \in Pid : pos[o] = pos[p] /\ pos[p] # 0 => o = p
\* Nobody is reaped before the loop ends.
Unreaped == pc \in InLoop \cup {"hdc"} =>
  /\ \A p \in Pid : st[p] = "free" <=> pos[p] = 0
  /\ pc # "parent" => lastPid = NoPid \/ hasNext[lastPid]
  /\ pc = "hdc" => lastPid = NoPid

QuietInv == NoSignal /\ Settled /\ Numbered /\ Unreaped

\* The ends that belong to one joint are ends of one pipe.
JointPipe ==
  \A p, o \in Procs : \A a, b \in Slots :
    fd[p][a] \in PipeId /\ fd[o][b] \in PipeId /\ Joint(p, a) = Joint(o, b)
    => fd[o][b] = fd[p][a]

\* Nobody interrupts and no call fails, nobody is reaped early, the children are
\* numbered as they were forked, and a joint is one pipe: what the executor relies
\* on where it does what Job promises.
QuietJob == Quiet /\ QuietInv /\ JointPipe

-----------------------------------------------------------------------------
(* Liveness, under FairSpec *)

\* Every command line comes back to the prompt (or the shell dies of the double
\* free): no order of closing the ends leaves the shell waiting for a child
\* that waits for an end of file.
JobReturns == pc \notin {"prompt", "exited"} ~> pc \in {"prompt", "crashed"}

\* Every child ends, those of an abandoned or interrupted job too.
ChildrenEnd == \A p \in Pid : Alive(p) ~> ~Alive(p)

-----------------------------------------------------------------------------
(* What the manual tests ask for and the code does not do *)

\* "Check if there isn't a zombie process called `cat`" after a pipeline
\* (minishell_tester/manual_tests/mandatory:22).  An interrupted wait() leaves
\* dead children unreaped at the prompt.
NoZombieAtPrompt == pc = "prompt" => Zombies = {}

\* A pipeline with a command that never ends finishes with Ctrl+C
\* (minishell_tester/manual_tests/signals:26-28 and 32-34).  A SIGINT that comes
\* before the command has been forked, or before its child has reset the
\* signal, ends nothing: the loop looks at no flag, and the child only notes it.
CtrlCReturns == (intr /\ pc # "prompt") ~> pc \in {"prompt", "crashed"}

=============================================================================
