--------------------------- MODULE PipelineProofs ---------------------------
(***************************************************************************)
(* What is proved of Pipeline for every number of processes, pipes,        *)
(* commands, jobs, faults and signals.  The invariant is IInv: TypeOK is   *)
(* not inductive without LoopInv (cmd stays in 1..len + 1 because the loop *)
(* stops at NULL), and the safety properties are parts of IInv or follow   *)
(* from it.                                                                *)
(***************************************************************************)
EXTENDS Pipeline, TLAPS

USE DEF SIGINT, SIGQUIT, SIGPIPE

\* The bounds are numbers; no identifier is two things.
LEMMA Bounds ==
  /\ MaxLen \in Nat /\ MaxLen > 0 /\ MaxOut \in Nat /\ Cap \in Nat /\ Cap > 0
  /\ NoFd \notin PipeId /\ Tty \notin PipeId /\ NoFd # Tty
  /\ Shell \notin Pid /\ NoPid \notin Pid
BY PipelineAssumption

\* Every value that becomes g_exit_status is a byte.
LEMMA StatusIsByte ==
  ASSUME NEW w \in WaitStatus
  PROVE  StatusOf(w) \in 0..255
BY DEF WaitStatus, StatusOf

\* The wait statuses that a dead child can have.
LEMMA DeadStatus ==
  /\ \A c \in 0..255 : Exited(c) \in WaitStatus
  /\ \A s \in {SIGINT, SIGQUIT, SIGPIPE} : Signaled(s) \in WaitStatus
BY DEF Exited, Signaled, WaitStatus

\* The descriptors of the shell outside the loop, and of a process that is dead.
LEMMA FixedFds == TtyFds \in FdRecord /\ ClosedFds \in FdRecord
BY DEF TtyFds, ClosedFds, FdRecord, Slot

-----------------------------------------------------------------------------
(* The initial state *)

LEMMA InitInv == Init => IInv
<1> SUFFICES ASSUME Init PROVE IInv
  OBVIOUS
<1>1. ShellTypes
  <2>1. 1 \in 1..MaxLen + 1 /\ 0 \in 0..MaxLen
    BY Bounds
  <2>2. pend \in BOOLEAN /\ intr \in BOOLEAN
    BY DEF Init
  <2> QED
    BY <2>1, <2>2 DEF Init, ShellTypes
<1>2. ChildTypes
  <2>1. wst \in [Pid -> WaitStatus]
    BY DeadStatus DEF Init
  <2>2. pos \in [Pid -> 0..MaxLen]
    BY Bounds DEF Init
  <2>3. hasNext \in [Pid -> BOOLEAN]
    BY DEF Init
  <2>4. /\ st \in [Pid -> {"free", "zombie"} \cup Unplumbed \cup Plumbed]
        /\ prog \in [Pid -> Kinds \cup {"none"}] /\ todo \in [Pid -> Nat]
        /\ sig \in [Pid -> {0, SIGINT, SIGQUIT}]
    BY DEF Init
  <2> QED
    BY <2>1, <2>2, <2>3, <2>4 DEF ChildTypes
<1>3. KernelTypes
  BY Bounds, FixedFds DEF Init, KernelTypes
<1>4. LoopInv /\ HandlerInv
  BY DEF Init, LoopInv, HandlerInv, InLoop, Waiting
<1>5. ShellFdInv
  BY DEF Init, ShellFdInv, Procs, TtyFds, InLoop
<1>6. LastPidInv /\ ReapedInv
  BY DEF Init, LastPidInv, ReapedInv, Waiting, FreePids
<1>7. ChildFdInv
  BY Bounds DEF Init, ChildFdInv, Procs, Alive, Unplumbed, Plumbed
<1>8. JointInv
  <2>1. \A p \in Procs : fd[p] \in {TtyFds, ClosedFds}
    BY DEF Init
  <2> QED
    BY <2>1, Bounds DEF JointInv, Slots, TtyFds, ClosedFds
<1> QED
  BY <1>1, <1>2, <1>3, <1>4, <1>5, <1>6, <1>7, <1>8 DEF IInv, TypeOK

-----------------------------------------------------------------------------
(* A step of a child *)

\* Death keeps the types.
LEMMA DiesTypes ==
  ASSUME ChildTypes, KernelTypes, NEW p \in Pid, NEW w \in WaitStatus, Dies(p, w)
  PROVE  ChildTypes' /\ fd' \in [Procs -> FdRecord] /\ buf' \in [PipeId -> 0..Cap]
BY FixedFds DEF ChildTypes, KernelTypes, Dies, Procs

\* Whatever a child does, its types are kept.
LEMMA ChildStepTypes ==
  ASSUME ChildTypes, KernelTypes, NEW p \in Pid, ChildStep(p)
  PROVE  ChildTypes' /\ KernelTypes'
<1>1. ChildTypes' /\ fd' \in [Procs -> FdRecord] /\ buf' \in [PipeId -> 0..Cap]
  <2>1. CASE ChildSignals(p)
    BY <2>1 DEF ChildSignals, ChildTypes, KernelTypes, Unplumbed
  <2>2. CASE ChildPlumb(p)
    BY <2>2 DEF ChildPlumb, ChildTypes, KernelTypes, Plumbed, Procs, FdRecord, Slot
  <2>3. CASE ChildRedirect(p)
    <3>1. CASE Dies(p, Exited(1))
      BY <3>1, DiesTypes, DeadStatus
    <3>2. ASSUME NEW i \in {fd[p].stdin} \cup Files, NEW o \in {fd[p].stdout} \cup Files,
                 st' = [st EXCEPT ![p] = "exec"],
                 fd' = [fd EXCEPT ![p].stdin = i, ![p].stdout = o],
                 UNCHANGED <<pos, hasNext, prog, todo, sig, wst, buf>>
          PROVE  ChildTypes' /\ fd' \in [Procs -> FdRecord] /\ buf' \in [PipeId -> 0..Cap]
      <4>1. [fd[p] EXCEPT !.stdin = i, !.stdout = o] \in FdRecord
        <5>1. PICK f \in FdRecord : f = fd[p]
          BY DEF KernelTypes, Procs
        <5>2. i \in Slot \cup Files \cup {Tty} /\ o \in Slot \cup Files \cup {Tty}
          BY <5>1 DEF FdRecord
        <5>3. [f EXCEPT !.stdin = i, !.stdout = o] \in FdRecord
          BY <5>2 DEF FdRecord
        <5> QED BY <5>1, <5>3
      <4>2. fd' = [fd EXCEPT ![p] = [fd[p] EXCEPT !.stdin = i, !.stdout = o]]
        BY <3>2
      <4>3. fd' \in [Procs -> FdRecord] /\ buf' \in [PipeId -> 0..Cap]
        BY <3>2, <4>1, <4>2 DEF KernelTypes
      <4>4. ChildTypes'
        BY <3>2 DEF ChildTypes, Plumbed
      <4> QED BY <4>3, <4>4
    <3> QED
      BY <2>3, <3>1, <3>2 DEF ChildRedirect
  <2>4. CASE ChildExec(p)
    BY <2>4, DiesTypes, DeadStatus DEF ChildExec, ChildTypes, KernelTypes, Plumbed, ExecErrors
  <2>5. CASE Read(p)
    BY <2>5, Bounds DEF Read, ReadsPipe, ChildTypes, KernelTypes
  <2>6. CASE Write(p)
    BY <2>6, Bounds, DiesTypes, DeadStatus DEF Write, WritesPipe, ChildTypes, KernelTypes
  <2>7. CASE Exit(p)
    BY <2>7, DiesTypes, DeadStatus, PipelineAssumption DEF Exit
  <2>8. CASE Delivered(p)
    BY <2>8, DiesTypes, DeadStatus DEF Delivered, ChildTypes, KernelTypes
  <2> QED
    BY <2>1, <2>2, <2>3, <2>4, <2>5, <2>6, <2>7, <2>8 DEF ChildStep
<1> QED
  BY <1>1 DEF ChildStep, boundVars, KernelTypes

\* What a child cannot touch: the shell's descriptors and variables, which
\* children there are, and what they were started for.
LEMMA ChildFrame ==
  ASSUME TypeOK, NEW p \in Pid, ChildStep(p)
  PROVE  /\ UNCHANGED shellVars /\ UNCHANGED boundVars
         /\ fd'[Shell] = fd[Shell] /\ pos' = pos /\ hasNext' = hasNext
         /\ \A o \in Pid : (st'[o] = "free") <=> (st[o] = "free")
         /\ \A o \in Pid : st[o] = "free" => wst'[o] = wst[o]
<1>1. UNCHANGED shellVars /\ UNCHANGED boundVars
  BY DEF ChildStep
<1>2. st[p] # "free" /\ pos' = pos /\ hasNext' = hasNext
  BY DEF ChildStep, ChildSignals, ChildPlumb, ChildRedirect, ChildExec, Read, Write, Exit,
         Delivered, Dies, Runs, Alive, Unplumbed, Plumbed
<1>3. /\ fd' = fd \/ \E f : fd' = [fd EXCEPT ![p] = f]
      /\ st' = st \/ \E s \in {"plumb", "redir", "exec", "run", "zombie"} :
                        st' = [st EXCEPT ![p] = s]
      /\ wst' = wst \/ \E w : wst' = [wst EXCEPT ![p] = w]
  BY DEF ChildStep, ChildSignals, ChildPlumb, ChildRedirect, ChildExec, Read, Write, Exit,
         Delivered, Dies
<1>4. fd'[Shell] = fd[Shell]
  BY <1>3, Bounds DEF TypeOK, KernelTypes, Procs
<1> QED
  BY <1>1, <1>2, <1>3, <1>4 DEF TypeOK, ChildTypes

\* Ends that are closed, copied or moved along with their joint.
EndsKept ==
  \A p \in Procs, a \in Slots : fd'[p][a] \in PipeId =>
    \E o \in Procs, b \in Slots : fd[o][b] = fd'[p][a] /\ Joint(o, b) = Joint(p, a)'

\* They leave every pipe to its joint, and every joint to its pipe.
LEMMA JointMoves ==
  ASSUME EndsKept
  PROVE  (JointInv => JointInv') /\ (JointPipe => JointPipe')
<1>1. ASSUME JointInv, NEW p \in Procs, NEW o \in Procs, NEW a \in Slots, NEW b \in Slots,
             fd'[p][a] \in PipeId, fd'[o][b] = fd'[p][a]
      PROVE  Joint(p, a)' = Joint(o, b)'
  <2>1. PICK p1 \in Procs, a1 \in Slots : fd[p1][a1] = fd'[p][a] /\ Joint(p1, a1) = Joint(p, a)'
    BY <1>1 DEF EndsKept
  <2>2. PICK o1 \in Procs, b1 \in Slots : fd[o1][b1] = fd'[o][b] /\ Joint(o1, b1) = Joint(o, b)'
    BY <1>1 DEF EndsKept
  <2> QED
    BY <1>1, <2>1, <2>2 DEF JointInv
<1>2. ASSUME JointPipe, NEW p \in Procs, NEW o \in Procs, NEW a \in Slots, NEW b \in Slots,
             fd'[p][a] \in PipeId, fd'[o][b] \in PipeId, Joint(p, a)' = Joint(o, b)'
      PROVE  fd'[o][b] = fd'[p][a]
  <2>1. PICK p1 \in Procs, a1 \in Slots : fd[p1][a1] = fd'[p][a] /\ Joint(p1, a1) = Joint(p, a)'
    BY <1>2 DEF EndsKept
  <2>2. PICK o1 \in Procs, b1 \in Slots : fd[o1][b1] = fd'[o][b] /\ Joint(o1, b1) = Joint(o, b)'
    BY <1>2 DEF EndsKept
  <2> QED
    BY <1>2, <2>1, <2>2 DEF JointPipe
<1> QED
  BY <1>1, <1>2 DEF JointInv, JointPipe

\* A child plumbs itself with the shell's copies and then holds its own two ends.
LEMMA ChildStepFds ==
  ASSUME TypeOK, ChildFdInv, NEW p \in Pid, ChildStep(p)
  PROVE  ChildFdInv'
<1> USE Bounds DEF TypeOK, ChildTypes, KernelTypes, Procs
<1>1. \A o \in Pid \ {p} : fd'[o] = fd[o] /\ st'[o] = st[o]
  BY DEF ChildStep, ChildSignals, ChildPlumb, ChildRedirect, ChildExec, Read, Write, Exit,
         Delivered, Dies
<1>2. pos' = pos /\ hasNext' = hasNext
  BY DEF ChildStep, ChildSignals, ChildPlumb, ChildRedirect, ChildExec, Read, Write, Exit,
         Delivered, Dies
<1>3. ASSUME NEW w, Dies(p, w)
      PROVE  fd'[p] = ClosedFds /\ st'[p] = "zombie"
  BY <1>3 DEF Dies
<1>4. \/ fd'[p] = ClosedFds /\ st'[p] = "zombie"
      \/ st'[p] \in Unplumbed /\ Unplugged(p)'
      \/ st'[p] \in Plumbed /\ Plugged(p)'
  <2>1. CASE ChildSignals(p)
    BY <2>1 DEF ChildSignals, Runs, ChildFdInv, Unplumbed, Unplugged
  <2>2. CASE ChildPlumb(p)
    <3>1. /\ fd'[p] = [stdin  |-> IF fd[p].prev # NoFd THEN fd[p].prev ELSE fd[p].stdin,
                      stdout |-> IF hasNext[p] THEN fd[p].w ELSE fd[p].stdout,
                      prev   |-> NoFd,
                      r      |-> IF hasNext[p] THEN NoFd ELSE fd[p].r,
                      w      |-> IF hasNext[p] THEN NoFd ELSE fd[p].w]
          /\ st'[p] = "redir"
      BY <2>2 DEF ChildPlumb
    <3>2. Unplugged(p)
      BY <2>2 DEF ChildPlumb, Runs, ChildFdInv, Unplumbed
    <3> QED
      BY <1>2, <3>1, <3>2 DEF Unplugged, Plugged, Plumbed
  <2>3. CASE ChildRedirect(p)
    <3>1. CASE Dies(p, Exited(1))
      BY <1>3, <3>1
    <3>2. ASSUME NEW i \in {fd[p].stdin} \cup Files, NEW o \in {fd[p].stdout} \cup Files,
                 st' = [st EXCEPT ![p] = "exec"],
                 fd' = [fd EXCEPT ![p].stdin = i, ![p].stdout = o]
          PROVE  st'[p] \in Plumbed /\ Plugged(p)'
      <4>1. fd'[p] = [fd[p] EXCEPT !.stdin = i, !.stdout = o] /\ st'[p] = "exec"
        BY <3>2
      <4>2. Plugged(p)
        BY <2>3 DEF ChildRedirect, Runs, ChildFdInv, Plumbed
      <4> QED
        BY <1>2, <4>1, <4>2 DEF Plugged, Plumbed, FdRecord
    <3> QED
      BY <2>3, <3>1, <3>2 DEF ChildRedirect
  <2>4. CASE ChildExec(p)
    BY <1>2, <1>3, <2>4 DEF ChildExec, Runs, ChildFdInv, Plumbed, Plugged
  <2>5. CASE Read(p)
    BY <1>2, <2>5 DEF Read, Runs, ChildFdInv, Plumbed, Plugged
  <2>6. CASE Write(p)
    BY <1>2, <1>3, <2>6 DEF Write, Runs, ChildFdInv, Plumbed, Plugged
  <2>7. CASE Exit(p)
    BY <1>3, <2>7 DEF Exit
  <2>8. CASE Delivered(p)
    BY <1>2, <1>3, <2>8
    DEF Delivered, Alive, ChildFdInv, Plumbed, Unplumbed, Plugged, Unplugged
  <2> QED
    BY <2>1, <2>2, <2>3, <2>4, <2>5, <2>6, <2>7, <2>8 DEF ChildStep
<1> QED
  BY <1>1, <1>2, <1>4
  DEF ChildFdInv, Alive, Unplumbed, Plumbed, Unplugged, Plugged

\* No end changes its joint when a child acts.
LEMMA ChildStepEnds ==
  ASSUME TypeOK, ChildFdInv, NEW p \in Pid, ChildStep(p)
  PROVE  EndsKept
<1> USE Bounds DEF TypeOK, ChildTypes, KernelTypes
<1>1. cmd' = cmd /\ pos' = pos
  BY ChildFrame DEF shellVars, loopVars
<1>2. \A o \in Procs \ {p} : fd'[o] = fd[o]
  <2> SUFFICES ASSUME NEW o \in Procs, o # p PROVE fd'[o] = fd[o]
    OBVIOUS
  <2>1. ASSUME NEW w, Dies(p, w) PROVE fd'[o] = fd[o]
    BY <2>1 DEF Dies
  <2>2. CASE ChildSignals(p) \/ ChildPlumb(p) \/ ChildRedirect(p)
    BY <2>1, <2>2 DEF ChildSignals, ChildPlumb, ChildRedirect
  <2>3. CASE ChildExec(p) \/ Read(p) \/ Write(p)
    BY <2>1, <2>3 DEF ChildExec, Read, Write
  <2>4. CASE Exit(p) \/ Delivered(p)
    BY <2>1, <2>4 DEF Exit, Delivered
  <2> QED BY <2>2, <2>3, <2>4 DEF ChildStep
<1>3. p \in Procs /\ fd[p] \in FdRecord
  BY DEF Procs
<1>4. ASSUME NEW w, Dies(p, w) PROVE \A a \in Slots : fd'[p][a] = NoFd
  BY <1>3, <1>4 DEF Dies, ClosedFds, Slots
<1>5. \A a \in Slots : fd'[p][a] \in PipeId =>
         \/ fd'[p][a] = fd[p][a]
         \/ a = "stdin" /\ fd'[p][a] = fd[p]["prev"]
         \/ a = "stdout" /\ fd'[p][a] = fd[p]["w"]
  <2>1. CASE ChildPlumb(p)
    BY <1>3, <2>1 DEF ChildPlumb, Slots
  <2>2. CASE ChildRedirect(p)
    <3>1. ASSUME NEW i \in {fd[p].stdin} \cup Files, NEW o \in {fd[p].stdout} \cup Files,
                 fd' = [fd EXCEPT ![p].stdin = i, ![p].stdout = o]
          PROVE  \A a \in Slots : fd'[p][a] \in PipeId => fd'[p][a] = fd[p][a]
      <4>1. fd'[p] = [fd[p] EXCEPT !.stdin = i, !.stdout = o]
        BY <1>3, <3>1
      <4>2. Files \cap PipeId = {}
        BY PipelineAssumption
      <4> QED
        BY <1>3, <3>1, <4>1, <4>2 DEF Slots, FdRecord
    <3> QED
      BY <1>4, <2>2, <3>1 DEF ChildRedirect
  <2>3. CASE fd' = fd
    BY <2>3
  <2>4. CASE \E w : Dies(p, w)
    BY <1>4, <2>4
  <2> QED
    BY <2>1, <2>2, <2>3, <2>4 DEF ChildStep, ChildSignals, ChildExec, Read, Write, Exit, Delivered
<1>6. \A o \in Procs, a \in Slots : Joint(o, a)' = Joint(o, a)
  BY <1>1 DEF Joint
<1>7. Joint(p, "stdin") = Joint(p, "prev") /\ Joint(p, "stdout") = Joint(p, "w")
  BY DEF Joint
<1> QED
  BY <1>2, <1>3, <1>5, <1>6, <1>7 DEF Slots, EndsKept

-----------------------------------------------------------------------------
(* A step of the shell or of the keyboard: one lemma for each part of IInv *)

OutsideStep ==
  (\E n \in 1..MaxLen : StartJob(n)) \/ ShellStep \/ Eof \/ Sigint \/ Sigquit

\* The shell's variables keep their types.  The loop needs LoopInv: it stops at the
\* end of the list.
LEMMA ShellTypesStep ==
  ASSUME IInv, OutsideStep
  PROVE  ShellTypes'
<1> USE Bounds DEF IInv, TypeOK, ShellTypes, loopVars
<1>1. ASSUME NEW n \in 1..MaxLen, StartJob(n) PROVE ShellTypes'
  <2>1. intr' = FALSE /\ pend' = pend
    BY <1>1 DEF StartJob
  <2>2. 1..n \subseteq 1..MaxLen /\ 1 \in 1..MaxLen + 1 /\ n \in 0..MaxLen
    OBVIOUS
  <2> QED
    BY <1>1, <2>1, <2>2 DEF StartJob
<1>2. CASE HeredocsDone
  BY <1>2 DEF HeredocsDone
<1>3. ASSUME NEW result \in {130, -1}, HeredocsAbandoned(result) PROVE ShellTypes'
  BY <1>3 DEF HeredocsAbandoned
<1>4. CASE OpenPipe
  BY <1>4 DEF OpenPipe
<1>5. CASE PipeError
  BY <1>5 DEF PipeError, Fails
<1>6. CASE Fork
  BY <1>6 DEF Fork, FreePids
<1>7. CASE ForkError
  BY <1>7 DEF ForkError, Fails
<1>8. CASE ParentCloses
  BY <1>8 DEF ParentCloses, LoopInv, InLoop
<1>9. CASE CleanList
  BY <1>9 DEF CleanList
<1>10. ASSUME NEW p \in Pid, WaitReap(p) PROVE ShellTypes'
  BY <1>10, StatusIsByte DEF WaitReap, ChildTypes
<1>11. CASE WaitBlock
  BY <1>11 DEF WaitBlock
<1>12. CASE WaitInterrupted
  <2>1. pend' = FALSE /\ intr' = intr
    BY <1>12 DEF WaitInterrupted
  <2> QED
    BY <1>12, <2>1 DEF WaitInterrupted, BackToPrompt
<1>13. CASE WaitDone
  BY <1>13 DEF WaitDone, BackToPrompt
<1>14. CASE Eof
  BY <1>14 DEF Eof
<1>15. CASE Sigint
  BY <1>15 DEF Sigint
<1>16. CASE Sigquit
  BY <1>16 DEF Sigquit, shellVars
<1> QED
  BY <1>1, <1>2, <1>3, <1>4, <1>5, <1>6, <1>7, <1>8,
     <1>9, <1>10, <1>11, <1>12, <1>13, <1>14, <1>15, <1>16 DEF OutsideStep, ShellStep

\* So do the children's, which the shell changes by fork() and wait() alone, and the
\* keyboard by signals.
LEMMA ChildTypesStep ==
  ASSUME IInv, OutsideStep
  PROVE  ChildTypes'
<1> USE Bounds DEF IInv, TypeOK, ChildTypes, childVars
<1>1. ASSUME NEW n \in 1..MaxLen, StartJob(n) PROVE ChildTypes'
  <2>1. wst' \in [Pid -> WaitStatus]
    BY <1>1, DeadStatus DEF StartJob, Forget
  <2>2. pos' \in [Pid -> 0..MaxLen]
    BY <1>1 DEF StartJob, Forget
  <2>3. hasNext' \in [Pid -> BOOLEAN]
    BY <1>1 DEF StartJob, Forget
  <2> QED
    BY <1>1, <2>1, <2>2, <2>3 DEF StartJob
<1>2. CASE HeredocsDone
  BY <1>2 DEF HeredocsDone
<1>3. ASSUME NEW result \in {130, -1}, HeredocsAbandoned(result) PROVE ChildTypes'
  BY <1>3 DEF HeredocsAbandoned
<1>4. CASE OpenPipe
  BY <1>4 DEF OpenPipe
<1>5. CASE PipeError
  BY <1>5 DEF PipeError, Fails
<1>6. CASE Fork
  BY <1>6 DEF Fork, FreePids, Unplumbed, ShellTypes, LoopInv, InLoop
<1>7. CASE ForkError
  BY <1>7 DEF ForkError, Fails
<1>8. CASE ParentCloses
  BY <1>8 DEF ParentCloses
<1>9. CASE CleanList
  BY <1>9 DEF CleanList
<1>10. ASSUME NEW p \in Pid, WaitReap(p) PROVE ChildTypes'
  BY <1>10 DEF WaitReap
<1>11. CASE WaitBlock
  BY <1>11 DEF WaitBlock
<1>12. CASE WaitInterrupted
  BY <1>12 DEF WaitInterrupted, BackToPrompt
<1>13. CASE WaitDone
  BY <1>13 DEF WaitDone, BackToPrompt
<1>14. CASE Eof
  BY <1>14 DEF Eof
<1>15. CASE Sigint
  BY <1>15 DEF Sigint, SignalChildren
<1>16. CASE Sigquit
  BY <1>16 DEF Sigquit, SignalChildren
<1> QED
  BY <1>1, <1>2, <1>3, <1>4, <1>5, <1>6, <1>7, <1>8,
     <1>9, <1>10, <1>11, <1>12, <1>13, <1>14, <1>15, <1>16 DEF OutsideStep, ShellStep

\* What pipe() and the parent after fork() do to a set of descriptors.
LEMMA SlotsSet ==
  ASSUME NEW f \in FdRecord, NEW q \in Slot
  PROVE  [f EXCEPT !.r = q, !.w = q] \in FdRecord
BY DEF FdRecord

LEMMA SlotsEmptied ==
  ASSUME NEW f \in FdRecord
  PROVE  [f EXCEPT !.prev = IF f.w # NoFd THEN f.r ELSE NoFd, !.r = NoFd, !.w = NoFd] \in FdRecord
<1> DEFINE p == IF f.w # NoFd THEN f.r ELSE NoFd
<1>1. p \in Slot /\ NoFd \in Slot
  BY DEF FdRecord, Slot
<1> HIDE DEF p
<1>2. [f EXCEPT !.prev = p, !.r = NoFd, !.w = NoFd] \in FdRecord
  BY <1>1 DEF FdRecord
<1> QED BY <1>2 DEF p

\* And the descriptors, the pipes and the counters.
LEMMA KernelTypesStep ==
  ASSUME IInv, OutsideStep
  PROVE  KernelTypes'
<1> USE Bounds DEF IInv, TypeOK, KernelTypes, boundVars
<1>1. ASSUME NEW n \in 1..MaxLen, StartJob(n) PROVE KernelTypes'
  BY <1>1 DEF StartJob
<1>2. CASE HeredocsDone
  BY <1>2 DEF HeredocsDone
<1>3. ASSUME NEW result \in {130, -1}, HeredocsAbandoned(result) PROVE KernelTypes'
  BY <1>3 DEF HeredocsAbandoned
<1>4. CASE OpenPipe
  <2>1. CASE cmd < len
    <3>1. PICK q \in PipeId : /\ fd' = [fd EXCEPT ![Shell].r = q, ![Shell].w = q]
                             /\ buf' = [buf EXCEPT ![q] = 0]
      <4>1. cmd # len
        BY <2>1 DEF ShellTypes
      <4> QED
        BY <1>4, <4>1, Zenon DEF OpenPipe, FreePipes
    <3>2. fd' = [fd EXCEPT ![Shell] = [fd[Shell] EXCEPT !.r = q, !.w = q]]
      BY <3>1
    <3>3. [fd[Shell] EXCEPT !.r = q, !.w = q] \in FdRecord
      <4>1. fd[Shell] \in FdRecord /\ q \in Slot
        BY DEF Slot, Procs
      <4> QED BY <4>1, SlotsSet
    <3>4. fd' \in [Procs -> FdRecord]
      BY <3>2, <3>3
    <3>5. buf' \in [PipeId -> 0..Cap]
      BY <3>1
    <3> QED
      BY <1>4, <3>4, <3>5 DEF OpenPipe
  <2>2. CASE ~(cmd < len)
    BY <1>4, <2>2 DEF OpenPipe
  <2> QED
    BY <2>1, <2>2
<1>5. CASE PipeError
  BY <1>5 DEF PipeError, Fails, FdRecord, Slot, Procs
<1>6. CASE Fork
  BY <1>6 DEF Fork, FreePids, Procs
<1>7. CASE ForkError
  BY <1>7, FixedFds DEF ForkError, Fails, Procs
<1>8. CASE ParentCloses
  <2> DEFINE e == [fd[Shell] EXCEPT
                     !.prev = IF fd[Shell].w # NoFd THEN fd[Shell].r ELSE NoFd,
                     !.r = NoFd, !.w = NoFd]
  <2>1. e \in FdRecord
    <3>1. fd[Shell] \in FdRecord
      BY DEF Procs
    <3> QED BY <3>1, SlotsEmptied
  <2>2. fd' = [fd EXCEPT ![Shell] = e] /\ UNCHANGED <<buf, jobs, faults, sigs>>
    BY <1>8 DEF ParentCloses
  <2> HIDE DEF e
  <2> QED
    BY <2>1, <2>2
<1>9. CASE CleanList
  BY <1>9 DEF CleanList
<1>10. ASSUME NEW p \in Pid, WaitReap(p) PROVE KernelTypes'
  BY <1>10 DEF WaitReap
<1>11. CASE WaitBlock
  BY <1>11 DEF WaitBlock
<1>12. CASE WaitInterrupted
  BY <1>12 DEF WaitInterrupted, BackToPrompt
<1>13. CASE WaitDone
  BY <1>13 DEF WaitDone, BackToPrompt
<1>14. CASE Eof
  BY <1>14 DEF Eof
<1>15. CASE Sigint
  BY <1>15 DEF Sigint
<1>16. CASE Sigquit
  BY <1>16 DEF Sigquit, shellVars
<1> QED
  BY <1>1, <1>2, <1>3, <1>4, <1>5, <1>6, <1>7, <1>8,
     <1>9, <1>10, <1>11, <1>12, <1>13, <1>14, <1>15, <1>16 DEF OutsideStep, ShellStep

\* The loop frees each node as it passes it, and every way out frees the rest.
LEMMA LoopStep ==
  ASSUME IInv, OutsideStep
  PROVE  LoopInv'
<1> USE Bounds DEF IInv, TypeOK, ShellTypes, LoopInv, InLoop, Waiting, loopVars
<1>1. ASSUME NEW n \in 1..MaxLen, StartJob(n) PROVE LoopInv'
  BY <1>1 DEF StartJob
<1>2. CASE HeredocsDone
  BY <1>2 DEF HeredocsDone
<1>3. ASSUME NEW result \in {130, -1}, HeredocsAbandoned(result) PROVE LoopInv'
  BY <1>3 DEF HeredocsAbandoned
<1>4. CASE OpenPipe
  BY <1>4 DEF OpenPipe
<1>5. CASE PipeError
  BY <1>5 DEF PipeError
<1>6. CASE Fork
  BY <1>6 DEF Fork
<1>7. CASE ForkError
  BY <1>7 DEF ForkError
<1>8. CASE ParentCloses
  BY <1>8 DEF ParentCloses
<1>9. CASE CleanList
  BY <1>9 DEF CleanList
<1>10. ASSUME NEW p \in Pid, WaitReap(p) PROVE LoopInv'
  BY <1>10 DEF WaitReap
<1>11. CASE WaitBlock
  BY <1>11 DEF WaitBlock
<1>12. CASE WaitInterrupted
  BY <1>12 DEF WaitInterrupted, BackToPrompt
<1>13. CASE WaitDone
  BY <1>13 DEF WaitDone, BackToPrompt
<1>14. CASE Eof
  BY <1>14 DEF Eof
<1>15. CASE Sigint
  BY <1>15 DEF Sigint
<1>16. CASE Sigquit
  BY <1>16 DEF Sigquit, shellVars
<1> QED
  BY <1>1, <1>2, <1>3, <1>4, <1>5, <1>6, <1>7, <1>8,
     <1>9, <1>10, <1>11, <1>12, <1>13, <1>14, <1>15, <1>16 DEF OutsideStep, ShellStep

\* The SIGINT handler follows the phases of a job.
LEMMA HandlerStep ==
  ASSUME IInv, OutsideStep
  PROVE  HandlerInv'
<1> USE DEF IInv, HandlerInv, LoopInv, InLoop, Waiting, loopVars
<1>1. ASSUME NEW n \in 1..MaxLen, StartJob(n) PROVE HandlerInv'
  BY <1>1 DEF StartJob
<1>2. CASE HeredocsDone
  BY <1>2 DEF HeredocsDone
<1>3. ASSUME NEW result \in {130, -1}, HeredocsAbandoned(result) PROVE HandlerInv'
  BY <1>3 DEF HeredocsAbandoned
<1>4. CASE OpenPipe
  BY <1>4 DEF OpenPipe
<1>5. CASE PipeError
  BY <1>5 DEF PipeError
<1>6. CASE Fork
  BY <1>6 DEF Fork
<1>7. CASE ForkError
  BY <1>7 DEF ForkError
<1>8. CASE ParentCloses
  BY <1>8 DEF ParentCloses
<1>9. CASE CleanList
  BY <1>9 DEF CleanList
<1>10. ASSUME NEW p \in Pid, WaitReap(p) PROVE HandlerInv'
  BY <1>10 DEF WaitReap
<1>11. CASE WaitBlock
  BY <1>11 DEF WaitBlock
<1>12. CASE WaitInterrupted
  BY <1>12 DEF WaitInterrupted, BackToPrompt
<1>13. CASE WaitDone
  BY <1>13 DEF WaitDone, BackToPrompt
<1>14. CASE Eof
  BY <1>14 DEF Eof
<1>15. CASE Sigint
  BY <1>15 DEF Sigint
<1>16. CASE Sigquit
  BY <1>16 DEF Sigquit, shellVars
<1> QED
  BY <1>1, <1>2, <1>3, <1>4, <1>5, <1>6, <1>7, <1>8,
     <1>9, <1>10, <1>11, <1>12, <1>13, <1>14, <1>15, <1>16 DEF OutsideStep, ShellStep

\* The shell closes what it opened.
LEMMA ShellFdStep ==
  ASSUME IInv, OutsideStep
  PROVE  ShellFdInv'
<1> USE Bounds DEF IInv, TypeOK, ShellTypes, LoopInv, ShellFdInv, InLoop, Waiting, loopVars
<1>1. ASSUME NEW n \in 1..MaxLen, StartJob(n) PROVE ShellFdInv'
  BY <1>1 DEF StartJob
<1>2. CASE HeredocsDone
  BY <1>2 DEF HeredocsDone, TtyFds
<1>3. ASSUME NEW result \in {130, -1}, HeredocsAbandoned(result) PROVE ShellFdInv'
  BY <1>3 DEF HeredocsAbandoned
<1>4. CASE OpenPipe
  <2>1. CASE cmd # len
    <3>1. PICK q \in PipeId : fd' = [fd EXCEPT ![Shell].r = q, ![Shell].w = q]
      BY <1>4, <2>1, Zenon DEF OpenPipe, FreePipes
    <3>2. fd'[Shell] = [fd[Shell] EXCEPT !.r = q, !.w = q]
      BY <3>1 DEF KernelTypes, Procs
    <3>3. fd[Shell] \in FdRecord
      BY DEF KernelTypes, Procs
    <3> QED
      BY <1>4, <2>1, <3>2, <3>3 DEF OpenPipe, FdRecord
  <2>2. CASE cmd = len
    BY <1>4, <2>2 DEF OpenPipe
  <2> QED
    BY <2>1, <2>2
<1>5. CASE PipeError
  BY <1>5 DEF PipeError, KernelTypes, FdRecord, Procs, TtyFds
<1>6. CASE Fork
  BY <1>6 DEF Fork, KernelTypes, FdRecord, Procs, FreePids
<1>7. CASE ForkError
  BY <1>7 DEF ForkError, KernelTypes, Procs, TtyFds
<1>8. CASE ParentCloses
  <2> DEFINE f == fd[Shell]  g == fd'[Shell]
  <2>1. g = [f EXCEPT !.prev = IF f.w # NoFd THEN f.r ELSE NoFd, !.r = NoFd, !.w = NoFd]
    BY <1>8 DEF ParentCloses, KernelTypes, Procs
  <2>2. f \in FdRecord
    BY DEF KernelTypes, Procs
  <2>3. /\ g.stdin = Tty /\ g.stdout = Tty /\ g.r = NoFd /\ g.w = NoFd
        /\ g.prev = IF cmd < len THEN f.r ELSE NoFd
    <3>1. /\ g.stdin = f.stdin /\ g.stdout = f.stdout /\ g.r = NoFd /\ g.w = NoFd
          /\ g.prev = IF f.w # NoFd THEN f.r ELSE NoFd
      BY <2>1, <2>2 DEF FdRecord
    <3>2. (f.w # NoFd) <=> (cmd < len)
      BY <1>8 DEF ParentCloses
    <3> QED
      BY <3>1, <3>2
  <2>4. cmd' = cmd + 1 /\ len' = len /\ pc' = IF cmd < len THEN "pipe" ELSE "wait"
    BY <1>8 DEF ParentCloses
  <2>5. g \in FdRecord
    <3>1. PICK h \in FdRecord : h = f
      BY <2>2
    <3>2. [h EXCEPT !.prev = IF h.w # NoFd THEN h.r ELSE NoFd, !.r = NoFd, !.w = NoFd] \in FdRecord
      BY SlotsEmptied
    <3> HIDE DEF f, g
    <3> QED BY <2>1, <3>1, <3>2, Zenon
  <2>6. ~(cmd < len) => g = TtyFds
    BY <2>3, <2>5 DEF FdRecord, TtyFds
  <2> QED
    BY <1>8, <2>3, <2>4, <2>6 DEF ParentCloses
<1>9. CASE CleanList
  BY <1>9 DEF CleanList
<1>10. ASSUME NEW p \in Pid, WaitReap(p) PROVE ShellFdInv'
  BY <1>10 DEF WaitReap
<1>11. CASE WaitBlock
  BY <1>11 DEF WaitBlock
<1>12. CASE WaitInterrupted
  BY <1>12 DEF WaitInterrupted, BackToPrompt
<1>13. CASE WaitDone
  BY <1>13 DEF WaitDone, BackToPrompt
<1>14. CASE Eof
  BY <1>14 DEF Eof
<1>15. CASE Sigint
  BY <1>15 DEF Sigint
<1>16. CASE Sigquit
  BY <1>16 DEF Sigquit, shellVars
<1> QED
  BY <1>1, <1>2, <1>3, <1>4, <1>5, <1>6, <1>7, <1>8,
     <1>9, <1>10, <1>11, <1>12, <1>13, <1>14, <1>15, <1>16 DEF OutsideStep, ShellStep

\* last_pid's child is reaped in wait_for_children and nowhere else.
LEMMA LastPidStep ==
  ASSUME IInv, OutsideStep
  PROVE  LastPidInv'
<1> USE Bounds DEF IInv, TypeOK, ShellTypes, ChildTypes, LoopInv, HandlerInv, LastPidInv, ReapedInv, InLoop, Waiting, loopVars, childVars
<1>1. ASSUME NEW n \in 1..MaxLen, StartJob(n) PROVE LastPidInv'
  BY <1>1 DEF StartJob, Forget
<1>2. CASE HeredocsDone
  BY <1>2 DEF HeredocsDone
<1>3. ASSUME NEW result \in {130, -1}, HeredocsAbandoned(result) PROVE LastPidInv'
  BY <1>3 DEF HeredocsAbandoned
<1>4. CASE OpenPipe
  BY <1>4 DEF OpenPipe
<1>5. CASE PipeError
  BY <1>5 DEF PipeError
<1>6. CASE Fork
  BY <1>6 DEF Fork, FreePids
<1>7. CASE ForkError
  BY <1>7 DEF ForkError
<1>8. CASE ParentCloses
  BY <1>8 DEF ParentCloses
<1>9. CASE CleanList
  BY <1>9 DEF CleanList
<1>10. ASSUME NEW p \in Pid, WaitReap(p) PROVE LastPidInv'
  BY <1>10 DEF WaitReap
<1>11. CASE WaitBlock
  BY <1>11 DEF WaitBlock
<1>12. CASE WaitInterrupted
  BY <1>12 DEF WaitInterrupted, BackToPrompt
<1>13. CASE WaitDone
  BY <1>13 DEF WaitDone, BackToPrompt, FreePids
<1>14. CASE Eof
  BY <1>14 DEF Eof
<1>15. CASE Sigint
  BY <1>15 DEF Sigint
<1>16. CASE Sigquit
  BY <1>16 DEF Sigquit, shellVars
<1> QED
  BY <1>1, <1>2, <1>3, <1>4, <1>5, <1>6, <1>7, <1>8,
     <1>9, <1>10, <1>11, <1>12, <1>13, <1>14, <1>15, <1>16 DEF OutsideStep, ShellStep

\* wait_for_children reaps every child before it returns by itself.
LEMMA ReapedStep ==
  ASSUME IInv, OutsideStep
  PROVE  ReapedInv'
<1> USE DEF IInv, LoopInv, ReapedInv, InLoop, Waiting, FreePids, loopVars, childVars
<1>1. ASSUME NEW n \in 1..MaxLen, StartJob(n) PROVE ReapedInv'
  BY <1>1 DEF StartJob
<1>2. CASE HeredocsDone
  BY <1>2 DEF HeredocsDone
<1>3. ASSUME NEW result \in {130, -1}, HeredocsAbandoned(result) PROVE ReapedInv'
  BY <1>3 DEF HeredocsAbandoned
<1>4. CASE OpenPipe
  BY <1>4 DEF OpenPipe
<1>5. CASE PipeError
  BY <1>5 DEF PipeError
<1>6. CASE Fork
  BY <1>6 DEF Fork
<1>7. CASE ForkError
  BY <1>7 DEF ForkError
<1>8. CASE ParentCloses
  BY <1>8 DEF ParentCloses
<1>9. CASE CleanList
  BY <1>9 DEF CleanList
<1>10. ASSUME NEW p \in Pid, WaitReap(p) PROVE ReapedInv'
  BY <1>10 DEF WaitReap
<1>11. CASE WaitBlock
  BY <1>11 DEF WaitBlock
<1>12. CASE WaitInterrupted
  BY <1>12 DEF WaitInterrupted, BackToPrompt
<1>13. CASE WaitDone
  BY <1>13 DEF WaitDone, BackToPrompt
<1>14. CASE Eof
  BY <1>14 DEF Eof
<1>15. CASE Sigint
  BY <1>15 DEF Sigint
<1>16. CASE Sigquit
  BY <1>16 DEF Sigquit, shellVars
<1> QED
  BY <1>1, <1>2, <1>3, <1>4, <1>5, <1>6, <1>7, <1>8,
     <1>9, <1>10, <1>11, <1>12, <1>13, <1>14, <1>15, <1>16 DEF OutsideStep, ShellStep

\* A new child starts with the shell's descriptors, at the joint where it stands.
LEMMA ChildFdStep ==
  ASSUME IInv, OutsideStep
  PROVE  ChildFdInv'
<1> USE Bounds DEF IInv, TypeOK, KernelTypes, ChildFdInv, Unplugged, Plugged, Alive, Unplumbed, Plumbed, Procs, childVars
<1>1. ASSUME NEW n \in 1..MaxLen, StartJob(n) PROVE ChildFdInv'
  BY <1>1 DEF StartJob, Forget
<1>2. CASE HeredocsDone
  BY <1>2 DEF HeredocsDone
<1>3. ASSUME NEW result \in {130, -1}, HeredocsAbandoned(result) PROVE ChildFdInv'
  BY <1>3 DEF HeredocsAbandoned
<1>4. CASE OpenPipe
  BY <1>4 DEF OpenPipe
<1>5. CASE PipeError
  BY <1>5 DEF PipeError
<1>6. CASE Fork
  <2>1. PICK c \in Pid :
          /\ st[c] = "free" /\ st' = [st EXCEPT ![c] = "forked"]
          /\ pos' = [pos EXCEPT ![c] = cmd] /\ hasNext' = [hasNext EXCEPT ![c] = cmd < len]
          /\ fd' = [fd EXCEPT ![c] = fd[Shell]]
    BY <1>6 DEF Fork, FreePids
  <2>2. /\ fd'[c] = fd[Shell] /\ pos'[c] = cmd /\ hasNext'[c] = (cmd < len)
        /\ st'[c] = "forked"
    BY <2>1 DEF ChildTypes
  <2>3. /\ fd[Shell].stdin = Tty /\ fd[Shell].stdout = Tty
        /\ fd[Shell].prev \in IF cmd > 1 THEN PipeId ELSE {NoFd}
        /\ IF cmd < len THEN fd[Shell].r = fd[Shell].w /\ fd[Shell].w \in PipeId
                       ELSE fd[Shell].r = NoFd /\ fd[Shell].w = NoFd
    BY <1>6 DEF Fork, ShellFdInv, InLoop
  <2>4. Unplugged(c)'
    BY <2>2, <2>3
  <2>5. \A p \in Pid \ {c} : /\ fd'[p] = fd[p] /\ pos'[p] = pos[p]
                             /\ hasNext'[p] = hasNext[p] /\ st'[p] = st[p]
    BY <2>1 DEF ChildTypes
  <2> QED
    BY <2>2, <2>4, <2>5
<1>7. CASE ForkError
  BY <1>7 DEF ForkError
<1>8. CASE ParentCloses
  BY <1>8 DEF ParentCloses
<1>9. CASE CleanList
  BY <1>9 DEF CleanList
<1>10. ASSUME NEW p \in Pid, WaitReap(p) PROVE ChildFdInv'
  BY <1>10 DEF WaitReap
<1>11. CASE WaitBlock
  BY <1>11 DEF WaitBlock
<1>12. CASE WaitInterrupted
  BY <1>12 DEF WaitInterrupted, BackToPrompt
<1>13. CASE WaitDone
  BY <1>13 DEF WaitDone, BackToPrompt
<1>14. CASE Eof
  BY <1>14 DEF Eof
<1>15. CASE Sigint
  BY <1>15 DEF Sigint, SignalChildren
<1>16. CASE Sigquit
  BY <1>16 DEF Sigquit, SignalChildren
<1> QED
  BY <1>1, <1>2, <1>3, <1>4, <1>5, <1>6, <1>7, <1>8,
     <1>9, <1>10, <1>11, <1>12, <1>13, <1>14, <1>15, <1>16 DEF OutsideStep, ShellStep

\* No end changes its joint when neither the ends nor the numbers change.
LEMMA JointUnchanged ==
  ASSUME UNCHANGED <<fd, pos, cmd>>
  PROVE  EndsKept
BY DEF EndsKept, Joint

\* Whatever else the shell does, the ends move with the loop and with fork().
LEMMA OutsideEnds ==
  ASSUME IInv, OutsideStep
  PROVE  (OpenPipe /\ cmd # len) \/ EndsKept
<1> USE Bounds DEF IInv, TypeOK, loopVars, childVars
<1>1. ASSUME NEW n \in 1..MaxLen, StartJob(n) PROVE EndsKept
  <2>1. \A p \in Procs, a \in Slots : fd[p][a] \in PipeId => p # Shell /\ st[p] # "free"
    BY <1>1 DEF StartJob, ShellFdInv, InLoop, ChildFdInv, Alive, Unplumbed, Plumbed, TtyFds,
                ClosedFds, Slots, Procs
  <2>2. \A p \in Pid : st[p] # "free" => pos'[p] = pos[p]
    BY <1>1 DEF StartJob, Forget
  <2>3. fd' = fd
    BY <1>1 DEF StartJob
  <2>4. \A p \in Procs, a \in Slots : fd[p][a] \in PipeId => Joint(p, a)' = Joint(p, a)
    BY <2>1, <2>2 DEF Joint, Procs
  <2> QED
    BY <2>3, <2>4 DEF EndsKept
<1>2. CASE HeredocsDone
  BY <1>2, JointUnchanged DEF HeredocsDone
<1>3. ASSUME NEW result \in {130, -1}, HeredocsAbandoned(result) PROVE EndsKept
  BY <1>3, JointUnchanged DEF HeredocsAbandoned
<1>4. CASE OpenPipe /\ cmd = len
  BY <1>4, JointUnchanged DEF OpenPipe, ShellTypes
<1>5. CASE PipeError
  <2>1. fd'[Shell] = [fd[Shell] EXCEPT !.prev = NoFd]
        /\ \A p \in Procs \ {Shell} : fd'[p] = fd[p]
    BY <1>5 DEF PipeError, KernelTypes, Procs
  <2>2. \A p \in Procs, a \in Slots : fd'[p][a] \in PipeId => fd'[p][a] = fd[p][a]
    BY <2>1 DEF Slots, KernelTypes, FdRecord, Procs
  <2>3. \A p \in Procs, a \in Slots : Joint(p, a)' = Joint(p, a)
    BY <1>5 DEF PipeError, Joint
  <2> QED
    BY <2>2, <2>3 DEF EndsKept
<1>6. CASE Fork
  <2>1. PICK c \in Pid : fd' = [fd EXCEPT ![c] = fd[Shell]] /\ pos' = [pos EXCEPT ![c] = cmd]
    BY <1>6 DEF Fork, FreePids
  <2>2. fd'[c] = fd[Shell] /\ pos'[c] = cmd /\ cmd' = cmd
    BY <1>6, <2>1 DEF Fork, KernelTypes, ChildTypes, Procs
  <2>3. \A a \in Slots : fd'[c][a] = fd[Shell][a] /\ Joint(c, a)' = Joint(Shell, a)
    BY <2>2 DEF Joint
  <2>4. \A p \in Procs \ {c}, a \in Slots : fd'[p][a] = fd[p][a] /\ Joint(p, a)' = Joint(p, a)
    BY <2>1, <2>2 DEF Joint, KernelTypes, ChildTypes, Procs
  <2>5. Shell \in Procs
    BY DEF Procs
  <2> QED
    BY <2>3, <2>4, <2>5 DEF EndsKept
<1>7. CASE ForkError
  <2>1. fd'[Shell] = TtyFds /\ \A p \in Procs \ {Shell} : fd'[p] = fd[p]
    BY <1>7 DEF ForkError, KernelTypes, Procs
  <2>2. \A p \in Procs, a \in Slots : fd'[p][a] \in PipeId => fd'[p][a] = fd[p][a]
    BY <2>1 DEF Slots, TtyFds
  <2>3. \A p \in Procs, a \in Slots : Joint(p, a)' = Joint(p, a)
    BY <1>7 DEF ForkError, Joint
  <2> QED
    BY <2>2, <2>3 DEF EndsKept
<1>8. CASE ParentCloses
  <2>1. /\ fd'[Shell] = [fd[Shell] EXCEPT !.prev = IF fd[Shell].w # NoFd THEN fd[Shell].r ELSE NoFd,
                                          !.r = NoFd, !.w = NoFd]
        /\ \A p \in Procs \ {Shell} : fd'[p] = fd[p]
    BY <1>8 DEF ParentCloses, KernelTypes, Procs
  <2>2. fd[Shell] \in FdRecord /\ Shell \in Procs
    BY DEF KernelTypes, Procs
  <2>3. \A a \in Slots : fd'[Shell][a] \in PipeId =>
           \/ a = "prev" /\ fd'[Shell][a] = fd[Shell]["r"]
           \/ a \in {"stdin", "stdout"} /\ fd'[Shell][a] = fd[Shell][a]
    BY <2>1, <2>2 DEF Slots, FdRecord
  <2>4. fd[Shell].stdin = Tty /\ fd[Shell].stdout = Tty
    BY DEF ShellFdInv
  <2>5. \A a \in Slots : fd'[Shell][a] \in PipeId =>
           a = "prev" /\ fd'[Shell][a] = fd[Shell]["r"]
    BY <2>3, <2>4
  <2>6. Joint(Shell, "prev")' = Joint(Shell, "r")
    BY <1>8 DEF ParentCloses, Joint, ShellTypes
  <2>7. \A p \in Procs \ {Shell}, a \in Slots : Joint(p, a)' = Joint(p, a)
    BY <1>8 DEF ParentCloses, Joint
  <2> QED
    BY <2>1, <2>2, <2>5, <2>6, <2>7 DEF Slots, EndsKept
<1>9. CASE CleanList
  BY <1>9, JointUnchanged DEF CleanList
<1>10. ASSUME NEW p \in Pid, WaitReap(p) PROVE EndsKept
  BY <1>10, JointUnchanged DEF WaitReap
<1>11. CASE WaitBlock
  BY <1>11, JointUnchanged DEF WaitBlock
<1>12. CASE WaitInterrupted
  BY <1>12, JointUnchanged DEF WaitInterrupted
<1>13. CASE WaitDone
  BY <1>13, JointUnchanged DEF WaitDone
<1>14. CASE Eof
  BY <1>14, JointUnchanged DEF Eof
<1>15. CASE Sigint
  BY <1>15, JointUnchanged DEF Sigint
<1>16. CASE Sigquit
  BY <1>16, JointUnchanged DEF Sigquit, shellVars, loopVars
<1> QED
  BY <1>1, <1>2, <1>3, <1>4, <1>5, <1>6, <1>7, <1>8,
     <1>9, <1>10, <1>11, <1>12, <1>13, <1>14, <1>15, <1>16 DEF OutsideStep, ShellStep

\* A pipe is opened at one joint, while nobody holds it.
LEMMA OpenedEnds ==
  ASSUME IInv, OpenPipe, cmd # len
  PROVE  \E q \in PipeId :
           /\ \A p \in Procs, a \in Slots : fd[p][a] # q
           /\ \A p \in Procs, a \in Slots :
                \/ fd'[p][a] = q /\ p = Shell /\ a \in {"r", "w"}
                \/ fd'[p][a] # q /\ fd'[p][a] = fd[p][a]
           /\ \A p \in Procs, a \in Slots : Joint(p, a)' = Joint(p, a)
<1> USE DEF IInv, TypeOK
<1>1. PICK q \in FreePipes : fd' = [fd EXCEPT ![Shell].r = q, ![Shell].w = q]
  BY Zenon DEF OpenPipe
<1>2. \A p \in Procs, a \in Slots : fd[p][a] # q
  BY <1>1 DEF FreePipes, Readers, Writers, Slots
<1>3. fd'[Shell] = [fd[Shell] EXCEPT !.r = q, !.w = q]
      /\ \A p \in Procs \ {Shell} : fd'[p] = fd[p]
  BY <1>1 DEF KernelTypes, Procs
<1>4. \A p \in Procs, a \in Slots :
        \/ fd'[p][a] = q /\ p = Shell /\ a \in {"r", "w"}
        \/ fd'[p][a] # q /\ fd'[p][a] = fd[p][a]
  <2>1. fd[Shell] \in FdRecord /\ Shell \in Procs
    BY DEF KernelTypes, Procs
  <2>2. \A a \in Slots : fd'[Shell][a] = IF a \in {"r", "w"} THEN q ELSE fd[Shell][a]
    BY <1>3, <2>1 DEF Slots, FdRecord
  <2> QED
    BY <1>2, <1>3, <2>1, <2>2
<1>5. \A p \in Procs, a \in Slots : Joint(p, a)' = Joint(p, a)
  BY DEF OpenPipe, Joint, loopVars, childVars
<1> QED
  BY <1>1, <1>2, <1>4, <1>5 DEF FreePipes

\* So each pipe keeps to one joint.
LEMMA JointStep ==
  ASSUME IInv, OutsideStep
  PROVE  JointInv'
<1>1. CASE EndsKept
  BY <1>1, JointMoves DEF IInv
<1>2. CASE OpenPipe /\ cmd # len
  <2>1. PICK q \in PipeId :
           /\ \A p \in Procs, a \in Slots : fd[p][a] # q
           /\ \A p \in Procs, a \in Slots :
                \/ fd'[p][a] = q /\ p = Shell /\ a \in {"r", "w"}
                \/ fd'[p][a] # q /\ fd'[p][a] = fd[p][a]
           /\ \A p \in Procs, a \in Slots : Joint(p, a)' = Joint(p, a)
    BY <1>2, OpenedEnds
  <2>2. \A a \in {"r", "w"} : Joint(Shell, a) = cmd - 0
    BY DEF Joint
  <2> QED
    BY <2>1, <2>2 DEF IInv, JointInv
<1> QED
  BY <1>1, <1>2, OutsideEnds

-----------------------------------------------------------------------------
(* The theorems *)

LEMMA NextInv == IInv /\ [Next]_vars => IInv'
<1> SUFFICES ASSUME IInv, [Next]_vars PROVE IInv'
  OBVIOUS
<1>1. CASE OutsideStep
  BY <1>1, ShellTypesStep, ChildTypesStep, KernelTypesStep, LoopStep, HandlerStep,
     ShellFdStep, LastPidStep, ReapedStep, ChildFdStep, JointStep DEF IInv, TypeOK
<1>2. ASSUME NEW p \in Pid, ChildStep(p) PROVE IInv'
  <2>1. TypeOK /\ ChildTypes /\ KernelTypes
    BY DEF IInv, TypeOK
  <2>2. /\ UNCHANGED shellVars /\ UNCHANGED boundVars
        /\ fd'[Shell] = fd[Shell] /\ pos' = pos /\ hasNext' = hasNext
        /\ \A o \in Pid : (st'[o] = "free") <=> (st[o] = "free")
        /\ \A o \in Pid : st[o] = "free" => wst'[o] = wst[o]
    BY <1>2, <2>1, ChildFrame
  <2>3. TypeOK'
    BY <1>2, <2>1, <2>2, ChildStepTypes DEF TypeOK, ShellTypes, shellVars, loopVars
  <2>4. LoopInv' /\ HandlerInv'
    BY <2>2 DEF IInv, LoopInv, HandlerInv, shellVars, loopVars
  <2>5. ShellFdInv'
    BY <2>2 DEF IInv, ShellFdInv, shellVars, loopVars
  <2>6. ReapedInv'
    BY <2>2 DEF IInv, ReapedInv, FreePids, shellVars, loopVars
  <2>7. LastPidInv'
    BY <2>2 DEF IInv, LastPidInv, ReapedInv, FreePids, Waiting, shellVars, loopVars, boundVars
  <2>8. ChildFdInv' /\ JointInv'
    BY <1>2, ChildStepFds, ChildStepEnds, JointMoves DEF IInv
  <2> QED
    BY <2>3, <2>4, <2>5, <2>6, <2>7, <2>8 DEF IInv
<1>3. CASE UNCHANGED vars
  <2> USE <1>3 DEF IInv, vars, shellVars, childVars, boundVars, loopVars
  <2>1. TypeOK'
    BY DEF TypeOK, ShellTypes, ChildTypes, KernelTypes
  <2>2. LoopInv' /\ HandlerInv' /\ ShellFdInv' /\ LastPidInv' /\ ReapedInv'
    BY DEF LoopInv, HandlerInv, ShellFdInv, LastPidInv, ReapedInv, FreePids
  <2>3. ChildFdInv'
    BY DEF ChildFdInv, Alive, Unplugged, Plugged
  <2>4. JointInv'
    BY JointUnchanged, JointMoves
  <2> QED
    BY <2>1, <2>2, <2>3, <2>4
<1> QED
  BY <1>1, <1>2, <1>3 DEF Next, OutsideStep, Terminated

\* IInv is an invariant of the executor: the shell's types, list, descriptors,
\* handler and last_pid agree with the place where exec_command_list stands,
\* whatever the children, the kernel and the user do.
THEOREM Invariance == Spec => []IInv
BY InitInv, NextInv, PTL DEF Spec

\* Every variable keeps its type; in particular g_exit_status stays a byte.
THEOREM TypeCorrect == Spec => []TypeOK
<1>1. IInv => TypeOK
  BY DEF IInv
<1> QED
  BY <1>1, Invariance, PTL

\* The status at the prompt is the last command's or 130 (wait_for_children).
THEOREM StatusCorrect == Spec => []StatusIsLastCommands
<1>1. IInv => StatusIsLastCommands
  BY DEF IInv, LastPidInv, StatusIsLastCommands
<1> QED
  BY <1>1, Invariance, PTL

\* The prompt has its own SIGINT handler except after a failed pipe() or fork().
THEOREM HandlerCorrect == Spec => []PromptHandler
<1>1. IInv => PromptHandler
  BY DEF IInv, HandlerInv, PromptHandler
<1> QED
  BY <1>1, Invariance, PTL

\* On no path does the shell keep an end of a pipe it opened for a job.
THEOREM DescriptorsClosed == Spec => []ShellHoldsNoPipe
<1>1. IInv => ShellHoldsNoPipe
  BY DEF IInv, ShellFdInv, InLoop, ShellHoldsNoPipe
<1> QED
  BY <1>1, Invariance, PTL

\* The list's nodes are freed once, except by exec_cmd_list_clean(head) after a
\* pipe() or fork() that fails for a later command.
THEOREM ListCorrect == Spec => []ListOwnership
<1>1. IInv => ListOwnership
  BY DEF IInv, LoopInv, InLoop, Waiting, ListOwnership
<1> QED
  BY <1>1, Invariance, PTL

\* A job that is not cut short leaves no child, no node and no open pipe.
THEOREM NothingLeftCorrect == Spec => []NothingLeft
<1>1. IInv => NothingLeft
  <2> SUFFICES ASSUME IInv, pc = "prompt", cut = "none" PROVE NothingLeft
    BY DEF NothingLeft
  <2>1. FreePids = Pid /\ live = {} /\ fd[Shell] = TtyFds /\ handler = "main"
    BY DEF IInv, ReapedInv, LoopInv, ShellFdInv, HandlerInv, InLoop
  <2>2. \A p \in Procs : fd[p] \in {TtyFds, ClosedFds}
    BY <2>1 DEF IInv, ChildFdInv, Alive, Unplumbed, Plumbed, FreePids, Procs
  <2>3. \A q \in PipeId : Readers(q) = {} /\ Writers(q) = {}
    BY <2>2, Bounds DEF Readers, Writers, TtyFds, ClosedFds
  <2> QED
    BY <2>1, <2>3 DEF NothingLeft, FreePipes
<1> QED
  BY <1>1, Invariance, PTL

\* A command with a neighbour has a pipe or a file on that side, and no other end.
THEOREM EndsCorrect == Spec => []PlumbedEnds
<1>1. IInv => PlumbedEnds
  BY PipelineAssumption DEF IInv, ChildFdInv, Plugged, PlumbedEnds
<1> QED
  BY <1>1, Invariance, PTL

\* However pipes are recycled, a pipe joins a command to the next of its list.
THEOREM JointsCorrect == Spec => []PipeJoinsNeighbours
<1>1. IInv => PipeJoinsNeighbours
  <2> SUFFICES ASSUME IInv, NEW p \in Pid, NEW o \in Pid, st[p] \in Plumbed, st[o] \in Plumbed,
                      fd[p].stdout \in PipeId, fd[p].stdout = fd[o].stdin
               PROVE  hasNext[p] /\ pos[o] = pos[p] + 1
    BY DEF PipeJoinsNeighbours
  <2>1. hasNext[p]
    BY PipelineAssumption DEF IInv, ChildFdInv, Plugged
  <2>2. Joint(p, "stdout") = Joint(o, "stdin")
    BY DEF IInv, JointInv, Slots, Procs
  <2>3. pos[p] \in 0..MaxLen /\ pos[o] \in 0..MaxLen
    BY DEF IInv, TypeOK, ChildTypes
  <2>4. Joint(p, "stdout") = pos[p] - 0 /\ Joint(o, "stdin") = pos[o] - 1
    BY Bounds DEF Joint
  <2> QED
    BY <2>1, <2>2, <2>3, <2>4, Bounds
<1> QED
  BY <1>1, Invariance, PTL
=============================================================================
