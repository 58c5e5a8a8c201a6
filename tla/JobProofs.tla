------------------------------ MODULE JobProofs ------------------------------
(***************************************************************************)
(* The executor keeps the promise of Job: in a behaviour in which nobody   *)
(* types a signal and no call fails, every step of Pipeline is a step of   *)
(* Job or changes nothing that Job names.  QuietInv says why: a child's    *)
(* number is its command's, so its death is that command's end, and the    *)
(* last command's child is last_pid.                                       *)
(***************************************************************************)
EXTENDS PipelineProofs, FiniteSetTheorems

-----------------------------------------------------------------------------
(* Without signals: what a step of a child does to its job *)

\* A child that acts is alive; it stays alive with nothing decided, or it dies
\* with one of the statuses of a quiet job.
LEMMA ChildActs ==
  ASSUME TypeOK, NEW p \in Pid, ChildStep(p), sig[p] = 0
  PROVE  /\ Alive(p)
         /\ \A o \in Pid \ {p} : st'[o] = st[o] /\ wst'[o] = wst[o] /\ sig'[o] = sig[o]
         /\ sig'[p] = 0
         /\ \/ st'[p] \in Unplumbed \cup Plumbed /\ wst'[p] = wst[p]
            \/ st'[p] = "zombie" /\ StatusOf(wst'[p]) \in Statuses
<1> USE DEF TypeOK, ChildTypes
<1>1. ASSUME NEW w, Dies(p, w), StatusOf(w) \in Statuses
      PROVE  /\ \A o \in Pid \ {p} : st'[o] = st[o] /\ wst'[o] = wst[o] /\ sig'[o] = sig[o]
             /\ sig'[p] = 0 /\ st'[p] = "zombie" /\ StatusOf(wst'[p]) \in Statuses
  BY <1>1 DEF Dies
<1>2. /\ \A c \in Codes \cup ExecErrors : StatusOf(Exited(c)) \in Statuses
      /\ StatusOf(Signaled(SIGPIPE)) \in Statuses
  BY DEF StatusOf, Exited, Signaled, Statuses
<1>3. CASE ChildSignals(p)
  BY <1>3 DEF ChildSignals, Runs, Alive, Unplumbed
<1>4. CASE ChildPlumb(p)
  BY <1>4 DEF ChildPlumb, Runs, Alive, Unplumbed, Plumbed
<1>5. CASE ChildRedirect(p)
  <2>1. Alive(p)
    BY <1>5 DEF ChildRedirect, Runs, Alive, Plumbed
  <2>2. CASE Dies(p, Exited(1))
    BY <1>1, <1>2, <2>1, <2>2 DEF ExecErrors
  <2>3. CASE st' = [st EXCEPT ![p] = "exec"] /\ UNCHANGED <<sig, wst>>
    BY <2>1, <2>3 DEF Plumbed
  <2> QED
    BY <1>5, <2>2, <2>3 DEF ChildRedirect
<1>6. CASE ChildExec(p)
  <2>1. Alive(p)
    BY <1>6 DEF ChildExec, Runs, Alive, Plumbed
  <2>2. ASSUME NEW c \in ExecErrors \cap Codes, Dies(p, Exited(c))
        PROVE  /\ \A o \in Pid \ {p} : st'[o] = st[o] /\ wst'[o] = wst[o] /\ sig'[o] = sig[o]
               /\ sig'[p] = 0 /\ st'[p] = "zombie" /\ StatusOf(wst'[p]) \in Statuses
    BY <1>1, <1>2, <2>2
  <2>3. CASE st' = [st EXCEPT ![p] = "run"] /\ UNCHANGED <<sig, wst>>
    BY <2>1, <2>3 DEF Plumbed
  <2> QED
    BY <1>6, <2>1, <2>2, <2>3 DEF ChildExec
<1>7. CASE Read(p)
  BY <1>7 DEF Read, Runs, Alive, Plumbed
<1>8. CASE Write(p)
  <2>1. Alive(p) /\ st[p] \in Plumbed
    BY <1>8 DEF Write, Runs, Alive, Plumbed
  <2>2. CASE Dies(p, Signaled(SIGPIPE))
    BY <1>1, <1>2, <2>1, <2>2
  <2>3. CASE UNCHANGED <<st, sig, wst>>
    BY <2>1, <2>3
  <2> QED
    BY <1>8, <2>2, <2>3 DEF Write
<1>9. CASE Exit(p)
  <2>1. Alive(p)
    BY <1>9 DEF Exit, Runs, Alive, Plumbed
  <2>2. PICK c \in Codes : Dies(p, Exited(c))
    BY <1>9 DEF Exit
  <2> QED
    BY <1>1, <1>2, <2>1, <2>2
<1>10. CASE Delivered(p)
  BY <1>10 DEF Delivered
<1> QED
  BY <1>3, <1>4, <1>5, <1>6, <1>7, <1>8, <1>9, <1>10 DEF ChildStep

-----------------------------------------------------------------------------
(* QuietInv is an invariant of quiet behaviours *)

LEMMA QuietInit == Init => QuietInv
<1> SUFFICES ASSUME Init PROVE QuietInv
  OBVIOUS
<1>1. NoSignal
  BY DEF Init, NoSignal, StatusOf, Exited, Statuses, ExecErrors
<1>2. Settled
  BY DEF Init, Settled, FreePids
<1>3. Numbered
  BY DEF Init, Numbered, Forked
<1>4. Unreaped
  BY DEF Init, Unreaped, InLoop
<1> QED
  BY <1>1, <1>2, <1>3, <1>4 DEF QuietInv

\* No step of a child touches the numbering; it changes who is alive, not who is free.
LEMMA QuietChildStep ==
  ASSUME IInv, QuietInv, NEW p \in Pid, ChildStep(p)
  PROVE  QuietInv'
<1>1. TypeOK /\ sig[p] = 0
  BY DEF IInv, QuietInv, NoSignal
<1>2. /\ UNCHANGED shellVars /\ UNCHANGED boundVars
      /\ pos' = pos /\ hasNext' = hasNext
      /\ \A o \in Pid : (st'[o] = "free") <=> (st[o] = "free")
  BY <1>1, ChildFrame
<1>3. \A o \in Pid : sig'[o] = 0 /\ StatusOf(wst'[o]) \in Statuses
  BY <1>1, ChildActs DEF QuietInv, NoSignal
<1>4. NoSignal'
  BY <1>2, <1>3 DEF QuietInv, NoSignal, shellVars
<1>5. Settled'
  BY <1>2 DEF QuietInv, Settled, FreePids, shellVars
<1>6. Numbered'
  BY <1>2 DEF QuietInv, Numbered, Forked, shellVars, loopVars
<1>7. Unreaped'
  BY <1>2 DEF QuietInv, Unreaped, InLoop, shellVars, loopVars
<1> QED
  BY <1>4, <1>5, <1>6, <1>7 DEF QuietInv

\* The kernel and the user do nothing that is not in Job's story.
LEMMA QuietFrame ==
  ASSUME IInv, QuietInv, Quiet, Quiet', [Next]_vars
  PROVE  \/ \E n \in 1..MaxLen : StartJob(n)
         \/ HeredocsDone \/ HeredocsAbandoned(-1) \/ OpenPipe \/ Fork \/ ParentCloses
         \/ (\E p \in Pid : WaitReap(p)) \/ WaitBlock \/ WaitDone \/ Eof
         \/ (\E p \in Pid : ChildStep(p))
         \/ UNCHANGED vars
<1>1. ~PipeError /\ ~ForkError /\ ~CleanList
  BY DEF PipeError, ForkError, CleanList, Quiet, IInv, LoopInv
<1>2. ~WaitInterrupted
  BY DEF WaitInterrupted, QuietInv, NoSignal
<1>3. ~Sigint /\ ~Sigquit
  BY DEF Sigint, Sigquit, Quiet
<1>4. ~HeredocsAbandoned(130)
  BY DEF HeredocsAbandoned, QuietInv, NoSignal
<1> QED
  BY <1>1, <1>2, <1>3, <1>4 DEF Next, ShellStep, Terminated

\* At most len commands are ever forked, and fewer while the loop has some to fork.
LEMMA ForkedBounds ==
  ASSUME IInv
  PROVE  /\ len \in Nat /\ cmd \in Nat /\ cmd > 0 /\ Forked \in Nat
         /\ pc \in InLoop \cup {"hdc"} => cmd <= len
         /\ Forked <= len
BY Bounds DEF IInv, TypeOK, ShellTypes, LoopInv, InLoop, Forked

LEMMA QuietStep ==
  ASSUME IInv, QuietInv, Quiet, Quiet', [Next]_vars
  PROVE  QuietInv'
<1> USE DEF IInv, TypeOK, ShellTypes, ChildTypes
<1>1. len \in Nat /\ cmd \in Nat
  BY ForkedBounds
<1>2. ASSUME NEW n \in 1..MaxLen, StartJob(n) PROVE QuietInv'
  <2>1. FreePids = Pid /\ \A p \in Pid : st[p] = "free"
    BY <1>2 DEF StartJob, QuietInv, Settled, FreePids
  <2>2. \A p \in Pid : pos'[p] = 0 /\ wst'[p] = Exited(0) /\ st'[p] = "free" /\ sig'[p] = 0
    BY <1>2, <2>1 DEF StartJob, Forget, QuietInv, NoSignal
  <2>3. NoSignal'
    BY <1>2, <2>2 DEF StartJob, QuietInv, NoSignal, StatusOf, Exited, Statuses, ExecErrors
  <2>4. Settled'
    BY <2>2 DEF Settled, FreePids
  <2>5. Numbered'
    BY <1>2, <2>2 DEF StartJob, Numbered, Forked
  <2>6. Unreaped'
    BY <1>2, <2>2 DEF StartJob, Unreaped, InLoop
  <2> QED
    BY <2>3, <2>4, <2>5, <2>6 DEF QuietInv
<1>3. CASE HeredocsDone
  BY <1>3, <1>1 DEF HeredocsDone, loopVars, childVars, LoopInv, FreePids, InLoop,
                    QuietInv, NoSignal, Settled, Numbered, Forked, Unreaped
<1>4. CASE HeredocsAbandoned(-1)
  <2>1. Forked = 0 /\ Forked' = len
    BY <1>4 DEF HeredocsAbandoned, Forked, LoopInv
  <2>2. Numbered'
    BY <1>1, <1>4, <2>1 DEF HeredocsAbandoned, childVars, QuietInv, Numbered
  <2> QED
    BY <1>4, <2>2 DEF HeredocsAbandoned, childVars, FreePids, InLoop,
                      QuietInv, NoSignal, Settled, Unreaped
<1>5. CASE OpenPipe
  BY <1>5 DEF OpenPipe, loopVars, childVars, FreePids, InLoop,
              QuietInv, NoSignal, Settled, Numbered, Forked, Unreaped
<1>6. CASE Fork
  <2>1. PICK c \in FreePids :
          /\ st' = [st EXCEPT ![c] = "forked"] /\ pos' = [pos EXCEPT ![c] = cmd]
          /\ hasNext' = [hasNext EXCEPT ![c] = cmd < len] /\ lastPid' = c
    BY <1>6 DEF Fork
  <2>2. pc = "fork" /\ pc' = "parent" /\ UNCHANGED <<len, cmd, pend, cut, intr, sig, wst>>
    BY <1>6 DEF Fork
  <2>3. Forked = cmd - 1 /\ Forked' = cmd /\ cmd <= len /\ cmd > 0
    BY <2>2, ForkedBounds DEF Forked, InLoop
  <2>4. c \in Pid /\ pos[c] = 0
    BY <2>2 DEF FreePids, QuietInv, Unreaped, InLoop
  <2>5. \A p \in Pid \ {c} : /\ st'[p] = st[p] /\ pos'[p] = pos[p] /\ hasNext'[p] = hasNext[p]
                              /\ pos'[p] # cmd
    BY <1>1, <2>1, <2>3, <2>4 DEF QuietInv, Numbered
  <2>6. st'[c] = "forked" /\ pos'[c] = cmd /\ hasNext'[c] = (cmd < len)
    BY <2>1, <2>4
  <2>7. NoSignal'
    BY <2>2 DEF QuietInv, NoSignal
  <2>8. Numbered'
    BY <1>1, <2>2, <2>3, <2>4, <2>5, <2>6 DEF QuietInv, Numbered
  <2>9. Settled' /\ Unreaped'
    BY <1>1, <2>2, <2>3, <2>4, <2>5, <2>6 DEF QuietInv, Settled, Unreaped, InLoop
  <2> QED
    BY <2>7, <2>8, <2>9 DEF QuietInv
<1>7. CASE ParentCloses
  <2>1. /\ pc = "parent" /\ pc' \in {"pipe", "wait"} /\ cmd' = cmd + 1 /\ cmd <= len
        /\ pc' = "wait" => cmd = len
    BY <1>1, <1>7, ForkedBounds DEF ParentCloses, InLoop
  <2>2. UNCHANGED <<len, lastPid, pend, cut, intr, childVars>>
    BY <1>7 DEF ParentCloses
  <2>3. Forked' = Forked
    BY <1>1, <2>1, <2>2 DEF Forked
  <2>4. pc' = "pipe" => hasNext[lastPid]
    BY <1>1, <1>7, <2>1 DEF ParentCloses, LastPidInv
  <2>5. NoSignal' /\ Settled'
    BY <2>1, <2>2 DEF QuietInv, NoSignal, Settled, childVars
  <2>6. Numbered'
    BY <2>2, <2>3 DEF QuietInv, Numbered, childVars
  <2>7. Unreaped'
    BY <2>1, <2>2, <2>4 DEF QuietInv, Unreaped, InLoop, childVars
  <2> QED
    BY <2>5, <2>6, <2>7 DEF QuietInv
<1>8. ASSUME NEW p \in Pid, WaitReap(p) PROVE QuietInv'
  <2>1. /\ pc \in Waiting /\ pc' = "wait" /\ pend' = FALSE
        /\ UNCHANGED <<loopVars, cut, intr, pos, hasNext, sig, wst>>
    BY <1>8 DEF WaitReap, Waiting
  <2>2. Forked' = Forked
    BY <2>1 DEF Forked, Waiting, loopVars
  <2>3. \A o \in Pid : st[o] = "free" => st'[o] = "free"
    BY <1>8 DEF WaitReap
  <2> QED
    BY <2>1, <2>2, <2>3 DEF QuietInv, NoSignal, Settled, Numbered, Unreaped, InLoop, Waiting, loopVars
<1>9. CASE WaitBlock
  BY <1>9 DEF WaitBlock, loopVars, childVars, FreePids, InLoop,
              QuietInv, NoSignal, Settled, Numbered, Forked, Unreaped
<1>10. CASE WaitDone
  BY <1>10 DEF WaitDone, BackToPrompt, loopVars, childVars, FreePids, InLoop,
               QuietInv, NoSignal, Settled, Numbered, Forked, Unreaped
<1>11. CASE Eof
  BY <1>11 DEF Eof, loopVars, childVars, FreePids, InLoop,
               QuietInv, NoSignal, Settled, Numbered, Forked, Unreaped
<1>12. ASSUME NEW p \in Pid, ChildStep(p) PROVE QuietInv'
  BY <1>12, QuietChildStep
<1>13. CASE UNCHANGED vars
  BY <1>13 DEF vars, shellVars, loopVars, childVars, FreePids, InLoop,
               QuietInv, NoSignal, Settled, Numbered, Forked, Unreaped
<1> QED
  BY <1>2, <1>3, <1>4, <1>5, <1>6, <1>7, <1>8, <1>9, <1>10, <1>11, <1>12, <1>13, QuietFrame

-----------------------------------------------------------------------------
(* Every step is a step of Job, or one that Job does not see *)

\* A step that leaves Job's variables alone is a stutter of Job.
LEMMA Stutter ==
  ASSUME JobPhase' = JobPhase, len' = len,
         (Unforked \cup Running)' = Unforked \cup Running,
         LastStatus' = LastStatus, status' = status
  PROVE  UNCHANGED Promise!vars
BY DEF Promise!vars

\* The commands that run, and the last status, are a matter of who is alive.
LEMMA SameChildren ==
  ASSUME UNCHANGED <<len, lastPid, pos, hasNext, wst>>,
         \A p \in Pid : Alive(p)' = Alive(p), lastPid \in Pid \cup {NoPid}
  PROVE  Running' = Running /\ LastStatus' = LastStatus
BY DEF Running, LastStatus

\* With every process free nothing runs.
LEMMA NobodyRuns ==
  ASSUME FreePids = Pid
  PROVE  Running = {} /\ \A p \in Pid : ~Alive(p)
BY DEF Running, FreePids, Alive, Unplumbed, Plumbed

LEMMA JobInit == Init => Promise!Init
<1> SUFFICES ASSUME Init PROVE Promise!Init
  OBVIOUS
<1>1. Running = {}
  BY NobodyRuns DEF Init, FreePids
<1> QED
  BY <1>1 DEF Init, Promise!Init, JobPhase, Unforked, LastStatus

\* The death of a child is the end of its command, and of no other: it alone
\* has that number.  It decides the status when it is last_pid.
LEMMA DeathFinishes ==
  ASSUME IInv, QuietInv, Quiet, NEW p \in Pid, ChildStep(p)
  PROVE  [Promise!Next]_(Promise!vars)
<1> USE DEF IInv, TypeOK, ShellTypes, ChildTypes
<1>1. /\ UNCHANGED <<pc, len, cmd, lastPid, status>> /\ pos' = pos /\ hasNext' = hasNext
  BY ChildFrame DEF shellVars, loopVars
<1>2. /\ Alive(p)
      /\ \A o \in Pid \ {p} : st'[o] = st[o] /\ wst'[o] = wst[o]
      /\ \/ st'[p] \in Unplumbed \cup Plumbed /\ wst'[p] = wst[p]
         \/ st'[p] = "zombie" /\ StatusOf(wst'[p]) \in Statuses
  BY ChildActs DEF QuietInv, NoSignal
<1>3. JobPhase' = JobPhase /\ Unforked' = Unforked
  BY <1>1 DEF JobPhase, Unforked
<1>4. CASE st'[p] \in Unplumbed \cup Plumbed /\ wst'[p] = wst[p]
  <2>1. \A o \in Pid : Alive(o)' = Alive(o) /\ wst'[o] = wst[o]
    BY <1>2, <1>4 DEF Alive
  <2>2. Running' = Running /\ LastStatus' = LastStatus
    BY <1>1, <2>1 DEF Running, LastStatus
  <2> QED
    BY <1>1, <1>3, <2>2, Stutter
<1>5. CASE st'[p] = "zombie" /\ StatusOf(wst'[p]) \in Statuses
  <2>1. ~Alive(p)' /\ \A o \in Pid \ {p} : Alive(o)' = Alive(o)
    BY <1>2, <1>5 DEF Alive, Unplumbed, Plumbed
  <2>2. pc \notin {"prompt", "hdc", "exited"} /\ JobPhase = "running"
    BY <1>2, NobodyRuns DEF QuietInv, Settled, JobPhase
  <2>3. /\ pos[p] \in 1..Forked /\ Forked <= len /\ len \in Nat /\ Forked \in Nat
        /\ hasNext[p] = (pos[p] < len)
        /\ \A o \in Pid \ {p} : pos[o] # pos[p]
    BY <1>2, ForkedBounds DEF Alive, Unplumbed, Plumbed, QuietInv, Numbered
  <2>4. pos[p] \in Running /\ Running' = Running \ {pos[p]}
    BY <1>1, <1>2, <2>1, <2>3 DEF Running
  <2>5. pos[p] \notin Unforked
    BY <2>2, <2>3, ForkedBounds DEF Unforked, Forked
  <2>6. /\ pos[p] \in Unforked \cup Running
        /\ (Unforked \cup Running)' = (Unforked \cup Running) \ {pos[p]}
    BY <1>3, <2>4, <2>5
  <2>7. LastStatus' = IF pos[p] = len THEN StatusOf(wst'[p]) ELSE LastStatus
    <3>1. CASE p = lastPid
      BY <1>1, <1>2, <2>1, <2>3, <3>1, Bounds DEF LastStatus
    <3>2. CASE p # lastPid
      <4>1. LastStatus' = LastStatus
        BY <1>1, <1>2, <2>1, <3>2 DEF LastStatus
      <4>2. pos[p] # len
        <5>1. SUFFICES ASSUME pos[p] = len PROVE FALSE
          OBVIOUS
        <5>2. Forked = len
          BY <2>3, <5>1
        <5>3. lastPid \in Pid /\ pos[lastPid] = len
          <6>1. pc = "parent" \/ pc \in Waiting
            BY <2>2, <5>2, ForkedBounds DEF Forked, Waiting, InLoop, Quiet, LoopInv
          <6>2. pc = "parent" => cmd = len
            BY <5>2 DEF Forked
          <6> QED
            BY <6>1, <6>2 DEF LastPidInv
        <5> QED
          BY <2>3, <3>2, <5>1, <5>3
      <4> QED
        BY <4>1, <4>2
    <3> QED
      BY <3>1, <3>2
  <2>8. Promise!Finish(pos[p], StatusOf(wst'[p]))
    BY <1>1, <1>3, <2>2, <2>6, <2>7 DEF Promise!Finish
  <2> QED
    BY <1>5, <2>6, <2>8 DEF Promise!Next
<1> QED
  BY <1>2, <1>4, <1>5

LEMMA JobStep ==
  ASSUME IInv, QuietInv, Quiet, Quiet', [Next]_vars
  PROVE  [Promise!Next]_(Promise!vars)
<1> USE DEF IInv, TypeOK, ShellTypes
<1>1. len \in Nat /\ cmd \in Nat /\ cmd > 0
  BY ForkedBounds
<1>2. ASSUME NEW n \in 1..MaxLen, StartJob(n) PROVE Promise!Next
  <2>1. Running' = {}
    <3>1. FreePids = Pid
      BY <1>2 DEF StartJob, QuietInv, Settled
    <3>2. \A p \in Pid : ~Alive(p)'
      BY <1>2, <3>1, NobodyRuns DEF StartJob, Alive
    <3> QED
      BY <3>2 DEF Running
  <2>2. /\ JobPhase = "idle" /\ JobPhase' = "running" /\ len' = n /\ status' = status
        /\ Unforked' = 1..n /\ LastStatus' = -1
    BY <1>2 DEF StartJob, JobPhase, Unforked, LastStatus
  <2>3. Promise!Begin(n)
    BY <2>1, <2>2 DEF Promise!Begin
  <2> QED
    BY <2>3 DEF Promise!Next
<1>3. CASE HeredocsDone
  <2>1. Running' = Running /\ LastStatus' = LastStatus
    BY <1>3 DEF HeredocsDone, loopVars, childVars, Running, LastStatus, Alive
  <2> QED
    BY <1>3, <2>1, Stutter DEF HeredocsDone, JobPhase, Unforked, loopVars
<1>4. CASE HeredocsAbandoned(-1)
  <2>1. /\ pc = "hdc" /\ pc' = "prompt" /\ cmd = 1 /\ lastPid = NoPid
        /\ UNCHANGED <<len, lastPid, status, childVars>>
    BY <1>4 DEF HeredocsAbandoned, LoopInv, QuietInv, Unreaped
  <2>2. Running = {} /\ Running' = {}
    BY <2>1, NobodyRuns DEF QuietInv, Settled, Running, Alive, childVars
  <2>3. LastStatus = -1 /\ LastStatus' = -1
    BY <2>1 DEF LastStatus
  <2>4. Unforked = 1..len /\ Unforked' = {} /\ JobPhase = "running" /\ JobPhase' = "idle"
    BY <2>1 DEF Unforked, JobPhase
  <2>5. Promise!Abandon
    BY <2>1, <2>2, <2>3, <2>4 DEF Promise!Abandon
  <2> QED
    BY <2>5 DEF Promise!Next
<1>5. CASE OpenPipe
  <2>1. Running' = Running /\ LastStatus' = LastStatus
    BY <1>5 DEF OpenPipe, loopVars, childVars, Running, LastStatus, Alive
  <2> QED
    BY <1>5, <2>1, Stutter DEF OpenPipe, JobPhase, Unforked, loopVars
<1>6. CASE Fork
  <2>1. PICK c \in FreePids :
          /\ st' = [st EXCEPT ![c] = "forked"] /\ pos' = [pos EXCEPT ![c] = cmd]
          /\ hasNext' = [hasNext EXCEPT ![c] = cmd < len] /\ lastPid' = c
    BY <1>6 DEF Fork
  <2>2. pc = "fork" /\ pc' = "parent" /\ UNCHANGED <<len, cmd, status, wst>>
    BY <1>6 DEF Fork
  <2>3. c \in Pid /\ ~Alive(c) /\ Alive(c)' /\ pos'[c] = cmd
        /\ \A p \in Pid \ {c} : Alive(p)' = Alive(p) /\ pos'[p] = pos[p]
    BY <2>1 DEF FreePids, ChildTypes, Alive, Unplumbed, Plumbed
  <2>4. cmd \in 1..len
    BY <1>1, <2>2, ForkedBounds DEF InLoop
  <2>5. Running' = Running \cup {cmd}
    BY <2>2, <2>3, <2>4 DEF Running
  <2>6. Unforked = cmd..len /\ Unforked' = cmd + 1..len
    BY <2>2 DEF Unforked
  <2>7. (Unforked \cup Running)' = Unforked \cup Running
    BY <1>1, <2>4, <2>5, <2>6
  <2>8. LastStatus = -1
    BY <2>2 DEF LastStatus, QuietInv, Unreaped, InLoop
  <2>9. LastStatus' = -1
    BY <2>1, <2>3 DEF LastStatus
  <2> QED
    BY <2>2, <2>7, <2>8, <2>9, Stutter DEF JobPhase
<1>7. CASE ParentCloses
  <2>1. /\ pc = "parent" /\ pc' = (IF cmd < len THEN "pipe" ELSE "wait") /\ cmd' = cmd + 1
        /\ UNCHANGED <<len, lastPid, status, childVars>>
    BY <1>7 DEF ParentCloses
  <2>2. Running' = Running /\ LastStatus' = LastStatus
    BY <2>1 DEF childVars, Running, LastStatus, Alive
  <2>3. Unforked' = Unforked
    BY <1>1, <2>1 DEF Unforked
  <2> QED
    BY <2>1, <2>2, <2>3, Stutter DEF JobPhase
<1>8. ASSUME NEW p \in Pid, WaitReap(p) PROVE [Promise!Next]_(Promise!vars)
  <2>1. /\ pc \in Waiting /\ pc' = "wait" /\ st[p] = "zombie" /\ st' = [st EXCEPT ![p] = "free"]
        /\ status' = IF p = lastPid THEN StatusOf(wst[p]) ELSE status
        /\ UNCHANGED <<loopVars, pos, hasNext, wst>>
    BY <1>8 DEF WaitReap, Waiting
  <2>2. ~Alive(p) /\ \A o \in Pid : Alive(o)' = Alive(o)
    BY <2>1 DEF ChildTypes, Alive, Unplumbed, Plumbed
  <2>3. Running' = Running /\ LastStatus' = LastStatus
    BY <2>1, <2>2, SameChildren DEF loopVars
  <2>4. Unforked = {} /\ Unforked' = {} /\ JobPhase = "running" /\ JobPhase' = "running"
    BY <2>1 DEF Unforked, JobPhase, Waiting
  <2>5. CASE p = lastPid
    <3>1. LastStatus = StatusOf(wst[p]) /\ StatusOf(wst[p]) \in Nat
      <4>1. p # NoPid /\ ~hasNext[p]
        BY <2>1, <2>5, Bounds DEF LastPidInv
      <4>2. LastStatus = StatusOf(wst[p])
        BY <2>2, <2>5, <4>1 DEF LastStatus
      <4> QED
        BY <4>2, StatusIsByte DEF ChildTypes
    <3>2. Promise!Report
      BY <2>1, <2>3, <2>4, <2>5, <3>1 DEF Promise!Report, loopVars
    <3> QED
      BY <3>2 DEF Promise!Next
  <2>6. CASE p # lastPid
    BY <2>1, <2>3, <2>4, <2>6, Stutter DEF loopVars
  <2> QED
    BY <2>5, <2>6
<1>9. CASE WaitBlock
  <2>1. Running' = Running /\ LastStatus' = LastStatus
    BY <1>9 DEF WaitBlock, loopVars, childVars, Running, LastStatus, Alive
  <2> QED
    BY <1>9, <2>1, Stutter DEF WaitBlock, JobPhase, Unforked, loopVars
<1>10. CASE WaitDone
  <2>1. /\ pc = "wait" /\ pc' = "prompt" /\ FreePids = Pid
        /\ UNCHANGED <<len, lastPid, status, childVars>>
    BY <1>10 DEF WaitDone, BackToPrompt, loopVars
  <2>2. Running = {} /\ Running' = {} /\ LastStatus' = LastStatus
    BY <2>1, NobodyRuns DEF Running, LastStatus, Alive, childVars
  <2>3. Unforked = {} /\ Unforked' = {} /\ JobPhase = "running" /\ JobPhase' = "idle"
    BY <2>1 DEF Unforked, JobPhase
  <2>4. status = LastStatus
    <3>1. lastPid \in Pid /\ ~hasNext[lastPid] /\ status = StatusOf(wst[lastPid])
      BY <2>1 DEF LastPidInv, Waiting, FreePids, QuietInv, NoSignal
    <3>2. lastPid # NoPid /\ ~Alive(lastPid)
      BY <2>1, <3>1, NobodyRuns, Bounds
    <3> QED
      BY <3>1, <3>2 DEF LastStatus
  <2>5. Promise!Return
    BY <2>1, <2>2, <2>3, <2>4 DEF Promise!Return
  <2> QED
    BY <2>5 DEF Promise!Next
<1>11. CASE Eof
  <2>1. Running' = Running /\ LastStatus' = LastStatus
    BY <1>11 DEF Eof, loopVars, childVars, Running, LastStatus, Alive
  <2>2. Promise!Quit
    BY <1>11, <2>1 DEF Eof, Promise!Quit, JobPhase, Unforked, loopVars
  <2> QED
    BY <2>2 DEF Promise!Next
<1>12. ASSUME NEW p \in Pid, ChildStep(p) PROVE [Promise!Next]_(Promise!vars)
  BY <1>12, DeathFinishes
<1>13. CASE UNCHANGED vars
  <2>1. Running' = Running /\ LastStatus' = LastStatus
    BY <1>13 DEF vars, shellVars, loopVars, childVars, Running, LastStatus, Alive
  <2> QED
    BY <1>13, <2>1, Stutter DEF vars, shellVars, loopVars, JobPhase, Unforked
<1> QED
  BY <1>2, <1>3, <1>4, <1>5, <1>6, <1>7, <1>8, <1>9, <1>10, <1>11, <1>12, <1>13, QuietFrame

-----------------------------------------------------------------------------
(* With enough processes and pipes nothing fails *)

\* The bounds under which every behaviour is quiet: no call is made to fail, no
\* signal is typed, and the kernel can give a child to every command and a pipe
\* to every joint of the longest list.
Enough ==
  /\ MaxFaults = 0 /\ MaxSigs = 0
  /\ IsFiniteSet(Pid) /\ Cardinality(Pid) >= MaxLen
  /\ IsFiniteSet(PipeId) /\ Cardinality(PipeId) >= MaxLen - 1

\* At the top of the loop the pipes in use belong to the joints behind it.
LEMMA JointsBehind ==
  ASSUME IInv, QuietInv, pc = "pipe",
         NEW p \in Procs, NEW a \in Slots, fd[p][a] \in PipeId
  PROVE  Joint(p, a) \in 1..cmd - 1
<1> USE Bounds, ForkedBounds DEF InLoop
<1>1. CASE p = Shell
  <2>1. a = "prev" /\ cmd > 1
    BY <1>1 DEF IInv, ShellFdInv, Slots
  <2> QED
    BY <1>1, <2>1 DEF Joint
<1>2. CASE p \in Pid
  <2>1. Alive(p)
    BY <1>2 DEF IInv, ChildFdInv, ClosedFds, Slots
  <2>2. pos[p] \in 1..cmd - 1
    BY <1>2, <2>1 DEF QuietInv, Numbered, Forked, Alive, Unplumbed, Plumbed
  <2>3. a \in {"stdin", "prev"} => pos[p] > 1
    BY <1>2, <2>1, PipelineAssumption
    DEF IInv, ChildFdInv, Alive, Unplugged, Plugged
  <2> QED
    BY <1>2, <2>2, <2>3 DEF Joint
<1> QED
  BY <1>1, <1>2 DEF Procs

\* So a pipe opened there is the first of its joint.
LEMMA JointPipeStep ==
  ASSUME IInv, QuietInv, JointPipe, Quiet, Quiet', [Next]_vars
  PROVE  JointPipe'
<1>1. CASE EndsKept
  BY <1>1, JointMoves
<1>2. CASE OpenPipe /\ cmd # len
  <2>1. PICK q \in PipeId :
           /\ \A p \in Procs, a \in Slots : fd[p][a] # q
           /\ \A p \in Procs, a \in Slots :
                \/ fd'[p][a] = q /\ p = Shell /\ a \in {"r", "w"}
                \/ fd'[p][a] # q /\ fd'[p][a] = fd[p][a]
           /\ \A p \in Procs, a \in Slots : Joint(p, a)' = Joint(p, a)
    BY <1>2, OpenedEnds
  <2>2. cmd \in Nat /\ \A a \in {"r", "w"} : Joint(Shell, a) = cmd
    BY ForkedBounds DEF Joint
  <2>3. \A p \in Procs, a \in Slots : fd[p][a] \in PipeId => Joint(p, a) # cmd
    BY <1>2, <2>2, JointsBehind DEF OpenPipe
  <2> QED
    BY <2>1, <2>2, <2>3 DEF JointPipe
<1>3. CASE OutsideStep
  BY <1>1, <1>2, <1>3, OutsideEnds
<1>4. ASSUME NEW p \in Pid, ChildStep(p) PROVE JointPipe'
  BY <1>1, <1>4, ChildStepEnds DEF IInv
<1>5. CASE UNCHANGED vars
  BY <1>1, <1>5, JointUnchanged DEF vars, shellVars, childVars, loopVars
<1> QED
  BY <1>3, <1>4, <1>5 DEF Next, OutsideStep, Terminated

LEMMA FirstNumbers ==
  ASSUME NEW n \in Nat
  PROVE  IsFiniteSet(1..n) /\ Cardinality(1..n) = n
<1>1. 1 \in Int /\ n \in Int
  OBVIOUS
<1>2. IsFiniteSet(1..n) /\ Cardinality(1..n) = IF 1 > n THEN 0 ELSE n - 1 + 1
  BY <1>1, FS_Interval
<1> QED
  BY <1>2

\* The children are fewer than the commands, so fork() finds a process.
LEMMA PidsSuffice ==
  ASSUME Enough, IInv, QuietInv, pc = "fork"
  PROVE  FreePids # {}
<1> SUFFICES ASSUME FreePids = {} PROVE FALSE
  OBVIOUS
<1> DEFINE number == [p \in Pid |-> pos[p]]
<1>1. cmd \in Nat /\ cmd > 0 /\ cmd <= len /\ len <= MaxLen /\ len \in Nat
  BY ForkedBounds DEF InLoop, IInv, TypeOK, ShellTypes
<1>2. \A p \in Pid : pos[p] \in 1..cmd - 1
  BY <1>1 DEF FreePids, QuietInv, Unreaped, Numbered, InLoop, Forked
<1>3. number \in Injection(Pid, 1..cmd - 1)
  BY <1>2 DEF Injection, IsInjective, QuietInv, Numbered
<1>4. IsFiniteSet(1..cmd - 1) /\ Cardinality(1..cmd - 1) <= cmd - 1
  BY <1>1, FirstNumbers, cmd - 1 \in Nat
<1>5. Cardinality(Pid) <= Cardinality(1..cmd - 1)
  BY <1>3, <1>4, FS_Injection
<1>6. Cardinality(Pid) \in Nat /\ Cardinality(1..cmd - 1) \in Nat
  BY <1>4, FS_CardinalityType DEF Enough
<1> QED
  BY <1>1, <1>4, <1>5, <1>6, Bounds DEF Enough

\* The pipes in use are fewer than the joints, so pipe() finds one.
LEMMA PipesSuffice ==
  ASSUME Enough, IInv, QuietInv, JointPipe, pc = "pipe", cmd < len
  PROVE  FreePipes # {}
<1> SUFFICES ASSUME FreePipes = {} PROVE FALSE
  OBVIOUS
<1> DEFINE Ends(q) == {e \in Procs \X Slots : fd[e[1]][e[2]] = q}
           end == [q \in PipeId |-> CHOOSE e \in Ends(q) : TRUE]
           joint == [q \in PipeId |-> Joint(end[q][1], end[q][2])]
<1>1. cmd \in Nat /\ cmd > 0 /\ cmd < len /\ len <= MaxLen /\ len \in Nat
  BY ForkedBounds DEF IInv, TypeOK, ShellTypes
<1>2. \A q \in PipeId : Ends(q) # {}
  <2> SUFFICES ASSUME NEW q \in PipeId PROVE \E e \in Procs \X Slots : fd[e[1]][e[2]] = q
    OBVIOUS
  <2>1. PICK p \in Procs, a \in Slots : fd[p][a] = q
    BY DEF FreePipes, Readers, Writers, Slots
  <2> QED
    BY <2>1, <<p, a>> \in Procs \X Slots, <<p, a>>[1] = p, <<p, a>>[2] = a
<1>3. \A q \in PipeId : /\ end[q][1] \in Procs /\ end[q][2] \in Slots
                        /\ fd[end[q][1]][end[q][2]] = q
  BY <1>2
<1> HIDE DEF Ends, end
<1>4. \A q \in PipeId : joint[q] \in 1..cmd - 1
  BY <1>3, JointsBehind
<1>5. \A q, r \in PipeId : joint[q] = joint[r] => q = r
  BY <1>3 DEF JointPipe
<1>6. joint \in Injection(PipeId, 1..cmd - 1)
  BY <1>4, <1>5 DEF Injection, IsInjective
<1> HIDE DEF joint
<1>7. IsFiniteSet(1..cmd - 1) /\ Cardinality(1..cmd - 1) <= cmd - 1
  BY <1>1, FirstNumbers, cmd - 1 \in Nat
<1>8. Cardinality(PipeId) <= Cardinality(1..cmd - 1)
  BY <1>6, <1>7, FS_Injection
<1>9. Cardinality(PipeId) \in Nat /\ Cardinality(1..cmd - 1) \in Nat
  BY <1>7, FS_CardinalityType DEF Enough
<1> QED
  BY <1>1, <1>7, <1>8, <1>9, Bounds DEF Enough

\* With enough of everything no step leaves the quiet.
LEMMA StaysQuiet ==
  ASSUME Enough, IInv, QuietInv, JointPipe, Quiet, [Next]_vars
  PROVE  Quiet'
<1>1. ~PipeError
  BY PipesSuffice DEF PipeError, Fails, Enough, IInv, TypeOK, KernelTypes
<1>2. ~ForkError
  BY PidsSuffice DEF ForkError, Fails, Enough, IInv, TypeOK, KernelTypes
<1>3. ~Sigint /\ ~Sigquit
  BY DEF Sigint, Sigquit, Enough, Quiet
<1>4. sigs' = sigs
  BY <1>3 DEF Next, ShellStep, Terminated, vars, boundVars, StartJob, HeredocsDone,
     HeredocsAbandoned, OpenPipe, PipeError, Fork, ForkError, ParentCloses, CleanList, WaitReap,
     WaitBlock, WaitInterrupted, WaitDone, Eof, ChildStep
<1>5. cut' \in {cut, "none", "hdc", "eintr"}
  BY <1>1, <1>2, <1>3 DEF Next, ShellStep, Terminated, vars, shellVars, StartJob, HeredocsDone,
     HeredocsAbandoned, OpenPipe, Fork, ParentCloses, CleanList, WaitReap,
     WaitBlock, WaitInterrupted, WaitDone, Eof, ChildStep
<1> QED
  BY <1>4, <1>5 DEF Quiet

LEMMA JointPipeInit == Init => JointPipe /\ Quiet
<1> SUFFICES ASSUME Init PROVE JointPipe /\ Quiet
  OBVIOUS
<1>1. \A p \in Procs : fd[p] \in {TtyFds, ClosedFds}
  BY DEF Init
<1> QED
  BY <1>1, Bounds DEF Init, Quiet, JointPipe, Slots, TtyFds, ClosedFds

-----------------------------------------------------------------------------
(* The theorems *)

\* In a behaviour in which nobody types a signal and no pipe() or fork() fails,
\* whatever the number of processes, pipes, commands and jobs, the executor does
\* what Job promises: the prompt comes back when every command has ended, with
\* the last one's status (exec_command_list and wait_for_children).
THEOREM QuietRefinement == Spec /\ []Quiet => ImplementsJob
<1>1. IInv /\ QuietInv /\ Quiet /\ Quiet' /\ [Next]_vars => QuietInv'
  BY QuietStep
<1>2. IInv /\ QuietInv /\ Quiet /\ Quiet' /\ [Next]_vars => [Promise!Next]_(Promise!vars)
  BY JobStep
<1> QED
  BY <1>1, <1>2, QuietInit, JobInit, Invariance, PTL DEF Spec, ImplementsJob, Promise!Spec

\* With a process for each command and a pipe for each joint, no other failing
\* call and no signal, the shell stays quiet, and the ends of a joint are ends of
\* one pipe (exec_command_list, child_and_parent_process, wait_for_children).
THEOREM QuietInvariance ==
  ASSUME Enough
  PROVE  Spec => []QuietJob
<1>1. IInv /\ QuietInv /\ JointPipe /\ Quiet /\ [Next]_vars => Quiet'
  BY StaysQuiet
<1>2. IInv /\ QuietInv /\ JointPipe /\ Quiet /\ Quiet' /\ [Next]_vars
        => QuietInv' /\ JointPipe'
  BY QuietStep, JointPipeStep
<1> QED
  BY <1>1, <1>2, QuietInit, JointPipeInit, Invariance, PTL DEF Spec, QuietJob

\* The promise is kept by every behaviour when the kernel has a process for each
\* command and a pipe for each joint, no call fails for another reason and nobody
\* interrupts: Job is what the executor implements.
THEOREM Refinement ==
  ASSUME Enough
  PROVE  Spec => ImplementsJob
<1>1. QuietJob => Quiet
  BY DEF QuietJob
<1> QED BY <1>1, QuietInvariance, QuietRefinement, PTL
=============================================================================
