----------------------- MODULE WorkerLifecycleProofs -----------------------
(***************************************************************************)
(* Safety of the shutdown protocol, for any set of workers and any order   *)
(* in which OnDestroy stops them.                                          *)
(***************************************************************************)
EXTENDS WorkerLifecycle, TLAPS

(***************************************************************************)
(* Type correctness of WorkerLifecycle.                                    *)
(***************************************************************************)
LEMMA InitType == Init => TypeOK
<1>1. 1 \in 1..(NumWorkers + 1)
  BY WorkerAssumption
<1> QED
  BY <1>1 DEF Init, TypeOK, PC, UI

LEMMA NextType == TypeOK /\ [Next]_vars => TypeOK'
<1> SUFFICES ASSUME TypeOK, [Next]_vars
             PROVE  TypeOK'
  OBVIOUS
<1> USE DEF TypeOK, PC, UI
<1>1. CASE \E w \in Worker : Step(w)
  <2> PICK w \in Worker : Step(w)
    BY <1>1
  <2>1. UNCHANGED <<m_bExit, ui, turn>>
    BY DEF Step, LoopTest, Wake, ExitTest, FinishPass, LeaveLoop, Reset
  <2>2. pc' \in [Worker -> PC]
    BY DEF Step, LoopTest, Wake, ExitTest, FinishPass, LeaveLoop, Reset, Goto
  <2>3. event' \in [Worker -> BOOLEAN]
    BY DEF Step, LoopTest, Wake, ExitTest, FinishPass, LeaveLoop, Reset
  <2> QED
    BY <2>1, <2>2, <2>3
<1>2. CASE \E w \in Worker : TimerWakes(w)
  BY <1>2 DEF TimerWakes
<1>3. CASE \E v, w \in Worker : Notify(v, w)
  BY <1>3 DEF Notify
<1>4. CASE BeginDestroy
  BY <1>4 DEF BeginDestroy
<1>5. CASE Destroy
  <2> PICK w \in Worker : Signal(w) \/ Join(w)
    BY <1>5 DEF Destroy
  <2>1. CASE Signal(w)
    BY <2>1 DEF Signal
  <2>2. CASE Join(w)
    <3>1. turn \in 1..NumWorkers
      BY <2>2, WorkerAssumption DEF Join
    <3>2. turn + 1 \in 1..(NumWorkers + 1)
      BY <3>1, WorkerAssumption
    <3> QED
      BY <2>2, <3>2 DEF Join
  <2> QED
    BY <2>1, <2>2
<1>6. CASE UNCHANGED vars
  BY <1>6 DEF vars
<1> QED
  BY <1>1, <1>2, <1>3, <1>4, <1>5, <1>6 DEF Next

(***************************************************************************)
(* In every reachable state the variables of the shutdown protocol have    *)
(* their declared types.                                                   *)
(***************************************************************************)
THEOREM TypeCorrect == Spec => []TypeOK
  BY InitType, NextType, PTL DEF Spec

-----------------------------------------------------------------------------
(***************************************************************************)
(* OnDestroy sets the exit flag before it signals the first worker.        *)
(***************************************************************************)
LEMMA FlagStep ==
  ASSUME TypeOK, ExitFlagFirst, [Next]_vars
  PROVE  ExitFlagFirst'
<1> USE DEF ExitFlagFirst
<1>1. CASE \E w \in Worker : Step(w) \/ TimerWakes(w)
  BY <1>1 DEF Step, LoopTest, Wake, ExitTest, FinishPass, LeaveLoop, Reset,
              TimerWakes
<1>2. CASE \E v, w \in Worker : Notify(v, w)
  BY <1>2 DEF Notify
<1>3. CASE BeginDestroy
  BY <1>3 DEF BeginDestroy
<1>4. CASE Destroy
  BY <1>4 DEF Destroy, Signal, Join
<1>5. CASE UNCHANGED vars
  BY <1>5 DEF vars
<1> QED
  BY <1>1, <1>2, <1>3, <1>4, <1>5 DEF Next

(***************************************************************************)
(* No step of a thread, of a timer or of OnDestroy can leave a signalled   *)
(* worker waiting on an event that is not set.                             *)
(***************************************************************************)
LEMMA StrandStep ==
  ASSUME StrandInv, [Next]_vars
  PROVE  NoStrandedWorker'
<1> SUFFICES ASSUME NEW w \in Worker, Signalled(w)', (pc[w] = "wait")'
             PROVE  event'[w]
  BY DEF NoStrandedWorker
<1> USE DEF StrandInv, TypeOK
<1>1. CASE \E v \in Worker : Step(v)
  <2> PICK v \in Worker : Step(v)
    BY <1>1
  <2>1. UNCHANGED <<m_bExit, ui, turn>>
    BY DEF Step, LoopTest, Wake, ExitTest, FinishPass, LeaveLoop, Reset
  <2>2. Signalled(w) /\ m_bExit
    BY <2>1, WorkerAssumption DEF Signalled, ExitFlagFirst
  <2>3. pc[w] = "wait"
    BY <2>2 DEF Step, LoopTest, Wake, ExitTest, FinishPass, LeaveLoop, Reset,
                Goto
  <2>4. event[w]
    BY <2>2, <2>3 DEF NoStrandedWorker
  <2>5. event'[w] = event[w]
    BY <2>3 DEF Step, LoopTest, Wake, ExitTest, FinishPass, LeaveLoop, Reset,
                Goto
  <2> QED
    BY <2>4, <2>5
<1>2. CASE \E v \in Worker : TimerWakes(v)
  BY <1>2 DEF TimerWakes, Signalled, NoStrandedWorker
<1>3. CASE \E u, v \in Worker : Notify(u, v)
  BY <1>3 DEF Notify, Signalled, NoStrandedWorker
<1>4. CASE BeginDestroy
  BY <1>4, WorkerAssumption DEF BeginDestroy, Signalled, ExitFlagFirst
<1>5. CASE Destroy
  <2> PICK v \in Worker : Signal(v) \/ Join(v)
    BY <1>5 DEF Destroy
  <2>1. CASE Signal(v)
    <3>1. CASE w = v
      BY <2>1, <3>1 DEF Signal
    <3>2. CASE w # v
      <4>1. Rank[w] # turn
        BY <2>1, <3>2, WorkerAssumption DEF Signal
      <4>2. Signalled(w) /\ pc[w] = "wait"
        BY <2>1, <4>1 DEF Signal, Signalled
      <4> QED
        BY <2>1, <3>2, <4>2 DEF Signal, NoStrandedWorker
    <3> QED
      BY <3>1, <3>2
  <2>2. CASE Join(v)
    <3>1. Rank[w] < turn + 1 /\ Rank[w] \in Int
      BY <2>2, WorkerAssumption DEF Join, Signalled
    <3>2. Signalled(w)
      BY <2>2, <3>1 DEF Join, Signalled
    <3> QED
      BY <2>2, <3>2 DEF Join, NoStrandedWorker
  <2> QED
    BY <2>1, <2>2
<1>6. CASE UNCHANGED vars
  BY <1>6 DEF vars, Signalled, NoStrandedWorker
<1> QED
  BY <1>1, <1>2, <1>3, <1>4, <1>5, <1>6 DEF Next

(***************************************************************************)
(* The inductive invariant: OnDestroy raises m_bExit before its first      *)
(* SetEvent, and a worker it has signalled finds its event set or is past  *)
(* its wait, whatever passes, timers and commands it interleaves with.     *)
(***************************************************************************)
THEOREM ExitFlagBeforeSignals == Spec => []StrandInv
<1>1. Init => StrandInv
  <2> SUFFICES ASSUME Init PROVE StrandInv
    OBVIOUS
  <2>1. \A w \in Worker : pc[w] # "wait"
    BY DEF Init
  <2> QED
    BY <2>1, InitType DEF StrandInv, ExitFlagFirst, NoStrandedWorker, Init
<1>2. StrandInv /\ [Next]_vars => StrandInv'
  BY NextType, FlagStep, StrandStep DEF StrandInv
<1> QED
  BY <1>1, <1>2, PTL DEF Spec

(***************************************************************************)
(* After OnDestroy has signalled a worker, that worker never blocks for    *)
(* ever in WaitForSingleObject.                                            *)
(***************************************************************************)
THEOREM NeverStranded == Spec => []NoStrandedWorker
<1>1. StrandInv => NoStrandedWorker
  BY DEF StrandInv
<1> QED
  BY <1>1, ExitFlagBeforeSignals, PTL

=============================================================================
