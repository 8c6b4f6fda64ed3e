-------------------------- MODULE WorkerLifecycle --------------------------
(***************************************************************************)
(* The worker threads of CWeChatPrinterDlg and the way OnDestroy stops     *)
(* them (WeChatPrinterDlg.cpp).  OnInitDialog starts one thread per worker.*)
(* Each loops: test m_bExit, wait for its manual-reset event, test m_bExit *)
(* again, do one pass of work, ResetEvent.  One-shot UI timers, or another *)
(* worker, raise the events.  OnDestroy sets m_bExit and then, one worker  *)
(* after the other, sets its event and waits three seconds for its thread. *)
(*                                                                         *)
(* What a pass does is left to the other modules.  The process exit that   *)
(* follows OnDestroy, which kills what is still running, is left out.      *)
(***************************************************************************)
EXTENDS Integers

CONSTANTS
  Worker,      \* the threads: ReSign, DviceStatus, RMQ, ChooseProgram
  NumWorkers,  \* how many there are
  Rank,        \* the position of each worker in OnDestroy
  TimerWoken,  \* workers whose event OnTimer sets
  Notifies,    \* pairs <<v, w>>: a pass of v may set the event of w
  OneShot      \* workers that leave their loop after a pass that succeeds

ASSUME WorkerAssumption ==
  /\ NumWorkers \in Nat
  /\ Rank \in [Worker -> 1..NumWorkers]
  /\ \A v, w \in Worker : Rank[v] = Rank[w] => v = w
  /\ TimerWoken \subseteq Worker
  /\ Notifies \subseteq Worker \X Worker
  /\ OneShot \subseteq Worker

VARIABLES
  m_bExit,  \* the exit flag every loop tests
  event,    \* event[w]: w's manual-reset event is signalled
  pc,       \* pc[w]: where thread w is
  ui,       \* the UI thread: message loop, or a stage of OnDestroy
  turn      \* the rank of the worker OnDestroy is stopping

vars == <<m_bExit, event, pc, ui, turn>>

PC == {"loop", "wait", "woken", "work", "reset", "done"}
UI == {"running", "signal", "join", "gone"}

TypeOK ==
  /\ m_bExit \in BOOLEAN
  /\ event \in [Worker -> BOOLEAN]
  /\ pc \in [Worker -> PC]
  /\ ui \in UI
  /\ turn \in 1..(NumWorkers + 1)

Init ==
  /\ m_bExit = FALSE
  /\ event = [w \in Worker |-> FALSE]
  /\ pc = [w \in Worker |-> "loop"]
  /\ ui = "running"
  /\ turn = 1

Goto(w, from, to) ==
  /\ pc[w] = from
  /\ pc' = [pc EXCEPT ![w] = to]

-----------------------------------------------------------------------------
(* The worker threads. *)

\* Slip: for (;;)
LoopForever(w) ==
  /\ Goto(w, "loop", "wait")
  /\ UNCHANGED <<m_bExit, event, ui, turn>>

\* while (FALSE == m_bExit)
LoopTest(w) ==
  /\ Goto(w, "loop", IF m_bExit THEN "done" ELSE "wait")
  /\ UNCHANGED <<m_bExit, event, ui, turn>>

\* WaitForSingleObject(event, INFINITE) returns; the event stays signalled.
Wake(w) ==
  /\ event[w]
  /\ Goto(w, "wait", "woken")
  /\ UNCHANGED <<m_bExit, event, ui, turn>>

\* if (TRUE == m_bExit) return TRUE;
ExitTest(w) ==
  /\ Goto(w, "woken", IF m_bExit THEN "done" ELSE "work")
  /\ UNCHANGED <<m_bExit, event, ui, turn>>

\* A pass of v hands work to w: the OFFLINE and TURNSTATUS commands.
Notify(v, w) ==
  /\ <<v, w>> \in Notifies
  /\ pc[v] = "work"
  /\ event' = [event EXCEPT ![w] = TRUE]
  /\ UNCHANGED <<m_bExit, pc, ui, turn>>

FinishPass(w) ==
  /\ Goto(w, "work", "reset")
  /\ UNCHANGED <<m_bExit, event, ui, turn>>

\* ReSignThreadContent breaks out of its loop once Login has succeeded.
LeaveLoop(w) ==
  /\ w \in OneShot
  /\ Goto(w, "work", "done")
  /\ UNCHANGED <<m_bExit, event, ui, turn>>

\* ResetEvent, after the work is done
Reset(w) ==
  /\ Goto(w, "reset", "loop")
  /\ event' = [event EXCEPT ![w] = FALSE]
  /\ UNCHANGED <<m_bExit, ui, turn>>

-----------------------------------------------------------------------------
(* The UI thread. *)

\* A case of OnTimer that sets an event.  No timer fires inside OnDestroy.
TimerWakes(w) ==
  /\ ui = "running"
  /\ w \in TimerWoken
  /\ event' = [event EXCEPT ![w] = TRUE]
  /\ UNCHANGED <<m_bExit, pc, ui, turn>>

\* Slip: the flag is not set before the workers are signalled.
DestroyUnflagged ==
  /\ ui = "running"
  /\ ui' = "signal"
  /\ UNCHANGED <<m_bExit, event, pc, turn>>

\* OnDestroy: m_bExit = TRUE;
BeginDestroy ==
  /\ ui = "running"
  /\ m_bExit' = TRUE
  /\ ui' = "signal"
  /\ UNCHANGED <<event, pc, turn>>

\* Slip: the worker is waited for without being signalled.
SignalNothing(w) ==
  /\ ui = "signal"
  /\ Rank[w] = turn
  /\ ui' = "join"
  /\ UNCHANGED <<m_bExit, event, pc, turn>>

\* OnDestroy: SetEvent for the worker whose turn it is
Signal(w) ==
  /\ ui = "signal"
  /\ Rank[w] = turn
  /\ event' = [event EXCEPT ![w] = TRUE]
  /\ ui' = "join"
  /\ UNCHANGED <<m_bExit, pc, turn>>

\* WaitForSingleObject(thread, 3000) returns because the thread ended or
\* because the three seconds passed; OnDestroy goes on in both cases.
Join(w) ==
  /\ ui = "join"
  /\ Rank[w] = turn
  /\ turn' = turn + 1
  /\ ui' = IF turn = NumWorkers THEN "gone" ELSE "signal"
  /\ UNCHANGED <<m_bExit, event, pc>>

-----------------------------------------------------------------------------
Step(w) ==
  \/ LoopTest(w)
  \/ Wake(w)
  \/ ExitTest(w)
  \/ FinishPass(w)
  \/ LeaveLoop(w)
  \/ Reset(w)

Destroy == \E w \in Worker : Signal(w) \/ Join(w)

Next ==
  \/ \E w \in Worker : Step(w) \/ TimerWakes(w)
  \/ \E v, w \in Worker : Notify(v, w)
  \/ BeginDestroy
  \/ Destroy

\* Threads are scheduled, and a pass ends (each network call has a timeout).
Fairness ==
  /\ \A w \in Worker : WF_vars(Step(w))
  /\ WF_vars(Destroy)

Spec == Init /\ [][Next]_vars

FairSpec == Spec /\ Fairness

-----------------------------------------------------------------------------
(* OnDestroy has already set the event of w. *)
Signalled(w) == Rank[w] < turn \/ (Rank[w] = turn /\ ui = "join")

(***************************************************************************)
(* Once OnDestroy has signalled a worker, that worker can never again be   *)
(* blocked in WaitForSingleObject(INFINITE), although a pass in flight may *)
(* still reset the very event OnDestroy set: m_bExit was set first.        *)
(***************************************************************************)
NoStrandedWorker ==
  \A w \in Worker : Signalled(w) /\ pc[w] = "wait" => event[w]

(***************************************************************************)
(* Every thread ends once the dialog is being destroyed, whatever pass it  *)
(* was in and whichever timers and commands came last.                     *)
(***************************************************************************)
ExitReachesEveryWorker == m_bExit ~> \A w \in Worker : pc[w] = "done"

(***************************************************************************)
(* The inductive strengthening of NoStrandedWorker.  The flag is visible   *)
(* from the moment OnDestroy starts, so the reset that ends a pass in      *)
(* flight is followed by a loop test that fails and never by a wait.       *)
(***************************************************************************)
ExitFlagFirst ==
  /\ ui # "running" => m_bExit
  /\ ui = "running" => turn = 1

StrandInv ==
  /\ TypeOK
  /\ ExitFlagFirst
  /\ NoStrandedWorker

=============================================================================
