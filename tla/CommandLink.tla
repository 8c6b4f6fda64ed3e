---------------------------- MODULE CommandLink ----------------------------
(***************************************************************************)
(* How the platform's messages reach the player, and how it notices that   *)
(* they no longer do (WeChatPrinterDlg.cpp).                               *)
(*                                                                         *)
(* The ReSign thread signs in, subscribes and arms TIMER_OFFLINEREBOT.     *)
(* RMQ.dll calls _Recv, which overwrites g_strRecvMsg and arms a 10 ms     *)
(* timer; the UI thread raises m_hRMQEvent when it fires; the RMQ thread   *)
(* copies g_strRecvMsg, handles it, and resets the event afterwards.  The  *)
(* platform sends OFFLINE at intervals: RMQ_DealCustomMsg wakes the        *)
(* DeviceStatus thread, which reports and arms TIMER_OFFLINEREBOT anew.    *)
(* When that fires the process is restarted.                               *)
(*                                                                         *)
(* _Recv and the RMQ thread race for the characters of g_strRecvMsg: a copy*)
(* made in the middle of an assignment is no message at all.  A tick is    *)
(* longer than two adjacent calls but may pass in any call that blocks.    *)
(***************************************************************************)
EXTENDS Integers, Sequences

CONSTANTS
  OfflineTime,   \* OFFLINETIME, in ticks
  MaxSent,       \* bound: messages the platform sends
  MaxChecks      \* bound: times CheckIncompleted keeps the UI thread busy

ASSUME LinkAssumption ==
  /\ OfflineTime \in Nat \ {0}
  /\ MaxSent \in Nat
  /\ MaxChecks \in Nat

\* What matters of a message: PUBLISH stands for all that take their time.
Kind   == {"OFFLINE", "TURNSTATUS", "PUBLISH"}
Status == {"OFFLINE", "TURNSTATUS"}

Off  == OfflineTime + 1    \* not armed
Torn == 0                  \* in place of a message: none, or a torn one

VARIABLES
  process,       \* "up", or what ended it
  sent,          \* history: the messages that reached _Recv, numbered
  g_strRecvMsg,  \* the number of the message it holds
  recv,          \* the callback: "no", in the "copy", about to "arm" the timer
  recvTimer,     \* TIMER_RECV_MSG is armed
  rmqEvent, rmqPc, msg,        \* the RMQ thread and the message it handles
  statusEvent, statusPc,       \* the DeviceStatus thread
  signEvent, signPc,           \* the ReSign thread
  resignTimer,   \* TIMER_RESIGN is armed
  subscribed,    \* RMQ.dll delivers messages
  watchdog,      \* ticks until TIMER_OFFLINEREBOT is due
  busy, checks,  \* the UI thread is in CheckIncompleted; how often it was
  silence,       \* history: ticks since OFFLINE was received
  lastOffline,   \* history: the number of that message, 0 for none
  done,          \* history: the messages handled
  swallowed      \* history: those announced while another was handled

slot    == <<sent, g_strRecvMsg, recv, recvTimer>>
rmq     == <<rmqEvent, rmqPc, msg>>
status  == <<statusEvent, statusPc>>
sign    == <<signEvent, signPc, resignTimer>>
ui      == <<busy, checks>>

history == <<silence, lastOffline, done, swallowed>>

vars == <<process, slot, rmq, status, sign, subscribed, watchdog, ui, history>>

TypeOK ==
  /\ process \in {"up", "watchdog", "other"}
  /\ sent \in Seq(Kind) /\ Len(sent) <= MaxSent
  /\ g_strRecvMsg \in 0..Len(sent)
  /\ recv \in {"no", "copy", "arm"}
  /\ recvTimer \in BOOLEAN
  /\ rmqEvent \in BOOLEAN
  /\ rmqPc \in {"wait", "read", "handle", "reset"}
  /\ msg \in 0..Len(sent)
  /\ statusEvent \in BOOLEAN
  /\ statusPc \in {"wait", "upload", "reset"}
  /\ signEvent \in BOOLEAN
  /\ signPc \in {"wait", "login", "reset", "arm", "gone"}
  /\ resignTimer \in BOOLEAN
  /\ subscribed \in BOOLEAN
  /\ watchdog \in 0..Off
  /\ busy \in BOOLEAN
  /\ checks \in 0..MaxChecks
  /\ silence \in 0..OfflineTime
  /\ lastOffline \in 0..Len(sent)
  /\ done \subseteq 1..Len(sent)
  /\ swallowed \subseteq 0..Len(sent)

\* OnInitDialog has started the threads and armed TIMER_RESIGN.
Init ==
  /\ process = "up"
  /\ sent = <<>>
  /\ g_strRecvMsg = Torn
  /\ recv = "no"
  /\ recvTimer = FALSE
  /\ rmqEvent = FALSE
  /\ rmqPc = "wait"
  /\ msg = Torn
  /\ statusEvent = FALSE
  /\ statusPc = "wait"
  /\ signEvent = FALSE
  /\ signPc = "wait"
  /\ resignTimer = TRUE
  /\ subscribed = FALSE
  /\ watchdog = Off
  /\ busy = FALSE
  /\ checks = 0
  /\ silence = OfflineTime
  /\ lastOffline = 0
  /\ done = {}
  /\ swallowed = {}

-----------------------------------------------------------------------------
(* RMQ.dll: the callback, one call at a time, and the connection *)

RecvCopies(kind) ==
  /\ process = "up"
  /\ subscribed
  /\ recv = "no"
  /\ Len(sent) < MaxSent
  /\ sent' = Append(sent, kind)
  /\ recv' = "copy"
  /\ g_strRecvMsg' = Torn
  /\ IF kind = "OFFLINE"
     THEN silence' = 0 /\ lastOffline' = Len(sent) + 1
     ELSE UNCHANGED <<silence, lastOffline>>
  /\ UNCHANGED <<process, recvTimer, rmq, status, sign, subscribed, watchdog,
                 ui, done, swallowed>>

RecvCopied ==
  /\ process = "up"
  /\ recv = "copy"
  /\ recv' = "arm"
  /\ g_strRecvMsg' = Len(sent)
  /\ UNCHANGED <<process, sent, recvTimer, rmq, status, sign, subscribed,
                 watchdog, ui, history>>

\* Slip: nothing is announced while a message is handled.
RecvArmsIfIdle ==
  /\ process = "up"
  /\ recv = "arm"
  /\ recv' = "no"
  /\ recvTimer' = (recvTimer \/ rmqPc = "wait")
  /\ UNCHANGED <<process, sent, g_strRecvMsg, rmq, status, sign, subscribed,
                 watchdog, ui, history>>

RecvArms ==
  /\ process = "up"
  /\ recv = "arm"
  /\ recv' = "no"
  /\ recvTimer' = TRUE
  /\ UNCHANGED <<process, sent, g_strRecvMsg, rmq, status, sign, subscribed,
                 watchdog, ui, history>>

Disconnect ==
  /\ process = "up"
  /\ subscribed
  /\ subscribed' = FALSE
  /\ UNCHANGED <<process, slot, rmq, status, sign, watchdog, ui, history>>

-----------------------------------------------------------------------------
(* RMQThreadContent *)

RMQGoto(from, to) ==
  /\ process = "up"
  /\ rmqPc = from
  /\ rmqPc' = to

RMQWake ==
  /\ RMQGoto("wait", "read")
  /\ rmqEvent
  /\ UNCHANGED <<process, slot, rmqEvent, msg, status, sign, subscribed,
                 watchdog, ui, history>>

\* g_strRecvMsg is copied for RMQ_DealCustomMsg.
RMQRead ==
  /\ RMQGoto("read", "handle")
  /\ msg' = g_strRecvMsg
  /\ UNCHANGED <<process, slot, rmqEvent, status, sign, subscribed, watchdog,
                 ui, history>>

\* OFFLINE, TURNSTATUS: SetEvent(m_hDviceStatusEvent)
DealStatus ==
  /\ RMQGoto("handle", "reset")
  /\ msg # Torn
  /\ sent[msg] \in Status
  /\ statusEvent' = TRUE
  /\ done' = done \cup {msg}
  /\ UNCHANGED <<process, slot, rmqEvent, msg, statusPc, sign, subscribed,
                 watchdog, ui, silence, lastOffline, swallowed>>

\* Any other message, and what is none
DealOther ==
  /\ RMQGoto("handle", "reset")
  /\ msg # Torn => sent[msg] \notin Status
  /\ done' = done \cup ({msg} \ {Torn})
  /\ UNCHANGED <<process, slot, rmqEvent, msg, status, sign, subscribed,
                 watchdog, ui, silence, lastOffline, swallowed>>

RMQReset ==
  /\ RMQGoto("reset", "wait")
  /\ rmqEvent' = FALSE
  /\ UNCHANGED <<process, slot, msg, status, sign, subscribed, watchdog, ui,
                 history>>

RMQThread == RMQWake \/ RMQRead \/ DealStatus \/ DealOther \/ RMQReset

-----------------------------------------------------------------------------
(* DeviceStatusThreadContent *)

StatusGoto(from, to) ==
  /\ process = "up"
  /\ statusPc = from
  /\ statusPc' = to

StatusWake ==
  /\ StatusGoto("wait", "upload")
  /\ statusEvent
  /\ UNCHANGED <<process, slot, rmq, statusEvent, sign, subscribed, watchdog,
                 ui, history>>

\* Slip: the timer is left as it is.
UploadOnly ==
  /\ StatusGoto("upload", "reset")
  /\ UNCHANGED <<process, slot, rmq, statusEvent, sign, subscribed, watchdog,
                 ui, history>>

\* Slip: only a successful report arms the timer again.
UploadWatchedIfGood ==
  /\ StatusGoto("upload", "reset")
  /\ watchdog' \in {OfflineTime, Off}
  /\ UNCHANGED <<process, slot, rmq, statusEvent, sign, subscribed, ui,
                 history>>

\* UpLoadDeviceStatus, successful or not, and SetTimer(TIMER_OFFLINEREBOT)
UpLoadDeviceStatus ==
  /\ StatusGoto("upload", "reset")
  /\ watchdog' = OfflineTime
  /\ UNCHANGED <<process, slot, rmq, statusEvent, sign, subscribed, ui,
                 history>>

StatusReset ==
  /\ StatusGoto("reset", "wait")
  /\ statusEvent' = FALSE
  /\ UNCHANGED <<process, slot, rmq, sign, subscribed, watchdog, ui, history>>

DeviceStatusThread == StatusWake \/ UpLoadDeviceStatus \/ StatusReset

-----------------------------------------------------------------------------
(* ReSignThreadContent *)

SignGoto(from, to) ==
  /\ process = "up"
  /\ signPc = from
  /\ signPc' = to

SignWake ==
  /\ SignGoto("wait", "login")
  /\ signEvent
  /\ UNCHANGED <<process, slot, rmq, status, signEvent, resignTimer,
                 subscribed, watchdog, ui, history>>

\* Slip: signing in is tried once.
LoginGivesUp ==
  /\ SignGoto("login", "reset")
  /\ UNCHANGED <<process, slot, rmq, status, signEvent, resignTimer,
                 subscribed, watchdog, ui, history>>

LoginFails ==
  /\ SignGoto("login", "reset")
  /\ resignTimer' = TRUE
  /\ UNCHANGED <<process, slot, rmq, status, signEvent, subscribed, watchdog,
                 ui, history>>

\* RMQ_SUBConnect subscribes or does not: its result is ignored.
LoginSucceeds ==
  /\ SignGoto("login", "arm")
  /\ subscribed' \in BOOLEAN
  /\ UNCHANGED <<process, slot, rmq, status, signEvent, resignTimer, watchdog,
                 ui, history>>

\* Slip: only a subscribed device is watched.
SignOffIfSubscribed ==
  /\ SignGoto("arm", "gone")
  /\ watchdog' = IF subscribed THEN OfflineTime ELSE watchdog
  /\ UNCHANGED <<process, slot, rmq, status, signEvent, resignTimer,
                 subscribed, ui, history>>

\* SetTimer(TIMER_OFFLINEREBOT), break
SignOff ==
  /\ SignGoto("arm", "gone")
  /\ watchdog' = OfflineTime
  /\ UNCHANGED <<process, slot, rmq, status, signEvent, resignTimer,
                 subscribed, ui, history>>

SignReset ==
  /\ SignGoto("reset", "wait")
  /\ signEvent' = FALSE
  /\ UNCHANGED <<process, slot, rmq, status, resignTimer, subscribed, watchdog,
                 ui, history>>

ReSignThread == SignWake \/ LoginFails \/ LoginSucceeds \/ SignOff \/ SignReset

-----------------------------------------------------------------------------
(* The UI thread *)

UIFree == process = "up" /\ ~busy

\* Due 20 s after LoginFails, when the ReSign thread waits again
OnResign ==
  /\ UIFree
  /\ resignTimer
  /\ signPc = "wait"
  /\ resignTimer' = FALSE
  /\ signEvent' = TRUE
  /\ UNCHANGED <<process, slot, rmq, status, signPc, subscribed, watchdog, ui,
                 history>>

OnRecvMsg ==
  /\ UIFree
  /\ recvTimer
  /\ recvTimer' = FALSE
  /\ rmqEvent' = TRUE
  /\ swallowed' = IF rmqPc \in {"handle", "reset"}
                  THEN swallowed \cup {g_strRecvMsg} ELSE swallowed
  /\ UNCHANGED <<process, sent, g_strRecvMsg, recv, rmqPc, msg, status, sign,
                 subscribed, watchdog, ui, silence, lastOffline, done>>

\* RobotProgamme
OnOfflineReboot ==
  /\ UIFree
  /\ watchdog = 0
  /\ process' = "watchdog"
  /\ UNCHANGED <<slot, rmq, status, sign, subscribed, watchdog, ui, history>>

\* TIMER_CHECKINCOMPELEDFILE: downloads on the UI thread
CheckBegins ==
  /\ UIFree
  /\ checks < MaxChecks
  /\ checks' = checks + 1
  /\ busy' = TRUE
  /\ UNCHANGED <<process, slot, rmq, status, sign, subscribed, watchdog,
                 history>>

CheckEnds ==
  /\ process = "up"
  /\ busy
  /\ busy' = FALSE
  /\ UNCHANGED <<process, slot, rmq, status, sign, subscribed, watchdog,
                 checks, history>>

\* A new day, a new version, the administrator, a loss of power
End ==
  /\ process = "up"
  /\ process' = "other"
  /\ UNCHANGED <<slot, rmq, status, sign, subscribed, watchdog, ui, history>>

\* Slip: the timer goes on counting when it is due.
TickPastDue ==
  /\ process = "up"
  /\ statusPc # "reset"
  /\ watchdog' = IF watchdog # Off THEN watchdog - 1 ELSE watchdog
  /\ silence' = IF silence < OfflineTime THEN silence + 1 ELSE silence
  /\ UNCHANGED <<process, slot, rmq, status, sign, subscribed, ui, lastOffline,
                 done, swallowed>>

\* No thread is between arming the watchdog and the ResetEvent that follows.
Tick ==
  /\ process = "up"
  /\ statusPc # "reset"
  /\ watchdog' = IF watchdog \in 1..OfflineTime THEN watchdog - 1 ELSE watchdog
  /\ silence' = IF silence < OfflineTime THEN silence + 1 ELSE silence
  /\ UNCHANGED <<process, slot, rmq, status, sign, subscribed, ui, lastOffline,
                 done, swallowed>>

-----------------------------------------------------------------------------
Recv == RecvCopied \/ RecvArms

OnTimer == OnResign \/ OnRecvMsg \/ OnOfflineReboot \/ CheckBegins

Next ==
  \/ \E kind \in Kind : RecvCopies(kind)
  \/ Recv
  \/ Disconnect
  \/ RMQThread
  \/ DeviceStatusThread
  \/ ReSignThread
  \/ OnTimer
  \/ CheckEnds
  \/ End
  \/ Tick

Spec == Init /\ [][Next]_vars

\* Threads are scheduled, calls return, due timers fire, time passes.
Fairness ==
  /\ WF_vars(Recv)
  /\ WF_vars(RMQThread)
  /\ WF_vars(DeviceStatusThread)
  /\ WF_vars(ReSignThread)
  /\ WF_vars(OnResign)
  /\ WF_vars(OnRecvMsg)
  /\ WF_vars(OnOfflineReboot)
  /\ WF_vars(CheckEnds)
  /\ WF_vars(Tick)

FairSpec == Spec /\ Fairness

-----------------------------------------------------------------------------
(***************************************************************************)
(* The newest message is handled, however _Recv, the timer and the RMQ     *)
(* thread interleave: when all of them are at rest it has been, unless its *)
(* event was raised in the middle of an earlier message, to be undone by   *)
(* the ResetEvent that ends that one.                                      *)
(***************************************************************************)
LinkAtRest ==
  process = "up" /\ recv = "no" /\ ~recvTimer /\ ~rmqEvent /\ rmqPc = "wait"

NewestHandled ==
  LinkAtRest /\ sent # <<>> => Len(sent) \in done \cup swallowed

StatusPending == statusEvent \/ statusPc # "wait"

(***************************************************************************)
(* The watchdog, "restart when no OFFLINE came for a certain time": it     *)
(* ends the process although OFFLINE came within that time only if the     *)
(* RMQ thread never got to that message, or the DeviceStatus thread has    *)
(* not reported yet.                                                       *)
(***************************************************************************)
WatchdogMeansSilence ==
  process = "watchdog" /\ silence < OfflineTime =>
    lastOffline \notin done \/ StatusPending

(***************************************************************************)
(* A player that has signed in is watched until it ends, subscribed or     *)
(* not, whichever thread armed the one-shot timer last; and nobody ends a  *)
(* player that has not, which could only fail to sign in again.            *)
(***************************************************************************)
WatchedOnceSignedIn ==
  /\ process = "up" /\ signPc = "gone" => watchdog # Off
  /\ process = "watchdog" => signPc \in {"arm", "gone"}

(***************************************************************************)
(* A player cut off from the platform is restarted: with no more messages, *)
(* one that has signed in ends.                                            *)
(***************************************************************************)
CutOffRestarts == signPc = "gone" ~> process # "up"

(***************************************************************************)
(* A player that is not signed in goes on trying.                          *)
(***************************************************************************)
SignInRetried ==
  process = "up" /\ signPc \in {"wait", "reset"} ~>
    process # "up" \/ signPc = "login"

-----------------------------------------------------------------------------
(***************************************************************************)
(* The inductive strengthenings.  Of NewestHandled: where the newest       *)
(* message is on its way.                                                  *)
(***************************************************************************)
Underway ==
  /\ recv # "copy" => g_strRecvMsg = Len(sent)
  /\ process = "up" /\ sent # <<>> =>
       \/ recv # "no"
       \/ recvTimer
       \/ rmqEvent /\ rmqPc = "wait"
       \/ rmqPc = "read"
       \/ rmqPc = "handle" /\ msg = Len(sent)
       \/ Len(sent) \in done \cup swallowed

(***************************************************************************)
(* Of WatchdogMeansSilence: a report that followed the last OFFLINE left   *)
(* the watchdog at least as much time as the silence has yet to last.      *)
(***************************************************************************)
WatchdogBehind ==
  /\ lastOffline # 0 => sent[lastOffline] = "OFFLINE"
  /\ statusPc = "reset" => watchdog = OfflineTime
  /\ lastOffline \in done /\ ~StatusPending => watchdog + silence >= OfflineTime

(***************************************************************************)
(* Of WatchedOnceSignedIn: messages, and so reports, come after the login. *)
(***************************************************************************)
LoginFirst ==
  /\ signPc = "gone" => watchdog # Off
  /\ signPc \in {"wait", "login", "reset"} =>
       /\ ~subscribed /\ sent = <<>> /\ ~StatusPending
       /\ watchdog = Off /\ process # "watchdog"

=============================================================================
