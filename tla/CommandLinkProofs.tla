------------------------- MODULE CommandLinkProofs -------------------------
(***************************************************************************)
(* Proofs about CommandLink for every number of messages, every OFFLINETIME*)
(* and every interleaving of the callback, the timers and the threads.     *)
(***************************************************************************)
EXTENDS CommandLink, TLAPS

(***************************************************************************)
(* Every step is one of these.                                             *)
(***************************************************************************)
LEMMA Cases ==
  ASSUME NEW P, [Next]_vars,
         UNCHANGED vars => P,
         ASSUME NEW kind \in Kind, RecvCopies(kind) PROVE P,
         Recv => P,
         Disconnect => P,
         RMQThread => P,
         DeviceStatusThread => P,
         ReSignThread => P,
         OnTimer => P,
         CheckEnds => P,
         End => P,
         Tick => P
  PROVE  P
  BY DEF Next

(***************************************************************************)
(* Constants, and what appending a message does.                           *)
(***************************************************************************)
LEMMA OffFacts ==
  /\ OfflineTime \in Nat /\ OfflineTime > 0
  /\ MaxSent \in Nat /\ MaxChecks \in Nat
  /\ Off = OfflineTime + 1
  BY LinkAssumption DEF Off

LEMMA AppendFacts ==
  ASSUME sent \in Seq(Kind), NEW kind \in Kind
  PROVE  /\ Len(sent) \in Nat
         /\ Append(sent, kind) \in Seq(Kind)
         /\ Len(Append(sent, kind)) = Len(sent) + 1
         /\ Append(sent, kind)[Len(sent) + 1] = kind
         /\ \A n \in 1..Len(sent) : Append(sent, kind)[n] = sent[n]
  OBVIOUS

-----------------------------------------------------------------------------
(* Types *)

LEMMA InitType == Init => TypeOK
<1> SUFFICES ASSUME Init PROVE TypeOK
  OBVIOUS
<1>1. sent \in Seq(Kind) /\ Len(sent) = 0
  BY DEF Init
<1>2. 0 \in 0..Len(sent) /\ {} \subseteq 1..Len(sent)
  BY <1>1
<1>3. /\ watchdog \in 0..Off /\ silence \in 0..OfflineTime
      /\ checks \in 0..MaxChecks /\ Len(sent) <= MaxSent
  BY <1>1, OffFacts DEF Init
<1> QED
  BY <1>1, <1>2, <1>3 DEF Init, TypeOK, Torn

LEMMA NextType == TypeOK /\ [Next]_vars => TypeOK'
<1> SUFFICES ASSUME TypeOK, [Next]_vars PROVE TypeOK'
  OBVIOUS
<1> USE OffFacts DEF TypeOK, slot, rmq, status, sign, ui, history
<1>0. Len(sent) \in Nat
  OBVIOUS
<1>1. ASSUME NEW kind \in Kind, RecvCopies(kind) PROVE TypeOK'
  <2>1. /\ sent' \in Seq(Kind) /\ Len(sent') = Len(sent) + 1
        /\ Len(sent') <= MaxSent
    BY <1>1, AppendFacts DEF RecvCopies
  <2>2. silence' \in 0..OfflineTime /\ lastOffline' \in 0..Len(sent')
    BY <1>1, <2>1 DEF RecvCopies
  <2> QED
    BY <1>0, <1>1, <2>1, <2>2 DEF RecvCopies, Torn
<1>2. Recv => TypeOK'
  <2>1. CASE RecvCopied
    BY <1>0, <2>1 DEF RecvCopied
  <2>2. CASE RecvArms
    BY <2>2 DEF RecvArms
  <2> QED
    BY <2>1, <2>2 DEF Recv
<1>3. RMQThread => TypeOK'
  <2> USE DEF RMQGoto
  <2>1. CASE RMQWake
    BY <2>1 DEF RMQWake
  <2>2. CASE RMQRead
    BY <2>2 DEF RMQRead
  <2>3. CASE DealStatus
    BY <1>0, <2>3 DEF DealStatus, Torn
  <2>4. CASE DealOther
    BY <1>0, <2>4 DEF DealOther, Torn
  <2>5. CASE RMQReset
    BY <2>5 DEF RMQReset
  <2> QED
    BY <2>1, <2>2, <2>3, <2>4, <2>5 DEF RMQThread
<1>4. DeviceStatusThread => TypeOK'
  <2> USE DEF StatusGoto
  <2>1. CASE StatusWake
    BY <2>1 DEF StatusWake
  <2>2. CASE UpLoadDeviceStatus
    BY <2>2 DEF UpLoadDeviceStatus
  <2>3. CASE StatusReset
    BY <2>3 DEF StatusReset
  <2> QED
    BY <2>1, <2>2, <2>3 DEF DeviceStatusThread
<1>5. ReSignThread => TypeOK'
  <2> USE DEF SignGoto
  <2>1. CASE SignWake
    BY <2>1 DEF SignWake
  <2>2. CASE LoginFails
    BY <2>2 DEF LoginFails
  <2>3. CASE LoginSucceeds
    BY <2>3 DEF LoginSucceeds
  <2>4. CASE SignOff
    BY <2>4 DEF SignOff
  <2>5. CASE SignReset
    BY <2>5 DEF SignReset
  <2> QED
    BY <2>1, <2>2, <2>3, <2>4, <2>5 DEF ReSignThread
<1>6. OnTimer => TypeOK'
  <2> USE DEF UIFree
  <2>1. CASE OnResign
    BY <2>1 DEF OnResign
  <2>2. CASE OnRecvMsg
    BY <1>0, <2>2 DEF OnRecvMsg
  <2>3. CASE OnOfflineReboot
    BY <2>3 DEF OnOfflineReboot
  <2>4. CASE CheckBegins
    BY <2>4 DEF CheckBegins
  <2> QED
    BY <2>1, <2>2, <2>3, <2>4 DEF OnTimer
<1>7. Tick => TypeOK'
  BY DEF Tick
<1>8. Disconnect \/ CheckEnds \/ End \/ UNCHANGED vars => TypeOK'
  BY DEF Disconnect, CheckEnds, End, vars
<1> QED
  BY <1>1, <1>2, <1>3, <1>4, <1>5, <1>6, <1>7, <1>8, Cases

(***************************************************************************)
(* Types: the number in g_strRecvMsg and the one being handled are those   *)
(* of messages received, and the watchdog's countdown stays in range.      *)
(***************************************************************************)
THEOREM TypeCorrect == Spec => []TypeOK
  BY InitType, NextType, PTL DEF Spec

-----------------------------------------------------------------------------
(***************************************************************************)
(* NewestHandled.  A message leaves the callback for the timer, the timer  *)
(* for the event, the event for the copy, the copy for the handler; only a *)
(* timer that fires during the handling of another leads nowhere.          *)
(***************************************************************************)
LEMMA NextUnderway == TypeOK /\ Underway /\ [Next]_vars => Underway'
<1> SUFFICES ASSUME TypeOK, Underway, [Next]_vars PROVE Underway'
  OBVIOUS
<1> USE DEF slot, rmq, status, sign, ui, history
<1>0. /\ Len(sent) \in Nat /\ sent \in Seq(Kind)
      /\ rmqPc \in {"wait", "read", "handle", "reset"}
      /\ recv \in {"no", "copy", "arm"}
  BY DEF TypeOK
<1>1. ASSUME NEW kind \in Kind, RecvCopies(kind) PROVE Underway'
  BY <1>1 DEF RecvCopies, Underway
<1>2. Recv => Underway'
  <2>1. CASE RecvCopied
    BY <2>1 DEF RecvCopied, Underway
  <2>2. CASE RecvArms
    BY <2>2 DEF RecvArms, Underway
  <2> QED
    BY <2>1, <2>2 DEF Recv
<1>3. RMQThread => Underway'
  <2> USE DEF RMQGoto, Underway
  <2>1. CASE RMQWake
    BY <2>1 DEF RMQWake
  <2>2. CASE RMQRead
    BY <1>0, <2>2 DEF RMQRead
  <2>3. CASE DealStatus
    BY <2>3 DEF DealStatus
  <2>4. CASE DealOther
    <3>1. sent # <<>> => Len(sent) # Torn
      BY <1>0 DEF Torn
    <3> QED
      BY <2>4, <3>1 DEF DealOther
  <2>5. CASE RMQReset
    BY <2>5 DEF RMQReset
  <2> QED
    BY <2>1, <2>2, <2>3, <2>4, <2>5 DEF RMQThread
<1>4. OnTimer => Underway'
  <2> USE DEF UIFree, Underway
  <2>1. CASE OnResign
    BY <2>1 DEF OnResign
  <2>2. CASE OnRecvMsg
    BY <1>0, <2>2 DEF OnRecvMsg
  <2>3. CASE OnOfflineReboot
    BY <2>3 DEF OnOfflineReboot
  <2>4. CASE CheckBegins
    BY <2>4 DEF CheckBegins
  <2> QED
    BY <2>1, <2>2, <2>3, <2>4 DEF OnTimer
<1>5. ASSUME UNCHANGED <<slot, rmq, done, swallowed>>,
             process = process' \/ process' # "up"
      PROVE  Underway'
  BY <1>5 DEF Underway
<1>6. DeviceStatusThread => Underway'
  BY <1>5 DEF DeviceStatusThread, StatusWake, UpLoadDeviceStatus, StatusReset
<1>7. ReSignThread => Underway'
  BY <1>5 DEF ReSignThread, SignWake, LoginFails, LoginSucceeds, SignOff,
              SignReset
<1>8. Disconnect \/ CheckEnds \/ End \/ Tick \/ UNCHANGED vars => Underway'
  BY <1>5 DEF Disconnect, CheckEnds, End, Tick, vars
<1> QED
  BY <1>1, <1>2, <1>3, <1>4, <1>6, <1>7, <1>8, Cases

(***************************************************************************)
(* At rest the newest message has been handled, or was swallowed by the    *)
(* ResetEvent that followed an earlier one.                                *)
(***************************************************************************)
THEOREM NewestAlwaysHandled == Spec => []NewestHandled
<1>1. Init => Underway
  BY DEF Init, Underway, Torn
<1>2. Underway => NewestHandled
  BY DEF Underway, NewestHandled, LinkAtRest
<1>3. TypeOK /\ Underway /\ [Next]_vars => (TypeOK /\ Underway)'
  BY NextType, NextUnderway
<1> QED
  BY <1>1, <1>2, <1>3, InitType, PTL DEF Spec

-----------------------------------------------------------------------------
(***************************************************************************)
(* WatchdogMeansSilence.  The report that follows an OFFLINE message sets  *)
(* the countdown to all of OFFLINETIME, the silence counts up from when    *)
(* the message came, and both move by one tick at a time.                  *)
(***************************************************************************)
WatchdogInv ==
  /\ TypeOK
  /\ WatchdogBehind
  /\ process = "watchdog" => watchdog = 0

LEMMA NumbersUsed ==
  ASSUME TypeOK
  PROVE  Len(sent) + 1 \notin done
<1>1. sent \in Seq(Kind)
  BY DEF TypeOK
<1>2. done \subseteq 1..Len(sent)
  BY DEF TypeOK
<1>3. Len(sent) \in Nat
  BY <1>1
<1> QED
  BY <1>2, <1>3

LEMMA NextWatchdog == WatchdogInv /\ [Next]_vars => WatchdogInv'
<1> SUFFICES ASSUME WatchdogInv, [Next]_vars PROVE WatchdogInv'
  OBVIOUS
<1> USE DEF slot, rmq, status, sign, ui, history
<1>0. TypeOK /\ TypeOK'
  BY NextType DEF WatchdogInv
<1>1. ASSUME NEW kind \in Kind, RecvCopies(kind) PROVE WatchdogInv'
  <2>1. Len(sent) + 1 \notin done
    BY <1>0, NumbersUsed
  <2>2. lastOffline # 0 => sent'[lastOffline] = sent[lastOffline]
    BY <1>0, <1>1, AppendFacts DEF RecvCopies, TypeOK
  <2>3. sent'[Len(sent) + 1] = kind
    BY <1>0, <1>1, AppendFacts DEF RecvCopies, TypeOK
  <2>4. CASE kind = "OFFLINE"
    BY <1>0, <1>1, <2>1, <2>3, <2>4
       DEF RecvCopies, WatchdogInv, WatchdogBehind, StatusPending
  <2>5. CASE kind # "OFFLINE"
    BY <1>0, <1>1, <2>2, <2>5
       DEF RecvCopies, WatchdogInv, WatchdogBehind, StatusPending
  <2> QED
    BY <2>4, <2>5
<1>2. RMQThread => WatchdogInv'
  <2> USE DEF RMQGoto, WatchdogInv, WatchdogBehind, StatusPending
  <2>1. CASE RMQWake \/ RMQRead \/ RMQReset
    BY <1>0, <2>1 DEF RMQWake, RMQRead, RMQReset
  <2>2. CASE DealStatus
    BY <1>0, <2>2 DEF DealStatus
  <2>3. CASE DealOther
    <3>1. lastOffline \in done' => lastOffline \in done
      BY <1>0, <2>3 DEF DealOther, Torn, Status, TypeOK
    <3> QED
      BY <1>0, <2>3, <3>1 DEF DealOther
  <2> QED
    BY <2>1, <2>2, <2>3 DEF RMQThread
<1>3. DeviceStatusThread => WatchdogInv'
  <2> USE DEF StatusGoto, WatchdogInv, WatchdogBehind, StatusPending
  <2>1. CASE StatusWake
    BY <1>0, <2>1 DEF StatusWake
  <2>2. CASE UpLoadDeviceStatus
    BY <1>0, <2>2 DEF UpLoadDeviceStatus
  <2>3. CASE StatusReset
    <3>1. OfflineTime + silence >= OfflineTime
      BY <1>0, OffFacts DEF TypeOK
    <3> QED
      BY <1>0, <2>3, <3>1 DEF StatusReset
  <2> QED
    BY <2>1, <2>2, <2>3 DEF DeviceStatusThread
<1>4. ReSignThread => WatchdogInv'
  <2> USE DEF SignGoto, WatchdogInv, WatchdogBehind, StatusPending
  <2>1. CASE SignWake \/ LoginFails \/ LoginSucceeds \/ SignReset
    BY <1>0, <2>1 DEF SignWake, LoginFails, LoginSucceeds, SignReset
  <2>2. CASE SignOff
    <3>1. OfflineTime + silence >= OfflineTime
      BY <1>0, OffFacts DEF TypeOK
    <3> QED
      BY <1>0, <2>2, <3>1 DEF SignOff
  <2> QED
    BY <2>1, <2>2 DEF ReSignThread
<1>5. Tick => WatchdogInv'
  <2> SUFFICES ASSUME Tick PROVE WatchdogInv'
    OBVIOUS
  <2>1. /\ watchdog \in 0..Off /\ silence \in 0..OfflineTime
        /\ watchdog' \in 0..Off /\ silence' \in 0..OfflineTime
    BY <1>0 DEF TypeOK
  <2>2. watchdog + silence >= OfflineTime => watchdog' + silence' >= OfflineTime
    BY <2>1, OffFacts DEF Tick
  <2> QED
    BY <1>0, <2>2 DEF Tick, WatchdogInv, WatchdogBehind, StatusPending
<1>6. OnTimer => WatchdogInv'
  BY <1>0 DEF OnTimer, UIFree, OnResign, OnRecvMsg, OnOfflineReboot, CheckBegins,
              WatchdogInv, WatchdogBehind, StatusPending
<1>7. Recv \/ Disconnect \/ CheckEnds \/ End \/ UNCHANGED vars => WatchdogInv'
  BY <1>0 DEF Recv, RecvCopied, RecvArms, Disconnect, CheckEnds, End, vars,
              WatchdogInv, WatchdogBehind, StatusPending
<1> QED
  BY <1>1, <1>2, <1>3, <1>4, <1>5, <1>6, <1>7, Cases

(***************************************************************************)
(* The watchdog ends a process that OFFLINE has reached in time only when  *)
(* the message was not handled, or not yet followed by a report.           *)
(***************************************************************************)
THEOREM WatchdogAlwaysMeansSilence == Spec => []WatchdogMeansSilence
<1>1. Init => WatchdogInv
  <2> SUFFICES ASSUME Init PROVE WatchdogInv
    OBVIOUS
  <2> QED
    BY InitType DEF Init, WatchdogInv, WatchdogBehind
<1>2. WatchdogInv => WatchdogMeansSilence
  <2> SUFFICES ASSUME WatchdogInv, process = "watchdog", silence < OfflineTime,
                      lastOffline \in done, ~StatusPending
               PROVE  FALSE
    BY DEF WatchdogMeansSilence
  <2>1. silence \in Nat /\ OfflineTime \in Nat
    BY OffFacts DEF WatchdogInv, TypeOK
  <2> QED
    BY <2>1 DEF WatchdogInv, WatchdogBehind
<1> QED
  BY <1>1, <1>2, NextWatchdog, PTL DEF Spec

-----------------------------------------------------------------------------
(***************************************************************************)
(* WatchedOnceSignedIn.  No report can come before the login, and none of  *)
(* those that come after it ever disarms the watchdog.                     *)
(***************************************************************************)
WatchedInv ==
  /\ TypeOK
  /\ LoginFirst

LEMMA NextWatched == WatchedInv /\ [Next]_vars => WatchedInv'
<1> SUFFICES ASSUME WatchedInv, [Next]_vars PROVE WatchedInv'
  OBVIOUS
<1> USE DEF slot, rmq, status, sign, ui, history
<1>0. TypeOK /\ TypeOK'
  BY NextType DEF WatchedInv
<1>1. /\ OfflineTime # Off /\ Off # 0
      /\ watchdog \in 1..OfflineTime => watchdog - 1 # Off
      /\ ~(Off \in 1..OfflineTime)
  BY OffFacts
<1> USE DEF WatchedInv, LoginFirst, StatusPending
<1>2. ASSUME NEW kind \in Kind, RecvCopies(kind) PROVE WatchedInv'
  BY <1>0, <1>2 DEF RecvCopies, TypeOK
<1>3. RMQThread => WatchedInv'
  <2>1. CASE RMQWake \/ RMQRead \/ RMQReset
    BY <1>0, <2>1 DEF RMQGoto, RMQWake, RMQRead, RMQReset
  <2>2. CASE DealStatus \/ DealOther
    <3>1. DealStatus => sent # <<>>
      BY <1>0 DEF DealStatus, TypeOK, Torn
    <3> QED
      BY <1>0, <2>2, <3>1 DEF RMQGoto, DealStatus, DealOther
  <2> QED
    BY <2>1, <2>2 DEF RMQThread
<1>4. DeviceStatusThread => WatchedInv'
  BY <1>0, <1>1 DEF DeviceStatusThread, StatusGoto, StatusWake, UpLoadDeviceStatus,
                    StatusReset
<1>5. ReSignThread => WatchedInv'
  BY <1>0, <1>1 DEF ReSignThread, SignGoto, SignWake, LoginFails, LoginSucceeds,
                    SignOff, SignReset
<1>6. OnTimer => WatchedInv'
  BY <1>0, <1>1 DEF OnTimer, UIFree, OnResign, OnRecvMsg, OnOfflineReboot,
                    CheckBegins
<1>7. Tick => WatchedInv'
  BY <1>0, <1>1 DEF Tick
<1>8. Recv \/ Disconnect \/ CheckEnds \/ End \/ UNCHANGED vars => WatchedInv'
  BY <1>0 DEF Recv, RecvCopied, RecvArms, Disconnect, CheckEnds, End, vars
<1> QED
  BY <1>2, <1>3, <1>4, <1>5, <1>6, <1>7, <1>8, Cases

(***************************************************************************)
(* A player that has signed in is watched; one that has not is left alone. *)
(***************************************************************************)
THEOREM AlwaysWatched == Spec => []WatchedOnceSignedIn
<1>1. Init => WatchedInv
  BY InitType DEF Init, WatchedInv, LoginFirst, StatusPending
<1>2. WatchedInv => WatchedOnceSignedIn
  BY DEF WatchedInv, LoginFirst, WatchedOnceSignedIn, TypeOK
<1> QED
  BY <1>1, <1>2, NextWatched, PTL DEF Spec

=============================================================================
