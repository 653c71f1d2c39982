----------------------- MODULE ConnEventTriggerProofs ----------------------
(***************************************************************************)
(* The safety invariants of ConnEventTrigger, for all connection intervals *)
(* and every distance, also one that is longer than an interval.           *)
(*                                                                         *)
(* AtMostOnce and CalledAtDistance speak of what has happened when an      *)
(* event comes.  TriggerInv says what holds all the way from one event to  *)
(* the next: a timer that runs has not called yet, and between two events  *)
(* of which the first knew the interval either the timer runs and will be  *)
(* due when it should, or it was.                                          *)
(***************************************************************************)
EXTENDS ConnEventTrigger, TLAPS

(* The timer is started for one call, by an event or not at all.           *)
OneShot == timer # Off => calls = 0

(* From an event that knew the interval to the next.                       *)
OnTime ==
    Linked /\ informed =>
        \/ timer # Off /\ until = timer + Lead
        \/ timer = Off /\ calls = 1 /\ lead = Lead

TriggerInv == TypeOK /\ OneShot /\ AtMostOnce /\ OnTime

-----------------------------------------------------------------------------
(* What the provers need of TypeOK.                                        *)
LEMMA TriggerTypes ==
    ASSUME TypeOK
    PROVE  /\ interval \in Intervals /\ interval \in Nat /\ interval > 0
           /\ until \in Nat /\ timer \in Nat \cup {Off} /\ lead \in Nat
           /\ calls \in Nat /\ Distance \in Nat
           /\ stale \in BOOLEAN /\ informed \in BOOLEAN
           /\ conn_interval_us \in Nat
BY TriggerConstants DEF TypeOK, Off

(* The delay of the timer lies within the interval it goes by, and ends    *)
(* exactly Lead before the next event if that interval is the right one.   *)
LEMMA DelayInRange ==
    ASSUME TypeOK
    PROVE  /\ Delay \in Nat
           /\ \E i \in Intervals : Delay \in 0 .. i
           /\ conn_interval_us = Delay + (IF conn_interval_us < Distance
                                          THEN conn_interval_us ELSE Distance)
<1>1. conn_interval_us \in Nat /\ Distance \in Nat /\ Intervals \subseteq Nat
  BY TriggerTypes, TriggerConstants
<1>2. Delay \in Nat /\ Delay <= conn_interval_us
  BY <1>1 DEF Delay
<1>3. \E i \in Intervals : Delay \in 0 .. i
  <2>1. CASE conn_interval_us \in Intervals
    BY <1>1, <1>2, <2>1
  <2>2. CASE conn_interval_us = 0
    <3>1. PICK i \in Intervals : TRUE
      BY TriggerConstants
    <3> QED BY <1>1, <1>2, <2>2, <3>1
  <2> QED BY <2>1, <2>2 DEF TypeOK
<1> QED BY <1>1, <1>2, <1>3 DEF Delay

-----------------------------------------------------------------------------
(* The timer and the time to the event run down together.                  *)
LEMMA TickStep == ASSUME TriggerInv, Tick PROVE TriggerInv'
<1> USE DEF TriggerInv, Tick
<1>1. TypeOK'
  <2>1. \E i \in Intervals : until' \in 0 .. i
    <3>1. PICK i \in Intervals : until \in 0 .. i
      BY DEF TypeOK
    <3>2. until' \in 0 .. i
      BY <3>1, TriggerConstants
    <3> QED BY <3>2
  <2>2. timer' = Off \/ \E i \in Intervals : timer' \in 0 .. i
    <3>1. CASE timer # Off
      <4>1. PICK i \in Intervals : timer \in 0 .. i
        BY <3>1 DEF TypeOK
      <4>2. timer' \in 0 .. i
        BY <3>1, <4>1, TriggerConstants
      <4> QED BY <4>2
    <3> QED BY <3>1
  <2> QED BY <2>1, <2>2 DEF TypeOK
<1>2. OneShot' /\ AtMostOnce'
  BY DEF OneShot, AtMostOnce, Off
<1>3. OnTime'
  BY TriggerTypes DEF OnTime, Linked, Lead, Off
<1> QED BY <1>1, <1>2, <1>3

(* egu0_handler starts the timer, which was not going to call any more.    *)
LEMMA EventStep ==
    ASSUME TriggerInv, NEW i \in Intervals, ConnectionEvent(i)
    PROVE  TriggerInv'
<1> USE DEF TriggerInv, ConnectionEvent, egu0_handler
<1>1. i \in Nat /\ i > 0
  BY TriggerConstants
<1>2. TypeOK'
  <2>1. until' \in 0 .. i /\ lead' \in 0 .. i /\ calls' \in Nat
    BY <1>1
  <2>2. timer' = Off \/ \E j \in Intervals : timer' \in 0 .. j
    BY DelayInRange DEF TypeOK
  <2>3. stale' \in BOOLEAN /\ informed' \in BOOLEAN
    BY TriggerTypes
  <2> QED BY <2>1, <2>2, <2>3 DEF TypeOK
<1>3. OneShot' /\ AtMostOnce'
  BY DEF OneShot, AtMostOnce
<1>4. OnTime'
  <2> SUFFICES ASSUME informed' PROVE timer' # Off /\ until' = timer' + Lead'
    BY DEF OnTime
  <2>1. timer' = Delay /\ i = conn_interval_us /\ until' = i /\ interval' = i
    OBVIOUS
  <2>2. i = Delay + (IF i < Distance THEN i ELSE Distance) /\ Delay \in Nat
    BY <2>1, DelayInRange
  <2> QED BY <2>1, <2>2 DEF Lead, Off
<1> QED BY <1>2, <1>3, <1>4

(* timer_handler calls once, and stops the timer.                          *)
LEMMA HandlerStep == ASSUME TriggerInv, timer_handler PROVE TriggerInv'
<1> USE DEF TriggerInv, timer_handler, Stop
<1>1. TypeOK'
  BY TriggerTypes DEF TypeOK
<1>2. OneShot' /\ AtMostOnce'
  BY TriggerTypes DEF OneShot, AtMostOnce, Off
<1>3. OnTime'
  BY TriggerTypes DEF OnTime, OneShot, Linked, Lead, Off
<1> QED BY <1>1, <1>2, <1>3

(* Nothing is known of the interval of a new link.                         *)
LEMMA LinkStep ==
    ASSUME TriggerInv, NEW i \in Intervals, LinkMade(i)
    PROVE  TriggerInv'
<1> USE DEF TriggerInv, LinkMade
<1>1. TypeOK'
  <2>1. until' \in 0 .. i /\ lead' \in 0 .. i
    BY TriggerConstants
  <2> QED BY <2>1 DEF TypeOK
<1>2. OneShot' /\ AtMostOnce' /\ OnTime'
  BY DEF OneShot, AtMostOnce, OnTime
<1> QED BY <1>1, <1>2

(* The callbacks of the host change neither the timer nor what it was      *)
(* started for.                                                            *)
LEMMA HostStep ==
    ASSUME TriggerInv,
           \/ conn_event_trigger_set_enabled \/ ReadFirstInterval \/ le_param_updated
           \/ LinkLost \/ timer_deinit
    PROVE  TriggerInv'
<1> USE DEF TriggerInv, conn_event_trigger_set_enabled, ReadFirstInterval,
       le_param_updated, LinkLost, timer_deinit,
       conn_event_trigger_refresh_conn_interval
<1>1. TypeOK'
  BY DEF TypeOK
<1>2. OneShot' /\ AtMostOnce'
  BY DEF OneShot, AtMostOnce
<1>3. OnTime'
  BY DEF OnTime, Linked, Lead
<1> QED BY <1>1, <1>2, <1>3

-----------------------------------------------------------------------------
(* TriggerInv is an invariant of connection events, timer and callbacks.   *)
THEOREM TriggerInvariance == Spec => []TriggerInv
<1>1. Init => TriggerInv
  <2> SUFFICES ASSUME Init PROVE TriggerInv
    OBVIOUS
  <2>1. TypeOK
    <3>1. PICK i \in Intervals : TRUE
      BY TriggerConstants
    <3>2. 0 \in 0 .. i
      BY <3>1, TriggerConstants
    <3> QED BY <3>2 DEF Init, TypeOK
  <2> QED BY <2>1 DEF Init, TriggerInv, OneShot, AtMostOnce, OnTime
<1>2. TriggerInv /\ [Next]_vars => TriggerInv'
  <2> SUFFICES ASSUME TriggerInv, [Next]_vars PROVE TriggerInv'
    OBVIOUS
  <2>1. CASE Tick
    BY <2>1, TickStep
  <2>2. CASE \E i \in Intervals : ConnectionEvent(i)
    BY <2>2, EventStep
  <2>3. CASE timer_handler
    BY <2>3, HandlerStep
  <2>4. CASE \E i \in Intervals : LinkMade(i)
    BY <2>4, LinkStep
  <2>5. CASE \/ conn_event_trigger_set_enabled \/ ReadFirstInterval
             \/ le_param_updated \/ LinkLost \/ timer_deinit
    BY <2>5, HostStep
  <2>6. CASE UNCHANGED vars
    BY <2>6 DEF vars, TriggerInv, TypeOK, OneShot, AtMostOnce, OnTime, Linked, Lead
  <2> QED BY <2>1, <2>2, <2>3, <2>4, <2>5, <2>6 DEF Next
<1> QED BY <1>1, <1>2, PTL DEF Spec

(* The variables of the trigger keep their types: in particular the timer  *)
(* is never started for a negative time, although conn_interval_us is zero *)
(* before it is read and Distance may exceed it.                           *)
THEOREM TriggerTypeCorrect == Spec => []TypeOK
<1>1. TriggerInv => TypeOK
  BY DEF TriggerInv
<1> QED BY <1>1, TriggerInvariance, PTL

(* user_callback is called at most once per connection event.              *)
THEOREM CallsAtMostOnce == Spec => []AtMostOnce
<1>1. TriggerInv => AtMostOnce
  BY DEF TriggerInv
<1> QED BY <1>1, TriggerInvariance, PTL

(* user_callback is called exactly once, Distance before each event, after *)
(* an event that knew the interval.                                        *)
THEOREM CallsAtDistance == Spec => []CalledAtDistance
<1>1. TriggerInv => CalledAtDistance
  BY TriggerTypes DEF TriggerInv, OnTime, CalledAtDistance, Lead, Off
<1> QED BY <1>1, TriggerInvariance, PTL
=============================================================================
