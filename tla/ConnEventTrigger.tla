-------------------------- MODULE ConnEventTrigger -------------------------
(***************************************************************************)
(* ble_midi/src/conn_event_trigger.c: the call of radio_notif_handler just *)
(* before each connection event.                                           *)
(*                                                                         *)
(* The controller triggers egu0_handler at each connection event, and that *)
(* starts a one-shot timer for the time to the next event less a fixed     *)
(* distance.  It goes by the interval that was read last                   *)
(* (conn_interval_us): on_connected reads it after it has set the trigger, *)
(* le_param_updated when the host reports new connection parameters, some  *)
(* time after they have come into effect.                                  *)
(*                                                                         *)
(* Time is discrete.  An event or a timer that is due happens before time  *)
(* goes on.                                                                *)
(***************************************************************************)
EXTENDS Integers

CONSTANTS
    Intervals,     \* the connection intervals
    Distance       \* CONFIG_BLE_MIDI_CONN_EVENT_NOTIFICATION_DISTANCE_US

ASSUME TriggerConstants ==
    /\ Intervals \subseteq Nat \ {0} /\ Intervals # {}
    /\ Distance \in Nat

Off == -1   \* the timer does not run

VARIABLES
    link,              \* "down"; "linked": made; "enabled": the trigger is
                       \* set, the interval not read; "up"; "lost"
    interval,          \* the interval of the link
    until,             \* the time to the next connection event
    conn_interval_us,  \* the interval that was read last
    timer,             \* the time until the timer fires, or Off
    stale,             \* has the host still to report new parameters?
    calls,             \* history: calls of user_callback since the last event
    lead,              \* history: until, when user_callback was called
    informed           \* history: was conn_interval_us right at the last event?

vars == <<link, interval, until, conn_interval_us, timer, stale, calls, lead, informed>>

TypeOK ==
    /\ link \in {"down", "linked", "enabled", "up", "lost"}
    /\ interval \in Intervals
    /\ \E i \in Intervals : until \in 0 .. i
    /\ conn_interval_us \in Intervals \cup {0}
    /\ timer = Off \/ \E i \in Intervals : timer \in 0 .. i
    /\ {stale, informed} \subseteq BOOLEAN
    /\ calls \in Nat
    /\ \E i \in Intervals : lead \in 0 .. i

Init ==
    /\ link = "down"
    /\ interval \in Intervals
    /\ until = 0
    /\ conn_interval_us = 0
    /\ timer = Off
    /\ stale = FALSE
    /\ calls = 0 /\ lead = 0 /\ informed = FALSE

Linked == link \in {"linked", "enabled", "up"}

-----------------------------------------------------------------------------
Tick ==
    /\ Linked \/ timer # Off
    /\ timer # 0
    /\ Linked => until > 0
    /\ timer' = IF timer = Off THEN Off ELSE timer - 1
    /\ until' = IF Linked THEN until - 1 ELSE until
    /\ UNCHANGED <<link, interval, conn_interval_us, stale, calls, lead, informed>>

(* Faulty: the timer is set for the next event itself; a negative delay.   *)
DelayToEvent  == conn_interval_us
DelayNegative == conn_interval_us - Distance
Delay == IF conn_interval_us < Distance THEN 0 ELSE conn_interval_us - Distance

(* timer_trigger stops the timer and starts it from zero.                  *)
egu0_handler == timer' = Delay

(* A connection event, after which a new interval may be in effect.        *)
ConnectionEvent(i) ==
    /\ Linked
    /\ until = 0
    /\ i # interval => link = "up" /\ ~stale
    /\ interval' = i
    /\ stale' = (stale \/ i # interval)
    /\ until' = i
    /\ calls' = 0
    /\ lead' = 0
    /\ informed' = (link # "linked" /\ conn_interval_us = i)
    /\ IF link = "linked" THEN UNCHANGED timer ELSE egu0_handler
    /\ UNCHANGED <<link, conn_interval_us>>

(* Faulty: the timer starts over when it has fired.                        *)
KeepRunning == timer' = Delay
Stop == timer' = Off

(* timer_handler; COMPARE0 stops the timer.                                *)
timer_handler ==
    /\ timer = 0
    /\ calls' = calls + 1
    /\ lead' = until
    /\ Stop
    /\ UNCHANGED <<link, interval, until, conn_interval_us, stale, informed>>

-----------------------------------------------------------------------------
LinkMade(i) ==
    /\ link = "down"
    /\ link' = "linked"
    /\ interval' = i
    /\ until' = i
    /\ stale' = FALSE
    /\ calls' = 0 /\ lead' = 0 /\ informed' = FALSE
    /\ UNCHANGED <<conn_interval_us, timer>>

(* on_connected, first part: timer_init, setup_connection_event_trigger.   *)
conn_event_trigger_set_enabled ==
    /\ link = "linked"
    /\ link' = "enabled"
    /\ UNCHANGED <<interval, until, conn_interval_us, timer, stale, calls, lead,
                   informed>>

(* bt_conn_get_info does not fail for a connection the host has reported;  *)
(* if it did, the code would log that and keep the interval it has.        *)
(*                                                                         *)
(* Faulty: new parameters are not read.                                    *)
ReadAtFirstOnly == IF stale THEN UNCHANGED conn_interval_us
                   ELSE conn_interval_us' = interval
conn_event_trigger_refresh_conn_interval == conn_interval_us' = interval

(* on_connected, second part.                                              *)
ReadFirstInterval ==
    /\ link = "enabled"
    /\ link' = "up"
    /\ conn_event_trigger_refresh_conn_interval
    /\ UNCHANGED <<interval, until, timer, stale, calls, lead, informed>>

le_param_updated ==
    /\ link = "up"
    /\ stale
    /\ conn_event_trigger_refresh_conn_interval
    /\ stale' = FALSE
    /\ UNCHANGED <<link, interval, until, timer, calls, lead, informed>>

(* The controller removes the trigger with the link.                       *)
LinkLost ==
    /\ link = "up"
    /\ link' = "lost"
    /\ stale' = FALSE
    /\ UNCHANGED <<interval, until, conn_interval_us, timer, calls, lead, informed>>

(* on_disconnected: timer_deinit.  The interval is kept.                   *)
timer_deinit ==
    /\ link = "lost"
    /\ link' = "down"
    /\ timer' = Off
    /\ UNCHANGED <<interval, until, conn_interval_us, stale, calls, lead, informed>>

Next ==
    \/ Tick
    \/ \E i \in Intervals : ConnectionEvent(i)
    \/ timer_handler
    \/ \E i \in Intervals : LinkMade(i)
    \/ conn_event_trigger_set_enabled
    \/ ReadFirstInterval
    \/ le_param_updated
    \/ LinkLost
    \/ timer_deinit

(* Time goes on, interrupts are taken and the host delivers its callbacks. *)
Fairness ==
    /\ WF_vars(Tick)
    /\ WF_vars(\E i \in Intervals : ConnectionEvent(i))
    /\ WF_vars(timer_handler)
    /\ WF_vars(conn_event_trigger_set_enabled)
    /\ WF_vars(ReadFirstInterval)
    /\ WF_vars(le_param_updated)
    /\ WF_vars(timer_deinit)

Spec == Init /\ [][Next]_vars /\ Fairness

-----------------------------------------------------------------------------
(* How long before an event the call is due.                               *)
Lead == IF interval < Distance THEN interval ELSE Distance

(* CalledAtDistance: when a connection event comes, and the interval was   *)
(* known at the event before, user_callback has been called once since,    *)
(* exactly Distance before the event, or right after the event before if   *)
(* the interval is shorter than that.  The timer and the event may be due  *)
(* at the same time only if Distance is zero.                              *)
CalledAtDistance ==
    (Linked /\ informed /\ until = 0 /\ timer # 0) =>
        calls = 1 /\ lead = Lead

(* AtMostOnce: user_callback is called at most once per connection event,  *)
(* whatever interval the timer goes by.                                    *)
AtMostOnce == calls <= 1

(* KeepsCalling: as long as a connection lasts user_callback is called     *)
(* again and again, although intervals change and the timer goes by an old *)
(* one for a while.                                                        *)
KeepsCalling == []<>(calls > 0 \/ link # "up")
=============================================================================
