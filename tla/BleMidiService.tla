--------------------------- MODULE BleMidiService --------------------------
(***************************************************************************)
(* Initialization, service registration and the Bluetooth callbacks of     *)
(* ble_midi/src/ble_midi.c that drive the ready state, in the mode         *)
(* CONFIG_BLE_MIDI_TX_MODE_CONN_EVENT.                                     *)
(*                                                                         *)
(* The Bluetooth host is the environment: the link, the peer's CCC value   *)
(* (are notifications enabled?) and the MTU are its state, and it calls    *)
(* back one event at a time from a cooperative thread.  When a link is     *)
(* lost it first clears the CCC and reports that, then reports the         *)
(* disconnection.  The transmit queue is reduced to what is in it: nothing,*)
(* data accepted on the present link ("new"), or data accepted on an       *)
(* earlier one ("old").                                                    *)
(***************************************************************************)
EXTENDS Integers

CONSTANT Mtus          \* the ATT MTUs a connection may have

ASSUME ServiceConstants == Mtus \subseteq Nat \ {0} /\ Mtus # {}

VARIABLES
    dynamic_db,      \* CONFIG_BT_GATT_DYNAMIC_DB, either way
    asserts,         \* CONFIG_ASSERT, either way
    link,            \* "down"; "linked": made, callback pending; "up";
                     \* "lost": gone, callback pending
    ccc,             \* has the peer enabled notifications?
    mtu,             \* the MTU of the link
    initialized,     \* history: has ble_midi_init been called?
    registered,      \* ble_midi_service_is_registered
    ready_state,     \* context.ready_state
    told,            \* the state the application was last told
    limit,           \* the MTU behind the last packet size requested
    queue,           \* "empty", "new" or "old"
    timer,           \* is the nrfx timer initialized?
    trigger,         \* is the connection event trigger set for this link?
    halted,          \* has an assertion failed?
    odd              \* history: what happened out of the ordinary since the last
                     \* disconnection the library noticed

hostVars  == <<link, ccc, mtu>>
stateVars == <<ready_state, told>>
queueVars == <<limit, queue>>
trigVars  == <<timer, trigger>>
config    == <<dynamic_db, asserts>>
vars == <<config, hostVars, initialized, registered, stateVars, queueVars, trigVars,
          halted, odd>>

ReadyState == {"NOT_CONNECTED", "CONNECTED", "READY"}

TypeOK ==
    /\ link \in {"down", "linked", "up", "lost"}
    /\ mtu \in Mtus
    /\ {dynamic_db, asserts, ccc, initialized, registered, timer, trigger, halted}
           \subseteq BOOLEAN
    /\ ready_state \in ReadyState /\ told \in ReadyState
    /\ limit \in Mtus \cup {0}
    /\ queue \in {"empty", "new", "old"}
    /\ odd \subseteq {"initialized again", "unregistered", "connection failed"}

Init ==
    /\ link = "down" /\ ccc = FALSE /\ mtu \in Mtus
    /\ dynamic_db \in BOOLEAN /\ asserts \in BOOLEAN
    /\ initialized = FALSE /\ registered = ~dynamic_db
    /\ ready_state = "NOT_CONNECTED" /\ told = "NOT_CONNECTED"
    /\ limit = 0 /\ queue = "empty"
    /\ timer = FALSE /\ trigger = FALSE /\ halted = FALSE /\ odd = {}

-----------------------------------------------------------------------------
on_ready_state_changed(state) == ready_state' = state /\ told' = state

(* ble_midi_context_reset: the queue is emptied, its packet size is 0.     *)
ble_midi_context_reset == queue' = "empty" /\ limit' = 0

(* Registering a registered service fails, and the call returns.           *)
ble_midi_init ==
    /\ ~(dynamic_db /\ registered)
    /\ initialized' = TRUE
    /\ registered' = TRUE
    /\ ready_state' = "NOT_CONNECTED"
    /\ ble_midi_context_reset
    /\ odd' = odd \cup (IF initialized THEN {"initialized again"} ELSE {})
    /\ UNCHANGED <<config, hostVars, told, trigVars>>

ble_midi_service_register ==
    /\ dynamic_db /\ initialized /\ ~registered
    /\ registered' = TRUE
    /\ UNCHANGED <<config, odd, hostVars, initialized, stateVars, queueVars,
                   trigVars>>

(* The host drops the CCC values of the service without a callback.        *)
ble_midi_service_unregister ==
    /\ dynamic_db /\ initialized /\ registered
    /\ registered' = FALSE
    /\ odd' = odd \cup {"unregistered"}
    /\ ccc' = FALSE
    /\ UNCHANGED <<config, link, mtu, initialized, stateVars, queueVars, trigVars>>

-----------------------------------------------------------------------------
(* The host.                                                               *)

(* Advertising starts after ble_midi_init (see main).                      *)
LinkMade(m) ==
    /\ initialized
    /\ link = "down"
    /\ link' = "linked"
    /\ mtu' = m
    /\ UNCHANGED <<config, odd, ccc, initialized, registered, stateVars, queueVars,
                   trigVars>>

midi_ccc_cfg_changed(enabled) ==
    /\ registered
    /\ link \in {"linked", "up"}
    /\ ccc # enabled
    /\ ccc' = enabled
    /\ on_ready_state_changed(IF enabled THEN "READY" ELSE "CONNECTED")
    /\ UNCHANGED <<config, odd, link, mtu, initialized, registered, queueVars,
                   trigVars>>

(* The trigger goes with the link.  The host clears the CCC of the peer    *)
(* and reports that if it was set.                                         *)
LinkLost ==
    /\ link = "up"
    /\ link' = "lost"
    /\ ccc' = FALSE
    /\ IF ccc THEN on_ready_state_changed("CONNECTED") ELSE UNCHANGED stateVars
    /\ trigger' = FALSE
    /\ queue' = IF queue = "new" THEN "old" ELSE queue
    /\ UNCHANGED <<config, odd, mtu, initialized, registered, limit, timer>>

(* att_mtu_updated_cb also comes before on_connected, and without regard   *)
(* to the registration.  A packet size that finds the FIFO full is lost.   *)
att_mtu_updated_cb(m) ==
    /\ link \in {"linked", "up"}
    /\ m > mtu
    /\ mtu' = m
    /\ limit' = m \/ (queue # "empty" /\ UNCHANGED limit)
    /\ UNCHANGED <<config, odd, link, ccc, initialized, registered, stateVars, queue,
                   trigVars>>

(* timer_init asserts that nrfx_timer_init succeeds, which it does not for *)
(* a timer that is initialized.                                            *)
AssertionFails == timer /\ asserts

timer_init == timer' = TRUE

(* Faulty: the ready state is set whatever it is.                          *)
ConnectedState == on_ready_state_changed("CONNECTED")
NotBehindReady == IF ready_state = "NOT_CONNECTED"
                  THEN on_ready_state_changed("CONNECTED")
                  ELSE UNCHANGED stateVars

(* Faulty: the packet size is left to att_mtu_updated_cb; the ATT header   *)
(* is taken off twice; the queue of the last connection is kept.           *)
ResetOnly(m)   == queue' = "empty" /\ limit' = 0
ResetTwice(m)  == queue' = "empty" /\ limit' = m - 3
ResetNot(m)    == limit' = m /\ UNCHANGED queue
ResetForConnection(m) == queue' = "empty" /\ limit' = m

(* What on_connected does; err is not looked at.  An assertion that fails  *)
(* ends it, and everything else, before the trigger is set.                *)
PrepareConnection(m, has_trigger) ==
    /\ ResetForConnection(m)
    /\ IF AssertionFails
       THEN halted' = TRUE /\ UNCHANGED <<trigVars, stateVars>>
       ELSE timer_init /\ trigger' = has_trigger /\ NotBehindReady /\ UNCHANGED halted

on_connected ==
    /\ link = "linked"
    /\ link' = "up"
    /\ IF registered
       THEN PrepareConnection(mtu, TRUE)
       ELSE UNCHANGED <<stateVars, queueVars, trigVars, halted>>
    /\ UNCHANGED <<config, odd, ccc, mtu, initialized, registered>>

(* err is set: there is no link, hence an MTU of 0 and no trigger, and no  *)
(* disconnection will be reported.                                         *)
on_connected_failed ==
    /\ initialized /\ registered
    /\ link = "down"
    /\ PrepareConnection(0, trigger)
    /\ odd' = odd \cup {"connection failed"}
    /\ UNCHANGED <<config, hostVars, initialized, registered>>

(* Faulty: the timer is left running.                                      *)
KeepTimer == UNCHANGED timer
timer_deinit == timer' = FALSE

on_disconnected ==
    /\ link = "lost"
    /\ link' = "down"
    /\ IF registered
       THEN timer_deinit /\ on_ready_state_changed("NOT_CONNECTED") /\ odd' = {}
       ELSE UNCHANGED <<timer, stateVars, odd>>
    /\ UNCHANGED <<config, ccc, mtu, initialized, registered, queueVars, trigger>>

-----------------------------------------------------------------------------
(* The application transmits when it was told READY (ble_midi.h), and the  *)
(* queue is sent before a connection event while notifications are on.     *)
(* A queue that holds old data stays "old" whatever is added to it.        *)
Transmit ==
    /\ told = "READY"
    /\ queue = "empty"
    /\ queue' = "new"
    /\ UNCHANGED <<config, odd, hostVars, initialized, registered, stateVars, limit,
                   trigVars>>

Sends == trigger /\ link = "up" /\ ccc /\ queue # "empty"

SendQueue ==
    /\ Sends
    /\ queue' = "empty"
    /\ UNCHANGED <<config, odd, hostVars, initialized, registered, stateVars, limit,
                   trigVars>>

Next ==
    \/ /\ ~halted
       /\ \/ ble_midi_init
          \/ ble_midi_service_register
          \/ ble_midi_service_unregister
          \/ \E m \in Mtus : LinkMade(m)
          \/ \E e \in BOOLEAN : midi_ccc_cfg_changed(e)
          \/ LinkLost
          \/ \E m \in Mtus : att_mtu_updated_cb(m)
          \/ on_disconnected
          \/ Transmit
          \/ SendQueue
       /\ UNCHANGED halted
    \/ ~halted /\ (on_connected \/ on_connected_failed)
    \/ halted /\ UNCHANGED vars

Spec == Init /\ [][Next]_vars

-----------------------------------------------------------------------------
(* ReadyFollowsNotifications: while the service is registered and once the *)
(* host has delivered its callbacks, the application has been told exactly *)
(* whether there is a connection and whether the peer has notifications    *)
(* enabled, in whatever order midi_ccc_cfg_changed, on_connected and       *)
(* on_disconnected came; and a disconnection makes up for a second         *)
(* ble_midi_init, a service that was unregistered or a connection that     *)
(* failed.                                                                 *)
ReadyFollowsNotifications ==
    registered /\ link \in {"down", "up"} /\ odd = {} =>
        /\ told = ready_state
        /\ told = IF link = "down" THEN "NOT_CONNECTED"
                  ELSE IF ccc THEN "READY" ELSE "CONNECTED"

(* ReadyMeansUsable: on a connection that the application was told is      *)
(* READY the trigger that sends the queue is set, the packet size is that  *)
(* of an MTU this connection has or had (that of the latest one if it did  *)
(* not find the FIFO full), and nothing accepted on an earlier connection  *)
(* is in the queue.  This covers a connection that failed before it, but   *)
(* only where assertions are disabled: otherwise on_connected halts there. *)
ReadyMeansUsable ==
    told = "READY" /\ link = "up" /\ ~halted /\ odd \subseteq {"connection failed"} =>
        /\ trigger
        /\ 0 < limit /\ limit <= mtu
        /\ queue # "old"

(* NothingStaleSent: data accepted on one connection is never sent on a    *)
(* later one, also when the service was unregistered, initialized again or *)
(* registered in the middle of a connection, or a connection failed.       *)
NothingStaleSent == Sends => queue = "new"

(* TimerInitOnce: the assertion of timer_init (conn_event_trigger.c:51)    *)
(* fails only where a connection failed or the service was unregistered    *)
(* since the last disconnection the library noticed, which left the timer  *)
(* initialized.  Otherwise each initialization of the timer is undone      *)
(* before the next connection, also when ble_midi_init is called again.    *)
TimerInitOnce == halted => odd \cap {"connection failed", "unregistered"} # {}
=============================================================================
