------------------------ MODULE BleMidiServiceProofs -----------------------
(***************************************************************************)
(* The safety invariants of BleMidiService, for every set of MTUs.         *)
(*                                                                         *)
(* None of them is inductive: each speaks of the states between callbacks  *)
(* and needs to know what holds while a callback is pending.  The parts of *)
(* ServiceInv say that: what a library that was not initialized has not    *)
(* done, that an absent service is on record in odd, where the CCC can be  *)
(* set, and what has been told to the application before on_connected.     *)
(***************************************************************************)
EXTENDS BleMidiService, TLAPS

(* Nothing has happened before ble_midi_init.                              *)
BeforeInit ==
    ~initialized =>
        /\ link = "down" /\ ~timer /\ odd = {}
        /\ ready_state = "NOT_CONNECTED" /\ told = "NOT_CONNECTED"

(* A service that is not registered was unregistered since the last        *)
(* disconnection that the library noticed.                                 *)
AbsenceRecorded == initialized /\ ~registered => "unregistered" \in odd

(* The peer's CCC value lives as long as the link and the service.         *)
CccOnLink == ccc => registered /\ link \in {"linked", "up"}

(* The trigger is set on a link that is up, and since it was set nothing   *)
(* of an earlier connection is in the queue.                               *)
TriggerOnLink == trigger => link = "up" /\ queue # "old"

(* on_connected has run with the service registered unless odd says        *)
(* otherwise, and has left its marks.                                      *)
UpIsPrepared ==
    link = "up" /\ ~halted /\ "unregistered" \notin odd =>
        /\ trigger
        /\ "initialized again" \notin odd => 0 < limit /\ limit <= mtu

(* While on_connected is pending the CCC callback may have come, once or   *)
(* several times.                                                          *)
ToldOnLink ==
    registered /\ link = "linked" /\ odd = {} =>
        /\ told = ready_state
        /\ ccc <=> told = "READY"

(* While there is no connection the timer is not initialized, unless odd   *)
(* says otherwise.                                                         *)
TimerOnLink ==
    link \in {"down", "linked"} /\ odd \subseteq {"initialized again"} => ~timer

ServiceInv ==
    /\ TypeOK
    /\ BeforeInit /\ AbsenceRecorded /\ CccOnLink /\ TriggerOnLink
    /\ UpIsPrepared /\ ToldOnLink
    /\ ReadyFollowsNotifications /\ TimerOnLink /\ TimerInitOnce

-----------------------------------------------------------------------------
(* The MTUs are positive numbers.                                          *)
LEMMA MtusPositive == \A m \in Mtus : m \in Nat /\ 0 < m
<1> SUFFICES ASSUME NEW m \in Mtus PROVE m \in Nat /\ 0 < m
  OBVIOUS
<1>1. m \in Nat /\ m # 0
  BY ServiceConstants
<1> QED BY <1>1

(* The first ble_midi_init finds nothing told and no link; any other one   *)
(* is on record in odd.                                                    *)
LEMMA InitStep ==
    ASSUME ServiceInv, ~halted, ble_midi_init, UNCHANGED halted
    PROVE  ServiceInv'
<1> USE DEF ServiceInv, config, ble_midi_init, ble_midi_context_reset, hostVars,
    trigVars
<1>1. TypeOK'
  BY ServiceConstants DEF TypeOK, ReadyState
<1>2. BeforeInit'
  BY DEF BeforeInit
<1>3. AbsenceRecorded'
  BY DEF AbsenceRecorded
<1>4. CccOnLink'
  BY DEF CccOnLink
<1>5. TriggerOnLink'
  BY DEF TriggerOnLink
<1>6. UpIsPrepared'
  BY DEF UpIsPrepared, BeforeInit
<1>7. ToldOnLink'
  BY DEF ToldOnLink, BeforeInit
<1>8. ReadyFollowsNotifications'
  BY DEF ReadyFollowsNotifications, BeforeInit
<1>9. TimerOnLink' /\ TimerInitOnce'
  BY DEF TimerOnLink, TimerInitOnce
<1> QED BY <1>1, <1>2, <1>3, <1>4, <1>5, <1>6, <1>7, <1>8, <1>9

(* A service that comes back was unregistered, which odd has on record.    *)
LEMMA RegisterStep ==
    ASSUME ServiceInv, ~halted, ble_midi_service_register, UNCHANGED halted
    PROVE  ServiceInv'
<1> USE DEF ServiceInv, config, ble_midi_service_register, hostVars, stateVars,
    queueVars, trigVars
<1>1. TypeOK'
  BY ServiceConstants DEF TypeOK
<1>2. AbsenceRecorded'
  BY DEF AbsenceRecorded
<1>3. CccOnLink'
  BY DEF CccOnLink
<1>4. ToldOnLink'
  BY DEF ToldOnLink, AbsenceRecorded
<1>5. ReadyFollowsNotifications'
  BY DEF ReadyFollowsNotifications, AbsenceRecorded
<1>6. BeforeInit' /\ TriggerOnLink' /\ UpIsPrepared' /\ TimerOnLink' /\
      TimerInitOnce'
  BY DEF BeforeInit, TriggerOnLink, UpIsPrepared, TimerOnLink,
    TimerInitOnce
<1> QED BY <1>1, <1>2, <1>3, <1>4, <1>5, <1>6

(* The CCC goes with the service, and odd has it on record.                *)
LEMMA UnregisterStep ==
    ASSUME ServiceInv, ~halted, ble_midi_service_unregister, UNCHANGED halted
    PROVE  ServiceInv'
<1> USE DEF ServiceInv, config, ble_midi_service_unregister, stateVars, queueVars,
    trigVars
<1>1. TypeOK'
  BY ServiceConstants DEF TypeOK
<1>2. BeforeInit'
  BY DEF BeforeInit
<1>3. AbsenceRecorded'
  BY DEF AbsenceRecorded
<1>4. CccOnLink'
  BY DEF CccOnLink
<1>5. UpIsPrepared'
  BY DEF UpIsPrepared
<1>6. ToldOnLink'
  BY DEF ToldOnLink
<1>7. ReadyFollowsNotifications'
  BY DEF ReadyFollowsNotifications
<1>8. TimerOnLink' /\ TimerInitOnce'
  BY DEF TimerOnLink, TimerInitOnce
<1>9. TriggerOnLink'
  BY DEF TriggerOnLink
<1> QED BY <1>1, <1>2, <1>3, <1>4, <1>5, <1>6, <1>7, <1>8, <1>9

(* A new link finds no CCC set and the application told that there was     *)
(* none.                                                                   *)
LEMMA LinkMadeStep ==
    ASSUME ServiceInv, ~halted, NEW m \in Mtus, LinkMade(m), UNCHANGED halted
    PROVE  ServiceInv'
<1> USE DEF ServiceInv, config, LinkMade, stateVars, queueVars, trigVars
<1>1. TypeOK'
  BY ServiceConstants DEF TypeOK
<1>2. BeforeInit'
  BY DEF BeforeInit
<1>3. CccOnLink'
  BY DEF CccOnLink
<1>4. TriggerOnLink'
  BY DEF TriggerOnLink
<1>5. UpIsPrepared'
  BY DEF UpIsPrepared
<1>6. ToldOnLink'
  BY DEF ToldOnLink, ReadyFollowsNotifications, CccOnLink
<1>7. ReadyFollowsNotifications'
  BY DEF ReadyFollowsNotifications
<1>8. TimerOnLink' /\ TimerInitOnce'
  BY DEF TimerOnLink, TimerInitOnce
<1>9. AbsenceRecorded'
  BY DEF AbsenceRecorded
<1> QED BY <1>1, <1>2, <1>3, <1>4, <1>5, <1>6, <1>7, <1>8, <1>9

(* The CCC callback tells the application what the CCC is.                 *)
LEMMA CccStep ==
    ASSUME ServiceInv, ~halted, NEW e \in BOOLEAN, midi_ccc_cfg_changed(e), UNCHANGED halted
    PROVE  ServiceInv'
<1> USE DEF ServiceInv, config, midi_ccc_cfg_changed, on_ready_state_changed,
    queueVars, trigVars
<1>1. TypeOK'
  BY ServiceConstants DEF TypeOK, ReadyState
<1>2. BeforeInit'
  BY DEF BeforeInit
<1>3. CccOnLink'
  BY DEF CccOnLink
<1>4. ToldOnLink'
  BY DEF ToldOnLink
<1>5. ReadyFollowsNotifications'
  BY DEF ReadyFollowsNotifications
<1>6. AbsenceRecorded' /\ TriggerOnLink' /\ UpIsPrepared' /\ TimerOnLink' /\
      TimerInitOnce'
  BY DEF AbsenceRecorded, TriggerOnLink, UpIsPrepared, TimerOnLink,
    TimerInitOnce
<1> QED BY <1>1, <1>2, <1>3, <1>4, <1>5, <1>6

(* With the link go the CCC and the trigger.                               *)
LEMMA LinkLostStep ==
    ASSUME ServiceInv, ~halted, LinkLost, UNCHANGED halted
    PROVE  ServiceInv'
<1> USE DEF ServiceInv, config, LinkLost, on_ready_state_changed, stateVars
<1>1. TypeOK'
  BY ServiceConstants DEF TypeOK, ReadyState
<1>2. BeforeInit'
  BY DEF BeforeInit
<1>3. CccOnLink'
  BY DEF CccOnLink
<1>4. TriggerOnLink'
  BY DEF TriggerOnLink
<1>5. UpIsPrepared'
  BY DEF UpIsPrepared
<1>6. ToldOnLink'
  BY DEF ToldOnLink
<1>7. ReadyFollowsNotifications'
  BY DEF ReadyFollowsNotifications
<1>8. TimerOnLink' /\ TimerInitOnce'
  BY DEF TimerOnLink, TimerInitOnce
<1>9. AbsenceRecorded'
  BY DEF AbsenceRecorded
<1> QED BY <1>1, <1>2, <1>3, <1>4, <1>5, <1>6, <1>7, <1>8, <1>9

(* The packet size follows the MTU.                                        *)
LEMMA MtuStep ==
    ASSUME ServiceInv, ~halted, NEW m \in Mtus, att_mtu_updated_cb(m), UNCHANGED halted
    PROVE  ServiceInv'
<1> USE DEF ServiceInv, config, att_mtu_updated_cb, stateVars, trigVars
<1>1. TypeOK'
  BY ServiceConstants DEF TypeOK
<1>2. UpIsPrepared'
  <2>1. limit \in Nat /\ mtu \in Nat /\ m \in Nat /\ 0 < m
    <3>1. mtu \in Mtus /\ (limit \in Mtus \/ limit = 0)
      BY DEF TypeOK
    <3> QED BY <3>1, MtusPositive
  <2>2. (0 < limit /\ limit <= mtu) => 0 < limit' /\ limit' <= mtu'
    BY <2>1
  <2> QED BY <2>2 DEF UpIsPrepared
<1>3. BeforeInit' /\ AbsenceRecorded' /\ CccOnLink' /\ TriggerOnLink' /\
      ToldOnLink' /\ ReadyFollowsNotifications' /\
      TimerOnLink' /\ TimerInitOnce'
  BY DEF BeforeInit, AbsenceRecorded, CccOnLink, TriggerOnLink, ToldOnLink,
    ReadyFollowsNotifications, TimerOnLink, TimerInitOnce
<1> QED BY <1>1, <1>2, <1>3

(* on_connected prepares the connection if the service is registered, and  *)
(* does not take back a READY that the application was told before.        *)
LEMMA ConnectedStep ==
    ASSUME ServiceInv, ~halted, on_connected
    PROVE  ServiceInv'
<1> USE DEF ServiceInv, config, on_connected, PrepareConnection, ResetForConnection,
    AssertionFails, timer_init, NotBehindReady, on_ready_state_changed, stateVars, queueVars,
    trigVars
<1>1. TypeOK'
  BY ServiceConstants DEF TypeOK, ReadyState
<1>2. BeforeInit'
  BY DEF BeforeInit
<1>3. CccOnLink'
  BY DEF CccOnLink
<1>4. TriggerOnLink'
  BY DEF TriggerOnLink
<1>5. UpIsPrepared'
  <2>1. mtu \in Nat /\ 0 < mtu
    BY MtusPositive DEF TypeOK
  <2>2. 0 < mtu /\ mtu <= mtu
    BY <2>1
  <2>3. registered => 0 < limit' /\ limit' <= mtu'
    BY <2>2
  <2>4. registered /\ ~halted' => trigger'
    OBVIOUS
  <2>5. "unregistered" \notin odd' => registered
    BY DEF AbsenceRecorded, BeforeInit
  <2> QED BY <2>3, <2>4, <2>5 DEF UpIsPrepared
<1>6. ToldOnLink'
  BY DEF ToldOnLink
<1>7. TimerOnLink' /\ TimerInitOnce'
  <2>1. AssertionFails => ~(odd \subseteq {"initialized again"})
    BY DEF TimerOnLink
  <2>2. AssertionFails => odd \cap {"connection failed", "unregistered"} # {}
    BY <2>1 DEF TypeOK
  <2> QED BY <2>2 DEF TimerOnLink, TimerInitOnce
<1>8. ReadyFollowsNotifications'
  BY <1>7 DEF ReadyFollowsNotifications, ToldOnLink, TimerInitOnce, TypeOK,
    ReadyState
<1>9. AbsenceRecorded'
  BY DEF AbsenceRecorded
<1> QED BY <1>1, <1>2, <1>3, <1>4, <1>5, <1>6, <1>7, <1>8, <1>9

(* A connection that failed is on record in odd.                           *)
LEMMA FailedStep ==
    ASSUME ServiceInv, ~halted, on_connected_failed
    PROVE  ServiceInv'
<1> USE DEF ServiceInv, config, on_connected_failed, PrepareConnection,
    ResetForConnection, AssertionFails, timer_init, NotBehindReady, on_ready_state_changed,
    stateVars, trigVars, hostVars
<1>1. TypeOK'
  BY ServiceConstants DEF TypeOK, ReadyState
<1>2. BeforeInit'
  BY DEF BeforeInit
<1>3. AbsenceRecorded'
  BY DEF AbsenceRecorded
<1>4. TriggerOnLink'
  BY DEF TriggerOnLink
<1>5. UpIsPrepared'
  BY DEF UpIsPrepared
<1>6. ToldOnLink'
  BY DEF ToldOnLink
<1>7. ReadyFollowsNotifications'
  BY DEF ReadyFollowsNotifications, ToldOnLink, AbsenceRecorded, BeforeInit,
    CccOnLink, TypeOK, ReadyState
<1>8. TimerOnLink' /\ TimerInitOnce'
  BY DEF TimerOnLink, TimerInitOnce
<1>9. CccOnLink'
  BY DEF CccOnLink
<1> QED BY <1>1, <1>2, <1>3, <1>4, <1>5, <1>6, <1>7, <1>8, <1>9

(* on_disconnected undoes on_connected, or odd has the absent service on   *)
(* record.                                                                 *)
LEMMA DisconnectedStep ==
    ASSUME ServiceInv, ~halted, on_disconnected, UNCHANGED halted
    PROVE  ServiceInv'
<1> USE DEF ServiceInv, config, on_disconnected, timer_deinit,
    on_ready_state_changed, stateVars, queueVars
<1>1. TypeOK'
  BY ServiceConstants DEF TypeOK, ReadyState
<1>2. BeforeInit'
  BY DEF BeforeInit
<1>3. AbsenceRecorded'
  BY DEF AbsenceRecorded
<1>4. CccOnLink'
  BY DEF CccOnLink
<1>5. TriggerOnLink'
  BY DEF TriggerOnLink
<1>6. UpIsPrepared'
  BY DEF UpIsPrepared
<1>7. ToldOnLink'
  BY DEF ToldOnLink
<1>8. ReadyFollowsNotifications'
  BY DEF ReadyFollowsNotifications
<1>9. TimerOnLink' /\ TimerInitOnce'
  <2>1. CASE registered
    BY <2>1 DEF TimerOnLink, TimerInitOnce
  <2>2. CASE ~registered
    <3>1. "unregistered" \in odd /\ odd' = odd
      BY <2>2 DEF AbsenceRecorded, BeforeInit
    <3> QED BY <3>1 DEF TimerOnLink, TimerInitOnce
  <2> QED BY <2>1, <2>2
<1> QED BY <1>1, <1>2, <1>3, <1>4, <1>5, <1>6, <1>7, <1>8, <1>9

(* What is accepted is not old.                                            *)
LEMMA TransmitStep ==
    ASSUME ServiceInv, ~halted, Transmit, UNCHANGED halted
    PROVE  ServiceInv'
<1> USE DEF ServiceInv, config, Transmit, hostVars, stateVars, trigVars
<1>1. TypeOK'
  BY ServiceConstants DEF TypeOK
<1>2. TriggerOnLink'
  BY DEF TriggerOnLink
<1>3. BeforeInit' /\ AbsenceRecorded' /\ CccOnLink' /\ UpIsPrepared' /\
      ToldOnLink' /\ ReadyFollowsNotifications' /\
      TimerOnLink' /\ TimerInitOnce'
  BY DEF BeforeInit, AbsenceRecorded, CccOnLink, UpIsPrepared, ToldOnLink,
    ReadyFollowsNotifications, TimerOnLink, TimerInitOnce
<1> QED BY <1>1, <1>2, <1>3

(* Sending empties the queue.                                              *)
LEMMA SendStep ==
    ASSUME ServiceInv, ~halted, SendQueue, UNCHANGED halted
    PROVE  ServiceInv'
<1> USE DEF ServiceInv, config, SendQueue, Sends, hostVars, stateVars, trigVars
<1>1. TypeOK'
  BY ServiceConstants DEF TypeOK
<1>2. TriggerOnLink'
  BY DEF TriggerOnLink
<1>3. BeforeInit' /\ AbsenceRecorded' /\ CccOnLink' /\ UpIsPrepared' /\
      ToldOnLink' /\ ReadyFollowsNotifications' /\
      TimerOnLink' /\ TimerInitOnce'
  BY DEF BeforeInit, AbsenceRecorded, CccOnLink, UpIsPrepared, ToldOnLink,
    ReadyFollowsNotifications, TimerOnLink, TimerInitOnce
<1> QED BY <1>1, <1>2, <1>3

-----------------------------------------------------------------------------
(* Before the library is initialized all of it holds.                      *)
LEMMA ServiceInit == Init => ServiceInv
<1> SUFFICES ASSUME Init PROVE ServiceInv
  OBVIOUS
<1>1. TypeOK
  BY ServiceConstants DEF Init, TypeOK, ReadyState
<1>2. BeforeInit /\ AbsenceRecorded /\ CccOnLink /\ TriggerOnLink
  BY DEF Init, BeforeInit, AbsenceRecorded, CccOnLink, TriggerOnLink
<1>3. UpIsPrepared /\ ToldOnLink /\ ReadyFollowsNotifications
  BY DEF Init, UpIsPrepared, ToldOnLink, ReadyFollowsNotifications
<1>4. TimerOnLink /\ TimerInitOnce
  BY DEF Init, TimerOnLink, TimerInitOnce
<1> QED BY <1>1, <1>2, <1>3, <1>4 DEF ServiceInv

(* ServiceInv is an invariant of initialization, registration and the      *)
(* Bluetooth callbacks in any order, for every set of MTUs.                *)
THEOREM ServiceInvariance == Spec => []ServiceInv
<1>1. Init => ServiceInv
  BY ServiceInit
<1>2. ServiceInv /\ [Next]_vars => ServiceInv'
  <2> SUFFICES ASSUME ServiceInv, [Next]_vars PROVE ServiceInv'
    OBVIOUS
  <2>1. CASE ~halted /\ UNCHANGED halted /\ ble_midi_init
    BY <2>1, InitStep
  <2>2. CASE ~halted /\ UNCHANGED halted /\ ble_midi_service_register
    BY <2>2, RegisterStep
  <2>3. CASE ~halted /\ UNCHANGED halted /\ ble_midi_service_unregister
    BY <2>3, UnregisterStep
  <2>4. CASE ~halted /\ UNCHANGED halted /\ \E m \in Mtus : LinkMade(m)
    BY <2>4, LinkMadeStep
  <2>5. CASE ~halted /\ UNCHANGED halted /\ \E e \in BOOLEAN : midi_ccc_cfg_changed(e)
    BY <2>5, CccStep
  <2>6. CASE ~halted /\ UNCHANGED halted /\ LinkLost
    BY <2>6, LinkLostStep
  <2>7. CASE ~halted /\ UNCHANGED halted /\ \E m \in Mtus : att_mtu_updated_cb(m)
    BY <2>7, MtuStep
  <2>8. CASE ~halted /\ on_connected
    BY <2>8, ConnectedStep
  <2>9. CASE ~halted /\ on_connected_failed
    BY <2>9, FailedStep
  <2>10. CASE ~halted /\ UNCHANGED halted /\ on_disconnected
    BY <2>10, DisconnectedStep
  <2>11. CASE ~halted /\ UNCHANGED halted /\ Transmit
    BY <2>11, TransmitStep
  <2>12. CASE ~halted /\ UNCHANGED halted /\ SendQueue
    BY <2>12, SendStep
  <2>13. CASE UNCHANGED vars
    BY <2>13 DEF vars, config, hostVars, stateVars, queueVars, trigVars,
       ServiceInv, TypeOK, BeforeInit, AbsenceRecorded, CccOnLink,
       TriggerOnLink, UpIsPrepared, ToldOnLink, ReadyFollowsNotifications,
       TimerOnLink, TimerInitOnce
  <2> QED
    BY <2>1, <2>2, <2>3, <2>4, <2>5, <2>6, <2>7, <2>8, <2>9, <2>10, <2>11,
       <2>12, <2>13 DEF Next
<1> QED BY <1>1, <1>2, PTL DEF Spec

(* The variables of the service keep their types.                          *)
THEOREM ServiceTypeCorrect == Spec => []TypeOK
<1>1. ServiceInv => TypeOK
  BY DEF ServiceInv
<1> QED BY <1>1, ServiceInvariance, PTL

(* The application knows whether it is connected and whether it may        *)
(* transmit, whatever the order of midi_ccc_cfg_changed, on_connected and  *)
(* on_disconnected.                                                        *)
THEOREM ReadyIsFollowed == Spec => []ReadyFollowsNotifications
<1>1. ServiceInv => ReadyFollowsNotifications
  BY DEF ServiceInv
<1> QED BY <1>1, ServiceInvariance, PTL

(* The assertion of timer_init fails only if a connection failed or the    *)
(* service was unregistered since the last disconnection the library       *)
(* noticed: on_disconnected undoes every other initialization.             *)
THEOREM TimerIsInitOnce == Spec => []TimerInitOnce
<1>1. ServiceInv => TimerInitOnce
  BY DEF ServiceInv
<1> QED BY <1>1, ServiceInvariance, PTL

(* A connection the application was told is READY has its trigger, a       *)
(* packet size that fits its MTU and a queue of its own: on_connected ran  *)
(* to its end with the service registered, and nothing has undone it       *)
(* since.  After a failed connection it runs to its end only without       *)
(* assertions.                                                             *)
THEOREM ReadyIsUsable == Spec => []ReadyMeansUsable
<1>1. ServiceInv => ReadyMeansUsable
  <2> SUFFICES ASSUME ServiceInv, link = "up", ~halted,
                      odd \subseteq {"connection failed"}
               PROVE  trigger /\ 0 < limit /\ limit <= mtu /\ queue # "old"
    BY DEF ReadyMeansUsable
  <2>1. "unregistered" \notin odd /\ "initialized again" \notin odd
    OBVIOUS
  <2>2. trigger /\ 0 < limit /\ limit <= mtu
    BY <2>1 DEF ServiceInv, UpIsPrepared
  <2> QED BY <2>2 DEF ServiceInv, TriggerOnLink
<1> QED BY <1>1, ServiceInvariance, PTL

(* What tx_queue_tx_notif_ready sends was accepted on the connection it is *)
(* sent on: the trigger is set on this connection only after its queue was *)
(* emptied.                                                                *)
THEOREM NothingStaleIsSent == Spec => []NothingStaleSent
<1>1. ServiceInv => NothingStaleSent
  BY DEF ServiceInv, TypeOK, TriggerOnLink, NothingStaleSent, Sends
<1> QED BY <1>1, ServiceInvariance, PTL
=============================================================================
