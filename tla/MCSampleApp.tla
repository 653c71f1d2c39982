---------------------------- MODULE MCSampleApp ----------------------------
(***************************************************************************)
(* The sample application for TLC.  Its two sides share no state: side     *)
(* tells which of them moves, and the other one stays as it began.         *)
(***************************************************************************)
EXTENDS SampleApp, SampleAppRx

VARIABLE side

SideInit == Init /\ RxInit /\ side \in {"tx", "rx"}

SideNext == \/ side = "tx" /\ Next   /\ UNCHANGED <<rxVars, side>>
            \/ side = "rx" /\ RxNext /\ UNCHANGED <<vars, side>>

SideSpec == /\ SideInit /\ [][SideNext]_<<vars, rxVars, side>>
            /\ Fairness /\ RxFairness

(* A whole short message or chord fits the stack in single message mode.   *)
(* In buffered mode a second notification may be sent while the first is   *)
(* with the stack, and find the FIFO full of data when it is done.         *)
Buffers == [single |-> 3, buffered |-> 2, manual |-> 1]

(* Packets with several messages, with sysex messages of one packet and of *)
(* two, and with a message in the middle of a sysex message.               *)
AnyPackets == {<<"msg", "msg", "msg">>, <<"msg", "start", "data", "msg", "end">>,
               <<"start", "data">>, <<"data", "end", "msg">>}
=============================================================================
