----------------------------- MODULE MCTxQueue -----------------------------
(***************************************************************************)
(* Small instances of TxQueue for TLC.                                     *)
(***************************************************************************)
EXTENDS TxQueue

NoteOn   == <<\h90, 60, 100>>
Clock    == <<\hF8, 0, 0>>
BadNote  == <<\h90, 200, 0>>

(* A channel message, a real time message (the only kind allowed inside a  *)
(* sysex message) and a message with a data byte that is not one.          *)
AllMessages == {NoteOn, Clock, BadNote}
NoteAndClock == {NoteOn, Clock}

(* A chunk that is longer than what fits in a packet, and an invalid one.  *)
AllSysexData  == {<<1, 2, 3, 4, 5>>, <<6, 200>>}
NoSysexData   == {}

(* More data than a sysex start and two packets of five bytes can hold.    *)
LongSysexData == {<<1, 2, 3, 4, 5, 6, 7>>}
=============================================================================
