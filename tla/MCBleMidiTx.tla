---------------------------- MODULE MCBleMidiTx ----------------------------
(***************************************************************************)
(* Small instances of BleMidiTx for TLC.                                   *)
(***************************************************************************)
EXTENDS BleMidiTx

OneMessage   == {<<\h90, 60, 100>>}

(* A chunk that does not fit behind a sysex start in a packet; a short     *)
(* chunk and an invalid one.                                               *)
ChunkOfThree == {<<1, 2, 3>>}
MixedData    == {<<1, 2>>, <<3, 200>>}
=============================================================================
