------------------------------ MODULE MCTxFifo ------------------------------
(***************************************************************************)
(* Small instances of TxFifo for TLC.                                      *)
(***************************************************************************)
EXTENDS TxFifo

NoteOn     == <<\h90, 60, 100>>
SysexStart == <<\hF0, 0, 0>>

TwoMessages == {NoteOn, SysexStart}
DataOfThree == {<<1>>, <<1, 2, 3>>}
OneSize     == {20}
=============================================================================
