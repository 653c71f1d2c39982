--------------------------- MODULE MCSingleMsgTx ---------------------------
(***************************************************************************)
(* Small instances of SingleMsgTx for TLC.                                 *)
(***************************************************************************)
EXTENDS SingleMsgTx

(* One message of every form, and one with a data byte that is not one.    *)
AnyMessages == {<<\h90, 60, 100>>, <<\h80, 60, 64>>, <<\hC1, 5, 0>>,
                <<\hF2, 1, 2>>, <<\hF3, 1, 0>>, <<\hF6, 0, 0>>, <<\hF8, 0, 0>>,
                <<\h90, 200, 0>>}
TwoBytes    == {<<1, 2>>}
MixedData   == {<<1, 2>>, <<3, 200>>}
=============================================================================
