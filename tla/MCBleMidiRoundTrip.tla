------------------------ MODULE MCBleMidiRoundTrip -------------------------
(***************************************************************************)
(* Small instances of BleMidiRoundTrip for TLC.                            *)
(***************************************************************************)
EXTENDS BleMidiRoundTrip

NoteOn        == <<\h90, 60, 100>>
NoteOff       == <<\h80, 60, 64>>
ProgramChange == <<\hC1, 5, 0>>
SongSelect    == <<\hF3, 1, 0>>
TuneRequest   == <<\hF6, 0, 0>>
Clock         == <<\hF8, 0, 0>>

(* Messages of one, two and three bytes; channel, common and real time.    *)
AllMessages  == {NoteOn, NoteOff, ProgramChange, SongSelect, TuneRequest, Clock}
OneByte      == {<<1>>}
ShortSysex   == {<<\hF0, 3, \hF7>>, <<\hF0, \hF7>>}
=============================================================================
