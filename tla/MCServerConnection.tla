------------------------- MODULE MCServerConnection -------------------------
(* Two sessions, one of them with two channels, as a client has them that  *)
(* synthesizes and recognizes.                                             *)
EXTENDS ServerConnection

CONSTANTS s1, s2, synth1, recog1, synth2

MCSessions == {s1, s2}
MCChannels == {synth1, recog1, synth2}
MCChannelsOf == [s \in MCSessions |->
                    IF s = s1 THEN <<synth1, recog1>> ELSE <<synth2>>]
=============================================================================
