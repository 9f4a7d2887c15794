------------------------------ MODULE MCPlayer ------------------------------
(***************************************************************************)
(* Small instances of Player for TLC: an 8-bit mono and a 16-bit stereo    *)
(* file of the same rate, which ip_read converts to the same format, a     *)
(* 24-bit file, and a stream.                                              *)
(***************************************************************************)
EXTENDS Player

MCTracks == {"mono8", "stereo16", "hires", "stream"}

Format(rate, channels, bits, signed) ==
    [rate |-> rate, channels |-> channels, bits |-> bits, signed |-> signed,
     bigendian |-> FALSE]

MCSampleFormat ==
    [t \in MCTracks |->
       IF t = "mono8" THEN Format(44, 1, 8, FALSE)
       ELSE IF t = "hires" THEN Format(96, 2, 24, TRUE)
       ELSE Format(44, 2, 16, TRUE)]

=============================================================================
