----------------------------- MODULE MCPlaylist -----------------------------
(***************************************************************************)
(* Small instances of Playlist for TLC: two tracks, one of unknown length, *)
(* the first one listed up to twice.                                       *)
(***************************************************************************)
EXTENDS Playlist

MCInfo == [a1 |-> "a", a2 |-> "a", b1 |-> "b"]
MCDuration == [a1 |-> 1, a2 |-> 1, b1 |-> -1]
MCRanks == {[a1 |-> 2, a2 |-> 2, b1 |-> 1]}

=============================================================================
