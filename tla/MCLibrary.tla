----------------------------- MODULE MCLibrary ------------------------------
(***************************************************************************)
(* A small library for TLC: an artist with two albums, one of two tracks,  *)
(* and another artist; skipping "the " swaps the order of the two.         *)
(***************************************************************************)
EXTENDS Library

MCDuration == [f1 |-> 1, f2 |-> 1, f3 |-> -1, f4 |-> 0]
MCComments == [f1 |-> [artist |-> "the a", album |-> "x", date |-> 2],
               f2 |-> [albumartist |-> "the a", artist |-> "c", album |-> "x", date |-> -1],
               f3 |-> [artist |-> "the a", date |-> 1],
               f4 |-> [artist |-> "b", album |-> "x"]]
MCRank(a, b) == [n \in Names |-> CASE n = "the a" -> a [] n = "b" -> b [] n = "x" -> 3 [] OTHER -> 0]
MCNameRank == [fuzzy \in BOOLEAN |-> IF fuzzy THEN MCRank(1, 2) ELSE MCRank(2, 1)]
MCTrackRank == [f1 |-> 2, f2 |-> 1, f3 |-> 3, f4 |-> 4]
MCRanks == {[f1 |-> 1, f2 |-> 2, f3 |-> 1, f4 |-> 0]}
MCHashOrder == << "f2", "f4", "f3", "f1" >>
MCFilters == {{"f1", "f2", "f3", "f4"}, {"f2", "f4"}}
=============================================================================
