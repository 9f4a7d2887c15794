------------------------------ MODULE TrackList -----------------------------
(***************************************************************************)
(* track.c and mergesort.c: lists of tracks, sorted and shuffled, and the  *)
(* track to play after or before the current one.  None is the NULL        *)
(* pointer.                                                                *)
(***************************************************************************)
EXTENDS Integers, Sequences, SequencesExt

CONSTANT None

(* The list with track inserted "after item".                              *)
InsertAfter(list, i, track) == InsertAt(list, i + 1, track)

(* sorted_list_add_track: searched from the end, so that a track comes     *)
(* after those that compare equal.  rank says how the sort keys order them. *)
sorted_list_add_track(list, track, rank) ==
    InsertAfter(list, SelectLastInSeq(list, LAMBDA b : rank[b] <= rank[track]), track)

(* list_mergesort: a stable sort.                                          *)
list_mergesort(list, rank) ==
    FoldLeft(LAMBDA sorted, track : sorted_list_add_track(sorted, track, rank), << >>, list)

(* list_add_rand: any place, if the list has nr tracks; it walks from the  *)
(* nearer end.                                                             *)
list_add_rand(list, track, nr) ==
    LET forward  == {pos % (Len(list) + 1) : pos \in 0 .. nr \div 2}
        backward == {(Len(list) - pos) % (Len(list) + 1) : pos \in 0 .. nr - nr \div 2 - 1}
    IN  {InsertAfter(list, i, track) : i \in forward \cup backward}

(* reshuffle: every order is possible.                                     *)
reshuffle(list) == SetToSeqs(ToSet(list))

(* simple_list_get_next, shuffle_list_get_next: the first track the filter *)
(* (the set of tracks it lets through) finds after cur; with repeat, the   *)
(* search goes on at the front of again, the list, then maybe reshuffled.  *)
GetNext(list, cur, again, filter) ==
    LET Passes(t) == t \in filter
        after  == SelectInSubSeq(list, SelectInSeq(list, LAMBDA t : t = cur) + 1, Len(list), Passes)
        around == SelectInSeq(again, Passes)
    IN  IF cur = None THEN list[1]
        ELSE IF after # 0 THEN list[after]
        ELSE IF around # 0 THEN again[around] ELSE None

(* simple_list_get_prev, shuffle_list_get_prev: likewise, from the end.    *)
GetPrev(list, cur, again, filter) ==
    LET Passes(t) == t \in filter
        before == SelectLastInSubSeq(list, 1, SelectInSeq(list, LAMBDA t : t = cur) - 1, Passes)
        around == SelectLastInSeq(again, Passes)
    IN  IF cur = None THEN list[1]
        ELSE IF before # 0 THEN list[before]
        ELSE IF around # 0 THEN again[around] ELSE None

=============================================================================
