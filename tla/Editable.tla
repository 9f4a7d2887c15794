------------------------------ MODULE Editable ------------------------------
(***************************************************************************)
(* editable.c: a list of tracks with a window on it, marks, counters and   *)
(* an order to keep it sorted in.  An editable is a record e; each         *)
(* function returns the editable after the call.  A track here is a        *)
(* struct simple_track: one entry of one list.                             *)
(***************************************************************************)
EXTENDS Window, TrackList, FiniteSets

CONSTANTS
    Duration,    \* [track -> seconds, or -1 if not known]
    TimeModulus, \* 2^32 in the code: total_time is an unsigned int
    Ranks        \* per list of sort keys: how track_info_cmp orders tracks

Time(track) == IF Duration[track] = -1 THEN 0 ELSE Duration[track]
Unsorted == [track \in DOMAIN Duration |-> 0]

editable_init(nr) ==
    [list |-> << >>, nr_tracks |-> 0, nr_marked |-> 0, total_time |-> 0,
     sort_keys |-> Unsorted, marked |-> {}, win |-> window_set_contents(<< >>, nr)]

get_selected(e) == IF e.win.sel = ListHead THEN None ELSE e.win.sel

(* What a command applies to: "treat marked tracks as selected".           *)
Selected(e) ==
    IF e.nr_marked # 0 THEN SelectSeq(e.list, LAMBDA t : t \in e.marked)
    ELSE IF get_selected(e) = None THEN << >> ELSE << get_selected(e) >>

editable_add(e, track) ==
    LET list == sorted_list_add_track(e.list, track, e.sort_keys)
    IN  [e EXCEPT !.list = list, !.nr_tracks = @ + 1, !.total_time = (@ + Time(track)) % TimeModulus,
                  !.win = window_changed(list, @)]

editable_remove_track(e, track) ==
    [e EXCEPT !.list = Remove(@, track),
              !.nr_tracks = @ - 1,
              !.nr_marked = IF track \in e.marked THEN @ - 1 ELSE @,
              !.marked = @ \ {track},
              !.total_time = (@ - Time(track)) % TimeModulus,
              !.win = window_row_vanishes(e.list, @, track)]

RemoveAll(e, tracks) == FoldLeft(editable_remove_track, e, tracks)

editable_remove_sel(e) == RemoveAll(e, Selected(e))
editable_clear(e) == RemoveAll(e, e.list)

(* editable_set_sort_keys, which calls editable_sort.                      *)
editable_set_sort_keys(e, keys) ==
    LET list == list_mergesort(e.list, keys)
    IN  [e EXCEPT !.sort_keys = keys, !.list = list,
                  !.win = window_goto_top(list, window_changed(list, @))]

editable_toggle_mark(e) ==
    LET t == get_selected(e)
    IN  IF t = None THEN e
        ELSE [e EXCEPT !.nr_marked = IF t \in e.marked THEN @ - 1 ELSE @ + 1,
                       !.marked = IF t \in @ THEN @ \ {t} ELSE @ \cup {t},
                       !.win = window_down(e.list, @, 1)]

(* editable_mark, editable_unmark and editable_invert_marks: the marks     *)
(* become the given ones; the counter is adjusted track by track.          *)
SetMarks(e, marks) ==
    [e EXCEPT !.nr_marked = @ - Cardinality(e.marked) + Cardinality(marks),
              !.marked = marks]

editable_mark(e, matching) == SetMarks(e, ToSet(e.list) \cap matching)
editable_unmark(e) == SetMarks(e, {})
editable_invert_marks(e) == SetMarks(e, ToSet(e.list) \ e.marked)

(* move_item: a row vanishes, but keeps its mark.                          *)
MoveItem(e, track) ==
    [e EXCEPT !.list = Remove(@, track), !.win = window_row_vanishes(e.list, @, track)]

(* The tracks come back in the order in which they were collected.         *)
MoveSelReversed(e, after) ==
    LET moved == Selected(e)
        rest  == FoldLeft(MoveItem, e, moved)
        at    == Index(rest.list, after)
        list  == SubSeq(rest.list, 1, at) \o Reverse(moved) \o SubSeq(rest.list, at + 1, Len(rest.list))
        win   == window_set_sel(list, rest.win, moved[Len(moved)])
    IN  [e EXCEPT !.list = list,
                  !.win = IF win.bug THEN win ELSE window_changed(list, win)]

(* move_sel: the tracks leave the list and come back, in the same order,   *)
(* behind the track "after" (or at the front); the first one is selected.  *)
move_sel(e, after) ==
    LET moved == Selected(e)
        rest  == FoldLeft(MoveItem, e, moved)
        at    == Index(rest.list, after)
        list  == SubSeq(rest.list, 1, at) \o moved \o SubSeq(rest.list, at + 1, Len(rest.list))
        win   == window_set_sel(list, rest.win, moved[1])
    IN  [e EXCEPT !.list = list,
                  !.win = IF win.bug THEN win ELSE window_changed(list, win)]

(* "if the selected track itself is marked we find the first unmarked      *)
(* track (or head) before the selected one"                                *)
UnmarkedAt(e, i) ==
    Row(e.list, SelectLastInSubSeq(e.list, 1, i, LAMBDA t : t \notin e.marked))

find_insert_after_point(e, track) ==
    IF e.nr_marked = 0 THEN get_next(e.list, track)
    ELSE UnmarkedAt(e, Index(e.list, track))

find_insert_before_point(e, track) ==
    IF e.nr_marked = 0 THEN get_prev(e.list, get_prev(e.list, track))
    ELSE UnmarkedAt(e, Index(e.list, track) - 1)

Movable(e) == e.nr_tracks > 1 /\ e.sort_keys = Unsorted /\ get_selected(e) # None

editable_move_after(e) ==
    IF Movable(e) THEN move_sel(e, find_insert_after_point(e, get_selected(e))) ELSE e
editable_move_before(e) ==
    IF Movable(e) THEN move_sel(e, find_insert_before_point(e, get_selected(e))) ELSE e

(* editable_for_each_sel: after the callbacks, "if (e->nr_marked == 0)".   *)
AfterForEachSel(e) ==
    IF e.nr_marked = 0 THEN [e EXCEPT !.win = window_down(e.list, @, 1)] ELSE e

=============================================================================
