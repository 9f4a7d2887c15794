------------------------------- MODULE Window -------------------------------
(***************************************************************************)
(* window.c: the rows of a list that are on the screen and the one that is *)
(* selected.  A window is a record w: top and sel are rows of the list or  *)
(* ListHead, nr_rows is the height, bug tells that a BUG_ON was hit.       *)
(* Every function gets the list as a sequence of rows; an iterator walks   *)
(* it in a circle that includes the list head.                             *)
(***************************************************************************)
EXTENDS Integers, Sequences

CONSTANT ListHead    \* "head is not a real row"

(* Where an iterator points: 0 is the head.                                *)
Index(rows, r) == IF r = ListHead THEN 0 ELSE CHOOSE i \in 1 .. Len(rows) : rows[i] = r
Row(rows, i) == IF i = 0 THEN ListHead ELSE rows[i]

get_next(rows, r) == Row(rows, (Index(rows, r) + 1) % (Len(rows) + 1))
get_prev(rows, r) == Row(rows, (Index(rows, r) - 1) % (Len(rows) + 1))

Least(a, b) == IF a < b THEN a ELSE b
Most(a, b) == IF a > b THEN a ELSE b

(* window_new and window_set_contents.                                     *)
window_set_contents(rows, nr) ==
    [top |-> get_next(rows, ListHead), sel |-> get_next(rows, ListHead), nr_rows |-> nr, bug |-> FALSE]

window_up(rows, w, n) ==
    IF w.sel = ListHead THEN w
    ELSE LET sel == Most(1, Index(rows, w.sel) - n)
         IN  [w EXCEPT !.sel = Row(rows, sel),
                       !.top = Row(rows, Least(sel, Index(rows, @)))]

(* Distance from top to sel in the circle of rows, as window_down and      *)
(* window_changed count it.                                                *)
Distance(rows, w) == (Index(rows, w.sel) - Index(rows, w.top)) % (Len(rows) + 1)

window_down(rows, w, n) ==
    LET sel      == Least(Len(rows), Index(rows, w.sel) + n)
        sel_down == sel - Index(rows, w.sel)
        top_down == sel_down - (w.nr_rows - Distance(rows, w) - 1)
        top      == (Index(rows, w.top) + Most(0, top_down)) % (Len(rows) + 1)
    IN  [w EXCEPT !.sel = Row(rows, sel), !.top = Row(rows, top)]

(* "make sure the selected row is visible", then "minimize number of empty *)
(* lines shown".                                                           *)
window_changed(rows, w) ==
    IF w.top = ListHead
    THEN [w EXCEPT !.top = get_next(rows, ListHead), !.sel = get_next(rows, ListHead)]
    ELSE LET sel   == Index(rows, w.sel)
             shown == IF sel < Index(rows, w.top) THEN sel
                      ELSE Most(Index(rows, w.top), sel - (w.nr_rows - 1))
             top   == Least(shown, Most(1, Len(rows) - w.nr_rows + 1))
         IN  [w EXCEPT !.top = Row(rows, top)]

(* A row vanishes at the top, but the window does not notice.              *)
RowVanishesFromSelOnly(rows, w, r) ==
    LET new == IF get_next(rows, r) # ListHead THEN get_next(rows, r) ELSE get_prev(rows, r)
    IN  [w EXCEPT !.sel = IF @ = r THEN new ELSE @]

(* "call this BEFORE row is removed from window"                           *)
window_row_vanishes(rows, w, r) ==
    LET new == IF get_next(rows, r) # ListHead THEN get_next(rows, r) ELSE get_prev(rows, r)
    IN  [w EXCEPT !.top = IF @ = r THEN new ELSE @,
                  !.sel = IF @ = r THEN new ELSE @]

window_set_sel(rows, w, r) ==
    IF w.top = ListHead \/ r = ListHead THEN [w EXCEPT !.bug = TRUE]
    ELSE LET sel == Index(rows, r)
             top == IF sel < Index(rows, w.top) THEN sel
                    ELSE Most(Index(rows, w.top), sel - (w.nr_rows - 1))
         IN  IF r = w.sel THEN w
             ELSE [w EXCEPT !.sel = r, !.top = Row(rows, top)]

window_goto_top(rows, w) ==
    [w EXCEPT !.sel = get_next(rows, ListHead), !.top = get_next(rows, ListHead)]

window_goto_bottom(rows, w) ==
    [w EXCEPT !.sel = get_prev(rows, ListHead),
              !.top = IF rows = << >> THEN ListHead
                      ELSE Row(rows, Most(1, Len(rows) - (w.nr_rows - 1)))]

window_set_nr_rows(rows, w, nr) == window_changed(rows, [w EXCEPT !.nr_rows = nr])

(* "top and sel MUST point to valid rows (or window must be empty ...)",   *)
(* and the selected row is one of the rows on the screen.                  *)
SelectionVisible(rows, w) ==
    IF rows = << >> THEN w.top = ListHead /\ w.sel = ListHead
    ELSE \E t \in 1 .. Len(rows) : \E s \in t .. Len(rows) :
           w.top = rows[t] /\ w.sel = rows[s] /\ s - t < w.nr_rows

=============================================================================
