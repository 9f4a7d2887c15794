------------------------------ MODULE Playlist ------------------------------
(***************************************************************************)
(* The playlist (pl.c) and the play queue (play_queue.c), the commands of  *)
(* command_mode.c on them and get_next and get_prev, by which the player   *)
(* asks for the next track.  Each takes editable_mutex: one step each.     *)
(*                                                                         *)
(* An entry stands for a struct simple_track; Info says whose it is.  The  *)
(* entries of a track are interchangeable, so a new one is any free one.   *)
(***************************************************************************)
EXTENDS Editable

CONSTANTS
    Info,       \* [entries -> tracks], bounds how often a track is listed
    Heights     \* what window_set_nr_rows may be called with

Entries == DOMAIN Info
Tracks == {Info[x] : x \in Entries}
Views == {"pl", "pq"}

ASSUME PlaylistAssumption ==
    /\ None \notin Entries /\ ListHead \notin Entries
    /\ DOMAIN Duration = Entries /\ \A x \in Entries : Duration[x] \in Nat \cup {-1}
    /\ \A keys \in Ranks : DOMAIN keys = Entries /\ keys # Unsorted
    /\ \A x, y \in Entries : Info[x] = Info[y] =>
         Duration[x] = Duration[y] /\ \A keys \in Ranks : keys[x] = keys[y]
    /\ TimeModulus \in Nat \ {0}
    /\ Heights \subseteq Nat \ {0} /\ Heights # {}

VARIABLES
    editable,        \* pl_editable and pq_editable
    pl_shuffle,      \* pl_shuffle_head
    pl_cur_track,
    refs             \* references on track infos that the two lists hold

vars == << editable, pl_shuffle, pl_cur_track, refs >>
plVars == << pl_shuffle, pl_cur_track >>

pl == editable["pl"]
pq == editable["pq"]
Listed == ToSet(pl.list) \cup ToSet(pq.list)
Free(ti) == {x \in Entries \ Listed : Info[x] = ti}

Init ==
    /\ \E nr \in Heights : editable = [v \in Views |-> editable_init(nr)]
    /\ pl_shuffle = << >> /\ pl_cur_track = None
    /\ refs = [ti \in Tracks |-> 0]

(* The program ends at a BUG_ON.                                           *)
Running == ~pl.win.bug /\ ~pq.win.bug

Update(v, e) == editable' = [editable EXCEPT ![v] = e]

-----------------------------------------------------------------------------
(* Adding tracks: jobs of the worker, and win-add-p, win-add-q and         *)
(* win-add-Q for the selected tracks of the other view.                    *)

(* pl_add_track: all ways in which the entry may be shuffled in.           *)
pl_add_track(states, x) ==
    UNION {{[e |-> editable_add(s.e, x), shuffle |-> l] :
              l \in list_add_rand(s.shuffle, x, s.e.nr_tracks)} : s \in states}

play_queue_append(e, x) == editable_add(e, x)

play_queue_prepend(e, x) ==
    [e EXCEPT !.list = << x >> \o @, !.nr_tracks = @ + 1,
              !.total_time = (@ + Time(x)) % TimeModulus,
              !.win = window_changed(<< x >> \o e.list, @)]

TakeRefs(xs) ==
    refs' = [ti \in Tracks |-> refs[ti] + Cardinality({x \in ToSet(xs) : Info[x] = ti})]

AddToPlaylist(xs) ==
    /\ \E s \in FoldLeft(pl_add_track, {[e |-> pl, shuffle |-> pl_shuffle]}, xs) :
         pl_shuffle' = s.shuffle /\ editable' = [pl |-> s.e, pq |-> AfterForEachSel(pq)]
    /\ TakeRefs(xs) /\ UNCHANGED pl_cur_track

AddToQueue(e, xs) ==
    /\ editable' = [pl |-> AfterForEachSel(pl), pq |-> e]
    /\ TakeRefs(xs) /\ UNCHANGED plVars

(* A job adds one track.                                                   *)
JobAdds ==
    /\ Running
    /\ \E ti \in Tracks : Free(ti) # {} /\
         LET x == CHOOSE x \in Free(ti) : TRUE
         IN  /\ \/ /\ \E s \in pl_add_track({[e |-> pl, shuffle |-> pl_shuffle]}, x) :
                        pl_shuffle' = s.shuffle /\ Update("pl", s.e)
                   /\ UNCHANGED pl_cur_track
                \/ Update("pq", play_queue_append(pq, x)) /\ UNCHANGED plVars
                \/ Update("pq", play_queue_prepend(pq, x)) /\ UNCHANGED plVars
             /\ TakeRefs(<< x >>)

(* New entries for the tracks of some entries, one each.                   *)
Copies(list) ==
    {xs \in [1 .. Len(list) -> Entries \ Listed] :
       /\ \A i \in 1 .. Len(list) : Info[xs[i]] = Info[list[i]]
       /\ \A i, j \in 1 .. Len(list) : xs[i] = xs[j] => i = j}

WinAddP ==
    /\ Running /\ Copies(Selected(pq)) # {}
    /\ LET xs == CHOOSE xs \in Copies(Selected(pq)) : TRUE IN AddToPlaylist(xs)

WinAddq ==
    /\ Running /\ Copies(Selected(pl)) # {}
    /\ LET xs == CHOOSE xs \in Copies(Selected(pl)) : TRUE
       IN  AddToQueue(FoldLeft(play_queue_append, pq, xs), xs)

(* The selected tracks are taken from the last to the first.               *)
WinAddQ ==
    /\ Running /\ Copies(Selected(pl)) # {}
    /\ LET xs == CHOOSE xs \in Copies(Selected(pl)) : TRUE
       IN  AddToQueue(FoldLeft(play_queue_prepend, pq, Reverse(xs)), xs)

-----------------------------------------------------------------------------
(* Removing them: win-remove and :clear.                                   *)

(* A pl_free_track that leaves pl_cur_track dangling.                      *)
RemovedKeepsCurrent(v, e) ==
    LET gone == ToSet(editable[v].list) \ ToSet(e.list)
    IN  /\ Update(v, e)
        /\ pl_shuffle' = SelectSeq(pl_shuffle, LAMBDA t : t \notin gone)
        /\ refs' = [ti \in Tracks |-> refs[ti] - Cardinality({x \in gone : Info[x] = ti})]
        /\ UNCHANGED pl_cur_track

(* pl_free_track and pq_free_track for the entries that e no longer has.   *)
Removed(v, e) ==
    LET gone == ToSet(editable[v].list) \ ToSet(e.list)
    IN  /\ Update(v, e)
        /\ pl_shuffle' = SelectSeq(pl_shuffle, LAMBDA t : t \notin gone)
        /\ pl_cur_track' = IF pl_cur_track \in gone THEN None ELSE pl_cur_track
        /\ refs' = [ti \in Tracks |-> refs[ti] - Cardinality({x \in gone : Info[x] = ti})]

WinRemove == Running /\ \E v \in Views : Removed(v, editable_remove_sel(editable[v]))
ViewClear == Running /\ \E v \in Views : Removed(v, editable_clear(editable[v]))

-----------------------------------------------------------------------------
(* Commands that change order, marks or selection.                         *)

Edit(v, e) == Update(v, e) /\ UNCHANGED << plVars, refs >>

WinToggle == Running /\ \E v \in Views : Edit(v, editable_toggle_mark(editable[v]))

Mark ==
    /\ Running
    /\ \E v \in Views :
         \/ \E matching \in SUBSET Tracks :
              Edit(v, editable_mark(editable[v], {x \in Entries : Info[x] \in matching}))
         \/ Edit(v, editable_unmark(editable[v]))
         \/ Edit(v, editable_invert_marks(editable[v]))

WinMvAfter == Running /\ \E v \in Views : Edit(v, editable_move_after(editable[v]))
WinMvBefore == Running /\ \E v \in Views : Edit(v, editable_move_before(editable[v]))

PlSort == Running /\ \E keys \in Ranks \cup {Unsorted} : Edit("pl", editable_set_sort_keys(pl, keys))

(* win-up, win-down, win-page-up, win-page-down, win-top, win-bottom and a *)
(* search that matches.                                                    *)
MoveSelection ==
    /\ Running
    /\ \E v \in Views :
       LET e == editable[v]
           Moved(w) == Edit(v, [e EXCEPT !.win = w])
       IN  \/ Moved(window_up(e.list, e.win, 1))
           \/ Moved(window_down(e.list, e.win, 1))
           \/ Moved(window_up(e.list, e.win, e.win.nr_rows - 1))
           \/ Moved(window_down(e.list, e.win, e.win.nr_rows - 1))
           \/ Moved(window_goto_top(e.list, e.win))
           \/ Moved(window_goto_bottom(e.list, e.win))
           \/ \E x \in ToSet(e.list) : Moved(window_set_sel(e.list, e.win, x))

(* The terminal is resized.                                                *)
Resize ==
    /\ Running
    /\ \E nr \in Heights :
         editable' = [v \in Views |->
                        [editable[v] EXCEPT !.win = window_set_nr_rows(editable[v].list, @, nr)]]
    /\ UNCHANGED << plVars, refs >>

-----------------------------------------------------------------------------
(* What is played next.  Options are read when needed; they may have any   *)
(* value.  The reference returned is the caller's.                         *)

dummy_filter == Entries

PlSetTrack(track) ==
    pl_cur_track' = IF track = None THEN pl_cur_track ELSE track

(* The track after the current one in a list, or the one before.           *)
Get(dir, list, again) ==
    IF dir = "next" THEN GetNext(list, pl_cur_track, again, dummy_filter)
    ELSE GetPrev(list, pl_cur_track, again, dummy_filter)

Again(repeat, list) == IF repeat THEN list ELSE << >>

(* pl_set_next, and pl_set_prev, in the order of the list or shuffled; with *)
(* auto_reshuffle the shuffled order is renewed when the search wraps.     *)
Ordered(dir, repeat) ==
    PlSetTrack(Get(dir, pl.list, Again(repeat, pl.list))) /\ UNCHANGED pl_shuffle

Shuffled(dir, repeat) ==
    LET wraps == repeat /\ pl_cur_track # None /\ Get(dir, pl_shuffle, << >>) = None
    IN  \E l \in {pl_shuffle} \cup (IF wraps THEN reshuffle(pl_shuffle) ELSE {}) :
          pl_shuffle' = l /\ PlSetTrack(Get(dir, pl_shuffle, Again(repeat, l)))

Step(dir) ==
    /\ pl.list # << >>
    /\ \E repeat \in BOOLEAN : Ordered(dir, repeat) \/ Shuffled(dir, repeat)
    /\ UNCHANGED << editable, refs >>

(* play_queue_remove: it leaves total_time alone, and hands over the       *)
(* reference on the track.                                                 *)
play_queue_remove ==
    LET x == pq.list[1]
        e == [editable_remove_track(pq, x) EXCEPT !.total_time = pq.total_time]
    IN  /\ Update("pq", e) /\ UNCHANGED plVars
        /\ refs' = [refs EXCEPT ![Info[x]] = @ - 1]

PlayNext == Running /\ IF pq.list # << >> THEN play_queue_remove ELSE Step("next")
PlayPrev == Running /\ Step("prev")

Reshuffle ==
    /\ Running
    /\ pl_shuffle' \in reshuffle(pl_shuffle)
    /\ UNCHANGED << editable, pl_cur_track, refs >>

(* win-activate plays the selected track, win-sel-cur selects the one that *)
(* plays.                                                                  *)
WinActivate ==
    /\ Running /\ get_selected(pl) # None
    /\ pl_cur_track' = get_selected(pl)
    /\ UNCHANGED << editable, pl_shuffle, refs >>

WinSelCur ==
    /\ Running /\ pl_cur_track # None
    /\ Edit("pl", [pl EXCEPT !.win = window_set_sel(pl.list, @, pl_cur_track)])

Crashed == ~Running /\ UNCHANGED vars

Next ==
    \/ JobAdds \/ WinAddP \/ WinAddq \/ WinAddQ \/ WinRemove \/ ViewClear
    \/ WinToggle \/ Mark \/ WinMvAfter \/ WinMvBefore \/ PlSort
    \/ MoveSelection \/ Resize
    \/ PlayNext \/ PlayPrev \/ Reshuffle \/ WinActivate \/ WinSelCur
    \/ Crashed

Spec == Init /\ [][Next]_vars

-----------------------------------------------------------------------------
(* Properties                                                              *)

(* window.h: "top and sel MUST point to valid rows (or window must be      *)
(* empty ...)", and the selected row is on the screen, after whatever      *)
(* sequence of commands on lists that grow and shrink.  The assertions of  *)
(* window_set_sel are hit in one case only: all the tracks of a list are   *)
(* marked and moved.                                                       *)
SelectionShown ==
    \A v \in Views :
      LET e == editable[v]
      IN  /\ Running => SelectionVisible(e.list, e.win)
          /\ e.win.bug => Len(e.list) > 1 /\ e.marked = ToSet(e.list)

(* The counters that decide how far list_add_rand walks and whether        *)
(* commands apply to the marks agree with the lists; total_time, shown for *)
(* the playlist, is its length.                                            *)
CountersExact ==
    /\ \A v \in Views :
         LET e == editable[v]
         IN  /\ e.nr_tracks = Len(e.list) /\ Len(e.list) = Cardinality(ToSet(e.list))
             /\ e.marked \subseteq ToSet(e.list) /\ e.nr_marked = Cardinality(e.marked)
    /\ pl.total_time = FoldLeft(LAMBDA sum, x : (sum + Time(x)) % TimeModulus, 0, pl.list)

(* Whatever is added, removed or reshuffled, shuffled play reaches every   *)
(* track of the playlist, and only those; the current track is one of      *)
(* them.                                                                   *)
ShuffleComplete ==
    /\ ToSet(pl_shuffle) = ToSet(pl.list) /\ Len(pl_shuffle) = Len(pl.list)
    /\ pl_cur_track \in ToSet(pl.list) \cup {None}

(* Each entry holds one reference on its track, handed over or dropped     *)
(* when the entry goes, and is in one list only.                           *)
EntriesHoldRefs ==
    /\ ToSet(pl.list) \cap ToSet(pq.list) = {}
    /\ \A ti \in Tracks : refs[ti] = Cardinality({x \in Listed : Info[x] = ti})

(* A playlist with sort keys is sorted at all times.                       *)
StaysSorted == IsSorted(pl.list, LAMBDA a, b : pl.sort_keys[a] <= pl.sort_keys[b])

(* After any history of edits the counters, the shuffle order, the current *)
(* track, the references and the sort order all belong to the same lists.  *)
ListsAgree == CountersExact /\ ShuffleComplete /\ EntriesHoldRefs /\ StaysSorted

(* The assertions of window_set_sel: BUG_ON(iter_is_empty(&win->top)) and  *)
(* BUG_ON(iter_is_empty(iter)).                                            *)
SelectsRealRows == Running

(* Commands other than sorting do not reorder tracks behind the user's     *)
(* back: a move takes the marked tracks (or the selected one) as a block,  *)
(* in their order, and leaves the order of the others.                     *)
Before(list, x, y) == Index(list, x) < Index(list, y)
Block(e) == ToSet(Selected(e))
KeepsOrder(e, f) ==
    ToSet(e.list) = ToSet(f.list) /\ f.sort_keys = Unsorted =>
      /\ \A x, y \in ToSet(e.list) :
           (x \in Block(e) <=> y \in Block(e)) => (Before(e.list, x, y) <=> Before(f.list, x, y))
      /\ e.list # f.list =>
           \A x, y \in Block(e) : \A z \in ToSet(e.list) :
             Before(f.list, x, z) /\ Before(f.list, z, y) => z \in Block(e)
MovesKeepOrder == [][\A v \in Views : KeepsOrder(editable[v], editable'[v])]_vars

=============================================================================
