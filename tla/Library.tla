------------------------------- MODULE Library ------------------------------
(***************************************************************************)
(* The library: lib.c (hash of all tracks, filter, sorted list, what to    *)
(* play next) and tree.c (artists, albums, tracks and the two windows on   *)
(* them).  Commands, searches and jobs of the worker hold editable_mutex:  *)
(* one step each.  A track is its file; the library is a record l, each    *)
(* function returns the library after the call.                            *)
(***************************************************************************)
EXTENDS Editable

CONSTANTS
    Comments,    \* [file -> [key -> value]]: its tags, names in lower case
    Urls,        \* the files that are streams
    NameRank,    \* [fuzzy_artist_sort -> [name -> its place in the order of names]]
    TrackRank,   \* [file -> place by discnumber, tracknumber, filename]
    HashOrder,   \* the files in the order of their hash
    Filters,     \* filter expressions, as the sets of files they match
    Heights      \* what window_set_nr_rows may be called with

Files == DOMAIN Duration
Stream == "<Stream>"
NoName == "<No Name>"

(* tree_add_track: the first of these tags that a file has names the       *)
(* artist; "compilation" is there if it is set to yes.                     *)
ArtistKeys == << "albumartistsort", "albumartist", "artistsort", "compilation", "artist" >>

artist_name(f) ==
    LET i == SelectInSeq(ArtistKeys, LAMBDA k : k \in DOMAIN Comments[f])
    IN  IF f \in Urls THEN Stream
        ELSE IF i = 0 THEN NoName
        ELSE IF ArtistKeys[i] = "compilation" THEN "<Compilations>"
        ELSE Comments[f][ArtistKeys[i]]

album_name(f) ==
    IF f \in Urls THEN Stream
    ELSE IF "album" \in DOMAIN Comments[f] THEN Comments[f].album ELSE NoName

date(f) == IF "date" \in DOMAIN Comments[f] THEN Comments[f].date ELSE -1

Names == {artist_name(f) : f \in Files} \cup {album_name(f) : f \in Files}

ASSUME LibraryAssumption ==
    /\ None \notin Files /\ ListHead \notin Files
    /\ ToSet(HashOrder) = Files /\ Len(HashOrder) = Cardinality(Files)
    /\ Urls \subseteq Files /\ DOMAIN Comments = Files /\ DOMAIN TrackRank = Files
    /\ \A fuzzy \in BOOLEAN : \A n \in Names : NameRank[fuzzy][n] \in Nat
    /\ Filters \subseteq SUBSET Files
    /\ Heights \subseteq Nat \ {0} /\ Heights # {}
    /\ \A keys \in Ranks : DOMAIN keys = Files

VARIABLE lib

vars == << lib >>

-----------------------------------------------------------------------------
(* The tree and the rows of its window: << artist >> for an artist and,    *)
(* below it if it is expanded, << artist, album >> for each of its albums. *)

AlbumRow(f) == << artist_name(f), album_name(f) >>
IsAlbum(row) == row # ListHead /\ Len(row) = 2

ArtistRows(artist) ==
    << << artist.name >> >> \o
    (IF artist.expanded THEN [i \in DOMAIN artist.albums |-> << artist.name, artist.albums[i].name >>]
     ELSE << >>)

(* tree_get_next and tree_get_prev walk these rows.                        *)
TreeRows(tree) == FlattenSeq([i \in DOMAIN tree |-> ArtistRows(tree[i])])

ArtistAt(tree, name) == SelectInSeq(tree, LAMBDA artist : artist.name = name)
AlbumAt(artist, name) == SelectInSeq(artist.albums, LAMBDA album : album.name = name)

TracksOf(tree, row) ==
    LET artist == tree[ArtistAt(tree, row[1])]
    IN  artist.albums[AlbumAt(artist, row[2])].tracks

(* What lib_track_win shows.                                               *)
TrackRows(l) == IF l.track_head = ListHead THEN << >> ELSE TracksOf(l.tree, l.track_head)

(* All tracks in the order of the tree, and those of one artist or album.  *)
ArtistTracks(artist) == FlattenSeq([i \in DOMAIN artist.albums |-> artist.albums[i].tracks])
TreeTracks(tree) == FlattenSeq([i \in DOMAIN tree |-> ArtistTracks(tree[i])])

Artist(tree, name) == tree[ArtistAt(tree, name)]

(* tree_sel_changed: the track window shows the selected album.            *)
tree_sel_changed(l) ==
    LET head == IF IsAlbum(l.tree_win.sel) THEN l.tree_win.sel ELSE ListHead
        rows == IF head = ListHead THEN << >> ELSE TracksOf(l.tree, head)
    IN  [l EXCEPT !.track_head = head,
                  !.track_win = window_set_contents(rows, l.track_win.nr_rows)]

(* The tree window becomes w; sel_changed is called if the selection is    *)
(* another one.                                                            *)
TreeWin(l, w) ==
    LET m == [l EXCEPT !.tree_win = w]
    IN  IF w.sel = l.tree_win.sel THEN m ELSE tree_sel_changed(m)

TreeChanged(l) == TreeWin(l, window_changed(TreeRows(l.tree), l.tree_win))
TreeVanishes(l, row) == TreeWin(l, window_row_vanishes(TreeRows(l.tree), l.tree_win, row))
TreeSetSel(l, row) == TreeWin(l, window_set_sel(TreeRows(l.tree), l.tree_win, row))

Bug(l) == [l EXCEPT !.bug = TRUE]

(* window_set_sel and window_row_vanishes of the track window, with their  *)
(* BUG_ON(iter->data0 != win->head.data0).                                 *)
TrackSetSel(l, f) ==
    IF l.track_head # AlbumRow(f) THEN Bug(l)
    ELSE [l EXCEPT !.track_win = window_set_sel(TrackRows(l), @, f)]

TrackVanishes(l, f) ==
    IF l.track_head # AlbumRow(f) THEN Bug(l)
    ELSE [l EXCEPT !.track_win = window_row_vanishes(TrackRows(l), @, f)]

(* "add before item", the i-th one, or at the end.                         *)
AddBefore(list, i, x) == InsertAt(list, IF i = 0 THEN Len(list) + 1 ELSE i, x)

(* The order of names, whatever fuzzy_artist_sort says.                    *)
InsertArtistByName(tree, artist, fuzzy) ==
    LET rank == NameRank[FALSE]
    IN  AddBefore(tree, SelectInSeq(tree, LAMBDA b : rank[artist.name] < rank[b.name]), artist)

insert_artist(tree, artist, fuzzy) ==
    LET rank == NameRank[fuzzy]
    IN  AddBefore(tree, SelectInSeq(tree, LAMBDA b : rank[artist.name] < rank[b.name]), artist)

(* artist_add_album: by date, then by name; a new artist has no albums.    *)
artist_add_album(artist, f) ==
    LET rank  == NameRank[FALSE]
        name  == album_name(f)
        album == [name |-> name, date |-> date(f), tracks |-> << f >>]
        i     == SelectInSeq(artist.albums, LAMBDA a :
                    date(f) < a.date \/ (date(f) = a.date /\ rank[name] < rank[a.name]))
    IN  [artist EXCEPT !.albums = AddBefore(@, i, album)]

album_add_track(album, f) ==
    [album EXCEPT !.tracks =
       AddBefore(@, SelectInSeq(@, LAMBDA t : TrackRank[f] < TrackRank[t]), f)]

tree_add_track(l, f) ==
    LET a   == ArtistAt(l.tree, artist_name(f))
        b   == AlbumAt(l.tree[a], album_name(f))
        new == artist_add_album([name |-> artist_name(f), expanded |-> FALSE, albums |-> << >>], f)
    IN  IF a = 0 THEN TreeChanged([l EXCEPT !.tree = insert_artist(@, new, l.fuzzy)])
        ELSE IF b = 0
        THEN LET m == [l EXCEPT !.tree[a] = artist_add_album(@, f)]
             IN  IF l.tree[a].expanded THEN TreeChanged(m) ELSE m
        ELSE LET m == [l EXCEPT !.tree[a].albums[b] = album_add_track(@, f)]
             IN  IF l.tree_win.sel = AlbumRow(f)
                 THEN [m EXCEPT !.track_win = window_changed(TrackRows(m), @)] ELSE m

remove_track(l, f) ==
    LET a == ArtistAt(l.tree, artist_name(f))
        b == AlbumAt(l.tree[a], album_name(f))
        m == IF l.tree_win.sel = AlbumRow(f) THEN TrackVanishes(l, f) ELSE l
    IN  [m EXCEPT !.tree[a].albums[b].tracks = Remove(@, f)]

remove_album(l, a, b) ==
    LET row == << l.tree[a].name, l.tree[a].albums[b].name >>
        m   == IF l.tree[a].expanded THEN TreeVanishes(l, row) ELSE l
    IN  [m EXCEPT !.tree[a].albums = RemoveAt(@, b)]

(* The artist's row is the only one it has left: expanded is reset first.  *)
remove_artist(l, a) ==
    LET m == TreeVanishes([l EXCEPT !.tree[a].expanded = FALSE], << l.tree[a].name >>)
    IN  [m EXCEPT !.tree = RemoveAt(@, a)]

(* tree_remove, without going back to the tree window.                     *)
TreeRemoveKeepsWin(l, f) ==
    LET a == ArtistAt(l.tree, artist_name(f))
        b == AlbumAt(l.tree[a], album_name(f))
        m == remove_track(l, f)
        n == remove_album(m, a, b)
    IN  IF m.tree[a].albums[b].tracks # << >> THEN m
        ELSE IF n.tree[a].albums # << >> THEN n ELSE remove_artist(n, a)

tree_remove(l, f) ==
    LET a == ArtistAt(l.tree, artist_name(f))
        b == AlbumAt(l.tree[a], album_name(f))
        m == remove_track(l, f)
        n == remove_album([m EXCEPT !.cur_win = IF l.tree_win.sel = AlbumRow(f) THEN "tree" ELSE @], a, b)
    IN  IF m.tree[a].albums[b].tracks # << >> THEN m
        ELSE IF n.tree[a].albums # << >> THEN n ELSE remove_artist(n, a)

(* The order of artists changes, their albums stay with them.              *)
tree_sort_artists(l) ==
    LET At(name) == Artist(l.tree, name)
        names == list_mergesort([i \in DOMAIN l.tree |-> l.tree[i].name], NameRank[l.fuzzy])
    IN  TreeChanged([l EXCEPT !.tree = [i \in DOMAIN names |-> At(names[i])]])

-----------------------------------------------------------------------------
(* lib.c                                                                   *)

(* views_add_track; the order of lib_shuffle_head is not kept here.        *)
views_add_track(l, f) ==
    LET m == tree_add_track(l, f) IN [m EXCEPT !.editable = editable_add(@, f)]

(* A lib_add_track that does not ask the filter.                           *)
AddUnfiltered(l, f) ==
    IF f \in l.hash THEN l ELSE views_add_track([l EXCEPT !.hash = @ \cup {f}], f)

(* hash_insert: "duplicate files not allowed".                             *)
lib_add_track(l, f) ==
    LET m == [l EXCEPT !.hash = @ \cup {f}]
    IN  IF f \in l.hash THEN l
        ELSE IF f \in l.filter THEN views_add_track(m, f) ELSE m

(* free_lib_track, without the test whether it is the current track.       *)
FreeKeepsCurrent(l, f) ==
    LET m == [l EXCEPT !.hash = IF l.remove_from_hash THEN @ \ {f} ELSE @]
    IN  IF l.remove_from_hash /\ f \notin l.hash THEN Bug(l) ELSE tree_remove(m, f)

(* hash_remove: BUG_ON(e == NULL).                                         *)
free_lib_track(l, f) ==
    LET m == [l EXCEPT !.cur_track = IF @ = f THEN None ELSE @,
                       !.hash = IF l.remove_from_hash THEN @ \ {f} ELSE @]
    IN  IF l.remove_from_hash /\ f \notin l.hash THEN Bug(l) ELSE tree_remove(m, f)

(* editable_remove_track of lib_editable, which calls free_lib_track.      *)
RemoveTrack(l, f) ==
    free_lib_track([l EXCEPT !.editable = editable_remove_track(@, f)], f)

RemoveTracks(l, list) == FoldLeft(RemoveTrack, l, list)

(* lib_set_filter: the views are emptied and filled again, in the order of *)
(* the hash and with sorting off; then sorted, and cur_track restored.     *)
lib_set_filter(l, filter) ==
    LET cleared == RemoveTracks([l EXCEPT !.remove_from_hash = FALSE], l.editable.list)
        added   == FoldLeft(views_add_track,
                            [cleared EXCEPT !.remove_from_hash = TRUE, !.filter = filter,
                                            !.editable.sort_keys = Unsorted],
                            SelectSeq(HashOrder, LAMBDA f : f \in l.hash \cap filter))
        sorted  == [added EXCEPT !.editable = editable_set_sort_keys(@, l.editable.sort_keys),
                                 !.cur_win = "tree"]
        top     == TreeWin(sorted, window_goto_top(TreeRows(sorted.tree), sorted.tree_win))
    IN  [top EXCEPT !.cur_track = IF l.cur_track \in ToSet(top.editable.list) THEN l.cur_track ELSE @]

lib_clear_store(l) == [l EXCEPT !.hash = {}]

lib_set_track(l, f) == [l EXCEPT !.cur_track = IF f = None THEN @ ELSE f]

(* aaa_mode_filter: what is played, relative to the current track.         *)
aaa_mode_filter(l, mode) ==
    {f \in ToSet(l.editable.list) :
       CASE mode = "album" -> AlbumRow(l.cur_track) = AlbumRow(f)
         [] mode = "artist" -> artist_name(l.cur_track) = artist_name(f)
         [] mode = "all" -> TRUE}

(* normal_get_next and normal_get_prev go through the tracks of the album, *)
(* the artist or the tree, in the order of the tree.                       *)
Scope(l, mode) ==
    IF mode = "all" \/ l.cur_track = None THEN TreeTracks(l.tree)
    ELSE LET artist == Artist(l.tree, artist_name(l.cur_track))
         IN  IF mode = "artist" THEN ArtistTracks(artist)
             ELSE TracksOf(l.tree, AlbumRow(l.cur_track))

normal_get_next(l, mode, repeat) ==
    LET list == Scope(l, mode)
    IN  GetNext(list, l.cur_track, IF repeat THEN list ELSE << >>, Files)

normal_get_prev(l, mode, repeat) ==
    LET list == Scope(l, mode)
    IN  GetPrev(list, l.cur_track, IF repeat THEN list ELSE << >>, Files)

(* The three orders of lib_set_next and lib_set_prev.  The shuffled one    *)
(* may lead to any track, if there is no current one, and else to any that *)
(* aaa_mode_filter lets through, or to the end.                            *)
Candidates(l, dir) ==
    IF l.cur_track = None
    THEN {TreeTracks(l.tree)[1], l.editable.list[1]} \cup ToSet(l.editable.list)
    ELSE UNION {
      LET passes == aaa_mode_filter(l, mode)
          list   == l.editable.list
          again  == IF repeat THEN list ELSE << >>
      IN  passes \cup
          (IF repeat THEN {} ELSE {None}) \cup
          (IF dir = "next"
           THEN {GetNext(list, l.cur_track, again, passes), normal_get_next(l, mode, repeat)}
           ELSE {GetPrev(list, l.cur_track, again, passes), normal_get_prev(l, mode, repeat)})
      : mode \in {"album", "artist", "all"}, repeat \in BOOLEAN }

-----------------------------------------------------------------------------
(* Selections                                                              *)

(* The tracks a command of the tree view applies to (tree_win_remove_sel,  *)
(* track_win_remove_sel, __tree_for_each_sel).                             *)
SelectedTracks(l) ==
    IF l.cur_win = "track"
    THEN IF l.track_win.sel = ListHead THEN << >> ELSE << l.track_win.sel >>
    ELSE IF l.tree_win.sel = ListHead THEN << >>
    ELSE IF IsAlbum(l.tree_win.sel) THEN TracksOf(l.tree, l.tree_win.sel)
    ELSE ArtistTracks(Artist(l.tree, l.tree_win.sel[1]))

tree_remove_sel(l) == RemoveTracks(l, SelectedTracks(l))

tree_toggle_active_window(l) ==
    [l EXCEPT !.cur_win = IF @ = "tree" /\ IsAlbum(l.tree_win.sel) THEN "track" ELSE "tree"]

(* "deselect album, select artist"                                         *)
tree_toggle_expand_artist(l) ==
    LET sel == l.tree_win.sel
        a   == ArtistAt(l.tree, sel[1])
        m   == TreeSetSel(l, << sel[1] >>)
    IN  IF sel = ListHead THEN l
        ELSE IF l.tree[a].expanded
        THEN TreeChanged([m EXCEPT !.tree[a].expanded = FALSE, !.cur_win = "tree"])
        ELSE TreeChanged([l EXCEPT !.tree[a].expanded = TRUE])

(* The artist is expanded, the album and the track are selected.           *)
ShowTrack(l, f) ==
    TrackSetSel(TreeSetSel([l EXCEPT !.tree[ArtistAt(l.tree, artist_name(f))].expanded = TRUE],
                           AlbumRow(f)), f)

tree_sel_current(l) == ShowTrack([l EXCEPT !.cur_win = "track"], l.cur_track)

(* tree_set_selected: the selected track, or the artist's first.           *)
tree_set_selected(l) ==
    [l EXCEPT !.cur_track = IF IsAlbum(l.tree_win.sel) THEN l.track_win.sel
                            ELSE ArtistTracks(Artist(l.tree, l.tree_win.sel[1]))[1]]

(* tree_search_get_current                                                 *)
SearchStart(l) ==
    IF l.track_win.sel # ListHead THEN l.track_win.sel
    ELSE ArtistTracks(Artist(l.tree, l.tree_win.sel[1]))[1]

(* The tracks that tree_search_get_next and tree_search_get_prev visit:    *)
(* with search_restricted one of each album, the first or the last.        *)
Visited(l, dir, restricted) ==
    LET tracks == IF dir = "next" THEN TreeTracks(l.tree) ELSE Reverse(TreeTracks(l.tree))
        First(i) == i = 1 \/ AlbumRow(tracks[i - 1]) # AlbumRow(tracks[i])
        start == SelectInSeq(tracks, LAMBDA f : f = SearchStart(l))
    IN  [tracks |-> tracks,
         from   |-> {start} \cup {i \in start + 1 .. Len(tracks) : restricted => First(i)}]

(* search and search_next: the first match from the current track, or      *)
(* behind it, is shown.                                                    *)
Search(l, dir, restricted, skip, matching) ==
    LET v    == Visited(l, dir, restricted)
        hits == {i \in v.from : v.tracks[i] \in matching /\ (skip => v.tracks[i] # SearchStart(l))}
    IN  IF hits = {} THEN l
        ELSE ShowTrack(l, v.tracks[CHOOSE i \in hits : \A j \in hits : i <= j])

-----------------------------------------------------------------------------
Init ==
    \E nr \in Heights, filter \in Filters, keys \in Ranks, fuzzy \in BOOLEAN :
      lib = [hash |-> {}, filter |-> filter, remove_from_hash |-> TRUE, fuzzy |-> fuzzy,
             editable |-> [editable_init(nr) EXCEPT !.sort_keys = keys],
             tree |-> << >>, tree_win |-> window_set_contents(<< >>, nr),
             track_head |-> ListHead, track_win |-> window_set_contents(<< >>, nr),
             cur_win |-> "tree", cur_track |-> None, bug |-> FALSE]

(* The program ends at a BUG_ON.                                           *)
Bugged(l) == l.bug \/ l.editable.win.bug \/ l.tree_win.bug \/ l.track_win.bug
Running == ~Bugged(lib)

(* Jobs of the worker add tracks and, when files have changed, remove them *)
(* (lib_remove).                                                           *)
JobAdds == Running /\ \E f \in Files : lib' = lib_add_track(lib, f)
JobRemoves == Running /\ \E f \in ToSet(lib.editable.list) : lib' = RemoveTrack(lib, f)

(* win-remove in the tree view and in the sorted view.                     *)
WinRemove ==
    /\ Running
    /\ \/ lib' = tree_remove_sel(lib)
       \/ lib' = RemoveTracks(lib, Selected(lib.editable))

(* :clear, and :load, which leaves the hash to free_lib_track.             *)
ViewClear == Running /\ lib' = lib_clear_store(RemoveTracks(lib, lib.editable.list))
ViewLoad == Running /\ lib' = RemoveTracks(lib, lib.editable.list)

SetFilter == Running /\ \E filter \in Filters : lib' = lib_set_filter(lib, filter)

(* Options lib_sort and fuzzy_artist_sort.                                 *)
SetLibSort ==
    /\ Running
    /\ \E keys \in Ranks : lib' = [lib EXCEPT !.editable = editable_set_sort_keys(@, keys)]
SetFuzzyArtistSort == Running /\ lib' = tree_sort_artists([lib EXCEPT !.fuzzy = ~@])

WinToggle == Running /\ lib' = tree_toggle_expand_artist(lib)
WinNext == Running /\ lib' = tree_toggle_active_window(lib)

(* win-sel-cur in the tree view and in the sorted view.                    *)
WinSelCur ==
    /\ Running /\ lib.cur_track # None
    /\ \/ lib' = tree_sel_current(lib)
       \/ lib' = [lib EXCEPT !.editable.win = window_set_sel(lib.editable.list, @, lib.cur_track)]

(* win-activate: tree_set_selected and sorted_set_selected.                *)
WinActivate ==
    /\ Running /\ lib.tree # << >>
    /\ \/ lib' = tree_set_selected(lib)
       \/ lib' = lib_set_track(lib, get_selected(lib.editable))

TreeSearch ==
    /\ Running /\ lib.tree # << >>
    /\ \E dir \in {"next", "prev"}, restricted, skip \in BOOLEAN, matching \in Filters :
         lib' = Search(lib, dir, restricted, skip, matching)

(* lib_set_next and lib_set_prev: BUG_ON(lib_cur_track != NULL) when the   *)
(* library is empty.                                                       *)
PlayNextPrev ==
    /\ Running
    /\ IF lib.tree = << >> THEN lib' = IF lib.cur_track # None THEN Bug(lib) ELSE lib
       ELSE \E dir \in {"next", "prev"} : \E f \in Candidates(lib, dir) : lib' = lib_set_track(lib, f)

(* A window function on the active window of the tree view.                *)
OnCurWin(l, tree_win, track_win) ==
    IF l.cur_win = "tree" THEN TreeWin(l, tree_win) ELSE [l EXCEPT !.track_win = track_win]

WinDown(l, n) ==
    OnCurWin(l, window_down(TreeRows(l.tree), l.tree_win, n), window_down(TrackRows(l), l.track_win, n))
WinUp(l, n) ==
    OnCurWin(l, window_up(TreeRows(l.tree), l.tree_win, n), window_up(TrackRows(l), l.track_win, n))

(* win-add-p and the others end tree_for_each_sel with window_down; so     *)
(* does win-down.                                                          *)
MoveInTree ==
    /\ Running
    /\ \/ lib' = WinDown(lib, 1)
       \/ lib' = WinUp(lib, 1)
       \/ lib' = OnCurWin(lib, window_goto_top(TreeRows(lib.tree), lib.tree_win),
                          window_goto_top(TrackRows(lib), lib.track_win))
       \/ lib' = OnCurWin(lib, window_goto_bottom(TreeRows(lib.tree), lib.tree_win),
                          window_goto_bottom(TrackRows(lib), lib.track_win))

MoveInSorted ==
    /\ Running
    /\ LET e == lib.editable
           Moved(w) == lib' = [lib EXCEPT !.editable.win = w]
       IN  Moved(window_down(e.list, e.win, 1)) \/ Moved(window_up(e.list, e.win, 1))

(* resize_tree_view and the sorted view's window_set_nr_rows.              *)
Resize ==
    /\ Running
    /\ \E nr \in Heights :
         LET m == TreeWin(lib, window_set_nr_rows(TreeRows(lib.tree), lib.tree_win, nr))
         IN  lib' = [m EXCEPT !.track_win = window_set_nr_rows(TrackRows(m), @, nr),
                              !.editable.win = window_set_nr_rows(lib.editable.list, @, nr)]

Next ==
    \/ JobAdds \/ JobRemoves \/ WinRemove \/ ViewClear \/ ViewLoad \/ SetFilter
    \/ SetLibSort \/ SetFuzzyArtistSort \/ WinToggle \/ WinNext \/ WinSelCur
    \/ WinActivate \/ TreeSearch \/ PlayNextPrev \/ MoveInTree \/ MoveInSorted \/ Resize

Spec == Init /\ [][Next]_vars

-----------------------------------------------------------------------------
(* Properties                                                              *)

(* No BUG_ON of lib.c, tree.c or window.c is hit by any sequence of        *)
(* commands and jobs: every track of the views is in the hash, the track   *)
(* window shows the album whose tracks it is told about, and an empty      *)
(* library has no current track.                                           *)
NoBug == Running

(* Both views show the tracks of the hash that pass the filter, the sorted *)
(* one in its order, and lib_cur_track never dangles.                      *)
ViewIsFiltered ==
    LET list == lib.editable.list
    IN  /\ ToSet(list) = lib.hash \cap lib.filter
        /\ lib.cur_track \in ToSet(list) \cup {None}
        /\ IsSorted(list, LAMBDA f, g : lib.editable.sort_keys[f] <= lib.editable.sort_keys[g])

(* The tree holds each track of the sorted view once, under its own artist *)
(* and album, no artist or album twice or empty, artists in the order that *)
(* fuzzy_artist_sort asks for, albums by date.                             *)
TreeMatchesView ==
    LET tree == lib.tree
        tracks == TreeTracks(tree)
    IN  /\ Len(tracks) = lib.editable.nr_tracks /\ ToSet(tracks) = ToSet(lib.editable.list)
        /\ \A i \in DOMAIN tree :
             /\ ArtistAt(tree, tree[i].name) = i /\ tree[i].albums # << >>
             /\ \A j \in DOMAIN tree[i].albums :
                  LET album == tree[i].albums[j]
                  IN  /\ AlbumAt(tree[i], album.name) = j /\ album.tracks # << >>
                      /\ \A f \in ToSet(album.tracks) : AlbumRow(f) = << tree[i].name, album.name >>
             /\ IsSorted(tree[i].albums, LAMBDA x, y : x.date <= y.date)
        /\ IsSorted(tree, LAMBDA x, y : NameRank[lib.fuzzy][x.name] <= NameRank[lib.fuzzy][y.name])

(* The cursors of the tree view stay on visible rows; the track window     *)
(* shows the selected album or nothing, and is active only in the former   *)
(* case: a command never applies to a track of another album.              *)
WindowsFollow ==
    /\ SelectionVisible(TreeRows(lib.tree), lib.tree_win)
    /\ lib.track_head = IF IsAlbum(lib.tree_win.sel) THEN lib.tree_win.sel ELSE ListHead
    /\ SelectionVisible(TrackRows(lib), lib.track_win)
    /\ lib.cur_win = "track" => IsAlbum(lib.tree_win.sel)

=============================================================================
