-------------------------------- MODULE Cache --------------------------------
(***************************************************************************)
(* The track cache of cache.c, the library's references to its entries,    *)
(* and the jobs of job.c that keep both in step with the files on disk:    *)
(* adding, win-update, update-cache.  The worker thread runs the jobs, the *)
(* user interface plays files, sets filters, removes and clears, the files *)
(* change at any time, and cmus may crash and be started again.            *)
(***************************************************************************)
EXTENDS Integers, Sequences, SequencesExt, FiniteSets, FiniteSetsExt

CONSTANTS
    Files,       \* a sequence, in the order of strcmp
    MaxChanges,  \* bound: changes of the files
    MaxCommands, \* bound: commands of the user
    MaxInfos,    \* bound: track infos allocated in a run of cmus
    MaxJobs,     \* bound: jobs in the queue
    MaxStarts    \* bound: starts of cmus

ASSUME CacheAssumption ==
    /\ Files \in Seq(ToSet(Files)) /\ Files # << >> /\ IsInjective(Files)
    /\ {MaxChanges, MaxCommands, MaxInfos, MaxJobs, MaxStarts} \subseteq Nat

VARIABLES
    disk, clock, \* per file when it was written, its mtime, 0: there is none; the changes so far
    tis,         \* the track infos allocated so far
    table, total, changed,     \* hash_table; total; new or removed is not 0
    hash, view, shown,         \* ti_hash; lib_editable; files the filter lets through
    player,      \* what the player has, 0 for nothing
    queue, job,  \* jobs to do and the current one
    lock,        \* who holds cache_mutex
    ui,          \* cmus_play_file, in the middle of reading a file
    run, starts, commands,     \* where the program is in its life
    cachefile, tmpfile, libpl  \* ~/.cmus/cache, cache.tmp, lib.pl

memory == << tis, table, total, changed, hash, view, player >>
vars == << disk, clock, memory, shown, queue, job, lock, ui, run, starts, commands, cachefile, tmpfile, libpl >>

Names == ToSet(Files)
Idle == [kind |-> "none"]
NoUi == [step |-> "none"]
NoCache == [whole |-> TRUE, full |-> FALSE, entries |-> {}]

-----------------------------------------------------------------------------
(* track_info.c.  raced: the file changed between reading its tags and its *)
(* mtime; lost: references nobody gives back.                              *)

TrackInfo(f, m, tags, r) ==
    [file |-> f, mtime |-> m, tags |-> tags, ref |-> r, raced |-> m # tags, lost |-> 0]
track_info_ref(t, i) == [t EXCEPT ![i].ref = @ + 1]
Freed == TrackInfo(Files[1], 0, 0, 0)
Unref(ti) == IF ti.ref = 1 THEN Freed ELSE [ti EXCEPT !.ref = @ - 1]
track_info_unref(t, i) == [t EXCEPT ![i] = Unref(@)]
RefAll(t, is) == [i \in DOMAIN t |-> IF i \in is THEN [t[i] EXCEPT !.ref = @ + 1] ELSE t[i]]
UnrefAll(t, is) == [i \in DOMAIN t |-> IF i \in is THEN Unref(t[i]) ELSE t[i]]
LoseAll(t, is) == [i \in DOMAIN t |-> IF i \in is THEN [t[i] EXCEPT !.lost = @ + 1] ELSE t[i]]

Fresh == Len(tis) + 1
MayAllocate == Len(tis) < MaxInfos

-----------------------------------------------------------------------------
(* cache.c and lib.c on a record of what they change.                      *)

Mem == [tis |-> tis, table |-> table, total |-> total, changed |-> changed, hash |-> hash, view |-> view]
SetMem(m) ==
    /\ tis' = m.tis /\ table' = m.table /\ total' = m.total /\ changed' = m.changed
    /\ hash' = m.hash /\ view' = m.view

lookup_cache_entry(f) == {i \in table : tis[i].file = f}

(* add_ti, with new++.                                                     *)
AddNew(m, ti) ==
    [m EXCEPT !.tis = Append(@, ti), !.table = @ \cup {Len(m.tis) + 1}, !.total = @ + 1, !.changed = TRUE]

RemoveKeepsTotal(m, i) ==
    IF i \notin m.table THEN m
    ELSE [m EXCEPT !.table = @ \ {i}, !.changed = TRUE, !.tis = track_info_unref(@, i)]

do_cache_remove_ti(m, i) ==
    IF i \notin m.table THEN m
    ELSE [m EXCEPT !.table = @ \ {i}, !.total = @ - 1, !.changed = TRUE,
                   !.tis = track_info_unref(@, i)]

(* A file is in the library once; views_add_track takes a second reference. *)
lib_add_track(m, i) ==
    IF \E j \in m.hash : m.tis[j].file = m.tis[i].file THEN m
    ELSE IF m.tis[i].file \notin shown
    THEN [m EXCEPT !.hash = @ \cup {i}, !.tis = track_info_ref(@, i)]
    ELSE [m EXCEPT !.hash = @ \cup {i}, !.view = @ \cup {i},
                   !.tis = track_info_ref(track_info_ref(@, i), i)]

(* Only what is shown is searched; the hash is emptied by file name.       *)
lib_remove(m, i) ==
    IF i \notin m.view THEN m
    ELSE LET e == {j \in m.hash : m.tis[j].file = m.tis[i].file}
         IN  [m EXCEPT !.view = @ \ {i}, !.hash = @ \ e, !.tis = UnrefAll(track_info_unref(@, i), e)]

-----------------------------------------------------------------------------
(* The files.                                                              *)

Changed(f, mtime) ==
    /\ clock < MaxChanges
    /\ clock' = clock + 1 /\ disk' = [disk EXCEPT ![f] = mtime]
    /\ UNCHANGED << memory, shown, queue, job, lock, ui, run, starts, commands, cachefile, tmpfile, libpl >>

Touch(f) == Changed(f, clock + 2)
Delete(f) == disk[f] # 0 /\ Changed(f, 0)

-----------------------------------------------------------------------------
(* The worker thread.                                                      *)

KeepDisk == UNCHANGED << disk, clock, run, starts, cachefile, tmpfile, libpl >>
KeepFiles == KeepDisk /\ UNCHANGED commands

TakeJob ==
    /\ run = "up" /\ job = Idle /\ queue # << >>
    /\ job' = Head(queue) /\ queue' = Tail(queue)
    /\ UNCHANGED << memory, shown, lock, ui >> /\ KeepFiles

JobDone == job' = Idle

AddFiles(fs) == [kind |-> "add", step |-> "get", files |-> fs, tags |-> 0, ti_buffer |-> << >>]

(* add_file: cache_get_ti finds the file, or it cannot be read, or its     *)
(* tags are read, with cache_mutex held.                                   *)
AddGet ==
    /\ job.kind = "add" /\ job.step = "get" /\ job.files # << >> /\ lock = "none"
    /\ LET f == Head(job.files)
           found == lookup_cache_entry(f)
       IN  \/ \E i \in found :
                 /\ job' = [job EXCEPT !.files = Tail(@), !.ti_buffer = Append(@, i)]
                 /\ tis' = track_info_ref(tis, i) /\ UNCHANGED lock
           \/ /\ found = {} /\ job' = [job EXCEPT !.files = Tail(@)]         \* not readable
              /\ UNCHANGED << tis, lock >>
           \/ /\ found = {} /\ disk[f] # 0 /\ MayAllocate
              /\ job' = [job EXCEPT !.step = "stat", !.tags = disk[f]] /\ lock' = "worker"
              /\ UNCHANGED tis
    /\ UNCHANGED << table, total, changed, hash, view, player, shown, queue, ui >> /\ KeepFiles

(* file_get_mtime comes after the tags were read.                          *)
AddStat ==
    /\ job.kind = "add" /\ job.step = "stat"
    /\ SetMem(AddNew(Mem, TrackInfo(Head(job.files), disk[Head(job.files)], job.tags, 2)))
    /\ job' = [job EXCEPT !.step = "get", !.tags = 0, !.files = Tail(@), !.ti_buffer = Append(@, Fresh)]
    /\ lock' = "none"
    /\ UNCHANGED << player, shown, queue, ui >> /\ KeepFiles

(* At the end of the job; it has fewer files than ti_buffer has room for.  *)
AddKeepsReference(m, i) == lib_add_track(m, i)

AddAndUnref(m, i) == [lib_add_track(m, i) EXCEPT !.tis = track_info_unref(@, i)]

flush_ti_buffer ==
    /\ job.kind = "add" /\ job.step = "get" /\ job.files = << >>
    /\ SetMem(FoldLeft(AddAndUnref, Mem, job.ti_buffer)) /\ JobDone
    /\ UNCHANGED << player, shown, queue, lock, ui >> /\ KeepFiles

(* do_update_job, one track after the other.                               *)
NextTrack ==
    IF Len(job.tis) = 1 THEN JobDone ELSE job' = [job EXCEPT !.tis = Tail(@), !.step = "stat"]

UpdateStat ==
    /\ job.kind = "update" /\ job.step = "stat"
    /\ LET i == Head(job.tis)
           same == disk[tis[i].file] # 0 /\ disk[tis[i].file] = tis[i].mtime
       IN  IF same THEN tis' = track_info_unref(tis, i) /\ NextTrack
           ELSE job' = [job EXCEPT !.step = "lib", !.dead = IF disk[tis[i].file] = 0 THEN @ \cup {i} ELSE @] /\ UNCHANGED tis
    /\ UNCHANGED << table, total, changed, hash, view, player, shown, queue, lock, ui >> /\ KeepFiles

UpdateLib ==
    /\ job.kind = "update" /\ job.step = "lib"
    /\ SetMem(lib_remove(Mem, Head(job.tis)))
    /\ job' = [job EXCEPT !.step = "cache"]
    /\ UNCHANGED << player, shown, queue, lock, ui >> /\ KeepFiles

(* A changed file is added again by a new job.                             *)
UpdateCache ==
    /\ job.kind = "update" /\ job.step = "cache" /\ lock = "none"
    /\ LET i == Head(job.tis)
           m == do_cache_remove_ti(Mem, i)
       IN  /\ SetMem([m EXCEPT !.tis = track_info_unref(@, i)])
           /\ queue' = IF i \in job.dead THEN queue
                       ELSE Append(queue, AddFiles(<< tis[i].file >>))
    /\ NextTrack
    /\ UNCHANGED << player, shown, lock, ui >> /\ KeepFiles

(* cache_refresh.  arr: what get_track_infos returned; held: tis[i] is not *)
(* NULL, has a reference of ours and maybe a new entry in next.            *)
get_track_infos ==
    LET Place(i) == CHOOSE n \in DOMAIN Files : Files[n] = tis[i].file
    IN  {a \in SetToSeqs(table) : \A j, k \in DOMAIN a : j < k => Place(a[j]) <= Place(a[k])}

RefreshStart ==
    /\ job.kind = "refresh" /\ job.step = "start" /\ lock = "none"
    /\ \E a \in get_track_infos :
         job' = [kind |-> "refresh", step |-> "stat", n |-> 1, mtime |-> 0,
                 arr |-> [k \in DOMAIN a |-> [ti |-> a[k], held |-> FALSE, next |-> 0]]]
    /\ lock' = "worker"
    /\ UNCHANGED << memory, shown, queue, ui >> /\ KeepFiles

(* The bound of the loop is total itself.                                  *)
RefreshStat ==
    /\ job.kind = "refresh" /\ job.step = "stat" /\ job.n <= total
    /\ LET i == job.arr[job.n].ti
           now == disk[tis[i].file]
       IN  IF now # 0 /\ now = tis[i].mtime THEN job' = [job EXCEPT !.n = @ + 1]
           ELSE job' = [job EXCEPT !.step = "read", !.mtime = now]
    /\ UNCHANGED << memory, shown, queue, lock, ui >> /\ KeepFiles

(* The mtime is the one from before the file was read.                     *)
RefreshedStatLast(f) == [TrackInfo(f, disk[f], job.mtime, 1) EXCEPT !.raced = FALSE]

Refreshed(f) == [TrackInfo(f, job.mtime, disk[f], 1) EXCEPT !.raced = FALSE]

(* The old entry goes; a changed file that can be read gets a new one.     *)
RefreshRead ==
    /\ job.kind = "refresh" /\ job.step = "read"
    /\ LET i == job.arr[job.n].ti
           gone == do_cache_remove_ti([Mem EXCEPT !.tis = track_info_ref(@, i)], i)
           only == gone.tis[i].ref = 1
           read == job.mtime # 0 /\ disk[tis[i].file] # 0 /\ MayAllocate
           Settled(m, next) ==
               /\ SetMem(IF ~only THEN m ELSE [m EXCEPT !.tis = track_info_unref(@, i)])
               /\ job' = [job EXCEPT !.step = "stat", !.n = @ + 1, !.arr[job.n] =
                            [ti |-> i, held |-> ~only, next |-> IF only THEN 0 ELSE next]]
       IN  \/ Settled(gone, 0)                                    \* deleted, or not readable
           \/ /\ read
              /\ Settled(AddNew(gone, [Refreshed(tis[i].file) EXCEPT !.ref = IF only THEN 1 ELSE 2]), Fresh)
    /\ UNCHANGED << player, shown, queue, lock, ui >> /\ KeepFiles

(* do_update_cache_job: an old track of the library gives way to the new.  *)
ReplaceTrack(m, e) ==
    IF ~e.held THEN m
    ELSE LET r == lib_remove(m, e.ti)
             a == IF r # m /\ e.next # 0 THEN lib_add_track(r, e.next) ELSE r
             u == track_info_unref(a.tis, e.ti)
         IN  [a EXCEPT !.tis = IF e.next = 0 THEN u ELSE track_info_unref(u, e.next)]

(* Up to *count, which is total; what comes after keeps the reference it   *)
(* was given.                                                              *)
RefreshApply ==
    /\ job.kind = "refresh" /\ job.step = "stat" /\ job.n > total
    /\ LET m == FoldLeft(ReplaceTrack, Mem, SubSeq(job.arr, 1, Min({total, Len(job.arr)})))
           left == {job.arr[k].ti : k \in {x \in DOMAIN job.arr : x > total /\ job.arr[x].held}}
       IN  SetMem([m EXCEPT !.tis = LoseAll(@, left)])
    /\ JobDone /\ lock' = "none"
    /\ UNCHANGED << player, shown, queue, ui >> /\ KeepFiles

-----------------------------------------------------------------------------
(* The user interface.                                                     *)

Up == run = "up" /\ ui = NoUi /\ commands < MaxCommands /\ commands' = commands + 1
AddJob(j) == Len(queue) < MaxJobs /\ queue' = Append(queue, j)

cmus_add(f) ==
    /\ Up /\ AddJob(AddFiles(<< f >>))
    /\ UNCHANGED << memory, shown, job, lock, ui >> /\ KeepDisk

UpdateJob(is) ==
    /\ is # {}
    /\ AddJob([kind |-> "update", step |-> "stat", tis |-> SetToSeq(is), dead |-> {}])
    /\ tis' = RefAll(tis, is)

(* All of the library, also what the filter hides.                         *)
cmus_update_lib ==
    /\ Up /\ UpdateJob(hash)
    /\ UNCHANGED << table, total, changed, hash, view, player, shown, job, lock, ui >> /\ KeepDisk

(* After :run, for the selected tracks.                                    *)
cmus_update_tis(is) ==
    /\ Up /\ UpdateJob(is)
    /\ UNCHANGED << table, total, changed, hash, view, player, shown, job, lock, ui >> /\ KeepDisk

cmus_update_cache ==
    /\ Up /\ AddJob([kind |-> "refresh", step |-> "start"])
    /\ UNCHANGED << memory, shown, job, lock, ui >> /\ KeepDisk

Plays(t, i) == (IF player = 0 THEN t ELSE track_info_unref(t, player))

(* The same cache_get_ti, in the other thread.                             *)
cmus_play_file(f) ==
    /\ Up /\ lock = "none"
    /\ LET found == lookup_cache_entry(f)
       IN  \/ \E i \in found : /\ player' = i /\ tis' = track_info_ref(Plays(tis, i), i)
                               /\ UNCHANGED << lock, ui >>
           \/ /\ found = {} /\ disk[f] # 0 /\ MayAllocate
              /\ ui' = [step |-> "stat", file |-> f, tags |-> disk[f]] /\ lock' = "ui"
              /\ UNCHANGED << tis, player >>
    /\ UNCHANGED << table, total, changed, hash, view, shown, queue, job >> /\ KeepDisk

PlayStat ==
    /\ run = "up" /\ ui.step = "stat"
    /\ LET m == AddNew(Mem, TrackInfo(ui.file, disk[ui.file], ui.tags, 2))
       IN  SetMem([m EXCEPT !.tis = Plays(@, Fresh)])
    /\ player' = Fresh /\ ui' = NoUi /\ lock' = "none"
    /\ UNCHANGED << shown, queue, job >> /\ KeepFiles

(* worker_remove_jobs waits for the current job; an update job that is     *)
(* still in the queue is freed with its references.                        *)
RemoveJobs ==
    /\ job = Idle /\ queue' = << >>
    /\ LET waiting == {k \in DOMAIN queue : queue[k].kind = "update"}
       IN  tis' = FoldLeft(LoseAll, UnrefAll(UnrefAll(tis, hash), view),
                           [n \in 1 .. Len(queue) |-> IF n \in waiting THEN ToSet(queue[n].tis) ELSE {}])

view_clear ==
    /\ Up /\ RemoveJobs
    /\ hash' = {} /\ view' = {}
    /\ UNCHANGED << table, total, changed, player, shown, job, lock, ui >> /\ KeepDisk

WinRemove(i) ==
    /\ Up /\ SetMem(lib_remove(Mem, i))
    /\ UNCHANGED << player, shown, queue, job, lock, ui >> /\ KeepDisk

lib_set_filter(fs) ==
    /\ Up /\ fs # shown
    /\ LET now == {i \in hash : tis[i].file \in fs}
       IN  view' = now /\ tis' = RefAll(UnrefAll(tis, view), now)
    /\ shown' = fs
    /\ UNCHANGED << table, total, changed, hash, player, queue, job, lock, ui >> /\ KeepDisk

-----------------------------------------------------------------------------
(* The end: cmus_exit, cache_close, and lib.pl; and the start.             *)

Entries == {[file |-> tis[i].file, mtime |-> tis[i].mtime, tags |-> tis[i].tags, raced |-> tis[i].raced] : i \in table}
KeepMemory == UNCHANGED << disk, clock, memory, shown, queue, job, lock, ui, starts, commands >>

cmus_exit ==
    /\ run = "up" /\ ui = NoUi /\ job = Idle
    /\ run' = IF changed THEN "closing" ELSE "saving"
    /\ UNCHANGED << cachefile, tmpfile, libpl >> /\ KeepMemory

CloseInPlace ==
    /\ run = "closing"
    /\ cachefile' = [whole |-> FALSE, full |-> FALSE, entries |-> {}]
    /\ tmpfile' = [whole |-> TRUE, full |-> FALSE, entries |-> Entries]
    /\ run' = "renaming"
    /\ UNCHANGED libpl /\ KeepMemory

(* Errors of write are ignored: a prefix, in the order of the file names.  *)
cache_close ==
    /\ run = "closing"
    /\ \E whole \in BOOLEAN :
          tmpfile' = [whole |-> whole, full |-> ~whole,
                      entries |-> IF whole THEN Entries ELSE {e \in Entries : e.file = Files[1]}]
    /\ run' = "renaming"
    /\ UNCHANGED << cachefile, libpl >> /\ KeepMemory

CacheRename ==
    /\ run = "renaming"
    /\ cachefile' = tmpfile /\ tmpfile' = NoCache /\ run' = "saving"
    /\ UNCHANGED libpl /\ KeepMemory

(* What is in memory is gone.                                              *)
Down ==
    /\ run' = "down"
    /\ tis' = << >> /\ table' = {} /\ total' = 0 /\ changed' = FALSE /\ hash' = {} /\ view' = {} /\ player' = 0
    /\ queue' = << >> /\ job' = Idle /\ lock' = "none" /\ ui' = NoUi /\ shown' = Names
    /\ tmpfile' = NoCache
    /\ UNCHANGED << disk, clock, starts, commands, cachefile >>

(* lib.pl is truncated and written again.                                  *)
cmus_save ==
    \/ run = "saving" /\ libpl' = {} /\ run' = "truncated" /\ KeepMemory /\ UNCHANGED << cachefile, tmpfile >>
    \/ run = "truncated" /\ libpl' = {tis[i].file : i \in hash} /\ Down

(* cache.tmp stays behind, and nobody reads it.                            *)
Crash == run # "down" /\ Down /\ UNCHANGED libpl

(* read_cache takes the entries up to the first that is not valid.         *)
read_cache(file) == [n \in 1 .. Cardinality(file.entries) |->
    LET e == SetToSeq(file.entries)[n]
    IN  [TrackInfo(e.file, e.mtime, e.tags, 1) EXCEPT !.raced = e.raced]]

AddPlaylist(fs) ==
    IF fs = {} THEN << >> ELSE << AddFiles(SetToSeq(fs)) >>

cmus_init ==
    /\ run = "down" /\ starts < MaxStarts
    /\ tis' = read_cache(cachefile)
    /\ table' = DOMAIN tis' /\ total' = Len(tis') /\ changed' = FALSE
    /\ hash' = {} /\ view' = {} /\ player' = 0 /\ lock' = "none" /\ ui' = NoUi
    /\ job' = Idle /\ queue' = AddPlaylist(libpl) /\ shown' = Names
    /\ run' = "up" /\ starts' = starts + 1
    /\ UNCHANGED << disk, clock, commands, cachefile, tmpfile, libpl >>

Init ==
    /\ disk = [f \in Names |-> 1] /\ clock = 0
    /\ tis = << >> /\ table = {} /\ total = 0 /\ changed = FALSE /\ hash = {} /\ view = {} /\ player = 0
    /\ shown = Names /\ queue = << >> /\ job = Idle /\ lock = "none" /\ ui = NoUi
    /\ run = "down" /\ starts = 0 /\ commands = 0
    /\ cachefile = NoCache /\ tmpfile = NoCache /\ libpl = {}

Next ==
    \/ \E f \in Names : Touch(f) \/ Delete(f) \/ cmus_add(f) \/ cmus_play_file(f)
    \/ TakeJob \/ AddGet \/ AddStat \/ flush_ti_buffer
    \/ UpdateStat \/ UpdateLib \/ UpdateCache
    \/ RefreshStart \/ RefreshStat \/ RefreshRead \/ RefreshApply
    \/ cmus_update_lib \/ cmus_update_cache \/ PlayStat \/ view_clear
    \/ \E i \in view : cmus_update_tis({i}) \/ WinRemove(i)
    \/ \E fs \in {Names, {Files[1]}} : lib_set_filter(fs)
    \/ cmus_exit \/ cache_close \/ CacheRename \/ cmus_save \/ Crash \/ cmus_init

Spec == Init /\ [][Next]_vars

-----------------------------------------------------------------------------
(* Properties.                                                             *)

(* Who has a reference on i.                                               *)
Count(b) == IF b THEN 1 ELSE 0
Holders(i) ==
    Count(i \in table) + Count(i \in hash) + Count(i \in view) + Count(player = i) +
    Count(job.kind = "add" /\ i \in ToSet(job.ti_buffer)) +
    Count(job.kind = "update" /\ i \in ToSet(job.tis)) +
    Cardinality({k \in DOMAIN queue : queue[k].kind = "update" /\ i \in ToSet(queue[k].tis)}) +
    (IF job.kind # "refresh" \/ job.step = "start" THEN 0
     ELSE Cardinality({k \in DOMAIN job.arr : job.arr[k].held /\ i \in {job.arr[k].ti, job.arr[k].next}}))

(* Over all jobs, threads and views, a track info has as many references   *)
(* as there are places that keep it: it is freed when the last of them     *)
(* lets go and not before.  Those of an update job removed before it ran,  *)
(* and those update-cache leaves behind, are never given back.             *)
RefsExact ==
    \A i \in DOMAIN tis : tis[i].ref = Holders(i) + tis[i].lost

(* The worker, playing a file and the refresh together keep one entry for  *)
(* a file in the cache, one track in the library, and count the entries.   *)
OneEntryPerFile ==
    /\ total = Cardinality(table)
    /\ \A i, j \in table : tis[i].file = tis[j].file => i = j
    /\ \A i, j \in hash : tis[i].file = tis[j].file => i = j
    /\ view = {i \in hash : tis[i].file \in shown}

(* An entry that looks up to date is: with the mtime of the file it has    *)
(* the tags of that version, in memory and in the cache's file, however    *)
(* changes of the file fall between the reads.  Not when it changed        *)
(* between reading its tags and asking for its mtime in cache_get_ti.      *)
FreshTags ==
    /\ \A i \in table : tis[i].mtime # 0 /\ tis[i].mtime = disk[tis[i].file] =>
          tis[i].tags = tis[i].mtime \/ tis[i].raced
    /\ \A e \in cachefile.entries : e.mtime # 0 /\ e.mtime = disk[e.file] =>
          e.tags = e.mtime \/ e.raced

(* A crash at any moment leaves a cache that can be read to its end: the   *)
(* old one or the new one.  Only a write that failed cuts it short.        *)
CrashSafe == cachefile.whole \/ cachefile.full

(* When an update job is done, the files it found missing are not in the   *)
(* library.                                                                *)
LibraryUpdated == [][job.kind = "update" /\ job' = Idle => run' = "down" \/ hash' \cap job.dead = {}]_vars
=============================================================================
