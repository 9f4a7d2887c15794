# A verification project for cmus (with the D-Bus server)

cmus is a music player for the terminal. This directory holds TLA+ modules
that model its core, TLC configurations that check them on small instances and
TLAPS proofs for every value of the constants. `PROJECT.json` maps each
definition to the lines of the source it stands for, and lists the runs,
mutants, hazards, findings and theorems.

Run one check with `tlc -config pipe.cfg PipeRefines`, one proof with
`tlapm PipeProofs.tla`.

## 1. Inventory

Threads: the *main* thread (user interface, key bindings, remote control
server), the *producer* and the *consumer* of `player.c`, the *worker* of
`worker.c` and, in this fork, the *D-Bus* thread of `dbus-server.c`, which
runs commands by itself. Mutexes: `consumer_mutex`, `producer_mutex`,
`player_info_mutex`, `buffer_mutex`, `worker_mutex`, `editable_mutex`,
`cache_mutex`.

| component | state | operations | what is hard | what makes it correct |
|---|---|---|---|---|
| ring buffer (`buffer.c`) | chunks with low and high mark and `filled`, `buffer_ridx`, `buffer_widx` | get_rpos, get_wpos, fill, consume, reset, init | chunk data is accessed without a lock; boundary of 1024 bytes; end of file in mid-chunk | one owner per chunk; a queue of bytes |
| player threads (`player.c`) | `producer_status`, `consumer_status`, the handle `ip`, `ip->eof`, flags to exit | producer_loop, consumer_loop, __prebuffer, __consumer_handle_eof | rechecks after waiting for a lock; failing writes; underruns | every byte once and in order; end of file handled; no deadlock |
| player commands (`player.c`) | plugin handle, device, formats, `player_info` | player_stop, play, pause, set_file, play_file, seek, set_op, set_buffer_chunks, exit | every call may fail; handles are not cleared; two clients | handles used only while alive; format of the device; references balanced; status shown |
| position and volume (`player.c`) | `consumer_pos`, `scale_pos`, `soft_vol`, `replaygain` | scale_samples, player_seek, setters | partial writes after scaling in place; unsigned wraparound | each byte scaled once; seeks within the track |
| input (`input.c`, the decoders, `http.c`, `read_wrapper.c`) | descriptor, plugin data, overflow buffers, seek table, metadata counter | open (file, stream, remote playlist), read, seek, comments, close | a dozen steps may fail after others acquired something; samples kept between reads; titles between audio bytes | samples in order; all that was opened is closed once; titles never decoded |
| output (`output.c`, `alsa.c`, `waveout.c`, ..., the mixers) | current plugin, device, mixer, `volume_max`, periods, ring of buffers | select, open, write, drop, pause, close, mixer and options | switching while playing; underruns; drivers that go on by themselves | device and mixer are those of the current plugin and agree with `consumer_status` |
| worker (`worker.c`), jobs (`job.c`) | queue, current job, cancel type, one condition variable | add, remove, has_job, cancelling, exit | lost wakeups; cancelled jobs that still flush | jobs run or are removed, once; :clear and :save are consistent |
| playlist, queue (`pl.c`, `play_queue.c`, `editable.c`, `track.c`) | lists, sort and shuffle order, current track | add, remove, clear, sort, move, next, prev, select | the current track or the cursor's row removed | lists, counters and references agree |
| library (`lib.c`, `tree.c`) | hash of all tracks, filter, sorted list, tree, two windows | add, remove, filter, sort, fold, search, next, prev | four structures changed by separate searches; a cursor that decides what the other window shows | both views are the filtered hash; windows follow |
| cache (`cache.c`, `track_info.c`) | hash of tracks, references, file on disk | lookup, refresh, remove, write | files change between stat and read; crash while writing; shared counts | exact references; tags belong to the mtime; file old or new |
| command line (`cmdline.c`, `history.c`, `search_mode.c`, `command_mode.c`, `tabexp*.c`) | line in bytes and characters, cursor, histories, matches | keys of two modes, recall, expansion | wide characters; growth; a remote search shares the history | cursor on a character; recall shows what begins as typed |
| settings (`keys.c`, `help.c`, `filters.c`, `options.c`) | bindings, the settings view, filters, autosave | bind, unbind, fset, factivate, toggle, delete, restart | filters that name each other; saved as commands that run in order | active filters are applied; nothing lost over a restart |
| window (`window.c`) | top and selected row | move, changed, row_vanishes | rows removed under the cursor | selection stays in the list and on the screen |
| D-Bus server (`dbus-server.c`) | main loop, object, thread | start, stop, hook, commands | start and stop race; lock order | no deadlock with the user interface |
| remote control (`server.c`, `main.c`) | clients with line buffers | accept, read, run | partial lines; clients removed while iterating | whole lines are run |
| text (`uchar.c`, `glob.c`, `path.c`, `format_print.c`) | none | parse, match | boundaries | - |
| drawing (`ui_curses.c`) | curses | - | - | - |

How they interact: the producer calls the input plugin and fills the ring; the
consumer empties it into the output plugin and, at the end of a track, asks
the play queue and the views for the next one (`get_next`) with both player
mutexes held. Both report to `player_info`, which the user interface polls.
Commands come from the main thread and the D-Bus thread, take both player
mutexes (`player_lock`), or add jobs for the worker, whose callbacks add
tracks to the views under `editable_mutex`.

## 2. Modules

| module | models | state and actions |
|---|---|---|
| `Buffer` | `buffer.c` | the chunks; each function as an operator (`buffer_get_rpos`, ...) or an action body (`BufferFill`, `BufferConsume`, `BufferReset`, ...). The data of a chunk is the position in the stream of each byte |
| `Pipe` | producer_loop, consumer_loop, __prebuffer and the commands' effect on the buffer | one action per critical section, and per unlocked access in between: the producer has `lock`, `wpos`, `read`, `fill`, `update`; the consumer `lock`, `rpos`, `plock`, `recheck`, `write` |
| `AudioQueue` | what the buffer promises: a FIFO queue of bytes that may be flushed | `Put`, `Get`, `Flush` |
| `PipeRefines` | the refinement mapping from `Pipe` to `AudioQueue` | |
| `Player` | the two state machines, `input.c` and `output.c` as the player calls them, all `player_*` commands, failures included | `player` is one record (statuses, handle, device, formats, shown track, references); each C function is an operator from record to record, so that an action is the whole function; `Env` is the outcome of everything that may fail |
| `Position` | scale_samples, consumer_pos, scale_pos, player_seek | a byte is how often it was scaled; unsigned arithmetic modulo `Modulus` |
| `Worker` | `worker.c`, the control of `job.c`, :add, :clear, :save and quitting | a job is its number; a view is the set of jobs that have put tracks into it |
| `Window` | `window.c` on a list | a window is a record (top, selected row, height); each function an operator from window to window |
| `TrackList` | `track.c`, `mergesort.c` | lists as sequences: sorted and random insertion, sorting, next and previous |
| `Editable` | `editable.c` | list, counters, marks, sort keys and window in one record; each function an operator |
| `Playlist` | `pl.c`, `play_queue.c` and the commands of `command_mode.c` on both | the two editables, the shuffle order, the current track, the references the lists hold; one action per command, since each runs under `editable_mutex` |
| `Library` | `lib.c`, `tree.c` and the commands on views 1 and 2 | the library is one record (hash, filter, sorted editable, tree, two windows, current track); each function an operator from library to library; one action per command or job, under `editable_mutex`. A hit BUG_ON is a state of its own |
| `Cache` | `cache.c`, `track_info.c`, what the jobs of `job.c` do, `lib.pl` and the cache file | track infos with their references; a job is a program counter with one step per critical section, stat or read; files change at any time; a crash at any step, then a restart |
| `Input` | `input.c`, all decoders, `http.c`, `read_wrapper.c` | acquiring and releasing is written as a program, a sequence of `Get`, `Put` and places that may fail (`Outcomes` are its runs); audio is the sequence of sample numbers, in frames, some damaged, and what each decoder keeps of it (a frame, a packet, an overflow, a header already read) is a range of them |
| `Output` | `output.c`, six sound plugins, their mixers, and who calls them | one record; each call is an operator that returns the set of records it may end in |
| `CommandLine` | `cmdline.c`, `history.c`, `tabexp*.c`, both input modes, remote searches | a text is a sequence of characters of one or two bytes; one action per key |
| `Settings` | `keys.c`, `help.c`, `filters.c`, the autosave part of `options.c` | bindings, rows of the settings view, filters and what is applied to the library; one action per command, and `Restart` |
| `Locks` | every mutex and thread | a path is the sequence of lock and unlock operations between two points at which a thread holds nothing; one action per operation |
| `PipeProofs`, `PositionProofs`, `WorkerProofs`, `PlayerProofs`, `LocksProofs`, `CacheProofs`, `OutputProofs` | theorems about the module of that name | |
| `Induction` | lemmas: induction over the naturals, largest intervals, what a fold computes | |
| `MC*` | instances for TLC | |

Where the models leave detail out:

- `Pipe` does not tell tracks apart and treats PS_UNLOADED as stopped; `Player`
  does, and keeps of the buffer only which tracks it holds samples of. Both
  contain the loops with the same locking.
- What `__producer_buffer_fill_update` and `__consumer_position_update` show to
  the user is not kept; the step is there because it runs without the lock.
- `Player` takes an operation as one step while both player mutexes are held,
  except `__prebuffer` (a loop) and the reopening of the device in
  consumer_loop, which happens without `producer_mutex`.
- `Worker` has no wakeups without a signal (POSIX allows them; they would only
  make an early return of worker_remove_jobs easier).
- `Playlist`: options (shuffle, repeat, auto_reshuffle) may have any value at
  any time. Sort keys are a rank per track: what `track_info_cmp` compares is
  left out, that equal tracks keep their order is not. `refs` counts the
  references the two lists hold; one that is returned belongs to the caller.
  `total_time` wraps modulo `TimeModulus` (2^32), and the queue's is not
  reduced when a track is played from it (`play_queue_remove`), as in the code.
  A BUG_ON ends the program: `Crashed` only stutters. Entries of the library
  and the browser come in through `JobAdds`, one track at a time.
- `Library`: names are ranks in the two orders (`fuzzy_artist_sort` or not),
  the order of the hash is a constant, a search matches any set of files. The
  shuffle list is that of `Playlist`; here shuffled play goes to any track.
- `Cache`: the tags of a track info are the time of the version they were read
  from; `raced` marks an entry whose file changed inside cache_get_ti, `lost`
  counts references nobody will give back (an update job removed from the
  queue, the end of the array of cache_refresh), as in the code. `full` marks a
  cache file that a failing write has cut short. Reference counts change in one
  step, although the code has no lock for them. Each change of a file gets an
  mtime of its own; the code compares `st_mtime` in whole seconds (`cache.c:414`,
  `job.c:238`), so that a second change within one second goes unseen.
- `Pipe`: every error of `ip_read` but EAGAIN sets `eof`. A `select()` that fails
  for another reason than a signal would not (`input.c:540`, against the comment
  at `player.c:840`); with an open descriptor it has no such reason.
- `Position`: bytes, not frames, are scaled, and the format is 16-bit stereo:
  for others `scale_samples` moves `scale_pos` and scales nothing
  (`player.c:216`).
- `Input`: which plugin is tried is any of those installed. `twice` are
  resources released again after they were given back, `failed` what has gone
  wrong: the properties name the plugins whose error paths release twice.
  A local MPEG file is one of six kinds (`xing_parse`): without a Xing header,
  with one and a table of contents each of whose entries is at most `TocError`
  samples off, or with one that lacks the table or the number of bytes; and
  damaged frames may or may not have a header that parses. `skim` says that the
  header of the frame at `at` was read by the loop of `nomad_time_seek` and the
  frame is still to be decoded, `cold` that the frames before it were not, so
  that up to `Reservoir` frames fail for lack of their data. `stale` marks
  samples that ffmpeg.c or mp4.c kept over a seek. That libmad, after
  `mad_header_decode`, decodes that same frame, and that `av_seek_frame` goes to
  the start of a packet less than a packet from the second asked for, is taken
  from these libraries. An error in the loop of `nomad_time_seek` occurs
  before its first or after its last frame. ffmpeg.c's behaviour when the
  library reports an error in a packet is not modelled (`ffmpeg.c:266` then moves
  back in the packet, and the size of the output buffer is not set again): a
  damaged frame of a packet is skipped. Nor is a time base with a numerator other
  than 1. flac.c takes the end of the compressed bytes for the end of the file
  (`flac.c:478`) although libFLAC may still hold frames: the model lets it end
  one frame early, and no property says that a file is played to its end.
- `Output`: sizes of a few bytes stand for periods and buffers. `whole` and
  `resized` mark an underrun in alsa.c and a changed `buffer_count` in
  waveout.c, after which the code gives no guarantee. ALSA reports its period
  size; when it does not (`alsa_period_size` is -1) the code pads nothing.
- `CommandLine`: what a command does is not part of it. `Settings`: expressions
  are the list of filters they name; keys and contexts are names.
- `Locks`: a thread may take any path of its code at any time, so a path that
  the data would exclude at that moment is allowed too; the paths of the
  finding are possible ones. The first mutex of a path is taken in the step
  that chooses the path, since who holds nothing is in nobody's way. Waiting
  for threads to end and for a condition is left to `Player` and `Worker`.

## 3. Runs

| run | instance | what it shows |
|---|---|---|
| `pipe` | 2 or 3 chunks of 3 bytes, `MIN_FREE` 2, 6 bytes of input, seeks that work or fail | no chunk is touched by two threads; bytes are played in order, once; end of file only when drained; reads get room; the ring refines a queue of bytes; an end of file is handled |
| `player` | 2 clients, 4 tracks (two formats that convert to the same one, a third, a stream) | no BUG_ON, no dead handle or closed device used; device format and buffer belong to the loaded track; references and status (`InfoAgrees`); commands and exit finish |
| `position` | wraparound at 16, tracks of 1 and 6 seconds of 2 bytes, chunks up to 3 | bytes scaled exactly once; positions ordered |
| `worker` | 1 client, 2 types, 3 jobs | jobs accounted for; :clear, :save and exit see whole jobs; nobody waits for ever |
| `playlist` | two entries of one track and one of another, of unknown length; heights 1 and 2; times modulo 3 | the cursor is on a visible row; counters, shuffle order, current track, references and sort order agree with the lists; moves keep the order |
| `library` | four files, two artists, three albums, two filters, heights 1 and 2 | no BUG_ON; both views are the filtered hash; tree in order; cursors and current track survive |
| `cache` | two files, 2 changes, 4 commands, 3 track infos, 2 starts | references exact; one entry per file; tags belong to the mtime; the cache file survives a crash |
| `plugins` | eleven decoders on 21 samples in frames of 3, one damaged, seeks to 7 places, three kinds of MPEG file; a stream with metadata every 3 bytes; six sound plugins in three lists | samples in order, after a seek from the place sought; the seek table does not drift; everything released once; titles kept out; device, mixer and status agree; periods padded; ring consistent |
| `ui` | lines of 3 characters typed with 9 keys, one of two bytes; 4 changes of settings; all five threads | counts and cursor of the line; histories and expansions; settings view; filters; restart; a circular wait always includes win-activate |
| `locks` | four threads, no D-Bus | **violation**: win-activate in the browser deadlocks with the worker or the consumer |
| `playlist_move` | as `playlist` | **violation**: moving the marked tracks when all are marked hits a BUG_ON of window_set_sel |
| `cache_update` | as `cache`, one change, one start | **violation**: win-update leaves a dead file that the filter hides in the library |

Other disagreements of code and comments can be seen by changing a constant or
a property of a run: `PrebufferLimit = 4` with `NrChunks = {3}` in `pipe.cfg`
violates `ReadsHaveRoom` (`__prebuffer` calls ip_read with no room);
`Durations = {10}` and `MaxChunk = 4` in `position.cfg` violate `NotBehind`
(a track of 4 GiB of samples hits the BUG_ON of scale_samples);
`StatusPublished` of `Player` is violated (a read error while the device is
reopened shows a playing player as stopped); `RemoveAlwaysWaits` of `Worker` is
violated (a job added by the running one ends the wait of worker_remove_jobs);
`Clients = {"main", "dbus"}` in `worker.cfg` violates `NobodyWaits` (two
worker_remove_jobs, one signal).

Bounds. Three chunks are the smallest ring in which the read chunk, the write
chunk and one more differ (the code's minimum is 3); two make reader and writer
neighbours on both sides, which the code does not allow, and which is harder.
Chunks of 3 bytes with `MIN_FREE` 2 have a hand-over with space left, a
hand-over when full and one at end of file. 6 bytes go once around the smaller
ring. Three jobs make one running, one queued and one added meanwhile. The tracks of
`position` are one shorter than the five seconds player_seek keeps from the end
and one longer. Three rows in windows of one and two make a window that shows
all, one that scrolls and a selection at either edge; the two entries of one
track compare equal in every order. In `library` an artist has an album with
two tracks and one with one, so that the last track of an album, of an artist
and of the library can each go; one name begins with "the ". In `cache` two
changes let a file change twice during one job; three infos are an old and a
new one of a file and one of another. In `plugins` a buffer of 4 is larger than
a frame and no multiple of it, 8 spans two; the damaged frame lies between two
good ones; 21 samples hold three intervals of 7, so that an entry can be made
after a seek from another entry, itself made after a seek; the places sought lie
at and within frames, packets (of 6), seconds (of 4) and the damaged frame; a
closed ring of waveout.c has 3 or 4 buffers. In `ui` nine keys
suffice to enter a mode, type, expand twice, recall and accept, and four
commands to define two filters, activate one and change the other.

`plugins` and `ui` put modules together that share no variable: each behaviour
exercises one of them while the others are in their initial state.

Fairness, in words of the code. Every loop sleeps (`ms_sleep`) after it
unlocks, so a mutex is free again and again: strong fairness of the steps that
take one. A thread that holds a lock goes on: weak fairness. The sound card
drains and ip_read returns; `__prebuffer` ends, which for a stream that stalls
is an assumption and not a fact (hazard at `player.c:480`). Nobody is assumed to
give a command. In `Worker` a job's callback returns. The other modules state
no liveness.

Deadlock is checked except in `ui` and the two cache runs, whose bounds on keys,
settings and starts end a behaviour (and, in `ui`, `Locks` has real deadlocks, which
`LockOrder` describes); `Terminated` is the stutter of a program that has quit.

## 4. Proofs

`PipeProofs` proves `Spec => []PipeInv` for every number of chunks from 2 on,
every `CHUNK_SIZE`, `MIN_FREE`, prebuffering limit and stream. `PipeInv` is
inductive; the properties alone are not:

- `LockInv`: who holds which mutex at which step;
- `StatusInv`: the loops are in states that fit the statuses, and the heap is
  live except within player_set_buffer_chunks;
- `RingInv`, `ChunkInv`: the filled chunks are those from `buffer_ridx` up to
  `buffer_widx`, only the write chunk is partly filled;
- `StreamInv`: the bytes in the chunks are numbered consecutively from
  `played` to `produced`, around the ring;
- `ReadInv`, `EofInv`: what the producer has read but not published, and that
  nothing is left behind at end of file.

From it follow `ChunksExclusive`, `PlaysInOrder`, `EofMeansDrained` and, if the
prebuffering limit is at most the number of chunks, `ReadsGetRoom`. The proof
has a lemma for each buffer operation (it keeps `RingOK`) and one for each
action of `Pipe`.

`PipeImplementsQueue` is the refinement: `Spec => ImplementsQueue`, for every
number and size of chunks. The mapping of `PipeRefines` flattens the chunks from
`buffer_ridx` on into one sequence. The proof shows, by induction along the ring
(`RingWalk`), that with `PipeInv` this sequence is the consecutive numbers from
`played` to `produced` (`ContentsValue`), and that there is room for them in
`CHUNK_SIZE` times the largest ring (`CapacityBound`; `RefinesAssumption` says
that there is a largest one). A step then changes the two counters in one of
four ways (`StepsOfTheCounters`): a fill is a `Put` (`ReadIsPut`), a write to
the device a `Get` (`PlayIsGet`), a reset or reallocation a `Flush`
(`DropIsFlush`), and everything else a stutter.

`PositionProofs` proves `PositionInv` on tracks that an unsigned int can count
(`Countable`), and from it `ScalePosNotBehind`, `NothingAtFullVolume`,
`NothingScaledTwice` and `SeeksInRange`. The strengthening says that while
scaling is on `scale_pos` points into the data at the read position, with all
bytes before it scaled and, unless scaling was switched off meanwhile, none
after it. A track longer than the modulus shows that `Countable` is needed.

`WorkerProofs`, for any clients, types and number of jobs. `WorkerInv` adds to
the accounting of jobs who may wait on the condition variable, that only the
running job has a buffer of tracks, and that only cmus_exit stops and joins the
worker; without the last one `ExitDrains` is not inductive. It gives
`WorkerKeepsJobs` and `ExitDrainsQueue` for any number of clients. The other
three theorems (`OneClientKeepsJobs`, `OneClientClears`, `OneClientSavesWhole`)
assume `OneClient`, a single thread that gives commands: worker_remove_jobs
does not test again after pthread_cond_wait and there is one condition variable
for all, so that with the D-Bus thread as a second client another signal ends
the wait. With `Clients = {"main", "dbus"}` TLC finds each of the three
properties violated. `OneClientInv` relates what the client is removing to the
jobs that are left (`condemned`, `gone`).

`PlayerProofs`, for any clients and tracks and for every outcome of every call
that may fail. `PlayerIInv` says who holds which mutex at which step
(`LockInv`, `ThreadTypes`), what the record `player` satisfies whenever a
function of player.c starts or ends (`PlayerOK`: the statuses pair up, handle,
device, formats, buffer, shown track and references agree with them) and that
the statuses a thread found when it took its locks still hold where it relies
on them, in `__prebuffer` and while the device is reopened (`Entered`). Each C function has a lemma: from a record with `PlayerOK` it
gives one, with the status it promises. From it follow `PlayerStateMachine`,
`PlayerHitsNoBug`, `DevicePlaysTrackFormat` and `PlayerInfoAgrees`.

`LocksProofs` proves `LockOrder` for any set of the five threads. The mutexes
get ranks; a thread is always on a path of which every step, as long as
editable_mutex is not held, locks a mutex of higher rank than all it holds,
which is shown along the construction of the paths. In a set of threads that
wait for each other whoever has the mutex of the highest rank would have to wait
for a higher one.

`CacheProofs`, for any files, changes, jobs, crashes and restarts. `CacheInv`
is made of `DiskOK`, `MemOK`, `JobOK`, `UiOK` and `FilesOK`: every track info
ever made, and every entry of the cache file and of the one being written, has
an mtime that is not from the future and, with its file's mtime, the tags of
that version unless it `raced`. Without the first part a later change of the
file could make an old entry look up to date. Who is between two stats or reads
holds `cache_mutex`, and the entries a refresh has not seen yet are in the table
and in its array, once. It gives `CacheEntriesFresh`, `CacheFileWhole` and
`RefreshWithinArray`.

On top of it `RefInv` is the invariant behind `RefsExact` and `OneEntryPerFile`
(`ReferencesExact`, `EntriesUnique`). The two need each other: an info that is
freed while somebody has it loses its file name, and lib_remove empties the hash
by file name. `Exact` says both of the memory of cache.c and lib.c, with what
everybody else holds as a parameter, so that each of their operations has a
lemma that is told who gains or loses a reference (`UnrefExact`, `RefExact`,
`AddTrackExact`, `RemoveEntryExact` and so on), and the loops over them
(`FlushExact`, `ReplaceAllExact`) follow by induction along the fold. `Keeps`
carries the file name over a step: who still has a reference sees the same file.
The rest of `RefInv` is about the jobs:

- `QueueOnce`, `Once`: no job names an info twice, or the count of holders would
  be too low;
- `AddOnce`, `UiOnce`: between reading a file and adding it to the cache, in
  either thread, nobody else adds it;
- `RefreshOnce`: a slot of the array of cache_refresh is not held before it is
  reached, no two slots share an old or a new entry, and the slots that the
  shrinking `total` leaves behind have no new entry, so that only the reference
  on the old one is lost;
- `FilesOnce`: the cache file has an entry of a file once.

`OutputProofs`, for any plugins, lists of them, sizes and buffer counts.
`OutputInv` is `Good(out)`: `period_fill` of alsa.c follows what was written
(`PadOK`), the ring of waveout.c is free, done and queued buffers in that order
(`RingOK`), only the current plugin's mixer is open (`MixOK`), the device
follows the status (`StatusOK`). The ring needs its own invariant: done buffers
must precede queued ones for the loop of `clean_buffers` to find exactly them.
It gives `OutputFollowsPlayer`, `DrainsWholePeriods` and
`RingStaysConsistent`. That the loops of `clean_buffers` and `waveout_write`
stop where the model says is an argument about a largest interval
(`Induction.MaxInterval`).

`Induction` holds what these proofs need of induction. The library's rules take
an operator as a parameter, which the provers here cannot instantiate; stated
for a set of naturals (`SetInduction`) the rule is a fact about sets and can be
used, and with it what a `FoldLeft` of a fixed operator computes (`FoldExists`,
`FoldAgree`).

The assumptions are those the modules state (`BufferAssumption` and the like):
finite, non-empty sets, sizes that are positive, a maximal buffer count that is
one of the counts. TLC evaluates them in the runs.

Only model-checked:

- liveness (`EofHandled`, `CommandsFinish`, `NobodyWaits`), which is out of the
  prover's reach;
- `Playlist`, `Library` and the modules below them, `Input`: for now;
- `CommandLine` and `Settings`, which have RECURSIVE operators (growing a
  buffer, what a filter reaches).

## 5. What is not modelled, and the plan

Plan for the proofs, in order:

1. Lemmas about `Window`, from them `SelectionShown` of `Playlist`; that sorted
   insertion and removal keep the lists, the counters and the shuffle order in
   step (`ListsAgree`).
2. `SeekTableRight` and `AudioOnly` of `Input`. The first needs as invariant
   that timer and place differ by at most one slip more than those of the entry
   the last seek started from.

What the two properties of the decoders say, and why no more. `InStreamOrder`
names the places where a plugin aims at something else than the sample sought:
wav.c at a multiple of four bytes, mp4.c and nomad.c at a frame, ffmpeg.c at a
packet near the whole second. ffmpeg.c and mp4.c then play the rest of the old
packet or frame first; the property allows that to these two and nothing else.
`SeekTableRight` is not an equality: the loop of `nomad_time_seek` counts the
frame whose header it read last, and `decode` counts it again, so that an entry
made after a seek is a frame late; frames that cannot be decoded after a seek make
it early. Each entry inherits the error of the one before, and adds one: that
bound is what holds, and it is met (with one slip less for the upper bound, or
none for the lower, the run finds a violation).

Not modelled:

- the remote control server but for its searches (line buffers, authentication)
  and the start and stop of the D-Bus thread: sequential reading of a socket,
  and calls of GLib;
- parsers: expressions, URLs, HTTP headers, ID3 and APE tags, playlists, UTF-8,
  globs, paths, format strings. They are functions on strings without state;
- the browser's directories and the values of options that no other component
  reads;
- drawing, the decoding libraries and the sound drivers (third-party code),
  volumes read from and written to mixers, debug output, the manual page
  generator.
