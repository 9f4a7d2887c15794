------------------------------- MODULE Output -------------------------------
(***************************************************************************)
(* The output plugins: output.c, the devices and mixers behind it, and the *)
(* calls that player.c, options.c and ui_curses.c make of them.  Each      *)
(* caller holds the player's locks or is the user interface, so a command  *)
(* is one step; only the device itself goes on by itself.                  *)
(***************************************************************************)
EXTENDS Integers, Sequences, SequencesExt, FiniteSets, FiniteSetsExt

CONSTANTS
    OutLists,     \* lists of installed plugins, by priority
    Frame,        \* frame size in bytes
    Period,       \* alsa_period_size
    Silence,      \* sizeof(buf) in op_alsa_close
    BufferSize,   \* waveout's buffer_size
    BufferCounts, \* values of waveout's buffer_count
    Sizes         \* sizes given to op_write

OutPlugins == {"alsa", "oss", "sun", "ao", "arts", "waveout"}
WithMixer == {"alsa", "oss", "sun"}

ASSUME OutputAssumption ==
    /\ \A l \in OutLists : l \in Seq(OutPlugins) /\ IsInjective(l)
    /\ {Frame, Period, Silence, BufferSize} \subseteq Nat \ {0} /\ Period % Frame = 0
    /\ BufferCounts \subseteq Nat \ {0} /\ Max(BufferCounts) \in BufferCounts /\ Sizes \subseteq Nat

VARIABLE out

Align(n) == (n \div Frame) * Frame

-----------------------------------------------------------------------------
(* alsa.c.  hw: the state of the PCM; since: bytes written since it was    *)
(* prepared, modulo the period; whole: every write went as asked.          *)

Prepared(o) == [o EXCEPT !.hw = "prepared", !.since = 0, !.whole = TRUE]

op_alsa_open(o) == {Prepared([o EXCEPT !.dev = "alsa", !.can_pause = c]) : c \in BOOLEAN} \cup {o}

Written(o, n) ==
    [o EXCEPT !.hw = IF n > 0 THEN "running" ELSE @, !.since = (@ + n) % Period,
              !.period_fill = (@ + n) % Period, !.rc = n]
Broken(o) == [o EXCEPT !.rc = -1, !.whole = FALSE]

(* An underrun is recovered from once: the PCM is prepared again, and      *)
(* period_fill goes on from where it was.                                  *)
op_alsa_write(o, count) ==
    LET len == Align(count)
        tried == IF o.hw = "xrun" THEN [Prepared(o) EXCEPT !.whole = FALSE] ELSE o
    IN  {Broken(o)} \cup {Written(tried, n * Frame) : n \in 0 .. len \div Frame}

DropKeepsFill(o) == Prepared(o)
op_alsa_drop(o) == Prepared([o EXCEPT !.period_fill = 0])

Pad(o) ==
    IF o.period_fill = 0 THEN {o}
    ELSE LET n == Min({Period - o.period_fill, Silence})
         IN  {[w EXCEPT !.period_fill = 0, !.whole = @ /\ w.rc = n] : w \in op_alsa_write(o, n)}

op_alsa_close(o) == {[p EXCEPT !.dev = "none", !.hw = "drained"] : p \in Pad(o)}

op_alsa_pause(o) ==
    IF o.can_pause /\ o.hw = "running" THEN [o EXCEPT !.hw = "paused"] ELSE o
op_alsa_unpause(o) ==
    IF o.can_pause /\ o.hw = "paused" THEN [o EXCEPT !.hw = "running"] ELSE o

-----------------------------------------------------------------------------
(* waveout.c.  A ring of buffers; flags: 0 free, "queued" at the driver,   *)
(* "done" when the driver has played it.  driver: the buffers it has.      *)

Ring(o) == Len(o.flags)
At(o, i) == ((o.buffer_idx + i) % Ring(o)) + 1

waveout_init(o, n) == [o EXCEPT !.flags = [i \in 1 .. n |-> "free"]]

(* How many buffers, from buffer_idx on, have flag f before one has not;   *)
(* and the first k of them set to f.                                       *)
Leading(o, f) ==
    LET others == {i \in 0 .. Ring(o) - 1 : o.flags[At(o, i)] # f}
    IN  IF others = {} THEN Ring(o) ELSE Min(others)
Mark(o, k, f) ==
    [o EXCEPT !.flags = [j \in 1 .. Ring(o) |-> IF \E i \in 0 .. k - 1 : j = At(o, i) THEN f ELSE o.flags[j]]]

clean_buffers(o) ==
    LET k == Leading(o, "done")
    IN  [Mark(o, k, "free") EXCEPT !.buffers_free = @ + k]

WaveoutOpenKeepsCount(o) ==
    {[waveout_init([o EXCEPT !.dev = "waveout"], Ring(o))
        EXCEPT !.buffer_idx = 0, !.driver = << >>, !.resized = FALSE], o}

waveout_open(o) ==
    {[waveout_init([o EXCEPT !.dev = "waveout"], Ring(o))
        EXCEPT !.buffer_idx = 0, !.buffers_free = Ring(o), !.driver = << >>, !.resized = FALSE], o}

(* waveOutReset returns every buffer as done.                              *)
waveout_close(o) ==
    {clean_buffers([o EXCEPT !.dev = "none", !.driver = << >>, !.resized = FALSE,
                             !.flags = [i \in DOMAIN @ |-> IF @[i] = "queued" THEN "done" ELSE @[i]]])}

(* One buffer after the other while there are bytes and free buffers; the  *)
(* driver may refuse one.                                                  *)
waveout_write(o, count) ==
    LET start == clean_buffers(o)
        size == Align(BufferSize)
        Filled(n) ==
            [Mark(start, n, "queued") EXCEPT
               !.driver = @ \o [i \in 1 .. n |-> At(start, i - 1)],
               !.buffer_idx = (@ + n) % Ring(start), !.buffers_free = @ - n,
               !.rc = Min({n * size, Align(count)})]
    IN  {Filled(n) : n \in {k \in 0 .. Leading(start, "free") : k = 0 \/ (k - 1) * size < Align(count)}}

(* The buffers are freed and allocated again, also while the driver has    *)
(* them; buffer_idx and buffers_free stay.  What writing does then is not  *)
(* defined and not modelled: the device has to be opened again.            *)
waveout_set_option(o, n) ==
    [waveout_init(o, n) EXCEPT !.resized = o.dev = "waveout", !.driver = << >>]

(* The driver finishes its oldest buffer.                                  *)
WaveoutPlays ==
    /\ out.dev = "waveout" /\ out.status = "playing" /\ out.driver # << >>
    /\ out' = [out EXCEPT !.flags[Head(out.driver)] = "done", !.driver = Tail(@)]

(* The PCM has played everything it got.                                   *)
AlsaUnderruns ==
    /\ out.dev = "alsa" /\ out.hw = "running"
    /\ out' = [out EXCEPT !.hw = "xrun"]

-----------------------------------------------------------------------------
(* oss.c, sun.c, ao.c, arts.c: a descriptor or a handle.                   *)

oss_open(o) == {[o EXCEPT !.dev = "oss"], o}
sun_open(o) == {[o EXCEPT !.dev = "sun"], o}
op_ao_open(o) == {[o EXCEPT !.dev = "ao"], o}
op_arts_open(o) == {[o EXCEPT !.dev = "arts"]}
HandleClose(o) == {[o EXCEPT !.dev = "none"]}

oss_write(o, count) == {[o EXCEPT !.rc = n] : n \in {-1} \cup 0 .. Align(count)}
sun_write(o, count) == {[o EXCEPT !.rc = n] : n \in {-1, Align(count)}}
op_ao_write(o, count) == {[o EXCEPT !.rc = n] : n \in {-1, count}}
op_arts_write(o, count) == {[o EXCEPT !.rc = n] : n \in {-1} \cup 0 .. count}

-----------------------------------------------------------------------------
(* output.c                                                                *)

op_open(o) ==
    CASE o.op = "none" -> {o}
      [] o.op = "alsa" -> op_alsa_open(o)
      [] o.op = "waveout" -> waveout_open(o)
      [] o.op = "oss" -> oss_open(o)
      [] o.op = "sun" -> sun_open(o)
      [] o.op = "ao" -> op_ao_open(o)
      [] o.op = "arts" -> op_arts_open(o)

(* Closing what is not open is a bug.                                      *)
op_close(o) ==
    IF o.dev # o.op THEN {[o EXCEPT !.bug = TRUE]}
    ELSE IF o.op = "alsa" THEN op_alsa_close(o)
    ELSE IF o.op = "waveout" THEN waveout_close(o)
    ELSE HandleClose(o)

op_write(o, count) ==
    CASE o.op = "alsa" -> op_alsa_write(o, count)
      [] o.op = "waveout" -> waveout_write(o, count)
      [] o.op = "oss" -> oss_write(o, count)
      [] o.op = "sun" -> sun_write(o, count)
      [] o.op = "ao" -> op_ao_write(o, count)
      [] o.op = "arts" -> op_arts_write(o, count)

op_drop(o) == IF o.op = "alsa" THEN op_alsa_drop(o) ELSE o
op_pause(o) == IF o.op = "alsa" THEN op_alsa_pause(o) ELSE o
op_unpause(o) == IF o.op = "alsa" THEN op_alsa_unpause(o) ELSE o

(* What is not initialised is tried again, if there is such a part.        *)
Tried(ok, exists) == IF ok THEN {TRUE} ELSE IF exists THEN BOOLEAN ELSE {FALSE}
init_plugin(o, p) ==
    UNION {{[o EXCEPT !.pcm[p] = i, !.mixer[p] = m] : m \in Tried(o.mixer[p], p \in WithMixer)} :
              i \in Tried(o.pcm[p], TRUE)}

select_plugin(o, p) ==
    {IF i.pcm[p] THEN [i EXCEPT !.op = p, !.rc = 0] ELSE [i EXCEPT !.rc = -1] : i \in init_plugin(o, p)}

(* A plugin is tried unless one has been selected.                         *)
Try(ss, p) == UNION {IF s.rc = 0 THEN {s} ELSE select_plugin(s, p) : s \in ss}
Unselected(o) == {[o EXCEPT !.rc = -1]}

op_select(o, name) == IF name \in ToSet(o.list) THEN Try(Unselected(o), name) ELSE Unselected(o)

(* The first, in the list's order, that initialises.                       *)
op_select_any(o) == FoldLeft(Try, Unselected(o), o.list)

mixer_close(o) ==
    IF o.op # "none" /\ o.mixer_open[o.op] THEN [o EXCEPT !.volume_max = 0, !.mixer_open[o.op] = FALSE]
    ELSE [o EXCEPT !.volume_max = 0]

MixerMax == [alsa |-> 1, oss |-> 2, sun |-> 3]      \* told apart, not their values
mixer_open(o) ==
    IF o.op = "none" THEN {o}
    ELSE IF o.mixer_open[o.op] THEN {[o EXCEPT !.bug = TRUE]}
    ELSE IF o.mixer[o.op]
    THEN {[o EXCEPT !.mixer_open[o.op] = TRUE, !.volume_max = MixerMax[o.op]],
          [o EXCEPT !.volume_max = 0]}
    ELSE {o}

Unless(soft, o) == IF soft THEN {o} ELSE mixer_open(o)

set_mixer_option(p) ==
    /\ p \in ToSet(out.list) \cap WithMixer
    /\ out' \in IF out.op = p THEN Unless(out.soft_vol, mixer_close(out)) ELSE {out}

set_dsp_option(n) ==
    /\ "waveout" \in ToSet(out.list)
    /\ out' = waveout_set_option(out, n)

-----------------------------------------------------------------------------
(* The callers in player.c.                                                *)

Play(o) == IF o.dev = "none" THEN o ELSE [o EXCEPT !.status = "playing"]

__consumer_play ==
    out' \in CASE out.status = "playing" -> {op_drop(out)}
               [] out.status = "stopped" -> {Play(o) : o \in op_open(out)}
               [] out.status = "paused"  -> {[op_unpause(out) EXCEPT !.status = "playing"]}

Stopped(os) == {[o EXCEPT !.status = "stopped"] : o \in os}

__consumer_drain_and_stop == out.status # "stopped" /\ out' \in Stopped(op_close(out))
__consumer_stop == out.status # "stopped" /\ out' \in Stopped(op_close(op_drop(out)))

__consumer_pause ==
    /\ out.status # "stopped"
    /\ out' = IF out.status = "playing" THEN [op_pause(out) EXCEPT !.status = "paused"]
              ELSE [op_unpause(out) EXCEPT !.status = "playing"]

Reopened(o) == {Play(p) : p \in UNION {op_open(c) : c \in Stopped(op_close(o))}}

change_sf(changed, drop) ==
    /\ out.status # "stopped"
    /\ out' \in IF changed THEN Reopened(IF drop THEN op_drop(out) ELSE out)
                ELSE IF out.status = "paused"
                THEN {[op_unpause(op_drop(out)) EXCEPT !.status = "playing"]}
                ELSE {[out EXCEPT !.status = "playing"]}

player_seek == out.status # "stopped" /\ out' = op_drop(out)

(* The consumer: a failed write closes and opens the device again.         *)
consumer_write(count) ==
    /\ out.status = "playing" /\ ~out.resized
    /\ \E w \in op_write(out, count) :
          IF w.rc < 0 THEN out' \in Reopened([w EXCEPT !.rc = 0]) ELSE out' = [w EXCEPT !.rc = 0]

(* The device is closed before the plugin changes; when there is no such   *)
(* plugin, playing stops.                                                  *)
player_set_op(o, name) ==
    LET open == o.status # "stopped"
        shut == IF open THEN op_close(IF o.status = "paused" THEN op_drop(o) ELSE o) ELSE {o}
        Chosen(s) == IF name = "any" THEN op_select_any(s) ELSE op_select(s, name)
        Again(s) ==
            IF s.rc < 0 \/ ~open THEN Stopped({s})
            ELSE {IF p.dev = "none" THEN [p EXCEPT !.status = "stopped"]
                  ELSE IF o.status = "paused" THEN op_pause(p) ELSE p : p \in op_open(s)}
    IN  {[p EXCEPT !.rc = 0] : p \in UNION {Again(s) : s \in UNION {Chosen(s) : s \in shut}}}

-----------------------------------------------------------------------------
(* options.c, ui_curses.c                                                  *)

(* The start: options are loaded before there is a plugin.                 *)
init_all(name) ==
    /\ ~out.started
    /\ out' \in UNION {Unless(o.soft_vol, [o EXCEPT !.started = TRUE]) : o \in player_set_op(out, name)}

set_output_plugin(name) ==
    /\ out.started
    /\ LET closed == IF out.soft_vol THEN out ELSE mixer_close(out)
       IN  out' \in UNION {Unless(o.soft_vol, o) : o \in player_set_op(closed, name)}

SoftvolKeepsMixer(soft) == out' \in Unless(soft, [out EXCEPT !.soft_vol = soft])

do_set_softvol(soft) ==
    LET closed == IF out.soft_vol THEN out ELSE mixer_close(out)
    IN  out' \in Unless(soft, [closed EXCEPT !.soft_vol = soft])

NoOutput(l) ==
    [list |-> l, op |-> "none", pcm |-> [p \in OutPlugins |-> FALSE],
     mixer |-> [p \in OutPlugins |-> FALSE], mixer_open |-> [p \in OutPlugins |-> FALSE],
     soft_vol |-> FALSE, volume_max |-> 0, started |-> FALSE, status |-> "stopped", dev |-> "none",
     rc |-> 0, hw |-> "drained", can_pause |-> FALSE, period_fill |-> 0, since |-> 0, whole |-> TRUE,
     flags |-> [i \in 1 .. Max(BufferCounts) |-> "free"], buffer_idx |-> 0, buffers_free |-> 0,
     driver |-> << >>, resized |-> FALSE, bug |-> FALSE]

OutInit == \E l \in OutLists : out = NoOutput(l)

(* op_exit_plugins, at the end.                                            *)
op_exit_plugins ==
    /\ out.started /\ out.status = "stopped"
    /\ out' = NoOutput(out.list)

OutNext ==
    \/ \E name \in ToSet(out.list) \cup {"any", "missing"} : init_all(name) \/ set_output_plugin(name)
    \/ \E soft \in BOOLEAN : do_set_softvol(soft)
    \/ \E p \in WithMixer : set_mixer_option(p)
    \/ \E n \in BufferCounts : set_dsp_option(n)
    \/ /\ out.started
       /\ \/ __consumer_play \/ __consumer_stop \/ __consumer_drain_and_stop \/ __consumer_pause
          \/ player_seek
          \/ \E changed, drop \in BOOLEAN : change_sf(changed, drop)
          \/ \E count \in Sizes : consumer_write(count)
    \/ WaveoutPlays \/ AlsaUnderruns
    \/ op_exit_plugins

OutSpec == OutInit /\ [][OutNext]_out

-----------------------------------------------------------------------------
(* Properties.                                                             *)

(* Whatever fails while the output plugin, soft_vol, a mixer option or the *)
(* format changes: the device that is open is that of the current plugin,  *)
(* open exactly when the consumer is not stopped; only its mixer may be    *)
(* open, and only without soft_vol; volume_max is that mixer's; and no     *)
(* BUG_ON of output.c fires.  However seeking, changing the format and     *)
(* underruns fall between, alsa.c never leaves the PCM paused while the    *)
(* consumer plays, nor running while it is paused.                         *)
OutputAgrees ==
    /\ ~out.bug
    /\ out.dev = IF out.status = "stopped" THEN "none" ELSE out.op
    /\ \A p \in OutPlugins :
          out.mixer_open[p] => p = out.op /\ ~out.soft_vol /\ out.volume_max = MixerMax[p]
    /\ out.volume_max # 0 => out.mixer_open[out.op]
    /\ out.dev = "alsa" =>
          /\ out.status = "playing" => out.hw # "paused"
          /\ out.status = "paused" /\ out.can_pause => out.hw # "running"

(* When alsa.c drains the PCM the last period is whole, unless a write     *)
(* failed or an underrun was recovered from since it was prepared.         *)
PeriodsPadded ==
    out.hw = "drained" /\ out.whole /\ Period <= Silence => out.since = 0

(* waveout.c: buffers_free counts the free buffers, which follow           *)
(* buffer_idx; the others come after them in the order in which they were  *)
(* written: those that are done and then those the driver has.  Not when   *)
(* the ring was allocated again while it was in use.                       *)
RingConsistent ==
    out.dev = "waveout" /\ ~out.resized =>
        LET n == Ring(out)
            busy == n - out.buffers_free
            Used(i) == At(out, out.buffers_free + i - 1)
        IN  /\ \A i \in 0 .. n - 1 : out.flags[At(out, i)] = "free" <=> i < out.buffers_free
            /\ \E d \in 0 .. busy :
                  /\ \A i \in 1 .. busy : out.flags[Used(i)] = "done" <=> i <= d
                  /\ out.driver = [i \in 1 .. busy - d |-> Used(d + i)]
=============================================================================
