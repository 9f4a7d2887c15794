------------------------------- MODULE Player -------------------------------
(***************************************************************************)
(* The control of player.c: the producer and consumer state machines, the  *)
(* input plugin handle (input.c) and the output device (output.c) they     *)
(* drive, player_info as the user interface sees it, and the threads that  *)
(* compete for consumer_mutex and producer_mutex: producer_loop,           *)
(* consumer_loop and the clients (the main thread and the D-Bus thread)    *)
(* that run the player_* commands.                                         *)
(*                                                                         *)
(* player is the state of player.c that the two mutexes protect.  Each     *)
(* function of player.c that changes it is an operator from states to      *)
(* states with the function's name; what the outside decides (the next     *)
(* track, whether a file, a seek or the device works) is an argument.      *)
(* Module Pipe has the ring buffer in detail; here it is the set of tracks *)
(* it holds bytes of.                                                      *)
(***************************************************************************)
EXTENDS Integers

CONSTANTS
    Clients,       \* threads that run player commands
    Main,          \* the one that runs player_exit
    Tracks,
    NoTrack,       \* NULL
    Remote,        \* tracks that are streams (is_url)
    SampleFormat,  \* the format the input plugin reports, per track
    NoFormat       \* buffer_sf before the first track

ASSUME PlayerAssumption ==
    /\ Main \in Clients
    /\ NoTrack \notin Tracks
    /\ Remote \subseteq Tracks

ASSUME FormatAssumption ==
    /\ \A t \in Tracks : SampleFormat[t] \in
         [rate : Nat, channels : Nat, bits : Nat, signed : BOOLEAN, bigendian : BOOLEAN]
    /\ NoFormat \notin [rate : Nat, channels : Nat, bits : Nat,
                        signed : BOOLEAN, bigendian : BOOLEAN]

ASSUME ThreadAssumption == {"none", "producer", "consumer"} \cap Clients = {}

VARIABLES
    player,           \* what the two mutexes protect
    consumer_mutex,   \* the thread that holds it, or NoThread
    producer_mutex,
    running,          \* consumer_running, producer_running
    cpc,              \* consumer_loop
    ppc,              \* producer_loop
    pc                \* the clients

threadVars == << cpc, ppc, pc >>
lockVars == << consumer_mutex, producer_mutex >>
vars == << player, lockVars, running, threadVars >>

NoThread == "none"

Formats == [rate : Nat, channels : Nat, bits : Nat,
            signed : BOOLEAN, bigendian : BOOLEAN]

PlayerStates ==
    [ps : {"UNLOADED", "STOPPED", "PLAYING", "PAUSED"},   \* producer_status
     cs : {"STOPPED", "PLAYING", "PAUSED"},               \* consumer_status
     ip : {"null", "closed", "open", "freed"},            \* the handle ip
     file : Tracks \cup {NoTrack},                        \* ip->data.filename
     eof : BOOLEAN,                                       \* ip->eof
     op : {"closed", "open", "paused"},                   \* the audio device
     op_sf : Formats \cup {NoFormat},                     \* format it plays
     buffer_sf : Formats \cup {NoFormat},
     buffer : SUBSET Tracks,                              \* tracks buffered
     ti : Tracks \cup {NoTrack},                          \* player_info.ti
     status : {"STOPPED", "PLAYING", "PAUSED"},           \* player_info.status
     held : [Tracks -> Int],                              \* references on tracks
     bug : BOOLEAN]                                       \* a BUG_ON or a use of
                                                          \* a dead handle
-----------------------------------------------------------------------------
(* input.c and output.c as player.c uses them.  A call that the handle's   *)
(* state forbids (a BUG_ON of input.c, a freed or leaked handle, a closed  *)
(* device) raises bug.                                                     *)

Require(s, ok) == [s EXCEPT !.bug = @ \/ ~ok]

ip_new(s, t) ==
    [Require(s, s.ip \in {"null", "freed"})
       EXCEPT !.ip = "closed", !.file = t, !.eof = FALSE]

ip_delete(s) == [Require(s, s.ip \in {"closed", "open"}) EXCEPT !.ip = "freed"]

ip_open(s, ok) ==
    [Require(s, s.ip = "closed")
       EXCEPT !.ip = IF ok THEN "open" ELSE "closed", !.eof = FALSE]

ip_close(s) ==
    [Require(s, s.ip = "open") EXCEPT !.ip = "closed", !.eof = FALSE]

(* ip_seek fails on streams.                                               *)
SeekOk(s, ok) == ok /\ s.file \notin Remote

ip_seek(s, ok) ==
    [Require(s, s.ip = "open") EXCEPT !.eof = IF SeekOk(s, ok) THEN FALSE ELSE @]

(* set_buffer_sf(ip_get_sf(ip)): "ip_read converts samples to this format" *)
BufferFormat(sf) ==
    IF sf.channels <= 2 /\ sf.bits <= 16
    THEN [rate |-> sf.rate, channels |-> 2, bits |-> 16,
          signed |-> TRUE, bigendian |-> FALSE]
    ELSE sf

set_buffer_sf(s) ==
    [Require(s, s.ip = "open") EXCEPT !.buffer_sf = BufferFormat(SampleFormat[s.file])]

op_open(s, ok) ==
    [Require(s, s.op = "closed")
       EXCEPT !.op = IF ok THEN "open" ELSE "closed",
              !.op_sf = IF ok THEN s.buffer_sf ELSE @]

op_close(s)   == [Require(s, s.op # "closed") EXCEPT !.op = "closed"]
op_drop(s)    == Require(s, s.op # "closed")
op_pause(s)   == [Require(s, s.op = "open") EXCEPT !.op = "paused"]
op_unpause(s) == [Require(s, s.op = "paused") EXCEPT !.op = "open"]

-----------------------------------------------------------------------------
(* player_info                                                             *)

track_info_ref(s, t) == [s EXCEPT !.held = [s.held EXCEPT ![t] = @ + 1]]
track_info_unref(s, t) == [s EXCEPT !.held = [s.held EXCEPT ![t] = @ - 1]]

(* A file_changed that forgets the previous track's reference.             *)
FileChangedLeaks(s, t) == [s EXCEPT !.ti = t]

(* file_changed takes over the caller's reference on t.                    *)
file_changed(s, t) ==
    LET a == IF s.ti # NoTrack THEN track_info_unref(s, s.ti) ELSE s
    IN  [a EXCEPT !.ti = t]

player_error(s) == [s EXCEPT !.status = s.cs]

(* Dividing consumer_pos by the size of a second needs a format.           *)
player_status_changed(s) ==
    [Require(s, s.cs = "STOPPED" \/ s.buffer_sf # NoFormat) EXCEPT !.status = s.cs]

-----------------------------------------------------------------------------
(* setting producer status                                                 *)

reset_buffer(s) == [s EXCEPT !.buffer = {}]

(* env.next is the track get_next returns (NoTrack: none), with a          *)
(* reference; env.open whether ip_open works, env.seek whether ip_seek     *)
(* does, env.device whether op_open does.                                  *)
Env == [next : Tracks \cup {NoTrack}, open : BOOLEAN, seek : BOOLEAN, device : BOOLEAN]

producer_play(s, env) ==
    IF s.ps = "UNLOADED" THEN
        IF env.next = NoTrack THEN s
        ELSE LET a == ip_open(ip_new(track_info_ref(s, env.next), env.next), env.open)
             IN  IF env.open
                 THEN file_changed([a EXCEPT !.ps = "PLAYING"], env.next)
                 ELSE file_changed(
                        track_info_unref(ip_delete(player_error(a)), env.next), NoTrack)
    ELSE IF s.ps = "PLAYING" THEN
        LET a == ip_seek(s, env.seek)
        IN  IF SeekOk(s, env.seek) THEN reset_buffer(a) ELSE a
    ELSE IF s.ps = "STOPPED" THEN
        LET a == ip_open(s, env.open)
        IN  IF env.open
            THEN [a EXCEPT !.ps = "PLAYING"]
            ELSE [ip_delete(player_error(a)) EXCEPT !.ps = "UNLOADED"]
    ELSE [s EXCEPT !.ps = "PLAYING"]

producer_stop(s) ==
    IF s.ps \in {"PLAYING", "PAUSED"}
    THEN reset_buffer([ip_close(s) EXCEPT !.ps = "STOPPED"])
    ELSE s

(* A __producer_unload that leaves the status alone.                       *)
ProducerUnloadKeepsStatus(s) ==
    LET a == producer_stop(s)
    IN  IF a.ps = "STOPPED" THEN ip_delete(a) ELSE a

producer_unload(s) ==
    LET a == producer_stop(s)
    IN  IF a.ps = "STOPPED" THEN [ip_delete(a) EXCEPT !.ps = "UNLOADED"] ELSE a

producer_pause(s) ==
    [s EXCEPT !.ps = IF s.ps = "PLAYING" THEN "PAUSED"
                     ELSE IF s.ps = "PAUSED" THEN "PLAYING" ELSE @]

(* The caller passes its reference on t along.                             *)
producer_set_file(s, t) ==
    file_changed([ip_new(producer_unload(track_info_ref(s, t)), t)
                    EXCEPT !.ps = "STOPPED"], t)

-----------------------------------------------------------------------------
(* setting consumer status                                                 *)

consumer_play(s, device) ==
    IF s.cs = "PLAYING" THEN op_drop(s)
    ELSE IF s.cs = "STOPPED" THEN
        LET a == op_open(set_buffer_sf(s), device)
        IN  IF device THEN [a EXCEPT !.cs = "PLAYING"] ELSE player_error(a)
    ELSE [op_unpause(s) EXCEPT !.cs = "PLAYING"]

consumer_drain_and_stop(s) ==
    IF s.cs = "STOPPED" THEN s ELSE [op_close(s) EXCEPT !.cs = "STOPPED"]

consumer_stop(s) ==
    IF s.cs = "STOPPED" THEN s ELSE [op_close(op_drop(s)) EXCEPT !.cs = "STOPPED"]

consumer_pause(s) ==
    IF s.cs = "PLAYING" THEN [op_pause(s) EXCEPT !.cs = "PAUSED"]
    ELSE IF s.cs = "PAUSED" THEN [op_unpause(s) EXCEPT !.cs = "PLAYING"]
    ELSE s

(* A change_sf that never opens the device again.                          *)
ChangeSfKeepsDevice(s, device) ==
    LET a == set_buffer_sf(s)
    IN  IF s.cs = "PAUSED" THEN [op_unpause(op_drop(a)) EXCEPT !.cs = "PLAYING"]
        ELSE [a EXCEPT !.cs = "PLAYING"]

(* The device is opened again only if the format changed.                  *)
change_sf(s, device) ==
    LET a == set_buffer_sf(s)
    IN  IF a.buffer_sf # s.buffer_sf THEN
            LET b == op_open(op_close(a), device)
            IN  IF device THEN [b EXCEPT !.cs = "PLAYING"]
                ELSE producer_stop([player_error(b) EXCEPT !.cs = "STOPPED"])
        ELSE IF s.cs = "PAUSED" THEN [op_unpause(op_drop(a)) EXCEPT !.cs = "PLAYING"]
        ELSE [a EXCEPT !.cs = "PLAYING"]

(* __consumer_handle_eof up to __prebuffer, which follows if the result is *)
(* playing a new track.                                                    *)
consumer_handle_eof(s, env, cont, repeat) ==
    IF s.file \in Remote THEN
        player_error(consumer_drain_and_stop(producer_stop(s)))
    ELSE IF repeat THEN
        IF cont THEN reset_buffer(ip_seek(s, env.seek))
        ELSE player_status_changed(consumer_drain_and_stop(producer_stop(s)))
    ELSE IF env.next = NoTrack THEN
        player_status_changed(
          file_changed(consumer_drain_and_stop(producer_unload(s)), NoTrack))
    ELSE
        LET a == [ip_new(producer_unload(track_info_ref(s, env.next)), env.next)
                    EXCEPT !.ps = "STOPPED"]
            b == producer_play(a, env)
        IN  player_status_changed(
              IF ~cont THEN file_changed(consumer_drain_and_stop(a), env.next)
              ELSE IF b.ps = "UNLOADED"
                   THEN file_changed(track_info_unref(consumer_stop(b), env.next), NoTrack)
                   ELSE change_sf(file_changed(b, env.next), env.device))

-----------------------------------------------------------------------------
(* The bodies of the player_* commands.                                    *)

(* Start from CS_STOPPED: player_pause, player_seek.                       *)
StartPlaying(s, env) ==
    LET a == producer_play(s, env)
        b == consumer_play(a, env.device)
    IN  IF a.ps # "PLAYING" THEN a
        ELSE IF b.cs = "PLAYING" THEN b ELSE producer_stop(b)

player_stop(s) == player_status_changed(producer_stop(consumer_stop(s)))

player_play(s, env) ==
    LET a == producer_play(s, env)
    IN  IF s.ps = "PLAYING" /\ s.file \in Remote THEN s
        ELSE player_status_changed(
               IF a.ps = "PLAYING" THEN StartPlaying(s, env) ELSE consumer_stop(a))

player_pause(s, env) ==
    LET a == Require(s, s.ip # "freed")    \* ip && ip_is_remote(ip)
    IN  IF s.cs = "STOPPED" THEN player_status_changed(StartPlaying(s, env))
        ELSE IF s.ip # "null" /\ s.file \in Remote THEN a
        ELSE player_status_changed(consumer_pause(producer_pause(a)))

(* player_set_file and player_play_file test for PS_UNLOADED right after    *)
(* __producer_set_file, which always leaves PS_STOPPED: that branch is dead. *)
player_set_file(s, t, env) ==
    LET a == producer_set_file(s, t)
        b == producer_play(a, env)
    IN  player_status_changed(
          IF a.cs = "STOPPED" THEN a
          ELSE IF b.ps = "UNLOADED" THEN consumer_stop(b)
          ELSE change_sf(b, env.device))

player_play_file(s, t, env) ==
    LET b == producer_play(producer_set_file(s, t), env)
        c == consumer_play(b, env.device)
    IN  player_status_changed(
          IF b.ps = "UNLOADED" THEN consumer_stop(b)
          ELSE IF b.cs = "STOPPED"
               THEN IF c.cs = "STOPPED" THEN producer_stop(c) ELSE c
          ELSE change_sf(b, env.device))

(* legal: the duration is known and the new position is acceptable; ok:    *)
(* ip_seek to it works.                                                    *)
player_seek(s, env, legal, ok) ==
    LET b == StartPlaying(s, env)
        a == IF s.cs # "STOPPED" THEN s
             ELSE IF b.cs = "PLAYING" THEN player_status_changed(b) ELSE b
    IN  IF a.cs = "STOPPED" \/ a.file \in Remote \/ ~legal THEN a
        ELSE IF ok THEN reset_buffer(op_drop(ip_seek(a, ok))) ELSE ip_seek(a, ok)

(* selected: op_select or op_select_any works.                             *)
player_set_op(s, env, selected) ==
    LET a == IF s.cs = "STOPPED" THEN s
             ELSE op_close(IF s.cs = "PAUSED" THEN op_drop(s) ELSE s)
        b == op_open(set_buffer_sf(a), env.device)
    IN  IF ~selected THEN player_error(producer_stop([a EXCEPT !.cs = "STOPPED"]))
        ELSE IF s.cs = "STOPPED" THEN a
        ELSE IF ~env.device THEN player_error(producer_stop([b EXCEPT !.cs = "STOPPED"]))
        ELSE IF s.cs = "PAUSED" THEN op_pause(b) ELSE b

player_set_buffer_chunks(s) ==
    player_status_changed(reset_buffer(consumer_stop(producer_stop(s))))

-----------------------------------------------------------------------------
(* The threads                                                             *)

Init ==
    /\ player = [ps |-> "UNLOADED", cs |-> "STOPPED", ip |-> "null", file |-> NoTrack,
                 eof |-> FALSE, op |-> "closed", op_sf |-> NoFormat,
                 buffer_sf |-> NoFormat, buffer |-> {}, ti |-> NoTrack,
                 status |-> "STOPPED", held |-> [t \in Tracks |-> 0], bug |-> FALSE]
    /\ consumer_mutex = NoThread /\ producer_mutex = NoThread
    /\ running = TRUE
    /\ cpc = "lock" /\ ppc = "lock"
    /\ pc = [c \in Clients |-> "idle"]

(* producer_loop: producer_lock; go on if playing and not at end of file.  *)
ProducerLock ==
    /\ ppc = "lock" /\ producer_mutex = NoThread
    /\ running /\ player.ps = "PLAYING" /\ ~player.eof
    /\ producer_mutex' = "producer"
    /\ ppc' = "read"
    /\ UNCHANGED << player, consumer_mutex, running, cpc, pc >>

(* The round is over: buffer full, both chunks read, EAGAIN.               *)
ProducerUnlock ==
    /\ ppc = "read"
    /\ producer_mutex' = NoThread
    /\ ppc' = "lock"
    /\ UNCHANGED << player, consumer_mutex, running, cpc, pc >>

(* What ip_read and buffer_fill do to the state.                           *)
ReadData(s) == [Require(s, s.ip = "open") EXCEPT !.buffer = @ \cup {s.file}]
ReadEof(s, failed) ==
    LET a == [Require(s, s.ip = "open") EXCEPT !.eof = TRUE]
    IN  IF failed THEN player_error(a) ELSE a

ProducerRead ==
    /\ ppc = "read"
    /\ player' = ReadData(player)
    /\ UNCHANGED << lockVars, running, threadVars >>

(* End of file or a read error, which player_error reports with the        *)
(* consumer's status: the producer does not hold consumer_mutex.           *)
ProducerReadEof ==
    /\ ppc = "read"
    /\ \E failed \in BOOLEAN : player' = ReadEof(player, failed)
    /\ producer_mutex' = NoThread
    /\ ppc' = "lock"
    /\ UNCHANGED << consumer_mutex, running, cpc, pc >>

(* !producer_running: unload and return.                                   *)
ProducerExit ==
    /\ ppc = "lock" /\ producer_mutex = NoThread /\ ~running
    /\ player' = producer_unload(player)
    /\ ppc' = "exited"
    /\ UNCHANGED << lockVars, running, cpc, pc >>

Producer ==
    ProducerLock \/ ProducerUnlock \/ ProducerRead \/ ProducerReadEof \/ ProducerExit

-----------------------------------------------------------------------------
(* consumer_loop: consumer_lock; go on if playing.                         *)
ConsumerLock ==
    /\ cpc = "lock" /\ consumer_mutex = NoThread
    /\ running /\ player.cs = "PLAYING"
    /\ consumer_mutex' = "consumer"
    /\ cpc' = "loop"
    /\ UNCHANGED << player, producer_mutex, running, ppc, pc >>

(* op_buffer_space: busy or less than 4096 bytes.                          *)
ConsumerNoSpace ==
    /\ cpc = "loop"
    /\ player' = Require(player, player.op = "open")
    /\ consumer_mutex' = NoThread
    /\ cpc' = "lock"
    /\ UNCHANGED << producer_mutex, running, ppc, pc >>

(* buffer_get_rpos.  Before the end of the file the bytes in the buffer    *)
(* may all be in the chunk that is still the producer's.                   *)
ConsumerGetRpos ==
    /\ cpc = "loop"
    /\ \/ player.buffer # {} /\ cpc' = "write"
       \/ (player.buffer = {} \/ ~player.eof) /\ cpc' = "plock"
    /\ UNCHANGED << player, lockVars, running, ppc, pc >>

ConsumerLockProducer ==
    /\ cpc = "plock" /\ producer_mutex = NoThread
    /\ producer_mutex' = "consumer"
    /\ cpc' = "recheck"
    /\ UNCHANGED << player, consumer_mutex, running, ppc, pc >>

(* "must recheck rpos": data after all.                                    *)
ConsumerRecheckData ==
    /\ cpc = "recheck"
    /\ player.ps = "PLAYING" /\ player.buffer # {}
    /\ producer_mutex' = NoThread
    /\ cpc' = "write"
    /\ UNCHANGED << player, consumer_mutex, running, ppc, pc >>

(* An underrun that leaves producer_mutex locked.                          *)
ConsumerUnderrunKeepsLock ==
    /\ cpc = "recheck"
    /\ player.ps # "PLAYING" \/ ~player.eof
    /\ consumer_mutex' = NoThread
    /\ cpc' = "lock"
    /\ UNCHANGED << player, producer_mutex, running, ppc, pc >>

(* No longer playing, or a possible underrun.                              *)
ConsumerUnderrun ==
    /\ cpc = "recheck"
    /\ player.ps # "PLAYING" \/ ~player.eof
    /\ producer_mutex' = NoThread /\ consumer_mutex' = NoThread
    /\ cpc' = "lock"
    /\ UNCHANGED << player, running, ppc, pc >>

(* The end of the track.  player_cont and player_repeat_current are read   *)
(* without a lock: another thread may have set them to anything.           *)
ConsumerHandleEof ==
    /\ cpc = "recheck"
    /\ player.ps = "PLAYING" /\ player.buffer = {} /\ player.eof
    /\ \E env \in Env, cont \in BOOLEAN, repeat \in BOOLEAN :
         /\ player' = consumer_handle_eof(player, env, cont, repeat)
         /\ IF ~repeat /\ player'.ps = "PLAYING"
            THEN cpc' = "prebuffer" /\ UNCHANGED lockVars
            ELSE /\ cpc' = "lock"
                 /\ consumer_mutex' = NoThread /\ producer_mutex' = NoThread
    /\ UNCHANGED << running, ppc, pc >>

(* op_write takes some bytes; buffer_consume may empty the buffer.         *)
ConsumerWrite ==
    /\ cpc = "write"
    /\ \E rest \in {player.buffer, {}} :
         player' = [Require(player, player.op = "open") EXCEPT !.buffer = rest]
    /\ cpc' = "loop"
    /\ UNCHANGED << lockVars, running, ppc, pc >>

(* op_write failed, "try to reopen": the producer may run in between.      *)
ConsumerWriteFails ==
    /\ cpc = "write"
    /\ player' = [op_close(player) EXCEPT !.cs = "STOPPED"]
    /\ cpc' = "reopen"
    /\ UNCHANGED << lockVars, running, ppc, pc >>

ConsumerReopen ==
    /\ cpc = "reopen"
    /\ \E device \in BOOLEAN : player' = consumer_play(player, device)
    /\ consumer_mutex' = NoThread
    /\ cpc' = "lock"
    /\ UNCHANGED << producer_mutex, running, ppc, pc >>

(* !consumer_running: stop the device and return.                          *)
ConsumerExit ==
    /\ cpc = "lock" /\ consumer_mutex = NoThread /\ ~running
    /\ player' = consumer_stop(player)
    /\ cpc' = "exited"
    /\ UNCHANGED << lockVars, running, ppc, pc >>

Consumer ==
    \/ ConsumerLock \/ ConsumerNoSpace \/ ConsumerGetRpos \/ ConsumerLockProducer
    \/ ConsumerRecheckData \/ ConsumerUnderrun \/ ConsumerHandleEof
    \/ ConsumerWrite \/ ConsumerWriteFails \/ ConsumerReopen \/ ConsumerExit

-----------------------------------------------------------------------------
(* A client: player_lock, the body of a command, player_unlock.            *)

(* player_lock, first half.  exit_all stops the D-Bus thread before it     *)
(* calls player_exit, so nobody starts a command after that.               *)
ClientLockConsumer(c) ==
    /\ pc[c] = "idle" /\ consumer_mutex = NoThread /\ running
    /\ consumer_mutex' = c
    /\ pc' = [pc EXCEPT ![c] = "plock"]
    /\ UNCHANGED << player, producer_mutex, running, cpc, ppc >>

ClientLockProducer(c) ==
    /\ pc[c] = "plock" /\ producer_mutex = NoThread
    /\ producer_mutex' = c
    /\ pc' = [pc EXCEPT ![c] = "body"]
    /\ UNCHANGED << player, consumer_mutex, running, cpc, ppc >>

(* A command ends in state s, after __prebuffer if prebuffer.              *)
Finish(c, s, prebuffer) ==
    /\ pc[c] = "body"
    /\ player' = s
    /\ IF prebuffer
       THEN pc' = [pc EXCEPT ![c] = "prebuffer"] /\ UNCHANGED lockVars
       ELSE /\ pc' = [pc EXCEPT ![c] = "idle"]
            /\ consumer_mutex' = NoThread /\ producer_mutex' = NoThread
    /\ UNCHANGED << running, cpc, ppc >>

PlayerStop(c) == Finish(c, player_stop(player), FALSE)

PlayerPlay(c) ==
    \E env \in Env :
      LET s == player_play(player, env)
      IN  Finish(c, s, s.cs = "PLAYING" /\ player.cs = "STOPPED")

PlayerPause(c) ==
    \E env \in Env :
      LET s == player_pause(player, env)
      IN  Finish(c, s, s.cs = "PLAYING" /\ player.cs = "STOPPED")

PlayerSetFile(c) ==
    \E env \in Env, t \in Tracks :
      LET s == player_set_file(player, t, env)
      IN  Finish(c, s, s.ps = "PLAYING")

PlayerPlayFile(c) ==
    \E env \in Env, t \in Tracks :
      LET s == player_play_file(player, t, env)
      IN  Finish(c, s, s.ps = "PLAYING")

PlayerSeek(c) ==
    \E env \in Env, legal \in BOOLEAN, ok \in BOOLEAN :
      Finish(c, player_seek(player, env, legal, ok), FALSE)

PlayerSetOp(c) ==
    \E env \in Env, selected \in BOOLEAN :
      Finish(c, player_set_op(player, env, selected), FALSE)

PlayerSetBufferChunks(c) == Finish(c, player_set_buffer_chunks(player), FALSE)

(* player_exit: the other clients are gone; the loops are told to stop and *)
(* are then waited for.                                                    *)
PlayerExit(c) ==
    /\ c = Main /\ pc[c] = "body"
    /\ \A d \in Clients \ {c} : pc[d] = "idle"
    /\ running' = FALSE
    /\ consumer_mutex' = NoThread /\ producer_mutex' = NoThread
    /\ pc' = [pc EXCEPT ![c] = "join"]
    /\ UNCHANGED << player, cpc, ppc >>

PlayerExitJoin(c) ==
    /\ pc[c] = "join" /\ cpc = "exited" /\ ppc = "exited"
    /\ pc' = [pc EXCEPT ![c] = "exited"]
    /\ UNCHANGED << player, lockVars, running, cpc, ppc >>

Client(c) ==
    \/ ClientLockConsumer(c) \/ ClientLockProducer(c)
    \/ PlayerStop(c) \/ PlayerPlay(c) \/ PlayerPause(c) \/ PlayerSetFile(c)
    \/ PlayerPlayFile(c) \/ PlayerSeek(c) \/ PlayerSetOp(c)
    \/ PlayerSetBufferChunks(c) \/ PlayerExit(c) \/ PlayerExitJoin(c)

-----------------------------------------------------------------------------
(* __prebuffer, in a client or in the consumer, with both locks held.      *)

Prebuffering == cpc = "prebuffer" \/ \E c \in Clients : pc[c] = "prebuffer"

PrebufferDone ==
    /\ consumer_mutex' = NoThread /\ producer_mutex' = NoThread
    /\ cpc' = IF cpc = "prebuffer" THEN "lock" ELSE cpc
    /\ pc' = [c \in Clients |-> IF pc[c] = "prebuffer" THEN "idle" ELSE pc[c]]

PrebufferRead ==
    /\ Prebuffering
    /\ player' = ReadData(player)
    /\ UNCHANGED << lockVars, running, threadVars >>

PrebufferEof ==
    /\ Prebuffering
    /\ \E failed \in BOOLEAN : player' = ReadEof(player, failed)
    /\ PrebufferDone
    /\ UNCHANGED << running, ppc >>

PrebufferEnough ==
    /\ Prebuffering
    /\ PrebufferDone
    /\ UNCHANGED << player, running, ppc >>

Prebuffer == PrebufferRead \/ PrebufferEof \/ PrebufferEnough

(* Everything has been shut down.                                          *)
Terminated ==
    /\ pc[Main] = "exited"
    /\ UNCHANGED vars

Next == Producer \/ Consumer \/ (\E c \in Clients : Client(c)) \/ Prebuffer \/ Terminated

Spec == Init /\ [][Next]_vars

(* Both loops sleep after every round, so a mutex is free again and again  *)
(* and whoever waits for it gets it; a thread that holds a lock goes on.   *)
(* __prebuffer ends: the input delivers or ends.                           *)
Fairness ==
    /\ SF_vars(ProducerLock) /\ SF_vars(ProducerExit)
    /\ WF_vars(ProducerUnlock \/ ProducerReadEof)
    /\ SF_vars(ConsumerLock) /\ SF_vars(ConsumerExit)
    /\ SF_vars(ConsumerNoSpace) /\ SF_vars(ConsumerLockProducer)
    /\ WF_vars(cpc \in {"recheck", "write", "reopen"} /\ Consumer)
    /\ WF_vars(PrebufferEof \/ PrebufferEnough)
    /\ \A c \in Clients :
         /\ SF_vars(ClientLockProducer(c))
         /\ WF_vars(pc[c] = "body" /\ Client(c))
         /\ WF_vars(PlayerExitJoin(c))

FairSpec == Spec /\ Fairness

-----------------------------------------------------------------------------
(* Properties                                                              *)

TypeOK ==
    /\ player \in PlayerStates
    /\ consumer_mutex \in Clients \cup {NoThread, "consumer"}
    /\ producer_mutex \in Clients \cup {NoThread, "consumer", "producer"}
    /\ running \in BOOLEAN
    /\ cpc \in {"lock", "loop", "plock", "recheck", "write", "reopen", "prebuffer", "exited"}
    /\ ppc \in {"lock", "read", "exited"}
    /\ pc \in [Clients -> {"idle", "plock", "body", "prebuffer", "join", "exited"}]

(* The mutexes are held where the code says, and only there; the loops     *)
(* leave only after player_exit, which finds both at their lock.           *)
LockInv ==
    /\ consumer_mutex = "consumer" <=> cpc \notin {"lock", "exited"}
    /\ producer_mutex = "consumer" <=> cpc \in {"recheck", "prebuffer"}
    /\ producer_mutex = "producer" <=> ppc = "read"
    /\ \A c \in Clients :
         /\ consumer_mutex = c <=> pc[c] \in {"plock", "body", "prebuffer"}
         /\ producer_mutex = c <=> pc[c] \in {"body", "prebuffer"}
    /\ running => cpc # "exited" /\ ppc # "exited" /\ pc[Main] \notin {"join", "exited"}
    /\ ~running => /\ cpc \in {"lock", "exited"} /\ ppc \in {"lock", "exited"}
                   /\ \A c \in Clients : pc[c] \in {"idle", "join", "exited"}

(* None of the BUG_ONs of input.c and player.c on the plugin's state is    *)
(* hit, no plugin handle is leaked, used after ip_delete or deleted twice, *)
(* and the audio device is used only between op_open and op_close, whoever *)
(* issues which command when and whatever fails: ip and op are not cleared *)
(* by their destructors, only the two status variables tell.               *)
NoBug == ~player.bug

(* player.c comments such as "PS_STOPPED, CS_PLAYING" and "PS_UNLOADED,    *)
(* PS_PLAYING": outside of a command the two state machines agree; only    *)
(* when the device was lost the producer plays on alone.  The loops and    *)
(* __prebuffer ("BUG_ON(producer_status != PS_PLAYING)") run in the states *)
(* they were entered in.                                                   *)
StatusPairs ==
    /\ running =>
         /\ player.cs # "STOPPED" => player.ps = player.cs
         /\ player.ps = "PAUSED" => player.cs = "PAUSED"
    /\ cpc \in {"loop", "plock", "recheck", "write", "prebuffer"} => player.cs = "PLAYING"
    /\ cpc = "reopen" => player.cs = "STOPPED" /\ player.ps = "PLAYING"
    /\ ppc = "read" \/ Prebuffering => player.ps = "PLAYING"

(* The statuses say what state ip and the device are in: what every        *)
(* command relies on when it decides which calls to make.                  *)
HandleInv ==
    /\ player.ps = "UNLOADED" <=> player.ip \in {"null", "freed"}
    /\ player.ps = "STOPPED" <=> player.ip = "closed"
    /\ player.cs = "STOPPED" <=> player.op = "closed"
    /\ player.cs = "PLAYING" <=> player.op = "open"
    /\ player.ps # "UNLOADED" => player.file \in Tracks

(* The samples in the buffer are those of the track that is loaded, and    *)
(* whenever the device is open it plays that track's format: after a       *)
(* change of track, of output plugin or of device, nothing is played at    *)
(* the wrong rate or from the previous track.                              *)
PlaysTrackFormat ==
    /\ player.buffer \subseteq {player.file}
    /\ player.ps \in {"UNLOADED", "STOPPED"} => player.buffer = {}
    /\ running /\ player.cs # "STOPPED" =>
         /\ player.op_sf = BufferFormat(SampleFormat[player.file])
         /\ player.buffer_sf = player.op_sf

(* player.h "current track": what the user interface shows is the track    *)
(* that is loaded.                                                         *)
ShowsLoadedTrack == player.ps # "UNLOADED" => player.ti = player.file

(* track_info references: the player holds one on the track it shows and   *)
(* none on any other, on every path including failed opens.                *)
RefsBalanced ==
    \A t \in Tracks : player.held[t] = IF player.ti = t THEN 1 ELSE 0

(* "something big happened (stopped/paused/unpaused...)": once the         *)
(* consumer's lock is free, player_info.status is the consumer's status.   *)
StatusPublished ==
    running /\ consumer_mutex = NoThread => player.status = player.cs

(* The status shown may lag behind in one way only: a player that is       *)
(* playing is shown as stopped.  It is never shown as playing or paused    *)
(* when it is not.                                                         *)
StatusLags ==
    running /\ consumer_mutex = NoThread /\ player.status # player.cs =>
      player.status = "STOPPED" /\ player.cs = "PLAYING"

(* What player_info shows, on every path: the track that is loaded, with   *)
(* one reference held on it, and a status that lags in that one way only.  *)
InfoAgrees == ShowsLoadedTrack /\ RefsBalanced /\ StatusLags

(* A command that has consumer_mutex gets producer_mutex and ends.         *)
(* player_exit returns: both loops see the flags and leave, with the       *)
(* device closed and the file unloaded.                                    *)
CommandsFinish ==
    /\ \A c \in Clients : (pc[c] = "plock") ~> (pc[c] \in {"idle", "join", "exited"})
    /\ ~running ~> (pc[Main] = "exited" /\ player.op = "closed" /\ player.ps = "UNLOADED")

=============================================================================
