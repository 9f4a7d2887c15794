---------------------------- MODULE PlayerProofs ----------------------------
(***************************************************************************)
(* The control of player.c, for any number of clients, any tracks and any  *)
(* sample formats: no BUG_ON is hit and no dead handle or closed device is *)
(* used, the device plays the format of the loaded track, and player_info  *)
(* shows that track.                                                       *)
(*                                                                         *)
(* First what each function of player.c makes of a state, then that every  *)
(* command keeps a state good, then that the threads do.                   *)
(***************************************************************************)
EXTENDS Player, TLAPS

(* The producer's half of a state: its status tells what ip is, and the    *)
(* buffer holds bytes of the loaded track only.                            *)
ProducerOK(s) ==
    /\ s \in PlayerStates /\ ~s.bug
    /\ s.ps = "UNLOADED" <=> s.ip \in {"null", "freed"}
    /\ s.ps = "STOPPED" <=> s.ip = "closed"
    /\ s.ps # "UNLOADED" => s.file \in Tracks
    /\ s.buffer \subseteq {s.file}
    /\ s.ps \in {"UNLOADED", "STOPPED"} => s.buffer = {}

(* The consumer's half: its status tells what the device is.               *)
ConsumerOK(s) ==
    /\ s.cs = "STOPPED" <=> s.op = "closed"
    /\ s.cs = "PLAYING" <=> s.op = "open"

(* An open device plays what the buffer holds ...                          *)
DeviceOK(s) == s.cs # "STOPPED" => s.op_sf = s.buffer_sf

(* ... in the format of the loaded track.                                  *)
FormatOK(s) ==
    s.cs # "STOPPED" => /\ s.op_sf = BufferFormat(SampleFormat[s.file])
                        /\ s.buffer_sf = s.op_sf

(* The two statuses agree; only the producer may play on alone.            *)
Paired(s) ==
    /\ s.cs # "STOPPED" => s.ps = s.cs
    /\ s.ps = "PAUSED" => s.cs = "PAUSED"

(* player_info shows the loaded track and holds one reference, on it.      *)
Balanced(s) == \A t \in Tracks : s.held[t] = IF s.ti = t THEN 1 ELSE 0

Shown(s) == (s.ps # "UNLOADED" => s.ti = s.file) /\ Balanced(s)

(* It may show a playing player as stopped.                                *)
Lags(s) == s.status # s.cs => s.status = "STOPPED" /\ s.cs = "PLAYING"

(* A state between two commands, and one whose status is not published yet. *)
Core(s) == ProducerOK(s) /\ ConsumerOK(s) /\ Paired(s) /\ FormatOK(s) /\ Shown(s)
Good(s) == Core(s) /\ Lags(s)

(* What a function leaves alone.                                           *)
SameConsumer(s, r) ==
    r.cs = s.cs /\ r.op = s.op /\ r.op_sf = s.op_sf /\ r.buffer_sf = s.buffer_sf
SameProducer(s, r) ==
    r.ps = s.ps /\ r.ip = s.ip /\ r.file = s.file /\ r.buffer = s.buffer
SameInfo(s, r) == r.ti = s.ti /\ r.held = s.held

-----------------------------------------------------------------------------
(* The producer's functions                                                *)

(* A call the state allows raises nothing.                                 *)
LEMMA RequireHolds ==
    ASSUME NEW s \in PlayerStates, ~s.bug, NEW ok, ok
    PROVE  Require(s, ok) = s
  BY DEF PlayerStates, Require

LEMMA ProducerStop ==
    ASSUME NEW s, ProducerOK(s)
    PROVE  LET r == producer_stop(s)
           IN  /\ ProducerOK(r) /\ SameConsumer(s, r) /\ SameInfo(s, r)
               /\ r.file = s.file /\ r.status = s.status
               /\ r.ps = IF s.ps = "UNLOADED" THEN "UNLOADED" ELSE "STOPPED"
<1> USE DEF ProducerOK, PlayerStates, SameConsumer, SameInfo
<1>1. CASE s.ps \in {"PLAYING", "PAUSED"}
  <2>1. s.ip = "open"
    BY <1>1
  <2>2. Require(s, s.ip = "open") = s
    BY <2>1, RequireHolds
  <2>3. producer_stop(s) = [s EXCEPT !.ip = "closed", !.eof = FALSE, !.ps = "STOPPED",
                                     !.buffer = {}]
    BY <1>1, <2>2 DEF producer_stop, reset_buffer, ip_close
  <2> QED  BY ZenonT(60), <1>1, <2>1, <2>3
<1>2. CASE ~(s.ps \in {"PLAYING", "PAUSED"})
  <2>1. producer_stop(s) = s
    BY <1>2 DEF producer_stop
  <2> QED  BY <1>2, <2>1
<1> QED  BY <1>1, <1>2

LEMMA HandleGone ==
    ASSUME NEW s \in PlayerStates, ~s.bug, s.buffer = {}
    PROVE  LET r == [s EXCEPT !.ip = "freed", !.ps = "UNLOADED"]
           IN  /\ ProducerOK(r) /\ SameConsumer(s, r) /\ SameInfo(s, r)
               /\ r.file = s.file /\ r.status = s.status /\ r.ps = "UNLOADED"
<1> DEFINE r == [s EXCEPT !.ip = "freed", !.ps = "UNLOADED"]
<1>1. r \in PlayerStates
  BY DEF PlayerStates
<1>2. SameConsumer(s, r) /\ SameInfo(s, r)
  BY DEF PlayerStates, SameConsumer, SameInfo
<1>3. /\ r.ip = "freed" /\ r.ps = "UNLOADED" /\ r.bug = s.bug /\ r.buffer = s.buffer
      /\ r.file = s.file /\ r.status = s.status
  BY DEF PlayerStates
<1> HIDE DEF r
<1>4. ProducerOK(r)
  BY <1>1, <1>3 DEF ProducerOK
<1> QED  BY <1>2, <1>3, <1>4 DEF r

LEMMA IpDelete ==
    ASSUME NEW s, ProducerOK(s), s.ps = "STOPPED"
    PROVE  LET r == [ip_delete(s) EXCEPT !.ps = "UNLOADED"]
           IN  /\ ProducerOK(r) /\ SameConsumer(s, r) /\ SameInfo(s, r)
               /\ r.file = s.file /\ r.status = s.status /\ r.ps = "UNLOADED"
<1>1. s \in PlayerStates /\ ~s.bug /\ s.buffer = {} /\ s.ip = "closed"
  BY DEF ProducerOK
<1>2. Require(s, s.ip \in {"closed", "open"}) = s
  BY <1>1, RequireHolds
<1>3. [ip_delete(s) EXCEPT !.ps = "UNLOADED"] = [s EXCEPT !.ip = "freed", !.ps = "UNLOADED"]
  BY <1>1, <1>2 DEF ip_delete, PlayerStates
<1> QED  BY <1>1, <1>3, HandleGone

LEMMA ProducerUnload ==
    ASSUME NEW s, ProducerOK(s)
    PROVE  LET r == producer_unload(s)
           IN  /\ ProducerOK(r) /\ SameConsumer(s, r) /\ SameInfo(s, r)
               /\ r.status = s.status
               /\ r.ps = "UNLOADED"
<1> DEFINE a == producer_stop(s)
<1>1. /\ ProducerOK(a) /\ SameConsumer(s, a) /\ SameInfo(s, a)
      /\ a.status = s.status /\ a.ps \in {"UNLOADED", "STOPPED"}
  BY ProducerStop
<1> HIDE DEF a
<1>2. CASE a.ps = "STOPPED"
  <2>1. producer_unload(s) = [ip_delete(a) EXCEPT !.ps = "UNLOADED"]
    BY <1>2 DEF producer_unload, a
  <2> QED  BY <1>1, <1>2, <2>1, IpDelete DEF SameConsumer, SameInfo
<1>3. CASE a.ps = "UNLOADED"
  <2>1. producer_unload(s) = a
    BY <1>3 DEF producer_unload, a
  <2> QED  BY <1>1, <1>3, <2>1
<1> QED  BY <1>1, <1>2, <1>3

LEMMA ProducerPause ==
    ASSUME NEW s, ProducerOK(s)
    PROVE  LET r == producer_pause(s)
           IN  /\ ProducerOK(r) /\ SameConsumer(s, r) /\ SameInfo(s, r)
               /\ r.file = s.file /\ r.status = s.status
               /\ r.ps = IF s.ps = "PLAYING" THEN "PAUSED"
                         ELSE IF s.ps = "PAUSED" THEN "PLAYING" ELSE s.ps
  BY DEF ProducerOK, PlayerStates, SameConsumer, SameInfo, producer_pause

(* track_info_ref and file_changed: the reference is taken over.           *)
LEMMA RefThenChange ==
    ASSUME NEW s \in PlayerStates, Balanced(s), NEW t \in Tracks,
           NEW a \in PlayerStates, ~a.bug, a.ti = s.ti,
           a.held = [s.held EXCEPT ![t] = s.held[t] + 1]
    PROVE  LET r == file_changed(a, t)
           IN  /\ r \in PlayerStates /\ r.ti = t /\ Balanced(r) /\ ~r.bug
               /\ SameProducer(a, r) /\ SameConsumer(a, r) /\ r.status = a.status
<1> DEFINE h == IF a.ti # NoTrack THEN [a.held EXCEPT ![a.ti] = a.held[a.ti] - 1] ELSE a.held
<1>1. file_changed(a, t) = [a EXCEPT !.held = h, !.ti = t]
  BY DEF PlayerStates, file_changed, track_info_unref
<1>2. h \in [Tracks -> Int] /\ \A x \in Tracks : h[x] = IF t = x THEN 1 ELSE 0
  BY PlayerAssumption DEF PlayerStates, Balanced
<1> HIDE DEF h
<1> DEFINE r == [a EXCEPT !.held = h, !.ti = t]
<1>3. r \in PlayerStates /\ ~r.bug
  BY <1>2 DEF PlayerStates
<1>4. r.ti = t /\ r.held = h /\ SameProducer(a, r) /\ SameConsumer(a, r) /\ r.status = a.status
  BY DEF PlayerStates, SameProducer, SameConsumer
<1> HIDE DEF r
<1> QED  BY <1>1, <1>2, <1>3, <1>4 DEF Balanced, r

(* file_changed to no track, with nothing else held.                       *)
LEMMA ChangeToNone ==
    ASSUME NEW a \in PlayerStates, ~a.bug, Balanced(a)
    PROVE  LET r == file_changed(a, NoTrack)
           IN  /\ r \in PlayerStates /\ r.ti = NoTrack /\ Balanced(r) /\ ~r.bug
               /\ SameProducer(a, r) /\ SameConsumer(a, r) /\ r.status = a.status
<1> DEFINE h == IF a.ti # NoTrack THEN [a.held EXCEPT ![a.ti] = a.held[a.ti] - 1] ELSE a.held
<1>1. file_changed(a, NoTrack) = [a EXCEPT !.held = h, !.ti = NoTrack]
  BY DEF PlayerStates, file_changed, track_info_unref
<1>2. h \in [Tracks -> Int] /\ \A x \in Tracks : h[x] = 0
  BY PlayerAssumption DEF PlayerStates, Balanced
<1> HIDE DEF h
<1> DEFINE r == [a EXCEPT !.held = h, !.ti = NoTrack]
<1>3. r \in PlayerStates /\ ~r.bug
  BY <1>2 DEF PlayerStates
<1>4. r.ti = NoTrack /\ r.held = h /\ SameProducer(a, r) /\ SameConsumer(a, r) /\ r.status = a.status
  BY DEF PlayerStates, SameProducer, SameConsumer
<1> HIDE DEF r
<1> QED  BY <1>1, <1>2, <1>3, <1>4, PlayerAssumption DEF Balanced, r

(* __producer_play with a track loaded.                                    *)
LEMMA ProducerPlayLoaded ==
    ASSUME NEW s, ProducerOK(s), NEW env \in Env, s.ps # "UNLOADED"
    PROVE  LET r == producer_play(s, env)
           IN  /\ ProducerOK(r) /\ SameConsumer(s, r) /\ SameInfo(s, r)
               /\ r.file = s.file /\ r.status \in {s.status, s.cs}
               /\ \/ r.ps = "PLAYING"
                  \/ s.ps = "STOPPED" /\ r.ps = "UNLOADED"
<1> USE DEF ProducerOK, PlayerStates, SameConsumer, SameInfo
<1>0. env.seek \in BOOLEAN /\ env.open \in BOOLEAN
  BY DEF Env
<1>1. CASE s.ps = "PLAYING"
  <2>1. Require(s, s.ip = "open") = s
    BY <1>1, RequireHolds
  <2>2. CASE SeekOk(s, env.seek)
    <3>1. producer_play(s, env) = [s EXCEPT !.eof = FALSE, !.buffer = {}]
      BY <1>1, <2>1, <2>2 DEF producer_play, ip_seek, reset_buffer
    <3> QED  BY <1>1, <3>1
  <2>3. CASE ~SeekOk(s, env.seek)
    <3>1. producer_play(s, env) = s
      BY <1>1, <2>1, <2>3 DEF producer_play, ip_seek
    <3> QED  BY <1>1, <3>1
  <2> QED  BY <2>2, <2>3
<1>2. CASE s.ps = "STOPPED"
  <2>1. Require(s, s.ip = "closed") = s
    BY <1>2, RequireHolds
  <2>2. CASE env.open
    <3>1. producer_play(s, env) = [s EXCEPT !.ip = "open", !.eof = FALSE, !.ps = "PLAYING"]
      BY <1>2, <2>1, <2>2 DEF producer_play, ip_open
    <3> QED  BY ZenonT(60), <1>2, <3>1
  <2>3. CASE ~env.open
    <3> DEFINE a == [s EXCEPT !.ip = "closed", !.eof = FALSE, !.status = s.cs]
    <3>1. a \in PlayerStates /\ ~a.bug /\ a.ip = "closed"
      OBVIOUS
    <3>2. player_error(ip_open(s, env.open)) = a
      BY <2>1, <2>3 DEF player_error, ip_open
    <3>3. Require(a, a.ip \in {"closed", "open"}) = a
      <4> HIDE DEF a
      <4> QED  BY <3>1, RequireHolds
    <3>4. producer_play(s, env) = [a EXCEPT !.ip = "freed", !.ps = "UNLOADED"]
      <4> HIDE DEF a
      <4> QED  BY <1>2, <2>3, <3>1, <3>2, <3>3 DEF producer_play, ip_delete
    <3>5. /\ a.ps = s.ps /\ a.ti = s.ti /\ a.held = s.held /\ a.buffer = s.buffer /\ a.file = s.file
          /\ SameConsumer(s, a) /\ a.status \in {s.status, s.cs}
      BY DEF SameConsumer
    <3> HIDE DEF a
    <3> DEFINE r == [a EXCEPT !.ip = "freed", !.ps = "UNLOADED"]
    <3>6. a.buffer = {}
      BY <1>2, <3>5
    <3>7. ProducerOK(r) /\ SameConsumer(a, r) /\ SameInfo(a, r) /\ r.file = a.file
          /\ r.status = a.status /\ r.ps = "UNLOADED"
      <4> HIDE DEF ProducerOK, PlayerStates, SameConsumer, SameInfo
      <4> QED  BY <3>1, <3>6, HandleGone, Zenon
    <3> HIDE DEF r
    <3>8. producer_play(s, env) = r
      BY <3>4 DEF r
    <3> QED  BY <1>2, <3>5, <3>7, <3>8
  <2> QED  BY <2>2, <2>3, <1>0
<1>3. CASE s.ps = "PAUSED"
  <2>1. producer_play(s, env) = [s EXCEPT !.ps = "PLAYING"]
    BY <1>3 DEF producer_play
  <2> QED  BY <1>3, <2>1
<1> QED  BY <1>1, <1>2, <1>3

(* ip_new after track_info_ref: what __producer_play, __producer_set_file  *)
(* and __consumer_handle_eof do with a new track.                          *)
LEMMA NewTrack ==
    ASSUME NEW s, ProducerOK(s), s.ps = "UNLOADED", NEW t \in Tracks
    PROVE  /\ ip_new(s, t) = [s EXCEPT !.ip = "closed", !.file = t, !.eof = FALSE]
           /\ ProducerOK([ip_new(s, t) EXCEPT !.ps = "STOPPED"])
<1> USE DEF ProducerOK, PlayerStates
<1>1. Require(s, s.ip \in {"null", "freed"}) = s
  BY RequireHolds
<1>2. ip_new(s, t) = [s EXCEPT !.ip = "closed", !.file = t, !.eof = FALSE]
  BY <1>1 DEF ip_new
<1> QED  BY ZenonT(60), <1>2

LEMMA TakeRef ==
    ASSUME NEW s, ProducerOK(s), NEW t \in Tracks
    PROVE  LET r == track_info_ref(s, t)
           IN  /\ ProducerOK(r) /\ SameConsumer(s, r) /\ r.status = s.status
               /\ r.ps = s.ps /\ r.file = s.file /\ r.ip = s.ip /\ r.ti = s.ti
               /\ r.held = [s.held EXCEPT ![t] = s.held[t] + 1]
  BY DEF ProducerOK, PlayerStates, SameConsumer, track_info_ref

(* __producer_play with nothing loaded: get_next, and back to nothing if   *)
(* the file cannot be opened.                                              *)
LEMMA ProducerPlayLoads ==
    ASSUME NEW s, ProducerOK(s), NEW env \in Env, s.ps = "UNLOADED", Balanced(s)
    PROVE  LET r == producer_play(s, env)
           IN  /\ ProducerOK(r) /\ SameConsumer(s, r) /\ Shown(r)
               /\ r.status \in {s.status, s.cs}
               /\ r.ps \in {"UNLOADED", "PLAYING"}
<1>1. CASE env.next = NoTrack
  BY <1>1 DEF producer_play, SameConsumer, Shown
<1>2. CASE env.next # NoTrack
  <2> DEFINE t == env.next
             b == track_info_ref(s, t)
             c == ip_new(b, t)
             a == ip_open(c, env.open)
  <2>1. t \in Tracks /\ env.open \in BOOLEAN
    BY <1>2 DEF Env
  <2>2. /\ ProducerOK(b) /\ SameConsumer(s, b) /\ b.status = s.status /\ b.ps = "UNLOADED"
        /\ b.ti = s.ti /\ b.held = [s.held EXCEPT ![t] = s.held[t] + 1]
    BY <2>1, TakeRef
  <2>3. c = [b EXCEPT !.ip = "closed", !.file = t, !.eof = FALSE]
    <3> HIDE DEF b, t
    <3> QED  BY <2>1, <2>2, NewTrack
  <2>4. producer_play(s, env) =
          IF env.open THEN file_changed([a EXCEPT !.ps = "PLAYING"], t)
          ELSE file_changed(track_info_unref(ip_delete(player_error(a)), t), NoTrack)
    BY <1>2 DEF producer_play
  <2> HIDE DEF b, t
  <2>5. /\ c \in PlayerStates /\ ~c.bug /\ c.ip = "closed" /\ c.file = t /\ c.ps = "UNLOADED"
        /\ c.buffer = {} /\ SameConsumer(b, c) /\ c.status = b.status
        /\ c.ti = b.ti /\ c.held = b.held
    <3>1. b \in PlayerStates /\ ~b.bug /\ b.ps = "UNLOADED" /\ b.buffer = {}
      BY <2>2 DEF ProducerOK
    <3>2. c \in PlayerStates
      BY <2>1, <2>3, <3>1 DEF PlayerStates
    <3>3. /\ ~c.bug /\ c.ip = "closed" /\ c.file = t /\ c.ps = "UNLOADED" /\ c.buffer = {}
          /\ SameConsumer(b, c) /\ c.status = b.status /\ c.ti = b.ti /\ c.held = b.held
      BY <2>3, <3>1 DEF PlayerStates, SameConsumer
    <3> QED  BY <3>2, <3>3
  <2> HIDE DEF c
  <2>6. Require(c, c.ip = "closed") = c
    BY <2>5, RequireHolds
  <2>7. CASE env.open
    <3> DEFINE d == [a EXCEPT !.ps = "PLAYING"]
    <3>1. a = [c EXCEPT !.ip = "open", !.eof = FALSE]
      BY <2>6, <2>7 DEF ip_open
    <3>2. /\ ProducerOK(d) /\ SameConsumer(c, d) /\ d.status = c.status
          /\ d.ti = c.ti /\ d.held = c.held /\ d.ps = "PLAYING" /\ d.file = t
      <4>1. d = [c EXCEPT !.ip = "open", !.eof = FALSE, !.ps = "PLAYING"]
        BY <2>5, <3>1 DEF PlayerStates
      <4>2. /\ d \in PlayerStates /\ ~d.bug /\ d.ip = "open" /\ d.buffer = {}
            /\ SameConsumer(c, d) /\ d.status = c.status
            /\ d.ti = c.ti /\ d.held = c.held /\ d.ps = "PLAYING" /\ d.file = t
        BY ZenonT(60), <2>5, <4>1 DEF PlayerStates, SameConsumer
      <4> QED  BY <2>1, <4>2 DEF ProducerOK
    <3>3. producer_play(s, env) = file_changed(d, t)
      BY <2>4, <2>7
    <3> HIDE DEF d, a
    <3>4. LET r == file_changed(d, t)
          IN  /\ r \in PlayerStates /\ r.ti = t /\ Balanced(r) /\ ~r.bug
              /\ SameProducer(d, r) /\ SameConsumer(d, r) /\ r.status = d.status
      <4>1. /\ s \in PlayerStates /\ d \in PlayerStates /\ ~d.bug /\ d.ti = s.ti
            /\ d.held = [s.held EXCEPT ![t] = s.held[t] + 1]
        BY <2>2, <2>5, <3>2 DEF ProducerOK
      <4> QED  BY <2>1, <4>1, RefThenChange
    <3> QED  BY <2>2, <2>5, <3>2, <3>3, <3>4
               DEF ProducerOK, SameProducer, SameConsumer, Shown
  <2>8. CASE ~env.open
    <3> DEFINE e == player_error(a)
               f == ip_delete(e)
               g == track_info_unref(f, t)
    <3>1. a = [c EXCEPT !.ip = "closed", !.eof = FALSE]
      BY <2>6, <2>8 DEF ip_open
    <3>2. /\ e \in PlayerStates /\ ~e.bug /\ e.ip = "closed" /\ e.ps = "UNLOADED"
          /\ e.buffer = {} /\ SameConsumer(c, e) /\ e.status = c.cs /\ e.ti = c.ti
          /\ e.held = c.held
      BY ZenonT(60), <2>5, <3>1 DEF player_error, PlayerStates, SameConsumer
    <3>3. producer_play(s, env) = file_changed(g, NoTrack)
      BY <2>4, <2>8
    <3> HIDE DEF e, a
    <3>4. Require(e, e.ip \in {"closed", "open"}) = e
      BY <3>2, RequireHolds
    <3>5. f = [e EXCEPT !.ip = "freed"]
      BY <3>4 DEF ip_delete
    <3>6. /\ ProducerOK(f) /\ SameConsumer(e, f) /\ f.status = e.status /\ f.ti = e.ti
          /\ f.held = e.held /\ f.ps = "UNLOADED"
      BY <3>2, <3>5 DEF ProducerOK, PlayerStates, SameConsumer
    <3> HIDE DEF f
    <3>7. /\ ProducerOK(g) /\ SameConsumer(f, g) /\ g.status = f.status /\ g.ti = f.ti
          /\ g.held = [f.held EXCEPT ![t] = f.held[t] - 1] /\ g.ps = "UNLOADED"
      BY <2>1, <3>6 DEF ProducerOK, PlayerStates, SameConsumer, track_info_unref
    <3> HIDE DEF g
    <3>8. Balanced(g)
      <4>1. s.held \in [Tracks -> Int] /\ g.ti = s.ti
        BY <2>2, <2>5, <3>2, <3>6, <3>7 DEF ProducerOK, PlayerStates
      <4>2. f.held = [s.held EXCEPT ![t] = s.held[t] + 1]
        BY <2>2, <2>5, <3>2, <3>6
      <4>3. \A x \in Tracks : g.held[x] = s.held[x]
        BY <2>1, <3>7, <4>1, <4>2
      <4> QED  BY <4>1, <4>3 DEF Balanced
    <3>9. LET r == file_changed(g, NoTrack)
          IN  /\ r \in PlayerStates /\ r.ti = NoTrack /\ Balanced(r) /\ ~r.bug
              /\ SameProducer(g, r) /\ SameConsumer(g, r) /\ r.status = g.status
      BY <3>7, <3>8, ChangeToNone DEF ProducerOK
    <3> QED  BY <2>2, <2>5, <3>2, <3>3, <3>6, <3>7, <3>9
               DEF ProducerOK, SameProducer, SameConsumer, Shown
  <2> QED  BY <2>7, <2>8
<1> QED  BY <1>1, <1>2

LEMMA ProducerSetFile ==
    ASSUME NEW s, ProducerOK(s), Balanced(s), NEW t \in Tracks
    PROVE  LET r == producer_set_file(s, t)
           IN  /\ ProducerOK(r) /\ SameConsumer(s, r) /\ Shown(r)
               /\ r.status = s.status /\ r.ps = "STOPPED" /\ r.file = t
<1> DEFINE b == track_info_ref(s, t)
           u == producer_unload(b)
           c == [ip_new(u, t) EXCEPT !.ps = "STOPPED"]
<1>1. /\ ProducerOK(b) /\ SameConsumer(s, b) /\ b.status = s.status
      /\ b.ti = s.ti /\ b.held = [s.held EXCEPT ![t] = s.held[t] + 1]
  BY TakeRef
<1> HIDE DEF b
<1>2. /\ ProducerOK(u) /\ SameConsumer(b, u) /\ SameInfo(b, u) /\ u.status = b.status
      /\ u.ps = "UNLOADED"
  BY <1>1, ProducerUnload
<1> HIDE DEF u
<1>3. ip_new(u, t) = [u EXCEPT !.ip = "closed", !.file = t, !.eof = FALSE] /\ ProducerOK(c)
  BY <1>2, NewTrack
<1>4. SameConsumer(u, c) /\ SameInfo(u, c) /\ c.status = u.status /\ c.ps = "STOPPED" /\ c.file = t
  BY <1>2, <1>3 DEF ProducerOK, PlayerStates, SameConsumer, SameInfo
<1> HIDE DEF c
<1>5. LET r == file_changed(c, t)
      IN  /\ r \in PlayerStates /\ r.ti = t /\ Balanced(r) /\ ~r.bug
          /\ SameProducer(c, r) /\ SameConsumer(c, r) /\ r.status = c.status
  <2>1. /\ s \in PlayerStates /\ c \in PlayerStates /\ ~c.bug /\ c.ti = s.ti
        /\ c.held = [s.held EXCEPT ![t] = s.held[t] + 1]
    BY <1>1, <1>2, <1>3, <1>4 DEF ProducerOK, SameInfo
  <2> QED  BY <2>1, RefThenChange
<1>6. producer_set_file(s, t) = file_changed(c, t)
  BY DEF producer_set_file, c, u, b
<1> QED  BY <1>1, <1>2, <1>3, <1>4, <1>5, <1>6
           DEF ProducerOK, SameProducer, SameConsumer, Shown

-----------------------------------------------------------------------------
(* The consumer's functions                                                *)

LEMMA TrackFormat ==
    ASSUME NEW t \in Tracks
    PROVE  BufferFormat(SampleFormat[t]) \in Formats
  BY FormatAssumption DEF BufferFormat, Formats

LEMMA FormatIsKnown == NoFormat \notin Formats
  BY FormatAssumption DEF Formats

LEMMA SetBufferSf ==
    ASSUME NEW s, ProducerOK(s), s.ps \in {"PLAYING", "PAUSED"}
    PROVE  LET r == set_buffer_sf(s)
           IN  /\ ProducerOK(r) /\ SameProducer(s, r) /\ SameInfo(s, r)
               /\ r.cs = s.cs /\ r.op = s.op /\ r.op_sf = s.op_sf /\ r.status = s.status
               /\ r.buffer_sf = BufferFormat(SampleFormat[s.file])
<1> DEFINE sf == BufferFormat(SampleFormat[s.file])
<1>1. s.ip = "open" /\ sf \in Formats
  BY TrackFormat DEF ProducerOK, PlayerStates
<1>2. Require(s, s.ip = "open") = s
  BY <1>1, RequireHolds DEF ProducerOK
<1>3. set_buffer_sf(s) = [s EXCEPT !.buffer_sf = sf]
  BY <1>2 DEF set_buffer_sf
<1> HIDE DEF sf
<1>4. LET r == set_buffer_sf(s)
      IN  /\ ProducerOK(r) /\ SameProducer(s, r) /\ SameInfo(s, r)
          /\ r.cs = s.cs /\ r.op = s.op /\ r.op_sf = s.op_sf /\ r.status = s.status
          /\ r.buffer_sf = sf
  BY <1>1, <1>3 DEF ProducerOK, PlayerStates, SameProducer, SameInfo
<1> QED  BY <1>4 DEF sf

LEMMA OpOpen ==
    ASSUME NEW s, ProducerOK(s), s.op = "closed", NEW ok \in BOOLEAN
    PROVE  LET r == op_open(s, ok)
           IN  /\ ProducerOK(r) /\ SameProducer(s, r) /\ SameInfo(s, r)
               /\ r.cs = s.cs /\ r.buffer_sf = s.buffer_sf /\ r.status = s.status
               /\ ok => r.op = "open" /\ r.op_sf = s.buffer_sf
               /\ ~ok => r.op = "closed"
<1>1. Require(s, s.op = "closed") = s
  BY RequireHolds DEF ProducerOK
<1>2. CASE ok
  <2>1. op_open(s, ok) = [s EXCEPT !.op = "open", !.op_sf = s.buffer_sf]
    BY <1>1, <1>2 DEF op_open
  <2> QED  BY ZenonT(60), <1>2, <2>1 DEF ProducerOK, PlayerStates, SameProducer, SameInfo
<1>3. CASE ~ok
  <2>1. op_open(s, ok) = [s EXCEPT !.op = "closed", !.op_sf = s.op_sf]
    BY <1>1, <1>3 DEF op_open
  <2> QED  BY ZenonT(60), <1>3, <2>1 DEF ProducerOK, PlayerStates, SameProducer, SameInfo
<1> QED  BY <1>2, <1>3

LEMMA OpClose ==
    ASSUME NEW s, ProducerOK(s), s.op # "closed"
    PROVE  /\ op_drop(s) = s
           /\ LET r == op_close(s)
              IN  /\ ProducerOK(r) /\ SameProducer(s, r) /\ SameInfo(s, r)
                  /\ r.cs = s.cs /\ r.op_sf = s.op_sf /\ r.buffer_sf = s.buffer_sf
                  /\ r.status = s.status /\ r.op = "closed"
<1>1. Require(s, s.op # "closed") = s
  BY RequireHolds DEF ProducerOK
<1>2. op_close(s) = [s EXCEPT !.op = "closed"]
  BY <1>1 DEF op_close
<1> QED  BY <1>1, <1>2 DEF op_drop, ProducerOK, PlayerStates, SameProducer, SameInfo

(* Setting consumer_status.                                                *)
LEMMA SetCs ==
    ASSUME NEW s, ProducerOK(s), NEW cs \in {"STOPPED", "PLAYING", "PAUSED"}
    PROVE  LET r == [s EXCEPT !.cs = cs]
           IN  /\ ProducerOK(r) /\ SameProducer(s, r) /\ SameInfo(s, r)
               /\ r.op = s.op /\ r.op_sf = s.op_sf /\ r.buffer_sf = s.buffer_sf
               /\ r.status = s.status /\ r.cs = cs
  BY DEF ProducerOK, PlayerStates, SameProducer, SameInfo

LEMMA PlayerError ==
    ASSUME NEW s, ProducerOK(s)
    PROVE  LET r == player_error(s)
           IN  /\ ProducerOK(r) /\ SameProducer(s, r) /\ SameInfo(s, r) /\ SameConsumer(s, r)
               /\ r.status = s.cs
  BY DEF ProducerOK, PlayerStates, SameProducer, SameInfo, SameConsumer, player_error

LEMMA Unpause ==
    ASSUME NEW s, ProducerOK(s), s.op = "paused"
    PROVE  LET r == [op_unpause(s) EXCEPT !.cs = "PLAYING"]
           IN  /\ ProducerOK(r) /\ SameProducer(s, r) /\ SameInfo(s, r)
               /\ r.op = "open" /\ r.op_sf = s.op_sf /\ r.buffer_sf = s.buffer_sf
               /\ r.status = s.status /\ r.cs = "PLAYING"
<1>1. Require(s, s.op = "paused") = s
  BY RequireHolds DEF ProducerOK
<1>2. [op_unpause(s) EXCEPT !.cs = "PLAYING"] = [s EXCEPT !.op = "open", !.cs = "PLAYING"]
  BY <1>1 DEF op_unpause, ProducerOK, PlayerStates
<1> QED  BY ZenonT(60), <1>2 DEF ProducerOK, PlayerStates, SameProducer, SameInfo

LEMMA Pause ==
    ASSUME NEW s, ProducerOK(s), s.op = "open"
    PROVE  LET r == op_pause(s)
           IN  /\ ProducerOK(r) /\ SameProducer(s, r) /\ SameInfo(s, r)
               /\ r.op = "paused" /\ r.op_sf = s.op_sf /\ r.buffer_sf = s.buffer_sf
               /\ r.status = s.status /\ r.cs = s.cs
<1>1. Require(s, s.op = "open") = s
  BY RequireHolds DEF ProducerOK
<1>2. op_pause(s) = [s EXCEPT !.op = "paused"]
  BY <1>1 DEF op_pause
<1> QED  BY <1>2 DEF ProducerOK, PlayerStates, SameProducer, SameInfo

(* __consumer_play.                                                        *)
LEMMA ConsumerPlay ==
    ASSUME NEW s, ProducerOK(s), ConsumerOK(s), FormatOK(s), s.ps = "PLAYING",
           NEW device \in BOOLEAN
    PROVE  LET r == consumer_play(s, device)
           IN  /\ ProducerOK(r) /\ ConsumerOK(r) /\ FormatOK(r)
               /\ SameProducer(s, r) /\ SameInfo(s, r)
               /\ \/ r.cs = "PLAYING" /\ r.status = s.status
                  \/ s.cs = "STOPPED" /\ r.cs = "STOPPED" /\ r.status = "STOPPED"
<1>0. s.cs \in {"STOPPED", "PLAYING", "PAUSED"} /\ s.op \in {"closed", "open", "paused"}
  BY DEF ProducerOK, PlayerStates
<1>1. CASE s.cs = "PLAYING"
  <2>1. consumer_play(s, device) = s
    BY <1>1, OpClose DEF consumer_play, ConsumerOK
  <2> QED  BY <1>1, <2>1 DEF SameProducer, SameInfo
<1>2. CASE s.cs = "STOPPED"
  <2> DEFINE b == set_buffer_sf(s)
             a == op_open(b, device)
  <2>1. /\ ProducerOK(b) /\ SameProducer(s, b) /\ SameInfo(s, b)
        /\ b.cs = s.cs /\ b.op = s.op /\ b.op_sf = s.op_sf /\ b.status = s.status
        /\ b.buffer_sf = BufferFormat(SampleFormat[s.file])
    BY SetBufferSf
  <2> HIDE DEF b
  <2>2. /\ ProducerOK(a) /\ SameProducer(b, a) /\ SameInfo(b, a)
        /\ a.cs = b.cs /\ a.buffer_sf = b.buffer_sf /\ a.status = b.status
        /\ device => a.op = "open" /\ a.op_sf = b.buffer_sf
        /\ ~device => a.op = "closed"
    BY <1>2, <2>1, OpOpen DEF ConsumerOK
  <2>3. consumer_play(s, device) = IF device THEN [a EXCEPT !.cs = "PLAYING"] ELSE player_error(a)
    BY <1>2 DEF consumer_play, b
  <2> HIDE DEF a
  <2>4. CASE device
    <3> DEFINE r == [a EXCEPT !.cs = "PLAYING"]
    <3>1. /\ ProducerOK(r) /\ SameProducer(a, r) /\ SameInfo(a, r)
          /\ r.op = a.op /\ r.op_sf = a.op_sf /\ r.buffer_sf = a.buffer_sf
          /\ r.status = a.status /\ r.cs = "PLAYING"
      BY <2>2, SetCs
    <3> HIDE DEF r
    <3>2. consumer_play(s, device) = r
      BY <2>3, <2>4 DEF r
    <3>3. r.file = s.file /\ r.op_sf = b.buffer_sf /\ r.buffer_sf = b.buffer_sf
      BY <2>1, <2>2, <2>4, <3>1 DEF SameProducer
    <3>4. FormatOK(r)
      BY <2>1, <3>3 DEF FormatOK
    <3>5. ConsumerOK(r) /\ SameProducer(s, r) /\ SameInfo(s, r) /\ r.status = s.status
      BY <2>1, <2>2, <2>4, <3>1 DEF ConsumerOK, SameProducer, SameInfo
    <3> QED  BY <3>1, <3>2, <3>4, <3>5
  <2>5. CASE ~device
    <3> DEFINE r == player_error(a)
    <3>1. /\ ProducerOK(r) /\ SameProducer(a, r) /\ SameInfo(a, r) /\ SameConsumer(a, r)
          /\ r.status = a.cs
      BY <2>2, PlayerError
    <3> HIDE DEF r
    <3>2. consumer_play(s, device) = r
      BY <2>3, <2>5 DEF r
    <3> QED  BY <1>2, <2>1, <2>2, <2>5, <3>1, <3>2
               DEF ConsumerOK, FormatOK, SameProducer, SameInfo, SameConsumer
  <2> QED  BY <2>4, <2>5
<1>3. CASE s.cs = "PAUSED"
  <2> DEFINE r == [op_unpause(s) EXCEPT !.cs = "PLAYING"]
  <2>1. consumer_play(s, device) = r
    BY <1>3 DEF consumer_play
  <2>2. /\ ProducerOK(r) /\ SameProducer(s, r) /\ SameInfo(s, r)
        /\ r.op = "open" /\ r.op_sf = s.op_sf /\ r.buffer_sf = s.buffer_sf
        /\ r.status = s.status /\ r.cs = "PLAYING"
    BY <1>0, <1>3, Unpause DEF ConsumerOK
  <2> HIDE DEF r
  <2> QED  BY <1>3, <2>1, <2>2 DEF ConsumerOK, FormatOK, SameProducer
<1> QED  BY <1>0, <1>1, <1>2, <1>3

(* __consumer_stop and __consumer_drain_and_stop.                          *)
LEMMA ConsumerStop ==
    ASSUME NEW s, ProducerOK(s), ConsumerOK(s)
    PROVE  LET r == consumer_stop(s)
           IN  /\ ProducerOK(r) /\ ConsumerOK(r) /\ SameProducer(s, r) /\ SameInfo(s, r)
               /\ r.cs = "STOPPED" /\ r.status = s.status
               /\ consumer_drain_and_stop(s) = r
<1>1. CASE s.cs = "STOPPED"
  <2>1. consumer_stop(s) = s /\ consumer_drain_and_stop(s) = s
    BY <1>1 DEF consumer_stop, consumer_drain_and_stop
  <2> QED  BY <1>1, <2>1 DEF SameProducer, SameInfo
<1>2. CASE s.cs # "STOPPED"
  <2> DEFINE a == op_close(s)
             r == [a EXCEPT !.cs = "STOPPED"]
  <2>1. op_drop(s) = s
    BY <1>2, OpClose DEF ConsumerOK
  <2>2. consumer_stop(s) = r /\ consumer_drain_and_stop(s) = r
    BY <1>2, <2>1 DEF consumer_stop, consumer_drain_and_stop
  <2>3. /\ ProducerOK(a) /\ SameProducer(s, a) /\ SameInfo(s, a)
        /\ a.status = s.status /\ a.op = "closed"
    BY <1>2, OpClose DEF ConsumerOK
  <2> HIDE DEF a
  <2>4. /\ ProducerOK(r) /\ SameProducer(a, r) /\ SameInfo(a, r) /\ r.op = a.op
        /\ r.status = a.status /\ r.cs = "STOPPED"
    BY <2>3, SetCs
  <2> HIDE DEF r
  <2> QED  BY <2>2, <2>3, <2>4 DEF ConsumerOK, SameProducer, SameInfo
<1> QED  BY <1>1, <1>2

(* change_sf, which starts to play: the device is opened again when the    *)
(* new track has another format, and nothing plays if that fails.          *)
LEMMA ChangeSf ==
    ASSUME NEW s, ProducerOK(s), ConsumerOK(s), DeviceOK(s), s.ps = "PLAYING",
           s.cs # "STOPPED", NEW device \in BOOLEAN
    PROVE  LET r == change_sf(s, device)
           IN  /\ ProducerOK(r) /\ ConsumerOK(r) /\ FormatOK(r) /\ SameInfo(s, r)
               /\ r.file = s.file
               /\ \/ r.cs = "PLAYING" /\ r.ps = "PLAYING"
                  \/ r.cs = "STOPPED" /\ r.ps = "STOPPED"
<1> DEFINE a == set_buffer_sf(s)
           sf == BufferFormat(SampleFormat[s.file])
<1>1. /\ ProducerOK(a) /\ SameProducer(s, a) /\ SameInfo(s, a)
      /\ a.cs = s.cs /\ a.op = s.op /\ a.op_sf = s.op_sf /\ a.buffer_sf = sf
  BY SetBufferSf
<1>2. a.op # "closed" /\ s.op \in {"closed", "open", "paused"}
  BY <1>1 DEF ConsumerOK, ProducerOK, PlayerStates
<1>3. change_sf(s, device) =
        IF a.buffer_sf # s.buffer_sf THEN
            LET b == op_open(op_close(a), device)
            IN  IF device THEN [b EXCEPT !.cs = "PLAYING"]
                ELSE producer_stop([player_error(b) EXCEPT !.cs = "STOPPED"])
        ELSE IF s.cs = "PAUSED" THEN [op_unpause(op_drop(a)) EXCEPT !.cs = "PLAYING"]
        ELSE [a EXCEPT !.cs = "PLAYING"]
  BY DEF change_sf
<1> HIDE DEF a, sf
<1>4. CASE a.buffer_sf # s.buffer_sf
  <2> DEFINE c == op_close(a)
             b == op_open(c, device)
  <2>1. /\ ProducerOK(c) /\ SameProducer(a, c) /\ SameInfo(a, c)
        /\ c.buffer_sf = a.buffer_sf /\ c.op = "closed"
    BY <1>1, <1>2, OpClose
  <2>2. change_sf(s, device) = IF device THEN [b EXCEPT !.cs = "PLAYING"]
                               ELSE producer_stop([player_error(b) EXCEPT !.cs = "STOPPED"])
    BY <1>3, <1>4
  <2> HIDE DEF c
  <2>3. /\ ProducerOK(b) /\ SameProducer(c, b) /\ SameInfo(c, b)
        /\ b.buffer_sf = c.buffer_sf
        /\ device => b.op = "open" /\ b.op_sf = c.buffer_sf
        /\ ~device => b.op = "closed"
    BY <2>1, OpOpen
  <2> HIDE DEF b
  <2>4. SameProducer(s, b) /\ SameInfo(s, b) /\ b.buffer_sf = sf
    BY <1>1, <2>1, <2>3 DEF SameProducer, SameInfo
  <2>5. CASE device
    <3> DEFINE r == [b EXCEPT !.cs = "PLAYING"]
    <3>1. /\ ProducerOK(r) /\ SameProducer(b, r) /\ SameInfo(b, r)
          /\ r.op = b.op /\ r.op_sf = b.op_sf /\ r.buffer_sf = b.buffer_sf /\ r.cs = "PLAYING"
      BY <2>3, SetCs
    <3> HIDE DEF r
    <3>2. change_sf(s, device) = r
      BY <2>2, <2>5 DEF r
    <3>3. r.file = s.file /\ r.ps = "PLAYING" /\ SameInfo(s, r)
      BY <2>4, <3>1 DEF SameProducer, SameInfo
    <3>4. r.op = "open" /\ r.op_sf = sf /\ r.buffer_sf = sf
      BY <2>3, <2>4, <2>5, <3>1
    <3>5. FormatOK(r) /\ ConsumerOK(r)
      BY <3>1, <3>3, <3>4 DEF FormatOK, ConsumerOK, sf
    <3> QED  BY <3>1, <3>2, <3>3, <3>5
  <2>6. CASE ~device
    <3> DEFINE e == player_error(b)
               f == [e EXCEPT !.cs = "STOPPED"]
               r == producer_stop(f)
    <3>1. change_sf(s, device) = r
      BY <2>2, <2>6
    <3>2. ProducerOK(e) /\ SameProducer(b, e) /\ SameInfo(b, e) /\ SameConsumer(b, e)
      BY <2>3, PlayerError
    <3> HIDE DEF e
    <3>3. /\ ProducerOK(f) /\ SameProducer(e, f) /\ SameInfo(e, f)
          /\ f.op = e.op /\ f.cs = "STOPPED"
      BY <3>2, SetCs
    <3> HIDE DEF f
    <3>4. /\ ProducerOK(r) /\ SameConsumer(f, r) /\ SameInfo(f, r) /\ r.file = f.file
          /\ r.ps = IF f.ps = "UNLOADED" THEN "UNLOADED" ELSE "STOPPED"
      BY <3>3, ProducerStop
    <3> HIDE DEF r
    <3>5. r.cs = "STOPPED" /\ r.ps = "STOPPED" /\ r.op = "closed" /\ r.file = s.file
      BY <2>3, <2>4, <2>6, <3>2, <3>3, <3>4 DEF SameProducer, SameConsumer
    <3>6. SameInfo(s, r)
      BY <2>4, <3>2, <3>3, <3>4 DEF SameInfo
    <3> QED  BY <3>1, <3>4, <3>5, <3>6 DEF ConsumerOK, FormatOK
  <2> QED  BY <2>5, <2>6
<1>5. CASE a.buffer_sf = s.buffer_sf
  <2>1. a.op_sf = sf /\ a.buffer_sf = sf
    BY <1>1, <1>5 DEF DeviceOK
  <2> DEFINE r == IF s.cs = "PAUSED" THEN [op_unpause(a) EXCEPT !.cs = "PLAYING"]
                  ELSE [a EXCEPT !.cs = "PLAYING"]
  <2>2. op_drop(a) = a
    BY <1>1, <1>2, OpClose
  <2>3. change_sf(s, device) = r
    BY <1>3, <1>5, <2>2
  <2>4. /\ ProducerOK(r) /\ SameProducer(a, r) /\ SameInfo(a, r)
        /\ r.op = "open" /\ r.op_sf = a.op_sf /\ r.buffer_sf = a.buffer_sf /\ r.cs = "PLAYING"
    <3>1. CASE s.cs = "PAUSED"
      <4>1. a.op = "paused"
        BY <1>1, <1>2, <3>1 DEF ConsumerOK
      <4>2. r = [op_unpause(a) EXCEPT !.cs = "PLAYING"]
        BY <3>1
      <4> HIDE DEF r
      <4> QED  BY <1>1, <4>1, <4>2, Unpause
    <3>2. CASE s.cs # "PAUSED"
      <4>1. a.op = "open"
        BY <1>1, <1>2, <3>2 DEF ConsumerOK, ProducerOK, PlayerStates
      <4>2. r = [a EXCEPT !.cs = "PLAYING"]
        BY <3>2
      <4> HIDE DEF r
      <4> QED  BY <1>1, <4>1, <4>2, SetCs
    <3> QED  BY <3>1, <3>2
  <2> HIDE DEF r
  <2>5. r.file = s.file /\ r.ps = "PLAYING" /\ SameInfo(s, r)
    BY <1>1, <2>4 DEF SameProducer, SameInfo
  <2>6. FormatOK(r) /\ ConsumerOK(r)
    BY <2>1, <2>4, <2>5 DEF FormatOK, ConsumerOK, sf
  <2> QED  BY <2>3, <2>4, <2>5, <2>6
<1> QED  BY <1>4, <1>5

-----------------------------------------------------------------------------
(* The commands                                                            *)

(* "something big happened": the status is published.                      *)
LEMMA StatusChanged ==
    ASSUME NEW s, Core(s)
    PROVE  LET r == player_status_changed(s)
           IN  /\ Good(r) /\ SameProducer(s, r) /\ SameConsumer(s, r) /\ SameInfo(s, r)
<1>1. s.cs = "STOPPED" \/ s.buffer_sf # NoFormat
  <2> SUFFICES ASSUME s.cs # "STOPPED" PROVE s.buffer_sf # NoFormat
    OBVIOUS
  <2>1. s.file \in Tracks
    BY DEF Core, ProducerOK, PlayerStates, Paired
  <2>2. s.buffer_sf = BufferFormat(SampleFormat[s.file])
    BY DEF Core, FormatOK
  <2> QED  BY <2>1, <2>2, TrackFormat, FormatIsKnown
<1>2. Require(s, s.cs = "STOPPED" \/ s.buffer_sf # NoFormat) = s
  BY <1>1, RequireHolds DEF Core, ProducerOK
<1>3. player_status_changed(s) = player_error(s)
  BY <1>2 DEF player_status_changed, player_error
<1> DEFINE r == player_error(s)
<1>4. /\ ProducerOK(r) /\ SameProducer(s, r) /\ SameInfo(s, r) /\ SameConsumer(s, r)
      /\ r.status = s.cs
  BY PlayerError DEF Core
<1> HIDE DEF r
<1>5. ConsumerOK(r) /\ Paired(r) /\ Lags(r)
  BY <1>4 DEF Core, ConsumerOK, Paired, Lags, SameProducer, SameConsumer
<1>6. FormatOK(r)
  BY <1>4 DEF Core, FormatOK, SameProducer, SameConsumer
<1>7. Shown(r)
  BY <1>4 DEF Core, Shown, Balanced, SameProducer, SameInfo
<1> QED  BY <1>3, <1>4, <1>5, <1>6, <1>7 DEF Good, Core, r

(* __producer_play before any consumer function.                           *)
LEMMA ProducerPlayCore ==
    ASSUME NEW s, Core(s), NEW env \in Env
    PROVE  LET r == producer_play(s, env)
           IN  /\ ProducerOK(r) /\ ConsumerOK(r) /\ FormatOK(r) /\ Shown(r)
               /\ r.cs = s.cs /\ r.status \in {s.status, s.cs}
               /\ \/ r.ps = "PLAYING"
                  \/ r.ps = "UNLOADED" /\ r.cs = "STOPPED"
<1> DEFINE r == producer_play(s, env)
<1>1. s.ps \in {"UNLOADED", "STOPPED", "PLAYING", "PAUSED"}
  BY DEF Core, ProducerOK, PlayerStates
<1>2. CASE s.ps = "UNLOADED"
  <2>1. /\ ProducerOK(r) /\ SameConsumer(s, r) /\ Shown(r)
        /\ r.status \in {s.status, s.cs} /\ r.ps \in {"UNLOADED", "PLAYING"}
    BY <1>2, ProducerPlayLoads DEF Core, Shown
  <2>2. s.cs = "STOPPED"
    BY <1>2 DEF Core, Paired, ProducerOK, PlayerStates
  <2> HIDE DEF r
  <2>3. ConsumerOK(r) /\ FormatOK(r) /\ r.cs = "STOPPED"
    BY <2>1, <2>2 DEF Core, ConsumerOK, FormatOK, SameConsumer
  <2> QED  BY <2>1, <2>2, <2>3 DEF r
<1>3. CASE s.ps # "UNLOADED"
  <2>1. /\ ProducerOK(r) /\ SameConsumer(s, r) /\ SameInfo(s, r)
        /\ r.file = s.file /\ r.status \in {s.status, s.cs}
        /\ \/ r.ps = "PLAYING"
           \/ s.ps = "STOPPED" /\ r.ps = "UNLOADED"
    BY <1>3, ProducerPlayLoaded DEF Core
  <2> HIDE DEF r
  <2>2. s.ps = "STOPPED" => s.cs = "STOPPED"
    BY DEF Core, Paired, ProducerOK, PlayerStates
  <2>3. ConsumerOK(r) /\ r.cs = s.cs
    BY <2>1 DEF Core, ConsumerOK, SameConsumer
  <2>4. FormatOK(r)
    BY <2>1 DEF Core, FormatOK, SameConsumer
  <2>5. Shown(r)
    BY <1>3, <2>1 DEF Core, Shown, Balanced, SameInfo
  <2> QED  BY <2>1, <2>2, <2>3, <2>4, <2>5 DEF r
<1> QED  BY <1>2, <1>3

(* __producer_play, __consumer_play and, if that fails, __producer_stop.   *)
LEMMA StartPlayingCore ==
    ASSUME NEW s, Core(s), NEW env \in Env
    PROVE  LET r == StartPlaying(s, env)
           IN  /\ Core(r)
               /\ r.cs # "PLAYING" /\ s.cs = "STOPPED" /\ s.status = "STOPPED" =>
                    r.cs = "STOPPED" /\ r.status = "STOPPED"
<1> DEFINE a == producer_play(s, env)
           b == consumer_play(a, env.device)
<1>1. /\ ProducerOK(a) /\ ConsumerOK(a) /\ FormatOK(a) /\ Shown(a)
      /\ a.cs = s.cs /\ a.status \in {s.status, s.cs}
      /\ \/ a.ps = "PLAYING"
         \/ a.ps = "UNLOADED" /\ a.cs = "STOPPED"
  BY ProducerPlayCore
<1>2. StartPlaying(s, env) = IF a.ps # "PLAYING" THEN a
                             ELSE IF b.cs = "PLAYING" THEN b ELSE producer_stop(b)
  BY DEF StartPlaying
<1> HIDE DEF a
<1>3. CASE a.ps # "PLAYING"
  <2>1. Core(a)
    BY <1>1, <1>3 DEF Core, Paired
  <2> QED  BY <1>1, <1>2, <1>3, <2>1
<1>4. CASE a.ps = "PLAYING"
  <2>1. /\ ProducerOK(b) /\ ConsumerOK(b) /\ FormatOK(b)
        /\ SameProducer(a, b) /\ SameInfo(a, b)
        /\ \/ b.cs = "PLAYING" /\ b.status = a.status
           \/ a.cs = "STOPPED" /\ b.cs = "STOPPED" /\ b.status = "STOPPED"
    <3>1. env.device \in BOOLEAN
      BY DEF Env
    <3> QED  BY <1>1, <1>4, <3>1, ConsumerPlay
  <2> HIDE DEF b
  <2>2. b.ps = "PLAYING" /\ Shown(b)
    BY <1>1, <1>4, <2>1 DEF Shown, Balanced, SameProducer, SameInfo
  <2>3. CASE b.cs = "PLAYING"
    <3>1. Core(b)
      BY <2>1, <2>2, <2>3 DEF Core, Paired
    <3> QED  BY <1>2, <1>4, <2>3, <3>1
  <2>4. CASE b.cs # "PLAYING"
    <3> DEFINE r == producer_stop(b)
    <3>1. StartPlaying(s, env) = r
      BY <1>2, <1>4, <2>4
    <3>2. /\ ProducerOK(r) /\ SameConsumer(b, r) /\ SameInfo(b, r)
          /\ r.file = b.file /\ r.status = b.status /\ r.ps = "STOPPED"
      BY <2>1, <2>2, ProducerStop
    <3> HIDE DEF r
    <3>3. b.cs = "STOPPED" /\ b.status = "STOPPED"
      BY <2>1, <2>4
    <3>4. ConsumerOK(r) /\ FormatOK(r) /\ Paired(r) /\ r.cs = "STOPPED" /\ r.status = "STOPPED"
      BY <2>1, <3>2, <3>3 DEF ConsumerOK, FormatOK, Paired, SameConsumer
    <3>5. Shown(r)
      BY <2>2, <3>2 DEF Shown, Balanced, SameInfo
    <3> QED  BY <3>1, <3>2, <3>4, <3>5 DEF Core
  <2> QED  BY <2>3, <2>4
<1> QED  BY <1>3, <1>4

(* Nothing plays in a state whose consumer is stopped and whose producer   *)
(* is not paused.                                                          *)
LEMMA StoppedIsCore ==
    ASSUME NEW s, ProducerOK(s), ConsumerOK(s), Shown(s), s.cs = "STOPPED", s.ps # "PAUSED"
    PROVE  Core(s)
  BY DEF Core, FormatOK, Paired

LEMMA ConsumerStopShown ==
    ASSUME NEW s, ProducerOK(s), ConsumerOK(s), Shown(s)
    PROVE  LET r == consumer_stop(s)
           IN  /\ ProducerOK(r) /\ ConsumerOK(r) /\ Shown(r) /\ r.cs = "STOPPED"
               /\ r.ps = s.ps /\ r.status = s.status /\ consumer_drain_and_stop(s) = r
<1> DEFINE r == consumer_stop(s)
<1>1. /\ ProducerOK(r) /\ ConsumerOK(r) /\ SameProducer(s, r) /\ SameInfo(s, r)
      /\ r.cs = "STOPPED" /\ r.status = s.status /\ consumer_drain_and_stop(s) = r
  BY ConsumerStop
<1> HIDE DEF r
<1>2. Shown(r) /\ r.ps = s.ps
  BY <1>1 DEF Shown, Balanced, SameProducer, SameInfo
<1> QED  BY <1>1, <1>2 DEF r

LEMMA ProducerStopShown ==
    ASSUME NEW s, ProducerOK(s), ConsumerOK(s), Shown(s)
    PROVE  LET r == producer_stop(s)
           IN  /\ ProducerOK(r) /\ ConsumerOK(r) /\ Shown(r) /\ r.cs = s.cs
               /\ r.ps \in {"UNLOADED", "STOPPED"} /\ r.status = s.status
<1> DEFINE r == producer_stop(s)
<1>1. /\ ProducerOK(r) /\ SameConsumer(s, r) /\ SameInfo(s, r)
      /\ r.file = s.file /\ r.status = s.status
      /\ r.ps = IF s.ps = "UNLOADED" THEN "UNLOADED" ELSE "STOPPED"
  BY ProducerStop
<1> HIDE DEF r
<1>2. ConsumerOK(r) /\ r.cs = s.cs
  BY <1>1 DEF ConsumerOK, SameConsumer
<1>3. Shown(r)
  BY <1>1 DEF Shown, Balanced, SameInfo
<1> QED  BY <1>1, <1>2, <1>3 DEF r

LEMMA StopGood ==
    ASSUME NEW s, Core(s)
    PROVE  Good(player_stop(s))
<1> DEFINE a == consumer_stop(s)
           b == producer_stop(a)
<1>1. /\ ProducerOK(a) /\ ConsumerOK(a) /\ Shown(a) /\ a.cs = "STOPPED"
  BY ConsumerStopShown DEF Core
<1> HIDE DEF a
<1>2. /\ ProducerOK(b) /\ ConsumerOK(b) /\ Shown(b) /\ b.cs = a.cs
      /\ b.ps \in {"UNLOADED", "STOPPED"}
  BY <1>1, ProducerStopShown
<1>3. player_stop(s) = player_status_changed(b)
  BY DEF player_stop, a
<1> HIDE DEF b
<1>4. Core(b)
  BY <1>1, <1>2, StoppedIsCore
<1> QED  BY <1>3, <1>4, StatusChanged

LEMMA PlayGood ==
    ASSUME NEW s, Good(s), NEW env \in Env
    PROVE  Good(player_play(s, env))
<1> DEFINE a == producer_play(s, env)
<1>0. Core(s)
  BY DEF Good
<1>1. player_play(s, env) =
        IF s.ps = "PLAYING" /\ s.file \in Remote THEN s
        ELSE player_status_changed(
               IF a.ps = "PLAYING" THEN StartPlaying(s, env) ELSE consumer_stop(a))
  BY DEF player_play
<1>2. /\ ProducerOK(a) /\ ConsumerOK(a) /\ FormatOK(a) /\ Shown(a)
      /\ \/ a.ps = "PLAYING"
         \/ a.ps = "UNLOADED" /\ a.cs = "STOPPED"
  BY <1>0, ProducerPlayCore
<1> HIDE DEF a
<1>3. Core(StartPlaying(s, env))
  BY <1>0, StartPlayingCore
<1>4. a.ps # "PLAYING" => Core(consumer_stop(a))
  <2> DEFINE r == consumer_stop(a)
  <2>1. /\ ProducerOK(r) /\ ConsumerOK(r) /\ Shown(r) /\ r.cs = "STOPPED" /\ r.ps = a.ps
    BY <1>2, ConsumerStopShown
  <2> HIDE DEF r
  <2>2. a.ps # "PLAYING" => Core(r)
    BY <1>2, <2>1, StoppedIsCore
  <2> QED  BY <2>2 DEF r
<1>5. CASE s.ps = "PLAYING" /\ s.file \in Remote
  BY <1>1, <1>5
<1>6. CASE ~(s.ps = "PLAYING" /\ s.file \in Remote) /\ a.ps = "PLAYING"
  <2>1. player_play(s, env) = player_status_changed(StartPlaying(s, env))
    BY <1>1, <1>6
  <2> QED  BY <1>3, <2>1, StatusChanged
<1>7. CASE ~(s.ps = "PLAYING" /\ s.file \in Remote) /\ a.ps # "PLAYING"
  <2>1. player_play(s, env) = player_status_changed(consumer_stop(a))
    BY <1>1, <1>7
  <2> QED  BY <1>4, <1>7, <2>1, StatusChanged
<1> QED  BY <1>5, <1>6, <1>7

(* With a device open there is an open input.                              *)
LEMMA PlayingIsOpen ==
    ASSUME NEW s, Core(s), s.cs # "STOPPED"
    PROVE  s.ip = "open" /\ s.ps = s.cs /\ s.ps \in {"PLAYING", "PAUSED"} /\ s.op # "closed"
  BY DEF Core, ProducerOK, ConsumerOK, PlayerStates, Paired

LEMMA PauseGood ==
    ASSUME NEW s, Good(s), NEW env \in Env
    PROVE  Good(player_pause(s, env))
<1>0. Core(s) /\ s.cs \in {"STOPPED", "PLAYING", "PAUSED"}
  BY DEF Good, Core, ProducerOK, PlayerStates
<1> DEFINE a == Require(s, s.ip # "freed")
           b == producer_pause(a)
           c == consumer_pause(b)
<1>1. player_pause(s, env) =
        IF s.cs = "STOPPED" THEN player_status_changed(StartPlaying(s, env))
        ELSE IF s.ip # "null" /\ s.file \in Remote THEN a
        ELSE player_status_changed(c)
  BY DEF player_pause
<1>2. CASE s.cs = "STOPPED"
  <2>1. Core(StartPlaying(s, env))
    BY <1>0, StartPlayingCore
  <2>2. player_pause(s, env) = player_status_changed(StartPlaying(s, env))
    BY <1>1, <1>2
  <2> QED  BY <2>1, <2>2, StatusChanged
<1>3. CASE s.cs # "STOPPED"
  <2>1. s.ip = "open" /\ s.ps = s.cs /\ s.op # "closed" /\ ProducerOK(s)
    BY <1>0, <1>3, PlayingIsOpen DEF Core
  <2>2. a = s
    BY <2>1, RequireHolds DEF ProducerOK
  <2>3. player_pause(s, env) =
          IF s.ip # "null" /\ s.file \in Remote THEN s ELSE player_status_changed(c)
    BY <1>1, <1>3, <2>2
  <2> HIDE DEF a
  <2>4. /\ ProducerOK(b) /\ SameConsumer(s, b) /\ SameInfo(s, b)
        /\ b.file = s.file /\ b.status = s.status
        /\ b.ps = IF s.ps = "PLAYING" THEN "PAUSED"
                  ELSE IF s.ps = "PAUSED" THEN "PLAYING" ELSE s.ps
    BY <2>1, <2>2, ProducerPause
  <2> HIDE DEF b
  <2>5. /\ ProducerOK(c) /\ SameProducer(b, c) /\ SameInfo(b, c) /\ ConsumerOK(c)
        /\ c.op_sf = b.op_sf /\ c.buffer_sf = b.buffer_sf
        /\ c.ps = c.cs /\ c.cs # "STOPPED"
    <3>1. CASE s.cs = "PLAYING"
      <4> DEFINE d == op_pause(b)
      <4>1. c = [d EXCEPT !.cs = "PAUSED"]
        BY <2>4, <3>1 DEF consumer_pause, SameConsumer
      <4>2. b.op = "open" /\ b.ps = "PAUSED"
        BY <1>0, <2>1, <2>4, <3>1 DEF Core, ConsumerOK, SameConsumer
      <4>3. /\ ProducerOK(d) /\ SameProducer(b, d) /\ SameInfo(b, d)
            /\ d.op = "paused" /\ d.op_sf = b.op_sf /\ d.buffer_sf = b.buffer_sf
        BY <2>4, <4>2, Pause
      <4> HIDE DEF d, c
      <4>4. /\ ProducerOK(c) /\ SameProducer(d, c) /\ SameInfo(d, c)
            /\ c.op = d.op /\ c.op_sf = d.op_sf /\ c.buffer_sf = d.buffer_sf /\ c.cs = "PAUSED"
        BY <4>1, <4>3, SetCs
      <4> QED  BY <4>2, <4>3, <4>4 DEF ConsumerOK, SameProducer, SameInfo
    <3>2. CASE s.cs = "PAUSED"
      <4>1. c = [op_unpause(b) EXCEPT !.cs = "PLAYING"]
        BY <2>4, <3>2 DEF consumer_pause, SameConsumer
      <4>2. b.op = "paused" /\ b.ps = "PLAYING"
        BY <1>0, <2>1, <2>4, <3>2 DEF Core, ConsumerOK, SameConsumer, ProducerOK, PlayerStates
      <4> HIDE DEF c
      <4>3. /\ ProducerOK(c) /\ SameProducer(b, c) /\ SameInfo(b, c)
            /\ c.op = "open" /\ c.op_sf = b.op_sf /\ c.buffer_sf = b.buffer_sf /\ c.cs = "PLAYING"
        BY <2>4, <4>1, <4>2, Unpause
      <4> QED  BY <4>2, <4>3 DEF ConsumerOK, SameProducer
    <3> QED  BY <1>0, <1>3, <3>1, <3>2
  <2> HIDE DEF c
  <2>6. Shown(c)
    BY <1>0, <1>3, <2>1, <2>4, <2>5 DEF Core, Shown, Balanced, SameProducer, SameInfo, ProducerOK
  <2>7. c.file = s.file /\ c.op_sf = s.op_sf /\ c.buffer_sf = s.buffer_sf
    BY <2>4, <2>5 DEF SameProducer, SameConsumer
  <2>8. FormatOK(c)
    BY <1>0, <1>3, <2>7 DEF Core, FormatOK
  <2>9. Core(c)
    BY <2>5, <2>6, <2>8 DEF Core, Paired
  <2>10. Good(player_status_changed(c))
    BY <2>9, StatusChanged
  <2> QED  BY <2>3, <2>10
<1> QED  BY <1>2, <1>3

(* A newly set file is played in place of what the device was playing.     *)
LEMMA PlayNewFile ==
    ASSUME NEW a, ProducerOK(a), ConsumerOK(a), DeviceOK(a), Shown(a), a.ps = "STOPPED",
           NEW env \in Env
    PROVE  LET b == producer_play(a, env)
           IN  /\ b.cs = a.cs /\ b.ps \in {"PLAYING", "UNLOADED"}
               /\ ProducerOK(b) /\ ConsumerOK(b) /\ Shown(b)
               /\ b.ps = "UNLOADED" => Core(consumer_stop(b))
               /\ b.ps = "PLAYING" /\ b.cs # "STOPPED" => Core(change_sf(b, env.device))
<1> DEFINE b == producer_play(a, env)
<1>1. /\ ProducerOK(b) /\ SameConsumer(a, b) /\ SameInfo(a, b) /\ b.file = a.file
      /\ b.ps \in {"PLAYING", "UNLOADED"}
  BY ProducerPlayLoaded
<1> HIDE DEF b
<1>2. ConsumerOK(b) /\ DeviceOK(b) /\ b.cs = a.cs
  BY <1>1 DEF ConsumerOK, DeviceOK, SameConsumer
<1>3. Shown(b)
  BY <1>1 DEF Shown, Balanced, SameInfo
<1>4. ASSUME b.ps = "UNLOADED" PROVE Core(consumer_stop(b))
  <2> DEFINE r == consumer_stop(b)
  <2>1. /\ ProducerOK(r) /\ ConsumerOK(r) /\ Shown(r) /\ r.cs = "STOPPED" /\ r.ps = b.ps
    BY <1>1, <1>2, <1>3, ConsumerStopShown
  <2> HIDE DEF r
  <2>2. Core(r)
    BY <1>4, <2>1, StoppedIsCore
  <2> QED  BY <2>2 DEF r
<1>5. ASSUME b.ps = "PLAYING", b.cs # "STOPPED" PROVE Core(change_sf(b, env.device))
  <2> DEFINE r == change_sf(b, env.device)
  <2>1. env.device \in BOOLEAN
    BY DEF Env
  <2>2. /\ ProducerOK(r) /\ ConsumerOK(r) /\ FormatOK(r) /\ SameInfo(b, r)
        /\ r.file = b.file
        /\ \/ r.cs = "PLAYING" /\ r.ps = "PLAYING"
           \/ r.cs = "STOPPED" /\ r.ps = "STOPPED"
    BY <1>1, <1>2, <1>5, <2>1, ChangeSf
  <2> HIDE DEF r
  <2>3. Shown(r)
    BY <1>3, <1>5, <2>2 DEF Shown, Balanced, SameInfo
  <2>4. Core(r)
    BY <2>2, <2>3 DEF Core, Paired
  <2> QED  BY <2>4 DEF r
<1> QED  BY <1>1, <1>2, <1>3, <1>4, <1>5 DEF b

LEMMA SetFileFacts ==
    ASSUME NEW s, Core(s), NEW t \in Tracks
    PROVE  LET a == producer_set_file(s, t)
           IN  /\ ProducerOK(a) /\ ConsumerOK(a) /\ DeviceOK(a) /\ Shown(a)
               /\ a.ps = "STOPPED" /\ a.cs = s.cs
<1> DEFINE a == producer_set_file(s, t)
<1>1. /\ ProducerOK(a) /\ SameConsumer(s, a) /\ Shown(a) /\ a.ps = "STOPPED"
  BY ProducerSetFile DEF Core, Shown
<1> HIDE DEF a
<1>2. ConsumerOK(a) /\ a.cs = s.cs
  BY <1>1 DEF Core, ConsumerOK, SameConsumer
<1>3. DeviceOK(a)
  BY <1>1 DEF Core, FormatOK, DeviceOK, SameConsumer
<1> QED  BY <1>1, <1>2, <1>3 DEF a

LEMMA SetFileGood ==
    ASSUME NEW s, Core(s), NEW t \in Tracks, NEW env \in Env
    PROVE  Good(player_set_file(s, t, env))
<1> DEFINE a == producer_set_file(s, t)
           b == producer_play(a, env)
           r == IF a.cs = "STOPPED" THEN a
                ELSE IF b.ps = "UNLOADED" THEN consumer_stop(b)
                ELSE change_sf(b, env.device)
<1>1. player_set_file(s, t, env) = player_status_changed(r)
  BY DEF player_set_file
<1>2. /\ ProducerOK(a) /\ ConsumerOK(a) /\ DeviceOK(a) /\ Shown(a) /\ a.ps = "STOPPED"
  BY SetFileFacts
<1> HIDE DEF a
<1>3. /\ b.cs = a.cs /\ b.ps \in {"PLAYING", "UNLOADED"}
      /\ b.ps = "UNLOADED" => Core(consumer_stop(b))
      /\ b.ps = "PLAYING" /\ b.cs # "STOPPED" => Core(change_sf(b, env.device))
  BY <1>2, PlayNewFile
<1> HIDE DEF b
<1>4. a.cs = "STOPPED" => Core(a)
  BY <1>2, StoppedIsCore
<1>5. Core(r)
  BY <1>3, <1>4
<1> HIDE DEF r
<1> QED  BY <1>1, <1>5, StatusChanged

LEMMA PlayFileGood ==
    ASSUME NEW s, Core(s), NEW t \in Tracks, NEW env \in Env
    PROVE  Good(player_play_file(s, t, env))
<1> DEFINE a == producer_set_file(s, t)
           b == producer_play(a, env)
           c == consumer_play(b, env.device)
           r == IF b.ps = "UNLOADED" THEN consumer_stop(b)
                ELSE IF b.cs = "STOPPED"
                     THEN IF c.cs = "STOPPED" THEN producer_stop(c) ELSE c
                ELSE change_sf(b, env.device)
<1>1. player_play_file(s, t, env) = player_status_changed(r)
  BY DEF player_play_file
<1>2. /\ ProducerOK(a) /\ ConsumerOK(a) /\ DeviceOK(a) /\ Shown(a) /\ a.ps = "STOPPED"
  BY SetFileFacts
<1> HIDE DEF a
<1>3. /\ b.cs = a.cs /\ b.ps \in {"PLAYING", "UNLOADED"}
      /\ ProducerOK(b) /\ ConsumerOK(b) /\ Shown(b)
      /\ b.ps = "UNLOADED" => Core(consumer_stop(b))
      /\ b.ps = "PLAYING" /\ b.cs # "STOPPED" => Core(change_sf(b, env.device))
  BY <1>2, PlayNewFile
<1> HIDE DEF b
<1>4. ASSUME b.ps = "PLAYING", b.cs = "STOPPED"
      PROVE  Core(IF c.cs = "STOPPED" THEN producer_stop(c) ELSE c)
  <2>1. env.device \in BOOLEAN /\ FormatOK(b)
    BY <1>4 DEF Env, FormatOK
  <2>2. /\ ProducerOK(c) /\ ConsumerOK(c) /\ FormatOK(c)
        /\ SameProducer(b, c) /\ SameInfo(b, c)
        /\ c.cs \in {"PLAYING", "STOPPED"}
    BY <1>3, <1>4, <2>1, ConsumerPlay
  <2> HIDE DEF c
  <2>3. c.ps = "PLAYING" /\ Shown(c)
    BY <1>3, <1>4, <2>2 DEF Shown, Balanced, SameProducer, SameInfo
  <2>4. CASE c.cs = "STOPPED"
    <3> DEFINE d == producer_stop(c)
    <3>1. /\ ProducerOK(d) /\ ConsumerOK(d) /\ Shown(d) /\ d.cs = c.cs
          /\ d.ps \in {"UNLOADED", "STOPPED"}
      BY <2>2, <2>3, ProducerStopShown
    <3> HIDE DEF d
    <3>2. Core(d)
      BY <2>4, <3>1, StoppedIsCore
    <3> QED  BY <2>4, <3>2 DEF d
  <2>5. CASE c.cs = "PLAYING"
    <3>1. Core(c)
      BY <2>2, <2>3, <2>5 DEF Core, Paired
    <3> QED  BY <2>5, <3>1
  <2> QED  BY <2>2, <2>4, <2>5
<1> HIDE DEF c
<1>5. Core(r)
  BY <1>3, <1>4
<1> HIDE DEF r
<1> QED  BY <1>1, <1>5, StatusChanged

(* ip_seek changes eof only; the buffer may be emptied at any time.        *)
LEMMA SeekGood ==
    ASSUME NEW s, Good(s), s.ip = "open", NEW ok \in BOOLEAN
    PROVE  LET r == ip_seek(s, ok)
           IN  /\ Good(r) /\ r.cs = s.cs /\ r.ps = s.ps /\ r.op = s.op
<1> DEFINE e == IF SeekOk(s, ok) THEN FALSE ELSE s.eof
           r == [s EXCEPT !.eof = e]
<1>1. Require(s, s.ip = "open") = s
  BY RequireHolds DEF Good, Core, ProducerOK
<1>2. ip_seek(s, ok) = r
  BY <1>1 DEF ip_seek
<1>3. e \in BOOLEAN /\ s \in PlayerStates
  BY DEF Good, Core, ProducerOK, PlayerStates
<1> HIDE DEF e
<1>4. /\ r \in PlayerStates /\ SameProducer(s, r) /\ SameConsumer(s, r) /\ SameInfo(s, r)
      /\ r.status = s.status /\ (~s.bug => ~r.bug)
  BY <1>3 DEF PlayerStates, SameProducer, SameConsumer, SameInfo
<1> HIDE DEF r
<1>5. ProducerOK(r) /\ ConsumerOK(r) /\ Paired(r) /\ Lags(r)
  BY <1>4 DEF Good, Core, ProducerOK, ConsumerOK, Paired, Lags, SameProducer, SameConsumer
<1>6. FormatOK(r) /\ Shown(r)
  BY <1>4 DEF Good, Core, FormatOK, Shown, Balanced, SameProducer, SameConsumer, SameInfo
<1> QED  BY <1>2, <1>4, <1>5, <1>6 DEF Good, Core, SameProducer, SameConsumer

(* Any part of the track's bytes may be in the buffer while it is open.    *)
LEMMA BufferCore ==
    ASSUME NEW s, Core(s), NEW buf \in SUBSET {s.file}, buf = {} \/ s.ip = "open"
    PROVE  LET r == [s EXCEPT !.buffer = buf]
           IN  /\ Core(r) /\ r.cs = s.cs /\ r.ps = s.ps /\ r.status = s.status
<1> DEFINE r == [s EXCEPT !.buffer = buf]
<1>1. s \in PlayerStates /\ ~s.bug /\ (s.ip = "open" => s.file \in Tracks)
  BY DEF Core, ProducerOK, PlayerStates
<1>2. buf \in SUBSET Tracks
  BY <1>1
<1>3. /\ r \in PlayerStates /\ ~r.bug /\ r.ps = s.ps /\ r.ip = s.ip /\ r.file = s.file
      /\ r.buffer = buf /\ SameConsumer(s, r) /\ SameInfo(s, r) /\ r.status = s.status
  BY <1>1, <1>2 DEF PlayerStates, SameConsumer, SameInfo
<1> HIDE DEF r
<1>4. ProducerOK(r)
  BY <1>1, <1>3 DEF Core, ProducerOK
<1>5. ConsumerOK(r) /\ Paired(r)
  BY <1>3 DEF Core, ConsumerOK, Paired, SameConsumer
<1>6. FormatOK(r) /\ Shown(r)
  BY <1>3 DEF Core, FormatOK, Shown, Balanced, SameConsumer, SameInfo
<1> QED  BY <1>3, <1>4, <1>5, <1>6 DEF Core, SameConsumer, r

LEMMA BufferGood ==
    ASSUME NEW s, Good(s), NEW buf \in SUBSET {s.file}, buf = {} \/ s.ip = "open"
    PROVE  LET r == [s EXCEPT !.buffer = buf]
           IN  /\ Good(r) /\ r.cs = s.cs /\ r.ps = s.ps
<1> DEFINE r == [s EXCEPT !.buffer = buf]
<1>1. /\ Core(r) /\ r.cs = s.cs /\ r.ps = s.ps /\ r.status = s.status
  BY BufferCore DEF Good
<1> HIDE DEF r
<1>2. Good(r)
  BY <1>1 DEF Good, Lags
<1> QED  BY <1>1, <1>2 DEF r

LEMMA PlayerSeekGood ==
    ASSUME NEW s, Good(s), NEW env \in Env, NEW legal \in BOOLEAN, NEW ok \in BOOLEAN
    PROVE  Good(player_seek(s, env, legal, ok))
<1> DEFINE b == StartPlaying(s, env)
           a == IF s.cs # "STOPPED" THEN s
                ELSE IF b.cs = "PLAYING" THEN player_status_changed(b) ELSE b
           c == ip_seek(a, ok)
<1>1. player_seek(s, env, legal, ok) =
        IF a.cs = "STOPPED" \/ a.file \in Remote \/ ~legal THEN a
        ELSE IF ok THEN reset_buffer(op_drop(c)) ELSE c
  BY DEF player_seek
<1>2. Good(a)
  <2>1. CASE s.cs # "STOPPED"
    BY <2>1
  <2>2. CASE s.cs = "STOPPED"
    <3>1. Core(s) /\ s.status = "STOPPED"
      BY <2>2 DEF Good, Lags
    <3>2. /\ Core(b)
          /\ b.cs # "PLAYING" => b.cs = "STOPPED" /\ b.status = "STOPPED"
      BY <2>2, <3>1, StartPlayingCore
    <3> HIDE DEF b
    <3>3. Good(player_status_changed(b))
      BY <3>2, StatusChanged
    <3>4. b.cs # "PLAYING" => Good(b)
      BY <3>2 DEF Good, Lags
    <3> QED  BY <2>2, <3>3, <3>4
  <2> QED  BY <2>1, <2>2
<1> HIDE DEF a
<1>3. CASE a.cs = "STOPPED" \/ a.file \in Remote \/ ~legal
  BY <1>1, <1>2, <1>3
<1>4. CASE ~(a.cs = "STOPPED" \/ a.file \in Remote \/ ~legal)
  <2>1. a.ip = "open" /\ a.op # "closed"
    BY <1>2, <1>4, PlayingIsOpen DEF Good
  <2>2. Good(c) /\ c.op = a.op
    BY <1>2, <2>1, SeekGood
  <2> HIDE DEF c
  <2>3. op_drop(c) = c
    BY <2>1, <2>2, OpClose DEF Good, Core
  <2>4. Good(reset_buffer(c))
    BY <2>2, BufferGood DEF reset_buffer
  <2> QED  BY <1>1, <1>4, <2>2, <2>3, <2>4
<1> QED  BY <1>3, <1>4

(* Giving up on the device: stopped, published, nothing playing.           *)
LEMMA GiveUp ==
    ASSUME NEW a, ProducerOK(a), Shown(a), a.op = "closed"
    PROVE  Good(player_error(producer_stop([a EXCEPT !.cs = "STOPPED"])))
<1> DEFINE b == [a EXCEPT !.cs = "STOPPED"]
           c == producer_stop(b)
           r == player_error(c)
<1>1. /\ ProducerOK(b) /\ SameProducer(a, b) /\ SameInfo(a, b) /\ b.op = a.op /\ b.cs = "STOPPED"
  BY SetCs
<1> HIDE DEF b
<1>2. Shown(b) /\ ConsumerOK(b)
  BY <1>1 DEF Shown, Balanced, SameProducer, SameInfo, ConsumerOK
<1>3. /\ ProducerOK(c) /\ ConsumerOK(c) /\ Shown(c) /\ c.cs = "STOPPED"
      /\ c.ps \in {"UNLOADED", "STOPPED"}
  BY <1>1, <1>2, ProducerStopShown
<1> HIDE DEF c
<1>4. /\ ProducerOK(r) /\ SameProducer(c, r) /\ SameInfo(c, r) /\ SameConsumer(c, r)
      /\ r.status = c.cs
  BY <1>3, PlayerError
<1> HIDE DEF r
<1>5. ConsumerOK(r) /\ Shown(r) /\ r.cs = "STOPPED" /\ r.ps # "PAUSED" /\ Lags(r)
  BY <1>3, <1>4 DEF Shown, Balanced, SameProducer, SameInfo, SameConsumer, ConsumerOK, Lags
<1>6. Core(r)
  BY <1>4, <1>5, StoppedIsCore
<1>7. Good(r)
  BY <1>5, <1>6 DEF Good
<1> QED  BY <1>7 DEF r, c, b

LEMMA SetOpGood ==
    ASSUME NEW s, Good(s), NEW env \in Env, NEW selected \in BOOLEAN
    PROVE  Good(player_set_op(s, env, selected))
<1> DEFINE a == IF s.cs = "STOPPED" THEN s
                ELSE op_close(IF s.cs = "PAUSED" THEN op_drop(s) ELSE s)
           d == set_buffer_sf(a)
           b == op_open(d, env.device)
<1>0. /\ Core(s) /\ ProducerOK(s) /\ Shown(s) /\ ConsumerOK(s)
      /\ env.device \in BOOLEAN /\ s.cs \in {"STOPPED", "PLAYING", "PAUSED"}
  BY DEF Good, Core, Env, ProducerOK, PlayerStates
<1>1. player_set_op(s, env, selected) =
        IF ~selected THEN player_error(producer_stop([a EXCEPT !.cs = "STOPPED"]))
        ELSE IF s.cs = "STOPPED" THEN a
        ELSE IF ~env.device THEN player_error(producer_stop([b EXCEPT !.cs = "STOPPED"]))
        ELSE IF s.cs = "PAUSED" THEN op_pause(b) ELSE b
  BY DEF player_set_op
<1>2. CASE s.cs = "STOPPED"
  <2>1. a = s /\ s.op = "closed"
    BY <1>0, <1>2 DEF ConsumerOK
  <2>2. Good(player_error(producer_stop([s EXCEPT !.cs = "STOPPED"])))
    BY <1>0, <2>1, GiveUp
  <2> QED  BY <1>1, <1>2, <2>1, <2>2
<1>3. CASE s.cs # "STOPPED"
  <2>1. s.op # "closed" /\ s.ps = s.cs /\ s.ps \in {"PLAYING", "PAUSED"}
    BY <1>0, <1>3, PlayingIsOpen
  <2>2. a = op_close(s)
    BY <1>0, <1>3, <2>1, OpClose
  <2>3. /\ ProducerOK(a) /\ SameProducer(s, a) /\ SameInfo(s, a)
        /\ a.cs = s.cs /\ a.status = s.status /\ a.op = "closed"
    BY <1>0, <2>1, <2>2, OpClose
  <2> HIDE DEF a
  <2>4. Shown(a) /\ a.ps = s.ps /\ a.file = s.file
    BY <1>0, <2>3 DEF Shown, Balanced, SameProducer, SameInfo
  <2>5. /\ ProducerOK(d) /\ SameProducer(a, d) /\ SameInfo(a, d)
        /\ d.cs = a.cs /\ d.op = a.op /\ d.status = a.status
        /\ d.buffer_sf = BufferFormat(SampleFormat[a.file])
    BY <2>1, <2>3, <2>4, SetBufferSf
  <2> HIDE DEF d
  <2>6. /\ ProducerOK(b) /\ SameProducer(d, b) /\ SameInfo(d, b)
        /\ b.cs = d.cs /\ b.buffer_sf = d.buffer_sf /\ b.status = d.status
        /\ env.device => b.op = "open" /\ b.op_sf = d.buffer_sf
        /\ ~env.device => b.op = "closed"
    BY <1>0, <2>3, <2>5, OpOpen
  <2> HIDE DEF b
  <2>7. /\ Shown(b) /\ b.ps = s.ps /\ b.file = s.file /\ b.cs = s.cs /\ b.status = s.status
        /\ b.buffer_sf = BufferFormat(SampleFormat[s.file])
    BY <2>3, <2>4, <2>5, <2>6 DEF Shown, Balanced, SameProducer, SameInfo
  <2>8. CASE ~selected
    <3>1. player_set_op(s, env, selected) =
            player_error(producer_stop([a EXCEPT !.cs = "STOPPED"]))
      BY <1>1, <2>8
    <3> QED  BY <2>3, <2>4, <3>1, GiveUp
  <2>9. CASE selected /\ ~env.device
    <3>1. player_set_op(s, env, selected) =
            player_error(producer_stop([b EXCEPT !.cs = "STOPPED"]))
      BY <1>1, <1>3, <2>9
    <3> QED  BY <2>6, <2>7, <2>9, <3>1, GiveUp
  <2>10. CASE selected /\ env.device
    <3> DEFINE r == IF s.cs = "PAUSED" THEN op_pause(b) ELSE b
    <3>1. player_set_op(s, env, selected) = r
      BY <1>1, <1>3, <2>10
    <3>2. /\ ProducerOK(r) /\ SameProducer(b, r) /\ SameInfo(b, r)
          /\ r.op = (IF s.cs = "PAUSED" THEN "paused" ELSE "open")
          /\ r.op_sf = b.op_sf /\ r.buffer_sf = b.buffer_sf /\ r.status = b.status /\ r.cs = b.cs
      <4>1. CASE s.cs = "PAUSED"
        <5>1. r = op_pause(b) /\ b.op = "open"
          BY <2>6, <2>10, <4>1
        <5> HIDE DEF r
        <5> QED  BY <2>6, <4>1, <5>1, Pause
      <4>2. CASE s.cs # "PAUSED"
        BY <2>6, <2>10, <4>2 DEF SameProducer, SameInfo
      <4> QED  BY <4>1, <4>2
    <3> HIDE DEF r
    <3>3. r.ps = s.ps /\ r.cs = s.cs /\ r.status = s.status /\ r.file = s.file
      BY <2>7, <3>2 DEF SameProducer
    <3>4. Shown(r)
      BY <2>7, <3>2 DEF Shown, Balanced, SameProducer, SameInfo
    <3>5. ConsumerOK(r) /\ Paired(r) /\ Lags(r)
      BY <1>0, <1>3, <2>1, <3>2, <3>3 DEF ConsumerOK, Paired, Lags, Good
    <3>6. FormatOK(r)
      BY <2>6, <2>7, <2>10, <3>2, <3>3 DEF FormatOK
    <3> QED  BY <3>1, <3>2, <3>4, <3>5, <3>6 DEF Good, Core
  <2> QED  BY <2>8, <2>9, <2>10
<1> QED  BY <1>2, <1>3

LEMMA SetBufferChunksGood ==
    ASSUME NEW s, Core(s)
    PROVE  Good(player_set_buffer_chunks(s))
<1> DEFINE a == producer_stop(s)
           b == consumer_stop(a)
           c == reset_buffer(b)
<1>1. player_set_buffer_chunks(s) = player_status_changed(c)
  BY DEF player_set_buffer_chunks
<1>2. /\ ProducerOK(a) /\ ConsumerOK(a) /\ Shown(a) /\ a.ps \in {"UNLOADED", "STOPPED"}
  BY ProducerStopShown DEF Core
<1> HIDE DEF a
<1>3. /\ ProducerOK(b) /\ ConsumerOK(b) /\ Shown(b) /\ b.cs = "STOPPED" /\ b.ps = a.ps
  BY <1>2, ConsumerStopShown
<1> HIDE DEF b
<1>4. Core(b)
  BY <1>2, <1>3, StoppedIsCore
<1>5. Core(c)
  BY <1>4, BufferCore DEF reset_buffer
<1> HIDE DEF c
<1> QED  BY <1>1, <1>5, StatusChanged

-----------------------------------------------------------------------------
(* __consumer_handle_eof                                                   *)

(* A new handle for the next track, on which a reference is held; the      *)
(* previous track is still the one shown.                                  *)
LEMMA EofLoadsNext ==
    ASSUME NEW s, ProducerOK(s), NEW t \in Tracks
    PROVE  LET a == [ip_new(producer_unload(track_info_ref(s, t)), t) EXCEPT !.ps = "STOPPED"]
           IN  /\ ProducerOK(a) /\ SameConsumer(s, a) /\ a.status = s.status
               /\ a.ps = "STOPPED" /\ a.file = t /\ a.ti = s.ti
               /\ a.held = [s.held EXCEPT ![t] = s.held[t] + 1]
<1> DEFINE b == track_info_ref(s, t)
           u == producer_unload(b)
           c == [ip_new(u, t) EXCEPT !.ps = "STOPPED"]
<1>1. /\ ProducerOK(b) /\ SameConsumer(s, b) /\ b.status = s.status
      /\ b.ti = s.ti /\ b.held = [s.held EXCEPT ![t] = s.held[t] + 1]
  BY TakeRef
<1> HIDE DEF b
<1>2. /\ ProducerOK(u) /\ SameConsumer(b, u) /\ SameInfo(b, u) /\ u.status = b.status
      /\ u.ps = "UNLOADED"
  BY <1>1, ProducerUnload
<1> HIDE DEF u
<1>3. ip_new(u, t) = [u EXCEPT !.ip = "closed", !.file = t, !.eof = FALSE] /\ ProducerOK(c)
  BY <1>2, NewTrack
<1>4. SameConsumer(u, c) /\ SameInfo(u, c) /\ c.status = u.status /\ c.ps = "STOPPED" /\ c.file = t
  BY <1>2, <1>3 DEF ProducerOK, PlayerStates, SameConsumer, SameInfo
<1> HIDE DEF c
<1>5. /\ ProducerOK(c) /\ SameConsumer(s, c) /\ c.status = s.status
      /\ c.ps = "STOPPED" /\ c.file = t /\ c.ti = s.ti
      /\ c.held = [s.held EXCEPT ![t] = s.held[t] + 1]
  BY <1>1, <1>2, <1>3, <1>4 DEF SameConsumer, SameInfo
<1> QED  BY <1>5 DEF c, u, b

(* file_changed makes the next track the one shown.                        *)
LEMMA ShowNext ==
    ASSUME NEW s \in PlayerStates, Balanced(s), NEW t \in Tracks,
           NEW a, ProducerOK(a), a.file = t, a.ti = s.ti,
           a.held = [s.held EXCEPT ![t] = s.held[t] + 1]
    PROVE  LET r == file_changed(a, t)
           IN  ProducerOK(r) /\ SameProducer(a, r) /\ SameConsumer(a, r) /\ Shown(r)
<1> DEFINE r == file_changed(a, t)
<1>1. /\ r \in PlayerStates /\ r.ti = t /\ Balanced(r) /\ ~r.bug
      /\ SameProducer(a, r) /\ SameConsumer(a, r)
  BY RefThenChange DEF ProducerOK
<1> HIDE DEF r
<1>2. ProducerOK(r) /\ Shown(r)
  BY <1>1 DEF ProducerOK, Shown, SameProducer
<1> QED  BY <1>1, <1>2 DEF r

(* The reference is given back when the track cannot be opened.            *)
LEMMA ForgetNext ==
    ASSUME NEW s \in PlayerStates, Balanced(s), NEW t \in Tracks,
           NEW a, ProducerOK(a), a.ps = "UNLOADED", a.ti = s.ti,
           a.held = [s.held EXCEPT ![t] = s.held[t] + 1]
    PROVE  LET r == file_changed(track_info_unref(a, t), NoTrack)
           IN  ProducerOK(r) /\ SameProducer(a, r) /\ SameConsumer(a, r) /\ Shown(r)
<1> DEFINE g == track_info_unref(a, t)
           r == file_changed(g, NoTrack)
<1>1. /\ ProducerOK(g) /\ SameConsumer(a, g) /\ SameProducer(a, g) /\ g.ti = a.ti
      /\ g.held = [a.held EXCEPT ![t] = a.held[t] - 1]
  BY DEF ProducerOK, PlayerStates, SameConsumer, SameProducer, track_info_unref
<1> HIDE DEF g
<1>2. Balanced(g)
  <2>1. s.held \in [Tracks -> Int]
    BY DEF PlayerStates
  <2>2. \A x \in Tracks : g.held[x] = s.held[x]
    BY <1>1, <2>1
  <2> QED  BY <1>1, <2>2 DEF Balanced
<1>3. /\ r \in PlayerStates /\ r.ti = NoTrack /\ Balanced(r) /\ ~r.bug
      /\ SameProducer(g, r) /\ SameConsumer(g, r)
  BY <1>1, <1>2, ChangeToNone DEF ProducerOK
<1> HIDE DEF r
<1>4. ProducerOK(r) /\ SameProducer(a, r) /\ SameConsumer(a, r) /\ Shown(r)
  BY <1>1, <1>3 DEF ProducerOK, Shown, SameProducer, SameConsumer
<1> QED  BY <1>4 DEF r, g

(* The next track, when player_cont is set and when it is not.             *)
LEMMA EofNext ==
    ASSUME NEW s, Core(s), s.cs = "PLAYING", NEW env \in Env, env.next # NoTrack,
           NEW cont \in BOOLEAN
    PROVE  LET a == [ip_new(producer_unload(track_info_ref(s, env.next)), env.next)
                       EXCEPT !.ps = "STOPPED"]
               b == producer_play(a, env)
               r == IF ~cont THEN file_changed(consumer_drain_and_stop(a), env.next)
                    ELSE IF b.ps = "UNLOADED"
                         THEN file_changed(track_info_unref(consumer_stop(b), env.next), NoTrack)
                         ELSE change_sf(file_changed(b, env.next), env.device)
           IN  Core(r) /\ (r.ps = "PLAYING" => r.cs = "PLAYING")
<1> DEFINE t == env.next
           a == [ip_new(producer_unload(track_info_ref(s, t)), t) EXCEPT !.ps = "STOPPED"]
           b == producer_play(a, env)
<1>0. /\ t \in Tracks /\ env.device \in BOOLEAN /\ ProducerOK(s) /\ s \in PlayerStates
      /\ ConsumerOK(s) /\ FormatOK(s) /\ Balanced(s)
  BY DEF Env, Core, ProducerOK, Shown
<1>1. /\ ProducerOK(a) /\ SameConsumer(s, a)
      /\ a.ps = "STOPPED" /\ a.file = t /\ a.ti = s.ti
      /\ a.held = [s.held EXCEPT ![t] = s.held[t] + 1]
  <2> HIDE DEF t
  <2> QED  BY <1>0, EofLoadsNext
<1> HIDE DEF a
<1>2. ConsumerOK(a) /\ DeviceOK(a) /\ a.cs = "PLAYING"
  BY <1>0, <1>1 DEF ConsumerOK, DeviceOK, FormatOK, SameConsumer
<1>3. CASE ~cont
  <2> DEFINE d == consumer_stop(a)
             r == file_changed(d, t)
  <2>1. /\ ProducerOK(d) /\ ConsumerOK(d) /\ SameProducer(a, d) /\ SameInfo(a, d)
        /\ d.cs = "STOPPED" /\ consumer_drain_and_stop(a) = d
    BY <1>1, <1>2, ConsumerStop
  <2> HIDE DEF d
  <2>2. d.file = t /\ d.ti = s.ti /\ d.held = [s.held EXCEPT ![t] = s.held[t] + 1]
    BY <1>1, <2>1 DEF SameProducer, SameInfo
  <2>3. ProducerOK(r) /\ SameProducer(d, r) /\ SameConsumer(d, r) /\ Shown(r)
    <3> HIDE DEF t
    <3> QED  BY <1>0, <2>1, <2>2, ShowNext
  <2> HIDE DEF r
  <2>4. ConsumerOK(r) /\ r.cs = "STOPPED" /\ r.ps = "STOPPED"
    BY <1>1, <2>1, <2>3 DEF ConsumerOK, SameProducer, SameConsumer
  <2>5. Core(r) /\ r.ps # "PLAYING"
    BY <2>3, <2>4, StoppedIsCore
  <2> QED  BY <1>3, <2>1, <2>5 DEF r, a, b
<1>4. ASSUME cont
      PROVE  /\ ProducerOK(b) /\ ConsumerOK(b) /\ DeviceOK(b) /\ b.cs = "PLAYING"
             /\ b.file = t /\ b.ti = s.ti /\ b.held = [s.held EXCEPT ![t] = s.held[t] + 1]
             /\ b.ps \in {"PLAYING", "UNLOADED"}
  <2>1. /\ ProducerOK(b) /\ SameConsumer(a, b) /\ SameInfo(a, b) /\ b.file = a.file
        /\ b.ps \in {"PLAYING", "UNLOADED"}
    BY <1>1, ProducerPlayLoaded
  <2> HIDE DEF b
  <2> QED  BY <1>1, <1>2, <2>1 DEF ConsumerOK, DeviceOK, SameConsumer, SameInfo
<1> HIDE DEF b
<1>5. CASE cont /\ b.ps = "UNLOADED"
  <2> DEFINE d == consumer_stop(b)
             r == file_changed(track_info_unref(d, t), NoTrack)
  <2>1. /\ ProducerOK(d) /\ ConsumerOK(d) /\ SameProducer(b, d) /\ SameInfo(b, d)
        /\ d.cs = "STOPPED"
    BY <1>4, <1>5, ConsumerStop
  <2> HIDE DEF d
  <2>2. d.ps = "UNLOADED" /\ d.ti = s.ti /\ d.held = [s.held EXCEPT ![t] = s.held[t] + 1]
    BY <1>4, <1>5, <2>1 DEF SameProducer, SameInfo
  <2>3. ProducerOK(r) /\ SameProducer(d, r) /\ SameConsumer(d, r) /\ Shown(r)
    <3> HIDE DEF t
    <3> QED  BY <1>0, <2>1, <2>2, ForgetNext
  <2> HIDE DEF r
  <2>4. ConsumerOK(r) /\ r.cs = "STOPPED" /\ r.ps = "UNLOADED"
    BY <2>1, <2>2, <2>3 DEF ConsumerOK, SameProducer, SameConsumer
  <2>5. Core(r) /\ r.ps # "PLAYING"
    BY <2>3, <2>4, StoppedIsCore
  <2> QED  BY <1>5, <2>5 DEF r, d, a, b
<1>6. CASE cont /\ b.ps = "PLAYING"
  <2> DEFINE c == file_changed(b, t)
             r == change_sf(c, env.device)
  <2>1. ProducerOK(c) /\ SameProducer(b, c) /\ SameConsumer(b, c) /\ Shown(c)
    <3> HIDE DEF t
    <3> QED  BY <1>0, <1>4, <1>6, ShowNext
  <2> HIDE DEF c
  <2>2. ConsumerOK(c) /\ DeviceOK(c) /\ c.cs # "STOPPED" /\ c.ps = "PLAYING"
    BY <1>4, <1>6, <2>1 DEF ConsumerOK, DeviceOK, SameProducer, SameConsumer
  <2>3. /\ ProducerOK(r) /\ ConsumerOK(r) /\ FormatOK(r) /\ SameInfo(c, r) /\ r.file = c.file
        /\ \/ r.cs = "PLAYING" /\ r.ps = "PLAYING"
           \/ r.cs = "STOPPED" /\ r.ps = "STOPPED"
    BY <1>0, <2>1, <2>2, ChangeSf
  <2> HIDE DEF r
  <2>4. Shown(r) /\ Paired(r)
    BY <2>1, <2>2, <2>3 DEF Shown, Balanced, Paired, SameInfo
  <2>5. Core(r) /\ (r.ps = "PLAYING" => r.cs = "PLAYING")
    BY <2>3, <2>4 DEF Core
  <2> QED  BY <1>6, <2>5 DEF r, c, a, b
<1> QED  BY <1>3, <1>4, <1>5, <1>6

(* The end of a track, whatever comes next: a state between two commands,  *)
(* and __prebuffer follows only if both halves play.                       *)
LEMMA HandleEofGood ==
    ASSUME NEW s, Good(s), s.cs = "PLAYING", NEW env \in Env,
           NEW cont \in BOOLEAN, NEW repeat \in BOOLEAN
    PROVE  LET r == consumer_handle_eof(s, env, cont, repeat)
           IN  Good(r) /\ (~repeat /\ r.ps = "PLAYING" => r.cs = "PLAYING")
<1>0. /\ Core(s) /\ ProducerOK(s) /\ ConsumerOK(s) /\ Shown(s)
      /\ s.ip = "open" /\ s.ps = "PLAYING" /\ env.seek \in BOOLEAN
  BY PlayingIsOpen DEF Good, Core, Env
<1> DEFINE p == producer_stop(s)
           c == consumer_stop(p)
<1>1. Core(c) /\ consumer_drain_and_stop(p) = c /\ c.cs = "STOPPED" /\ c.ps \in {"UNLOADED", "STOPPED"}
  <2>1. /\ ProducerOK(p) /\ ConsumerOK(p) /\ Shown(p) /\ p.ps \in {"UNLOADED", "STOPPED"}
    BY <1>0, ProducerStopShown
  <2> HIDE DEF p
  <2>2. /\ ProducerOK(c) /\ ConsumerOK(c) /\ Shown(c) /\ c.cs = "STOPPED" /\ c.ps = p.ps
        /\ consumer_drain_and_stop(p) = c
    BY <2>1, ConsumerStopShown
  <2> HIDE DEF c
  <2> QED  BY <2>1, <2>2, StoppedIsCore
<1>2. CASE s.file \in Remote
  <2> DEFINE r == player_error(c)
  <2>1. consumer_handle_eof(s, env, cont, repeat) = r
    BY <1>1, <1>2 DEF consumer_handle_eof
  <2> HIDE DEF c, p
  <2>2. /\ ProducerOK(r) /\ SameProducer(c, r) /\ SameInfo(c, r) /\ SameConsumer(c, r)
        /\ r.status = c.cs
    BY <1>1, PlayerError DEF Core
  <2> HIDE DEF r
  <2>3. /\ ConsumerOK(r) /\ Shown(r) /\ r.cs = "STOPPED" /\ r.ps \in {"UNLOADED", "STOPPED"}
        /\ Lags(r)
    BY <1>1, <2>2
       DEF Core, Shown, Balanced, SameProducer, SameInfo, SameConsumer, ConsumerOK, Lags
  <2>4. Core(r)
    BY <2>2, <2>3, StoppedIsCore
  <2> QED  BY <2>1, <2>3, <2>4 DEF Good
<1>3. CASE s.file \notin Remote /\ repeat /\ cont
  <2> DEFINE d == ip_seek(s, env.seek)
  <2>1. consumer_handle_eof(s, env, cont, repeat) = reset_buffer(d)
    BY <1>3 DEF consumer_handle_eof
  <2>2. Good(d)
    BY <1>0, SeekGood
  <2> HIDE DEF d
  <2>3. Good(reset_buffer(d))
    BY <2>2, BufferGood DEF reset_buffer
  <2> QED  BY <1>3, <2>1, <2>3
<1>4. CASE s.file \notin Remote /\ repeat /\ ~cont
  <2>1. consumer_handle_eof(s, env, cont, repeat) = player_status_changed(c)
    BY <1>1, <1>4 DEF consumer_handle_eof
  <2> HIDE DEF c
  <2> QED  BY <1>1, <1>4, <2>1, StatusChanged
<1>5. CASE s.file \notin Remote /\ ~repeat
  <2>1. \E d : /\ Core(d) /\ (d.ps = "PLAYING" => d.cs = "PLAYING")
               /\ consumer_handle_eof(s, env, cont, repeat) = player_status_changed(d)
    <3>1. CASE env.next = NoTrack
      <4> DEFINE u == producer_unload(s)
                 k == consumer_stop(u)
                 d == file_changed(k, NoTrack)
      <4>1. ProducerOK(u) /\ SameConsumer(s, u) /\ SameInfo(s, u) /\ u.ps = "UNLOADED"
        BY <1>0, ProducerUnload
      <4>2. consumer_handle_eof(s, env, cont, repeat) =
              player_status_changed(file_changed(consumer_drain_and_stop(u), NoTrack))
        BY <1>5, <3>1 DEF consumer_handle_eof
      <4> HIDE DEF u
      <4>3. ConsumerOK(u) /\ Balanced(u)
        BY <1>0, <4>1 DEF ConsumerOK, Shown, Balanced, SameConsumer, SameInfo
      <4>4. /\ ProducerOK(k) /\ ConsumerOK(k) /\ SameProducer(u, k) /\ SameInfo(u, k)
            /\ k.cs = "STOPPED" /\ consumer_drain_and_stop(u) = k
        BY <4>1, <4>3, ConsumerStop
      <4> HIDE DEF k
      <4>5. Balanced(k) /\ k.ps = "UNLOADED" /\ k \in PlayerStates /\ ~k.bug
        BY <4>1, <4>3, <4>4 DEF Balanced, SameInfo, SameProducer, ProducerOK
      <4>6. /\ d \in PlayerStates /\ d.ti = NoTrack /\ Balanced(d) /\ ~d.bug
            /\ SameProducer(k, d) /\ SameConsumer(k, d)
        BY <4>5, ChangeToNone
      <4> HIDE DEF d
      <4>7. ProducerOK(d) /\ ConsumerOK(d) /\ Shown(d) /\ d.cs = "STOPPED" /\ d.ps = "UNLOADED"
        BY <4>4, <4>5, <4>6 DEF ProducerOK, ConsumerOK, Shown, SameProducer, SameConsumer
      <4>8. Core(d) /\ d.ps # "PLAYING"
        BY <4>7, StoppedIsCore
      <4> QED  BY <4>2, <4>4, <4>8 DEF d
    <3>2. CASE env.next # NoTrack
      <4> DEFINE a == [ip_new(producer_unload(track_info_ref(s, env.next)), env.next)
                         EXCEPT !.ps = "STOPPED"]
                 b == producer_play(a, env)
                 d == IF ~cont THEN file_changed(consumer_drain_and_stop(a), env.next)
                      ELSE IF b.ps = "UNLOADED"
                           THEN file_changed(track_info_unref(consumer_stop(b), env.next), NoTrack)
                           ELSE change_sf(file_changed(b, env.next), env.device)
      <4>1. Core(d) /\ (d.ps = "PLAYING" => d.cs = "PLAYING")
        BY <1>0, <3>2, EofNext
      <4>2. consumer_handle_eof(s, env, cont, repeat) = player_status_changed(d)
        BY <1>5, <3>2 DEF consumer_handle_eof
      <4> HIDE DEF d
      <4> QED  BY <4>1, <4>2
    <3> QED  BY <3>1, <3>2
  <2>2. PICK d : /\ Core(d) /\ (d.ps = "PLAYING" => d.cs = "PLAYING")
                 /\ consumer_handle_eof(s, env, cont, repeat) = player_status_changed(d)
    BY <2>1
  <2> QED  BY <2>2, StatusChanged DEF SameProducer, SameConsumer
<1> QED  BY <1>2, <1>3, <1>4, <1>5

-----------------------------------------------------------------------------
(* The threads                                                             *)

(* The types of everything but the player's state.                         *)
ThreadTypes ==
    /\ consumer_mutex \in Clients \cup {NoThread, "consumer"}
    /\ producer_mutex \in Clients \cup {NoThread, "consumer", "producer"}
    /\ running \in BOOLEAN
    /\ cpc \in {"lock", "loop", "plock", "recheck", "write", "reopen", "prebuffer", "exited"}
    /\ ppc \in {"lock", "read", "exited"}
    /\ pc \in [Clients -> {"idle", "plock", "body", "prebuffer", "join", "exited"}]

(* The player's state while the loops run, and after player_exit, when     *)
(* each loop tidies up its own half.  While the consumer opens the device  *)
(* again the status shown is not yet the consumer's.                       *)
PlayerOK ==
    /\ ProducerOK(player) /\ ConsumerOK(player) /\ Shown(player)
    /\ running => /\ Paired(player) /\ FormatOK(player)
                  /\ cpc # "reopen" => Lags(player)

(* The statuses a thread found when it took its locks still hold where it  *)
(* relies on them.                                                         *)
Entered ==
    /\ cpc \in {"loop", "plock", "recheck", "write", "prebuffer"} => player.cs = "PLAYING"
    /\ cpc = "reopen" => /\ player.cs = "STOPPED" /\ player.ps = "PLAYING"
                         /\ player.status # "PAUSED"
    /\ ppc = "read" \/ Prebuffering => player.ps = "PLAYING"

(* The inductive invariant.                                                *)
PlayerIInv == ThreadTypes /\ LockInv /\ PlayerOK /\ Entered

(* The discipline of the two mutexes is kept by every step.                *)
LEMMA ThreadsNext ==
    ASSUME ThreadTypes, LockInv, Next
    PROVE  ThreadTypes' /\ LockInv'
<1> USE ThreadAssumption, PlayerAssumption DEF ThreadTypes, LockInv, NoThread, lockVars, threadVars
<1>1. ASSUME NEW c \in Clients, pc[c] = "body", running' = running, cpc' = cpc, ppc' = ppc,
             \/ pc' = [pc EXCEPT ![c] = "prebuffer"] /\ UNCHANGED lockVars
             \/ /\ pc' = [pc EXCEPT ![c] = "idle"]
                /\ consumer_mutex' = NoThread /\ producer_mutex' = NoThread
      PROVE  ThreadTypes' /\ LockInv'
  BY <1>1
<1>2. CASE Producer
  <2>1. CASE ProducerLock  BY <2>1 DEF ProducerLock
  <2>2. CASE ProducerUnlock  BY <2>2 DEF ProducerUnlock
  <2>3. CASE ProducerRead  BY <2>3 DEF ProducerRead
  <2>4. CASE ProducerReadEof  BY <2>4 DEF ProducerReadEof
  <2>5. CASE ProducerExit  BY <2>5 DEF ProducerExit
  <2> QED  BY <1>2, <2>1, <2>2, <2>3, <2>4, <2>5 DEF Producer
<1>3. CASE Consumer
  <2>1. CASE ConsumerLock  BY <2>1 DEF ConsumerLock
  <2>2. CASE ConsumerNoSpace  BY <2>2 DEF ConsumerNoSpace
  <2>3. CASE ConsumerGetRpos  BY <2>3 DEF ConsumerGetRpos
  <2>4. CASE ConsumerLockProducer  BY <2>4 DEF ConsumerLockProducer
  <2>5. CASE ConsumerRecheckData  BY <2>5 DEF ConsumerRecheckData
  <2>6. CASE ConsumerUnderrun  BY <2>6 DEF ConsumerUnderrun
  <2>7. CASE ConsumerHandleEof  BY <2>7 DEF ConsumerHandleEof
  <2>8. CASE ConsumerWrite  BY <2>8 DEF ConsumerWrite
  <2>9. CASE ConsumerWriteFails  BY <2>9 DEF ConsumerWriteFails
  <2>10. CASE ConsumerReopen  BY <2>10 DEF ConsumerReopen
  <2>11. CASE ConsumerExit  BY <2>11 DEF ConsumerExit
  <2> QED  BY <1>3, <2>1, <2>2, <2>3, <2>4, <2>5, <2>6, <2>7, <2>8, <2>9, <2>10, <2>11
             DEF Consumer
<1>4. ASSUME NEW c \in Clients, Client(c)
      PROVE  ThreadTypes' /\ LockInv'
  <2>0. ASSUME NEW s, NEW prebuffer, Finish(c, s, prebuffer)
        PROVE  ThreadTypes' /\ LockInv'
    BY <1>1, <2>0 DEF Finish
  <2>1. CASE ClientLockConsumer(c)  BY <2>1 DEF ClientLockConsumer
  <2>2. CASE ClientLockProducer(c)  BY <2>2 DEF ClientLockProducer
  <2>3. CASE PlayerStop(c)  BY <2>0, <2>3 DEF PlayerStop
  <2>4. CASE PlayerPlay(c)  BY <2>0, <2>4 DEF PlayerPlay
  <2>5. CASE PlayerPause(c)  BY <2>0, <2>5 DEF PlayerPause
  <2>6. CASE PlayerSetFile(c)  BY <2>0, <2>6 DEF PlayerSetFile
  <2>7. CASE PlayerPlayFile(c)  BY <2>0, <2>7 DEF PlayerPlayFile
  <2>8. CASE PlayerSeek(c)  BY <2>0, <2>8 DEF PlayerSeek
  <2>9. CASE PlayerSetOp(c)  BY <2>0, <2>9 DEF PlayerSetOp
  <2>10. CASE PlayerSetBufferChunks(c)  BY <2>0, <2>10 DEF PlayerSetBufferChunks
  <2>11. CASE PlayerExit(c)  BY <2>11 DEF PlayerExit
  <2>12. CASE PlayerExitJoin(c)  BY <2>12 DEF PlayerExitJoin
  <2> QED  BY <1>4, <2>1, <2>2, <2>3, <2>4, <2>5, <2>6, <2>7, <2>8, <2>9, <2>10, <2>11, <2>12
             DEF Client
<1>5. CASE Prebuffer
  <2>1. CASE PrebufferRead  BY <2>1 DEF PrebufferRead
  <2>2. ASSUME Prebuffering, PrebufferDone, running' = running, ppc' = ppc
        PROVE  ThreadTypes' /\ LockInv'
    BY <2>2 DEF Prebuffering, PrebufferDone
  <2> QED  BY <1>5, <2>1, <2>2 DEF Prebuffer, PrebufferEof, PrebufferEnough
<1>6. CASE Terminated  BY <1>6 DEF Terminated, vars
<1> QED  BY <1>2, <1>3, <1>4, <1>5, <1>6 DEF Next

(* A step that reads or writes samples, or reports an error, and leaves    *)
(* both statuses alone.                                                    *)
Quiet(s, r) ==
    /\ ProducerOK(r) /\ SameConsumer(s, r) /\ SameInfo(s, r)
    /\ r.ps = s.ps /\ r.file = s.file /\ r.status \in {s.status, s.cs}

LEMMA QuietKeeps ==
    ASSUME NEW s, NEW r, ConsumerOK(s), Shown(s), Quiet(s, r)
    PROVE  /\ ProducerOK(r) /\ ConsumerOK(r) /\ Shown(r) /\ r.cs = s.cs /\ r.ps = s.ps
           /\ Paired(s) => Paired(r)
           /\ FormatOK(s) => FormatOK(r)
           /\ Lags(s) => Lags(r)
           /\ s.cs = "STOPPED" /\ s.status # "PAUSED" => r.status # "PAUSED"
<1>1. ProducerOK(r) /\ ConsumerOK(r) /\ r.cs = s.cs /\ r.ps = s.ps /\ (Paired(s) => Paired(r))
  BY DEF Quiet, ConsumerOK, SameConsumer, Paired
<1>2. Shown(r) /\ (FormatOK(s) => FormatOK(r))
  BY DEF Quiet, Shown, Balanced, FormatOK, SameConsumer, SameInfo
<1>3. Lags(s) => Lags(r)
  BY DEF Quiet, Lags, SameConsumer
<1>4. s.cs = "STOPPED" /\ s.status # "PAUSED" => r.status # "PAUSED"
  BY DEF Quiet
<1> QED  BY <1>1, <1>2, <1>3, <1>4

LEMMA ReadsAreQuiet ==
    ASSUME NEW s, ProducerOK(s), s.ps = "PLAYING", NEW failed \in BOOLEAN
    PROVE  Quiet(s, ReadData(s)) /\ Quiet(s, ReadEof(s, failed))
<1>1. s.ip = "open" /\ s \in PlayerStates /\ ~s.bug /\ s.file \in Tracks
  BY DEF ProducerOK, PlayerStates
<1>2. Require(s, s.ip = "open") = s
  BY <1>1, RequireHolds
<1>3. Quiet(s, ReadData(s))
  <2> DEFINE buf == s.buffer \cup {s.file}
             r == [s EXCEPT !.buffer = buf]
  <2>1. ReadData(s) = r
    BY <1>2 DEF ReadData
  <2>2. buf \in SUBSET Tracks /\ buf \subseteq {s.file}
    BY <1>1 DEF ProducerOK, PlayerStates
  <2> HIDE DEF buf
  <2>3. /\ r \in PlayerStates /\ ~r.bug /\ r.ip = s.ip /\ r.ps = s.ps /\ r.file = s.file
        /\ r.buffer = buf /\ SameConsumer(s, r) /\ SameInfo(s, r) /\ r.status = s.status
    BY <1>1, <2>2 DEF PlayerStates, SameConsumer, SameInfo
  <2> HIDE DEF r
  <2>4. ProducerOK(r)
    BY <1>1, <2>2, <2>3 DEF ProducerOK
  <2> QED  BY <2>1, <2>3, <2>4 DEF Quiet
<1>4. Quiet(s, ReadEof(s, failed))
  <2> DEFINE st == IF failed THEN s.cs ELSE s.status
             r == [s EXCEPT !.eof = TRUE, !.status = st]
  <2>1. ReadEof(s, failed) = r
    BY <1>1, <1>2 DEF ReadEof, player_error, PlayerStates
  <2>2. st \in {"STOPPED", "PLAYING", "PAUSED"} /\ st \in {s.status, s.cs}
    BY <1>1 DEF PlayerStates
  <2> HIDE DEF st
  <2>3. /\ r \in PlayerStates /\ ~r.bug /\ r.ip = s.ip /\ r.ps = s.ps /\ r.file = s.file
        /\ r.buffer = s.buffer /\ SameConsumer(s, r) /\ SameInfo(s, r) /\ r.status = st
    BY <1>1, <2>2 DEF PlayerStates, SameConsumer, SameInfo
  <2> HIDE DEF r
  <2>4. ProducerOK(r)
    BY <2>3 DEF ProducerOK
  <2> QED  BY <2>1, <2>2, <2>3, <2>4 DEF Quiet
<1> QED  BY <1>3, <1>4

(* Whoever has consumer_mutex finds a state between two commands.          *)
LEMMA FindsGood ==
    ASSUME PlayerIInv, running, cpc # "reopen"
    PROVE  Good(player)
  BY DEF PlayerIInv, PlayerOK, Good, Core

(* A command's last step: both locks are held, so nobody else relies on a  *)
(* status it may have changed.                                             *)
LEMMA FinishKeeps ==
    ASSUME PlayerIInv, NEW c \in Clients, NEW s, NEW prebuffer, Finish(c, s, prebuffer),
           Good(player) => Good(s), prebuffer => s.ps = "PLAYING"
    PROVE  PlayerOK' /\ Entered'
<1>1. /\ running /\ cpc \in {"lock", "exited"} /\ ppc # "read"
      /\ \A d \in Clients \ {c} : pc[d] # "prebuffer"
  BY ThreadAssumption DEF PlayerIInv, ThreadTypes, LockInv, Finish, NoThread
<1>2. Good(s)
  BY <1>1, FindsGood
<1>3. player' = s /\ cpc' = cpc /\ ppc' = ppc /\ running' = running
  BY DEF Finish
<1>4. PlayerOK'
  BY <1>2, <1>3 DEF PlayerOK, Good, Core
<1>5. Prebuffering' => prebuffer
  BY <1>1 DEF Finish, Prebuffering, PlayerIInv, ThreadTypes
<1>6. Entered'
  BY <1>1, <1>3, <1>5 DEF Entered
<1> QED  BY <1>4, <1>6

LEMMA ClientKeeps ==
    ASSUME PlayerIInv, NEW c \in Clients, Client(c)
    PROVE  PlayerOK' /\ Entered'
<1>0. ASSUME UNCHANGED << player, cpc, ppc >>, running' => running,
             \A d \in Clients : pc'[d] = "prebuffer" => pc[d] = "prebuffer"
      PROVE  PlayerOK' /\ Entered'
  BY <1>0 DEF PlayerIInv, PlayerOK, Entered, Prebuffering
<1>1. CASE ClientLockConsumer(c)
  BY <1>0, <1>1 DEF ClientLockConsumer, PlayerIInv, ThreadTypes
<1>2. CASE ClientLockProducer(c)
  BY <1>0, <1>2 DEF ClientLockProducer, PlayerIInv, ThreadTypes
<1>3. CASE PlayerStop(c)
  <2> DEFINE s == player_stop(player)
  <2>1. Finish(c, s, FALSE)  BY <1>3 DEF PlayerStop
  <2>2. Good(player) => Good(s)  BY StopGood DEF Good
  <2> HIDE DEF s
  <2> QED  BY <2>1, <2>2, FinishKeeps
<1>4. CASE PlayerPlay(c)
  <2>1. PICK env \in Env :
          LET s == player_play(player, env)
          IN  Finish(c, s, s.cs = "PLAYING" /\ player.cs = "STOPPED")
    BY <1>4 DEF PlayerPlay
  <2> DEFINE s == player_play(player, env)
  <2>2. Good(player) => Good(s)  BY PlayGood
  <2>3. Good(player) /\ s.cs = "PLAYING" => s.ps = "PLAYING"
    <3> HIDE DEF s
    <3> QED  BY <2>2 DEF Good, Core, Paired
  <2>4. Finish(c, s, s.cs = "PLAYING" /\ player.cs = "STOPPED")  BY <2>1
  <2> HIDE DEF s
  <2>5. pc[c] = "body"  BY <2>4 DEF Finish
  <2>6. Good(player)  BY <2>5, FindsGood DEF PlayerIInv, LockInv, ThreadTypes
  <2> QED  BY <2>2, <2>3, <2>4, <2>6, FinishKeeps
<1>5. CASE PlayerPause(c)
  <2>1. PICK env \in Env :
          LET s == player_pause(player, env)
          IN  Finish(c, s, s.cs = "PLAYING" /\ player.cs = "STOPPED")
    BY <1>5 DEF PlayerPause
  <2> DEFINE s == player_pause(player, env)
  <2>2. Good(player) => Good(s)  BY PauseGood
  <2>3. Good(player) /\ s.cs = "PLAYING" => s.ps = "PLAYING"
    <3> HIDE DEF s
    <3> QED  BY <2>2 DEF Good, Core, Paired
  <2>4. Finish(c, s, s.cs = "PLAYING" /\ player.cs = "STOPPED")  BY <2>1
  <2> HIDE DEF s
  <2>5. pc[c] = "body"  BY <2>4 DEF Finish
  <2>6. Good(player)  BY <2>5, FindsGood DEF PlayerIInv, LockInv, ThreadTypes
  <2> QED  BY <2>2, <2>3, <2>4, <2>6, FinishKeeps
<1>6. CASE PlayerSetFile(c)
  <2>1. PICK env \in Env, t \in Tracks :
          LET s == player_set_file(player, t, env)
          IN  Finish(c, s, s.ps = "PLAYING")
    BY <1>6 DEF PlayerSetFile
  <2> DEFINE s == player_set_file(player, t, env)
  <2>2. Good(player) => Good(s)  BY SetFileGood DEF Good
  <2>3. Finish(c, s, s.ps = "PLAYING")  BY <2>1
  <2> HIDE DEF s
  <2> QED  BY <2>2, <2>3, FinishKeeps
<1>7. CASE PlayerPlayFile(c)
  <2>1. PICK env \in Env, t \in Tracks :
          LET s == player_play_file(player, t, env)
          IN  Finish(c, s, s.ps = "PLAYING")
    BY <1>7 DEF PlayerPlayFile
  <2> DEFINE s == player_play_file(player, t, env)
  <2>2. Good(player) => Good(s)  BY PlayFileGood DEF Good
  <2>3. Finish(c, s, s.ps = "PLAYING")  BY <2>1
  <2> HIDE DEF s
  <2> QED  BY <2>2, <2>3, FinishKeeps
<1>8. CASE PlayerSeek(c)
  <2>1. PICK env \in Env, legal \in BOOLEAN, ok \in BOOLEAN :
          Finish(c, player_seek(player, env, legal, ok), FALSE)
    BY <1>8 DEF PlayerSeek
  <2> DEFINE s == player_seek(player, env, legal, ok)
  <2>2. Good(player) => Good(s)  BY PlayerSeekGood
  <2>3. Finish(c, s, FALSE)  BY <2>1
  <2> HIDE DEF s
  <2> QED  BY <2>2, <2>3, FinishKeeps
<1>9. CASE PlayerSetOp(c)
  <2>1. PICK env \in Env, selected \in BOOLEAN :
          Finish(c, player_set_op(player, env, selected), FALSE)
    BY <1>9 DEF PlayerSetOp
  <2> DEFINE s == player_set_op(player, env, selected)
  <2>2. Good(player) => Good(s)  BY SetOpGood
  <2>3. Finish(c, s, FALSE)  BY <2>1
  <2> HIDE DEF s
  <2> QED  BY <2>2, <2>3, FinishKeeps
<1>10. CASE PlayerSetBufferChunks(c)
  <2> DEFINE s == player_set_buffer_chunks(player)
  <2>1. Finish(c, s, FALSE)  BY <1>10 DEF PlayerSetBufferChunks
  <2>2. Good(player) => Good(s)  BY SetBufferChunksGood DEF Good
  <2> HIDE DEF s
  <2> QED  BY <2>1, <2>2, FinishKeeps
<1>11. CASE PlayerExit(c)
  BY <1>0, <1>11 DEF PlayerExit, PlayerIInv, ThreadTypes
<1>12. CASE PlayerExitJoin(c)
  BY <1>0, <1>12 DEF PlayerExitJoin, PlayerIInv, ThreadTypes, lockVars
<1> QED  BY <1>1, <1>2, <1>3, <1>4, <1>5, <1>6, <1>7, <1>8, <1>9, <1>10, <1>11, <1>12
           DEF Client

(* A step of one of the loops that leaves the statuses alone.              *)
LEMMA QuietStep ==
    ASSUME PlayerIInv, Quiet(player, player'), running' = running,
           cpc' = "reopen" <=> cpc = "reopen",
           cpc' \in {"loop", "plock", "recheck", "write", "prebuffer"} => player.cs = "PLAYING",
           ppc' = "read" \/ Prebuffering' => player.ps = "PLAYING"
    PROVE  PlayerOK' /\ Entered'
<1>1. /\ ProducerOK(player') /\ ConsumerOK(player') /\ Shown(player')
      /\ player'.cs = player.cs /\ player'.ps = player.ps
      /\ Paired(player) => Paired(player')
      /\ FormatOK(player) => FormatOK(player')
      /\ Lags(player) => Lags(player')
      /\ player.cs = "STOPPED" /\ player.status # "PAUSED" => player'.status # "PAUSED"
  BY QuietKeeps DEF PlayerIInv, PlayerOK
<1>2. PlayerOK'
  BY <1>1 DEF PlayerIInv, PlayerOK
<1>3. Entered'
  BY <1>1 DEF PlayerIInv, Entered
<1> QED  BY <1>2, <1>3

LEMMA ProducerKeeps ==
    ASSUME PlayerIInv, Producer
    PROVE  PlayerOK' /\ Entered'
<1>0. ppc = "read" => Quiet(player, ReadData(player)) /\
                      \A failed \in BOOLEAN : Quiet(player, ReadEof(player, failed))
  BY ReadsAreQuiet DEF PlayerIInv, PlayerOK, Entered
<1>1. CASE ProducerLock
  BY <1>1 DEF ProducerLock, PlayerIInv, PlayerOK, Entered, Prebuffering
<1>2. CASE ProducerUnlock
  BY <1>2 DEF ProducerUnlock, PlayerIInv, PlayerOK, Entered, Prebuffering
<1>3. CASE ProducerRead
  <2>1. Quiet(player, player')
    BY <1>0, <1>3 DEF ProducerRead
  <2>2. running' = running /\ cpc' = cpc /\ ppc' = ppc /\ pc' = pc
    BY <1>3 DEF ProducerRead, threadVars
  <2>3. /\ cpc' \in {"loop", "plock", "recheck", "write", "prebuffer"} => player.cs = "PLAYING"
        /\ ppc' = "read" \/ Prebuffering' => player.ps = "PLAYING"
    BY <2>2 DEF PlayerIInv, Entered, Prebuffering
  <2> QED  BY <2>1, <2>2, <2>3, QuietStep
<1>4. CASE ProducerReadEof
  <2>1. Quiet(player, player')
    BY <1>0, <1>4 DEF ProducerReadEof
  <2>2. running' = running /\ cpc' = cpc /\ ppc' = "lock" /\ pc' = pc
    BY <1>4 DEF ProducerReadEof
  <2>3. /\ cpc' \in {"loop", "plock", "recheck", "write", "prebuffer"} => player.cs = "PLAYING"
        /\ ppc' = "read" \/ Prebuffering' => player.ps = "PLAYING"
    BY <2>2 DEF PlayerIInv, Entered, Prebuffering
  <2> QED  BY <2>1, <2>2, <2>3, QuietStep
<1>5. CASE ProducerExit
  <2> DEFINE r == producer_unload(player)
  <2>1. /\ ProducerOK(r) /\ SameConsumer(player, r) /\ SameInfo(player, r) /\ r.ps = "UNLOADED"
    BY ProducerUnload DEF PlayerIInv, PlayerOK
  <2>2. player' = r /\ ~running' /\ ppc' = "exited" /\ cpc' = cpc /\ pc' = pc /\ ~running
    BY <1>5 DEF ProducerExit
  <2> HIDE DEF r
  <2>3. ConsumerOK(r) /\ Shown(r)
    BY <2>1 DEF PlayerIInv, PlayerOK, ConsumerOK, Shown, Balanced, SameConsumer, SameInfo
  <2>4. PlayerOK'
    BY <2>1, <2>2, <2>3 DEF PlayerOK
  <2>5. Entered'
    BY <2>2 DEF PlayerIInv, LockInv, ThreadTypes, Entered, Prebuffering
  <2> QED  BY <2>4, <2>5
<1> QED  BY <1>1, <1>2, <1>3, <1>4, <1>5 DEF Producer

LEMMA PrebufferKeeps ==
    ASSUME PlayerIInv, Prebuffer
    PROVE  PlayerOK' /\ Entered'
<1>0. /\ player.ps = "PLAYING" /\ cpc # "reopen" /\ Prebuffering
      /\ Quiet(player, ReadData(player))
      /\ \A failed \in BOOLEAN : Quiet(player, ReadEof(player, failed))
  <2>1. Prebuffering
    BY DEF Prebuffer, PrebufferRead, PrebufferEof, PrebufferEnough
  <2>2. player.ps = "PLAYING" /\ cpc # "reopen"
    BY <2>1, ThreadAssumption DEF PlayerIInv, Entered, Prebuffering, LockInv
  <2> QED  BY <2>1, <2>2, ReadsAreQuiet DEF PlayerIInv, PlayerOK
<1>1. CASE PrebufferRead
  <2>1. Quiet(player, player')
    BY <1>0, <1>1 DEF PrebufferRead
  <2> QED  BY <1>0, <1>1, <2>1, QuietStep
             DEF PrebufferRead, PlayerIInv, Entered, Prebuffering, threadVars
<1>2. ASSUME PrebufferDone
      PROVE  cpc' # "reopen" /\ cpc' \in {cpc, "lock"}
  BY <1>0, <1>2 DEF PrebufferDone
<1>3. CASE PrebufferEof
  <2>1. Quiet(player, player') /\ running' = running /\ ppc' = ppc /\ PrebufferDone
    BY <1>0, <1>3 DEF PrebufferEof
  <2> QED  BY <1>0, <1>2, <2>1, QuietStep DEF PlayerIInv, Entered
<1>4. CASE PrebufferEnough
  BY <1>0, <1>2, <1>4 DEF PrebufferEnough, PlayerIInv, PlayerOK, Entered
<1> QED  BY <1>1, <1>3, <1>4 DEF Prebuffer

LEMMA ConsumerKeeps ==
    ASSUME PlayerIInv, Consumer
    PROVE  PlayerOK' /\ Entered'
<1>1. ASSUME UNCHANGED << player, running, ppc, pc >>, cpc # "reopen", cpc' # "reopen",
             cpc' # "prebuffer",
             cpc' \in {"loop", "plock", "recheck", "write"} => player.cs = "PLAYING"
      PROVE  PlayerOK' /\ Entered'
  BY <1>1 DEF PlayerIInv, PlayerOK, Entered, Prebuffering
<1>2. CASE ConsumerLock
  BY <1>1, <1>2 DEF ConsumerLock
<1>3. CASE ConsumerNoSpace
  <2>1. player.op = "open"
    BY <1>3 DEF ConsumerNoSpace, PlayerIInv, PlayerOK, ConsumerOK, Entered
  <2>2. player' = player
    BY <1>3, <2>1, RequireHolds DEF ConsumerNoSpace, PlayerIInv, PlayerOK, ProducerOK
  <2> QED  BY <1>1, <1>3, <2>2 DEF ConsumerNoSpace
<1>4. CASE ConsumerGetRpos
  BY <1>1, <1>4 DEF ConsumerGetRpos, PlayerIInv, Entered
<1>5. CASE ConsumerLockProducer
  BY <1>1, <1>5 DEF ConsumerLockProducer, PlayerIInv, Entered
<1>6. CASE ConsumerRecheckData
  BY <1>1, <1>6 DEF ConsumerRecheckData, PlayerIInv, Entered
<1>7. CASE ConsumerUnderrun
  BY <1>1, <1>7 DEF ConsumerUnderrun
<1>8. CASE ConsumerHandleEof
  <2>1. /\ running /\ player.cs = "PLAYING" /\ cpc = "recheck" /\ ppc # "read"
        /\ \A c \in Clients : pc[c] # "prebuffer"
    BY <1>8, ThreadAssumption
       DEF ConsumerHandleEof, PlayerIInv, LockInv, ThreadTypes, Entered, NoThread
  <2>2. Good(player)
    BY <2>1, FindsGood
  <2>3. PICK env \in Env, cont \in BOOLEAN, repeat \in BOOLEAN :
          /\ player' = consumer_handle_eof(player, env, cont, repeat)
          /\ IF ~repeat /\ player'.ps = "PLAYING"
             THEN cpc' = "prebuffer" /\ UNCHANGED lockVars
             ELSE /\ cpc' = "lock"
                  /\ consumer_mutex' = NoThread /\ producer_mutex' = NoThread
    BY <1>8 DEF ConsumerHandleEof
  <2>4. Good(player') /\ (~repeat /\ player'.ps = "PLAYING" => player'.cs = "PLAYING")
    BY <2>1, <2>2, <2>3, HandleEofGood
  <2>5. running' = running /\ ppc' = ppc /\ pc' = pc
    BY <1>8 DEF ConsumerHandleEof
  <2>6. PlayerOK'
    BY <2>4 DEF PlayerOK, Good, Core
  <2>7. Entered'
    BY <2>1, <2>3, <2>4, <2>5 DEF Entered, Prebuffering
  <2> QED  BY <2>6, <2>7
<1>9. CASE ConsumerWrite
  <2>1. /\ running /\ player.cs = "PLAYING" /\ cpc = "write"
    BY <1>9 DEF ConsumerWrite, PlayerIInv, LockInv, Entered
  <2>2. Good(player)
    BY <2>1, FindsGood
  <2>3. player.op = "open" /\ player.ip = "open" /\ player \in PlayerStates /\ ~player.bug
        /\ player.buffer \subseteq {player.file}
    BY <2>1, <2>2, PlayingIsOpen DEF Good, Core, ConsumerOK, ProducerOK
  <2>4. Require(player, player.op = "open") = player
    BY <2>3, RequireHolds
  <2>5. PICK rest \in {player.buffer, {}} : player' = [player EXCEPT !.buffer = rest]
    BY <1>9, <2>4 DEF ConsumerWrite
  <2>6. Good(player') /\ player'.cs = player.cs /\ player'.ps = player.ps
    BY <2>2, <2>3, <2>5, BufferGood
  <2>7. running' = running /\ ppc' = ppc /\ pc' = pc /\ cpc' = "loop"
    BY <1>9 DEF ConsumerWrite
  <2>8. PlayerOK'
    BY <2>6 DEF PlayerOK, Good, Core
  <2>9. Entered'
    BY <2>1, <2>6, <2>7 DEF PlayerIInv, Entered, Prebuffering
  <2> QED  BY <2>8, <2>9
<1>10. CASE ConsumerWriteFails
  <2>1. /\ running /\ player.cs = "PLAYING" /\ cpc = "write"
    BY <1>10 DEF ConsumerWriteFails, PlayerIInv, LockInv, Entered
  <2>2. Good(player)
    BY <2>1, FindsGood
  <2>3. player.op # "closed" /\ ProducerOK(player) /\ player.ps = "PLAYING" /\ Shown(player)
        /\ player.status # "PAUSED"
    BY <2>1, <2>2, PlayingIsOpen DEF Good, Core, Lags
  <2> DEFINE a == op_close(player)
             r == [a EXCEPT !.cs = "STOPPED"]
  <2>4. /\ ProducerOK(a) /\ SameProducer(player, a) /\ SameInfo(player, a)
        /\ a.status = player.status /\ a.op = "closed"
    BY <2>3, OpClose
  <2> HIDE DEF a
  <2>5. /\ ProducerOK(r) /\ SameProducer(a, r) /\ SameInfo(a, r) /\ r.op = a.op
        /\ r.status = a.status /\ r.cs = "STOPPED"
    BY <2>4, SetCs
  <2> HIDE DEF r
  <2>6. /\ player' = r /\ cpc' = "reopen" /\ running' = running /\ ppc' = ppc /\ pc' = pc
    BY <1>10 DEF ConsumerWriteFails, r, a
  <2>7. /\ ConsumerOK(r) /\ Shown(r) /\ r.ps = "PLAYING" /\ r.status # "PAUSED"
    BY <2>3, <2>4, <2>5 DEF ConsumerOK, Shown, Balanced, SameProducer, SameInfo
  <2>8. PlayerOK'
    BY <2>5, <2>6, <2>7 DEF PlayerOK, Paired, FormatOK
  <2>9. Entered'
    BY <2>5, <2>6, <2>7 DEF Entered
  <2> QED  BY <2>8, <2>9
<1>11. CASE ConsumerReopen
  <2>1. /\ running /\ player.cs = "STOPPED" /\ cpc = "reopen" /\ player.ps = "PLAYING"
        /\ player.status # "PAUSED" /\ ProducerOK(player) /\ ConsumerOK(player)
        /\ Shown(player) /\ FormatOK(player)
    BY <1>11 DEF ConsumerReopen, PlayerIInv, LockInv, Entered, PlayerOK
  <2>2. PICK device \in BOOLEAN : player' = consumer_play(player, device)
    BY <1>11 DEF ConsumerReopen
  <2>3. /\ ProducerOK(player') /\ ConsumerOK(player') /\ FormatOK(player')
        /\ SameProducer(player, player') /\ SameInfo(player, player')
        /\ \/ player'.cs = "PLAYING" /\ player'.status = player.status
           \/ player'.cs = "STOPPED" /\ player'.status = "STOPPED"
    BY <2>1, <2>2, ConsumerPlay
  <2>4. Shown(player') /\ Paired(player') /\ player'.ps = "PLAYING"
    BY <2>1, <2>3 DEF Shown, Balanced, Paired, SameProducer, SameInfo
  <2>5. Lags(player')
    BY <2>1, <2>3 DEF Lags, ProducerOK, PlayerStates
  <2>6. cpc' = "lock" /\ running' = running /\ ppc' = ppc /\ pc' = pc
    BY <1>11 DEF ConsumerReopen
  <2>7. PlayerOK'
    BY <2>3, <2>4, <2>5 DEF PlayerOK
  <2>8. Entered'
    BY <2>4, <2>6 DEF Entered
  <2> QED  BY <2>7, <2>8
<1>12. CASE ConsumerExit
  <2> DEFINE r == consumer_stop(player)
  <2>1. ProducerOK(r) /\ ConsumerOK(r) /\ Shown(r)
    BY ConsumerStopShown DEF PlayerIInv, PlayerOK
  <2>2. /\ player' = r /\ ~running' /\ ~running /\ ppc' = ppc /\ cpc' = "exited" /\ pc' = pc
    BY <1>12 DEF ConsumerExit
  <2> HIDE DEF r
  <2>3. PlayerOK'
    BY <2>1, <2>2 DEF PlayerOK
  <2>4. Entered'
    BY <2>2 DEF PlayerIInv, LockInv, ThreadTypes, Entered, Prebuffering
  <2> QED  BY <2>3, <2>4
<1> QED  BY <1>2, <1>3, <1>4, <1>5, <1>6, <1>7, <1>8, <1>9, <1>10, <1>11, <1>12 DEF Consumer

-----------------------------------------------------------------------------
LEMMA PlayerInit ==
    ASSUME Init
    PROVE  PlayerIInv
<1>1. player \in PlayerStates /\ ~player.bug
  BY PlayerAssumption DEF Init, PlayerStates
<1>2. ThreadTypes /\ LockInv
  BY PlayerAssumption, ThreadAssumption DEF Init, ThreadTypes, LockInv, NoThread
<1>3. PlayerOK
  BY <1>1, PlayerAssumption
     DEF Init, PlayerOK, ProducerOK, ConsumerOK, Shown, Balanced, Paired, FormatOK, Lags
<1>4. Entered
  BY DEF Init, Entered, Prebuffering
<1> QED  BY <1>2, <1>3, <1>4 DEF PlayerIInv

LEMMA PlayerNext ==
    ASSUME PlayerIInv, [Next]_vars
    PROVE  PlayerIInv'
<1>1. CASE Next
  <2>1. ThreadTypes' /\ LockInv'
    BY <1>1, ThreadsNext DEF PlayerIInv
  <2>2. CASE Terminated
    BY <2>2 DEF Terminated, vars, lockVars, threadVars, PlayerIInv, ThreadTypes, LockInv,
                PlayerOK, Entered, Prebuffering
  <2>3. PlayerOK' /\ Entered'
    BY <1>1, <2>2, ProducerKeeps, ConsumerKeeps, ClientKeeps, PrebufferKeeps
       DEF Next, PlayerIInv
  <2> QED  BY <2>1, <2>3 DEF PlayerIInv
<1>2. CASE UNCHANGED vars
  BY <1>2 DEF vars, lockVars, threadVars, PlayerIInv, ThreadTypes, LockInv,
              PlayerOK, Entered, Prebuffering
<1> QED  BY <1>1, <1>2

LEMMA PlayerInductive == Spec => []PlayerIInv
  BY PlayerInit, PlayerNext, PTL DEF Spec

(* Every variable of player.c keeps its type, the threads hold exactly the *)
(* mutexes their place in the code says, and the state machines of         *)
(* producer and consumer agree with each other, with the plugin handle and *)
(* with the device.                                                        *)
THEOREM PlayerStateMachine == Spec => [](TypeOK /\ LockInv /\ StatusPairs /\ HandleInv)
<1>1. PlayerIInv => TypeOK /\ LockInv /\ StatusPairs /\ HandleInv
  BY DEF PlayerIInv, ThreadTypes, PlayerOK, Entered, ProducerOK, ConsumerOK, Paired,
         TypeOK, StatusPairs, HandleInv
<1> QED  BY <1>1, PlayerInductive, PTL

(* No BUG_ON of player.c or input.c is hit, and ip and the device are used *)
(* only while they are alive, whoever issues which command when.           *)
THEOREM PlayerHitsNoBug == Spec => []NoBug
<1>1. PlayerIInv => NoBug
  BY DEF PlayerIInv, PlayerOK, ProducerOK, NoBug
<1> QED  BY <1>1, PlayerInductive, PTL

(* An open device plays the loaded track's format, and the buffer holds    *)
(* that track's bytes only.                                                *)
THEOREM DevicePlaysTrackFormat == Spec => []PlaysTrackFormat
<1>1. PlayerIInv => PlaysTrackFormat
  BY DEF PlayerIInv, PlayerOK, ProducerOK, FormatOK, PlaysTrackFormat
<1> QED  BY <1>1, PlayerInductive, PTL

(* player_info shows the loaded track, with one reference held on it and   *)
(* none on any other, and its status may only show a playing player as     *)
(* stopped.                                                                *)
THEOREM PlayerInfoAgrees == Spec => []InfoAgrees
<1>1. PlayerIInv => ShowsLoadedTrack /\ RefsBalanced
  BY DEF PlayerIInv, PlayerOK, Shown, Balanced, ShowsLoadedTrack, RefsBalanced
<1>2. PlayerIInv => StatusLags
  BY DEF PlayerIInv, PlayerOK, LockInv, Lags, StatusLags, NoThread
<1>3. PlayerIInv => InfoAgrees
  BY <1>1, <1>2 DEF InfoAgrees
<1> QED  BY <1>3, PlayerInductive, PTL

=============================================================================
