---------------------------- MODULE OutputProofs ----------------------------
(***************************************************************************)
(* OutputAgrees, PeriodsPadded and RingConsistent, for any plugins, sizes  *)
(* of frames, periods and buffers, and any sequence of commands.           *)
(*                                                                         *)
(* A call of a plugin changes only what belongs to the device (DeviceCall) *)
(* and keeps the padding and the ring in order; the selection of a plugin  *)
(* and the mixer change the rest.                                          *)
(***************************************************************************)
EXTENDS Output, Induction

Fields == {"list", "op", "pcm", "mixer", "mixer_open", "soft_vol", "volume_max", "started", "status",
           "dev", "rc", "hw", "can_pause", "period_fill", "since", "whole", "flags", "buffer_idx",
           "buffers_free", "driver", "resized", "bug"}

(* alsa.c: period_fill follows what was written since the PCM was prepared.*)
PadOK(o) ==
    /\ o.period_fill \in 0 .. Period - 1 /\ o.since \in 0 .. Period - 1
    /\ o.dev = "alsa" /\ o.whole => o.period_fill = o.since
    /\ o.dev # "alsa" => o.period_fill = 0
    /\ o.dev = "alsa" => o.hw # "drained"
    /\ o.hw = "drained" /\ o.whole /\ Period <= Silence => o.since = 0

(* waveout.c: n buffers with flags f, the first free of them from idx on   *)
(* are free, then come d that are done and then those of the driver.       *)
Pos(n, idx, i) == ((idx + i) % n) + 1
RingOf(f, idx, free, driver) ==
    LET n == Len(f)
    IN  /\ idx \in 0 .. n - 1 /\ free \in 0 .. n
        /\ \A i \in 0 .. n - 1 : f[Pos(n, idx, i)] = "free" <=> i < free
        /\ \E d \in 0 .. n - free :
              /\ \A i \in 1 .. n - free : f[Pos(n, idx, free + i - 1)] = "done" <=> i <= d
              /\ driver = [i \in 1 .. n - free - d |-> Pos(n, idx, free + d + i - 1)]

FlagValues == {"free", "queued", "done"}
RingOK(o) ==
    /\ o.flags \in Seq(FlagValues) /\ o.flags # << >> /\ o.buffer_idx \in Nat
    /\ o.dev = "waveout" /\ ~o.resized => RingOf(o.flags, o.buffer_idx, o.buffers_free, o.driver)

DeviceOK(o) == DOMAIN o = Fields /\ PadOK(o) /\ RingOK(o)

(* Only the mixer of the current plugin is open, if soft_vol is off.       *)
MixOK(o) ==
    /\ o.mixer_open \in [OutPlugins -> BOOLEAN]
    /\ o.op \in OutPlugins \cup {"none"}
    /\ \A p \in OutPlugins :
          o.mixer_open[p] => p = o.op /\ ~o.soft_vol /\ o.volume_max = MixerMax[p]
    /\ o.volume_max # 0 => o.op # "none" /\ o.mixer_open[o.op]

PluginsOK(o) ==
    /\ o.list \in Seq(OutPlugins)
    /\ o.pcm \in [OutPlugins -> BOOLEAN] /\ o.mixer \in [OutPlugins -> BOOLEAN]
    /\ \A p \in OutPlugins \ WithMixer : ~o.mixer[p]

(* The device follows the status of the consumer.                          *)
StatusOK(o) ==
    /\ o.status \in {"stopped", "playing", "paused"}
    /\ o.dev = IF o.status = "stopped" THEN "none" ELSE o.op
    /\ o.status # "stopped" => o.op # "none"
    /\ o.dev = "alsa" =>
          /\ o.status = "playing" => o.hw # "paused"
          /\ o.status = "paused" /\ o.can_pause => o.hw # "running"
          /\ o.hw = "paused" => o.can_pause

Good(o) ==
    /\ DeviceOK(o) /\ PluginsOK(o) /\ MixOK(o) /\ StatusOK(o)
    /\ ~o.bug /\ (~o.started => o.op = "none")

OutputInv == Good(out)

-----------------------------------------------------------------------------
(* Everything but the device and its state.                                *)
FrontSame(o, p) ==
    /\ p.list = o.list /\ p.op = o.op /\ p.pcm = o.pcm /\ p.mixer = o.mixer /\ p.mixer_open = o.mixer_open
    /\ p.soft_vol = o.soft_vol /\ p.volume_max = o.volume_max /\ p.started = o.started /\ p.bug = o.bug
    /\ p.status = o.status

(* A call of the plugin from o ends in p.                                  *)
DeviceCall(o, p) == DeviceOK(p) /\ FrontSame(o, p)

(* What a plugin other than waveout.c leaves alone.                        *)
RingSame(o, p) ==
    /\ p.flags = o.flags /\ p.buffer_idx = o.buffer_idx /\ p.buffers_free = o.buffers_free
    /\ p.driver = o.driver /\ p.resized = o.resized

(* And one other than alsa.c.                                              *)
PcmSame(o, p) ==
    /\ p.hw = o.hw /\ p.can_pause = o.can_pause /\ p.period_fill = o.period_fill /\ p.since = o.since
    /\ p.whole = o.whole

LEMMA PositiveSizes == Frame \in Nat \ {0} /\ Period \in Nat \ {0} /\ Silence \in Nat \ {0} /\ BufferSize \in Nat \ {0}
  BY OutputAssumption

LEMMA RingKept ==
    ASSUME NEW o, NEW p, RingOK(o), RingSame(o, p), p.dev = o.dev \/ p.dev # "waveout"
    PROVE  RingOK(p)
  BY DEF RingOK, RingSame

LEMMA PadKept ==
    ASSUME NEW o, NEW p, PadOK(o), PcmSame(o, p), o.dev # "alsa", p.dev # "alsa"
    PROVE  PadOK(p)
  BY DEF PadOK, PcmSame

LEMMA PreparedFields ==
    ASSUME NEW o, DOMAIN o = Fields
    PROVE  LET p == Prepared(o)
           IN  /\ DOMAIN p = Fields /\ FrontSame(o, p) /\ RingSame(o, p)
               /\ p.dev = o.dev /\ p.rc = o.rc /\ p.can_pause = o.can_pause /\ p.period_fill = o.period_fill
               /\ p.hw = "prepared" /\ p.since = 0 /\ p.whole
  BY DEF Prepared, Fields, FrontSame, RingSame

-----------------------------------------------------------------------------
(* alsa.c                                                                  *)

LEMMA AlsaOpen ==
    ASSUME NEW o, DeviceOK(o), o.dev = "none", NEW p \in op_alsa_open(o)
    PROVE  DeviceCall(o, p) /\ p.dev \in {"none", "alsa"} /\ p.rc = o.rc /\ (p.dev = "alsa" => p.hw = "prepared")
<1>1. CASE p = o
  BY <1>1 DEF DeviceCall, FrontSame
<1>2. CASE p # o
  <2>1. PICK c \in BOOLEAN : p = Prepared([o EXCEPT !.dev = "alsa", !.can_pause = c])
    BY <1>2 DEF op_alsa_open
  <2> DEFINE q == [o EXCEPT !.dev = "alsa", !.can_pause = c]
  <2>2. DOMAIN q = Fields /\ FrontSame(o, q) /\ RingSame(o, q)
        /\ q.dev = "alsa" /\ q.rc = o.rc /\ q.period_fill = o.period_fill
    BY DEF DeviceOK, Fields, FrontSame, RingSame
  <2>3. p = Prepared(q)
    BY <2>1
  <2> HIDE DEF q
  <2>4. DOMAIN p = Fields /\ FrontSame(q, p) /\ RingSame(q, p) /\ p.dev = "alsa" /\ p.rc = o.rc
        /\ p.period_fill = o.period_fill /\ p.hw = "prepared" /\ p.since = 0 /\ p.whole
    BY <2>2, <2>3, PreparedFields DEF FrontSame
  <2>5. PadOK(p)
    BY <2>4, PositiveSizes DEF DeviceOK, PadOK
  <2>6. RingOK(p)
    BY <2>2, <2>4 DEF DeviceOK, RingOK, RingSame
  <2>7. FrontSame(o, p)
    BY <2>2, <2>4 DEF FrontSame
  <2> QED  BY <2>4, <2>5, <2>6, <2>7 DEF DeviceOK, DeviceCall, FrontSame
<1> QED  BY <1>1, <1>2

LEMMA WrittenFields ==
    ASSUME NEW o, DOMAIN o = Fields, NEW n \in Nat
    PROVE  LET p == Written(o, n)
           IN  /\ DOMAIN p = Fields /\ FrontSame(o, p) /\ RingSame(o, p)
               /\ p.dev = o.dev /\ p.can_pause = o.can_pause /\ p.whole = o.whole
               /\ p.hw = (IF n > 0 THEN "running" ELSE o.hw) /\ p.rc = n
               /\ p.since = (o.since + n) % Period /\ p.period_fill = (o.period_fill + n) % Period
  BY DEF Written, Fields, RingSame, FrontSame

LEMMA BrokenFields ==
    ASSUME NEW o, DOMAIN o = Fields
    PROVE  LET p == Broken(o)
           IN  /\ DOMAIN p = Fields /\ FrontSame(o, p) /\ RingSame(o, p)
               /\ p.dev = o.dev /\ p.can_pause = o.can_pause /\ ~p.whole
               /\ p.hw = o.hw /\ p.rc = -1
               /\ p.since = o.since /\ p.period_fill = o.period_fill
  BY DEF Broken, Fields, RingSame, FrontSame

LEMMA AlignType ==
    ASSUME NEW n \in Nat
    PROVE  Align(n) \in Nat /\ Align(n) <= n /\ Align(n) \div Frame \in Nat
  BY PositiveSizes DEF Align

(* What a write leaves behind: the bytes are counted, and a write that     *)
(* fails or that follows an underrun is remembered.                        *)
LEMMA AlsaWriteFields ==
    ASSUME NEW o, DOMAIN o = Fields, NEW count \in Nat, NEW p \in op_alsa_write(o, count)
    PROVE  /\ DOMAIN p = Fields /\ FrontSame(o, p) /\ RingSame(o, p)
           /\ p.dev = o.dev /\ p.can_pause = o.can_pause /\ p.rc \in Int
           /\ p.hw \in {o.hw, "prepared", "running"}
           /\ \/ ~p.whole /\ \/ p.since = o.since /\ p.period_fill = o.period_fill
                             \/ \E n \in Nat : /\ p.since = n % Period
                                               /\ p.period_fill = (o.period_fill + n) % Period
              \/ \E n \in Nat : /\ p.rc = n /\ p.whole = o.whole /\ p.since = (o.since + n) % Period
                                /\ p.period_fill = (o.period_fill + n) % Period
<1>1. CASE p = Broken(o)
  BY <1>1, BrokenFields
<1>2. CASE p # Broken(o)
  <2> DEFINE t == IF o.hw = "xrun" THEN [Prepared(o) EXCEPT !.whole = FALSE] ELSE o
  <2>1. PICK k \in 0 .. Align(count) \div Frame : p = Written(t, k * Frame)
    BY <1>2 DEF op_alsa_write
  <2>2. k * Frame \in Nat
    BY <2>1, AlignType, PositiveSizes
  <2> DEFINE n == k * Frame
  <2> HIDE DEF n
  <2>3. CASE o.hw = "xrun"
    <3>1. t = [Prepared(o) EXCEPT !.whole = FALSE]
      BY <2>3
    <3> DEFINE r == Prepared(o)
    <3>2. /\ DOMAIN r = Fields /\ FrontSame(o, r) /\ RingSame(o, r) /\ r.dev = o.dev
          /\ r.can_pause = o.can_pause /\ r.period_fill = o.period_fill /\ r.hw = "prepared" /\ r.since = 0
      BY PreparedFields DEF FrontSame
    <3> HIDE DEF r
    <3>3. t = [r EXCEPT !.whole = FALSE]
      BY <3>1 DEF r
    <3> HIDE DEF t
    <3>4. /\ DOMAIN t = Fields /\ FrontSame(r, t) /\ RingSame(r, t) /\ t.dev = r.dev
          /\ t.can_pause = r.can_pause /\ t.period_fill = r.period_fill /\ t.hw = r.hw /\ t.since = r.since
          /\ ~t.whole
      BY <3>2, <3>3 DEF Fields, FrontSame, RingSame
    <3>5. /\ DOMAIN p = Fields /\ FrontSame(t, p) /\ RingSame(t, p)
          /\ p.dev = t.dev /\ p.can_pause = t.can_pause /\ p.whole = t.whole
          /\ p.hw = (IF n > 0 THEN "running" ELSE t.hw) /\ p.rc = n
          /\ p.since = (t.since + n) % Period /\ p.period_fill = (t.period_fill + n) % Period
      BY <2>1, <2>2, <3>4, WrittenFields DEF n
    <3>6. FrontSame(o, p) /\ RingSame(o, p)
      BY <3>2, <3>4, <3>5 DEF FrontSame, RingSame
    <3>7. p.since = n % Period /\ p.period_fill = (o.period_fill + n) % Period /\ n \in Nat
      BY <2>2, <3>2, <3>4, <3>5 DEF n
    <3> QED  BY <3>2, <3>4, <3>5, <3>6, <3>7
  <2>4. CASE o.hw # "xrun"
    <3>1. t = o
      BY <2>4
    <3> HIDE DEF t
    <3>2. n \in Nat /\ p = Written(o, n)
      BY <2>1, <2>2, <3>1 DEF n
    <3>3. /\ DOMAIN p = Fields /\ FrontSame(o, p) /\ RingSame(o, p)
          /\ p.dev = o.dev /\ p.can_pause = o.can_pause /\ p.whole = o.whole
          /\ p.hw = (IF n > 0 THEN "running" ELSE o.hw) /\ p.rc = n
          /\ p.since = (o.since + n) % Period /\ p.period_fill = (o.period_fill + n) % Period
      BY <3>2, WrittenFields
    <3> QED  BY <3>2, <3>3
  <2> QED  BY <2>3, <2>4
<1> QED  BY <1>1, <1>2

LEMMA PeriodMod ==
    ASSUME NEW n \in Nat
    PROVE  n % Period \in 0 .. Period - 1
  BY PositiveSizes

LEMMA AlsaWrite ==
    ASSUME NEW o, DeviceOK(o), o.dev = "alsa", NEW count \in Nat, NEW p \in op_alsa_write(o, count)
    PROVE  /\ DeviceCall(o, p) /\ RingSame(o, p) /\ p.dev = o.dev /\ p.can_pause = o.can_pause /\ p.rc \in Int
           /\ o.hw # "paused" => p.hw # "paused"
<1> DEFINE Counted ==
       \/ ~p.whole /\ \/ p.since = o.since /\ p.period_fill = o.period_fill
                      \/ \E n \in Nat : /\ p.since = n % Period
                                        /\ p.period_fill = (o.period_fill + n) % Period
       \/ \E n \in Nat : /\ p.rc = n /\ p.whole = o.whole /\ p.since = (o.since + n) % Period
                         /\ p.period_fill = (o.period_fill + n) % Period
<1>1. /\ DOMAIN p = Fields /\ FrontSame(o, p) /\ RingSame(o, p)
      /\ p.dev = o.dev /\ p.can_pause = o.can_pause /\ p.rc \in Int
      /\ p.hw \in {o.hw, "prepared", "running"} /\ Counted
  BY AlsaWriteFields DEF DeviceOK
<1>2. /\ o.period_fill \in Nat /\ o.since \in Nat /\ o.hw # "drained"
      /\ o.period_fill \in 0 .. Period - 1 /\ o.since \in 0 .. Period - 1
      /\ o.whole => o.period_fill = o.since
  BY PositiveSizes DEF DeviceOK, PadOK
<1>3. /\ p.period_fill \in 0 .. Period - 1 /\ p.since \in 0 .. Period - 1
      /\ p.whole => p.period_fill = p.since
  <2>1. CASE \E n \in Nat : /\ p.rc = n /\ p.whole = o.whole /\ p.since = (o.since + n) % Period
                            /\ p.period_fill = (o.period_fill + n) % Period
    <3>1. PICK n \in Nat : /\ p.whole = o.whole /\ p.since = (o.since + n) % Period
                           /\ p.period_fill = (o.period_fill + n) % Period
      BY <2>1
    <3>2. o.since + n \in Nat /\ o.period_fill + n \in Nat
      BY <1>2
    <3>3. (o.since + n) % Period \in 0 .. Period - 1 /\ (o.period_fill + n) % Period \in 0 .. Period - 1
      BY <3>2, PeriodMod
    <3>4. o.whole => p.period_fill = p.since
      BY <1>2, <3>1
    <3> QED  BY <3>1, <3>3, <3>4
  <2>2. CASE ~p.whole /\ p.since = o.since /\ p.period_fill = o.period_fill
    BY <1>2, <2>2
  <2>3. CASE ~p.whole /\ \E n \in Nat : /\ p.since = n % Period
                                        /\ p.period_fill = (o.period_fill + n) % Period
    <3>1. PICK n \in Nat : p.since = n % Period /\ p.period_fill = (o.period_fill + n) % Period
      BY <2>3
    <3>2. o.period_fill + n \in Nat
      BY <1>2
    <3> QED  BY <2>3, <3>1, <3>2, PeriodMod
  <2> QED  BY <1>1, <2>1, <2>2, <2>3, Zenon DEF Counted
<1> HIDE DEF Counted
<1>4. p.hw # "drained" /\ (o.hw # "paused" => p.hw # "paused")
  BY <1>1, <1>2
<1>5. PadOK(p)
  BY <1>1, <1>3, <1>4 DEF PadOK
<1>6. RingOK(p)
  BY <1>1, RingKept DEF DeviceOK
<1> QED  BY <1>1, <1>4, <1>5, <1>6 DEF DeviceCall, DeviceOK

LEMMA AlsaDrop ==
    ASSUME NEW o, DeviceOK(o), o.dev = "alsa"
    PROVE  LET p == op_alsa_drop(o)
           IN  /\ DeviceCall(o, p) /\ RingSame(o, p) /\ p.dev = o.dev /\ p.can_pause = o.can_pause /\ p.rc = o.rc
               /\ p.hw = "prepared"
<1> DEFINE q == [o EXCEPT !.period_fill = 0]
           p == op_alsa_drop(o)
<1>1. DOMAIN q = Fields /\ FrontSame(o, q) /\ RingSame(o, q)
      /\ q.dev = "alsa" /\ q.rc = o.rc /\ q.period_fill = 0 /\ q.can_pause = o.can_pause
  BY DEF DeviceOK, Fields, FrontSame, RingSame
<1>2. p = Prepared(q)
  BY DEF op_alsa_drop
<1> HIDE DEF q, p
<1>3. DOMAIN p = Fields /\ FrontSame(q, p) /\ RingSame(q, p) /\ p.dev = "alsa" /\ p.rc = o.rc
      /\ p.can_pause = o.can_pause /\ p.period_fill = 0 /\ p.hw = "prepared" /\ p.since = 0 /\ p.whole
  BY <1>1, <1>2, PreparedFields
<1>4. PadOK(p)
  BY <1>3, PositiveSizes DEF PadOK
<1>5. FrontSame(o, p) /\ RingSame(o, p)
  BY <1>1, <1>3 DEF FrontSame, RingSame
<1>6. RingOK(p)
  BY <1>3, <1>5, RingKept DEF DeviceOK
<1> QED  BY <1>3, <1>4, <1>5, <1>6 DEF DeviceCall, DeviceOK, p

(* Before it drains the PCM op_alsa_close fills the period, which is       *)
(* possible at once if the silence is as long as a period.                 *)
LEMMA PadFields ==
    ASSUME NEW o, DeviceOK(o), o.dev = "alsa", NEW p \in Pad(o)
    PROVE  /\ DOMAIN p = Fields /\ FrontSame(o, p) /\ RingSame(o, p) /\ p.period_fill = 0
           /\ p.since \in 0 .. Period - 1
           /\ p.whole /\ Period <= Silence => p.since = 0
<1>0. /\ o.period_fill \in 0 .. Period - 1 /\ o.since \in 0 .. Period - 1 /\ DOMAIN o = Fields
      /\ o.whole => o.period_fill = o.since
  BY DEF DeviceOK, PadOK
<1>1. CASE o.period_fill = 0
  <2>1. p = o
    BY <1>1 DEF Pad
  <2> QED  BY <1>0, <1>1, <2>1 DEF FrontSame, RingSame
<1>2. CASE o.period_fill # 0
  <2> DEFINE n == Min({Period - o.period_fill, Silence})
  <2>1. n \in Nat /\ (Period <= Silence => n = Period - o.period_fill)
    <3>1. \E x \in {Period - o.period_fill, Silence} : \A y \in {Period - o.period_fill, Silence} : x <= y
      BY <1>0, PositiveSizes
    <3>2. n \in {Period - o.period_fill, Silence} /\ \A y \in {Period - o.period_fill, Silence} : n <= y
      BY <3>1, Zenon DEF Min
    <3> HIDE DEF n
    <3> QED  BY <1>0, <1>2, <3>2, PositiveSizes
  <2>2. PICK w \in op_alsa_write(o, n) : p = [w EXCEPT !.period_fill = 0, !.whole = @ /\ w.rc = n]
    BY <1>2, Zenon DEF Pad
  <2> HIDE DEF n
  <2>3. /\ DeviceCall(o, w) /\ RingSame(o, w) /\ w.dev = "alsa"
    BY <2>1, AlsaWrite
  <2>4. DOMAIN w = Fields /\ FrontSame(o, w) /\ w.since \in 0 .. Period - 1
    BY <2>3 DEF DeviceCall, DeviceOK, PadOK
  <2>5. /\ DOMAIN p = Fields /\ FrontSame(w, p) /\ RingSame(w, p) /\ p.period_fill = 0 /\ p.since = w.since
    BY <2>2, <2>4 DEF Fields, FrontSame, RingSame
  <2>6. p.whole = (w.whole /\ w.rc = n)
    BY <2>2, <2>4, Zenon DEF Fields
  <2>7. ASSUME w.whole, w.rc = n, Period <= Silence
        PROVE  w.since = 0
    <3>1. \E m \in Nat : /\ w.rc = m /\ w.whole = o.whole /\ w.since = (o.since + m) % Period
      <4>1. \/ ~w.whole
            \/ \E m \in Nat : /\ w.rc = m /\ w.whole = o.whole /\ w.since = (o.since + m) % Period
                              /\ w.period_fill = (o.period_fill + m) % Period
        BY <1>0, <2>1, AlsaWriteFields, Zenon
      <4> QED  BY <2>7, <4>1, Zenon
    <3>2. w.whole = o.whole /\ w.since = (o.since + n) % Period
      BY <2>7, <3>1
    <3>3. o.since = o.period_fill
      BY <1>0, <2>7, <3>2
    <3>4. o.since + n = Period
      BY <1>0, <2>1, <2>7, <3>3, PositiveSizes
    <3>5. Period % Period = 0
      BY PositiveSizes
    <3> QED  BY <3>2, <3>4, <3>5
  <2>8. FrontSame(o, p) /\ RingSame(o, p)
    BY <2>3, <2>4, <2>5 DEF FrontSame, RingSame
  <2> QED  BY <2>4, <2>5, <2>6, <2>7, <2>8
<1> QED  BY <1>1, <1>2

LEMMA AlsaClose ==
    ASSUME NEW o, DeviceOK(o), o.dev = "alsa", NEW p \in op_alsa_close(o)
    PROVE  DeviceCall(o, p) /\ p.dev = "none"
<1>1. PICK q \in Pad(o) : p = [q EXCEPT !.dev = "none", !.hw = "drained"]
  BY DEF op_alsa_close
<1>2. /\ DOMAIN q = Fields /\ FrontSame(o, q) /\ RingSame(o, q) /\ q.period_fill = 0
      /\ q.since \in 0 .. Period - 1
      /\ q.whole /\ Period <= Silence => q.since = 0
  BY PadFields
<1>3. /\ DOMAIN p = Fields /\ FrontSame(q, p) /\ RingSame(q, p) /\ p.period_fill = q.period_fill
      /\ p.since = q.since /\ p.whole = q.whole /\ p.dev = "none"
  BY <1>1, <1>2 DEF Fields, FrontSame, RingSame
<1>4. FrontSame(o, p) /\ RingSame(o, p)
  BY <1>2, <1>3 DEF FrontSame, RingSame
<1>5. PadOK(p)
  BY <1>2, <1>3, PositiveSizes DEF PadOK
<1>6. RingOK(p)
  BY <1>3, <1>4, RingKept DEF DeviceOK
<1> QED  BY <1>3, <1>4, <1>5, <1>6 DEF DeviceCall, DeviceOK

LEMMA AlsaPause ==
    ASSUME NEW o, DeviceOK(o), o.dev = "alsa", NEW h \in {"paused", "running"}
    PROVE  LET p == [o EXCEPT !.hw = h]
           IN  /\ DeviceCall(o, p) /\ RingSame(o, p) /\ p.dev = o.dev /\ p.can_pause = o.can_pause /\ p.rc = o.rc
               /\ p.hw = h
<1> DEFINE p == [o EXCEPT !.hw = h]
<1>1. DOMAIN p = Fields /\ FrontSame(o, p) /\ RingSame(o, p) /\ p.dev = o.dev /\ p.rc = o.rc
      /\ p.can_pause = o.can_pause /\ p.period_fill = o.period_fill /\ p.since = o.since /\ p.whole = o.whole
      /\ p.hw = h
  BY DEF DeviceOK, Fields, FrontSame, RingSame
<1> HIDE DEF p
<1>2. PadOK(p)
  BY <1>1 DEF DeviceOK, PadOK
<1>3. RingOK(p)
  BY <1>1, RingKept DEF DeviceOK
<1> QED  BY <1>1, <1>2, <1>3 DEF DeviceCall, DeviceOK, p

-----------------------------------------------------------------------------
(* waveout.c                                                               *)

LEMMA PosValue ==
    ASSUME NEW n \in Nat \ {0}, NEW idx \in 0 .. n - 1, NEW i \in 0 .. n
    PROVE  Pos(n, idx, i) = (IF idx + i < n THEN idx + i ELSE idx + i - n) + 1
<1>1. \A x \in 0 .. n - 1 : x % n = x
  BY SMT
<1>2. CASE idx + i < n
  BY <1>1, <1>2 DEF Pos
<1>3. CASE idx + i >= n
  <2>1. idx + i - n \in 0 .. n - 1
    BY <1>3
  <2>2. \A x \in 0 .. n - 1 : (x + n) % n = x
    BY SMT
  <2>3. idx + i = (idx + i - n) + n
    OBVIOUS
  <2>4. (idx + i) % n = idx + i - n
    BY <2>1, <2>2, <2>3
  <2> QED  BY <1>3, <2>4 DEF Pos
<1> QED  BY <1>2, <1>3

LEMMA PosRange ==
    ASSUME NEW n \in Nat \ {0}, NEW idx \in Nat, NEW i \in Nat
    PROVE  Pos(n, idx, i) \in 1 .. n
<1>1. \A x \in Nat : x % n \in 0 .. n - 1
  BY SMT
<1> QED  BY <1>1 DEF Pos

LEMMA PosInjective ==
    ASSUME NEW n \in Nat \ {0}, NEW idx \in 0 .. n - 1, NEW i \in 0 .. n - 1, NEW j \in 0 .. n - 1,
           Pos(n, idx, i) = Pos(n, idx, j)
    PROVE  i = j
<1>1. i \in 0 .. n /\ j \in 0 .. n
  OBVIOUS
<1>2. /\ Pos(n, idx, i) = (IF idx + i < n THEN idx + i ELSE idx + i - n) + 1
      /\ Pos(n, idx, j) = (IF idx + j < n THEN idx + j ELSE idx + j - n) + 1
  BY <1>1, PosValue
<1>3. (IF idx + i < n THEN idx + i ELSE idx + i - n) = (IF idx + j < n THEN idx + j ELSE idx + j - n)
  <2> DEFINE x == IF idx + i < n THEN idx + i ELSE idx + i - n
             y == IF idx + j < n THEN idx + j ELSE idx + j - n
  <2>1. x \in Int /\ y \in Int
    OBVIOUS
  <2>2. Pos(n, idx, i) = x + 1 /\ Pos(n, idx, j) = y + 1
    BY <1>2, Zenon
  <2> HIDE DEF x, y
  <2>3. x + 1 = y + 1
    BY <2>2, Zenon
  <2>4. x = y
    BY <2>1, <2>3
  <2> QED  BY <2>4 DEF x, y
<1> QED  BY <1>3

(* Numbered from k further on, the buffers are the same ones.              *)
LEMMA PosShift ==
    ASSUME NEW n \in Nat \ {0}, NEW idx \in 0 .. n - 1, NEW k \in 0 .. n, NEW i \in 0 .. n - 1
    PROVE  LET to == (idx + k) % n
           IN  /\ to \in 0 .. n - 1
               /\ k + i < n => Pos(n, to, i) = Pos(n, idx, k + i)
               /\ k + i >= n => k + i - n \in 0 .. n - 1 /\ Pos(n, to, i) = Pos(n, idx, k + i - n)
<1> DEFINE to == (idx + k) % n
<1>1. Pos(n, idx, k) = (IF idx + k < n THEN idx + k ELSE idx + k - n) + 1
  BY PosValue
<1>2. to \in 0 .. n - 1
  BY SMT
<1>3. to = (IF idx + k < n THEN idx + k ELSE idx + k - n)
  BY <1>1, <1>2 DEF Pos
<1> HIDE DEF to
<1>4. i \in 0 .. n
  OBVIOUS
<1>5. Pos(n, to, i) = (IF to + i < n THEN to + i ELSE to + i - n) + 1
  BY <1>2, <1>4, PosValue
<1>6. ASSUME k + i < n
      PROVE  Pos(n, to, i) = Pos(n, idx, k + i)
  <2>1. k + i \in 0 .. n
    BY <1>6
  <2>2. Pos(n, idx, k + i) = (IF idx + (k + i) < n THEN idx + (k + i) ELSE idx + (k + i) - n) + 1
    BY <2>1, PosValue
  <2> QED  BY <1>3, <1>5, <1>6, <2>2
<1>7. ASSUME k + i >= n
      PROVE  k + i - n \in 0 .. n - 1 /\ Pos(n, to, i) = Pos(n, idx, k + i - n)
  <2>1. k + i - n \in 0 .. n - 1 /\ k + i - n \in 0 .. n
    BY <1>7
  <2>2. Pos(n, idx, k + i - n) = (IF idx + (k + i - n) < n THEN idx + (k + i - n) ELSE idx + (k + i - n) - n) + 1
    BY <2>1, PosValue
  <2> QED  BY <1>3, <1>5, <1>7, <2>1, <2>2
<1> QED  BY <1>2, <1>6, <1>7 DEF to

(* f with the first k buffers from idx on set to v.                        *)
Marked(f, idx, k, v) ==
    [j \in 1 .. Len(f) |-> IF \E i \in 0 .. k - 1 : j = Pos(Len(f), idx, i) THEN v ELSE f[j]]

FirstMarked(f, g, idx, k, v) ==
    /\ g \in Seq(FlagValues) /\ Len(g) = Len(f) /\ g # << >>
    /\ k = 0 => g = f
    /\ idx \in 0 .. Len(f) - 1 =>
         \A i \in 0 .. Len(f) - 1 :
            g[Pos(Len(f), idx, i)] = IF i < k THEN v ELSE f[Pos(Len(f), idx, i)]

LEMMA MarkedFlags ==
    ASSUME NEW f \in Seq(FlagValues), f # << >>, NEW idx \in Nat, NEW k \in 0 .. Len(f), NEW v \in FlagValues
    PROVE  FirstMarked(f, Marked(f, idx, k, v), idx, k, v)
<1> DEFINE g == Marked(f, idx, k, v)
           n == Len(f)
<1>1. n \in Nat \ {0} /\ \A j \in 1 .. n : f[j] \in FlagValues
  OBVIOUS
<1>2. g = [j \in 1 .. n |-> IF \E i \in 0 .. k - 1 : j = Pos(n, idx, i) THEN v ELSE f[j]]
  BY DEF Marked
<1>3. f = [j \in 1 .. n |-> f[j]]
  OBVIOUS
<1> HIDE DEF g, n
<1>4. g \in [1 .. n -> FlagValues]
  BY <1>1, <1>2
<1>5. g \in Seq(FlagValues) /\ Len(g) = n
  BY <1>1, <1>4
<1>6. k = 0 => g = f
  BY <1>2, <1>3
<1>7. ASSUME idx \in 0 .. n - 1, NEW i \in 0 .. n - 1
      PROVE  g[Pos(n, idx, i)] = IF i < k THEN v ELSE f[Pos(n, idx, i)]
  <2>1. Pos(n, idx, i) \in 1 .. n
    <3>1. i \in Nat /\ idx \in Nat
      BY <1>1, <1>7
    <3> QED  BY <1>1, <3>1, PosRange
  <2>2. CASE i < k
    <3>1. i \in 0 .. k - 1
      BY <2>2
    <3> QED  BY <1>2, <2>1, <2>2, <3>1
  <2>3. CASE ~(i < k)
    <3>1. ASSUME NEW x \in 0 .. k - 1
          PROVE  Pos(n, idx, i) # Pos(n, idx, x)
      <4>1. x \in 0 .. n - 1 /\ x # i
        BY <1>1, <2>3 DEF n
      <4> QED  BY <1>1, <1>7, <4>1, PosInjective
    <3> QED  BY <1>2, <2>1, <2>3, <3>1
  <2> QED  BY <2>2, <2>3
<1>8. g # << >>
  BY <1>1, <1>5
<1> QED  BY <1>5, <1>6, <1>7, <1>8 DEF FirstMarked, g, n

(* RingOf with its d.                                                      *)
RingWith(f, idx, free, driver, d) ==
    LET n == Len(f)
    IN  /\ idx \in 0 .. n - 1 /\ free \in 0 .. n /\ d \in 0 .. n - free
        /\ \A i \in 0 .. n - 1 : f[Pos(n, idx, i)] = "free" <=> i < free
        /\ \A i \in 1 .. n - free : f[Pos(n, idx, free + i - 1)] = "done" <=> i <= d
        /\ driver = [i \in 1 .. n - free - d |-> Pos(n, idx, free + d + i - 1)]

LEMMA RingHas ==
    ASSUME NEW f, NEW idx, NEW free, NEW driver
    PROVE  RingOf(f, idx, free, driver) <=> \E d : RingWith(f, idx, free, driver, d)
  BY Zenon DEF RingOf, RingWith

(* The buffers that are done, from buffer_idx on, are freed: there are     *)
(* such only when no buffer is free.                                       *)
LEMMA RingClean ==
    ASSUME NEW f \in Seq(FlagValues), f # << >>, NEW idx, NEW free, NEW driver, RingOf(f, idx, free, driver),
           NEW k \in 0 .. Len(f),
           \A i \in 0 .. k - 1 : f[Pos(Len(f), idx, i)] = "done",
           k < Len(f) => f[Pos(Len(f), idx, k)] # "done"
    PROVE  RingOf(Marked(f, idx, k, "free"), idx, free + k, driver)
<1> DEFINE n == Len(f)
           g == Marked(f, idx, k, "free")
<1>1. PICK d : RingWith(f, idx, free, driver, d)
  BY RingHas
<1>2. n \in Nat \ {0}
  OBVIOUS
<1>3. /\ idx \in 0 .. n - 1 /\ free \in 0 .. n /\ d \in 0 .. n - free
      /\ \A i \in 0 .. n - 1 : f[Pos(n, idx, i)] = "free" <=> i < free
      /\ \A i \in 1 .. n - free : f[Pos(n, idx, free + i - 1)] = "done" <=> i <= d
      /\ driver = [i \in 1 .. n - free - d |-> Pos(n, idx, free + d + i - 1)]
  BY <1>1, Zenon DEF RingWith
<1>4. idx \in Nat /\ "free" \in FlagValues
  BY <1>2, <1>3 DEF FlagValues
<1>5. /\ g \in Seq(FlagValues) /\ Len(g) = n /\ g # << >> /\ (k = 0 => g = f)
      /\ \A i \in 0 .. n - 1 : g[Pos(n, idx, i)] = IF i < k THEN "free" ELSE f[Pos(n, idx, i)]
  <2>1. FirstMarked(f, g, idx, k, "free")
    BY <1>4, MarkedFlags
  <2> HIDE DEF g
  <2> QED  BY <1>3, <2>1, Zenon DEF FirstMarked
<1>6. /\ k \in 0 .. n /\ \A i \in 0 .. k - 1 : f[Pos(n, idx, i)] = "done"
      /\ k < n => f[Pos(n, idx, k)] # "done"
  OBVIOUS
<1> HIDE DEF n, g
<1>7. CASE k = 0
  <2>1. g = f /\ free + k = free
    BY <1>2, <1>3, <1>5, <1>7
  <2> QED  BY <2>1 DEF g
<1>8. CASE k # 0
  <2>1. f[Pos(n, idx, 0)] = "done" /\ 0 \in 0 .. n - 1
    BY <1>2, <1>6, <1>8
  <2>2. free = 0
    BY <1>2, <1>3, <2>1
  <2>3. \A i \in 0 .. n - 1 : f[Pos(n, idx, i)] # "free"
    BY <1>3, <2>2
  <2>4. \A i \in 0 .. n - 1 : f[Pos(n, idx, i)] = "done" <=> i < d
    <3> TAKE i \in 0 .. n - 1
    <3>1. i + 1 \in 1 .. n - free /\ free + (i + 1) - 1 = i /\ (i + 1 <= d <=> i < d)
      BY <1>2, <1>3, <2>2
    <3> QED  BY <1>3, <3>1
  <2>5. d \in 0 .. n
    BY <1>2, <1>3, <2>2
  <2>6. k = d
    <3>1. ~(k < d)
      <4>1. SUFFICES ASSUME k < d PROVE FALSE
        OBVIOUS
      <4>2. k \in 0 .. n - 1 /\ k < n
        BY <1>2, <1>6, <2>5, <4>1
      <4> QED  BY <1>6, <2>4, <4>1, <4>2
    <3>2. ~(d < k)
      <4>1. SUFFICES ASSUME d < k PROVE FALSE
        OBVIOUS
      <4>2. d \in 0 .. k - 1 /\ d \in 0 .. n - 1
        BY <1>2, <1>6, <2>5, <4>1
      <4> QED  BY <1>6, <2>4, <2>5, <4>2
    <3> QED  BY <1>2, <1>6, <2>5, <3>1, <3>2
  <2>7. \A i \in 0 .. n - 1 : g[Pos(n, idx, i)] = "free" <=> i < k
    BY <1>5, <2>3
  <2>8. \A i \in 1 .. n - k : g[Pos(n, idx, k + i - 1)] = "done" <=> i <= 0
    <3> TAKE i \in 1 .. n - k
    <3>1. k + i - 1 \in 0 .. n - 1 /\ ~(k + i - 1 < k) /\ ~(i <= 0)
      BY <1>2, <1>6
    <3>2. g[Pos(n, idx, k + i - 1)] = f[Pos(n, idx, k + i - 1)]
      BY <1>5, <3>1
    <3> QED  BY <2>4, <2>6, <3>1, <3>2
  <2>9. n - free - d = n - k - 0 /\ free + k = k /\ 0 \in 0 .. n - k
    BY <1>2, <1>6, <2>2, <2>6
  <2>10. driver = [i \in 1 .. n - k - 0 |-> Pos(n, idx, k + 0 + i - 1)]
    <3>1. \A i \in 1 .. n - k - 0 : free + d + i - 1 = k + 0 + i - 1
      BY <1>2, <1>6, <2>2, <2>6
    <3> QED  BY <1>3, <2>9, <3>1
  <2>11. RingWith(g, idx, k, driver, 0)
    BY <1>3, <1>5, <1>6, <2>7, <2>8, <2>9, <2>10 DEF RingWith
  <2> QED  BY <2>9, <2>11, RingHas DEF g
<1> QED  BY <1>7, <1>8

LEMMA Concatenation ==
    ASSUME NEW S, NEW s \in Seq(S), NEW t \in Seq(S), NEW r \in Seq(S), Len(r) = Len(s) + Len(t),
           \A i \in 1 .. Len(s) : s[i] = r[i], \A i \in 1 .. Len(t) : t[i] = r[Len(s) + i]
    PROVE  s \o t = r
<1>1. s \o t \in Seq(S) /\ Len(s \o t) = Len(r)
  OBVIOUS
<1>2. \A i \in 1 .. Len(r) : (s \o t)[i] = r[i]
  <2> TAKE i \in 1 .. Len(r)
  <2>1. CASE i <= Len(s)
    BY <2>1
  <2>2. CASE i > Len(s)
    <3>1. i - Len(s) \in 1 .. Len(t) /\ Len(s) + (i - Len(s)) = i
      BY <2>2
    <3>2. (s \o t)[i] = t[i - Len(s)]
      BY <2>2
    <3> QED  BY <3>1, <3>2
  <2> QED  BY <2>1, <2>2
<1> DEFINE u == s \o t
<1> HIDE DEF u
<1>3. u \in Seq(S) /\ Len(u) = Len(r) /\ \A i \in 1 .. Len(r) : u[i] = r[i]
  BY <1>1, <1>2 DEF u
<1>4. u = r
  BY <1>3
<1> QED  BY <1>4 DEF u

(* The first k free buffers are handed to the driver, behind those it has. *)
LEMMA RingFill ==
    ASSUME NEW f \in Seq(FlagValues), f # << >>, NEW idx, NEW free, NEW driver, RingOf(f, idx, free, driver),
           NEW k \in 0 .. free
    PROVE  RingOf(Marked(f, idx, k, "queued"), (idx + k) % Len(f), free - k,
                  driver \o [i \in 1 .. k |-> Pos(Len(f), idx, i - 1)])
<1> DEFINE n == Len(f)
           g == Marked(f, idx, k, "queued")
           to == (idx + k) % n
           new == [i \in 1 .. k |-> Pos(n, idx, i - 1)]
<1>1. PICK d : RingWith(f, idx, free, driver, d)
  BY RingHas
<1>2. n \in Nat \ {0}
  OBVIOUS
<1>3. /\ idx \in 0 .. n - 1 /\ free \in 0 .. n /\ d \in 0 .. n - free
      /\ \A i \in 0 .. n - 1 : f[Pos(n, idx, i)] = "free" <=> i < free
      /\ \A i \in 1 .. n - free : f[Pos(n, idx, free + i - 1)] = "done" <=> i <= d
      /\ driver = [i \in 1 .. n - free - d |-> Pos(n, idx, free + d + i - 1)]
  BY <1>1, Zenon DEF RingWith
<1>4. idx \in Nat /\ "queued" \in FlagValues /\ k \in 0 .. n
  BY <1>2, <1>3 DEF FlagValues
<1>5. /\ g \in Seq(FlagValues) /\ Len(g) = n
      /\ \A i \in 0 .. n - 1 : g[Pos(n, idx, i)] = IF i < k THEN "queued" ELSE f[Pos(n, idx, i)]
  <2>1. FirstMarked(f, g, idx, k, "queued")
    BY <1>4, MarkedFlags
  <2> HIDE DEF g
  <2> QED  BY <1>3, <2>1, Zenon DEF FirstMarked
<1> HIDE DEF n, g
<1>6. /\ to \in 0 .. n - 1
      /\ \A i \in 0 .. n - 1 :
           /\ k + i < n => Pos(n, to, i) = Pos(n, idx, k + i)
           /\ k + i >= n => k + i - n \in 0 .. n - 1 /\ Pos(n, to, i) = Pos(n, idx, k + i - n)
  <2>1. idx \in 0 .. n - 1 /\ k \in 0 .. n /\ 0 \in 0 .. n - 1
    BY <1>2, <1>3, <1>4
  <2>2. ASSUME NEW i \in 0 .. n - 1
        PROVE  /\ to \in 0 .. n - 1
               /\ k + i < n => Pos(n, to, i) = Pos(n, idx, k + i)
               /\ k + i >= n => k + i - n \in 0 .. n - 1 /\ Pos(n, to, i) = Pos(n, idx, k + i - n)
    BY <1>2, <2>1, PosShift
  <2> HIDE DEF to
  <2> QED  BY <2>1, <2>2
<1> HIDE DEF to
<1>7. free - k \in 0 .. n /\ d \in 0 .. n - (free - k)
  BY <1>2, <1>3
<1>8. \A i \in 0 .. n - 1 : g[Pos(n, to, i)] = "free" <=> i < free - k
  <2> TAKE i \in 0 .. n - 1
  <2>1. CASE k + i < n
    <3>1. k + i \in 0 .. n - 1 /\ ~(k + i < k) /\ (k + i < free <=> i < free - k)
      BY <1>2, <1>3, <1>4, <2>1
    <3>2. Pos(n, to, i) = Pos(n, idx, k + i)
      BY <1>6, <2>1
    <3>3. g[Pos(n, idx, k + i)] = f[Pos(n, idx, k + i)]
      BY <1>5, <3>1
    <3>4. f[Pos(n, idx, k + i)] = "free" <=> k + i < free
      BY <1>3, <3>1
    <3> QED  BY <3>1, <3>2, <3>3, <3>4
  <2>2. CASE k + i >= n
    <3>1. k + i - n \in 0 .. n - 1 /\ k + i - n < k /\ ~(i < free - k)
      BY <1>2, <1>3, <1>4, <2>2
    <3> QED  BY <1>5, <1>6, <2>2, <3>1
  <2> QED  BY <1>2, <1>4, <2>1, <2>2
<1>9. \A i \in 1 .. n - (free - k) : g[Pos(n, to, free - k + i - 1)] = "done" <=> i <= d
  <2> TAKE i \in 1 .. n - (free - k)
  <2>1. free - k + i - 1 \in 0 .. n - 1
    BY <1>2, <1>3
  <2>2. CASE i <= n - free
    <3>1. /\ k + (free - k + i - 1) < n /\ k + (free - k + i - 1) = free + i - 1
          /\ free + i - 1 \in 0 .. n - 1 /\ ~(free + i - 1 < k) /\ i \in 1 .. n - free
      BY <1>2, <1>3, <1>4, <2>2
    <3>2. Pos(n, to, free - k + i - 1) = Pos(n, idx, free + i - 1)
      BY <1>6, <2>1, <3>1
    <3>3. g[Pos(n, idx, free + i - 1)] = f[Pos(n, idx, free + i - 1)]
      BY <1>5, <3>1
    <3>4. f[Pos(n, idx, free + i - 1)] = "done" <=> i <= d
      BY <1>3, <3>1
    <3> QED  BY <3>2, <3>3, <3>4
  <2>3. CASE i > n - free
    <3>1. /\ k + (free - k + i - 1) >= n /\ k + (free - k + i - 1) - n < k /\ ~(i <= d)
      BY <1>2, <1>3, <1>4, <2>3
    <3> QED  BY <1>5, <1>6, <2>1, <3>1
  <2> QED  BY <1>2, <1>3, <2>2, <2>3
<1> DEFINE L == n - free - d
           all == [i \in 1 .. L + k |-> Pos(n, to, free - k + d + i - 1)]
<1>10. L \in Nat /\ k \in Nat /\ L + k = n - (free - k) - d
  BY <1>2, <1>3, <1>4
<1> HIDE DEF L
<1>11. driver \in Seq(Nat) /\ Len(driver) = L /\ new \in Seq(Nat) /\ Len(new) = k
  <2>1. \A i \in Nat : Pos(n, idx, i) \in Nat
    <3> TAKE i \in Nat
    <3>1. Pos(n, idx, i) \in 1 .. n
      BY <1>2, <1>4, PosRange
    <3> QED  BY <1>2, <3>1
  <2>2. \A i \in 1 .. L : free + d + i - 1 \in Nat
    BY <1>2, <1>3, <1>10
  <2>3. \A i \in 1 .. k : i - 1 \in Nat
    BY <1>4
  <2>4. driver \in [1 .. L -> Nat] /\ new \in [1 .. k -> Nat]
    BY <1>3, <2>1, <2>2, <2>3 DEF L
  <2> QED  BY <1>10, <2>4
<1>12. \A i \in 1 .. L : driver[i] = all[i]
  <2> TAKE i \in 1 .. L
  <2>1. /\ free - k + d + i - 1 \in 0 .. n - 1 /\ i \in 1 .. L + k
        /\ k + (free - k + d + i - 1) < n /\ k + (free - k + d + i - 1) = free + d + i - 1
    BY <1>2, <1>3, <1>4, <1>10
  <2>2. driver[i] = Pos(n, idx, free + d + i - 1)
    BY <1>3 DEF L
  <2> QED  BY <1>6, <2>1, <2>2
<1>13. \A i \in 1 .. k : new[i] = all[L + i]
  <2> TAKE i \in 1 .. k
  <2>1. /\ free - k + d + (L + i) - 1 \in 0 .. n - 1 /\ L + i \in 1 .. L + k
        /\ k + (free - k + d + (L + i) - 1) >= n /\ k + (free - k + d + (L + i) - 1) - n = i - 1
    BY <1>2, <1>3, <1>4, <1>10 DEF L
  <2> QED  BY <1>6, <2>1
<1> HIDE DEF new
<1>14. driver \o new = all
  <2>1. all \in Seq(Nat) /\ Len(all) = L + k
    <3>1. \A i \in 1 .. L + k : free - k + d + i - 1 \in Nat
      BY <1>2, <1>3, <1>4, <1>10
    <3>2. \A i \in 1 .. L + k : Pos(n, to, free - k + d + i - 1) \in Nat
      <4> TAKE i \in 1 .. L + k
      <4>1. to \in Nat
        BY <1>2, <1>6
      <4>2. Pos(n, to, free - k + d + i - 1) \in 1 .. n
        BY <1>2, <3>1, <4>1, PosRange
      <4> QED  BY <1>2, <4>2
    <3>3. all \in [1 .. L + k -> Nat] /\ L + k \in Nat
      BY <1>10, <3>2
    <3> HIDE DEF all
    <3> QED  BY <3>3
  <2> HIDE DEF all
  <2>2. Len(all) = Len(driver) + Len(new)
    BY <1>11, <2>1
  <2>3. \A i \in 1 .. Len(driver) : driver[i] = all[i]
    BY <1>11, <1>12
  <2>4. \A i \in 1 .. Len(new) : new[i] = all[Len(driver) + i]
    BY <1>11, <1>13
  <2> HIDE DEF L
  <2> QED  BY ONLY <1>11, <2>1, <2>2, <2>3, <2>4, Concatenation
<1>15. driver \o new = [i \in 1 .. n - (free - k) - d |-> Pos(n, to, free - k + d + i - 1)]
  BY <1>10, <1>14
<1>16. RingWith(g, to, free - k, driver \o new, d)
  BY <1>5, <1>6, <1>7, <1>8, <1>9, <1>15 DEF RingWith
<1> QED  BY <1>16, RingHas DEF g, to, new, n

(* The driver finishes its oldest buffer.                                  *)
LEMMA RingPlays ==
    ASSUME NEW f \in Seq(FlagValues), f # << >>, NEW idx, NEW free, NEW driver, RingOf(f, idx, free, driver),
           driver # << >>
    PROVE  LET g == [f EXCEPT ![Head(driver)] = "done"]
           IN  /\ RingOf(g, idx, free, Tail(driver))
               /\ g \in Seq(FlagValues) /\ g # << >>
<1> DEFINE n == Len(f)
           g == [f EXCEPT ![Head(driver)] = "done"]
<1>1. PICK d : RingWith(f, idx, free, driver, d)
  BY RingHas
<1>2. n \in Nat \ {0}
  OBVIOUS
<1>3. /\ idx \in 0 .. n - 1 /\ free \in 0 .. n /\ d \in 0 .. n - free
      /\ \A i \in 0 .. n - 1 : f[Pos(n, idx, i)] = "free" <=> i < free
      /\ \A i \in 1 .. n - free : f[Pos(n, idx, free + i - 1)] = "done" <=> i <= d
      /\ driver = [i \in 1 .. n - free - d |-> Pos(n, idx, free + d + i - 1)]
  BY <1>1, Zenon DEF RingWith
<1>4. f \in [1 .. n -> FlagValues] /\ "done" \in FlagValues
  BY DEF FlagValues
<1>5. g \in Seq(FlagValues) /\ Len(g) = n /\ g # << >>
  <2>1. g \in [1 .. n -> FlagValues]
    BY <1>4
  <2> HIDE DEF g, n
  <2>2. g \in Seq(FlagValues) /\ Len(g) = n
    BY <1>2, <2>1
  <2> QED  BY <1>2, <2>2
<1> DEFINE L == n - free - d
<1>6. L \in Nat
  BY <1>2, <1>3
<1>7. \A i \in Nat : Pos(n, idx, i) \in 1 .. n
  <2>1. idx \in Nat
    BY <1>2, <1>3
  <2> QED  BY <1>2, <2>1, PosRange
<1> HIDE DEF n, L
<1>8. driver \in Seq(Nat) /\ Len(driver) = L
  <2>1. \A i \in 1 .. L : free + d + i - 1 \in Nat
    BY <1>2, <1>3, <1>6
  <2>2. \A i \in 1 .. L : Pos(n, idx, free + d + i - 1) \in Nat
    <3> TAKE i \in 1 .. L
    <3>1. Pos(n, idx, free + d + i - 1) \in 1 .. n
      BY <1>7, <2>1
    <3> QED  BY <1>2, <3>1
  <2>3. driver = [i \in 1 .. L |-> Pos(n, idx, free + d + i - 1)]
    BY <1>3 DEF L
  <2>4. driver \in [1 .. L -> Nat]
    BY <2>2, <2>3
  <2> QED  BY <1>6, <2>4
<1>9. L >= 1
  BY <1>6, <1>8
<1>10. Head(driver) = Pos(n, idx, free + d) /\ free + d \in 0 .. n - 1 /\ d + 1 \in 0 .. n - free
  <2>1. free + d + 1 - 1 = free + d /\ free + d \in 0 .. n - 1 /\ d + 1 \in 0 .. n - free
    BY <1>2, <1>3, <1>9 DEF L
  <2>2. Head(driver) = driver[1] /\ 1 \in 1 .. L
    BY <1>6, <1>8, <1>9
  <2> QED  BY <1>3, <2>1, <2>2 DEF L
<1>11. \A i \in 0 .. n - 1 : g[Pos(n, idx, i)] = IF i = free + d THEN "done" ELSE f[Pos(n, idx, i)]
  <2> TAKE i \in 0 .. n - 1
  <2>1. Pos(n, idx, i) \in 1 .. n
    BY <1>2, <1>7
  <2>2. CASE i = free + d
    BY <1>4, <1>10, <2>1, <2>2
  <2>3. CASE i # free + d
    <3>1. Pos(n, idx, i) # Head(driver)
      BY <1>2, <1>3, <1>10, <2>3, PosInjective
    <3> QED  BY <1>4, <2>1, <2>3, <3>1
  <2> QED  BY <2>2, <2>3
<1> HIDE DEF g
<1>12. \A i \in 0 .. n - 1 : g[Pos(n, idx, i)] = "free" <=> i < free
  BY <1>2, <1>3, <1>11
<1>13. \A i \in 1 .. n - free : g[Pos(n, idx, free + i - 1)] = "done" <=> i <= d + 1
  <2> TAKE i \in 1 .. n - free
  <2>1. free + i - 1 \in 0 .. n - 1 /\ (free + i - 1 = free + d <=> i = d + 1)
        /\ (i <= d + 1 <=> (i = d + 1 \/ i <= d))
    BY <1>2, <1>3
  <2> QED  BY <1>3, <1>11, <2>1
<1>14. Tail(driver) = [i \in 1 .. n - free - (d + 1) |-> Pos(n, idx, free + (d + 1) + i - 1)]
  <2>1. L - 1 = n - free - (d + 1)
    BY <1>2, <1>3 DEF L
  <2>2. Tail(driver) = [i \in 1 .. L - 1 |-> driver[i + 1]]
    <3> DEFINE u == Tail(driver)
    <3>1. u \in Seq(Nat) /\ Len(u) = L - 1
      BY <1>6, <1>8, <1>9
    <3>2. \A i \in 1 .. L - 1 : u[i] = driver[i + 1]
      BY <1>6, <1>8, <1>9
    <3> HIDE DEF u
    <3>3. u = [i \in 1 .. L - 1 |-> u[i]]
      BY <3>1
    <3>4. u = [i \in 1 .. L - 1 |-> driver[i + 1]]
      BY <3>2, <3>3
    <3> QED  BY <3>4 DEF u
  <2>3. \A i \in 1 .. L - 1 : driver[i + 1] = Pos(n, idx, free + (d + 1) + i - 1)
    <3> TAKE i \in 1 .. L - 1
    <3>1. i + 1 \in 1 .. L /\ free + d + (i + 1) - 1 = free + (d + 1) + i - 1
      BY <1>2, <1>3, <1>6
    <3>2. driver[i + 1] = Pos(n, idx, free + d + (i + 1) - 1)
      BY <1>3, <3>1 DEF L
    <3> QED  BY <3>1, <3>2
  <2> QED  BY <2>1, <2>2, <2>3
<1>15. RingWith(g, idx, free, Tail(driver), d + 1)
  BY <1>3, <1>5, <1>10, <1>12, <1>13, <1>14 DEF RingWith
<1> QED  BY <1>5, <1>15, RingHas DEF g

LEMMA LeadingFacts ==
    ASSUME NEW o, o.flags \in Seq(FlagValues), o.flags # << >>, o.buffer_idx \in Nat, NEW v
    PROVE  /\ Leading(o, v) \in 0 .. Len(o.flags)
           /\ \A i \in 0 .. Leading(o, v) - 1 : o.flags[Pos(Len(o.flags), o.buffer_idx, i)] = v
           /\ Leading(o, v) < Len(o.flags) => o.flags[Pos(Len(o.flags), o.buffer_idx, Leading(o, v))] # v
<1> DEFINE n == Len(o.flags)
           f == [i \in 0 .. n - 1 |-> o.flags[Pos(n, o.buffer_idx, i)]]
           others == {i \in 0 .. n - 1 : f[i] # v}
           k == Leading(o, v)
<1>1. n \in Nat \ {0}
  OBVIOUS
<1>2. others = {i \in 0 .. Ring(o) - 1 : o.flags[At(o, i)] # v}
  BY DEF At, Ring, Pos
<1>3. k = IF others = {} THEN n ELSE Min(others)
  BY <1>2, Zenon DEF Leading, Ring
<1>4. \A i \in 0 .. n - 1 : f[i] = o.flags[Pos(n, o.buffer_idx, i)]
  OBVIOUS
<1> HIDE DEF n, f, k
<1>5. CASE others = {}
  <2>1. k = n
    BY <1>3, <1>5
  <2>2. \A i \in 0 .. n - 1 : f[i] = v
    BY <1>5
  <2> QED  BY <1>1, <1>4, <2>1, <2>2 DEF k, n
<1>6. CASE others # {}
  <2>1. others \subseteq Nat /\ others # {}
    BY <1>1, <1>6
  <2> HIDE DEF others
  <2>2. \E x \in others : \A y \in others : x <= y
    BY <2>1, LeastNatural
  <2>3. k = Min(others)
    BY <1>3, <1>6
  <2>4. k \in others /\ \A y \in others : k <= y
    BY <2>2, <2>3, Zenon DEF Min
  <2>5. k \in 0 .. n - 1 /\ f[k] # v
    BY <2>4 DEF others
  <2>6. \A i \in 0 .. k - 1 : i \in 0 .. n - 1 /\ f[i] = v
    <3> TAKE i \in 0 .. k - 1
    <3>1. i \in 0 .. n - 1 /\ ~(k <= i)
      BY <1>1, <2>5
    <3> QED  BY <2>4, <3>1 DEF others
  <2> QED  BY <1>1, <1>4, <2>5, <2>6 DEF k, n
<1> QED  BY <1>5, <1>6

LEMMA MarkFields ==
    ASSUME NEW o, DOMAIN o = Fields, NEW k, NEW v
    PROVE  LET p == Mark(o, k, v)
           IN  /\ DOMAIN p = Fields /\ FrontSame(o, p) /\ PcmSame(o, p) /\ p.dev = o.dev /\ p.rc = o.rc
               /\ p.buffer_idx = o.buffer_idx /\ p.buffers_free = o.buffers_free
               /\ p.driver = o.driver /\ p.resized = o.resized
               /\ p.flags = Marked(o.flags, o.buffer_idx, k, v)
<1> DEFINE m == Marked(o.flags, o.buffer_idx, k, v)
           p == Mark(o, k, v)
<1>1. p = [o EXCEPT !.flags = m]
  BY Zenon DEF Mark, Marked, At, Ring, Pos
<1> HIDE DEF m, p
<1>2. /\ DOMAIN p = Fields /\ FrontSame(o, p) /\ PcmSame(o, p) /\ p.dev = o.dev /\ p.rc = o.rc
      /\ p.buffer_idx = o.buffer_idx /\ p.buffers_free = o.buffers_free
      /\ p.driver = o.driver /\ p.resized = o.resized
      /\ p.flags = m
  BY <1>1 DEF Fields, FrontSame, PcmSame
<1> QED  BY <1>2, Zenon DEF m, p

(* waveout.c at rest: the flags, and the ring as long as it is not resized.*)
Flagged(o) == o.flags \in Seq(FlagValues) /\ o.flags # << >> /\ o.buffer_idx \in Nat
InRing(o) == RingOf(o.flags, o.buffer_idx, o.buffers_free, o.driver)

LEMMA CleanBuffers ==
    ASSUME NEW o, DOMAIN o = Fields, Flagged(o)
    PROVE  LET p == clean_buffers(o)
           IN  /\ DOMAIN p = Fields /\ FrontSame(o, p) /\ PcmSame(o, p) /\ p.dev = o.dev /\ p.rc = o.rc
               /\ p.resized = o.resized /\ Flagged(p) /\ (InRing(o) => InRing(p))
<1> DEFINE k == Leading(o, "done")
           q == Mark(o, k, "free")
           p == clean_buffers(o)
<1>1. /\ DOMAIN q = Fields /\ FrontSame(o, q) /\ PcmSame(o, q) /\ q.dev = o.dev /\ q.rc = o.rc
      /\ q.buffer_idx = o.buffer_idx /\ q.buffers_free = o.buffers_free
      /\ q.driver = o.driver /\ q.resized = o.resized
      /\ q.flags = Marked(o.flags, o.buffer_idx, k, "free")
  BY MarkFields
<1>2. /\ k \in 0 .. Len(o.flags)
      /\ \A i \in 0 .. k - 1 : o.flags[Pos(Len(o.flags), o.buffer_idx, i)] = "done"
      /\ k < Len(o.flags) => o.flags[Pos(Len(o.flags), o.buffer_idx, k)] # "done"
  BY LeadingFacts DEF Flagged
<1>3. p = [q EXCEPT !.buffers_free = @ + k]
  BY Zenon DEF clean_buffers
<1> HIDE DEF k, q, p
<1>4. /\ DOMAIN p = Fields /\ FrontSame(q, p) /\ PcmSame(q, p) /\ p.dev = q.dev /\ p.rc = q.rc
      /\ p.buffer_idx = q.buffer_idx /\ p.buffers_free = q.buffers_free + k
      /\ p.driver = q.driver /\ p.resized = q.resized /\ p.flags = q.flags
  BY <1>1, <1>3 DEF Fields, FrontSame, PcmSame
<1>5. FrontSame(o, p) /\ PcmSame(o, p)
  BY <1>1, <1>4 DEF FrontSame, PcmSame
<1>6. Flagged(p)
  <2>1. FirstMarked(o.flags, q.flags, o.buffer_idx, k, "free")
    BY <1>1, <1>2, MarkedFlags DEF Flagged, FlagValues
  <2> QED  BY <1>1, <1>4, <2>1 DEF FirstMarked, Flagged
<1>7. ASSUME InRing(o)
      PROVE  InRing(p)
  <2>1. RingOf(Marked(o.flags, o.buffer_idx, k, "free"), o.buffer_idx, o.buffers_free + k, o.driver)
    BY <1>2, <1>7, RingClean DEF InRing, Flagged
  <2>2. /\ p.flags = Marked(o.flags, o.buffer_idx, k, "free") /\ p.buffer_idx = o.buffer_idx
        /\ p.buffers_free = o.buffers_free + k /\ p.driver = o.driver
    BY <1>1, <1>4
  <2> QED  BY <2>1, <2>2 DEF InRing
<1> QED  BY <1>1, <1>4, <1>5, <1>6, <1>7 DEF p

LEMMA RingOpen ==
    ASSUME NEW n \in Nat \ {0}
    PROVE  LET f == [i \in 1 .. n |-> "free"]
           IN  f \in Seq(FlagValues) /\ f # << >> /\ Len(f) = n /\ RingOf(f, 0, n, << >>)
<1> DEFINE f == [i \in 1 .. n |-> "free"]
<1>1. f \in [1 .. n -> FlagValues] /\ \A i \in 1 .. n : f[i] = "free"
  BY DEF FlagValues
<1> HIDE DEF f
<1>2. f \in Seq(FlagValues) /\ Len(f) = n /\ f # << >>
  BY <1>1
<1>3. \A i \in 0 .. n - 1 : f[Pos(n, 0, i)] = "free" <=> i < n
  <2> TAKE i \in 0 .. n - 1
  <2>1. Pos(n, 0, i) \in 1 .. n
    BY PosRange
  <2> QED  BY <1>1, <2>1
<1>4. << >> = [i \in 1 .. n - n - 0 |-> Pos(n, 0, n + 0 + i - 1)]
  <2>1. 1 .. n - n - 0 = {}
    OBVIOUS
  <2> QED  BY <2>1
<1>5. \A i \in 1 .. n - n : f[Pos(n, 0, n + i - 1)] = "done" <=> i <= 0
  OBVIOUS
<1>6. 0 \in 0 .. n - 1 /\ n \in 0 .. n /\ 0 \in 0 .. n - n
  OBVIOUS
<1>7. RingWith(f, 0, n, << >>, 0)
  BY <1>2, <1>3, <1>4, <1>5, <1>6 DEF RingWith
<1> QED  BY <1>2, <1>7, RingHas DEF f

LEMMA RingOKFlagged ==
    ASSUME NEW o
    PROVE  RingOK(o) <=> Flagged(o) /\ (o.dev = "waveout" /\ ~o.resized => InRing(o))
  BY Zenon DEF RingOK, Flagged, InRing

LEMMA WaveoutOpen ==
    ASSUME NEW o, DeviceOK(o), o.dev = "none", NEW p \in waveout_open(o)
    PROVE  DeviceCall(o, p) /\ p.dev \in {"none", "waveout"} /\ p.rc = o.rc
<1>1. CASE p = o
  BY <1>1 DEF DeviceCall, FrontSame
<1>2. CASE p # o
  <2> DEFINE n == Len(o.flags)
             f == [i \in 1 .. n |-> "free"]
             q == [o EXCEPT !.dev = "waveout"]
             r == [q EXCEPT !.flags = f]
  <2>1. p = [r EXCEPT !.buffer_idx = 0, !.buffers_free = n, !.driver = << >>, !.resized = FALSE]
    BY <1>2 DEF waveout_open, waveout_init, Ring
  <2>2. n \in Nat \ {0}
    BY DEF DeviceOK, RingOK
  <2>3. f \in Seq(FlagValues) /\ f # << >> /\ RingOf(f, 0, n, << >>)
    BY <2>2, RingOpen
  <2> HIDE DEF f, n
  <2>4. /\ DOMAIN r = Fields /\ FrontSame(o, r) /\ PcmSame(o, r) /\ r.dev = "waveout" /\ r.rc = o.rc /\ r.flags = f
    BY DEF DeviceOK, Fields, FrontSame, PcmSame
  <2> HIDE DEF r
  <2>5. /\ DOMAIN p = Fields /\ FrontSame(r, p) /\ PcmSame(r, p) /\ p.dev = r.dev /\ p.rc = r.rc
        /\ p.flags = r.flags /\ p.buffer_idx = 0 /\ p.buffers_free = n /\ p.driver = << >>
    BY <2>1, <2>4 DEF Fields, FrontSame, PcmSame
  <2>6. FrontSame(o, p) /\ PcmSame(o, p)
    BY <2>4, <2>5 DEF FrontSame, PcmSame
  <2>7. PadOK(p)
    BY <2>4, <2>5, <2>6, PadKept DEF DeviceOK
  <2>8. RingOK(p)
    BY <2>3, <2>4, <2>5 DEF RingOK
  <2> QED  BY <2>4, <2>5, <2>6, <2>7, <2>8 DEF DeviceCall, DeviceOK
<1> QED  BY <1>1, <1>2

LEMMA WaveoutClose ==
    ASSUME NEW o, DeviceOK(o), o.dev = "waveout", NEW p \in waveout_close(o)
    PROVE  DeviceCall(o, p) /\ p.dev = "none"
<1> DEFINE f == [i \in DOMAIN o.flags |-> IF o.flags[i] = "queued" THEN "done" ELSE o.flags[i]]
           q == [o EXCEPT !.dev = "none", !.driver = << >>, !.resized = FALSE, !.flags = f]
<1>1. p = clean_buffers(q)
  BY DEF waveout_close
<1>2. f \in Seq(FlagValues) /\ f # << >>
  <2>1. o.flags \in Seq(FlagValues) /\ o.flags # << >>
    BY DEF DeviceOK, RingOK
  <2>2. Len(o.flags) \in Nat \ {0} /\ DOMAIN o.flags = 1 .. Len(o.flags)
    BY <2>1
  <2>3. f \in [1 .. Len(o.flags) -> FlagValues]
    BY <2>1, <2>2 DEF FlagValues
  <2> HIDE DEF f
  <2>4. f \in Seq(FlagValues) /\ Len(f) = Len(o.flags)
    BY <2>2, <2>3
  <2> QED  BY <2>2, <2>4
<1> HIDE DEF f
<1>3. /\ DOMAIN q = Fields /\ FrontSame(o, q) /\ PcmSame(o, q) /\ q.dev = "none" /\ q.flags = f
      /\ q.buffer_idx = o.buffer_idx
  BY DEF DeviceOK, Fields, FrontSame, PcmSame
<1> HIDE DEF q
<1>4. Flagged(q)
  BY <1>2, <1>3 DEF Flagged, DeviceOK, RingOK
<1>5. /\ DOMAIN p = Fields /\ FrontSame(q, p) /\ PcmSame(q, p) /\ p.dev = q.dev /\ Flagged(p)
  BY <1>1, <1>3, <1>4, CleanBuffers
<1>6. FrontSame(o, p) /\ PcmSame(o, p)
  BY <1>3, <1>5 DEF FrontSame, PcmSame
<1>7. PadOK(p)
  BY <1>3, <1>5, <1>6, PadKept DEF DeviceOK
<1>8. RingOK(p)
  BY <1>3, <1>5, RingOKFlagged
<1> QED  BY <1>3, <1>5, <1>6, <1>7, <1>8 DEF DeviceCall, DeviceOK

LEMMA WaveoutWrite ==
    ASSUME NEW o, DeviceOK(o), o.dev = "waveout", ~o.resized, NEW count \in Nat, NEW p \in waveout_write(o, count)
    PROVE  DeviceCall(o, p) /\ p.dev = o.dev /\ p.can_pause = o.can_pause /\ p.rc \in Int
<1> DEFINE s == clean_buffers(o)
           size == Align(BufferSize)
           new(n) == [i \in 1 .. n |-> At(s, i - 1)]
           fill(n) == Min({n * size, Align(count)})
<1>1. PICK n \in 0 .. Leading(s, "free") :
        p = [Mark(s, n, "queued") EXCEPT
               !.driver = @ \o new(n), !.buffer_idx = (@ + n) % Ring(s), !.buffers_free = @ - n,
               !.rc = fill(n)]
  BY DEF waveout_write
<1>2. DOMAIN o = Fields /\ Flagged(o) /\ InRing(o)
  BY RingOKFlagged DEF DeviceOK
<1>3. /\ DOMAIN s = Fields /\ FrontSame(o, s) /\ PcmSame(o, s) /\ s.dev = o.dev
      /\ s.resized = o.resized /\ Flagged(s) /\ InRing(s)
  BY <1>2, CleanBuffers
<1> HIDE DEF s
<1>4. fill(n) \in Int
  <2>1. n * size \in Int /\ Align(count) \in Int
    <3>1. size \in Nat /\ Align(count) \in Nat /\ Leading(s, "free") \in Nat
      <4>1. Leading(s, "free") \in 0 .. Len(s.flags) /\ Len(s.flags) \in Nat
        BY <1>3, LeadingFacts DEF Flagged
      <4>2. Align(BufferSize) \in Nat /\ Align(count) \in Nat
        BY AlignType, PositiveSizes
      <4> QED  BY <4>1, <4>2
    <3>2. n \in Nat
      BY <1>1, <3>1
    <3> HIDE DEF size
    <3> QED  BY <3>1, <3>2
  <2> DEFINE a == n * size
             b == Align(count)
  <2>2. \E x \in {a, b} : \A y \in {a, b} : x <= y
    <3> HIDE DEF a, b
    <3>1. a \in Int /\ b \in Int
      BY <2>1 DEF a, b
    <3> QED  BY <3>1
  <2>3. fill(n) \in {a, b}
    BY <2>2, Zenon DEF Min
  <2> QED  BY <2>1, <2>3
<1>5. n \in 0 .. s.buffers_free /\ n \in 0 .. Len(s.flags)
  <2> DEFINE k == Leading(s, "free")
             L == Len(s.flags)
  <2>1. /\ k \in 0 .. L /\ \A i \in 0 .. k - 1 : s.flags[Pos(L, s.buffer_idx, i)] = "free"
    BY <1>3, LeadingFacts DEF Flagged
  <2>2. /\ s.buffer_idx \in 0 .. L - 1 /\ s.buffers_free \in 0 .. L
        /\ \A i \in 0 .. L - 1 : s.flags[Pos(L, s.buffer_idx, i)] = "free" <=> i < s.buffers_free
    BY <1>3, Zenon DEF InRing, RingOf
  <2>3. L \in Nat \ {0} /\ n \in 0 .. k
    BY <1>1, <1>3 DEF Flagged
  <2> HIDE DEF k, L
  <2>4. k <= s.buffers_free
    <3>1. SUFFICES ASSUME s.buffers_free < k PROVE FALSE
      BY <2>1, <2>2, <2>3
    <3>2. k - 1 \in 0 .. k - 1 /\ k - 1 \in 0 .. L - 1 /\ ~(k - 1 < s.buffers_free)
      BY <2>1, <2>2, <2>3, <3>1
    <3> QED  BY <2>1, <2>2, <3>2
  <2> QED  BY <2>1, <2>2, <2>3, <2>4 DEF L
<1> DEFINE q == Mark(s, n, "queued")
<1>6. /\ DOMAIN q = Fields /\ FrontSame(s, q) /\ PcmSame(s, q) /\ q.dev = s.dev
      /\ q.buffer_idx = s.buffer_idx /\ q.buffers_free = s.buffers_free
      /\ q.driver = s.driver /\ q.resized = s.resized
      /\ q.flags = Marked(s.flags, s.buffer_idx, n, "queued")
  BY <1>3, MarkFields
<1>7. new(n) = [i \in 1 .. n |-> Pos(Len(s.flags), s.buffer_idx, i - 1)]
  BY DEF At, Ring, Pos
<1>8. p = [q EXCEPT !.driver = @ \o new(n), !.buffer_idx = (@ + n) % Len(s.flags), !.buffers_free = @ - n,
                    !.rc = fill(n)]
  BY <1>1, Zenon DEF Ring
<1> HIDE DEF q, new, fill
<1>9. /\ DOMAIN p = Fields /\ FrontSame(q, p) /\ PcmSame(q, p) /\ p.dev = q.dev
      /\ p.buffer_idx = (q.buffer_idx + n) % Len(s.flags) /\ p.buffers_free = q.buffers_free - n
      /\ p.driver = q.driver \o new(n) /\ p.resized = q.resized /\ p.flags = q.flags /\ p.rc = fill(n)
  BY <1>6, <1>8 DEF Fields, FrontSame, PcmSame
<1>10. FrontSame(o, p) /\ PcmSame(o, p) /\ p.dev = o.dev
  BY <1>3, <1>6, <1>9 DEF FrontSame, PcmSame
<1>11. InRing(p)
  <2>1. RingOf(Marked(s.flags, s.buffer_idx, n, "queued"), (s.buffer_idx + n) % Len(s.flags), s.buffers_free - n,
               s.driver \o [i \in 1 .. n |-> Pos(Len(s.flags), s.buffer_idx, i - 1)])
    BY <1>3, <1>5, RingFill DEF InRing, Flagged
  <2> QED  BY <1>6, <1>7, <1>9, <2>1 DEF InRing
<1>12. Flagged(p)
  <2>1. FirstMarked(s.flags, q.flags, s.buffer_idx, n, "queued")
    BY <1>3, <1>5, <1>6, MarkedFlags DEF Flagged, FlagValues
  <2>2. (s.buffer_idx + n) % Len(s.flags) \in Nat
    <3> DEFINE L == Len(s.flags)
               x == s.buffer_idx + n
    <3>1. L \in Nat \ {0} /\ x \in Nat
      BY <1>3, <1>5 DEF Flagged
    <3> HIDE DEF L, x
    <3>2. x % L \in Nat
      BY <3>1
    <3> QED  BY <3>2 DEF L, x
  <2> QED  BY <1>6, <1>9, <2>1, <2>2 DEF FirstMarked, Flagged
<1>13. RingOK(p)
  BY <1>11, <1>12, RingOKFlagged
<1>14. PadOK(p)
  BY <1>10, PadKept DEF DeviceOK
<1> QED  BY <1>4, <1>9, <1>10, <1>13, <1>14 DEF DeviceCall, DeviceOK, PcmSame

-----------------------------------------------------------------------------
(* oss.c, sun.c, ao.c, arts.c, and the front end in output.c               *)

Handles == {"oss", "sun", "ao", "arts"}

(* A plugin with nothing but a handle.                                     *)
LEMMA HandleCall ==
    ASSUME NEW o, DeviceOK(o), o.dev \in Handles \cup {"none"}, NEW d \in Handles \cup {"none"}
    PROVE  LET p == [o EXCEPT !.dev = d] IN DeviceCall(o, p) /\ p.dev = d /\ p.rc = o.rc
<1> DEFINE p == [o EXCEPT !.dev = d]
<1>1. DOMAIN p = Fields /\ FrontSame(o, p) /\ PcmSame(o, p) /\ RingSame(o, p) /\ p.dev = d /\ p.rc = o.rc
  BY DEF DeviceOK, Fields, FrontSame, PcmSame, RingSame
<1> HIDE DEF p
<1>2. o.dev # "alsa" /\ p.dev # "alsa" /\ p.dev # "waveout"
  BY <1>1 DEF Handles
<1>3. PadOK(p) /\ RingOK(p)
  BY <1>1, <1>2, PadKept, RingKept DEF DeviceOK
<1> QED  BY <1>1, <1>3 DEF DeviceCall, DeviceOK, p

LEMMA RcOnly ==
    ASSUME NEW o, DeviceOK(o), NEW x
    PROVE  LET p == [o EXCEPT !.rc = x]
           IN  /\ DeviceCall(o, p) /\ p.dev = o.dev /\ p.hw = o.hw /\ p.can_pause = o.can_pause
               /\ p.resized = o.resized /\ p.rc = x
<1> DEFINE p == [o EXCEPT !.rc = x]
<1>1. DOMAIN p = Fields /\ FrontSame(o, p) /\ PcmSame(o, p) /\ RingSame(o, p) /\ p.dev = o.dev /\ p.rc = x
  BY DEF DeviceOK, Fields, FrontSame, PcmSame, RingSame
<1> HIDE DEF p
<1>2. RingOK(p)
  BY <1>1, RingKept DEF DeviceOK
<1>3. PadOK(p)
  BY <1>1 DEF DeviceOK, PadOK, PcmSame
<1> QED  BY <1>1, <1>2, <1>3 DEF DeviceCall, DeviceOK, PcmSame, RingSame, p

LEMMA OpOpen ==
    ASSUME NEW o, DeviceOK(o), o.dev = "none", o.op \in OutPlugins \cup {"none"}, NEW p \in op_open(o)
    PROVE  /\ DeviceCall(o, p) /\ p.dev \in {"none", o.op} /\ p.rc = o.rc
           /\ p.dev = "alsa" => p.hw = "prepared"
<1>1. CASE o.op = "none"
  <2>1. p = o
    BY <1>1 DEF op_open
  <2> QED  BY <2>1 DEF DeviceCall, FrontSame
<1>2. CASE o.op = "alsa"
  <2>1. p \in op_alsa_open(o)
    BY <1>2 DEF op_open
  <2> QED  BY <1>2, <2>1, AlsaOpen
<1>3. CASE o.op = "waveout"
  <2>1. p \in waveout_open(o)
    BY <1>3 DEF op_open
  <2> QED  BY <1>3, <2>1, WaveoutOpen
<1>4. CASE o.op \in Handles
  <2>1. p = o \/ p = [o EXCEPT !.dev = o.op]
    <3>1. CASE o.op = "oss"
      BY <3>1 DEF op_open, oss_open
    <3>2. CASE o.op = "sun"
      BY <3>2 DEF op_open, sun_open
    <3>3. CASE o.op = "ao"
      BY <3>3 DEF op_open, op_ao_open
    <3>4. CASE o.op = "arts"
      BY <3>4 DEF op_open, op_arts_open
    <3> QED  BY <1>4, <3>1, <3>2, <3>3, <3>4 DEF Handles
  <2>2. CASE p = o
    BY <2>2 DEF DeviceCall, FrontSame
  <2>3. CASE p = [o EXCEPT !.dev = o.op]
    <3>1. DeviceCall(o, p) /\ p.dev = o.op /\ p.rc = o.rc
      BY <1>4, <2>3, HandleCall
    <3> QED  BY <1>4, <3>1 DEF Handles
  <2> QED  BY <2>1, <2>2, <2>3
<1> QED  BY <1>1, <1>2, <1>3, <1>4 DEF OutPlugins, Handles

LEMMA OpClose ==
    ASSUME NEW o, DeviceOK(o), o.dev = o.op, o.op \in OutPlugins, NEW p \in op_close(o)
    PROVE  DeviceCall(o, p) /\ p.dev = "none"
<1>1. CASE o.op = "alsa"
  <2>1. p \in op_alsa_close(o)
    BY <1>1 DEF op_close
  <2> QED  BY <1>1, <2>1, AlsaClose
<1>2. CASE o.op = "waveout"
  <2>1. p \in waveout_close(o)
    BY <1>2 DEF op_close
  <2> QED  BY <1>2, <2>1, WaveoutClose
<1>3. CASE o.op \in Handles
  <2>1. p = [o EXCEPT !.dev = "none"]
    BY <1>3 DEF op_close, HandleClose, Handles
  <2> QED  BY <1>3, <2>1, HandleCall
<1> QED  BY <1>1, <1>2, <1>3 DEF OutPlugins, Handles

LEMMA OpWrite ==
    ASSUME NEW o, DeviceOK(o), o.dev = o.op, o.op \in OutPlugins, ~o.resized, NEW count \in Nat,
           NEW p \in op_write(o, count)
    PROVE  /\ DeviceCall(o, p) /\ p.dev = o.dev /\ p.can_pause = o.can_pause /\ p.rc \in Int
           /\ o.dev = "alsa" /\ o.hw # "paused" => p.hw # "paused"
<1>1. CASE o.op = "alsa"
  <2>1. p \in op_alsa_write(o, count)
    BY <1>1 DEF op_write
  <2> QED  BY <1>1, <2>1, AlsaWrite
<1>2. CASE o.op = "waveout"
  <2>1. p \in waveout_write(o, count)
    BY <1>2 DEF op_write
  <2> QED  BY <1>2, <2>1, WaveoutWrite
<1>3. CASE o.op \in Handles
  <2>1. \E n \in Int : p = [o EXCEPT !.rc = n]
    <3>0. Align(count) \in Nat
      BY AlignType
    <3>1. CASE o.op = "oss"
      BY <3>0, <3>1 DEF op_write, oss_write
    <3>2. CASE o.op = "sun"
      BY <3>0, <3>2 DEF op_write, sun_write
    <3>3. CASE o.op = "ao"
      BY <3>3 DEF op_write, op_ao_write
    <3>4. CASE o.op = "arts"
      BY <3>4 DEF op_write, op_arts_write
    <3> QED  BY <1>3, <3>1, <3>2, <3>3, <3>4 DEF Handles
  <2>2. PICK n \in Int : p = [o EXCEPT !.rc = n]
    BY <2>1
  <2> QED  BY <1>3, <2>2, RcOnly DEF Handles
<1> QED  BY <1>1, <1>2, <1>3 DEF OutPlugins, Handles

LEMMA OpDrop ==
    ASSUME NEW o, DeviceOK(o), o.dev = o.op
    PROVE  LET p == op_drop(o)
           IN  /\ DeviceCall(o, p) /\ p.dev = o.dev /\ p.can_pause = o.can_pause
               /\ p.dev = "alsa" => p.hw = "prepared"
<1>1. CASE o.op = "alsa"
  BY <1>1, AlsaDrop DEF op_drop
<1>2. CASE o.op # "alsa"
  BY <1>2 DEF op_drop, DeviceCall, FrontSame
<1> QED  BY <1>1, <1>2

(* After op_pause the PCM does not run, if it can be paused; after         *)
(* op_unpause it is not paused, if it was not without being able to.       *)
LEMMA OpPause ==
    ASSUME NEW o, DeviceOK(o), o.dev = o.op
    PROVE  LET p == op_pause(o)
           IN  /\ DeviceCall(o, p) /\ p.dev = o.dev /\ p.can_pause = o.can_pause
               /\ p.dev = "alsa" /\ p.can_pause => p.hw # "running"
               /\ p.dev = "alsa" /\ p.hw = "paused" => p.can_pause \/ o.hw = "paused"
<1>1. CASE o.op = "alsa" /\ o.can_pause /\ o.hw = "running"
  <2>1. op_pause(o) = [o EXCEPT !.hw = "paused"]
    BY <1>1 DEF op_pause, op_alsa_pause
  <2> DEFINE p == [o EXCEPT !.hw = "paused"]
  <2>2. DeviceCall(o, p) /\ p.dev = o.dev /\ p.can_pause = o.can_pause /\ p.hw = "paused"
    BY <1>1, AlsaPause, Zenon
  <2> HIDE DEF p
  <2>3. op_pause(o) = p
    BY <2>1 DEF p
  <2> QED  BY <1>1, <2>2, <2>3
<1>2. CASE ~(o.op = "alsa" /\ o.can_pause /\ o.hw = "running")
  <2>1. op_pause(o) = o
    BY <1>2 DEF op_pause, op_alsa_pause
  <2> QED  BY <1>2, <2>1 DEF DeviceCall, FrontSame
<1> QED  BY <1>1, <1>2

LEMMA OpUnpause ==
    ASSUME NEW o, DeviceOK(o), o.dev = o.op
    PROVE  LET p == op_unpause(o)
           IN  /\ DeviceCall(o, p) /\ p.dev = o.dev /\ p.can_pause = o.can_pause
               /\ p.dev = "alsa" /\ p.hw = "paused" => ~o.can_pause /\ o.hw = "paused"
<1>1. CASE o.op = "alsa" /\ o.can_pause /\ o.hw = "paused"
  <2>1. op_unpause(o) = [o EXCEPT !.hw = "running"]
    BY <1>1 DEF op_unpause, op_alsa_unpause
  <2> QED  BY <1>1, <2>1, AlsaPause
<1>2. CASE ~(o.op = "alsa" /\ o.can_pause /\ o.hw = "paused")
  <2>1. op_unpause(o) = o
    BY <1>2 DEF op_unpause, op_alsa_unpause
  <2> QED  BY <1>2, <2>1 DEF DeviceCall, FrontSame
<1> QED  BY <1>1, <1>2

-----------------------------------------------------------------------------
(* The callers in player.c                                                 *)

(* All but the status and the device.                                      *)
KeepMix(o, p) ==
    /\ p.list = o.list /\ p.op = o.op /\ p.pcm = o.pcm /\ p.mixer = o.mixer /\ p.mixer_open = o.mixer_open
    /\ p.soft_vol = o.soft_vol /\ p.volume_max = o.volume_max /\ p.started = o.started /\ p.bug = o.bug

LEMMA CallKeeps ==
    ASSUME NEW o, NEW p, DeviceCall(o, p)
    PROVE  DeviceOK(p) /\ KeepMix(o, p) /\ p.status = o.status
  BY DEF DeviceCall, FrontSame, KeepMix

LEMMA KeepMixTransitive ==
    ASSUME NEW o, NEW p, NEW q, KeepMix(o, p), KeepMix(p, q)
    PROVE  KeepMix(o, q)
  BY DEF KeepMix

LEMMA GoodStep ==
    ASSUME NEW o, NEW p, Good(o), DeviceOK(p), KeepMix(o, p), StatusOK(p)
    PROVE  Good(p)
<1>1. PluginsOK(p)
  BY DEF Good, PluginsOK, KeepMix
<1>2. MixOK(p)
  BY DEF Good, MixOK, KeepMix
<1>3. ~p.bug /\ (~p.started => p.op = "none")
  BY DEF Good, KeepMix
<1> QED  BY <1>1, <1>2, <1>3 DEF Good

LEMMA StatusOnly ==
    ASSUME NEW o, DeviceOK(o), NEW x
    PROVE  LET p == [o EXCEPT !.status = x]
           IN  /\ DeviceOK(p) /\ KeepMix(o, p) /\ p.status = x
               /\ p.dev = o.dev /\ p.hw = o.hw /\ p.can_pause = o.can_pause /\ p.rc = o.rc
<1> DEFINE p == [o EXCEPT !.status = x]
<1>1. DOMAIN p = Fields /\ KeepMix(o, p) /\ PcmSame(o, p) /\ RingSame(o, p) /\ p.dev = o.dev /\ p.rc = o.rc
      /\ p.status = x
  BY DEF DeviceOK, Fields, KeepMix, PcmSame, RingSame
<1> HIDE DEF p
<1>2. RingOK(p)
  BY <1>1, RingKept DEF DeviceOK
<1>3. PadOK(p)
  BY <1>1 DEF DeviceOK, PadOK, PcmSame
<1> QED  BY <1>1, <1>2, <1>3 DEF DeviceOK, PcmSame, p

(* A consumer that is not stopped has the device of the current plugin.    *)
LEMMA RunningFacts ==
    ASSUME NEW o, Good(o), o.status # "stopped"
    PROVE  /\ DeviceOK(o) /\ o.dev = o.op /\ o.op \in OutPlugins /\ o.status \in {"playing", "paused"}
           /\ o.dev = "alsa" =>
                /\ o.status = "playing" => o.hw # "paused"
                /\ o.status = "paused" /\ o.can_pause => o.hw # "running"
                /\ o.hw = "paused" => o.can_pause
  BY DEF Good, StatusOK, MixOK

(* The device was closed and is opened: Play.                              *)
LEMMA PlayOpened ==
    ASSUME NEW o, DeviceOK(o), o.dev = "none", o.status = "stopped", o.op \in OutPlugins \cup {"none"},
           NEW p \in op_open(o)
    PROVE  LET q == Play(p) IN DeviceOK(q) /\ KeepMix(o, q) /\ StatusOK(q)
<1> DEFINE q == Play(p)
<1>1. DeviceCall(o, p) /\ p.dev \in {"none", o.op} /\ (p.dev = "alsa" => p.hw = "prepared")
  BY OpOpen
<1>2. DeviceOK(p) /\ KeepMix(o, p) /\ p.status = "stopped"
  BY <1>1, CallKeeps
<1>3. CASE p.dev = "none"
  <2>1. q = p
    BY <1>3 DEF Play
  <2>2. StatusOK(p)
    BY <1>2, <1>3 DEF StatusOK
  <2> QED  BY <1>2, <2>1, <2>2
<1>4. CASE p.dev # "none"
  <2>1. q = [p EXCEPT !.status = "playing"]
    BY <1>4 DEF Play
  <2> HIDE DEF q
  <2>2. DeviceOK(q) /\ KeepMix(p, q) /\ q.status = "playing" /\ q.dev = p.dev /\ q.hw = p.hw
    BY <1>2, <2>1, StatusOnly
  <2>3. q.op = o.op /\ q.dev = o.op /\ o.op # "none"
    BY <1>1, <1>2, <1>4, <2>2 DEF KeepMix
  <2>4. StatusOK(q)
    BY <1>1, <2>2, <2>3 DEF StatusOK
  <2> QED  BY <1>2, <2>2, <2>4, KeepMixTransitive DEF q
<1> QED  BY <1>3, <1>4

LEMMA StopClosed ==
    ASSUME NEW o, DeviceOK(o), o.dev = o.op, o.op \in OutPlugins, NEW q \in Stopped(op_close(o))
    PROVE  DeviceOK(q) /\ KeepMix(o, q) /\ StatusOK(q) /\ q.dev = "none" /\ q.status = "stopped"
<1>1. PICK p \in op_close(o) : q = [p EXCEPT !.status = "stopped"]
  BY DEF Stopped
<1>2. DeviceCall(o, p) /\ p.dev = "none"
  BY OpClose
<1>3. DeviceOK(p) /\ KeepMix(o, p)
  BY <1>2, CallKeeps
<1>4. DeviceOK(q) /\ KeepMix(p, q) /\ q.status = "stopped" /\ q.dev = "none"
  BY <1>1, <1>2, <1>3, StatusOnly
<1>5. StatusOK(q)
  BY <1>4 DEF StatusOK
<1> QED  BY <1>3, <1>4, <1>5, KeepMixTransitive

LEMMA ReopenedOK ==
    ASSUME NEW o, DeviceOK(o), o.dev = o.op, o.op \in OutPlugins, NEW q \in Reopened(o)
    PROVE  DeviceOK(q) /\ KeepMix(o, q) /\ StatusOK(q)
<1>0. PICK p \in UNION {op_open(c) : c \in Stopped(op_close(o))} : q = Play(p)
  BY DEF Reopened
<1>1. PICK c \in Stopped(op_close(o)) : p \in op_open(c)
  OBVIOUS
<1>2. DeviceOK(c) /\ KeepMix(o, c) /\ c.dev = "none" /\ c.status = "stopped"
  BY StopClosed
<1>3. c.op \in OutPlugins \cup {"none"}
  BY <1>2 DEF KeepMix
<1>4. DeviceOK(q) /\ KeepMix(c, q) /\ StatusOK(q)
  BY <1>0, <1>1, <1>2, <1>3, PlayOpened
<1> QED  BY <1>2, <1>4, KeepMixTransitive

(* A call that keeps the device open, after which the status is x.         *)
LEMMA StaysOpen ==
    ASSUME NEW o, Good(o), o.status # "stopped", NEW p, DeviceCall(o, p), p.dev = o.dev,
           NEW x \in {"playing", "paused"},
           p.dev = "alsa" =>
             /\ x = "playing" => p.hw # "paused"
             /\ x = "paused" /\ p.can_pause => p.hw # "running"
             /\ p.hw = "paused" => p.can_pause
    PROVE  Good([p EXCEPT !.status = x])
<1> DEFINE q == [p EXCEPT !.status = x]
<1>1. DeviceOK(p) /\ KeepMix(o, p)
  BY CallKeeps
<1>2. DeviceOK(q) /\ KeepMix(p, q) /\ q.status = x /\ q.dev = p.dev /\ q.hw = p.hw /\ q.can_pause = p.can_pause
  BY <1>1, StatusOnly
<1> HIDE DEF q
<1>3. o.dev = o.op /\ o.op \in OutPlugins
  BY RunningFacts
<1>4. q.op = o.op /\ q.dev = o.op /\ q.op # "none"
  BY <1>1, <1>2, <1>3 DEF KeepMix, OutPlugins
<1>5. StatusOK(q)
  BY <1>2, <1>4 DEF StatusOK
<1> QED  BY <1>1, <1>2, <1>5, GoodStep, KeepMixTransitive DEF q

(* The same without a change of the status.                                *)
LEMMA StaysAsIs ==
    ASSUME NEW o, Good(o), o.status # "stopped", NEW p, DeviceCall(o, p), p.dev = o.dev,
           p.dev = "alsa" =>
             /\ o.status = "playing" => p.hw # "paused"
             /\ o.status = "paused" /\ p.can_pause => p.hw # "running"
             /\ p.hw = "paused" => p.can_pause
    PROVE  Good(p)
<1>1. DeviceOK(p) /\ KeepMix(o, p) /\ p.status = o.status
  BY CallKeeps
<1>2. o.dev = o.op /\ o.op \in OutPlugins /\ o.status \in {"playing", "paused"}
  BY RunningFacts
<1>3. p.op = o.op /\ p.dev = o.op /\ p.op # "none"
  BY <1>1, <1>2 DEF KeepMix, OutPlugins
<1>4. StatusOK(p)
  BY <1>1, <1>2, <1>3 DEF StatusOK
<1> QED  BY <1>1, <1>4, GoodStep

LEMMA DropKeepsGood ==
    ASSUME NEW o, Good(o), o.status # "stopped"
    PROVE  LET p == op_drop(o)
           IN  /\ Good(p) /\ p.status = o.status /\ (p.dev = "alsa" => p.hw = "prepared")
<1> DEFINE p == op_drop(o)
<1>1. DeviceOK(o) /\ o.dev = o.op
  BY RunningFacts
<1>2. DeviceCall(o, p) /\ p.dev = o.dev /\ (p.dev = "alsa" => p.hw = "prepared")
  BY <1>1, OpDrop
<1> HIDE DEF p
<1>3. Good(p)
  BY <1>2, StaysAsIs
<1> QED  BY <1>2, <1>3, CallKeeps DEF p

LEMMA UnpauseKeepsGood ==
    ASSUME NEW o, Good(o), o.status # "stopped"
    PROVE  Good([op_unpause(o) EXCEPT !.status = "playing"])
<1> DEFINE p == op_unpause(o)
<1>1. DeviceOK(o) /\ o.dev = o.op /\ (o.dev = "alsa" /\ o.hw = "paused" => o.can_pause)
  BY RunningFacts
<1>2. /\ DeviceCall(o, p) /\ p.dev = o.dev /\ p.can_pause = o.can_pause
      /\ p.dev = "alsa" /\ p.hw = "paused" => ~o.can_pause /\ o.hw = "paused"
  BY <1>1, OpUnpause
<1> HIDE DEF p
<1>3. p.dev = "alsa" => p.hw # "paused"
  BY <1>1, <1>2
<1>4. Good([p EXCEPT !.status = "playing"])
  BY <1>2, <1>3, StaysOpen
<1> QED  BY <1>4 DEF p

LEMMA ReopenKeepsGood ==
    ASSUME NEW o, Good(o), o.status # "stopped", NEW q \in Reopened(o)
    PROVE  Good(q)
  BY RunningFacts, ReopenedOK, GoodStep

LEMMA ConsumerPlay == Good(out) /\ __consumer_play => Good(out')
<1> SUFFICES ASSUME Good(out), __consumer_play PROVE Good(out')
  OBVIOUS
<1>1. CASE out.status = "playing"
  <2>1. out' = op_drop(out)
    BY <1>1 DEF __consumer_play
  <2> QED  BY <1>1, <2>1, DropKeepsGood
<1>2. CASE out.status = "stopped"
  <2>1. PICK p \in op_open(out) : out' = Play(p)
    BY <1>2 DEF __consumer_play
  <2>2. DeviceOK(out) /\ out.dev = "none" /\ out.op \in OutPlugins \cup {"none"}
    BY <1>2 DEF Good, StatusOK, MixOK
  <2>3. DeviceOK(out') /\ KeepMix(out, out') /\ StatusOK(out')
    BY <1>2, <2>1, <2>2, PlayOpened
  <2> QED  BY <2>3, GoodStep
<1>3. CASE out.status = "paused"
  <2>1. out' = [op_unpause(out) EXCEPT !.status = "playing"]
    BY <1>3 DEF __consumer_play
  <2> QED  BY <1>3, <2>1, UnpauseKeepsGood
<1> QED  BY <1>1, <1>2, <1>3 DEF Good, StatusOK

LEMMA ConsumerStops == Good(out) /\ (__consumer_stop \/ __consumer_drain_and_stop) => Good(out')
<1> SUFFICES ASSUME Good(out), __consumer_stop \/ __consumer_drain_and_stop PROVE Good(out')
  OBVIOUS
<1>1. ASSUME NEW o, Good(o), o.status # "stopped", NEW q \in Stopped(op_close(o))
      PROVE  Good(q)
  BY <1>1, RunningFacts, StopClosed, GoodStep
<1>2. CASE __consumer_drain_and_stop
  BY <1>1, <1>2 DEF __consumer_drain_and_stop
<1>3. CASE __consumer_stop
  <2>1. out.status # "stopped" /\ out' \in Stopped(op_close(op_drop(out)))
    BY <1>3 DEF __consumer_stop
  <2>2. Good(op_drop(out)) /\ op_drop(out).status = out.status
    BY <2>1, DropKeepsGood
  <2> QED  BY <1>1, <2>1, <2>2
<1> QED  BY <1>2, <1>3

LEMMA ConsumerPauses == Good(out) /\ __consumer_pause => Good(out')
<1> SUFFICES ASSUME Good(out), __consumer_pause PROVE Good(out')
  OBVIOUS
<1>1. out.status # "stopped"
  BY DEF __consumer_pause
<1>2. CASE out.status = "playing"
  <2> DEFINE p == op_pause(out)
  <2>1. DeviceOK(out) /\ out.dev = out.op /\ (out.dev = "alsa" => out.hw # "paused")
    BY <1>1, <1>2, RunningFacts
  <2>2. /\ DeviceCall(out, p) /\ p.dev = out.dev
        /\ p.dev = "alsa" /\ p.can_pause => p.hw # "running"
        /\ p.dev = "alsa" /\ p.hw = "paused" => p.can_pause \/ out.hw = "paused"
    BY <2>1, OpPause
  <2>3. out' = [p EXCEPT !.status = "paused"]
    BY <1>2 DEF __consumer_pause
  <2> HIDE DEF p
  <2>4. p.dev = "alsa" => /\ p.can_pause => p.hw # "running"
                          /\ p.hw = "paused" => p.can_pause
    BY <2>1, <2>2
  <2> QED  BY <1>1, <2>2, <2>3, <2>4, StaysOpen
<1>3. CASE out.status # "playing"
  <2>1. out' = [op_unpause(out) EXCEPT !.status = "playing"]
    BY <1>3 DEF __consumer_pause
  <2> QED  BY <1>1, <2>1, UnpauseKeepsGood
<1> QED  BY <1>2, <1>3

LEMMA ChangeFormat ==
    ASSUME NEW changed \in BOOLEAN, NEW drop \in BOOLEAN, Good(out), change_sf(changed, drop)
    PROVE  Good(out')
<1>0. out.status # "stopped"
  BY DEF change_sf
<1>1. CASE changed
  <2>1. out' \in Reopened(IF drop THEN op_drop(out) ELSE out)
    BY <1>1 DEF change_sf
  <2>2. CASE drop
    <3>1. out' \in Reopened(op_drop(out))
      BY <2>1, <2>2
    <3>2. Good(op_drop(out)) /\ op_drop(out).status # "stopped"
      BY <1>0, DropKeepsGood
    <3> QED  BY <3>1, <3>2, ReopenKeepsGood
  <2>3. CASE ~drop
    BY <1>0, <2>1, <2>3, ReopenKeepsGood
  <2> QED  BY <2>2, <2>3
<1>2. CASE ~changed /\ out.status = "paused"
  <2>1. out' = [op_unpause(op_drop(out)) EXCEPT !.status = "playing"]
    BY <1>2 DEF change_sf
  <2>2. Good(op_drop(out)) /\ op_drop(out).status # "stopped"
    BY <1>0, DropKeepsGood
  <2> QED  BY <2>1, <2>2, UnpauseKeepsGood
<1>3. CASE ~changed /\ out.status # "paused"
  <2>1. out' = [out EXCEPT !.status = "playing"]
    BY <1>3 DEF change_sf
  <2>2. DeviceOK(out) /\ out.status = "playing" /\ (out.dev = "alsa" => out.hw # "paused")
    BY <1>0, <1>3, RunningFacts
  <2>3. DeviceCall(out, out)
    BY <2>2 DEF DeviceCall, FrontSame
  <2> QED  BY <1>0, <2>1, <2>2, <2>3, StaysOpen
<1> QED  BY <1>1, <1>2, <1>3

LEMMA PlayerSeeks == Good(out) /\ player_seek => Good(out')
  BY DropKeepsGood DEF player_seek

LEMMA ConsumerWrites ==
    ASSUME NEW count \in Sizes, Good(out), consumer_write(count)
    PROVE  Good(out')
<1>1. out.status = "playing" /\ ~out.resized
  BY DEF consumer_write
<1>2. PICK w \in op_write(out, count) :
        IF w.rc < 0 THEN out' \in Reopened([w EXCEPT !.rc = 0]) ELSE out' = [w EXCEPT !.rc = 0]
  BY DEF consumer_write
<1>3. DeviceOK(out) /\ out.dev = out.op /\ out.op \in OutPlugins /\ (out.dev = "alsa" => out.hw # "paused")
  BY <1>1, RunningFacts
<1>4. count \in Nat
  BY OutputAssumption
<1>5. /\ DeviceCall(out, w) /\ w.dev = out.dev /\ w.can_pause = out.can_pause
      /\ out.dev = "alsa" /\ out.hw # "paused" => w.hw # "paused"
  BY <1>1, <1>3, <1>4, OpWrite
<1> DEFINE r == [w EXCEPT !.rc = 0]
<1>6. DeviceOK(w)
  BY <1>5 DEF DeviceCall
<1>7. DeviceCall(w, r) /\ r.dev = w.dev /\ r.hw = w.hw
  BY <1>6, RcOnly
<1>8. out' \in Reopened(r) \/ out' = r
  BY <1>2
<1> HIDE DEF r
<1>9. DeviceCall(out, r)
  BY <1>5, <1>7 DEF DeviceCall, FrontSame
<1>10. Good(r)
  <2>1. r.dev = out.dev /\ (r.dev = "alsa" => r.hw # "paused")
    BY <1>3, <1>5, <1>7
  <2> QED  BY <1>1, <1>9, <2>1, StaysAsIs
<1>11. r.status = "playing"
  BY <1>1, <1>9 DEF DeviceCall, FrontSame
<1> QED  BY <1>8, <1>10, <1>11, ReopenKeepsGood

-----------------------------------------------------------------------------
(* Selecting a plugin                                                      *)

(* t comes from s by selecting a plugin, or by failing to.                 *)
Selected(s, t) ==
    /\ DOMAIN t = Fields /\ PluginsOK(t) /\ RingSame(s, t) /\ PcmSame(s, t)
    /\ t.list = s.list /\ t.mixer_open = s.mixer_open /\ t.soft_vol = s.soft_vol /\ t.volume_max = s.volume_max
    /\ t.started = s.started /\ t.bug = s.bug /\ t.status = s.status /\ t.dev = s.dev
    /\ t.rc \in {0, -1} /\ t.op \in OutPlugins \cup {"none"} /\ (t.rc = 0 => t.op \in OutPlugins)

LEMMA InitPlugin ==
    ASSUME NEW s, NEW t, Selected(s, t), NEW p \in OutPlugins, NEW i \in init_plugin(t, p), NEW V,
           t \in [Fields -> V], [OutPlugins -> BOOLEAN] \subseteq V
    PROVE  Selected(s, i) /\ i.op = t.op /\ i \in [Fields -> V]
<1>1. PICK a \in BOOLEAN, b \in BOOLEAN :
        /\ i = [t EXCEPT !.pcm[p] = a, !.mixer[p] = b] /\ (p \notin WithMixer /\ ~t.mixer[p] => ~b)
  <2>1. PICK a \in Tried(t.pcm[p], TRUE), b \in Tried(t.mixer[p], p \in WithMixer) :
          i = [t EXCEPT !.pcm[p] = a, !.mixer[p] = b]
    <3> DEFINE A == Tried(t.pcm[p], TRUE)
               B == Tried(t.mixer[p], p \in WithMixer)
               R(x, y) == [t EXCEPT !.pcm[p] = x, !.mixer[p] = y]
    <3>1. i \in UNION {{R(x, y) : y \in B} : x \in A}
      BY Zenon DEF init_plugin
    <3> HIDE DEF A, B, R
    <3>2. \E a \in A, b \in B : i = R(a, b)
      BY <3>1, Zenon
    <3> QED  BY <3>2, Zenon DEF A, B, R
  <2>2. a \in BOOLEAN /\ b \in BOOLEAN /\ (p \notin WithMixer /\ ~t.mixer[p] => ~b)
    BY Zenon DEF Tried
  <2> QED  BY <2>1, <2>2, Zenon
<1> DEFINE pcm == [t.pcm EXCEPT ![p] = a]
           mixer == [t.mixer EXCEPT ![p] = b]
<1>2. t.pcm \in [OutPlugins -> BOOLEAN] /\ t.mixer \in [OutPlugins -> BOOLEAN]
      /\ \A x \in OutPlugins \ WithMixer : ~t.mixer[x]
  BY DEF Selected, PluginsOK
<1>3. pcm \in [OutPlugins -> BOOLEAN] /\ mixer \in [OutPlugins -> BOOLEAN]
  BY <1>2
<1>4. \A x \in OutPlugins \ WithMixer : ~mixer[x]
  BY <1>1, <1>2, Zenon
<1>5. i = [t EXCEPT !.pcm = pcm, !.mixer = mixer]
  BY <1>1, Zenon
<1> HIDE DEF pcm, mixer
<1>6. /\ DOMAIN i = Fields /\ i \in [Fields -> V] /\ RingSame(t, i) /\ PcmSame(t, i)
      /\ i.list = t.list /\ i.mixer_open = t.mixer_open /\ i.soft_vol = t.soft_vol
      /\ i.volume_max = t.volume_max /\ i.started = t.started /\ i.bug = t.bug /\ i.status = t.status
      /\ i.dev = t.dev /\ i.rc = t.rc /\ i.op = t.op /\ i.pcm = pcm /\ i.mixer = mixer
  BY <1>3, <1>5 DEF Selected, Fields, RingSame, PcmSame
<1>7. PluginsOK(i)
  BY <1>3, <1>4, <1>6 DEF Selected, PluginsOK
<1> QED  BY <1>6, <1>7 DEF Selected, RingSame, PcmSame

LEMMA SelectPlugin ==
    ASSUME NEW s, NEW t, Selected(s, t), NEW p \in OutPlugins, NEW u \in select_plugin(t, p), NEW V,
           t \in [Fields -> V], [OutPlugins -> BOOLEAN] \subseteq V, OutPlugins \subseteq V, {0, -1} \subseteq V
    PROVE  Selected(s, u) /\ u \in [Fields -> V]
<1>1. PICK i \in init_plugin(t, p) : u = IF i.pcm[p] THEN [i EXCEPT !.op = p, !.rc = 0] ELSE [i EXCEPT !.rc = -1]
  BY DEF select_plugin
<1>2. Selected(s, i) /\ i.op = t.op /\ i \in [Fields -> V]
  BY InitPlugin
<1>3. CASE u = [i EXCEPT !.op = p, !.rc = 0]
  <2>1. /\ DOMAIN u = Fields /\ u \in [Fields -> V] /\ RingSame(i, u) /\ PcmSame(i, u)
        /\ u.list = i.list /\ u.mixer_open = i.mixer_open /\ u.soft_vol = i.soft_vol
        /\ u.volume_max = i.volume_max /\ u.started = i.started /\ u.bug = i.bug /\ u.status = i.status
        /\ u.dev = i.dev /\ u.rc = 0 /\ u.op = p /\ u.pcm = i.pcm /\ u.mixer = i.mixer
    BY <1>2, <1>3 DEF Selected, Fields, RingSame, PcmSame
  <2>2. PluginsOK(u)
    BY <1>2, <2>1 DEF Selected, PluginsOK
  <2> QED  BY <1>2, <2>1, <2>2 DEF Selected, RingSame, PcmSame
<1>4. CASE u = [i EXCEPT !.rc = -1]
  <2>1. /\ DOMAIN u = Fields /\ u \in [Fields -> V] /\ RingSame(i, u) /\ PcmSame(i, u)
        /\ u.list = i.list /\ u.mixer_open = i.mixer_open /\ u.soft_vol = i.soft_vol
        /\ u.volume_max = i.volume_max /\ u.started = i.started /\ u.bug = i.bug /\ u.status = i.status
        /\ u.dev = i.dev /\ u.rc = -1 /\ u.op = i.op /\ u.pcm = i.pcm /\ u.mixer = i.mixer
    BY <1>2, <1>4 DEF Selected, Fields, RingSame, PcmSame
  <2>2. PluginsOK(u)
    BY <1>2, <2>1 DEF Selected, PluginsOK
  <2>3. u.rc \in {0, -1} /\ u.rc # 0 /\ u.op \in OutPlugins \cup {"none"}
    BY <1>2, <2>1 DEF Selected
  <2> QED  BY <1>2, <2>1, <2>2, <2>3 DEF Selected, RingSame, PcmSame
<1> QED  BY <1>1, <1>3, <1>4

(* The values that selecting from s deals with.                            *)
Values(s) == {s[x] : x \in Fields} \cup [OutPlugins -> BOOLEAN] \cup OutPlugins \cup {0, -1}
Selections(s) == {t \in [Fields -> Values(s)] : Selected(s, t)}

LEMMA NothingSelected ==
    ASSUME NEW s, DOMAIN s = Fields, PluginsOK(s), s.op \in OutPlugins \cup {"none"}
    PROVE  [s EXCEPT !.rc = -1] \in Selections(s)
<1> DEFINE u == [s EXCEPT !.rc = -1]
           V == Values(s)
<1>0. -1 \in V /\ \A x \in Fields : s[x] \in V
  BY DEF Values
<1>1. u = [x \in Fields |-> IF x = "rc" THEN -1 ELSE s[x]]
  BY Zenon
<1> HIDE DEF V
<1>2. u \in [Fields -> V]
  BY <1>0, <1>1
<1>3. /\ DOMAIN u = Fields /\ RingSame(s, u) /\ PcmSame(s, u)
      /\ u.list = s.list /\ u.mixer_open = s.mixer_open /\ u.soft_vol = s.soft_vol
      /\ u.volume_max = s.volume_max /\ u.started = s.started /\ u.bug = s.bug /\ u.status = s.status
      /\ u.dev = s.dev /\ u.rc = -1 /\ u.op = s.op /\ u.pcm = s.pcm /\ u.mixer = s.mixer
  BY DEF Fields, RingSame, PcmSame
<1> HIDE DEF u
<1>4. PluginsOK(u)
  BY <1>3 DEF PluginsOK
<1>5. u.rc \in {0, -1} /\ u.rc # 0
  BY <1>3
<1>6. Selected(s, u)
  BY <1>3, <1>4, <1>5 DEF Selected
<1> QED  BY <1>2, <1>6 DEF Selections, V, u

LEMMA TryPlugin ==
    ASSUME NEW s, NEW ss \in SUBSET Selections(s), NEW p \in OutPlugins
    PROVE  Try(ss, p) \in SUBSET Selections(s)
<1> SUFFICES ASSUME NEW u \in Try(ss, p) PROVE u \in Selections(s)
  OBVIOUS
<1>1. PICK t \in ss : u \in IF t.rc = 0 THEN {t} ELSE select_plugin(t, p)
  BY DEF Try
<1>2. t \in Selections(s)
  OBVIOUS
<1>3. CASE u = t
  BY <1>2, <1>3
<1>4. CASE u \in select_plugin(t, p)
  <2>1. Selected(s, t) /\ t \in [Fields -> Values(s)]
    BY <1>2 DEF Selections
  <2>2. [OutPlugins -> BOOLEAN] \subseteq Values(s) /\ OutPlugins \subseteq Values(s) /\ {0, -1} \subseteq Values(s)
    BY Zenon DEF Values
  <2>3. Selected(s, u) /\ u \in [Fields -> Values(s)]
    BY <1>4, <2>1, <2>2, SelectPlugin
  <2> QED  BY <2>3 DEF Selections
<1> QED  BY <1>1, <1>3, <1>4

LEMMA TryAll ==
    ASSUME NEW s, NEW ss \in SUBSET Selections(s), NEW list \in Seq(OutPlugins)
    PROVE  FoldLeft(Try, ss, list) \in SUBSET Selections(s)
<1> DEFINE M == SUBSET Selections(s)
           E == OutPlugins
           L == Len(list)
           F == [x \in M \X E |-> Try(x[1], x[2])]
           Eq(f) == f = [d \in SUBSET (DOMAIN list) |->
                           IF d = {} THEN ss ELSE Try(f[d \ {Max(d)}], list[Max(d)])]
           iter == CHOOSE f : Eq(f)
<1>1. DOMAIN list = 1 .. L /\ L \in Nat /\ \A i \in 1 .. L : list[i] \in E
  OBVIOUS
<1>2. \A x \in M, i \in E : Try(x, i) \in M
  BY TryPlugin
<1>3. ss \in M
  OBVIOUS
<1> HIDE DEF M, E
<1>4. F \in [M \X E -> M] /\ \A x \in M, i \in E : F[<< x, i >>] = Try(x, i)
  BY <1>2
<1> HIDE DEF L, F
<1>5. PICK it : Iterates(it, M, ss, L, list, F)
  BY <1>1, <1>3, <1>4, FoldExists
<1>6. /\ it \in [SUBSET (1 .. L) -> M] /\ it[{}] = ss
      /\ \A d \in SUBSET (1 .. L) : d # {} => it[d] = F[<< it[d \ {Max(d)}], list[Max(d)] >>]
  BY <1>5 DEF Iterates
<1>7. \A d \in SUBSET (1 .. L) : d # {} => it[d] = Try(it[d \ {Max(d)}], list[Max(d)])
  <2> SUFFICES ASSUME NEW d \in SUBSET (1 .. L), d # {}
               PROVE  it[d] = Try(it[d \ {Max(d)}], list[Max(d)])
    OBVIOUS
  <2>1. Max(d) \in d /\ d \ {Max(d)} \in SUBSET (1 .. L)
    BY <1>1, MaxInside
  <2>2. it[d \ {Max(d)}] \in M /\ list[Max(d)] \in E
    BY <1>1, <1>6, <2>1
  <2> QED  BY <1>4, <1>6, <2>2
<1>8. Eq(it)
  BY <1>1, <1>6, <1>7
<1>9. Eq(iter)
  <2> HIDE DEF Eq
  <2> QED  BY <1>8
<1>10. FoldLeft(Try, ss, list) = iter[1 .. L]
  BY <1>1 DEF FoldLeft, MapThenFoldSet
<1> HIDE DEF iter
<1>11. StepAlike(iter, it, L)
  BY <1>1, <1>8, <1>9 DEF StepAlike
<1>12. iter[1 .. L] = it[1 .. L]
  BY <1>1, <1>11, FoldAgree
<1>13. it[1 .. L] \in M
  BY <1>6
<1> QED  BY <1>10, <1>12, <1>13 DEF M

(* All that op_select and op_select_any end in.                            *)
LEMMA SelectAny ==
    ASSUME NEW s, DOMAIN s = Fields, PluginsOK(s), s.op \in OutPlugins \cup {"none"}, NEW name,
           NEW t \in (IF name = "any" THEN op_select_any(s) ELSE op_select(s, name))
    PROVE  Selected(s, t)
<1>1. Unselected(s) \in SUBSET Selections(s)
  BY NothingSelected DEF Unselected
<1>2. s.list \in Seq(OutPlugins)
  BY DEF PluginsOK
<1>3. CASE name = "any"
  <2>1. t \in FoldLeft(Try, Unselected(s), s.list)
    BY <1>3 DEF op_select_any
  <2>2. FoldLeft(Try, Unselected(s), s.list) \in SUBSET Selections(s)
    BY <1>1, <1>2, TryAll
  <2> QED  BY <2>1, <2>2 DEF Selections
<1>4. CASE name # "any" /\ name \in ToSet(s.list)
  <2>1. name \in OutPlugins
    BY <1>2, <1>4 DEF ToSet
  <2>2. t \in Try(Unselected(s), name)
    BY <1>4 DEF op_select
  <2> QED  BY <1>1, <2>1, <2>2, TryPlugin DEF Selections
<1>5. CASE name # "any" /\ name \notin ToSet(s.list)
  BY <1>1, <1>5 DEF op_select, Selections
<1> QED  BY <1>3, <1>4, <1>5

-----------------------------------------------------------------------------
(* The mixer                                                               *)

(* No mixer is open.                                                       *)
MixerShut(o) ==
    /\ o.mixer_open \in [OutPlugins -> BOOLEAN] /\ \A p \in OutPlugins : ~o.mixer_open[p]
    /\ o.volume_max = 0

(* Good but for the mixer.                                                 *)
GoodShut(o) ==
    /\ DeviceOK(o) /\ PluginsOK(o) /\ StatusOK(o) /\ MixerShut(o) /\ o.op \in OutPlugins \cup {"none"}
    /\ ~o.bug /\ (~o.started => o.op = "none")

(* What does not concern the device.                                       *)
DeviceSame(o, p) == PcmSame(o, p) /\ RingSame(o, p) /\ p.dev = o.dev /\ p.status = o.status

LEMMA DeviceKept ==
    ASSUME NEW o, NEW p, DeviceOK(o), DOMAIN p = Fields, DeviceSame(o, p)
    PROVE  DeviceOK(p)
<1>1. RingOK(p)
  BY RingKept DEF DeviceOK, DeviceSame
<1>2. PadOK(p)
  BY DEF DeviceOK, PadOK, DeviceSame, PcmSame
<1> QED  BY <1>1, <1>2 DEF DeviceOK

LEMMA StatusKept ==
    ASSUME NEW o, NEW p, StatusOK(o), DeviceSame(o, p), p.op = o.op
    PROVE  StatusOK(p)
  BY DEF StatusOK, DeviceSame, PcmSame

LEMMA MixerClose ==
    ASSUME NEW o, Good(o)
    PROVE  GoodShut(mixer_close(o)) /\ mixer_close(o).started = o.started /\ mixer_close(o).list = o.list
<1> DEFINE p == mixer_close(o)
           m == IF o.op # "none" /\ o.mixer_open[o.op] THEN [o.mixer_open EXCEPT ![o.op] = FALSE] ELSE o.mixer_open
<1>1. /\ o.mixer_open \in [OutPlugins -> BOOLEAN] /\ o.op \in OutPlugins \cup {"none"} /\ DOMAIN o = Fields
      /\ \A x \in OutPlugins : o.mixer_open[x] => x = o.op
  BY DEF Good, MixOK, DeviceOK
<1>2. m \in [OutPlugins -> BOOLEAN]
  BY <1>1
<1>3. \A x \in OutPlugins : ~m[x]
  <2> TAKE x \in OutPlugins
  <2>1. CASE o.op # "none" /\ o.mixer_open[o.op]
    <3>1. m = [o.mixer_open EXCEPT ![o.op] = FALSE]
      BY <2>1
    <3> QED  BY <1>1, <3>1, Zenon
  <2>2. CASE ~(o.op # "none" /\ o.mixer_open[o.op])
    <3>1. m = o.mixer_open
      BY <2>2
    <3>2. x # "none"
      BY DEF OutPlugins
    <3> QED  BY <1>1, <2>2, <3>1, <3>2
  <2> QED  BY <2>1, <2>2
<1>4. /\ DOMAIN p = Fields /\ DeviceSame(o, p) /\ p.volume_max = 0 /\ p.mixer_open = m
      /\ p.list = o.list /\ p.op = o.op /\ p.pcm = o.pcm /\ p.mixer = o.mixer
      /\ p.soft_vol = o.soft_vol /\ p.started = o.started /\ p.bug = o.bug
  <2>1. CASE o.op # "none" /\ o.mixer_open[o.op]
    <3>1. p = [o EXCEPT !.volume_max = 0, !.mixer_open = m]
      BY <2>1 DEF mixer_close
    <3> HIDE DEF m, p
    <3> QED  BY <1>1, <3>1 DEF Fields, DeviceSame, PcmSame, RingSame
  <2>2. CASE ~(o.op # "none" /\ o.mixer_open[o.op])
    <3>1. p = [o EXCEPT !.volume_max = 0] /\ m = o.mixer_open
      BY <2>2 DEF mixer_close
    <3> HIDE DEF m, p
    <3> QED  BY <1>1, <3>1 DEF Fields, DeviceSame, PcmSame, RingSame
  <2> QED  BY <2>1, <2>2
<1> HIDE DEF m, p
<1>5. DeviceOK(p) /\ StatusOK(p)
  BY <1>4, DeviceKept, StatusKept DEF Good
<1>6. PluginsOK(p)
  BY <1>4 DEF Good, PluginsOK
<1>7. MixerShut(p)
  BY <1>2, <1>3, <1>4 DEF MixerShut
<1>8. ~p.bug /\ (~p.started => p.op = "none") /\ p.op \in OutPlugins \cup {"none"}
  BY <1>1, <1>4 DEF Good
<1> QED  BY <1>4, <1>5, <1>6, <1>7, <1>8 DEF GoodShut, p

(* Before the mixer is opened or the plugin changes, it is closed unless   *)
(* soft_vol is on, when it is not open.                                    *)
LEMMA MixerShutFirst ==
    ASSUME NEW o, Good(o)
    PROVE  LET c == IF o.soft_vol THEN o ELSE mixer_close(o)
           IN  GoodShut(c) /\ c.started = o.started /\ c.list = o.list
<1>1. CASE o.soft_vol
  <2>1. MixerShut(o)
    BY <1>1, Zenon DEF Good, MixOK, MixerShut
  <2>2. GoodShut(o)
    BY <2>1 DEF Good, GoodShut, MixOK
  <2> QED  BY <1>1, <2>2
<1>2. CASE ~o.soft_vol
  BY <1>2, MixerClose
<1> QED  BY <1>1, <1>2

LEMMA ShutIsGood ==
    ASSUME NEW o, GoodShut(o)
    PROVE  Good(o)
  BY DEF GoodShut, Good, MixerShut, MixOK

LEMMA MixerOpen ==
    ASSUME NEW o, GoodShut(o), NEW p \in Unless(o.soft_vol, o)
    PROVE  Good(p)
<1>1. CASE p = o
  BY <1>1, ShutIsGood
<1>2. CASE p # o
  <2>1. p \in mixer_open(o) /\ ~o.soft_vol
    BY <1>2 DEF Unless
  <2>2. o.op \in OutPlugins /\ ~o.mixer_open[o.op]
    BY <1>2, <2>1 DEF mixer_open, GoodShut, MixerShut
  <2>3. o.op # "none"
    BY <2>2 DEF OutPlugins
  <2>4. \/ p = [o EXCEPT !.mixer_open[o.op] = TRUE, !.volume_max = MixerMax[o.op]]
        \/ p = [o EXCEPT !.volume_max = 0]
    BY <1>2, <2>1, <2>2, <2>3 DEF mixer_open
  <2> DEFINE m == [o.mixer_open EXCEPT ![o.op] = TRUE]
             v == MixerMax[o.op]
  <2>5. m \in [OutPlugins -> BOOLEAN] /\ m[o.op] /\ \A x \in OutPlugins : m[x] => x = o.op
    BY <2>2, Zenon DEF GoodShut, MixerShut
  <2>6. CASE p = [o EXCEPT !.mixer_open = m, !.volume_max = v]
    <3> HIDE DEF m, v
    <3>1. /\ DOMAIN p = Fields /\ DeviceSame(o, p) /\ p.volume_max = v /\ p.mixer_open = m
          /\ p.list = o.list /\ p.op = o.op /\ p.pcm = o.pcm /\ p.mixer = o.mixer
          /\ p.soft_vol = o.soft_vol /\ p.started = o.started /\ p.bug = o.bug
      BY <2>6 DEF GoodShut, DeviceOK, Fields, DeviceSame, PcmSame, RingSame
    <3>2. DeviceOK(p) /\ StatusOK(p)
      BY <3>1, DeviceKept, StatusKept DEF GoodShut
    <3>3. PluginsOK(p) /\ ~p.bug /\ (~p.started => p.op = "none")
      BY <3>1 DEF GoodShut, PluginsOK
    <3>4. MixOK(p)
      <4>1. \A x \in OutPlugins : p.mixer_open[x] => x = p.op /\ ~p.soft_vol /\ p.volume_max = MixerMax[x]
        BY <2>1, <2>5, <3>1 DEF v
      <4>2. p.op # "none" /\ p.mixer_open[p.op] /\ p.op \in OutPlugins \cup {"none"}
        BY <2>2, <2>3, <2>5, <3>1
      <4> QED  BY <2>5, <3>1, <4>1, <4>2 DEF MixOK
    <3> QED  BY <3>2, <3>3, <3>4 DEF Good
  <2>7. CASE p = [o EXCEPT !.volume_max = 0]
    <3>1. /\ DOMAIN p = Fields /\ DeviceSame(o, p) /\ p.volume_max = 0 /\ p.mixer_open = o.mixer_open
          /\ p.list = o.list /\ p.op = o.op /\ p.pcm = o.pcm /\ p.mixer = o.mixer
          /\ p.soft_vol = o.soft_vol /\ p.started = o.started /\ p.bug = o.bug
      BY <2>7 DEF GoodShut, DeviceOK, Fields, DeviceSame, PcmSame, RingSame
    <3>2. DeviceOK(p) /\ StatusOK(p)
      BY <3>1, DeviceKept, StatusKept DEF GoodShut
    <3>3. PluginsOK(p) /\ ~p.bug /\ (~p.started => p.op = "none") /\ p.op \in OutPlugins \cup {"none"}
      BY <3>1 DEF GoodShut, PluginsOK
    <3>4. MixerShut(p)
      BY <3>1 DEF GoodShut, MixerShut
    <3> QED  BY <3>2, <3>3, <3>4, ShutIsGood DEF GoodShut
  <2> QED  BY <2>4, <2>6, <2>7
<1> QED  BY <1>1, <1>2

-----------------------------------------------------------------------------
(* player_set_op                                                           *)

(* Between closing and opening: c comes from o, and no mixer is open.      *)
Between(o, c) ==
    /\ DeviceOK(c) /\ PluginsOK(c) /\ MixerShut(c) /\ c.op \in OutPlugins \cup {"none"} /\ ~c.bug
    /\ c.started = o.started /\ c.soft_vol = o.soft_vol

LEMMA BetweenKept ==
    ASSUME NEW o, NEW c, NEW d, Between(o, c), DeviceOK(d), KeepMix(c, d)
    PROVE  Between(o, d)
<1>1. PluginsOK(d)
  BY DEF Between, PluginsOK, KeepMix
<1>2. MixerShut(d)
  BY DEF Between, MixerShut, KeepMix
<1>3. d.op \in OutPlugins \cup {"none"} /\ ~d.bug /\ d.started = o.started /\ d.soft_vol = o.soft_vol
  BY DEF Between, KeepMix
<1> QED  BY <1>1, <1>2, <1>3 DEF Between

LEMMA BetweenSelected ==
    ASSUME NEW o, NEW c, NEW s, Between(o, c), Selected(c, s)
    PROVE  Between(o, s)
<1>1. DeviceOK(s)
  BY DeviceKept DEF Between, Selected, DeviceSame
<1>2. MixerShut(s)
  BY DEF Between, Selected, MixerShut
<1>3. PluginsOK(s) /\ s.op \in OutPlugins \cup {"none"} /\ ~s.bug /\ s.started = o.started /\ s.soft_vol = o.soft_vol
  BY DEF Between, Selected
<1> QED  BY <1>1, <1>2, <1>3 DEF Between

LEMMA SetOpCloses ==
    ASSUME NEW o, GoodShut(o),
           NEW c \in (IF o.status # "stopped" THEN op_close(IF o.status = "paused" THEN op_drop(o) ELSE o) ELSE {o})
    PROVE  Between(o, c) /\ c.dev = "none" /\ c.status = o.status
<1>1. Good(o) /\ Between(o, o)
  BY ShutIsGood DEF GoodShut, Between
<1>2. CASE o.status = "stopped"
  <2>1. c = o
    BY <1>2
  <2> QED  BY <1>1, <1>2, <2>1 DEF Good, StatusOK
<1>3. CASE o.status = "paused"
  <2> DEFINE d == op_drop(o)
  <2>1. DeviceOK(o) /\ o.dev = o.op /\ o.op \in OutPlugins
    BY <1>1, <1>3, RunningFacts
  <2>2. DeviceCall(o, d) /\ d.dev = o.dev
    BY <2>1, OpDrop
  <2>3. c \in op_close(d)
    BY <1>3
  <2> HIDE DEF d
  <2>4. DeviceOK(d) /\ KeepMix(o, d) /\ d.status = o.status
    BY <2>2, CallKeeps
  <2>5. d.dev = d.op /\ d.op \in OutPlugins
    BY <2>1, <2>2, <2>4 DEF KeepMix
  <2>6. DeviceCall(d, c) /\ c.dev = "none"
    BY <2>3, <2>4, <2>5, OpClose
  <2>7. DeviceOK(c) /\ KeepMix(d, c) /\ c.status = d.status
    BY <2>6, CallKeeps
  <2> QED  BY <1>1, <2>4, <2>6, <2>7, BetweenKept
<1>4. CASE o.status \notin {"stopped", "paused"}
  <2>1. DeviceOK(o) /\ o.dev = o.op /\ o.op \in OutPlugins
    BY <1>1, <1>4, RunningFacts
  <2>2. c \in op_close(o)
    BY <1>4
  <2>3. DeviceCall(o, c) /\ c.dev = "none"
    BY <2>1, <2>2, OpClose
  <2>4. DeviceOK(c) /\ KeepMix(o, c) /\ c.status = o.status
    BY <2>3, CallKeeps
  <2> QED  BY <1>1, <2>3, <2>4, BetweenKept
<1> QED  BY <1>2, <1>3, <1>4

(* The device of the new plugin is opened and paused as before, or playing *)
(* stops.                                                                  *)
LEMMA SetOpOpens ==
    ASSUME NEW o, NEW s, Between(o, s), s.dev = "none", s.status \in {"playing", "paused"}, NEW p \in op_open(s)
    PROVE  LET r == IF p.dev = "none" THEN [p EXCEPT !.status = "stopped"]
                    ELSE IF s.status = "paused" THEN op_pause(p) ELSE p
           IN  Between(o, r) /\ StatusOK(r)
<1> DEFINE r == IF p.dev = "none" THEN [p EXCEPT !.status = "stopped"]
                ELSE IF s.status = "paused" THEN op_pause(p) ELSE p
<1>1. DeviceOK(s) /\ s.op \in OutPlugins \cup {"none"}
  BY DEF Between
<1>2. DeviceCall(s, p) /\ p.dev \in {"none", s.op} /\ (p.dev = "alsa" => p.hw = "prepared")
  BY <1>1, OpOpen
<1>3. DeviceOK(p) /\ KeepMix(s, p) /\ p.status = s.status
  BY <1>2, CallKeeps
<1>4. Between(o, p)
  BY <1>3, BetweenKept
<1>5. CASE p.dev = "none"
  <2>1. r = [p EXCEPT !.status = "stopped"]
    BY <1>5
  <2> HIDE DEF r
  <2>2. DeviceOK(r) /\ KeepMix(p, r) /\ r.status = "stopped" /\ r.dev = "none"
    BY <1>3, <1>5, <2>1, StatusOnly
  <2>3. Between(o, r) /\ StatusOK(r)
    BY <1>4, <2>2, BetweenKept DEF StatusOK
  <2> QED  BY <2>3 DEF r
<1>6. CASE p.dev # "none" /\ s.status = "paused"
  <2>1. r = op_pause(p)
    BY <1>6
  <2> HIDE DEF r
  <2>2. p.dev = p.op /\ p.op # "none"
    BY <1>2, <1>3, <1>6 DEF KeepMix
  <2>3. /\ DeviceCall(p, r) /\ r.dev = p.dev
        /\ r.dev = "alsa" /\ r.can_pause => r.hw # "running"
        /\ r.dev = "alsa" /\ r.hw = "paused" => r.can_pause \/ p.hw = "paused"
    BY <1>3, <2>1, <2>2, OpPause
  <2>4. DeviceOK(r) /\ KeepMix(p, r) /\ r.status = "paused"
    BY <1>3, <1>6, <2>3, CallKeeps
  <2>5. r.dev = r.op /\ r.op # "none"
    BY <2>2, <2>3, <2>4 DEF KeepMix
  <2>6. r.dev = "alsa" /\ r.hw = "paused" => r.can_pause
    BY <1>2, <2>3
  <2>7. StatusOK(r)
    BY <2>3, <2>4, <2>5, <2>6 DEF StatusOK
  <2> QED  BY <1>4, <2>4, <2>7, BetweenKept DEF r
<1>7. CASE p.dev # "none" /\ s.status # "paused"
  <2>1. r = p
    BY <1>7
  <2>2. p.dev = p.op /\ p.op # "none" /\ p.status = "playing"
    BY <1>2, <1>3, <1>7 DEF KeepMix
  <2>3. StatusOK(p)
    BY <1>2, <2>2 DEF StatusOK
  <2> QED  BY <1>4, <2>1, <2>3
<1> QED  BY <1>5, <1>6, <1>7

LEMMA SetOp ==
    ASSUME NEW o, GoodShut(o), NEW name, NEW q \in player_set_op(o, name)
    PROVE  Between(o, q) /\ StatusOK(q)
<1> DEFINE open == o.status # "stopped"
           shut == IF open THEN op_close(IF o.status = "paused" THEN op_drop(o) ELSE o) ELSE {o}
           Chosen(s) == IF name = "any" THEN op_select_any(s) ELSE op_select(s, name)
           Again(s) ==
              IF s.rc < 0 \/ ~open THEN Stopped({s})
              ELSE {IF p.dev = "none" THEN [p EXCEPT !.status = "stopped"]
                    ELSE IF o.status = "paused" THEN op_pause(p) ELSE p : p \in op_open(s)}
<1>1. PICK r \in UNION {Again(s) : s \in UNION {Chosen(s) : s \in shut}} : q = [r EXCEPT !.rc = 0]
  BY Zenon DEF player_set_op
<1>2. PICK s \in UNION {Chosen(c) : c \in shut} : r \in Again(s)
  <2> HIDE DEF Again, shut, Chosen
  <2> QED  OBVIOUS
<1>3. PICK c \in shut : s \in Chosen(c)
  <2> HIDE DEF shut, Chosen
  <2> QED  OBVIOUS
<1>4. Between(o, c) /\ c.dev = "none" /\ c.status = o.status
  BY SetOpCloses
<1>5. Selected(c, s)
  <2>1. DOMAIN c = Fields /\ PluginsOK(c) /\ c.op \in OutPlugins \cup {"none"}
    BY <1>4 DEF Between, DeviceOK
  <2> QED  BY <1>3, <2>1, SelectAny
<1>6. Between(o, s) /\ s.dev = "none" /\ s.status = o.status
  BY <1>4, <1>5, BetweenSelected DEF Selected
<1>7. Between(o, r) /\ StatusOK(r)
  <2>1. CASE s.rc < 0 \/ ~open
    <3>1. r = [s EXCEPT !.status = "stopped"]
      BY <1>2, <2>1 DEF Stopped
    <3>2. DeviceOK(r) /\ KeepMix(s, r) /\ r.status = "stopped" /\ r.dev = "none"
      BY <1>6, <3>1, StatusOnly DEF Between
    <3>3. StatusOK(r)
      BY <3>2 DEF StatusOK
    <3> QED  BY <1>6, <3>2, <3>3, BetweenKept
  <2>2. CASE ~(s.rc < 0 \/ ~open)
    <3>1. PICK p \in op_open(s) : r = IF p.dev = "none" THEN [p EXCEPT !.status = "stopped"]
                                      ELSE IF o.status = "paused" THEN op_pause(p) ELSE p
      BY <1>2, <2>2
    <3>2. s.status \in {"playing", "paused"}
      BY <1>6, <2>2 DEF GoodShut, StatusOK
    <3> QED  BY <1>6, <3>1, <3>2, SetOpOpens
  <2> QED  BY <2>1, <2>2
<1>8. DeviceCall(r, q) /\ q.dev = r.dev /\ q.hw = r.hw /\ q.can_pause = r.can_pause
  BY <1>1, <1>7, RcOnly DEF Between
<1>9. DeviceOK(q) /\ KeepMix(r, q) /\ q.status = r.status
  BY <1>8, CallKeeps
<1>10. StatusOK(q)
  BY <1>7, <1>8, <1>9 DEF StatusOK, KeepMix
<1> QED  BY <1>7, <1>9, <1>10, BetweenKept

-----------------------------------------------------------------------------
(* The commands, and the theorems                                          *)

LEMMA InitAll ==
    ASSUME NEW name, Good(out), init_all(name)
    PROVE  Good(out')
<1>1. ~out.started
  BY DEF init_all
<1>2. PICK o \in player_set_op(out, name) : out' \in Unless(o.soft_vol, [o EXCEPT !.started = TRUE])
  BY Zenon DEF init_all
<1>3. GoodShut(out)
  <2>1. out.op = "none"
    BY <1>1 DEF Good
  <2>2. MixerShut(out)
    <3>1. \A p \in OutPlugins : p # "none"
      BY DEF OutPlugins
    <3> QED  BY <2>1, <3>1 DEF Good, MixOK, MixerShut
  <2> QED  BY <2>2 DEF Good, GoodShut, MixOK
<1>4. Between(out, o) /\ StatusOK(o)
  BY <1>3, SetOp
<1> DEFINE p == [o EXCEPT !.started = TRUE]
<1>5. /\ DOMAIN p = Fields /\ DeviceSame(o, p) /\ p.volume_max = o.volume_max /\ p.mixer_open = o.mixer_open
      /\ p.list = o.list /\ p.op = o.op /\ p.pcm = o.pcm /\ p.mixer = o.mixer
      /\ p.soft_vol = o.soft_vol /\ p.bug = o.bug
  BY <1>4 DEF Between, DeviceOK, Fields, DeviceSame, PcmSame, RingSame
<1>6. p.started
  BY <1>4, Zenon DEF Between, DeviceOK, Fields
<1>7. out' \in Unless(p.soft_vol, p)
  BY <1>2, <1>5
<1> HIDE DEF p
<1>8. DeviceOK(p) /\ StatusOK(p)
  BY <1>4, <1>5, DeviceKept, StatusKept DEF Between
<1>9. PluginsOK(p) /\ MixerShut(p) /\ p.op \in OutPlugins \cup {"none"} /\ ~p.bug
  BY <1>4, <1>5 DEF Between, PluginsOK, MixerShut
<1>10. GoodShut(p)
  BY <1>6, <1>8, <1>9 DEF GoodShut
<1> QED  BY <1>7, <1>10, MixerOpen

LEMMA SetOutputPlugin ==
    ASSUME NEW name, Good(out), set_output_plugin(name)
    PROVE  Good(out')
<1> DEFINE closed == IF out.soft_vol THEN out ELSE mixer_close(out)
<1>1. out.started
  BY DEF set_output_plugin
<1>2. PICK o \in player_set_op(closed, name) : out' \in Unless(o.soft_vol, o)
  BY Zenon DEF set_output_plugin
<1>3. GoodShut(closed) /\ closed.started = out.started
  BY MixerShutFirst
<1> HIDE DEF closed
<1>4. Between(closed, o) /\ StatusOK(o)
  BY <1>3, SetOp
<1>5. GoodShut(o)
  BY <1>1, <1>3, <1>4 DEF Between, GoodShut
<1> QED  BY <1>2, <1>5, MixerOpen

LEMMA SetSoftvol ==
    ASSUME NEW soft \in BOOLEAN, Good(out), do_set_softvol(soft)
    PROVE  Good(out')
<1> DEFINE closed == IF out.soft_vol THEN out ELSE mixer_close(out)
           p == [closed EXCEPT !.soft_vol = soft]
<1>1. out' \in Unless(soft, p)
  BY DEF do_set_softvol
<1>2. GoodShut(closed)
  BY MixerShutFirst
<1> HIDE DEF closed
<1>3. /\ DOMAIN p = Fields /\ DeviceSame(closed, p) /\ p.volume_max = closed.volume_max
      /\ p.mixer_open = closed.mixer_open /\ p.list = closed.list /\ p.op = closed.op /\ p.pcm = closed.pcm
      /\ p.mixer = closed.mixer /\ p.started = closed.started /\ p.bug = closed.bug
  BY <1>2 DEF GoodShut, DeviceOK, Fields, DeviceSame, PcmSame, RingSame
<1>4. p.soft_vol = soft
  BY <1>2, Zenon DEF GoodShut, DeviceOK, Fields
<1> HIDE DEF p
<1>5. DeviceOK(p) /\ StatusOK(p)
  BY <1>2, <1>3, DeviceKept, StatusKept DEF GoodShut
<1>6. PluginsOK(p) /\ MixerShut(p) /\ p.op \in OutPlugins \cup {"none"} /\ ~p.bug /\ (~p.started => p.op = "none")
  BY <1>2, <1>3 DEF GoodShut, PluginsOK, MixerShut
<1>7. GoodShut(p)
  BY <1>5, <1>6 DEF GoodShut
<1>8. out' \in Unless(p.soft_vol, p)
  BY <1>1, <1>4, Zenon
<1> QED  BY <1>7, <1>8, MixerOpen

LEMMA SetMixerOption ==
    ASSUME NEW x, Good(out), set_mixer_option(x)
    PROVE  Good(out')
<1>1. CASE out' = out
  BY <1>1
<1>2. CASE out' # out
  <2> DEFINE p == mixer_close(out)
  <2>1. out' \in Unless(out.soft_vol, p)
    BY <1>2 DEF set_mixer_option
  <2>2. GoodShut(p)
    BY MixerClose
  <2>3. p.soft_vol = out.soft_vol
    BY DEF mixer_close, Good, DeviceOK, Fields
  <2> HIDE DEF p
  <2> QED  BY <2>1, <2>2, <2>3, MixerOpen
<1> QED  BY <1>1, <1>2

LEMMA SetDspOption ==
    ASSUME NEW n \in BufferCounts, Good(out), set_dsp_option(n)
    PROVE  Good(out')
<1> DEFINE f == [i \in 1 .. n |-> "free"]
           w == [out EXCEPT !.flags = f]
           b == out.dev = "waveout"
<1>1. out' = [w EXCEPT !.resized = b, !.driver = << >>]
  BY DEF set_dsp_option, waveout_set_option, waveout_init
<1>2. f \in Seq(FlagValues) /\ f # << >>
  BY OutputAssumption, RingOpen
<1> HIDE DEF f
<1>3. DOMAIN out = Fields
  BY DEF Good, DeviceOK
<1>4. /\ DOMAIN w = Fields /\ KeepMix(out, w) /\ PcmSame(out, w) /\ w.dev = out.dev /\ w.status = out.status
      /\ w.flags = f /\ w.buffer_idx = out.buffer_idx
  BY <1>3 DEF Fields, KeepMix, PcmSame
<1> HIDE DEF w
<1>5. /\ DOMAIN out' = Fields /\ KeepMix(w, out') /\ PcmSame(w, out') /\ out'.dev = w.dev
      /\ out'.status = w.status /\ out'.flags = w.flags /\ out'.buffer_idx = w.buffer_idx
  <2> HIDE DEF b
  <2> QED  BY <1>1, <1>4 DEF Fields, KeepMix, PcmSame
<1>6. out'.resized = (out.dev = "waveout")
  BY <1>1, <1>4, Zenon DEF Fields
<1>7. KeepMix(out, out') /\ PcmSame(out, out')
  BY <1>4, <1>5 DEF KeepMix, PcmSame
<1>8. PadOK(out')
  BY <1>4, <1>5, <1>7 DEF Good, DeviceOK, PadOK, PcmSame
<1>9. RingOK(out')
  <2>1. ~(out'.dev = "waveout" /\ ~out'.resized)
    BY <1>4, <1>5, <1>6, Zenon
  <2> QED  BY <1>2, <1>4, <1>5, <2>1 DEF RingOK, Good, DeviceOK
<1>10. StatusOK(out')
  BY <1>4, <1>5, <1>7 DEF Good, StatusOK, KeepMix, PcmSame
<1> QED  BY <1>5, <1>7, <1>8, <1>9, <1>10, GoodStep DEF DeviceOK

LEMMA DriverPlays ==
    ASSUME Good(out), WaveoutPlays
    PROVE  Good(out')
<1> DEFINE f == [out.flags EXCEPT ![Head(out.driver)] = "done"]
<1>1. out.dev = "waveout" /\ out.driver # << >>
      /\ out' = [out EXCEPT !.flags = f, !.driver = Tail(@)]
  BY DEF WaveoutPlays
<1>2. DOMAIN out = Fields /\ Flagged(out) /\ (~out.resized => InRing(out))
  BY <1>1, RingOKFlagged DEF Good, DeviceOK
<1>3. f \in Seq(FlagValues) /\ f # << >>
  <2>1. Len(out.flags) \in Nat \ {0} /\ out.flags \in [1 .. Len(out.flags) -> FlagValues]
    BY <1>2 DEF Flagged
  <2>2. f \in [1 .. Len(out.flags) -> FlagValues]
    BY <2>1 DEF FlagValues
  <2> HIDE DEF f
  <2>3. f \in Seq(FlagValues) /\ Len(f) = Len(out.flags)
    BY <2>1, <2>2
  <2> QED  BY <2>1, <2>3
<1>4. ~out.resized => RingOf(f, out.buffer_idx, out.buffers_free, Tail(out.driver))
  BY <1>1, <1>2, RingPlays DEF InRing, Flagged
<1> HIDE DEF f
<1>5. /\ DOMAIN out' = Fields /\ KeepMix(out, out') /\ PcmSame(out, out') /\ out'.dev = out.dev
      /\ out'.status = out.status /\ out'.flags = f /\ out'.buffer_idx = out.buffer_idx
      /\ out'.buffers_free = out.buffers_free /\ out'.driver = Tail(out.driver) /\ out'.resized = out.resized
  BY <1>1, <1>2 DEF Fields, KeepMix, PcmSame
<1>6. PadOK(out')
  BY <1>5 DEF Good, DeviceOK, PadOK, PcmSame
<1>7. RingOK(out')
  BY <1>2, <1>3, <1>4, <1>5 DEF RingOK, Flagged
<1>8. StatusOK(out')
  BY <1>5 DEF Good, StatusOK, KeepMix, PcmSame
<1> QED  BY <1>5, <1>6, <1>7, <1>8, GoodStep DEF DeviceOK

LEMMA PcmUnderruns ==
    ASSUME Good(out), AlsaUnderruns
    PROVE  Good(out')
<1>1. out.dev = "alsa" /\ out.hw = "running" /\ out' = [out EXCEPT !.hw = "xrun"] /\ DOMAIN out = Fields
  BY DEF AlsaUnderruns, Good, DeviceOK
<1>2. /\ DOMAIN out' = Fields /\ KeepMix(out, out') /\ RingSame(out, out') /\ out'.dev = out.dev
      /\ out'.status = out.status /\ out'.can_pause = out.can_pause /\ out'.period_fill = out.period_fill
      /\ out'.since = out.since /\ out'.whole = out.whole /\ out'.hw = "xrun"
  BY <1>1 DEF Fields, KeepMix, RingSame
<1>3. PadOK(out')
  BY <1>2 DEF Good, DeviceOK, PadOK
<1>4. RingOK(out')
  BY <1>2, RingKept DEF Good, DeviceOK
<1>5. StatusOK(out')
  BY <1>2 DEF Good, StatusOK, KeepMix
<1> QED  BY <1>2, <1>3, <1>4, <1>5, GoodStep DEF DeviceOK

LEMMA NoOutputGood ==
    ASSUME NEW l \in Seq(OutPlugins)
    PROVE  Good(NoOutput(l)) /\ NoOutput(l).list = l
<1> DEFINE f == [i \in 1 .. Max(BufferCounts) |-> "free"]
           no == [p \in OutPlugins |-> FALSE]
           o == NoOutput(l)
<1>1. f \in Seq(FlagValues) /\ f # << >>
  <2>1. Max(BufferCounts) \in Nat \ {0}
    BY OutputAssumption
  <2> HIDE DEF f
  <2> QED  BY <2>1, RingOpen DEF f
<1>2. no \in [OutPlugins -> BOOLEAN] /\ \A p \in OutPlugins : ~no[p]
  BY Zenon
<1>3. o = [list |-> l, op |-> "none", pcm |-> no, mixer |-> no, mixer_open |-> no,
           soft_vol |-> FALSE, volume_max |-> 0, started |-> FALSE, status |-> "stopped", dev |-> "none",
           rc |-> 0, hw |-> "drained", can_pause |-> FALSE, period_fill |-> 0, since |-> 0, whole |-> TRUE,
           flags |-> f, buffer_idx |-> 0, buffers_free |-> 0,
           driver |-> << >>, resized |-> FALSE, bug |-> FALSE]
  BY DEF NoOutput
<1> HIDE DEF f, no, o
<1>4. /\ DOMAIN o = Fields /\ o.list = l /\ o.op = "none" /\ o.pcm = no /\ o.mixer = no /\ o.mixer_open = no
      /\ o.volume_max = 0 /\ o.status = "stopped" /\ o.dev = "none" /\ o.period_fill = 0 /\ o.since = 0
      /\ o.flags = f /\ o.buffer_idx = 0 /\ ~o.bug
  BY <1>3 DEF Fields
<1>5. PadOK(o)
  BY <1>4, PositiveSizes DEF PadOK
<1>6. RingOK(o)
  BY <1>1, <1>4 DEF RingOK
<1>7. PluginsOK(o)
  BY <1>2, <1>4 DEF PluginsOK
<1>8. MixOK(o)
  BY <1>2, <1>4 DEF MixOK
<1>9. StatusOK(o)
  BY <1>4 DEF StatusOK
<1> QED  BY <1>4, <1>5, <1>6, <1>7, <1>8, <1>9 DEF Good, DeviceOK, o

LEMMA OutputStart == OutInit => OutputInv
<1> SUFFICES ASSUME OutInit PROVE Good(out)
  BY DEF OutputInv
<1>1. PICK l \in OutLists : out = NoOutput(l)
  BY DEF OutInit
<1>2. l \in Seq(OutPlugins)
  BY OutputAssumption
<1> QED  BY <1>1, <1>2, NoOutputGood

LEMMA OutputStep == OutputInv /\ [OutNext]_out => OutputInv'
<1> SUFFICES ASSUME Good(out), [OutNext]_out PROVE Good(out')
  BY DEF OutputInv
<1>1. CASE \E name \in ToSet(out.list) \cup {"any", "missing"} : init_all(name) \/ set_output_plugin(name)
  BY <1>1, InitAll, SetOutputPlugin
<1>2. CASE \E soft \in BOOLEAN : do_set_softvol(soft)
  BY <1>2, SetSoftvol
<1>3. CASE \E p \in WithMixer : set_mixer_option(p)
  BY <1>3, SetMixerOption
<1>4. CASE \E n \in BufferCounts : set_dsp_option(n)
  BY <1>4, SetDspOption
<1>5. CASE __consumer_play
  BY <1>5, ConsumerPlay
<1>6. CASE __consumer_stop \/ __consumer_drain_and_stop
  BY <1>6, ConsumerStops
<1>7. CASE __consumer_pause
  BY <1>7, ConsumerPauses
<1>8. CASE player_seek
  BY <1>8, PlayerSeeks
<1>9. CASE \E changed, drop \in BOOLEAN : change_sf(changed, drop)
  BY <1>9, ChangeFormat
<1>10. CASE \E count \in Sizes : consumer_write(count)
  BY <1>10, ConsumerWrites
<1>11. CASE WaveoutPlays
  BY <1>11, DriverPlays
<1>12. CASE AlsaUnderruns
  BY <1>12, PcmUnderruns
<1>13. CASE op_exit_plugins
  <2>1. out.list \in Seq(OutPlugins) /\ out' = NoOutput(out.list)
    BY <1>13 DEF op_exit_plugins, Good, PluginsOK
  <2> QED  BY <2>1, NoOutputGood
<1>14. CASE out' = out
  BY <1>14
<1> QED
  BY <1>1, <1>2, <1>3, <1>4, <1>5, <1>6, <1>7, <1>8, <1>9, <1>10, <1>11, <1>12, <1>13, <1>14, Zenon DEF OutNext

(* The inductive invariant of the output plugins: whatever call fails.     *)
THEOREM OutputInvariant == OutSpec => []OutputInv
<1>1. OutInit => OutputInv
  BY OutputStart
<1>2. OutputInv /\ [OutNext]_out => OutputInv'
  BY OutputStep
<1> QED  BY <1>1, <1>2, PTL DEF OutSpec

(* The open device and mixer are those of the current plugin, and agree    *)
(* with the status of the consumer, soft_vol and volume_max; the BUG_ONs   *)
(* of output.c are not hit; a paused PCM does not run.                     *)
THEOREM OutputFollowsPlayer == OutSpec => []OutputAgrees
<1>1. OutputInv => OutputAgrees
  <2> SUFFICES ASSUME Good(out) PROVE OutputAgrees
    BY DEF OutputInv
  <2>1. ~out.bug /\ out.dev = IF out.status = "stopped" THEN "none" ELSE out.op
    BY DEF Good, StatusOK
  <2>2. /\ \A p \in OutPlugins : out.mixer_open[p] => p = out.op /\ ~out.soft_vol /\ out.volume_max = MixerMax[p]
        /\ out.volume_max # 0 => out.mixer_open[out.op]
    BY DEF Good, MixOK
  <2>3. out.dev = "alsa" => /\ out.status = "playing" => out.hw # "paused"
                            /\ out.status = "paused" /\ out.can_pause => out.hw # "running"
    BY DEF Good, StatusOK
  <2> QED  BY <2>1, <2>2, <2>3 DEF OutputAgrees
<1> QED  BY <1>1, OutputInvariant, PTL

(* alsa.c drains whole periods only, unless a write failed or an underrun  *)
(* was recovered from.                                                     *)
THEOREM DrainsWholePeriods == OutSpec => []PeriodsPadded
<1>1. OutputInv => PeriodsPadded
  BY DEF OutputInv, Good, DeviceOK, PadOK, PeriodsPadded
<1> QED  BY <1>1, OutputInvariant, PTL

(* The ring of waveout.c: free, done and queued buffers follow each other  *)
(* from buffer_idx on, and buffers_free counts the free ones.              *)
THEOREM RingStaysConsistent == OutSpec => []RingConsistent
<1>1. OutputInv => RingConsistent
  <2> SUFFICES ASSUME Good(out), out.dev = "waveout", ~out.resized PROVE RingConsistent
    BY DEF OutputInv, RingConsistent
  <2>1. RingOf(out.flags, out.buffer_idx, out.buffers_free, out.driver)
    BY DEF Good, DeviceOK, RingOK
  <2>2. PICK d : RingWith(out.flags, out.buffer_idx, out.buffers_free, out.driver, d)
    BY <2>1, RingHas
  <2> DEFINE n == Len(out.flags)
             k == out.buffers_free
             Used(i) == Pos(n, out.buffer_idx, k + i - 1)
  <2>3. /\ k \in 0 .. n /\ d \in 0 .. n - k
        /\ \A i \in 0 .. n - 1 : out.flags[Pos(n, out.buffer_idx, i)] = "free" <=> i < k
        /\ \A i \in 1 .. n - k : out.flags[Used(i)] = "done" <=> i <= d
        /\ out.driver = [i \in 1 .. n - k - d |-> Pos(n, out.buffer_idx, k + d + i - 1)]
    BY <2>2, Zenon DEF RingWith
  <2>4. n \in Nat
    BY DEF Good, DeviceOK, RingOK
  <2>5. out.driver = [i \in 1 .. n - k - d |-> Used(d + i)]
    <3>1. \A i \in 1 .. n - k - d : k + d + i - 1 = k + (d + i) - 1
      BY <2>3, <2>4
    <3> QED  BY <2>3, <3>1
  <2>6. \A i : At(out, i) = Pos(n, out.buffer_idx, i)
    BY DEF At, Ring, Pos
  <2>7. Ring(out) = n
    BY DEF Ring
  <2> HIDE DEF n, k
  <2> QED  BY <2>3, <2>5, <2>6, <2>7 DEF RingConsistent, k
<1> QED  BY <1>1, OutputInvariant, PTL

=============================================================================
