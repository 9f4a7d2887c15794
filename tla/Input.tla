------------------------------- MODULE Input --------------------------------
(***************************************************************************)
(* The input plugins: input.c, the decoders behind it, http.c and          *)
(* read_wrapper.c, used by one caller: the player (opens, reads, seeks,    *)
(* closes) or the cache (opens, reads comments and duration, closes).      *)
(* What a function acquires and releases is written as a program, a        *)
(* sequence of Get and Put with the places where it may Fail and what it   *)
(* then releases.  Audio is the sequence of its samples, 0 .. Total - 1.   *)
(***************************************************************************)
EXTENDS Integers, Sequences, SequencesExt, FiniteSets, FiniteSetsExt

CONSTANTS
    Plugins,     \* the decoders that are installed
    FrameLen,    \* samples in a frame of compressed audio
    Total,       \* samples of the file
    Damaged,     \* frames that cannot be decoded and are skipped
    Counts,      \* sizes of the buffer given to ip_read
    Places,      \* bound: samples that are sought
    TmpSize,     \* sizeof(tmp) in ip_read
    Interval,    \* SEEK_IDX_INTERVAL
    Reservoir,   \* frames back that an MPEG frame may take its data from
    Parts,       \* entries of a Xing table of contents (100)
    TocError,    \* samples that such an entry may be off
    Packet,      \* samples in a packet of ffmpeg.c, whole frames
    Second,      \* samples of a second
    MetaInt,     \* icy-metaint of the stream
    Network,     \* the bytes of the stream: audio, length bytes, titles
    MaxLines,    \* bound: URLs in a remote playlist
    MaxHeld      \* bound: what is leaked before the file is no longer opened

Frames == 0 .. (Total - 1) \div FrameLen

ASSUME InputAssumption ==
    /\ FrameLen \in Nat \ {0} /\ Total \in Nat \ {0} /\ Damaged \subseteq Frames
    /\ Counts \subseteq {n \in Nat : n >= 4}      \* ReadsHaveRoom of Pipe
    /\ TmpSize \in Nat \ {0} /\ Interval \in Nat \ {0} /\ MetaInt \in Nat /\ MaxLines \in Nat
    /\ Places \subseteq 0 .. Total - 1
    /\ Reservoir \in Nat /\ Parts \in Nat \ {0} /\ TocError \in Nat /\ Second \in Nat \ {0}
    /\ Packet \in {n * FrameLen : n \in 1 .. Total}
    /\ MaxHeld \in Nat \ {0}
    /\ \A i \in DOMAIN Network : Network[i].kind \in {"audio", "len", "title"}

VARIABLE ip

-----------------------------------------------------------------------------
(* Programs.                                                               *)

Get(r)  == << "get", r >>
Put(r)  == << "put", r >>
Free(r) == << "free", r >>                  \* free() of a pointer that may be NULL
Fail(undo) == << "fail", undo >>
ForgetFd == << "forget", "fd" >>            \* ip_data->fd = -1

Resources == {"fd", "priv", "dec", "fmt", "buf", "comments", "file", "cfg", "input", "pkt",
              "output", "contents", "tagfd", "id3", "ape", "tags", "metadata", "uri", "headers",
              "reason", "loc", "body"}

(* What is held, what was released without being held, whether ip_data->fd *)
(* is set.                                                                 *)
Effect(s, ins) ==
    LET r == ins[2]
    IN  CASE ins[1] = "get"    -> [s EXCEPT !.held[r] = @ + 1]
          [] ins[1] = "put"    -> IF s.held[r] = 0 THEN [s EXCEPT !.twice = @ \cup {r}]
                                  ELSE [s EXCEPT !.held[r] = @ - 1]
          [] ins[1] = "free"   -> [s EXCEPT !.held[r] = IF @ = 0 THEN 0 ELSE @ - 1]
          [] ins[1] = "forget" -> [s EXCEPT !.fd = FALSE]

Run(s, prog) == FoldLeft(Effect, s, prog)

Straight(prog) == SelectSeq(prog, LAMBDA ins : ins[1] # "fail")

Outcomes(prog) ==
    {[ok |-> TRUE, prog |-> Straight(prog)]} \cup
    {[ok |-> FALSE, prog |-> Straight(SubSeq(prog, 1, i - 1)) \o prog[i][2]] :
        i \in {j \in DOMAIN prog : prog[j][1] = "fail"}}

Puts(rs) == SetToSeq({Put(r) : r \in rs})

-----------------------------------------------------------------------------
(* open and close of the decoders.                                         *)

wav_open == << Get("priv"), Fail(<< Put("priv") >>),
                Get("fmt"), Fail(<< Put("fmt"), Put("priv") >>), Put("fmt"),
                Fail(<< Put("priv") >>) >>
wav_close == << Put("priv") >>

(* ov_clear calls close_func, which closes ip_data->fd.                    *)
vorbis_open == << Get("priv"), Fail(<< Put("priv") >>), Get("dec") >>
VorbisCloseKeepsFd == << Put("dec"), Put("fd"), Put("priv") >>
vorbis_close == << Put("dec"), Put("fd"), ForgetFd, Put("priv") >>

nomad_close == << Put("dec"), Put("fd"), Put("priv") >>
do_open == << Get("dec"), Fail(nomad_close), Put("dec"), Get("dec") >>
mad_open == << Get("priv") >> \o do_open
mad_close == nomad_close \o << ForgetFd >>

free_priv == << Put("dec"), Free("comments"), Free("buf"), Put("priv") >>

flac_open == << Fail(<< >>), Get("dec"), Get("priv"), Fail(<< Put("dec"), Put("priv") >>),
                 Fail(free_priv), Get("comments"), Get("buf"), Fail(free_priv) >>

flac_close == free_priv

mpc_open == << Get("priv"), Fail(<< Put("priv") >>) >>
mpc_close == << Put("priv") >>

aac_open == << Get("priv"), Get("dec"), Fail(<< Put("dec"), Put("priv") >>) >>
aac_close == << Put("dec"), Put("priv") >>

mp4_close == << Free("file"), Put("dec"), Put("priv") >>
mp4_open == << Fail(<< >>), Get("priv"), Get("dec"), Fail(mp4_close), Get("file"), Fail(mp4_close),
                Get("cfg"), Fail(<< Put("cfg") >> \o mp4_close), Put("cfg") >>

(* av_close_input_file(ic) also when av_open_input_file failed.            *)
ffmpeg_open == << Fail(<< Put("file") >>), Get("file"), Fail(<< Put("file") >>), Get("dec"), Get("priv"),
                   Fail(<< Put("dec"), Put("file"), Put("priv") >>),
                   Get("input"), Get("pkt"), Get("output") >>
ffmpeg_close == << Put("dec"), Put("file"), Put("pkt"), Put("output"), Put("priv") >>

wavpack_open == << Get("priv"), Fail(<< Put("priv") >>), Get("dec") >>
wavpack_close == << Put("dec"), Put("priv") >>

mik_open == << Fail(<< >>), Get("dec"), Get("priv") >>
mik_close == << Put("dec"), Put("priv") >>

mod_open == << Fail(<< >>), Get("contents"), Fail(<< Put("contents") >>), Get("dec"),
                Put("contents"), Get("priv") >>
mod_close == << Put("dec"), Put("priv") >>

OpenProg == [wav |-> wav_open, vorbis |-> vorbis_open, mad |-> mad_open, flac |-> flac_open,
             mpc |-> mpc_open, aac |-> aac_open, mp4 |-> mp4_open, ffmpeg |-> ffmpeg_open,
             wavpack |-> wavpack_open, mikmod |-> mik_open, modplug |-> mod_open]
CloseProg == [wav |-> wav_close, vorbis |-> vorbis_close, mad |-> mad_close, flac |-> flac_close,
              mpc |-> mpc_close, aac |-> aac_close, mp4 |-> mp4_close, ffmpeg |-> ffmpeg_close,
              wavpack |-> wavpack_close, mikmod |-> mik_close, modplug |-> mod_close]

(* Those with MIME types may play streams.                                 *)
Streaming == {"vorbis", "mad", "mpc", "aac", "wavpack"} \cap Plugins

(* read_comments; the caller frees what it returns.                        *)
v2_read(undo) == << Get("buf"), Fail(<< Put("buf") >> \o undo), Get("id3"), Put("buf") >>
id3_read_tags(undo) == v2_read(undo) \o << Fail(undo) >>
ape_read_tags == << Get("ape"), Put("ape") >>

mad_read_comments ==
    << Fail(<< >>), Get("tagfd") >> \o id3_read_tags(<< Put("tagfd") >>) \o
    << Put("tagfd"), Put("id3") >> \o ape_read_tags \o << Get("tags") >>
wavpack_read_comments ==
    << Fail(<< >>), Get("tagfd"), Fail(<< Put("tagfd") >>), Put("tagfd") >> \o
    ape_read_tags \o << Get("tags") >>
aac_read_comments ==
    << Fail(<< >>), Get("tagfd") >> \o Straight(id3_read_tags(<< >>)) \o
    << Put("tagfd"), Put("id3"), Get("tags") >>
mpc_read_comments == ape_read_tags \o << Get("tags") >>

CommentsProg(p) ==
    CASE p = "mad" -> mad_read_comments
      [] p = "wavpack" -> wavpack_read_comments
      [] p = "aac" -> aac_read_comments
      [] p = "mpc" -> mpc_read_comments
      [] OTHER -> << Get("tags") >>

-----------------------------------------------------------------------------
(* HTTP.  An answer is what was acquired, the return code, and which       *)
(* pointers of struct http_get are set, dangling ones included.            *)

Answer(rc, prog, hg) == [rc |-> rc, prog |-> prog, hg |-> hg]
Answered == << Get("uri"), Get("fd"), Get("reason"), Get("headers") >>
Filled == {"uri", "fd", "reason", "headers"}

(* Not http://, or a bad port: then the strings are freed, not forgotten.  *)
http_parse_uri == {Answer("uri", << >>, {}), Answer("uri", << Get("uri"), Put("uri") >>, {"uri"})}
(* No such host; connecting fails or times out, the socket is closed.      *)
http_open == {Answer("errno", << Get("uri") >>, {"uri"}),
              Answer("errno", << Get("uri"), Get("fd"), Put("fd") >>, {"uri", "fd"})}
(* Sending or reading fails or times out, or what comes is not HTTP.       *)
http_get == {Answer("response", << Get("uri"), Get("fd") >>, {"uri", "fd"})}

http_get_free(hg) == Puts(hg \ {"fd"})

Times(n, prog) == FlattenSeq([i \in 1 .. n |-> prog])
Redirect == Answered \o << Get("loc") >> \o http_get_free(Filled) \o << Put("fd") >>

do_http_get ==
    LET last == http_parse_uri \cup http_open \cup http_get \cup
                {Answer(rc, Answered, Filled) : rc \in {"ok", "status", "response"}}
    IN  {Answer(a.rc, Times(n, Redirect) \o a.prog \o Times(n, << Put("loc") >>), a.hg) :
            n \in 0 .. 2, a \in last} \cup
        {Answer("limit", Times(3, Redirect) \o Times(2, << Put("loc") >>), Filled)}

(* The plugin for the content type, or none.                               *)
setup_remote(s, p) ==
    IF p \notin Streaming THEN [Run(s, << Put("fd") >>) EXCEPT !.rc = "format"]
    ELSE [Run(s, << Get("metadata") >>) EXCEPT !.rc = "ok", !.fd = TRUE, !.plugin = p]

Connected(s, a, p) == Run(setup_remote(Run(s, a.prog), p), http_get_free(Filled))

(* The caller keeps the reason and frees the rest; only handle_line closes *)
(* the socket.                                                             *)
GetFailed(s, a, close) ==
    [Run(s, a.prog \o close \o http_get_free(a.hg \ {"reason"}))
       EXCEPT !.rc = a.rc, !.reason = "reason" \in a.hg, !.failed = @ \cup {"http"}]

handle_line(s) ==
    {IF a.rc = "ok" THEN Connected(s, a, p)
     ELSE GetFailed(s, a, Puts(a.hg \cap {"fd"})) : a \in do_http_get, p \in Streaming \cup {"none"}}

(* Lines are tried until one gets an answer; setup_remote may refuse it.   *)
read_playlist(s) ==
    LET More(t) == IF t.rc \in {"ok", "format"} THEN {t} ELSE handle_line(t)
        after[n \in 0 .. MaxLines] ==
            IF n = 0 THEN {[s EXCEPT !.rc = "response"]}
            ELSE UNION {More(t) : t \in after[n - 1]}
    IN  UNION {after[n] : n \in 0 .. MaxLines}

open_remote(s) ==
    LET good == CHOOSE a \in do_http_get : a.rc = "ok"
        body == Run(s, good.prog \o http_get_free(Filled) \o << Put("fd") >>)
    IN  {GetFailed(s, a, << >>) : a \in {b \in do_http_get : b.rc # "ok"}} \cup
        {Connected(s, good, p) : p \in Streaming \cup {"none"}} \cup
        {[body EXCEPT !.rc = "errno", !.failed = @ \cup {"http"}]} \cup
        read_playlist(body)

open_file(s) ==
    {[s EXCEPT !.rc = "errno"]} \cup
    {[Run(s, << Get("fd") >>) EXCEPT !.rc = "ok", !.fd = TRUE, !.plugin = p] : p \in Plugins}

-----------------------------------------------------------------------------
(* Reading.  at: the next sample the decoder decodes; << from, to >>:      *)
(* decoded samples that the plugin still has.                              *)

NoSamples == << 0, 0 >>
Left(s) == s.buf[2] - s.buf[1]

(* The next of these frames, or no samples at the end.                     *)
NextOf(frames, at) ==
    LET ok == {f \in frames : (f + 1) * FrameLen > at}
    IN  IF ok = {} THEN << Total, Total >>
        ELSE << Max({at, Min(ok) * FrameLen}), Min({Total, (Min(ok) + 1) * FrameLen}) >>

NextFrame(at) == NextOf(Frames \ Damaged, at)

(* A damaged frame may have a header that parses.                          *)
NextHeader(s, at) == NextOf(IF s.legible THEN Frames ELSE Frames \ Damaged, at)

(* An MPEG decoder set down anywhere goes on with the next frame.          *)
Synced(at) == Min({Total, ((at + FrameLen - 1) \div FrameLen) * FrameLen})

(* Length of the frames before at that can be decoded.                     *)
GoodTime(at) == Cardinality({i \in 0 .. at - 1 : i \div FrameLen \notin Damaged})

Decode(s) == LET f == NextFrame(s.at) IN [s EXCEPT !.at = f[2], !.buf = f]

Eof(s) == [s EXCEPT !.eof = TRUE, !.last = << >>, !.count = 0]
Deliver(s, n) ==
    IF n = 0 THEN Eof(s)
    ELSE [s EXCEPT !.last = << s.buf[1], s.buf[1] + n >>, !.buf[1] = @ + n]

(* nomad.c: timer counts every frame; when the end of a frame reaches the  *)
(* next multiple of the interval, its start enters the table.              *)
build_seek_index(s, f) ==
    LET timer == s.timer + (f[2] - f[1])
        t == [s EXCEPT !.timer = timer]
    IN  IF s.xing # "none" \/ timer < (Len(s.seek_idx) + 1) * Interval THEN t
        ELSE [t EXCEPT !.seek_idx = Append(@, [offset |-> f[1], timer |-> s.timer])]

(* decode skips frames that are not valid and returns 1 at the end; the    *)
(* first frames after a seek lack the data of those before them.  If       *)
(* nomad_time_seek has looked at the header of the frame at s.at, it is    *)
(* that frame which is decoded, and counted again.                         *)
decode(s) ==
    LET frame[n \in 0 .. Reservoir] ==
            IF n = 0 THEN NextFrame(s.at) ELSE NextFrame(frame[n - 1][2])
        Take(f) == LET t == [s EXCEPT !.at = f[2], !.buf = f, !.skim = FALSE, !.cold = FALSE]
                   IN  IF f[1] = f[2] THEN t ELSE build_seek_index(t, f)
    IN  {Take(frame[n]) : n \in IF s.cold THEN 0 .. Reservoir ELSE {0}}

nomad_read(s, count) ==
    {Deliver(t, Min({Left(t), count})) : t \in IF Left(s) = 0 THEN decode(s) ELSE {s}}

(* scale converts what it can of the decoder's frame.                      *)
mpc_read(s, count) ==
    LET t == IF Left(s) = 0 THEN Decode(s) ELSE s
    IN  {Deliver(t, Min({Left(t), count}))}

(* From the next header that parses; what is too much for the caller       *)
(* overflows and is given first the next time.                             *)
buffer_fill_frame(s) == NextFrame(s.at)
aac_decode_one_frame(s) == LET f == buffer_fill_frame(s) IN [s EXCEPT !.at = f[2], !.buf = f]
aac_read(s, count) ==
    LET t == IF Left(s) = 0 THEN aac_decode_one_frame(s) ELSE s
    IN  {Deliver(t, Min({Left(t), count}))}

mp4_decode_one_frame(s) == [Decode(s) EXCEPT !.stale = FALSE]
mp4_read(s, count) ==
    LET t == IF Left(s) = 0 THEN mp4_decode_one_frame(s) ELSE s
    IN  {Deliver(t, Min({Left(t), count}))}

(* A frame of the packet at hand, else of the next packet read.            *)
ffmpeg_fill_buffer(s) ==
    LET kept == NextFrame(s.pkt[1])
        next == NextFrame(s.at)
        end  == Min({Total, (next[1] \div Packet + 1) * Packet})
    IN  IF kept[1] < s.pkt[2] THEN [s EXCEPT !.buf = kept, !.pkt[1] = kept[2]]
        ELSE [s EXCEPT !.buf = next, !.pkt = << next[2], end >>, !.at = end, !.stale = FALSE]
ffmpeg_read(s, count) ==
    LET t == IF Left(s) = 0 THEN ffmpeg_fill_buffer(s) ELSE s
    IN  {Deliver(t, Min({Left(t), count}))}

(* The first block after a seek is dropped, so that at most two are needed *)
(* to have samples.  The end of the compressed bytes is the end of the     *)
(* file, although the library may still hold a last frame of them.         *)
write_cb(s) ==
    IF s.ignore THEN [Decode(s) EXCEPT !.ignore = FALSE, !.buf = NoSamples] ELSE Decode(s)
flac_read(s, count) ==
    LET once == IF Left(s) = 0 THEN write_cb(s) ELSE s
        t == IF Left(once) = 0 THEN write_cb(once) ELSE once
    IN  {Deliver(t, Min({Left(t), count}))} \cup
        {Eof(u) : u \in {v \in {s, once} : Left(v) = 0 /\ v.at + FrameLen >= Total}}

(* read() may return less than what is there.                              *)
Direct(s, ns) == {Deliver([s EXCEPT !.buf = << s.at, s.at + n >>, !.at = @ + n], n) : n \in ns}
wav_read(s, count) ==
    IF s.at = Total THEN {Eof(s)} ELSE Direct(s, 1 .. Min({count, Total - s.at}))

(* The library fills the buffer as far as it can; ov_read at most with one *)
(* packet.                                                                 *)
vorbis_read(s, count) ==
    IF s.at = Total THEN {Eof(s)} ELSE Direct(s, 1 .. Min({count, FrameLen, Total - s.at}))
wavpack_read(s, count) == Direct(s, {Min({count, Total - s.at})})
mod_read(s, count) == Direct(s, {Min({count, Total - s.at})})
mik_read(s, count) == Direct(s, {Min({count, Total - s.at})})

PluginRead(s, count) ==
    CASE s.plugin = "wav" -> wav_read(s, count)
      [] s.plugin = "vorbis" -> vorbis_read(s, count)
      [] s.plugin = "mad" -> nomad_read(s, count)
      [] s.plugin = "flac" -> flac_read(s, count)
      [] s.plugin = "mpc" -> mpc_read(s, count)
      [] s.plugin = "aac" -> aac_read(s, count)
      [] s.plugin = "mp4" -> mp4_read(s, count)
      [] s.plugin = "ffmpeg" -> ffmpeg_read(s, count)
      [] s.plugin = "wavpack" -> wavpack_read(s, count)
      [] s.plugin = "mikmod" -> mik_read(s, count)
      [] s.plugin = "modplug" -> mod_read(s, count)

-----------------------------------------------------------------------------
(* Seeking to sample pos.  want is what may be heard next; a failed seek   *)
(* leaves nothing to be expected.                                          *)

Sought(s, at, lo, hi) ==
    [s EXCEPT !.at = at, !.eof = FALSE, !.last = << >>, !.count = 0, !.want = << lo, hi >>]
SeekFails(s) == [s EXCEPT !.want = << 0, Total >>, !.last = << >>, !.count = 0]
Unsupported(s) == {s}

wav_seek(s, pos) ==
    LET offset == (pos \div 4) * 4 IN {Sought(s, offset, offset, offset)}
vorbis_seek(s, pos) == {SeekFails(s), Sought(s, pos, pos, pos)}
wavpack_seek(s, pos) == {SeekFails(s), Sought(s, pos, pos, pos)}
mod_seek(s, pos) == {Sought(s, pos, pos, pos)}
MpcSeekKeepsSamples(s, pos) == {SeekFails(s), Sought(s, pos, pos, pos)}

mpc_seek(s, pos) ==
    LET t == [s EXCEPT !.buf = NoSamples] IN {SeekFails(t), Sought(t, pos, pos, pos)}

flac_seek(s, pos) ==
    {SeekFails(s),
     Sought([s EXCEPT !.buf = NoSamples, !.ignore = TRUE], pos, pos, NextFrame(pos)[2])}

(* To a packet at the whole second before pos.  What is left of the packet *)
(* at hand stays and is decoded first.                                     *)
ffmpeg_seek(s, pos) ==
    LET second == (pos \div Second) * Second
        t == [s EXCEPT !.buf = NoSamples, !.stale = s.pkt[1] < s.pkt[2]]
    IN  {SeekFails(s)} \cup
        {Sought(t, at, at, at) : at \in {i \in 0 .. Total - 1 :
            i % Packet = 0 /\ i \in second - Packet + 1 .. second + Packet - 1}}

(* overflow_buf stays.                                                     *)
mp4_seek(s, pos) ==
    LET sample == (pos \div FrameLen) * FrameLen
    IN  {SeekFails(s), Sought([s EXCEPT !.stale = Left(s) > 0], sample, sample, pos)}

(* Where to start from: by the file's table of contents, the percent below *)
(* pos (its offset is 0 when the Xing header has no table or no number of  *)
(* bytes); by the table, the nearest entry; else the beginning.  err: how  *)
(* far place and timer may be apart.                                       *)
Slip == FrameLen * Max({1, Reservoir})

StartKeepsClock(s, pos) ==
    LET idx == Min({pos \div Interval, Len(s.seek_idx)})
    IN  IF idx = 0 THEN {[offset |-> 0, timer |-> s.timer, err |-> 0]}
        ELSE {[offset |-> s.seek_idx[idx].offset, timer |-> s.seek_idx[idx].timer, err |-> idx * Slip]}

SeekStart(s, pos) ==
    LET percent == (((pos * Parts) \div Total) * Total) \div Parts
        idx == Min({pos \div Interval, Len(s.seek_idx)})
    IN  CASE s.xing = "toc" ->
                {[offset |-> Synced(i), timer |-> percent, err |-> TocError + FrameLen] :
                    i \in Max({0, percent - TocError}) .. Min({Total, percent + TocError})}
          [] s.xing = "bare" -> {[offset |-> 0, timer |-> percent, err |-> Total]}
          [] s.xing = "none" /\ idx = 0 -> {[offset |-> 0, timer |-> 0, err |-> 0]}
          [] s.xing = "none" /\ idx > 0 ->
                {[offset |-> s.seek_idx[idx].offset, timer |-> s.seek_idx[idx].timer, err |-> idx * Slip]}

(* From there header by header until the timer has reached pos.  The last  *)
(* header's frame has not been decoded: skim.                              *)
nomad_time_seek(s, pos) ==
    LET Skim(u) ==
            LET f == NextHeader(u, IF u.skim THEN u.at + FrameLen ELSE u.at)
            IN  IF u.timer >= pos THEN u
                ELSE IF f[1] = f[2] THEN [u EXCEPT !.at = Total, !.skim = FALSE]
                ELSE [build_seek_index(u, f) EXCEPT !.at = f[1], !.skim = TRUE]
        From(b) == [s EXCEPT !.at = b.offset, !.timer = b.timer, !.buf = NoSamples, !.skim = FALSE,
                             !.cold = b.offset > 0]
        Way(b) == FoldLeft(LAMBDA u, i : Skim(u), From(b), [i \in 1 .. Cardinality(Frames) + 1 |-> i])
        There(b) == LET u == Way(b) IN
            Sought([u EXCEPT !.cold = u.at > 0], u.at,
                   pos - FrameLen - b.err, pos + b.err + Reservoir * FrameLen)
    IN  {SeekFails(s)} \cup
        UNION {LET there == There(b) IN {SeekFails(From(b)), SeekFails(there), there} :
                  b \in SeekStart(s, pos)}

PluginSeek(s, pos) ==
    CASE s.plugin = "wav" -> wav_seek(s, pos)
      [] s.plugin = "vorbis" -> vorbis_seek(s, pos)
      [] s.plugin = "mad" -> nomad_time_seek(s, pos)
      [] s.plugin = "flac" -> flac_seek(s, pos)
      [] s.plugin = "mpc" -> mpc_seek(s, pos)
      [] s.plugin = "mp4" -> mp4_seek(s, pos)
      [] s.plugin = "ffmpeg" -> ffmpeg_seek(s, pos)
      [] s.plugin = "wavpack" -> wavpack_seek(s, pos)
      [] s.plugin = "modplug" -> mod_seek(s, pos)
      [] s.plugin \in {"aac", "mikmod"} -> Unsupported(s)

-----------------------------------------------------------------------------
(* read_wrapper: every MetaInt bytes of a stream there is a length byte    *)
(* and then a title.  net: bytes of the stream read so far.                *)

Rest(s) == Len(Network) - s.net
Gets(s, n) == [s EXCEPT !.net = @ + n]
Dirty(s, n) == \E i \in s.net + 1 .. s.net + n : Network[i].kind # "audio"

(* EINTR, EAGAIN or nothing to read in 50 ms: ip_read may be called again. *)
Interrupted(s) == [s EXCEPT !.last = << >>, !.count = 0]

(* One read(): an error, the end, or some bytes, taken as audio.           *)
ReadSocket(s, count) ==
    {[Eof(s) EXCEPT !.rc = "errno"], Eof(s), Interrupted(s)} \cup
    {[Gets(s, n) EXCEPT !.counter = @ + n, !.dirty = @ \/ Dirty(s, n)] :
        n \in 1 .. Min({count, Rest(s)})}

WrapperReadsOn(s, count) ==
    LET len == Network[s.net + 1]
        title == IF len.kind = "len" THEN len.size ELSE 0
    IN  IF s.counter < MetaInt THEN ReadSocket(s, count)
        ELSE IF Rest(s) <= title THEN {Eof(Gets(s, Rest(s)))}
        ELSE ReadSocket([Gets(s, 1 + title) EXCEPT !.counter = 0], count)

read_wrapper(s, count) ==
    LET Room(t) == Min({count, MetaInt - t.counter})
        len == Network[s.net + 1]
        title == IF len.kind = "len" THEN len.size ELSE 0
    IN  IF MetaInt = 0 THEN ReadSocket(s, count)
        ELSE IF s.counter # MetaInt THEN ReadSocket(s, Room(s))
        ELSE IF Rest(s) = 0 THEN {Eof(s)}
        ELSE IF Rest(s) <= title THEN {Eof(Gets(s, Rest(s)))}
        ELSE LET t == [Gets(s, 1 + title) EXCEPT !.counter = 0]
             IN  ReadSocket(t, Room(t)) \cup {[Eof(s) EXCEPT !.rc = "errno"]}

-----------------------------------------------------------------------------
(* input.c                                                                 *)

ip_init(s) ==
    [s EXCEPT !.plugin = "none", !.fd = FALSE, !.reason = FALSE, !.scale = 1, !.eof = FALSE,
              !.at = 0, !.buf = NoSamples, !.ignore = FALSE, !.timer = 0, !.seek_idx = << >>,
              !.xing = "none", !.legible = FALSE, !.skim = FALSE, !.cold = FALSE,
              !.pkt = NoSamples, !.stale = FALSE, !.want = NoSamples, !.last = << >>,
              !.count = 0, !.net = 0, !.counter = 0]

NoInput == ip_init([state |-> "none", user |-> "player", remote |-> FALSE, plugin |-> "none",
    held |-> [r \in Resources |-> 0], twice |-> {}, fd |-> FALSE, reason |-> FALSE, rc |-> "ok",
    failed |-> {}, at |-> 0, buf |-> NoSamples, ignore |-> FALSE, timer |-> 0,
    seek_idx |-> << >>, xing |-> "none", legible |-> FALSE, skim |-> FALSE, cold |-> FALSE,
    pkt |-> NoSamples, stale |-> FALSE, eof |-> FALSE, want |-> NoSamples, last |-> << >>, count |-> 0,
    scale |-> 1, net |-> 0, counter |-> 0, dirty |-> FALSE, bug |-> FALSE])

IpInit == ip = NoInput

ip_new(user, remote) ==
    /\ ip.state = "none"
    /\ ip' = [NoInput EXCEPT !.state = "new", !.user = user, !.remote = remote]

(* What kind of file it is: with a Xing header (with a table or without),  *)
(* with headers that can still be read in damaged frames.                  *)
xing_parse(s) ==
    IF s.plugin # "mad" \/ s.remote \/ s.user = "cache" THEN {s}
    ELSE {[s EXCEPT !.xing = x, !.legible = l] : x \in {"none", "toc", "bare"}, l \in BOOLEAN}

(* Mono, 8 bits or both: ip_read converts.                                 *)
ip_setup(s) ==
    LET scales == CASE s.plugin \in {"mikmod", "modplug"} -> {1}
                    [] s.plugin \in {"wav", "flac", "wavpack"} -> {1, 2, 4}
                    [] OTHER -> {1, 2}
    IN  IF s.user = "cache" THEN {s} ELSE {[s EXCEPT !.scale = n] : n \in scales}

CloseFd(s) == IF s.fd THEN Run(s, << Put("fd") >>) ELSE s

Opened(s, o) ==
    LET t == Run(s, o.prog)
    IN  IF o.ok THEN UNION {ip_setup([u EXCEPT !.state = "open"]) : u \in xing_parse(t)}
        ELSE {[ip_init(Run(CloseFd(t), << Free("metadata") >>))
                 EXCEPT !.state = "failed", !.rc = "format", !.failed = @ \cup {s.plugin}]}

ip_open ==
    /\ ip.state = "new" /\ \A r \in Resources : ip.held[r] < MaxHeld
    /\ \E s \in IF ip.remote THEN open_remote(ip) ELSE open_file(ip) :
          IF s.rc # "ok" THEN ip' = [s EXCEPT !.state = "failed"]
          ELSE \E o \in Outcomes(OpenProg[s.plugin]) : ip' \in Opened(s, o)

(* The conversion goes through tmp.                                        *)
ip_read(count) ==
    LET n == IF ip.scale > 1 THEN Min({count \div ip.scale, TmpSize}) ELSE count
        s == [ip EXCEPT !.count = count,
                        !.want = IF ip.last = << >> \/ ip.stale THEN @ ELSE << ip.last[2], ip.last[2] >>]
    IN  /\ ip.state = "open" /\ ip.user = "player" /\ ~ip.eof
        /\ \/ ip.remote /\ ip' \in read_wrapper(ip, n)
           \/ ~ip.remote /\ ip' \in PluginRead(s, n)
           \/ ~ip.remote /\ ip' = Eof(s)                       \* a read error
           \/ ~ip.remote /\ ip' = Interrupted(s)

ip_seek(pos) ==
    /\ ip.state = "open" /\ ip.user = "player" /\ ~ip.remote
    /\ ip' \in PluginSeek(ip, pos)

ip_read_comments ==
    /\ ip.state = "open" /\ ip.user = "cache"
    /\ \E o \in Outcomes(CommentsProg(ip.plugin)) :
          ip' = [Run(ip, o.prog \o (IF o.ok THEN << Put("tags") >> ELSE << >>))
                   EXCEPT !.state = "asked",
                          !.failed = @ \cup (IF o.ok THEN {} ELSE {"tags"})]

(* The message for a status is the only one that uses the reason.          *)
ip_get_error_msg(s) ==
    IF s.rc = "status" /\ s.reason
    THEN [Run(s, << Put("reason") >>) EXCEPT !.reason = FALSE] ELSE s

Closed(s) ==
    LET t == Run(s, CloseProg[s.plugin])
        u == Run(CloseFd(t), << Free("metadata") >> \o
                             (IF t.reason THEN << Put("reason") >> ELSE << >>))
    IN  [ip_init(u) EXCEPT !.bug = @ \/ t.held["priv"] > 0]

(* Stop: the object stays and may be opened again.                         *)
ip_close ==
    /\ ip.state = "open" /\ ip.user = "player"
    /\ ip' = [Closed(ip) EXCEPT !.state = "new"]

ip_delete ==
    /\ ip.state \in {"new", "open", "asked", "failed"}
    /\ ip' = CASE ip.state = "new" -> [ip EXCEPT !.state = "none"]
              [] ip.state = "failed" -> [ip_get_error_msg(ip) EXCEPT !.state = "none"]
              [] ip.state \in {"open", "asked"} -> [Closed(ip) EXCEPT !.state = "none"]

IpNext ==
    \/ \E user \in {"player", "cache"}, remote \in BOOLEAN : ip_new(user, remote)
    \/ ip_open \/ ip_close \/ ip_delete \/ ip_read_comments
    \/ \E count \in Counts : ip_read(count)
    \/ \E pos \in Places : ip_seek(pos)

-----------------------------------------------------------------------------
(* Properties.                                                             *)

Compressed == {"mad", "flac", "mpc", "aac", "mp4", "ffmpeg"}

(* What a decoder gives the player fits the buffer and goes on where the   *)
(* last read ended; only frames that cannot be decoded are missing.  After *)
(* a seek it starts at the place the plugin aimed at: the sample, the      *)
(* frame or the packet, in nomad.c up to the error of the entry it started *)
(* from.  Of the old place nothing is heard any more but, first, the       *)
(* overflow of mp4.c and the packet at hand of ffmpeg.c, which they keep.  *)
InStreamOrder ==
    ip.last # << >> =>
        /\ (ip.last[2] - ip.last[1]) * ip.scale <= ip.count
        /\ \/ ip.stale /\ ip.plugin \in {"mp4", "ffmpeg"}
           \/ \E p \in ip.want[1] .. ip.want[2] :
                 ip.last[1] = IF ip.plugin \in Compressed THEN NextFrame(p)[1] ELSE p
           \/ /\ ip.plugin = "mad" /\ ip.want[1] < ip.want[2]
              /\ ip.want[1] <= ip.last[1] /\ GoodTime(ip.last[1]) <= ip.want[2]

(* The seek table of nomad.c over any order of reading and seeking: one    *)
(* entry for each interval.  A seek may count a frame twice or lose one,   *)
(* but these errors do not add up from seek to seek: an entry's time       *)
(* differs from that of its frame by no more than a slip for each entry up *)
(* to it.  A file with a Xing header has no table.                         *)
SeekTableRight ==
    \A i \in DOMAIN ip.seek_idx :
        LET entry == ip.seek_idx[i]
        IN  /\ ip.xing = "none"
            /\ entry.timer < i * Interval /\ i * Interval <= entry.timer + FrameLen
            /\ GoodTime(entry.offset) - i * Slip <= entry.timer
            /\ entry.timer <= entry.offset + i * Slip

(* The code releases only what it holds, whichever step of opening fails   *)
(* (a failed HTTP request, mad.c and ffmpeg.c are the exceptions), and     *)
(* when a local file's object is deleted nothing stays behind, whether     *)
(* opening it or reading its tags failed or not; only ffmpeg.c keeps its   *)
(* input structure and mad.c the tag it could not read.                    *)
ReleasesOwn ==
    /\ ip.twice # {} => ip.failed \cap {"http", "mad", "ffmpeg"} # {}
    /\ ip.state = "none" /\ ~ip.remote /\ ip.twice = {} =>
          \A r \in Resources : ip.held[r] > 0 => r = "input" \/ (r = "id3" /\ "tags" \in ip.failed)

(* Bytes of the titles in a stream never reach the decoder, however the    *)
(* stream is cut into reads; and no plugin keeps its private data.         *)
AudioOnly == ~ip.dirty /\ ~ip.bug
=============================================================================
