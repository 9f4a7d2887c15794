------------------------------ MODULE Position ------------------------------
(***************************************************************************)
(* The playing position in player.c.  consumer_pos counts the bytes of the *)
(* track that op_write took.  scale_samples (software volume and replay    *)
(* gain) scales the bytes at the read position in place before op_write    *)
(* gets them, and scale_pos remembers how far it got, because op_write may *)
(* take less than it was offered.  Both are unsigned ints.  player_seek    *)
(* moves them, within the limits it computes from the track's duration.    *)
(*                                                                         *)
(* All of this happens with consumer_mutex held: each action is one        *)
(* critical section of consumer_loop or of a player_* command.             *)
(***************************************************************************)
EXTENDS Integers, Sequences

CONSTANTS
    Modulus,       \* 2^32 in the code: where an unsigned int wraps
    SecondSize,    \* bytes in a second, buffer_second_size()
    Durations,     \* what ip_duration may be: whole seconds, rounded down
    MaxChunk       \* bytes at the read position

ASSUME PositionAssumption ==
    /\ Modulus \in Nat \ {0} /\ MaxChunk \in Nat \ {0}
    /\ SecondSize \in Nat \ {0} /\ SecondSize % 2 = 0
    /\ Durations \subseteq Nat /\ Durations # {}

VARIABLES
    duration,        \* of the track that is loaded
    consumer_pos,    \* position of the next byte op_write will get
    scale_pos,       \* position of the next byte to scale
    soft_vol,        \* software volume enabled
    replaygain,      \* replay gain enabled (RG_TRACK or RG_ALBUM)
    bytes,           \* what is at rpos: how often each byte was scaled
    heard,           \* the last write: scaling on, how often its bytes were
    paused           \* scaling was switched off since the chunk came

vars == << duration, consumer_pos, scale_pos, soft_vol, replaygain, bytes, heard, paused >>

Scaling == soft_vol \/ replaygain

(* Bytes in the track: up to a second more than the duration says.         *)
TrackSize == duration * SecondSize + SecondSize - 1

Init ==
    /\ duration \in Durations
    /\ consumer_pos = 0 /\ scale_pos = 0
    /\ soft_vol = FALSE /\ replaygain = FALSE
    /\ bytes = << >>
    /\ heard = [scaling |-> FALSE, times |-> {}, paused |-> FALSE]
    /\ paused = FALSE

(* The next chunk of the track is at the read position.                    *)
NextChunk ==
    /\ bytes = << >>
    /\ \E n \in 1 .. MaxChunk :
         /\ consumer_pos + n <= TrackSize
         /\ bytes' = [i \in 1 .. n |-> 0]
    /\ paused' = FALSE
    /\ UNCHANGED << duration, consumer_pos, scale_pos, soft_vol, replaygain, heard >>

-----------------------------------------------------------------------------
(* A scale_samples that starts at rpos every time.                         *)
OffsIgnored == 0

(* scale_samples(rpos, &size): it starts offs bytes from rpos, an unsigned *)
(* difference.                                                             *)
offs == (scale_pos - consumer_pos) % Modulus

(* Bytes are scaled in place; 2 stands for "twice or more often".          *)
Again(n) == IF n < 2 THEN n + 1 ELSE n

ScaledBytes(size) ==
    [i \in 1 .. Len(bytes) |-> IF i > offs /\ i <= size THEN Again(bytes[i]) ELSE bytes[i]]

ScaledPos(size) ==
    IF offs >= size THEN scale_pos ELSE (scale_pos + (size - offs)) % Modulus

(* consumer_loop: scale if enabled, op_write, buffer_consume.  The space   *)
(* in the sound card limits the size.                                      *)
Write ==
    \E size \in 1 .. Len(bytes) :
      LET now == IF Scaling THEN ScaledBytes(size) ELSE bytes
      IN  /\ scale_pos' = IF Scaling THEN ScaledPos(size) ELSE scale_pos
          /\ \E rc \in 1 .. size :
               /\ bytes' = SubSeq(now, rc + 1, Len(now))
               /\ consumer_pos' = (consumer_pos + rc) % Modulus
               /\ heard' = [scaling |-> Scaling, times |-> {now[i] : i \in 1 .. rc},
                            paused |-> paused]
          /\ UNCHANGED << duration, soft_vol, replaygain, paused >>

(* op_write fails: the bytes stay, scaled or not.                          *)
WriteFails ==
    /\ Scaling
    /\ \E size \in 1 .. Len(bytes) :
         /\ bytes' = ScaledBytes(size)
         /\ scale_pos' = ScaledPos(size)
    /\ UNCHANGED << duration, consumer_pos, soft_vol, replaygain, heard, paused >>

(* player_set_soft_vol and player_set_rg: "don't mess with scale_pos if    *)
(* soft_vol or replaygain is already enabled".                             *)
SetScaling ==
    /\ \/ soft_vol' \in BOOLEAN /\ UNCHANGED replaygain
       \/ replaygain' \in BOOLEAN /\ UNCHANGED soft_vol
    /\ scale_pos' = IF Scaling THEN scale_pos ELSE consumer_pos
    /\ paused' = (paused \/ (Scaling /\ ~Scaling'))
    /\ UNCHANGED << duration, consumer_pos, bytes, heard >>

-----------------------------------------------------------------------------
(* reset_buffer: stop, another track, play again, repeat.                  *)
ResetBuffer ==
    /\ duration' \in Durations
    /\ bytes' = << >>
    /\ consumer_pos' = 0 /\ scale_pos' = 0
    /\ UNCHANGED << soft_vol, replaygain, heard, paused >>

Rejected == -1
End == duration * SecondSize - 5 * SecondSize
AtLeastZero(pos) == IF pos < 0 THEN 0 ELSE pos

(* player_seek, relative: a seek forward stays five seconds from the end,  *)
(* and is refused if that would be back by more than half a second.        *)
SeekRelative(offset) ==
    LET to == AtLeastZero(consumer_pos + offset)
        forward == AtLeastZero(IF to > End THEN End ELSE to)
    IN  IF offset <= 0 THEN to
        ELSE IF 2 * forward < 2 * consumer_pos - SecondSize THEN Rejected ELSE forward

(* player_seek, absolute.                                                  *)
SeekAbsolute(offset) ==
    IF offset < 0 THEN Rejected
    ELSE IF offset > End THEN AtLeastZero(End) ELSE offset

Offsets == -TrackSize .. TrackSize

(* A player_seek that leaves scale_pos where reset_buffer put it.          *)
PlayerSeekKeepsScalePos ==
    \E offset \in Offsets :
    \E new_pos \in {SeekRelative(offset), SeekAbsolute(offset)} \ {Rejected} :
      /\ bytes' = << >>
      /\ consumer_pos' = new_pos % Modulus /\ scale_pos' = 0
      /\ UNCHANGED << duration, soft_vol, replaygain, heard, paused >>

(* ip_seek works: op_drop, reset_buffer, and both positions are set.       *)
PlayerSeek ==
    \E offset \in Offsets :
    \E new_pos \in {SeekRelative(offset), SeekAbsolute(offset)} \ {Rejected} :
      /\ bytes' = << >>
      /\ consumer_pos' = new_pos % Modulus /\ scale_pos' = new_pos % Modulus
      /\ UNCHANGED << duration, soft_vol, replaygain, heard, paused >>

Next == NextChunk \/ Write \/ WriteFails \/ SetScaling \/ ResetBuffer \/ PlayerSeek

Spec == Init /\ [][Next]_vars

-----------------------------------------------------------------------------
(* Properties                                                              *)

TypeOK ==
    /\ consumer_pos \in 0 .. Modulus - 1 /\ scale_pos \in 0 .. Modulus - 1
    /\ duration \in Durations
    /\ soft_vol \in BOOLEAN /\ replaygain \in BOOLEAN /\ paused \in BOOLEAN
    /\ bytes \in Seq(0 .. 2) /\ Len(bytes) <= MaxChunk
    /\ heard \in [scaling : BOOLEAN, times : SUBSET (0 .. 2), paused : BOOLEAN]

(* No track is longer than an unsigned int can count (4 GiB of samples).   *)
Countable == \A d \in Durations : d * SecondSize + SecondSize - 1 < Modulus

(* scale_samples: BUG_ON(scale_pos < consumer_pos), evaluated by every     *)
(* write while scaling is on.                                              *)
NotBehind == Scaling => scale_pos >= consumer_pos

(* While scaling is on, every byte that is played was scaled: switching    *)
(* soft_vol or replaygain on, off or from one to the other between partial *)
(* writes, and seeking, let none through at full volume.                   *)
NoneAtFullVolume == heard.scaling => 0 \notin heard.times

(* No byte is scaled twice, however small the pieces op_write takes and    *)
(* however often it fails, unless scaling was off for a while.             *)
ScaledOnce == ~heard.paused => \A n \in heard.times : n <= 1

(* player_seek never asks for a position before the start of the track, or *)
(* past its duration unless that is where it plays; a relative seek goes   *)
(* the way it should, forward at most half a second back.                  *)
SeekInRange ==
    \A offset \in Offsets :
      /\ \A p \in {SeekRelative(offset), SeekAbsolute(offset)} \ {Rejected} :
           0 <= p /\ (p <= duration * SecondSize \/ p <= consumer_pos)
      /\ LET p == SeekRelative(offset)
         IN  p # Rejected =>
               /\ offset <= 0 => p <= consumer_pos
               /\ offset > 0 => 2 * p >= 2 * consumer_pos - SecondSize

(* Why the above hold: the two positions stay within the track; while      *)
(* scaling is on scale_pos points into what is at rpos, the bytes before   *)
(* it are scaled and, unless scaling was off for a while, those after it   *)
(* are not.                                                                *)
PositionInv ==
    /\ TypeOK /\ NoneAtFullVolume /\ ScaledOnce
    /\ consumer_pos + Len(bytes) <= TrackSize
    /\ Scaling =>
         /\ consumer_pos <= scale_pos /\ scale_pos <= consumer_pos + Len(bytes)
         /\ \A i \in 1 .. Len(bytes) : i <= scale_pos - consumer_pos => bytes[i] > 0
    /\ ~paused =>
         \A i \in 1 .. Len(bytes) :
           bytes[i] = IF Scaling /\ i <= scale_pos - consumer_pos THEN 1 ELSE 0

=============================================================================
