--------------------------- MODULE PositionProofs ---------------------------
(***************************************************************************)
(* The positions of player.c, for every size of a second, of a chunk and   *)
(* of an unsigned int, and every set of durations: as long as no track is  *)
(* longer than an unsigned int can count, scale_pos never falls behind     *)
(* consumer_pos and every byte is scaled exactly once.                     *)
(***************************************************************************)
EXTENDS Position, SequenceTheorems, TLAPS

(* Arithmetic the provers need to be told.                                 *)
LEMMA ShiftLe ==
    ASSUME NEW a \in Int, NEW b \in Int, NEW c \in Int, NEW d \in Int
    PROVE  (a + b <= c - d) <=> (a <= c - (d + b))
  OBVIOUS

LEMMA SizeNat ==
    ASSUME NEW d \in Nat, NEW z \in Nat \ {0}
    PROVE  d * z \in Nat /\ d * z + z - 1 \in Nat
<1>1. d * z \in Nat
  OBVIOUS
<1> QED  BY <1>1

(* The track has at least its duration and fits.                           *)
LEMMA SizeFacts ==
    ASSUME Countable, TypeOK
    PROVE  /\ duration \in Nat /\ SecondSize \in Nat /\ Modulus \in Nat
           /\ duration * SecondSize \in Nat
           /\ TrackSize \in Nat /\ TrackSize < Modulus
           /\ duration * SecondSize <= TrackSize
<1>1. duration \in Nat /\ SecondSize \in Nat \ {0} /\ Modulus \in Nat
  BY PositionAssumption DEF TypeOK
<1>2. duration * SecondSize \in Nat
  BY <1>1, SizeNat
<1>3. duration * SecondSize + SecondSize - 1 < Modulus
  BY DEF TypeOK, Countable
<1> QED  BY <1>1, <1>2, <1>3 DEF TrackSize

(* The unsigned difference of the two positions is the difference.         *)
LEMMA OffsIsDifference ==
    ASSUME Countable, PositionInv, Scaling
    PROVE  offs = scale_pos - consumer_pos /\ offs \in 0 .. Len(bytes)
<1>1. /\ scale_pos - consumer_pos \in 0 .. Len(bytes)
      /\ Len(bytes) \in Nat
      /\ Modulus \in Nat \ {0}
      /\ consumer_pos \in Nat /\ scale_pos \in Nat /\ scale_pos < Modulus
  BY PositionAssumption DEF PositionInv, TypeOK
<1>2. scale_pos - consumer_pos \in 0 .. Modulus - 1
  BY <1>1
<1>3. (scale_pos - consumer_pos) % Modulus = scale_pos - consumer_pos
  BY <1>1, <1>2
<1> QED  BY <1>1, <1>3 DEF offs

(* What scaling the first size bytes does: it reaches the larger of the    *)
(* old position and size, and exactly the bytes in between change.         *)
LEMMA ScaleFacts ==
    ASSUME Countable, PositionInv, Scaling,
           NEW size \in 1 .. Len(bytes)
    PROVE  /\ ScaledBytes(size) \in Seq(0 .. 2)
           /\ Len(ScaledBytes(size)) = Len(bytes)
           /\ \A i \in 1 .. Len(bytes) :
                ScaledBytes(size)[i] =
                  IF i > scale_pos - consumer_pos /\ i <= size
                  THEN Again(bytes[i]) ELSE bytes[i]
           /\ ScaledPos(size) = IF scale_pos - consumer_pos >= size THEN scale_pos
                                ELSE consumer_pos + size
           /\ ScaledPos(size) \in 0 .. Modulus - 1
<1>1. bytes \in Seq(0 .. 2) /\ Len(bytes) \in Nat
  BY DEF PositionInv, TypeOK
<1>2. offs = scale_pos - consumer_pos /\ offs \in 0 .. Len(bytes)
  BY OffsIsDifference
<1>3. \A i \in 1 .. Len(bytes) : bytes[i] \in 0 .. 2
  BY <1>1
<1>4. \A n \in 0 .. 2 : Again(n) \in 0 .. 2
  BY DEF Again
<1>5. ScaledBytes(size) \in [1 .. Len(bytes) -> 0 .. 2]
  BY <1>3, <1>4 DEF ScaledBytes
<1>6. ScaledBytes(size) \in Seq(0 .. 2) /\ Len(ScaledBytes(size)) = Len(bytes)
  <2> DEFINE f == ScaledBytes(size)
  <2> HIDE DEF f
  <2>1. f \in [1 .. Len(bytes) -> 0 .. 2]
    BY <1>5 DEF f
  <2>2. f \in Seq(0 .. 2) /\ Len(f) = Len(bytes)
    BY <2>1, <1>1
  <2> QED  BY <2>2 DEF f
<1>7. /\ consumer_pos \in Nat /\ scale_pos \in Nat /\ Modulus \in Nat \ {0}
      /\ scale_pos < Modulus
      /\ consumer_pos + Len(bytes) < Modulus
  BY SizeFacts, PositionAssumption DEF PositionInv, TypeOK
<1>8. offs < size => (scale_pos + (size - offs)) % Modulus = consumer_pos + size
  <2> SUFFICES ASSUME offs < size
               PROVE  (scale_pos + (size - offs)) % Modulus = consumer_pos + size
    OBVIOUS
  <2>1. scale_pos + (size - offs) = consumer_pos + size
    BY <1>2, <1>7, <1>1
  <2>2. consumer_pos + size \in 0 .. Modulus - 1
    BY <1>7, <1>1
  <2> QED  BY <2>1, <2>2, <1>7
<1>9. ScaledPos(size) = IF scale_pos - consumer_pos >= size THEN scale_pos
                        ELSE consumer_pos + size
  BY <1>2, <1>8, <1>7, <1>1 DEF ScaledPos
<1>10. ScaledPos(size) \in 0 .. Modulus - 1
  BY <1>9, <1>7, <1>1
<1>11. \A i \in 1 .. Len(bytes) :
         ScaledBytes(size)[i] =
           IF i > scale_pos - consumer_pos /\ i <= size
           THEN Again(bytes[i]) ELSE bytes[i]
  BY <1>2 DEF ScaledBytes
<1> QED  BY <1>6, <1>9, <1>10, <1>11

(* A seek that is not refused stays in the track.                          *)
LEMMA SeekStays ==
    ASSUME Countable, PositionInv, NEW offset \in Int
    PROVE  /\ SeekRelative(offset) # Rejected =>
                SeekRelative(offset) \in 0 .. TrackSize
           /\ SeekAbsolute(offset) # Rejected =>
                SeekAbsolute(offset) \in 0 .. TrackSize
<1>1. /\ SecondSize \in Nat /\ duration * SecondSize \in Nat /\ TrackSize \in Nat
      /\ duration * SecondSize <= TrackSize
  BY SizeFacts DEF PositionInv
<1>2. consumer_pos \in Nat /\ consumer_pos <= TrackSize
  BY <1>1 DEF PositionInv, TypeOK
<1>3. End \in Int /\ End <= TrackSize
  BY <1>1 DEF End
<1> QED
  BY <1>1, <1>2, <1>3 DEF SeekRelative, SeekAbsolute, AtLeastZero, Rejected

-----------------------------------------------------------------------------
(* What is left of a sequence when its first elements are dropped.         *)
LEMMA DropFacts ==
    ASSUME NEW S, NEW q \in Seq(S), NEW n \in 1 .. Len(q)
    PROVE  LET d == SubSeq(q, n + 1, Len(q))
           IN  /\ d \in Seq(S) /\ Len(d) = Len(q) - n
               /\ \A i \in 1 .. Len(q) - n : d[i] = q[i + n]
<1>1. Len(q) \in Nat /\ n \in Nat
  OBVIOUS
<1>2. \A i \in 1 .. Len(q) : q[i] \in S
  OBVIOUS
<1>3. /\ SubSeq(q, n + 1, Len(q)) \in Seq(S)
      /\ Len(SubSeq(q, n + 1, Len(q))) = IF n + 1 <= Len(q) THEN Len(q) - n ELSE 0
  BY <1>1, <1>2, SubSeqProperties
<1>4. \A i \in 1 .. Len(q) - n : SubSeq(q, n + 1, Len(q))[i] = q[i + n]
  BY <1>1, <1>2, SubSeqProperties
<1> QED  BY <1>1, <1>3, <1>4

(* No unsigned int below the modulus is changed by %.                      *)
LEMMA SmallMod ==
    ASSUME NEW m \in Nat \ {0}, NEW x \in Nat, x < m
    PROVE  x % m = x
  OBVIOUS

(* Writing: the consumer drops rc of the bytes it was offered, which were  *)
(* scaled first if scaling is on.                                          *)
LEMMA WriteStep ==
    ASSUME Countable, PositionInv, Write
    PROVE  PositionInv'
<1>a. PICK size \in 1 .. Len(bytes) :
      LET now == IF Scaling THEN ScaledBytes(size) ELSE bytes
      IN  /\ scale_pos' = IF Scaling THEN ScaledPos(size) ELSE scale_pos
          /\ \E rc \in 1 .. size :
               /\ bytes' = SubSeq(now, rc + 1, Len(now))
               /\ consumer_pos' = (consumer_pos + rc) % Modulus
               /\ heard' = [scaling |-> Scaling, times |-> {now[i] : i \in 1 .. rc},
                            paused |-> paused]
          /\ UNCHANGED << duration, soft_vol, replaygain, paused >>
  BY DEF Write
<1> DEFINE now == IF Scaling THEN ScaledBytes(size) ELSE bytes
<1>b. PICK rc \in 1 .. size :
      /\ bytes' = SubSeq(now, rc + 1, Len(now))
      /\ consumer_pos' = (consumer_pos + rc) % Modulus
      /\ heard' = [scaling |-> Scaling, times |-> {now[i] : i \in 1 .. rc},
                   paused |-> paused]
  BY <1>a
<1> DEFINE done == scale_pos - consumer_pos
<1>0. /\ UNCHANGED << duration, soft_vol, replaygain, paused >>
      /\ scale_pos' = IF Scaling THEN ScaledPos(size) ELSE scale_pos
      /\ Scaling' = Scaling
      /\ TrackSize' = TrackSize
  BY <1>a DEF Scaling, TrackSize
<1>1. /\ consumer_pos \in Nat /\ scale_pos \in Nat /\ Modulus \in Nat \ {0}
      /\ Len(bytes) \in Nat /\ bytes \in Seq(0 .. 2) /\ Len(bytes) <= MaxChunk
      /\ MaxChunk \in Nat
      /\ scale_pos < Modulus
      /\ consumer_pos + Len(bytes) <= TrackSize
      /\ TrackSize \in Nat /\ TrackSize < Modulus
      /\ size \in Nat /\ rc \in Nat
      /\ 1 <= rc /\ rc <= size /\ size <= Len(bytes)
  BY SizeFacts, PositionAssumption DEF PositionInv, TypeOK
<1>2. consumer_pos' = consumer_pos + rc
  <2>1. consumer_pos + rc \in Nat /\ consumer_pos + rc < Modulus
    BY <1>1
  <2>2. (consumer_pos + rc) % Modulus = consumer_pos + rc
    BY <2>1, <1>1, SmallMod
  <2> QED  BY <2>2, <1>b
<1>3. now \in Seq(0 .. 2) /\ Len(now) = Len(bytes)
  BY ScaleFacts, <1>1
<1>4. \A i \in 1 .. Len(bytes) :
        now[i] = IF Scaling /\ i > done /\ i <= size THEN Again(bytes[i]) ELSE bytes[i]
  BY ScaleFacts
<1>5. Scaling => /\ scale_pos' = IF done >= size THEN scale_pos ELSE consumer_pos + size
                 /\ done \in 0 .. Len(bytes)
  BY ScaleFacts, OffsIsDifference, <1>0
<1>6. scale_pos' \in 0 .. Modulus - 1
  BY ScaleFacts, <1>0, <1>1
<1>d. done = scale_pos - consumer_pos /\ done \in Int
  BY <1>1
<1> HIDE DEF now, done
<1>7. /\ bytes' \in Seq(0 .. 2) /\ Len(bytes') = Len(bytes) - rc
      /\ \A i \in 1 .. Len(bytes) - rc : bytes'[i] = now[i + rc]
  <2>1. rc \in 1 .. Len(now)
    BY <1>1, <1>3
  <2> QED  BY <2>1, <1>3, <1>b, DropFacts
<1>8. \A i \in 1 .. Len(bytes) : bytes[i] \in 0 .. 2 /\ now[i] \in 0 .. 2
  BY <1>1, <1>3
<1>9. heard' \in [scaling : BOOLEAN, times : SUBSET (0 .. 2), paused : BOOLEAN]
  <2>1. {now[i] : i \in 1 .. rc} \subseteq 0 .. 2
    BY <1>8, <1>1
  <2>2. Scaling \in BOOLEAN /\ paused \in BOOLEAN
    BY DEF PositionInv, TypeOK, Scaling
  <2> QED  BY <2>1, <2>2, <1>b
<1>10. TypeOK'
  BY <1>0, <1>1, <1>2, <1>6, <1>7, <1>9 DEF PositionInv, TypeOK
<1>11. (consumer_pos + Len(bytes) <= TrackSize)'
  BY <1>0, <1>1, <1>2, <1>7
<1>12. Scaling => \A i \in 1 .. size : now[i] > 0
  <2> SUFFICES ASSUME Scaling, NEW i \in 1 .. size  PROVE now[i] > 0
    OBVIOUS
  <2>1. i <= done => bytes[i] > 0
    BY <1>d DEF PositionInv
  <2>2. i > done => now[i] = Again(bytes[i])
    BY <1>4
  <2>3. i > done => now[i] > 0
    BY <2>2, <1>8 DEF Again
  <2>4. i <= done => now[i] = bytes[i]
    BY <1>d, <1>4, <1>5, <1>1
  <2> QED  BY <1>d, <2>1, <2>3, <2>4, <1>5
<1>13. Scaling' => /\ consumer_pos' <= scale_pos'
                   /\ scale_pos' <= consumer_pos' + Len(bytes')
  BY <1>d, <1>0, <1>1, <1>2, <1>5, <1>7 DEF PositionInv
<1>14. Scaling' => \A i \in 1 .. Len(bytes') :
                     i <= scale_pos' - consumer_pos' => bytes'[i] > 0
  <2> SUFFICES ASSUME Scaling, NEW i \in 1 .. Len(bytes'),
                      i <= scale_pos' - consumer_pos'
               PROVE  bytes'[i] > 0
    BY <1>0
  <2>1. bytes'[i] = now[i + rc] /\ i + rc \in 1 .. Len(bytes)
    BY <1>7, <1>1
  <2>2. CASE i + rc <= size
    BY <2>1, <2>2, <1>12, <1>1
  <2>3. CASE i + rc > size
    <3>1. i + rc <= done
      BY <1>d, <2>3, <1>2, <1>5, <1>1, <2>1
    <3>2. now[i + rc] = bytes[i + rc]
      BY <2>1, <2>3, <1>4, <1>1
    <3>3. bytes[i + rc] > 0
      BY <1>d, <3>1, <2>1 DEF PositionInv
    <3> QED  BY <2>1, <3>2, <3>3
  <2> QED  BY <2>2, <2>3, <2>1, <1>1
<1>15. ~paused => \A i \in 1 .. Len(bytes) :
                    now[i] = IF Scaling /\ i <= scale_pos' - consumer_pos THEN 1 ELSE 0
  <2> SUFFICES ASSUME ~paused, NEW i \in 1 .. Len(bytes)
               PROVE  now[i] = IF Scaling /\ i <= scale_pos' - consumer_pos THEN 1 ELSE 0
    OBVIOUS
  <2>1. bytes[i] = IF Scaling /\ i <= done THEN 1 ELSE 0
    BY <1>d DEF PositionInv
  <2>2. CASE ~Scaling
    BY <2>1, <2>2, <1>4
  <2>3. CASE Scaling /\ i <= done
    <3>1. now[i] = bytes[i]
      BY <1>d, <2>3, <1>4, <1>5, <1>1
    <3>2. i <= scale_pos' - consumer_pos
      BY <1>d, <2>3, <1>5, <1>1
    <3> QED  BY <3>1, <3>2, <2>1, <2>3
  <2>4. CASE Scaling /\ i > done /\ i <= size
    <3>1. now[i] = Again(0)
      BY <1>d, <2>4, <2>1, <1>4, <1>5, <1>1
    <3>2. i <= scale_pos' - consumer_pos
      BY <1>d, <2>4, <1>5, <1>1
    <3> QED  BY <3>1, <3>2, <2>4 DEF Again
  <2>5. CASE Scaling /\ i > done /\ i > size
    <3>1. now[i] = 0
      BY <1>d, <2>5, <2>1, <1>4, <1>5, <1>1
    <3>2. ~(i <= scale_pos' - consumer_pos)
      BY <1>d, <2>5, <1>5, <1>1
    <3> QED  BY <3>1, <3>2, <2>5
  <2> QED  BY <1>d, <2>2, <2>3, <2>4, <2>5, <1>5, <1>1
<1>16. ~paused' => \A i \in 1 .. Len(bytes') :
          bytes'[i] = IF Scaling' /\ i <= scale_pos' - consumer_pos' THEN 1 ELSE 0
  <2> SUFFICES ASSUME ~paused, NEW i \in 1 .. Len(bytes')
               PROVE  bytes'[i] = IF Scaling /\ i <= scale_pos' - consumer_pos' THEN 1 ELSE 0
    BY <1>0
  <2>1. bytes'[i] = now[i + rc] /\ i + rc \in 1 .. Len(bytes)
    BY <1>7, <1>1
  <2>2. i + rc <= scale_pos' - consumer_pos <=> i <= scale_pos' - consumer_pos'
    <3>1. scale_pos' \in Int /\ i \in Int
      BY <1>6, <1>1
    <3>2. consumer_pos \in Int /\ rc \in Int
      BY <1>1
    <3> QED  BY <3>1, <3>2, <1>2, ShiftLe
  <2> QED  BY <2>1, <2>2, <1>15
<1>17. NoneAtFullVolume'
  <2>1. heard'.scaling = Scaling /\ heard'.times = {now[i] : i \in 1 .. rc}
    BY <1>b
  <2>2. Scaling => 0 \notin {now[i] : i \in 1 .. rc}
    BY <1>12, <1>1
  <2> QED  BY <2>1, <2>2 DEF NoneAtFullVolume
<1>18. ScaledOnce'
  <2>1. heard'.paused = paused /\ heard'.times = {now[i] : i \in 1 .. rc}
    BY <1>b
  <2>2. ~paused => \A i \in 1 .. rc : now[i] <= 1
    BY <1>15, <1>1
  <2> QED  BY <2>1, <2>2 DEF ScaledOnce
<1> QED
  BY <1>10, <1>11, <1>13, <1>14, <1>16, <1>17, <1>18 DEF PositionInv

(* A failing write leaves the bytes where they are, scaled.                *)
LEMMA WriteFailsStep ==
    ASSUME Countable, PositionInv, WriteFails
    PROVE  PositionInv'
<1>a. PICK size \in 1 .. Len(bytes) :
        bytes' = ScaledBytes(size) /\ scale_pos' = ScaledPos(size)
  BY DEF WriteFails
<1> DEFINE done == scale_pos - consumer_pos
<1>0. /\ UNCHANGED << duration, consumer_pos, soft_vol, replaygain, heard, paused >>
      /\ Scaling /\ Scaling' /\ TrackSize' = TrackSize
  BY DEF WriteFails, Scaling, TrackSize
<1>1. /\ consumer_pos \in Nat /\ scale_pos \in Nat /\ done \in Int
      /\ Len(bytes) \in Nat /\ size \in Nat /\ 1 <= size /\ size <= Len(bytes)
      /\ \A i \in 1 .. Len(bytes) : bytes[i] \in 0 .. 2
  BY DEF PositionInv, TypeOK
<1>2. /\ bytes' \in Seq(0 .. 2) /\ Len(bytes') = Len(bytes)
      /\ scale_pos' = IF done >= size THEN scale_pos ELSE consumer_pos + size
      /\ scale_pos' \in 0 .. Modulus - 1
      /\ done \in 0 .. Len(bytes)
  BY <1>a, <1>0, ScaleFacts, OffsIsDifference
<1>3. \A i \in 1 .. Len(bytes) :
        bytes'[i] = IF i > done /\ i <= size THEN Again(bytes[i]) ELSE bytes[i]
  BY <1>a, <1>0, ScaleFacts
<1>4. TypeOK' /\ NoneAtFullVolume' /\ ScaledOnce'
  BY <1>0, <1>2 DEF PositionInv, TypeOK, NoneAtFullVolume, ScaledOnce
<1>5. /\ (consumer_pos + Len(bytes) <= TrackSize)'
      /\ consumer_pos' <= scale_pos' /\ scale_pos' <= consumer_pos' + Len(bytes')
  BY <1>0, <1>1, <1>2 DEF PositionInv
<1>6. ASSUME NEW i \in 1 .. Len(bytes'), i <= scale_pos' - consumer_pos'
      PROVE  bytes'[i] > 0
  <2>1. i \in 1 .. Len(bytes)
    BY <1>2
  <2>2. CASE i <= done
    BY <2>1, <2>2, <1>0, <1>1, <1>3 DEF PositionInv
  <2>3. CASE i > done
    <3>1. i <= size
      BY <2>1, <2>3, <1>0, <1>1, <1>2, <1>6
    <3>2. bytes'[i] = Again(bytes[i])
      BY <2>1, <2>3, <3>1, <1>3
    <3> QED  BY <3>2, <2>1, <1>1 DEF Again
  <2> QED  BY <2>1, <2>2, <2>3, <1>1
<1>7. ASSUME ~paused', NEW i \in 1 .. Len(bytes')
      PROVE  bytes'[i] = IF i <= scale_pos' - consumer_pos' THEN 1 ELSE 0
  <2>1. i \in 1 .. Len(bytes)
    BY <1>2
  <2>2. bytes[i] = IF i <= done THEN 1 ELSE 0
    BY <2>1, <1>0, <1>7 DEF PositionInv
  <2>3. CASE i <= done
    BY <2>1, <2>2, <2>3, <1>0, <1>1, <1>2, <1>3
  <2>4. CASE i > done /\ i <= size
    BY <2>1, <2>2, <2>4, <1>0, <1>1, <1>2, <1>3 DEF Again
  <2>5. CASE i > done /\ i > size
    BY <2>1, <2>2, <2>5, <1>0, <1>1, <1>2, <1>3
  <2> QED  BY <2>1, <2>3, <2>4, <2>5, <1>1
<1> QED  BY <1>0, <1>4, <1>5, <1>6, <1>7 DEF PositionInv

(* Scaling is switched on at the byte that is played next.                 *)
LEMMA SetScalingStep ==
    ASSUME Countable, PositionInv, SetScaling
    PROVE  PositionInv'
<1>0. /\ UNCHANGED << duration, consumer_pos, bytes, heard >>
      /\ scale_pos' = IF Scaling THEN scale_pos ELSE consumer_pos
      /\ paused' = (paused \/ (Scaling /\ ~Scaling'))
      /\ soft_vol' \in BOOLEAN /\ replaygain' \in BOOLEAN
      /\ TrackSize' = TrackSize
  BY DEF SetScaling, TrackSize, PositionInv, TypeOK
<1>1. TypeOK' /\ NoneAtFullVolume' /\ ScaledOnce'
  <2>1. paused' \in BOOLEAN
    BY <1>0 DEF PositionInv, TypeOK
  <2> QED  BY <1>0, <2>1 DEF PositionInv, TypeOK, NoneAtFullVolume, ScaledOnce
<1>2. /\ consumer_pos \in Nat /\ scale_pos \in Nat /\ Len(bytes) \in Nat
      /\ consumer_pos + Len(bytes) <= TrackSize
  BY DEF PositionInv, TypeOK
<1>3. CASE Scaling
  BY <1>0, <1>1, <1>2, <1>3 DEF PositionInv
<1>4. CASE ~Scaling
  <2>1. \A i \in 1 .. Len(bytes) : ~(i <= scale_pos' - consumer_pos')
    BY <1>0, <1>2, <1>4
  <2>2. ~paused' => ~paused
    BY <1>0
  <2>3. ~paused => \A i \in 1 .. Len(bytes) : bytes[i] = 0
    BY <1>4 DEF PositionInv
  <2>4. scale_pos' = consumer_pos' /\ bytes' = bytes
    BY <1>0, <1>4
  <2>5. (consumer_pos + Len(bytes) <= TrackSize)'
    BY <1>0, <1>2
  <2>6. scale_pos' <= consumer_pos' + Len(bytes') /\ consumer_pos' <= scale_pos'
    BY <1>0, <1>2, <2>4
  <2> QED  BY <1>1, <2>1, <2>2, <2>3, <2>4, <2>5, <2>6 DEF PositionInv
<1> QED  BY <1>3, <1>4

(* A new chunk comes when the previous one is used up.                     *)
LEMMA NextChunkStep ==
    ASSUME Countable, PositionInv, NextChunk
    PROVE  PositionInv'
<1>a. PICK n \in 1 .. MaxChunk :
        consumer_pos + n <= TrackSize /\ bytes' = [i \in 1 .. n |-> 0]
  BY DEF NextChunk
<1>0. /\ bytes = << >> /\ paused' = FALSE
      /\ UNCHANGED << duration, consumer_pos, scale_pos, soft_vol, replaygain, heard >>
      /\ Scaling' = Scaling /\ TrackSize' = TrackSize
  BY DEF NextChunk, Scaling, TrackSize
<1>1. n \in Nat /\ n <= MaxChunk /\ Len(bytes) = 0
  BY PositionAssumption, <1>0
<1>2. /\ bytes' \in Seq(0 .. 2) /\ Len(bytes') = n
      /\ \A i \in 1 .. n : bytes'[i] = 0
  BY <1>a, <1>1
<1>3. TypeOK' /\ NoneAtFullVolume' /\ ScaledOnce'
  BY <1>0, <1>1, <1>2 DEF PositionInv, TypeOK, NoneAtFullVolume, ScaledOnce
<1>4. consumer_pos \in Nat /\ scale_pos \in Nat
  BY DEF PositionInv, TypeOK
<1>5. Scaling => scale_pos = consumer_pos
  BY <1>1, <1>4 DEF PositionInv
<1> QED  BY <1>a, <1>0, <1>1, <1>2, <1>3, <1>4, <1>5 DEF PositionInv

(* reset_buffer and player_seek leave nothing at rpos.                     *)
LEMMA FlushStep ==
    ASSUME PositionInv, NEW to \in Nat,
           to <= TrackSize', to < Modulus, duration' \in Durations,
           bytes' = << >>, consumer_pos' = to, scale_pos' = to,
           UNCHANGED << soft_vol, replaygain, heard, paused >>
    PROVE  PositionInv'
<1>1. bytes' \in Seq(0 .. 2) /\ Len(bytes') = 0 /\ MaxChunk \in Nat /\ Modulus \in Nat
  BY PositionAssumption
<1>2. TypeOK'
  BY <1>1 DEF PositionInv, TypeOK
<1>3. NoneAtFullVolume' /\ ScaledOnce'
  BY DEF PositionInv, NoneAtFullVolume, ScaledOnce
<1> QED  BY <1>1, <1>2, <1>3 DEF PositionInv

LEMMA PositionInit ==
    Countable /\ Init => PositionInv
<1> SUFFICES ASSUME Countable, Init PROVE PositionInv
  OBVIOUS
<1>1. TypeOK
  <2>1. heard \in [scaling : BOOLEAN, times : SUBSET (0 .. 2), paused : BOOLEAN]
    BY DEF Init
  <2>2. bytes \in Seq(0 .. 2) /\ Len(bytes) = 0
    BY DEF Init
  <2>3. 0 \in 0 .. Modulus - 1 /\ 0 <= MaxChunk
    BY PositionAssumption
  <2> QED  BY <2>1, <2>2, <2>3 DEF Init, TypeOK
<1>2. TrackSize \in Nat
  BY <1>1, SizeFacts
<1>3. Len(bytes) = 0 /\ consumer_pos = 0 /\ ~Scaling
  BY DEF Init, Scaling
<1> QED  BY <1>1, <1>2, <1>3 DEF Init, PositionInv, NoneAtFullVolume, ScaledOnce

(* PositionInv is inductive.                                               *)
LEMMA PositionStep ==
    ASSUME Countable, PositionInv, [Next]_vars
    PROVE  PositionInv'
<1>1. CASE NextChunk    BY <1>1, NextChunkStep
<1>2. CASE Write        BY <1>2, WriteStep
<1>3. CASE WriteFails   BY <1>3, WriteFailsStep
<1>4. CASE SetScaling   BY <1>4, SetScalingStep
<1>5. CASE ResetBuffer
  <2>1. /\ duration' \in Durations /\ duration' \in Nat /\ SecondSize \in Nat \ {0}
        /\ Modulus \in Nat \ {0}
    BY <1>5, PositionAssumption DEF ResetBuffer
  <2>2. duration' * SecondSize + SecondSize - 1 \in Nat
    BY <2>1, SizeNat
  <2>3. 0 <= TrackSize'
    BY <2>2 DEF TrackSize
  <2> QED  BY <1>5, <2>1, <2>3, FlushStep DEF ResetBuffer
<1>6. CASE PlayerSeek
  <2>1. PICK offset \in Offsets :
        \E new_pos \in {SeekRelative(offset), SeekAbsolute(offset)} \ {Rejected} :
          /\ consumer_pos' = new_pos % Modulus /\ scale_pos' = new_pos % Modulus
          /\ bytes' = << >>
          /\ UNCHANGED << duration, soft_vol, replaygain, heard, paused >>
    BY <1>6 DEF PlayerSeek
  <2>2. PICK new_pos \in {SeekRelative(offset), SeekAbsolute(offset)} \ {Rejected} :
          /\ consumer_pos' = new_pos % Modulus /\ scale_pos' = new_pos % Modulus
          /\ bytes' = << >>
          /\ UNCHANGED << duration, soft_vol, replaygain, heard, paused >>
    BY <2>1
  <2>3. TrackSize \in Nat /\ TrackSize < Modulus /\ Modulus \in Nat \ {0}
    BY SizeFacts, PositionAssumption DEF PositionInv
  <2>4. offset \in Int
    BY <2>3 DEF Offsets
  <2>5. new_pos \in 0 .. TrackSize
    BY <2>4, SeekStays
  <2>6. new_pos \in Nat /\ new_pos < Modulus /\ new_pos % Modulus = new_pos
    BY <2>3, <2>5, SmallMod
  <2>7. TrackSize' = TrackSize /\ duration' \in Durations
    BY <2>2 DEF TrackSize, PositionInv, TypeOK
  <2> QED  BY <2>2, <2>3, <2>5, <2>6, <2>7, FlushStep
<1>7. CASE UNCHANGED vars
  BY <1>7 DEF vars, PositionInv, TypeOK, NoneAtFullVolume, ScaledOnce, TrackSize, Scaling
<1> QED  BY <1>1, <1>2, <1>3, <1>4, <1>5, <1>6, <1>7 DEF Next

-----------------------------------------------------------------------------
(* Whatever is written, seeked, switched on or off: PositionInv holds.     *)
THEOREM PositionInvariant == Countable => (Spec => []PositionInv)
<1>1. Countable /\ Init => PositionInv
  BY PositionInit
<1>2. Countable /\ PositionInv /\ [Next]_vars => PositionInv'
  BY PositionStep
<1>3. Countable => Countable'
  BY DEF Countable
<1> QED  BY <1>1, <1>2, <1>3, PTL DEF Spec

(* The BUG_ON of scale_samples cannot be hit while tracks are countable.   *)
THEOREM ScalePosNotBehind == Countable => (Spec => []NotBehind)
<1>1. PositionInv => NotBehind
  BY DEF PositionInv, NotBehind, TypeOK
<1> QED  BY <1>1, PositionInvariant, PTL

(* With scaling on, no byte reaches the sound card unscaled.               *)
THEOREM NothingAtFullVolume == Countable => (Spec => []NoneAtFullVolume)
<1>1. PositionInv => NoneAtFullVolume
  BY DEF PositionInv
<1> QED  BY <1>1, PositionInvariant, PTL

(* And none is scaled twice unless scaling was switched off in between.    *)
THEOREM NothingScaledTwice == Countable => (Spec => []ScaledOnce)
<1>1. PositionInv => ScaledOnce
  BY DEF PositionInv
<1> QED  BY <1>1, PositionInvariant, PTL

(* player_seek stays within the track and goes the way it should.          *)
THEOREM SeeksInRange == Countable => (Spec => []SeekInRange)
<1>1. ASSUME Countable, PositionInv PROVE SeekInRange
  <2>1. /\ SecondSize \in Nat /\ duration * SecondSize \in Nat /\ TrackSize \in Nat
        /\ consumer_pos \in Nat
    BY <1>1, SizeFacts DEF PositionInv, TypeOK
  <2> SUFFICES ASSUME NEW offset \in Offsets
               PROVE  /\ \A p \in {SeekRelative(offset), SeekAbsolute(offset)} \ {Rejected} :
                           0 <= p /\ (p <= duration * SecondSize \/ p <= consumer_pos)
                      /\ LET p == SeekRelative(offset)
                         IN  p # Rejected =>
                               /\ offset <= 0 => p <= consumer_pos
                               /\ offset > 0 => 2 * p >= 2 * consumer_pos - SecondSize
    BY DEF SeekInRange
  <2>2. offset \in Int
    BY <2>1 DEF Offsets
  <2>3. End \in Int /\ End <= duration * SecondSize
    BY <2>1 DEF End
  <2> QED
    BY <2>1, <2>2, <2>3 DEF SeekRelative, SeekAbsolute, AtLeastZero, Rejected
<1>2. Countable /\ PositionInv => SeekInRange
  BY <1>1
<1>3. Countable => Countable'
  BY DEF Countable
<1> QED  BY <1>2, <1>3, PositionInvariant, PTL

=============================================================================
