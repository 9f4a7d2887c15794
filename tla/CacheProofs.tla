----------------------------- MODULE CacheProofs -----------------------------
(***************************************************************************)
(* The track cache, for any files, any bounds and any number of changes,   *)
(* jobs and restarts: first types, freshness and the cache's file          *)
(* (CacheInv), then who has a reference on what (RefInv).                  *)
(***************************************************************************)
EXTENDS Cache, Induction, FiniteSetTheorems

-----------------------------------------------------------------------------
(* Types                                                                   *)

Flags == BOOLEAN

LEMMA FlagsHas == TRUE \in Flags /\ FALSE \in Flags
  BY DEF Flags

Infos == [file : Names, mtime : Nat, tags : Nat, ref : Int, raced : Flags, lost : Nat]

(* Sets of track infos that counting references does not leave.            *)
Closed(C) ==
    /\ C \subseteq Infos /\ Freed \in C
    /\ \A ti \in C : /\ \A r \in Int : [ti EXCEPT !.ref = r] \in C
                     /\ \A l \in Nat : [ti EXCEPT !.lost = l] \in C

(* What cache.c and lib.c keep, over N track infos from C.                 *)
MemSet(C, N) ==
    {m \in [tis : Seq(C), table : SUBSET (1 .. N), total : Int, changed : Flags,
            hash : SUBSET (1 .. N), view : SUBSET (1 .. N)] : Len(m.tis) = N}

LEMMA FirstFile == Files[1] \in Names
<1>1. Files \in Seq(Names) /\ Files # << >>
  BY CacheAssumption DEF Names
<1>2. Len(Files) > 0
  BY <1>1
<1> QED  BY <1>1, <1>2

LEMMA MapSeq ==
    ASSUME NEW C, NEW t \in Seq(C), NEW r, r = [x \in DOMAIN t |-> r[x]],
           \A x \in DOMAIN t : r[x] \in C
    PROVE  r \in Seq(C) /\ Len(r) = Len(t) /\ DOMAIN r = 1 .. Len(t)
<1>1. DOMAIN t = 1 .. Len(t) /\ Len(t) \in Nat
  OBVIOUS
<1> QED  BY <1>1

LEMMA RefSeq ==
    ASSUME NEW C, Closed(C), NEW t \in Seq(C), NEW i
    PROVE  track_info_ref(t, i) \in Seq(C) /\ Len(track_info_ref(t, i)) = Len(t)
<1> DEFINE r == track_info_ref(t, i)
<1>1. r = [x \in DOMAIN t |-> r[x]]
  BY DEF track_info_ref
<1>2. ASSUME NEW x \in DOMAIN t PROVE r[x] \in C
  <2>1. t[x] \in C /\ t[x].ref \in Int
    BY DEF Closed, Infos
  <2> QED  BY <2>1 DEF track_info_ref, Closed
<1> HIDE DEF r
<1> QED  BY <1>1, <1>2, MapSeq DEF r

LEMMA UnrefType ==
    ASSUME NEW C, Closed(C), NEW ti \in C
    PROVE  Unref(ti) \in C
  BY DEF Closed, Unref, Infos

LEMMA UnrefSeq ==
    ASSUME NEW C, Closed(C), NEW t \in Seq(C), NEW i
    PROVE  track_info_unref(t, i) \in Seq(C) /\ Len(track_info_unref(t, i)) = Len(t)
<1> DEFINE r == track_info_unref(t, i)
<1>1. r = [x \in DOMAIN t |-> r[x]]
  BY DEF track_info_unref
<1>2. ASSUME NEW x \in DOMAIN t PROVE r[x] \in C
  <2>1. t[x] \in C /\ Unref(t[x]) \in C
    BY UnrefType
  <2> QED  BY <2>1 DEF track_info_unref
<1> HIDE DEF r
<1> QED  BY <1>1, <1>2, MapSeq DEF r

LEMMA AllSeq ==
    ASSUME NEW C, Closed(C), NEW t \in Seq(C), NEW is
    PROVE  /\ RefAll(t, is) \in Seq(C) /\ Len(RefAll(t, is)) = Len(t)
           /\ UnrefAll(t, is) \in Seq(C) /\ Len(UnrefAll(t, is)) = Len(t)
           /\ LoseAll(t, is) \in Seq(C) /\ Len(LoseAll(t, is)) = Len(t)
<1>0. \A x \in DOMAIN t : t[x] \in C /\ t[x].ref + 1 \in Int /\ t[x].lost + 1 \in Nat
  <2>1. \A x \in DOMAIN t : t[x] \in C /\ t[x] \in Infos
    BY DEF Closed
  <2> QED  BY <2>1 DEF Infos
<1>a. \A x \in DOMAIN t : /\ [t[x] EXCEPT !.ref = t[x].ref + 1] \in C
                         /\ [t[x] EXCEPT !.lost = t[x].lost + 1] \in C
  BY <1>0 DEF Closed
<1>1. RefAll(t, is) \in Seq(C) /\ Len(RefAll(t, is)) = Len(t)
  <2> DEFINE r == RefAll(t, is)
  <2>1. r = [x \in DOMAIN t |-> r[x]] /\ \A x \in DOMAIN t : r[x] \in C
    BY <1>0, <1>a DEF RefAll
  <2> HIDE DEF r
  <2> QED  BY <2>1, MapSeq DEF r
<1>2. UnrefAll(t, is) \in Seq(C) /\ Len(UnrefAll(t, is)) = Len(t)
  <2> DEFINE r == UnrefAll(t, is)
  <2>1. r = [x \in DOMAIN t |-> r[x]] /\ \A x \in DOMAIN t : r[x] \in C
    BY <1>0, UnrefType DEF UnrefAll
  <2> HIDE DEF r
  <2> QED  BY <2>1, MapSeq DEF r
<1>3. LoseAll(t, is) \in Seq(C) /\ Len(LoseAll(t, is)) = Len(t)
  <2> DEFINE r == LoseAll(t, is)
  <2>1. r = [x \in DOMAIN t |-> r[x]] /\ \A x \in DOMAIN t : r[x] \in C
    BY <1>0, <1>a DEF LoseAll
  <2> HIDE DEF r
  <2> QED  BY <2>1, MapSeq DEF r
<1> QED  BY <1>1, <1>2, <1>3

(* A track of update-cache, its old and its new entry.                     *)
Slots(N) == [ti : 1 .. N, held : Flags, next : 0 .. N]

-----------------------------------------------------------------------------
(* cache.c and lib.c keep the types                                        *)

LEMMA AddTrackType ==
    ASSUME NEW C, Closed(C), NEW N \in Nat, NEW m \in MemSet(C, N), NEW i \in 1 .. N
    PROVE  LET r == lib_add_track(m, i)
           IN  r \in MemSet(C, N) /\ r.table = m.table /\ r.total = m.total
<1> DEFINE a == track_info_ref(m.tis, i)
           b == track_info_ref(a, i)
<1>1. m.tis \in Seq(C) /\ Len(m.tis) = N
  BY DEF MemSet
<1>2. a \in Seq(C) /\ Len(a) = N
  BY <1>1, RefSeq
<1>3. b \in Seq(C) /\ Len(b) = N
  <2> HIDE DEF a
  <2> QED  BY <1>2, RefSeq
<1> DEFINE x == [m EXCEPT !.hash = m.hash \cup {i}, !.tis = a]
           y == [m EXCEPT !.hash = m.hash \cup {i}, !.view = m.view \cup {i}, !.tis = b]
<1>4. lib_add_track(m, i) \in {m, x, y}
  BY DEF lib_add_track
<1> HIDE DEF a, b
<1>5. x \in MemSet(C, N) /\ x.table = m.table /\ x.total = m.total
  BY <1>2 DEF MemSet
<1>6. y \in MemSet(C, N) /\ y.table = m.table /\ y.total = m.total
  BY <1>3 DEF MemSet
<1> HIDE DEF x, y
<1> QED  BY <1>4, <1>5, <1>6

LEMMA RemoveTrackType ==
    ASSUME NEW C, Closed(C), NEW N \in Nat, NEW m \in MemSet(C, N), NEW i
    PROVE  LET r == lib_remove(m, i)
           IN  r \in MemSet(C, N) /\ r.table = m.table /\ r.total = m.total
<1> DEFINE e == {j \in m.hash : m.tis[j].file = m.tis[i].file}
           a == track_info_unref(m.tis, i)
           b == UnrefAll(a, e)
<1>1. m.tis \in Seq(C) /\ Len(m.tis) = N
  BY DEF MemSet
<1>2. a \in Seq(C) /\ Len(a) = N
  BY <1>1, UnrefSeq
<1>3. b \in Seq(C) /\ Len(b) = N
  <2> HIDE DEF a, e
  <2> QED  BY <1>2, AllSeq
<1>4. lib_remove(m, i) \in {m, [m EXCEPT !.view = @ \ {i}, !.hash = @ \ e, !.tis = b]}
  BY DEF lib_remove
<1> HIDE DEF a, b, e
<1> QED  BY <1>3, <1>4 DEF MemSet

LEMMA SetTisType ==
    ASSUME NEW C, NEW N \in Nat, NEW m \in MemSet(C, N), NEW t \in Seq(C), Len(t) = N
    PROVE  LET r == [m EXCEPT !.tis = t]
           IN  /\ r \in MemSet(C, N) /\ r.table = m.table /\ r.total = m.total
               /\ r.hash = m.hash /\ r.view = m.view /\ r.tis = t
  BY DEF MemSet

LEMMA AddAndUnrefType ==
    ASSUME NEW C, Closed(C), NEW N \in Nat, NEW m \in MemSet(C, N), NEW i \in 1 .. N
    PROVE  LET r == AddAndUnref(m, i)
           IN  r \in MemSet(C, N) /\ r.table = m.table /\ r.total = m.total
<1> DEFINE a == lib_add_track(m, i)
           t == track_info_unref(a.tis, i)
<1>1. a \in MemSet(C, N) /\ a.table = m.table /\ a.total = m.total
  BY AddTrackType
<1>2. AddAndUnref(m, i) = [a EXCEPT !.tis = t]
  BY DEF AddAndUnref
<1> HIDE DEF a
<1>3. t \in Seq(C) /\ Len(t) = N
  <2>1. a.tis \in Seq(C) /\ Len(a.tis) = N
    BY <1>1 DEF MemSet
  <2> QED  BY <2>1, UnrefSeq
<1> HIDE DEF t
<1> QED  BY <1>1, <1>2, <1>3, SetTisType

LEMMA RemoveEntryType ==
    ASSUME NEW C, Closed(C), NEW N \in Nat, NEW m \in MemSet(C, N), NEW i
    PROVE  LET r == do_cache_remove_ti(m, i)
           IN  /\ r \in MemSet(C, N) /\ r.table = m.table \ {i}
               /\ r.total = IF i \in m.table THEN m.total - 1 ELSE m.total
<1> DEFINE t == track_info_unref(m.tis, i)
<1>1. t \in Seq(C) /\ Len(t) = N
  <2>1. m.tis \in Seq(C) /\ Len(m.tis) = N
    BY DEF MemSet
  <2> QED  BY <2>1, UnrefSeq
<1> DEFINE tb == m.table \ {i}
           n == m.total - 1
           x == [m EXCEPT !.tis = t, !.table = tb, !.total = n, !.changed = TRUE]
<1>2. do_cache_remove_ti(m, i) = IF i \notin m.table THEN m ELSE x
  BY DEF do_cache_remove_ti
<1> HIDE DEF t
<1>3. tb \in SUBSET (1 .. N) /\ n \in Int
  BY DEF MemSet
<1>4. x \in MemSet(C, N) /\ x.table = tb /\ x.total = n
  <2> HIDE DEF tb, n
  <2> QED  BY <1>1, <1>3, FlagsHas DEF MemSet
<1> HIDE DEF x
<1>5. i \notin m.table => m.table = m.table \ {i}
  OBVIOUS
<1> QED  BY <1>2, <1>4, <1>5

LEMMA AddNewType ==
    ASSUME NEW C, Closed(C), NEW N \in Nat, NEW m \in MemSet(C, N), NEW ti \in C
    PROVE  LET r == AddNew(m, ti)
           IN  /\ r \in MemSet(C, N + 1) /\ r.table = m.table \cup {N + 1}
               /\ r.total = m.total + 1
<1> DEFINE t == Append(m.tis, ti)
<1>1. t \in Seq(C) /\ Len(t) = N + 1
  BY DEF MemSet
<1> DEFINE tb == m.table \cup {N + 1}
           n == m.total + 1
           x == [m EXCEPT !.tis = t, !.table = tb, !.total = n, !.changed = TRUE]
<1>2. AddNew(m, ti) = x
  BY DEF AddNew, MemSet
<1> HIDE DEF t
<1>3. tb \in SUBSET (1 .. N + 1) /\ n \in Int
  BY DEF MemSet
<1>4. x \in MemSet(C, N + 1) /\ x.table = tb /\ x.total = n
  <2>1. m.hash \subseteq 1 .. N + 1 /\ m.view \subseteq 1 .. N + 1
    BY DEF MemSet
  <2> HIDE DEF tb, n
  <2> QED  BY <1>1, <1>3, <2>1, FlagsHas DEF MemSet
<1> HIDE DEF x
<1> QED  BY <1>2, <1>4

-----------------------------------------------------------------------------
(* The folds keep them, too                                                *)

(* What a flush or update-cache goes through.                              *)
SameCache(C, N, m) == {x \in MemSet(C, N) : x.table = m.table /\ x.total = m.total}
SameLength(C, m) == {x \in Seq(C) : Len(x) = Len(m)}

FlushRun(C, N, m, seq, g) ==
    /\ g \in [0 .. Len(seq) -> SameCache(C, N, m)]
    /\ g[0] = m /\ g[Len(seq)] = FoldLeft(AddAndUnref, m, seq)
    /\ \A k \in 1 .. Len(seq) : g[k] = AddAndUnref(g[k - 1], seq[k])

LEMMA FlushSteps ==
    ASSUME NEW C, Closed(C), NEW N \in Nat, NEW m \in MemSet(C, N), NEW seq \in Seq(1 .. N)
    PROVE  \E g : FlushRun(C, N, m, seq, g)
<1> DEFINE M == SameCache(C, N, m)
           E == 1 .. N
           L == Len(seq)
           F == [p \in M \X E |-> AddAndUnref(p[1], p[2])]
           Eq(f) == f = [s \in SUBSET (DOMAIN seq) |->
                           IF s = {} THEN m ELSE AddAndUnref(f[s \ {Max(s)}], seq[Max(s)])]
           iter == CHOOSE f : Eq(f)
<1>1. DOMAIN seq = 1 .. L /\ L \in Nat /\ \A i \in 1 .. L : seq[i] \in E
  OBVIOUS
<1>2. \A x \in M, i \in E : AddAndUnref(x, i) \in M
  BY AddAndUnrefType DEF SameCache
<1>3. m \in M
  BY DEF SameCache
<1> HIDE DEF M, E
<1>4. F \in [M \X E -> M] /\ \A x \in M, i \in E : F[<< x, i >>] = AddAndUnref(x, i)
  BY <1>2
<1> HIDE DEF L, F
<1>5. PICK it : Iterates(it, M, m, L, seq, F)
  BY <1>1, <1>3, <1>4, FoldExists
<1>i. /\ it \in [SUBSET (1 .. L) -> M] /\ it[{}] = m
      /\ \A s \in SUBSET (1 .. L) : s # {} => it[s] = F[<< it[s \ {Max(s)}], seq[Max(s)] >>]
  BY <1>5 DEF Iterates
<1>6. \A s \in SUBSET (1 .. L) : s # {} => it[s] = AddAndUnref(it[s \ {Max(s)}], seq[Max(s)])
  <2> SUFFICES ASSUME NEW s \in SUBSET (1 .. L), s # {}
               PROVE  it[s] = AddAndUnref(it[s \ {Max(s)}], seq[Max(s)])
    OBVIOUS
  <2>1. Max(s) \in s /\ s \ {Max(s)} \in SUBSET (1 .. L)
    BY <1>1, MaxInside
  <2>2. it[s \ {Max(s)}] \in M /\ seq[Max(s)] \in E
    BY <1>1, <1>i, <2>1
  <2> QED  BY <1>4, <1>i, <2>2
<1>7. Eq(it)
  BY <1>1, <1>i, <1>6
<1>8. Eq(iter)
  <2> HIDE DEF Eq
  <2> QED  BY <1>7
<1>9. FoldLeft(AddAndUnref, m, seq) = iter[1 .. L]
  BY <1>1 DEF FoldLeft, MapThenFoldSet
<1> HIDE DEF iter
<1>10. StepAlike(iter, it, L)
  BY <1>1, <1>7, <1>8 DEF StepAlike
<1>11. iter[1 .. L] = it[1 .. L]
  BY <1>1, <1>10, FoldAgree
<1>12. PICK g \in [0 .. L -> M] : /\ g[0] = m /\ g[L] = it[1 .. L]
                                  /\ \A k \in 1 .. L : g[k] = F[<< g[k - 1], seq[k] >>]
  BY <1>1, <1>3, <1>5, IteratesInSteps
<1>13. \A k \in 1 .. L : g[k] = AddAndUnref(g[k - 1], seq[k])
  <2> SUFFICES ASSUME NEW k \in 1 .. L PROVE g[k] = AddAndUnref(g[k - 1], seq[k])
    OBVIOUS
  <2>1. k - 1 \in 0 .. L
    BY <1>1
  <2>2. g[k - 1] \in M /\ seq[k] \in E
    BY <1>1, <2>1
  <2> QED  BY <1>4, <1>12, <2>2
<1> QED  BY <1>9, <1>11, <1>12, <1>13 DEF M, L, FlushRun

LEMMA FlushFold ==
    ASSUME NEW C, Closed(C), NEW N \in Nat, NEW m \in MemSet(C, N), NEW seq \in Seq(1 .. N)
    PROVE  LET r == FoldLeft(AddAndUnref, m, seq)
           IN  r \in MemSet(C, N) /\ r.table = m.table /\ r.total = m.total
<1>1. PICK g : FlushRun(C, N, m, seq, g)
  BY FlushSteps
<1>2. g[Len(seq)] \in SameCache(C, N, m)
  <2>1. Len(seq) \in 0 .. Len(seq)
    OBVIOUS
  <2> QED  BY <1>1, <2>1 DEF FlushRun
<1> QED  BY <1>1, <1>2 DEF FlushRun, SameCache

LEMMA ReplaceType ==
    ASSUME NEW C, Closed(C), NEW N \in Nat, NEW m \in MemSet(C, N), NEW e \in Slots(N)
    PROVE  LET r == ReplaceTrack(m, e)
           IN  r \in MemSet(C, N) /\ r.table = m.table /\ r.total = m.total
<1> DEFINE r == lib_remove(m, e.ti)
           a == IF r # m /\ e.next # 0 THEN lib_add_track(r, e.next) ELSE r
           u == track_info_unref(a.tis, e.ti)
           t == IF e.next = 0 THEN u ELSE track_info_unref(u, e.next)
<1>1. ReplaceTrack(m, e) = IF ~e.held THEN m ELSE [a EXCEPT !.tis = t]
  BY DEF ReplaceTrack
<1>2. r \in MemSet(C, N) /\ r.table = m.table /\ r.total = m.total
  BY RemoveTrackType
<1>3. a \in MemSet(C, N) /\ a.table = m.table /\ a.total = m.total
  <2>1. e.next # 0 => e.next \in 1 .. N
    BY DEF Slots
  <2> HIDE DEF r
  <2> QED  BY <1>2, <2>1, AddTrackType
<1> HIDE DEF a
<1>4. u \in Seq(C) /\ Len(u) = N
  <2>1. a.tis \in Seq(C) /\ Len(a.tis) = N
    BY <1>3 DEF MemSet
  <2> QED  BY <2>1, UnrefSeq
<1>5. t \in Seq(C) /\ Len(t) = N
  <2> HIDE DEF u
  <2> QED  BY <1>4, UnrefSeq
<1> HIDE DEF t
<1>6. LET x == [a EXCEPT !.tis = t] IN x \in MemSet(C, N) /\ x.table = m.table /\ x.total = m.total
  BY <1>3, <1>5, SetTisType
<1> QED  BY <1>1, <1>6

ReplaceRun(C, N, m, seq, g) ==
    /\ g \in [0 .. Len(seq) -> SameCache(C, N, m)]
    /\ g[0] = m /\ g[Len(seq)] = FoldLeft(ReplaceTrack, m, seq)
    /\ \A k \in 1 .. Len(seq) : g[k] = ReplaceTrack(g[k - 1], seq[k])

LEMMA ReplaceSteps ==
    ASSUME NEW C, Closed(C), NEW N \in Nat, NEW m \in MemSet(C, N), NEW seq \in Seq(Slots(N))
    PROVE  \E g : ReplaceRun(C, N, m, seq, g)
<1> DEFINE M == SameCache(C, N, m)
           E == Slots(N)
           L == Len(seq)
           F == [p \in M \X E |-> ReplaceTrack(p[1], p[2])]
           Eq(f) == f = [s \in SUBSET (DOMAIN seq) |->
                           IF s = {} THEN m ELSE ReplaceTrack(f[s \ {Max(s)}], seq[Max(s)])]
           iter == CHOOSE f : Eq(f)
<1>1. DOMAIN seq = 1 .. L /\ L \in Nat /\ \A i \in 1 .. L : seq[i] \in E
  OBVIOUS
<1>2. \A x \in M, i \in E : ReplaceTrack(x, i) \in M
  BY ReplaceType DEF SameCache
<1>3. m \in M
  BY DEF SameCache
<1> HIDE DEF M, E
<1>4. F \in [M \X E -> M] /\ \A x \in M, i \in E : F[<< x, i >>] = ReplaceTrack(x, i)
  BY <1>2
<1> HIDE DEF L, F
<1>5. PICK it : Iterates(it, M, m, L, seq, F)
  BY <1>1, <1>3, <1>4, FoldExists
<1>i. /\ it \in [SUBSET (1 .. L) -> M] /\ it[{}] = m
      /\ \A s \in SUBSET (1 .. L) : s # {} => it[s] = F[<< it[s \ {Max(s)}], seq[Max(s)] >>]
  BY <1>5 DEF Iterates
<1>6. \A s \in SUBSET (1 .. L) : s # {} => it[s] = ReplaceTrack(it[s \ {Max(s)}], seq[Max(s)])
  <2> SUFFICES ASSUME NEW s \in SUBSET (1 .. L), s # {}
               PROVE  it[s] = ReplaceTrack(it[s \ {Max(s)}], seq[Max(s)])
    OBVIOUS
  <2>1. Max(s) \in s /\ s \ {Max(s)} \in SUBSET (1 .. L)
    BY <1>1, MaxInside
  <2>2. it[s \ {Max(s)}] \in M /\ seq[Max(s)] \in E
    BY <1>1, <1>i, <2>1
  <2> QED  BY <1>4, <1>i, <2>2
<1>7. Eq(it)
  BY <1>1, <1>i, <1>6
<1>8. Eq(iter)
  <2> HIDE DEF Eq
  <2> QED  BY <1>7
<1>9. FoldLeft(ReplaceTrack, m, seq) = iter[1 .. L]
  BY <1>1 DEF FoldLeft, MapThenFoldSet
<1> HIDE DEF iter
<1>10. StepAlike(iter, it, L)
  BY <1>1, <1>7, <1>8 DEF StepAlike
<1>11. iter[1 .. L] = it[1 .. L]
  BY <1>1, <1>10, FoldAgree
<1>12. PICK g \in [0 .. L -> M] : /\ g[0] = m /\ g[L] = it[1 .. L]
                                  /\ \A k \in 1 .. L : g[k] = F[<< g[k - 1], seq[k] >>]
  BY <1>1, <1>3, <1>5, IteratesInSteps
<1>13. \A k \in 1 .. L : g[k] = ReplaceTrack(g[k - 1], seq[k])
  <2> SUFFICES ASSUME NEW k \in 1 .. L PROVE g[k] = ReplaceTrack(g[k - 1], seq[k])
    OBVIOUS
  <2>1. k - 1 \in 0 .. L
    BY <1>1
  <2>2. g[k - 1] \in M /\ seq[k] \in E
    BY <1>1, <2>1
  <2> QED  BY <1>4, <1>12, <2>2
<1> QED  BY <1>9, <1>11, <1>12, <1>13 DEF M, L, ReplaceRun

LEMMA ReplaceFold ==
    ASSUME NEW C, Closed(C), NEW N \in Nat, NEW m \in MemSet(C, N), NEW seq \in Seq(Slots(N))
    PROVE  LET r == FoldLeft(ReplaceTrack, m, seq)
           IN  r \in MemSet(C, N) /\ r.table = m.table /\ r.total = m.total
<1>1. PICK g : ReplaceRun(C, N, m, seq, g)
  BY ReplaceSteps
<1>2. g[Len(seq)] \in SameCache(C, N, m)
  <2>1. Len(seq) \in 0 .. Len(seq)
    OBVIOUS
  <2> QED  BY <1>1, <2>1 DEF ReplaceRun
<1> QED  BY <1>1, <1>2 DEF ReplaceRun, SameCache

LoseRun(C, m, seq, g) ==
    /\ g \in [0 .. Len(seq) -> SameLength(C, m)]
    /\ g[0] = m /\ g[Len(seq)] = FoldLeft(LoseAll, m, seq)
    /\ \A k \in 1 .. Len(seq) : g[k] = LoseAll(g[k - 1], seq[k])

LEMMA LoseSteps ==
    ASSUME NEW C, Closed(C), NEW m \in Seq(C), NEW E, NEW seq \in Seq(E)
    PROVE  \E g : LoseRun(C, m, seq, g)
<1> DEFINE M == SameLength(C, m)
           L == Len(seq)
           F == [p \in M \X E |-> LoseAll(p[1], p[2])]
           Eq(f) == f = [s \in SUBSET (DOMAIN seq) |->
                           IF s = {} THEN m ELSE LoseAll(f[s \ {Max(s)}], seq[Max(s)])]
           iter == CHOOSE f : Eq(f)
<1>1. DOMAIN seq = 1 .. L /\ L \in Nat /\ \A i \in 1 .. L : seq[i] \in E
  OBVIOUS
<1>2. \A x \in M, i \in E : LoseAll(x, i) \in M
  BY AllSeq DEF SameLength
<1>3. m \in M
  BY DEF SameLength
<1> HIDE DEF M
<1>4. F \in [M \X E -> M] /\ \A x \in M, i \in E : F[<< x, i >>] = LoseAll(x, i)
  BY <1>2
<1> HIDE DEF L, F
<1>5. PICK it : Iterates(it, M, m, L, seq, F)
  BY <1>1, <1>3, <1>4, FoldExists
<1>i. /\ it \in [SUBSET (1 .. L) -> M] /\ it[{}] = m
      /\ \A s \in SUBSET (1 .. L) : s # {} => it[s] = F[<< it[s \ {Max(s)}], seq[Max(s)] >>]
  BY <1>5 DEF Iterates
<1>6. \A s \in SUBSET (1 .. L) : s # {} => it[s] = LoseAll(it[s \ {Max(s)}], seq[Max(s)])
  <2> SUFFICES ASSUME NEW s \in SUBSET (1 .. L), s # {}
               PROVE  it[s] = LoseAll(it[s \ {Max(s)}], seq[Max(s)])
    OBVIOUS
  <2>1. Max(s) \in s /\ s \ {Max(s)} \in SUBSET (1 .. L)
    BY <1>1, MaxInside
  <2>2. it[s \ {Max(s)}] \in M /\ seq[Max(s)] \in E
    BY <1>1, <1>i, <2>1
  <2> QED  BY <1>4, <1>i, <2>2
<1>7. Eq(it)
  BY <1>1, <1>i, <1>6
<1>8. Eq(iter)
  <2> HIDE DEF Eq
  <2> QED  BY <1>7
<1>9. FoldLeft(LoseAll, m, seq) = iter[1 .. L]
  BY <1>1 DEF FoldLeft, MapThenFoldSet
<1> HIDE DEF iter
<1>10. StepAlike(iter, it, L)
  BY <1>1, <1>7, <1>8 DEF StepAlike
<1>11. iter[1 .. L] = it[1 .. L]
  BY <1>1, <1>10, FoldAgree
<1>12. PICK g \in [0 .. L -> M] : /\ g[0] = m /\ g[L] = it[1 .. L]
                                  /\ \A k \in 1 .. L : g[k] = F[<< g[k - 1], seq[k] >>]
  BY <1>1, <1>3, <1>5, IteratesInSteps
<1>13. \A k \in 1 .. L : g[k] = LoseAll(g[k - 1], seq[k])
  <2> SUFFICES ASSUME NEW k \in 1 .. L PROVE g[k] = LoseAll(g[k - 1], seq[k])
    OBVIOUS
  <2>1. k - 1 \in 0 .. L
    BY <1>1
  <2>2. g[k - 1] \in M /\ seq[k] \in E
    BY <1>1, <2>1
  <2> QED  BY <1>4, <1>12, <2>2
<1> QED  BY <1>9, <1>11, <1>12, <1>13 DEF M, L, LoseRun

LEMMA LoseFold ==
    ASSUME NEW C, Closed(C), NEW m \in Seq(C), NEW E, NEW seq \in Seq(E)
    PROVE  LET r == FoldLeft(LoseAll, m, seq)
           IN  r \in Seq(C) /\ Len(r) = Len(m)
<1>1. PICK g : LoseRun(C, m, seq, g)
  BY LoseSteps
<1>2. g[Len(seq)] \in SameLength(C, m)
  <2>1. Len(seq) \in 0 .. Len(seq)
    OBVIOUS
  <2> QED  BY <1>1, <2>1 DEF LoseRun
<1> QED  BY <1>1, <1>2 DEF LoseRun, SameLength

-----------------------------------------------------------------------------
(* The inductive invariant                                                 *)

(* No mtime is from the future, and one that is the file's has its tags.   *)
FreshInfo(ti) ==
    /\ ti.mtime <= clock + 1
    /\ ti.mtime # 0 /\ ti.mtime = disk[ti.file] => ti.tags = ti.mtime \/ ti.raced
FreshInfos == {ti \in Infos : FreshInfo(ti)}

AddJobs(N) ==
    [kind : {"add"}, step : {"get"}, files : Seq(Names), tags : Nat, ti_buffer : Seq(1 .. N)]
Readings(N) ==
    {j \in [kind : {"add"}, step : {"stat"}, files : Seq(Names), tags : Nat, ti_buffer : Seq(1 .. N)] :
        j.files # << >>}
UpdateJobs(N) ==
    {j \in [kind : {"update"}, step : {"stat", "lib", "cache"}, tis : Seq(1 .. N), dead : SUBSET (1 .. N)] :
        j.tis # << >>}
StartJobs == {[kind |-> "refresh", step |-> "start"]}
Jobs(N) == AddJobs(N) \cup UpdateJobs(N) \cup StartJobs

(* The entries a refresh has not seen yet are there.                       *)
Refreshes(N) ==
    [kind : {"refresh"}, step : {"stat", "read"}, n : Nat, mtime : Nat, arr : Seq(Slots(N))]
Refreshing ==
    /\ total <= Len(job.arr) /\ job.n >= 1 /\ job.mtime <= clock + 1
    /\ job.step = "read" => job.n <= Len(job.arr)
    /\ \A k \in DOMAIN job.arr : k >= job.n => job.arr[k].ti \in table
    /\ \A j, k \in DOMAIN job.arr : j >= job.n /\ k >= job.n /\ job.arr[j].ti = job.arr[k].ti => j = k

Uis == {NoUi} \cup [step : {"stat"}, file : Names, tags : Nat]

CacheFiles ==
    {c \in [whole : Flags, full : Flags, entries : SUBSET [file : Names, mtime : Nat, tags : Nat, raced : Flags]] :
        IsFiniteSet(c.entries) /\ (\A e \in c.entries : FreshInfo(e)) /\ (c.whole \/ c.full)}

DiskOK == clock \in Nat /\ disk \in [Names -> Nat] /\ \A f \in Names : disk[f] <= clock + 1
MemOK == Mem \in MemSet(FreshInfos, Len(tis)) /\ total = Cardinality(table)
JobOK ==
    /\ queue \in Seq(Jobs(Len(tis)))
    /\ job \in {Idle} \cup Jobs(Len(tis)) \cup Readings(Len(tis)) \cup Refreshes(Len(tis))
    /\ job \in Readings(Len(tis)) \cup Refreshes(Len(tis)) => lock = "worker"
    /\ job \in Refreshes(Len(tis)) => Refreshing
UiOK == shown \subseteq Names /\ player \in 0 .. Len(tis) /\ ui \in Uis /\ (ui # NoUi => lock = "ui")
FilesOK == cachefile \in CacheFiles /\ tmpfile \in CacheFiles /\ libpl \subseteq Names /\ IsFiniteSet(libpl)
CacheInv == DiskOK /\ MemOK /\ JobOK /\ UiOK /\ FilesOK

-----------------------------------------------------------------------------
(* Facts about its parts                                                   *)

LEMMA FreshClosed ==
    ASSUME DiskOK
    PROVE  Closed(FreshInfos)
<1>1. Freed \in FreshInfos
  <2>1. Freed = [file |-> Files[1], mtime |-> 0, tags |-> 0, ref |-> 0, raced |-> FALSE, lost |-> 0]
    BY DEF Freed, TrackInfo
  <2>2. Freed \in Infos
    BY <2>1, FirstFile DEF Infos, Flags
  <2>3. Freed.mtime = 0
    BY <2>1
  <2> QED  BY <2>2, <2>3 DEF FreshInfos, FreshInfo, DiskOK
<1>2. ASSUME NEW ti \in FreshInfos, NEW r \in Int PROVE [ti EXCEPT !.ref = r] \in FreshInfos
  <2> DEFINE x == [ti EXCEPT !.ref = r]
  <2>1. x \in Infos /\ x.mtime = ti.mtime /\ x.file = ti.file /\ x.tags = ti.tags
    BY DEF FreshInfos, Infos
  <2>2. x.raced = ti.raced
    BY DEF FreshInfos, Infos
  <2>9. x \in FreshInfos
    <3> HIDE DEF x
    <3> QED  BY <2>1, <2>2 DEF FreshInfos, FreshInfo
  <2> QED  BY <2>9
<1>3. ASSUME NEW ti \in FreshInfos, NEW r \in Nat PROVE [ti EXCEPT !.lost = r] \in FreshInfos
  <2> DEFINE x == [ti EXCEPT !.lost = r]
  <2>1. x \in Infos /\ x.mtime = ti.mtime /\ x.file = ti.file /\ x.tags = ti.tags
    BY DEF FreshInfos, Infos
  <2>2. x.raced = ti.raced
    BY DEF FreshInfos, Infos
  <2>9. x \in FreshInfos
    <3> HIDE DEF x
    <3> QED  BY <2>1, <2>2 DEF FreshInfos, FreshInfo
  <2> QED  BY <2>9
<1>4. FreshInfos \subseteq Infos
  BY DEF FreshInfos
<1> QED  BY <1>1, <1>2, <1>3, <1>4 DEF Closed

(* What cache_get_ti makes is fresh, or has raced.                         *)
LEMMA NewFresh ==
    ASSUME NEW f \in Names, NEW m \in Nat, m <= clock + 1, NEW g \in Nat, NEW r \in Int
    PROVE  TrackInfo(f, m, g, r) \in FreshInfos
<1> DEFINE x == TrackInfo(f, m, g, r)
<1>1. CASE m = g
  <2>1. x = [file |-> f, mtime |-> m, tags |-> g, ref |-> r, raced |-> FALSE, lost |-> 0]
    BY <1>1 DEF TrackInfo
  <2>2. x \in Infos
    BY <2>1 DEF Infos, Flags
  <2>3. x.mtime = m /\ x.tags = g
    BY <2>1
  <2>9. x \in FreshInfos
    <3> HIDE DEF x
    <3> QED  BY <1>1, <2>2, <2>3 DEF FreshInfos, FreshInfo
  <2> QED  BY <2>9
<1>2. CASE m # g
  <2>1. x = [file |-> f, mtime |-> m, tags |-> g, ref |-> r, raced |-> TRUE, lost |-> 0]
    BY <1>2 DEF TrackInfo
  <2>2. x \in Infos
    BY <2>1 DEF Infos, Flags
  <2>3. x.mtime = m /\ x.tags = g /\ x.raced
    BY <2>1
  <2>9. x \in FreshInfos
    <3> HIDE DEF x
    <3> QED  BY <2>2, <2>3 DEF FreshInfos, FreshInfo
  <2> QED  BY <2>9
<1> QED  BY <1>1, <1>2

(* What cache_refresh makes: the mtime from before, the tags from after.   *)
LEMMA RefreshedFresh ==
    ASSUME DiskOK, NEW f \in Names, job.mtime \in Nat, job.mtime <= clock + 1, NEW r \in Int
    PROVE  [Refreshed(f) EXCEPT !.ref = r] \in FreshInfos
<1> DEFINE y == TrackInfo(f, job.mtime, disk[f], 1)
           z == [y EXCEPT !.raced = FALSE]
           x == [z EXCEPT !.ref = r]
<1>1. y \in Infos /\ y.mtime = job.mtime /\ y.tags = disk[f] /\ y.file = f
  <2>1. disk[f] \in Nat /\ 1 \in Int
    BY DEF DiskOK
  <2>2. y \in Infos
    BY <2>1, NewFresh DEF FreshInfos
  <2> QED  BY <2>2 DEF TrackInfo
<1> HIDE DEF y
<1>2. z \in Infos /\ z.mtime = job.mtime /\ z.tags = disk[f] /\ z.file = f
  BY <1>1, FlagsHas DEF Infos
<1> HIDE DEF z
<1>3. x \in Infos /\ x.mtime = job.mtime /\ x.tags = disk[f] /\ x.file = f
  BY <1>2 DEF Infos
<1> HIDE DEF x
<1>4. x \in FreshInfos
  BY <1>3 DEF FreshInfos, FreshInfo
<1> QED  BY <1>4 DEF Refreshed, x, y, z

(* read_cache has what cache_close wrote.                                  *)
LEMMA ReadFresh ==
    ASSUME NEW e \in [file : Names, mtime : Nat, tags : Nat, raced : Flags], FreshInfo(e)
    PROVE  [TrackInfo(e.file, e.mtime, e.tags, 1) EXCEPT !.raced = e.raced] \in FreshInfos
<1> DEFINE x == [TrackInfo(e.file, e.mtime, e.tags, 1) EXCEPT !.raced = e.raced]
<1>1. x = [file |-> e.file, mtime |-> e.mtime, tags |-> e.tags, ref |-> 1, raced |-> e.raced, lost |-> 0]
  BY DEF TrackInfo
<1>2. x \in Infos
  BY <1>1 DEF Infos
<1>3. x.mtime = e.mtime /\ x.tags = e.tags /\ x.file = e.file
  BY <1>1
<1>4. x.raced = e.raced
  BY <1>1
<1>9. x \in FreshInfos
  <2> HIDE DEF x
  <2> QED  BY <1>2, <1>3, <1>4 DEF FreshInfos, FreshInfo
<1> QED  BY <1>9

LEMMA SetToSeqType ==
    ASSUME NEW S, IsFiniteSet(S)
    PROVE  /\ SetToSeq(S) \in Seq(S) /\ Len(SetToSeq(S)) = Cardinality(S)
           /\ Cardinality(S) \in Nat /\ (S # {} => SetToSeq(S) # << >>)
<1> DEFINE n == Cardinality(S)
<1>1. n \in Nat /\ ExistsBijection(1 .. n, S)
  BY FS_CardinalityType
<1>2. \E f \in [1 .. n -> S] : IsInjective(f)
  BY <1>1 DEF ExistsBijection, Bijection, Injection, IsInjective
<1> HIDE DEF n
<1>3. SetToSeq(S) \in [1 .. n -> S]
  BY <1>2 DEF SetToSeq, n
<1>4. SetToSeq(S) \in Seq(S) /\ Len(SetToSeq(S)) = n
  BY <1>1, <1>3
<1>5. S # {} => n # 0
  BY FS_EmptySet DEF n
<1> QED  BY <1>1, <1>4, <1>5 DEF n

-----------------------------------------------------------------------------
(* What steps have in common                                               *)

LEMMA JobsGrow ==
    ASSUME NEW N \in Nat, NEW K \in Nat, N <= K
    PROVE  /\ AddJobs(N) \subseteq AddJobs(K) /\ UpdateJobs(N) \subseteq UpdateJobs(K)
           /\ Jobs(N) \subseteq Jobs(K) /\ Seq(Jobs(N)) \subseteq Seq(Jobs(K))
<1>1. 1 .. N \subseteq 1 .. K
  OBVIOUS
<1>2. Seq(1 .. N) \subseteq Seq(1 .. K)
  BY <1>1
<1>3. AddJobs(N) \subseteq AddJobs(K)
  BY <1>2 DEF AddJobs
<1>4. UpdateJobs(N) \subseteq UpdateJobs(K)
  <2>1. SUBSET (1 .. N) \subseteq SUBSET (1 .. K)
    BY <1>1
  <2> QED  BY <1>2, <2>1 DEF UpdateJobs
<1>5. Jobs(N) \subseteq Jobs(K)
  BY <1>3, <1>4 DEF Jobs
<1>6. Seq(Jobs(N)) \subseteq Seq(Jobs(K))
  BY <1>5
<1> QED  BY <1>3, <1>4, <1>5, <1>6

LEMMA JobKinds ==
    ASSUME NEW N \in Nat, NEW j \in {Idle} \cup Jobs(N) \cup Readings(N) \cup Refreshes(N)
    PROVE  /\ j.kind = "add" /\ j.step = "get" => j \in AddJobs(N)
           /\ j.kind = "add" /\ j.step = "stat" => j \in Readings(N)
           /\ j.kind = "update" => j \in UpdateJobs(N)
           /\ j.kind = "refresh" /\ j.step # "start" => j \in Refreshes(N)
           /\ j \in {Idle} \cup Jobs(N) => j \notin Readings(N) /\ j \notin Refreshes(N)
           /\ j \in Readings(N) => j \notin Refreshes(N)
<1>1. j = Idle => j.kind = "none"
  BY DEF Idle
<1>2. j \in AddJobs(N) => j.kind = "add" /\ j.step = "get"
  BY DEF AddJobs
<1>3. j \in UpdateJobs(N) => j.kind = "update"
  BY DEF UpdateJobs
<1>4. j \in StartJobs => j.kind = "refresh" /\ j.step = "start"
  BY DEF StartJobs
<1>5. j \in Refreshes(N) => j.kind = "refresh" /\ j.step \in {"stat", "read"}
  BY DEF Refreshes
<1>6. j \in Readings(N) => j.kind = "add" /\ j.step = "stat"
  BY DEF Readings
<1> QED  BY <1>1, <1>2, <1>3, <1>4, <1>5, <1>6 DEF Jobs

LEMMA MemFacts ==
    ASSUME CacheInv
    PROVE  /\ Closed(FreshInfos) /\ Len(tis) \in Nat /\ Mem \in MemSet(FreshInfos, Len(tis))
           /\ tis \in Seq(FreshInfos) /\ table \subseteq 1 .. Len(tis) /\ IsFiniteSet(table)
           /\ hash \subseteq 1 .. Len(tis) /\ view \subseteq 1 .. Len(tis) /\ IsFiniteSet(hash)
           /\ total \in Nat /\ changed \in Flags
           /\ \A i \in 1 .. Len(tis) : tis[i] \in FreshInfos /\ tis[i].file \in Names /\ tis[i].mtime \in Nat
<1>1. Closed(FreshInfos)
  BY FreshClosed DEF CacheInv
<1>2. Mem \in MemSet(FreshInfos, Len(tis)) /\ total = Cardinality(table)
  BY DEF CacheInv, MemOK
<1>3. /\ tis \in Seq(FreshInfos) /\ table \subseteq 1 .. Len(tis) /\ changed \in Flags
      /\ hash \subseteq 1 .. Len(tis) /\ view \subseteq 1 .. Len(tis)
  BY <1>2 DEF MemSet, Mem
<1>4. Len(tis) \in Nat
  BY <1>3
<1>5. IsFiniteSet(1 .. Len(tis))
  BY <1>4, FS_Interval
<1>6. IsFiniteSet(table) /\ IsFiniteSet(hash)
  BY <1>3, <1>5, FS_Subset
<1>7. total \in Nat
  BY <1>2, <1>6, FS_CardinalityType
<1>8. \A i \in 1 .. Len(tis) : tis[i] \in FreshInfos
  BY <1>3
<1>9. \A ti \in FreshInfos : ti.file \in Names /\ ti.mtime \in Nat
  BY DEF FreshInfos, Infos
<1> QED  BY <1>1, <1>2, <1>3, <1>4, <1>6, <1>7, <1>8, <1>9

LEMMA DiskSame ==
    ASSUME CacheInv, disk' = disk, clock' = clock
    PROVE  DiskOK' /\ FreshInfos' = FreshInfos /\ CacheFiles' = CacheFiles
  BY DEF CacheInv, DiskOK, FreshInfos, FreshInfo, CacheFiles

LEMMA MemStep ==
    ASSUME CacheInv, disk' = disk, clock' = clock, NEW K \in Nat, NEW m \in MemSet(FreshInfos, K),
           m.total = Cardinality(m.table), SetMem(m)
    PROVE  /\ DiskOK' /\ MemOK' /\ Len(tis') = K /\ table' = m.table /\ total' = m.total
           /\ hash' = m.hash /\ view' = m.view
<1>1. DiskOK' /\ FreshInfos' = FreshInfos
  BY DiskSame
<1>2. /\ tis' = m.tis /\ table' = m.table /\ total' = m.total /\ changed' = m.changed
      /\ hash' = m.hash /\ view' = m.view
  BY DEF SetMem
<1>3. Len(m.tis) = K
  BY DEF MemSet
<1>4. m = [tis |-> m.tis, table |-> m.table, total |-> m.total, changed |-> m.changed,
           hash |-> m.hash, view |-> m.view]
  BY DEF MemSet
<1>5. Mem' = m
  BY <1>2, <1>4 DEF Mem
<1> QED  BY <1>1, <1>2, <1>3, <1>5 DEF MemOK

LEMMA FilesSame ==
    ASSUME CacheInv, disk' = disk, clock' = clock, UNCHANGED << cachefile, tmpfile, libpl >>
    PROVE  FilesOK'
<1>1. CacheFiles' = CacheFiles
  BY DiskSame
<1> QED  BY <1>1 DEF CacheInv, FilesOK

LEMMA JobSame ==
    ASSUME CacheInv, UNCHANGED << clock, job >>, table' = table, total' = total,
           lock' = lock \/ lock = "none", Len(tis') = Len(tis), queue' \in Seq(Jobs(Len(tis)))
    PROVE  JobOK'
<1>1. JobOK
  BY DEF CacheInv
<1>2. Refreshing => Refreshing'
  BY DEF Refreshing
<1> QED  BY <1>1, <1>2 DEF JobOK

LEMMA JobPlain ==
    ASSUME NEW K \in Nat, Len(tis') = K, queue' \in Seq(Jobs(K)), job' \in {Idle} \cup Jobs(K)
    PROVE  JobOK'
<1>1. job' \in {Idle} \cup Jobs(K) \cup Readings(K) \cup Refreshes(K)
  OBVIOUS
<1>2. job' \notin Readings(K) /\ job' \notin Refreshes(K)
  BY <1>1, JobKinds
<1> QED  BY <1>1, <1>2 DEF JobOK

(* cache_mutex is not the worker's, and it has no file open.               *)
LEMMA JobFree ==
    ASSUME CacheInv, lock # "worker"
    PROVE  job \in {Idle} \cup Jobs(Len(tis))
  BY DEF CacheInv, JobOK

LEMMA TisStep ==
    ASSUME CacheInv, disk' = disk, clock' = clock, UNCHANGED << table, total, changed >>,
           tis' \in Seq(FreshInfos), Len(tis') = Len(tis),
           hash' \subseteq 1 .. Len(tis), view' \subseteq 1 .. Len(tis)
    PROVE  DiskOK' /\ MemOK'
<1>1. DiskOK' /\ FreshInfos' = FreshInfos
  BY DiskSame
<1>2. total' = Cardinality(table)'
  BY DEF CacheInv, MemOK
<1>3. total' \in Int /\ table' \subseteq 1 .. Len(tis) /\ changed' \in Flags
  BY MemFacts
<1>4. Mem' \in MemSet(FreshInfos, Len(tis))
  BY <1>3 DEF Mem, MemSet
<1> QED  BY <1>1, <1>2, <1>4 DEF MemOK

LEMMA UiSame ==
    ASSUME CacheInv, UNCHANGED << shown, player, ui >>, Len(tis) <= Len(tis'), Len(tis) \in Nat,
           Len(tis') \in Nat, lock' = lock \/ ui = NoUi
    PROVE  UiOK'
  BY DEF CacheInv, UiOK, Uis

-----------------------------------------------------------------------------
(* One lemma for each action                                               *)

LEMMA ChangedStep ==
    ASSUME CacheInv, NEW f \in Names, NEW mtime \in {0, clock + 2}, Changed(f, mtime)
    PROVE  CacheInv'
<1>1. /\ clock \in Nat /\ clock' = clock + 1 /\ disk \in [Names -> Nat] /\ disk' = [disk EXCEPT ![f] = mtime]
      /\ \A g \in Names : disk[g] <= clock + 1
  BY DEF Changed, CacheInv, DiskOK
<1>2. UNCHANGED << tis, table, total, changed, hash, view, player, shown, queue, job, lock, ui, cachefile, tmpfile, libpl >>
  BY DEF Changed, memory
<1>3. DiskOK'
  BY <1>1 DEF DiskOK
<1>4. ASSUME NEW ti, ti.file \in Names, ti.mtime \in Nat, FreshInfo(ti)
      PROVE  FreshInfo(ti)'
  <2>1. ti.mtime <= clock + 1
    BY <1>4 DEF FreshInfo
  <2>2. ti.file = f => ti.mtime # disk'[ti.file] \/ ti.mtime = 0
    BY <1>1, <1>4, <2>1
  <2>3. ti.file # f => disk'[ti.file] = disk[ti.file]
    BY <1>1, <1>4
  <2> QED  BY <1>1, <1>4, <2>1, <2>2, <2>3 DEF FreshInfo
<1>5. FreshInfos \subseteq FreshInfos'
  <2>1. \A ti \in Infos : ti.file \in Names /\ ti.mtime \in Nat
    BY DEF Infos
  <2> QED  BY <1>4, <2>1 DEF FreshInfos
<1>6. MemOK'
  <2>1. tis' \in Seq(FreshInfos')
    BY <1>2, <1>5, MemFacts
  <2>2. /\ Len(tis') = Len(tis) /\ table' \subseteq 1 .. Len(tis') /\ hash' \subseteq 1 .. Len(tis')
        /\ view' \subseteq 1 .. Len(tis') /\ total' \in Int /\ changed' \in Flags
    BY <1>2, MemFacts
  <2>3. Mem' \in MemSet(FreshInfos', Len(tis'))
    BY <2>1, <2>2 DEF Mem, MemSet
  <2> QED  BY <1>2, <2>3 DEF MemOK, CacheInv
<1>7. JobOK'
  <2>1. JobOK
    BY DEF CacheInv
  <2>2. job \in Refreshes(Len(tis)) /\ Refreshing => Refreshing'
    BY <1>1, <1>2 DEF Refreshing, Refreshes
  <2> QED  BY <1>2, <2>1, <2>2 DEF JobOK
<1>8. UiOK'
  BY <1>2 DEF CacheInv, UiOK, Uis
<1>9. FilesOK'
  <2>1. \A c \in CacheFiles : \A e \in c.entries : FreshInfo(e) /\ e.file \in Names /\ e.mtime \in Nat
    BY DEF CacheFiles
  <2>2. \A c \in CacheFiles : \A e \in c.entries : FreshInfo(e)'
    BY <1>4, <2>1
  <2>3. CacheFiles \subseteq CacheFiles'
    BY <2>2 DEF CacheFiles
  <2> QED  BY <1>2, <2>3 DEF CacheInv, FilesOK
<1> QED  BY <1>3, <1>6, <1>7, <1>8, <1>9 DEF CacheInv

LEMMA TakeJobStep ==
    ASSUME CacheInv, TakeJob
    PROVE  CacheInv'
<1>1. UNCHANGED << tis, table, total, changed, hash, view, player, shown, lock, ui, disk, clock, cachefile, tmpfile, libpl >>
  BY DEF TakeJob, memory, KeepFiles, KeepDisk
<1>2. queue \in Seq(Jobs(Len(tis))) /\ queue # << >> /\ job' = Head(queue) /\ queue' = Tail(queue)
  BY DEF TakeJob, CacheInv, JobOK
<1>3. queue' \in Seq(Jobs(Len(tis))) /\ job' \in Jobs(Len(tis))
  BY <1>2
<1>4. JobOK'
  BY <1>1, <1>3, MemFacts, JobPlain
<1>5. DiskOK' /\ MemOK'
  BY <1>1, MemFacts, TisStep
<1> QED  BY <1>1, <1>4, <1>5, FilesSame, UiSame, MemFacts DEF CacheInv

LEMMA AddGetStep ==
    ASSUME CacheInv, AddGet
    PROVE  CacheInv'
<1> DEFINE f == Head(job.files)
           N == Len(tis)
<1>1. UNCHANGED << table, total, changed, hash, view, player, shown, queue, ui, disk, clock, cachefile, tmpfile, libpl >>
  BY DEF AddGet, KeepFiles, KeepDisk
<1>2. job \in AddJobs(N) /\ job.files # << >> /\ lock = "none" /\ N \in Nat
  BY MemFacts, JobKinds DEF AddGet, CacheInv, JobOK
<1>3. f \in Names /\ Tail(job.files) \in Seq(Names) /\ job.files \in Seq(Names)
  BY <1>2 DEF AddJobs
<1>4. queue \in Seq(Jobs(N)) /\ ui = NoUi
  BY <1>2 DEF CacheInv, JobOK, UiOK
<1>5. CASE \E i \in lookup_cache_entry(f) :
             /\ job' = [job EXCEPT !.files = Tail(@), !.ti_buffer = Append(@, i)]
             /\ tis' = track_info_ref(tis, i) /\ UNCHANGED lock
  <2>1. PICK i \in lookup_cache_entry(f) :
             /\ job' = [job EXCEPT !.files = Tail(@), !.ti_buffer = Append(@, i)]
             /\ tis' = track_info_ref(tis, i) /\ UNCHANGED lock
    BY <1>5
  <2>2. i \in 1 .. N
    BY MemFacts DEF lookup_cache_entry
  <2>3. tis' \in Seq(FreshInfos) /\ Len(tis') = N
    BY <2>1, MemFacts, RefSeq
  <2>4. job' \in AddJobs(N)
    <3> DEFINE b == Append(job.ti_buffer, i)
    <3>1. b \in Seq(1 .. N)
      BY <1>2, <2>2 DEF AddJobs
    <3>2. job' = [job EXCEPT !.files = Tail(@), !.ti_buffer = b]
      BY <2>1
    <3> HIDE DEF b
    <3> QED  BY <1>2, <1>3, <3>1, <3>2 DEF AddJobs
  <2>5. JobOK'
    BY <1>1, <1>2, <1>4, <2>3, <2>4, JobPlain DEF Jobs
  <2> QED  BY <1>1, <1>2, <1>4, <2>1, <2>3, <2>5, TisStep, MemFacts, FilesSame, UiSame DEF CacheInv
<1>6. CASE job' = [job EXCEPT !.files = Tail(@)] /\ UNCHANGED << tis, lock >>
  <2>1. job' \in AddJobs(N)
    BY <1>2, <1>3, <1>6 DEF AddJobs
  <2>2. JobOK'
    BY <1>1, <1>2, <1>4, <1>6, <2>1, JobPlain DEF Jobs
  <2> QED  BY <1>1, <1>2, <1>4, <1>6, <2>2, TisStep, MemFacts, FilesSame, UiSame DEF CacheInv
<1>7. CASE job' = [job EXCEPT !.step = "stat", !.tags = disk[f]] /\ lock' = "worker" /\ UNCHANGED tis
  <2>1. disk[f] \in Nat
    BY <1>3 DEF CacheInv, DiskOK
  <2>2. job' \in Readings(N)
    BY <1>2, <1>7, <2>1 DEF AddJobs, Readings
  <2>3. job' \notin Refreshes(N)
    BY <1>2, <2>2, JobKinds
  <2>4. JobOK'
    BY <1>1, <1>4, <1>7, <2>2, <2>3 DEF JobOK
  <2> QED  BY <1>1, <1>2, <1>4, <1>7, <2>4, TisStep, MemFacts, FilesSame, UiSame DEF CacheInv
<1> QED  BY <1>5, <1>6, <1>7 DEF AddGet

LEMMA AddStatStep ==
    ASSUME CacheInv, AddStat
    PROVE  CacheInv'
<1> DEFINE f == Head(job.files)
           N == Len(tis)
           ti == TrackInfo(f, disk[f], job.tags, 2)
           m == AddNew(Mem, ti)
<1>1. UNCHANGED << player, shown, queue, ui, disk, clock, cachefile, tmpfile, libpl >> /\ lock' = "none"
  BY DEF AddStat, KeepFiles, KeepDisk
<1>2. job \in Readings(N) /\ N \in Nat
  BY MemFacts, JobKinds DEF AddStat, CacheInv, JobOK
<1>3. /\ f \in Names /\ Tail(job.files) \in Seq(Names) /\ job.tags \in Nat /\ job.ti_buffer \in Seq(1 .. N)
      /\ Tail(job.files) = Tail(job.files)
  BY <1>2 DEF Readings
<1>4. queue \in Seq(Jobs(N)) /\ ui = NoUi
  BY <1>2 DEF CacheInv, JobOK, UiOK
<1>5. ti \in FreshInfos
  <2>1. disk[f] \in Nat /\ disk[f] <= clock + 1 /\ 2 \in Int
    BY <1>3 DEF CacheInv, DiskOK
  <2> QED  BY <1>3, <2>1, NewFresh
<1> HIDE DEF ti
<1>6. m \in MemSet(FreshInfos, N + 1) /\ m.table = table \cup {N + 1} /\ m.total = total + 1
  <2>1. Mem.table = table /\ Mem.total = total
    BY DEF Mem
  <2> QED  BY <1>2, <1>5, <2>1, MemFacts, AddNewType
<1>7. m.total = Cardinality(m.table)
  <2>1. N + 1 \notin table
    BY <1>2, MemFacts
  <2>2. total = Cardinality(table)
    BY DEF CacheInv, MemOK
  <2> QED  BY <1>6, <2>1, <2>2, MemFacts, FS_AddElement
<1>8. SetMem(m)
  BY DEF AddStat, ti
<1> HIDE DEF m
<1>9. DiskOK' /\ MemOK' /\ Len(tis') = N + 1
  <2>1. N + 1 \in Nat
    BY <1>2
  <2> QED  BY <1>1, <1>6, <1>7, <1>8, <2>1, MemStep
<1>10. job' \in AddJobs(N + 1)
  <2> DEFINE b == Append(job.ti_buffer, N + 1)
  <2>1. b \in Seq(1 .. N + 1)
    <3>1. job.ti_buffer \in Seq(1 .. N + 1) /\ N + 1 \in 1 .. N + 1
      <4>1. 1 .. N \subseteq 1 .. N + 1 /\ N + 1 \in 1 .. N + 1
        BY <1>2
      <4> QED  BY <1>3, <4>1
    <3> QED  BY <3>1
  <2>2. job' = [job EXCEPT !.step = "get", !.tags = 0, !.files = Tail(@), !.ti_buffer = b]
    BY DEF AddStat, Fresh
  <2> HIDE DEF b
  <2> QED  BY <1>2, <1>3, <2>1, <2>2 DEF AddJobs, Readings
<1>11. queue' \in Seq(Jobs(N + 1))
  BY <1>1, <1>2, <1>4, JobsGrow
<1>12. JobOK'
  BY <1>2, <1>9, <1>10, <1>11, JobPlain DEF Jobs
<1> QED  BY <1>1, <1>2, <1>4, <1>9, <1>12, FilesSame, UiSame DEF CacheInv

LEMMA FlushStep ==
    ASSUME CacheInv, flush_ti_buffer
    PROVE  CacheInv'
<1> DEFINE N == Len(tis)
           m == FoldLeft(AddAndUnref, Mem, job.ti_buffer)
<1>1. UNCHANGED << player, shown, queue, lock, ui, disk, clock, cachefile, tmpfile, libpl >> /\ job' = Idle
  BY DEF flush_ti_buffer, KeepFiles, KeepDisk, JobDone
<1>2. job \in AddJobs(N) /\ N \in Nat
  BY MemFacts, JobKinds DEF flush_ti_buffer, CacheInv, JobOK
<1>3. job.ti_buffer \in Seq(1 .. N)
  BY <1>2 DEF AddJobs
<1>4. m \in MemSet(FreshInfos, N) /\ m.table = table /\ m.total = total
  <2>1. Mem.table = table /\ Mem.total = total
    BY DEF Mem
  <2> QED  BY <1>2, <1>3, <2>1, MemFacts, FlushFold
<1>5. SetMem(m)
  BY DEF flush_ti_buffer
<1> HIDE DEF m
<1>6. m.total = Cardinality(m.table)
  BY <1>4 DEF CacheInv, MemOK
<1>7. DiskOK' /\ MemOK' /\ Len(tis') = N
  BY <1>1, <1>2, <1>4, <1>5, <1>6, MemStep
<1>8. queue' \in Seq(Jobs(N))
  BY <1>1 DEF CacheInv, JobOK
<1>9. JobOK'
  BY <1>1, <1>2, <1>7, <1>8, JobPlain
<1> QED  BY <1>1, <1>2, <1>7, <1>9, FilesSame, UiSame DEF CacheInv

LEMMA TailSeq ==
    ASSUME NEW S, NEW s \in Seq(S), s # << >>, Len(s) # 1
    PROVE  Tail(s) \in Seq(S) /\ Tail(s) # << >>
<1>1. Len(s) \in Nat /\ Len(s) # 0
  OBVIOUS
<1>2. \A n \in Nat : n # 0 /\ n # 1 => n > 1
  OBVIOUS
<1>3. Tail(s) \in Seq(S) /\ Len(Tail(s)) = Len(s) - 1
  OBVIOUS
<1>4. Len(Tail(s)) # 0
  BY <1>1, <1>2, <1>3
<1> QED  BY <1>3, <1>4

(* The next track of an update job, or none.                               *)
LEMMA NextTrackType ==
    ASSUME NEW N \in Nat, job \in UpdateJobs(N), NextTrack
    PROVE  job' \in {Idle} \cup Jobs(N)
<1>1. job.tis \in Seq(1 .. N) /\ job.tis # << >>
  BY DEF UpdateJobs
<1>2. CASE Len(job.tis) = 1
  BY <1>2 DEF NextTrack, JobDone
<1>3. CASE Len(job.tis) # 1
  <2>1. Tail(job.tis) \in Seq(1 .. N) /\ Tail(job.tis) # << >>
    BY <1>1, <1>3, TailSeq
  <2>2. job' = [job EXCEPT !.tis = Tail(@), !.step = "stat"]
    BY <1>3 DEF NextTrack
  <2>3. job' \in UpdateJobs(N)
    BY <2>1, <2>2 DEF UpdateJobs
  <2> QED  BY <2>3 DEF Jobs
<1> QED  BY <1>2, <1>3

LEMMA UpdateFacts ==
    ASSUME CacheInv, job.kind = "update"
    PROVE  /\ job \in UpdateJobs(Len(tis)) /\ Len(tis) \in Nat
           /\ Head(job.tis) \in 1 .. Len(tis) /\ queue \in Seq(Jobs(Len(tis)))
<1>1. job \in UpdateJobs(Len(tis)) /\ Len(tis) \in Nat /\ queue \in Seq(Jobs(Len(tis)))
  BY MemFacts, JobKinds DEF CacheInv, JobOK
<1>2. job.tis \in Seq(1 .. Len(tis)) /\ job.tis # << >>
  BY <1>1 DEF UpdateJobs
<1>3. Head(job.tis) \in 1 .. Len(tis)
  BY <1>2
<1> QED  BY <1>1, <1>3

LEMMA UpdateStatStep ==
    ASSUME CacheInv, UpdateStat
    PROVE  CacheInv'
<1> DEFINE N == Len(tis)
           i == Head(job.tis)
           same == disk[tis[i].file] # 0 /\ disk[tis[i].file] = tis[i].mtime
<1>1. UNCHANGED << table, total, changed, hash, view, player, shown, queue, lock, ui, disk, clock, cachefile, tmpfile, libpl >>
  BY DEF UpdateStat, KeepFiles, KeepDisk
<1>2. job \in UpdateJobs(N) /\ N \in Nat /\ i \in 1 .. N /\ queue \in Seq(Jobs(N))
  BY UpdateFacts DEF UpdateStat
<1>3. tis' \in Seq(FreshInfos) /\ Len(tis') = N /\ job' \in {Idle} \cup Jobs(N)
  <2>1. CASE same
    <3>1. tis' = track_info_unref(tis, i) /\ NextTrack
      BY <2>1 DEF UpdateStat
    <3>2. job' \in {Idle} \cup Jobs(N)
      BY <1>2, <3>1, NextTrackType
    <3> QED  BY <3>1, <3>2, MemFacts, UnrefSeq
  <2>2. CASE ~same
    <3> DEFINE d == IF disk[tis[i].file] = 0 THEN job.dead \cup {i} ELSE job.dead
    <3>1. UNCHANGED tis /\ job' = [job EXCEPT !.step = "lib", !.dead = d]
      BY <2>2 DEF UpdateStat
    <3>2. d \in SUBSET (1 .. N)
      BY <1>2 DEF UpdateJobs
    <3> HIDE DEF d
    <3>3. job' \in UpdateJobs(N)
      BY <1>2, <3>1, <3>2 DEF UpdateJobs
    <3> QED  BY <3>1, <3>3, MemFacts DEF Jobs
  <2> QED  BY <2>1, <2>2
<1>4. JobOK'
  BY <1>1, <1>2, <1>3, JobPlain
<1> QED  BY <1>1, <1>2, <1>3, <1>4, TisStep, MemFacts, FilesSame, UiSame DEF CacheInv

LEMMA UpdateLibStep ==
    ASSUME CacheInv, UpdateLib
    PROVE  CacheInv'
<1> DEFINE N == Len(tis)
           m == lib_remove(Mem, Head(job.tis))
<1>1. UNCHANGED << player, shown, queue, lock, ui, disk, clock, cachefile, tmpfile, libpl >>
  BY DEF UpdateLib, KeepFiles, KeepDisk
<1>2. job \in UpdateJobs(N) /\ N \in Nat /\ queue \in Seq(Jobs(N))
  BY UpdateFacts DEF UpdateLib
<1>3. m \in MemSet(FreshInfos, N) /\ m.table = table /\ m.total = total
  <2>1. Mem.table = table /\ Mem.total = total
    BY DEF Mem
  <2> QED  BY <1>2, <2>1, MemFacts, RemoveTrackType
<1>4. SetMem(m) /\ job' = [job EXCEPT !.step = "cache"]
  BY DEF UpdateLib
<1> HIDE DEF m
<1>5. m.total = Cardinality(m.table)
  BY <1>3 DEF CacheInv, MemOK
<1>6. DiskOK' /\ MemOK' /\ Len(tis') = N
  BY <1>1, <1>2, <1>3, <1>4, <1>5, MemStep
<1>7. job' \in UpdateJobs(N)
  BY <1>2, <1>4 DEF UpdateJobs
<1>8. JobOK'
  BY <1>1, <1>2, <1>6, <1>7, JobPlain DEF Jobs
<1> QED  BY <1>1, <1>2, <1>6, <1>8, FilesSame, UiSame DEF CacheInv

(* An entry that was removed is no longer counted.                         *)
LEMMA RemoveCounts ==
    ASSUME NEW C, Closed(C), NEW N \in Nat, NEW m \in MemSet(C, N), m.total = Cardinality(m.table), NEW i
    PROVE  LET r == do_cache_remove_ti(m, i)
           IN  /\ r \in MemSet(C, N) /\ r.table = m.table \ {i} /\ r.total = Cardinality(r.table)
               /\ IsFiniteSet(m.table) /\ r.total = IF i \in m.table THEN m.total - 1 ELSE m.total
<1> DEFINE r == do_cache_remove_ti(m, i)
<1>1. /\ r \in MemSet(C, N) /\ r.table = m.table \ {i}
      /\ r.total = IF i \in m.table THEN m.total - 1 ELSE m.total
  BY RemoveEntryType
<1> HIDE DEF r
<1>2. m.table \subseteq 1 .. N
  BY DEF MemSet
<1>3. IsFiniteSet(m.table)
  <2>1. IsFiniteSet(1 .. N)
    BY FS_Interval
  <2> QED  BY <1>2, <2>1, FS_Subset
<1>4. r.total = Cardinality(r.table)
  <2>1. Cardinality(m.table \ {i}) = IF i \in m.table THEN Cardinality(m.table) - 1 ELSE Cardinality(m.table)
    BY <1>3, FS_RemoveElement
  <2> QED  BY <1>1, <2>1
<1> QED  BY <1>1, <1>3, <1>4 DEF r

LEMMA AddFilesType ==
    ASSUME NEW N \in Nat, NEW fs \in Seq(Names)
    PROVE  AddFiles(fs) \in Jobs(N)
<1>1. << >> \in Seq(1 .. N)
  OBVIOUS
<1>2. AddFiles(fs) \in AddJobs(N)
  BY <1>1 DEF AddFiles, AddJobs
<1> QED  BY <1>2 DEF Jobs

LEMMA UpdateCacheStep ==
    ASSUME CacheInv, UpdateCache
    PROVE  CacheInv'
<1> DEFINE N == Len(tis)
           i == Head(job.tis)
           r == do_cache_remove_ti(Mem, i)
           t == track_info_unref(r.tis, i)
           m == [r EXCEPT !.tis = t]
<1>1. UNCHANGED << player, shown, lock, ui, disk, clock, cachefile, tmpfile, libpl >>
  BY DEF UpdateCache, KeepFiles, KeepDisk
<1>2. job \in UpdateJobs(N) /\ N \in Nat /\ queue \in Seq(Jobs(N)) /\ i \in 1 .. N
  BY UpdateFacts DEF UpdateCache
<1>3. r \in MemSet(FreshInfos, N) /\ r.total = Cardinality(r.table)
  <2>1. Mem.total = Cardinality(Mem.table)
    BY DEF Mem, CacheInv, MemOK
  <2> QED  BY <1>2, <2>1, MemFacts, RemoveCounts
<1>4. SetMem(m) /\ NextTrack
  BY DEF UpdateCache
<1> HIDE DEF r
<1>5. t \in Seq(FreshInfos) /\ Len(t) = N
  <2>1. r.tis \in Seq(FreshInfos) /\ Len(r.tis) = N
    BY <1>3 DEF MemSet
  <2> QED  BY <2>1, MemFacts, UnrefSeq
<1> HIDE DEF t
<1>6. m \in MemSet(FreshInfos, N) /\ m.table = r.table /\ m.total = r.total
  BY <1>2, <1>3, <1>5, SetTisType
<1> HIDE DEF m
<1>7. DiskOK' /\ MemOK' /\ Len(tis') = N
  <2>1. m.total = Cardinality(m.table)
    BY <1>3, <1>6
  <2> QED  BY <1>1, <1>2, <1>4, <1>6, <2>1, MemStep
<1>8. queue' \in Seq(Jobs(N))
  <2> DEFINE j == AddFiles(<< tis[i].file >>)
  <2>1. j \in Jobs(N)
    <3>1. << tis[i].file >> \in Seq(Names)
      BY <1>2, MemFacts
    <3> QED  BY <1>2, <3>1, AddFilesType
  <2>2. queue' = queue \/ queue' = Append(queue, j)
    BY DEF UpdateCache
  <2> HIDE DEF j
  <2> QED  BY <1>2, <2>1, <2>2
<1>9. JobOK'
  <2>1. job' \in {Idle} \cup Jobs(N)
    BY <1>2, <1>4, NextTrackType
  <2> QED  BY <1>2, <1>7, <1>8, <2>1, JobPlain
<1> QED  BY <1>1, <1>2, <1>7, <1>9, FilesSame, UiSame DEF CacheInv

LEMMA RefreshStartStep ==
    ASSUME CacheInv, RefreshStart
    PROVE  CacheInv'
<1> DEFINE N == Len(tis)
<1>1. UNCHANGED << tis, table, total, changed, hash, view, player, shown, queue, ui, disk, clock, cachefile, tmpfile, libpl >> /\ lock = "none" /\ lock' = "worker"
  BY DEF RefreshStart, KeepFiles, KeepDisk, memory
<1>2. N \in Nat /\ queue \in Seq(Jobs(N)) /\ ui = NoUi
  BY <1>1, MemFacts DEF CacheInv, JobOK, UiOK
<1>3. PICK a \in get_track_infos :
        job' = [kind |-> "refresh", step |-> "stat", n |-> 1, mtime |-> 0,
                arr |-> [k \in DOMAIN a |-> [ti |-> a[k], held |-> FALSE, next |-> 0]]]
  BY DEF RefreshStart
<1> DEFINE b == [k \in DOMAIN a |-> [ti |-> a[k], held |-> FALSE, next |-> 0]]
<1>4. /\ total \in Nat /\ a \in [1 .. total -> table] /\ \A j, k \in 1 .. total : j # k => a[j] # a[k]
  <2>1. total = Cardinality(table) /\ total \in Nat
    BY MemFacts DEF CacheInv, MemOK
  <2>2. a \in SetToSeqs(table)
    BY DEF get_track_infos
  <2> QED  BY <2>1, <2>2 DEF SetToSeqs
<1>5. b \in Seq(Slots(N)) /\ Len(b) = total /\ DOMAIN b = 1 .. total
  <2>1. \A k \in 1 .. total : [ti |-> a[k], held |-> FALSE, next |-> 0] \in Slots(N)
    <3>1. \A k \in 1 .. total : a[k] \in 1 .. N
      BY <1>4, MemFacts
    <3>2. 0 \in 0 .. N
      BY <1>2
    <3> QED  BY <3>1, <3>2, FlagsHas DEF Slots
  <2>2. b \in [1 .. total -> Slots(N)]
    BY <1>4, <2>1
  <2> HIDE DEF b
  <2> QED  BY <1>4, <2>2
<1>6. \A k \in 1 .. total : b[k].ti = a[k]
  BY <1>4
<1> HIDE DEF b
<1>7. job' = [kind |-> "refresh", step |-> "stat", n |-> 1, mtime |-> 0, arr |-> b]
  BY <1>3 DEF b
<1>8. job' \in Refreshes(N)
  BY <1>5, <1>7 DEF Refreshes
<1>9. /\ job'.arr = b /\ job'.n = 1 /\ job'.mtime = 0 /\ job'.step = "stat"
  BY <1>7
<1>10. Refreshing'
  <2>1. 0 <= clock + 1
    BY DEF CacheInv, DiskOK
  <2> QED  BY <1>1, <1>4, <1>5, <1>6, <1>9, <2>1 DEF Refreshing
<1>11. JobOK'
  <2>1. job' \in {Idle} \cup Jobs(N) \cup Readings(N) \cup Refreshes(N)
    BY <1>8
  <2> QED  BY <1>1, <1>2, <1>10, <2>1 DEF JobOK
<1> QED  BY <1>1, <1>2, <1>11, TisStep, MemFacts, FilesSame, UiSame DEF CacheInv

LEMMA RefreshFacts ==
    ASSUME CacheInv, job.kind = "refresh", job.step # "start"
    PROVE  /\ Len(tis) \in Nat /\ job \in Refreshes(Len(tis)) /\ Refreshing /\ lock = "worker" /\ ui = NoUi
           /\ job.n \in Nat /\ job.mtime \in Nat /\ job.arr \in Seq(Slots(Len(tis)))
           /\ queue \in Seq(Jobs(Len(tis)))
<1>1. Len(tis) \in Nat /\ job \in Refreshes(Len(tis)) /\ queue \in Seq(Jobs(Len(tis)))
  BY MemFacts, JobKinds DEF CacheInv, JobOK
<1>2. Refreshing /\ lock = "worker"
  BY <1>1 DEF CacheInv, JobOK
<1>3. ui = NoUi
  BY <1>2 DEF CacheInv, UiOK
<1> QED  BY <1>1, <1>2, <1>3 DEF Refreshes

(* The entry the refresh is at.                                            *)
LEMMA RefreshAt ==
    ASSUME CacheInv, job.kind = "refresh", job.step # "start", job.n <= Len(job.arr)
    PROVE  /\ job.n \in DOMAIN job.arr /\ job.arr[job.n] \in Slots(Len(tis))
           /\ job.arr[job.n].ti \in table /\ job.arr[job.n].ti \in 1 .. Len(tis)
<1>1. job.n \in Nat /\ job.arr \in Seq(Slots(Len(tis))) /\ Refreshing
  BY RefreshFacts
<1>2. job.n >= 1
  BY <1>1 DEF Refreshing
<1>3. job.n \in DOMAIN job.arr
  BY <1>1, <1>2
<1>4. job.arr[job.n] \in Slots(Len(tis))
  BY <1>1, <1>3
<1>5. job.arr[job.n].ti \in table
  BY <1>1, <1>3 DEF Refreshing
<1> QED  BY <1>3, <1>4, <1>5, MemFacts

LEMMA RefreshStatStep ==
    ASSUME CacheInv, RefreshStat
    PROVE  CacheInv'
<1> DEFINE N == Len(tis)
           now == disk[tis[job.arr[job.n].ti].file]
<1>1. UNCHANGED << tis, table, total, changed, hash, view, player, shown, queue, lock, ui, disk, clock, cachefile, tmpfile, libpl >>
  BY DEF RefreshStat, KeepFiles, KeepDisk, memory
<1>2. /\ N \in Nat /\ job \in Refreshes(N) /\ Refreshing /\ lock = "worker" /\ ui = NoUi /\ job.n \in Nat
      /\ job.arr \in Seq(Slots(N)) /\ queue \in Seq(Jobs(N)) /\ job.mtime \in Nat
  BY RefreshFacts DEF RefreshStat
<1>3. job.n <= Len(job.arr)
  <2>1. job.n <= total /\ total <= Len(job.arr) /\ Len(job.arr) \in Nat /\ total \in Nat
    <3>1. job.n <= total
      BY Zenon DEF RefreshStat
    <3>2. total <= Len(job.arr)
      BY <1>2, Zenon DEF Refreshing
    <3> QED  BY <1>2, <3>1, <3>2, MemFacts
  <2> QED  BY <1>2, <2>1
<1>4. now \in Nat /\ now <= clock + 1
  <2>1. job.arr[job.n].ti \in 1 .. N
    BY <1>3, RefreshAt DEF RefreshStat
  <2>2. tis[job.arr[job.n].ti].file \in Names
    BY <2>1, MemFacts
  <2> QED  BY <2>2 DEF CacheInv, DiskOK
<1> HIDE DEF now
<1>5. job' = [job EXCEPT !.n = @ + 1] \/ job' = [job EXCEPT !.step = "read", !.mtime = now]
  BY DEF RefreshStat, now
<1>6. job' \in Refreshes(N)
  <2>1. job.n + 1 \in Nat
    BY <1>2
  <2>2. [job EXCEPT !.n = job.n + 1] \in Refreshes(N)
    BY <1>2, <2>1 DEF Refreshes
  <2>3. [job EXCEPT !.step = "read", !.mtime = now] \in Refreshes(N)
    BY <1>2, <1>4 DEF Refreshes
  <2> QED  BY <1>5, <2>2, <2>3
<1>7. /\ job'.arr = job.arr
      /\ \/ job'.n = job.n + 1 /\ job'.step = "stat" /\ job'.mtime = job.mtime
         \/ job'.n = job.n /\ job'.step = "read" /\ job'.mtime = now
  BY <1>2, <1>5 DEF Refreshes, RefreshStat
<1>8. Refreshing'
  <2>1. job'.n >= job.n
    BY <1>2, <1>7
  <2>2. job'.n \in Nat /\ DOMAIN job.arr \subseteq Nat
    BY <1>2, <1>7
  <2>3. \A k \in DOMAIN job.arr : k >= job'.n => k >= job.n
    BY <1>2, <2>1, <2>2
  <2>4. job'.n >= 1 /\ job'.mtime <= clock + 1 /\ (job'.step = "read" => job'.n <= Len(job.arr))
    BY <1>2, <1>3, <1>4, <1>7 DEF Refreshing
  <2>5. total <= Len(job.arr)
    BY <1>2 DEF Refreshing
  <2>6. \A k \in DOMAIN job.arr : k >= job'.n => job.arr[k].ti \in table
    BY <1>2, <2>3 DEF Refreshing
  <2>7. \A j, k \in DOMAIN job.arr : j >= job'.n /\ k >= job'.n /\ job.arr[j].ti = job.arr[k].ti => j = k
    BY <1>2, <2>3 DEF Refreshing
  <2> QED  BY <1>1, <1>7, <2>4, <2>5, <2>6, <2>7 DEF Refreshing
<1>9. JobOK'
  BY <1>1, <1>2, <1>6, <1>8 DEF JobOK
<1> QED  BY <1>1, <1>2, <1>9, TisStep, MemFacts, FilesSame, UiSame DEF CacheInv

(* However the file was found: the entry goes, and at most one comes.      *)
LEMMA SettledStep ==
    ASSUME CacheInv, job.kind = "refresh", job.step = "read",
           UNCHANGED << player, shown, queue, lock, ui, disk, clock, cachefile, tmpfile, libpl >>,
           NEW K \in Nat, Len(tis) <= K, NEW m \in MemSet(FreshInfos, K), SetMem(m),
           m.total = Cardinality(m.table), m.total \in Int, m.total <= total,
           table \ {job.arr[job.n].ti} \subseteq m.table, NEW e \in Slots(K),
           job' = [job EXCEPT !.step = "stat", !.n = @ + 1, !.arr[job.n] = e]
    PROVE  CacheInv'
<1> DEFINE N == Len(tis)
           i == job.arr[job.n].ti
           b == [job.arr EXCEPT ![job.n] = e]
<1>1. /\ N \in Nat /\ job \in Refreshes(N) /\ Refreshing /\ ui = NoUi /\ job.n \in Nat /\ job.mtime \in Nat
      /\ job.arr \in Seq(Slots(N)) /\ queue \in Seq(Jobs(N)) /\ lock = "worker"
  BY RefreshFacts
<1>2. job.n <= Len(job.arr)
  BY <1>1 DEF Refreshing
<1>3. job.n \in DOMAIN job.arr
  BY <1>2, RefreshAt
<1>4. DiskOK' /\ MemOK' /\ Len(tis') = K /\ table' = m.table /\ total' = m.total
  BY MemStep
<1>5. b \in Seq(Slots(K)) /\ Len(b) = Len(job.arr) /\ DOMAIN b = DOMAIN job.arr
  <2>1. Slots(N) \subseteq Slots(K)
    <3>1. 1 .. N \subseteq 1 .. K /\ 0 .. N \subseteq 0 .. K
      BY <1>1
    <3> QED  BY <3>1 DEF Slots
  <2>2. job.arr \in Seq(Slots(K))
    BY <1>1, <2>1
  <2> QED  BY <1>3, <2>2
<1>6. \A k \in DOMAIN job.arr : k # job.n => b[k] = job.arr[k]
  OBVIOUS
<1> HIDE DEF b
<1>7. job' = [job EXCEPT !.step = "stat", !.n = job.n + 1, !.arr = b]
  BY <1>1 DEF b, Refreshes
<1>8. job' \in Refreshes(K)
  <2>1. job.n + 1 \in Nat
    BY <1>1
  <2> QED  BY <1>1, <1>5, <1>7, <2>1 DEF Refreshes
<1>9. job'.arr = b /\ job'.n = job.n + 1 /\ job'.step = "stat" /\ job'.mtime = job.mtime
  BY <1>1, <1>7 DEF Refreshes
<1>10. Refreshing'
  <2>1. \A k \in DOMAIN job.arr : k >= job.n + 1 => k >= job.n /\ k # job.n
    BY <1>1
  <2>2. total <= Len(job.arr) /\ total \in Int /\ Len(job.arr) \in Int
    BY <1>1, MemFacts DEF Refreshing
  <2>3. total' <= Len(b)
    BY <1>4, <1>5, <2>2
  <2>4. job.n + 1 >= 1 /\ job.mtime <= clock + 1
    BY <1>1 DEF Refreshing
  <2>5. \A k \in DOMAIN b : k >= job.n + 1 => b[k].ti \in table'
    <3> SUFFICES ASSUME NEW k \in DOMAIN job.arr, k >= job.n + 1
                 PROVE  job.arr[k].ti \in m.table
      BY <1>4, <1>5, <1>6, <2>1
    <3>1. job.arr[k].ti \in table /\ job.arr[k].ti # i
      BY <1>1, <1>3, <2>1 DEF Refreshing
    <3> QED  BY <3>1
  <2>6. \A j, k \in DOMAIN b : j >= job.n + 1 /\ k >= job.n + 1 /\ b[j].ti = b[k].ti => j = k
    BY <1>1, <1>5, <1>6, <2>1 DEF Refreshing
  <2> QED  BY <1>9, <2>3, <2>4, <2>5, <2>6 DEF Refreshing
<1>11. queue' \in Seq(Jobs(K))
  BY <1>1, JobsGrow
<1>12. JobOK'
  BY <1>1, <1>4, <1>8, <1>10, <1>11 DEF JobOK
<1> QED  BY <1>1, <1>4, <1>12, FilesSame, UiSame DEF CacheInv

LEMMA RefreshReadStep ==
    ASSUME CacheInv, RefreshRead
    PROVE  CacheInv'
<1> DEFINE N == Len(tis)
           i == job.arr[job.n].ti
           t == track_info_ref(Mem.tis, i)
           a == [Mem EXCEPT !.tis = t]
           gone == do_cache_remove_ti(a, i)
           only == gone.tis[i].ref = 1
           ti == [Refreshed(tis[i].file) EXCEPT !.ref = IF only THEN 1 ELSE 2]
           new == AddNew(gone, ti)
           Left(m) == IF ~only THEN m ELSE [m EXCEPT !.tis = track_info_unref(@, i)]
           Slot(next) == [ti |-> i, held |-> ~only, next |-> IF only THEN 0 ELSE next]
<1>0. \/ SetMem(Left(gone)) /\ job' = [job EXCEPT !.step = "stat", !.n = @ + 1, !.arr[job.n] = Slot(0)]
      \/ SetMem(Left(new)) /\ job' = [job EXCEPT !.step = "stat", !.n = @ + 1, !.arr[job.n] = Slot(N + 1)]
  BY Zenon DEF RefreshRead, Fresh
<1>1. UNCHANGED << player, shown, queue, lock, ui, disk, clock, cachefile, tmpfile, libpl >>
  BY DEF RefreshRead, KeepFiles, KeepDisk
<1>2. /\ job.kind = "refresh" /\ job.step = "read" /\ N \in Nat /\ job.n \in Nat /\ Refreshing
      /\ job.mtime \in Nat
  BY RefreshFacts DEF RefreshRead
<1>3. i \in table /\ i \in 1 .. N
  BY <1>2, RefreshAt DEF Refreshing
<1>4. a \in MemSet(FreshInfos, N) /\ a.table = table /\ a.total = total
  <2>1. t \in Seq(FreshInfos) /\ Len(t) = N
    <3>1. Mem.tis = tis
      BY DEF Mem
    <3> QED  BY <3>1, MemFacts, RefSeq
  <2>2. Mem \in MemSet(FreshInfos, N) /\ Mem.table = table /\ Mem.total = total
    BY MemFacts DEF Mem
  <2> HIDE DEF t
  <2> QED  BY <1>2, <2>1, <2>2, SetTisType
<1> HIDE DEF a
<1>5. /\ gone \in MemSet(FreshInfos, N) /\ gone.table = table \ {i} /\ gone.total = total - 1
      /\ gone.total = Cardinality(gone.table) /\ IsFiniteSet(table)
  <2>1. a.total = Cardinality(a.table)
    BY <1>4 DEF CacheInv, MemOK
  <2> QED  BY <1>2, <1>3, <1>4, <2>1, MemFacts, RemoveCounts
<1> HIDE DEF gone
<1>6. ti \in FreshInfos
  <2> DEFINE r == IF only THEN 1 ELSE 2
  <2>1. r \in Int /\ tis[i].file \in Names /\ job.mtime <= clock + 1 /\ DiskOK
    BY <1>2, <1>3, MemFacts DEF Refreshing, CacheInv
  <2> HIDE DEF r
  <2>2. [Refreshed(tis[i].file) EXCEPT !.ref = r] \in FreshInfos
    BY <1>2, <2>1, RefreshedFresh
  <2> QED  BY <2>2 DEF r
<1> HIDE DEF ti
<1>7. /\ new \in MemSet(FreshInfos, N + 1) /\ new.table = (table \ {i}) \cup {N + 1}
      /\ new.total = total /\ new.total = Cardinality(new.table)
  <2>1. /\ new \in MemSet(FreshInfos, N + 1) /\ new.table = gone.table \cup {N + 1}
        /\ new.total = gone.total + 1
    <3>1. Closed(FreshInfos)
      BY MemFacts
    <3>2. N \in Nat /\ gone \in MemSet(FreshInfos, N)
      BY <1>2, <1>5
    <3> HIDE DEF N
    <3> QED  BY <1>6, <3>1, <3>2, AddNewType
  <2>2. IsFiniteSet(gone.table) /\ N + 1 \notin gone.table
    <3>1. IsFiniteSet(table \ {i})
      <4>1. IsFiniteSet(table)
        BY MemFacts
      <4> QED  BY <4>1, FS_RemoveElement, Zenon
    <3>2. N + 1 \notin table
      BY <1>2, MemFacts
    <3> QED  BY <1>5, <3>1, <3>2
  <2>3. Cardinality(gone.table \cup {N + 1}) = Cardinality(gone.table) + 1
    BY <2>2, FS_AddElement
  <2>4. total \in Int
    BY MemFacts
  <2> HIDE DEF new
  <2> QED  BY <1>5, <2>1, <2>3, <2>4
<1> HIDE DEF new, only
<1>8. ASSUME NEW K \in Nat, N <= K, NEW m \in MemSet(FreshInfos, K), m.total = Cardinality(m.table),
             m.total \in Int, m.total <= total, table \ {i} \subseteq m.table, NEW next \in 0 .. K,
             SetMem(Left(m)), job' = [job EXCEPT !.step = "stat", !.n = @ + 1, !.arr[job.n] = Slot(next)]
      PROVE  CacheInv'
  <2> DEFINE l == Left(m)
             e == Slot(next)
  <2>1. l \in MemSet(FreshInfos, K) /\ l.table = m.table /\ l.total = m.total
    <3> DEFINE u == track_info_unref(m.tis, i)
    <3>1. u \in Seq(FreshInfos) /\ Len(u) = K
      <4>1. m.tis \in Seq(FreshInfos) /\ Len(m.tis) = K
        BY DEF MemSet
      <4> QED  BY <4>1, MemFacts, UnrefSeq
    <3>2. l = IF ~only THEN m ELSE [m EXCEPT !.tis = u]
      OBVIOUS
    <3> HIDE DEF u, l
    <3>3. LET x == [m EXCEPT !.tis = u] IN x \in MemSet(FreshInfos, K) /\ x.table = m.table /\ x.total = m.total
      BY <1>8, <3>1, SetTisType
    <3> QED  BY <3>2, <3>3
  <2>2. e \in Slots(K)
    <3>1. i \in 1 .. K /\ 0 \in 0 .. K
      BY <1>2, <1>3, <1>8
    <3>2. CASE only
      <4>1. e = [ti |-> i, held |-> FALSE, next |-> 0]
        BY <3>2
      <4> HIDE DEF e
      <4> QED  BY <3>1, <4>1, FlagsHas DEF Slots
    <3>3. CASE ~only
      <4>1. e = [ti |-> i, held |-> TRUE, next |-> next]
        BY <3>3
      <4> HIDE DEF e
      <4> QED  BY <3>1, <4>1, FlagsHas DEF Slots
    <3> QED  BY <3>2, <3>3
  <2>3. SetMem(l) /\ job' = [job EXCEPT !.step = "stat", !.n = @ + 1, !.arr[job.n] = e]
    BY <1>8
  <2> HIDE DEF l, e
  <2>4. /\ l.total = Cardinality(l.table) /\ l.total \in Int /\ l.total <= total
        /\ table \ {job.arr[job.n].ti} \subseteq l.table
    BY <1>8, <2>1
  <2> QED  BY <1>1, <1>2, <1>8, <2>1, <2>2, <2>3, <2>4, SettledStep
<1>9. CASE SetMem(Left(gone)) /\ job' = [job EXCEPT !.step = "stat", !.n = @ + 1, !.arr[job.n] = Slot(0)]
  <2>1. gone.total \in Int /\ gone.total <= total /\ N <= N /\ 0 \in 0 .. N /\ table \ {i} \subseteq gone.table
    BY <1>2, <1>5, MemFacts
  <2> HIDE DEF Left, Slot
  <2> QED  BY <1>2, <1>5, <1>8, <1>9, <2>1
<1>10. CASE SetMem(Left(new)) /\ job' = [job EXCEPT !.step = "stat", !.n = @ + 1, !.arr[job.n] = Slot(N + 1)]
  <2>1. /\ new.total \in Int /\ new.total <= total /\ N <= N + 1 /\ N + 1 \in 0 .. N + 1 /\ N + 1 \in Nat
        /\ table \ {i} \subseteq new.table
    BY <1>2, <1>7, MemFacts
  <2> HIDE DEF Left, Slot
  <2> QED  BY <1>7, <1>8, <1>10, <2>1
<1> QED  BY <1>0, <1>9, <1>10

LEMMA PrefixType ==
    ASSUME NEW S, NEW s \in Seq(S), NEW n \in Nat, n <= Len(s)
    PROVE  SubSeq(s, 1, n) \in Seq(S)
<1>1. \A k \in 1 .. n : k \in DOMAIN s /\ s[k] \in S
  OBVIOUS
<1>2. SubSeq(s, 1, n) = [k \in 1 .. n |-> s[k]]
  OBVIOUS
<1>3. [k \in 1 .. n |-> s[k]] \in [1 .. n -> S]
  BY <1>1
<1> QED  BY <1>2, <1>3

LEMMA RefreshApplyStep ==
    ASSUME CacheInv, RefreshApply
    PROVE  CacheInv'
<1> DEFINE N == Len(tis)
           s == SubSeq(job.arr, 1, Min({total, Len(job.arr)}))
           m == FoldLeft(ReplaceTrack, Mem, s)
           left == {job.arr[k].ti : k \in {x \in DOMAIN job.arr : x > total /\ job.arr[x].held}}
           t == LoseAll(m.tis, left)
           l == [m EXCEPT !.tis = t]
<1>0. SetMem(l)
  BY Zenon DEF RefreshApply
<1>1. UNCHANGED << player, shown, queue, ui, disk, clock, cachefile, tmpfile, libpl >> /\ job' = Idle
  BY DEF RefreshApply, KeepFiles, KeepDisk, JobDone
<1>2. /\ N \in Nat /\ Refreshing /\ ui = NoUi /\ queue \in Seq(Jobs(N)) /\ job.arr \in Seq(Slots(N))
  BY RefreshFacts DEF RefreshApply
<1>3. s \in Seq(Slots(N))
  <2>1. total \in Nat /\ total <= Len(job.arr) /\ Len(job.arr) \in Nat
    BY <1>2, MemFacts DEF Refreshing
  <2>2. Min({total, Len(job.arr)}) = total
    BY <2>1 DEF Min
  <2> QED  BY <1>2, <2>1, <2>2, PrefixType
<1> HIDE DEF s
<1>4. m \in MemSet(FreshInfos, N) /\ m.table = table /\ m.total = total
  <2>1. Mem \in MemSet(FreshInfos, N) /\ Closed(FreshInfos)
    BY MemFacts
  <2>2. Mem.table = table /\ Mem.total = total
    BY DEF Mem
  <2> QED  BY <1>2, <1>3, <2>1, <2>2, ReplaceFold
<1> HIDE DEF m, left
<1>5. t \in Seq(FreshInfos) /\ Len(t) = N
  <2>1. m.tis \in Seq(FreshInfos) /\ Len(m.tis) = N
    BY <1>4 DEF MemSet
  <2> QED  BY <2>1, MemFacts, AllSeq
<1> HIDE DEF t
<1>6. l \in MemSet(FreshInfos, N) /\ l.table = m.table /\ l.total = m.total
  BY <1>2, <1>4, <1>5, SetTisType
<1> HIDE DEF l
<1>7. l.total = Cardinality(l.table)
  BY <1>4, <1>6 DEF CacheInv, MemOK
<1>8. DiskOK' /\ MemOK' /\ Len(tis') = N
  BY <1>0, <1>1, <1>2, <1>6, <1>7, MemStep
<1>9. JobOK'
  BY <1>1, <1>2, <1>8, JobPlain
<1> QED  BY <1>1, <1>2, <1>8, <1>9, FilesSame, UiSame DEF CacheInv

-----------------------------------------------------------------------------
(* The user interface                                                      *)

LEMMA QueueStep ==
    ASSUME CacheInv, NEW j \in Jobs(Len(tis)), AddJob(j)
    PROVE  queue' \in Seq(Jobs(Len(tis)))
<1>1. queue \in Seq(Jobs(Len(tis))) /\ queue' = Append(queue, j)
  BY DEF CacheInv, JobOK, AddJob
<1> QED  BY <1>1

LEMMA AskStep ==
    ASSUME CacheInv, UNCHANGED << memory, shown, job, lock, ui >>, KeepDisk, NEW j \in Jobs(Len(tis)), AddJob(j)
    PROVE  CacheInv'
<1>1. UNCHANGED << tis, table, total, changed, hash, view, player, shown, job, lock, ui, disk, clock, cachefile, tmpfile, libpl >>
  BY DEF KeepDisk, memory
<1>2. queue' \in Seq(Jobs(Len(tis)))
  BY QueueStep
<1>3. JobOK'
  BY <1>1, <1>2, JobSame
<1>4. DiskOK' /\ MemOK'
  BY <1>1, MemFacts, TisStep
<1> QED  BY <1>1, <1>3, <1>4, MemFacts, FilesSame, UiSame DEF CacheInv

LEMMA AddStep ==
    ASSUME CacheInv, NEW f \in Names, cmus_add(f)
    PROVE  CacheInv'
<1>1. AddFiles(<< f >>) \in Jobs(Len(tis))
  <2>1. << f >> \in Seq(Names)
    OBVIOUS
  <2> QED  BY <2>1, MemFacts, AddFilesType
<1>2. /\ AddJob(AddFiles(<< f >>)) /\ UNCHANGED << memory, shown, job, lock, ui >> /\ KeepDisk
  BY DEF cmus_add
<1> QED  BY <1>1, <1>2, AskStep

LEMMA AskRefreshStep ==
    ASSUME CacheInv, cmus_update_cache
    PROVE  CacheInv'
<1> DEFINE j == [kind |-> "refresh", step |-> "start"]
<1>1. j \in Jobs(Len(tis))
  BY DEF Jobs, StartJobs
<1>2. /\ AddJob(j) /\ UNCHANGED << memory, shown, job, lock, ui >> /\ KeepDisk
  BY DEF cmus_update_cache
<1> HIDE DEF j
<1> QED  BY <1>1, <1>2, AskStep

LEMMA AskUpdateStep ==
    ASSUME CacheInv, NEW is \in SUBSET (1 .. Len(tis)), UpdateJob(is), KeepDisk,
           UNCHANGED << table, total, changed, hash, view, player, shown, job, lock, ui >>
    PROVE  CacheInv'
<1> DEFINE N == Len(tis)
           s == SetToSeq(is)
           j == [kind |-> "update", step |-> "stat", tis |-> s, dead |-> {}]
<1>1. UNCHANGED << disk, clock, cachefile, tmpfile, libpl >> /\ N \in Nat
  BY MemFacts DEF KeepDisk
<1>2. AddJob(j) /\ is # {} /\ tis' = RefAll(tis, is)
  BY DEF UpdateJob
<1>3. s \in Seq(1 .. N) /\ s # << >>
  <2>1. IsFiniteSet(is)
    <3>1. IsFiniteSet(1 .. N)
      BY <1>1, FS_Interval
    <3> QED  BY <3>1, FS_Subset
  <2>2. s \in Seq(is) /\ s # << >>
    BY <1>2, <2>1, SetToSeqType
  <2>3. \A S, T : S \subseteq T => Seq(S) \subseteq Seq(T)
    OBVIOUS
  <2> HIDE DEF s
  <2>4. is \subseteq 1 .. N
    OBVIOUS
  <2> QED  BY <2>2, <2>3, <2>4
<1> HIDE DEF s
<1>4. j \in Jobs(N)
  <2>1. j \in UpdateJobs(N)
    BY <1>3 DEF UpdateJobs
  <2> QED  BY <2>1 DEF Jobs
<1> HIDE DEF j
<1>5. queue' \in Seq(Jobs(N))
  BY <1>2, <1>4, QueueStep
<1>6. tis' \in Seq(FreshInfos) /\ Len(tis') = N
  BY <1>2, MemFacts, AllSeq
<1>7. JobOK'
  BY <1>1, <1>5, <1>6, JobSame
<1>8. DiskOK' /\ MemOK'
  BY <1>1, <1>6, MemFacts, TisStep
<1> QED  BY <1>1, <1>6, <1>7, <1>8, FilesSame, UiSame DEF CacheInv

LEMMA PlayFileStep ==
    ASSUME CacheInv, NEW f \in Names, cmus_play_file(f)
    PROVE  CacheInv'
<1> DEFINE N == Len(tis)
<1>1. UNCHANGED << table, total, changed, hash, view, shown, queue, job, disk, clock, cachefile, tmpfile, libpl >> /\ N \in Nat
  BY MemFacts DEF cmus_play_file, KeepDisk
<1>2. lock = "none" /\ ui = NoUi /\ player \in 0 .. N /\ shown \subseteq Names /\ queue \in Seq(Jobs(N))
  BY DEF cmus_play_file, Up, CacheInv, UiOK, JobOK
<1>3. CASE \E i \in lookup_cache_entry(f) : /\ player' = i /\ tis' = track_info_ref(Plays(tis, i), i)
                                           /\ UNCHANGED << lock, ui >>
  <2>1. PICK i \in lookup_cache_entry(f) : /\ player' = i /\ tis' = track_info_ref(Plays(tis, i), i)
                                           /\ UNCHANGED << lock, ui >>
    BY <1>3
  <2>2. i \in 1 .. N
    BY MemFacts DEF lookup_cache_entry
  <2>3. Plays(tis, i) \in Seq(FreshInfos) /\ Len(Plays(tis, i)) = N
    BY MemFacts, UnrefSeq DEF Plays
  <2>4. tis' \in Seq(FreshInfos) /\ Len(tis') = N
    BY <2>1, <2>3, MemFacts, RefSeq
  <2>5. UiOK'
    BY <1>1, <1>2, <2>1, <2>2, <2>4 DEF UiOK, Uis
  <2>6. JobOK'
    BY <1>1, <1>2, <2>1, <2>4, JobSame
  <2>7. DiskOK' /\ MemOK'
    BY <1>1, <2>4, MemFacts, TisStep
  <2> QED  BY <1>1, <2>5, <2>6, <2>7, FilesSame DEF CacheInv
<1>4. CASE ui' = [step |-> "stat", file |-> f, tags |-> disk[f]] /\ lock' = "ui" /\ UNCHANGED << tis, player >>
  <2>1. disk[f] \in Nat
    BY DEF CacheInv, DiskOK
  <2>2. UiOK'
    BY <1>1, <1>2, <1>4, <2>1 DEF UiOK, Uis
  <2>3. JobOK'
    BY <1>1, <1>2, <1>4, JobSame
  <2>4. DiskOK' /\ MemOK'
    BY <1>1, <1>4, MemFacts, TisStep
  <2> QED  BY <1>1, <2>2, <2>3, <2>4, FilesSame DEF CacheInv
<1> QED  BY <1>3, <1>4 DEF cmus_play_file

LEMMA PlayStatStep ==
    ASSUME CacheInv, PlayStat
    PROVE  CacheInv'
<1> DEFINE N == Len(tis)
           ti == TrackInfo(ui.file, disk[ui.file], ui.tags, 2)
           a == AddNew(Mem, ti)
           t == Plays(a.tis, Fresh)
           m == [a EXCEPT !.tis = t]
<1>0. SetMem(m)
  BY Zenon DEF PlayStat
<1>1. UNCHANGED << shown, queue, job, disk, clock, cachefile, tmpfile, libpl >>
  BY DEF PlayStat, KeepFiles, KeepDisk
<1>2. player' = N + 1 /\ ui' = NoUi /\ lock' = "none" /\ N \in Nat
  BY MemFacts DEF PlayStat, Fresh
<1>3. ui \in [step : {"stat"}, file : Names, tags : Nat] /\ lock = "ui"
  BY DEF PlayStat, CacheInv, UiOK, Uis, NoUi
<1>4. ti \in FreshInfos
  <2>1. disk[ui.file] \in Nat /\ disk[ui.file] <= clock + 1 /\ 2 \in Int /\ ui.file \in Names /\ ui.tags \in Nat
    BY <1>3 DEF CacheInv, DiskOK
  <2> QED  BY <2>1, NewFresh
<1> HIDE DEF ti
<1>5. a \in MemSet(FreshInfos, N + 1) /\ a.table = table \cup {N + 1} /\ a.total = total + 1
  <2>1. Mem.table = table /\ Mem.total = total
    BY DEF Mem
  <2>2. Mem \in MemSet(FreshInfos, N) /\ Closed(FreshInfos)
    BY MemFacts
  <2> QED  BY <1>2, <1>4, <2>1, <2>2, AddNewType
<1>6. a.total = Cardinality(a.table)
  <2>1. N + 1 \notin table
    BY <1>2, MemFacts
  <2>2. total = Cardinality(table)
    BY DEF CacheInv, MemOK
  <2>3. Cardinality(table \cup {N + 1}) = Cardinality(table) + 1
    BY <2>1, MemFacts, FS_AddElement
  <2> HIDE DEF a
  <2> QED  BY <1>5, <2>2, <2>3
<1> HIDE DEF a
<1>7. t \in Seq(FreshInfos) /\ Len(t) = N + 1
  <2>1. a.tis \in Seq(FreshInfos) /\ Len(a.tis) = N + 1
    BY <1>5 DEF MemSet
  <2> QED  BY <2>1, MemFacts, UnrefSeq DEF Plays
<1> HIDE DEF t
<1>8. N + 1 \in Nat
  BY <1>2
<1>9. m \in MemSet(FreshInfos, N + 1) /\ m.table = a.table /\ m.total = a.total
  BY <1>5, <1>7, <1>8, SetTisType
<1> HIDE DEF m
<1>10. DiskOK' /\ MemOK' /\ Len(tis') = N + 1
  <2>1. m.total = Cardinality(m.table)
    BY <1>6, <1>9
  <2> QED  BY <1>0, <1>1, <1>8, <1>9, <2>1, MemStep
<1>11. JobOK'
  <2>1. job \in {Idle} \cup Jobs(N) /\ queue \in Seq(Jobs(N))
    BY <1>3, JobFree DEF CacheInv, JobOK
  <2>2. job' \in {Idle} \cup Jobs(N + 1) /\ queue' \in Seq(Jobs(N + 1))
    BY <1>1, <1>2, <1>8, <2>1, JobsGrow
  <2> QED  BY <1>8, <1>10, <2>2, JobPlain
<1>12. UiOK'
  BY <1>1, <1>2, <1>10 DEF CacheInv, UiOK, Uis
<1> QED  BY <1>1, <1>10, <1>11, <1>12, FilesSame DEF CacheInv

LEMMA ClearStep ==
    ASSUME CacheInv, view_clear
    PROVE  CacheInv'
<1> DEFINE N == Len(tis)
           waiting == {k \in DOMAIN queue : queue[k].kind = "update"}
           s == [n \in 1 .. Len(queue) |-> IF n \in waiting THEN ToSet(queue[n].tis) ELSE {}]
           u == UnrefAll(tis, hash)
           w == UnrefAll(u, view)
<1>0. tis' = FoldLeft(LoseAll, w, s)
  BY Zenon DEF view_clear, RemoveJobs
<1>1. /\ UNCHANGED << table, total, changed, player, shown, lock, ui, disk, clock, cachefile, tmpfile, libpl >>
      /\ N \in Nat /\ hash' = {} /\ view' = {} /\ queue' = << >> /\ job' = Idle
  BY MemFacts DEF view_clear, RemoveJobs, KeepDisk
<1>2. u \in Seq(FreshInfos) /\ Len(u) = N
  BY MemFacts, AllSeq
<1> HIDE DEF u
<1>3. w \in Seq(FreshInfos) /\ Len(w) = N
  BY <1>2, MemFacts, AllSeq
<1> HIDE DEF w
<1>4. s \in Seq({s[n] : n \in 1 .. Len(queue)})
  <2>1. Len(queue) \in Nat
    BY DEF CacheInv, JobOK
  <2>2. s = [n \in 1 .. Len(queue) |-> s[n]]
    OBVIOUS
  <2> HIDE DEF s
  <2> QED  BY <2>1, <2>2
<1> HIDE DEF s
<1>5. tis' \in Seq(FreshInfos) /\ Len(tis') = N
  BY <1>0, <1>3, <1>4, MemFacts, LoseFold
<1>6. JobOK'
  <2>1. << >> \in Seq(Jobs(N))
    OBVIOUS
  <2> QED  BY <1>1, <1>5, <2>1, JobPlain
<1>7. DiskOK' /\ MemOK'
  BY <1>1, <1>5, MemFacts, TisStep
<1> QED  BY <1>1, <1>5, <1>6, <1>7, FilesSame, UiSame DEF CacheInv

LEMMA WinRemoveStep ==
    ASSUME CacheInv, NEW i \in view, WinRemove(i)
    PROVE  CacheInv'
<1> DEFINE N == Len(tis)
           m == lib_remove(Mem, i)
<1>1. UNCHANGED << player, shown, queue, job, lock, ui, disk, clock, cachefile, tmpfile, libpl >> /\ SetMem(m)
  BY DEF WinRemove, KeepDisk
<1>2. N \in Nat /\ queue \in Seq(Jobs(N))
  BY MemFacts DEF CacheInv, JobOK
<1>3. m \in MemSet(FreshInfos, N) /\ m.table = table /\ m.total = total
  <2>1. Mem.table = table /\ Mem.total = total
    BY DEF Mem
  <2> QED  BY <1>2, <2>1, MemFacts, RemoveTrackType
<1> HIDE DEF m
<1>4. m.total = Cardinality(m.table)
  BY <1>3 DEF CacheInv, MemOK
<1>5. DiskOK' /\ MemOK' /\ Len(tis') = N /\ table' = table /\ total' = total
  BY <1>1, <1>2, <1>3, <1>4, MemStep
<1>6. JobOK'
  BY <1>1, <1>2, <1>5, JobSame
<1> QED  BY <1>1, <1>2, <1>5, <1>6, FilesSame, UiSame DEF CacheInv

LEMMA FilterStep ==
    ASSUME CacheInv, NEW fs \in {Names, {Files[1]}}, lib_set_filter(fs)
    PROVE  CacheInv'
<1> DEFINE N == Len(tis)
           now == {i \in hash : tis[i].file \in fs}
           u == UnrefAll(tis, view)
<1>0. view' = now /\ tis' = RefAll(u, now)
  BY DEF lib_set_filter
<1>1. /\ UNCHANGED << table, total, changed, hash, player, queue, job, lock, ui, disk, clock, cachefile, tmpfile, libpl >>
      /\ N \in Nat /\ shown' = fs /\ queue \in Seq(Jobs(N))
  BY MemFacts DEF lib_set_filter, KeepDisk, CacheInv, JobOK
<1>2. u \in Seq(FreshInfos) /\ Len(u) = N
  BY MemFacts, AllSeq
<1>3. now \subseteq 1 .. N
  BY MemFacts
<1> HIDE DEF u, now
<1>4. tis' \in Seq(FreshInfos) /\ Len(tis') = N
  BY <1>0, <1>2, MemFacts, AllSeq
<1>5. DiskOK' /\ MemOK'
  BY <1>0, <1>1, <1>3, <1>4, MemFacts, TisStep
<1>6. JobOK'
  BY <1>1, <1>4, JobSame
<1>7. UiOK'
  <2>1. fs \subseteq Names
    BY FirstFile
  <2> QED  BY <1>1, <1>4, <2>1 DEF CacheInv, UiOK, Uis
<1> QED  BY <1>1, <1>5, <1>6, <1>7, FilesSame DEF CacheInv

-----------------------------------------------------------------------------
(* The end and the start                                                   *)

LEMMA KeepMemoryStep ==
    ASSUME CacheInv, KeepMemory
    PROVE  /\ DiskOK' /\ MemOK' /\ JobOK' /\ UiOK' /\ CacheFiles' = CacheFiles
           /\ UNCHANGED << disk, clock, tis, table >>
<1>1. UNCHANGED << disk, clock, tis, table, total, changed, hash, view, player, shown, queue, job, lock, ui >>
  BY DEF KeepMemory, memory
<1>2. queue \in Seq(Jobs(Len(tis)))
  BY DEF CacheInv, JobOK
<1>3. DiskOK' /\ MemOK'
  BY <1>1, MemFacts, TisStep
<1>4. JobOK'
  BY <1>1, <1>2, JobSame
<1>5. UiOK'
  BY <1>1, MemFacts, UiSame
<1> QED  BY <1>1, <1>3, <1>4, <1>5, DiskSame

LEMMA EntriesFine ==
    ASSUME CacheInv
    PROVE  /\ Entries \in SUBSET [file : Names, mtime : Nat, tags : Nat, raced : Flags]
           /\ IsFiniteSet(Entries) /\ \A e \in Entries : FreshInfo(e)
<1> DEFINE E(i) == [file |-> tis[i].file, mtime |-> tis[i].mtime, tags |-> tis[i].tags, raced |-> tis[i].raced]
           g == [i \in table |-> E(i)]
<1>1. Entries = {E(i) : i \in table}
  BY DEF Entries
<1>2. \A i \in table : tis[i] \in FreshInfos
  BY MemFacts
<1>3. ASSUME NEW i \in table
      PROVE  E(i) \in [file : Names, mtime : Nat, tags : Nat, raced : Flags] /\ FreshInfo(E(i))
  <2>1. tis[i] \in Infos /\ FreshInfo(tis[i])
    BY <1>2 DEF FreshInfos
  <2>2. E(i) \in [file : Names, mtime : Nat, tags : Nat, raced : Flags]
    BY <2>1 DEF Infos
  <2>3. E(i).file = tis[i].file /\ E(i).mtime = tis[i].mtime /\ E(i).tags = tis[i].tags
    OBVIOUS
  <2>4. E(i).raced = tis[i].raced
    OBVIOUS
  <2> HIDE DEF E
  <2> QED  BY <2>1, <2>2, <2>3, <2>4 DEF FreshInfo
<1> HIDE DEF E
<1>4. g \in Surjection(table, Entries)
  BY <1>1 DEF Surjection
<1>5. IsFiniteSet(Entries)
  BY <1>4, MemFacts, FS_Surjection
<1> QED  BY <1>1, <1>3, <1>5

LEMMA CloseStep ==
    ASSUME CacheInv, cache_close
    PROVE  CacheInv'
<1>1. /\ DiskOK' /\ MemOK' /\ JobOK' /\ UiOK' /\ CacheFiles' = CacheFiles
      /\ UNCHANGED << cachefile, libpl >>
  BY KeepMemoryStep DEF cache_close
<1>2. PICK whole \in BOOLEAN :
         tmpfile' = [whole |-> whole, full |-> ~whole,
                     entries |-> IF whole THEN Entries ELSE {e \in Entries : e.file = Files[1]}]
  BY DEF cache_close
<1>3. CASE whole
  <2>1. tmpfile' = [whole |-> TRUE, full |-> FALSE, entries |-> Entries]
    BY <1>2, <1>3
  <2>2. tmpfile' \in CacheFiles
    BY <2>1, EntriesFine DEF CacheFiles, Flags
  <2> QED  BY <1>1, <2>2 DEF CacheInv, FilesOK
<1>4. CASE ~whole
  <2> DEFINE es == {e \in Entries : e.file = Files[1]}
  <2>1. tmpfile' = [whole |-> FALSE, full |-> TRUE, entries |-> es]
    BY <1>2, <1>4
  <2>2. es \subseteq Entries
    OBVIOUS
  <2> HIDE DEF es
  <2>3. IsFiniteSet(es)
    BY <2>2, EntriesFine, FS_Subset
  <2>4. tmpfile' \in CacheFiles
    BY <2>1, <2>2, <2>3, EntriesFine DEF CacheFiles, Flags
  <2> QED  BY <1>1, <2>4 DEF CacheInv, FilesOK
<1> QED  BY <1>3, <1>4

LEMMA NoCacheFine == NoCache \in CacheFiles
<1>1. IsFiniteSet({})
  BY FS_EmptySet
<1> QED  BY <1>1 DEF NoCache, CacheFiles, Flags

LEMMA RenameStep ==
    ASSUME CacheInv, CacheRename
    PROVE  CacheInv'
<1>1. /\ DiskOK' /\ MemOK' /\ JobOK' /\ UiOK' /\ CacheFiles' = CacheFiles
  BY KeepMemoryStep DEF CacheRename
<1>2. cachefile' = tmpfile /\ tmpfile' = NoCache /\ libpl' = libpl
  BY DEF CacheRename
<1> QED  BY <1>1, <1>2, NoCacheFine DEF CacheInv, FilesOK

LEMMA DownStep ==
    ASSUME CacheInv, Down, libpl' \subseteq Names, IsFiniteSet(libpl')
    PROVE  CacheInv'
<1>1. /\ tis' = << >> /\ table' = {} /\ total' = 0 /\ changed' = FALSE /\ hash' = {} /\ view' = {} /\ player' = 0
      /\ queue' = << >> /\ job' = Idle /\ lock' = "none" /\ ui' = NoUi /\ shown' = Names
      /\ tmpfile' = NoCache /\ UNCHANGED << disk, clock, cachefile >>
  BY DEF Down
<1>2. DiskOK' /\ FreshInfos' = FreshInfos /\ CacheFiles' = CacheFiles
  BY <1>1, DiskSame
<1>3. Len(tis') = 0 /\ tis' \in Seq(FreshInfos) /\ << >> \in Seq(Jobs(0))
  BY <1>1
<1>4. MemOK'
  <2>1. Mem' = [tis |-> << >>, table |-> {}, total |-> 0, changed |-> FALSE, hash |-> {}, view |-> {}]
    BY <1>1 DEF Mem
  <2>2. Mem' \in MemSet(FreshInfos, 0)
    BY <1>1, <1>3, <2>1 DEF MemSet, Flags
  <2> QED  BY <1>1, <1>2, <1>3, <2>2, FS_EmptySet DEF MemOK
<1>5. JobOK'
  BY <1>1, <1>3, JobPlain
<1>6. UiOK'
  BY <1>1, <1>3 DEF UiOK, Uis
<1>7. FilesOK'
  BY <1>1, <1>2, NoCacheFine DEF CacheInv, FilesOK
<1> QED  BY <1>2, <1>4, <1>5, <1>6, <1>7 DEF CacheInv

LEMMA SaveStep ==
    ASSUME CacheInv, cmus_save
    PROVE  CacheInv'
<1>1. CASE libpl' = {} /\ KeepMemory /\ UNCHANGED << cachefile, tmpfile >>
  <2>1. /\ DiskOK' /\ MemOK' /\ JobOK' /\ UiOK' /\ CacheFiles' = CacheFiles
    BY <1>1, KeepMemoryStep
  <2> QED  BY <1>1, <2>1, FS_EmptySet DEF CacheInv, FilesOK
<1>2. CASE libpl' = {tis[i].file : i \in hash} /\ Down
  <2> DEFINE fs == {tis[i].file : i \in hash}
             g == [i \in hash |-> tis[i].file]
  <2>1. fs \subseteq Names
    BY MemFacts
  <2>2. g \in Surjection(hash, fs)
    BY DEF Surjection
  <2> HIDE DEF fs, g
  <2>3. IsFiniteSet(fs)
    BY <2>2, MemFacts, FS_Surjection
  <2>4. libpl' = fs /\ Down
    BY <1>2 DEF fs
  <2> QED  BY <2>1, <2>3, <2>4, DownStep
<1> QED  BY <1>1, <1>2 DEF cmus_save

LEMMA InitStep ==
    ASSUME CacheInv, cmus_init
    PROVE  CacheInv'
<1> DEFINE es == cachefile.entries
           n == Cardinality(es)
           s == SetToSeq(es)
           r == read_cache(cachefile)
<1>1. /\ tis' = r /\ table' = DOMAIN tis' /\ total' = Len(tis') /\ changed' = FALSE
      /\ hash' = {} /\ view' = {} /\ player' = 0 /\ lock' = "none" /\ ui' = NoUi
      /\ job' = Idle /\ queue' = AddPlaylist(libpl) /\ shown' = Names
      /\ UNCHANGED << disk, clock, cachefile, tmpfile, libpl >>
  BY DEF cmus_init
<1>2. DiskOK' /\ FreshInfos' = FreshInfos /\ FilesOK'
  BY <1>1, DiskSame, FilesSame
<1>3. /\ IsFiniteSet(es) /\ es \subseteq [file : Names, mtime : Nat, tags : Nat, raced : Flags]
      /\ \A e \in es : FreshInfo(e)
  BY DEF CacheInv, FilesOK, CacheFiles
<1>4. s \in Seq(es) /\ Len(s) = n /\ n \in Nat
  BY <1>3, SetToSeqType
<1>5. r \in Seq(FreshInfos) /\ Len(r) = n /\ DOMAIN r = 1 .. n
  <2>1. ASSUME NEW k \in 1 .. n
        PROVE  [TrackInfo(s[k].file, s[k].mtime, s[k].tags, 1) EXCEPT !.raced = s[k].raced] \in FreshInfos
    <3>1. s[k] \in es
      BY <1>4
    <3> HIDE DEF s, es
    <3> QED  BY <1>3, <3>1, ReadFresh
  <2>2. r = [k \in 1 .. n |-> [TrackInfo(s[k].file, s[k].mtime, s[k].tags, 1) EXCEPT !.raced = s[k].raced]]
    BY DEF read_cache
  <2> HIDE DEF n, s, r
  <2>3. r \in [1 .. n -> FreshInfos]
    BY <2>1, <2>2
  <2> QED  BY <1>4, <2>3
<1> HIDE DEF r, n
<1>6. MemOK'
  <2>1. Len(tis') = n /\ table' = 1 .. n /\ total' = n /\ tis' \in Seq(FreshInfos)
    BY <1>1, <1>5
  <2>2. Mem' = [tis |-> r, table |-> 1 .. n, total |-> n, changed |-> FALSE, hash |-> {}, view |-> {}]
    BY <1>1, <2>1 DEF Mem
  <2>3. Mem' \in MemSet(FreshInfos, n)
    BY <1>4, <1>5, <2>2 DEF MemSet, Flags
  <2>4. Cardinality(1 .. n) = n
    BY <1>4, FS_Interval
  <2> QED  BY <1>2, <2>1, <2>3, <2>4 DEF MemOK
<1>7. JobOK'
  <2>1. queue' \in Seq(Jobs(n))
    <3>1. CASE libpl = {}
      BY <1>1, <3>1 DEF AddPlaylist
    <3>2. CASE libpl # {}
      <4> DEFINE q == SetToSeq(libpl)
      <4>1. q \in Seq(Names)
        <5>1. libpl \subseteq Names /\ IsFiniteSet(libpl)
          BY DEF CacheInv, FilesOK
        <5>2. q \in Seq(libpl)
          BY <5>1, SetToSeqType
        <5> HIDE DEF q
        <5> QED  BY <5>1, <5>2
      <4> HIDE DEF q
      <4>2. AddFiles(q) \in Jobs(n)
        BY <1>4, <4>1, AddFilesType
      <4>3. queue' = << AddFiles(q) >>
        BY <1>1, <3>2 DEF AddPlaylist, q
      <4> QED  BY <4>2, <4>3
    <3> QED  BY <3>1, <3>2
  <2> QED  BY <1>1, <1>4, <1>5, <2>1, JobPlain
<1>8. UiOK'
  BY <1>1, <1>4, <1>5 DEF UiOK, Uis
<1> QED  BY <1>2, <1>6, <1>7, <1>8 DEF CacheInv

-----------------------------------------------------------------------------
(* The theorems                                                            *)

LEMMA CacheInit ==
    ASSUME Init
    PROVE  CacheInv
<1>1. /\ tis = << >> /\ table = {} /\ total = 0 /\ changed = FALSE /\ hash = {} /\ view = {} /\ player = 0
      /\ queue = << >> /\ job = Idle /\ lock = "none" /\ ui = NoUi /\ shown = Names
      /\ disk = [f \in Names |-> 1] /\ clock = 0 /\ cachefile = NoCache /\ tmpfile = NoCache /\ libpl = {}
  BY DEF Init
<1>2. DiskOK
  BY <1>1 DEF DiskOK
<1>3. Len(tis) = 0 /\ tis \in Seq(FreshInfos) /\ << >> \in Seq(Jobs(0))
  BY <1>1
<1>4. MemOK
  <2>1. Mem = [tis |-> << >>, table |-> {}, total |-> 0, changed |-> FALSE, hash |-> {}, view |-> {}]
    BY <1>1 DEF Mem
  <2>2. Mem \in MemSet(FreshInfos, 0)
    BY <1>1, <1>3, <2>1 DEF MemSet, Flags
  <2> QED  BY <1>1, <1>3, <2>2, FS_EmptySet DEF MemOK
<1>5. JobOK
  <2>1. job \in {Idle} \cup Jobs(0) /\ 0 \in Nat
    BY <1>1
  <2>2. job \notin Readings(0) /\ job \notin Refreshes(0)
    BY <2>1, JobKinds
  <2> QED  BY <1>1, <1>3, <2>1, <2>2 DEF JobOK
<1>6. UiOK
  BY <1>1, <1>3 DEF UiOK, Uis
<1>7. FilesOK
  BY <1>1, NoCacheFine, FS_EmptySet DEF FilesOK
<1> QED  BY <1>2, <1>4, <1>5, <1>6, <1>7 DEF CacheInv

LEMMA CacheStep ==
    ASSUME CacheInv, [Next]_vars
    PROVE  CacheInv'
<1>1. CASE UNCHANGED vars
  <2>1. UNCHANGED << disk, clock, tis, table, total, changed, hash, view, player, shown, queue, job, lock, ui, cachefile, tmpfile, libpl >>
    BY <1>1 DEF vars, memory
  <2>2. queue' \in Seq(Jobs(Len(tis)))
    BY <2>1 DEF CacheInv, JobOK
  <2>3. JobOK'
    BY <2>1, <2>2, JobSame
  <2> QED  BY <2>1, <2>3, TisStep, MemFacts, FilesSame, UiSame DEF CacheInv
<1>2. ASSUME NEW f \in Names, Touch(f) \/ Delete(f) PROVE CacheInv'
  BY <1>2, ChangedStep DEF Touch, Delete
<1>3. ASSUME NEW f \in Names, cmus_add(f) \/ cmus_play_file(f) PROVE CacheInv'
  BY <1>3, AddStep, PlayFileStep
<1>4. CASE TakeJob \/ AddGet \/ AddStat \/ flush_ti_buffer
  BY <1>4, TakeJobStep, AddGetStep, AddStatStep, FlushStep
<1>5. CASE UpdateStat \/ UpdateLib \/ UpdateCache
  BY <1>5, UpdateStatStep, UpdateLibStep, UpdateCacheStep
<1>6. CASE RefreshStart \/ RefreshStat \/ RefreshRead \/ RefreshApply
  BY <1>6, RefreshStartStep, RefreshStatStep, RefreshReadStep, RefreshApplyStep
<1>7. CASE cmus_update_lib
  BY <1>7, MemFacts, AskUpdateStep DEF cmus_update_lib
<1>8. CASE cmus_update_cache \/ PlayStat \/ view_clear
  BY <1>8, AskRefreshStep, PlayStatStep, ClearStep
<1>9. ASSUME NEW i \in view, cmus_update_tis({i}) PROVE CacheInv'
  <2>1. {i} \in SUBSET (1 .. Len(tis))
    BY MemFacts
  <2> QED  BY <1>9, <2>1, AskUpdateStep DEF cmus_update_tis
<1>10. ASSUME NEW i \in view, WinRemove(i) PROVE CacheInv'
  BY <1>10, WinRemoveStep
<1>11. ASSUME NEW fs \in {Names, {Files[1]}}, lib_set_filter(fs) PROVE CacheInv'
  BY <1>11, FilterStep
<1>12. CASE cmus_exit
  <2>1. DiskOK' /\ MemOK' /\ JobOK' /\ UiOK' /\ CacheFiles' = CacheFiles /\ UNCHANGED << cachefile, tmpfile, libpl >>
    BY <1>12, KeepMemoryStep DEF cmus_exit
  <2> QED  BY <2>1 DEF CacheInv, FilesOK
<1>13. CASE cache_close \/ CacheRename \/ cmus_save \/ cmus_init
  BY <1>13, CloseStep, RenameStep, SaveStep, InitStep
<1>14. CASE Crash
  BY <1>14, DownStep DEF Crash, CacheInv, FilesOK
<1> QED  BY <1>1, <1>2, <1>3, <1>4, <1>5, <1>6, <1>7, <1>8, <1>9, <1>10, <1>11, <1>12, <1>13, <1>14 DEF Next

LEMMA CacheAlways == Spec => []CacheInv
<1>1. Init => CacheInv
  BY CacheInit
<1>2. CacheInv /\ [Next]_vars => CacheInv'
  BY CacheStep
<1> QED  BY <1>1, <1>2, PTL DEF Spec

(* An entry of the cache, in memory or on disk, that has its file's mtime  *)
(* has the tags of that version or was read while the file changed, for    *)
(* any files, jobs, changes and restarts (cache_get_ti, cache_refresh,     *)
(* read_cache).                                                            *)
THEOREM CacheEntriesFresh == Spec => []FreshTags
<1>1. CacheInv => FreshTags
  <2> SUFFICES ASSUME CacheInv PROVE FreshTags
    OBVIOUS
  <2>1. \A i \in table : FreshInfo(tis[i])
    BY MemFacts DEF FreshInfos
  <2>2. \A e \in cachefile.entries : FreshInfo(e)
    BY DEF CacheInv, FilesOK, CacheFiles
  <2> QED  BY <2>1, <2>2 DEF FreshTags, FreshInfo
<1> QED  BY <1>1, CacheAlways, PTL

(* Wherever cmus crashes, ~/.cmus/cache is whole or was cut by a write     *)
(* that failed: cache_close writes another file and renames it.            *)
THEOREM CacheFileWhole == Spec => []CrashSafe
<1>1. CacheInv => CrashSafe
  BY DEF CacheInv, FilesOK, CacheFiles, CrashSafe
<1> QED  BY <1>1, CacheAlways, PTL

(* total counts the entries of the hash table, and an update-cache that    *)
(* runs never looks past the array it made (the loops of cache_refresh).   *)
THEOREM RefreshWithinArray ==
    Spec => [](total = Cardinality(table) /\
               (job.kind = "refresh" /\ job.step # "start" => total <= Len(job.arr)))
<1>1. CacheInv => total = Cardinality(table) /\ (job.kind = "refresh" /\ job.step # "start" => total <= Len(job.arr))
  <2> SUFFICES ASSUME CacheInv
               PROVE  total = Cardinality(table) /\ (job.kind = "refresh" /\ job.step # "start" => total <= Len(job.arr))
    OBVIOUS
  <2>1. total = Cardinality(table)
    BY DEF CacheInv, MemOK
  <2>2. job.kind = "refresh" /\ job.step # "start" => Refreshing
    BY RefreshFacts
  <2> QED  BY <2>1, <2>2 DEF Refreshing
<1> QED  BY <1>1, CacheAlways, PTL

-----------------------------------------------------------------------------
(* Counting references                                                     *)

(* Of ti, h references are held by somebody.                               *)
Held(ti, h) == h \in Nat /\ ti.lost \in Nat /\ ti.ref = h + ti.lost
Holds(t, H) == \A x \in DOMAIN t : Held(t[x], H[x])

(* What is held in r was held in t, and is the same file.                  *)
Kept(ti, u) == u.ref > u.lost => ti.ref > ti.lost /\ u.file = ti.file
Keeps(t, r) == DOMAIN t \subseteq DOMAIN r /\ \A x \in DOMAIN t : Kept(t[x], r[x])

LEMMA UnrefHeld ==
    ASSUME NEW ti \in Infos, NEW h \in Nat, Held(ti, h + 1)
    PROVE  Held(Unref(ti), h) /\ Kept(ti, Unref(ti))
<1>1. ti.lost \in Nat /\ ti.ref = h + 1 + ti.lost /\ ti.ref > ti.lost
  BY DEF Held, Infos
<1>2. CASE ti.ref = 1
  <2>1. Unref(ti) = Freed /\ h = 0
    BY <1>1, <1>2 DEF Unref
  <2>2. Freed.ref = 0 /\ Freed.lost = 0
    BY DEF Freed, TrackInfo
  <2> QED  BY <2>1, <2>2 DEF Held, Kept
<1>3. CASE ti.ref # 1
  <2> DEFINE u == [ti EXCEPT !.ref = ti.ref - 1]
  <2>1. Unref(ti) = u
    BY <1>3 DEF Unref
  <2>2. u.ref = ti.ref - 1 /\ u.lost = ti.lost /\ u.file = ti.file
    BY DEF Infos
  <2> HIDE DEF u
  <2> QED  BY <1>1, <2>1, <2>2 DEF Held, Kept
<1> QED  BY <1>2, <1>3

LEMMA UnrefAllHolds ==
    ASSUME NEW S, Closed(S), NEW t \in Seq(S), NEW is, NEW H, NEW G, Holds(t, H),
           \A x \in DOMAIN t : G[x] \in Nat /\ H[x] = G[x] + Count(x \in is)
    PROVE  Holds(UnrefAll(t, is), G) /\ Keeps(t, UnrefAll(t, is))
<1> DEFINE r == UnrefAll(t, is)
<1>1. DOMAIN r = DOMAIN t /\ \A x \in DOMAIN t : r[x] = IF x \in is THEN Unref(t[x]) ELSE t[x]
  BY DEF UnrefAll
<1> HIDE DEF r
<1>2. ASSUME NEW x \in DOMAIN t
      PROVE  Held(r[x], G[x]) /\ Kept(t[x], r[x])
  <2>1. Held(t[x], H[x]) /\ t[x] \in Infos /\ G[x] \in Nat
    BY DEF Holds, Closed
  <2>2. CASE x \in is
    <3>1. H[x] = G[x] + 1
      BY <2>2 DEF Count
    <3> QED  BY <1>1, <2>1, <2>2, <3>1, UnrefHeld
  <2>3. CASE x \notin is
    <3>1. H[x] = G[x]
      BY <2>1, <2>3 DEF Count
    <3> QED  BY <1>1, <2>1, <2>3, <3>1 DEF Kept
  <2> QED  BY <2>2, <2>3
<1> QED  BY <1>1, <1>2 DEF Holds, Keeps, r

LEMMA RefAllHolds ==
    ASSUME NEW S, Closed(S), NEW t \in Seq(S), NEW is, NEW H, NEW G, Holds(t, H),
           \A x \in DOMAIN t : G[x] = H[x] + Count(x \in is),
           \A x \in DOMAIN t : x \in is => H[x] > 0
    PROVE  Holds(RefAll(t, is), G) /\ Keeps(t, RefAll(t, is))
<1> DEFINE r == RefAll(t, is)
<1>1. /\ DOMAIN r = DOMAIN t
      /\ \A x \in DOMAIN t : r[x] = IF x \in is THEN [t[x] EXCEPT !.ref = @ + 1] ELSE t[x]
  BY DEF RefAll
<1> HIDE DEF r
<1>2. ASSUME NEW x \in DOMAIN t
      PROVE  Held(r[x], G[x]) /\ Kept(t[x], r[x])
  <2>1. Held(t[x], H[x]) /\ t[x] \in Infos
    BY DEF Holds, Closed
  <2>2. CASE x \in is
    <3> DEFINE u == [t[x] EXCEPT !.ref = t[x].ref + 1]
    <3>1. G[x] = H[x] + 1 /\ H[x] > 0
      BY <2>1, <2>2 DEF Count, Held
    <3>2. u.ref = t[x].ref + 1 /\ u.lost = t[x].lost /\ u.file = t[x].file
      BY <2>1 DEF Infos
    <3>3. r[x] = u
      BY <1>1, <2>2
    <3> HIDE DEF u
    <3>4. H[x] \in Nat /\ t[x].lost \in Nat /\ t[x].ref = H[x] + t[x].lost
      BY <2>1 DEF Held
    <3>5. Held(u, G[x])
      BY <3>1, <3>2, <3>4 DEF Held
    <3>6. Kept(t[x], u)
      BY <3>1, <3>2, <3>4 DEF Kept
    <3> QED  BY <3>3, <3>5, <3>6
  <2>3. CASE x \notin is
    <3>1. G[x] = H[x]
      BY <2>1, <2>3 DEF Count, Held
    <3> QED  BY <1>1, <2>1, <2>3, <3>1 DEF Kept
  <2> QED  BY <2>2, <2>3
<1> QED  BY <1>1, <1>2 DEF Holds, Keeps, r

LEMMA LoseAllHolds ==
    ASSUME NEW S, Closed(S), NEW t \in Seq(S), NEW is, NEW H, NEW G, Holds(t, H),
           \A x \in DOMAIN t : G[x] \in Nat /\ H[x] = G[x] + Count(x \in is)
    PROVE  Holds(LoseAll(t, is), G) /\ Keeps(t, LoseAll(t, is))
<1> DEFINE r == LoseAll(t, is)
<1>1. /\ DOMAIN r = DOMAIN t
      /\ \A x \in DOMAIN t : r[x] = IF x \in is THEN [t[x] EXCEPT !.lost = @ + 1] ELSE t[x]
  BY DEF LoseAll
<1> HIDE DEF r
<1>2. ASSUME NEW x \in DOMAIN t
      PROVE  Held(r[x], G[x]) /\ Kept(t[x], r[x])
  <2>1. Held(t[x], H[x]) /\ t[x] \in Infos /\ G[x] \in Nat
    BY DEF Holds, Closed
  <2>2. CASE x \in is
    <3> DEFINE u == [t[x] EXCEPT !.lost = t[x].lost + 1]
    <3>1. H[x] = G[x] + 1 /\ G[x] \in Nat
      BY <2>1, <2>2 DEF Count
    <3>2. u.ref = t[x].ref /\ u.lost = t[x].lost + 1 /\ u.file = t[x].file
      BY <2>1 DEF Infos
    <3>3. r[x] = u
      BY <1>1, <2>2
    <3> HIDE DEF u
    <3>4. H[x] \in Nat /\ t[x].lost \in Nat /\ t[x].ref = H[x] + t[x].lost
      BY <2>1 DEF Held
    <3>5. Held(u, G[x])
      <4>1. u.lost \in Nat
        BY <3>2, <3>4
      <4>2. \A g, l \in Nat : (g + 1) + l = g + (l + 1)
        OBVIOUS
      <4>3. t[x].ref = G[x] + (t[x].lost + 1)
        BY <3>1, <3>4, <4>2
      <4> QED  BY <3>1, <3>2, <4>1, <4>3 DEF Held
    <3>6. Kept(t[x], u)
      BY <3>1, <3>2, <3>4 DEF Kept
    <3> QED  BY <3>3, <3>5, <3>6
  <2>3. CASE x \notin is
    <3>1. H[x] = G[x]
      BY <2>1, <2>3 DEF Count
    <3> QED  BY <1>1, <2>1, <2>3, <3>1 DEF Kept
  <2> QED  BY <2>2, <2>3
<1> QED  BY <1>1, <1>2 DEF Holds, Keeps, r

LEMMA OneOfAll ==
    ASSUME NEW t, NEW i \in DOMAIN t
    PROVE  track_info_ref(t, i) = RefAll(t, {i}) /\ track_info_unref(t, i) = UnrefAll(t, {i})
<1>1. RefAll(t, {i}) = [x \in DOMAIN t |-> IF x = i THEN [t[x] EXCEPT !.ref = @ + 1] ELSE t[x]]
  BY DEF RefAll
<1>2. track_info_ref(t, i) = [x \in DOMAIN t |-> IF x = i THEN [t[x] EXCEPT !.ref = @ + 1] ELSE t[x]]
  BY DEF track_info_ref
<1>3. UnrefAll(t, {i}) = [x \in DOMAIN t |-> IF x = i THEN Unref(t[x]) ELSE t[x]]
  BY DEF UnrefAll
<1>4. track_info_unref(t, i) = [x \in DOMAIN t |-> IF x = i THEN Unref(t[x]) ELSE t[x]]
  BY DEF track_info_unref
<1> QED  BY <1>1, <1>2, <1>3, <1>4

LEMMA KeepsAgain ==
    ASSUME NEW t, NEW r, NEW s, Keeps(t, r), Keeps(r, s)
    PROVE  Keeps(t, s)
<1>1. ASSUME NEW x \in DOMAIN t PROVE Kept(t[x], s[x])
  BY DEF Keeps, Kept
<1> QED  BY <1>1 DEF Keeps

LEMMA KeepsSelf == \A t : Keeps(t, t)
  BY DEF Keeps, Kept

-----------------------------------------------------------------------------
(* The hash table and the library, with Q[x] references from elsewhere     *)

Base(m, x) == Count(x \in m.table) + Count(x \in m.hash) + Count(x \in m.view)
Owners(m, Q) == [x \in DOMAIN m.tis |-> Base(m, x) + Q[x]]

Tidy(m, sh) ==
    /\ \A x, y \in m.table : m.tis[x].file = m.tis[y].file => x = y
    /\ \A x, y \in m.hash : m.tis[x].file = m.tis[y].file => x = y
    /\ m.view = {x \in m.hash : m.tis[x].file \in sh}

Exact(m, sh, Q) ==
    /\ Tidy(m, sh) /\ Holds(m.tis, Owners(m, Q))
    /\ \A x \in DOMAIN m.tis : Q[x] \in Nat

LEMMA MemFields ==
    ASSUME NEW S, Closed(S), NEW N \in Nat, NEW m \in MemSet(S, N)
    PROVE  /\ m.tis \in Seq(S) /\ Len(m.tis) = N /\ DOMAIN m.tis = 1 .. N
           /\ m.table \subseteq 1 .. N /\ m.hash \subseteq 1 .. N /\ m.view \subseteq 1 .. N
           /\ \A x \in 1 .. N : m.tis[x] \in S /\ m.tis[x] \in Infos
<1>1. /\ m.tis \in Seq(S) /\ Len(m.tis) = N
      /\ m.table \subseteq 1 .. N /\ m.hash \subseteq 1 .. N /\ m.view \subseteq 1 .. N
  BY DEF MemSet
<1>2. S \subseteq Infos
  BY DEF Closed
<1> QED  BY <1>1, <1>2

LEMMA BaseType ==
    ASSUME NEW m, NEW x
    PROVE  /\ Base(m, x) \in Nat /\ (x \in m.table \cup m.hash \cup m.view => Base(m, x) > 0)
<1>1. Count(x \in m.table) \in {0, 1} /\ Count(x \in m.hash) \in {0, 1} /\ Count(x \in m.view) \in {0, 1}
  BY DEF Count
<1>2. /\ x \in m.table => Count(x \in m.table) = 1
      /\ x \in m.hash => Count(x \in m.hash) = 1
      /\ x \in m.view => Count(x \in m.view) = 1
  BY DEF Count
<1> HIDE DEF Count
<1> QED  BY <1>1, <1>2 DEF Base

(* Who is in the hash table or the library is held, so his file stands.    *)
LEMMA FileStands ==
    ASSUME NEW S, Closed(S), NEW N \in Nat, NEW m \in MemSet(S, N), NEW r \in MemSet(S, N), NEW P,
           Keeps(m.tis, r.tis), Holds(r.tis, Owners(r, P)), \A x \in 1 .. N : P[x] \in Nat,
           NEW x \in 1 .. N, x \in r.table \cup r.hash \cup r.view \/ P[x] > 0
    PROVE  r.tis[x].file = m.tis[x].file /\ m.tis[x].ref > m.tis[x].lost
<1>1. DOMAIN r.tis = 1 .. N /\ DOMAIN m.tis = 1 .. N
  BY MemFields
<1>2. Held(r.tis[x], Base(r, x) + P[x])
  BY <1>1 DEF Holds, Owners
<1>3. Base(r, x) + P[x] > 0
  BY BaseType
<1>4. r.tis[x].ref > r.tis[x].lost
  <2>1. Base(r, x) + P[x] \in Nat /\ r.tis[x].lost \in Nat /\ r.tis[x].ref = (Base(r, x) + P[x]) + r.tis[x].lost
    BY <1>2 DEF Held
  <2> QED  BY <1>3, <2>1
<1> QED  BY <1>1, <1>4 DEF Keeps, Kept

LEMMA StaysTidy ==
    ASSUME NEW S, Closed(S), NEW N \in Nat, NEW m \in MemSet(S, N), NEW r \in MemSet(S, N),
           NEW sh, NEW Q, NEW P, Exact(m, sh, Q), Keeps(m.tis, r.tis), Holds(r.tis, Owners(r, P)),
           \A x \in 1 .. N : P[x] \in Nat,
           r.table \subseteq m.table, r.hash \subseteq m.hash, r.view = m.view \cap r.hash
    PROVE  Exact(r, sh, P)
<1>1. DOMAIN r.tis = 1 .. N /\ r.table \subseteq 1 .. N /\ r.hash \subseteq 1 .. N
  BY MemFields
<1>2. \A x \in r.table \cup r.hash : r.tis[x].file = m.tis[x].file
  BY <1>1, FileStands
<1>3. Tidy(r, sh)
  BY <1>2 DEF Exact, Tidy
<1> QED  BY <1>1, <1>3 DEF Exact

Counts(N, P) == \A x \in 1 .. N : P[x] \in Nat

(* m with other track infos.                                               *)
LEMMA SetTisGood ==
    ASSUME NEW S, Closed(S), NEW N \in Nat, NEW m \in MemSet(S, N), NEW t \in Seq(S), Len(t) = N,
           NEW sh, NEW Q, NEW P, Exact(m, sh, Q), Counts(N, P),
           Keeps(m.tis, t), Holds(t, Owners(m, P))
    PROVE  LET r == [m EXCEPT !.tis = t]
           IN  /\ r \in MemSet(S, N) /\ Exact(r, sh, P) /\ Keeps(m.tis, r.tis) /\ r.tis = t
               /\ r.table = m.table /\ r.total = m.total /\ r.hash = m.hash /\ r.view = m.view
<1> DEFINE r == [m EXCEPT !.tis = t]
<1>1. /\ r \in MemSet(S, N) /\ r.table = m.table /\ r.total = m.total
      /\ r.hash = m.hash /\ r.view = m.view /\ r.tis = t
  BY SetTisType
<1> HIDE DEF r
<1>2. DOMAIN t = DOMAIN m.tis
  BY MemFields
<1>3. Owners(r, P) = Owners(m, P)
  BY <1>1, <1>2 DEF Owners, Base
<1>4. r.view = m.view \cap r.hash
  BY <1>1 DEF Exact, Tidy
<1>5. Exact(r, sh, P)
  <2>1. \A x \in 1 .. N : P[x] \in Nat
    BY DEF Counts
  <2> QED  BY <1>1, <1>3, <1>4, <2>1, StaysTidy
<1> QED  BY <1>1, <1>5 DEF r

(* P has one reference less than Q, or one more: on i, on each of is.      *)
OneLess(N, Q, P, i) == \A x \in 1 .. N : P[x] \in Nat /\ Q[x] = P[x] + Count(x = i)
Less(N, Q, P, is) == \A x \in 1 .. N : P[x] \in Nat /\ Q[x] = P[x] + Count(x \in is)
More(N, Q, P, is) == \A x \in 1 .. N : P[x] = Q[x] + Count(x \in is)
Alive(m, Q, is) == \A x \in is : x \in m.table \cup m.hash \cup m.view \/ Q[x] > 0

LEMMA UnrefExact ==
    ASSUME NEW S, Closed(S), NEW N \in Nat, NEW m \in MemSet(S, N), NEW sh, NEW Q, NEW P, Exact(m, sh, Q),
           NEW i \in 1 .. N, OneLess(N, Q, P, i)
    PROVE  LET r == [m EXCEPT !.tis = track_info_unref(m.tis, i)]
           IN  /\ r \in MemSet(S, N) /\ Exact(r, sh, P) /\ Keeps(m.tis, r.tis)
               /\ r.table = m.table /\ r.total = m.total /\ r.hash = m.hash /\ r.view = m.view
<1> DEFINE t == track_info_unref(m.tis, i)
<1>0. \A x \in 1 .. N : P[x] \in Nat /\ Q[x] = P[x] + Count(x = i)
  BY DEF OneLess
<1>1. m.tis \in Seq(S) /\ Len(m.tis) = N /\ DOMAIN m.tis = 1 .. N
  BY MemFields
<1>2. t \in Seq(S) /\ Len(t) = N
  BY <1>1, UnrefSeq
<1>3. t = UnrefAll(m.tis, {i})
  BY <1>1, OneOfAll
<1>4. \A x \in 1 .. N : /\ Owners(m, P)[x] \in Nat
                       /\ Owners(m, Q)[x] = Owners(m, P)[x] + Count(x \in {i})
  <2> SUFFICES ASSUME NEW x \in 1 .. N
               PROVE  /\ Owners(m, P)[x] \in Nat
                      /\ Owners(m, Q)[x] = Owners(m, P)[x] + Count(x \in {i})
    OBVIOUS
  <2>1. Owners(m, P)[x] = Base(m, x) + P[x] /\ Owners(m, Q)[x] = Base(m, x) + Q[x]
    BY <1>1 DEF Owners
  <2>2. Count(x \in {i}) = Count(x = i) /\ Count(x = i) \in Nat
    BY DEF Count
  <2>3. Base(m, x) \in Nat
    BY BaseType
  <2> QED  BY <1>0, <2>1, <2>2, <2>3
<1>5. Holds(t, Owners(m, P)) /\ Keeps(m.tis, t)
  BY <1>1, <1>3, <1>4, UnrefAllHolds DEF Exact
<1>6. Counts(N, P)
  BY <1>0 DEF Counts
<1> HIDE DEF t
<1>7. LET r == [m EXCEPT !.tis = t]
      IN  /\ r \in MemSet(S, N) /\ Exact(r, sh, P) /\ Keeps(m.tis, r.tis)
          /\ r.table = m.table /\ r.total = m.total /\ r.hash = m.hash /\ r.view = m.view
  BY <1>2, <1>5, <1>6, SetTisGood
<1> QED  BY <1>7 DEF t

LEMMA RefExact ==
    ASSUME NEW S, Closed(S), NEW N \in Nat, NEW m \in MemSet(S, N), NEW sh, NEW Q, NEW P, Exact(m, sh, Q),
           NEW is, More(N, Q, P, is), Alive(m, Q, is)
    PROVE  LET r == [m EXCEPT !.tis = RefAll(m.tis, is)]
           IN  /\ r \in MemSet(S, N) /\ Exact(r, sh, P) /\ Keeps(m.tis, r.tis)
               /\ r.table = m.table /\ r.total = m.total /\ r.hash = m.hash /\ r.view = m.view
<1> DEFINE t == RefAll(m.tis, is)
<1>0. /\ \A x \in 1 .. N : P[x] = Q[x] + Count(x \in is)
      /\ \A x \in is : x \in m.table \cup m.hash \cup m.view \/ Q[x] > 0
  BY DEF More, Alive
<1>1. m.tis \in Seq(S) /\ Len(m.tis) = N /\ DOMAIN m.tis = 1 .. N
  BY MemFields
<1>2. t \in Seq(S) /\ Len(t) = N
  BY <1>1, AllSeq
<1>4. \A x \in 1 .. N : /\ P[x] \in Nat /\ Owners(m, P)[x] = Owners(m, Q)[x] + Count(x \in is)
                       /\ (x \in is => Owners(m, Q)[x] > 0)
  <2> SUFFICES ASSUME NEW x \in 1 .. N
               PROVE  /\ P[x] \in Nat /\ Owners(m, P)[x] = Owners(m, Q)[x] + Count(x \in is)
                      /\ (x \in is => Owners(m, Q)[x] > 0)
    OBVIOUS
  <2>1. Owners(m, P)[x] = Base(m, x) + P[x] /\ Owners(m, Q)[x] = Base(m, x) + Q[x]
    BY <1>1 DEF Owners
  <2>2. Count(x \in is) \in Nat
    BY DEF Count
  <2>3. Base(m, x) \in Nat /\ Q[x] \in Nat /\ (x \in m.table \cup m.hash \cup m.view => Base(m, x) > 0)
    BY <1>1, BaseType DEF Exact
  <2> HIDE DEF Count
  <2> QED  BY <1>0, <2>1, <2>2, <2>3
<1>5. Holds(t, Owners(m, P)) /\ Keeps(m.tis, t)
  BY <1>1, <1>4, RefAllHolds DEF Exact
<1>6. Counts(N, P)
  BY <1>4 DEF Counts
<1> HIDE DEF t
<1>7. LET r == [m EXCEPT !.tis = t]
      IN  /\ r \in MemSet(S, N) /\ Exact(r, sh, P) /\ Keeps(m.tis, r.tis)
          /\ r.table = m.table /\ r.total = m.total /\ r.hash = m.hash /\ r.view = m.view
  BY <1>2, <1>5, <1>6, SetTisGood
<1> QED  BY <1>7 DEF t

LEMMA LoseExact ==
    ASSUME NEW S, Closed(S), NEW N \in Nat, NEW m \in MemSet(S, N), NEW sh, NEW Q, NEW P, Exact(m, sh, Q),
           NEW is, Less(N, Q, P, is)
    PROVE  LET r == [m EXCEPT !.tis = LoseAll(m.tis, is)]
           IN  /\ r \in MemSet(S, N) /\ Exact(r, sh, P) /\ Keeps(m.tis, r.tis)
               /\ r.table = m.table /\ r.total = m.total /\ r.hash = m.hash /\ r.view = m.view
<1> DEFINE t == LoseAll(m.tis, is)
<1>0. \A x \in 1 .. N : P[x] \in Nat /\ Q[x] = P[x] + Count(x \in is)
  BY DEF Less
<1>1. m.tis \in Seq(S) /\ Len(m.tis) = N /\ DOMAIN m.tis = 1 .. N
  BY MemFields
<1>2. t \in Seq(S) /\ Len(t) = N
  BY <1>1, AllSeq
<1>4. \A x \in 1 .. N : /\ Owners(m, P)[x] \in Nat
                       /\ Owners(m, Q)[x] = Owners(m, P)[x] + Count(x \in is)
  <2> SUFFICES ASSUME NEW x \in 1 .. N
               PROVE  /\ Owners(m, P)[x] \in Nat
                      /\ Owners(m, Q)[x] = Owners(m, P)[x] + Count(x \in is)
    OBVIOUS
  <2>1. Owners(m, P)[x] = Base(m, x) + P[x] /\ Owners(m, Q)[x] = Base(m, x) + Q[x]
    BY <1>1 DEF Owners
  <2>2. Count(x \in is) \in Nat
    BY DEF Count
  <2>3. Base(m, x) \in Nat
    BY BaseType
  <2> HIDE DEF Count
  <2> QED  BY <1>0, <2>1, <2>2, <2>3
<1>5. Holds(t, Owners(m, P)) /\ Keeps(m.tis, t)
  BY <1>1, <1>4, LoseAllHolds DEF Exact
<1>6. Counts(N, P)
  BY <1>0 DEF Counts
<1> HIDE DEF t
<1>7. LET r == [m EXCEPT !.tis = t]
      IN  /\ r \in MemSet(S, N) /\ Exact(r, sh, P) /\ Keeps(m.tis, r.tis)
          /\ r.table = m.table /\ r.total = m.total /\ r.hash = m.hash /\ r.view = m.view
  BY <1>2, <1>5, <1>6, SetTisGood
<1> QED  BY <1>7 DEF t

LEMMA AddTrackExact ==
    ASSUME NEW S, Closed(S), NEW N \in Nat, NEW m \in MemSet(S, N), NEW Q, Exact(m, shown, Q),
           NEW i \in 1 .. N, Q[i] > 0
    PROVE  LET r == lib_add_track(m, i)
           IN  Exact(r, shown, Q) /\ Keeps(m.tis, r.tis)
<1> DEFINE r == lib_add_track(m, i)
           once == RefAll(m.tis, {i})
           twice == RefAll(once, {i})
           H == Owners(m, Q)
           H1 == [x \in 1 .. N |-> H[x] + Count(x = i)]
           H2 == [x \in 1 .. N |-> H1[x] + Count(x = i)]
<1>1. /\ m.tis \in Seq(S) /\ DOMAIN m.tis = 1 .. N /\ m.table \subseteq 1 .. N /\ m.hash \subseteq 1 .. N
      /\ m.view \subseteq m.hash /\ \A x \in 1 .. N : Q[x] \in Nat
  <2>1. m.tis \in Seq(S) /\ DOMAIN m.tis = 1 .. N /\ m.table \subseteq 1 .. N /\ m.hash \subseteq 1 .. N
    BY MemFields
  <2> QED  BY <2>1 DEF Exact, Tidy
<1>2. CASE \E j \in m.hash : m.tis[j].file = m.tis[i].file
  BY <1>2, KeepsSelf DEF lib_add_track
<1>3. ASSUME ~ \E j \in m.hash : m.tis[j].file = m.tis[i].file
      PROVE  Exact(r, shown, Q) /\ Keeps(m.tis, r.tis)
  <2>1. i \notin m.hash /\ i \notin m.view
    BY <1>1, <1>3
  <2>2. \A x \in 1 .. N : H[x] = Base(m, x) + Q[x] /\ H[x] \in Nat /\ Count(x = i) \in {0, 1}
    <3>1. \A x \in 1 .. N : Base(m, x) \in Nat /\ Count(x = i) \in {0, 1}
      BY BaseType DEF Count
    <3> QED  BY <1>1, <3>1 DEF Owners
  <2>3. H[i] > 0 /\ Holds(m.tis, H)
    <3>1. Base(m, i) \in Nat /\ Q[i] \in Nat
      BY <1>1, BaseType
    <3> QED  BY <2>2, <3>1 DEF Exact
  <2> HIDE DEF H
  <2>4. \A x \in 1 .. N : Count(x \in {i}) = Count(x = i)
    BY DEF Count
  <2>5. /\ \A x \in 1 .. N : H1[x] = H[x] + Count(x \in {i}) /\ H1[x] \in Nat
        /\ \A x \in 1 .. N : H2[x] = H1[x] + Count(x \in {i})
        /\ \A x \in 1 .. N : x \in {i} => H[x] > 0 /\ H1[x] > 0
    <3>1. \A x \in 1 .. N : H1[x] = H[x] + Count(x = i)
      OBVIOUS
    <3>2. \A x \in 1 .. N : H2[x] = H1[x] + Count(x = i)
      OBVIOUS
    <3> HIDE DEF H1, H2
    <3>3. \A x \in 1 .. N : H1[x] \in Nat /\ (x = i => H[x] > 0 /\ H1[x] > 0)
      BY <2>2, <2>3, <3>1
    <3> QED  BY <2>4, <3>1, <3>2, <3>3
  <2> HIDE DEF H1, H2
  <2>6. once \in Seq(S) /\ DOMAIN once = 1 .. N /\ Holds(once, H1) /\ Keeps(m.tis, once)
    <3>1. once \in Seq(S) /\ Len(once) = Len(m.tis)
      BY <1>1, AllSeq
    <3>2. Holds(once, H1) /\ Keeps(m.tis, once)
      BY <1>1, <2>3, <2>5, RefAllHolds
    <3>3. DOMAIN once = 1 .. N
      BY <1>1 DEF RefAll
    <3> QED  BY <3>1, <3>2, <3>3
  <2>7. twice \in Seq(S) /\ DOMAIN twice = 1 .. N /\ Holds(twice, H2) /\ Keeps(m.tis, twice)
    <3> HIDE DEF once
    <3>1. twice \in Seq(S)
      BY <2>6, AllSeq
    <3>2. Holds(twice, H2) /\ Keeps(once, twice)
      BY <2>5, <2>6, RefAllHolds
    <3>3. DOMAIN twice = 1 .. N
      BY <2>6 DEF RefAll
    <3> QED  BY <2>6, <3>1, <3>2, <3>3, KeepsAgain
  <2>8. track_info_ref(m.tis, i) = once /\ track_info_ref(track_info_ref(m.tis, i), i) = twice
    <3>1. track_info_ref(m.tis, i) = once
      BY <1>1, OneOfAll
    <3>2. track_info_ref(once, i) = twice
      <4> HIDE DEF once
      <4> QED  BY <2>6, OneOfAll
    <3> QED  BY <3>1, <3>2
  <2>9. r \in MemSet(S, N) /\ r.table = m.table
    BY AddTrackType
  <2>10. r.hash = m.hash \cup {i} /\ IF m.tis[i].file \notin shown THEN r.tis = once /\ r.view = m.view
                                    ELSE r.tis = twice /\ r.view = m.view \cup {i}
    <3> HIDE DEF once, twice
    <3>1. m.tis[i].file \notin shown => r = [m EXCEPT !.hash = m.hash \cup {i}, !.tis = once]
      BY <1>3, <2>8 DEF lib_add_track
    <3>2. m.tis[i].file \in shown =>
            r = [m EXCEPT !.hash = m.hash \cup {i}, !.view = m.view \cup {i}, !.tis = twice]
      BY <1>3, <2>8 DEF lib_add_track
    <3> HIDE DEF r
    <3> QED  BY <3>1, <3>2 DEF MemSet
  <2> HIDE DEF r, once, twice
  <2>11. Keeps(m.tis, r.tis) /\ DOMAIN r.tis = 1 .. N
    BY <2>6, <2>7, <2>10
  <2>12. Holds(r.tis, Owners(r, Q))
    <3>1. \A x \in 1 .. N : IF m.tis[i].file \notin shown THEN Owners(r, Q)[x] = H1[x] ELSE Owners(r, Q)[x] = H2[x]
      <4> SUFFICES ASSUME NEW x \in 1 .. N
                   PROVE  IF m.tis[i].file \notin shown THEN Owners(r, Q)[x] = H1[x] ELSE Owners(r, Q)[x] = H2[x]
        OBVIOUS
      <4>1. Owners(r, Q)[x] = Base(r, x) + Q[x]
        BY <2>11 DEF Owners
      <4>2. Count(x \in r.table) = Count(x \in m.table)
        BY <2>9
      <4>3. Count(x \in r.hash) = Count(x \in m.hash) + Count(x = i)
        BY <2>1, <2>10 DEF Count
      <4>4. IF m.tis[i].file \notin shown THEN Count(x \in r.view) = Count(x \in m.view)
            ELSE Count(x \in r.view) = Count(x \in m.view) + Count(x = i)
        BY <2>1, <2>10 DEF Count
      <4>5. Count(x \in m.table) \in Nat /\ Count(x \in m.hash) \in Nat /\ Count(x \in m.view) \in Nat
        BY DEF Count
      <4>6. Count(x \in {i}) = Count(x = i) /\ Count(x = i) \in Nat /\ Q[x] \in Nat
        BY <1>1, <2>4 DEF Count
      <4>7. H1[x] = Base(m, x) + Q[x] + Count(x = i) /\ H2[x] = H1[x] + Count(x = i)
        BY <2>2, <2>4, <2>5
      <4> HIDE DEF Count
      <4> QED  BY <4>1, <4>2, <4>3, <4>4, <4>5, <4>6, <4>7 DEF Base
    <3>2. IF m.tis[i].file \notin shown THEN Holds(r.tis, H1) ELSE Holds(r.tis, H2)
      BY <2>6, <2>7, <2>10
    <3> QED  BY <2>11, <3>1, <3>2 DEF Holds
  <2>13. \A x \in r.table \cup r.hash : r.tis[x].file = m.tis[x].file
    <3> SUFFICES ASSUME NEW x \in r.table \cup r.hash PROVE r.tis[x].file = m.tis[x].file
      OBVIOUS
    <3>1. x \in 1 .. N
      BY <1>1, <2>9, <2>10
    <3> QED  BY <1>1, <2>9, <2>11, <2>12, <3>1, FileStands
  <2>14. Tidy(r, shown)
    <3>1. \A x, y \in r.table : r.tis[x].file = r.tis[y].file => x = y
      BY <2>9, <2>13 DEF Exact, Tidy
    <3>2. \A x, y \in r.hash : r.tis[x].file = r.tis[y].file => x = y
      BY <1>3, <2>10, <2>13 DEF Exact, Tidy
    <3>3. r.view = {x \in r.hash : r.tis[x].file \in shown}
      <4>1. m.view = {x \in m.hash : m.tis[x].file \in shown}
        BY DEF Exact, Tidy
      <4>2. r.view = {x \in r.hash : m.tis[x].file \in shown}
        BY <2>10, <4>1
      <4> QED  BY <2>13, <4>2
    <3> QED  BY <3>1, <3>2, <3>3 DEF Tidy
  <2> QED  BY <1>1, <2>11, <2>12, <2>14 DEF Exact, r
<1> QED  BY <1>2, <1>3

LEMMA RemoveTrackExact ==
    ASSUME NEW S, Closed(S), NEW N \in Nat, NEW m \in MemSet(S, N), NEW sh, NEW Q, Exact(m, sh, Q), NEW i
    PROVE  LET r == lib_remove(m, i)
           IN  /\ Exact(r, sh, Q) /\ Keeps(m.tis, r.tis)
               /\ r.hash = (IF i \in m.view THEN m.hash \ {i} ELSE m.hash)
<1> DEFINE r == lib_remove(m, i)
           e == {j \in m.hash : m.tis[j].file = m.tis[i].file}
           once == UnrefAll(m.tis, {i})
           twice == UnrefAll(once, {i})
           G == Owners(r, Q)
           H1 == [x \in 1 .. N |-> G[x] + Count(x = i)]
           H == [x \in 1 .. N |-> H1[x] + Count(x = i)]
<1>1. /\ m.tis \in Seq(S) /\ DOMAIN m.tis = 1 .. N /\ m.table \subseteq 1 .. N /\ m.hash \subseteq 1 .. N
      /\ m.view \subseteq m.hash /\ \A x \in 1 .. N : Q[x] \in Nat
  <2>1. m.tis \in Seq(S) /\ DOMAIN m.tis = 1 .. N /\ m.table \subseteq 1 .. N /\ m.hash \subseteq 1 .. N
    BY MemFields
  <2> QED  BY <2>1 DEF Exact, Tidy
<1>2. CASE i \notin m.view
  BY <1>2, KeepsSelf DEF lib_remove
<1>3. ASSUME i \in m.view
      PROVE  Exact(r, sh, Q) /\ Keeps(m.tis, r.tis) /\ r.hash = m.hash \ {i}
  <2>1. i \in m.hash /\ i \in 1 .. N /\ e = {i}
    BY <1>1, <1>3 DEF Exact, Tidy
  <2>2. track_info_unref(m.tis, i) = once /\ DOMAIN once = 1 .. N /\ once \in Seq(S)
    <3>1. once \in Seq(S)
      BY <1>1, AllSeq
    <3>2. DOMAIN once = 1 .. N
      BY <1>1 DEF UnrefAll
    <3> QED  BY <1>1, <2>1, <3>1, <3>2, OneOfAll
  <2>3. r.view = m.view \ {i} /\ r.hash = m.hash \ {i} /\ r.tis = twice
    <3>1. r = [m EXCEPT !.view = @ \ {i}, !.hash = @ \ e, !.tis = UnrefAll(track_info_unref(@, i), e)]
      BY <1>3 DEF lib_remove
    <3>2. r = [m EXCEPT !.view = m.view \ {i}, !.hash = m.hash \ {i}, !.tis = twice]
      <4> HIDE DEF once, r, e
      <4> QED  BY <2>1, <2>2, <3>1
    <3> HIDE DEF twice, r
    <3> QED  BY <3>2 DEF MemSet
  <2>4. r \in MemSet(S, N) /\ r.table = m.table
    BY RemoveTrackType
  <2> HIDE DEF r, once
  <2>5. DOMAIN r.tis = 1 .. N
    BY <2>2, <2>3 DEF UnrefAll
  <2>6. \A x \in 1 .. N : /\ G[x] \in Nat /\ Count(x = i) \in {0, 1} /\ Count(x \in {i}) = Count(x = i)
                         /\ Owners(m, Q)[x] = G[x] + Count(x = i) + Count(x = i)
    <3> SUFFICES ASSUME NEW x \in 1 .. N
                 PROVE  /\ G[x] \in Nat /\ Count(x = i) \in {0, 1} /\ Count(x \in {i}) = Count(x = i)
                        /\ Owners(m, Q)[x] = G[x] + Count(x = i) + Count(x = i)
      OBVIOUS
    <3>1. G[x] = Base(r, x) + Q[x] /\ Owners(m, Q)[x] = Base(m, x) + Q[x]
      BY <1>1, <2>5 DEF Owners
    <3>2. Count(x \in m.hash) = Count(x \in r.hash) + Count(x = i)
      BY <2>1, <2>3 DEF Count
    <3>3. Count(x \in m.view) = Count(x \in r.view) + Count(x = i)
      BY <1>3, <2>3 DEF Count
    <3>4. /\ Count(x = i) \in {0, 1} /\ Count(x \in {i}) = Count(x = i)
          /\ Count(x \in m.table) \in Nat /\ Count(x \in r.hash) \in Nat /\ Count(x \in r.view) \in Nat
      BY DEF Count
    <3>5. Q[x] \in Nat /\ Count(x \in r.table) = Count(x \in m.table)
      BY <1>1, <2>4
    <3> HIDE DEF Count, G
    <3> QED  BY <3>1, <3>2, <3>3, <3>4, <3>5 DEF Base
  <2> HIDE DEF G
  <2>7. /\ \A x \in 1 .. N : H1[x] = G[x] + Count(x \in {i}) /\ H1[x] \in Nat
        /\ \A x \in 1 .. N : H[x] = H1[x] + Count(x \in {i}) /\ H[x] = Owners(m, Q)[x]
    <3>1. \A x \in 1 .. N : H1[x] = G[x] + Count(x = i)
      OBVIOUS
    <3>2. \A x \in 1 .. N : H[x] = H1[x] + Count(x = i)
      OBVIOUS
    <3> HIDE DEF H1, H
    <3> QED  BY <2>6, <3>1, <3>2
  <2> HIDE DEF H1, H
  <2>8. Holds(m.tis, H)
    BY <1>1, <2>7 DEF Exact, Holds
  <2>9. Holds(once, H1) /\ Keeps(m.tis, once)
    BY <1>1, <2>7, <2>8, UnrefAllHolds DEF once
  <2>10. Holds(twice, G) /\ Keeps(once, twice)
    <3>1. \A x \in DOMAIN once : G[x] \in Nat /\ H1[x] = G[x] + Count(x \in {i})
      BY <2>2, <2>6, <2>7
    <3>2. once \in Seq(S) /\ Holds(once, H1)
      BY <2>2, <2>9
    <3> HIDE DEF Count
    <3> QED  BY <3>1, <3>2, UnrefAllHolds
  <2>11. Keeps(m.tis, r.tis) /\ Holds(r.tis, Owners(r, Q))
    BY <2>3, <2>9, <2>10, KeepsAgain DEF G
  <2>12. r.view = m.view \cap r.hash
    BY <1>1, <2>3
  <2> QED  BY <1>1, <2>3, <2>4, <2>11, <2>12, StaysTidy DEF r
<1> QED  BY <1>2, <1>3

LEMMA RemoveEntryExact ==
    ASSUME NEW S, Closed(S), NEW N \in Nat, NEW m \in MemSet(S, N), NEW sh, NEW Q, Exact(m, sh, Q), NEW i
    PROVE  LET r == do_cache_remove_ti(m, i)
           IN  Exact(r, sh, Q) /\ Keeps(m.tis, r.tis) /\ r.hash = m.hash
<1> DEFINE r == do_cache_remove_ti(m, i)
           t == UnrefAll(m.tis, {i})
           G == Owners(r, Q)
<1>1. /\ m.tis \in Seq(S) /\ DOMAIN m.tis = 1 .. N /\ m.table \subseteq 1 .. N /\ m.hash \subseteq 1 .. N
      /\ m.view \subseteq m.hash /\ \A x \in 1 .. N : Q[x] \in Nat
  <2>1. m.tis \in Seq(S) /\ DOMAIN m.tis = 1 .. N /\ m.table \subseteq 1 .. N /\ m.hash \subseteq 1 .. N
    BY MemFields
  <2> QED  BY <2>1 DEF Exact, Tidy
<1>2. CASE i \notin m.table
  BY <1>2, KeepsSelf DEF do_cache_remove_ti
<1>3. ASSUME i \in m.table
      PROVE  Exact(r, sh, Q) /\ Keeps(m.tis, r.tis) /\ r.hash = m.hash
  <2>1. i \in 1 .. N
    BY <1>1, <1>3
  <2>2. track_info_unref(m.tis, i) = t /\ DOMAIN t = 1 .. N
    BY <1>1, <2>1, OneOfAll DEF UnrefAll
  <2>3. r.hash = m.hash /\ r.view = m.view /\ r.tis = t
    <3> DEFINE u == track_info_unref(m.tis, i)
    <3>1. r = [m EXCEPT !.table = m.table \ {i}, !.total = m.total - 1, !.changed = TRUE, !.tis = u]
      BY <1>3 DEF do_cache_remove_ti
    <3> HIDE DEF u, r, t
    <3>2. r.hash = m.hash /\ r.view = m.view /\ r.tis = u
      BY <3>1 DEF MemSet
    <3> QED  BY <2>2, <3>2 DEF u
  <2>4. r \in MemSet(S, N) /\ r.table = m.table \ {i}
    BY RemoveEntryType
  <2> HIDE DEF r, t
  <2>6. \A x \in 1 .. N : G[x] \in Nat /\ Owners(m, Q)[x] = G[x] + Count(x \in {i})
    <3> SUFFICES ASSUME NEW x \in 1 .. N
                 PROVE  G[x] \in Nat /\ Owners(m, Q)[x] = G[x] + Count(x \in {i})
      OBVIOUS
    <3>1. G[x] = Base(r, x) + Q[x] /\ Owners(m, Q)[x] = Base(m, x) + Q[x]
      BY <1>1, <2>2, <2>3 DEF Owners
    <3>2. Count(x \in m.table) = Count(x \in r.table) + Count(x \in {i})
      BY <1>3, <2>4 DEF Count
    <3>3. Count(x \in m.hash) = Count(x \in r.hash) /\ Count(x \in m.view) = Count(x \in r.view)
      BY <2>3
    <3>4. /\ Count(x \in {i}) \in Nat
          /\ Count(x \in r.table) \in Nat /\ Count(x \in r.hash) \in Nat /\ Count(x \in r.view) \in Nat
      BY DEF Count
    <3>5. Q[x] \in Nat
      BY <1>1
    <3> HIDE DEF Count, G
    <3> QED  BY <3>1, <3>2, <3>3, <3>4, <3>5 DEF Base
  <2> HIDE DEF G
  <2>8. Holds(m.tis, Owners(m, Q))
    BY DEF Exact
  <2>9. Holds(t, G) /\ Keeps(m.tis, t)
    BY <1>1, <2>6, <2>8, UnrefAllHolds DEF t
  <2>11. Keeps(m.tis, r.tis) /\ Holds(r.tis, Owners(r, Q))
    BY <2>3, <2>9 DEF G
  <2>12. r.view = m.view \cap r.hash /\ r.table \subseteq m.table
    BY <1>1, <2>3, <2>4
  <2> QED  BY <1>1, <2>3, <2>4, <2>11, <2>12, StaysTidy DEF r
<1> QED  BY <1>2, <1>3

LEMMA AddNewExact ==
    ASSUME NEW S, Closed(S), NEW N \in Nat, NEW m \in MemSet(S, N), NEW sh, NEW Q, Exact(m, sh, Q),
           NEW ti \in S, NEW P, Held(ti, 1 + P[N + 1]), P[N + 1] \in Nat, \A x \in 1 .. N : P[x] = Q[x],
           \A x \in m.table : m.tis[x].file # ti.file
    PROVE  LET r == AddNew(m, ti)
           IN  /\ Exact(r, sh, P) /\ Keeps(m.tis, r.tis) /\ r.hash = m.hash
               /\ r.tis[N + 1].file = ti.file
<1> DEFINE r == AddNew(m, ti)
           t == Append(m.tis, ti)
<1>1. /\ m.tis \in Seq(S) /\ DOMAIN m.tis = 1 .. N /\ m.table \subseteq 1 .. N /\ m.hash \subseteq 1 .. N
      /\ m.view \subseteq m.hash /\ Len(m.tis) = N /\ \A x \in 1 .. N : Q[x] \in Nat
  <2>1. m.tis \in Seq(S) /\ DOMAIN m.tis = 1 .. N /\ Len(m.tis) = N /\ m.table \subseteq 1 .. N /\ m.hash \subseteq 1 .. N
    BY MemFields
  <2> QED  BY <2>1 DEF Exact, Tidy
<1>2. r \in MemSet(S, N + 1) /\ r.table = m.table \cup {N + 1}
  BY AddNewType
<1>3. /\ DOMAIN t = 1 .. N + 1 /\ t[N + 1] = ti /\ \A x \in 1 .. N : t[x] = m.tis[x]
  BY <1>1
<1>4. r.hash = m.hash /\ r.view = m.view /\ r.tis = t
  <2>1. r = [m EXCEPT !.tis = t, !.table = @ \cup {Len(m.tis) + 1}, !.total = @ + 1, !.changed = TRUE]
    BY DEF AddNew
  <2> HIDE DEF r, t
  <2> QED  BY <2>1 DEF MemSet
<1> HIDE DEF r, t
<1>5. \A x \in 1 .. N : Owners(r, P)[x] = Owners(m, Q)[x]
  <2> SUFFICES ASSUME NEW x \in 1 .. N PROVE Owners(r, P)[x] = Owners(m, Q)[x]
    OBVIOUS
  <2>1. x \in r.table <=> x \in m.table
    BY <1>2
  <2>2. Base(r, x) = Base(m, x)
    BY <1>4, <2>1 DEF Base, Count
  <2> QED  BY <1>1, <1>3, <1>4, <2>2 DEF Owners
<1>6. Owners(r, P)[N + 1] = 1 + P[N + 1]
  <2>1. N + 1 \in r.table /\ N + 1 \notin r.hash /\ N + 1 \notin r.view /\ N + 1 \in 1 .. N + 1
    BY <1>1, <1>2, <1>4
  <2>2. Base(r, N + 1) = 1
    BY <2>1 DEF Base, Count
  <2> QED  BY <1>3, <1>4, <2>1, <2>2 DEF Owners
<1>7. Holds(r.tis, Owners(r, P))
  <2>1. ASSUME NEW x \in 1 .. N + 1 PROVE Held(r.tis[x], Owners(r, P)[x])
    <3>1. CASE x = N + 1
      BY <1>3, <1>4, <1>6, <3>1
    <3>2. CASE x \in 1 .. N
      BY <1>1, <1>3, <1>4, <1>5, <3>2 DEF Exact, Holds
    <3> QED  BY <3>1, <3>2
  <2> QED  BY <1>3, <1>4, <2>1 DEF Holds
<1>8. Keeps(m.tis, r.tis)
  <2>1. DOMAIN m.tis \subseteq DOMAIN r.tis
    BY <1>1, <1>3, <1>4
  <2>2. \A x \in DOMAIN m.tis : r.tis[x] = m.tis[x]
    BY <1>1, <1>3, <1>4
  <2> QED  BY <2>1, <2>2 DEF Keeps, Kept
<1>9. Tidy(r, sh)
  <2>1. \A x \in m.table \cup m.hash : r.tis[x].file = m.tis[x].file
    BY <1>1, <1>3, <1>4
  <2>2. r.tis[N + 1].file = ti.file
    BY <1>3, <1>4
  <2>3. /\ \A x, y \in m.table : m.tis[x].file = m.tis[y].file => x = y
        /\ \A x, y \in m.hash : m.tis[x].file = m.tis[y].file => x = y
        /\ m.view = {x \in m.hash : m.tis[x].file \in sh}
    BY DEF Exact, Tidy
  <2>4. \A x, y \in r.table : r.tis[x].file = r.tis[y].file => x = y
    BY <1>2, <2>1, <2>2, <2>3
  <2>5. \A x, y \in r.hash : r.tis[x].file = r.tis[y].file => x = y
    BY <1>4, <2>1, <2>3
  <2>6. r.view = {x \in r.hash : r.tis[x].file \in sh}
    BY <1>4, <2>1, <2>3
  <2> QED  BY <2>4, <2>5, <2>6 DEF Tidy
<1>10. \A x \in 1 .. N + 1 : P[x] \in Nat
  BY <1>1
<1> QED  BY <1>3, <1>4, <1>7, <1>8, <1>9, <1>10 DEF Exact, r

-----------------------------------------------------------------------------
(* The folds                                                               *)

LEMMA ExactSame ==
    ASSUME NEW S, Closed(S), NEW N \in Nat, NEW m \in MemSet(S, N), NEW sh, NEW Q, NEW P, Exact(m, sh, Q),
           \A x \in 1 .. N : P[x] = Q[x]
    PROVE  Exact(m, sh, P)
<1>1. DOMAIN m.tis = 1 .. N
  BY MemFields
<1>2. Owners(m, P) = Owners(m, Q)
  BY <1>1 DEF Owners
<1> QED  BY <1>1, <1>2 DEF Exact

LEMMA AddAndUnrefExact ==
    ASSUME NEW S, Closed(S), NEW N \in Nat, NEW m \in MemSet(S, N), NEW Q, NEW P, Exact(m, shown, Q),
           NEW i \in 1 .. N, OneLess(N, Q, P, i)
    PROVE  LET r == AddAndUnref(m, i)
           IN  Exact(r, shown, P) /\ Keeps(m.tis, r.tis)
<1> DEFINE a == lib_add_track(m, i)
           r == [a EXCEPT !.tis = track_info_unref(a.tis, i)]
<1>0. \A x \in 1 .. N : P[x] \in Nat /\ Q[x] = P[x] + Count(x = i)
  BY DEF OneLess
<1>1. Q[i] > 0
  BY <1>0 DEF Count
<1>2. a \in MemSet(S, N) /\ Exact(a, shown, Q) /\ Keeps(m.tis, a.tis)
  BY <1>1, AddTrackType, AddTrackExact
<1>3. AddAndUnref(m, i) = r
  BY DEF AddAndUnref
<1> HIDE DEF a
<1>4. Exact(r, shown, P) /\ Keeps(a.tis, r.tis)
  BY <1>2, UnrefExact
<1> HIDE DEF r
<1>5. Keeps(m.tis, r.tis)
  BY <1>2, <1>4, KeepsAgain
<1> QED  BY <1>3, <1>4, <1>5

(* flush_ti_buffer gives its references back.                              *)
LEMMA FlushExact ==
    ASSUME NEW S, Closed(S), NEW N \in Nat, NEW m \in MemSet(S, N), NEW seq \in Seq(1 .. N), IsInjective(seq),
           NEW Q, NEW P, Exact(m, shown, Q),
           \A x \in 1 .. N : P[x] \in Nat /\ Q[x] = P[x] + Count(x \in ToSet(seq))
    PROVE  LET r == FoldLeft(AddAndUnref, m, seq)
           IN  Exact(r, shown, P) /\ Keeps(m.tis, r.tis)
<1> DEFINE L == Len(seq)
           Left(k, x) == \E y \in k + 1 .. L : seq[y] = x
           R(k) == [x \in 1 .. N |-> P[x] + Count(Left(k, x))]
<1>1. L \in Nat /\ DOMAIN seq = 1 .. L /\ \A y \in 1 .. L : seq[y] \in 1 .. N
  OBVIOUS
<1>2. PICK g : FlushRun(S, N, m, seq, g)
  BY FlushSteps
<1>3. /\ g[0] = m /\ g[L] = FoldLeft(AddAndUnref, m, seq)
      /\ \A k \in 1 .. L : g[k] = AddAndUnref(g[k - 1], seq[k])
      /\ \A k \in 0 .. L : g[k] \in MemSet(S, N)
  BY <1>2 DEF FlushRun, SameCache
<1> DEFINE T == {k \in Nat : k <= L => Exact(g[k], shown, R(k)) /\ Keeps(m.tis, g[k].tis)}
<1>4. 0 \in T
  <2>1. \A x \in 1 .. N : Left(0, x) <=> x \in ToSet(seq)
    BY <1>1 DEF ToSet
  <2>2. \A x \in 1 .. N : R(0)[x] = Q[x]
    BY <2>1 DEF Count
  <2> HIDE DEF R
  <2>3. Exact(m, shown, R(0))
    BY <2>2, ExactSame
  <2> QED  BY <1>3, <2>3, KeepsSelf
<1>5. ASSUME NEW k \in Nat, k \in T
      PROVE  k + 1 \in T
  <2> SUFFICES ASSUME k + 1 <= L PROVE Exact(g[k + 1], shown, R(k + 1)) /\ Keeps(m.tis, g[k + 1].tis)
    OBVIOUS
  <2>1. k \in 0 .. L /\ k + 1 \in 1 .. L /\ seq[k + 1] \in 1 .. N
    BY <1>1
  <2>2. Exact(g[k], shown, R(k)) /\ Keeps(m.tis, g[k].tis)
    BY <1>5, <2>1
  <2>3. \A x \in 1 .. N : R(k + 1)[x] \in Nat /\ R(k)[x] = R(k + 1)[x] + Count(x = seq[k + 1])
    <3> SUFFICES ASSUME NEW x \in 1 .. N
                 PROVE  R(k + 1)[x] \in Nat /\ R(k)[x] = R(k + 1)[x] + Count(x = seq[k + 1])
      OBVIOUS
    <3>1. R(k)[x] = P[x] + Count(Left(k, x)) /\ R(k + 1)[x] = P[x] + Count(Left(k + 1, x)) /\ P[x] \in Nat
      OBVIOUS
    <3>2. Left(k, x) <=> Left(k + 1, x) \/ x = seq[k + 1]
      BY <1>1, <2>1
    <3>3. ~ (Left(k + 1, x) /\ x = seq[k + 1])
      <4> SUFFICES ASSUME NEW y \in (k + 1) + 1 .. L, seq[y] = seq[k + 1] PROVE FALSE
        OBVIOUS
      <4>1. y \in DOMAIN seq /\ k + 1 \in DOMAIN seq /\ y # k + 1
        BY <1>1, <2>1
      <4> QED  BY <4>1 DEF IsInjective
    <3> HIDE DEF Left, R
    <3> QED  BY <3>1, <3>2, <3>3 DEF Count
  <2>4. g[k + 1] = AddAndUnref(g[k], seq[k + 1]) /\ g[k] \in MemSet(S, N)
    <3>1. (k + 1) - 1 = k
      OBVIOUS
    <3> QED  BY <1>3, <2>1, <3>1
  <2> HIDE DEF R, T
  <2>5. Exact(g[k + 1], shown, R(k + 1)) /\ Keeps(g[k].tis, g[k + 1].tis)
    <3> DEFINE c == g[k]
               i == seq[k + 1]
               G == R(k + 1)
               H == R(k)
    <3>0. c \in MemSet(S, N) /\ Exact(c, shown, H) /\ i \in 1 .. N
      BY <2>1, <2>2, <2>4
    <3>1. OneLess(N, H, G, i)
      BY <2>3 DEF OneLess
    <3> HIDE DEF c, i, G, H, L, Left
    <3>2. Exact(AddAndUnref(c, i), shown, G) /\ Keeps(c.tis, AddAndUnref(c, i).tis)
      BY <3>0, <3>1, AddAndUnrefExact
    <3> QED  BY <2>4, <3>2 DEF c, i, G
  <2> QED  BY <2>2, <2>5, KeepsAgain
<1>6. L \in T
  <2> HIDE DEF T
  <2> QED  BY <1>1, <1>4, <1>5, SetInduction
<1>7. Exact(g[L], shown, R(L)) /\ Keeps(m.tis, g[L].tis)
  BY <1>1, <1>6
<1>8. \A x \in 1 .. N : P[x] = R(L)[x]
  <2>1. \A x : ~Left(L, x)
    BY <1>1
  <2> QED  BY <2>1 DEF Count
<1> HIDE DEF R
<1>9. Exact(g[L], shown, P)
  <2>1. L \in 0 .. L
    BY <1>1
  <2> QED  BY <1>3, <1>7, <1>8, <2>1, ExactSame
<1> QED  BY <1>3, <1>7, <1>9

(* A slot of update-cache holds x.                                         *)
Has(e, x) == e.held /\ x \in {e.ti, e.next}
ReleasedBy(N, Q, P, e) == \A x \in 1 .. N : P[x] \in Nat /\ Q[x] = P[x] + Count(Has(e, x))

(* A track of update-cache gives both its references back.                 *)
LEMMA ReplaceExact ==
    ASSUME NEW S, Closed(S), NEW N \in Nat, NEW m \in MemSet(S, N), NEW Q, NEW P, Exact(m, shown, Q),
           NEW e \in Slots(N), e.held => e.next # e.ti,
           ReleasedBy(N, Q, P, e)
    PROVE  LET r == ReplaceTrack(m, e)
           IN  Exact(r, shown, P) /\ Keeps(m.tis, r.tis)
<1> DEFINE b == lib_remove(m, e.ti)
           a == IF b # m /\ e.next # 0 THEN lib_add_track(b, e.next) ELSE b
           once == [a EXCEPT !.tis = track_info_unref(a.tis, e.ti)]
           twice == [once EXCEPT !.tis = track_info_unref(once.tis, e.next)]
           R == [x \in 1 .. N |-> P[x] + Count(x = e.next)]
<1>0. \A x \in 1 .. N : P[x] \in Nat /\ Q[x] = P[x] + Count(e.held /\ x \in {e.ti, e.next})
  BY DEF ReleasedBy, Has
<1>1. CASE ~e.held
  <2>1. ReplaceTrack(m, e) = m
    BY <1>1 DEF ReplaceTrack
  <2>2. \A x \in 1 .. N : P[x] = Q[x]
    BY <1>0, <1>1 DEF Count
  <2> QED  BY <2>1, <2>2, ExactSame, KeepsSelf
<1>2. ASSUME e.held
      PROVE  LET r == ReplaceTrack(m, e) IN Exact(r, shown, P) /\ Keeps(m.tis, r.tis)
  <2>1. e.ti \in 1 .. N /\ e.next \in 0 .. N /\ e.next # e.ti
    BY <1>2 DEF Slots
  <2>2. \A x \in 1 .. N : /\ R[x] \in Nat /\ P[x] \in Nat /\ R[x] = P[x] + Count(x = e.next)
                         /\ Q[x] = R[x] + Count(x = e.ti)
    BY <1>0, <1>2, <2>1 DEF Count
  <2>3. (e.next # 0 => Q[e.next] > 0) /\ (e.next = 0 => \A x \in 1 .. N : P[x] = R[x])
    BY <1>0, <1>2, <2>1, <2>2 DEF Count
  <2> HIDE DEF R
  <2>4. b \in MemSet(S, N) /\ Exact(b, shown, Q) /\ Keeps(m.tis, b.tis)
    BY RemoveTrackType, RemoveTrackExact
  <2> HIDE DEF b
  <2>5. a \in MemSet(S, N) /\ Exact(a, shown, Q) /\ Keeps(b.tis, a.tis)
    <3>1. CASE b # m /\ e.next # 0
      <4>1. e.next \in 1 .. N
        BY <2>1, <3>1
      <4> QED  BY <2>3, <2>4, <3>1, <4>1, AddTrackType, AddTrackExact
    <3>2. CASE ~(b # m /\ e.next # 0)
      BY <2>4, <3>2, KeepsSelf
    <3> QED  BY <3>1, <3>2
  <2> HIDE DEF a
  <2>6. once \in MemSet(S, N) /\ Exact(once, shown, R) /\ Keeps(a.tis, once.tis)
    <3> DEFINE i == e.ti
    <3>1. i \in 1 .. N /\ OneLess(N, Q, R, i)
      BY <2>1, <2>2 DEF OneLess
    <3> HIDE DEF i
    <3> DEFINE u == [a EXCEPT !.tis = track_info_unref(a.tis, i)]
    <3>2. u \in MemSet(S, N) /\ Exact(u, shown, R) /\ Keeps(a.tis, u.tis)
      BY <2>5, <3>1, UnrefExact
    <3> QED  BY <3>2 DEF i
  <2>7. Keeps(m.tis, once.tis)
    <3> HIDE DEF once
    <3>1. Keeps(m.tis, a.tis)
      BY <2>4, <2>5, KeepsAgain
    <3> QED  BY <2>6, <3>1, KeepsAgain
  <2>8. ReplaceTrack(m, e) = IF e.next = 0 THEN once ELSE twice
    <3> DEFINE t1 == track_info_unref(a.tis, e.ti)
               t2 == track_info_unref(t1, e.next)
    <3>1. ReplaceTrack(m, e) = [a EXCEPT !.tis = IF e.next = 0 THEN t1 ELSE t2]
      BY <1>2 DEF ReplaceTrack, a, b
    <3>2. once.tis = t1
      <4>1. once = [a EXCEPT !.tis = t1]
        OBVIOUS
      <4> HIDE DEF t1, once
      <4> QED  BY <2>5, <4>1 DEF MemSet
    <3>3. twice = [once EXCEPT !.tis = t2]
      BY <3>2
    <3>4. [once EXCEPT !.tis = t2] = [a EXCEPT !.tis = t2]
      <4> HIDE DEF t1, t2
      <4> QED  BY <2>5 DEF MemSet
    <3> HIDE DEF t2
    <3> QED  BY <3>1, <3>3, <3>4
  <2> HIDE DEF once
  <2>9. CASE e.next = 0
    BY <2>3, <2>6, <2>7, <2>8, <2>9, ExactSame
  <2>10. CASE e.next # 0
    <3>1. e.next \in 1 .. N
      BY <2>1, <2>10
    <3>2. Exact(twice, shown, P) /\ Keeps(once.tis, twice.tis)
      <4> DEFINE i == e.next
      <4>1. i \in 1 .. N /\ OneLess(N, R, P, i)
        BY <2>2, <3>1 DEF OneLess
      <4> HIDE DEF i
      <4> DEFINE u == [once EXCEPT !.tis = track_info_unref(once.tis, i)]
      <4>2. Exact(u, shown, P) /\ Keeps(once.tis, u.tis)
        BY <2>6, <4>1, UnrefExact
      <4> QED  BY <4>2 DEF i
    <3> HIDE DEF twice
    <3> QED  BY <2>7, <2>8, <2>10, <3>2, KeepsAgain
  <2> QED  BY <2>9, <2>10
<1> QED  BY <1>1, <1>2

(* All the tracks of update-cache give their references back.              *)
LEMMA ReplaceAllExact ==
    ASSUME NEW S, Closed(S), NEW N \in Nat, NEW m \in MemSet(S, N), NEW seq \in Seq(Slots(N)),
           \A y, z \in DOMAIN seq : \A x \in 1 .. N : Has(seq[y], x) /\ Has(seq[z], x) => y = z,
           \A y \in DOMAIN seq : seq[y].held => seq[y].next # seq[y].ti,
           NEW Q, NEW P, Exact(m, shown, Q),
           \A x \in 1 .. N : P[x] \in Nat /\ Q[x] = P[x] + Count(\E y \in DOMAIN seq : Has(seq[y], x))
    PROVE  LET r == FoldLeft(ReplaceTrack, m, seq)
           IN  Exact(r, shown, P) /\ Keeps(m.tis, r.tis)
<1> DEFINE L == Len(seq)
           Left(k, x) == \E y \in k + 1 .. L : Has(seq[y], x)
           R(k) == [x \in 1 .. N |-> P[x] + Count(Left(k, x))]
<1>1. L \in Nat /\ DOMAIN seq = 1 .. L /\ \A y \in 1 .. L : seq[y] \in Slots(N)
  OBVIOUS
<1>2. PICK g : ReplaceRun(S, N, m, seq, g)
  BY ReplaceSteps
<1>3. /\ g[0] = m /\ g[L] = FoldLeft(ReplaceTrack, m, seq)
      /\ \A k \in 1 .. L : g[k] = ReplaceTrack(g[k - 1], seq[k])
      /\ \A k \in 0 .. L : g[k] \in MemSet(S, N)
  BY <1>2 DEF ReplaceRun, SameCache
<1> DEFINE T == {k \in Nat : k <= L => Exact(g[k], shown, R(k)) /\ Keeps(m.tis, g[k].tis)}
<1>4. 0 \in T
  <2>1. \A x \in 1 .. N : Left(0, x) <=> \E y \in DOMAIN seq : Has(seq[y], x)
    BY <1>1
  <2>2. \A x \in 1 .. N : R(0)[x] = Q[x]
    BY <2>1 DEF Count
  <2> HIDE DEF R
  <2>3. Exact(m, shown, R(0))
    BY <2>2, ExactSame
  <2> QED  BY <1>3, <2>3, KeepsSelf
<1>5. ASSUME NEW k \in Nat, k \in T
      PROVE  k + 1 \in T
  <2> SUFFICES ASSUME k + 1 <= L PROVE Exact(g[k + 1], shown, R(k + 1)) /\ Keeps(m.tis, g[k + 1].tis)
    OBVIOUS
  <2>1. k \in 0 .. L /\ k + 1 \in 1 .. L /\ seq[k + 1] \in Slots(N)
    BY <1>1
  <2>2. Exact(g[k], shown, R(k)) /\ Keeps(m.tis, g[k].tis)
    BY <1>5, <2>1
  <2>3. \A x \in 1 .. N : R(k + 1)[x] \in Nat /\ R(k)[x] = R(k + 1)[x] + Count(Has(seq[k + 1], x))
    <3> SUFFICES ASSUME NEW x \in 1 .. N
                 PROVE  R(k + 1)[x] \in Nat /\ R(k)[x] = R(k + 1)[x] + Count(Has(seq[k + 1], x))
      OBVIOUS
    <3>1. R(k)[x] = P[x] + Count(Left(k, x)) /\ R(k + 1)[x] = P[x] + Count(Left(k + 1, x)) /\ P[x] \in Nat
      OBVIOUS
    <3>2. Left(k, x) <=> Left(k + 1, x) \/ Has(seq[k + 1], x)
      BY <1>1, <2>1
    <3>3. ~ (Left(k + 1, x) /\ Has(seq[k + 1], x))
      <4> SUFFICES ASSUME NEW y \in (k + 1) + 1 .. L, Has(seq[y], x), Has(seq[k + 1], x) PROVE FALSE
        OBVIOUS
      <4>1. y \in DOMAIN seq /\ k + 1 \in DOMAIN seq /\ y # k + 1
        BY <1>1, <2>1
      <4> QED  BY <4>1
    <3> HIDE DEF Left, R
    <3> QED  BY <3>1, <3>2, <3>3 DEF Count
  <2>4. g[k + 1] = ReplaceTrack(g[k], seq[k + 1]) /\ g[k] \in MemSet(S, N)
    <3>1. (k + 1) - 1 = k
      OBVIOUS
    <3> QED  BY <1>3, <2>1, <3>1
  <2> HIDE DEF R, T
  <2>5. Exact(g[k + 1], shown, R(k + 1)) /\ Keeps(g[k].tis, g[k + 1].tis)
    <3> DEFINE c == g[k]
               e == seq[k + 1]
               G == R(k + 1)
               H == R(k)
    <3>0. c \in MemSet(S, N) /\ Exact(c, shown, H) /\ e \in Slots(N) /\ (e.held => e.next # e.ti)
      BY <1>1, <2>1, <2>2, <2>4
    <3>1. ReleasedBy(N, H, G, e)
      BY <2>3 DEF ReleasedBy, Has
    <3> HIDE DEF c, e, G, H, L, Left
    <3>2. Exact(ReplaceTrack(c, e), shown, G) /\ Keeps(c.tis, ReplaceTrack(c, e).tis)
      BY <3>0, <3>1, ReplaceExact
    <3> QED  BY <2>4, <3>2 DEF c, e, G
  <2> QED  BY <2>2, <2>5, KeepsAgain
<1>6. L \in T
  <2> HIDE DEF T
  <2> QED  BY <1>1, <1>4, <1>5, SetInduction
<1>7. Exact(g[L], shown, R(L)) /\ Keeps(m.tis, g[L].tis)
  BY <1>1, <1>6
<1>8. \A x \in 1 .. N : P[x] = R(L)[x]
  <2>1. \A x : ~Left(L, x)
    BY <1>1
  <2> QED  BY <2>1 DEF Count
<1> HIDE DEF R
<1>9. Exact(g[L], shown, P)
  <2>1. L \in 0 .. L
    BY <1>1
  <2> QED  BY <1>3, <1>7, <1>8, <2>1, ExactSame
<1> QED  BY <1>3, <1>7, <1>9

-----------------------------------------------------------------------------
(* Jobs in the queue                                                       *)

Wants(j, x) == j.kind = "update" /\ x \in ToSet(j.tis)
Asked(q, x) == Cardinality({k \in DOMAIN q : Wants(q[k], x)})

LEMMA FiniteUpTo ==
    ASSUME NEW n \in Int, NEW A \in SUBSET (1 .. n)
    PROVE  IsFiniteSet(A) /\ Cardinality(A) \in Nat
<1>1. IsFiniteSet(1 .. n)
  BY FS_Interval
<1>2. IsFiniteSet(A)
  BY <1>1, FS_Subset
<1> QED  BY <1>2, FS_CardinalityType

LEMMA AskedType ==
    ASSUME NEW J, NEW q \in Seq(J), NEW x
    PROVE  Asked(q, x) \in Nat
<1>1. {k \in DOMAIN q : Wants(q[k], x)} \in SUBSET (1 .. Len(q)) /\ Len(q) \in Int
  OBVIOUS
<1> QED  BY <1>1, FiniteUpTo DEF Asked

LEMMA AskedEmpty == \A x : Asked(<< >>, x) = 0
<1> SUFFICES ASSUME NEW x PROVE Asked(<< >>, x) = 0
  OBVIOUS
<1>1. {k \in DOMAIN << >> : Wants(<< >>[k], x)} = {}
  OBVIOUS
<1> QED  BY <1>1, FS_EmptySet DEF Asked

LEMMA AskedAppend ==
    ASSUME NEW J, NEW q \in Seq(J), NEW j \in J, NEW x
    PROVE  Asked(Append(q, j), x) = Asked(q, x) + Count(Wants(j, x))
<1> DEFINE p == Append(q, j)
           n == Len(q)
           A == {k \in DOMAIN q : Wants(q[k], x)}
           B == {k \in DOMAIN p : Wants(p[k], x)}
<1>1. n \in Nat /\ DOMAIN q = 1 .. n /\ DOMAIN p = 1 .. n + 1 /\ p[n + 1] = j /\ \A k \in 1 .. n : p[k] = q[k]
  OBVIOUS
<1>2. IsFiniteSet(A) /\ Cardinality(A) \in Nat /\ n + 1 \notin A
  <2>1. A \in SUBSET (1 .. n)
    BY <1>1
  <2> HIDE DEF A, n
  <2>2. n \in Int /\ n + 1 \notin 1 .. n
    BY <1>1
  <2>3. IsFiniteSet(A) /\ Cardinality(A) \in Nat
    BY <2>1, <2>2, FiniteUpTo
  <2> QED  BY <2>1, <2>2, <2>3
<1>a. Asked(p, x) = Cardinality(B) /\ Asked(q, x) = Cardinality(A)
  BY DEF Asked
<1> HIDE DEF p, n
<1>3. CASE Wants(j, x)
  <2>1. B = A \cup {n + 1}
    BY <1>1, <1>3
  <2>2. Cardinality(A \cup {n + 1}) = Cardinality(A) + 1
    <3> HIDE DEF A
    <3> QED  BY <1>2, FS_AddElement
  <2> HIDE DEF A, B
  <2> QED  BY <1>a, <1>3, <2>1, <2>2 DEF Count, p
<1>4. CASE ~ Wants(j, x)
  <2>1. B = A
    BY <1>1, <1>4
  <2> HIDE DEF A, B
  <2> QED  BY <1>a, <1>2, <1>4, <2>1 DEF Count, p
<1> QED  BY <1>3, <1>4

LEMMA AskedTail ==
    ASSUME NEW J, NEW q \in Seq(J), q # << >>, NEW x
    PROVE  Asked(q, x) = Asked(Tail(q), x) + Count(Wants(Head(q), x))
<1> DEFINE p == Tail(q)
           n == Len(q)
           A == {k \in DOMAIN p : Wants(p[k], x)}
           B == {k \in DOMAIN q : Wants(q[k], x)}
           f == [k \in A |-> k + 1]
<1>1. n \in Nat /\ n > 0 /\ DOMAIN q = 1 .. n /\ DOMAIN p = 1 .. n - 1 /\ \A k \in 1 .. n - 1 : p[k] = q[k + 1]
  OBVIOUS
<1>2. A \in SUBSET (1 .. n - 1) /\ B \in SUBSET (1 .. n) /\ n - 1 \in Int
  BY <1>1
<1>3. \A k \in 1 .. n - 1 : k \in A <=> k + 1 \in B
  BY <1>1
<1>4. 1 \in B <=> Wants(Head(q), x)
  BY <1>1
<1>5. Asked(q, x) = Cardinality(B) /\ Asked(Tail(q), x) = Cardinality(A)
  BY DEF Asked
<1> HIDE DEF A, B, p, n
<1>6. IsFiniteSet(A) /\ IsFiniteSet(B) /\ Cardinality(A) \in Nat /\ Cardinality(B) \in Nat
  <2>0. n \in Int /\ B \in SUBSET (1 .. n)
    BY <1>1, <1>2
  <2>1. IsFiniteSet(B) /\ Cardinality(B) \in Nat
    BY <2>0, FiniteUpTo
  <2> DEFINE l == n - 1
  <2>2. l \in Int /\ A \in SUBSET (1 .. l)
    BY <1>2
  <2> HIDE DEF l
  <2>3. IsFiniteSet(A) /\ Cardinality(A) \in Nat
    BY <2>2, FiniteUpTo
  <2> QED  BY <2>1, <2>3
<1>7. Cardinality(B \ {1}) = Cardinality(A)
  <2>1. f \in [A -> B \ {1}]
    BY <1>1, <1>2, <1>3
  <2>2. \A j, k \in A : f[j] = f[k] => j = k
    BY <1>1, <1>2
  <2>3. \A k \in B \ {1} : \E j \in A : f[j] = k
    <3> SUFFICES ASSUME NEW k \in B \ {1} PROVE k - 1 \in A /\ f[k - 1] = k
      OBVIOUS
    <3>1. k - 1 \in 1 .. n - 1 /\ (k - 1) + 1 = k
      BY <1>1, <1>2
    <3>2. k - 1 \in A
      BY <1>3, <3>1
    <3> QED  BY <3>1, <3>2
  <2> HIDE DEF f
  <2>4. ExistsBijection(A, B \ {1})
    BY <2>1, <2>2, <2>3 DEF ExistsBijection, Bijection, Injection, Surjection, IsInjective
  <2> QED  BY <1>6, <2>4, FS_Bijection
<1>8. Cardinality(B \ {1}) = IF 1 \in B THEN Cardinality(B) - 1 ELSE Cardinality(B)
  BY <1>6, FS_RemoveElement
<1> QED  BY <1>4, <1>5, <1>6, <1>7, <1>8 DEF Count

-----------------------------------------------------------------------------
(* Jobs thrown away lose their references                                  *)

LEMMA LoseFoldHolds ==
    ASSUME NEW S, Closed(S), NEW t \in Seq(S), NEW E, NEW seq \in Seq(E), NEW H, NEW G, Holds(t, H),
           \A x \in DOMAIN t : /\ G[x] \in Nat
                               /\ H[x] = G[x] + Cardinality({y \in DOMAIN seq : x \in seq[y]})
    PROVE  LET r == FoldLeft(LoseAll, t, seq)
           IN  Holds(r, G) /\ Keeps(t, r)
<1> DEFINE L == Len(seq)
           A(k, x) == {y \in k + 1 .. L : x \in seq[y]}
           R(k) == [x \in DOMAIN t |-> G[x] + Cardinality(A(k, x))]
<1>1. L \in Nat /\ DOMAIN seq = 1 .. L
  OBVIOUS
<1>2. PICK g : LoseRun(S, t, seq, g)
  BY LoseSteps
<1>3. /\ g[0] = t /\ g[L] = FoldLeft(LoseAll, t, seq)
      /\ \A k \in 1 .. L : g[k] = LoseAll(g[k - 1], seq[k])
      /\ \A k \in 0 .. L : g[k] \in Seq(S) /\ DOMAIN g[k] = DOMAIN t
  <2>1. \A k \in 0 .. L : g[k] \in Seq(S) /\ Len(g[k]) = Len(t)
    BY <1>2 DEF LoseRun, SameLength
  <2> QED  BY <1>2, <2>1 DEF LoseRun
<1> DEFINE T == {k \in Nat : k <= L => Holds(g[k], R(k)) /\ Keeps(t, g[k])}
<1>4. 0 \in T
  <2>1. \A x \in DOMAIN t : R(0)[x] = H[x]
    <3> SUFFICES ASSUME NEW x \in DOMAIN t PROVE R(0)[x] = H[x]
      OBVIOUS
    <3>1. A(0, x) = {y \in DOMAIN seq : x \in seq[y]}
      BY <1>1
    <3> QED  BY <3>1
  <2> HIDE DEF R
  <2>2. Holds(t, R(0))
    BY <2>1 DEF Holds
  <2> QED  BY <1>3, <2>2, KeepsSelf
<1>5. ASSUME NEW k \in Nat, k \in T
      PROVE  k + 1 \in T
  <2> SUFFICES ASSUME k + 1 <= L PROVE Holds(g[k + 1], R(k + 1)) /\ Keeps(t, g[k + 1])
    OBVIOUS
  <2>1. k \in 0 .. L /\ k + 1 \in 1 .. L
    BY <1>1
  <2>2. Holds(g[k], R(k)) /\ Keeps(t, g[k])
    BY <1>5, <2>1
  <2>3. \A x \in DOMAIN t : R(k + 1)[x] \in Nat /\ R(k)[x] = R(k + 1)[x] + Count(x \in seq[k + 1])
    <3> SUFFICES ASSUME NEW x \in DOMAIN t
                 PROVE  R(k + 1)[x] \in Nat /\ R(k)[x] = R(k + 1)[x] + Count(x \in seq[k + 1])
      OBVIOUS
    <3> DEFINE a == A(k + 1, x)
               b == A(k, x)
    <3>1. R(k)[x] = G[x] + Cardinality(b) /\ R(k + 1)[x] = G[x] + Cardinality(a) /\ G[x] \in Nat
      OBVIOUS
    <3>2. b = IF x \in seq[k + 1] THEN a \cup {k + 1} ELSE a
      BY <1>1, <2>1
    <3>3. a \in SUBSET (1 .. L) /\ k + 1 \notin a /\ L \in Int
      BY <1>1, <2>1
    <3> HIDE DEF a, b, R
    <3>4. IsFiniteSet(a) /\ Cardinality(a) \in Nat
      BY <3>3, FiniteUpTo
    <3>5. Cardinality(a \cup {k + 1}) = Cardinality(a) + 1
      BY <3>3, <3>4, FS_AddElement
    <3>6. Cardinality(b) = Cardinality(a) + Count(x \in seq[k + 1]) /\ Count(x \in seq[k + 1]) \in Nat
      BY <3>2, <3>4, <3>5 DEF Count
    <3> DEFINE c == Count(x \in seq[k + 1])
    <3> HIDE DEF c
    <3>7. R(k + 1)[x] \in Nat /\ R(k)[x] = R(k + 1)[x] + c
      BY <3>1, <3>4, <3>6 DEF c
    <3> QED  BY <3>7 DEF c
  <2>4. g[k + 1] = LoseAll(g[k], seq[k + 1]) /\ g[k] \in Seq(S) /\ DOMAIN g[k] = DOMAIN t
    <3>1. (k + 1) - 1 = k
      OBVIOUS
    <3> QED  BY <1>3, <2>1, <3>1
  <2> HIDE DEF R, T
  <2>5. Holds(g[k + 1], R(k + 1)) /\ Keeps(g[k], g[k + 1])
    <3> DEFINE u == g[k]
               is == seq[k + 1]
               G1 == R(k + 1)
               H1 == R(k)
    <3>1. u \in Seq(S) /\ Holds(u, H1)
      BY <2>2, <2>4
    <3>2. \A x \in DOMAIN u : G1[x] \in Nat /\ H1[x] = G1[x] + Count(x \in is)
      BY <2>3, <2>4
    <3> HIDE DEF u, is, G1, H1, L
    <3>3. Holds(LoseAll(u, is), G1) /\ Keeps(u, LoseAll(u, is))
      BY <3>1, <3>2, LoseAllHolds
    <3> QED  BY <2>4, <3>3 DEF u, is, G1
  <2> QED  BY <2>2, <2>5, KeepsAgain
<1>6. L \in T
  <2> HIDE DEF T
  <2> QED  BY <1>1, <1>4, <1>5, SetInduction
<1>7. Holds(g[L], R(L)) /\ Keeps(t, g[L])
  BY <1>1, <1>6
<1>8. \A x \in DOMAIN t : G[x] = R(L)[x]
  <2>1. \A x : A(L, x) = {}
    BY <1>1
  <2>2. \A x \in DOMAIN t : Cardinality(A(L, x)) = 0 /\ G[x] \in Nat
    BY <2>1, FS_EmptySet
  <2>3. \A x \in DOMAIN t : R(L)[x] = G[x] + Cardinality(A(L, x))
    OBVIOUS
  <2> HIDE DEF R, A
  <2> QED  BY <2>2, <2>3
<1> HIDE DEF R
<1>9. Holds(g[L], G)
  <2>1. DOMAIN g[L] = DOMAIN t
    BY <1>1, <1>3
  <2> QED  BY <1>7, <1>8, <2>1 DEF Holds
<1> QED  BY <1>3, <1>7, <1>9

-----------------------------------------------------------------------------
(* Sequences without repetitions                                           *)

LEMMA TailOnce ==
    ASSUME NEW V, NEW s \in Seq(V), s # << >>, IsInjective(s)
    PROVE  /\ IsInjective(Tail(s)) /\ Head(s) \notin ToSet(Tail(s)) /\ Head(s) \in ToSet(s)
           /\ ToSet(s) = ToSet(Tail(s)) \cup {Head(s)}
<1> DEFINE p == Tail(s)
           n == Len(s)
<1>1. n \in Nat /\ n > 0 /\ DOMAIN s = 1 .. n /\ DOMAIN p = 1 .. n - 1 /\ Head(s) = s[1]
      /\ \A k \in 1 .. n - 1 : p[k] = s[k + 1]
  OBVIOUS
<1>2. \A a, b \in 1 .. n : s[a] = s[b] => a = b
  BY <1>1 DEF IsInjective
<1>3. \A k \in 1 .. n - 1 : k + 1 \in 1 .. n /\ k + 1 # 1
  BY <1>1
<1>4. \A k \in 2 .. n : k - 1 \in 1 .. n - 1 /\ p[k - 1] = s[k]
  <2> SUFFICES ASSUME NEW k \in 2 .. n PROVE k - 1 \in 1 .. n - 1 /\ p[k - 1] = s[k]
    OBVIOUS
  <2>1. k - 1 \in 1 .. n - 1 /\ (k - 1) + 1 = k
    BY <1>1
  <2> QED  BY <1>1, <2>1
<1> HIDE DEF p, n
<1>5. IsInjective(p)
  <2>1. ASSUME NEW a \in DOMAIN p, NEW b \in DOMAIN p, p[a] = p[b] PROVE a = b
    <3>1. s[a + 1] = s[b + 1] /\ a + 1 \in 1 .. n /\ b + 1 \in 1 .. n /\ a \in Int /\ b \in Int
      BY <1>1, <1>3, <2>1
    <3>2. a + 1 = b + 1
      BY <1>2, <3>1
    <3> QED  BY <3>1, <3>2
  <2> QED  BY <2>1 DEF IsInjective
<1>6. ToSet(s) = {s[k] : k \in 1 .. n} /\ ToSet(p) = {p[k] : k \in 1 .. n - 1}
  BY <1>1 DEF ToSet
<1>7. 1 \in 1 .. n /\ \A k \in 1 .. n : k = 1 \/ k \in 2 .. n
  BY <1>1
<1>8. s[1] \notin ToSet(p)
  BY <1>1, <1>2, <1>3, <1>6, <1>7
<1>9. ToSet(s) = ToSet(p) \cup {s[1]}
  <2>1. \A v \in ToSet(s) : v \in ToSet(p) \cup {s[1]}
    BY <1>4, <1>6, <1>7
  <2>2. \A v \in ToSet(p) : v \in ToSet(s)
    BY <1>1, <1>3, <1>6
  <2>3. s[1] \in ToSet(s)
    BY <1>6, <1>7
  <2> QED  BY <2>1, <2>2, <2>3
<1> QED  BY <1>1, <1>5, <1>8, <1>9 DEF p

LEMMA AppendOnce ==
    ASSUME NEW V, NEW s \in Seq(V), NEW v \in V, IsInjective(s), v \notin ToSet(s)
    PROVE  IsInjective(Append(s, v)) /\ ToSet(Append(s, v)) = ToSet(s) \cup {v}
<1> DEFINE p == Append(s, v)
           n == Len(s)
<1>1. n \in Nat /\ DOMAIN s = 1 .. n /\ DOMAIN p = 1 .. n + 1 /\ p[n + 1] = v /\ \A k \in 1 .. n : p[k] = s[k]
  OBVIOUS
<1>2. \A k \in 1 .. n + 1 : k = n + 1 \/ k \in 1 .. n
  BY <1>1
<1>3. /\ n + 1 \in 1 .. n + 1 /\ 1 .. n \subseteq 1 .. n + 1
      /\ \A k \in 1 .. n : s[k] # v
      /\ \A a, b \in 1 .. n : s[a] = s[b] => a = b
  BY <1>1 DEF ToSet, IsInjective
<1> HIDE DEF p, n
<1>4. IsInjective(p)
  BY <1>1, <1>2, <1>3 DEF IsInjective
<1>5. ToSet(p) = ToSet(s) \cup {v}
  <2>1. \A u \in ToSet(p) : u \in ToSet(s) \cup {v}
    BY <1>1, <1>2 DEF ToSet
  <2>2. \A u \in ToSet(s) \cup {v} : u \in ToSet(p)
    BY <1>1, <1>3 DEF ToSet
  <2> QED  BY <2>1, <2>2
<1> QED  BY <1>4, <1>5 DEF p

LEMMA EmptyOnce == IsInjective(<< >>) /\ ToSet(<< >>) = {}
  BY DEF IsInjective, ToSet

LEMMA SetToSeqOnce ==
    ASSUME NEW S, IsFiniteSet(S)
    PROVE  IsInjective(SetToSeq(S)) /\ ToSet(SetToSeq(S)) = S
<1> DEFINE n == Cardinality(S)
           s == SetToSeq(S)
<1>1. n \in Nat /\ ExistsBijection(1 .. n, S)
  BY FS_CardinalityType
<1>2. \E f \in [1 .. n -> S] : IsInjective(f)
  BY <1>1 DEF ExistsBijection, Bijection, Injection, IsInjective
<1> HIDE DEF n
<1>3. s \in [1 .. n -> S] /\ IsInjective(s)
  BY <1>2 DEF SetToSeq, n
<1> HIDE DEF s
<1>4. s \in Injection(1 .. n, S)
  BY <1>3 DEF Injection, IsInjective
<1>5. IsFiniteSet(1 .. n) /\ Cardinality(1 .. n) = n
  BY <1>1, FS_Interval
<1>6. s \in Surjection(1 .. n, S)
  BY <1>4, <1>5, FS_Injection DEF n
<1>7. ToSet(s) = S
  BY <1>3, <1>6 DEF ToSet, Surjection
<1> QED  BY <1>3, <1>7 DEF s

(* What RefsExact needs: a job and the queue name nothing twice, what is   *)
(* not in the cache is not, and a refresh gives each old entry its own new *)
(* one.                                                                    *)
Uses(j, x) ==
    \/ j.kind = "add" /\ x \in ToSet(j.ti_buffer)
    \/ Wants(j, x)
    \/ j.kind = "refresh" /\ j.step # "start" /\ \E k \in DOMAIN j.arr : Has(j.arr[k], x)
Others == [x \in DOMAIN tis |-> Count(player = x) + Count(Uses(job, x)) + Asked(queue, x)]

Unread(j) == j.kind = "add" => IsInjective(j.files) /\ j.ti_buffer = << >>
Once(j) == j.kind = "update" => IsInjective(j.tis)
QueueOnce == \A k \in DOMAIN queue : Unread(queue[k]) /\ Once(queue[k])
AddOnce ==
    job.kind = "add" =>
        /\ IsInjective(job.files) /\ IsInjective(job.ti_buffer)
        /\ \A x \in ToSet(job.ti_buffer) : tis[x].file \notin ToSet(job.files)
        /\ job.step = "stat" => \A x \in table : tis[x].file # Head(job.files)
RefreshOnce ==
    job.kind = "refresh" /\ job.step # "start" =>
        /\ \A k \in DOMAIN job.arr : k >= job.n => ~job.arr[k].held /\ job.arr[k].next = 0
        /\ \A j, k \in DOMAIN job.arr : job.arr[j].ti = job.arr[k].ti => j = k
        /\ \A j, k \in DOMAIN job.arr : job.arr[j].next # 0 =>
              job.arr[j].next # job.arr[k].ti /\ (job.arr[j].next = job.arr[k].next => j = k)
        /\ job.n - 2 <= total /\ (job.step = "read" => job.n <= total)
        /\ \A k \in DOMAIN job.arr : k > total => job.arr[k].next = 0
UiOnce == ui # NoUi => \A x \in table : tis[x].file # ui.file
OnePerFile(entries) == \A d, e \in entries : d.file = e.file => d = e
FilesOnce == OnePerFile(cachefile.entries) /\ OnePerFile(tmpfile.entries)
RefInv ==
    /\ Exact(Mem, shown, Others)
    /\ QueueOnce /\ AddOnce /\ Once(job) /\ RefreshOnce /\ UiOnce /\ FilesOnce

-----------------------------------------------------------------------------
(* What steps have in common                                               *)

LEMMA UsesKinds ==
    ASSUME NEW j, NEW x
    PROVE  /\ j = Idle => ~Uses(j, x)
           /\ j.kind = "add" => (Uses(j, x) <=> x \in ToSet(j.ti_buffer))
           /\ j.kind = "update" => (Uses(j, x) <=> x \in ToSet(j.tis))
           /\ j.kind = "refresh" /\ j.step = "start" => ~Uses(j, x)
           /\ j.kind = "refresh" /\ j.step # "start" => (Uses(j, x) <=> \E k \in DOMAIN j.arr : Has(j.arr[k], x))
<1>1. Idle.kind = "none"
  BY DEF Idle
<1> QED  BY <1>1 DEF Uses, Wants

LEMMA OtherParts ==
    ASSUME NEW x, queue \in Seq(Jobs(Len(tis)))
    PROVE  /\ Count(player = x) \in {0, 1} /\ Count(Uses(job, x)) \in {0, 1} /\ Asked(queue, x) \in Nat
           /\ Count(player = x) \in Nat /\ Count(Uses(job, x)) \in Nat
           /\ (x \in DOMAIN tis => Others[x] = Count(player = x) + Count(Uses(job, x)) + Asked(queue, x))
<1>1. Count(player = x) \in {0, 1} /\ Count(Uses(job, x)) \in {0, 1}
  BY DEF Count
<1>2. Asked(queue, x) \in Nat
  BY AskedType
<1>3. x \in DOMAIN tis => Others[x] = Count(player = x) + Count(Uses(job, x)) + Asked(queue, x)
  BY DEF Others
<1> QED  BY <1>1, <1>2, <1>3

(* The parts of the invariant.                                             *)
LEMMA Parts ==
    ASSUME CacheInv, RefInv
    PROVE  /\ Closed(FreshInfos) /\ Len(tis) \in Nat /\ Mem \in MemSet(FreshInfos, Len(tis))
           /\ DOMAIN tis = 1 .. Len(tis) /\ tis \in Seq(FreshInfos)
           /\ Exact(Mem, shown, Others) /\ queue \in Seq(Jobs(Len(tis)))
           /\ QueueOnce /\ AddOnce /\ Once(job) /\ RefreshOnce /\ UiOnce /\ FilesOnce
           /\ Mem.tis = tis /\ Mem.table = table /\ Mem.total = total /\ Mem.hash = hash /\ Mem.view = view
<1>1. queue \in Seq(Jobs(Len(tis)))
  BY DEF CacheInv, JobOK
<1>2. tis \in Seq(FreshInfos) /\ DOMAIN tis = 1 .. Len(tis)
  BY MemFacts
<1>3. Mem.tis = tis /\ Mem.table = table /\ Mem.total = total /\ Mem.hash = hash /\ Mem.view = view
  BY DEF Mem
<1> QED  BY <1>1, <1>2, <1>3, MemFacts DEF RefInv

LEMMA OthersSame ==
    ASSUME UNCHANGED << tis, player, job, queue >>
    PROVE  Others' = Others
  BY DEF Others, Uses, Wants, Asked

LEMMA MemIs ==
    ASSUME NEW S, NEW K \in Nat, NEW m \in MemSet(S, K), SetMem(m)
    PROVE  /\ Mem' = m /\ Len(tis') = K /\ DOMAIN tis' = 1 .. K /\ tis' = m.tis /\ table' = m.table
           /\ total' = m.total /\ hash' = m.hash /\ view' = m.view
<1>1. /\ tis' = m.tis /\ table' = m.table /\ total' = m.total /\ changed' = m.changed
      /\ hash' = m.hash /\ view' = m.view
  BY DEF SetMem
<1>2. m = [tis |-> m.tis, table |-> m.table, total |-> m.total, changed |-> m.changed,
           hash |-> m.hash, view |-> m.view]
  BY DEF MemSet
<1>3. Len(m.tis) = K /\ m.tis \in Seq(S)
  BY DEF MemSet
<1> QED  BY <1>1, <1>2, <1>3 DEF Mem

(* The references after a step.                                            *)
LEMMA ExactNext ==
    ASSUME NEW S, Closed(S), NEW K \in Nat, NEW m \in MemSet(S, K), SetMem(m), NEW P, Exact(m, shown', P),
           \A x \in 1 .. K : Count(player' = x) + Count(Uses(job', x)) + Asked(queue', x) = P[x]
    PROVE  Exact(Mem, shown, Others)'
<1>1. Mem' = m /\ DOMAIN tis' = 1 .. K
  BY MemIs
<1> DEFINE O == Others'
<1>2. \A x \in 1 .. K : O[x] = P[x]
  BY <1>1 DEF Others
<1> HIDE DEF O
<1>3. Exact(m, shown', O)
  BY <1>2, ExactSame
<1> QED  BY <1>1, <1>3 DEF O

LEMMA Standing ==
    ASSUME NEW t, NEW r, Keeps(t, r), NEW H, Holds(r, H), NEW x \in DOMAIN t, H[x] > 0
    PROVE  r[x].file = t[x].file
<1>1. x \in DOMAIN r
  BY DEF Keeps
<1>2. H[x] \in Nat /\ r[x].lost \in Nat /\ r[x].ref = H[x] + r[x].lost
  BY <1>1 DEF Holds, Held
<1>3. r[x].ref > r[x].lost
  BY <1>2
<1> QED  BY <1>3 DEF Keeps, Kept

(* A track info that somebody still has is the same file.                  *)
LEMMA Stands ==
    ASSUME Exact(Mem, shown, Others)', Keeps(tis, tis'), queue' \in Seq(Jobs(Len(tis'))), NEW x \in DOMAIN tis,
           x \in table' \/ x \in hash' \/ Uses(job', x)
    PROVE  tis'[x].file = tis[x].file
<1> DEFINE m == Mem'
           O == Others'
           H == Owners(m, O)
<1>1. m.tis = tis' /\ m.table = table' /\ m.hash = hash'
  BY DEF Mem
<1>2. x \in DOMAIN tis'
  BY DEF Keeps
<1>3. O[x] = Count(player' = x) + Count(Uses(job', x)) + Asked(queue', x)
  BY <1>2 DEF Others
<1>4. Asked(queue', x) \in Nat
  BY AskedType
<1>5. Count(player' = x) \in Nat /\ Count(Uses(job', x)) \in Nat /\ (Uses(job', x) => Count(Uses(job', x)) = 1)
  BY DEF Count
<1>6. Exact(m, shown', O)
  OBVIOUS
<1> HIDE DEF m, O
<1>7. H[x] = Base(m, x) + O[x]
  BY <1>1, <1>2 DEF Owners
<1>8. Base(m, x) \in Nat /\ (x \in table' \/ x \in hash' => Base(m, x) > 0)
  BY <1>1, BaseType
<1>9. H[x] > 0
  <2> HIDE DEF H, Count
  <2> QED  BY <1>3, <1>4, <1>5, <1>7, <1>8
<1> HIDE DEF H
<1>10. Holds(tis', H)
  BY <1>1, <1>6 DEF Exact, H
<1> QED  BY <1>9, <1>10, Standing

LEMMA JobOnceSame ==
    ASSUME CacheInv, RefInv, job' = job, Keeps(tis, tis'), Exact(Mem, shown, Others)',
           queue' \in Seq(Jobs(Len(tis'))), lock = "worker" => table' = table /\ total' = total
    PROVE  AddOnce' /\ Once(job)' /\ RefreshOnce'
<1>1. job \in {Idle} \cup Jobs(Len(tis)) \cup Readings(Len(tis)) \cup Refreshes(Len(tis))
      /\ (job \in Readings(Len(tis)) \cup Refreshes(Len(tis)) => lock = "worker") /\ Len(tis) \in Nat
  BY MemFacts DEF CacheInv, JobOK
<1>2. /\ job.kind = "refresh" /\ job.step # "start" => lock = "worker"
      /\ job.kind = "add" /\ job.step = "stat" => lock = "worker"
  BY <1>1, JobKinds
<1>3. Once(job)' /\ RefreshOnce'
  BY <1>2, Parts DEF RefreshOnce, Once
<1>4. ASSUME job.kind = "add"
      PROVE  AddOnce'
  <2>1. job \in AddJobs(Len(tis)) \cup Readings(Len(tis))
    <3>1. job.step \in {"get", "stat"}
      <4>1. job \in AddJobs(Len(tis)) \cup UpdateJobs(Len(tis)) \cup StartJobs \cup Readings(Len(tis)) \cup Refreshes(Len(tis))
        BY <1>1, <1>4 DEF Jobs, Idle
      <4> QED  BY <1>4, <4>1 DEF AddJobs, UpdateJobs, StartJobs, Readings, Refreshes
    <3> QED  BY <1>1, <1>4, <3>1, JobKinds
  <2>2. job.ti_buffer \in Seq(1 .. Len(tis))
    BY <2>1 DEF AddJobs, Readings
  <2>3. \A x \in ToSet(job.ti_buffer) : x \in DOMAIN tis /\ Uses(job', x)
    <3>1. \A x \in ToSet(job.ti_buffer) : x \in 1 .. Len(tis)
      BY <2>2 DEF ToSet
    <3> QED  BY <1>4, <3>1, UsesKinds, Parts
  <2>4. \A x \in ToSet(job.ti_buffer) : tis'[x].file = tis[x].file
    BY <2>3, Stands
  <2>5. job.step = "stat" => \A x \in table' : tis'[x].file # Head(job.files)
    <3> SUFFICES ASSUME job.step = "stat", NEW x \in table' PROVE tis'[x].file # Head(job.files)
      OBVIOUS
    <3>1. table' = table
      BY <1>2, <1>4
    <3>2. x \in DOMAIN tis
      BY <3>1, MemFacts, Parts
    <3>3. tis'[x].file = tis[x].file
      BY <3>2, Stands
    <3> QED  BY <1>4, <3>1, <3>3, Parts DEF AddOnce
  <2> QED  BY <1>4, <2>4, <2>5, Parts DEF AddOnce
<1> QED  BY <1>3, <1>4 DEF AddOnce

LEMMA UiOnceSame ==
    ASSUME CacheInv, RefInv, Keeps(tis, tis'), Exact(Mem, shown, Others)', queue' \in Seq(Jobs(Len(tis'))),
           ui' = NoUi \/ (ui' = ui /\ (ui # NoUi => table' \subseteq table))
    PROVE  UiOnce'
<1> SUFFICES ASSUME ui' # NoUi, NEW x \in table' PROVE tis'[x].file # ui'.file
  BY DEF UiOnce
<1>1. ui' = ui /\ x \in table
  OBVIOUS
<1>2. x \in DOMAIN tis
  BY <1>1, MemFacts, Parts
<1>3. tis'[x].file = tis[x].file
  BY <1>2, Stands
<1> QED  BY <1>1, <1>3, Parts DEF UiOnce

LEMMA JobOnceIdle ==
    ASSUME job' = Idle
    PROVE  AddOnce' /\ Once(job)' /\ RefreshOnce'
<1>1. job'.kind = "none"
  BY DEF Idle
<1> QED  BY <1>1 DEF AddOnce, Once, RefreshOnce

LEMMA FilesOnceSame ==
    ASSUME RefInv, UNCHANGED << cachefile, tmpfile >>
    PROVE  FilesOnce'
  BY DEF RefInv, FilesOnce

LEMMA QueueOnceSame ==
    ASSUME RefInv, queue' = queue
    PROVE  QueueOnce'
  BY DEF RefInv, QueueOnce

LEMMA QueueOnceMore ==
    ASSUME CacheInv, RefInv, NEW J, queue \in Seq(J), NEW j \in J, Unread(j), Once(j), queue' = Append(queue, j)
    PROVE  QueueOnce'
<1>1. \A k \in DOMAIN queue' : queue'[k] = j \/ (k \in DOMAIN queue /\ queue'[k] = queue[k])
  OBVIOUS
<1> QED  BY <1>1 DEF RefInv, QueueOnce

-----------------------------------------------------------------------------
(* One lemma for each action                                               *)

LEMMA RefsKept ==
    ASSUME CacheInv, RefInv, UNCHANGED << tis, table, total, changed, hash, view, player, shown, queue, job, ui, cachefile, tmpfile >>
    PROVE  RefInv'
<1>1. Others' = Others /\ Mem' = Mem
  BY OthersSame DEF Mem
<1>2. Exact(Mem, shown, Others)'
  BY <1>1, Parts
<1>3. QueueOnce' /\ AddOnce' /\ Once(job)' /\ RefreshOnce' /\ UiOnce' /\ FilesOnce'
  BY Parts DEF QueueOnce, AddOnce, Once, RefreshOnce, UiOnce, FilesOnce
<1> QED  BY <1>2, <1>3 DEF RefInv

LEMMA TakeJobRefs ==
    ASSUME CacheInv, RefInv, CacheInv', TakeJob
    PROVE  RefInv'
<1> DEFINE N == Len(tis)
<1>1. UNCHANGED << tis, table, total, changed, hash, view, player, shown, lock, ui, disk, clock, cachefile, tmpfile, libpl >>
  BY DEF TakeJob, memory, KeepFiles, KeepDisk
<1>2. /\ queue \in Seq(Jobs(N)) /\ queue # << >> /\ job' = Head(queue) /\ queue' = Tail(queue) /\ job = Idle
  BY DEF TakeJob, CacheInv, JobOK
<1>3. job' \in Jobs(N) /\ N \in Nat /\ 1 \in DOMAIN queue /\ job' = queue[1]
  BY <1>2, MemFacts
<1>4. Unread(job') /\ Once(job')
  BY <1>3, Parts DEF QueueOnce
<1>5. /\ job'.kind \in {"add", "update", "refresh"}
      /\ (job'.kind = "refresh" => job'.step = "start") /\ (job'.kind = "add" => job'.step = "get")
  BY <1>3 DEF Jobs, AddJobs, UpdateJobs, StartJobs
<1>6. \A x : Uses(job', x) <=> Wants(job', x)
  <2> SUFFICES ASSUME NEW x PROVE Uses(job', x) <=> Wants(job', x)
    OBVIOUS
  <2>1. job'.kind = "add" => job'.ti_buffer = << >> /\ ToSet(job'.ti_buffer) = {}
    BY <1>4, EmptyOnce DEF Unread
  <2> QED  BY <1>5, <2>1 DEF Uses
<1>7. \A x \in 1 .. N : Count(player' = x) + Count(Uses(job', x)) + Asked(queue', x) = Others[x]
  <2> SUFFICES ASSUME NEW x \in 1 .. N
               PROVE  Count(player' = x) + Count(Uses(job', x)) + Asked(queue', x) = Others[x]
    OBVIOUS
  <2>1. Others[x] = Count(player = x) + Count(Uses(job, x)) + Asked(queue, x) /\ Count(player = x) \in Nat
    BY <1>2, Parts, OtherParts
  <2>2. Count(Uses(job, x)) = 0
    BY <1>2, UsesKinds DEF Count
  <2>3. Asked(queue, x) = Asked(queue', x) + Count(Wants(job', x))
    BY <1>2, AskedTail
  <2>4. Count(Uses(job', x)) = Count(Wants(job', x)) /\ Count(Wants(job', x)) \in Nat
    BY <1>6 DEF Count
  <2>5. Asked(queue', x) \in Nat
    <3>1. queue' \in Seq(Jobs(N))
      BY <1>2
    <3> QED  BY <3>1, AskedType
  <2> HIDE DEF Count
  <2> QED  BY <1>1, <2>1, <2>2, <2>3, <2>4, <2>5
<1>8. Exact(Mem, shown, Others)'
  <2>1. SetMem(Mem)
    BY <1>1 DEF SetMem, Mem
  <2>2. Exact(Mem, shown', Others)
    BY <1>1, Parts
  <2> QED  BY <1>7, <2>1, <2>2, Parts, ExactNext
<1>9. QueueOnce'
  <2>1. \A k \in DOMAIN queue' : k + 1 \in DOMAIN queue /\ queue'[k] = queue[k + 1]
    BY <1>2
  <2> QED  BY <2>1, Parts DEF QueueOnce
<1>10. AddOnce' /\ Once(job)' /\ RefreshOnce'
  <2>1. job'.kind = "add" => IsInjective(job'.files) /\ IsInjective(job'.ti_buffer) /\ ToSet(job'.ti_buffer) = {}
    BY <1>4, EmptyOnce DEF Unread
  <2> QED  BY <1>4, <1>5, <2>1 DEF AddOnce, RefreshOnce
<1>11. UiOnce' /\ FilesOnce'
  BY <1>1, Parts DEF UiOnce, FilesOnce
<1> QED  BY <1>8, <1>9, <1>10, <1>11 DEF RefInv

LEMMA NextQueue ==
    ASSUME CacheInv'
    PROVE  queue' \in Seq(Jobs(Len(tis')))
  BY DEF CacheInv, JobOK

LEMMA TisIs ==
    ASSUME UNCHANGED << table, total, changed, hash, view >>, NEW t, tis' = t
    PROVE  SetMem([Mem EXCEPT !.tis = t])
  BY DEF SetMem, Mem

(* Nothing in memory changes, and what the job uses neither.               *)
LEMMA ExactStay ==
    ASSUME CacheInv, RefInv, UNCHANGED << tis, table, total, changed, hash, view, shown, player, queue >>,
           \A x \in 1 .. Len(tis) : Uses(job', x) <=> Uses(job, x)
    PROVE  Exact(Mem, shown, Others)' /\ Keeps(tis, tis')
<1>1. \A x \in 1 .. Len(tis) : Count(player' = x) + Count(Uses(job', x)) + Asked(queue', x) = Others[x]
  <2> SUFFICES ASSUME NEW x \in 1 .. Len(tis)
               PROVE  Count(player' = x) + Count(Uses(job', x)) + Asked(queue', x) = Others[x]
    OBVIOUS
  <2>1. Others[x] = Count(player = x) + Count(Uses(job, x)) + Asked(queue, x)
    BY Parts DEF Others
  <2>2. Count(Uses(job', x)) = Count(Uses(job, x))
    BY DEF Count
  <2> QED  BY <2>1, <2>2
<1>2. SetMem(Mem)
  BY DEF SetMem, Mem
<1>3. Exact(Mem, shown', Others)
  BY Parts
<1> QED  BY <1>1, <1>2, <1>3, Parts, ExactNext, KeepsSelf

LEMMA NobodyAsked ==
    ASSUME NEW N \in Nat, NEW q \in Seq(Jobs(N)), NEW x, x \notin 1 .. N
    PROVE  Asked(q, x) = 0
<1>1. \A k \in DOMAIN q : ~Wants(q[k], x)
  <2> SUFFICES ASSUME NEW k \in DOMAIN q, Wants(q[k], x) PROVE FALSE
    OBVIOUS
  <2>1. q[k] \in Jobs(N) /\ q[k].kind = "update"
    BY DEF Wants
  <2>2. q[k] \in UpdateJobs(N)
    BY <2>1, JobKinds
  <2>3. q[k].tis \in Seq(1 .. N) /\ x \in ToSet(q[k].tis)
    BY <2>2 DEF UpdateJobs, Wants
  <2> QED  BY <2>3 DEF ToSet
<1>2. {k \in DOMAIN q : Wants(q[k], x)} = {}
  BY <1>1
<1> QED  BY <1>2, FS_EmptySet DEF Asked

LEMMA AddGetRefs ==
    ASSUME CacheInv, RefInv, CacheInv', AddGet
    PROVE  RefInv'
<1> DEFINE f == Head(job.files)
           rest == Tail(job.files)
           N == Len(tis)
<1>1. UNCHANGED << table, total, changed, hash, view, player, shown, queue, ui, cachefile, tmpfile >>
  BY DEF AddGet, KeepFiles, KeepDisk
<1>2. job \in AddJobs(N) /\ job.files # << >> /\ lock = "none" /\ N \in Nat
  BY MemFacts, JobKinds DEF AddGet, CacheInv, JobOK
<1>3. job.files \in Seq(Names) /\ job.ti_buffer \in Seq(1 .. N) /\ job.kind = "add" /\ job.step = "get"
  BY <1>2 DEF AddJobs
<1>4. /\ IsInjective(job.files) /\ IsInjective(job.ti_buffer)
      /\ \A x \in ToSet(job.ti_buffer) : tis[x].file \notin ToSet(job.files)
  BY <1>3, Parts DEF AddOnce
<1>5. IsInjective(rest) /\ f \notin ToSet(rest) /\ ToSet(job.files) = ToSet(rest) \cup {f}
  BY <1>2, <1>3, <1>4, TailOnce
<1>6. ui = NoUi
  BY <1>2 DEF CacheInv, UiOK
<1>7. UiOnce' /\ QueueOnce' /\ FilesOnce'
  BY <1>1, <1>6, QueueOnceSame, FilesOnceSame DEF UiOnce
<1>8. CASE \E i \in lookup_cache_entry(f) :
             /\ job' = [job EXCEPT !.files = Tail(@), !.ti_buffer = Append(@, i)]
             /\ tis' = track_info_ref(tis, i) /\ UNCHANGED lock
  <2>1. PICK i \in lookup_cache_entry(f) :
             /\ job' = [job EXCEPT !.files = Tail(@), !.ti_buffer = Append(@, i)]
             /\ tis' = track_info_ref(tis, i) /\ UNCHANGED lock
    BY <1>8
  <2>2. i \in 1 .. N /\ i \in table /\ tis[i].file = f
    BY MemFacts DEF lookup_cache_entry
  <2> DEFINE b == Append(job.ti_buffer, i)
             t == RefAll(tis, {i})
             m == [Mem EXCEPT !.tis = t]
             P == [x \in 1 .. N |-> Others[x] + Count(x \in {i})]
  <2>3. i \notin ToSet(job.ti_buffer)
    BY <1>4, <1>5, <2>2
  <2>4. IsInjective(b) /\ ToSet(b) = ToSet(job.ti_buffer) \cup {i}
    BY <1>3, <1>4, <2>2, <2>3, AppendOnce
  <2>5. job'.kind = "add" /\ job'.step = "get" /\ job'.files = rest /\ job'.ti_buffer = b
    <3>1. job' = [job EXCEPT !.files = rest, !.ti_buffer = b]
      BY <2>1
    <3> HIDE DEF rest, b
    <3> QED  BY <1>2, <1>3, <3>1 DEF AddJobs
  <2>6. tis' = t
    BY <2>1, <2>2, Parts, OneOfAll
  <2>7. m \in MemSet(FreshInfos, N) /\ Exact(m, shown, P) /\ Keeps(tis, m.tis)
    <3> DEFINE is == {i}
    <3>1. More(N, Others, P, is)
      BY DEF More
    <3>2. Alive(Mem, Others, is)
      BY <2>2, Parts DEF Alive
    <3> HIDE DEF is, P
    <3> DEFINE r == [Mem EXCEPT !.tis = RefAll(Mem.tis, is)]
    <3>3. r \in MemSet(FreshInfos, N) /\ Exact(r, shown, P) /\ Keeps(Mem.tis, r.tis)
      BY <3>1, <3>2, Parts, RefExact
    <3>4. r = m
      BY Parts DEF is
    <3> HIDE DEF r, m
    <3> QED  BY <3>3, <3>4, Parts
  <2>8. SetMem(m)
    <3> HIDE DEF t
    <3> QED  BY <1>1, <2>6, TisIs
  <2> HIDE DEF b, t, m
  <2>9. \A x \in 1 .. N : Count(player' = x) + Count(Uses(job', x)) + Asked(queue', x) = P[x]
    <3> SUFFICES ASSUME NEW x \in 1 .. N
                 PROVE  Count(player' = x) + Count(Uses(job', x)) + Asked(queue', x) = P[x]
      OBVIOUS
    <3>1. /\ Others[x] = Count(player = x) + Count(Uses(job, x)) + Asked(queue, x)
          /\ Count(player = x) \in Nat /\ Asked(queue, x) \in Nat
      BY Parts, OtherParts
    <3>2. Count(Uses(job', x)) = Count(Uses(job, x)) + Count(x \in {i})
      <4>1. Uses(job', x) <=> x \in ToSet(b)
        BY <2>5, UsesKinds
      <4>2. Uses(job, x) <=> x \in ToSet(job.ti_buffer)
        BY <1>3, UsesKinds
      <4> QED  BY <2>3, <2>4, <4>1, <4>2 DEF Count
    <3>3. Count(Uses(job, x)) \in Nat /\ Count(x \in {i}) \in Nat
      BY DEF Count
    <3> HIDE DEF Count
    <3> QED  BY <1>1, <3>1, <3>2, <3>3
  <2>10. Exact(Mem, shown, Others)' /\ Keeps(tis, tis')
    <3>1. tis' = m.tis
      BY <2>7, <2>8, MemIs, <1>2
    <3> HIDE DEF P
    <3>2. Exact(m, shown', P)
      BY <1>1, <2>7
    <3>3. Exact(Mem, shown, Others)'
      BY <1>2, <2>7, <2>8, <2>9, <3>2, Parts, ExactNext
    <3> QED  BY <2>7, <3>1, <3>3
  <2>11. AddOnce'
    <3>1. \A x \in ToSet(b) : x \in DOMAIN tis /\ Uses(job', x)
      <4>1. \A x \in ToSet(job.ti_buffer) : x \in 1 .. N
        BY <1>3 DEF ToSet
      <4> QED  BY <2>2, <2>4, <2>5, <4>1, UsesKinds, Parts
    <3>2. \A x \in ToSet(b) : tis'[x].file = tis[x].file
      BY <2>10, <3>1, Stands, NextQueue
    <3>3. \A x \in ToSet(b) : tis[x].file \notin ToSet(rest)
      BY <1>4, <1>5, <2>2, <2>4
    <3> HIDE DEF rest
    <3> QED  BY <1>5, <2>4, <2>5, <3>2, <3>3 DEF AddOnce
  <2>12. Once(job)' /\ RefreshOnce'
    BY <2>5 DEF Once, RefreshOnce
  <2> QED  BY <1>7, <2>10, <2>11, <2>12 DEF RefInv
<1>9. CASE job' = [job EXCEPT !.files = Tail(@)] /\ UNCHANGED << tis, lock >>
  <2>1. job'.kind = "add" /\ job'.step = "get" /\ job'.files = rest /\ job'.ti_buffer = job.ti_buffer
    BY <1>2, <1>3, <1>9 DEF AddJobs
  <2>2. Exact(Mem, shown, Others)'
    BY <1>1, <1>3, <1>9, <2>1, UsesKinds, ExactStay
  <2>3. AddOnce' /\ Once(job)' /\ RefreshOnce'
    <3> HIDE DEF rest
    <3>1. \A x \in ToSet(job.ti_buffer) : tis'[x].file \notin ToSet(rest)
      BY <1>4, <1>5, <1>9
    <3> QED  BY <1>4, <1>5, <2>1, <3>1 DEF AddOnce, Once, RefreshOnce
  <2> QED  BY <1>7, <2>2, <2>3 DEF RefInv
<1>10. CASE /\ job' = [job EXCEPT !.step = "stat", !.tags = disk[f]] /\ UNCHANGED tis
            /\ lookup_cache_entry(f) = {}
  <2>1. job'.kind = "add" /\ job'.files = job.files /\ job'.ti_buffer = job.ti_buffer
    BY <1>2, <1>3, <1>10 DEF AddJobs
  <2>2. Exact(Mem, shown, Others)'
    BY <1>1, <1>3, <1>10, <2>1, UsesKinds, ExactStay
  <2>3. AddOnce' /\ Once(job)' /\ RefreshOnce'
    <3>1. \A x \in table' : tis'[x].file # Head(job'.files)
      BY <1>1, <1>10, <2>1 DEF lookup_cache_entry
    <3> QED  BY <1>4, <1>10, <2>1, <3>1 DEF AddOnce, Once, RefreshOnce
  <2> QED  BY <1>7, <2>2, <2>3 DEF RefInv
<1> QED  BY <1>8, <1>9, <1>10 DEF AddGet

LEMMA AddStatRefs ==
    ASSUME CacheInv, RefInv, CacheInv', AddStat
    PROVE  RefInv'
<1> DEFINE f == Head(job.files)
           rest == Tail(job.files)
           N == Len(tis)
           K == N + 1
           ti == TrackInfo(f, disk[f], job.tags, 2)
           m == AddNew(Mem, ti)
           b == Append(job.ti_buffer, K)
           P == [x \in 1 .. K |-> IF x = K THEN 1 ELSE Others[x]]
<1>1. UNCHANGED << player, shown, queue, ui, disk, clock, cachefile, tmpfile, libpl >>
  BY DEF AddStat, KeepFiles, KeepDisk
<1>2. job \in Readings(N) /\ N \in Nat
  BY MemFacts, JobKinds DEF AddStat, CacheInv, JobOK
<1>3. /\ f \in Names /\ job.files \in Seq(Names) /\ job.files # << >> /\ job.tags \in Nat
      /\ job.ti_buffer \in Seq(1 .. N) /\ job.kind = "add" /\ job.step = "stat"
  BY <1>2 DEF Readings
<1>4. /\ IsInjective(job.files) /\ IsInjective(job.ti_buffer)
      /\ \A x \in ToSet(job.ti_buffer) : tis[x].file \notin ToSet(job.files)
      /\ \A x \in table : tis[x].file # f
  BY <1>3, Parts DEF AddOnce
<1>5. IsInjective(rest) /\ f \notin ToSet(rest) /\ ToSet(job.files) = ToSet(rest) \cup {f}
  BY <1>3, <1>4, TailOnce
<1>6. /\ ui = NoUi /\ UiOnce' /\ QueueOnce' /\ FilesOnce'
      /\ queue \in Seq(Jobs(N)) /\ player \in 0 .. N
  <2>1. ui = NoUi /\ queue \in Seq(Jobs(N)) /\ player \in 0 .. N
    BY <1>2 DEF CacheInv, UiOK, JobOK
  <2> QED  BY <1>1, <2>1, QueueOnceSame, FilesOnceSame DEF UiOnce
<1>7. ti \in FreshInfos /\ ti.file = f /\ ti.ref = 2 /\ ti.lost = 0
  <2>1. disk[f] \in Nat /\ disk[f] <= clock + 1 /\ 2 \in Int
    BY <1>3 DEF CacheInv, DiskOK
  <2>2. ti \in FreshInfos
    BY <1>3, <2>1, NewFresh
  <2> QED  BY <2>2 DEF TrackInfo
<1>8. SetMem(m)
  BY DEF AddStat
<1>9. ToSet(job.ti_buffer) \subseteq 1 .. N
  BY <1>3 DEF ToSet
<1>10. IsInjective(b) /\ ToSet(b) = ToSet(job.ti_buffer) \cup {K} /\ K \notin ToSet(job.ti_buffer)
  <2>1. job.ti_buffer \in Seq(1 .. K) /\ K \in 1 .. K /\ K \notin 1 .. N
    <3>1. 1 .. N \subseteq 1 .. K /\ K \in 1 .. K /\ K \notin 1 .. N
      BY <1>2
    <3> QED  BY <1>3, <3>1
  <2> HIDE DEF K
  <2>2. K \notin ToSet(job.ti_buffer)
    BY <1>9, <2>1
  <2> QED  BY <1>4, <2>1, <2>2, AppendOnce
<1>11. job'.kind = "add" /\ job'.step = "get" /\ job'.files = rest /\ job'.ti_buffer = b
  <2>1. job' = [job EXCEPT !.step = "get", !.tags = 0, !.files = rest, !.ti_buffer = b]
    BY DEF AddStat, Fresh
  <2> HIDE DEF rest, b
  <2> QED  BY <1>2, <1>3, <2>1 DEF Readings
<1> HIDE DEF ti, b, rest
<1>12. m \in MemSet(FreshInfos, K) /\ Exact(m, shown, P) /\ Keeps(tis, m.tis) /\ m.tis[K].file = f
  <2>1. P[N + 1] = 1 /\ \A x \in 1 .. N : P[x] = Others[x]
    BY <1>2
  <2> HIDE DEF P
  <2>2. Held(ti, 1 + P[N + 1])
    BY <1>7, <2>1 DEF Held
  <2>3. \A x \in Mem.table : Mem.tis[x].file # ti.file
    BY <1>4, <1>7, Parts
  <2>4. m \in MemSet(FreshInfos, N + 1)
    BY <1>2, <1>7, Parts, AddNewType
  <2>5. Exact(m, shown, P) /\ Keeps(Mem.tis, m.tis) /\ m.tis[N + 1].file = ti.file
    <3>1. P[N + 1] \in Nat
      BY <2>1
    <3> QED  BY <1>2, <1>7, <2>1, <2>2, <2>3, <3>1, Parts, AddNewExact
  <2> QED  BY <1>7, <2>4, <2>5, Parts
<1> HIDE DEF m
<1>13. \A x \in 1 .. K : Count(player' = x) + Count(Uses(job', x)) + Asked(queue', x) = P[x]
  <2> SUFFICES ASSUME NEW x \in 1 .. K
               PROVE  Count(player' = x) + Count(Uses(job', x)) + Asked(queue', x) = P[x]
    OBVIOUS
  <2>0. Uses(job', x) <=> x \in ToSet(b)
    BY <1>11, UsesKinds
  <2>1. CASE x = K
    <3>1. player' # K /\ K \notin 1 .. N
      BY <1>1, <1>2, <1>6
    <3>2. Asked(queue', K) = 0
      BY <1>1, <1>2, <1>6, <3>1, NobodyAsked
    <3>3. Uses(job', x) /\ P[x] = 1
      BY <1>10, <2>0, <2>1
    <3> QED  BY <2>1, <3>1, <3>2, <3>3 DEF Count
  <2>2. CASE x \in 1 .. N
    <3>1. Others[x] = Count(player = x) + Count(Uses(job, x)) + Asked(queue, x) /\ P[x] = Others[x]
      <4>1. x # K
        BY <1>2, <2>2
      <4> QED  BY <2>2, <4>1, Parts, OtherParts
    <3>2. Uses(job', x) <=> Uses(job, x)
      <4>1. x # K
        BY <1>2, <2>2
      <4>2. Uses(job, x) <=> x \in ToSet(job.ti_buffer)
        BY <1>3, UsesKinds
      <4> QED  BY <1>10, <2>0, <4>1, <4>2
    <3>3. Count(Uses(job', x)) = Count(Uses(job, x))
      BY <3>2 DEF Count
    <3> QED  BY <1>1, <3>1, <3>3
  <2>3. x = K \/ x \in 1 .. N
    BY <1>2
  <2> QED  BY <2>1, <2>2, <2>3
<1>14. Exact(Mem, shown, Others)' /\ Keeps(tis, tis') /\ tis' = m.tis
  <2>1. K \in Nat
    BY <1>2
  <2> HIDE DEF K, P
  <2>2. tis' = m.tis
    BY <1>8, <1>12, <2>1, MemIs
  <2>3. Exact(m, shown', P)
    BY <1>1, <1>12
  <2>4. Exact(Mem, shown, Others)'
    BY <1>8, <1>12, <1>13, <2>1, <2>3, Parts, ExactNext
  <2> QED  BY <1>12, <2>2, <2>4
<1>15. AddOnce'
  <2>1. \A x \in ToSet(job.ti_buffer) : x \in DOMAIN tis /\ Uses(job', x)
    BY <1>9, <1>10, <1>11, UsesKinds, Parts
  <2>2. \A x \in ToSet(job.ti_buffer) : tis'[x].file = tis[x].file
    BY <1>14, <2>1, Stands, NextQueue
  <2>3. \A x \in ToSet(b) : tis'[x].file \notin ToSet(rest)
    BY <1>4, <1>5, <1>10, <1>12, <1>14, <2>2
  <2> QED  BY <1>5, <1>10, <1>11, <2>3 DEF AddOnce
<1>16. Once(job)' /\ RefreshOnce'
  BY <1>11 DEF Once, RefreshOnce
<1> QED  BY <1>6, <1>14, <1>15, <1>16 DEF RefInv

LEMMA FlushRefs ==
    ASSUME CacheInv, RefInv, CacheInv', flush_ti_buffer
    PROVE  RefInv'
<1> DEFINE N == Len(tis)
           seq == job.ti_buffer
           m == FoldLeft(AddAndUnref, Mem, seq)
           P == [x \in 1 .. N |-> Count(player = x) + Asked(queue, x)]
<1>1. UNCHANGED << player, shown, queue, lock, ui, disk, clock, cachefile, tmpfile, libpl >> /\ job' = Idle
  BY DEF flush_ti_buffer, KeepFiles, KeepDisk, JobDone
<1>2. job \in AddJobs(N) /\ N \in Nat
  BY MemFacts, JobKinds DEF flush_ti_buffer, CacheInv, JobOK
<1>3. seq \in Seq(1 .. N) /\ job.kind = "add" /\ IsInjective(seq)
  <2>1. seq \in Seq(1 .. N) /\ job.kind = "add"
    BY <1>2 DEF AddJobs
  <2> QED  BY <2>1, Parts DEF AddOnce
<1>4. \A x \in 1 .. N : P[x] \in Nat /\ Others[x] = P[x] + Count(x \in ToSet(seq))
  <2> SUFFICES ASSUME NEW x \in 1 .. N PROVE P[x] \in Nat /\ Others[x] = P[x] + Count(x \in ToSet(seq))
    OBVIOUS
  <2>1. /\ Others[x] = Count(player = x) + Count(Uses(job, x)) + Asked(queue, x)
        /\ Count(player = x) \in Nat /\ Asked(queue, x) \in Nat /\ Count(Uses(job, x)) \in Nat
    BY Parts, OtherParts
  <2>2. Count(Uses(job, x)) = Count(x \in ToSet(seq))
    BY <1>3, UsesKinds DEF Count
  <2> HIDE DEF Count
  <2> QED  BY <2>1, <2>2
<1>5. SetMem(m)
  BY DEF flush_ti_buffer
<1>6. m \in MemSet(FreshInfos, N) /\ m.table = table
  BY <1>2, <1>3, Parts, FlushFold
<1> HIDE DEF P, seq
<1>7. Exact(m, shown', P) /\ Keeps(tis, m.tis)
  <2>1. Exact(m, shown, P) /\ Keeps(Mem.tis, m.tis)
    BY <1>2, <1>3, <1>4, Parts, FlushExact
  <2> QED  BY <1>1, <2>1, Parts
<1> HIDE DEF m
<1>8. \A x \in 1 .. N : Count(player' = x) + Count(Uses(job', x)) + Asked(queue', x) = P[x]
  <2> SUFFICES ASSUME NEW x \in 1 .. N
               PROVE  Count(player' = x) + Count(Uses(job', x)) + Asked(queue', x) = P[x]
    OBVIOUS
  <2>1. Count(Uses(job', x)) = 0
    BY <1>1, UsesKinds DEF Count
  <2>2. Count(player = x) \in Nat /\ Asked(queue, x) \in Nat
    BY Parts, OtherParts
  <2> HIDE DEF Count
  <2> QED  BY <1>1, <2>1, <2>2 DEF P
<1>9. Exact(Mem, shown, Others)' /\ tis' = m.tis /\ table' = table
  <2>1. Exact(Mem, shown, Others)'
    BY <1>2, <1>5, <1>6, <1>7, <1>8, Parts, ExactNext
  <2> QED  BY <1>2, <1>5, <1>6, <2>1, MemIs
<1>10. UiOnce'
  BY <1>1, <1>7, <1>9, UiOnceSame, NextQueue
<1> QED  BY <1>1, <1>9, <1>10, JobOnceIdle, QueueOnceSame, FilesOnceSame DEF RefInv

LEMMA SingleOnce == \A v : IsInjective(<< v >>)
  BY DEF IsInjective

LEMMA AddFilesOnce ==
    ASSUME NEW fs, IsInjective(fs)
    PROVE  Unread(AddFiles(fs)) /\ Once(AddFiles(fs)) /\ \A x : ~Wants(AddFiles(fs), x)
<1>1. AddFiles(fs).kind = "add" /\ AddFiles(fs).files = fs /\ AddFiles(fs).ti_buffer = << >>
  BY DEF AddFiles
<1> QED  BY <1>1 DEF Unread, Once, Wants

LEMMA NobodyUses ==
    ASSUME NEW N \in Nat, NEW j \in {Idle} \cup Jobs(N) \cup Readings(N) \cup Refreshes(N), NEW x, x \notin 1 .. N, x # 0
    PROVE  ~Uses(j, x)
<1>1. CASE j = Idle
  BY <1>1, UsesKinds
<1>2. CASE j \in AddJobs(N) \cup Readings(N)
  <2>1. j.kind = "add" /\ j.ti_buffer \in Seq(1 .. N)
    BY <1>2 DEF AddJobs, Readings
  <2>2. x \notin ToSet(j.ti_buffer)
    BY <2>1 DEF ToSet
  <2> QED  BY <2>1, <2>2, UsesKinds
<1>3. CASE j \in UpdateJobs(N)
  <2>1. j.kind = "update" /\ j.tis \in Seq(1 .. N)
    BY <1>3 DEF UpdateJobs
  <2>2. x \notin ToSet(j.tis)
    BY <2>1 DEF ToSet
  <2> QED  BY <2>1, <2>2, UsesKinds
<1>4. CASE j \in StartJobs
  <2>1. j.kind = "refresh" /\ j.step = "start"
    BY <1>4 DEF StartJobs
  <2> QED  BY <2>1, UsesKinds
<1>5. CASE j \in Refreshes(N)
  <2>1. j.kind = "refresh" /\ j.step # "start" /\ j.arr \in Seq(Slots(N))
    BY <1>5 DEF Refreshes
  <2>2. \A k \in DOMAIN j.arr : ~Has(j.arr[k], x)
    <3> SUFFICES ASSUME NEW k \in DOMAIN j.arr PROVE ~Has(j.arr[k], x)
      OBVIOUS
    <3>1. j.arr[k] \in Slots(N)
      BY <2>1
    <3> QED  BY <3>1 DEF Slots, Has
  <2> QED  BY <2>1, <2>2, UsesKinds
<1> QED  BY <1>1, <1>2, <1>3, <1>4, <1>5 DEF Jobs

(* The next track of an update job: one reference less.                    *)
LEMMA UpdateNext ==
    ASSUME CacheInv, RefInv, job.kind = "update", NextTrack
    PROVE  /\ AddOnce' /\ Once(job)' /\ RefreshOnce'
           /\ \A x : Count(Uses(job, x)) = Count(Uses(job', x)) + Count(x = Head(job.tis))
<1> DEFINE s == job.tis
           rest == Tail(s)
<1>1. job \in UpdateJobs(Len(tis)) /\ s \in Seq(1 .. Len(tis)) /\ s # << >>
  BY UpdateFacts DEF UpdateJobs
<1>2. IsInjective(s)
  BY Parts DEF Once
<1>3. IsInjective(rest) /\ Head(s) \notin ToSet(rest) /\ ToSet(s) = ToSet(rest) \cup {Head(s)}
  BY <1>1, <1>2, TailOnce
<1>4. \A x : Uses(job, x) <=> x \in ToSet(s)
  BY UsesKinds
<1>5. CASE Len(s) = 1
  <2>1. job' = Idle
    BY <1>5 DEF NextTrack, JobDone
  <2>2. rest = << >>
    <3>1. rest \in Seq(1 .. Len(tis)) /\ Len(rest) = Len(s) - 1
      <4> HIDE DEF s
      <4>1. \A S : \A z \in Seq(S) : z # << >> => Tail(z) \in Seq(S) /\ Len(Tail(z)) = Len(z) - 1
        OBVIOUS
      <4> QED  BY <1>1, <4>1
    <3>2. Len(rest) = 0
      BY <1>5, <3>1
    <3> HIDE DEF rest
    <3> QED  BY <3>1, <3>2
  <2>3. ToSet(rest) = {}
    BY <2>2, EmptyOnce
  <2>4. \A x : ~Uses(job', x)
    BY <2>1, UsesKinds
  <2> HIDE DEF rest, s
  <2>5. \A x : Count(Uses(job, x)) = Count(Uses(job', x)) + Count(x = Head(s))
    BY <1>3, <1>4, <2>3, <2>4 DEF Count
  <2> QED  BY <2>1, <2>5, JobOnceIdle DEF s
<1>6. CASE Len(s) # 1
  <2>1. job' = [job EXCEPT !.tis = rest, !.step = "stat"]
    BY <1>6 DEF NextTrack
  <2> HIDE DEF rest
  <2>2. job'.kind = "update" /\ job'.tis = rest
    BY <1>1, <2>1 DEF UpdateJobs
  <2>3. \A x : Uses(job', x) <=> x \in ToSet(rest)
    BY <2>2, UsesKinds
  <2> HIDE DEF s
  <2>4. \A x : Count(Uses(job, x)) = Count(Uses(job', x)) + Count(x = Head(s))
    BY <1>3, <1>4, <2>3 DEF Count
  <2>5. AddOnce' /\ Once(job)' /\ RefreshOnce'
    BY <1>3, <2>2 DEF AddOnce, Once, RefreshOnce
  <2> QED  BY <2>4, <2>5 DEF s
<1> QED  BY <1>5, <1>6

LEMMA UpdateStatRefs ==
    ASSUME CacheInv, RefInv, CacheInv', UpdateStat
    PROVE  RefInv'
<1> DEFINE N == Len(tis)
           i == Head(job.tis)
           same == disk[tis[i].file] # 0 /\ disk[tis[i].file] = tis[i].mtime
           t == track_info_unref(tis, i)
           m == [Mem EXCEPT !.tis = t]
           P == [x \in 1 .. N |-> Count(player = x) + Count(Uses(job', x)) + Asked(queue, x)]
<1>1. UNCHANGED << table, total, changed, hash, view, player, shown, queue, lock, ui, disk, clock, cachefile, tmpfile, libpl >>
  BY DEF UpdateStat, KeepFiles, KeepDisk
<1>2. job.kind = "update" /\ job \in UpdateJobs(N) /\ N \in Nat /\ i \in 1 .. N
  BY UpdateFacts DEF UpdateStat
<1>3. CASE same
  <2>1. tis' = t /\ NextTrack
    BY <1>3 DEF UpdateStat
  <2>2. /\ AddOnce' /\ Once(job)' /\ RefreshOnce'
        /\ \A x : Count(Uses(job, x)) = Count(Uses(job', x)) + Count(x = i)
    BY <1>2, <2>1, UpdateNext
  <2>3. OneLess(N, Others, P, i)
    <3> SUFFICES ASSUME NEW x \in 1 .. N PROVE P[x] \in Nat /\ Others[x] = P[x] + Count(x = i)
      BY DEF OneLess
    <3>1. /\ Others[x] = Count(player = x) + Count(Uses(job, x)) + Asked(queue, x)
          /\ Count(player = x) \in Nat /\ Asked(queue, x) \in Nat
      BY Parts, OtherParts
    <3>2. P[x] = Count(player = x) + Count(Uses(job', x)) + Asked(queue, x)
      OBVIOUS
    <3>3. Count(Uses(job', x)) \in Nat /\ Count(x = i) \in Nat
      BY DEF Count
    <3> HIDE DEF Count, P
    <3> QED  BY <2>2, <3>1, <3>2, <3>3
  <2> HIDE DEF i
  <2>4. m \in MemSet(FreshInfos, N) /\ Exact(m, shown, P) /\ Keeps(tis, m.tis)
    <3> HIDE DEF P
    <3> DEFINE r == [Mem EXCEPT !.tis = track_info_unref(Mem.tis, i)]
    <3>1. r \in MemSet(FreshInfos, N) /\ Exact(r, shown, P) /\ Keeps(Mem.tis, r.tis)
      BY <1>2, <2>3, Parts, UnrefExact
    <3>2. r = m
      BY Parts
    <3> HIDE DEF r, m
    <3> QED  BY <3>1, <3>2, Parts
  <2>5. SetMem(m)
    <3> HIDE DEF t
    <3> QED  BY <1>1, <2>1, TisIs
  <2> HIDE DEF m
  <2>6. Exact(Mem, shown, Others)' /\ Keeps(tis, tis')
    <3>1. tis' = m.tis
      BY <1>2, <2>4, <2>5, MemIs
    <3>2. \A x \in 1 .. N : Count(player' = x) + Count(Uses(job', x)) + Asked(queue', x) = P[x]
      BY <1>1
    <3> HIDE DEF P
    <3>3. Exact(m, shown', P)
      BY <1>1, <2>4
    <3>4. Exact(Mem, shown, Others)'
      BY <1>2, <2>4, <2>5, <3>2, <3>3, Parts, ExactNext
    <3> QED  BY <2>4, <3>1, <3>4
  <2>7. UiOnce'
    BY <1>1, <2>6, UiOnceSame, NextQueue
  <2> QED  BY <1>1, <2>2, <2>6, <2>7, QueueOnceSame, FilesOnceSame DEF RefInv
<1>4. CASE ~same
  <2> DEFINE d == IF disk[tis[i].file] = 0 THEN job.dead \cup {i} ELSE job.dead
  <2>1. UNCHANGED tis /\ job' = [job EXCEPT !.step = "lib", !.dead = d]
    BY <1>4 DEF UpdateStat
  <2> HIDE DEF d
  <2>2. job'.kind = "update" /\ job'.tis = job.tis
    BY <1>2, <2>1 DEF UpdateJobs
  <2>3. Exact(Mem, shown, Others)' /\ Keeps(tis, tis')
    BY <1>1, <1>2, <2>1, <2>2, UsesKinds, ExactStay
  <2>4. AddOnce' /\ Once(job)' /\ RefreshOnce'
    BY <1>2, <2>2, Parts DEF AddOnce, Once, RefreshOnce
  <2>5. UiOnce'
    BY <1>1, <2>3, UiOnceSame, NextQueue
  <2> QED  BY <1>1, <2>3, <2>4, <2>5, QueueOnceSame, FilesOnceSame DEF RefInv
<1> QED  BY <1>3, <1>4

LEMMA UpdateLibRefs ==
    ASSUME CacheInv, RefInv, CacheInv', UpdateLib
    PROVE  RefInv'
<1> DEFINE N == Len(tis)
           m == lib_remove(Mem, Head(job.tis))
<1>1. UNCHANGED << player, shown, queue, lock, ui, disk, clock, cachefile, tmpfile, libpl >>
  BY DEF UpdateLib, KeepFiles, KeepDisk
<1>2. job.kind = "update" /\ job \in UpdateJobs(N) /\ N \in Nat
  BY UpdateFacts DEF UpdateLib
<1>3. m \in MemSet(FreshInfos, N) /\ m.table = table /\ Exact(m, shown, Others) /\ Keeps(tis, m.tis)
  <2>1. m \in MemSet(FreshInfos, N) /\ m.table = Mem.table
    BY <1>2, Parts, RemoveTrackType
  <2>2. Exact(m, shown, Others) /\ Keeps(Mem.tis, m.tis)
    BY <1>2, Parts, RemoveTrackExact
  <2> QED  BY <2>1, <2>2, Parts
<1>4. SetMem(m) /\ job' = [job EXCEPT !.step = "cache"]
  BY DEF UpdateLib
<1> HIDE DEF m
<1>5. job'.kind = "update" /\ job'.tis = job.tis
  BY <1>2, <1>4 DEF UpdateJobs
<1>6. \A x \in 1 .. N : Count(player' = x) + Count(Uses(job', x)) + Asked(queue', x) = Others[x]
  <2> SUFFICES ASSUME NEW x \in 1 .. N
               PROVE  Count(player' = x) + Count(Uses(job', x)) + Asked(queue', x) = Others[x]
    OBVIOUS
  <2>1. Others[x] = Count(player = x) + Count(Uses(job, x)) + Asked(queue, x)
    BY Parts, OtherParts
  <2>2. Uses(job', x) <=> Uses(job, x)
    BY <1>2, <1>5, UsesKinds
  <2>3. Count(Uses(job', x)) = Count(Uses(job, x))
    BY <2>2 DEF Count
  <2> QED  BY <1>1, <2>1, <2>3
<1>7. Exact(Mem, shown, Others)' /\ Keeps(tis, tis') /\ table' = table
  <2>1. tis' = m.tis /\ table' = table
    BY <1>2, <1>3, <1>4, MemIs
  <2>2. Exact(m, shown', Others)
    BY <1>1, <1>3
  <2>3. Exact(Mem, shown, Others)'
    BY <1>2, <1>3, <1>4, <1>6, <2>2, Parts, ExactNext
  <2> QED  BY <1>3, <2>1, <2>3
<1>8. AddOnce' /\ Once(job)' /\ RefreshOnce'
  BY <1>2, <1>5, Parts DEF AddOnce, Once, RefreshOnce
<1>9. UiOnce'
  BY <1>1, <1>7, UiOnceSame, NextQueue
<1> QED  BY <1>1, <1>7, <1>8, <1>9, QueueOnceSame, FilesOnceSame DEF RefInv

LEMMA UpdateCacheRefs ==
    ASSUME CacheInv, RefInv, CacheInv', UpdateCache
    PROVE  RefInv'
<1> DEFINE N == Len(tis)
           i == Head(job.tis)
           r == do_cache_remove_ti(Mem, i)
           m == [r EXCEPT !.tis = track_info_unref(r.tis, i)]
           j == AddFiles(<< tis[i].file >>)
           P == [x \in 1 .. N |-> Count(player = x) + Count(Uses(job', x)) + Asked(queue, x)]
<1>1. UNCHANGED << player, shown, lock, ui, disk, clock, cachefile, tmpfile, libpl >>
  BY DEF UpdateCache, KeepFiles, KeepDisk
<1>2. job.kind = "update" /\ job \in UpdateJobs(N) /\ N \in Nat /\ i \in 1 .. N /\ queue \in Seq(Jobs(N))
  BY UpdateFacts DEF UpdateCache
<1>3. SetMem(m) /\ NextTrack /\ (queue' = queue \/ queue' = Append(queue, j))
  BY DEF UpdateCache
<1>4. /\ AddOnce' /\ Once(job)' /\ RefreshOnce'
      /\ \A x : Count(Uses(job, x)) = Count(Uses(job', x)) + Count(x = i)
  BY <1>2, <1>3, UpdateNext
<1>5. j \in Jobs(N) /\ Unread(j) /\ Once(j) /\ \A x : ~Wants(j, x)
  <2>1. << tis[i].file >> \in Seq(Names)
    BY <1>2, MemFacts
  <2> QED  BY <1>2, <2>1, AddFilesType, AddFilesOnce, SingleOnce
<1> HIDE DEF j
<1>6. QueueOnce'
  BY <1>2, <1>3, <1>5, QueueOnceSame, QueueOnceMore
<1>7. \A x : Asked(queue', x) = Asked(queue, x)
  <2> SUFFICES ASSUME NEW x, queue' = Append(queue, j) PROVE Asked(queue', x) = Asked(queue, x)
    BY <1>3
  <2>1. Asked(queue', x) = Asked(queue, x) + Count(Wants(j, x))
    BY <1>2, <1>5, AskedAppend
  <2>2. Count(Wants(j, x)) = 0 /\ Asked(queue, x) \in Nat
    BY <1>2, <1>5, AskedType DEF Count
  <2> QED  BY <2>1, <2>2
<1>8. OneLess(N, Others, P, i)
  <2> SUFFICES ASSUME NEW x \in 1 .. N PROVE P[x] \in Nat /\ Others[x] = P[x] + Count(x = i)
    BY DEF OneLess
  <2>1. /\ Others[x] = Count(player = x) + Count(Uses(job, x)) + Asked(queue, x)
        /\ Count(player = x) \in Nat /\ Asked(queue, x) \in Nat
    BY Parts, OtherParts
  <2>2. P[x] = Count(player = x) + Count(Uses(job', x)) + Asked(queue, x)
    OBVIOUS
  <2>3. Count(Uses(job', x)) \in Nat /\ Count(x = i) \in Nat
    BY DEF Count
  <2> HIDE DEF Count, P
  <2> QED  BY <1>4, <2>1, <2>2, <2>3
<1>9. \A x \in 1 .. N : Count(player' = x) + Count(Uses(job', x)) + Asked(queue', x) = P[x]
  BY <1>1, <1>7
<1> HIDE DEF i, P
<1>10. r \in MemSet(FreshInfos, N) /\ Exact(r, shown, Others) /\ Keeps(tis, r.tis) /\ r.table \subseteq table
  <2>1. r \in MemSet(FreshInfos, N) /\ r.table = Mem.table \ {i}
    BY <1>2, Parts, RemoveEntryType
  <2>2. Exact(r, shown, Others) /\ Keeps(Mem.tis, r.tis)
    BY <1>2, Parts, RemoveEntryExact
  <2> HIDE DEF r
  <2> QED  BY <2>1, <2>2, Parts
<1> HIDE DEF r
<1>11. m \in MemSet(FreshInfos, N) /\ Exact(m, shown, P) /\ Keeps(r.tis, m.tis) /\ m.table = r.table
  BY <1>2, <1>8, <1>10, Parts, UnrefExact
<1> HIDE DEF m
<1>12. Exact(Mem, shown, Others)' /\ Keeps(tis, tis') /\ table' \subseteq table
  <2>1. tis' = m.tis /\ table' = m.table
    BY <1>2, <1>3, <1>11, MemIs
  <2>2. Exact(m, shown', P)
    BY <1>1, <1>11
  <2>3. Exact(Mem, shown, Others)'
    BY <1>2, <1>3, <1>9, <1>11, <2>2, Parts, ExactNext
  <2>4. Keeps(tis, m.tis)
    BY <1>10, <1>11, KeepsAgain
  <2> QED  BY <1>10, <1>11, <2>1, <2>3, <2>4
<1>13. UiOnce'
  BY <1>1, <1>12, UiOnceSame, NextQueue
<1> QED  BY <1>1, <1>4, <1>6, <1>12, <1>13, FilesOnceSame DEF RefInv

(* A job without references is asked for.                                  *)
LEMMA AskRefs ==
    ASSUME CacheInv, RefInv, CacheInv', UNCHANGED << memory, shown, job, lock, ui >>, KeepDisk,
           NEW j \in Jobs(Len(tis)), AddJob(j), Unread(j), Once(j), \A x : ~Wants(j, x)
    PROVE  RefInv'
<1> DEFINE N == Len(tis)
<1>1. UNCHANGED << tis, table, total, changed, hash, view, player, shown, job, lock, ui, disk, clock, cachefile, tmpfile, libpl >>
  BY DEF KeepDisk, memory
<1>2. queue' = Append(queue, j) /\ queue \in Seq(Jobs(N)) /\ N \in Nat
  BY Parts DEF AddJob
<1>3. QueueOnce'
  BY <1>2, QueueOnceMore
<1>4. \A x \in 1 .. N : Count(player' = x) + Count(Uses(job', x)) + Asked(queue', x) = Others[x]
  <2> SUFFICES ASSUME NEW x \in 1 .. N
               PROVE  Count(player' = x) + Count(Uses(job', x)) + Asked(queue', x) = Others[x]
    OBVIOUS
  <2>1. Others[x] = Count(player = x) + Count(Uses(job, x)) + Asked(queue, x) /\ Asked(queue, x) \in Nat
    BY Parts, OtherParts
  <2>2. Asked(queue', x) = Asked(queue, x) + Count(Wants(j, x)) /\ Count(Wants(j, x)) = 0
    BY <1>2, AskedAppend DEF Count
  <2> QED  BY <1>1, <2>1, <2>2
<1>5. Exact(Mem, shown, Others)' /\ Keeps(tis, tis')
  <2>1. SetMem(Mem)
    BY <1>1 DEF SetMem, Mem
  <2>2. Exact(Mem, shown', Others)
    BY <1>1, Parts
  <2> QED  BY <1>1, <1>4, <2>1, <2>2, Parts, ExactNext, KeepsSelf
<1>6. AddOnce' /\ Once(job)' /\ RefreshOnce'
  BY <1>1, <1>5, JobOnceSame, NextQueue
<1>7. UiOnce'
  BY <1>1, <1>5, UiOnceSame, NextQueue
<1> QED  BY <1>1, <1>3, <1>5, <1>6, <1>7, FilesOnceSame DEF RefInv

LEMMA AddRefs ==
    ASSUME CacheInv, RefInv, CacheInv', NEW f \in Names, cmus_add(f)
    PROVE  RefInv'
<1> DEFINE j == AddFiles(<< f >>)
<1>1. j \in Jobs(Len(tis)) /\ Unread(j) /\ Once(j) /\ \A x : ~Wants(j, x)
  <2>1. << f >> \in Seq(Names)
    OBVIOUS
  <2> QED  BY <2>1, MemFacts, AddFilesType, AddFilesOnce, SingleOnce
<1>2. /\ AddJob(j) /\ UNCHANGED << memory, shown, job, lock, ui >> /\ KeepDisk
  BY DEF cmus_add
<1> HIDE DEF j
<1> QED  BY <1>1, <1>2, AskRefs

LEMMA AskRefreshRefs ==
    ASSUME CacheInv, RefInv, CacheInv', cmus_update_cache
    PROVE  RefInv'
<1> DEFINE j == [kind |-> "refresh", step |-> "start"]
<1>1. j \in Jobs(Len(tis)) /\ j.kind = "refresh"
  BY DEF Jobs, StartJobs
<1>2. /\ AddJob(j) /\ UNCHANGED << memory, shown, job, lock, ui >> /\ KeepDisk
  BY DEF cmus_update_cache
<1> HIDE DEF j
<1>3. Unread(j) /\ Once(j) /\ \A x : ~Wants(j, x)
  BY <1>1 DEF Unread, Once, Wants
<1> QED  BY <1>1, <1>2, <1>3, AskRefs

LEMMA AskUpdateRefs ==
    ASSUME CacheInv, RefInv, CacheInv', NEW is, is \subseteq hash \cup view, UpdateJob(is), KeepDisk,
           UNCHANGED << table, total, changed, hash, view, player, shown, job, lock, ui >>
    PROVE  RefInv'
<1> DEFINE N == Len(tis)
           s == SetToSeq(is)
           j == [kind |-> "update", step |-> "stat", tis |-> s, dead |-> {}]
           t == RefAll(tis, is)
           m == [Mem EXCEPT !.tis = t]
           P == [x \in 1 .. N |-> Others[x] + Count(x \in is)]
<1>1. UNCHANGED << disk, clock, cachefile, tmpfile, libpl >> /\ N \in Nat
  BY MemFacts DEF KeepDisk
<1>2. queue' = Append(queue, j) /\ is # {} /\ tis' = t
  BY DEF UpdateJob, AddJob
<1>3. s \in Seq(1 .. N) /\ s # << >> /\ IsInjective(s) /\ ToSet(s) = is
  <2>0. is \subseteq 1 .. N
    BY MemFacts
  <2>1. IsFiniteSet(is)
    <3>1. IsFiniteSet(1 .. N)
      BY <1>1, FS_Interval
    <3> QED  BY <2>0, <3>1, FS_Subset
  <2>2. s \in Seq(is) /\ s # << >>
    BY <1>2, <2>1, SetToSeqType
  <2>3. \A S, T : S \subseteq T => Seq(S) \subseteq Seq(T)
    OBVIOUS
  <2>4. IsInjective(s) /\ ToSet(s) = is
    BY <2>1, SetToSeqOnce
  <2> HIDE DEF s
  <2> QED  BY <2>0, <2>2, <2>3, <2>4
<1> HIDE DEF s
<1>4. j \in Jobs(N) /\ j.kind = "update" /\ j.tis = s
  <2>1. j \in UpdateJobs(N)
    BY <1>3 DEF UpdateJobs
  <2> QED  BY <2>1 DEF Jobs
<1> HIDE DEF j
<1>5. Unread(j) /\ Once(j) /\ \A x : Wants(j, x) <=> x \in is
  BY <1>3, <1>4 DEF Unread, Once, Wants
<1>6. QueueOnce'
  BY <1>2, <1>4, <1>5, Parts, QueueOnceMore
<1>7. \A x \in 1 .. N : Count(player' = x) + Count(Uses(job', x)) + Asked(queue', x) = P[x]
  <2> SUFFICES ASSUME NEW x \in 1 .. N
               PROVE  Count(player' = x) + Count(Uses(job', x)) + Asked(queue', x) = P[x]
    OBVIOUS
  <2>1. /\ Others[x] = Count(player = x) + Count(Uses(job, x)) + Asked(queue, x)
        /\ Count(player = x) \in Nat /\ Count(Uses(job, x)) \in Nat /\ Asked(queue, x) \in Nat
    BY Parts, OtherParts
  <2>2. Asked(queue', x) = Asked(queue, x) + Count(Wants(j, x))
    BY <1>2, <1>4, Parts, AskedAppend
  <2>3. Count(Wants(j, x)) = Count(x \in is) /\ Count(x \in is) \in Nat
    BY <1>5 DEF Count
  <2>4. P[x] = Others[x] + Count(x \in is)
    OBVIOUS
  <2> HIDE DEF P, Count
  <2> QED  BY <2>1, <2>2, <2>3, <2>4
<1>8. More(N, Others, P, is)
  BY DEF More
<1> HIDE DEF P
<1>9. m \in MemSet(FreshInfos, N) /\ Exact(m, shown, P) /\ Keeps(tis, m.tis)
  <2>1. Alive(Mem, Others, is)
    BY Parts DEF Alive
  <2> DEFINE r == [Mem EXCEPT !.tis = RefAll(Mem.tis, is)]
  <2>2. r \in MemSet(FreshInfos, N) /\ Exact(r, shown, P) /\ Keeps(Mem.tis, r.tis)
    BY <1>8, <2>1, Parts, RefExact
  <2>3. r = m
    BY Parts
  <2> HIDE DEF r, m
  <2> QED  BY <2>2, <2>3, Parts
<1>10. SetMem(m)
  <2> HIDE DEF t
  <2> QED  BY <1>2, TisIs
<1> HIDE DEF m, t
<1>11. Exact(Mem, shown, Others)' /\ Keeps(tis, tis')
  <2>1. tis' = m.tis
    BY <1>1, <1>9, <1>10, MemIs
  <2>2. Exact(m, shown', P)
    BY <1>9
  <2>3. Exact(Mem, shown, Others)'
    BY <1>1, <1>7, <1>9, <1>10, <2>2, Parts, ExactNext
  <2> QED  BY <1>9, <2>1, <2>3
<1>12. AddOnce' /\ Once(job)' /\ RefreshOnce'
  BY <1>11, JobOnceSame, NextQueue
<1>13. UiOnce'
  BY <1>11, UiOnceSame, NextQueue
<1> QED  BY <1>1, <1>6, <1>11, <1>12, <1>13, FilesOnceSame DEF RefInv

(* The player lets go of what it had.                                      *)
LessPlayer(N, Q, P) == \A x \in 1 .. N : P[x] \in Nat /\ Q[x] = P[x] + Count(player = x)

LEMMA PlaysExact ==
    ASSUME NEW S, Closed(S), NEW N \in Nat, NEW m \in MemSet(S, N), NEW sh, NEW Q, NEW P, Exact(m, sh, Q),
           player \in 0 .. N, NEW i, LessPlayer(N, Q, P)
    PROVE  LET r == [m EXCEPT !.tis = Plays(m.tis, i)]
           IN  /\ r \in MemSet(S, N) /\ Exact(r, sh, P) /\ Keeps(m.tis, r.tis)
               /\ r.table = m.table /\ r.hash = m.hash /\ r.view = m.view
<1> DEFINE r == [m EXCEPT !.tis = Plays(m.tis, i)]
<1>1. CASE player = 0
  <2>1. \A x \in 1 .. N : P[x] = Q[x]
    <3> SUFFICES ASSUME NEW x \in 1 .. N PROVE P[x] = Q[x]
      OBVIOUS
    <3>1. Count(player = x) = 0
      BY <1>1 DEF Count
    <3>2. P[x] \in Nat /\ Q[x] = P[x] + Count(player = x)
      BY DEF LessPlayer
    <3> HIDE DEF Count
    <3> QED  BY <3>1, <3>2
  <2>2. r = m
    BY <1>1 DEF Plays, MemSet
  <2> HIDE DEF r
  <2>3. Exact(m, sh, P)
    BY <2>1, ExactSame
  <2> QED  BY <2>2, <2>3, KeepsSelf DEF r
<1>2. CASE player # 0
  <2>1. player \in 1 .. N
    BY <1>2
  <2>2. OneLess(N, Q, P, player)
    <3> SUFFICES ASSUME NEW x \in 1 .. N PROVE P[x] \in Nat /\ Q[x] = P[x] + Count(x = player)
      BY DEF OneLess
    <3>1. Count(player = x) = Count(x = player)
      BY DEF Count
    <3>2. P[x] \in Nat /\ Q[x] = P[x] + Count(player = x)
      BY DEF LessPlayer
    <3> HIDE DEF Count
    <3> QED  BY <3>1, <3>2
  <2> DEFINE u == [m EXCEPT !.tis = track_info_unref(m.tis, player)]
  <2>3. /\ u \in MemSet(S, N) /\ Exact(u, sh, P) /\ Keeps(m.tis, u.tis)
        /\ u.table = m.table /\ u.hash = m.hash /\ u.view = m.view
    BY <2>1, <2>2, UnrefExact
  <2>4. r = u
    BY <1>2 DEF Plays
  <2> HIDE DEF u, r
  <2> QED  BY <2>3, <2>4 DEF r
<1> QED  BY <1>1, <1>2

LEMMA PlayFileRefs ==
    ASSUME CacheInv, RefInv, CacheInv', NEW f \in Names, cmus_play_file(f)
    PROVE  RefInv'
<1> DEFINE N == Len(tis)
<1>1. UNCHANGED << table, total, changed, hash, view, shown, queue, job, disk, clock, cachefile, tmpfile, libpl >> /\ N \in Nat
  BY MemFacts DEF cmus_play_file, KeepDisk
<1>2. lock = "none" /\ ui = NoUi /\ player \in 0 .. N
  BY DEF cmus_play_file, Up, CacheInv, UiOK
<1>3. CASE \E i \in lookup_cache_entry(f) : /\ player' = i /\ tis' = track_info_ref(Plays(tis, i), i)
                                           /\ UNCHANGED << lock, ui >>
  <2>1. PICK i \in lookup_cache_entry(f) : /\ player' = i /\ tis' = track_info_ref(Plays(tis, i), i)
                                           /\ UNCHANGED << lock, ui >>
    BY <1>3
  <2>2. i \in 1 .. N /\ i \in table
    BY MemFacts DEF lookup_cache_entry
  <2> DEFINE a == [Mem EXCEPT !.tis = Plays(Mem.tis, i)]
             is == {i}
             m == [a EXCEPT !.tis = RefAll(a.tis, is)]
             R == [x \in 1 .. N |-> Count(Uses(job, x)) + Asked(queue, x)]
             P == [x \in 1 .. N |-> R[x] + Count(x \in is)]
  <2>3. LessPlayer(N, Others, R)
    <3> SUFFICES ASSUME NEW x \in 1 .. N PROVE R[x] \in Nat /\ Others[x] = R[x] + Count(player = x)
      BY DEF LessPlayer
    <3>1. /\ Others[x] = Count(player = x) + Count(Uses(job, x)) + Asked(queue, x)
          /\ Count(player = x) \in Nat /\ Count(Uses(job, x)) \in Nat /\ Asked(queue, x) \in Nat
      BY Parts, OtherParts
    <3>2. R[x] = Count(Uses(job, x)) + Asked(queue, x)
      OBVIOUS
    <3> HIDE DEF R, Count
    <3> QED  BY <3>1, <3>2
  <2>4. \A x \in 1 .. N : Count(player' = x) + Count(Uses(job', x)) + Asked(queue', x) = P[x]
    <3> SUFFICES ASSUME NEW x \in 1 .. N
                 PROVE  Count(player' = x) + Count(Uses(job', x)) + Asked(queue', x) = P[x]
      OBVIOUS
    <3>1. Count(player' = x) = Count(x \in is) /\ Count(x \in is) \in Nat
      BY <2>1 DEF Count
    <3>2. Count(Uses(job, x)) \in Nat /\ Asked(queue, x) \in Nat
      BY Parts, OtherParts
    <3>3. P[x] = Count(Uses(job, x)) + Asked(queue, x) + Count(x \in is)
      OBVIOUS
    <3> HIDE DEF P, Count, is, R
    <3> QED  BY <1>1, <3>1, <3>2, <3>3
  <2>5. More(N, R, P, is)
    BY DEF More
  <2> HIDE DEF R, P
  <2>6. /\ a \in MemSet(FreshInfos, N) /\ Exact(a, shown, R) /\ Keeps(tis, a.tis)
        /\ a.table = table /\ a.tis = Plays(tis, i)
    <3>1. /\ a \in MemSet(FreshInfos, N) /\ Exact(a, shown, R) /\ Keeps(Mem.tis, a.tis)
          /\ a.table = Mem.table
      <4>1. Closed(FreshInfos) /\ N \in Nat /\ Mem \in MemSet(FreshInfos, N) /\ Exact(Mem, shown, Others)
        BY Parts
      <4> HIDE DEF N
      <4> QED  BY <1>2, <2>3, <4>1, PlaysExact
    <3>2. a.tis = Plays(tis, i)
      BY DEF Mem
    <3> HIDE DEF a
    <3> QED  BY <3>1, <3>2, Parts
  <2>7. SetMem(m)
    <3> DEFINE t == RefAll(Plays(tis, i), is)
    <3>1. tis' = t
      <4>1. DOMAIN Plays(tis, i) = 1 .. N
        <5> HIDE DEF a
        <5>1. DOMAIN a.tis = 1 .. N
          BY <1>1, <2>6, MemFields, Parts
        <5> QED  BY <2>6, <5>1
      <4> QED  BY <2>1, <2>2, <4>1, OneOfAll
    <3>2. m = [Mem EXCEPT !.tis = t]
      BY DEF Mem
    <3> HIDE DEF t, m
    <3>3. SetMem([Mem EXCEPT !.tis = t])
      BY <1>1, <3>1, TisIs
    <3> QED  BY <3>2, <3>3
  <2> HIDE DEF a
  <2>8. m \in MemSet(FreshInfos, N) /\ Exact(m, shown, P) /\ Keeps(a.tis, m.tis)
    <3>1. Alive(a, R, is)
      BY <2>2, <2>6 DEF Alive
    <3> HIDE DEF is
    <3> QED  BY <2>5, <2>6, <3>1, Parts, RefExact
  <2> HIDE DEF m
  <2>9. Exact(Mem, shown, Others)' /\ Keeps(tis, tis')
    <3>1. tis' = m.tis
      BY <1>1, <2>7, <2>8, MemIs
    <3>2. Exact(m, shown', P)
      BY <1>1, <2>8
    <3>3. Exact(Mem, shown, Others)'
      BY <1>1, <2>4, <2>7, <2>8, <3>2, Parts, ExactNext
    <3>4. Keeps(tis, m.tis)
      BY <2>6, <2>8, KeepsAgain
    <3> QED  BY <3>1, <3>3, <3>4
  <2>10. AddOnce' /\ Once(job)' /\ RefreshOnce'
    BY <1>1, <1>2, <2>9, JobOnceSame, NextQueue
  <2>11. UiOnce'
    BY <1>2, <2>1 DEF UiOnce
  <2> QED  BY <1>1, <2>9, <2>10, <2>11, QueueOnceSame, FilesOnceSame DEF RefInv
<1>4. CASE /\ ui' = [step |-> "stat", file |-> f, tags |-> disk[f]] /\ UNCHANGED << tis, player >>
           /\ lookup_cache_entry(f) = {}
  <2>1. Exact(Mem, shown, Others)' /\ Keeps(tis, tis')
    BY <1>1, <1>4, ExactStay
  <2>2. AddOnce' /\ Once(job)' /\ RefreshOnce'
    BY <1>1, <1>2, <2>1, JobOnceSame, NextQueue
  <2>3. UiOnce'
    BY <1>1, <1>4 DEF UiOnce, lookup_cache_entry
  <2> QED  BY <1>1, <2>1, <2>2, <2>3, QueueOnceSame, FilesOnceSame DEF RefInv
<1> QED  BY <1>3, <1>4 DEF cmus_play_file

LEMMA PlayStatRefs ==
    ASSUME CacheInv, RefInv, CacheInv', PlayStat
    PROVE  RefInv'
<1> DEFINE N == Len(tis)
           K == N + 1
           ti == TrackInfo(ui.file, disk[ui.file], ui.tags, 2)
           a == AddNew(Mem, ti)
           m == [a EXCEPT !.tis = Plays(a.tis, Fresh)]
           R == [x \in 1 .. K |-> IF x = K THEN 1 ELSE Others[x]]
           P == [x \in 1 .. K |-> IF x = K THEN 1 ELSE Count(Uses(job, x)) + Asked(queue, x)]
<1>0. SetMem(m)
  BY Zenon DEF PlayStat
<1>1. UNCHANGED << shown, queue, job, disk, clock, cachefile, tmpfile, libpl >>
  BY DEF PlayStat, KeepFiles, KeepDisk
<1>2. player' = K /\ ui' = NoUi /\ N \in Nat /\ K \in Nat /\ K \notin 1 .. N /\ player \in 0 .. N /\ K # 0
  BY MemFacts DEF PlayStat, Fresh, CacheInv, UiOK
<1>3. ui \in [step : {"stat"}, file : Names, tags : Nat] /\ lock = "ui" /\ ui # NoUi
  <2>1. ui \in [step : {"stat"}, file : Names, tags : Nat] /\ ui # NoUi
    BY DEF PlayStat, CacheInv, UiOK, Uis, NoUi
  <2> QED  BY <2>1 DEF CacheInv, UiOK
<1>4. ti \in FreshInfos /\ ti.file = ui.file /\ ti.ref = 2 /\ ti.lost = 0
  <2>1. disk[ui.file] \in Nat /\ disk[ui.file] <= clock + 1 /\ 2 \in Int /\ ui.file \in Names /\ ui.tags \in Nat
    BY <1>3 DEF CacheInv, DiskOK
  <2>2. ti \in FreshInfos
    BY <2>1, NewFresh
  <2> QED  BY <2>2 DEF TrackInfo
<1> HIDE DEF ti
<1>5. a \in MemSet(FreshInfos, K) /\ Exact(a, shown, R) /\ Keeps(tis, a.tis)
  <2>1. R[N + 1] = 1 /\ \A x \in 1 .. N : R[x] = Others[x]
    BY <1>2
  <2> HIDE DEF R
  <2>2. Held(ti, 1 + R[N + 1]) /\ R[N + 1] \in Nat
    BY <1>4, <2>1 DEF Held
  <2>3. \A x \in Mem.table : Mem.tis[x].file # ti.file
    BY <1>3, <1>4, Parts DEF UiOnce
  <2>4. a \in MemSet(FreshInfos, N + 1)
    BY <1>2, <1>4, Parts, AddNewType
  <2>5. Exact(a, shown, R) /\ Keeps(Mem.tis, a.tis)
    BY <1>2, <1>4, <2>1, <2>2, <2>3, Parts, AddNewExact
  <2> QED  BY <2>4, <2>5, Parts
<1> HIDE DEF a
<1>6. LessPlayer(K, R, P)
  <2> SUFFICES ASSUME NEW x \in 1 .. K PROVE P[x] \in Nat /\ R[x] = P[x] + Count(player = x)
    BY DEF LessPlayer
  <2>1. CASE x = K
    <3>1. player # x
      BY <1>2, <2>1
    <3> QED  BY <2>1, <3>1 DEF Count
  <2>2. CASE x # K
    <3>1. x \in 1 .. N
      BY <1>2, <2>2
    <3>2. /\ Others[x] = Count(player = x) + Count(Uses(job, x)) + Asked(queue, x)
          /\ Count(player = x) \in Nat /\ Count(Uses(job, x)) \in Nat /\ Asked(queue, x) \in Nat
      BY <3>1, Parts, OtherParts
    <3>3. R[x] = Others[x] /\ P[x] = Count(Uses(job, x)) + Asked(queue, x)
      BY <2>2
    <3> HIDE DEF P, R, Count
    <3> QED  BY <3>2, <3>3
  <2> QED  BY <2>1, <2>2
<1>7. \A x \in 1 .. K : Count(player' = x) + Count(Uses(job', x)) + Asked(queue', x) = P[x]
  <2> SUFFICES ASSUME NEW x \in 1 .. K
               PROVE  Count(player' = x) + Count(Uses(job', x)) + Asked(queue', x) = P[x]
    OBVIOUS
  <2>1. CASE x = K
    <3>1. Asked(queue, x) = 0 /\ ~Uses(job, x)
      <4>1. job \in {Idle} \cup Jobs(N) \cup Readings(N) \cup Refreshes(N) /\ queue \in Seq(Jobs(N))
        BY DEF CacheInv, JobOK
      <4> QED  BY <1>2, <2>1, <4>1, NobodyAsked, NobodyUses
    <3> QED  BY <1>1, <1>2, <2>1, <3>1 DEF Count
  <2>2. CASE x # K
    <3>1. x \in 1 .. N
      BY <1>2, <2>2
    <3>2. Count(Uses(job, x)) \in Nat /\ Asked(queue, x) \in Nat
      BY <3>1, Parts, OtherParts
    <3>3. P[x] = Count(Uses(job, x)) + Asked(queue, x)
      BY <2>2
    <3>4. Count(player' = x) = 0
      BY <1>2, <2>2 DEF Count
    <3> HIDE DEF P, Count
    <3> QED  BY <1>1, <3>2, <3>3, <3>4
  <2> QED  BY <2>1, <2>2
<1> HIDE DEF P, R, K
<1>8. m \in MemSet(FreshInfos, K) /\ Exact(m, shown, P) /\ Keeps(a.tis, m.tis)
  <2>1. player \in 0 .. K
    BY <1>2 DEF K
  <2> DEFINE i == Fresh
  <2> HIDE DEF i
  <2> DEFINE r == [a EXCEPT !.tis = Plays(a.tis, i)]
  <2>2. r \in MemSet(FreshInfos, K) /\ Exact(r, shown, P) /\ Keeps(a.tis, r.tis)
    BY <1>2, <1>5, <1>6, <2>1, Parts, PlaysExact
  <2> QED  BY <2>2 DEF i
<1> HIDE DEF m
<1>9. Exact(Mem, shown, Others)' /\ Keeps(tis, tis')
  <2>1. tis' = m.tis
    BY <1>0, <1>2, <1>8, MemIs
  <2>2. Exact(m, shown', P)
    BY <1>1, <1>8
  <2>3. Exact(Mem, shown, Others)'
    BY <1>0, <1>2, <1>7, <1>8, <2>2, Parts, ExactNext
  <2>4. Keeps(tis, m.tis)
    BY <1>5, <1>8, KeepsAgain
  <2> QED  BY <2>1, <2>3, <2>4
<1>10. AddOnce' /\ Once(job)' /\ RefreshOnce'
  BY <1>1, <1>3, <1>9, JobOnceSame, NextQueue
<1>11. UiOnce'
  BY <1>2 DEF UiOnce
<1> QED  BY <1>1, <1>9, <1>10, <1>11, QueueOnceSame, FilesOnceSame DEF RefInv

LEMMA WinRemoveRefs ==
    ASSUME CacheInv, RefInv, CacheInv', NEW i \in view, WinRemove(i)
    PROVE  RefInv'
<1> DEFINE N == Len(tis)
           m == lib_remove(Mem, i)
<1>1. UNCHANGED << player, shown, queue, job, lock, ui, disk, clock, cachefile, tmpfile, libpl >> /\ SetMem(m)
  BY DEF WinRemove, KeepDisk
<1>2. m \in MemSet(FreshInfos, N) /\ m.table = table /\ m.total = total
  BY Parts, RemoveTrackType
<1>3. Exact(m, shown, Others) /\ Keeps(tis, m.tis)
  BY Parts, RemoveTrackExact
<1> HIDE DEF m
<1>4. UNCHANGED << table, total >> /\ tis' = m.tis
  BY <1>1, <1>2, Parts, MemIs
<1>5. \A x \in 1 .. N : Count(player' = x) + Count(Uses(job', x)) + Asked(queue', x) = Others[x]
  BY <1>1, Parts, OtherParts
<1>6. Exact(Mem, shown, Others)' /\ Keeps(tis, tis')
  <2>1. Exact(m, shown', Others)
    BY <1>1, <1>3
  <2> QED  BY <1>1, <1>2, <1>3, <1>4, <1>5, <2>1, Parts, ExactNext
<1>7. AddOnce' /\ Once(job)' /\ RefreshOnce'
  BY <1>1, <1>4, <1>6, JobOnceSame, NextQueue
<1>8. UiOnce'
  BY <1>1, <1>4, <1>6, UiOnceSame, NextQueue
<1> QED  BY <1>1, <1>6, <1>7, <1>8, QueueOnceSame, FilesOnceSame DEF RefInv

(* The library is filled anew from what it has.                            *)
LEMMA ExactFrom ==
    ASSUME CacheInv, RefInv, CacheInv', table' = table, hash' \subseteq hash,
           Keeps(tis, tis'), DOMAIN tis' = DOMAIN tis, NEW G, Holds(tis', G),
           \A x \in DOMAIN tis : G[x] = Count(x \in table) + Count(x \in hash') + Count(x \in view') +
                                        Count(player' = x) + Count(Uses(job', x)) + Asked(queue', x),
           view' = {x \in hash' : tis[x].file \in shown'}
    PROVE  Exact(Mem, shown, Others)'
<1> DEFINE m == Mem'
           O == Others'
<1>1. m.tis = tis' /\ m.table = table /\ m.hash = hash' /\ m.view = view'
  BY DEF Mem
<1>2. /\ queue' \in Seq(Jobs(Len(tis'))) /\ DOMAIN tis = 1 .. Len(tis) /\ Len(tis) \in Nat
      /\ table \subseteq DOMAIN tis /\ hash \subseteq DOMAIN tis
  BY NextQueue, MemFacts, Parts
<1>3. \A x \in DOMAIN tis : /\ Count(player' = x) \in Nat /\ Count(Uses(job', x)) \in Nat /\ Asked(queue', x) \in Nat
                            /\ O[x] = Count(player' = x) + Count(Uses(job', x)) + Asked(queue', x)
  BY <1>2, AskedType DEF Count, Others
<1> HIDE DEF m, O
<1>4. \A x \in DOMAIN tis : O[x] \in Nat
  <2> HIDE DEF Count
  <2> QED  BY <1>3
<1>5. \A x \in DOMAIN tis : Owners(m, O)[x] = G[x]
  <2> SUFFICES ASSUME NEW x \in DOMAIN tis PROVE Owners(m, O)[x] = G[x]
    OBVIOUS
  <2>1. Owners(m, O)[x] = Count(x \in m.table) + Count(x \in m.hash) + Count(x \in m.view) + O[x]
    BY <1>1 DEF Owners, Base
  <2>2. Count(x \in m.table) \in Nat /\ Count(x \in m.hash) \in Nat /\ Count(x \in m.view) \in Nat
    BY DEF Count
  <2> HIDE DEF Count, Owners
  <2> QED  BY <1>1, <1>3, <2>1, <2>2
<1>6. Holds(m.tis, Owners(m, O))
  BY <1>1, <1>5 DEF Holds
<1>7. \A x \in table \cup hash' : tis'[x].file = tis[x].file
  <2> SUFFICES ASSUME NEW x \in table \cup hash' PROVE tis'[x].file = tis[x].file
    OBVIOUS
  <2>1. x \in DOMAIN tis
    BY <1>2
  <2>2. G[x] > 0
    <3>1. Base(m, x) \in Nat /\ Base(m, x) > 0
      BY <1>1, BaseType
    <3>2. G[x] = Base(m, x) + O[x]
      BY <1>1, <1>5, <2>1 DEF Owners
    <3> QED  BY <1>4, <2>1, <3>1, <3>2
  <2> QED  BY <2>1, <2>2, Standing
<1>8. Tidy(m, shown')
  <2>1. Tidy(Mem, shown) /\ Mem.table = table /\ Mem.hash = hash /\ Mem.tis = tis
    BY Parts DEF Exact
  <2>2. \A x, y \in m.table : m.tis[x].file = m.tis[y].file => x = y
    BY <1>1, <1>7, <2>1 DEF Tidy
  <2>3. \A x, y \in m.hash : m.tis[x].file = m.tis[y].file => x = y
    BY <1>1, <1>7, <2>1 DEF Tidy
  <2>4. m.view = {x \in m.hash : m.tis[x].file \in shown'}
    BY <1>1, <1>7
  <2> QED  BY <2>2, <2>3, <2>4 DEF Tidy
<1> QED  BY <1>1, <1>4, <1>6, <1>8 DEF Exact, m, O

LEMMA NowHolds ==
    ASSUME CacheInv, RefInv
    PROVE  Holds(tis, Owners(Mem, Others)) /\
           \A x \in DOMAIN tis :
              /\ Owners(Mem, Others)[x] = Count(x \in table) + Count(x \in hash) + Count(x \in view) + Others[x]
              /\ Others[x] = Count(player = x) + Count(Uses(job, x)) + Asked(queue, x)
              /\ Count(player = x) \in Nat /\ Count(Uses(job, x)) \in Nat /\ Asked(queue, x) \in Nat
              /\ Count(x \in table) \in Nat /\ Count(x \in hash) \in Nat /\ Count(x \in view) \in Nat
<1>1. Holds(tis, Owners(Mem, Others))
  BY Parts DEF Exact
<1>2. \A x \in DOMAIN tis :
          Owners(Mem, Others)[x] = Count(x \in table) + Count(x \in hash) + Count(x \in view) + Others[x]
  BY DEF Owners, Base, Mem
<1>3. \A x : Count(x \in table) \in Nat /\ Count(x \in hash) \in Nat /\ Count(x \in view) \in Nat
  BY DEF Count
<1>4. \A x \in DOMAIN tis :
              /\ Others[x] = Count(player = x) + Count(Uses(job, x)) + Asked(queue, x)
              /\ Count(player = x) \in Nat /\ Count(Uses(job, x)) \in Nat /\ Asked(queue, x) \in Nat
  BY Parts, OtherParts
<1> QED  BY <1>1, <1>2, <1>3, <1>4

LEMMA FilterRefs ==
    ASSUME CacheInv, RefInv, CacheInv', NEW fs \in {Names, {Files[1]}}, lib_set_filter(fs)
    PROVE  RefInv'
<1> DEFINE N == Len(tis)
           now == {i \in hash : tis[i].file \in fs}
           t == UnrefAll(tis, view)
           u == RefAll(t, now)
           H == Owners(Mem, Others)
           F == [x \in 1 .. N |-> Count(x \in table) + Count(x \in hash) + Others[x]]
           G == [x \in 1 .. N |-> F[x] + Count(x \in now)]
<1>1. UNCHANGED << table, total, changed, hash, player, queue, job, lock, ui, disk, clock, cachefile, tmpfile, libpl >>
      /\ view' = now /\ tis' = u /\ shown' = fs
  BY DEF lib_set_filter, KeepDisk
<1>2. \A x \in 1 .. N : /\ H[x] = Count(x \in table) + Count(x \in hash) + Count(x \in view) + Others[x]
                        /\ Others[x] \in Nat /\ F[x] \in Nat /\ H[x] = F[x] + Count(x \in view)
                        /\ (x \in now => F[x] > 0)
                        /\ F[x] = Count(x \in table) + Count(x \in hash) + Others[x]
  <2> SUFFICES ASSUME NEW x \in 1 .. N
               PROVE  /\ H[x] = Count(x \in table) + Count(x \in hash) + Count(x \in view) + Others[x]
                      /\ Others[x] \in Nat /\ F[x] \in Nat /\ H[x] = F[x] + Count(x \in view)
                      /\ (x \in now => F[x] > 0)
                      /\ F[x] = Count(x \in table) + Count(x \in hash) + Others[x]
    OBVIOUS
  <2>1. F[x] = Count(x \in table) + Count(x \in hash) + Others[x]
    OBVIOUS
  <2>2. x \in now => Count(x \in hash) = 1
    BY DEF Count
  <2> HIDE DEF F, H, now, Count
  <2>3. x \in DOMAIN tis
    BY Parts
  <2>4. /\ H[x] = Count(x \in table) + Count(x \in hash) + Count(x \in view) + Others[x]
        /\ Others[x] \in Nat
    <3>1. Others[x] \in Nat
      BY <2>3, Parts DEF Exact, Mem
    <3> QED  BY <2>3, <3>1, NowHolds DEF H
  <2>5. Count(x \in table) \in Nat /\ Count(x \in hash) \in Nat /\ Count(x \in view) \in Nat
    BY DEF Count
  <2> DEFINE a == Count(x \in table)
             b == Count(x \in hash)
             c == Count(x \in view)
  <2>6. /\ F[x] = a + b + Others[x] /\ H[x] = a + b + c + Others[x] /\ Others[x] \in Nat
        /\ a \in Nat /\ b \in Nat /\ c \in Nat /\ (x \in now => b = 1)
    BY <2>1, <2>2, <2>4, <2>5
  <2> HIDE DEF a, b, c
  <2>7. F[x] \in Nat /\ H[x] = F[x] + c /\ (x \in now => F[x] > 0)
    BY <2>6
  <2> QED  BY <2>1, <2>4, <2>7 DEF c
<1>3. Holds(t, F) /\ Keeps(tis, t) /\ t \in Seq(FreshInfos) /\ Len(t) = N
  <2> HIDE DEF F, H
  <2>1. \A x \in DOMAIN tis : F[x] \in Nat /\ H[x] = F[x] + Count(x \in view)
    BY <1>2, Parts
  <2>2. Holds(tis, H)
    BY NowHolds DEF H
  <2> QED  BY <2>1, <2>2, Parts, UnrefAllHolds, AllSeq
<1>4. \A x \in 1 .. N : G[x] = F[x] + Count(x \in now)
  OBVIOUS
<1> HIDE DEF t, F, G, H
<1>5. Holds(u, G) /\ Keeps(t, u) /\ u \in Seq(FreshInfos) /\ Len(u) = N
  <2> HIDE DEF now
  <2>1. DOMAIN t = 1 .. N
    BY <1>3, Parts
  <2>2. \A x \in DOMAIN t : G[x] = F[x] + Count(x \in now)
    BY <1>4, <2>1
  <2>3. \A x \in DOMAIN t : x \in now => F[x] > 0
    BY <1>2, <2>1
  <2> QED  BY <1>3, <2>2, <2>3, Parts, RefAllHolds, AllSeq
<1> HIDE DEF u
<1>6. Keeps(tis, tis') /\ DOMAIN tis' = DOMAIN tis
  BY <1>1, <1>3, <1>5, KeepsAgain, Parts
<1>7. \A x \in DOMAIN tis : G[x] = Count(x \in table) + Count(x \in hash') + Count(x \in view') +
                                   Count(player' = x) + Count(Uses(job', x)) + Asked(queue', x)
  <2> SUFFICES ASSUME NEW x \in DOMAIN tis
               PROVE  G[x] = Count(x \in table) + Count(x \in hash') + Count(x \in view') +
                             Count(player' = x) + Count(Uses(job', x)) + Asked(queue', x)
    OBVIOUS
  <2>1. x \in 1 .. N
    BY Parts
  <2>2. Count(x \in now) \in Nat
    BY DEF Count
  <2>3. G[x] = Count(x \in table) + Count(x \in hash) + Others[x] + Count(x \in now)
    BY <1>2, <1>4, <2>1
  <2>4. hash' = hash /\ view' = now /\ player' = player /\ job' = job /\ queue' = queue
    BY <1>1
  <2> HIDE DEF Count, now
  <2> QED  BY <2>2, <2>3, <2>4, NowHolds
<1>8. Exact(Mem, shown, Others)'
  BY <1>1, <1>5, <1>6, <1>7, ExactFrom
<1>9. AddOnce' /\ Once(job)' /\ RefreshOnce'
  BY <1>1, <1>6, <1>8, JobOnceSame, NextQueue
<1>10. UiOnce'
  BY <1>1, <1>6, <1>8, UiOnceSame, NextQueue
<1> QED  BY <1>1, <1>8, <1>9, <1>10, QueueOnceSame, FilesOnceSame DEF RefInv

LEMMA ClearRefs ==
    ASSUME CacheInv, RefInv, CacheInv', view_clear
    PROVE  RefInv'
<1> DEFINE N == Len(tis)
           waiting == {k \in DOMAIN queue : queue[k].kind = "update"}
           sets == [n \in 1 .. Len(queue) |-> IF n \in waiting THEN ToSet(queue[n].tis) ELSE {}]
           t == UnrefAll(tis, hash)
           u == UnrefAll(t, view)
           v == FoldLeft(LoseAll, u, sets)
           H == Owners(Mem, Others)
           F == [x \in 1 .. N |-> Count(x \in table) + Count(x \in view) + Others[x]]
           E == [x \in 1 .. N |-> Count(x \in table) + Others[x]]
           G == [x \in 1 .. N |-> Count(x \in table) + Count(player = x)]
<1>1. UNCHANGED << table, total, changed, player, shown, job, lock, ui, disk, clock, cachefile, tmpfile, libpl >>
      /\ hash' = {} /\ view' = {} /\ tis' = v /\ job = Idle /\ queue' = << >>
  BY DEF view_clear, RemoveJobs, KeepDisk
<1>2. \A x \in 1 .. N : /\ H[x] = F[x] + Count(x \in hash) /\ F[x] = E[x] + Count(x \in view)
                        /\ E[x] = G[x] + Asked(queue, x)
                        /\ F[x] \in Nat /\ E[x] \in Nat /\ G[x] \in Nat
                        /\ G[x] = Count(x \in table) + Count(player = x)
  <2> SUFFICES ASSUME NEW x \in 1 .. N
               PROVE  /\ H[x] = F[x] + Count(x \in hash) /\ F[x] = E[x] + Count(x \in view)
                      /\ E[x] = G[x] + Asked(queue, x)
                      /\ F[x] \in Nat /\ E[x] \in Nat /\ G[x] \in Nat
                      /\ G[x] = Count(x \in table) + Count(player = x)
    OBVIOUS
  <2>1. /\ F[x] = Count(x \in table) + Count(x \in view) + Others[x]
        /\ E[x] = Count(x \in table) + Others[x]
        /\ G[x] = Count(x \in table) + Count(player = x)
    OBVIOUS
  <2>2. Count(Uses(job, x)) = 0
    BY <1>1, UsesKinds DEF Count
  <2> HIDE DEF F, H, E, G, Count
  <2>3. x \in DOMAIN tis
    BY Parts
  <2>4. /\ H[x] = Count(x \in table) + Count(x \in hash) + Count(x \in view) + Others[x]
        /\ Others[x] = Count(player = x) + Asked(queue, x) /\ Asked(queue, x) \in Nat
    BY <2>2, <2>3, NowHolds DEF H
  <2>5. Count(x \in table) \in Nat /\ Count(x \in hash) \in Nat /\ Count(x \in view) \in Nat /\ Count(player = x) \in Nat
    BY DEF Count
  <2> DEFINE p == Count(player = x)
             a == Count(x \in table)
             b == Count(x \in hash)
             c == Count(x \in view)
  <2>6. /\ F[x] = a + c + Others[x] /\ E[x] = a + Others[x] /\ G[x] = a + p
        /\ H[x] = a + b + c + Others[x] /\ Others[x] = p + Asked(queue, x) /\ Asked(queue, x) \in Nat
        /\ p \in Nat /\ a \in Nat /\ b \in Nat /\ c \in Nat
    BY <2>1, <2>4, <2>5
  <2> DEFINE q == Asked(queue, x)
             o == Others[x]
             f == F[x]
             h == H[x]
  <2> HIDE DEF p, a, b, c, q, o, f, h
  <2>7. /\ f = a + c + o /\ h = a + b + c + o
         /\ a \in Nat /\ b \in Nat /\ c \in Nat
    BY <2>6 DEF f, h, o
  <2>8. o \in Nat
    <3>1. o = p + q /\ p \in Nat /\ q \in Nat
      BY <2>6 DEF o, q
    <3> QED  BY <3>1
  <2>9. f \in Nat /\ f = (a + o) + c /\ h = f + b
    BY <2>7, <2>8
  <2>10. G[x] \in Nat /\ Others[x] \in Nat
    BY <2>6
  <2>11. E[x] \in Nat /\ E[x] = G[x] + Asked(queue, x)
    BY <2>6, <2>10
  <2>12. F[x] \in Nat /\ F[x] = E[x] + c
    BY <2>6, <2>9 DEF f, o
  <2>13. H[x] = F[x] + b
    BY <2>9 DEF f, h
  <2> QED  BY <2>6, <2>10, <2>11, <2>12, <2>13 DEF p, a, b, c
<1>3. Holds(t, F) /\ Keeps(tis, t) /\ t \in Seq(FreshInfos) /\ Len(t) = N
  <2> HIDE DEF F, H
  <2>1. \A x \in DOMAIN tis : F[x] \in Nat /\ H[x] = F[x] + Count(x \in hash)
    BY <1>2, Parts
  <2>2. Holds(tis, H)
    BY NowHolds DEF H
  <2> QED  BY <2>1, <2>2, Parts, UnrefAllHolds, AllSeq
<1> HIDE DEF t, F, E, G, H
<1>4. Holds(u, E) /\ Keeps(t, u) /\ u \in Seq(FreshInfos) /\ Len(u) = N
  <2>1. DOMAIN t = 1 .. N
    BY <1>3, Parts
  <2>2. \A x \in DOMAIN t : E[x] \in Nat /\ F[x] = E[x] + Count(x \in view)
    BY <1>2, <2>1
  <2> QED  BY <1>3, <2>2, Parts, UnrefAllHolds, AllSeq
<1> HIDE DEF u
<1>5. Holds(v, G) /\ Keeps(u, v) /\ v \in Seq(FreshInfos) /\ Len(v) = N
  <2>1. DOMAIN u = 1 .. N
    BY <1>4, Parts
  <2>2. sets \in Seq(SUBSET UNION {sets[n] : n \in DOMAIN sets})
    <3>1. Len(queue) \in Nat
      BY Parts
    <3>2. \A W : sets \in [1 .. Len(queue) -> W] => sets \in Seq(W)
      <4> HIDE DEF sets
      <4> QED  BY <3>1
    <3>3. sets \in [1 .. Len(queue) -> SUBSET UNION {sets[n] : n \in DOMAIN sets}]
      OBVIOUS
    <3> QED  BY <3>2, <3>3
  <2>3. \A x \in DOMAIN u : Asked(queue, x) = Cardinality({y \in DOMAIN sets : x \in sets[y]})
    <3> SUFFICES ASSUME NEW x \in DOMAIN u
                 PROVE  {k \in DOMAIN queue : Wants(queue[k], x)} = {y \in DOMAIN sets : x \in sets[y]}
      BY DEF Asked
    <3>1. DOMAIN sets = DOMAIN queue
      BY Parts
    <3>2. \A y \in DOMAIN queue : x \in sets[y] <=> Wants(queue[y], x)
      BY <3>1 DEF Wants
    <3> HIDE DEF sets
    <3> QED  BY <3>1, <3>2
  <2> HIDE DEF sets
  <2>4. \A x \in DOMAIN u : /\ G[x] \in Nat
                            /\ E[x] = G[x] + Cardinality({y \in DOMAIN sets : x \in sets[y]})
    BY <1>2, <2>1, <2>3
  <2>5. Holds(v, G) /\ Keeps(u, v)
    BY <1>4, <2>2, <2>4, Parts, LoseFoldHolds
  <2>6. v \in Seq(FreshInfos) /\ Len(v) = N
    BY <1>4, <2>2, Parts, LoseFold
  <2> QED  BY <2>5, <2>6
<1> HIDE DEF v, sets
<1>6. Keeps(tis, tis') /\ DOMAIN tis' = DOMAIN tis
  BY <1>1, <1>3, <1>4, <1>5, KeepsAgain, Parts
<1>7. \A x \in DOMAIN tis : G[x] = Count(x \in table) + Count(x \in hash') + Count(x \in view') +
                                   Count(player' = x) + Count(Uses(job', x)) + Asked(queue', x)
  <2> SUFFICES ASSUME NEW x \in DOMAIN tis
               PROVE  G[x] = Count(x \in table) + Count(x \in hash') + Count(x \in view') +
                             Count(player' = x) + Count(Uses(job', x)) + Asked(queue', x)
    OBVIOUS
  <2>1. Count(x \in hash') = 0 /\ Count(x \in view') = 0 /\ Count(Uses(job', x)) = 0
    BY <1>1, UsesKinds DEF Count
  <2>2. Asked(queue', x) = 0
    BY <1>1, AskedEmpty
  <2>3. G[x] = Count(x \in table) + Count(player = x)
    BY <1>2, Parts
  <2>4. Count(x \in table) \in Nat /\ Count(player = x) \in Nat /\ player' = player
    BY <1>1 DEF Count
  <2> HIDE DEF Count
  <2> QED  BY <2>1, <2>2, <2>3, <2>4
<1>8. Exact(Mem, shown, Others)'
  <2>1. view' = {x \in hash' : tis[x].file \in shown'} /\ hash' \subseteq hash
    BY <1>1
  <2> QED  BY <1>1, <1>5, <1>6, <1>7, <2>1, ExactFrom
<1>9. AddOnce' /\ Once(job)' /\ RefreshOnce'
  BY <1>1, <1>6, <1>8, JobOnceSame, NextQueue
<1>10. UiOnce'
  BY <1>1, <1>6, <1>8, UiOnceSame, NextQueue
<1>11. QueueOnce'
  BY <1>1 DEF QueueOnce
<1> QED  BY <1>1, <1>8, <1>9, <1>10, <1>11, FilesOnceSame DEF RefInv

LEMMA RefreshUses ==
    ASSUME NEW N \in Nat, NEW j \in Refreshes(N), NEW x
    PROVE  Uses(j, x) <=> \E k \in DOMAIN j.arr : Has(j.arr[k], x)
<1>1. j.kind = "refresh" /\ j.step # "start"
  BY DEF Refreshes
<1> QED  BY <1>1, UsesKinds

LEMMA RefreshStartRefs ==
    ASSUME CacheInv, RefInv, CacheInv', RefreshStart
    PROVE  RefInv'
<1> DEFINE N == Len(tis)
<1>1. /\ UNCHANGED << tis, table, total, changed, hash, view, player, shown, queue, ui >>
      /\ UNCHANGED << disk, clock, cachefile, tmpfile, libpl >>
      /\ job.kind = "refresh" /\ job.step = "start"
  BY DEF RefreshStart, memory, KeepFiles, KeepDisk
<1>2. PICK a \in get_track_infos :
         job' = [kind |-> "refresh", step |-> "stat", n |-> 1, mtime |-> 0,
                 arr |-> [k \in DOMAIN a |-> [ti |-> a[k], held |-> FALSE, next |-> 0]]]
  BY DEF RefreshStart
<1>3. \A j, k \in DOMAIN a : a[j] = a[k] => j = k
  <2>1. a \in SetToSeqs(table)
    BY DEF get_track_infos
  <2> QED  BY <2>1 DEF SetToSeqs
<1>4. /\ job'.kind = "refresh" /\ job'.step = "stat" /\ job'.n = 1 /\ DOMAIN job'.arr = DOMAIN a
      /\ \A k \in DOMAIN a : job'.arr[k].ti = a[k] /\ job'.arr[k].held = FALSE /\ job'.arr[k].next = 0
  BY <1>2
<1>5. \A x \in 1 .. N : Uses(job', x) <=> Uses(job, x)
  <2> SUFFICES ASSUME NEW x PROVE ~Uses(job', x) /\ ~Uses(job, x)
    OBVIOUS
  <2>1. ~Uses(job, x)
    BY <1>1, UsesKinds
  <2>2. ~Uses(job', x)
    BY <1>4, UsesKinds DEF Has
  <2> QED  BY <2>1, <2>2
<1>6. Exact(Mem, shown, Others)' /\ Keeps(tis, tis')
  BY <1>1, <1>5, ExactStay
<1>7. RefreshOnce' /\ AddOnce' /\ Once(job)'
  <2>1. RefreshOnce'
    BY <1>1, <1>3, <1>4, MemFacts DEF RefreshOnce
  <2>2. AddOnce' /\ Once(job)'
    BY <1>4 DEF AddOnce, Once
  <2> QED  BY <2>1, <2>2
<1>8. UiOnce'
  BY <1>1, Parts DEF UiOnce
<1> QED  BY <1>1, <1>6, <1>7, <1>8, QueueOnceSame, FilesOnceSame DEF RefInv

LEMMA RefreshStatRefs ==
    ASSUME CacheInv, RefInv, CacheInv', RefreshStat
    PROVE  RefInv'
<1> DEFINE N == Len(tis)
<1>1. /\ UNCHANGED << tis, table, total, changed, hash, view, player, shown, queue, ui >>
      /\ UNCHANGED << disk, clock, cachefile, tmpfile, libpl >>
      /\ job.kind = "refresh" /\ job.step = "stat" /\ job.n <= total
  BY DEF RefreshStat, memory, KeepFiles, KeepDisk
<1>2. \/ job' = [job EXCEPT !.n = @ + 1]
      \/ \E now : job' = [job EXCEPT !.step = "read", !.mtime = now]
  BY DEF RefreshStat
<1>3. job \in Refreshes(N) /\ job.n \in Nat /\ total \in Nat
  BY <1>1, RefreshFacts, MemFacts
<1>4. /\ job'.kind = "refresh" /\ job'.step # "start" /\ job'.arr = job.arr
      /\ \/ job'.n = job.n + 1 /\ job'.step = "stat"
         \/ job'.n = job.n /\ job'.step = "read"
  BY <1>1, <1>2, <1>3 DEF Refreshes
<1>5. \A x \in 1 .. N : Uses(job', x) <=> Uses(job, x)
  BY <1>1, <1>4, UsesKinds
<1>6. Exact(Mem, shown, Others)' /\ Keeps(tis, tis')
  BY <1>1, <1>5, ExactStay
<1>7. RefreshOnce' /\ AddOnce' /\ Once(job)'
  <2>1. RefreshOnce
    BY Parts
  <2>2. \A k \in DOMAIN job.arr : k \in Int
    BY <1>3 DEF Refreshes
  <2>3. job'.n >= job.n /\ job'.n \in Nat /\ job'.n - 2 <= total /\ (job'.step = "read" => job'.n <= total)
    BY <1>1, <1>3, <1>4
  <2>4. RefreshOnce'
    BY <1>1, <1>3, <1>4, <2>1, <2>2, <2>3 DEF RefreshOnce
  <2>5. AddOnce' /\ Once(job)'
    BY <1>4 DEF AddOnce, Once
  <2> QED  BY <2>4, <2>5
<1>8. UiOnce'
  BY <1>1, Parts DEF UiOnce
<1> QED  BY <1>1, <1>6, <1>7, <1>8, QueueOnceSame, FilesOnceSame DEF RefInv

(* The slot of the entry that was read again.                              *)
LEMMA SlotNext ==
    ASSUME CacheInv, RefInv, job.kind = "refresh", job.step = "read", NEW K \in Nat, NEW e \in Slots(K),
           e.ti = job.arr[job.n].ti, total' \in {total - 1, total},
           e.next # 0 => e.next > Len(tis) /\ total' = total,
           job' = [job EXCEPT !.step = "stat", !.n = @ + 1, !.arr[job.n] = e]
    PROVE  /\ AddOnce' /\ Once(job)' /\ RefreshOnce'
           /\ \A x : x # 0 => Count(Uses(job', x)) = Count(Uses(job, x)) + Count(Has(e, x))
<1> DEFINE N == Len(tis)
           i == job.arr[job.n].ti
<1>1. /\ N \in Nat /\ job \in Refreshes(N) /\ job.n \in Nat /\ job.arr \in Seq(Slots(N)) /\ total \in Nat
      /\ job.n \in DOMAIN job.arr /\ job.n <= total
  <2>1. /\ N \in Nat /\ job \in Refreshes(N) /\ job.n \in Nat /\ job.arr \in Seq(Slots(N)) /\ total \in Nat /\ Refreshing
    BY RefreshFacts, MemFacts
  <2>2. job.n \in DOMAIN job.arr
    BY <2>1, RefreshAt DEF Refreshing
  <2>3. job.n <= total
    BY Parts DEF RefreshOnce
  <2> QED  BY <2>1, <2>2, <2>3
<1>2. /\ job'.kind = "refresh" /\ job'.step = "stat" /\ job'.n = job.n + 1
      /\ DOMAIN job'.arr = DOMAIN job.arr /\ job'.arr[job.n] = e
      /\ \A k \in DOMAIN job.arr : k # job.n => job'.arr[k] = job.arr[k]
  <2>1. job'.arr = [job.arr EXCEPT ![job.n] = e] /\ job'.n = job.n + 1 /\ job'.step = "stat" /\ job'.kind = "refresh"
    BY <1>1 DEF Refreshes
  <2> QED  BY <1>1, <2>1
<1>3. \A k \in DOMAIN job.arr : /\ k \in Int /\ job.arr[k].ti \in 1 .. N /\ job.arr[k].next \in 0 .. N
                                /\ job.arr[k].held \in Flags
  <2>1. \A k \in DOMAIN job.arr : k \in Int /\ job.arr[k] \in Slots(N)
    BY <1>1
  <2> QED  BY <2>1 DEF Slots
<1>4. /\ \A k \in DOMAIN job.arr : k >= job.n => ~job.arr[k].held /\ job.arr[k].next = 0
      /\ \A j, k \in DOMAIN job.arr : job.arr[j].ti = job.arr[k].ti => j = k
      /\ \A j, k \in DOMAIN job.arr : job.arr[j].next # 0 =>
              job.arr[j].next # job.arr[k].ti /\ (job.arr[j].next = job.arr[k].next => j = k)
  BY Parts DEF RefreshOnce
<1>5. e.next = 0 \/ e.next > N
  OBVIOUS
<1>6. \A x : Uses(job', x) <=> Uses(job, x) \/ Has(e, x)
  <2> SUFFICES ASSUME NEW x PROVE Uses(job', x) <=> Uses(job, x) \/ Has(e, x)
    OBVIOUS
  <2>1. Uses(job', x) <=> \E k \in DOMAIN job.arr : Has(job'.arr[k], x)
    BY <1>2, UsesKinds
  <2>2. Uses(job, x) <=> \E k \in DOMAIN job.arr : Has(job.arr[k], x)
    BY <1>1, RefreshUses
  <2>3. ~Has(job.arr[job.n], x)
    BY <1>1, <1>4 DEF Has
  <2> QED  BY <1>1, <1>2, <2>1, <2>2, <2>3
<1>7. \A x : x # 0 /\ Has(e, x) => ~Uses(job, x)
  <2> SUFFICES ASSUME NEW x, x # 0, Has(e, x) PROVE ~Uses(job, x)
    OBVIOUS
  <2>1. CASE x = e.ti
    <3> SUFFICES ASSUME NEW k \in DOMAIN job.arr PROVE ~Has(job.arr[k], x)
      BY <1>1, RefreshUses
    <3>1. job.arr[k].next # x
      <4>1. x = job.arr[job.n].ti
        BY <2>1
      <4> QED  BY <1>1, <1>4, <4>1
    <3>2. job.arr[k].ti = x => ~job.arr[k].held
      BY <1>1, <1>4, <2>1
    <3> QED  BY <3>1, <3>2 DEF Has
  <2>2. CASE x = e.next
    <3>1. x \notin 1 .. N
      BY <1>1, <1>5, <2>2
    <3>2. \A k \in DOMAIN job.arr : ~Has(job.arr[k], x)
      BY <1>3, <3>1 DEF Has
    <3> QED  BY <1>1, <3>2, RefreshUses
  <2> QED  BY <2>1, <2>2 DEF Has
<1>8. \A x : x # 0 => Count(Uses(job', x)) = Count(Uses(job, x)) + Count(Has(e, x))
  BY <1>6, <1>7 DEF Count
<1>9. RefreshOnce'
  <2>1. \A k \in DOMAIN job'.arr : k >= job'.n => ~job'.arr[k].held /\ job'.arr[k].next = 0
    BY <1>1, <1>2, <1>3, <1>4
  <2>2. \A k \in DOMAIN job.arr : job'.arr[k].ti = job.arr[k].ti
    BY <1>2
  <2>3. \A j, k \in DOMAIN job'.arr : job'.arr[j].ti = job'.arr[k].ti => j = k
    BY <1>2, <1>4, <2>2
  <2>4. \A j, k \in DOMAIN job'.arr : job'.arr[j].next # 0 =>
           job'.arr[j].next # job'.arr[k].ti /\ (job'.arr[j].next = job'.arr[k].next => j = k)
    <3> SUFFICES ASSUME NEW j \in DOMAIN job.arr, NEW k \in DOMAIN job.arr, job'.arr[j].next # 0
                 PROVE  job'.arr[j].next # job.arr[k].ti /\ (job'.arr[j].next = job'.arr[k].next => j = k)
      BY <1>2, <2>2
    <3>1. CASE j = job.n
      <4>1. job'.arr[j].next > N
        BY <1>2, <1>5, <3>1
      <4>2. k # j => job'.arr[k].next \in 0 .. N
        BY <1>2, <1>3, <3>1
      <4>3. job.arr[k].ti \in 1 .. N
        BY <1>3
      <4> DEFINE x == job'.arr[j].next
                 y == job'.arr[k].next
                 z == job.arr[k].ti
      <4> HIDE DEF x, y, z
      <4>4. x # z /\ (x = y => j = k)
        BY <1>1, <4>1, <4>2, <4>3 DEF x, y, z
      <4> QED  BY <4>4 DEF x, y, z
    <3>2. CASE j # job.n
      <4>1. job'.arr[j].next = job.arr[j].next /\ job.arr[j].next \in 0 .. N
        BY <1>2, <1>3, <3>2
      <4>2. job'.arr[k].next = job.arr[k].next \/ job'.arr[k].next = 0 \/ job'.arr[k].next > N
        BY <1>2, <1>5
      <4> QED  BY <1>1, <1>4, <4>1, <4>2
    <3> QED  BY <3>1, <3>2
  <2>5. job'.n - 2 <= total' /\ (job'.step = "read" => job'.n <= total')
    BY <1>1, <1>2
  <2>6. \A k \in DOMAIN job'.arr : k > total' => job'.arr[k].next = 0
    <3> SUFFICES ASSUME NEW k \in DOMAIN job.arr, k > total' PROVE job'.arr[k].next = 0
      BY <1>2
    <3>1. CASE k = job.n
      BY <1>1, <1>2, <1>5, <3>1
    <3>2. CASE k # job.n
      BY <1>1, <1>2, <1>3, <1>4, <3>2
    <3> QED  BY <3>1, <3>2
  <2> QED  BY <2>1, <2>3, <2>4, <2>5, <2>6 DEF RefreshOnce
<1>10. AddOnce' /\ Once(job)'
  BY <1>2 DEF AddOnce, Once
<1> QED  BY <1>8, <1>9, <1>10

(* What is left when the old entry is out of the cache, with a reference   *)
(* of the refresh on it.                                                   *)
LEMMA GoneExact ==
    ASSUME CacheInv, RefInv, NEW i \in table, NEW Q, NEW S, Closed(S), S = FreshInfos,
           Q = [x \in 1 .. Len(tis) |-> Others[x] + Count(x = i)]
    PROVE  LET r == do_cache_remove_ti([Mem EXCEPT !.tis = track_info_ref(tis, i)], i)
           IN  /\ r \in MemSet(S, Len(tis)) /\ Exact(r, shown, Q) /\ Keeps(tis, r.tis)
               /\ r.table = table \ {i} /\ r.total = total - 1
               /\ \A x \in r.table : r.tis[x].file # tis[i].file
<1> DEFINE N == Len(tis)
           is == {i}
           m == [Mem EXCEPT !.tis = RefAll(Mem.tis, is)]
           r == do_cache_remove_ti(m, i)
<1>1. i \in 1 .. N /\ N \in Nat /\ table \subseteq 1 .. N /\ DOMAIN tis = 1 .. N
  BY MemFacts, Parts
<1>2. m = [Mem EXCEPT !.tis = track_info_ref(tis, i)]
  <2>1. track_info_ref(tis, i) = RefAll(tis, is)
    BY <1>1, OneOfAll
  <2> QED  BY <2>1, Parts
<1>3. More(N, Others, Q, is)
  BY DEF More, Count
<1>4. Alive(Mem, Others, is)
  BY Parts DEF Alive
<1>5. m \in MemSet(S, N) /\ Exact(m, shown, Q) /\ Keeps(Mem.tis, m.tis) /\ m.table = Mem.table /\ m.total = Mem.total
  <2>1. Mem \in MemSet(S, N) /\ Exact(Mem, shown, Others)
    BY Parts
  <2> HIDE DEF is
  <2> QED  BY <1>1, <1>3, <1>4, <2>1, RefExact
<1> HIDE DEF m
<1>6. r \in MemSet(S, N) /\ r.table = table \ {i} /\ r.total = total - 1
  BY <1>1, <1>5, RemoveEntryType, Parts
<1>7. Exact(r, shown, Q) /\ Keeps(m.tis, r.tis)
  BY <1>1, <1>5, RemoveEntryExact
<1> HIDE DEF r
<1>8. Keeps(tis, r.tis)
  BY <1>5, <1>7, KeepsAgain, Parts
<1>9. \A x \in r.table : r.tis[x].file # tis[i].file
  <2> SUFFICES ASSUME NEW x \in r.table PROVE r.tis[x].file # tis[i].file
    OBVIOUS
  <2>1. x \in table /\ x # i /\ x \in DOMAIN tis
    BY <1>1, <1>6
  <2>2. Holds(r.tis, Owners(r, Q)) /\ DOMAIN r.tis = 1 .. N
    BY <1>1, <1>6, <1>7, MemFields DEF Exact
  <2>3. Owners(r, Q)[x] > 0
    <3>1. Base(r, x) \in Nat /\ Base(r, x) > 0
      BY BaseType
    <3>2. Q[x] \in Nat
      BY <1>7, <1>1, <2>1, <2>2 DEF Exact
    <3>3. Owners(r, Q)[x] = Base(r, x) + Q[x]
      BY <1>1, <2>1, <2>2 DEF Owners
    <3> QED  BY <3>1, <3>2, <3>3
  <2>4. r.tis[x].file = tis[x].file
    BY <1>8, <2>1, <2>2, <2>3, Standing
  <2>5. tis[x].file # tis[i].file
    BY <2>1, Parts DEF Exact, Tidy
  <2> QED  BY <2>4, <2>5
<1> QED  BY <1>2, <1>6, <1>7, <1>8, <1>9 DEF r

(* The new memory and the slot of the entry fit.                           *)
LEMMA SlotRefs ==
    ASSUME CacheInv, RefInv, CacheInv', job.kind = "refresh", job.step = "read",
           UNCHANGED << player, shown, queue, lock, ui, disk, clock, cachefile, tmpfile, libpl >>,
           NEW K \in Nat, Len(tis) <= K, NEW m \in MemSet(FreshInfos, K), SetMem(m), Keeps(tis, m.tis),
           NEW e \in Slots(K), e.ti = job.arr[job.n].ti, m.total \in {total - 1, total},
           e.next # 0 => e.next > Len(tis) /\ m.total = total,
           job' = [job EXCEPT !.step = "stat", !.n = @ + 1, !.arr[job.n] = e],
           NEW P, Exact(m, shown, P),
           \A x \in 1 .. Len(tis) : P[x] = Others[x] + Count(Has(e, x)),
           \A x \in 1 .. K : x \notin 1 .. Len(tis) => P[x] = Count(Has(e, x))
    PROVE  RefInv'
<1> DEFINE N == Len(tis)
<1>1. N \in Nat /\ ui = NoUi /\ queue \in Seq(Jobs(N)) /\ job \in Refreshes(N)
      /\ tis' = m.tis /\ total' = m.total
  <2>1. N \in Nat /\ ui = NoUi /\ queue \in Seq(Jobs(N)) /\ job \in Refreshes(N)
    BY RefreshFacts
  <2>2. tis' = m.tis /\ total' = m.total
    BY MemIs
  <2> QED  BY <2>1, <2>2
<1>2. /\ AddOnce' /\ Once(job)' /\ RefreshOnce'
      /\ \A x : x # 0 => Count(Uses(job', x)) = Count(Uses(job, x)) + Count(Has(e, x))
  <2>1. /\ total' \in {total - 1, total}
        /\ e.next # 0 => e.next > Len(tis) /\ total' = total
    BY <1>1
  <2> QED  BY <2>1, SlotNext
<1>3. \A x \in 1 .. K : Count(player' = x) + Count(Uses(job', x)) + Asked(queue', x) = P[x]
  <2> SUFFICES ASSUME NEW x \in 1 .. K
               PROVE  Count(player' = x) + Count(Uses(job', x)) + Asked(queue', x) = P[x]
    OBVIOUS
  <2>1. Count(Has(e, x)) \in Nat
    BY DEF Count
  <2>2. x # 0 /\ player' = player /\ queue' = queue
    OBVIOUS
  <2>3. Count(Uses(job', x)) = Count(Uses(job, x)) + Count(Has(e, x))
    BY <1>2, <2>2
  <2>4. CASE x \in 1 .. N
    <3>1. /\ Others[x] = Count(player = x) + Count(Uses(job, x)) + Asked(queue, x)
          /\ Count(player = x) \in Nat /\ Count(Uses(job, x)) \in Nat /\ Asked(queue, x) \in Nat
      BY <2>4, Parts, OtherParts
    <3>2. P[x] = Others[x] + Count(Has(e, x))
      BY <2>4
    <3> HIDE DEF Count
    <3> QED  BY <2>1, <2>2, <2>3, <3>1, <3>2
  <2>5. CASE x \notin 1 .. N
    <3>1. Asked(queue, x) = 0
      BY <1>1, <2>5, NobodyAsked
    <3>2. Count(Uses(job, x)) = 0
      <4>1. ~Uses(job, x)
        BY <1>1, <2>2, <2>5, NobodyUses
      <4> QED  BY <4>1 DEF Count
    <3>3. Count(player = x) = 0
      <4>1. player \in 0 .. N
        BY DEF CacheInv, UiOK
      <4> QED  BY <1>1, <2>2, <2>5, <4>1 DEF Count
    <3>4. P[x] = Count(Has(e, x))
      BY <2>5
    <3> HIDE DEF Count
    <3> QED  BY <2>1, <2>2, <2>3, <3>1, <3>2, <3>3, <3>4
  <2> QED  BY <2>4, <2>5
<1>4. Exact(Mem, shown, Others)'
  <2>1. Exact(m, shown', P)
    OBVIOUS
  <2> QED  BY <1>3, <2>1, Parts, ExactNext
<1>5. UiOnce'
  BY <1>1 DEF UiOnce
<1> QED  BY <1>2, <1>4, <1>5, QueueOnceSame, FilesOnceSame DEF RefInv

LEMMA SlotType ==
    ASSUME NEW K \in Nat, NEW i \in 1 .. K, NEW h \in {TRUE, FALSE}, NEW next \in 0 .. K
    PROVE  [ti |-> i, held |-> h, next |-> next] \in Slots(K)
<1>1. h \in Flags
  BY FlagsHas
<1> QED  BY <1>1 DEF Slots

LEMMA RefreshReadRefs ==
    ASSUME CacheInv, RefInv, CacheInv', RefreshRead
    PROVE  RefInv'
<1> DEFINE N == Len(tis)
           i == job.arr[job.n].ti
           gone == do_cache_remove_ti([Mem EXCEPT !.tis = track_info_ref(tis, i)], i)
           only == gone.tis[i].ref = 1
           ti == [Refreshed(tis[i].file) EXCEPT !.ref = IF only THEN 1 ELSE 2]
           new == AddNew(gone, ti)
           Left(m) == IF ~only THEN m ELSE [m EXCEPT !.tis = track_info_unref(@, i)]
           Slot(next) == [ti |-> i, held |-> ~only, next |-> IF only THEN 0 ELSE next]
           Q == [x \in 1 .. N |-> Others[x] + Count(x = i)]
<1>0. \/ SetMem(Left(gone)) /\ job' = [job EXCEPT !.step = "stat", !.n = @ + 1, !.arr[job.n] = Slot(0)]
      \/ SetMem(Left(new)) /\ job' = [job EXCEPT !.step = "stat", !.n = @ + 1, !.arr[job.n] = Slot(N + 1)]
  <2>1. [Mem EXCEPT !.tis = track_info_ref(@, i)] = [Mem EXCEPT !.tis = track_info_ref(tis, i)]
    BY DEF Mem
  <2> QED  BY <2>1, Zenon DEF RefreshRead, Fresh
<1>1. UNCHANGED << player, shown, queue, lock, ui, disk, clock, cachefile, tmpfile, libpl >>
  BY DEF RefreshRead, KeepFiles, KeepDisk
<1>2. /\ job.kind = "refresh" /\ job.step = "read" /\ N \in Nat /\ job.n \in Nat /\ Refreshing
      /\ job.mtime \in Nat
  BY RefreshFacts DEF RefreshRead
<1>3. i \in table /\ i \in 1 .. N /\ i # 0
  <2>1. i \in table /\ i \in 1 .. N
    BY <1>2, RefreshAt DEF Refreshing
  <2> QED  BY <2>1
<1> DEFINE S == FreshInfos
<1>4. Closed(S) /\ S = FreshInfos
  BY MemFacts
<1>5. /\ gone \in MemSet(S, N) /\ Exact(gone, shown, Q) /\ Keeps(tis, gone.tis)
      /\ gone.table = table \ {i} /\ gone.total = total - 1
      /\ \A x \in gone.table : gone.tis[x].file # tis[i].file
  <2> HIDE DEF S
  <2> QED  BY <1>3, <1>4, GoneExact
<1>6. \A x \in 1 .. N : Q[x] = Others[x] + Count(x = i) /\ Others[x] \in Nat
  <2>1. \A x \in 1 .. N : Others[x] \in Nat
    BY Parts DEF Exact
  <2> QED  BY <2>1
<1>7. ti \in S /\ ti.file = tis[i].file /\ ti.lost = 0 /\ ti.ref = (IF only THEN 1 ELSE 2)
  <2> DEFINE r == IF only THEN 1 ELSE 2
  <2>1. r \in Int /\ tis[i].file \in Names /\ job.mtime <= clock + 1 /\ DiskOK
    BY <1>2, <1>3, MemFacts DEF Refreshing, CacheInv
  <2> HIDE DEF r
  <2>2. [Refreshed(tis[i].file) EXCEPT !.ref = r] \in FreshInfos
    BY <1>2, <2>1, RefreshedFresh
  <2>3. LET x == [Refreshed(tis[i].file) EXCEPT !.ref = r] IN x.file = tis[i].file /\ x.lost = 0 /\ x.ref = r
    BY DEF Refreshed, TrackInfo
  <2> QED  BY <1>4, <2>2, <2>3 DEF r
<1> HIDE DEF ti, gone, Q
<1>8. DOMAIN gone.tis = 1 .. N
  BY <1>2, <1>4, <1>5, MemFields
<1>9. CASE /\ ~only /\ SetMem(Left(gone))
           /\ job' = [job EXCEPT !.step = "stat", !.n = @ + 1, !.arr[job.n] = Slot(0)]
  <2> DEFINE e == [ti |-> i, held |-> TRUE, next |-> 0]
  <2>1. SetMem(gone) /\ job' = [job EXCEPT !.step = "stat", !.n = @ + 1, !.arr[job.n] = e]
    BY <1>9
  <2> HIDE DEF i
  <2>2. e \in Slots(N) /\ e.ti = i /\ e.next = 0 /\ e.held /\ \A x \in 1 .. N : Has(e, x) <=> x = i
    <3>1. 0 \in 0 .. N
      BY <1>2
    <3>2. e \in Slots(N)
      BY <1>2, <1>3, <3>1, SlotType
    <3>3. \A x \in 1 .. N : Has(e, x) <=> x = i
      BY <1>2 DEF Has
    <3> QED  BY <3>2, <3>3
  <2> HIDE DEF e
  <2>3. \A x \in 1 .. N : Q[x] = Others[x] + Count(Has(e, x))
    BY <1>6, <2>2 DEF Count
  <2>4. N <= N /\ gone.total \in {total - 1, total} /\ \A x \in 1 .. N : x \notin 1 .. N => Q[x] = Count(Has(e, x))
    BY <1>2, <1>5
  <2> HIDE DEF i, Left, Slot, only
  <2> QED  BY <1>1, <1>2, <1>4, <1>5, <2>1, <2>2, <2>3, <2>4, SlotRefs DEF i
<1>10. CASE /\ only /\ SetMem(Left(gone))
            /\ job' = [job EXCEPT !.step = "stat", !.n = @ + 1, !.arr[job.n] = Slot(0)]
  <2> DEFINE e == [ti |-> i, held |-> FALSE, next |-> 0]
             P == [x \in 1 .. N |-> Others[x]]
             r == [gone EXCEPT !.tis = track_info_unref(@, i)]
  <2>1. SetMem(r) /\ job' = [job EXCEPT !.step = "stat", !.n = @ + 1, !.arr[job.n] = e]
    BY <1>10
  <2> HIDE DEF i
  <2>2. e \in Slots(N) /\ e.ti = i /\ e.next = 0 /\ \A x : ~Has(e, x)
    <3>1. 0 \in 0 .. N
      BY <1>2
    <3>2. e \in Slots(N)
      BY <1>2, <1>3, <3>1, SlotType
    <3>3. \A x : ~Has(e, x)
      BY DEF Has
    <3> QED  BY <3>2, <3>3
  <2> HIDE DEF e
  <2>3. \A x \in 1 .. N : P[x] = Others[x] + Count(Has(e, x))
    BY <1>6, <2>2 DEF Count
  <2>4. OneLess(N, Q, P, i)
    BY <1>6 DEF OneLess
  <2> HIDE DEF P
  <2>5. r \in MemSet(S, N) /\ Exact(r, shown, P) /\ Keeps(gone.tis, r.tis) /\ r.total = gone.total
    <3> HIDE DEF S, N
    <3> DEFINE u == [gone EXCEPT !.tis = track_info_unref(gone.tis, i)]
    <3>1. u \in MemSet(S, N) /\ Exact(u, shown, P) /\ Keeps(gone.tis, u.tis) /\ u.total = gone.total
      BY <1>2, <1>3, <1>4, <1>5, <2>4, UnrefExact
    <3>2. r = u
      OBVIOUS
    <3> HIDE DEF r, u
    <3> QED  BY <3>1, <3>2
  <2> HIDE DEF r
  <2>6. N <= N /\ r.total \in {total - 1, total} /\ \A x \in 1 .. N : x \notin 1 .. N => P[x] = Count(Has(e, x))
    BY <1>2, <1>5, <2>5
  <2>7. Keeps(tis, r.tis)
    BY <1>5, <2>5, KeepsAgain
  <2> HIDE DEF i, Left, Slot, only
  <2> QED  BY <1>1, <1>2, <1>4, <2>1, <2>2, <2>3, <2>5, <2>6, <2>7, SlotRefs DEF i
<1> DEFINE K == N + 1
<1>11. /\ K \in Nat /\ N <= K /\ K > N /\ K # 0 /\ K # i /\ K \in 1 .. K
       /\ \A x \in 1 .. K : x \notin 1 .. N => x = K
       /\ \A x \in 1 .. N : x \in 1 .. K /\ x # K
  BY <1>2, <1>3
<1>12. new \in MemSet(S, K) /\ new.total = total
  <2>1. new \in MemSet(S, N + 1) /\ new.total = gone.total + 1
    <3> HIDE DEF N, S
    <3> QED  BY <1>2, <1>4, <1>5, <1>7, AddNewType
  <2>2. total \in Int
    BY MemFacts
  <2> HIDE DEF new
  <2> QED  BY <1>5, <2>1, <2>2
<1>13. ASSUME NEW P, P[K] \in Nat, ti.ref = 1 + P[K], \A x \in 1 .. N : P[x] = Q[x]
       PROVE  Exact(new, shown, P) /\ Keeps(tis, new.tis)
  <2>1. Held(ti, 1 + P[N + 1]) /\ P[N + 1] \in Nat
    BY <1>7, <1>13 DEF Held
  <2>2. \A x \in gone.table : gone.tis[x].file # ti.file
    BY <1>5, <1>7
  <2>3. Exact(new, shown, P) /\ Keeps(gone.tis, new.tis)
    <3>1. gone \in MemSet(S, N) /\ Exact(gone, shown, Q) /\ ti \in S
      BY <1>5, <1>7
    <3>2. \A x \in 1 .. N : P[x] = Q[x]
      BY <1>13
    <3> HIDE DEF N, S, K
    <3> QED  BY <1>2, <1>4, <2>1, <2>2, <3>1, <3>2, AddNewExact
  <2> HIDE DEF new
  <2> QED  BY <1>5, <2>3, KeepsAgain
<1> HIDE DEF new
<1>14. CASE /\ ~only /\ SetMem(Left(new))
            /\ job' = [job EXCEPT !.step = "stat", !.n = @ + 1, !.arr[job.n] = Slot(N + 1)]
  <2> DEFINE e == [ti |-> i, held |-> TRUE, next |-> K]
             P == [x \in 1 .. K |-> IF x = K THEN 1 ELSE Q[x]]
  <2>1. SetMem(new) /\ job' = [job EXCEPT !.step = "stat", !.n = @ + 1, !.arr[job.n] = e]
    BY <1>14
  <2> HIDE DEF i
  <2>2. e \in Slots(K) /\ e.ti = i /\ e.next = K /\ \A x : Has(e, x) <=> x \in {i, K}
    <3>1. K \in 0 .. K /\ i \in 1 .. K
      BY <1>3, <1>11
    <3>2. e \in Slots(K)
      <4> HIDE DEF K
      <4> QED  BY <1>11, <3>1, SlotType
    <3>3. \A x : Has(e, x) <=> x \in {i, K}
      BY DEF Has
    <3> QED  BY <3>2, <3>3
  <2> HIDE DEF e
  <2>3. P[K] = 1 /\ \A x \in 1 .. N : P[x] = Q[x]
    BY <1>11
  <2> HIDE DEF P
  <2>4. \A x \in 1 .. N : P[x] = Others[x] + Count(Has(e, x))
    BY <1>6, <1>11, <2>2, <2>3 DEF Count
  <2>5. \A x \in 1 .. K : x \notin 1 .. N => P[x] = Count(Has(e, x))
    BY <1>11, <2>2, <2>3 DEF Count
  <2>6. Exact(new, shown, P) /\ Keeps(tis, new.tis)
    BY <1>7, <1>13, <1>14, <2>3
  <2>7. new.total \in {total - 1, total} /\ (e.next # 0 => e.next > Len(tis) /\ new.total = total)
    BY <1>11, <1>12, <2>2
  <2> HIDE DEF i, Left, Slot, only, K
  <2> QED  BY <1>1, <1>2, <1>4, <1>11, <1>12, <2>1, <2>2, <2>4, <2>5, <2>6, <2>7, SlotRefs DEF i
<1>15. CASE /\ only /\ SetMem(Left(new))
            /\ job' = [job EXCEPT !.step = "stat", !.n = @ + 1, !.arr[job.n] = Slot(N + 1)]
  <2> DEFINE e == [ti |-> i, held |-> FALSE, next |-> 0]
             O == [x \in 1 .. K |-> IF x = K THEN 0 ELSE Q[x]]
             P == [x \in 1 .. K |-> IF x = K THEN 0 ELSE Others[x]]
             r == [new EXCEPT !.tis = track_info_unref(@, i)]
  <2>1. SetMem(r) /\ job' = [job EXCEPT !.step = "stat", !.n = @ + 1, !.arr[job.n] = e]
    BY <1>15
  <2> HIDE DEF i
  <2>2. e \in Slots(K) /\ e.ti = i /\ e.next = 0 /\ \A x : ~Has(e, x)
    <3>1. 0 \in 0 .. K /\ i \in 1 .. K
      BY <1>3, <1>11
    <3>2. e \in Slots(K)
      <4> HIDE DEF K
      <4> QED  BY <1>11, <3>1, SlotType
    <3>3. \A x : ~Has(e, x)
      BY DEF Has
    <3> QED  BY <3>2, <3>3
  <2> HIDE DEF e
  <2>3. O[K] = 0 /\ \A x \in 1 .. N : O[x] = Q[x]
    BY <1>11
  <2>4. P[K] = 0 /\ \A x \in 1 .. N : P[x] = Others[x]
    BY <1>11
  <2> HIDE DEF O, P
  <2>5. \A x \in 1 .. N : P[x] = Others[x] + Count(Has(e, x))
    BY <1>6, <2>2, <2>4 DEF Count
  <2>6. \A x \in 1 .. K : x \notin 1 .. N => P[x] = Count(Has(e, x))
    BY <1>11, <2>2, <2>4 DEF Count
  <2>7. Exact(new, shown, O) /\ Keeps(tis, new.tis)
    BY <1>7, <1>13, <1>15, <2>3
  <2>8. OneLess(K, O, P, i)
    <3> SUFFICES ASSUME NEW x \in 1 .. K PROVE P[x] \in Nat /\ O[x] = P[x] + Count(x = i)
      BY DEF OneLess
    <3>1. CASE x = K
      BY <1>11, <2>3, <2>4, <3>1 DEF Count
    <3>2. CASE x # K
      <4>1. x \in 1 .. N
        BY <1>11, <3>2
      <4> QED  BY <1>6, <2>3, <2>4, <4>1
    <3> QED  BY <3>1, <3>2
  <2>9. r \in MemSet(S, K) /\ Exact(r, shown, P) /\ Keeps(new.tis, r.tis) /\ r.total = new.total
    <3>1. i \in 1 .. K
      BY <1>3, <1>11
    <3> HIDE DEF K, S
    <3> DEFINE u == [new EXCEPT !.tis = track_info_unref(new.tis, i)]
    <3>2. u \in MemSet(S, K) /\ Exact(u, shown, P) /\ Keeps(new.tis, u.tis) /\ u.total = new.total
      BY <1>4, <1>11, <1>12, <2>7, <2>8, <3>1, UnrefExact
    <3>3. r = u
      OBVIOUS
    <3> HIDE DEF r, u
    <3> QED  BY <3>2, <3>3
  <2> HIDE DEF r
  <2>10. Keeps(tis, r.tis) /\ r.total \in {total - 1, total} /\ (e.next # 0 => e.next > Len(tis) /\ r.total = total)
    BY <1>12, <2>2, <2>7, <2>9, KeepsAgain
  <2> HIDE DEF i, Left, Slot, only, K
  <2> QED  BY <1>1, <1>2, <1>4, <1>11, <2>1, <2>2, <2>5, <2>6, <2>9, <2>10, SlotRefs DEF i
<1> QED  BY <1>0, <1>9, <1>10, <1>14, <1>15

(* Nobody has two slots of the array.                                      *)
SlotsApart(N, seq) ==
    /\ \A y, z \in DOMAIN seq : \A x \in 1 .. N : Has(seq[y], x) /\ Has(seq[z], x) => y = z
    /\ \A y \in DOMAIN seq : seq[y].held => seq[y].next # seq[y].ti

LEMMA ArrayApart ==
    ASSUME CacheInv, RefInv, job.kind = "refresh", job.step # "start"
    PROVE  SlotsApart(Len(tis), job.arr)
<1> DEFINE N == Len(tis)
           arr == job.arr
<1>1. /\ \A j, k \in DOMAIN arr : arr[j].ti = arr[k].ti => j = k
      /\ \A j, k \in DOMAIN arr : arr[j].next # 0 =>
              arr[j].next # arr[k].ti /\ (arr[j].next = arr[k].next => j = k)
  BY Parts DEF RefreshOnce
<1>2. \A k \in DOMAIN arr : arr[k].ti # 0
  <2>1. arr \in Seq(Slots(N)) /\ N \in Nat
    BY RefreshFacts
  <2>2. \A k \in DOMAIN arr : arr[k] \in Slots(N)
    BY <2>1
  <2>3. \A k \in DOMAIN arr : arr[k].ti \in 1 .. N
    BY <2>2 DEF Slots
  <2> QED  BY <2>1, <2>3
<1> HIDE DEF arr
<1>3. \A y, z \in DOMAIN arr : \A x \in 1 .. N : Has(arr[y], x) /\ Has(arr[z], x) => y = z
  <2> SUFFICES ASSUME NEW y \in DOMAIN arr, NEW z \in DOMAIN arr, NEW x \in 1 .. N, Has(arr[y], x), Has(arr[z], x)
               PROVE  y = z
    OBVIOUS
  <2>1. x \in {arr[y].ti, arr[y].next} /\ x \in {arr[z].ti, arr[z].next} /\ x # 0
    BY DEF Has
  <2> QED  BY <1>1, <2>1
<1>4. \A y \in DOMAIN arr : arr[y].next # arr[y].ti
  BY <1>1, <1>2
<1> QED  BY <1>3, <1>4 DEF SlotsApart, arr

LEMMA ApplyExact ==
    ASSUME NEW S, Closed(S), NEW N \in Nat, NEW m \in MemSet(S, N), NEW seq \in Seq(Slots(N)), SlotsApart(N, seq),
           NEW Q, NEW P, Exact(m, shown, Q),
           \A x \in 1 .. N : P[x] \in Nat /\ Q[x] = P[x] + Count(\E y \in DOMAIN seq : Has(seq[y], x))
    PROVE  LET r == FoldLeft(ReplaceTrack, m, seq)
           IN  Exact(r, shown, P) /\ Keeps(m.tis, r.tis)
  BY ReplaceAllExact DEF SlotsApart

LEMMA RefreshApplyRefs ==
    ASSUME CacheInv, RefInv, CacheInv', RefreshApply
    PROVE  RefInv'
<1> DEFINE N == Len(tis)
           arr == job.arr
           s == SubSeq(arr, 1, Min({total, Len(arr)}))
           m == FoldLeft(ReplaceTrack, Mem, s)
           left == {arr[k].ti : k \in {x \in DOMAIN arr : x > total /\ arr[x].held}}
           t == LoseAll(m.tis, left)
           l == [m EXCEPT !.tis = t]
           P == [x \in 1 .. N |-> Count(player = x) + Asked(queue, x)]
           R == [x \in 1 .. N |-> P[x] + Count(x \in left)]
<1>0. SetMem(l)
  BY Zenon DEF RefreshApply
<1>1. UNCHANGED << player, shown, queue, ui, disk, clock, cachefile, tmpfile, libpl >> /\ job' = Idle
  BY DEF RefreshApply, KeepFiles, KeepDisk, JobDone
<1>2. /\ N \in Nat /\ ui = NoUi /\ queue \in Seq(Jobs(N)) /\ arr \in Seq(Slots(N)) /\ job \in Refreshes(N)
      /\ total \in Nat /\ total <= Len(arr) /\ job.kind = "refresh" /\ job.step = "stat"
  BY RefreshFacts, MemFacts DEF RefreshApply, Refreshing
<1>3. s \in Seq(Slots(N)) /\ DOMAIN s = 1 .. total /\ \A k \in 1 .. total : k \in DOMAIN arr /\ s[k] = arr[k]
  <2>1. Len(arr) \in Nat /\ DOMAIN arr = 1 .. Len(arr)
    BY <1>2
  <2>2. Min({total, Len(arr)}) = total
    BY <1>2, <2>1 DEF Min
  <2>3. SubSeq(arr, 1, total) \in Seq(Slots(N))
    BY <1>2, PrefixType
  <2> HIDE DEF arr
  <2>4. Len(SubSeq(arr, 1, total)) = total /\ \A k \in 1 .. total : SubSeq(arr, 1, total)[k] = arr[k]
    BY <1>2, <2>1
  <2> DEFINE w == SubSeq(arr, 1, total)
  <2>5. s = w
    BY <2>2
  <2> HIDE DEF w, s
  <2>6. DOMAIN w = 1 .. total
    BY <2>3, <2>4 DEF w
  <2>7. \A k \in 1 .. total : k \in DOMAIN arr
    BY <1>2, <2>1
  <2> QED  BY <2>3, <2>4, <2>5, <2>6, <2>7 DEF w
<1>4. SlotsApart(N, arr) /\ \A k \in DOMAIN arr : k \in Int /\ (k > total => arr[k].next = 0)
  <2>1. SlotsApart(N, arr)
    BY <1>2, ArrayApart
  <2>2. \A k \in DOMAIN arr : k > total => arr[k].next = 0
    BY <1>2, Parts DEF RefreshOnce
  <2> QED  BY <1>2, <2>1, <2>2
<1>5. \A x \in 1 .. N : Uses(job, x) <=> \E k \in DOMAIN arr : Has(arr[k], x)
  BY <1>2, RefreshUses
<1> HIDE DEF arr, s
<1>6. SlotsApart(N, s)
  BY <1>3, <1>4 DEF SlotsApart
<1>7. \A x \in 1 .. N : /\ P[x] \in Nat /\ R[x] = P[x] + Count(x \in left) /\ R[x] \in Nat
                        /\ Others[x] = R[x] + Count(\E y \in DOMAIN s : Has(s[y], x))
                        /\ P[x] = Count(player = x) + Asked(queue, x)
  <2> SUFFICES ASSUME NEW x \in 1 .. N
               PROVE  /\ P[x] \in Nat /\ R[x] = P[x] + Count(x \in left) /\ R[x] \in Nat
                      /\ Others[x] = R[x] + Count(\E y \in DOMAIN s : Has(s[y], x))
                      /\ P[x] = Count(player = x) + Asked(queue, x)
    OBVIOUS
  <2> DEFINE b == \E y \in DOMAIN s : Has(s[y], x)
  <2>1. x \in left <=> \E k \in DOMAIN arr : k > total /\ Has(arr[k], x)
    <3>1. \A k \in DOMAIN arr : k > total => (Has(arr[k], x) <=> arr[k].held /\ x = arr[k].ti)
      BY <1>2, <1>4 DEF Has
    <3> QED  BY <3>1
  <2>2. b <=> \E k \in DOMAIN arr : ~(k > total) /\ Has(arr[k], x)
    <3>1. \A k \in DOMAIN arr : k \in 1 .. total <=> ~(k > total)
      BY <1>2, <1>4
    <3> QED  BY <1>3, <3>1
  <2>3. Uses(job, x) <=> b \/ x \in left
    BY <1>5, <2>1, <2>2
  <2>4. ~(b /\ x \in left)
    BY <1>4, <2>1, <2>2 DEF SlotsApart
  <2> HIDE DEF b, left
  <2>5. Count(Uses(job, x)) = Count(b) + Count(x \in left) /\ Count(b) \in Nat /\ Count(x \in left) \in Nat
    BY <2>3, <2>4 DEF Count
  <2>6. /\ Others[x] = Count(player = x) + Count(Uses(job, x)) + Asked(queue, x)
        /\ Count(player = x) \in Nat /\ Asked(queue, x) \in Nat
    BY <1>2, Parts, OtherParts
  <2>7. P[x] = Count(player = x) + Asked(queue, x) /\ R[x] = P[x] + Count(x \in left)
    OBVIOUS
  <2> HIDE DEF P, R
  <2> DEFINE o == Others[x]
             p == Count(player = x)
             q == Asked(queue, x)
             c == Count(x \in left)
             d == Count(b)
  <2>8. o = p + d + c + q /\ P[x] = p + q /\ R[x] = P[x] + c /\ p \in Nat /\ d \in Nat /\ c \in Nat /\ q \in Nat
    <3> HIDE DEF Count
    <3> QED  BY <2>5, <2>6, <2>7
  <2> HIDE DEF o, p, q, c, d
  <2>9. P[x] \in Nat /\ R[x] = P[x] + c /\ R[x] \in Nat /\ o = R[x] + d /\ P[x] = p + q
    BY <2>8
  <2> QED  BY <2>9 DEF o, p, q, c, d, b
<1> HIDE DEF P, R, left
<1>8. m \in MemSet(FreshInfos, N) /\ m.table = table /\ m.total = total
  <2>1. Mem \in MemSet(FreshInfos, N) /\ Closed(FreshInfos) /\ Mem.table = table /\ Mem.total = total
    BY Parts
  <2> QED  BY <1>2, <1>3, <2>1, ReplaceFold
<1>9. Exact(m, shown, R) /\ Keeps(tis, m.tis)
  <2>1. Mem \in MemSet(FreshInfos, N) /\ Closed(FreshInfos) /\ Exact(Mem, shown, Others) /\ Mem.tis = tis
    BY Parts
  <2>2. \A x \in 1 .. N : R[x] \in Nat /\ Others[x] = R[x] + Count(\E y \in DOMAIN s : Has(s[y], x))
    BY <1>7
  <2>3. LET r == FoldLeft(ReplaceTrack, Mem, s) IN Exact(r, shown, R) /\ Keeps(Mem.tis, r.tis)
    BY <1>2, <1>3, <1>6, <2>1, <2>2, ApplyExact
  <2> QED  BY <2>1, <2>3
<1> HIDE DEF m
<1>10. l \in MemSet(FreshInfos, N) /\ Exact(l, shown, P) /\ Keeps(m.tis, l.tis)
  <2>1. Less(N, R, P, left)
    BY <1>7 DEF Less
  <2>2. Closed(FreshInfos)
    BY Parts
  <2> QED  BY <1>2, <1>8, <1>9, <2>1, <2>2, LoseExact
<1> HIDE DEF l
<1>11. tis' = l.tis
  BY <1>0, <1>2, <1>10, MemIs
<1>12. \A x \in 1 .. N : Count(player' = x) + Count(Uses(job', x)) + Asked(queue', x) = P[x]
  <2> SUFFICES ASSUME NEW x \in 1 .. N
               PROVE  Count(player' = x) + Count(Uses(job', x)) + Asked(queue', x) = P[x]
    OBVIOUS
  <2>1. Count(Uses(job', x)) = 0
    BY <1>1, UsesKinds DEF Count
  <2>2. Count(player = x) \in Nat /\ Asked(queue, x) \in Nat
    BY <1>2, OtherParts
  <2>3. player' = player /\ queue' = queue /\ P[x] = Count(player = x) + Asked(queue, x)
    BY <1>1, <1>7
  <2> HIDE DEF Count
  <2> QED  BY <2>1, <2>2, <2>3
<1>13. Exact(Mem, shown, Others)'
  <2>1. Exact(l, shown', P)
    BY <1>1, <1>10
  <2> QED  BY <1>0, <1>2, <1>10, <1>12, <2>1, Parts, ExactNext
<1>14. AddOnce' /\ Once(job)' /\ RefreshOnce'
  BY <1>1, JobOnceIdle
<1>15. UiOnce'
  BY <1>1, <1>2 DEF UiOnce
<1> QED  BY <1>1, <1>13, <1>14, <1>15, QueueOnceSame, FilesOnceSame DEF RefInv

(* The end and the start touch the files alone, or begin anew.             *)
LEMMA FilesRefs ==
    ASSUME CacheInv, RefInv, UNCHANGED << tis, table, total, changed, hash, view, player, shown, queue, job, ui >>,
           FilesOnce'
    PROVE  RefInv'
<1>1. Others' = Others /\ Mem' = Mem
  BY OthersSame DEF Mem
<1>2. Exact(Mem, shown, Others)'
  BY <1>1, Parts
<1>3. QueueOnce' /\ AddOnce' /\ Once(job)' /\ RefreshOnce' /\ UiOnce'
  BY Parts DEF QueueOnce, AddOnce, Once, RefreshOnce, UiOnce
<1> QED  BY <1>2, <1>3 DEF RefInv

LEMMA CloseRefs ==
    ASSUME CacheInv, RefInv, cache_close
    PROVE  RefInv'
<1>1. UNCHANGED << tis, table, total, changed, hash, view, player, shown, queue, job, ui, cachefile >>
  BY DEF cache_close, KeepMemory, memory
<1>2. OnePerFile(Entries)
  <2> SUFFICES ASSUME NEW d \in Entries, NEW e \in Entries, d.file = e.file PROVE d = e
    BY DEF OnePerFile
  <2> DEFINE Entry(i) == [file |-> tis[i].file, mtime |-> tis[i].mtime, tags |-> tis[i].tags, raced |-> tis[i].raced]
  <2>1. PICK i \in table : d = Entry(i)
    BY DEF Entries
  <2>2. PICK j \in table : e = Entry(j)
    BY DEF Entries
  <2>3. tis[i].file = tis[j].file
    BY <2>1, <2>2
  <2>4. i = j
    BY <2>3, Parts DEF Exact, Tidy
  <2> QED  BY <2>1, <2>2, <2>4
<1>3. OnePerFile(tmpfile.entries)'
  <2>1. PICK whole \in BOOLEAN : tmpfile' = [whole |-> whole, full |-> ~whole,
                      entries |-> IF whole THEN Entries ELSE {e \in Entries : e.file = Files[1]}]
    BY DEF cache_close
  <2>2. tmpfile'.entries \subseteq Entries
    BY <2>1
  <2> QED  BY <1>2, <2>2 DEF OnePerFile
<1>4. FilesOnce'
  BY <1>1, <1>3, Parts DEF FilesOnce
<1> QED  BY <1>1, <1>4, FilesRefs

LEMMA NoneOnce == OnePerFile(NoCache.entries)
  BY DEF OnePerFile, NoCache

LEMMA RenameRefs ==
    ASSUME CacheInv, RefInv, CacheRename
    PROVE  RefInv'
<1>1. UNCHANGED << tis, table, total, changed, hash, view, player, shown, queue, job, ui >>
      /\ cachefile' = tmpfile /\ tmpfile' = NoCache
  BY DEF CacheRename, KeepMemory, memory
<1>2. FilesOnce'
  BY <1>1, Parts, NoneOnce DEF FilesOnce
<1> QED  BY <1>1, <1>2, FilesRefs

LEMMA EmptyExact ==
    ASSUME NEW m, m.tis = << >>, m.table = {}, m.hash = {}, m.view = {}, NEW sh, NEW Q
    PROVE  Exact(m, sh, Q)
<1>1. Tidy(m, sh)
  BY DEF Tidy
<1>2. Holds(m.tis, Owners(m, Q)) /\ \A x \in DOMAIN m.tis : Q[x] \in Nat
  BY DEF Holds
<1> QED  BY <1>1, <1>2 DEF Exact

LEMMA DownRefs ==
    ASSUME CacheInv, RefInv, Down
    PROVE  RefInv'
<1>1. /\ tis' = << >> /\ table' = {} /\ hash' = {} /\ view' = {}
      /\ queue' = << >> /\ job' = Idle /\ ui' = NoUi /\ cachefile' = cachefile /\ tmpfile' = NoCache
  BY DEF Down
<1>2. Exact(Mem, shown, Others)'
  <2> DEFINE m == Mem'
             O == Others'
  <2>1. m.tis = << >> /\ m.table = {} /\ m.hash = {} /\ m.view = {}
    BY <1>1 DEF Mem
  <2> HIDE DEF m, O
  <2>2. Exact(m, shown', O)
    BY <2>1, EmptyExact
  <2> QED  BY <2>2 DEF m, O
<1>3. QueueOnce' /\ UiOnce'
  BY <1>1 DEF QueueOnce, UiOnce
<1>4. FilesOnce'
  BY <1>1, Parts, NoneOnce DEF FilesOnce
<1> QED  BY <1>1, <1>2, <1>3, <1>4, JobOnceIdle DEF RefInv

LEMMA SaveRefs ==
    ASSUME CacheInv, RefInv, cmus_save
    PROVE  RefInv'
<1>1. CASE KeepMemory /\ UNCHANGED << cachefile, tmpfile >>
  <2>1. UNCHANGED << tis, table, total, changed, hash, view, player, shown, queue, job, ui, cachefile, tmpfile >>
    BY <1>1 DEF KeepMemory, memory
  <2> QED  BY <2>1, RefsKept
<1>2. CASE Down
  BY <1>2, DownRefs
<1> QED  BY <1>1, <1>2 DEF cmus_save

LEMMA StartRefs ==
    ASSUME CacheInv, RefInv, CacheInv', cmus_init
    PROVE  RefInv'
<1> DEFINE es == cachefile.entries
           n == Cardinality(es)
           s == SetToSeq(es)
           r == read_cache(cachefile)
<1>1. /\ tis' = r /\ table' = DOMAIN tis' /\ hash' = {} /\ view' = {} /\ player' = 0 /\ ui' = NoUi
      /\ job' = Idle /\ queue' = AddPlaylist(libpl) /\ UNCHANGED << cachefile, tmpfile >>
  BY DEF cmus_init
<1>2. IsFiniteSet(es) /\ OnePerFile(es)
  BY Parts DEF CacheInv, FilesOK, CacheFiles, FilesOnce
<1>3. s \in Seq(es) /\ Len(s) = n /\ n \in Nat /\ IsInjective(s)
  BY <1>2, SetToSeqType, SetToSeqOnce
<1>4. DOMAIN r = 1 .. n /\ \A k \in 1 .. n : r[k].file = s[k].file /\ r[k].ref = 1 /\ r[k].lost = 0
  BY DEF read_cache, TrackInfo
<1> HIDE DEF r, s
<1>5. \A j, k \in 1 .. n : r[j].file = r[k].file => j = k
  <2>1. \A k \in 1 .. n : k \in DOMAIN s /\ s[k] \in es
    BY <1>3
  <2> QED  BY <1>2, <1>3, <1>4, <2>1 DEF OnePerFile, IsInjective
<1>6. /\ queue' = << >> \/ queue' = << AddFiles(SetToSeq(libpl)) >>
      /\ IsInjective(SetToSeq(libpl))
  <2>1. IsFiniteSet(libpl)
    BY DEF CacheInv, FilesOK
  <2> QED  BY <1>1, <2>1, SetToSeqOnce DEF AddPlaylist
<1>7. /\ \A k \in DOMAIN queue' : Unread(queue'[k]) /\ Once(queue'[k])
      /\ \A x : \A k \in DOMAIN queue' : ~Wants(queue'[k], x)
  <2> DEFINE j == AddFiles(SetToSeq(libpl))
  <2>1. Unread(j) /\ Once(j) /\ \A x : ~Wants(j, x)
    BY <1>6, AddFilesOnce
  <2>2. queue' = << >> \/ queue' = << j >>
    BY <1>6
  <2> HIDE DEF j
  <2>3. \A k \in DOMAIN queue' : queue'[k] = j
    BY <2>2
  <2> QED  BY <2>1, <2>3
<1>8. \A x : Asked(queue', x) = 0
  <2>1. \A x : {k \in DOMAIN queue' : Wants(queue'[k], x)} = {}
    BY <1>7
  <2> QED  BY <2>1, FS_EmptySet DEF Asked
<1>9. Exact(Mem, shown, Others)'
  <2> DEFINE m == Mem'
             O == Others'
  <2>1. m.tis = r /\ m.table = 1 .. n /\ m.hash = {} /\ m.view = {}
    BY <1>1, <1>4 DEF Mem
  <2>2. \A x \in 1 .. n : O[x] = 0
    <3> SUFFICES ASSUME NEW x \in 1 .. n PROVE O[x] = 0
      OBVIOUS
    <3>1. O[x] = Count(player' = x) + Count(Uses(job', x)) + Asked(queue', x)
      BY <1>1, <1>4 DEF Others
    <3>2. Count(player' = x) = 0
      <4>1. player' # x
        BY <1>1, <1>3
      <4> QED  BY <4>1 DEF Count
    <3>3. Count(Uses(job', x)) = 0
      BY <1>1, UsesKinds DEF Count
    <3> HIDE DEF O, Count
    <3> QED  BY <1>8, <3>1, <3>2, <3>3
  <2> HIDE DEF m, O
  <2>3. Tidy(m, shown')
    BY <1>5, <2>1 DEF Tidy
  <2>4. Holds(m.tis, Owners(m, O))
    <3> SUFFICES ASSUME NEW x \in 1 .. n PROVE Held(r[x], Owners(m, O)[x])
      BY <1>4, <2>1 DEF Holds
    <3>1. Owners(m, O)[x] = Count(x \in m.table) + Count(x \in m.hash) + Count(x \in m.view) + O[x]
      BY <1>4, <2>1 DEF Owners, Base
    <3>2. Count(x \in m.table) = 1 /\ Count(x \in m.hash) = 0 /\ Count(x \in m.view) = 0
      BY <2>1 DEF Count
    <3>3. Owners(m, O)[x] = 1
      <4> HIDE DEF Count
      <4> QED  BY <2>2, <3>1, <3>2
    <3> QED  BY <1>4, <3>3 DEF Held
  <2>5. Exact(m, shown', O)
    BY <1>4, <2>1, <2>2, <2>3, <2>4 DEF Exact
  <2> QED  BY <2>5 DEF m, O
<1>10. QueueOnce' /\ UiOnce'
  BY <1>1, <1>7 DEF QueueOnce, UiOnce
<1> QED  BY <1>1, <1>9, <1>10, JobOnceIdle, FilesOnceSame DEF RefInv

LEMMA RefInit ==
    ASSUME Init
    PROVE  RefInv
<1>1. /\ tis = << >> /\ table = {} /\ hash = {} /\ view = {}
      /\ queue = << >> /\ job = Idle /\ ui = NoUi /\ cachefile = NoCache /\ tmpfile = NoCache
  BY DEF Init
<1>2. Exact(Mem, shown, Others)
  BY <1>1, EmptyExact DEF Mem
<1>3. QueueOnce /\ UiOnce /\ FilesOnce
  BY <1>1, NoneOnce DEF QueueOnce, UiOnce, FilesOnce
<1>4. AddOnce /\ Once(job) /\ RefreshOnce
  <2>1. job.kind = "none"
    BY <1>1 DEF Idle
  <2> QED  BY <2>1 DEF AddOnce, Once, RefreshOnce
<1> QED  BY <1>2, <1>3, <1>4 DEF RefInv

LEMMA RefStep ==
    ASSUME CacheInv, RefInv, [Next]_vars
    PROVE  RefInv'
<1>0. CacheInv'
  BY CacheStep
<1>1. CASE UNCHANGED vars
  BY <1>1, RefsKept DEF vars, memory
<1>2. ASSUME NEW f \in Names, Touch(f) \/ Delete(f) PROVE RefInv'
  BY <1>2, RefsKept DEF Touch, Delete, Changed, memory
<1>3. ASSUME NEW f \in Names, cmus_add(f) \/ cmus_play_file(f) PROVE RefInv'
  BY <1>0, <1>3, AddRefs, PlayFileRefs
<1>4. CASE TakeJob \/ AddGet \/ AddStat \/ flush_ti_buffer
  BY <1>0, <1>4, TakeJobRefs, AddGetRefs, AddStatRefs, FlushRefs
<1>5. CASE UpdateStat \/ UpdateLib \/ UpdateCache
  BY <1>0, <1>5, UpdateStatRefs, UpdateLibRefs, UpdateCacheRefs
<1>6. CASE RefreshStart \/ RefreshStat \/ RefreshRead \/ RefreshApply
  BY <1>0, <1>6, RefreshStartRefs, RefreshStatRefs, RefreshReadRefs, RefreshApplyRefs
<1>7. CASE cmus_update_lib
  BY <1>0, <1>7, AskUpdateRefs DEF cmus_update_lib
<1>8. CASE cmus_update_cache \/ PlayStat \/ view_clear
  BY <1>0, <1>8, AskRefreshRefs, PlayStatRefs, ClearRefs
<1>9. ASSUME NEW i \in view, cmus_update_tis({i}) PROVE RefInv'
  <2>1. {i} \subseteq hash \cup view
    OBVIOUS
  <2> QED  BY <1>0, <1>9, <2>1, AskUpdateRefs DEF cmus_update_tis
<1>10. ASSUME NEW i \in view, WinRemove(i) PROVE RefInv'
  BY <1>0, <1>10, WinRemoveRefs
<1>11. ASSUME NEW fs \in {Names, {Files[1]}}, lib_set_filter(fs) PROVE RefInv'
  BY <1>0, <1>11, FilterRefs
<1>12. CASE cmus_exit
  BY <1>12, RefsKept DEF cmus_exit, KeepMemory, memory
<1>13. CASE cache_close \/ CacheRename \/ cmus_save \/ cmus_init
  BY <1>0, <1>13, CloseRefs, RenameRefs, SaveRefs, StartRefs
<1>14. CASE Crash
  BY <1>14, DownRefs DEF Crash
<1> QED  BY <1>1, <1>2, <1>3, <1>4, <1>5, <1>6, <1>7, <1>8, <1>9, <1>10, <1>11, <1>12, <1>13, <1>14 DEF Next

LEMMA RefAlways == Spec => [](CacheInv /\ RefInv)
<1>1. Init => CacheInv /\ RefInv
  BY CacheInit, RefInit
<1>2. CacheInv /\ RefInv /\ [Next]_vars => CacheInv' /\ RefInv'
  BY CacheStep, RefStep
<1> QED  BY <1>1, <1>2, PTL DEF Spec

LEMMA HoldersIs ==
    ASSUME CacheInv, RefInv, NEW i \in DOMAIN tis
    PROVE  Holders(i) = Owners(Mem, Others)[i]
<1> DEFINE a == Count(job.kind = "add" /\ i \in ToSet(job.ti_buffer))
           u == Count(job.kind = "update" /\ i \in ToSet(job.tis))
           B == {k \in DOMAIN job.arr : job.arr[k].held /\ i \in {job.arr[k].ti, job.arr[k].next}}
           c == IF job.kind # "refresh" \/ job.step = "start" THEN 0 ELSE Cardinality(B)
<1>1. a + u + c = Count(Uses(job, i)) /\ a \in Nat /\ u \in Nat /\ c \in Nat
  <2>1. CASE job.kind = "refresh" /\ job.step # "start"
    <3>1. a = 0 /\ u = 0 /\ c = Cardinality(B)
      BY <2>1 DEF Count
    <3>2. Uses(job, i) <=> B # {}
      BY <2>1, UsesKinds DEF Has
    <3>3. \A y, z \in B : y = z
      BY <2>1, ArrayApart, Parts DEF SlotsApart, Has
    <3>4. CASE B = {}
      BY <3>1, <3>2, <3>4, FS_EmptySet DEF Count
    <3>5. CASE B # {}
      <4>1. PICK y \in B : TRUE
        BY <3>5
      <4>2. B = {y}
        BY <3>3, <4>1
      <4>3. Cardinality(B) = 1
        BY <4>2, FS_Singleton
      <4> QED  BY <3>1, <3>2, <3>5, <4>3 DEF Count
    <3> QED  BY <3>4, <3>5
  <2>2. CASE job.kind # "refresh" \/ job.step = "start"
    <3>1. c = 0
      BY <2>2
    <3>2. Uses(job, i) <=> (job.kind = "add" /\ i \in ToSet(job.ti_buffer)) \/ (job.kind = "update" /\ i \in ToSet(job.tis))
      BY <2>2 DEF Uses, Wants
    <3>3. ~(job.kind = "add" /\ job.kind = "update")
      OBVIOUS
    <3> QED  BY <3>1, <3>2, <3>3 DEF Count
  <2> QED  BY <2>1, <2>2
<1>2. Cardinality({k \in DOMAIN queue : queue[k].kind = "update" /\ i \in ToSet(queue[k].tis)}) = Asked(queue, i)
  BY DEF Asked, Wants
<1>3. Holders(i) = Count(i \in table) + Count(i \in hash) + Count(i \in view) + Count(player = i) + a + u + Asked(queue, i) + c
  BY <1>2 DEF Holders
<1>4. /\ Owners(Mem, Others)[i] = Count(i \in table) + Count(i \in hash) + Count(i \in view) + Others[i]
      /\ Others[i] = Count(player = i) + Count(Uses(job, i)) + Asked(queue, i)
      /\ Count(player = i) \in Nat /\ Asked(queue, i) \in Nat
      /\ Count(i \in table) \in Nat /\ Count(i \in hash) \in Nat /\ Count(i \in view) \in Nat
  BY NowHolds
<1> HIDE DEF Count, a, u, c
<1> QED  BY <1>1, <1>3, <1>4

(* RefsExact for any files and any number of jobs, changes and restarts:   *)
(* all the lists, views, jobs and threads that keep a track info count in  *)
(* its ref, and nothing else does but what was lost (track_info.c).        *)
THEOREM ReferencesExact == Spec => []RefsExact
<1>1. CacheInv /\ RefInv => RefsExact
  <2> SUFFICES ASSUME CacheInv, RefInv, NEW i \in DOMAIN tis PROVE tis[i].ref = Holders(i) + tis[i].lost
    BY DEF RefsExact
  <2>1. Held(tis[i], Owners(Mem, Others)[i])
    BY NowHolds DEF Holds
  <2> QED  BY <2>1, HoldersIs DEF Held
<1> QED  BY <1>1, RefAlways, PTL

(* OneEntryPerFile for any files: adding, updating, refreshing, filtering  *)
(* and playing, in two threads, never give a file a second entry in the    *)
(* cache or a second track in the library (cache_get_ti, lib_add_track).   *)
THEOREM EntriesUnique == Spec => []OneEntryPerFile
<1>1. CacheInv /\ RefInv => OneEntryPerFile
  <2> SUFFICES ASSUME CacheInv, RefInv PROVE OneEntryPerFile
    OBVIOUS
  <2>1. total = Cardinality(table)
    BY DEF CacheInv, MemOK
  <2>2. Tidy(Mem, shown)
    BY Parts DEF Exact
  <2> QED  BY <2>1, <2>2, Parts DEF Tidy, OneEntryPerFile
<1> QED  BY <1>1, RefAlways, PTL

=============================================================================
