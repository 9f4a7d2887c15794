---------------------------- MODULE LocksProofs ----------------------------
(***************************************************************************)
(* LockOrder, for any of the five threads: the mutexes have one order that *)
(* every path follows as long as it does not have editable_mutex locked.   *)
(*                                                                         *)
(* A path runs over the sets of mutexes its thread holds.  That every step *)
(* of a path is in order is shown along the path's construction: for a     *)
(* pair of lock and unlock, and for one path after another.  In a set of   *)
(* threads that wait for each other somebody waits for the mutex that is   *)
(* last in the order, and whoever has that one waits for a later one.      *)
(***************************************************************************)
EXTENDS Locks, Integers, TLAPS

Ops == [op : {"lock", "unlock"}, m : Mutexes]

(* The order.  cache_mutex and consumer_mutex are never held together      *)
(* without editable_mutex.                                                 *)
Rank ==
    [m \in Mutexes |->
       CASE m = "cache"       -> 1
         [] m = "consumer"    -> 1
         [] m = "producer"    -> 2
         [] m = "player_info" -> 3
         [] m = "editable"    -> 4
         [] m = "buffer"      -> 5
         [] m = "worker"      -> 6]

(* A thread that holds h may lock m: it does not have it, and m comes      *)
(* after all it has, unless it has editable_mutex.                         *)
Allowed(h, m) == m \notin h /\ ("editable" \in h \/ \A x \in h : Rank[x] < Rank[m])

(* hs[i] is what a thread holds after i steps of path.                     *)
Holds(path, hs) ==
    /\ hs \in [0..Len(path) -> SUBSET Mutexes]
    /\ \A i \in 1..Len(path) :
         /\ path[i].op = "lock" => /\ Allowed(hs[i - 1], path[i].m)
                                   /\ hs[i] = hs[i - 1] \cup {path[i].m}
         /\ path[i].op = "unlock" => hs[i] = hs[i - 1] \ {path[i].m}

(* path leads from holding h to holding k.                                 *)
Leads(path, h, k) ==
    /\ path \in Seq(Ops)
    /\ \E hs : Holds(path, hs) /\ hs[0] = h /\ hs[Len(path)] = k

LEMMA RankType == \A m \in Mutexes : Rank[m] \in 1..6
  BY DEF Rank, Mutexes

LEMMA LeadsNowhere ==
    ASSUME NEW h \in SUBSET Mutexes
    PROVE  Leads(<< >>, h, h)
<1> DEFINE hs == [i \in 0..0 |-> h]
<1>1. Holds(<< >>, hs) /\ hs[0] = h /\ hs[Len(<< >>)] = h
  BY DEF Holds
<1>2. << >> \in Seq(Ops)
  OBVIOUS
<1> HIDE DEF hs
<1> QED  BY <1>1, <1>2 DEF Leads

LEMMA LeadsType ==
    ASSUME NEW path, NEW h, NEW k, Leads(path, h, k)
    PROVE  path \in Seq(Ops) /\ h \in SUBSET Mutexes /\ k \in SUBSET Mutexes
<1>1. PICK hs : Holds(path, hs) /\ hs[0] = h /\ hs[Len(path)] = k
  BY DEF Leads
<1>2. path \in Seq(Ops) /\ Len(path) \in Nat /\ hs \in [0..Len(path) -> SUBSET Mutexes]
  BY <1>1 DEF Leads, Holds
<1> QED  BY <1>1, <1>2

(* One path after another.                                                 *)
LEMMA LeadsOn ==
    ASSUME NEW a, NEW b, NEW h, NEW j, NEW k, Leads(a, h, j), Leads(b, j, k)
    PROVE  Leads(a \o b, h, k)
<1>1. PICK ha : Holds(a, ha) /\ ha[0] = h /\ ha[Len(a)] = j
  BY DEF Leads
<1>2. PICK hb : Holds(b, hb) /\ hb[0] = j /\ hb[Len(b)] = k
  BY DEF Leads
<1>3. a \in Seq(Ops) /\ b \in Seq(Ops) /\ Len(a) \in Nat /\ Len(b) \in Nat
  BY DEF Leads
<1> DEFINE c == a \o b
           hs == [i \in 0..Len(c) |-> IF i <= Len(a) THEN ha[i] ELSE hb[i - Len(a)]]
<1>4. /\ c \in Seq(Ops) /\ Len(c) = Len(a) + Len(b)
      /\ \A i \in 1..Len(a) : c[i] = a[i]
      /\ \A i \in Len(a) + 1..Len(c) : c[i] = b[i - Len(a)]
  BY <1>3
<1> HIDE DEF c
<1>5. hs \in [0..Len(c) -> SUBSET Mutexes]
  BY <1>1, <1>2, <1>3, <1>4 DEF Holds
<1>6. hs[0] = h /\ hs[Len(c)] = k
  BY <1>1, <1>2, <1>3, <1>4
<1>7. ASSUME NEW i \in 1..Len(c)
      PROVE  /\ c[i].op = "lock" => /\ Allowed(hs[i - 1], c[i].m)
                                    /\ hs[i] = hs[i - 1] \cup {c[i].m}
             /\ c[i].op = "unlock" => hs[i] = hs[i - 1] \ {c[i].m}
  <2>1. CASE i \in 1..Len(a)
    <3>1. hs[i] = ha[i] /\ hs[i - 1] = ha[i - 1] /\ c[i] = a[i]
      BY <1>3, <1>4, <2>1
    <3> HIDE DEF hs
    <3> QED  BY <1>1, <2>1, <3>1 DEF Holds
  <2>2. CASE i \in Len(a) + 1..Len(c)
    <3>1. hs[i] = hb[i - Len(a)] /\ c[i] = b[i - Len(a)] /\ i - Len(a) \in 1..Len(b)
      BY <1>3, <1>4, <2>2
    <3>2. hs[i - 1] = hb[(i - Len(a)) - 1]
      BY <1>1, <1>2, <1>3, <1>4, <2>2
    <3> HIDE DEF hs
    <3> QED  BY <1>2, <3>1, <3>2 DEF Holds
  <2> HIDE DEF hs
  <2> QED  BY <1>3, <1>4, <2>1, <2>2
<1> HIDE DEF hs
<1>8. Holds(c, hs)
  BY <1>5, <1>7 DEF Holds
<1> QED  BY <1>4, <1>6, <1>8 DEF Leads, c

(* A lock and an unlock.                                                   *)
LEMMA LeadsOneStep ==
    ASSUME NEW h \in SUBSET Mutexes, NEW m \in Mutexes
    PROVE  /\ Allowed(h, m) => Leads(<< [op |-> "lock", m |-> m] >>, h, h \cup {m})
           /\ Leads(<< [op |-> "unlock", m |-> m] >>, h, h \ {m})
<1>1. ASSUME NEW o \in Ops, NEW k \in SUBSET Mutexes,
             o.op = "lock" => Allowed(h, o.m) /\ k = h \cup {o.m},
             o.op = "unlock" => k = h \ {o.m}
      PROVE  Leads(<< o >>, h, k)
  <2> DEFINE hs == [i \in 0..1 |-> IF i = 0 THEN h ELSE k]
             p == << o >>
  <2>1. hs \in [0..1 -> SUBSET Mutexes] /\ hs[0] = h /\ hs[1] = k
    OBVIOUS
  <2>2. p \in Seq(Ops) /\ Len(p) = 1 /\ p[1] = o
    OBVIOUS
  <2> HIDE DEF hs, p
  <2>3. \A i \in 1..Len(p) : i = 1 /\ i - 1 = 0
    BY <2>2
  <2>4. Holds(p, hs)
    BY <1>1, <2>1, <2>2, <2>3 DEF Holds
  <2> QED  BY <2>1, <2>2, <2>4 DEF Leads, p
<1>2. [op |-> "lock", m |-> m] \in Ops /\ [op |-> "unlock", m |-> m] \in Ops
  BY DEF Ops
<1> QED  BY <1>1, <1>2

LEMMA LeadsWith ==
    ASSUME NEW h \in SUBSET Mutexes, NEW m \in Mutexes, NEW body, Allowed(h, m),
           Leads(body, h \cup {m}, h \cup {m})
    PROVE  Leads(With(m, body), h, h)
<1> DEFINE l == << [op |-> "lock", m |-> m] >>
           u == << [op |-> "unlock", m |-> m] >>
<1>1. Leads(l, h, h \cup {m})
  BY LeadsOneStep
<1>2. Leads(u, h \cup {m}, h)
  <2>1. (h \cup {m}) \ {m} = h /\ h \cup {m} \in SUBSET Mutexes
    BY DEF Allowed
  <2> QED  BY <2>1, LeadsOneStep
<1>3. With(m, body) = l \o body \o u
  BY DEF With
<1> HIDE DEF l, u
<1>4. Leads(l \o body, h, h \cup {m})
  BY <1>1, LeadsOn
<1> QED  BY <1>2, <1>3, <1>4, LeadsOn

(* The first step of a path.                                               *)
LEMMA LeadsFirst ==
    ASSUME NEW path, NEW h, NEW k, Leads(path, h, k), path # << >>
    PROVE  /\ Head(path) \in Ops
           /\ Head(path).op = "lock" => /\ Allowed(h, Head(path).m)
                                        /\ Leads(Tail(path), h \cup {Head(path).m}, k)
           /\ Head(path).op = "unlock" => Leads(Tail(path), h \ {Head(path).m}, k)
<1>1. PICK hs : Holds(path, hs) /\ hs[0] = h /\ hs[Len(path)] = k
  BY DEF Leads
<1>2. path \in Seq(Ops) /\ Len(path) \in Nat /\ Len(path) >= 1
  BY DEF Leads
<1> DEFINE t == Tail(path)
           ts == [i \in 0..Len(t) |-> hs[i + 1]]
<1>3. /\ t \in Seq(Ops) /\ Len(t) = Len(path) - 1 /\ Head(path) = path[1] /\ path[1] \in Ops
      /\ \A i \in 1..Len(t) : t[i] = path[i + 1]
  BY <1>2
<1> HIDE DEF t
<1>4. ts \in [0..Len(t) -> SUBSET Mutexes]
  BY <1>1, <1>2, <1>3 DEF Holds
<1>5. ts[0] = hs[1] /\ ts[Len(t)] = k
  BY <1>1, <1>2, <1>3
<1>6. ASSUME NEW i \in 1..Len(t)
      PROVE  /\ t[i].op = "lock" => /\ Allowed(ts[i - 1], t[i].m)
                                    /\ ts[i] = ts[i - 1] \cup {t[i].m}
             /\ t[i].op = "unlock" => ts[i] = ts[i - 1] \ {t[i].m}
  <2>1. ts[i] = hs[i + 1] /\ ts[i - 1] = hs[(i + 1) - 1] /\ i + 1 \in 1..Len(path)
    BY <1>2, <1>3
  <2> HIDE DEF ts
  <2> QED  BY <1>1, <1>3, <2>1 DEF Holds
<1> HIDE DEF ts
<1>7. Holds(t, ts)
  BY <1>4, <1>6 DEF Holds
<1>8. Leads(t, hs[1], k)
  BY <1>3, <1>5, <1>7 DEF Leads
<1>9. /\ path[1].op = "lock" => Allowed(h, path[1].m) /\ hs[1] = h \cup {path[1].m}
      /\ path[1].op = "unlock" => hs[1] = h \ {path[1].m}
  <2>1. 1 \in 1..Len(path) /\ hs[1 - 1] = h
    BY <1>1, <1>2
  <2> QED  BY <1>1, <2>1 DEF Holds
<1> QED  BY <1>3, <1>8, <1>9 DEF t

-----------------------------------------------------------------------------
(* The paths of the five threads                                           *)

Runs(path, h) == Leads(path, h, h)

LEMMA RunsOn ==
    ASSUME NEW a, NEW b, NEW h, Runs(a, h), Runs(b, h)
    PROVE  Runs(a \o b, h)
  BY LeadsOn DEF Runs

LEMMA RunsWith ==
    ASSUME NEW h \in SUBSET Mutexes, NEW m \in Mutexes, NEW body, Allowed(h, m),
           Runs(body, h \cup {m})
    PROVE  Runs(With(m, body), h)
  BY LeadsWith DEF Runs

LEMMA RunsLock ==
    ASSUME NEW h \in SUBSET Mutexes, NEW m \in Mutexes, Allowed(h, m)
    PROVE  Runs(With(m, << >>), h)
<1>1. h \cup {m} \in SUBSET Mutexes
  OBVIOUS
<1>2. Runs(<< >>, h \cup {m})
  BY <1>1, LeadsNowhere DEF Runs
<1> QED  BY <1>2, RunsWith

(* What the player does inside its locks, with or without editable_mutex.  *)
Inside == SUBSET {"consumer", "producer", "editable"}

LEMMA InsideAllows ==
    ASSUME NEW h \in Inside
    PROVE  /\ h \in SUBSET Mutexes
           /\ Allowed(h, "buffer") /\ Allowed(h, "player_info")
           /\ Allowed(h \cup {"player_info"}, "buffer") /\ h \cup {"player_info"} \in SUBSET Mutexes
           /\ "editable" \notin h => Allowed(h, "editable")
  BY DEF Inside, Allowed, Rank, Mutexes

LEMMA InsideRuns ==
    ASSUME NEW h \in Inside
    PROVE  /\ Runs(reset_buffer, h) /\ Runs(file_changed, h) /\ Runs(cmus_dbus_hook, h)
           /\ Runs(__player_status_changed, h)
           /\ "editable" \notin h => Runs(get_next, h)
<1> USE InsideAllows
<1>0. {"buffer", "player_info", "editable"} \subseteq Mutexes
  BY DEF Mutexes
<1>1. Runs(reset_buffer, h)
  BY <1>0, RunsLock DEF reset_buffer
<1>2. Runs(file_changed, h)
  BY <1>0, RunsLock DEF file_changed
<1>3. Runs(cmus_dbus_hook, h)
  BY <1>0, RunsLock DEF cmus_dbus_hook
<1>4. Runs(__player_status_changed, h)
  <2>1. Runs(With("buffer", << >>), h \cup {"player_info"})
    BY <1>0, RunsLock
  <2> QED  BY <1>0, <2>1, RunsWith DEF __player_status_changed
<1>5. ASSUME "editable" \notin h PROVE Runs(get_next, h)
  <2>1. Runs(With("editable", << >>), h)
    BY <1>0, <1>5, RunsLock
  <2> QED  BY <1>3, <2>1, RunsOn DEF get_next
<1> QED  BY <1>1, <1>2, <1>3, <1>4, <1>5

LEMMA PlayerLockRuns ==
    ASSUME NEW h \in SUBSET {"editable"}, NEW body, Runs(body, h \cup {"consumer", "producer"})
    PROVE  Runs(player_lock(body), h)
<1>1. /\ h \in SUBSET Mutexes /\ h \cup {"consumer"} \in SUBSET Mutexes
      /\ {"consumer", "producer"} \subseteq Mutexes
      /\ Allowed(h, "consumer") /\ Allowed(h \cup {"consumer"}, "producer")
  BY DEF Allowed, Rank, Mutexes
<1>2. (h \cup {"consumer"}) \cup {"producer"} = h \cup {"consumer", "producer"}
  OBVIOUS
<1>3. Runs(With("producer", body), h \cup {"consumer"})
  BY <1>1, <1>2, RunsWith
<1> QED  BY <1>1, <1>3, RunsWith DEF player_lock

LEMMA PlayFileRuns ==
    ASSUME NEW h \in SUBSET {"editable"}
    PROVE  Runs(player_play_file, h) /\ Runs(cmus_play_file, h)
<1> DEFINE k == h \cup {"consumer", "producer"}
<1>1. k \in Inside /\ h \in SUBSET Mutexes /\ "cache" \in Mutexes /\ Allowed(h, "cache")
  BY DEF Inside, Allowed, Rank, Mutexes
<1> HIDE DEF k
<1>2. Runs(reset_buffer \o file_changed \o __player_status_changed, k)
  BY <1>1, InsideRuns, RunsOn
<1>3. Runs(player_play_file, h)
  BY <1>2, PlayerLockRuns DEF player_play_file, k
<1>4. Runs(With("cache", << >>), h)
  BY <1>1, RunsLock
<1> QED  BY <1>3, <1>4, RunsOn DEF cmus_play_file

(* Every path of every thread starts and ends with no mutex held.          *)
LEMMA PathsRun ==
    ASSUME NEW t \in AllThreads, NEW path \in Paths(t)
    PROVE  Runs(path, {})
<1>0. /\ {} \in SUBSET Mutexes /\ {} \in Inside /\ {} \in SUBSET {"editable"}
      /\ {"cache"} \in SUBSET Mutexes /\ {"editable"} \in SUBSET Mutexes
      /\ {"player_info"} \in SUBSET Mutexes
      /\ {"consumer"} \in Inside /\ {"producer"} \in Inside /\ {"consumer", "producer"} \in Inside
      /\ {"editable"} \in Inside /\ {"editable"} \in SUBSET {"editable"}
      /\ {"consumer"} \in SUBSET Mutexes
  BY DEF Inside, Mutexes
<1>1. /\ \A m \in Mutexes : Allowed({}, m)
      /\ Allowed({"player_info"}, "editable") /\ Allowed({"cache"}, "editable")
      /\ Allowed({"consumer"}, "producer")
  BY DEF Allowed, Rank, Mutexes
<1>2. {"consumer", "producer", "player_info", "editable", "cache", "worker"} \subseteq Mutexes
  BY DEF Mutexes
<1>3. \A m \in Mutexes : Runs(With(m, << >>), {})
  BY <1>0, <1>1, RunsLock
<1>4. \A m \in Mutexes : {} \cup {m} = {m}
  OBVIOUS
<1>5. /\ Runs(player_play_file, {}) /\ Runs(cmus_play_file, {})
      /\ Runs(cmus_play_file, {"editable"})
  BY <1>0, PlayFileRuns
<1>6. /\ Runs(cmus_dbus_hook, {}) /\ Runs(__player_status_changed, {})
      /\ Runs(cmus_dbus_hook, {"editable"})
  BY <1>0, InsideRuns
<1>7. \A h \in {{"consumer"}, {"producer"}, {"consumer", "producer"}} :
        /\ Runs(reset_buffer, h) /\ Runs(file_changed, h) /\ Runs(get_next, h)
        /\ Runs(__player_status_changed, h)
  BY <1>0, InsideRuns
<1>8. ASSUME NEW m \in Mutexes, NEW body, Runs(body, {m})
      PROVE  Runs(With(m, body), {})
  BY <1>0, <1>1, <1>4, <1>8, RunsWith
<1>9. Runs(player_play, {})
  <2>1. Runs(get_next \o file_changed \o __player_status_changed, {"consumer", "producer"})
    BY <1>7, RunsOn
  <2>2. {} \cup {"consumer", "producer"} = {"consumer", "producer"}
    OBVIOUS
  <2> QED  BY <1>0, <2>1, <2>2, PlayerLockRuns DEF player_play
<1>10. Runs(player_set_rg, {})
  <2>1. Runs(With("player_info", << >>), {"consumer", "producer"})
    BY <1>7 DEF file_changed
  <2>2. {} \cup {"consumer", "producer"} = {"consumer", "producer"}
    OBVIOUS
  <2> QED  BY <1>0, <2>1, <2>2, PlayerLockRuns DEF player_set_rg
<1>11. Runs(cmd_p_next, {})
  BY <1>2, <1>3, <1>5, <1>6, RunsOn DEF cmd_p_next
<1>12. Runs(ActivateTrack, {})
  <2>1. Runs(With("editable", cmus_dbus_hook), {})
    BY <1>2, <1>6, <1>8
  <2> QED  BY <1>5, <2>1, RunsOn DEF ActivateTrack
<1>13. Runs(ActivateFile, {})
  BY <1>2, <1>5, <1>8 DEF ActivateFile
<1>14. \A p \in CommandPaths : Runs(p, {})
  BY <1>2, <1>3, <1>5, <1>9, <1>10, <1>11, <1>12, <1>13
     DEF CommandPaths, player_set_soft_vol, ViewCommand, worker_add_job
<1>15. Runs(update, {}) /\ Runs(PlayerInfoRead, {})
  <2>1. Runs(With("editable", << >>), {"player_info"})
    BY <1>0, <1>1, <1>2, RunsLock
  <2> QED  BY <1>2, <1>3, <1>8, <2>1 DEF update, PlayerInfoRead
<1>16. \A p \in {worker_loop, add_file, do_update_job, do_update_cache_job} : Runs(p, {})
  <2>1. Runs(With("editable", << >>), {"cache"})
    BY <1>0, <1>1, <1>2, RunsLock
  <2>2. Runs(do_update_cache_job, {})
    BY <1>2, <1>8, <2>1 DEF do_update_cache_job
  <2>3. Runs(add_file, {}) /\ Runs(worker_loop, {}) /\ Runs(worker_add_job, {})
    BY <1>2, <1>3, RunsOn DEF add_file, worker_loop, worker_add_job
  <2>4. Runs(do_update_job, {})
    BY <1>2, <1>3, <2>3, RunsOn DEF do_update_job
  <2> QED  BY <2>2, <2>3, <2>4
<1>17. Runs(FillChunk, {})
  <2>1. Runs(With("producer", reset_buffer \o __player_status_changed), {})
    BY <1>2, <1>7, <1>8, RunsOn
  <2> QED  BY <1>6, <2>1, RunsOn DEF FillChunk
<1>18. ASSUME NEW body, Runs(body, {"consumer", "producer"})
       PROVE  Runs(With("producer", body), {"consumer"})
  <2>1. {"consumer"} \cup {"producer"} = {"consumer", "producer"}
    OBVIOUS
  <2> QED  BY <1>0, <1>1, <1>2, <1>18, <2>1, RunsWith
<1>19. Runs(WriteChunk, {})
  <2>1. Runs(With("producer", reset_buffer), {"consumer"})
    BY <1>7, <1>18
  <2>2. Runs(reset_buffer \o With("producer", reset_buffer) \o __player_status_changed, {"consumer"})
    BY <1>7, <2>1, RunsOn
  <2> QED  BY <1>2, <1>8, <2>2 DEF WriteChunk
<1>20. Runs(__consumer_handle_eof, {})
  <2>1. Runs(reset_buffer \o get_next \o file_changed \o __player_status_changed,
             {"consumer", "producer"})
    BY <1>7, RunsOn
  <2>2. Runs(reset_buffer \o
              With("producer", reset_buffer \o get_next \o file_changed \o __player_status_changed),
             {"consumer"})
    BY <1>7, <1>18, <2>1, RunsOn
  <2> QED  BY <1>2, <1>8, <2>2 DEF __consumer_handle_eof
<1> QED  BY <1>14, <1>15, <1>16, <1>17, <1>19, <1>20 DEF Paths, AllThreads

-----------------------------------------------------------------------------
(* The threads                                                             *)

HeldBy(t) == {m \in Mutexes : t \in holder[m]}

(* The inductive invariant: what is left of a thread's path starts from    *)
(* the mutexes the thread holds, and leads to none.                        *)
PathsInv ==
    /\ holder \in [Mutexes -> SUBSET Threads]
    /\ todo \in [Threads -> Seq(Ops)]
    /\ \A t \in Threads : Leads(todo[t], HeldBy(t), {})

LEMMA PathsInit ==
    ASSUME LkInit
    PROVE  PathsInv
<1>1. /\ holder \in [Mutexes -> SUBSET Threads] /\ todo \in [Threads -> Seq(Ops)]
      /\ \A t \in Threads : todo[t] = << >> /\ HeldBy(t) = {}
  BY DEF LkInit, HeldBy
<1>2. Leads(<< >>, {}, {})
  BY LeadsNowhere
<1> QED  BY <1>1, <1>2 DEF PathsInv

LEMMA LockKeepsPaths ==
    ASSUME PathsInv, NEW t \in Threads, NEW path, Leads(path, HeldBy(t), {}),
           cmus_mutex_lock(t, path)
    PROVE  PathsInv'
<1> DEFINE m == Head(path).m
<1>1. /\ m \in Mutexes /\ Leads(Tail(path), HeldBy(t) \cup {m}, {}) /\ path \in Seq(Ops)
      /\ Tail(path) \in Seq(Ops)
  BY LeadsFirst, LeadsType DEF cmus_mutex_lock, Ops
<1>2. /\ holder[m] = {} /\ holder' = [holder EXCEPT ![m] = {t}]
      /\ todo' = [todo EXCEPT ![t] = Tail(path)]
  BY DEF cmus_mutex_lock
<1> HIDE DEF m
<1>3. holder' \in [Mutexes -> SUBSET Threads] /\ todo' \in [Threads -> Seq(Ops)]
  BY <1>1, <1>2 DEF PathsInv
<1>4. HeldBy(t)' = HeldBy(t) \cup {m} /\ \A u \in Threads \ {t} : HeldBy(u)' = HeldBy(u)
  BY <1>1, <1>2 DEF PathsInv, HeldBy
<1>5. todo'[t] = Tail(path) /\ \A u \in Threads \ {t} : todo'[u] = todo[u]
  BY <1>2 DEF PathsInv
<1>6. ASSUME NEW u \in Threads
      PROVE  Leads(todo'[u], HeldBy(u)', {})
  BY <1>1, <1>4, <1>5 DEF PathsInv
<1> QED  BY <1>3, <1>6 DEF PathsInv

LEMMA UnlockKeepsPaths ==
    ASSUME PathsInv, NEW t \in Threads, cmus_mutex_unlock(t)
    PROVE  PathsInv'
<1> DEFINE path == todo[t]
           m == Head(path).m
<1>0. path \in Seq(Ops) /\ Leads(path, HeldBy(t), {}) /\ path # << >> /\ Head(path).op = "unlock"
  BY DEF PathsInv, cmus_mutex_unlock
<1>1. /\ m \in Mutexes /\ Leads(Tail(path), HeldBy(t) \ {m}, {}) /\ Tail(path) \in Seq(Ops)
  BY <1>0, LeadsFirst, LeadsType DEF Ops
<1>2. /\ holder' = [holder EXCEPT ![m] = holder[m] \ {t}]
      /\ todo' = [todo EXCEPT ![t] = Tail(path)]
  BY DEF cmus_mutex_unlock
<1> HIDE DEF m, path
<1>3. holder' \in [Mutexes -> SUBSET Threads] /\ todo' \in [Threads -> Seq(Ops)]
  BY <1>1, <1>2 DEF PathsInv
<1>4. HeldBy(t)' = HeldBy(t) \ {m} /\ \A u \in Threads \ {t} : HeldBy(u)' = HeldBy(u)
  BY <1>1, <1>2 DEF PathsInv, HeldBy
<1>5. todo'[t] = Tail(path) /\ \A u \in Threads \ {t} : todo'[u] = todo[u]
  BY <1>2 DEF PathsInv
<1>6. ASSUME NEW u \in Threads
      PROVE  Leads(todo'[u], HeldBy(u)', {})
  BY <1>1, <1>4, <1>5 DEF PathsInv
<1> QED  BY <1>3, <1>6 DEF PathsInv

LEMMA PathsNext ==
    ASSUME PathsInv, [LkNext]_<< holder, todo >>
    PROVE  PathsInv'
<1>1. ASSUME NEW t \in Threads, todo[t] = << >>, NEW path \in Paths(t), cmus_mutex_lock(t, path)
      PROVE  PathsInv'
  <2>1. HeldBy(t) = {}
    <3>1. PICK hs : Holds(<< >>, hs) /\ hs[0] = HeldBy(t) /\ hs[Len(<< >>)] = {}
      BY <1>1 DEF PathsInv, Leads
    <3> QED  BY <3>1
  <2>2. Leads(path, HeldBy(t), {})
    BY <1>1, <2>1, PathsRun, ThreadsAssumption DEF Runs
  <2> QED  BY <1>1, <2>2, LockKeepsPaths
<1>2. ASSUME NEW t \in Threads, cmus_mutex_lock(t, todo[t])
      PROVE  PathsInv'
  BY <1>2, LockKeepsPaths DEF PathsInv
<1>3. CASE UNCHANGED << holder, todo >>
  BY <1>3 DEF PathsInv, HeldBy
<1> QED  BY <1>1, <1>2, <1>3, UnlockKeepsPaths DEF LkNext

(* A thread that waits does so in order.                                   *)
LEMMA WaitsInOrder ==
    ASSUME PathsInv, NEW t \in Threads, NEW m \in Wants(t)
    PROVE  m \in Mutexes /\ Wants(t) = {m} /\ Allowed(HeldBy(t), m)
  BY ZenonT(60), LeadsFirst DEF PathsInv, Wants, Ops

(* No circular wait without a thread that takes a mutex inside             *)
(* editable_mutex.                                                         *)
LEMMA WaitsEnd ==
    ASSUME PathsInv
    PROVE  LockOrder
<1> SUFFICES ASSUME NEW S \in CircularWaits,
                    \A t \in S : ~(t \in holder["editable"] /\ Wants(t) # {"editable"})
             PROVE  FALSE
  BY DEF LockOrder
<1>1. /\ S \subseteq Threads /\ S # {}
      /\ \A t \in S : \E m \in Wants(t) : holder[m] \cap S # {}
  BY DEF CircularWaits
<1> DEFINE w(t) == CHOOSE m \in Mutexes : Wants(t) = {m}
           r(t) == Rank[w(t)]
<1>2. ASSUME NEW t \in S
      PROVE  /\ w(t) \in Mutexes /\ Wants(t) = {w(t)} /\ Allowed(HeldBy(t), w(t))
             /\ \E u \in S : w(t) \in HeldBy(u)
  <2>1. PICK m \in Wants(t) : holder[m] \cap S # {}
    BY <1>1
  <2>2. m \in Mutexes /\ Wants(t) = {m} /\ Allowed(HeldBy(t), m)
    BY <1>1, <2>1, WaitsInOrder
  <2>3. w(t) = m
    BY <2>2
  <2> HIDE DEF w
  <2> QED  BY <2>1, <2>2, <2>3 DEF HeldBy
<1> HIDE DEF w
<1>3. ASSUME NEW t \in S
      PROVE  "editable" \notin HeldBy(t)
  <2>1. SUFFICES ASSUME "editable" \in HeldBy(t) PROVE FALSE
    OBVIOUS
  <2>2. w(t) # "editable" /\ t \in holder["editable"]
    BY <1>2, <2>1 DEF Allowed, HeldBy
  <2> QED  BY <1>2, <2>2
<1>4. ASSUME NEW t \in S
      PROVE  r(t) \in 1..6 /\ \E u \in S : r(t) < r(u)
  <2>1. PICK u \in S : w(t) \in HeldBy(u)
    BY <1>2
  <2>2. \A x \in HeldBy(u) : Rank[x] < Rank[w(u)]
    BY <1>2, <1>3 DEF Allowed
  <2> QED  BY <1>2, <2>1, <2>2, RankType
<1> HIDE DEF r
<1>5. \A t \in S : r(t) < 6  BY <1>4
<1>6. \A t \in S : r(t) < 5  BY <1>4, <1>5
<1>7. \A t \in S : r(t) < 4  BY <1>4, <1>6
<1>8. \A t \in S : r(t) < 3  BY <1>4, <1>7
<1>9. \A t \in S : r(t) < 2  BY <1>4, <1>8
<1>10. \A t \in S : r(t) < 1  BY <1>4, <1>9
<1> QED  BY <1>1, <1>4, <1>10

(* The mutexes of cmus are taken in one order by every thread that does    *)
(* not have editable_mutex: only win-activate, which locks inside it, can  *)
(* be part of threads that wait for each other for ever.                   *)
THEOREM ThreadsFollowLockOrder == LkSpec => []LockOrder
<1>1. LkSpec => []PathsInv
  BY PathsInit, PathsNext, PTL DEF LkSpec
<1>2. PathsInv => LockOrder
  BY WaitsEnd
<1> QED  BY <1>1, <1>2, PTL

=============================================================================
