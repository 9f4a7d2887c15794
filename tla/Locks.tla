------------------------------- MODULE Locks -------------------------------
(***************************************************************************)
(* The mutexes of cmus and the order in which its threads take them.  A    *)
(* path is the sequence of mutex operations between two points at which a  *)
(* thread holds no mutex.  A thread takes any path its code has, again and *)
(* again: what the branches depend on is in the other modules.             *)
(*                                                                         *)
(* The waits that are not for a mutex are left out: worker_remove_jobs and *)
(* worker_exit wait for the worker, and player_exit for its two threads,   *)
(* with no other mutex held.                                               *)
(***************************************************************************)
EXTENDS Sequences, FiniteSets

CONSTANT Threads    \* a subset of AllThreads

AllThreads == {"main", "dbus", "worker", "producer", "consumer"}
ASSUME ThreadsAssumption == Threads \subseteq AllThreads

Mutexes == {"consumer", "producer", "player_info", "buffer", "editable", "cache", "worker"}

VARIABLES
    holder,    \* of a mutex: the set of the threads that have it locked
    todo       \* of a thread: the operations left of its path

-----------------------------------------------------------------------------
(* The paths.                                                              *)

\* cmus_mutex_lock ... cmus_mutex_unlock, with body between them
With(m, body) == << [op |-> "lock", m |-> m] >> \o body \o << [op |-> "unlock", m |-> m] >>

PlayerLockSwapped(body) == With("producer", With("consumer", body))

player_lock(body) == With("consumer", With("producer", body))

\* and every other access to the ring
reset_buffer == With("buffer", << >>)

file_changed == With("player_info", << >>)

\* also player_error and __producer_buffer_fill_update: they count the filled chunks
__player_status_changed == With("player_info", With("buffer", << >>))

cmus_dbus_hook == With("player_info", << >>)

get_next == With("editable", << >>) \o cmus_dbus_hook

\* player_set_file locks the same
player_play_file == player_lock(reset_buffer \o file_changed \o __player_status_changed)

\* play or pause with nothing loaded; the other player commands lock a part of this
player_play == player_lock(get_next \o file_changed \o __player_status_changed)

player_set_rg == player_lock(With("player_info", << >>))

player_set_soft_vol == With("consumer", << >>)

cmus_play_file == With("cache", << >>) \o player_play_file

cmd_p_next == cmus_dbus_hook \o With("editable", << >>) \o player_play_file

\* views 1 to 3: the hook is called in tree_set_selected, sorted_set_selected, pl_set_selected
ActivateTrack == With("editable", cmus_dbus_hook) \o player_play_file

\* view 5: browser_enter
ActivateFile == With("editable", cmus_play_file)

\* the commands on views, searches, filters and options that lock the lists once
ViewCommand == With("editable", << >>)

worker_add_job == With("worker", << >>)

\* run by the user interface, for its keys and its remote clients, and by the D-Bus thread
CommandPaths ==
    {player_play_file, player_play, player_set_rg, player_set_soft_vol, cmus_play_file,
     cmd_p_next, ActivateTrack, ActivateFile, ViewCommand, worker_add_job}

update == With("player_info", With("editable", << >>))

\* the status line, the title, the status program, the status command of cmus-remote
PlayerInfoRead == With("player_info", << >>)

add_file == With("cache", << >>) \o With("editable", << >>)

do_update_job == With("editable", << >>) \o With("cache", << >>) \o worker_add_job

do_update_cache_job == With("cache", With("editable", << >>))

worker_loop == With("worker", << >>)

\* a read error is published inside producer_mutex, the fill after it
FillChunk == With("producer", reset_buffer \o __player_status_changed) \o __player_status_changed

\* a device that cannot be reopened is reported inside consumer_mutex alone
WriteChunk == With("consumer", reset_buffer \o With("producer", reset_buffer) \o __player_status_changed)

__consumer_handle_eof ==
    With("consumer", reset_buffer \o
        With("producer", reset_buffer \o get_next \o file_changed \o __player_status_changed))

Paths(t) ==
    CASE t = "main"     -> CommandPaths \union {update, PlayerInfoRead}
      [] t = "dbus"     -> CommandPaths
      [] t = "worker"   -> {worker_loop, add_file, do_update_job, do_update_cache_job}
      [] t = "producer" -> {FillChunk}
      [] t = "consumer" -> {WriteChunk, __consumer_handle_eof}

-----------------------------------------------------------------------------
LkInit == holder = [m \in Mutexes |-> {}] /\ todo = [t \in Threads |-> << >>]

\* takes the next operation of path, the first mutex of a new path or one inside it
cmus_mutex_lock(t, path) ==
    /\ path # << >> /\ Head(path).op = "lock"
    /\ holder[Head(path).m] = {}
    /\ holder' = [holder EXCEPT ![Head(path).m] = {t}]
    /\ todo' = [todo EXCEPT ![t] = Tail(path)]

cmus_mutex_unlock(t) ==
    /\ todo[t] # << >> /\ Head(todo[t]).op = "unlock"
    /\ holder' = [holder EXCEPT ![Head(todo[t]).m] = @ \ {t}]
    /\ todo' = [todo EXCEPT ![t] = Tail(@)]

LkNext ==
    \E t \in Threads :
        \/ todo[t] = << >> /\ \E path \in Paths(t) : cmus_mutex_lock(t, path)
        \/ cmus_mutex_lock(t, todo[t])
        \/ cmus_mutex_unlock(t)

LkSpec == LkInit /\ [][LkNext]_<< holder, todo >>

-----------------------------------------------------------------------------
(* Properties.                                                             *)

Wants(t) == IF todo[t] # << >> /\ Head(todo[t]).op = "lock" THEN {Head(todo[t]).m} ELSE {}

\* the sets of threads in which everyone waits for one of them
CircularWaits ==
    {S \in (SUBSET Threads) \ {{}} : \A t \in S : \E m \in Wants(t) : holder[m] \cap S # {}}

(* The only mutex that is taken out of order is editable_mutex: threads    *)
(* wait for each other for ever only if one of them, in win-activate, has  *)
(* it locked and waits for another mutex.  All other paths of the five     *)
(* threads, the player's locks inside the lists' and the cache's included, *)
(* agree on one order.                                                     *)
LockOrder ==
    \A S \in CircularWaits :
        \E t \in S : t \in holder["editable"] /\ Wants(t) # {"editable"}

(* Activating the selected row always comes to an end, in view 5 by        *)
(* starting to play it: no threads wait for each other for ever.           *)
NoDeadlock == CircularWaits = {}
=============================================================================
