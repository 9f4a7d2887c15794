------------------------------- MODULE Worker -------------------------------
(***************************************************************************)
(* The worker thread of worker.c, the jobs of job.c it runs and the        *)
(* commands that add, remove and wait for jobs: :add, :clear (view_clear), *)
(* :save (view_save) and quitting (cmus_exit).  Clients are the threads    *)
(* that run commands: the main thread and the D-Bus thread.                *)
(*                                                                         *)
(* Each section between worker_lock and worker_unlock is one step.  The    *)
(* one condition variable worker_cond is shared by the worker, waiting for *)
(* jobs, and by worker_remove_jobs, waiting for the current job.           *)
(* pthread_cond_signal wakes one waiter, no one can tell which.  Wakeups   *)
(* without a signal, which POSIX allows, are left out.                     *)
(***************************************************************************)
EXTENDS Integers, Sequences

CONSTANTS
    Clients,     \* threads that run commands
    Main,        \* the one that runs cmus_exit
    Types,       \* JOB_TYPE_LIB, JOB_TYPE_PL; JOB_TYPE_QUEUE is like JOB_TYPE_PL but not saved
    Lib,         \* JOB_TYPE_LIB, the type of the jobs of :update
    MaxJobs      \* bound on the number of jobs ever added

ASSUME WorkerAssumption ==
    /\ Main \in Clients
    /\ "worker" \notin Clients
    /\ Lib \in Types
    /\ {"NONE", "ANY"} \cap Types = {}
    /\ MaxJobs \in Nat

VARIABLES
    jobs,          \* every job added so far, by number: type and callback
    queue,         \* worker_job_head: numbers of the jobs to do
    cur_job,       \* number of the current job, 0 for NULL
    cancel_type,   \* a type, "ANY" or "NONE"
    running,
    waiting,       \* threads blocked on worker_cond
    freed,         \* how often each job was freed
    wpc,           \* worker_loop: "loop", "run", "done" or "exited"
    ti_buffer,     \* whether the current job has tracks it has not flushed
    list,          \* per type: the jobs whose tracks are in that view
    pc,            \* the clients
    arg,           \* the type a client's command is about
    condemned,     \* jobs a client's worker_remove_jobs is to get rid of
    gone           \* jobs whose tracks a :clear has removed from a view

workerVars == << wpc, ti_buffer >>
clientVars == << pc, arg, condemned >>
queueVars  == << jobs, queue, cur_job, freed >>
viewVars   == << list, gone >>
vars == << queueVars, cancel_type, running, waiting, workerVars, viewVars, clientVars >>

(* What a job's callback does: add one file or stream, add a directory or  *)
(* a playlist track by track, or check the library's files for changes.    *)
Kinds == {"file", "dir", "update"}
Numbers == 1 .. MaxJobs
Elements(seq) == {seq[i] : i \in 1 .. Len(seq)}

(* The elements of seq that are not in out, in their order.                *)
Without(seq, out) ==
    LET kept[n \in 0 .. Len(seq)] ==
          IF n = 0 THEN << >>
          ELSE IF seq[n] \in out THEN kept[n - 1] ELSE Append(kept[n - 1], seq[n])
    IN  kept[Len(seq)]

(* type == JOB_TYPE_ANY || type == job->type                               *)
Matches(type, j) == type = "ANY" \/ type = jobs[j].type

Init ==
    /\ jobs = << >> /\ queue = << >> /\ cur_job = 0
    /\ freed = [j \in Numbers |-> 0]
    /\ cancel_type = "NONE" /\ running = TRUE /\ waiting = {}
    /\ wpc = "loop" /\ ti_buffer = FALSE
    /\ list = [t \in Types |-> {}] /\ gone = {}
    /\ pc = [c \in Clients |-> "idle"]
    /\ arg = [c \in Clients |-> "NONE"]
    /\ condemned = [c \in Clients |-> {}]

(* pthread_cond_signal: one of the waiting threads, if there is any.       *)
Signal ==
    IF waiting = {} THEN UNCHANGED waiting
    ELSE \E t \in waiting : waiting' = waiting \ {t}

(* worker_add_job: append and signal.                                      *)
worker_add_job(type, kind) ==
    /\ Len(jobs) < MaxJobs
    /\ jobs' = Append(jobs, [type |-> type, kind |-> kind])
    /\ queue' = Append(queue, Len(jobs) + 1)
    /\ Signal
    /\ UNCHANGED << cur_job, freed >>

worker_cancelling == cancel_type = jobs[cur_job].type \/ cancel_type = "ANY"

-----------------------------------------------------------------------------
(* worker_loop                                                             *)

WorkerAwake == wpc = "loop" /\ "worker" \notin waiting

(* No job: leave if told to, or wait for a signal.                         *)
WorkerWait ==
    /\ WorkerAwake /\ queue = << >> /\ running
    /\ waiting' = waiting \cup {"worker"}
    /\ UNCHANGED << queueVars, cancel_type, running, workerVars, viewVars, clientVars >>

WorkerLeave ==
    /\ WorkerAwake /\ queue = << >> /\ ~running
    /\ wpc' = "exited"
    /\ UNCHANGED << queueVars, cancel_type, running, waiting, ti_buffer, viewVars,
                    clientVars >>

(* A worker_loop that does not take the job off the queue.                 *)
WorkerStartKeepsQueued ==
    /\ WorkerAwake /\ queue # << >>
    /\ cur_job' = Head(queue)
    /\ wpc' = "run"
    /\ UNCHANGED << jobs, queue, freed, cancel_type, running, waiting, ti_buffer,
                    viewVars, clientVars >>

WorkerStart ==
    /\ WorkerAwake /\ queue # << >>
    /\ cur_job' = Head(queue)
    /\ queue' = Tail(queue)
    /\ wpc' = "run"
    /\ UNCHANGED << jobs, freed, cancel_type, running, waiting, ti_buffer, viewVars,
                    clientVars >>

(* do_add_job: one more track into ti_buffer.  Only add_dir and add_pl     *)
(* look whether they are being cancelled.                                  *)
JobAddTrack ==
    /\ wpc = "run"
    /\ \/ jobs[cur_job].kind = "file"
       \/ jobs[cur_job].kind = "dir" /\ ~worker_cancelling
    /\ ti_buffer' = TRUE
    /\ UNCHANGED << queueVars, cancel_type, running, waiting, wpc, viewVars, clientVars >>

(* flush_ti_buffer, under editable_lock: the tracks go into the view.      *)
(* Before the end that happens when ti_buffer is full.                     *)
Flush == list' = [list EXCEPT ![jobs[cur_job].type] = @ \cup {cur_job}]

JobFlush ==
    /\ wpc = "run" /\ ti_buffer /\ jobs[cur_job].kind = "dir"
    /\ Flush
    /\ ti_buffer' = FALSE
    /\ UNCHANGED << queueVars, cancel_type, running, waiting, wpc, gone, clientVars >>

(* do_update_job: a file has changed, add it again (cmus_add).             *)
JobUpdate ==
    /\ wpc = "run" /\ jobs[cur_job].kind = "update"
    /\ worker_add_job(Lib, "file")
    /\ UNCHANGED << cancel_type, running, workerVars, viewVars, clientVars >>

(* The job's callback returns, flushing what it has.                       *)
JobReturn ==
    /\ wpc = "run"
    /\ IF ti_buffer THEN Flush ELSE UNCHANGED list
    /\ ti_buffer' = FALSE
    /\ wpc' = "done"
    /\ UNCHANGED << queueVars, cancel_type, running, waiting, gone, clientVars >>

(* A worker_loop that does not wake worker_remove_jobs up.                 *)
WorkerFreeSilently ==
    /\ wpc = "done"
    /\ freed' = [freed EXCEPT ![cur_job] = @ + 1]
    /\ cur_job' = 0
    /\ wpc' = "loop"
    /\ UNCHANGED << jobs, queue, cancel_type, running, waiting, ti_buffer, viewVars,
                    clientVars >>

(* "wakeup worker_remove_jobs() if needed".                                *)
WorkerFree ==
    /\ wpc = "done"
    /\ freed' = [freed EXCEPT ![cur_job] = @ + 1]
    /\ cur_job' = 0
    /\ IF cancel_type # "NONE" THEN Signal ELSE UNCHANGED waiting
    /\ wpc' = "loop"
    /\ UNCHANGED << jobs, queue, cancel_type, running, ti_buffer, viewVars, clientVars >>

Worker ==
    \/ WorkerWait \/ WorkerLeave \/ WorkerStart \/ JobAddTrack \/ JobFlush
    \/ JobUpdate \/ JobReturn \/ WorkerFree

-----------------------------------------------------------------------------
(* The commands.  cmus_exit first stops the D-Bus thread.                  *)

Ready(c) == pc[c] = "idle" /\ arg[Main] # "ANY"

(* :add, :load (cmus_add), and :update (cmus_update_lib, cmus_update_tis,  *)
(* cmus_update_cache).                                                     *)
AddJob(c) ==
    /\ Ready(c)
    /\ \/ \E t \in Types, kind \in {"file", "dir"} : worker_add_job(t, kind)
       \/ worker_add_job(Lib, "update")
    /\ UNCHANGED << cancel_type, running, workerVars, viewVars, clientVars >>

(* A worker_remove_jobs that does not wait for the current job.            *)
RemoveJobsAtOnce(c, type) ==
    LET match == {j \in Elements(queue) : Matches(type, j)}
        current == cur_job # 0 /\ Matches(type, cur_job)
    IN  /\ queue' = Without(queue, match)
        /\ freed' = [j \in Numbers |-> IF j \in match THEN freed[j] + 1 ELSE freed[j]]
        /\ arg' = [arg EXCEPT ![c] = type]
        /\ condemned' = [condemned EXCEPT ![c] = match \cup IF current THEN {cur_job} ELSE {}]
        /\ pc' = [pc EXCEPT ![c] = "removed"]
        /\ UNCHANGED << jobs, cur_job, cancel_type, running, waiting, workerVars, viewVars >>

(* worker_remove_jobs: free the queued jobs of that type, then wait if the *)
(* current one is of that type too.                                        *)
RemoveJobs(c, type) ==
    LET match == {j \in Elements(queue) : Matches(type, j)}
        current == cur_job # 0 /\ Matches(type, cur_job)
    IN  /\ queue' = Without(queue, match)
        /\ freed' = [j \in Numbers |-> IF j \in match THEN freed[j] + 1 ELSE freed[j]]
        /\ arg' = [arg EXCEPT ![c] = type]
        /\ condemned' = [condemned EXCEPT ![c] = match \cup IF current THEN {cur_job} ELSE {}]
        /\ IF current
           THEN /\ cancel_type' = type
                /\ waiting' = waiting \cup {c}
                /\ pc' = [pc EXCEPT ![c] = "remove"]
           ELSE /\ cancel_type' = "NONE"
                /\ pc' = [pc EXCEPT ![c] = "removed"]
                /\ UNCHANGED waiting
        /\ UNCHANGED << jobs, cur_job, running, workerVars, viewVars >>

ViewClear(c) == Ready(c) /\ \E t \in Types : RemoveJobs(c, t)

CmusExit(c) ==
    /\ c = Main
    /\ \A d \in Clients : Ready(d)
    /\ RemoveJobs(c, "ANY")

(* pthread_cond_wait returns in worker_remove_jobs: nothing is checked     *)
(* again.                                                                  *)
RemoveReturn(c) ==
    /\ pc[c] = "remove" /\ c \notin waiting
    /\ cancel_type' = "NONE"
    /\ pc' = [pc EXCEPT ![c] = "removed"]
    /\ UNCHANGED << queueVars, running, waiting, workerVars, viewVars, arg, condemned >>

(* view_clear goes on: editable_lock, editable_clear.                      *)
ClearView(c) ==
    /\ pc[c] = "removed" /\ arg[c] \in Types
    /\ list' = [list EXCEPT ![arg[c]] = {}]
    /\ gone' = gone \cup condemned[c]
    /\ pc' = [pc EXCEPT ![c] = "idle"]
    /\ arg' = [arg EXCEPT ![c] = "NONE"]
    /\ condemned' = [condemned EXCEPT ![c] = {}]
    /\ UNCHANGED << queueVars, cancel_type, running, waiting, workerVars >>

(* A worker_has_job that looks at the queue only.                          *)
HasQueuedJob(type) == \E j \in Elements(queue) : Matches(type, j)

(* view_save: "can't save when tracks are being added".                    *)
worker_has_job(type) ==
    \/ \E j \in Elements(queue) : Matches(type, j)
    \/ cur_job # 0 /\ Matches(type, cur_job)

ViewSave(c) ==
    /\ Ready(c)
    /\ \E t \in Types :
         /\ ~worker_has_job(t)
         /\ arg' = [arg EXCEPT ![c] = t]
    /\ pc' = [pc EXCEPT ![c] = "save"]
    /\ UNCHANGED << queueVars, cancel_type, running, waiting, workerVars, viewVars, condemned >>

DoSave(c) ==
    /\ pc[c] = "save"
    /\ pc' = [pc EXCEPT ![c] = "idle"]
    /\ arg' = [arg EXCEPT ![c] = "NONE"]
    /\ UNCHANGED << queueVars, cancel_type, running, waiting, workerVars, viewVars, condemned >>

(* cmus_exit goes on: worker_exit.                                         *)
WorkerExit(c) ==
    /\ pc[c] = "removed" /\ arg[c] = "ANY"
    /\ running' = FALSE
    /\ Signal
    /\ pc' = [pc EXCEPT ![c] = "join"]
    /\ UNCHANGED << queueVars, cancel_type, workerVars, viewVars, arg, condemned >>

WorkerJoin(c) ==
    /\ pc[c] = "join" /\ wpc = "exited"
    /\ pc' = [pc EXCEPT ![c] = "exited"]
    /\ UNCHANGED << queueVars, cancel_type, running, waiting, workerVars, viewVars, arg, condemned >>

Client(c) ==
    \/ AddJob(c) \/ ViewClear(c) \/ CmusExit(c) \/ RemoveReturn(c) \/ ClearView(c)
    \/ ViewSave(c) \/ DoSave(c) \/ WorkerExit(c) \/ WorkerJoin(c)

(* The program has ended.                                                  *)
Terminated == pc[Main] = "exited" /\ UNCHANGED vars

Next == Worker \/ (\E c \in Clients : Client(c)) \/ Terminated

Spec == Init /\ [][Next]_vars

(* The threads run and a job's callback returns.  Nobody has to issue a    *)
(* command.                                                                *)
Fairness ==
    /\ WF_vars(WorkerWait \/ WorkerLeave \/ WorkerStart \/ WorkerFree)
    /\ WF_vars(JobReturn)
    /\ \A c \in Clients :
         WF_vars(RemoveReturn(c) \/ ClearView(c) \/ DoSave(c) \/ WorkerExit(c) \/ WorkerJoin(c))

FairSpec == Spec /\ Fairness

-----------------------------------------------------------------------------
(* Properties                                                              *)

TypeOK ==
    /\ jobs \in Seq([type : Types, kind : Kinds]) /\ Len(jobs) <= MaxJobs
    /\ queue \in Seq(1 .. Len(jobs))
    /\ cur_job \in 0 .. Len(jobs)
    /\ freed \in [Numbers -> Nat]
    /\ cancel_type \in Types \cup {"ANY", "NONE"}
    /\ running \in BOOLEAN
    /\ waiting \subseteq Clients \cup {"worker"}
    /\ wpc \in {"loop", "run", "done", "exited"}
    /\ ti_buffer \in BOOLEAN
    /\ list \in [Types -> SUBSET Numbers]
    /\ gone \subseteq Numbers
    /\ pc \in [Clients -> {"idle", "remove", "removed", "save", "join", "exited"}]
    /\ arg \in [Clients -> Types \cup {"ANY", "NONE"}]
    /\ condemned \in [Clients -> SUBSET Numbers]

(* worker.c: a job that was added is in the queue, is the current one or   *)
(* has been freed, once: worker_remove_jobs and worker_loop never free the *)
(* same job, lose one or put one in the queue twice.                       *)
JobsAccounted ==
    /\ \A i, k \in 1 .. Len(queue) : queue[i] = queue[k] => i = k
    /\ cur_job \notin Elements(queue)
    /\ \A j \in Numbers :
         freed[j] = IF j > Len(jobs) \/ j \in Elements(queue) \/ j = cur_job THEN 0 ELSE 1
    /\ cur_job # 0 <=> wpc \in {"run", "done"}

(* What keeps the threads in step: worker_cond is waited on only by the    *)
(* idle worker and by clients in worker_remove_jobs; only the running job  *)
(* has a ti_buffer; a view holds tracks of jobs of its own type; only      *)
(* cmus_exit removes the jobs of all types, stops the worker and joins it. *)
WorkerInv ==
    /\ TypeOK /\ JobsAccounted
    /\ "worker" \in waiting => wpc = "loop"
    /\ \A c \in Clients : c \in waiting => pc[c] = "remove"
    /\ ti_buffer => wpc = "run" /\ jobs[cur_job].kind # "update"
    /\ \A j \in 1 .. Len(jobs) : jobs[j].kind = "update" => jobs[j].type = Lib
    /\ \A t \in Types : \A j \in list[t] : j <= Len(jobs) /\ jobs[j].type = t
    /\ \A c \in Clients : arg[c] = "ANY" => c = Main
    /\ \A c \in Clients : pc[c] = "save" => arg[c] \in Types
    /\ \A c \in Clients : pc[c] = "join" \/ pc[c] = "exited" => arg[c] = "ANY"
    /\ ~running => arg[Main] = "ANY"
    /\ wpc = "exited" => ~running /\ queue = << >>
    /\ pc[Main] = "exited" => wpc = "exited"

(* With one client nothing but the end of the current job, or a job an     *)
(* update adds, wakes up worker_remove_jobs.  So the jobs it is to get rid *)
(* of are over when it returns, or the current one is an update, which     *)
(* adds nothing to a view; and no job adds to a view while it is saved.    *)
OneClientInv ==
    /\ WorkerInv
    /\ \A j \in condemned[Main] \cup gone : j <= Len(jobs) /\ j \notin Elements(queue)
    /\ \A j \in condemned[Main] : Matches(arg[Main], j)
    /\ pc[Main] \in {"idle", "save"} => condemned[Main] = {}
    /\ cur_job \in gone => jobs[cur_job].kind = "update"
    /\ Main \in waiting => cancel_type # "NONE" /\ cur_job # 0
    /\ pc[Main] \in {"remove", "removed"} /\ Main \notin waiting /\ cur_job \in condemned[Main]
         => jobs[cur_job].kind = "update"
    /\ pc[Main] = "save" => ~worker_has_job(arg[Main])
    /\ \A t \in Types : list[t] \cap gone = {}

(* cmus_exit returns from worker_exit with nothing left to do, so that the *)
(* views are saved as they will stay.                                      *)
ExitDrains == pc[Main] = "exited" => queue = << >> /\ cur_job = 0 /\ ~ti_buffer

(* worker.c "wait current job to finish or cancel if it's of the specified *)
(* type": when worker_remove_jobs returns, the jobs it was to get rid of   *)
(* are over.                                                               *)
RemoveAlwaysWaits ==
    \A c \in Clients : pc[c] = "removed" => cur_job \notin condemned[c]

(* The same for the types whose jobs add no jobs themselves.               *)
RemoveWaits ==
    \A c \in Clients :
      pc[c] = "removed" /\ arg[c] \in Types \ {Lib} => cur_job \notin condemned[c]

(* No job is lost, run twice or freed twice, whoever removes it, and none  *)
(* is left behind by worker_remove_jobs or by quitting.                    *)
JobsKept == JobsAccounted /\ RemoveWaits /\ ExitDrains

(* view_clear: no track of a job that was there when :clear was given      *)
(* shows up in the view afterwards.                                        *)
ClearedStaysClear == \A t \in Types : list[t] \cap gone = {}

(* command_mode.c "can't save when tracks are being added": a view is      *)
(* never written to disk while a job is part way through adding to it.     *)
SavesWhole ==
    \A c \in Clients :
      pc[c] = "save" => ~(cur_job # 0 /\ cur_job \in list[arg[c]])

(* worker.c "wakeup worker_remove_jobs() if needed": the command that      *)
(* waits for the current job goes on.                                      *)
RemoveReturns == \A c \in Clients : (pc[c] = "remove") ~> (pc[c] # "remove")

(* A queued job is run or removed: the signal is not lost.                 *)
JobsRun == \A j \in Numbers : (j \in Elements(queue)) ~> (j \notin Elements(queue))

(* Quitting ends.                                                          *)
ExitReturns == (arg[Main] = "ANY") ~> (pc[Main] = "exited")

(* With one client no signal on the one condition variable is lost: jobs   *)
(* run, and clearing and quitting get past the current job.                *)
NobodyWaits == RemoveReturns /\ JobsRun /\ ExitReturns

=============================================================================
