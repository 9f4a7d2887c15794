---------------------------- MODULE WorkerProofs ----------------------------
(***************************************************************************)
(* The worker thread and its queue, for every set of clients, every set of *)
(* job types and any number of jobs: no job is lost, run twice or freed    *)
(* twice, and quitting leaves nothing to do.  With one client also: what   *)
(* worker_remove_jobs is to get rid of is over when it returns, a cleared  *)
(* view stays clear and a view is saved whole.                             *)
(***************************************************************************)
EXTENDS Worker, Induction, SequenceTheorems, TLAPS

-----------------------------------------------------------------------------
(* The queue                                                               *)

(* No element occurs twice.                                                *)
Distinct(seq) == \A i, k \in 1 .. Len(seq) : seq[i] = seq[k] => i = k

LEMMA AppendElements ==
    ASSUME NEW S, NEW seq \in Seq(S), NEW e \in S
    PROVE  /\ Append(seq, e) \in Seq(S)
           /\ Elements(Append(seq, e)) = Elements(seq) \cup {e}
           /\ Distinct(seq) /\ e \notin Elements(seq) => Distinct(Append(seq, e))
<1>1. /\ Append(seq, e) \in Seq(S)
      /\ Len(Append(seq, e)) = Len(seq) + 1 /\ Len(seq) \in Nat
      /\ \A i \in 1 .. Len(seq) : Append(seq, e)[i] = seq[i]
      /\ Append(seq, e)[Len(seq) + 1] = e
  BY AppendProperties, LenProperties
<1> DEFINE app == Append(seq, e)
<1> HIDE DEF app
<1>2. Elements(app) = Elements(seq) \cup {e}
  BY <1>1 DEF Elements, app
<1>3. ASSUME Distinct(seq), e \notin Elements(seq)
      PROVE  Distinct(app)
  BY <1>1, <1>3 DEF Elements, Distinct, app
<1> QED  BY <1>1, <1>2, <1>3 DEF app

LEMMA TailElements ==
    ASSUME NEW S, NEW seq \in Seq(S), seq # << >>, Distinct(seq)
    PROVE  /\ Head(seq) \in S /\ Head(seq) \in Elements(seq)
           /\ Tail(seq) \in Seq(S)
           /\ Elements(Tail(seq)) = Elements(seq) \ {Head(seq)}
           /\ Distinct(Tail(seq))
<1>1. /\ Len(seq) \in Nat \ {0} /\ Head(seq) = seq[1] /\ Head(seq) \in S
      /\ Tail(seq) \in Seq(S) /\ Len(Tail(seq)) = Len(seq) - 1
      /\ \A i \in 1 .. Len(seq) - 1 : Tail(seq)[i] = seq[i + 1]
  BY HeadTailProperties, EmptySeq
<1> DEFINE rest == Tail(seq)
<1> HIDE DEF rest
<1>2. Elements(rest) = Elements(seq) \ {seq[1]}
  <2>1. ASSUME NEW x \in Elements(rest)
        PROVE  x \in Elements(seq) \ {seq[1]}
    <3>1. PICK i \in 1 .. Len(seq) - 1 : x = seq[i + 1]
      BY <1>1 DEF Elements, rest
    <3> QED  BY <1>1, <3>1 DEF Elements, Distinct
  <2>2. ASSUME NEW x \in Elements(seq) \ {seq[1]}
        PROVE  x \in Elements(rest)
    <3>1. PICK i \in 1 .. Len(seq) : x = seq[i]
      BY DEF Elements
    <3>2. i - 1 \in 1 .. Len(seq) - 1 /\ rest[i - 1] = x
      BY <1>1, <3>1 DEF rest
    <3> QED  BY <1>1, <3>2 DEF Elements, rest
  <2> QED  BY <2>1, <2>2
<1>3. Distinct(rest)
  <2> SUFFICES ASSUME NEW i \in 1 .. Len(seq) - 1, NEW k \in 1 .. Len(seq) - 1,
                      rest[i] = rest[k]
               PROVE  i = k
    BY <1>1 DEF Distinct, rest
  <2>1. i + 1 \in 1 .. Len(seq) /\ k + 1 \in 1 .. Len(seq) /\ seq[i + 1] = seq[k + 1]
    BY <1>1 DEF rest
  <2> QED  BY <2>1 DEF Distinct
<1>4. Head(seq) \in Elements(seq)
  BY <1>1 DEF Elements
<1> QED  BY <1>1, <1>2, <1>3, <1>4 DEF rest

(* The recursion of Without is well defined.                               *)
LEMMA WithoutRecursion ==
    ASSUME NEW S, NEW seq \in Seq(S), NEW out
    PROVE  \E g : /\ g = [n \in 0 .. Len(seq) |->
                            IF n = 0 THEN << >>
                            ELSE IF seq[n] \in out THEN g[n - 1] ELSE Append(g[n - 1], seq[n])]
                  /\ Without(seq, out) = g[Len(seq)]
<1> DEFINE Step(g, n) == IF n = 0 THEN << >>
                         ELSE IF seq[n] \in out THEN g[n - 1] ELSE Append(g[n - 1], seq[n])
           Def(g, m) == g = [n \in 0 .. m |-> Step(g, n)]
           T == {m \in Nat : \E g : Def(g, m)}
<1>1. 0 \in T
  <2> DEFINE h == [n \in 0 .. 0 |-> << >>]
  <2>1. h = [n \in 0 .. 0 |-> Step(h, n)]
    OBVIOUS
  <2> QED  BY <2>1
<1>2. ASSUME NEW m \in Nat, m \in T
      PROVE  m + 1 \in T
  <2>1. PICK g : Def(g, m)
    BY <1>2
  <2> DEFINE h == [n \in 0 .. m + 1 |-> IF n <= m THEN g[n] ELSE Step(g, m + 1)]
  <2>2. \A n \in 0 .. m : h[n] = g[n]
    OBVIOUS
  <2>3. \A n \in 0 .. m : g[n] = Step(g, n)
    BY <2>1
  <2>4. \A n \in 0 .. m + 1 : Step(h, n) = Step(g, n)
    BY <2>2
  <2>5. \A n \in 0 .. m + 1 : h[n] = Step(h, n)
    <3> HIDE DEF Step
    <3>1. ASSUME NEW n \in 0 .. m PROVE h[n] = Step(h, n)
      BY <2>3, <2>4
    <3>2. h[m + 1] = Step(h, m + 1)
      BY <2>4
    <3> QED  BY <3>1, <3>2
  <2>6. Def(h, m + 1)
    <3> HIDE DEF Step
    <3> QED  BY <2>5
  <2>7. \E f : Def(f, m + 1)
    <3> HIDE DEF Def, h
    <3> QED  BY <2>6
  <2>8. m + 1 \in Nat
    OBVIOUS
  <2> HIDE DEF Def, h
  <2> QED  BY <2>7, <2>8
<1>3. Nat \subseteq T
  <2> HIDE DEF T
  <2> QED  BY <1>1, <1>2, SetInduction
<1>4. \E g : Def(g, Len(seq))
  <2>1. Len(seq) \in T
    BY <1>3, LenProperties
  <2> QED  BY <2>1
<1> DEFINE kept == CHOOSE g : Def(g, Len(seq))
<1>5. Def(kept, Len(seq))
  <2> HIDE DEF Def
  <2> QED  BY <1>4
<1>6. Without(seq, out) = kept[Len(seq)]
  BY DEF Without
<1> QED  BY <1>5, <1>6

(* Without drops exactly the elements of out.                              *)
LEMMA WithoutFacts ==
    ASSUME NEW S, NEW seq \in Seq(S), Distinct(seq), NEW out
    PROVE  /\ Without(seq, out) \in Seq(S)
           /\ Elements(Without(seq, out)) = Elements(seq) \ out
           /\ Distinct(Without(seq, out))
<1>1. PICK kept :
        /\ kept = [n \in 0 .. Len(seq) |->
                     IF n = 0 THEN << >>
                     ELSE IF seq[n] \in out THEN kept[n - 1] ELSE Append(kept[n - 1], seq[n])]
        /\ Without(seq, out) = kept[Len(seq)]
  BY WithoutRecursion
<1> DEFINE First(n) == {seq[i] : i \in 1 .. n}
           Good(n) == /\ kept[n] \in Seq(S)
                      /\ Elements(kept[n]) = First(n) \ out
                      /\ Distinct(kept[n])
           T == {n \in Nat : n <= Len(seq) => Good(n)}
<1>2. Len(seq) \in Nat /\ \A i \in 1 .. Len(seq) : seq[i] \in S
  BY LenProperties
<1>3. kept[0] = << >>
  BY <1>1, <1>2
<1>4. \A n \in Nat : n + 1 <= Len(seq) =>
        kept[n + 1] = IF seq[n + 1] \in out THEN kept[n] ELSE Append(kept[n], seq[n + 1])
  <2> SUFFICES ASSUME NEW n \in Nat, n + 1 <= Len(seq)
               PROVE  kept[n + 1] = IF seq[n + 1] \in out THEN kept[n]
                                    ELSE Append(kept[n], seq[n + 1])
    OBVIOUS
  <2>1. n + 1 \in 0 .. Len(seq) /\ n + 1 # 0 /\ n + 1 - 1 = n
    BY <1>2
  <2>2. \A k \in 0 .. Len(seq) :
          kept[k] = IF k = 0 THEN << >>
                    ELSE IF seq[k] \in out THEN kept[k - 1] ELSE Append(kept[k - 1], seq[k])
    BY <1>1, Zenon
  <2> QED  BY <2>1, <2>2
<1>5. 0 \in T
  <2>1. << >> \in Seq(S) /\ Elements(<< >>) = {} /\ Distinct(<< >>)
    BY DEF Elements, Distinct
  <2>2. First(0) = {}
    OBVIOUS
  <2>3. Good(0)
    <3> HIDE DEF First
    <3> QED  BY <1>3, <2>1, <2>2
  <2> HIDE DEF Good
  <2> QED  BY <2>3
<1>6. ASSUME NEW n \in Nat, n \in T
      PROVE  n + 1 \in T
  <2> SUFFICES ASSUME n + 1 <= Len(seq) PROVE Good(n + 1)
    OBVIOUS
  <2>1. Good(n)
    BY <1>2, <1>6
  <2>2. First(n + 1) = First(n) \cup {seq[n + 1]}
    OBVIOUS
  <2>3. seq[n + 1] \notin First(n)
    BY <1>2 DEF Distinct
  <2>4. seq[n + 1] \in S
    BY <1>2
  <2>5. CASE seq[n + 1] \in out
    <3>1. kept[n + 1] = kept[n]
      BY <1>4, <2>5
    <3> HIDE DEF First
    <3> QED  BY <2>1, <2>2, <2>5, <3>1
  <2>6. CASE seq[n + 1] \notin out
    <3>1. kept[n + 1] = Append(kept[n], seq[n + 1])
      BY <1>4, <2>6
    <3> HIDE DEF First
    <3>2. seq[n + 1] \notin Elements(kept[n])
      BY <2>1, <2>3
    <3>3. /\ Append(kept[n], seq[n + 1]) \in Seq(S)
          /\ Elements(Append(kept[n], seq[n + 1])) = Elements(kept[n]) \cup {seq[n + 1]}
          /\ Distinct(Append(kept[n], seq[n + 1]))
      BY <2>1, <2>4, <3>2, AppendElements
    <3> QED  BY <2>1, <2>2, <2>6, <3>1, <3>3
  <2> QED  BY <2>5, <2>6
<1>7. Nat \subseteq T
  <2> HIDE DEF T
  <2> QED  BY <1>5, <1>6, SetInduction
<1>8. Good(Len(seq))
  <2>1. Len(seq) \in T
    BY <1>2, <1>7
  <2> QED  BY <1>2, <2>1
<1>9. First(Len(seq)) = Elements(seq)
  BY DEF Elements
<1> QED  BY <1>1, <1>8, <1>9

-----------------------------------------------------------------------------
(* Any number of clients                                                   *)

JobRecord == [type : Types, kind : Kinds]

LEMMA TypesFacts ==
    "ANY" \notin Types /\ "NONE" \notin Types /\ Lib \in Types /\ Main \in Clients
  BY WorkerAssumption

LEMMA InitInv == Init => WorkerInv
<1> SUFFICES ASSUME Init PROVE WorkerInv
  OBVIOUS
<1>1. TypeOK
  <2>1. jobs \in Seq([type : Types, kind : Kinds]) /\ Len(jobs) = 0 /\ queue \in Seq(1 .. 0)
    BY DEF Init
  <2>2. /\ Len(jobs) <= MaxJobs /\ queue \in Seq(1 .. Len(jobs)) /\ cur_job \in 0 .. Len(jobs)
    BY <2>1, WorkerAssumption DEF Init
  <2>3. freed \in [Numbers -> Nat]
    BY DEF Init
  <2> QED  BY <2>1, <2>2, <2>3 DEF Init, TypeOK
<1>2. JobsAccounted
  BY DEF Init, JobsAccounted, Elements, Numbers
<1> QED  BY <1>1, <1>2, TypesFacts DEF Init, WorkerInv

(* worker_add_job leaves the other jobs as they are.                       *)
LEMMA AddFacts ==
    ASSUME WorkerInv, NEW type \in Types, NEW kind \in Kinds,
           kind = "update" => type = Lib,
           worker_add_job(type, kind)
    PROVE  /\ Len(jobs) \in Nat /\ Len(jobs) + 1 \in Numbers
           /\ jobs' \in Seq(JobRecord) /\ Len(jobs') = Len(jobs) + 1
           /\ \A j \in 1 .. Len(jobs) : jobs'[j] = jobs[j]
           /\ jobs'[Len(jobs) + 1] = [type |-> type, kind |-> kind]
           /\ queue' \in Seq(1 .. Len(jobs'))
           /\ Elements(queue) \subseteq 1 .. Len(jobs)
           /\ Elements(queue') = Elements(queue) \cup {Len(jobs) + 1}
           /\ Distinct(queue')
           /\ waiting' \subseteq waiting
           /\ cur_job' = cur_job /\ freed' = freed
<1>1. /\ jobs \in Seq(JobRecord) /\ Len(jobs) \in Nat /\ Len(jobs) < MaxJobs
      /\ queue \in Seq(1 .. Len(jobs)) /\ Distinct(queue) /\ MaxJobs \in Nat
  BY WorkerAssumption DEF WorkerInv, TypeOK, JobsAccounted, Distinct, JobRecord, worker_add_job
<1>2. [type |-> type, kind |-> kind] \in JobRecord
  BY DEF JobRecord
<1>3. /\ jobs' \in Seq(JobRecord) /\ Len(jobs') = Len(jobs) + 1
      /\ \A j \in 1 .. Len(jobs) : jobs'[j] = jobs[j]
      /\ jobs'[Len(jobs) + 1] = [type |-> type, kind |-> kind]
  BY <1>1, <1>2, AppendProperties DEF worker_add_job
<1>4. queue \in Seq(1 .. Len(jobs) + 1)
  BY <1>1, SeqMonotonic
<1>5. Elements(queue) \subseteq 1 .. Len(jobs)
  BY <1>1, ElementOfSeq DEF Elements
<1>6. Len(jobs) + 1 \notin Elements(queue)
  BY <1>1, <1>5
<1>7. /\ queue' \in Seq(1 .. Len(jobs) + 1)
      /\ Elements(queue') = Elements(queue) \cup {Len(jobs) + 1}
      /\ Distinct(queue')
  <2>1. Len(jobs) + 1 \in 1 .. Len(jobs) + 1
    BY <1>1
  <2> QED  BY <1>1, <1>4, <1>6, <2>1, AppendElements DEF worker_add_job
<1>8. waiting' \subseteq waiting
  BY DEF worker_add_job, Signal
<1> QED  BY <1>1, <1>3, <1>5, <1>7, <1>8 DEF worker_add_job, Numbers

(* A job added by a client or by an update job keeps the invariant.        *)
LEMMA AddInv ==
    ASSUME WorkerInv, NEW type \in Types, NEW kind \in Kinds,
           kind = "update" => type = Lib,
           worker_add_job(type, kind), wpc # "exited",
           UNCHANGED << cancel_type, running, workerVars, viewVars, clientVars >>
    PROVE  WorkerInv'
<1>1. /\ Len(jobs) \in Nat /\ Len(jobs) + 1 \in Numbers
      /\ jobs' \in Seq(JobRecord) /\ Len(jobs') = Len(jobs) + 1
      /\ \A j \in 1 .. Len(jobs) : jobs'[j] = jobs[j]
      /\ jobs'[Len(jobs) + 1] = [type |-> type, kind |-> kind]
      /\ queue' \in Seq(1 .. Len(jobs'))
      /\ Elements(queue) \subseteq 1 .. Len(jobs)
      /\ Elements(queue') = Elements(queue) \cup {Len(jobs) + 1}
      /\ Distinct(queue')
      /\ waiting' \subseteq waiting
      /\ cur_job' = cur_job /\ freed' = freed
  BY AddFacts
<1>2. TypeOK'
  BY SMTT(60), <1>1, WorkerAssumption DEF WorkerInv, TypeOK, JobRecord, Numbers, workerVars, viewVars, clientVars
<1>3. JobsAccounted'
  BY <1>1, WorkerAssumption DEF WorkerInv, TypeOK, JobsAccounted, Distinct, Numbers, workerVars
<1>4. \A j \in 1 .. Len(jobs') : jobs'[j].kind = "update" => jobs'[j].type = Lib
  BY SMTT(30), <1>1 DEF WorkerInv
<1>5. \A t \in Types : \A j \in list'[t] : j <= Len(jobs') /\ jobs'[j].type = t
  <2> SUFFICES ASSUME NEW t \in Types, NEW j \in list[t]
               PROVE  j <= Len(jobs') /\ jobs'[j].type = t
    BY DEF viewVars
  <2>1. j \in Numbers /\ j <= Len(jobs) /\ jobs[j].type = t
    BY DEF WorkerInv, TypeOK
  <2> QED  BY <1>1, <2>1 DEF Numbers
<1>6. ti_buffer' => wpc' = "run" /\ jobs'[cur_job'].kind # "update"
  BY <1>1 DEF WorkerInv, TypeOK, JobsAccounted, workerVars
<1> QED  BY <1>1, <1>2, <1>3, <1>4, <1>5, <1>6 DEF WorkerInv, workerVars, viewVars, clientVars

LEMMA WorkerStepInv ==
    ASSUME WorkerInv, Worker
    PROVE  WorkerInv'
<1> USE WorkerAssumption DEF WorkerInv, queueVars, workerVars, viewVars, clientVars
<1>1. CASE WorkerWait
  BY <1>1 DEF WorkerWait, WorkerAwake, TypeOK, JobsAccounted
<1>2. CASE WorkerLeave
  BY <1>2 DEF WorkerLeave, WorkerAwake, TypeOK, JobsAccounted
<1>3. CASE WorkerStart
  <2>1. /\ Head(queue) \in 1 .. Len(jobs) /\ Head(queue) \in Elements(queue)
        /\ queue' \in Seq(1 .. Len(jobs))
        /\ Elements(queue') = Elements(queue) \ {Head(queue)}
        /\ Distinct(queue')
    BY <1>3, TailElements DEF WorkerStart, TypeOK, JobsAccounted, Distinct
  <2>2. TypeOK'
    BY <1>3, <2>1 DEF WorkerStart, TypeOK
  <2>3. JobsAccounted'
    <3>1. cur_job = 0 /\ cur_job' # 0 /\ wpc' = "run"
      BY <1>3, <2>1 DEF WorkerStart, WorkerAwake, JobsAccounted
    <3>2. ASSUME NEW j \in Numbers
          PROVE  freed'[j] = IF j > Len(jobs') \/ j \in Elements(queue') \/ j = cur_job'
                             THEN 0 ELSE 1
      BY <1>3, <2>1, <3>1 DEF WorkerStart, JobsAccounted, Numbers
    <3> QED  BY <1>3, <2>1, <3>1, <3>2 DEF WorkerStart, JobsAccounted, Distinct
  <2> QED  BY <1>3, <2>2, <2>3 DEF WorkerStart, WorkerAwake
<1>4. CASE JobAddTrack
  BY <1>4 DEF JobAddTrack, TypeOK, JobsAccounted
<1>5. ASSUME Flush, cur_job # 0, UNCHANGED jobs
      PROVE  /\ list' \in [Types -> SUBSET Numbers]
             /\ \A t \in Types : \A j \in list'[t] : j <= Len(jobs) /\ jobs[j].type = t
  <2>1. cur_job \in Numbers /\ cur_job <= Len(jobs) /\ jobs[cur_job].type \in Types
    <3>1. cur_job \in 1 .. Len(jobs) /\ Len(jobs) <= MaxJobs /\ Len(jobs) \in Nat
      BY <1>5 DEF TypeOK
    <3>2. jobs[cur_job] \in JobRecord
      BY <3>1, ElementOfSeq DEF TypeOK, JobRecord
    <3> QED  BY <3>1, <3>2 DEF Numbers, JobRecord
  <2> QED  BY <1>5, <2>1 DEF Flush, TypeOK
<1>6. CASE JobFlush
  <2>1. cur_job # 0
    BY <1>6 DEF JobFlush, JobsAccounted
  <2>2. /\ list' \in [Types -> SUBSET Numbers]
        /\ \A t \in Types : \A j \in list'[t] : j <= Len(jobs) /\ jobs[j].type = t
    BY <1>5, <1>6, <2>1 DEF JobFlush
  <2>3. TypeOK'
    BY <1>6, <2>2 DEF JobFlush, TypeOK
  <2>4. JobsAccounted'
    BY <1>6 DEF JobFlush, JobsAccounted
  <2> QED  BY <1>6, <2>2, <2>3, <2>4 DEF JobFlush
<1>7. CASE JobUpdate
  <2>1. "file" \in Kinds /\ "file" # "update" /\ Lib \in Types
    BY TypesFacts DEF Kinds
  <2>2. worker_add_job(Lib, "file") /\ wpc # "exited"
    BY <1>7 DEF JobUpdate
  <2>3. UNCHANGED << cancel_type, running, workerVars, viewVars, clientVars >>
    BY <1>7 DEF JobUpdate
  <2> HIDE DEF WorkerInv, workerVars, viewVars, clientVars
  <2> QED  BY <2>1, <2>2, <2>3, AddInv
<1>8. CASE JobReturn
  <2>1. cur_job # 0
    BY <1>8 DEF JobReturn, JobsAccounted
  <2>2. /\ list' \in [Types -> SUBSET Numbers]
        /\ \A t \in Types : \A j \in list'[t] : j <= Len(jobs) /\ jobs[j].type = t
    BY <1>5, <1>8, <2>1 DEF JobReturn, TypeOK
  <2>3. TypeOK'
    BY <1>8, <2>2 DEF JobReturn, TypeOK
  <2>4. JobsAccounted'
    BY <1>8 DEF JobReturn, JobsAccounted
  <2> QED  BY <1>8, <2>2, <2>3, <2>4 DEF JobReturn
<1>9. CASE WorkerFree
  <2>1. waiting' \subseteq waiting
    BY <1>9 DEF WorkerFree, Signal
  <2>2. cur_job \in Numbers /\ cur_job # 0
    BY <1>9 DEF WorkerFree, TypeOK, JobsAccounted, Numbers
  <2>3. TypeOK'
    BY <1>9, <2>1, <2>2 DEF WorkerFree, TypeOK
  <2>4. JobsAccounted'
    <3>1. 0 \notin Elements(queue)
      BY DEF TypeOK, Elements
    <3> QED  BY <1>9, <2>2, <3>1 DEF WorkerFree, TypeOK, JobsAccounted, Numbers, Elements
  <2>5. ~ti_buffer
    BY <1>9 DEF WorkerFree
  <2> QED  BY <1>9, <2>1, <2>3, <2>4, <2>5 DEF WorkerFree
<1> QED
  BY <1>1, <1>2, <1>3, <1>4, <1>6, <1>7, <1>8, <1>9 DEF Worker

(* The queued jobs worker_remove_jobs frees, and whether it has to wait.   *)
Matching(type) == {j \in Elements(queue) : Matches(type, j)}
Current(type)  == cur_job # 0 /\ Matches(type, cur_job)

LEMMA RemoveWaiting ==
    ASSUME NEW c, NEW type, RemoveJobs(c, type)
    PROVE  /\ arg' = [arg EXCEPT ![c] = type]
           /\ condemned' = [condemned EXCEPT ![c] =
                              Matching(type) \cup IF Current(type) THEN {cur_job} ELSE {}]
           /\ \/ /\ Current(type) /\ cancel_type' = type /\ waiting' = waiting \cup {c}
                 /\ pc' = [pc EXCEPT ![c] = "remove"]
              \/ /\ ~Current(type) /\ cancel_type' = "NONE" /\ waiting' = waiting
                 /\ pc' = [pc EXCEPT ![c] = "removed"]
           /\ UNCHANGED << jobs, cur_job, running, wpc, ti_buffer, list, gone >>
<1>1. CASE Current(type)
  BY <1>1 DEF RemoveJobs, Current, Matching, workerVars, viewVars
<1>2. CASE ~Current(type)
  BY <1>2 DEF RemoveJobs, Current, Matching, workerVars, viewVars
<1> QED  BY <1>1, <1>2

LEMMA RemoveFacts ==
    ASSUME WorkerInv, NEW c \in Clients, NEW type, RemoveJobs(c, type)
    PROVE  /\ queue' \in Seq(1 .. Len(jobs)) /\ Distinct(queue')
           /\ Elements(queue) \subseteq 1 .. Len(jobs) /\ Elements(queue) \subseteq Numbers
           /\ Elements(queue') = Elements(queue) \ Matching(type)
           /\ freed' = [j \in Numbers |-> IF j \in Matching(type) THEN freed[j] + 1 ELSE freed[j]]
<1>1. queue \in Seq(1 .. Len(jobs)) /\ Distinct(queue) /\ Len(jobs) <= MaxJobs
  BY DEF WorkerInv, TypeOK, JobsAccounted, Distinct
<1>2. queue' = Without(queue, Matching(type))
  BY DEF RemoveJobs, Matching
<1>3. queue' \in Seq(1 .. Len(jobs)) /\ Distinct(queue')
      /\ Elements(queue') = Elements(queue) \ Matching(type)
  BY <1>1, <1>2, WithoutFacts
<1>4. Elements(queue) \subseteq 1 .. Len(jobs)
  BY <1>1, ElementOfSeq DEF Elements
<1>5. Elements(queue) \subseteq Numbers
  BY <1>1, <1>4, WorkerAssumption DEF Numbers, WorkerInv, TypeOK
<1> QED  BY <1>3, <1>4, <1>5 DEF RemoveJobs, Matching

LEMMA RemoveInv ==
    ASSUME WorkerInv, NEW c \in Clients, NEW type \in Types \cup {"ANY"},
           type = "ANY" => c = Main,
           Ready(c), RemoveJobs(c, type)
    PROVE  WorkerInv'
<1> USE WorkerAssumption DEF WorkerInv, workerVars, viewVars
<1>1. /\ queue' \in Seq(1 .. Len(jobs)) /\ Distinct(queue')
      /\ Elements(queue) \subseteq 1 .. Len(jobs) /\ Elements(queue) \subseteq Numbers
      /\ Elements(queue') = Elements(queue) \ Matching(type)
      /\ freed' = [j \in Numbers |-> IF j \in Matching(type) THEN freed[j] + 1 ELSE freed[j]]
  <2> HIDE DEF WorkerInv
  <2> QED  BY RemoveFacts
<1>2. running /\ wpc # "exited"
  BY DEF Ready
<1>3. Matching(type) \subseteq Elements(queue)
  BY DEF Matching
<1>4. TypeOK'
  <2>1. freed' \in [Numbers -> Nat]
    BY <1>1 DEF TypeOK
  <2>2. condemned' \in [Clients -> SUBSET Numbers]
    <3>1. cur_job # 0 => cur_job \in Numbers
      BY DEF TypeOK, Numbers
    <3> QED  BY <1>1, <1>3, <3>1 DEF RemoveJobs, Matching, TypeOK
  <2>3. arg' \in [Clients -> Types \cup {"ANY", "NONE"}]
    <3>1. arg \in [Clients -> Types \cup {"ANY", "NONE"}] /\ arg' = [arg EXCEPT ![c] = type]
      BY RemoveWaiting DEF TypeOK
    <3> QED  BY <3>1
  <2>4. pc' \in [Clients -> {"idle", "remove", "removed", "save", "join", "exited"}]
    <3>1. /\ pc \in [Clients -> {"idle", "remove", "removed", "save", "join", "exited"}]
          /\ pc' = [pc EXCEPT ![c] = "remove"] \/ pc' = [pc EXCEPT ![c] = "removed"]
      BY RemoveWaiting DEF TypeOK
    <3> QED  BY <3>1
  <2>5. cancel_type' \in Types \cup {"ANY", "NONE"} /\ waiting' \subseteq Clients \cup {"worker"}
    BY RemoveWaiting DEF TypeOK
  <2> QED  BY <1>1, <2>1, <2>2, <2>3, <2>4, <2>5, RemoveWaiting DEF TypeOK
<1>5. JobsAccounted'
  <2>1. ASSUME NEW j \in Numbers
        PROVE  freed'[j] = IF j > Len(jobs) \/ j \in Elements(queue') \/ j = cur_job THEN 0 ELSE 1
    <3>1. freed[j] = IF j > Len(jobs) \/ j \in Elements(queue) \/ j = cur_job THEN 0 ELSE 1
      BY DEF JobsAccounted
    <3>2. cur_job \notin Elements(queue)
      BY DEF JobsAccounted
    <3> QED  BY <1>1, <1>3, <3>1, <3>2 DEF TypeOK
  <2> QED  BY <1>1, <2>1 DEF RemoveJobs, JobsAccounted, Distinct
<1>6. "worker" \in waiting' => wpc' = "loop"
  BY DEF RemoveJobs
<1>7. \A d \in Clients : d \in waiting' => pc'[d] = "remove"
  BY RemoveWaiting DEF Ready, TypeOK
<1>8. \A d \in Clients : /\ arg'[d] = "ANY" => d = Main
                         /\ pc'[d] = "save" => arg'[d] \in Types
                         /\ pc'[d] = "join" \/ pc'[d] = "exited" => arg'[d] = "ANY"
  BY DEF RemoveJobs, TypeOK
<1>9. pc'[Main] = "exited" => wpc' = "exited"
  BY DEF RemoveJobs, TypeOK
<1> QED  BY <1>2, <1>4, <1>5, <1>6, <1>7, <1>8, <1>9 DEF RemoveJobs

LEMMA ClientStepInv ==
    ASSUME WorkerInv, NEW c \in Clients, Client(c)
    PROVE  WorkerInv'
<1> USE WorkerAssumption
<1>1. CASE AddJob(c)
  <2>1. UNCHANGED << cancel_type, running, workerVars, viewVars, clientVars >>
    BY <1>1 DEF AddJob
  <2>2. wpc # "exited"
    BY <1>1 DEF AddJob, Ready, WorkerInv
  <2>3. {"file", "dir", "update"} \subseteq Kinds /\ Lib \in Types
    BY DEF Kinds
  <2>4. \/ \E t \in Types, kind \in {"file", "dir"} : worker_add_job(t, kind)
        \/ worker_add_job(Lib, "update")
    BY <1>1 DEF AddJob
  <2> QED  BY <2>1, <2>2, <2>3, <2>4, AddInv
<1>2. CASE ViewClear(c)
  <2>1. PICK t \in Types : RemoveJobs(c, t)
    BY <1>2 DEF ViewClear
  <2>2. Ready(c) /\ t # "ANY"
    BY <1>2, TypesFacts DEF ViewClear
  <2> QED  BY <2>1, <2>2, RemoveInv
<1>3. CASE CmusExit(c)
  <2>1. RemoveJobs(c, "ANY") /\ Ready(c) /\ c = Main
    BY <1>3 DEF CmusExit
  <2> QED  BY <2>1, RemoveInv
<1> USE DEF queueVars, workerVars, viewVars, clientVars
<1>4. CASE RemoveReturn(c)
  <2>1. TypeOK'
    BY <1>4 DEF RemoveReturn, TypeOK, WorkerInv
  <2> QED  BY <1>4, <2>1 DEF RemoveReturn, JobsAccounted, WorkerInv, TypeOK
<1>5. CASE ClearView(c)
  <2>1. TypeOK'
    BY <1>5 DEF ClearView, TypeOK, WorkerInv
  <2>2. ~(c = Main /\ ~running)
    BY <1>5, TypesFacts DEF ClearView, WorkerInv
  <2>3. \A t \in Types : \A j \in list'[t] : j <= Len(jobs) /\ jobs[j].type = t
    BY <1>5 DEF ClearView, WorkerInv, TypeOK
  <2> QED  BY <1>5, <2>1, <2>2, <2>3, TypesFacts DEF ClearView, JobsAccounted, WorkerInv, TypeOK
<1>6. CASE ViewSave(c)
  <2>1. TypeOK'
    BY <1>6 DEF ViewSave, TypeOK, WorkerInv
  <2>2. running
    BY <1>6 DEF ViewSave, Ready, WorkerInv
  <2> QED  BY <1>6, <2>1, <2>2, TypesFacts DEF ViewSave, Ready, JobsAccounted, WorkerInv, TypeOK
<1>7. CASE DoSave(c)
  <2>1. TypeOK'
    BY <1>7 DEF DoSave, TypeOK, WorkerInv
  <2>2. ~(c = Main /\ ~running)
    BY <1>7, TypesFacts DEF DoSave, WorkerInv
  <2> QED  BY <1>7, <2>1, <2>2, TypesFacts DEF DoSave, JobsAccounted, WorkerInv, TypeOK
<1>8. CASE WorkerExit(c)
  <2>1. waiting' \subseteq waiting
    BY <1>8 DEF WorkerExit, Signal
  <2>2. TypeOK'
    BY <1>8, <2>1 DEF WorkerExit, TypeOK, WorkerInv
  <2>3. c = Main
    BY <1>8 DEF WorkerExit, WorkerInv
  <2>4. c \notin waiting
    BY <1>8 DEF WorkerExit, WorkerInv
  <2> QED  BY <1>8, <2>1, <2>2, <2>3, <2>4 DEF WorkerExit, JobsAccounted, WorkerInv, TypeOK
<1>9. CASE WorkerJoin(c)
  <2>1. TypeOK'
    BY <1>9 DEF WorkerJoin, TypeOK, WorkerInv
  <2> QED  BY <1>9, <2>1 DEF WorkerJoin, JobsAccounted, WorkerInv, TypeOK
<1> QED
  BY <1>1, <1>2, <1>3, <1>4, <1>5, <1>6, <1>7, <1>8, <1>9 DEF Client

LEMMA NextInv ==
    ASSUME WorkerInv, [Next]_vars
    PROVE  WorkerInv'
<1>1. CASE Worker
  BY <1>1, WorkerStepInv
<1>2. CASE \E c \in Clients : Client(c)
  BY <1>2, ClientStepInv
<1>3. CASE UNCHANGED vars
  BY <1>3 DEF vars, queueVars, workerVars, viewVars, clientVars, WorkerInv, TypeOK, JobsAccounted
<1> QED  BY <1>1, <1>2, <1>3 DEF Next, Terminated

(* worker.c: for any number of threads that give commands, every job that  *)
(* was added is in the queue, is the current one or has been freed once.   *)
THEOREM WorkerKeepsJobs == Spec => []JobsAccounted
<1>1. WorkerInv => JobsAccounted
  BY DEF WorkerInv
<1> QED  BY InitInv, NextInv, <1>1, PTL DEF Spec

(* cmus_exit: once worker_exit has returned there is nothing left to run,  *)
(* no current job and no track on its way to a view.                       *)
THEOREM ExitDrainsQueue == Spec => []ExitDrains
<1>1. WorkerInv => ExitDrains
  BY DEF WorkerInv, JobsAccounted, ExitDrains
<1> QED  BY InitInv, NextInv, <1>1, PTL DEF Spec

-----------------------------------------------------------------------------
(* One client                                                              *)

OneClient == Clients = {Main}

LEMMA InitOne == Init => OneClientInv
<1> SUFFICES ASSUME Init PROVE OneClientInv
  OBVIOUS
<1>1. WorkerInv /\ Main \in Clients
  BY InitInv, TypesFacts
<1> QED  BY <1>1, WorkerAssumption DEF Init, OneClientInv, Elements

(* Jobs that are added are none of those a :clear or quitting removes.     *)
LEMMA AddOne ==
    ASSUME OneClient, OneClientInv, WorkerInv',
           NEW type \in Types, NEW kind \in Kinds, kind = "update" => type = Lib,
           worker_add_job(type, kind),
           UNCHANGED << cancel_type, running, workerVars, viewVars, clientVars >>,
           waiting' # waiting /\ Main \in waiting => jobs[cur_job].kind = "update",
           pc[Main] = "save" => type # arg[Main]
    PROVE  OneClientInv'
<1> USE DEF workerVars, viewVars, clientVars
<1>0. WorkerInv
  BY DEF OneClientInv
<1>1. /\ Len(jobs) \in Nat /\ Len(jobs) + 1 \in Numbers
      /\ Len(jobs') = Len(jobs) + 1
      /\ \A j \in 1 .. Len(jobs) : jobs'[j] = jobs[j]
      /\ jobs'[Len(jobs) + 1] = [type |-> type, kind |-> kind]
      /\ Elements(queue) \subseteq 1 .. Len(jobs)
      /\ Elements(queue') = Elements(queue) \cup {Len(jobs) + 1}
      /\ waiting' \subseteq waiting
      /\ cur_job' = cur_job
  BY <1>0, AddFacts
<1>2. /\ cur_job \in 0 .. Len(jobs) /\ 0 \notin Numbers
      /\ condemned[Main] \subseteq Numbers /\ gone \subseteq Numbers
  BY <1>0, TypesFacts DEF WorkerInv, TypeOK, Numbers
<1>3. \A j \in condemned[Main] \cup gone : j \in 1 .. Len(jobs) /\ j \notin Elements(queue)
  <2>1. \A j \in condemned[Main] \cup gone : j \in Numbers
    BY <1>2
  <2>2. \A j \in condemned[Main] \cup gone : j <= Len(jobs) /\ j \notin Elements(queue)
    BY DEF OneClientInv
  <2> QED  BY <1>1, <2>1, <2>2 DEF Numbers
<1>4. \A j \in condemned'[Main] \cup gone' : j <= Len(jobs') /\ j \notin Elements(queue')
  BY <1>1, <1>3
<1>5. \A j \in condemned'[Main] : Matches(arg[Main], j)'
  BY <1>1, <1>3 DEF OneClientInv, Matches
<1>6. cur_job \in condemned[Main] \cup gone => jobs'[cur_job] = jobs[cur_job]
  BY <1>1, <1>3
<1>7. pc'[Main] = "save" => ~worker_has_job(arg[Main])'
  <2> SUFFICES ASSUME pc[Main] = "save" PROVE ~worker_has_job(arg[Main])'
    OBVIOUS
  <2>1. ~worker_has_job(arg[Main]) /\ arg[Main] \in Types /\ type # arg[Main]
    BY TypesFacts DEF OneClientInv, WorkerInv
  <2> QED  BY <1>1, <1>2, <2>1, TypesFacts DEF worker_has_job, Matches
<1>8. Main \in waiting' => cancel_type' # "NONE" /\ cur_job' # 0
  BY <1>1 DEF OneClientInv
<1>9. pc'[Main] \in {"remove", "removed"} /\ Main \notin waiting' /\ cur_job' \in condemned'[Main]
        => jobs'[cur_job'].kind = "update"
  BY <1>1, <1>6 DEF OneClientInv
<1>10. cur_job' \in gone' => jobs'[cur_job'].kind = "update"
  BY <1>1, <1>6 DEF OneClientInv
<1> QED  BY <1>4, <1>5, <1>7, <1>8, <1>9, <1>10 DEF OneClientInv

LEMMA WorkerStepOne ==
    ASSUME OneClient, OneClientInv, WorkerInv', Worker
    PROVE  OneClientInv'
<1> USE TypesFacts DEF queueVars, workerVars, viewVars, clientVars
<1>0. /\ WorkerInv /\ cur_job \in 0 .. Len(jobs)
      /\ condemned[Main] \subseteq Numbers /\ gone \subseteq Numbers /\ 0 \notin Numbers
      /\ waiting \subseteq {Main, "worker"} /\ Main # "worker"
  BY SMTT(60), WorkerAssumption DEF OneClientInv, OneClient, WorkerInv, TypeOK, Numbers
<1>1. CASE WorkerWait
  BY <1>0, <1>1 DEF WorkerWait, OneClientInv, Matches, worker_has_job
<1>2. CASE WorkerLeave
  BY <1>0, <1>2 DEF WorkerLeave, OneClientInv, Matches, worker_has_job
<1>3. CASE WorkerStart
  <2>1. /\ Head(queue) \in Elements(queue) /\ Head(queue) \in 1 .. Len(jobs)
        /\ Elements(queue') = Elements(queue) \ {Head(queue)}
    BY <1>0, <1>3, TailElements DEF WorkerStart, WorkerInv, TypeOK, JobsAccounted, Distinct
  <2>2. cur_job' \notin condemned[Main] \cup gone /\ cur_job' # 0
    BY <1>3, <2>1 DEF WorkerStart, OneClientInv
  <2>3. Main \notin waiting
    BY <1>0, <1>3 DEF WorkerStart, WorkerAwake, OneClientInv, WorkerInv, JobsAccounted
  <2>4. pc[Main] = "save" => ~worker_has_job(arg[Main])'
    BY <1>3, <2>1 DEF WorkerStart, OneClientInv, worker_has_job, Matches
  <2> QED  BY <1>3, <2>1, <2>2, <2>3, <2>4 DEF WorkerStart, OneClientInv, Matches
<1>4. CASE JobAddTrack
  BY <1>0, <1>4 DEF JobAddTrack, OneClientInv, Matches, worker_has_job
<1>5. ASSUME Flush, wpc = "run", ti_buffer
      PROVE  \A t \in Types : list'[t] \cap gone = {}
  <2>1. cur_job \notin gone
    BY <1>0, <1>5 DEF OneClientInv, WorkerInv
  <2> QED  BY <1>0, <1>5, <2>1 DEF Flush, OneClientInv, WorkerInv, TypeOK
<1>6. CASE JobFlush
  <2>1. \A t \in Types : list'[t] \cap gone = {}
    BY <1>5, <1>6 DEF JobFlush
  <2> QED  BY <1>0, <1>6, <2>1 DEF JobFlush, OneClientInv, Matches, worker_has_job
<1>7. CASE JobUpdate
  <2>1. /\ "file" \in Kinds /\ worker_add_job(Lib, "file") /\ jobs[cur_job].kind = "update"
        /\ UNCHANGED << cancel_type, running, workerVars, viewVars, clientVars >>
    BY <1>7 DEF JobUpdate, Kinds
  <2>2. cur_job # 0 /\ jobs[cur_job].type = Lib
    BY <1>0, <1>7, <2>1 DEF JobUpdate, WorkerInv, JobsAccounted
  <2>3. pc[Main] = "save" => Lib # arg[Main]
    BY <2>2 DEF OneClientInv, worker_has_job, Matches
  <2> QED  BY <2>1, <2>3, AddOne
<1>8. CASE JobReturn
  <2>1. \A t \in Types : list'[t] \cap gone = {}
    BY <1>5, <1>8 DEF JobReturn, OneClientInv
  <2> QED  BY <1>0, <1>8, <2>1 DEF JobReturn, OneClientInv, Matches, worker_has_job
<1>9. CASE WorkerFree
  <2>1. "worker" \notin waiting
    BY <1>0, <1>9 DEF WorkerFree, WorkerInv
  <2>2. Main \notin waiting'
    BY <1>0, <1>9, <2>1 DEF WorkerFree, Signal, OneClientInv
  <2>3. cur_job' = 0 /\ cur_job' \notin condemned'[Main] \cup gone'
    BY <1>0, <1>9 DEF WorkerFree
  <2>4. pc'[Main] = "save" => ~worker_has_job(arg[Main])'
    BY <1>9 DEF WorkerFree, OneClientInv, worker_has_job, Matches
  <2> QED  BY <1>9, <2>2, <2>3, <2>4 DEF WorkerFree, OneClientInv, Matches
<1> QED
  BY <1>1, <1>2, <1>3, <1>4, <1>6, <1>7, <1>8, <1>9 DEF Worker

LEMMA RemoveOne ==
    ASSUME OneClient, OneClientInv, WorkerInv',
           NEW type \in Types \cup {"ANY"}, pc[Main] = "idle",
           RemoveJobs(Main, type)
    PROVE  OneClientInv'
<1> USE TypesFacts
<1>0. WorkerInv
  BY DEF OneClientInv
<1>1. /\ Elements(queue) \subseteq 1 .. Len(jobs)
      /\ Elements(queue') = Elements(queue) \ Matching(type)
      /\ cur_job \in 0 .. Len(jobs) /\ cur_job \notin Elements(queue)
  BY <1>0, RemoveFacts DEF WorkerInv, TypeOK, JobsAccounted
<1> DEFINE doomed == Matching(type) \cup IF Current(type) THEN {cur_job} ELSE {}
<1>2. condemned'[Main] = doomed /\ arg'[Main] = type
  BY <1>0, RemoveWaiting DEF WorkerInv, TypeOK
<1>3. /\ Main \notin waiting
      /\ \/ Current(type) /\ cancel_type' = type /\ Main \in waiting' /\ pc'[Main] = "remove"
         \/ ~Current(type) /\ Main \notin waiting' /\ pc'[Main] = "removed"
      /\ UNCHANGED << jobs, cur_job, list, gone >>
  BY <1>0, RemoveWaiting DEF WorkerInv, TypeOK
<1>4. \A j \in doomed : j <= Len(jobs) /\ j \notin Elements(queue') /\ Matches(type, j)
  BY <1>1 DEF Matching, Current
<1>5. \A j \in gone : j <= Len(jobs) /\ j \notin Elements(queue')
  BY <1>1 DEF OneClientInv
<1>6. ~Current(type) => cur_job \notin doomed
  BY <1>1 DEF Matching
<1>7. Current(type) => cur_job # 0 /\ type # "NONE"
  BY DEF Current
<1>8. \A j \in condemned'[Main] : Matches(arg[Main], j)'
  BY <1>2, <1>3, <1>4 DEF Matches
<1>9. \A j \in condemned'[Main] \cup gone' : j <= Len(jobs') /\ j \notin Elements(queue')
  BY <1>2, <1>3, <1>4, <1>5
<1> HIDE DEF doomed
<1> QED  BY <1>2, <1>3, <1>6, <1>7, <1>8, <1>9 DEF OneClientInv

LEMMA ClientStepOne ==
    ASSUME OneClient, OneClientInv, WorkerInv', Client(Main)
    PROVE  OneClientInv'
<1> USE TypesFacts
<1>0. WorkerInv
  BY DEF OneClientInv
<1>1. CASE AddJob(Main)
  <2>1. /\ UNCHANGED << cancel_type, running, workerVars, viewVars, clientVars >>
        /\ pc[Main] # "save" /\ Main \notin waiting
        /\ \/ \E t \in Types, kind \in {"file", "dir"} : worker_add_job(t, kind)
           \/ worker_add_job(Lib, "update")
    BY <1>0, <1>1 DEF AddJob, Ready, WorkerInv
  <2>2. {"file", "dir", "update"} \subseteq Kinds
    BY DEF Kinds
  <2>3. ASSUME NEW t \in Types, NEW kind \in {"file", "dir"}, worker_add_job(t, kind)
        PROVE  OneClientInv'
    <3>1. kind \in Kinds /\ kind # "update"
      BY <2>2
    <3> QED  BY <2>1, <2>3, <3>1, AddOne
  <2>4. ASSUME worker_add_job(Lib, "update")
        PROVE  OneClientInv'
    <3>1. "update" \in Kinds
      BY <2>2
    <3> QED  BY <2>1, <2>4, <3>1, AddOne
  <2> QED  BY <2>1, <2>3, <2>4
<1>2. CASE ViewClear(Main)
  BY <1>2, RemoveOne DEF ViewClear, Ready
<1>3. CASE CmusExit(Main)
  BY <1>3, RemoveOne DEF CmusExit, Ready
<1> USE DEF queueVars, workerVars, viewVars, clientVars
<1>4. CASE RemoveReturn(Main)
  BY <1>0, <1>4 DEF RemoveReturn, OneClientInv, Matches, worker_has_job, WorkerInv, TypeOK
<1>5. CASE ClearView(Main)
  <2>1. \A t \in Types : list'[t] \cap gone' = {}
    <3> SUFFICES ASSUME NEW t \in Types, NEW j \in list'[t] PROVE j \notin gone'
      OBVIOUS
    <3>1. t # arg[Main] /\ j \in list[t]
      BY <1>0, <1>5 DEF ClearView, WorkerInv, TypeOK
    <3>2. j \notin gone
      BY <3>1 DEF OneClientInv
    <3>3. ASSUME j \in condemned[Main] PROVE FALSE
      <4>1. jobs[j].type = t
        BY <1>0, <3>1 DEF WorkerInv
      <4>2. Matches(arg[Main], j) /\ arg[Main] # "ANY"
        BY <1>5, <3>3 DEF OneClientInv, ClearView
      <4> QED  BY <3>1, <4>1, <4>2 DEF Matches
    <3> QED  BY <1>5, <3>2, <3>3 DEF ClearView
  <2>2. Main \notin waiting
    BY <1>0, <1>5 DEF ClearView, WorkerInv
  <2>3. pc'[Main] = "idle" /\ condemned'[Main] = {}
    BY <1>0, <1>5 DEF ClearView, WorkerInv, TypeOK
  <2> QED  BY <1>5, <2>1, <2>2, <2>3 DEF ClearView, OneClientInv
<1>6. CASE ViewSave(Main)
  <2>1. PICK t \in Types : ~worker_has_job(t) /\ arg' = [arg EXCEPT ![Main] = t]
    BY <1>6 DEF ViewSave
  <2>2. pc'[Main] = "save" /\ condemned'[Main] = {} /\ Main \notin waiting
    BY <1>0, <1>6 DEF ViewSave, Ready, WorkerInv, TypeOK, OneClientInv
  <2>3. arg'[Main] = t
    BY <1>0, <2>1 DEF WorkerInv, TypeOK
  <2>4. ~worker_has_job(arg[Main])'
    BY <1>6, <2>1, <2>3 DEF ViewSave, worker_has_job, Matches
  <2> QED  BY <1>6, <2>2, <2>4 DEF ViewSave, OneClientInv
<1>7. CASE DoSave(Main)
  <2>1. pc'[Main] = "idle" /\ condemned'[Main] = {} /\ Main \notin waiting
    BY <1>0, <1>7 DEF DoSave, WorkerInv, TypeOK, OneClientInv
  <2> QED  BY <1>7, <2>1 DEF DoSave, OneClientInv
<1>8. CASE WorkerExit(Main)
  <2>1. pc'[Main] = "join" /\ Main \notin waiting'
    BY <1>0, <1>8 DEF WorkerExit, Signal, WorkerInv, TypeOK
  <2> QED  BY <1>8, <2>1 DEF WorkerExit, OneClientInv, Matches
<1>9. CASE WorkerJoin(Main)
  <2>1. pc'[Main] = "exited" /\ Main \notin waiting
    BY <1>0, <1>9 DEF WorkerJoin, WorkerInv, TypeOK
  <2> QED  BY <1>9, <2>1 DEF WorkerJoin, OneClientInv, Matches
<1> QED
  BY <1>1, <1>2, <1>3, <1>4, <1>5, <1>6, <1>7, <1>8, <1>9 DEF Client

LEMMA NextOne ==
    ASSUME OneClient, OneClientInv, [Next]_vars
    PROVE  OneClientInv'
<1>0. WorkerInv'
  BY NextInv DEF OneClientInv
<1>1. CASE Worker
  BY <1>0, <1>1, WorkerStepOne
<1>2. CASE \E c \in Clients : Client(c)
  BY <1>0, <1>2, ClientStepOne DEF OneClient
<1>3. CASE UNCHANGED vars
  BY <1>0, <1>3 DEF vars, queueVars, workerVars, viewVars, clientVars, OneClientInv, Matches,
                    worker_has_job
<1> QED  BY <1>1, <1>2, <1>3 DEF Next, Terminated

(* What the invariant is for.                                              *)
LEMMA OneClientImplies ==
    ASSUME OneClient, OneClientInv
    PROVE  JobsKept /\ ClearedStaysClear /\ SavesWhole
<1>0. WorkerInv
  BY DEF OneClientInv
<1>1. RemoveWaits
  <2> SUFFICES ASSUME pc[Main] = "removed", arg[Main] \in Types \ {Lib},
                      cur_job \in condemned[Main]
               PROVE  FALSE
    BY DEF RemoveWaits, OneClient
  <2>1. Main \notin waiting
    BY <1>0, TypesFacts DEF WorkerInv
  <2>2. jobs[cur_job].kind = "update" /\ Matches(arg[Main], cur_job)
    BY <2>1 DEF OneClientInv
  <2>3. cur_job \in 1 .. Len(jobs)
    BY <1>0, TypesFacts DEF WorkerInv, TypeOK, Numbers
  <2> QED  BY <1>0, <2>2, <2>3, TypesFacts DEF WorkerInv, Matches
<1>2. JobsAccounted /\ ExitDrains
  BY <1>0 DEF WorkerInv, JobsAccounted, ExitDrains
<1>3. SavesWhole
  <2> SUFFICES ASSUME pc[Main] = "save", cur_job # 0, cur_job \in list[arg[Main]]
               PROVE  FALSE
    BY DEF SavesWhole, OneClient
  <2>1. arg[Main] \in Types
    BY <1>0, TypesFacts DEF WorkerInv
  <2>2. jobs[cur_job].type = arg[Main]
    BY <1>0, <2>1 DEF WorkerInv
  <2> QED  BY <2>2 DEF OneClientInv, worker_has_job, Matches
<1> QED  BY <1>1, <1>2, <1>3 DEF JobsKept, ClearedStaysClear, OneClientInv

(* worker_remove_jobs with one thread giving commands: no job is lost or   *)
(* freed twice, and what was to be removed is over when it returns.        *)
THEOREM OneClientKeepsJobs == OneClient => (Spec => []JobsKept)
<1>1. OneClient => OneClient'
  BY DEF OneClient
<1> QED  BY InitOne, NextOne, OneClientImplies, <1>1, PTL DEF Spec

(* view_clear: no track of a job that was there when :clear was given      *)
(* shows up in the view afterwards.                                        *)
THEOREM OneClientClears == OneClient => (Spec => []ClearedStaysClear)
<1>1. OneClient => OneClient'
  BY DEF OneClient
<1> QED  BY InitOne, NextOne, OneClientImplies, <1>1, PTL DEF Spec

(* view_save: a view is never written while a job is part way through      *)
(* adding to it.                                                           *)
THEOREM OneClientSavesWhole == OneClient => (Spec => []SavesWhole)
<1>1. OneClient => OneClient'
  BY DEF OneClient
<1> QED  BY InitOne, NextOne, OneClientImplies, <1>1, PTL DEF Spec

=============================================================================
