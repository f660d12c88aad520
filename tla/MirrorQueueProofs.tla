-------------------------- MODULE MirrorQueueProofs ---------------------------
(***************************************************************************)
(* Proofs about MirrorQueue, for any number of callers, keys and calls and *)
(* any capacity: its types, and what a flush that returns True says.       *)
(***************************************************************************)
EXTENDS MirrorQueue, FiniteSetTheorems, TLAPS

\* The worker has taken something it has not yet counted as done.
Busy == worker \in {"mirroring", "mirrored", "released", "ending"}

\* unfinished_tasks counts what waits and what the worker has in hand.
CountIsRight == unfinished = Len(jobs) + (IF Busy THEN 1 ELSE 0)

\* A job in the queue or in hand has a number that was given out, and a call
\* that is about to put a job knows its key.
Numbered ==
    /\ \A i \in DOMAIN jobs : jobs[i] # None => jobs[i].id \in 1..put
    /\ hand # None => hand.id \in 1..put
    /\ worker \in {"mirroring", "mirrored"} => hand # None
    /\ \A c \in Caller : pc[c] \in {"keyed", "full"} => arg[c] \in Key

\* Where job n is: in the queue, in hand, or done.
Somewhere(n) ==
    \/ n \in mirrored
    \/ worker = "mirroring" /\ hand.id = n
    \/ \E i \in DOMAIN jobs : jobs[i] # None /\ jobs[i].id = n

EveryJobIsSomewhere == \A n \in 1..put : Somewhere(n)

FlushesLookBack == \A c \in Caller : before[c] <= put

QInv ==
    /\ TypeOK /\ CountIsRight /\ Numbered
    /\ EveryJobIsSomewhere /\ FlushesLookBack /\ FlushMeansMirrored

-----------------------------------------------------------------------------
\* Nothing is queued at first.
LEMMA InitInv == Init => QInv
BY QueueAssumption
   DEF Init, QInv, TypeOK, CountIsRight, Numbered, EveryJobIsSomewhere, FlushesLookBack,
       FlushMeansMirrored, Busy, Worker, PC, Answer

\* Taking the head of a queue leaves the rest where it was.
LEMMA TailOf ==
    ASSUME NEW S, NEW q \in Seq(S), q # <<>>
    PROVE  /\ Head(q) \in S /\ Head(q) = q[1]
           /\ Tail(q) \in Seq(S) /\ Len(Tail(q)) = Len(q) - 1
           /\ \A i \in DOMAIN Tail(q) : i + 1 \in DOMAIN q /\ Tail(q)[i] = q[i + 1]
           /\ \A i \in DOMAIN q : i # 1 => i - 1 \in DOMAIN Tail(q) /\ Tail(q)[i - 1] = q[i]
OBVIOUS

\* Appending to a queue leaves what is there where it is.
LEMMA AppendTo ==
    ASSUME NEW S, NEW q \in Seq(S), NEW e \in S
    PROVE  /\ Append(q, e) \in Seq(S) /\ Len(Append(q, e)) = Len(q) + 1
           /\ \A i \in DOMAIN q : i \in DOMAIN Append(q, e) /\ Append(q, e)[i] = q[i]
           /\ Len(q) + 1 \in DOMAIN Append(q, e) /\ Append(q, e)[Len(q) + 1] = e
           /\ \A i \in DOMAIN Append(q, e) : i \in DOMAIN q \/ i = Len(q) + 1
OBVIOUS

\* A queue that is not full has room for one more.
LEMMA RoomForOne ==
    ASSUME TypeOK, NEW e \in Job \cup {None}, Len(jobs) < Capacity
    PROVE  Append(jobs, e) \in Seq(Job \cup {None}) /\ Len(Append(jobs, e)) <= Capacity
<1>1. jobs \in Seq(Job \cup {None}) /\ Len(jobs) \in Nat
  BY DEF TypeOK
<1>2. Append(jobs, e) \in Seq(Job \cup {None}) /\ Len(Append(jobs, e)) = Len(jobs) + 1
  BY <1>1, AppendTo
<1> QED
  BY <1>1, <1>2, QueueAssumption

\* Each step keeps the types.
LEMMA TypeStep == QInv /\ [Next]_vars => TypeOK'
<1> SUFFICES ASSUME QInv, [Next]_vars PROVE TypeOK'
  OBVIOUS
<1> USE QueueAssumption
    DEF QInv, TypeOK, Numbered, Job, Worker, PC, Answer, queue, thread, calling
<1>1. ASSUME NEW c \in Caller, NEW k \in Key, Enqueue(c, k) PROVE TypeOK'
  <2>1. calls' \in 0..MaxCalls /\ arg' \in [Caller -> Key \cup {None}]
    BY <1>1 DEF Enqueue, Calls
  <2>2. pc' \in [Caller -> PC] /\ told' \in [Caller -> Answer] /\ pending' \subseteq Key
    BY <1>1 DEF Enqueue, Goes, Returns
  <2> QED
    BY <1>1, <2>1, <2>2 DEF Enqueue
<1>2. ASSUME NEW c \in Caller, Put(c) PROVE TypeOK'
  <2>1. [id |-> put + 1, key |-> arg[c]] \in Job
    BY <1>2 DEF Put
  <2> QED
    <3>1. pc' \in [Caller -> PC]
      BY <1>2 DEF Put, Goes
    <3>2. jobs' \in Seq(Job \cup {None}) /\ Len(jobs') <= Capacity
      <4> DEFINE job == [id |-> put + 1, key |-> arg[c]]
      <4> HIDE DEF job, Job
      <4>1. ASSUME Len(jobs) < Capacity
            PROVE  Append(jobs, job) \in Seq(Job \cup {None}) /\ Len(Append(jobs, job)) <= Capacity
        <5>1. job \in Job
          BY <2>1 DEF job, Job
        <5> QED
          BY <4>1, <5>1, RoomForOne
      <4> QED
        BY <1>2, <4>1 DEF Put, job
    <3>3. put' \in Nat /\ unfinished' \in Nat /\ 1..put \subseteq 1..put'
      BY <1>2 DEF Put
    <3> QED
      BY <1>2, <3>1, <3>2, <3>3 DEF Put
<1>3. ASSUME NEW c \in Caller, GiveKeyBack(c) PROVE TypeOK'
  BY <1>3 DEF GiveKeyBack, Goes, Returns
<1>4. ASSUME NEW c \in Caller, EnsureWorker(c) PROVE TypeOK'
  BY <1>4 DEF EnsureWorker, Goes, Returns
<1>5. ASSUME NEW c \in Caller, NEW to \in {"flushing", "stopping"}, Flush(c, to)
      PROVE  TypeOK'
  BY <1>5 DEF Flush, Calls, Goes
<1>6. ASSUME NEW c \in Caller, FlushEnds(c) PROVE TypeOK'
  BY <1>6 DEF FlushEnds, Goes
<1>7. ASSUME NEW c \in Caller, Close(c) PROVE TypeOK'
  BY <1>7 DEF Close, Goes
<1>8. ASSUME NEW c \in Caller, PutStopper(c) PROVE TypeOK'
  <2>1. pc' \in [Caller -> PC] /\ unfinished' \in Nat
    BY <1>8 DEF PutStopper, Goes
  <2>2. jobs' \in Seq(Job \cup {None}) /\ Len(jobs') <= Capacity
    BY <1>8, RoomForOne DEF PutStopper
  <2> QED
    BY <1>8, <2>1, <2>2 DEF PutStopper
<1>9. ASSUME Get PROVE TypeOK'
  BY <1>9, TailOf DEF Get
<1>10. ASSUME Mirror PROVE TypeOK'
  BY <1>10 DEF Mirror
<1>11. ASSUME Release PROVE TypeOK'
  BY <1>11 DEF Release
<1>12. ASSUME TaskDone PROVE TypeOK'
  BY <1>12 DEF TaskDone, CountIsRight, Busy
<1>13. ASSUME WorkerEnds PROVE TypeOK'
  BY <1>13 DEF WorkerEnds, CountIsRight, Busy
<1>14. ASSUME UNCHANGED vars PROVE TypeOK'
  BY <1>14 DEF vars
<1> QED
  BY <1>1, <1>2, <1>3, <1>4, <1>5, <1>6, <1>7, <1>8, <1>9, <1>10, <1>11, <1>12, <1>13,
     <1>14 DEF Next, Runs, GoesOn, Begins

\* Only these steps touch the queue, its count or the worker.
Touches ==
    \/ \E c \in Caller : Put(c) \/ EnsureWorker(c) \/ PutStopper(c)
    \/ Get \/ Mirror \/ Release \/ TaskDone \/ WorkerEnds

\* A step that is none of those that touch it leaves the queue and its thread alone.
LEMMA OthersDoNotTouch ==
    ASSUME [Next]_vars, ~Touches PROVE UNCHANGED <<queue, thread>>
BY DEF Touches, Next, Runs, GoesOn, Begins, Enqueue, GiveKeyBack, Flush, FlushEnds, Close,
       vars, queue, thread

\* One element more at the end of the queue, or nothing changed.
Grows(e) ==
    /\ unfinished' = unfinished + 1 /\ Len(jobs') = Len(jobs) + 1
    /\ \A i \in DOMAIN jobs : i \in DOMAIN jobs' /\ jobs'[i] = jobs[i]
    /\ Len(jobs) + 1 \in DOMAIN jobs' /\ jobs'[Len(jobs) + 1] = e
    /\ \A i \in DOMAIN jobs' : i \in DOMAIN jobs \/ i = Len(jobs) + 1

\* What a put does to the queue and its counter.
LEMMA PutEffect ==
    ASSUME QInv, NEW c \in Caller, Put(c)
    PROVE  /\ UNCHANGED thread
           /\ \/ UNCHANGED queue
              \/ \E job \in Job :
                    /\ Grows(job) /\ put' = put + 1
                    /\ job.id = put + 1 /\ job.key = arg[c]
<1> DEFINE job == [id |-> put + 1, key |-> arg[c]]
<1>1. job \in Job /\ job.id = put + 1 /\ job.key = arg[c]
  BY DEF QInv, TypeOK, Numbered, Put, Job
<1>2. jobs \in Seq(Job \cup {None})
  BY DEF QInv, TypeOK
<1>3. CASE Len(jobs) < Capacity
  <2>1. jobs' = Append(jobs, job) /\ put' = put + 1 /\ unfinished' = unfinished + 1
    BY <1>3 DEF Put
  <2> HIDE DEF job
  <2>2. Grows(job)
    BY <1>1, <1>2, <2>1, AppendTo DEF Grows
  <2> QED
    BY <1>1, <2>1, <2>2 DEF Put
<1>4. CASE ~(Len(jobs) < Capacity)
  BY <1>4 DEF Put
<1> QED
  BY <1>3, <1>4

\* What stopping does to the queue and its counter.
LEMMA StopperEffect ==
    ASSUME QInv, NEW c \in Caller, PutStopper(c)
    PROVE  UNCHANGED <<thread, put>> /\ (UNCHANGED queue \/ Grows(None))
<1>1. jobs \in Seq(Job \cup {None}) /\ None \in Job \cup {None}
  BY DEF QInv, TypeOK
<1>2. CASE jobs' = Append(jobs, None) /\ unfinished' = unfinished + 1
  <2>1. Grows(None)
    BY <1>1, <1>2, AppendTo DEF Grows
  <2> QED
    BY <2>1 DEF PutStopper
<1>3. CASE UNCHANGED <<jobs, unfinished>>
  BY <1>3 DEF PutStopper, queue
<1> QED
  BY <1>2, <1>3 DEF PutStopper

\* Each step keeps the counter the number of unfinished jobs.
LEMMA CountStep == QInv /\ [Next]_vars => CountIsRight'
<1> SUFFICES ASSUME QInv, [Next]_vars PROVE CountIsRight'
  OBVIOUS
<1>0. /\ jobs \in Seq(Job \cup {None}) /\ Len(jobs) \in Nat
      /\ unfinished \in Nat /\ worker \in Worker
      /\ CountIsRight
  BY DEF QInv, TypeOK
<1>1. ASSUME NEW c \in Caller, Put(c) PROVE CountIsRight'
  BY <1>0, <1>1, PutEffect DEF Grows, CountIsRight, Busy, queue, thread
<1>2. ASSUME NEW c \in Caller, EnsureWorker(c) PROVE CountIsRight'
  BY <1>0, <1>2 DEF EnsureWorker, CountIsRight, Busy, queue, Worker
<1>3. ASSUME NEW c \in Caller, PutStopper(c) PROVE CountIsRight'
  BY <1>0, <1>3, StopperEffect DEF Grows, CountIsRight, Busy, queue, thread
<1>4. ASSUME Get PROVE CountIsRight'
  BY <1>0, <1>4, TailOf DEF Get, CountIsRight, Busy
<1>5. ASSUME Mirror \/ Release \/ TaskDone \/ WorkerEnds PROVE CountIsRight'
  BY <1>0, <1>5 DEF Mirror, Release, TaskDone, WorkerEnds, CountIsRight, Busy, queue
<1>6. ASSUME ~Touches PROVE CountIsRight'
  BY <1>0, <1>6, OthersDoNotTouch DEF CountIsRight, Busy, queue, thread
<1> QED
  BY <1>1, <1>2, <1>3, <1>4, <1>5, <1>6 DEF Touches

\* Each step keeps the numbers of jobs given out and different.
LEMMA NumberedStep == QInv /\ [Next]_vars => Numbered'
<1> SUFFICES ASSUME QInv, [Next]_vars PROVE Numbered'
  OBVIOUS
<1> DEFINE JobsNumbered == \A i \in DOMAIN jobs : jobs[i] # None => jobs[i].id \in 1..put
           HandNumbered == /\ hand # None => hand.id \in 1..put
                           /\ worker \in {"mirroring", "mirrored"} => hand # None
           Keyed == \A c \in Caller : pc[c] \in {"keyed", "full"} => arg[c] \in Key
<1>0. /\ jobs \in Seq(Job \cup {None}) /\ put \in Nat /\ worker \in Worker
      /\ JobsNumbered /\ HandNumbered /\ Keyed
  BY DEF QInv, TypeOK, Numbered
<1>1. Keyed'
  BY <1>0 DEF QInv, TypeOK, Next, Runs, GoesOn, Begins, Enqueue, Put, GiveKeyBack,
      EnsureWorker, Flush, FlushEnds, Close, PutStopper, Get, Mirror, Release, TaskDone,
      WorkerEnds, Calls, Goes, Returns, calling, vars
<1>2. ASSUME NEW c \in Caller, Put(c) PROVE JobsNumbered' /\ HandNumbered'
  BY <1>0, <1>2, PutEffect DEF Grows, queue, thread
<1>3. ASSUME NEW c \in Caller, PutStopper(c) PROVE JobsNumbered' /\ HandNumbered'
  BY <1>0, <1>3, StopperEffect DEF Grows, queue, thread
<1>4. ASSUME NEW c \in Caller, EnsureWorker(c) PROVE JobsNumbered' /\ HandNumbered'
  BY <1>0, <1>4 DEF EnsureWorker, queue
<1>5. ASSUME Get PROVE JobsNumbered' /\ HandNumbered'
  <2>1. jobs # <<>> /\ hand' = jobs[1] /\ 1 \in DOMAIN jobs
    BY <1>0, <1>5, TailOf DEF Get
  <2>2. HandNumbered'
    BY <1>0, <1>5, <2>1 DEF Get
  <2>3. JobsNumbered'
    BY <1>0, <1>5, TailOf DEF Get
  <2> QED
    BY <2>2, <2>3
<1>6. ASSUME Mirror \/ Release \/ TaskDone \/ WorkerEnds
      PROVE  JobsNumbered' /\ HandNumbered'
  BY <1>0, <1>6 DEF Mirror, Release, TaskDone, WorkerEnds, queue
<1>7. ASSUME ~Touches PROVE JobsNumbered' /\ HandNumbered'
  BY <1>0, <1>7, OthersDoNotTouch DEF queue, thread
<1>8. JobsNumbered' /\ HandNumbered'
  BY <1>2, <1>3, <1>4, <1>5, <1>6, <1>7 DEF Touches
<1> QED
  BY <1>1, <1>8 DEF Numbered

\* Each step keeps every job waiting, in hand or through.
LEMMA SomewhereStep == QInv /\ [Next]_vars => EveryJobIsSomewhere'
<1> SUFFICES ASSUME QInv, [Next]_vars, NEW n \in 1..put' PROVE Somewhere(n)'
  BY DEF EveryJobIsSomewhere
<1>0. /\ jobs \in Seq(Job \cup {None}) /\ put \in Nat
      /\ n \in 1..put => Somewhere(n)
  BY DEF QInv, TypeOK, EveryJobIsSomewhere
<1>1. ASSUME NEW c \in Caller, Put(c) PROVE Somewhere(n)'
  <2>1. CASE n \in 1..put
    BY <1>0, <1>1, <2>1, PutEffect DEF Grows, Somewhere, queue, thread
  <2>2. CASE n \notin 1..put
    <3>1. PICK job \in Job : Grows(job) /\ job.id = put + 1 /\ put' = put + 1
      BY <1>1, <2>2, PutEffect DEF queue
    <3>2. n = put + 1 /\ job # None
      BY <1>0, <2>2, <3>1, QueueAssumption DEF Job
    <3> QED
      BY <3>1, <3>2 DEF Grows, Somewhere
  <2> QED
    BY <2>1, <2>2
<1>2. ASSUME NEW c \in Caller, PutStopper(c) PROVE Somewhere(n)'
  BY <1>0, <1>2, StopperEffect DEF Grows, Somewhere, queue, thread
<1>3. ASSUME NEW c \in Caller, EnsureWorker(c) PROVE Somewhere(n)'
  BY <1>0, <1>3 DEF EnsureWorker, Somewhere, queue
<1>4. ASSUME Get PROVE Somewhere(n)'
  <2>1. Somewhere(n) /\ jobs # <<>> /\ UNCHANGED mirrored /\ worker = "waiting"
    BY <1>0, <1>4 DEF Get
  <2>2. ASSUME NEW i \in DOMAIN jobs, jobs[i] # None, jobs[i].id = n PROVE Somewhere(n)'
    <3>1. CASE i = 1
      BY <1>0, <1>4, <2>2, <3>1, TailOf DEF Get, Somewhere
    <3>2. CASE i # 1
      <4>1. i - 1 \in DOMAIN jobs' /\ jobs'[i - 1] = jobs[i]
        BY <1>0, <1>4, <3>2, TailOf DEF Get
      <4> QED
        BY <2>2, <4>1 DEF Somewhere
    <3> QED
      BY <3>1, <3>2
  <2> QED
    BY <2>1, <2>2 DEF Somewhere
<1>5. ASSUME Mirror PROVE Somewhere(n)'
  BY <1>0, <1>5 DEF Mirror, Somewhere, queue
<1>6. ASSUME Release \/ TaskDone \/ WorkerEnds PROVE Somewhere(n)'
  BY <1>0, <1>6 DEF Release, TaskDone, WorkerEnds, Somewhere, queue
<1>7. ASSUME ~Touches PROVE Somewhere(n)'
  BY <1>0, <1>7, OthersDoNotTouch DEF Somewhere, queue, thread
<1> QED
  BY <1>1, <1>2, <1>3, <1>4, <1>5, <1>6, <1>7 DEF Touches

\* What is through stays through, and jobs are only added.
LEMMA Forward == QInv /\ [Next]_vars => mirrored \subseteq mirrored' /\ put <= put'
<1> SUFFICES ASSUME QInv, [Next]_vars PROVE mirrored \subseteq mirrored' /\ put <= put'
  OBVIOUS
<1>0. put \in Nat
  BY DEF QInv, TypeOK
<1>1. ASSUME NEW c \in Caller, Put(c) PROVE mirrored \subseteq mirrored' /\ put <= put'
  BY <1>0, <1>1 DEF Put, thread, queue
<1>2. ASSUME NEW c \in Caller, EnsureWorker(c) \/ PutStopper(c)
      PROVE  mirrored \subseteq mirrored' /\ put <= put'
  BY <1>0, <1>2 DEF EnsureWorker, PutStopper, thread, queue
<1>3. ASSUME Get \/ Mirror \/ Release \/ TaskDone \/ WorkerEnds
      PROVE  mirrored \subseteq mirrored' /\ put <= put'
  BY <1>0, <1>3 DEF Get, Mirror, Release, TaskDone, WorkerEnds, queue
<1>4. ASSUME ~Touches PROVE mirrored \subseteq mirrored' /\ put <= put'
  BY <1>0, <1>4, OthersDoNotTouch DEF queue, thread
<1> QED
  BY <1>1, <1>2, <1>3, <1>4 DEF Touches

\* When nothing is unfinished, nothing waits and nothing is in hand.
LEMMA NothingLeft ==
    ASSUME QInv, unfinished = 0 PROVE 1..put \subseteq mirrored
<1>1. jobs \in Seq(Job \cup {None}) /\ Len(jobs) = 0 /\ ~Busy
  BY DEF QInv, TypeOK, CountIsRight, Busy
<1>2. DOMAIN jobs = {}
  BY <1>1
<1> QED
  BY <1>1, <1>2 DEF QInv, EveryJobIsSomewhere, Somewhere, Busy

\* Each step keeps what a flush has seen and says.
LEMMA FlushStep == QInv /\ [Next]_vars => FlushesLookBack' /\ FlushMeansMirrored'
<1> SUFFICES ASSUME QInv, [Next]_vars, NEW d \in Caller
             PROVE  /\ before'[d] <= put'
                    /\ told'[d] = "flushed" /\ pc'[d] \notin {"flushing", "stopping"}
                         => 1..before'[d] \subseteq mirrored'
  BY DEF FlushesLookBack, FlushMeansMirrored
<1>0. /\ put \in Nat /\ put' \in Nat /\ mirrored \subseteq mirrored' /\ put <= put'
      /\ before \in [Caller -> Nat] /\ before[d] \in Nat /\ before[d] <= put
      /\ pc \in [Caller -> PC] /\ told \in [Caller -> Answer]
      /\ told[d] = "flushed" /\ pc[d] \notin {"flushing", "stopping"}
           => 1..before[d] \subseteq mirrored
  BY TypeStep, Forward DEF QInv, TypeOK, FlushesLookBack, FlushMeansMirrored
<1>1. CASE \E to \in {"flushing", "stopping"} : Flush(d, to)
  BY <1>0, <1>1 DEF Flush, Goes, queue
<1>2. CASE FlushEnds(d)
  <2>1. /\ UNCHANGED <<before, put, mirrored>>
        /\ told'[d] = "flushed" => unfinished = 0
    BY <1>0, <1>2 DEF FlushEnds, queue, thread
  <2> QED
    BY <1>0, <2>1, NothingLeft
<1>3. CASE /\ before'[d] = before[d]
           /\ told'[d] = "flushed" => told[d] = "flushed"
           /\ pc'[d] \notin {"flushing", "stopping"} => pc[d] \notin {"flushing", "stopping"}
  BY <1>0, <1>3
<1>4. \/ \E to \in {"flushing", "stopping"} : Flush(d, to)
      \/ FlushEnds(d)
      \/ /\ before'[d] = before[d]
         /\ told'[d] = "flushed" => told[d] = "flushed"
         /\ pc'[d] \notin {"flushing", "stopping"} => pc[d] \notin {"flushing", "stopping"}
  <2> DEFINE Same == /\ before'[d] = before[d]
                     /\ told'[d] = "flushed" => told[d] = "flushed"
                     /\ pc'[d] \notin {"flushing", "stopping"} => pc[d] \notin {"flushing", "stopping"}
  <2>1. ASSUME NEW c \in Caller, NEW k \in Key, Enqueue(c, k) PROVE Same
    BY <1>0, <2>1 DEF Enqueue, Calls, Goes, Returns
  <2>2. ASSUME NEW c \in Caller, Put(c) \/ Close(c) \/ PutStopper(c) PROVE Same
    BY <1>0, <2>2 DEF Put, Close, PutStopper, Goes
  <2>3. ASSUME NEW c \in Caller, GiveKeyBack(c) \/ EnsureWorker(c) PROVE Same
    BY <1>0, <2>3 DEF GiveKeyBack, EnsureWorker, Goes, Returns
  <2>4. ASSUME NEW c \in Caller, c # d, FlushEnds(c) PROVE Same
    BY <1>0, <2>4 DEF FlushEnds, Goes
  <2>5. ASSUME NEW c \in Caller, c # d, \E to \in {"flushing", "stopping"} : Flush(c, to)
        PROVE  Same
    BY <1>0, <2>5 DEF Flush, Goes
  <2>6. ASSUME Runs \/ UNCHANGED vars PROVE Same
    BY <2>6 DEF Runs, Get, Mirror, Release, TaskDone, WorkerEnds, calling, vars
  <2> QED
    BY <2>1, <2>2, <2>3, <2>4, <2>5, <2>6 DEF Next, GoesOn, Begins
<1> QED
  BY <1>1, <1>2, <1>3, <1>4

-----------------------------------------------------------------------------
(* What stands for a key.                                                  *)

\* At most one thing of the three kinds stands for a key ...
Alone(k) ==
    /\ \A i, j \in Waiting(k) : i = j
    /\ \A c, d \in Holding(k) : c = d
    /\ Waiting(k) # {} => Holding(k) = {} /\ ~InHand(k)
    /\ Holding(k) # {} => ~InHand(k)

\* ... and one does exactly when the key is pending.
Backed(k) == k \in pending <=> Waiting(k) # {} \/ Holding(k) # {} \/ InHand(k)

KInv == \A k \in Key : Alone(k) /\ Backed(k)

\* No key is pending at first.
LEMMA InitKeys == Init => KInv
BY DEF Init, KInv, Alone, Backed, Waiting, Holding, InHand

\* Nothing changes for k when the things that stand for it stay.
LEMMA SameStands ==
    ASSUME NEW k \in Key, Alone(k) /\ Backed(k),
           UNCHANGED Waiting(k), UNCHANGED Holding(k), UNCHANGED InHand(k),
           k \in pending' <=> k \in pending
    PROVE  (Alone(k) /\ Backed(k))'
BY DEF Alone, Backed

\* Each step keeps at most one thing for a key, and one exactly when it is pending.
LEMMA KeyStep ==
    ASSUME QInv, KInv, [Next]_vars, NEW k \in Key PROVE (Alone(k) /\ Backed(k))'
<1>0. /\ jobs \in Seq(Job \cup {None}) /\ Len(jobs) \in Nat /\ hand \in Job \cup {None}
      /\ pc \in [Caller -> PC] /\ arg \in [Caller -> Key \cup {None}]
      /\ Alone(k) /\ Backed(k)
  BY DEF QInv, TypeOK, KInv
<1>1. ASSUME NEW c \in Caller, NEW new \in Key, Enqueue(c, new)
      PROVE  (Alone(k) /\ Backed(k))'
  <2>1. UNCHANGED Waiting(k) /\ UNCHANGED InHand(k) /\ c \notin Holding(k)
    BY <1>1 DEF Enqueue, Calls, Waiting, Holding, InHand, queue, thread
  <2>2. CASE new \notin pending /\ accepting
    <3>1. /\ pending' = pending \cup {new} /\ pc' = [pc EXCEPT ![c] = "keyed"]
          /\ arg' = [arg EXCEPT ![c] = new]
      BY <1>1, <2>2 DEF Enqueue, Goes, Returns
    <3>2. CASE k = new
      <4>1. Waiting(k) = {} /\ Holding(k) = {} /\ ~InHand(k)
        BY <1>0, <2>2, <3>2 DEF Backed
      <4>2. Holding(k)' = {c}
        BY <1>0, <3>1, <3>2, <4>1 DEF Holding
      <4> QED
        BY <2>1, <3>1, <3>2, <4>1, <4>2 DEF Alone, Backed
    <3>3. CASE k # new
      <4>1. UNCHANGED Holding(k)
        BY <1>0, <2>1, <3>1, <3>3 DEF Holding
      <4> QED
        BY <1>0, <2>1, <3>1, <3>3, <4>1, SameStands
    <3> QED
      BY <3>2, <3>3
  <2>3. CASE ~(new \notin pending /\ accepting)
    <3>1. /\ pending' = pending /\ pc' = [pc EXCEPT ![c] = "idle"]
          /\ arg' = [arg EXCEPT ![c] = new]
      BY <1>1, <2>3 DEF Enqueue, Goes, Returns
    <3>2. UNCHANGED Holding(k)
      BY <1>0, <2>1, <3>1 DEF Holding
    <3> QED
      BY <1>0, <2>1, <3>1, <3>2, SameStands
  <2> QED
    BY <2>2, <2>3
<1>2. ASSUME NEW c \in Caller, Put(c) PROVE (Alone(k) /\ Backed(k))'
  <2>1. UNCHANGED InHand(k) /\ pc[c] = "keyed" /\ UNCHANGED <<pending, arg>>
    BY <1>2 DEF Put, InHand, thread
  <2>2. CASE Len(jobs) < Capacity
    <3>1. pc' = [pc EXCEPT ![c] = "put"] /\ put' = put + 1
      BY <1>2, <2>2 DEF Put, Goes
    <3>2. PICK job \in Job : Grows(job) /\ job.key = arg[c]
      <4>1. put \in Nat
        BY DEF QInv, TypeOK
      <4> QED
        BY <1>2, <3>1, <4>1, PutEffect DEF queue
    <3>3. job # None
      BY <3>2, QueueAssumption DEF Job
    <3>4. CASE arg[c] = k
      <4>1. c \in Holding(k)
        BY <2>1, <3>4 DEF Holding
      <4>2. Waiting(k) = {} /\ ~InHand(k) /\ Holding(k) = {c} /\ k \in pending
        BY <1>0, <4>1 DEF Alone, Backed
      <4>3. Holding(k)' = {}
        BY <1>0, <2>1, <3>1, <4>2 DEF Holding
      <4>4. Waiting(k)' = {Len(jobs) + 1}
        BY <1>0, <3>2, <3>3, <3>4, <4>2 DEF Grows, Waiting
      <4> QED
        BY <2>1, <4>2, <4>3, <4>4 DEF Alone, Backed
    <3>5. CASE arg[c] # k
      <4>1. UNCHANGED Holding(k)
        BY <1>0, <2>1, <3>1, <3>5 DEF Holding
      <4>2. UNCHANGED Waiting(k)
        BY <1>0, <3>2, <3>3, <3>5 DEF Grows, Waiting
      <4> QED
        BY <1>0, <2>1, <4>1, <4>2, SameStands
    <3> QED
      BY <3>4, <3>5
  <2>3. CASE ~(Len(jobs) < Capacity)
    <3>1. pc' = [pc EXCEPT ![c] = "full"] /\ jobs' = jobs
      BY <1>2, <2>3 DEF Put, Goes, queue
    <3>2. UNCHANGED Holding(k) /\ UNCHANGED Waiting(k)
      BY <1>0, <2>1, <3>1 DEF Holding, Waiting
    <3> QED
      BY <1>0, <2>1, <3>2, SameStands
  <2> QED
    BY <2>2, <2>3
<1>3. ASSUME NEW c \in Caller, GiveKeyBack(c) PROVE (Alone(k) /\ Backed(k))'
  <2>1. /\ UNCHANGED Waiting(k) /\ UNCHANGED InHand(k) /\ UNCHANGED arg
        /\ pc[c] = "full" /\ pc' = [pc EXCEPT ![c] = "idle"]
        /\ pending' = pending \ {arg[c]}
    BY <1>3 DEF GiveKeyBack, Returns, Goes, Waiting, InHand, queue, thread
  <2>2. CASE arg[c] = k
    <3>1. Waiting(k) = {} /\ ~InHand(k) /\ Holding(k) = {c}
      BY <1>0, <2>1, <2>2 DEF Alone, Holding
    <3>2. Holding(k)' = {}
      BY <1>0, <2>1, <3>1 DEF Holding
    <3> QED
      BY <2>1, <2>2, <3>1, <3>2 DEF Alone, Backed
  <2>3. CASE arg[c] # k
    <3>1. UNCHANGED Holding(k)
      BY <1>0, <2>1, <2>3 DEF Holding
    <3> QED
      BY <1>0, <2>1, <2>3, <3>1, SameStands
  <2> QED
    BY <2>2, <2>3
<1>4. ASSUME NEW c \in Caller, EnsureWorker(c) PROVE (Alone(k) /\ Backed(k))'
  <2>1. UNCHANGED Waiting(k) /\ UNCHANGED InHand(k) /\ UNCHANGED pending
    BY <1>4 DEF EnsureWorker, Waiting, InHand, queue
  <2>2. UNCHANGED Holding(k)
    BY <1>0, <1>4 DEF EnsureWorker, Returns, Goes, Holding
  <2> QED
    BY <1>0, <2>1, <2>2, SameStands
<1>5. ASSUME NEW c \in Caller,
             FlushEnds(c) \/ Close(c) \/ \E to \in {"flushing", "stopping"} : Flush(c, to)
      PROVE  (Alone(k) /\ Backed(k))'
  <2>1. UNCHANGED Waiting(k) /\ UNCHANGED InHand(k) /\ UNCHANGED <<pending, arg>>
    BY <1>5 DEF FlushEnds, Close, Flush, Waiting, InHand, queue, thread
  <2>2. UNCHANGED Holding(k)
    BY <1>0, <1>5 DEF FlushEnds, Close, Flush, Calls, Goes, Holding
  <2> QED
    BY <1>0, <2>1, <2>2, SameStands
<1>6. ASSUME NEW c \in Caller, PutStopper(c) PROVE (Alone(k) /\ Backed(k))'
  <2>1. UNCHANGED InHand(k) /\ UNCHANGED pending
    BY <1>6 DEF PutStopper, InHand, thread
  <2>2. UNCHANGED Holding(k)
    BY <1>0, <1>6 DEF PutStopper, Goes, Holding
  <2>3. UNCHANGED Waiting(k)
    BY <1>0, <1>6, StopperEffect DEF Grows, Waiting, queue
  <2> QED
    BY <1>0, <2>1, <2>2, <2>3, SameStands
<1>7. ASSUME Get PROVE (Alone(k) /\ Backed(k))'
  <2>1. /\ jobs # <<>> /\ hand' = jobs[1] /\ 1 \in DOMAIN jobs /\ ~InHand(k)
        /\ UNCHANGED Holding(k) /\ UNCHANGED pending
        /\ \A i \in DOMAIN jobs' : i + 1 \in DOMAIN jobs /\ jobs'[i] = jobs[i + 1]
        /\ \A i \in DOMAIN jobs : i # 1 => i - 1 \in DOMAIN jobs' /\ jobs'[i - 1] = jobs[i]
    BY <1>0, <1>7, TailOf DEF Get, Holding, InHand, calling
  <2>2. InHand(k)' <=> 1 \in Waiting(k)
    BY <1>0, <1>7, <2>1 DEF Get, InHand, Waiting
  <2>a. DOMAIN jobs' \subseteq Nat \ {0}
    <3>1. jobs' = Tail(jobs) /\ jobs \in Seq(Job \cup {None})
      BY <1>0, <1>7 DEF Get, TypeOK
    <3>2. Tail(jobs) \in Seq(Job \cup {None})
      BY <2>1, <3>1
    <3> QED
      BY <3>1, <3>2
  <2>3. ASSUME NEW i, i \in Waiting(k)'
        PROVE  i \in Int /\ i + 1 \in Waiting(k) /\ i + 1 # 1
    <3>1. i \in DOMAIN jobs' /\ jobs'[i] # None /\ jobs'[i].key = k
      BY <2>3 DEF Waiting
    <3>2. i \in Nat /\ i # 0
      BY <2>a, <3>1
    <3>3. i + 1 \in DOMAIN jobs /\ jobs'[i] = jobs[i + 1]
      BY <2>1, <3>1
    <3>4. i + 1 \in Waiting(k)
      BY <3>1, <3>3 DEF Waiting
    <3> QED
      BY <3>2, <3>4
  <2>4. \A i : i \in Waiting(k) /\ i # 1 => i - 1 \in Waiting(k)'
    BY <1>0, <2>1 DEF Waiting
  <2>5. \A i, j \in Waiting(k)' : i = j
    BY <1>0, <2>3 DEF Alone
  <2>6. CASE 1 \in Waiting(k)
    <3>1. Waiting(k)' = {} /\ Holding(k) = {}
      BY <1>0, <2>3, <2>6 DEF Alone
    <3> QED
      BY <1>0, <2>1, <2>2, <2>6, <3>1 DEF Alone, Backed
  <2>7. CASE 1 \notin Waiting(k)
    <3>1. Waiting(k)' # {} <=> Waiting(k) # {}
      BY <2>3, <2>4, <2>7
    <3> QED
      BY <1>0, <2>1, <2>2, <2>5, <2>7, <3>1 DEF Alone, Backed
  <2> QED
    BY <2>6, <2>7
<1>8. ASSUME Release PROVE (Alone(k) /\ Backed(k))'
  <2>1. /\ UNCHANGED Waiting(k) /\ UNCHANGED Holding(k) /\ ~InHand(k)'
        /\ pending' = pending \ {hand.key} /\ worker = "mirrored"
    BY <1>8 DEF Release, Waiting, Holding, InHand, queue, calling
  <2>2. CASE hand.key = k
    <3>1. Waiting(k) = {} /\ Holding(k) = {}
      BY <1>0, <2>1, <2>2 DEF Alone, InHand
    <3> QED
      BY <2>1, <2>2, <3>1 DEF Alone, Backed
  <2>3. CASE hand.key # k
    <3>1. UNCHANGED InHand(k) /\ (k \in pending' <=> k \in pending)
      BY <2>1, <2>3 DEF InHand
    <3> QED
      BY <1>0, <2>1, <3>1, SameStands
  <2> QED
    BY <2>2, <2>3
<1>9. ASSUME Mirror \/ TaskDone \/ WorkerEnds \/ UNCHANGED vars
      PROVE  (Alone(k) /\ Backed(k))'
  <2>1. UNCHANGED Waiting(k) /\ UNCHANGED Holding(k) /\ UNCHANGED pending
    BY <1>9 DEF Mirror, TaskDone, WorkerEnds, Waiting, Holding, queue, calling, vars
  <2>2. UNCHANGED InHand(k)
    BY <1>9 DEF Mirror, TaskDone, WorkerEnds, InHand, thread, vars
  <2> QED
    BY <1>0, <2>1, <2>2, SameStands
<1> QED
  BY <1>1, <1>2, <1>3, <1>4, <1>5, <1>6, <1>7, <1>8, <1>9 DEF Next, Runs, GoesOn, Begins

\* A set whose members are all the same has at most one.
LEMMA CountOfAtMostOne ==
    ASSUME NEW S, \A x, y \in S : x = y
    PROVE  Cardinality(S) = IF S = {} THEN 0 ELSE 1
<1>1. CASE S = {}
  BY <1>1, FS_EmptySet
<1>2. CASE S # {}
  <2>1. PICK x \in S : TRUE
    BY <1>2
  <2>2. S = {x}
    BY <2>1
  <2> QED
    BY <1>2, <2>2, FS_Singleton
<1> QED
  BY <1>1, <1>2

\* What is kept for each key gives the sum over all.
LEMMA KeysFollow == KInv => KeysStandForJobs
<1> SUFFICES ASSUME KInv, NEW k \in Key
             PROVE  Cardinality(Waiting(k)) + Cardinality(Holding(k))
                        + (IF InHand(k) THEN 1 ELSE 0)
                    = IF k \in pending THEN 1 ELSE 0
  BY DEF KeysStandForJobs
<1>1. Alone(k) /\ Backed(k)
  BY DEF KInv
<1>2. Cardinality(Waiting(k)) = IF Waiting(k) = {} THEN 0 ELSE 1
  BY <1>1, CountOfAtMostOne DEF Alone
<1>3. Cardinality(Holding(k)) = IF Holding(k) = {} THEN 0 ELSE 1
  BY <1>1, CountOfAtMostOne DEF Alone
<1> QED
  BY <1>1, <1>2, <1>3 DEF Alone, Backed

\* Both invariants hold of every behaviour.
LEMMA Invariance == Spec => [](QInv /\ KInv)
<1>1. Init => QInv /\ KInv
  BY InitInv, InitKeys
<1>2. QInv /\ KInv /\ [Next]_vars => (QInv /\ KInv)'
  <2>1. QInv /\ [Next]_vars => QInv'
    BY TypeStep, CountStep, NumberedStep, SomewhereStep, FlushStep DEF QInv
  <2> QED
    BY <2>1, KeyStep DEF KInv
<1> QED
  BY <1>1, <1>2, PTL DEF Spec

-----------------------------------------------------------------------------
\* The queue holds jobs and at most Capacity of them, and the count of
\* unfinished jobs is never negative (queue.py:30-44, 129-152).
THEOREM TypeCorrect == Spec => []TypeOK
BY Invariance, PTL DEF QInv

\* A flush that returned True left nothing behind that was put before it
\* began: unfinished_tasks covers the job in the worker's hands, because
\* task_done comes after the copy (queue.py:89-97, 135-152).
THEOREM FlushTellsTheTruth == Spec => []FlushMeansMirrored
BY Invariance, PTL DEF QInv

\* However many threads enqueue and stop, a pending key stands for one job or
\* one call, never for nothing and never for two (queue.py:68-82, 149-152).
THEOREM KeysAreBacked == Spec => []KeysStandForJobs
BY Invariance, KeysFollow, PTL
=============================================================================
