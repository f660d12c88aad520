---------------------------- MODULE MirrorQueue -----------------------------
(***************************************************************************)
(* The queue that copies memories into the optional Graphiti index in the  *)
(* background (shamsu/memory/queue.py): a bounded queue.Queue, a set of    *)
(* keys that keeps one memory from being queued twice, and one worker      *)
(* thread that is started when a job needs it.  The callers are the        *)
(* threads of one process: the REPL, the portal's worker, Telegram.        *)
(*                                                                         *)
(* A call of enqueue starts here where the memory is stored locally and    *)
(* Graphiti is enabled; what comes before is in ProjectMemory.  The lock,  *)
(* the queue's own mutex and nothing at all guard the steps between, so    *)
(* each of them is an action.                                              *)
(***************************************************************************)
EXTENDS Integers, Sequences, FiniteSets

CONSTANTS
    Caller,    \* threads that use the queue
    Key,       \* (kind, normalised text, run) of a memory
    None,      \* what tells the worker to end; also no key and no job
    Capacity,  \* maxsize
    MaxCalls   \* bound: calls of enqueue, flush and stop

ASSUME QueueAssumption ==
    /\ None \notin [id : Nat, key : Key] /\ None \notin Key
    /\ Capacity \in Nat \ {0} /\ MaxCalls \in Nat

VARIABLES
    jobs,       \* what waits in _jobs
    unfinished, \* its unfinished_tasks
    pending,    \* _pending_keys
    accepting,  \* _accepting
    worker,     \* where _run is, "none" before a thread and after its end
    hand,       \* the job _run has taken
    pc,         \* [Caller -> where its call is]
    arg,        \* [Caller -> the key of its enqueue]
    told,       \* [Caller -> what its last call returned]
    before,     \* [Caller -> how many jobs were put before its flush]
    put,        \* jobs put so far, which number them
    mirrored,   \* jobs the worker is through with
    calls

queue == <<jobs, unfinished, put>>
thread == <<worker, hand, mirrored>>
calling == <<pc, arg, told, before, calls>>
vars == <<queue, pending, accepting, thread, calling>>

Job == [id : Nat, key : Key]
Worker == {"none", "waiting", "mirroring", "mirrored", "released", "ending"}
PC == {"idle", "keyed", "full", "put", "flushing", "stopping", "flushed", "closing"}
Answer == {"nothing", "queued", "deduped", "stopped", "full", "flushed", "late"}

TypeOK ==
    /\ jobs \in Seq(Job \cup {None}) /\ Len(jobs) <= Capacity
    /\ unfinished \in Nat /\ put \in Nat
    /\ pending \subseteq Key
    /\ accepting \in BOOLEAN
    /\ worker \in Worker
    /\ hand \in Job \cup {None}
    /\ mirrored \subseteq 1..put
    /\ pc \in [Caller -> PC]
    /\ arg \in [Caller -> Key \cup {None}]
    /\ told \in [Caller -> Answer]
    /\ before \in [Caller -> Nat]
    /\ calls \in 0..MaxCalls

Init ==
    /\ jobs = <<>> /\ unfinished = 0 /\ put = 0
    /\ pending = {} /\ accepting = TRUE
    /\ worker = "none" /\ hand = None /\ mirrored = {}
    /\ pc = [c \in Caller |-> "idle"]
    /\ arg = [c \in Caller |-> None]
    /\ told = [c \in Caller |-> "nothing"]
    /\ before = [c \in Caller |-> 0]
    /\ calls = 0

-----------------------------------------------------------------------------
(* enqueue.                                                                *)

Calls(c) ==
    /\ pc[c] = "idle" /\ calls < MaxCalls
    /\ calls' = calls + 1

Goes(c, to) == pc' = [pc EXCEPT ![c] = to]

Returns(c, answer) ==
    /\ Goes(c, "idle")
    /\ told' = [told EXCEPT ![c] = answer]

\* Under the lock: a key that is pending already is not queued again, and a
\* stopped queue takes nothing.
Enqueue(c, k) ==
    /\ Calls(c)
    /\ arg' = [arg EXCEPT ![c] = k]
    /\ \/ k \in pending /\ Returns(c, "deduped") /\ UNCHANGED pending
       \/ k \notin pending /\ ~accepting /\ Returns(c, "stopped") /\ UNCHANGED pending
       \/ /\ k \notin pending /\ accepting
          /\ pending' = pending \cup {k}
          /\ Goes(c, "keyed")
          /\ UNCHANGED told
    /\ UNCHANGED <<queue, accepting, thread, before>>

\* put_nowait, after the lock was given up.
Put(c) ==
    /\ pc[c] = "keyed"
    /\ IF Len(jobs) < Capacity
       THEN /\ jobs' = Append(jobs, [id |-> put + 1, key |-> arg[c]])
            /\ put' = put + 1 /\ unfinished' = unfinished + 1
            /\ Goes(c, "put")
       ELSE Goes(c, "full") /\ UNCHANGED queue
    /\ UNCHANGED <<pending, accepting, thread, arg, told, before, calls>>

\* Mutant: a full queue keeps the key.
GiveKeyBackForgotten(c) ==
    /\ pc[c] = "full" /\ Returns(c, "full")
    /\ UNCHANGED <<queue, pending, accepting, thread, arg, before, calls>>

\* The queue was full: the key is given back.
GiveKeyBack(c) ==
    /\ pc[c] = "full"
    /\ pending' = pending \ {arg[c]}
    /\ Returns(c, "full")
    /\ UNCHANGED <<queue, accepting, thread, arg, before, calls>>

\* _ensure_worker: a thread is started unless one is alive.
EnsureWorker(c) ==
    /\ pc[c] = "put"
    /\ worker' = IF worker = "none" THEN "waiting" ELSE worker
    /\ Returns(c, "queued")
    /\ UNCHANGED <<queue, pending, accepting, hand, mirrored, arg, before, calls>>

-----------------------------------------------------------------------------
(* flush and stop.                                                         *)

\* Both begin to wait until nothing is unfinished.
Flush(c, to) ==
    /\ Calls(c)
    /\ to \in {"flushing", "stopping"} /\ Goes(c, to)
    /\ before' = [before EXCEPT ![c] = put]
    /\ UNCHANGED <<queue, pending, accepting, thread, arg, told>>

\* The wait ends, with everything finished or at the deadline.
FlushEnds(c) ==
    /\ pc[c] \in {"flushing", "stopping"}
    /\ told' = [told EXCEPT ![c] = IF unfinished = 0 THEN "flushed" ELSE "late"]
    /\ Goes(c, IF pc[c] = "flushing" THEN "idle" ELSE "flushed")
    /\ UNCHANGED <<queue, pending, accepting, thread, arg, before, calls>>

Close(c) ==
    /\ pc[c] = "flushed" /\ Goes(c, "closing")
    /\ accepting' = FALSE
    /\ UNCHANGED <<queue, pending, thread, arg, told, before, calls>>

\* None goes into the queue, unless it is full.
PutStopper(c) ==
    /\ pc[c] = "closing" /\ Goes(c, "idle")
    /\ IF Len(jobs) < Capacity
       THEN jobs' = Append(jobs, None) /\ unfinished' = unfinished + 1
       ELSE UNCHANGED <<jobs, unfinished>>
    /\ UNCHANGED <<put, pending, accepting, thread, arg, told, before, calls>>

-----------------------------------------------------------------------------
(* The worker.                                                             *)

\* Mutant: the job counts as finished as soon as it is taken.
GetAndCount ==
    /\ worker = "waiting" /\ jobs # <<>>
    /\ hand' = Head(jobs) /\ jobs' = Tail(jobs)
    /\ worker' = IF Head(jobs) = None THEN "ending" ELSE "mirroring"
    /\ unfinished' = unfinished - 1
    /\ UNCHANGED <<put, mirrored, pending, accepting, calling>>

Get ==
    /\ worker = "waiting" /\ jobs # <<>>
    /\ hand' = Head(jobs) /\ jobs' = Tail(jobs)
    /\ worker' = IF Head(jobs) = None THEN "ending" ELSE "mirroring"
    /\ UNCHANGED <<unfinished, put, mirrored, pending, accepting, calling>>

\* mirror_to_graphiti returns or raises, and the observer has heard of it.
Mirror ==
    /\ worker = "mirroring" /\ worker' = "mirrored"
    /\ mirrored' = mirrored \cup {hand.id}
    /\ UNCHANGED <<queue, hand, pending, accepting, calling>>

\* Mutant: an error of the index ends the thread, as if _run had no except.
ReleaseAndEnd ==
    /\ worker = "mirrored" /\ worker' \in {"released", "ending"}
    /\ pending' = pending \ {hand.key}
    /\ UNCHANGED <<queue, hand, mirrored, accepting, calling>>

Release ==
    /\ worker = "mirrored" /\ worker' = "released"
    /\ pending' = pending \ {hand.key}
    /\ UNCHANGED <<queue, hand, mirrored, accepting, calling>>

TaskDone ==
    /\ worker = "released" /\ worker' = "waiting"
    /\ unfinished' = unfinished - 1
    /\ hand' = None
    /\ UNCHANGED <<jobs, put, mirrored, pending, accepting, calling>>

\* None was taken: task_done and the end of the thread.
WorkerEnds ==
    /\ worker = "ending" /\ worker' = "none"
    /\ unfinished' = unfinished - 1
    /\ UNCHANGED <<jobs, put, hand, mirrored, pending, accepting, calling>>

-----------------------------------------------------------------------------
Runs == Get \/ Mirror \/ Release \/ TaskDone \/ WorkerEnds

GoesOn(c) ==
    \/ Put(c) \/ GiveKeyBack(c) \/ EnsureWorker(c)
    \/ FlushEnds(c) \/ Close(c) \/ PutStopper(c)

Begins(c) ==
    \/ \E k \in Key : Enqueue(c, k)
    \/ \E to \in {"flushing", "stopping"} : Flush(c, to)

Next == Runs \/ \E c \in Caller : GoesOn(c) \/ Begins(c)

Spec == Init /\ [][Next]_vars

\* A thread that has something to do gets to do it: every call of the index
\* has a timeout, and a caller waits for nothing but the lock.
FairSpec == Spec /\ WF_vars(Runs) /\ \A c \in Caller : WF_vars(GoesOn(c))

-----------------------------------------------------------------------------
(* Properties.                                                             *)

\* Who stands for a key: jobs that wait, the job in hand until its key is
\* released, and calls of enqueue that hold the key without a job.
Waiting(k) == {i \in DOMAIN jobs : jobs[i] # None /\ jobs[i].key = k}
InHand(k) == worker \in {"mirroring", "mirrored"} /\ hand.key = k
Holding(k) == {c \in Caller : pc[c] \in {"keyed", "full"} /\ arg[c] = k}

\* A pending key stands for one job that waits or is being mirrored, or for
\* one call of enqueue that is about to put it or to give it back, and
\* everything of the kind has its key pending: otherwise a memory would be
\* copied twice, or called a duplicate for ever with nothing behind it
\* (queue.py:68-82, 149-152).
KeysStandForJobs ==
    \A k \in Key :
        Cardinality(Waiting(k)) + Cardinality(Holding(k))
            + (IF InHand(k) THEN 1 ELSE 0)
        = IF k \in pending THEN 1 ELSE 0

\* When flush returns True every job that was put before it began is
\* through: at exit the process stops waiting on that answer and its daemon
\* thread dies (queue.py:89-97, noninteractive.py:358).
FlushMeansMirrored ==
    \A c \in Caller :
        told[c] = "flushed" /\ pc[c] \notin {"flushing", "stopping"}
            => 1..before[c] \subseteq mirrored

\* A job that was put is copied some time, while the queue is not stopped:
\* no job is left behind without a worker (queue.py:118-152).
EveryJobIsMirrored ==
    \A n \in 1..MaxCalls :
        (put >= n) ~> (n \in mirrored \/ ~accepting)

=============================================================================
