---------------------------- MODULE ControlPlane ----------------------------
(***************************************************************************)
(* The control plane of SHAMSU: shamsu/control/store.py (leases and queue) *)
(* and shamsu/control/runner.py (QueuedRunner and its heartbeat).          *)
(*                                                                         *)
(* Several processes share one SQLite file.  Every ControlStore method     *)
(* that writes runs inside one BEGIN IMMEDIATE transaction, so each is one *)
(* atomic action here; everything between two calls is an interleaving     *)
(* point.  A process is one Python process with one QueuedRunner: its      *)
(* `_lock` serialises `_start_worker`, and `_start_worker` refuses while a *)
(* worker is alive, so one program counter per process says both how far   *)
(* a start has come and how far the worker thread has come.                *)
(*                                                                         *)
(* Time is discrete.  A lease carries the age of its heartbeat, a beating  *)
(* process carries the ticks since its last beat, and Tick may not pass    *)
(* the point where a process that is not Unreliable is due.                *)
(***************************************************************************)
EXTENDS Integers, FiniteSets

CONSTANTS
    Proc,         \* processes (pids) that hold a QueuedRunner
    Thread,       \* (workspace, session_id) pairs: one conversation each
    Machine,      \* MACHINE_LEASE_KEY, the install-wide run slot
    Nobody,       \* no row in the lease table
    Gone,         \* a pid no running process has
    Scheduled,    \* processes that called QueuedRunner.start
    PidReuse,     \* processes that come back with the pid they had (pid 1)
    Unreliable,   \* processes that may be suspended, or whose store calls
                  \* may raise (the 30 s busy_timeout)
    MaxPrompts,   \* bound: queue rows ever inserted
    MaxRestarts,  \* bound: crashes and stops
    BeatEvery,    \* LEASE_HEARTBEAT_SECONDS, in ticks
    MaxLate,      \* how late a reliable process may be, in ticks
    StaleAfter    \* LEASE_STALE_SECONDS, in ticks

ASSUME KeyAssumption ==
    /\ Machine \notin Thread
    /\ Nobody \notin Proc
    /\ Gone \notin Proc
    /\ Nobody # Gone

ASSUME BoundAssumption == MaxPrompts \in Nat /\ MaxRestarts \in Nat

\* webui/__main__.py passes recover_own_pid=True for the container's pid 1.
ASSUME ProcAssumption ==
    /\ Scheduled \subseteq Proc
    /\ PidReuse \subseteq Scheduled
    /\ Unreliable \subseteq Proc

\* store.py:46: the heartbeat is comfortably inside the staleness window, with
\* room for two statements that each wait out the busy_timeout.
ASSUME TimeAssumption ==
    /\ BeatEvery \in Nat /\ MaxLate \in Nat /\ StaleAfter \in Nat
    /\ BeatEvery + MaxLate + MaxLate <= StaleAfter

Key == Thread \cup {Machine}
Prompt == 1..MaxPrompts
NoPrompt == 0
BeatBy == BeatEvery + MaxLate

VARIABLES
    lease,     \* [Key -> [owner, age]]: the leases table
    row,       \* [Prompt -> [thread, status]]: the queue table
    pc,        \* [Proc -> where the runner of that process is]
    job,       \* [Proc -> the thread it starts or drains]
    item,      \* [Proc -> the prompt whose turn it runs, or NoPrompt]
    asking,    \* [Proc -> threads with a submit() between insert and start]
    stopping,  \* [Proc -> QueuedRunner._stopping]
    beat,      \* [Proc -> state of the heartbeat thread]
    since,     \* [Proc -> ticks since the last lease step of this process]
    restarts   \* how many crashes and stops have happened

vars == <<lease, row, pc, job, item, asking, stopping, beat, since, restarts>>
runner == <<pc, job, item, asking, stopping, beat, since>>

Status == {"none", "queued", "running", "done", "cancelled"}
PC == {"down", "idle", "tryThread", "tryMachine", "undo",
       "drain", "turn", "freeThread", "freeMachine"}
Beat == {"off", "wait", "machine", "dead"}

LeaseRow == [owner : Proc \cup {Nobody, Gone}, age : 0..(StaleAfter + 1)]
NoLease == [owner |-> Nobody, age |-> 0]

TypeOK ==
    /\ lease \in [Key -> LeaseRow]
    /\ row \in [Prompt -> [thread : Thread \cup {Nobody}, status : Status]]
    /\ \A q \in Prompt : row[q].status # "none" => row[q].thread \in Thread
    /\ pc \in [Proc -> PC]
    /\ job \in [Proc -> Thread \cup {Nobody}]
    /\ item \in [Proc -> Prompt \cup {NoPrompt}]
    /\ asking \in [Proc -> SUBSET Thread]
    /\ stopping \in [Proc -> BOOLEAN]
    /\ beat \in [Proc -> Beat]
    /\ since \in [Proc -> 0..BeatBy]
    /\ restarts \in 0..MaxRestarts

-----------------------------------------------------------------------------
(* The store's predicates.                                                 *)

Up(p) == pc[p] # "down"

\* _lease_is_live over a set of live pids: dead owner, or stale: not live.
LiveAmong(alive, k) == lease[k].owner \in alive /\ lease[k].age <= StaleAfter

Live(k) == LiveAmong({p \in Proc : Up(p)}, k)

HeldBy(k, p) == [lease EXCEPT ![k] = [owner |-> p, age |-> 0]]

\* Mutant: the DELETE forgets its owner_pid condition.
AnyReleased(k, p) == [lease EXCEPT ![k] = NoLease]

\* release_lease: DELETE ... WHERE owner_pid = me.
Released(k, p) ==
    IF lease[k].owner = p THEN [lease EXCEPT ![k] = NoLease] ELSE lease

\* renew_lease: UPDATE heartbeat ... WHERE owner_pid = me; the count is ignored.
Renewed(k, p) == IF lease[k].owner = p THEN HeldBy(k, p) ELSE lease

Queued(t) == {q \in Prompt : row[q].thread = t /\ row[q].status = "queued"}

\* Mutant: ORDER BY queue_id DESC.
IsNewest(q, S) == q \in S /\ \A r \in S : r <= q

IsOldest(q, S) == q \in S /\ \A r \in S : q <= r

\* Mutant: recovery takes every running row for an abandoned one.
AnyRunning(alive, p, own) == {q \in Prompt : row[q].status = "running"}

\* Rows recover_interrupted closes, and the lease table it leaves behind:
\* `own` is include_own_pid for a caller with pid p.
Abandoned(alive, p, own) ==
    {q \in Prompt :
        /\ row[q].status = "running"
        /\ \/ ~LiveAmong(alive, row[q].thread)
           \/ own /\ lease[row[q].thread].owner = p}

Recovered(alive, p, own) ==
    [k \in Key |-> IF LiveAmong(alive, k) /\ ~(own /\ lease[k].owner = p)
                   THEN lease[k] ELSE NoLease]

-----------------------------------------------------------------------------
Init ==
    /\ lease = [k \in Key |-> NoLease]
    /\ row = [q \in Prompt |-> [thread |-> Nobody, status |-> "none"]]
    /\ pc = [p \in Proc |-> "down"]
    /\ job = [p \in Proc |-> Nobody]
    /\ item = [p \in Proc |-> NoPrompt]
    /\ asking = [p \in Proc |-> {}]
    /\ stopping = [p \in Proc |-> FALSE]
    /\ beat = [p \in Proc |-> "off"]
    /\ since = [p \in Proc |-> 0]
    /\ restarts = 0

\* A process comes up.  A scheduled one calls start(), which closes abandoned
\* turns before its scheduler thread exists; the REPL's portal never does.
Boot(p) ==
    /\ pc[p] = "down"
    /\ pc' = [pc EXCEPT ![p] = "idle"]
    /\ LET alive == {r \in Proc : Up(r)} \cup {p}
           own   == p \in PidReuse
       IN  IF p \in Scheduled
           THEN /\ lease' = Recovered(alive, p, own)
                /\ row' = [q \in Prompt |->
                            IF q \in Abandoned(alive, p, own)
                            THEN [row[q] EXCEPT !.status = "cancelled"]
                            ELSE row[q]]
           ELSE UNCHANGED <<lease, row>>
    /\ UNCHANGED <<job, item, asking, stopping, beat, since, restarts>>

\* The process is gone: every thread of it with it, daemon threads included.
\* Its pid is dead; only a PidReuse process can come back under the same one.
Die(p) ==
    /\ pc' = [pc EXCEPT ![p] = "down"]
    /\ job' = [job EXCEPT ![p] = Nobody]
    /\ item' = [item EXCEPT ![p] = NoPrompt]
    /\ asking' = [asking EXCEPT ![p] = {}]
    /\ stopping' = [stopping EXCEPT ![p] = FALSE]
    /\ beat' = [beat EXCEPT ![p] = "off"]
    /\ since' = [since EXCEPT ![p] = 0]
    /\ lease' = IF p \in PidReuse THEN lease
                ELSE [k \in Key |-> IF lease[k].owner = p
                                    THEN [lease[k] EXCEPT !.owner = Gone]
                                    ELSE lease[k]]
    /\ UNCHANGED row

Crash(p) ==
    /\ Up(p)
    /\ restarts < MaxRestarts
    /\ restarts' = restarts + 1
    /\ Die(p)

\* QueuedRunner.stop sets the flag; its joins time out, then the process exits.
Stop(p) ==
    /\ Up(p) /\ p \in Scheduled /\ ~stopping[p]
    /\ restarts < MaxRestarts
    /\ restarts' = restarts + 1
    /\ stopping' = [stopping EXCEPT ![p] = TRUE]
    /\ UNCHANGED <<lease, row, pc, job, item, asking, beat, since>>

Exit(p) ==
    /\ Up(p) /\ stopping[p]
    /\ Die(p)
    /\ UNCHANGED restarts

-----------------------------------------------------------------------------
(* Accepting a prompt, and starting a worker for a thread.                 *)

\* submit(): the row is durable before anything decides whether to run it.
Submit(p, t) ==
    /\ Up(p)
    /\ \E q \in Prompt :
        /\ row[q].status = "none"
        /\ \A r \in Prompt : r < q => row[r].status # "none"
        /\ row' = [row EXCEPT ![q] = [thread |-> t, status |-> "queued"]]
    /\ asking' = [asking EXCEPT ![p] = @ \cup {t}]
    /\ UNCHANGED <<lease, pc, job, item, stopping, beat, since, restarts>>

\* `_lock` is held from the first check to the last acquire.
LockFree(p) == pc[p] \notin {"down", "tryThread", "tryMachine", "undo"}

\* Mutant: a machine row of a dead process still counts as busy.
MayStartIfNoRow(p) == pc[p] = "idle" /\ ~stopping[p] /\ lease[Machine].owner = Nobody

\* The checks of _start_worker that come before any lease is taken.
MayStart(p) == pc[p] = "idle" /\ ~stopping[p] /\ ~Live(Machine)

BeginStart(p, t) ==
    /\ pc' = [pc EXCEPT ![p] = "tryThread"]
    /\ job' = [job EXCEPT ![p] = t]

\* The _start_worker call at the end of submit(): started, or BUSY for good.
Ask(p, t) ==
    /\ t \in asking[p] /\ LockFree(p)
    /\ asking' = [asking EXCEPT ![p] = @ \ {t}]
    /\ IF MayStart(p) THEN BeginStart(p, t) ELSE UNCHANGED <<pc, job>>
    /\ UNCHANGED <<lease, row, item, stopping, beat, since, restarts>>

\* An attempt of _dispatch_pending.  A pass goes on past the threads it finds
\* busy, over a list that ages meanwhile, so any waiting thread may be next.
Dispatch(p, t) ==
    /\ p \in Scheduled /\ MayStart(p)
    /\ Queued(t) # {}
    /\ BeginStart(p, t)
    /\ UNCHANGED <<lease, row, item, asking, stopping, beat, since, restarts>>

\* acquire_lease on the thread: refused while another process holds it live,
\* re-entrant for this one.
ThreadRefused(p) ==
    /\ pc[p] = "tryThread"
    /\ Live(job[p]) /\ lease[job[p]].owner # p
    /\ pc' = [pc EXCEPT ![p] = "idle"]
    /\ job' = [job EXCEPT ![p] = Nobody]
    /\ UNCHANGED <<lease, row, item, asking, stopping, beat, since, restarts>>

ThreadAcquired(p) ==
    /\ pc[p] = "tryThread"
    /\ ~Live(job[p]) \/ lease[job[p]].owner = p
    /\ pc' = [pc EXCEPT ![p] = "tryMachine"]
    /\ lease' = HeldBy(job[p], p)
    /\ since' = [since EXCEPT ![p] = 0]
    /\ UNCHANGED <<row, job, item, asking, stopping, beat, restarts>>

\* reentrant=False: a live machine lease refuses its own owner too.
MachineRefused(p) ==
    /\ pc[p] = "tryMachine"
    /\ Live(Machine)
    /\ pc' = [pc EXCEPT ![p] = "undo"]
    /\ since' = [since EXCEPT ![p] = 0]
    /\ UNCHANGED <<lease, row, job, item, asking, stopping, beat, restarts>>

\* Mutant: the acquire trusts the lease_holder read that came before it.
MachineTaken(p) ==
    /\ pc[p] = "tryMachine"
    /\ pc' = [pc EXCEPT ![p] = "drain"]
    /\ lease' = HeldBy(Machine, p)
    /\ beat' = [beat EXCEPT ![p] = "wait"]
    /\ since' = [since EXCEPT ![p] = 0]
    /\ UNCHANGED <<row, job, item, asking, stopping, restarts>>

\* The worker starts, and with it the heartbeat thread.
MachineAcquired(p) ==
    /\ pc[p] = "tryMachine"
    /\ ~Live(Machine)
    /\ pc' = [pc EXCEPT ![p] = "drain"]
    /\ lease' = HeldBy(Machine, p)
    /\ beat' = [beat EXCEPT ![p] = "wait"]
    /\ since' = [since EXCEPT ![p] = 0]
    /\ UNCHANGED <<row, job, item, asking, stopping, restarts>>

\* Mutant: the loser of the machine slot keeps its thread.
UndoNothing(p) ==
    /\ pc[p] = "undo"
    /\ pc' = [pc EXCEPT ![p] = "idle"]
    /\ job' = [job EXCEPT ![p] = Nobody]
    /\ UNCHANGED <<lease, row, item, asking, stopping, beat, since, restarts>>

UndoThread(p) ==
    /\ pc[p] = "undo"
    /\ lease' = Released(job[p], p)
    /\ pc' = [pc EXCEPT ![p] = "idle"]
    /\ job' = [job EXCEPT ![p] = Nobody]
    /\ UNCHANGED <<row, item, asking, stopping, beat, since, restarts>>

-----------------------------------------------------------------------------
(* The worker: _drain.                                                     *)

\* The loop head: claim_next, unless the runner is stopping.
Claim(p) ==
    /\ pc[p] = "drain"
    /\ ~stopping[p]
    /\ \E q \in Prompt :
        /\ IsOldest(q, Queued(job[p]))
        /\ row' = [row EXCEPT ![q].status = "running"]
        /\ item' = [item EXCEPT ![p] = q]
    /\ pc' = [pc EXCEPT ![p] = "turn"]
    /\ UNCHANGED <<lease, job, asking, stopping, beat, since, restarts>>

\* Nothing to claim, or stopping: the finally block stops the heartbeat.
LeaveLoop(p) ==
    /\ pc[p] = "drain"
    /\ stopping[p] \/ Queued(job[p]) = {}
    /\ pc' = [pc EXCEPT ![p] = "freeThread"]
    /\ beat' = [beat EXCEPT ![p] = "off"]
    /\ since' = [since EXCEPT ![p] = 0]
    /\ UNCHANGED <<lease, row, job, item, asking, stopping, restarts>>

\* finish() is unconditional: DONE on return, CANCELLED on an exception.
EndTurn(p, outcome) ==
    /\ pc[p] = "turn"
    /\ row' = [row EXCEPT ![item[p]].status = outcome]
    /\ item' = [item EXCEPT ![p] = NoPrompt]
    /\ pc' = [pc EXCEPT ![p] = "drain"]
    /\ UNCHANGED <<lease, job, asking, stopping, beat, since, restarts>>

FreeThread(p) ==
    /\ pc[p] = "freeThread"
    /\ lease' = Released(job[p], p)
    /\ pc' = [pc EXCEPT ![p] = "freeMachine"]
    /\ UNCHANGED <<row, job, item, asking, stopping, beat, since, restarts>>

\* Mutant: only the thread is released at the end of a drain.
KeepMachine(p) ==
    /\ pc[p] = "freeMachine"
    /\ pc' = [pc EXCEPT ![p] = "idle"]
    /\ job' = [job EXCEPT ![p] = Nobody]
    /\ UNCHANGED <<lease, row, item, asking, stopping, beat, since, restarts>>

\* The machine slot goes last; the worker then leaves _workers.
FreeMachine(p) ==
    /\ pc[p] = "freeMachine"
    /\ lease' = Released(Machine, p)
    /\ pc' = [pc EXCEPT ![p] = "idle"]
    /\ job' = [job EXCEPT ![p] = Nobody]
    /\ UNCHANGED <<row, item, asking, stopping, beat, since, restarts>>

\* claim_next, or the finish() in the except clause, raises: the loop is left
\* through the finally block and the row keeps the status it had.
LoopRaises(p) ==
    /\ p \in Unreliable
    /\ pc[p] \in {"drain", "turn"}
    /\ item' = [item EXCEPT ![p] = NoPrompt]
    /\ pc' = [pc EXCEPT ![p] = "freeThread"]
    /\ beat' = [beat EXCEPT ![p] = "off"]
    /\ since' = [since EXCEPT ![p] = 0]
    /\ UNCHANGED <<lease, row, job, asking, stopping, restarts>>

\* A lease call raises: what _start_worker or the finally block still had to
\* acquire or release is left as it is, and the thread is done.
LeaseCallRaises(p) ==
    /\ p \in Unreliable
    /\ pc[p] \in {"tryThread", "tryMachine", "undo", "freeThread", "freeMachine"}
    /\ pc' = [pc EXCEPT ![p] = "idle"]
    /\ job' = [job EXCEPT ![p] = Nobody]
    /\ since' = [since EXCEPT ![p] = 0]
    /\ UNCHANGED <<lease, row, item, asking, stopping, beat, restarts>>

-----------------------------------------------------------------------------
(* The heartbeat thread: two statements per beat, each its own transaction. *)

BeatThread(p) ==
    /\ beat[p] = "wait" /\ since[p] >= BeatEvery
    /\ lease' = Renewed(job[p], p)
    /\ beat' = [beat EXCEPT ![p] = "machine"]
    /\ since' = [since EXCEPT ![p] = 0]
    /\ UNCHANGED <<row, pc, job, item, asking, stopping, restarts>>

BeatMachine(p) ==
    /\ beat[p] = "machine"
    /\ lease' = Renewed(Machine, p)
    /\ beat' = [beat EXCEPT ![p] = "wait"]
    /\ since' = [since EXCEPT ![p] = 0]
    /\ UNCHANGED <<row, pc, job, item, asking, stopping, restarts>>

\* run() has no try: sqlite3.OperationalError ends the heartbeat thread.
BeatDies(p) ==
    /\ p \in Unreliable
    /\ beat[p] \in {"wait", "machine"}
    /\ beat' = [beat EXCEPT ![p] = "dead"]
    /\ UNCHANGED <<lease, row, pc, job, item, asking, stopping, since, restarts>>

\* A reliable process is not late with a step its leases depend on.
OnTime(p) ==
    /\ pc[p] = "tryMachine" => since[p] < MaxLate
    /\ beat[p] = "wait"     => since[p] < BeatBy
    /\ beat[p] = "machine"  => since[p] < MaxLate

Tick ==
    /\ \A p \in Proc \ Unreliable : OnTime(p)
    /\ lease' = [k \in Key |->
                    IF lease[k].owner # Nobody /\ lease[k].age <= StaleAfter
                    THEN [lease[k] EXCEPT !.age = @ + 1] ELSE lease[k]]
    /\ since' = [p \in Proc |->
                    IF (pc[p] = "tryMachine" \/ beat[p] \in {"wait", "machine"})
                        /\ since[p] < BeatBy
                    THEN since[p] + 1 ELSE since[p]]
    /\ UNCHANGED <<row, pc, job, item, asking, stopping, beat, restarts>>

-----------------------------------------------------------------------------
(* What the web routes do to the store directly.                           *)

\* cancel_queued: only a row that has not started.
CancelQueued(q) ==
    /\ \E p \in Proc : Up(p)
    /\ row[q].status = "queued"
    /\ row' = [row EXCEPT ![q].status = "cancelled"]
    /\ UNCHANGED <<lease, runner, restarts>>

\* clear_stale_leases.
ClearStale ==
    /\ \E p \in Proc : Up(p)
    /\ \E k \in Key : lease[k].owner # Nobody /\ ~Live(k)
    /\ lease' = [k \in Key |-> IF Live(k) THEN lease[k] ELSE NoLease]
    /\ UNCHANGED <<row, runner, restarts>>

-----------------------------------------------------------------------------
Lifecycle(p) == Boot(p) \/ Crash(p) \/ Stop(p) \/ Exit(p)

Starting(p) ==
    \/ \E t \in Thread : Submit(p, t) \/ Ask(p, t) \/ Dispatch(p, t)
    \/ ThreadRefused(p)
    \/ ThreadAcquired(p)
    \/ MachineRefused(p)
    \/ MachineAcquired(p)
    \/ UndoThread(p)

Draining(p) ==
    \/ Claim(p)
    \/ LeaveLoop(p)
    \/ \E outcome \in {"done", "cancelled"} : EndTurn(p, outcome)
    \/ FreeThread(p)
    \/ FreeMachine(p)

Raising(p) == LoopRaises(p) \/ LeaseCallRaises(p)

Beating(p) == BeatThread(p) \/ BeatMachine(p) \/ BeatDies(p)

Next ==
    \/ \E p \in Proc : Lifecycle(p) \/ Starting(p) \/ Draining(p)
                       \/ Raising(p) \/ Beating(p)
    \/ \E q \in Prompt : CancelQueued(q)
    \/ ClearStale
    \/ Tick

Spec == Init /\ [][Next]_vars

\* What the scheduling justifies: a thread that can take its next step takes
\* it, a turn ends (its model calls and approvals time out), a stopped process
\* exits, and a container restarts (compose.yaml: restart: unless-stopped).
\* Nothing is assumed of prompts, crashes, cancels, heartbeats or the clock.
Fairness ==
    /\ \A p \in PidReuse : WF_vars(Boot(p))
    /\ \A p \in Proc :
        /\ WF_vars(Exit(p))
        /\ \A t \in Thread : WF_vars(Ask(p, t))
        /\ WF_vars(\E t \in Thread : Dispatch(p, t))
        /\ WF_vars(ThreadRefused(p) \/ ThreadAcquired(p))
        /\ WF_vars(MachineRefused(p) \/ MachineAcquired(p))
        /\ WF_vars(UndoThread(p))
        /\ WF_vars(Draining(p))

FairSpec == Spec /\ Fairness

-----------------------------------------------------------------------------
(* Properties.                                                             *)

Running == {p \in Proc : pc[p] = "turn"}
Reliable == Proc \ Unreliable

\* One turn per machine (runner.py:5-10): no interleaving of starts, crashes,
\* recoveries and heartbeats puts two processes inside _run_one at once, as
\* long as neither misses its heartbeats for the staleness window.
OneTurnPerMachine == \A p, r \in Running \cap Reliable : p = r

\* While a worker drains, both leases are its own and live, so that no other
\* process may take, clear or recover them (runner.py:331-349, store.py:636).
WorkerHoldsItsLeases ==
    \A p \in Reliable : pc[p] \in {"drain", "turn"} =>
        \A k \in {job[p], Machine} : lease[k].owner = p /\ Live(k)

\* The row of a turn that is really running says so: nobody's recovery closed
\* it (store.py:431-463), and no other finish() overwrote it (393-398).
RunningTurnIsOnRecord ==
    \A p \in Running \cap Reliable :
        row[item[p]].status = "running" /\ row[item[p]].thread = job[p]

\* No lease is leaked: a runner that is not starting, draining or releasing
\* holds none, whichever way its last start or turn ended (runner.py:175-223).
IdleHoldsNoLease ==
    \A p \in Reliable : pc[p] = "idle" => \A k \in Key : lease[k].owner # p

\* A prompt does not sit in the queue for ever (runner.py:12-14): whoever is
\* running finishes and it is drained, or it is withdrawn.
QueuedPromptsLeaveTheQueue ==
    \A q \in Prompt : row[q].status = "queued" ~> row[q].status # "queued"

\* The machine slot always comes back, without waiting for a lease to go stale:
\* no crash, stop or lost race leaks it (runner.py:175-223, store.py:636-639).
MachineSlotComesBack == []<>~Live(Machine)

\* The prompt whose turn runs: the abstract gate's one variable that is not a
\* column of the queue table.
CurrentTurn ==
    IF Running = {} THEN NoPrompt ELSE item[CHOOSE p \in Proc : pc[p] = "turn"]

Gate == INSTANCE TurnGate WITH
    NoThread <- Nobody,
    NoTurn <- NoPrompt,
    thread <- [q \in Prompt |-> row[q].thread],
    status <- [q \in Prompt |-> row[q].status],
    turn <- CurrentTurn

\* The control plane implements the gate (runner.py:1-20): through every crash,
\* recovery and race, prompts begin in order, at most once and one at a time.
ImplementsGate == Gate!GateSpec

=============================================================================
