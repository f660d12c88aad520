-------------------------- MODULE ControlPlaneProofs --------------------------
(***************************************************************************)
(* Theorems about ControlPlane, for every set of processes and threads,    *)
(* every bound and every timing that satisfies the module's assumptions.   *)
(*                                                                         *)
(* The inductive invariant says, of each process, which leases can be in   *)
(* its name at its program counter (LeasesMatchPc), how old the leases of  *)
(* a reliable one can be (HeartbeatsInTime), and whose turn a row is       *)
(* (TurnsOwnTheirRows).                                                    *)
(***************************************************************************)
EXTENDS ControlPlane, TLAPS

Busy == {"tryThread", "tryMachine", "undo", "drain", "turn",
         "freeThread", "freeMachine"}

\* The volatile variables of one process agree with its program counter.
RunnerShape(p) ==
    /\ pc[p] \in Busy => job[p] \in Thread
    /\ pc[p] = "turn" <=> item[p] # NoPrompt
    /\ pc[p] \in {"drain", "turn"} <=> beat[p] # "off"
    /\ beat[p] = "dead" => p \in Unreliable

\* The leases in p's name are those its program counter accounts for.
LeasesMatchPc(p) ==
    \A k \in Key : lease[k].owner = p =>
        \/ k = job[p] /\ pc[p] \in {"tryMachine", "undo", "drain", "turn", "freeThread"}
        \/ k = Machine /\ pc[p] \in {"drain", "turn", "freeThread", "freeMachine"}
        \/ pc[p] = "down" /\ p \in PidReuse

\* Lease k is p's and at most n ticks old.
Held(k, p, n) == lease[k].owner = p /\ lease[k].age <= n

\* How old the leases of a reliable process can be, at each step of its beat.
HeartbeatsInTime(p) ==
    /\ pc[p] = "tryMachine" =>
        since[p] <= MaxLate /\ Held(job[p], p, since[p])
    /\ beat[p] = "wait" =>
        Held(job[p], p, MaxLate + since[p]) /\ Held(Machine, p, since[p])
    /\ beat[p] = "machine" =>
        /\ since[p] <= MaxLate
        /\ Held(job[p], p, since[p])
        /\ Held(Machine, p, BeatBy + since[p])

\* A turn's row is on its thread and has started; no two turns share a row;
\* and the row of a reliable process is still marked running.
TurnsOwnTheirRows ==
    \A p \in Running :
        /\ row[item[p]].thread = job[p]
        /\ row[item[p]].status \notin {"none", "queued"}
        /\ p \in Reliable => row[item[p]].status = "running"
        /\ \A r \in Running : item[p] = item[r] => p = r

IInv ==
    /\ TypeOK
    /\ \A p \in Proc : RunnerShape(p)
    /\ \A p \in Reliable : LeasesMatchPc(p)
    /\ \A p \in Reliable : HeartbeatsInTime(p)
    /\ TurnsOwnTheirRows

-----------------------------------------------------------------------------
\* What the store's lease statements do to the table, one row at a time.
LEMMA HeldByRows ==
    ASSUME lease \in [Key -> LeaseRow], NEW p \in Proc, NEW k
    PROVE  /\ HeldBy(k, p) \in [Key -> LeaseRow]
           /\ \A j \in Key : HeldBy(k, p)[j] =
                IF j = k THEN [owner |-> p, age |-> 0] ELSE lease[j]
<1>1. [owner |-> p, age |-> 0] \in LeaseRow
  BY TimeAssumption DEF LeaseRow
<1> QED
  BY <1>1 DEF HeldBy

\* What a release does to a lease row: gone if it was the caller's, else as it was.
LEMMA ReleasedRows ==
    ASSUME lease \in [Key -> LeaseRow], NEW p \in Proc, NEW k
    PROVE  /\ Released(k, p) \in [Key -> LeaseRow]
           /\ \A j \in Key : Released(k, p)[j] =
                IF j = k /\ lease[j].owner = p THEN NoLease ELSE lease[j]
<1>1. NoLease \in LeaseRow
  BY TimeAssumption DEF LeaseRow, NoLease
<1> QED
  BY <1>1 DEF Released

\* What a renewal does to a lease row: fresh if it is the caller's, else as it was.
LEMMA RenewedRows ==
    ASSUME lease \in [Key -> LeaseRow], NEW p \in Proc, NEW k
    PROVE  /\ Renewed(k, p) \in [Key -> LeaseRow]
           /\ \A j \in Key : Renewed(k, p)[j] =
                IF j = k /\ lease[j].owner = p
                THEN [owner |-> p, age |-> 0] ELSE lease[j]
  BY HeldByRows DEF Renewed

\* The other rows a lease table is built from.
LEMMA LeaseRowForms ==
    /\ NoLease \in LeaseRow
    /\ \A l \in LeaseRow : [l EXCEPT !.owner = Gone] \in LeaseRow
    /\ \A l \in LeaseRow : l.age <= StaleAfter => [l EXCEPT !.age = @ + 1] \in LeaseRow
  BY TimeAssumption DEF LeaseRow, NoLease

\* Each step keeps the types.
LEMMA TypeStep == IInv /\ [Next]_vars => TypeOK'
<1> SUFFICES ASSUME IInv, [Next]_vars PROVE TypeOK'
  OBVIOUS
<1> USE BoundAssumption, TimeAssumption
    DEF IInv, TypeOK, Status, PC, Beat, Prompt, NoPrompt, BeatBy
<1>1. ASSUME NEW p \in Proc, Boot(p) PROVE TypeOK'
  <2>1. lease' \in [Key -> LeaseRow]
    BY <1>1, LeaseRowForms DEF Boot, Recovered
  <2>2. CASE p \in Scheduled
    <3>1. PICK S \in SUBSET {q \in Prompt : row[q].status = "running"} :
            row' = [q \in Prompt |->
                IF q \in S THEN [row[q] EXCEPT !.status = "cancelled"] ELSE row[q]]
      BY <1>1, <2>2 DEF Boot, Abandoned
    <3> QED
      BY <1>1, <2>1, <3>1 DEF Boot
  <2>3. CASE p \notin Scheduled
    BY <1>1, <2>1, <2>3 DEF Boot
  <2> QED
    BY <2>2, <2>3
<1>2. ASSUME NEW p \in Proc, Crash(p) PROVE TypeOK'
  <2>1. lease' \in [Key -> LeaseRow]
    BY <1>2, LeaseRowForms DEF Crash, Die
  <2> QED
    BY <1>2, <2>1 DEF Crash, Die
<1>3. ASSUME NEW p \in Proc, Stop(p) PROVE TypeOK'
  BY <1>3 DEF Stop
<1>4. ASSUME NEW p \in Proc, Exit(p) PROVE TypeOK'
  <2>1. lease' \in [Key -> LeaseRow]
    BY <1>4, LeaseRowForms DEF Exit, Die
  <2> QED
    BY <1>4, <2>1 DEF Exit, Die
<1>5. ASSUME NEW p \in Proc, NEW t \in Thread, Submit(p, t) PROVE TypeOK'
  BY <1>5 DEF Submit
<1>6. ASSUME NEW p \in Proc, NEW t \in Thread, Ask(p, t) PROVE TypeOK'
  BY <1>6 DEF Ask, BeginStart
<1>7. ASSUME NEW p \in Proc, NEW t \in Thread, Dispatch(p, t) PROVE TypeOK'
  BY <1>7 DEF Dispatch, BeginStart
<1>8. ASSUME NEW p \in Proc, ThreadRefused(p) PROVE TypeOK'
  BY <1>8 DEF ThreadRefused
<1>9. ASSUME NEW p \in Proc, ThreadAcquired(p) PROVE TypeOK'
  <2>1. lease' \in [Key -> LeaseRow]
    BY <1>9, HeldByRows DEF ThreadAcquired
  <2> QED
    BY <1>9, <2>1 DEF ThreadAcquired
<1>10. ASSUME NEW p \in Proc, MachineRefused(p) PROVE TypeOK'
  BY <1>10 DEF MachineRefused
<1>11. ASSUME NEW p \in Proc, MachineAcquired(p) PROVE TypeOK'
  <2>1. lease' \in [Key -> LeaseRow]
    BY <1>11, HeldByRows DEF MachineAcquired
  <2> QED
    BY <1>11, <2>1 DEF MachineAcquired
<1>12. ASSUME NEW p \in Proc, UndoThread(p) PROVE TypeOK'
  <2>1. lease' \in [Key -> LeaseRow]
    BY <1>12, ReleasedRows DEF UndoThread
  <2> QED
    BY <1>12, <2>1 DEF UndoThread
<1>13. ASSUME NEW p \in Proc, Claim(p) PROVE TypeOK'
  <2>1. PICK q \in Prompt : /\ row[q].status = "queued"
                            /\ row' = [row EXCEPT ![q].status = "running"]
                            /\ item' = [item EXCEPT ![p] = q]
    BY <1>13 DEF Claim, IsOldest, Queued
  <2>2. row' \in [Prompt -> [thread : Thread \cup {Nobody}, status : Status]]
    BY <2>1
  <2>3. \A r \in Prompt : row'[r].status # "none" => row'[r].thread \in Thread
    BY <2>1
  <2> QED
    BY <1>13, <2>1, <2>2, <2>3 DEF Claim
<1>14. ASSUME NEW p \in Proc, LeaveLoop(p) PROVE TypeOK'
  BY <1>14 DEF LeaveLoop
<1>15. ASSUME NEW p \in Proc,
              NEW outcome \in {"done", "cancelled"}, EndTurn(p, outcome) PROVE TypeOK'
  BY <1>15 DEF EndTurn, TurnsOwnTheirRows, Running
<1>16. ASSUME NEW p \in Proc, FreeThread(p) PROVE TypeOK'
  <2>1. lease' \in [Key -> LeaseRow]
    BY <1>16, ReleasedRows DEF FreeThread
  <2> QED
    BY <1>16, <2>1 DEF FreeThread
<1>17. ASSUME NEW p \in Proc, FreeMachine(p) PROVE TypeOK'
  <2>1. lease' \in [Key -> LeaseRow]
    BY <1>17, ReleasedRows DEF FreeMachine
  <2> QED
    BY <1>17, <2>1 DEF FreeMachine
<1>18. ASSUME NEW p \in Proc, BeatThread(p) PROVE TypeOK'
  <2>1. lease' \in [Key -> LeaseRow]
    BY <1>18, RenewedRows DEF BeatThread
  <2> QED
    BY <1>18, <2>1 DEF BeatThread
<1>19. ASSUME NEW p \in Proc, BeatMachine(p) PROVE TypeOK'
  <2>1. lease' \in [Key -> LeaseRow]
    BY <1>19, RenewedRows DEF BeatMachine
  <2> QED
    BY <1>19, <2>1 DEF BeatMachine
<1>20. ASSUME NEW p \in Proc, BeatDies(p) PROVE TypeOK'
  BY <1>20 DEF BeatDies
<1>21. ASSUME NEW q \in Prompt, CancelQueued(q) PROVE TypeOK'
  BY <1>21 DEF CancelQueued, runner
<1>22. ASSUME ClearStale PROVE TypeOK'
  <2>1. lease' \in [Key -> LeaseRow]
    BY <1>22, LeaseRowForms DEF ClearStale, runner
  <2> QED
    BY <1>22, <2>1 DEF ClearStale, runner
<1>23. ASSUME Tick PROVE TypeOK'
  <2>1. lease' \in [Key -> LeaseRow]
    BY <1>23, LeaseRowForms DEF Tick
  <2> QED
    BY <1>23, <2>1 DEF Tick
<1>24. ASSUME UNCHANGED vars PROVE TypeOK'
  BY <1>24 DEF vars
<1>25. ASSUME NEW p \in Proc, LoopRaises(p) PROVE TypeOK'
  BY <1>25 DEF LoopRaises
<1>26. ASSUME NEW p \in Proc, LeaseCallRaises(p) PROVE TypeOK'
  BY <1>26 DEF LeaseCallRaises
<1> QED
  BY <1>1, <1>2, <1>3, <1>4, <1>5, <1>6, <1>7, <1>8, <1>9, <1>10, <1>11,
     <1>12, <1>13, <1>14, <1>15, <1>16, <1>17, <1>18, <1>19, <1>20, <1>21,
     <1>22, <1>23, <1>24, <1>25, <1>26
     DEF Next, Lifecycle, Starting, Draining, Raising, Beating

\* Each step keeps the shape of each process's variables for its pc.
LEMMA ShapeStep == IInv /\ [Next]_vars => \A p \in Proc : RunnerShape(p)'
<1> SUFFICES ASSUME IInv, [Next]_vars, NEW z \in Proc PROVE RunnerShape(z)'
  OBVIOUS
<1> USE DEF IInv, TypeOK, PC, Beat, Prompt, NoPrompt, RunnerShape, Busy
<1>1. ASSUME NEW p \in Proc, Boot(p) PROVE RunnerShape(z)'
  BY <1>1 DEF Boot
<1>2. ASSUME NEW p \in Proc, Crash(p) PROVE RunnerShape(z)'
  BY <1>2 DEF Crash, Die
<1>3. ASSUME NEW p \in Proc, Stop(p) PROVE RunnerShape(z)'
  BY <1>3 DEF Stop
<1>4. ASSUME NEW p \in Proc, Exit(p) PROVE RunnerShape(z)'
  BY <1>4 DEF Exit, Die
<1>5. ASSUME NEW p \in Proc, NEW t \in Thread, Submit(p, t) PROVE RunnerShape(z)'
  BY <1>5 DEF Submit
<1>6. ASSUME NEW p \in Proc, NEW t \in Thread, Ask(p, t) PROVE RunnerShape(z)'
  BY <1>6 DEF Ask, BeginStart, MayStart
<1>7. ASSUME NEW p \in Proc, NEW t \in Thread, Dispatch(p, t) PROVE RunnerShape(z)'
  BY <1>7 DEF Dispatch, BeginStart, MayStart
<1>8. ASSUME NEW p \in Proc, ThreadRefused(p) PROVE RunnerShape(z)'
  BY <1>8 DEF ThreadRefused
<1>9. ASSUME NEW p \in Proc, ThreadAcquired(p) PROVE RunnerShape(z)'
  BY <1>9 DEF ThreadAcquired
<1>10. ASSUME NEW p \in Proc, MachineRefused(p) PROVE RunnerShape(z)'
  BY <1>10 DEF MachineRefused
<1>11. ASSUME NEW p \in Proc, MachineAcquired(p) PROVE RunnerShape(z)'
  BY <1>11 DEF MachineAcquired
<1>12. ASSUME NEW p \in Proc, UndoThread(p) PROVE RunnerShape(z)'
  BY <1>12 DEF UndoThread
<1>13. ASSUME NEW p \in Proc, Claim(p) PROVE RunnerShape(z)'
  BY <1>13 DEF Claim, IsOldest, Queued
<1>14. ASSUME NEW p \in Proc, LeaveLoop(p) PROVE RunnerShape(z)'
  BY <1>14 DEF LeaveLoop
<1>15. ASSUME NEW p \in Proc,
              NEW outcome \in {"done", "cancelled"}, EndTurn(p, outcome) PROVE RunnerShape(z)'
  BY <1>15 DEF EndTurn
<1>16. ASSUME NEW p \in Proc, FreeThread(p) PROVE RunnerShape(z)'
  BY <1>16 DEF FreeThread
<1>17. ASSUME NEW p \in Proc, FreeMachine(p) PROVE RunnerShape(z)'
  BY <1>17 DEF FreeMachine
<1>18. ASSUME NEW p \in Proc, BeatThread(p) PROVE RunnerShape(z)'
  BY <1>18 DEF BeatThread
<1>19. ASSUME NEW p \in Proc, BeatMachine(p) PROVE RunnerShape(z)'
  BY <1>19 DEF BeatMachine
<1>20. ASSUME NEW p \in Proc, BeatDies(p) PROVE RunnerShape(z)'
  BY <1>20 DEF BeatDies
<1>21. ASSUME NEW q \in Prompt, CancelQueued(q) PROVE RunnerShape(z)'
  BY <1>21 DEF CancelQueued, runner
<1>22. ASSUME ClearStale PROVE RunnerShape(z)'
  BY <1>22 DEF ClearStale, runner
<1>23. ASSUME Tick PROVE RunnerShape(z)'
  BY <1>23 DEF Tick
<1>24. ASSUME UNCHANGED vars PROVE RunnerShape(z)'
  BY <1>24 DEF vars
<1>25. ASSUME NEW p \in Proc, LoopRaises(p) PROVE RunnerShape(z)'
  BY <1>25 DEF LoopRaises
<1>26. ASSUME NEW p \in Proc, LeaseCallRaises(p) PROVE RunnerShape(z)'
  BY <1>26 DEF LeaseCallRaises
<1> QED
  BY <1>1, <1>2, <1>3, <1>4, <1>5, <1>6, <1>7, <1>8, <1>9, <1>10, <1>11,
     <1>12, <1>13, <1>14, <1>15, <1>16, <1>17, <1>18, <1>19, <1>20, <1>21,
     <1>22, <1>23, <1>24, <1>25, <1>26
     DEF Next, Lifecycle, Starting, Draining, Raising, Beating

\* Each step keeps a reliable process's leases to those its pc accounts for.
LEMMA OwnerStep == IInv /\ [Next]_vars => \A p \in Reliable : LeasesMatchPc(p)'
<1> SUFFICES ASSUME IInv, [Next]_vars, NEW z \in Reliable PROVE LeasesMatchPc(z)'
  OBVIOUS
<1> USE KeyAssumption, ProcAssumption
<1> /\ Key = Thread \cup {Machine} /\ Machine \in Key
    /\ lease \in [Key -> LeaseRow]
    /\ z \in Proc /\ z \notin Unreliable
  BY DEF Key, IInv, TypeOK, Reliable
<1>1. ASSUME NEW p \in Proc, Boot(p) PROVE LeasesMatchPc(z)'
  BY <1>1
     DEF Boot, Recovered, LiveAmong, Up, NoLease, IInv, TypeOK, RunnerShape, Busy,LeasesMatchPc
<1>2. ASSUME NEW p \in Proc, Crash(p) PROVE LeasesMatchPc(z)'
  BY <1>2
     DEF Crash, Die, IInv, TypeOK, RunnerShape, Busy,LeasesMatchPc
<1>3. ASSUME NEW p \in Proc, Stop(p) PROVE LeasesMatchPc(z)'
  BY <1>3
     DEF Stop, IInv, TypeOK, RunnerShape, Busy,LeasesMatchPc
<1>4. ASSUME NEW p \in Proc, Exit(p) PROVE LeasesMatchPc(z)'
  BY <1>4
     DEF Exit, Die, IInv, TypeOK, RunnerShape, Busy,LeasesMatchPc
<1>5. ASSUME NEW p \in Proc, NEW t \in Thread, Submit(p, t) PROVE LeasesMatchPc(z)'
  BY <1>5
     DEF Submit, IInv, TypeOK, RunnerShape, Busy,LeasesMatchPc
<1>6. ASSUME NEW p \in Proc, NEW t \in Thread, Ask(p, t) PROVE LeasesMatchPc(z)'
  BY <1>6
     DEF Ask, BeginStart, MayStart, IInv, TypeOK, RunnerShape, Busy,LeasesMatchPc
<1>7. ASSUME NEW p \in Proc, NEW t \in Thread, Dispatch(p, t) PROVE LeasesMatchPc(z)'
  BY <1>7
     DEF Dispatch, BeginStart, MayStart, IInv, TypeOK, RunnerShape, Busy,LeasesMatchPc
<1>8. ASSUME NEW p \in Proc, ThreadRefused(p) PROVE LeasesMatchPc(z)'
  BY <1>8
     DEF ThreadRefused, IInv, TypeOK, RunnerShape, Busy,LeasesMatchPc
<1>9. ASSUME NEW p \in Proc, ThreadAcquired(p) PROVE LeasesMatchPc(z)'
  <2>1. \A j \in Key : lease'[j] = IF j = job[p] THEN [owner |-> p, age |-> 0] ELSE lease[j]
    BY <1>9, HeldByRows DEF ThreadAcquired
  <2> QED
    BY <1>9, <2>1 DEF ThreadAcquired, IInv, TypeOK, RunnerShape, Busy,
         LeasesMatchPc
<1>10. ASSUME NEW p \in Proc, MachineRefused(p) PROVE LeasesMatchPc(z)'
  BY <1>10
     DEF MachineRefused, IInv, TypeOK, RunnerShape, Busy,LeasesMatchPc
<1>11. ASSUME NEW p \in Proc, MachineAcquired(p) PROVE LeasesMatchPc(z)'
  <2>1. \A j \in Key : lease'[j] = IF j = Machine THEN [owner |-> p, age |-> 0] ELSE lease[j]
    BY <1>11, HeldByRows DEF MachineAcquired
  <2> QED
    BY <1>11, <2>1 DEF MachineAcquired, IInv, TypeOK, RunnerShape, Busy,
         LeasesMatchPc
<1>12. ASSUME NEW p \in Proc, UndoThread(p) PROVE LeasesMatchPc(z)'
  <2>1. \A j \in Key : lease'[j] = IF j = job[p] /\ lease[j].owner = p THEN NoLease ELSE lease[j]
    BY <1>12, ReleasedRows DEF UndoThread
  <2> QED
    BY <1>12, <2>1 DEF UndoThread, NoLease, IInv, TypeOK, RunnerShape, Busy,
         LeasesMatchPc
<1>13. ASSUME NEW p \in Proc, Claim(p) PROVE LeasesMatchPc(z)'
  BY <1>13
     DEF Claim, IInv, TypeOK, RunnerShape, Busy,LeasesMatchPc
<1>14. ASSUME NEW p \in Proc, LeaveLoop(p) PROVE LeasesMatchPc(z)'
  BY <1>14
     DEF LeaveLoop, IInv, TypeOK, RunnerShape, Busy,LeasesMatchPc
<1>15. ASSUME NEW p \in Proc,
              NEW outcome \in {"done", "cancelled"}, EndTurn(p, outcome) PROVE LeasesMatchPc(z)'
  BY <1>15
     DEF EndTurn, IInv, TypeOK, RunnerShape, Busy,LeasesMatchPc
<1>16. ASSUME NEW p \in Proc, FreeThread(p) PROVE LeasesMatchPc(z)'
  <2>1. \A j \in Key : lease'[j] = IF j = job[p] /\ lease[j].owner = p THEN NoLease ELSE lease[j]
    BY <1>16, ReleasedRows DEF FreeThread
  <2> QED
    BY <1>16, <2>1 DEF FreeThread, NoLease, IInv, TypeOK, RunnerShape, Busy,
         LeasesMatchPc
<1>17. ASSUME NEW p \in Proc, FreeMachine(p) PROVE LeasesMatchPc(z)'
  <2>1. \A j \in Key : lease'[j] = IF j = Machine /\ lease[j].owner = p THEN NoLease ELSE lease[j]
    BY <1>17, ReleasedRows DEF FreeMachine
  <2> QED
    BY <1>17, <2>1 DEF FreeMachine, NoLease, IInv, TypeOK, RunnerShape, Busy,
         LeasesMatchPc
<1>18. ASSUME NEW p \in Proc, BeatThread(p) PROVE LeasesMatchPc(z)'
  <2>1. \A j \in Key : lease'[j] = IF j = job[p] /\ lease[j].owner = p
                          THEN [owner |-> p, age |-> 0] ELSE lease[j]
    BY <1>18, RenewedRows DEF BeatThread
  <2> QED
    BY <1>18, <2>1 DEF BeatThread, IInv, TypeOK, RunnerShape, Busy,
         LeasesMatchPc
<1>19. ASSUME NEW p \in Proc, BeatMachine(p) PROVE LeasesMatchPc(z)'
  <2>1. \A j \in Key : lease'[j] = IF j = Machine /\ lease[j].owner = p
                          THEN [owner |-> p, age |-> 0] ELSE lease[j]
    BY <1>19, RenewedRows DEF BeatMachine
  <2> QED
    BY <1>19, <2>1 DEF BeatMachine, IInv, TypeOK, RunnerShape, Busy,
         LeasesMatchPc
<1>20. ASSUME NEW p \in Proc, BeatDies(p) PROVE LeasesMatchPc(z)'
  BY <1>20
     DEF BeatDies, IInv, TypeOK, RunnerShape, Busy,LeasesMatchPc
<1>21. ASSUME NEW q \in Prompt, CancelQueued(q) PROVE LeasesMatchPc(z)'
  BY <1>21
     DEF CancelQueued, runner, IInv, TypeOK, RunnerShape, Busy,LeasesMatchPc
<1>22. ASSUME ClearStale PROVE LeasesMatchPc(z)'
  BY <1>22
     DEF ClearStale, runner, NoLease, IInv, TypeOK, RunnerShape, Busy,LeasesMatchPc
<1>23. ASSUME Tick PROVE LeasesMatchPc(z)'
  BY <1>23
     DEF Tick, LeaseRow, IInv, TypeOK, RunnerShape, Busy,LeasesMatchPc
<1>24. ASSUME UNCHANGED vars PROVE LeasesMatchPc(z)'
  BY <1>24
     DEF vars, IInv, TypeOK, RunnerShape, Busy,LeasesMatchPc
<1>25. ASSUME NEW p \in Proc, LoopRaises(p) PROVE LeasesMatchPc(z)'
  BY <1>25 DEF LoopRaises, IInv, TypeOK, RunnerShape, Busy, LeasesMatchPc
<1>26. ASSUME NEW p \in Proc, LeaseCallRaises(p) PROVE LeasesMatchPc(z)'
  BY <1>26 DEF LeaseCallRaises, IInv, TypeOK, RunnerShape, Busy, LeasesMatchPc
<1> QED
  BY <1>1, <1>2, <1>3, <1>4, <1>5, <1>6, <1>7, <1>8, <1>9, <1>10, <1>11,
     <1>12, <1>13, <1>14, <1>15, <1>16, <1>17, <1>18, <1>19, <1>20, <1>21,
     <1>22, <1>23, <1>24, <1>25, <1>26
     DEF Next, Lifecycle, Starting, Draining, Raising, Beating

\* A reliable process's leases are never stale while it counts on them.
LEMMA KeptFresh ==
    ASSUME IInv, NEW p \in Reliable
    PROVE  /\ pc[p] = "tryMachine" => Held(job[p], p, StaleAfter)
           /\ beat[p] # "off" =>
                Held(job[p], p, StaleAfter) /\ Held(Machine, p, StaleAfter)
<1>1. /\ since[p] \in 0..BeatBy
      /\ beat[p] \in {"off", "wait", "machine"}
      /\ beat[p] # "off" => job[p] \in Thread
      /\ pc[p] = "tryMachine" => job[p] \in Thread
  BY DEF IInv, TypeOK, RunnerShape, Reliable, Beat, Busy
<1>2. \A k \in Key : lease[k].age \in Nat
  BY TimeAssumption DEF IInv, TypeOK, LeaseRow
<1>3. HeartbeatsInTime(p)
  BY DEF IInv
<1> QED
  BY <1>1, <1>2, <1>3, TimeAssumption
     DEF HeartbeatsInTime, Held, BeatBy, Key

\* Each step keeps the leases a reliable worker needs its own, and young enough.
LEMMA HeartbeatStep ==
    IInv /\ [Next]_vars => \A p \in Reliable : HeartbeatsInTime(p)'
<1> SUFFICES ASSUME IInv, [Next]_vars, NEW z \in Reliable
             PROVE  HeartbeatsInTime(z)'
  OBVIOUS
<1> USE KeyAssumption, ProcAssumption, TimeAssumption, KeptFresh
<1> /\ Key = Thread \cup {Machine} /\ Machine \in Key
    /\ lease \in [Key -> LeaseRow]
    /\ \A k \in Key : lease[k].age \in Nat
    /\ z \in Proc /\ z \notin Unreliable
    /\ since[z] \in Nat /\ BeatBy = BeatEvery + MaxLate
  BY DEF Key, IInv, TypeOK, LeaseRow, Reliable, BeatBy
<1>1. ASSUME NEW p \in Proc, Boot(p) PROVE HeartbeatsInTime(z)'
  BY <1>1
     DEF Boot, Recovered, LiveAmong, Up,
         IInv, TypeOK, RunnerShape, Busy, HeartbeatsInTime, Held
<1>2. ASSUME NEW p \in Proc, Crash(p) PROVE HeartbeatsInTime(z)'
  BY <1>2
     DEF Crash, Die,
         IInv, TypeOK, RunnerShape, Busy, HeartbeatsInTime, Held
<1>3. ASSUME NEW p \in Proc, Stop(p) PROVE HeartbeatsInTime(z)'
  BY <1>3
     DEF Stop,
         IInv, TypeOK, RunnerShape, Busy, HeartbeatsInTime, Held
<1>4. ASSUME NEW p \in Proc, Exit(p) PROVE HeartbeatsInTime(z)'
  BY <1>4
     DEF Exit, Die,
         IInv, TypeOK, RunnerShape, Busy, HeartbeatsInTime, Held
<1>5. ASSUME NEW p \in Proc, NEW t \in Thread, Submit(p, t) PROVE HeartbeatsInTime(z)'
  BY <1>5
     DEF Submit,
         IInv, TypeOK, RunnerShape, Busy, HeartbeatsInTime, Held
<1>6. ASSUME NEW p \in Proc, NEW t \in Thread, Ask(p, t) PROVE HeartbeatsInTime(z)'
  BY <1>6
     DEF Ask, BeginStart, MayStart,
         IInv, TypeOK, RunnerShape, Busy, HeartbeatsInTime, Held
<1>7. ASSUME NEW p \in Proc, NEW t \in Thread, Dispatch(p, t) PROVE HeartbeatsInTime(z)'
  BY <1>7
     DEF Dispatch, BeginStart, MayStart,
         IInv, TypeOK, RunnerShape, Busy, HeartbeatsInTime, Held
<1>8. ASSUME NEW p \in Proc, ThreadRefused(p) PROVE HeartbeatsInTime(z)'
  BY <1>8
     DEF ThreadRefused,
         IInv, TypeOK, RunnerShape, Busy, HeartbeatsInTime, Held
<1>9. ASSUME NEW p \in Proc, ThreadAcquired(p) PROVE HeartbeatsInTime(z)'
  <2>1. \A j \in Key : lease'[j] = IF j = job[p] THEN [owner |-> p, age |-> 0] ELSE lease[j]
    BY <1>9, HeldByRows DEF ThreadAcquired
  <2> QED
    BY <1>9, <2>1
       DEF ThreadAcquired, Live, LiveAmong, Up,
           IInv, TypeOK, RunnerShape, Busy, HeartbeatsInTime, Held
<1>10. ASSUME NEW p \in Proc, MachineRefused(p) PROVE HeartbeatsInTime(z)'
  BY <1>10
     DEF MachineRefused,
         IInv, TypeOK, RunnerShape, Busy, HeartbeatsInTime, Held
<1>11. ASSUME NEW p \in Proc, MachineAcquired(p) PROVE HeartbeatsInTime(z)'
  <2>1. \A j \in Key : lease'[j] = IF j = Machine THEN [owner |-> p, age |-> 0] ELSE lease[j]
    BY <1>11, HeldByRows DEF MachineAcquired
  <2> QED
    BY <1>11, <2>1
       DEF MachineAcquired, Live, LiveAmong, Up,
           IInv, TypeOK, RunnerShape, Busy, HeartbeatsInTime, Held
<1>12. ASSUME NEW p \in Proc, UndoThread(p) PROVE HeartbeatsInTime(z)'
  <2>1. \A j \in Key : lease'[j] = IF j = job[p] /\ lease[j].owner = p THEN NoLease ELSE lease[j]
    BY <1>12, ReleasedRows DEF UndoThread
  <2> QED
    BY <1>12, <2>1
       DEF UndoThread,
           IInv, TypeOK, RunnerShape, Busy, HeartbeatsInTime, Held
<1>13. ASSUME NEW p \in Proc, Claim(p) PROVE HeartbeatsInTime(z)'
  BY <1>13
     DEF Claim,
         IInv, TypeOK, RunnerShape, Busy, HeartbeatsInTime, Held
<1>14. ASSUME NEW p \in Proc, LeaveLoop(p) PROVE HeartbeatsInTime(z)'
  BY <1>14
     DEF LeaveLoop,
         IInv, TypeOK, RunnerShape, Busy, HeartbeatsInTime, Held
<1>15. ASSUME NEW p \in Proc,
              NEW outcome \in {"done", "cancelled"}, EndTurn(p, outcome) PROVE HeartbeatsInTime(z)'
  BY <1>15
     DEF EndTurn,
         IInv, TypeOK, RunnerShape, Busy, HeartbeatsInTime, Held
<1>16. ASSUME NEW p \in Proc, FreeThread(p) PROVE HeartbeatsInTime(z)'
  <2>1. \A j \in Key : lease'[j] = IF j = job[p] /\ lease[j].owner = p THEN NoLease ELSE lease[j]
    BY <1>16, ReleasedRows DEF FreeThread
  <2> QED
    BY <1>16, <2>1
       DEF FreeThread,
           IInv, TypeOK, RunnerShape, Busy, HeartbeatsInTime, Held
<1>17. ASSUME NEW p \in Proc, FreeMachine(p) PROVE HeartbeatsInTime(z)'
  <2>1. \A j \in Key : lease'[j] = IF j = Machine /\ lease[j].owner = p THEN NoLease ELSE lease[j]
    BY <1>17, ReleasedRows DEF FreeMachine
  <2> QED
    BY <1>17, <2>1
       DEF FreeMachine,
           IInv, TypeOK, RunnerShape, Busy, HeartbeatsInTime, Held
<1>18. ASSUME NEW p \in Proc, BeatThread(p) PROVE HeartbeatsInTime(z)'
  <2>1. \A j \in Key : lease'[j] = IF j = job[p] /\ lease[j].owner = p
                          THEN [owner |-> p, age |-> 0] ELSE lease[j]
    BY <1>18, RenewedRows DEF BeatThread
  <2> QED
    BY <1>18, <2>1
       DEF BeatThread,
           IInv, TypeOK, RunnerShape, Busy, HeartbeatsInTime, Held
<1>19. ASSUME NEW p \in Proc, BeatMachine(p) PROVE HeartbeatsInTime(z)'
  <2>1. \A j \in Key : lease'[j] = IF j = Machine /\ lease[j].owner = p
                          THEN [owner |-> p, age |-> 0] ELSE lease[j]
    BY <1>19, RenewedRows DEF BeatMachine
  <2> QED
    BY <1>19, <2>1
       DEF BeatMachine,
           IInv, TypeOK, RunnerShape, Busy, HeartbeatsInTime, Held
<1>20. ASSUME NEW p \in Proc, BeatDies(p) PROVE HeartbeatsInTime(z)'
  BY <1>20
     DEF BeatDies,
         IInv, TypeOK, RunnerShape, Busy, HeartbeatsInTime, Held
<1>21. ASSUME NEW q \in Prompt, CancelQueued(q) PROVE HeartbeatsInTime(z)'
  BY <1>21
     DEF CancelQueued, runner,
         IInv, TypeOK, RunnerShape, Busy, HeartbeatsInTime, Held
<1>22. ASSUME ClearStale PROVE HeartbeatsInTime(z)'
  BY <1>22
     DEF ClearStale, runner, Live, LiveAmong, Up,
         IInv, TypeOK, RunnerShape, Busy, HeartbeatsInTime, Held
<1>23. ASSUME Tick PROVE HeartbeatsInTime(z)'
  <2>1. OnTime(z) /\ pc'[z] = pc[z] /\ beat'[z] = beat[z] /\ job'[z] = job[z]
    BY <1>23 DEF Tick
  <2>2. pc[z] = "tryMachine" \/ beat[z] \in {"wait", "machine"}
            => since'[z] = since[z] + 1
    BY <1>23, <2>1 DEF Tick, OnTime, IInv, TypeOK
  <2>3. \A k \in Key : lease'[k].owner = lease[k].owner
                      /\ lease'[k].age <= lease[k].age + 1
    BY <1>23 DEF Tick, LeaseRow
  <2>4. HeartbeatsInTime(z) /\ RunnerShape(z)
    BY DEF IInv
  <2>5. /\ pc[z] = "tryMachine" => job[z] \in Key
        /\ beat[z] # "off" => job[z] \in Key
        /\ \A k \in Key : lease'[k].age \in Nat
    BY <2>4, TypeStep, <1>23 DEF RunnerShape, Busy, Tick, IInv, TypeOK, LeaseRow, Next
  <2> QED
    BY <2>1, <2>2, <2>3, <2>4, <2>5 DEF HeartbeatsInTime, Held, OnTime
<1>24. ASSUME UNCHANGED vars PROVE HeartbeatsInTime(z)'
  BY <1>24
     DEF vars,
         IInv, TypeOK, RunnerShape, Busy, HeartbeatsInTime, Held
<1>25. ASSUME NEW p \in Proc, LoopRaises(p) PROVE HeartbeatsInTime(z)'
  BY <1>25 DEF LoopRaises, 
         IInv, TypeOK, RunnerShape, Busy, HeartbeatsInTime, Held
<1>26. ASSUME NEW p \in Proc, LeaseCallRaises(p) PROVE HeartbeatsInTime(z)'
  BY <1>26 DEF LeaseCallRaises, 
         IInv, TypeOK, RunnerShape, Busy, HeartbeatsInTime, Held
<1> QED
  BY <1>1, <1>2, <1>3, <1>4, <1>5, <1>6, <1>7, <1>8, <1>9, <1>10, <1>11,
     <1>12, <1>13, <1>14, <1>15, <1>16, <1>17, <1>18, <1>19, <1>20, <1>21,
     <1>22, <1>23, <1>24, <1>25, <1>26
     DEF Next, Lifecycle, Starting, Draining, Raising, Beating

\* What a starting process recovers is never the turn of a reliable one.
LEMMA RecoveryMissesTurns ==
    ASSUME IInv, NEW p \in Proc, pc[p] = "down", NEW z \in Running \cap Reliable
    PROVE  item[z] \notin Abandoned({r \in Proc : Up(r)} \cup {p}, p, p \in PidReuse)
<1>1. Held(job[z], z, StaleAfter) /\ z # p /\ Up(z)
  BY KeptFresh DEF Running, IInv, RunnerShape, Up
<1>2. row[item[z]].thread = job[z]
  BY DEF IInv, TurnsOwnTheirRows
<1> QED
  BY <1>1, <1>2 DEF Abandoned, Held, LiveAmong, Running

\* Each step keeps a running turn's row its own.
LEMMA TurnStep == IInv /\ [Next]_vars => TurnsOwnTheirRows'
<1> SUFFICES ASSUME IInv, [Next]_vars PROVE TurnsOwnTheirRows'
  OBVIOUS
<1>1. ASSUME NEW p \in Proc, Boot(p) PROVE TurnsOwnTheirRows'
  <2>1. \A z \in Running \cap Reliable :
            item[z] \notin Abandoned({r \in Proc : Up(r)} \cup {p}, p, p \in PidReuse)
    BY <1>1, RecoveryMissesTurns DEF Boot
  <2>2. Running' = Running /\ item' = item /\ job' = job
    BY <1>1 DEF Boot, Running, IInv, TypeOK
  <2>3. \A q \in Prompt :
            /\ row'[q].thread = row[q].thread
            /\ \/ row'[q].status = row[q].status
               \/ row[q].status = "running" /\ row'[q].status = "cancelled"
    <3>1. row \in [Prompt -> [thread : Thread \cup {Nobody}, status : Status]]
      BY DEF IInv, TypeOK
    <3>2. CASE p \in Scheduled
      <4>1. PICK S \in SUBSET {q \in Prompt : row[q].status = "running"} :
              row' = [q \in Prompt |->
                  IF q \in S THEN [row[q] EXCEPT !.status = "cancelled"] ELSE row[q]]
        BY <1>1, <3>2 DEF Boot, Abandoned
      <4>2. \A q \in S : row'[q].thread = row[q].thread
                         /\ row[q].status = "running" /\ row'[q].status = "cancelled"
        BY <3>1, <4>1
      <4>3. \A q \in Prompt \ S : row'[q] = row[q]
        BY <4>1
      <4> QED
        BY <4>2, <4>3
    <3>3. CASE p \notin Scheduled
      <4>1. row' = row
        BY <1>1, <3>3 DEF Boot
      <4> QED
        BY <4>1
    <3> QED
      BY <3>2, <3>3
  <2>4. \A z \in Running \cap Reliable : row'[item[z]] = row[item[z]]
    BY <1>1, <2>1 DEF Boot, Running, IInv, TypeOK, RunnerShape
  <2>5. \A z \in Running : item[z] \in Prompt
    BY DEF Running, IInv, TypeOK, RunnerShape
  <2> QED
    BY <2>2, <2>3, <2>4, <2>5 DEF IInv, TurnsOwnTheirRows
<1>2. ASSUME NEW p \in Proc, Crash(p) PROVE TurnsOwnTheirRows'
  BY <1>2
     DEF Crash, Die,
         TurnsOwnTheirRows, Running, IInv, TypeOK, RunnerShape, NoPrompt
<1>3. ASSUME NEW p \in Proc, Stop(p) PROVE TurnsOwnTheirRows'
  BY <1>3
     DEF Stop,
         TurnsOwnTheirRows, Running, IInv, TypeOK, RunnerShape, NoPrompt
<1>4. ASSUME NEW p \in Proc, Exit(p) PROVE TurnsOwnTheirRows'
  BY <1>4
     DEF Exit, Die,
         TurnsOwnTheirRows, Running, IInv, TypeOK, RunnerShape, NoPrompt
<1>5. ASSUME NEW p \in Proc, NEW t \in Thread, Submit(p, t) PROVE TurnsOwnTheirRows'
  BY <1>5
     DEF Submit,
         TurnsOwnTheirRows, Running, IInv, TypeOK, RunnerShape, NoPrompt
<1>6. ASSUME NEW p \in Proc, NEW t \in Thread, Ask(p, t) PROVE TurnsOwnTheirRows'
  BY <1>6
     DEF Ask, BeginStart, MayStart,
         TurnsOwnTheirRows, Running, IInv, TypeOK, RunnerShape, NoPrompt
<1>7. ASSUME NEW p \in Proc, NEW t \in Thread, Dispatch(p, t) PROVE TurnsOwnTheirRows'
  BY <1>7
     DEF Dispatch, BeginStart, MayStart,
         TurnsOwnTheirRows, Running, IInv, TypeOK, RunnerShape, NoPrompt
<1>8. ASSUME NEW p \in Proc, ThreadRefused(p) PROVE TurnsOwnTheirRows'
  BY <1>8
     DEF ThreadRefused,
         TurnsOwnTheirRows, Running, IInv, TypeOK, RunnerShape, NoPrompt
<1>9. ASSUME NEW p \in Proc, ThreadAcquired(p) PROVE TurnsOwnTheirRows'
  BY <1>9
     DEF ThreadAcquired,
         TurnsOwnTheirRows, Running, IInv, TypeOK, RunnerShape, NoPrompt
<1>10. ASSUME NEW p \in Proc, MachineRefused(p) PROVE TurnsOwnTheirRows'
  BY <1>10
     DEF MachineRefused,
         TurnsOwnTheirRows, Running, IInv, TypeOK, RunnerShape, NoPrompt
<1>11. ASSUME NEW p \in Proc, MachineAcquired(p) PROVE TurnsOwnTheirRows'
  BY <1>11
     DEF MachineAcquired,
         TurnsOwnTheirRows, Running, IInv, TypeOK, RunnerShape, NoPrompt
<1>12. ASSUME NEW p \in Proc, UndoThread(p) PROVE TurnsOwnTheirRows'
  BY <1>12
     DEF UndoThread,
         TurnsOwnTheirRows, Running, IInv, TypeOK, RunnerShape, NoPrompt
<1>13. ASSUME NEW p \in Proc, Claim(p) PROVE TurnsOwnTheirRows'
  BY <1>13
     DEF Claim, IsOldest, Queued,
         TurnsOwnTheirRows, Running, IInv, TypeOK, RunnerShape, NoPrompt
<1>14. ASSUME NEW p \in Proc, LeaveLoop(p) PROVE TurnsOwnTheirRows'
  BY <1>14
     DEF LeaveLoop,
         TurnsOwnTheirRows, Running, IInv, TypeOK, RunnerShape, NoPrompt
<1>15. ASSUME NEW p \in Proc,
              NEW outcome \in {"done", "cancelled"}, EndTurn(p, outcome) PROVE TurnsOwnTheirRows'
  BY <1>15
     DEF EndTurn,
         TurnsOwnTheirRows, Running, IInv, TypeOK, RunnerShape, NoPrompt
<1>16. ASSUME NEW p \in Proc, FreeThread(p) PROVE TurnsOwnTheirRows'
  BY <1>16
     DEF FreeThread,
         TurnsOwnTheirRows, Running, IInv, TypeOK, RunnerShape, NoPrompt
<1>17. ASSUME NEW p \in Proc, FreeMachine(p) PROVE TurnsOwnTheirRows'
  BY <1>17
     DEF FreeMachine,
         TurnsOwnTheirRows, Running, IInv, TypeOK, RunnerShape, NoPrompt
<1>18. ASSUME NEW p \in Proc, BeatThread(p) PROVE TurnsOwnTheirRows'
  BY <1>18
     DEF BeatThread,
         TurnsOwnTheirRows, Running, IInv, TypeOK, RunnerShape, NoPrompt
<1>19. ASSUME NEW p \in Proc, BeatMachine(p) PROVE TurnsOwnTheirRows'
  BY <1>19
     DEF BeatMachine,
         TurnsOwnTheirRows, Running, IInv, TypeOK, RunnerShape, NoPrompt
<1>20. ASSUME NEW p \in Proc, BeatDies(p) PROVE TurnsOwnTheirRows'
  BY <1>20
     DEF BeatDies,
         TurnsOwnTheirRows, Running, IInv, TypeOK, RunnerShape, NoPrompt
<1>21. ASSUME NEW q \in Prompt, CancelQueued(q) PROVE TurnsOwnTheirRows'
  BY <1>21
     DEF CancelQueued, runner,
         TurnsOwnTheirRows, Running, IInv, TypeOK, RunnerShape, NoPrompt
<1>22. ASSUME ClearStale PROVE TurnsOwnTheirRows'
  BY <1>22
     DEF ClearStale, runner,
         TurnsOwnTheirRows, Running, IInv, TypeOK, RunnerShape, NoPrompt
<1>23. ASSUME Tick PROVE TurnsOwnTheirRows'
  BY <1>23
     DEF Tick,
         TurnsOwnTheirRows, Running, IInv, TypeOK, RunnerShape, NoPrompt
<1>24. ASSUME UNCHANGED vars PROVE TurnsOwnTheirRows'
  BY <1>24
     DEF vars,
         TurnsOwnTheirRows, Running, IInv, TypeOK, RunnerShape, NoPrompt
<1>25. ASSUME NEW p \in Proc, LoopRaises(p) PROVE TurnsOwnTheirRows'
  BY <1>25 DEF LoopRaises, 
         TurnsOwnTheirRows, Running, IInv, TypeOK, RunnerShape, NoPrompt
<1>26. ASSUME NEW p \in Proc, LeaseCallRaises(p) PROVE TurnsOwnTheirRows'
  BY <1>26 DEF LeaseCallRaises, 
         TurnsOwnTheirRows, Running, IInv, TypeOK, RunnerShape, NoPrompt
<1> QED
  BY <1>1, <1>2, <1>3, <1>4, <1>5, <1>6, <1>7, <1>8, <1>9, <1>10, <1>11,
     <1>12, <1>13, <1>14, <1>15, <1>16, <1>17, <1>18, <1>19, <1>20, <1>21,
     <1>22, <1>23, <1>24, <1>25, <1>26
     DEF Next, Lifecycle, Starting, Draining, Raising, Beating

-----------------------------------------------------------------------------
\* Nothing runs and nothing is leased at first.
LEMMA InitInv == Init => IInv
<1> SUFFICES ASSUME Init PROVE IInv
  OBVIOUS
<1> USE BoundAssumption, TimeAssumption, KeyAssumption
<1>1. TypeOK
  BY DEF Init, TypeOK, LeaseRow, NoLease, Status, PC, Beat, NoPrompt, BeatBy
<1>2. /\ \A p \in Proc : RunnerShape(p) /\ LeasesMatchPc(p)
      /\ \A p \in Proc : HeartbeatsInTime(p)
      /\ Running = {}
  BY DEF Init, RunnerShape, Busy, NoPrompt, LeasesMatchPc, NoLease,
         HeartbeatsInTime, Running
<1> QED
  BY <1>1, <1>2 DEF IInv, Reliable, TurnsOwnTheirRows

\* The whole invariant holds of every behaviour.
LEMMA Invariance == Spec => []IInv
<1>1. IInv /\ [Next]_vars => IInv'
  <2>1. Reliable' = Reliable
    BY DEF Reliable
  <2> QED
    BY <2>1, TypeStep, ShapeStep, OwnerStep, HeartbeatStep, TurnStep DEF IInv
<1> QED
  BY <1>1, InitInv, PTL DEF Spec

\* Every variable keeps its type: rows of the two tables, program counters,
\* and the clocks, whatever the processes and the web routes do.
THEOREM TypeCorrect == Spec => []TypeOK
<1>1. IInv => TypeOK
  BY DEF IInv
<1> QED
  BY <1>1, Invariance, PTL

\* A reliable worker's two leases are its own and live from its first claim to
\* its last (_drain and _Heartbeat), for every timing with
\* BeatEvery + 2 MaxLate <= StaleAfter and whatever unreliable processes do.
THEOREM LeasesAreKept == Spec => []WorkerHoldsItsLeases
<1>1. IInv => WorkerHoldsItsLeases
  <2> SUFFICES ASSUME IInv, NEW p \in Reliable, pc[p] \in {"drain", "turn"},
                      NEW k \in {job[p], Machine}
               PROVE  lease[k].owner = p /\ Live(k)
    BY DEF WorkerHoldsItsLeases
  <2>1. beat[p] # "off" /\ p \in Proc
    BY DEF IInv, RunnerShape, Reliable
  <2> QED
    BY <2>1, KeptFresh DEF Held, Live, LiveAmong, Up
<1> QED
  BY <1>1, Invariance, PTL

\* The gate itself (runner.py:5-10): two reliable processes are never inside
\* _run_one together, because both would own the one machine lease.
THEOREM MutualExclusion == Spec => []OneTurnPerMachine
<1>1. IInv => OneTurnPerMachine
  <2> SUFFICES ASSUME IInv, NEW p \in Running \cap Reliable,
                      NEW r \in Running \cap Reliable
               PROVE  p = r
    BY DEF OneTurnPerMachine
  <2>1. beat[p] # "off" /\ beat[r] # "off"
    BY DEF Running, IInv, RunnerShape
  <2> QED
    BY <2>1, KeptFresh DEF Held
<1> QED
  BY <1>1, Invariance, PTL

\* Recovery, a lease clear, a cancel or another worker's finish() never touches
\* the row of a turn a reliable process is running (store.py:393-463).
THEOREM TurnStaysOnRecord == Spec => []RunningTurnIsOnRecord
<1>1. IInv => RunningTurnIsOnRecord
  BY DEF IInv, TurnsOwnTheirRows, RunningTurnIsOnRecord
<1> QED
  BY <1>1, Invariance, PTL

\* No path through _start_worker and _drain, and no restart, leaves a lease in
\* the name of a runner that is doing nothing (runner.py:175-223).
THEOREM NoLeaseLeak == Spec => []IdleHoldsNoLease
<1>1. IInv => IdleHoldsNoLease
  BY DEF IInv, LeasesMatchPc, IdleHoldsNoLease
<1> QED
  BY <1>1, Invariance, PTL

-----------------------------------------------------------------------------
(* The control plane implements the gate, when every process is reliable.  *)

TurnKnown ==
    /\ \A p \in Running : CurrentTurn = item[p]
    /\ Running = {} => CurrentTurn = NoPrompt

\* Two reliable processes that drain are one: both own the machine lease.
LEMMA OneDrain ==
    ASSUME Unreliable = {}, IInv,
           NEW p \in Proc, pc[p] \in {"drain", "turn"},
           NEW r \in Proc, pc[r] \in {"drain", "turn"}
    PROVE  p = r
<1>1. beat[p] # "off" /\ beat[r] # "off"
  BY DEF IInv, RunnerShape
<1> QED
  BY <1>1, KeptFresh DEF Held, Reliable

\* When all are reliable, at most one turn runs, so the gate's turn is known.
LEMMA CurrentTurnIs == Unreliable = {} /\ IInv => TurnKnown
<1> SUFFICES ASSUME Unreliable = {}, IInv PROVE TurnKnown
  OBVIOUS
<1>1. \A p, r \in Running : p = r
  BY OneDrain DEF Running
<1> QED
  BY <1>1 DEF CurrentTurn, Running, TurnKnown

\* Every step of the control plane is a step of the gate, or leaves it alone.
LEMMA GateStep ==
    ASSUME Unreliable = {}, IInv, TurnKnown, TurnKnown', [Next]_vars
    PROVE  [Gate!GateNext]_(Gate!gateVars)
<1> DEFINE Step == [Gate!GateNext]_(Gate!gateVars)
<1> SUFFICES Step
  OBVIOUS
<1>1. ASSUME NEW p \in Proc, Boot(p) PROVE Step
  <2>1. UNCHANGED <<CurrentTurn, Running, item>>
    <3>1. UNCHANGED <<Running, item>>
      BY <1>1 DEF Boot, Running, IInv, TypeOK
    <3> QED
      BY <3>1 DEF TurnKnown
  <2>2. CASE p \in Scheduled
    <3>1. PICK S \in SUBSET Prompt :
            S = Abandoned({r \in Proc : Up(r)} \cup {p}, p, p \in PidReuse)
      BY DEF Abandoned
    <3>2. row' = [q \in Prompt |->
                    IF q \in S THEN [row[q] EXCEPT !.status = "cancelled"] ELSE row[q]]
      BY <1>1, <2>2, <3>1 DEF Boot
    <3>3. \A q \in S : row[q].status = "running"
      BY <3>1 DEF Abandoned
    <3>4. \A q \in S : q # CurrentTurn
      <4>1. CASE Running = {}
        BY <4>1 DEF TurnKnown, Prompt, NoPrompt
      <4>2. ASSUME NEW z \in Running PROVE \A q \in S : q # CurrentTurn
        <5>1. CurrentTurn = item[z] /\ z \in Running \cap Reliable
          BY <4>2 DEF TurnKnown, Running, Reliable
        <5> QED
          BY <1>1, <3>1, <5>1, RecoveryMissesTurns DEF Boot
      <4> QED
        BY <4>1, <4>2
    <3>5. \A q \in Prompt : /\ row'[q].thread = row[q].thread
                            /\ row'[q].status = IF q \in S THEN "cancelled"
                                                ELSE row[q].status
      BY <3>2 DEF IInv, TypeOK
    <3>6. Gate!Close(S)
      BY <2>1, <3>3, <3>4, <3>5 DEF Gate!Close
    <3> QED
      BY <3>6 DEF Gate!GateNext
  <2>3. CASE p \notin Scheduled
    BY <1>1, <2>1, <2>3 DEF Boot, Gate!gateVars
  <2> QED
    BY <2>2, <2>3
<1>2. ASSUME NEW p \in Proc, Crash(p) PROVE Step
  <2>1. CASE pc[p] = "turn"
    <3>1. Running' = {} /\ row' = row /\ item[p] \in Prompt
      BY <1>2, <2>1, OneDrain DEF Crash, Die, Running, IInv, TypeOK, RunnerShape
    <3>2. CurrentTurn' = NoPrompt /\ CurrentTurn # NoPrompt
      BY <2>1, <3>1 DEF TurnKnown, Running, Prompt, NoPrompt
    <3>3. Gate!Orphan
      BY <3>1, <3>2 DEF Gate!Orphan
    <3> QED
      BY <3>3 DEF Gate!GateNext
  <2>2. CASE pc[p] # "turn"
    <3>1. Running' = Running /\ row' = row /\ \A z \in Running : item'[z] = item[z]
      BY <1>2, <2>2 DEF Crash, Die, Running, IInv, TypeOK, RunnerShape
    <3>2. CurrentTurn' = CurrentTurn
      BY <3>1 DEF TurnKnown
    <3> QED
      BY <3>1, <3>2 DEF Gate!gateVars
  <2> QED
    BY <2>1, <2>2
<1>3. ASSUME NEW p \in Proc, Stop(p) PROVE Step
  <2>1. UNCHANGED <<row, item, Running>>
    BY <1>3 DEF Stop, Running, IInv, TypeOK, RunnerShape
  <2> QED
    BY <2>1 DEF TurnKnown, Gate!gateVars
<1>4. ASSUME NEW p \in Proc, Exit(p) PROVE Step
  <2>1. CASE pc[p] = "turn"
    <3>1. Running' = {} /\ row' = row /\ item[p] \in Prompt
      BY <1>4, <2>1, OneDrain DEF Exit, Die, Running, IInv, TypeOK, RunnerShape
    <3>2. CurrentTurn' = NoPrompt /\ CurrentTurn # NoPrompt
      BY <2>1, <3>1 DEF TurnKnown, Running, Prompt, NoPrompt
    <3>3. Gate!Orphan
      BY <3>1, <3>2 DEF Gate!Orphan
    <3> QED
      BY <3>3 DEF Gate!GateNext
  <2>2. CASE pc[p] # "turn"
    <3>1. Running' = Running /\ row' = row /\ \A z \in Running : item'[z] = item[z]
      BY <1>4, <2>2 DEF Exit, Die, Running, IInv, TypeOK, RunnerShape
    <3>2. CurrentTurn' = CurrentTurn
      BY <3>1 DEF TurnKnown
    <3> QED
      BY <3>1, <3>2 DEF Gate!gateVars
  <2> QED
    BY <2>1, <2>2
<1>5. ASSUME NEW p \in Proc, NEW t \in Thread, Submit(p, t) PROVE Step
  <2>1. UNCHANGED <<CurrentTurn>>
    BY <1>5 DEF Submit, CurrentTurn, Running
  <2>2. PICK q \in Prompt :
            /\ row[q].status = "none"
            /\ \A r \in Prompt : r < q => row[r].status # "none"
            /\ row' = [row EXCEPT ![q] = [thread |-> t, status |-> "queued"]]
    BY <1>5 DEF Submit
  <2>3. Gate!Accept(q, t)
    BY <2>1, <2>2 DEF Gate!Accept, IInv, TypeOK
  <2> QED
    BY <2>3 DEF Gate!GateNext
<1>6. ASSUME NEW p \in Proc, NEW t \in Thread, Ask(p, t) PROVE Step
  <2>1. UNCHANGED <<row, item, Running>>
    BY <1>6 DEF Ask, BeginStart, MayStart, Running, IInv, TypeOK, RunnerShape
  <2> QED
    BY <2>1 DEF TurnKnown, Gate!gateVars
<1>7. ASSUME NEW p \in Proc, NEW t \in Thread, Dispatch(p, t) PROVE Step
  <2>1. UNCHANGED <<row, item, Running>>
    BY <1>7 DEF Dispatch, BeginStart, MayStart, Running, IInv, TypeOK, RunnerShape
  <2> QED
    BY <2>1 DEF TurnKnown, Gate!gateVars
<1>8. ASSUME NEW p \in Proc, ThreadRefused(p) PROVE Step
  <2>1. UNCHANGED <<row, item, Running>>
    BY <1>8 DEF ThreadRefused, Running, IInv, TypeOK, RunnerShape
  <2> QED
    BY <2>1 DEF TurnKnown, Gate!gateVars
<1>9. ASSUME NEW p \in Proc, ThreadAcquired(p) PROVE Step
  <2>1. UNCHANGED <<row, item, Running>>
    BY <1>9 DEF ThreadAcquired, Running, IInv, TypeOK, RunnerShape
  <2> QED
    BY <2>1 DEF TurnKnown, Gate!gateVars
<1>10. ASSUME NEW p \in Proc, MachineRefused(p) PROVE Step
  <2>1. UNCHANGED <<row, item, Running>>
    BY <1>10 DEF MachineRefused, Running, IInv, TypeOK, RunnerShape
  <2> QED
    BY <2>1 DEF TurnKnown, Gate!gateVars
<1>11. ASSUME NEW p \in Proc, MachineAcquired(p) PROVE Step
  <2>1. UNCHANGED <<row, item, Running>>
    BY <1>11 DEF MachineAcquired, Running, IInv, TypeOK, RunnerShape
  <2> QED
    BY <2>1 DEF TurnKnown, Gate!gateVars
<1>12. ASSUME NEW p \in Proc, UndoThread(p) PROVE Step
  <2>1. UNCHANGED <<row, item, Running>>
    BY <1>12 DEF UndoThread, Running, IInv, TypeOK, RunnerShape
  <2> QED
    BY <2>1 DEF TurnKnown, Gate!gateVars
<1>13. ASSUME NEW p \in Proc, Claim(p) PROVE Step
  <2>1. Running = {}
    BY <1>13, OneDrain DEF Claim, Running
  <2>2. PICK q \in Prompt :
            /\ IsOldest(q, Queued(job[p]))
            /\ row' = [row EXCEPT ![q].status = "running"]
            /\ item' = [item EXCEPT ![p] = q]
    BY <1>13 DEF Claim
  <2>3. p \in Running' /\ item'[p] = q
    BY <1>13, <2>2 DEF Claim, Running, IInv, TypeOK, RunnerShape
  <2>4. CurrentTurn = NoPrompt /\ CurrentTurn' = q
    BY <2>1, <2>3 DEF TurnKnown
  <2>5. /\ row[q].status = "queued"
        /\ \A r \in Prompt : r < q =>
              ~(row[r].status = "queued" /\ row[r].thread = row[q].thread)
    BY <2>2 DEF IsOldest, Queued, Prompt
  <2>6. Gate!Begin(q)
    BY <2>2, <2>4, <2>5 DEF Gate!Begin, IInv, TypeOK
  <2> QED
    BY <2>6 DEF Gate!GateNext
<1>14. ASSUME NEW p \in Proc, LeaveLoop(p) PROVE Step
  <2>1. UNCHANGED <<row, item, Running>>
    BY <1>14 DEF LeaveLoop, Running, IInv, TypeOK, RunnerShape
  <2> QED
    BY <2>1 DEF TurnKnown, Gate!gateVars
<1>15. ASSUME NEW p \in Proc,
              NEW outcome \in {"done", "cancelled"}, EndTurn(p, outcome) PROVE Step
  <2>1. p \in Running /\ item[p] \in Prompt /\ row[item[p]].status = "running"
    BY <1>15 DEF EndTurn, Running, IInv, TypeOK, RunnerShape, TurnsOwnTheirRows, Reliable
  <2>2. Running' = {}
    BY <1>15, <2>1, OneDrain DEF EndTurn, Running, IInv, TypeOK
  <2>3. CurrentTurn = item[p] /\ CurrentTurn' = NoPrompt
    BY <2>1, <2>2 DEF TurnKnown
  <2>4. Gate!Conclude(item[p], outcome)
    BY <1>15, <2>1, <2>3 DEF EndTurn, Gate!Conclude, IInv, TypeOK
  <2> QED
    BY <2>1, <2>4 DEF Gate!GateNext
<1>16. ASSUME NEW p \in Proc, FreeThread(p) PROVE Step
  <2>1. UNCHANGED <<row, item, Running>>
    BY <1>16 DEF FreeThread, Running, IInv, TypeOK, RunnerShape
  <2> QED
    BY <2>1 DEF TurnKnown, Gate!gateVars
<1>17. ASSUME NEW p \in Proc, FreeMachine(p) PROVE Step
  <2>1. UNCHANGED <<row, item, Running>>
    BY <1>17 DEF FreeMachine, Running, IInv, TypeOK, RunnerShape
  <2> QED
    BY <2>1 DEF TurnKnown, Gate!gateVars
<1>18. ASSUME NEW p \in Proc, BeatThread(p) PROVE Step
  <2>1. UNCHANGED <<row, item, Running>>
    BY <1>18 DEF BeatThread, Running, IInv, TypeOK, RunnerShape
  <2> QED
    BY <2>1 DEF TurnKnown, Gate!gateVars
<1>19. ASSUME NEW p \in Proc, BeatMachine(p) PROVE Step
  <2>1. UNCHANGED <<row, item, Running>>
    BY <1>19 DEF BeatMachine, Running, IInv, TypeOK, RunnerShape
  <2> QED
    BY <2>1 DEF TurnKnown, Gate!gateVars
<1>20. ASSUME NEW p \in Proc, BeatDies(p) PROVE Step
  <2>1. UNCHANGED <<row, item, Running>>
    BY <1>20 DEF BeatDies, Running, IInv, TypeOK, RunnerShape
  <2> QED
    BY <2>1 DEF TurnKnown, Gate!gateVars
<1>21. ASSUME NEW q \in Prompt, CancelQueued(q) PROVE Step
  <2>1. UNCHANGED <<CurrentTurn>>
    BY <1>21 DEF CancelQueued, runner, CurrentTurn, Running
  <2>2. Gate!Withdraw(q)
    BY <1>21, <2>1 DEF CancelQueued, Gate!Withdraw, IInv, TypeOK
  <2> QED
    BY <2>2 DEF Gate!GateNext
<1>22. ASSUME ClearStale PROVE Step
  <2>1. UNCHANGED <<row, item, Running>>
    BY <1>22 DEF ClearStale, runner, Running, IInv, TypeOK, RunnerShape
  <2> QED
    BY <2>1 DEF TurnKnown, Gate!gateVars
<1>23. ASSUME Tick PROVE Step
  <2>1. UNCHANGED <<row, item, Running>>
    BY <1>23 DEF Tick, Running, IInv, TypeOK, RunnerShape
  <2> QED
    BY <2>1 DEF TurnKnown, Gate!gateVars
<1>24. ASSUME UNCHANGED vars PROVE Step
  <2>1. UNCHANGED <<row, item, Running>>
    BY <1>24 DEF vars, Running, IInv, TypeOK, RunnerShape
  <2> QED
    BY <2>1 DEF TurnKnown, Gate!gateVars
<1>25. ASSUME NEW p \in Proc, LoopRaises(p) PROVE Step
  BY <1>25 DEF LoopRaises
<1>26. ASSUME NEW p \in Proc, LeaseCallRaises(p) PROVE Step
  BY <1>26 DEF LeaseCallRaises
<1> QED
  BY <1>1, <1>2, <1>3, <1>4, <1>5, <1>6, <1>7, <1>8, <1>9, <1>10, <1>11,
     <1>12, <1>13, <1>14, <1>15, <1>16, <1>17, <1>18, <1>19, <1>20, <1>21,
     <1>22, <1>23, <1>24, <1>25, <1>26
     DEF Next, Lifecycle, Starting, Draining, Raising, Beating

\* An initial state is one of the gate.
LEMMA GateInit == Init => Gate!GateInit
<1> SUFFICES ASSUME Init PROVE Gate!GateInit
  OBVIOUS
<1>1. CurrentTurn = NoPrompt
  BY DEF Init, CurrentTurn, Running
<1> QED
  BY <1>1 DEF Init, Gate!GateInit

\* ControlPlane implements TurnGate: through every crash, restart, stop,
\* cancel, lease clear and lost race, prompts begin in order, at most once, one
\* at a time, and a closed prompt stays closed (runner.py:1-20).
THEOREM Refinement == ASSUME Unreliable = {} PROVE Spec => ImplementsGate
<1>1. IInv => TurnKnown
  BY CurrentTurnIs
<1>2. IInv /\ TurnKnown /\ TurnKnown' /\ [Next]_vars => [Gate!GateNext]_(Gate!gateVars)
  BY GateStep
<1> QED
  BY <1>1, <1>2, GateInit, Invariance, PTL
     DEF Spec, ImplementsGate, Gate!GateSpec

=============================================================================
