------------------------------ MODULE TurnGate ------------------------------
(***************************************************************************)
(* What the control plane promises its surfaces, whatever happens to the   *)
(* processes behind it (shamsu/control/runner.py:1-20): prompts are        *)
(* accepted into a queue, at most one turn runs on the machine, a thread's *)
(* prompts start in the order they were accepted, a prompt that was        *)
(* started is never started again, and a closed prompt stays closed.       *)
(*                                                                         *)
(* No process, lease, heartbeat or clock appears here: `turn` is the       *)
(* prompt being executed, and Die is all that is left of a crash.          *)
(***************************************************************************)
EXTENDS Integers

CONSTANTS Thread, Prompt, NoThread, NoTurn

VARIABLES thread, status, turn

gateVars == <<thread, status, turn>>

GateInit ==
    /\ thread = [q \in Prompt |-> NoThread]
    /\ status = [q \in Prompt |-> "none"]
    /\ turn = NoTurn

\* A prompt is accepted: the next number, for one thread.
Accept(q, t) ==
    /\ status[q] = "none"
    /\ \A r \in Prompt : r < q => status[r] # "none"
    /\ thread' = [thread EXCEPT ![q] = t]
    /\ status' = [status EXCEPT ![q] = "queued"]
    /\ UNCHANGED turn

Withdraw(q) ==
    /\ status[q] = "queued"
    /\ status' = [status EXCEPT ![q] = "cancelled"]
    /\ UNCHANGED <<thread, turn>>

\* The one run slot is free, and q is the oldest prompt waiting on its thread.
Begin(q) ==
    /\ turn = NoTurn
    /\ status[q] = "queued"
    /\ \A r \in Prompt :
        r < q => ~(status[r] = "queued" /\ thread[r] = thread[q])
    /\ turn' = q
    /\ status' = [status EXCEPT ![q] = "running"]
    /\ UNCHANGED thread

Conclude(q, outcome) ==
    /\ turn = q
    /\ status[q] = "running"
    /\ turn' = NoTurn
    /\ status' = [status EXCEPT ![q] = outcome]
    /\ UNCHANGED thread

\* The process running the turn dies: its prompt is left marked running.
Orphan ==
    /\ turn # NoTurn
    /\ turn' = NoTurn
    /\ UNCHANGED <<thread, status>>

\* Orphaned prompts are closed, never replayed, and never one that runs.
Close(S) ==
    /\ \A q \in S : status[q] = "running" /\ q # turn
    /\ status' = [q \in Prompt |-> IF q \in S THEN "cancelled" ELSE status[q]]
    /\ UNCHANGED <<thread, turn>>

GateNext ==
    \/ \E q \in Prompt :
        \/ \E t \in Thread : Accept(q, t)
        \/ Withdraw(q)
        \/ Begin(q)
        \/ \E outcome \in {"done", "cancelled"} : Conclude(q, outcome)
    \/ Orphan
    \/ \E S \in SUBSET Prompt : Close(S)

GateSpec == GateInit /\ [][GateNext]_gateVars

=============================================================================
