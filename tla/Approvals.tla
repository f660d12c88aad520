------------------------------ MODULE Approvals ------------------------------
(***************************************************************************)
(* One approval, answerable from any surface: the approvals table of       *)
(* shamsu/control/store.py and everyone who races over a row of it.        *)
(*                                                                         *)
(*   askers    the tool call that blocks until it knows: the shared broker *)
(*             (control/approvals.py), Telegram's broker                   *)
(*             (integrations/telegram/approvals.py), the console           *)
(*             (control/console.py, cli/repl.py)                           *)
(*   answers   the web button, the Telegram button, /approve and /deny     *)
(*   sweepers  expire_approvals, run by the queue scheduler and by the     *)
(*             console's ApprovalWatcher (module ApprovalWatcher has the   *)
(*             rest of its pass)                                           *)
(*                                                                         *)
(* Each store method is one SQLite transaction and so one atomic action;   *)
(* a value read in one step and used in the next is kept in a variable.    *)
(* The wall clock (expires_at) and the asker's monotonic deadline are two  *)
(* clocks: each question has a flag for either, set in any order.          *)
(***************************************************************************)
EXTENDS Integers, FiniteSets

CONSTANTS
    Question,     \* approval ids
    Kind,         \* who may ask: a subset of Asker
    Sweeper,      \* the loops that call expire_approvals
    Nobody,       \* no decided_by
    MaxFailures   \* bound: store calls that raise

Asker == {"broker", "telegram", "console"}
Choice == {"allow", "deny"}
Surface == {"web", "telegram", "cli"}

ASSUME ApprovalAssumption ==
    /\ Kind \subseteq Asker
    /\ Nobody \notin Question \cup Asker \cup Surface \cup {"timeout"}
    /\ MaxFailures \in Nat

VARIABLES
    decision,   \* [Question -> "absent", "open" or a Choice]
    by,         \* [Question -> decided_by]
    overdue,    \* [Question -> the wall clock is past expires_at]
    late,       \* [Question -> the asker's monotonic deadline has passed]
    stopping,   \* QueuedRunner._stopping, the broker's should_stop
    kind,       \* [Question -> who asked it]
    asker,      \* [Question -> where the asking call is]
    outcome,    \* [Question -> what the asking call returned]
    typed,      \* [Question -> the console's finished `typed` task, or "none"]
    watched,    \* [Question -> the console's finished `watched` task, or "none"]
    local,      \* [Question -> TelegramApprovalBroker._pending's decision]
    press,      \* a Telegram button between its store and its local half
    command,    \* a /approve or /deny between its listing and its write
    step,       \* [Sweeper -> where its pass is]
    batch,      \* [Sweeper -> undecided rows read, not yet stamped]
    failures    \* how many store calls have raised

record == <<decision, by>>
clock == <<overdue, late, stopping>>
answers == <<typed, watched, local>>
asking == <<kind, asker, outcome, answers>>
pass == <<step, batch>>
elsewhere == <<press, command, pass>>
vars == <<record, clock, asking, elsewhere, failures>>

NoPress == [question |-> Nobody, choice |-> "deny"]
Pressed == [question : Question \cup {Nobody}, choice : Choice]

TypeOK ==
    /\ decision \in [Question -> Choice \cup {"absent", "open"}]
    /\ by \in [Question -> Surface \cup {"timeout", Nobody}]
    /\ overdue \in [Question -> BOOLEAN]
    /\ late \in [Question -> BOOLEAN]
    /\ stopping \in BOOLEAN
    /\ kind \in [Question -> Asker \cup {"fallback", Nobody}]
    /\ asker \in [Question ->
          {"new", "unmarked", "waiting", "closing", "answering", "done", "gone"}]
    /\ outcome \in [Question -> Choice \cup {"none"}]
    /\ typed \in [Question -> Choice \cup {"none"}]
    /\ watched \in [Question -> Choice \cup {"none"}]
    /\ local \in [Question -> Choice \cup {"none"}]
    /\ press \in Pressed
    /\ command \in Pressed
    /\ step \in [Sweeper -> {"rest", "stamping"}]
    /\ batch \in [Sweeper -> SUBSET Question]
    /\ failures \in 0..MaxFailures

-----------------------------------------------------------------------------
(* The store.                                                              *)

Open(q) == decision[q] = "open"
Decided(q) == decision[q] \in Choice

\* Mutant: the UPDATE forgets its WHERE decision = ''.
Overwrite(q, c, who) ==
    /\ decision' = [decision EXCEPT ![q] = c]
    /\ by' = [by EXCEPT ![q] = who]

\* resolve_approval: UPDATE ... WHERE decision = ''.  The first answer counts.
Resolve(q, c, who) ==
    IF Open(q)
    THEN /\ decision' = [decision EXCEPT ![q] = c]
         /\ by' = [by EXCEPT ![q] = who]
    ELSE UNCHANGED record

\* pending_approvals: unanswered and unexpired.
Pending(q) == Open(q) /\ ~overdue[q]

\* Mutant: every undecided row counts as expired.
AlwaysExpired(q) == Open(q)

\* _expired: overdue, and not decided in the record that was read.
Expired(q) == overdue[q]

\* The call's own tasks are cancelled, its slot in _pending is popped.
Forget(q) ==
    /\ typed' = [typed EXCEPT ![q] = "none"]
    /\ watched' = [watched EXCEPT ![q] = "none"]
    /\ local' = [local EXCEPT ![q] = "none"]

Return(q, c) ==
    /\ asker' = [asker EXCEPT ![q] = "done"]
    /\ outcome' = [outcome EXCEPT ![q] = c]
    /\ Forget(q)

Advance(q, where) ==
    /\ asker' = [asker EXCEPT ![q] = where]
    /\ UNCHANGED <<outcome, answers>>

-----------------------------------------------------------------------------
Init ==
    /\ decision = [q \in Question |-> "absent"]
    /\ by = [q \in Question |-> Nobody]
    /\ overdue = [q \in Question |-> FALSE]
    /\ late = [q \in Question |-> FALSE]
    /\ stopping = FALSE
    /\ kind = [q \in Question |-> Nobody]
    /\ asker = [q \in Question |-> "new"]
    /\ outcome = [q \in Question |-> "none"]
    /\ typed = [q \in Question |-> "none"]
    /\ watched = [q \in Question |-> "none"]
    /\ local = [q \in Question |-> "none"]
    /\ press = NoPress
    /\ command = NoPress
    /\ step = [w \in Sweeper |-> "rest"]
    /\ batch = [w \in Sweeper |-> {}]
    /\ failures = 0

\* raise_approval.  The console marks the id as its own only afterwards.
Raise(q, k) ==
    /\ asker[q] = "new"
    /\ decision' = [decision EXCEPT ![q] = "open"]
    /\ kind' = [kind EXCEPT ![q] = k]
    /\ asker' = [asker EXCEPT ![q] = IF k = "console" THEN "unmarked" ELSE "waiting"]
    /\ UNCHANGED <<by, clock, outcome, answers, elsewhere, failures>>

Asking(q) == asker[q] \in {"unmarked", "waiting", "closing", "answering"}

\* The asking process crashes, or a store call raises out of approve(): the
\* call is over without a decision, and the row is left as it is.
AskerGone(q) ==
    /\ Asking(q)
    /\ failures < MaxFailures
    /\ failures' = failures + 1
    /\ asker' = [asker EXCEPT ![q] = "gone"]
    /\ Forget(q)
    /\ UNCHANGED <<record, clock, kind, outcome, elsewhere>>

PassExpiry(q) ==
    /\ decision[q] # "absent" /\ ~overdue[q]
    /\ overdue' = [overdue EXCEPT ![q] = TRUE]
    /\ UNCHANGED <<record, late, stopping, asking, elsewhere, failures>>

PassDeadline(q) ==
    /\ kind[q] \in {"broker", "telegram"} /\ asker[q] = "waiting" /\ ~late[q]
    /\ late' = [late EXCEPT ![q] = TRUE]
    /\ UNCHANGED <<record, overdue, stopping, asking, elsewhere, failures>>

StopRunner ==
    /\ ~stopping
    /\ stopping' = TRUE
    /\ UNCHANGED <<record, overdue, late, asking, elsewhere, failures>>

-----------------------------------------------------------------------------
(* wait_for_decision, and TelegramApprovalBroker._await_decision.          *)

\* One turn of the shared broker's loop.
Poll(q) ==
    /\ kind[q] = "broker" /\ asker[q] = "waiting"
    /\ \/ /\ ~late[q] /\ ~stopping /\ Decided(q)
          /\ Return(q, decision[q])
       \/ /\ late[q] \/ stopping \/ (Open(q) /\ Expired(q))
          /\ Advance(q, "closing")
    /\ UNCHANGED <<record, clock, kind, elsewhere, failures>>

\* One turn of Telegram's loop: the event first, then the store.
PollTelegram(q) ==
    /\ kind[q] = "telegram" /\ asker[q] = "waiting"
    /\ \/ /\ ~late[q] /\ local[q] # "none"
          /\ Return(q, local[q])
       \/ /\ ~late[q] /\ local[q] = "none" /\ Decided(q)
          /\ Return(q, decision[q])
       \/ /\ late[q]
          /\ Advance(q, "closing")
    /\ UNCHANGED <<record, clock, kind, elsewhere, failures>>

\* Mutant: the asker walks away without closing its row.
LeaveUnanswered(q) ==
    /\ asker[q] = "closing"
    /\ Return(q, "deny")
    /\ UNCHANGED <<record, clock, kind, elsewhere, failures>>

\* Nobody answered in time: deny, whatever the write finds.
CloseUnanswered(q) ==
    /\ asker[q] = "closing"
    /\ Resolve(q, "deny", "timeout")
    /\ Return(q, "deny")
    /\ UNCHANGED <<clock, kind, elsewhere, failures>>

-----------------------------------------------------------------------------
(* The console: ask_here_or_anywhere inside _shared_console_approval.      *)

MarkRaisedHere(q) ==
    /\ asker[q] = "unmarked"
    /\ Advance(q, "waiting")
    /\ UNCHANGED <<record, clock, kind, elsewhere, failures>>

Prompting(q) == kind[q] = "console" /\ asker[q] = "waiting"

Type(q, c) ==
    /\ Prompting(q) /\ typed[q] = "none"
    /\ typed' = [typed EXCEPT ![q] = c]
    /\ UNCHANGED <<record, clock, kind, asker, outcome, watched, local, elsewhere,
                   failures>>

\* Mutant: only a human's answer ends the console's wait.
WatchForHumans(q) ==
    /\ Prompting(q) /\ watched[q] = "none" /\ Decided(q) /\ by[q] # "timeout"
    /\ watched' = [watched EXCEPT ![q] = decision[q]]
    /\ UNCHANGED <<record, clock, kind, asker, outcome, typed, local, elsewhere,
                   failures>>

Watch(q) ==
    /\ Prompting(q) /\ watched[q] = "none" /\ Decided(q)
    /\ watched' = [watched EXCEPT ![q] = decision[q]]
    /\ UNCHANGED <<record, clock, kind, asker, outcome, typed, local, elsewhere,
                   failures>>

\* asyncio.wait returns: the watcher's answer goes before the typed one.
Wake(q) ==
    /\ Prompting(q)
    /\ \/ watched[q] # "none" /\ Return(q, watched[q])
       \/ /\ watched[q] = "none" /\ typed[q] # "none"
          /\ Advance(q, "answering")
    /\ UNCHANGED <<record, clock, kind, elsewhere, failures>>

\* Mutant: the typed answer is returned whether or not it won.
AnswerAnyway(q) ==
    /\ asker[q] = "answering"
    /\ Resolve(q, typed[q], "cli")
    /\ Return(q, typed[q])
    /\ UNCHANGED <<clock, kind, elsewhere, failures>>

\* The typed answer goes through the store, and settles for what it finds.
AnswerHere(q) ==
    /\ asker[q] = "answering"
    /\ Resolve(q, typed[q], "cli")
    /\ Return(q, IF Open(q) THEN typed[q] ELSE decision[q])
    /\ UNCHANGED <<clock, kind, elsewhere, failures>>

AtConsole(q) == kind[q] = "console" /\ asker[q] \in {"waiting", "answering"}

\* Ctrl+C or a cancelled turn, or an exception inside the frame: the `finally`
\* closes the row as a denial.
Cancelled(q) ==
    /\ AtConsole(q)
    /\ Resolve(q, "deny", "cli")
    /\ Return(q, "deny")
    /\ UNCHANGED <<clock, kind, elsewhere, failures>>

\* A store call raises outside the frame: the plain local menu takes over.
FallBack(q) ==
    /\ AtConsole(q)
    /\ failures < MaxFailures
    /\ failures' = failures + 1
    /\ kind' = [kind EXCEPT ![q] = "fallback"]
    /\ Advance(q, "waiting")
    /\ UNCHANGED <<record, clock, elsewhere>>

AnswerMenu(q, c) ==
    /\ kind[q] = "fallback" /\ asker[q] = "waiting"
    /\ Resolve(q, c, "cli")
    /\ Return(q, c)
    /\ UNCHANGED <<clock, kind, elsewhere, failures>>

-----------------------------------------------------------------------------
(* Answers from elsewhere.                                                 *)

\* SharedApprovalBroker.resolve: by id alone, expired or not.
AnswerOnWeb(q, c) ==
    /\ decision[q] # "absent"
    /\ Resolve(q, c, "web")
    /\ UNCHANGED <<clock, asking, elsewhere, failures>>

\* TelegramApprovalBroker.resolve: the store first, whoever won ...
Press(q, c) ==
    /\ press = NoPress
    /\ kind[q] = "telegram"
    /\ Resolve(q, c, "telegram")
    /\ press' = [question |-> q, choice |-> c]
    /\ UNCHANGED <<clock, asking, command, pass, failures>>

\* ... and then the waiting call's own slot, if it is still registered.
PressLocally ==
    /\ press # NoPress
    /\ local' = IF asker[press.question] \in {"waiting", "closing"}
                THEN [local EXCEPT ![press.question] = press.choice] ELSE local
    /\ press' = NoPress
    /\ UNCHANGED <<record, clock, kind, asker, outcome, typed, watched, command,
                   pass, failures>>

\* ApprovalWatcher.resolve: the target comes from the pending list ...
Command(q, c) ==
    /\ command = NoPress
    /\ Pending(q)
    /\ command' = [question |-> q, choice |-> c]
    /\ UNCHANGED <<record, clock, asking, press, pass, failures>>

\* ... and is written in a second transaction.
CommandWrites ==
    /\ command # NoPress
    /\ Resolve(command.question, command.choice, "cli")
    /\ command' = NoPress
    /\ UNCHANGED <<clock, asking, press, pass, failures>>

-----------------------------------------------------------------------------
(* The sweepers.                                                           *)

\* Mutant: the sweep walks pending_approvals, which filters out expired rows.
SweepReadsPending(w) ==
    /\ step[w] = "rest"
    /\ step' = [step EXCEPT ![w] = "stamping"]
    /\ batch' = [batch EXCEPT ![w] = {q \in Question : Pending(q)}]
    /\ UNCHANGED <<record, clock, asking, press, command, failures>>

\* expire_approvals reads every undecided row in one transaction ...
SweepReads(w) ==
    /\ step[w] = "rest"
    /\ step' = [step EXCEPT ![w] = "stamping"]
    /\ batch' = [batch EXCEPT ![w] = {q \in Question : Open(q)}]
    /\ UNCHANGED <<record, clock, asking, press, command, failures>>

\* ... and stamps the overdue ones one write at a time.
SweepStamps(w, q) ==
    /\ step[w] = "stamping" /\ q \in batch[w]
    /\ IF Expired(q) THEN Resolve(q, "deny", "timeout") ELSE UNCHANGED record
    /\ batch' = [batch EXCEPT ![w] = @ \ {q}]
    /\ UNCHANGED <<clock, asking, press, command, step, failures>>

\* A write raises: the rest of the batch waits for the next pass.
SweepFails(w) ==
    /\ step[w] = "stamping" /\ batch[w] # {}
    /\ failures < MaxFailures
    /\ failures' = failures + 1
    /\ batch' = [batch EXCEPT ![w] = {}]
    /\ UNCHANGED <<record, clock, asking, press, command, step>>

SweepEnds(w) ==
    /\ step[w] = "stamping" /\ batch[w] = {}
    /\ step' = [step EXCEPT ![w] = "rest"]
    /\ UNCHANGED <<record, clock, asking, press, command, batch, failures>>

-----------------------------------------------------------------------------
Clock == StopRunner \/ \E q \in Question : PassExpiry(q) \/ PassDeadline(q)

\* What an asking call does by itself, without a human or a failure.
AskerStep(q) ==
    \/ Poll(q)
    \/ PollTelegram(q)
    \/ CloseUnanswered(q)
    \/ MarkRaisedHere(q)
    \/ Watch(q)
    \/ Wake(q)
    \/ AnswerHere(q)

Human(q) ==
    \/ Cancelled(q)
    \/ \E c \in Choice :
        \/ Type(q, c)
        \/ AnswerMenu(q, c)
        \/ AnswerOnWeb(q, c)
        \/ Press(q, c)
        \/ Command(q, c)

SweeperStep(w) ==
    \/ SweepReads(w)
    \/ \E q \in Question : SweepStamps(w, q)
    \/ SweepEnds(w)

\* Every step but the write of a command, to which the watcher adds its part.
Quiet ==
    \/ Clock
    \/ \E q \in Question :
        \/ \E k \in Kind : Raise(q, k)
        \/ AskerStep(q)
        \/ Human(q)
        \/ AskerGone(q)
        \/ FallBack(q)
    \/ PressLocally
    \/ \E w \in Sweeper : SweeperStep(w) \/ SweepFails(w)

Next == Quiet \/ CommandWrites

Spec == Init /\ [][Next]_vars

\* Threads are scheduled and the wall clock advances.  Nothing is assumed of a
\* human, of the monotonic deadline, or of the runner being stopped.
Fairness ==
    /\ \A q \in Question :
        WF_vars(PassExpiry(q)) /\ WF_vars(AskerStep(q))
    /\ \A w \in Sweeper : WF_vars(SweeperStep(w))
    /\ WF_vars(PressLocally)
    /\ WF_vars(CommandWrites)

FairSpec == Spec /\ Fairness

-----------------------------------------------------------------------------
(* Properties.                                                             *)

\* The two askers that let the store arbitrate all the way.
Arbitrated(q) == kind[q] \in {"broker", "console"}

\* It fails closed (approvals.py:14-17, console.py:134-137): the tool is told
\* yes only when a surface, not a timeout, put an ALLOW on record; whatever
\* was typed, raced, expired or cancelled.
YesIsOnRecord ==
    \A q \in Question : Arbitrated(q) /\ outcome[q] = "allow" =>
        decision[q] = "allow" /\ by[q] \in Surface

\* The same promise said of Telegram's askers (telegram/approvals.py:32-33 and
\* 166: the store is the arbiter and decides who won).
TelegramYesIsOnRecord ==
    \A q \in Question : kind[q] = "telegram" /\ outcome[q] = "allow" =>
        decision[q] = "allow"

\* The row closes on every exit (repl.py:5900-5908): no asking call has
\* returned while its question still looks unanswered to the other surfaces.
RowClosesOnEveryExit ==
    \A q \in Question : outcome[q] # "none" => Decided(q)

\* Expiry never touches a live question (test_approval_orphans.py:63): a
\* timeout is on record only after a clock ran out or the runner stopped,
\* however old the list the sweeper walks.
OnlyOverdueQuestionsTimeOut ==
    \A q \in Question : by[q] = "timeout" =>
        overdue[q] \/ late[q] \/ (stopping /\ kind[q] = "broker")

\* Exactly one answer counts (store.py:508-524): through every race of
\* buttons, commands, timeouts and sweepers, a recorded decision is final.
FirstAnswerStands ==
    [][\A q \in Question :
        Decided(q) => decision'[q] = decision[q] /\ by'[q] = by[q]]_vars

\* No question stays open for ever, not even one whose asker has crashed
\* (store.py:588-602: 131 of 176 rows of one install were orphans).
EveryQuestionIsClosed ==
    \A q \in Question : Open(q) ~> Decided(q)

\* Every asking call ends: also the console's, which has no deadline of its
\* own and hears of the timeout only from the row a sweeper stamped.  The
\* fallback menu waits for its human.
EveryAskerIsReleased ==
    \A q \in Question : Asking(q) ~> ~Asking(q) \/ kind[q] = "fallback"

=============================================================================
