---------------------------- MODULE TelegramTurns ----------------------------
(***************************************************************************)
(* How a message sent to the bot becomes a turn or a steer: the polling    *)
(* service of each process (shamsu/integrations/telegram/service.py and    *)
(* transport.py), the handling of one update (controller.py), its routing  *)
(* to a new turn or to the active one (sessions.py), and the registry of   *)
(* active turns in a process (shamsu/runtime/run_control.py).  One user,   *)
(* one session; a turn is a thread that takes up feedback at each round.   *)
(***************************************************************************)
EXTENDS Integers, SequencesExt

CONSTANTS
    Process,     \* processes that may run the bot
    NoOne,       \* the holder of a free lease
    MaxUpdates,  \* bound: messages the person sends
    MaxRounds    \* bound: rounds of one turn

ASSUME TelegramAssumption ==
    /\ NoOne \notin Process
    /\ MaxUpdates \in Nat /\ MaxRounds \in Nat

Update == 1..MaxUpdates
Kind == {"text", "cancel"}

VARIABLES
    sent,       \* the updates Telegram has for the bot, by update_id
    confirmed,  \* every update_id below it is gone from Telegram's side
    offset,     \* telegram_update_offset in the shared store
    processed,  \* the processed_updates table of the shared store
    lease,      \* holder of the poller lease
    poller,     \* [Process -> "off", "polling" or "closing"]
    batch,      \* [Process -> updates of the last getUpdates not yet yielded]
    stage,      \* [Process -> [Update -> where the process is with it]]
    steered,    \* [Update -> the turn it was routed to, or 0]
    runs,       \* [Process -> _RUNS of the session, oldest first]
    feedback,   \* [Update -> feedback_queue of the turn it started]
    rounds,     \* [Update -> rounds that turn has begun]
    cancelled,  \* turns whose cancel_event is set
    read,       \* steers some turn has taken up
    reply,      \* [Update -> what the person was answered]
    cut         \* updates a process dropped when it died, stopped or failed

telegram == <<sent, confirmed>>
store == <<offset, processed, lease>>
polling == <<poller, batch>>
turns == <<runs, feedback, rounds, cancelled, read>>
vars == <<telegram, store, polling, stage, steered, turns, reply, cut>>

Stage == {"none", "taken", "queued", "routing", "adding", "starting", "running"}
Reply == {"none", "added", "refused", "answered", "stopping", "nothing"}

TypeOK ==
    /\ sent \in Seq(Kind) /\ Len(sent) <= MaxUpdates
    /\ confirmed \in 1..Len(sent) + 1 /\ offset \in 1..Len(sent) + 1
    /\ processed \subseteq Update /\ lease \in Process \cup {NoOne}
    /\ poller \in [Process -> {"off", "polling", "closing"}]
    /\ batch \in [Process -> Seq(Update)]
    /\ stage \in [Process -> [Update -> Stage]]
    /\ steered \in [Update -> Update \cup {0}]
    /\ runs \in [Process -> Seq(Update)]
    /\ feedback \in [Update -> Seq(Update)]
    /\ rounds \in [Update -> 0..MaxRounds]
    /\ cancelled \subseteq Update /\ read \subseteq Update /\ cut \subseteq Update
    /\ reply \in [Update -> Reply]

Init ==
    /\ sent = <<>> /\ confirmed = 1
    /\ offset = 1 /\ processed = {} /\ lease = NoOne
    /\ poller = [p \in Process |-> "off"]
    /\ batch = [p \in Process |-> <<>>]
    /\ stage = [p \in Process |-> [u \in Update |-> "none"]]
    /\ steered = [u \in Update |-> 0]
    /\ runs = [p \in Process |-> <<>>]
    /\ feedback = [u \in Update |-> <<>>]
    /\ rounds = [u \in Update |-> 0]
    /\ cancelled = {} /\ read = {} /\ cut = {}
    /\ reply = [u \in Update |-> "none"]

\* The process p is at this stage with the update u.
At(p, u, s) == stage[p][u] = s
Moves(p, u, s) == stage' = [stage EXCEPT ![p][u] = s]

PersonSends(kind) ==
    /\ Len(sent) < MaxUpdates
    /\ sent' = Append(sent, kind)
    /\ UNCHANGED <<confirmed, store, polling, stage, steered, turns, reply, cut>>

-----------------------------------------------------------------------------
(* The polling service.                                                    *)

\* start(): the lease decides, unless the store that keeps it is unusable.
StartPolling(p) ==
    /\ poller[p] = "off"
    /\ \/ lease \in {NoOne, p} /\ lease' = p
       \/ UNCHANGED lease
    /\ poller' = [poller EXCEPT ![p] = "polling"]
    /\ UNCHANGED <<telegram, offset, processed, batch, stage, steered, turns, reply, cut>>

\* getUpdates from the stored offset: Telegram forgets what is below it.
Fetch(p) ==
    /\ poller[p] # "off" /\ batch[p] = <<>>
    /\ \A u \in Update : ~At(p, u, "taken")
    /\ LET from == IF offset > confirmed THEN offset ELSE confirmed
       IN  /\ from <= Len(sent)
           /\ confirmed' = from
           /\ batch' = [batch EXCEPT ![p] = [i \in 1..Len(sent) - from + 1 |-> from + i - 1]]
    /\ UNCHANGED <<sent, store, poller, stage, steered, turns, reply, cut>>

\* Mutant: the offset moves past the whole batch with its first update.
TakeAll(p) ==
    /\ poller[p] # "off" /\ batch[p] # <<>>
    /\ \A u \in Update : ~At(p, u, "taken")
    /\ offset' = batch[p][Len(batch[p])] + 1
    /\ IF At(p, Head(batch[p]), "none") THEN Moves(p, Head(batch[p]), "taken")
                                       ELSE UNCHANGED stage
    /\ batch' = [batch EXCEPT ![p] = Tail(@)]
    /\ UNCHANGED <<telegram, processed, lease, poller, steered, turns, reply, cut>>

\* updates(): the offset is stored, then the update is yielded.  A second copy
\* of one this process still has in hand is acknowledged and then deduplicated.
Take(p) ==
    /\ poller[p] # "off" /\ batch[p] # <<>>
    /\ \A u \in Update : ~At(p, u, "taken")
    /\ offset' = Head(batch[p]) + 1
    /\ IF At(p, Head(batch[p]), "none") THEN Moves(p, Head(batch[p]), "taken")
                                       ELSE UNCHANGED stage
    /\ batch' = [batch EXCEPT ![p] = Tail(@)]
    /\ UNCHANGED <<telegram, processed, lease, poller, steered, turns, reply, cut>>

\* process_update: a task goes to the background once "Task received" is sent.
Acknowledge(p, u) ==
    /\ At(p, u, "taken") /\ sent[u] = "text"
    /\ Moves(p, u, "queued")
    /\ UNCHANGED <<telegram, store, polling, steered, turns, reply, cut>>

\* handle_update of a pressed cancel button, while the poller waits for it: the
\* last active run is told to cancel.
Command(p, u) ==
    /\ At(p, u, "taken") /\ sent[u] = "cancel"
    /\ Moves(p, u, "none")
    /\ processed' = processed \cup {u}
    /\ IF u \in processed THEN UNCHANGED <<cancelled, reply>>
       ELSE IF runs[p] = <<>>
            THEN reply' = [reply EXCEPT ![u] = "nothing"] /\ UNCHANGED cancelled
            ELSE /\ cancelled' = cancelled \cup {runs[p][Len(runs[p])]}
                 /\ reply' = [reply EXCEPT ![u] = "stopping"]
    /\ UNCHANGED <<telegram, offset, lease, polling, steered, runs, feedback, rounds, read, cut>>

\* A store call raises: the update is dropped.  In the poller's own task the
\* rest of the batch goes too, to be fetched again from the stored offset.
Raises(p, u) ==
    /\ \/ At(p, u, "taken") /\ batch' = [batch EXCEPT ![p] = <<>>]
       \/ At(p, u, "queued") /\ UNCHANGED batch
    /\ Moves(p, u, "none")
    /\ cut' = cut \cup {u}
    /\ UNCHANGED <<telegram, store, poller, steered, turns, reply>>

\* Mutant: the poller only looks whether it has started this update itself.
DedupeHere(p, u) ==
    /\ At(p, u, "queued")
    /\ processed' = processed \cup {u}
    /\ Moves(p, u, "routing")
    /\ UNCHANGED <<telegram, offset, lease, polling, steered, turns, reply, cut>>

\* mark_update_processed: the insert tells who is first, before any handling.
Dedupe(p, u) ==
    /\ At(p, u, "queued")
    /\ processed' = processed \cup {u}
    /\ Moves(p, u, IF u \in processed THEN "none" ELSE "routing")
    /\ UNCHANGED <<telegram, offset, lease, polling, steered, turns, reply, cut>>

\* stop(): the lease goes first ...
StopPolling(p) ==
    /\ poller[p] = "polling"
    /\ poller' = [poller EXCEPT ![p] = "closing"]
    /\ lease' = IF lease = p THEN NoOne ELSE lease
    /\ UNCHANGED <<telegram, offset, processed, batch, stage, steered, turns, reply, cut>>

\* ... then the polling task and what waits in the background; a turn's
\* thread runs on, with nobody left to send its answer.
Cancelled(p) == {u \in Update : stage[p][u] \in {"taken", "queued", "routing", "adding"}}
Unanswered(p) == {u \in Update : stage[p][u] \in {"starting", "running"}}

FinishStopping(p) ==
    /\ poller[p] = "closing"
    /\ poller' = [poller EXCEPT ![p] = "off"]
    /\ batch' = [batch EXCEPT ![p] = <<>>]
    /\ stage' = [stage EXCEPT ![p] =
         [u \in Update |-> IF u \in Cancelled(p) THEN "none" ELSE @[u]]]
    /\ cut' = cut \cup Cancelled(p) \cup Unanswered(p)
    /\ UNCHANGED <<telegram, store, steered, turns, reply>>

\* The process dies; a lease of a dead process counts as free.
Crash(p) ==
    /\ poller[p] # "off" \/ runs[p] # <<>> \/ Unanswered(p) # {}
    /\ poller' = [poller EXCEPT ![p] = "off"]
    /\ batch' = [batch EXCEPT ![p] = <<>>]
    /\ stage' = [stage EXCEPT ![p] = [u \in Update |-> "none"]]
    /\ runs' = [runs EXCEPT ![p] = <<>>]
    /\ lease' = IF lease = p THEN NoOne ELSE lease
    /\ cut' = cut \cup Cancelled(p) \cup Unanswered(p)
    /\ UNCHANGED <<telegram, offset, processed, steered, feedback, rounds, cancelled, read, reply>>

-----------------------------------------------------------------------------
(* Routing, and the turn.                                                  *)

\* route_user_message reads which runs are active ...
Route(p, u) ==
    /\ At(p, u, "routing")
    /\ IF runs[p] = <<>> THEN Moves(p, u, "starting") /\ UNCHANGED steered
       ELSE /\ Moves(p, u, "adding")
            /\ steered' = [steered EXCEPT ![u] = runs[p][Len(runs[p])]]
    /\ UNCHANGED <<telegram, store, polling, turns, reply, cut>>

\* Mutant: a message the run could not take is not answered.
AddQuietly(p, u) ==
    /\ At(p, u, "adding")
    /\ Moves(p, u, "none")
    /\ LET run == steered[u] IN
         IF \E i \in DOMAIN runs[p] : runs[p][i] = run
         THEN /\ feedback' = [feedback EXCEPT ![run] = Append(@, u)]
              /\ reply' = [reply EXCEPT ![u] = "added"]
         ELSE UNCHANGED <<feedback, reply>>
    /\ UNCHANGED <<telegram, store, polling, steered, runs, rounds, cancelled, read, cut>>

\* ... and add_feedback takes the message if that run is still there.
AddFeedback(p, u) ==
    /\ At(p, u, "adding")
    /\ Moves(p, u, "none")
    /\ LET run == steered[u] IN
         IF \E i \in DOMAIN runs[p] : runs[p][i] = run
         THEN /\ feedback' = [feedback EXCEPT ![run] = Append(@, u)]
              /\ reply' = [reply EXCEPT ![u] = "added"]
         ELSE reply' = [reply EXCEPT ![u] = "refused"] /\ UNCHANGED feedback
    /\ UNCHANGED <<telegram, store, polling, steered, runs, rounds, cancelled, read, cut>>

\* _run_simple registers the turn just before it runs the loop.
Register(p, u) ==
    /\ At(p, u, "starting")
    /\ Moves(p, u, "running")
    /\ runs' = [runs EXCEPT ![p] = Append(@, u)]
    /\ UNCHANGED <<telegram, store, polling, steered, feedback, rounds, cancelled, read, reply, cut>>

\* Mutant: nothing bounds the rounds.
RoundUnbounded(p, u) ==
    /\ At(p, u, "running")
    /\ rounds' = [rounds EXCEPT ![u] = @ + 1]
    /\ read' = read \cup {feedback[u][i] : i \in DOMAIN feedback[u]}
    /\ feedback' = [feedback EXCEPT ![u] = <<>>]
    /\ UNCHANGED <<telegram, store, polling, stage, steered, runs, cancelled, reply, cut>>

\* A round takes up what was said; neither cancel_event nor pause_event is
\* looked at on this path.
Round(p, u) ==
    /\ At(p, u, "running") /\ rounds[u] < MaxRounds
    /\ rounds' = [rounds EXCEPT ![u] = @ + 1]
    /\ read' = read \cup {feedback[u][i] : i \in DOMAIN feedback[u]}
    /\ feedback' = [feedback EXCEPT ![u] = <<>>]
    /\ UNCHANGED <<telegram, store, polling, stage, steered, runs, cancelled, reply, cut>>

\* The loop returns, or raises, before its first round too: complete_run on
\* every path, then the answer or the notice of the failure.
Complete(p, u) ==
    /\ At(p, u, "running")
    /\ Moves(p, u, "none")
    /\ runs' = [runs EXCEPT ![p] = RemoveFirst(@, u)]
    /\ reply' = [reply EXCEPT ![u] = IF u \in cut THEN @ ELSE "answered"]
    /\ UNCHANGED <<telegram, store, polling, steered, feedback, rounds, cancelled, read, cut>>

-----------------------------------------------------------------------------

Polls(p) == Fetch(p) \/ Take(p) \/ \E u \in Update : Acknowledge(p, u) \/ Command(p, u)
Handles(p, u) == Dedupe(p, u) \/ Route(p, u) \/ AddFeedback(p, u)
Turns(p, u) == Register(p, u) \/ Round(p, u) \/ Complete(p, u)
Lifecycle(p) == StartPolling(p) \/ StopPolling(p) \/ FinishStopping(p) \/ Crash(p)

Next ==
    \/ \E kind \in Kind : PersonSends(kind)
    \/ \E p \in Process :
         \/ Polls(p) \/ Lifecycle(p)
         \/ \E u \in Update : Handles(p, u) \/ Turns(p, u) \/ Raises(p, u)

Spec == Init /\ [][Next]_vars

\* A service that runs keeps polling, its background tasks and its turns'
\* threads come round, and a stop that began is finished.
Fairness ==
    \A p \in Process :
        /\ WF_vars(Polls(p)) /\ WF_vars(FinishStopping(p))
        /\ \A u \in Update : WF_vars(Handles(p, u)) /\ WF_vars(Turns(p, u))

FairSpec == Spec /\ Fairness

-----------------------------------------------------------------------------
(* Properties.                                                             *)

Begun(p, u) == stage[p][u] \in {"routing", "adding", "starting", "running"}

\* An update is handled by one process, once (storage.py:371-381): not by two
\* pollers that overlap, and not again after it was answered.
HandledOnce ==
    \A p \in Process, u \in Update : Begun(p, u) =>
        /\ \A q \in Process \ {p} : ~Begun(q, u)
        /\ reply[u] = "none"

\* An update the stored offset has passed is done, in some process's hands and
\* not merely in what it fetched, or was dropped by one that died, stopped or
\* failed: the offset never runs ahead of the update it was taken with
\* (transport.py:96-101).
NothingSlipsByTheOffset ==
    \A u \in 1..offset - 1 :
        \/ u \in processed \cup cut
        \/ \E p \in Process : stage[p][u] \in {"taken", "queued"}

\* What was taken up is answered, unless the service stopped, died or failed.
EveryUpdateIsAnswered ==
    \A u \in Update : (\E p \in Process : At(p, u, "taken")) ~> reply[u] # "none" \/ u \in cut

=============================================================================
