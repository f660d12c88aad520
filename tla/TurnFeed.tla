------------------------------ MODULE TurnFeed ------------------------------
(***************************************************************************)
(* How the events of a turn reach those who watch it: the streams that     *)
(* append them to a session's activity.jsonl and hand them to live         *)
(* subscribers (shamsu/runtime/turn_stream.py), and a browser page that    *)
(* loads the conversation once and then follows the file over server-sent  *)
(* events, reconnecting by line number (shamsu/webui/sse.py, server.py,    *)
(* api.py and static/app.js).                                              *)
(*                                                                         *)
(* A record is abstracted to its turn and its number in the turn, which    *)
(* also says whether a bounded queue may drop it.  A line is a record or   *)
(* Torn: an append is not atomic, so another process or a crash can fall   *)
(* inside it.                                                              *)
(***************************************************************************)
EXTENDS Integers, FiniteSets, SequencesExt

CONSTANTS
    Stream,     \* TurnStream objects of one session, each in its own process
    Watched,    \* the stream somebody subscribes to
    Torn,       \* a line that does not parse
    Capacity,   \* max_queue of the subscription
    Milestones, \* NEVER_DROPPED: the numbers of a turn's events a queue keeps
    MaxTurns,   \* bound: turns
    MaxSeq,     \* bound: events of a turn
    MaxFaults,  \* bound: processes that die and appends that fail
    MaxDrops    \* bound: connections lost and pages refreshed

ASSUME FeedAssumption ==
    /\ Watched \in Stream
    /\ Torn \notin [turn : Nat, seq : Nat] /\ Torn \notin Stream
    /\ Capacity \in Nat \ {0} /\ Milestones \subseteq Nat
    /\ MaxTurns \in Nat /\ MaxSeq \in Nat
    /\ MaxFaults \in Nat /\ MaxDrops \in Nat

Event == [turn : 1..MaxTurns, seq : 1..MaxSeq]
Kept(e) == e.seq \in Milestones

VARIABLES
    log,      \* complete lines of activity.jsonl
    open,     \* whose first chunks the unfinished last line consists of
    turns,    \* turns begun
    doing,    \* [Stream -> where publish is]
    event,    \* [Stream -> the event being or last published, if any]
    page,     \* "closed", "loaded", "connected" or "lost"
    shown,    \* the events on the page, in the order they came
    cursor,   \* stream_cursor of the page load
    lastId,   \* Last-Event-ID of the page's connection, or -1
    served,   \* consumed_lines of the connection's handler
    flight,   \* frames written to the connection and not received
    sub,      \* "none", "waiting" or "drained": between the halves of drain
    since,    \* since_seq and _resume_turn of the subscription
    queue,    \* its _queue
    ready,    \* its _ready
    heard,    \* the events it handed out, in order
    owed,     \* kept events it was replayed or registered for
    faults, drops

file == <<log, open>>
publishing == <<turns, doing, event>>
browser == <<page, shown, cursor, lastId, served, flight, drops>>
subscription == <<sub, since, queue, ready, heard, owed>>
vars == <<file, publishing, browser, subscription, faults>>

Doing == {"idle", "writing", "offering", "waking"}
Frame == [id : Nat, event : Event]
Nothing == [turn |-> 0, seq |-> 0]

TypeOK ==
    /\ log \in Seq(Event \cup {Torn})
    /\ open \subseteq Stream \cup {Torn}
    /\ turns \in 0..MaxTurns
    /\ doing \in [Stream -> Doing]
    /\ event \in [Stream -> Event \cup {Nothing}]
    /\ page \in {"closed", "loaded", "connected", "lost"}
    /\ shown \in Seq(Event)
    /\ cursor \in 0..Len(log)
    /\ lastId \in -1..Len(log)
    /\ served \in 0..Len(log)
    /\ flight \in Seq(Frame)
    /\ sub \in {"none", "waiting", "drained"}
    /\ since \in [turn : 0..MaxTurns, seq : -1..MaxSeq]
    /\ queue \in Seq(Event) /\ heard \in Seq(Event)
    /\ owed \subseteq Event
    /\ ready \in BOOLEAN
    /\ faults \in 0..MaxFaults /\ drops \in 0..MaxDrops

Init ==
    /\ log = <<>> /\ open = {} /\ turns = 0
    /\ doing = [s \in Stream |-> "idle"]
    /\ event = [s \in Stream |-> Nothing]
    /\ page = "closed" /\ shown = <<>> /\ cursor = 0 /\ lastId = -1
    /\ served = 0 /\ flight = <<>>
    /\ sub = "none" /\ since = [turn |-> 0, seq |-> -1]
    /\ queue = <<>> /\ ready = FALSE /\ heard = <<>> /\ owed = {}
    /\ faults = 0 /\ drops = 0

Elements(s) == {s[i] : i \in DOMAIN s}

\* Which lines parse, and what they say: the k-th record has k - 1 of these
\* lines before its own.
Parsed(lines) == {i \in DOMAIN lines : lines[i] # Torn}

LineOfRecord(lines, k) ==
    CHOOSE i \in Parsed(lines) : Cardinality({j \in Parsed(lines) : j < i}) = k - 1

Records(lines) ==
    [k \in 1..Cardinality(Parsed(lines)) |-> lines[LineOfRecord(lines, k)]]

-----------------------------------------------------------------------------
(* Publishing.                                                             *)

\* The events a loop may publish next: the first of a new turn, where the
\* number starts over, or the next of its own turn.
NextEvents(s) ==
    {e \in Event :
        \/ e.turn = turns + 1 /\ e.seq = 1
        \/ e.turn = event[s].turn /\ e.seq = event[s].seq + 1}

\* publish takes the stream's lock and begins to append.
Publish(s, e) ==
    /\ doing[s] = "idle"
    /\ e \in NextEvents(s)
    /\ turns' = IF e.turn > turns THEN e.turn ELSE turns
    /\ event' = [event EXCEPT ![s] = e]
    /\ doing' = [doing EXCEPT ![s] = "writing"]
    /\ open' = open \cup {s}
    /\ UNCHANGED <<log, browser, subscription, faults>>

\* The subscriptions are read together with the write, under the lock.
Registered(s) == s = Watched /\ sub # "none"

Offers(s) ==
    /\ doing' = [doing EXCEPT ![s] = IF Registered(s) THEN "offering" ELSE "idle"]
    /\ owed' = IF Registered(s) /\ Kept(event[s]) THEN owed \cup {event[s]} ELSE owed
    /\ UNCHANGED <<turns, event, sub, since, queue, ready, heard, browser>>

\* The rest of the line: it parses if nobody else is in it.
Written(s) ==
    /\ doing[s] = "writing"
    /\ log' = Append(log, IF open = {s} THEN event[s] ELSE Torn)
    /\ open' = {}
    /\ Offers(s)
    /\ UNCHANGED faults

\* The append fails halfway, which is swallowed; the event is offered.
WriteFails(s) ==
    /\ doing[s] = "writing" /\ faults < MaxFaults
    /\ open' = IF s \in open THEN (open \ {s}) \cup {Torn} ELSE open
    /\ Offers(s)
    /\ faults' = faults + 1
    /\ UNCHANGED log

\* The process dies, and with it those who subscribed in it.
Dies(s) ==
    /\ faults < MaxFaults
    /\ doing' = [doing EXCEPT ![s] = "idle"]
    /\ event' = [event EXCEPT ![s] = Nothing]
    /\ open' = IF s \in open THEN (open \ {s}) \cup {Torn} ELSE open
    /\ IF s # Watched THEN UNCHANGED subscription
       ELSE /\ sub' = "none" /\ since' = [turn |-> 0, seq |-> -1]
            /\ queue' = <<>> /\ ready' = FALSE /\ heard' = <<>> /\ owed' = {}
    /\ faults' = faults + 1
    /\ UNCHANGED <<log, turns, browser>>

-----------------------------------------------------------------------------
(* A live subscription.                                                    *)

\* An event the subscriber said it has.
Seen(e, position) == e.turn = position.turn /\ e.seq <= position.seq

\* _make_room drops the oldest event that may be dropped, if there is one.
Droppable(q) == {i \in DOMAIN q : ~Kept(q[i])}
Oldest(indices) == CHOOSE i \in indices : \A j \in indices : i <= j

\* Mutant: whatever is oldest goes.
ShedOldest(q) == IF Len(q) > Capacity THEN Tail(q) ELSE q

\* A queue one over its limit; a queue of events that must stay grows.
Shed(q) ==
    IF Len(q) > Capacity /\ Droppable(q) # {}
    THEN RemoveAt(q, Oldest(Droppable(q))) ELSE q

\* The queue after an event is offered, and after a replay, one by one.
Offered(e, position, q) == IF Seen(e, position) THEN q ELSE Shed(Append(q, e))

Replayed(events, position) ==
    LET after[n \in 0..Len(events)] ==
          IF n = 0 THEN <<>> ELSE Offered(events[n], position, after[n - 1])
    IN  after[Len(events)]

\* subscribe: replay and registration under the lock publish writes under.
\* The position counts in the turn recorded last.
Subscribe(seq) ==
    /\ sub = "none" /\ doing[Watched] # "writing"
    /\ LET recorded == Records(log)
           turn == IF recorded = <<>> THEN 0 ELSE Last(recorded).turn
           position == [turn |-> turn, seq |-> seq]
       IN  /\ seq # -1 => \E e \in Elements(recorded) : e.turn = turn /\ e.seq = seq
           /\ since' = position
           /\ queue' = Replayed(recorded, position)
           /\ owed' = {e \in Elements(recorded) : Kept(e) /\ ~Seen(e, position)}
    /\ ready' = (queue' # <<>>)
    /\ sub' = "waiting"
    /\ UNCHANGED <<heard, file, publishing, browser, faults>>

\* offer, outside the stream's lock ...
Offer(s) ==
    /\ doing[s] = "offering"
    /\ queue' = Offered(event[s], since, queue)
    /\ doing' = [doing EXCEPT ![s] = IF Seen(event[s], since) THEN "idle" ELSE "waking"]
    /\ UNCHANGED <<file, turns, event, browser, sub, since, ready, heard, owed, faults>>

\* ... and the wakeup after it.
Wake(s) ==
    /\ doing[s] = "waking"
    /\ ready' = TRUE
    /\ doing' = [doing EXCEPT ![s] = "idle"]
    /\ UNCHANGED <<file, turns, event, browser, sub, since, queue, heard, owed, faults>>

\* drain empties the queue, after a wakeup or a wait that timed out ...
Drain ==
    /\ sub = "waiting"
    /\ ready \/ queue # <<>>
    /\ heard' = heard \o queue
    /\ queue' = <<>>
    /\ sub' = "drained"
    /\ UNCHANGED <<file, publishing, browser, since, ready, owed, faults>>

\* ... and clears the wakeup, the one of a later offer too.
Cleared ==
    /\ sub = "drained"
    /\ ready' = FALSE
    /\ sub' = "waiting"
    /\ UNCHANGED <<file, publishing, browser, since, queue, heard, owed, faults>>

-----------------------------------------------------------------------------
(* The page.                                                               *)

\* Opening a conversation, and a hard refresh of it: the records there are and
\* the number of lines they came from, out of one read.
Load ==
    /\ \/ page = "closed" /\ UNCHANGED drops
       \/ page # "closed" /\ drops < MaxDrops /\ drops' = drops + 1
    /\ page' = "loaded"
    /\ shown' = Records(log)
    /\ cursor' = Len(log)
    /\ lastId' = -1 /\ served' = 0 /\ flight' = <<>>
    /\ UNCHANGED <<file, publishing, subscription, faults>>

\* Mutant: a new connection starts at the end of the file.
ConnectAtEnd ==
    /\ page \in {"loaded", "lost"}
    /\ page' = "connected"
    /\ served' = IF lastId >= 0 THEN lastId ELSE Len(log)
    /\ flight' = <<>>
    /\ UNCHANGED <<file, publishing, shown, cursor, lastId, drops, subscription, faults>>

\* A new EventSource, or the browser's own reconnection of it: the header
\* wins over the position in the address.
Connect ==
    /\ page \in {"loaded", "lost"}
    /\ page' = "connected"
    /\ served' = IF lastId >= 0 THEN lastId ELSE cursor
    /\ flight' = <<>>
    /\ UNCHANGED <<file, publishing, shown, cursor, lastId, drops, subscription, faults>>

\* Mutants: one line early, one line late, all of them the end of the batch.
FramesEarly(lines, consumed) ==
    LET records == Records(lines)
    IN  [i \in DOMAIN records |->
            [id |-> consumed - Len(records) + i - 1, event |-> records[i]]]

FramesLate(lines, consumed) ==
    LET records == Records(lines)
    IN  [i \in DOMAIN records |->
            [id |-> consumed - Len(records) + i + 1, event |-> records[i]]]

FramesAtBatchEnd(lines, consumed) ==
    LET records == Records(lines)
    IN  [i \in DOMAIN records |-> [id |-> consumed, event |-> records[i]]]

\* tail_events numbers the records of a batch backwards from its last line.
Frames(lines, consumed) ==
    LET records == Records(lines)
    IN  [i \in DOMAIN records |->
            [id |-> consumed - Len(records) + i, event |-> records[i]]]

\* One pass of the handler: the complete lines it has not served.
Poll ==
    /\ page = "connected" /\ flight = <<>> /\ served < Len(log)
    /\ served' = Len(log)
    /\ flight' = Frames(SubSeq(log, served + 1, Len(log)), Len(log))
    /\ UNCHANGED <<file, publishing, page, shown, cursor, lastId, drops, subscription, faults>>

Receive ==
    /\ page = "connected" /\ flight # <<>>
    /\ shown' = Append(shown, Head(flight).event)
    /\ lastId' = Head(flight).id
    /\ flight' = Tail(flight)
    /\ UNCHANGED <<file, publishing, page, cursor, served, drops, subscription, faults>>

\* The connection is lost with what was on its way.
Drop ==
    /\ page = "connected" /\ drops < MaxDrops
    /\ page' = "lost"
    /\ flight' = <<>> /\ served' = 0
    /\ drops' = drops + 1
    /\ UNCHANGED <<file, publishing, shown, cursor, lastId, subscription, faults>>

-----------------------------------------------------------------------------

Publishes(s) == \E e \in Event : Publish(s, e)
Carries(s) == Written(s) \/ Offer(s) \/ Wake(s)
Follows == Connect \/ Poll \/ Receive
Hears == Drain \/ Cleared

Next ==
    \/ \E s \in Stream : Publishes(s) \/ Carries(s) \/ WriteFails(s) \/ Dies(s)
    \/ \E seq \in -1..MaxSeq : Subscribe(seq)
    \/ Hears \/ Load \/ Follows \/ Drop

Spec == Init /\ [][Next]_vars

\* The handler polls and the browser reconnects by itself; nobody has to
\* publish, load or subscribe.
Fairness == WF_vars(Follows)

FairSpec == Spec /\ Fairness

-----------------------------------------------------------------------------
(* Properties.                                                             *)

\* Where the file has it.
LineOf(e) == CHOOSE i \in DOMAIN log : log[i] = e

\* The page shows what the file says, in its order and each event once,
\* through loads, batches, lost connections and reconnects (sse.py:84-98).
PageFollowsTheFile ==
    \A i, j \in DOMAIN shown : i < j => LineOf(shown[i]) < LineOf(shown[j])

\* Line n is on the page, or was lost in front of a torn one.
Arrived(n) ==
    /\ n <= Len(log)
    /\ \/ log[n] = Torn \/ log[n] \in Elements(shown)
       \/ \E j \in n + 1..Len(log) : log[j] = Torn

\* "a hard refresh mid-turn lossless: the client says how far it got, and the
\* server replays from there" (sse.py:4-6).  It is, up to a torn line: the
\* records of a batch are numbered as if none of its lines were skipped, so
\* only one in front of a torn line can fall between two connections.
ResumePoint == IF lastId >= 0 THEN lastId ELSE cursor

MissedOnlyBeforeATornLine ==
    page # "closed" => \A i \in 1..ResumePoint : Arrived(i)

\* "never anything in NEVER_DROPPED" (turn_stream.py:178-183) and "delivered
\* once" (325-330): what a subscriber is owed is handed out or queued, or the
\* publisher is about to; and nothing comes twice.
Coming == heard \o queue

SubscriberMissesNoMilestone ==
    /\ \A e \in owed :
         e \in Elements(Coming) \/ (doing[Watched] = "offering" /\ event[Watched] = e)
    /\ \A i, j \in DOMAIN Coming : i # j => Coming[i] # Coming[j]

\* A page that is open catches up with the file again and again, whatever
\* connections are lost on the way.
PageCatchesUp == []<>(page = "closed" \/ \A n \in DOMAIN log : Arrived(n))

=============================================================================
