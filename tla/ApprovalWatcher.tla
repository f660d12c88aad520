--------------------------- MODULE ApprovalWatcher ---------------------------
(***************************************************************************)
(* The console's ApprovalWatcher (shamsu/control/console.py:225-376) on    *)
(* top of the approvals everyone races for: it announces the questions of  *)
(* other processes, and says why each of them left the pending list.       *)
(*                                                                         *)
(* One pass of its thread sweeps (SweepReads, SweepStamps and SweepEnds of *)
(* Approvals), lists what is pending, notes what is gone and shows what is *)
(* new; a failed sweep is suppressed and the pass goes on.  /approve and   *)
(* /deny run on the REPL's own thread, between any two of these steps.     *)
(***************************************************************************)
EXTENDS Approvals

CONSTANT Watcher    \* the Sweeper that is this watcher

ASSUME WatcherAssumption == Watcher \in Sweeper

VARIABLES
    noting,   \* the pass has listed and not yet shown
    gone,     \* questions it still has to print a closing note for
    fresh,    \* questions it found pending
    seen,     \* ApprovalWatcher._seen
    note      \* [Question -> the closing note last printed]

panel == <<noting, gone, fresh, seen, note>>
watcherVars == <<vars, panel>>

PanelTypeOK ==
    /\ noting \in BOOLEAN
    /\ gone \in SUBSET Question
    /\ fresh \in SUBSET Question
    /\ seen \in SUBSET Question
    /\ note \in [Question -> {"none", "answered", "expired", "unanswered"}]

WatcherInit ==
    /\ Init
    /\ noting = FALSE
    /\ gone = {} /\ fresh = {} /\ seen = {}
    /\ note = [q \in Question |-> "none"]

\* Mutant: whatever left the list was answered somewhere.
NoteAnswered(q) == IF by[q] = "timeout" THEN "expired" ELSE "answered"

\* _closing_note: what it says of the row it reads.
NoteOf(q) ==
    CASE ~Decided(q)       -> "unanswered"
      [] by[q] = "timeout" -> "expired"
      [] OTHER             -> "answered"

\* raised_here: marked before the question is drawn, forgotten at its end.
RaisedHere(q) ==
    kind[q] \in {"console", "fallback"} /\ asker[q] \in {"waiting", "answering"}

\* List what is pending, and with it what is not any more ...
Lists ==
    /\ step[Watcher] = "rest" /\ ~noting
    /\ noting' = TRUE
    /\ fresh' = {q \in Question : Pending(q)}
    /\ gone' = {q \in seen : ~Pending(q)}
    /\ UNCHANGED <<vars, seen, note>>

\* ... say why each of those left, reading its row again ...
Notes(q) ==
    /\ q \in gone
    /\ gone' = gone \ {q}
    /\ seen' = seen \ {q}
    /\ note' = [note EXCEPT ![q] = NoteOf(q)]
    /\ UNCHANGED <<vars, noting, fresh>>

\* ... and show the new ones, except those this terminal asks itself.
Shows ==
    /\ noting /\ gone = {}
    /\ seen' = seen \cup {q \in fresh : ~RaisedHere(q)}
    /\ fresh' = {}
    /\ noting' = FALSE
    /\ UNCHANGED <<vars, gone, note>>

\* Mutant: the command says it decided, whether or not its write won.
CommandClaims ==
    /\ CommandWrites
    /\ seen' = seen \ {command.question}
    /\ note' = [note EXCEPT ![command.question] = "answered"]
    /\ UNCHANGED <<noting, gone, fresh>>

\* resolve(): its write, the pop from _seen, and a note for an answer that lost.
Commanded ==
    /\ CommandWrites
    /\ seen' = seen \ {command.question}
    /\ note' = IF Open(command.question) THEN note
               ELSE [note EXCEPT ![command.question] = NoteOf(command.question)]
    /\ UNCHANGED <<noting, gone, fresh>>

\* Everyone else; the watcher's thread does not sweep while it lists.
Elsewhere ==
    /\ Quiet
    /\ noting => step'[Watcher] = step[Watcher]
    /\ UNCHANGED panel

WatcherStep == Lists \/ Shows \/ \E q \in Question : Notes(q)

WatcherNext == Elsewhere \/ Commanded \/ WatcherStep

WatcherSpec == WatcherInit /\ [][WatcherNext]_watcherVars

\* As in Approvals, and the watcher's thread comes round.
FairWatcherSpec == WatcherSpec /\ Fairness /\ WF_watcherVars(WatcherStep)

-----------------------------------------------------------------------------
(* Properties.                                                             *)

\* A closing note never credits a human with a timeout, nor the reverse
\* (console.py:328-337), and what it said stays true whoever answers next.
NotesStayTrue ==
    \A q \in Question :
        /\ note[q] = "answered" => Decided(q) /\ by[q] \in Surface
        /\ note[q] = "expired" => decision[q] = "deny" /\ by[q] = "timeout"

=============================================================================
