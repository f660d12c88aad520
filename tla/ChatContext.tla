----------------------------- MODULE ChatContext -----------------------------
(***************************************************************************)
(* What the model is shown of a conversation: the transcript a session     *)
(* keeps on disk (shamsu/session/manager.py), the window of it a ChatState *)
(* loads for one turn (shamsu/agents/chat_state.py), and the rounds of the *)
(* simple chat loop that append to both, fold what no longer fits into a   *)
(* rolling summary and send the rest (shamsu/agents/simple_chat.py).       *)
(*                                                                         *)
(* A ChatState is built for one turn and thrown away; only the transcript, *)
(* the summary with its watermark and the floor set by /clear outlive it.  *)
(* The size of a message and of the budget are abstracted: some budget     *)
(* selects each suffix that begins at a message in the user role.          *)
(***************************************************************************)
EXTENDS Integers, FiniteSets, SequencesExt

CONSTANTS
    Window,       \* HYDRATE_MAX_MESSAGES: how far back a turn loads (400)
    MaxRepeated,  \* _MAX_REPEATED_HYDRATED: how often one answer is loaded (2)
    MaxRounds,    \* rounds of a turn (max_rounds)
    MaxRecords    \* bound: a transcript this long takes no more work

ASSUME ContextAssumption ==
    /\ Window \in Nat \ {0} /\ MaxRepeated \in Nat
    /\ MaxRounds \in Nat \ {0} /\ MaxRecords \in Nat

\* What one record is.  "person" and "nudge" are in the user role, the nudge
\* being the harness's own correction; "result" is in the tool role, and so is
\* "report", a check the harness ran itself and no call asked for; the rest
\* are the assistant's: an empty reply, an answer, an answer in the words of
\* an earlier one, a harness notice, and the two answers with tool calls.
UserRole == {"person", "nudge"}
Echo == {"echo", "echocall"}
Calling == {"call", "echocall"}
Record == UserRole \cup Echo \cup Calling \cup {"blank", "answer", "notice", "result", "report"}

VARIABLES
    transcript,  \* messages.jsonl
    floor,       \* session.json: context_cleared_upto
    mark,        \* session.json: summarized_upto
    folded,      \* the records the saved summary was made from
    phase,       \* "idle", "asked", "round", "sent", "tools" or "ran"
    memory,      \* ChatState._messages after the system prompt: record numbers
    offset,      \* ChatState._hydration_offset
    upto,        \* ChatState._summarized_upto
    round,       \* round_index, from 1
    todo,        \* tool calls of this round without a result
    prompt,      \* the records of the last request to the model
    told         \* that request carried the summary

disk == <<transcript, floor, mark, folded>>
window == <<memory, offset, upto>>
request == <<prompt, told>>
vars == <<disk, phase, window, round, todo, request>>

Phase == {"idle", "asked", "round", "sent", "tools", "ran"}

TypeOK ==
    /\ transcript \in Seq(Record)
    /\ floor \in 0..Len(transcript)
    /\ mark \in Nat
    /\ folded \subseteq 1..Len(transcript)
    /\ phase \in Phase
    /\ memory \in Seq(1..Len(transcript))
    /\ offset \in 0..Len(transcript)
    /\ upto \in 1..Len(memory) + 1
    /\ round \in 0..MaxRounds
    /\ todo \in Nat
    /\ prompt \subseteq 1..Len(transcript)
    /\ told \in BOOLEAN

Larger(a, b) == IF a > b THEN a ELSE b
Smaller(a, b) == IF a < b THEN a ELSE b

Init ==
    /\ transcript = <<>> /\ floor = 0 /\ mark = 1 /\ folded = {}
    /\ phase = "idle" /\ memory = <<>> /\ offset = 0 /\ upto = 1
    /\ round = 0 /\ todo = 0 /\ prompt = {} /\ told = FALSE

-----------------------------------------------------------------------------
(* Loading a turn's window.                                                *)

\* Records a turn does not load: those before /clear, and those too far back.
Skipped == Larger(floor, Len(transcript) - Window)

\* The assistant has said this often enough in the records that are loaded.
Repeated(r) ==
    /\ transcript[r] \in Echo
    /\ Cardinality({e \in Skipped + 1..r - 1 : transcript[e] \in Echo}) >= MaxRepeated

\* _hydrate_records: harness notices and repeats stay on disk.
Hydrated ==
    {r \in Skipped + 1..Len(transcript) : transcript[r] # "notice" /\ ~Repeated(r)}

\* drop_stale_loop_messages: earlier corrections, and the empty replies.
WithoutStale(records) == {r \in records : transcript[r] \notin {"nudge", "blank"}}

\* Records in the order of the file: the i-th has i - 1 before it.
InOrder(records) ==
    [i \in 1..Cardinality(records) |->
        CHOOSE r \in records : Cardinality({e \in records : e < r}) = i - 1]

\* Mutant: the watermark counts from the start of the window.
RestoredUntranslated ==
    IF folded = {} THEN 1 ELSE Larger(1, Smaller(1 + mark, Cardinality(Hydrated) + 1))

\* _restore_summary: the watermark counts whole-transcript records; no summary
\* means nothing is summarised.
Restored ==
    IF folded = {} THEN 1
    ELSE Larger(1, Smaller(1 + Larger(0, mark - Skipped), Cardinality(Hydrated) + 1))

\* A turn begins: load, restore, drop what is stale, append the request.
Ask ==
    /\ phase = "idle" /\ Len(transcript) < MaxRecords
    /\ LET kept == InOrder(WithoutStale(Hydrated))
       IN  /\ memory' = Append(kept, Len(transcript) + 1)
           /\ upto' = Smaller(Restored, Len(kept) + 1)
    /\ offset' = Skipped
    /\ transcript' = Append(transcript, "person")
    /\ phase' = "asked"
    /\ round' = 0
    /\ UNCHANGED <<floor, mark, folded, todo, request>>

-----------------------------------------------------------------------------
(* Choosing what fits, and folding the rest into the summary.              *)

\* Mutant: a selection may begin at any message.
StartsAnywhere == DOMAIN memory

\* select_for_budget: the kept suffix begins at a user message.
Starts == {i \in DOMAIN memory : transcript[memory[i]] \in UserRole}

\* newly_evicted
Evicted(start) == {memory[i] : i \in upto..start - 1}

\* _digest: only requests and touched files leave a line in it.
Digested(records) ==
    folded # {} \/ \E r \in records : transcript[r] \in {"person"} \cup Calling

\* update_rolling_summary, saved at once with its watermark.
Fold(start) ==
    /\ folded' = folded \cup Evicted(start)
    /\ upto' = Larger(upto, start)
    /\ mark' = Larger(1, offset + upto' - 1)

\* The evicted part of a selection, folded when that leaves a trace.
FoldEvicted(start, narrated) ==
    IF Evicted(start) # {} /\ (narrated \/ Digested(Evicted(start)))
    THEN Fold(start)
    ELSE UNCHANGED <<folded, upto, mark>>

\* _compact_if_needed: once per turn, before the first round, with a model
\* call for the decisions that may come back empty.
Compact ==
    /\ phase = "asked"
    /\ \E start \in Starts, narrated \in BOOLEAN : FoldEvicted(start, narrated)
    /\ phase' = "round"
    /\ UNCHANGED <<transcript, floor, memory, offset, round, todo, request>>

\* Mutant: the summary goes along only when this turn evicted something.
IncludesSummaryOfThisTurn(start) == folded' # {} /\ start > 1

\* should_include_summary
IncludesSummary(start) == folded' # {} /\ (start > 1 \/ offset > 0)

\* _messages: fold what does not fit, then send the summary and the rest.
Send ==
    /\ phase = "round" /\ round < MaxRounds
    /\ \E start \in Starts :
         /\ FoldEvicted(start, FALSE)
         /\ prompt' = {memory[i] : i \in start..Len(memory)}
         /\ told' = IncludesSummary(start)
    /\ round' = round + 1
    /\ phase' = "sent"
    /\ UNCHANGED <<transcript, floor, memory, offset, todo>>

-----------------------------------------------------------------------------
(* The rounds of a turn.                                                   *)

\* ChatState._append: memory first, then messages.jsonl.
Appended(records) ==
    /\ transcript' = transcript \o records
    /\ memory' = memory \o [i \in DOMAIN records |-> Len(transcript) + i]

Room(n) == Len(transcript) + n < MaxRecords

\* Append, and go on with the turn in the next phase.
Goes(records, next) ==
    /\ Appended(records)
    /\ phase' = next
    /\ UNCHANGED <<floor, mark, folded, offset, upto, round, request>>

\* Mutant: the messages are thrown away, the index into them is not.
OverKeepingIndex ==
    /\ phase' = "idle"
    /\ memory' = <<>> /\ offset' = 0 /\ upto' = upto
    /\ round' = 0 /\ todo' = 0 /\ prompt' = {} /\ told' = FALSE

\* A turn that is over leaves nothing in memory.
Over ==
    /\ phase' = "idle"
    /\ memory' = <<>> /\ offset' = 0 /\ upto' = 1
    /\ round' = 0 /\ todo' = 0 /\ prompt' = {} /\ told' = FALSE

Ends(records) ==
    /\ transcript' = transcript \o records
    /\ Over
    /\ UNCHANGED <<floor, mark, folded>>

\* A correction before the first round: this has parts, write a plan first.
AskForAPlan ==
    /\ phase = "asked" /\ Room(1)
    /\ transcript[memory[Len(memory)]] = "person"
    /\ Goes(<<"nudge">>, "asked")
    /\ UNCHANGED todo

\* _take_feedback: between rounds, never between a call and its result.
Interject ==
    /\ phase = "round" /\ round < MaxRounds /\ Room(1)
    /\ Goes(<<"person">>, "round")
    /\ UNCHANGED todo

\* A second look at the same messages: a silent retry without thinking after
\* a tool result, or a smaller context after the GPU ran out of memory.
\* Mutant: it does not count as a round.
RetryForFree ==
    /\ phase = "sent"
    /\ phase' = "round"
    /\ round' = round - 1
    /\ UNCHANGED <<disk, window, todo, request>>

Retry ==
    /\ phase = "sent"
    /\ phase' = "round"
    /\ UNCHANGED <<disk, window, round, todo, request>>

\* A reply that is no answer (empty, a promise, prose for an edit, a claim the
\* contract does not bear out): keep it, and correct it.
Correct ==
    /\ phase = "sent" /\ Room(2)
    /\ \E reply \in {"blank", "answer", "echo"} : Goes(<<reply, "nudge">>, "round")
    /\ UNCHANGED todo

\* The answer, after the project's tests when a file was changed.
Answer ==
    /\ phase = "sent"
    /\ \E reply \in {"answer", "echo"} :
         \/ Ends(<<reply>>)
         \/ Room(1) /\ Ends(<<"report", reply>>)

\* _stop: a timeout, an error, a ceiling or a dead end, said as a notice.
Stop ==
    /\ phase \in {"round", "sent", "ran"}
    /\ phase = "round" => round > 0
    /\ Ends(<<"notice">>)

CallTools ==
    /\ phase = "sent"
    /\ \E call \in Calling, n \in 1..2 :
         Room(n + 1) /\ Goes(<<call>>, "tools") /\ todo' = n

\* _run_tools: every call gets one result, a refused one too.
ToolResult ==
    /\ phase = "tools"
    /\ todo' = todo - 1
    /\ Goes(<<"result">>, IF todo = 1 THEN "ran" ELSE "tools")

\* The round is over: a question for the user ends the turn, guards and the
\* check of what was written speak up, and the next round begins.
EndOnQuestion ==
    /\ phase = "ran"
    /\ \/ Ends(<<"answer">>)
       \/ Room(1) /\ Ends(<<"report", "answer">>)

Steer ==
    /\ phase = "ran" /\ Room(1)
    /\ \E said \in {"nudge", "report"} : Goes(<<said>>, "ran")
    /\ UNCHANGED todo

NextRound ==
    /\ phase = "ran"
    /\ Goes(<<>>, "round")
    /\ UNCHANGED todo

-----------------------------------------------------------------------------
(* Around the turns.                                                       *)

\* The process dies: what was appended stays, the rest of the turn does not.
Crash == phase # "idle" /\ Over /\ UNCHANGED disk

\* Mutant: the turns are forgotten, their summary is not.
ClearTurnsOnly ==
    /\ phase = "idle" /\ floor < Len(transcript)
    /\ floor' = Len(transcript)
    /\ UNCHANGED <<transcript, mark, folded, phase, window, round, todo, request>>

\* /clear: clear_context moves the floor and the summary together.
Clear ==
    /\ phase = "idle" /\ floor < Len(transcript)
    /\ floor' = Len(transcript)
    /\ folded' = {} /\ mark' = Larger(1, Len(transcript))
    /\ UNCHANGED <<transcript, phase, window, round, todo, request>>

Preparing == AskForAPlan \/ Compact
Speaking == Interject \/ Send
Replying == Retry \/ Correct \/ Answer \/ Stop
Acting == CallTools \/ ToolResult \/ EndOnQuestion \/ Steer \/ NextRound
TurnStep == Preparing \/ Speaking \/ Replying \/ Acting

Next == Ask \/ TurnStep \/ Crash \/ Clear

Spec == Init /\ [][Next]_vars

\* A turn that began goes on: the call to the model has a timeout, a tool has
\* one, and the loop itself waits for nobody.
Fairness == WF_vars(TurnStep)

FairSpec == Spec /\ Fairness

-----------------------------------------------------------------------------
(* Properties.                                                             *)

\* The correction and the empty reply it was paired with are set aside on
\* purpose, as are a harness notice and a repeated answer.
SetAside(r) == transcript[r] \in {"nudge", "blank", "notice"} \cup Echo

\* What a person asked and no request to the model shows, nor its summary.
Forgotten ==
    {r \in floor + 1..Len(transcript) :
        transcript[r] = "person" /\ r \notin prompt /\ r \notin folded}

\* "Fold what no longer fits into a digest instead of dropping it"
\* (simple_chat.py:4615-4618): a request a person made is in what the model is
\* sent, or in the summary that goes with it, but for two leaks: records
\* further back than the window that no turn folded in time, and records that
\* slipped below the watermark when ones it had counted were dropped
\* (chat_state.py:344-389).
ForgottenForAReason ==
    phase = "sent" =>
        (\A r \in Forgotten : r <= offset \/ \E d \in folded : d < r /\ SetAside(d))

\* "never keep a tool result after dropping the assistant call that owns it"
\* (chat_state.py:257-259): only the filter of repeated answers does, which
\* drops the calls that came with the words.
ResultsKeepTheirCalls ==
    \A r \in {p \in prompt : transcript[p] = "result"} :
        \E c \in 1..r :
            /\ transcript[c] \in Calling
            /\ \A between \in c + 1..r : transcript[between] = "result"
            /\ c \in prompt \/ transcript[c] = "echocall"

\* "Whether the rolling summary describes anything not in the prompt"
\* (chat_state.py:444-460): then the model is told.
SummaryToldWhenNeeded ==
    (phase = "sent" /\ \E r \in folded : r \notin prompt /\ ~SetAside(r)) => told

\* /clear hides the earlier turns from the model, in the prompt and in the
\* summary (manager.py:568-579), whatever the window reaches.
NothingFromBeforeClear == \A r \in prompt \cup folded : r > floor

\* Every turn comes to its end, whatever the model replies: rounds are bounded
\* and each retry and each correction spends one.
EveryTurnEnds == phase # "idle" ~> phase = "idle"

=============================================================================
