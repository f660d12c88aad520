--------------------------- MODULE ProjectMemory ----------------------------
(***************************************************************************)
(* The memory of a project: one SQLite table that the terminal's /memory,  *)
(* the finished tasks and the model's memory tools all write               *)
(* (shamsu/memory/sqlite_store.py, service.py, agents/simple_memory.py),   *)
(* its forget markers, and the optional Graphiti index that holds a second *)
(* copy and can delete nothing.                                            *)
(*                                                                         *)
(* A memory is its text.  Texts with a title are the notes the model       *)
(* writes: one note per title, aged and tidied away.  Plain texts come     *)
(* from the user and from tasks and are copied to the index.  Kinds and    *)
(* runs, which split texts further, relevance and limits are left out: any *)
(* memory may be the one a recall is about.                                *)
(***************************************************************************)
EXTENDS Integers, Sequences, FiniteSetsExt

CONSTANTS
    Session,     \* processes of one workspace
    Text,        \* memories
    Title,       \* type and title of a note
    Plain,       \* the title of what is not a note
    TitleOf,     \* [Text -> Title \cup {Plain}]
    Phrase,      \* parts of texts that one may ask to forget
    Within,      \* [Phrase -> SUBSET Text]: where they occur
    Distinctive, \* the phrases of 8 characters or more
    Graphiti,    \* whether the index is enabled
    HotCap,      \* HOT_CAP
    MaxOps,      \* bound: operations begun
    MaxPeriods   \* bound: times that 61 days go by

ASSUME MemoryAssumption ==
    /\ Plain \notin Title
    /\ TitleOf \in [Text -> Title \cup {Plain}]
    /\ Within \in [Phrase -> SUBSET Text] /\ Distinctive \subseteq Phrase
    /\ Phrase \cap Text = {} /\ Int \cap (Phrase \cup Text) = {}
    /\ Graphiti \in BOOLEAN
    /\ HotCap \in Nat /\ MaxOps \in Nat /\ MaxPeriods \in Nat

VARIABLES
    rows,     \* the table memories, by number
    tombs,    \* memory_tombstones: texts, phrases and row numbers
    copies,   \* what the index holds
    jobs,     \* texts in some process's mirror queue
    copying,  \* texts a worker has found in no tombstone and is writing
    doing,    \* [Session -> what it does]
    at,       \* [Session -> how far it is]
    note,     \* [Session -> the row it has saved, or 0]
    read,     \* [Session -> the tombstones it read]
    listed,   \* [Session -> its snapshot of the active rows]
    doomed,   \* [Session -> rows its tidy will forget]
    fading,   \* [Session -> rows its tidy will archive]
    shown,    \* [Session -> what its last recall gave]
    word,     \* history: the last word on a text
    since,    \* history: [Session -> that word when its recall began]
    disused,  \* history: [row -> periods since it was saved or recalled]
    lost,     \* history: texts that a tidy forgot which had not seen their use
    ops, periods

store == <<rows, tombs>>
index == <<copies, jobs, copying>>
session == <<doing, at, note, read, listed, doomed, fading, shown>>
history == <<word, since, disused, lost>>
vars == <<store, index, session, history, ops, periods>>

Id == 1..MaxOps
\* "gone" is forgotten by its text or a distinctive phrase, "dropped" is
\* forgotten by its number or a short phrase.
Word == {"none", "kept", "dropped", "gone"}

Row == [text : Text, active : BOOLEAN, hot : BOOLEAN, age : 0..2, stamp : Nat]

TypeOK ==
    /\ rows \in Seq(Row) /\ Len(rows) <= MaxOps
    /\ tombs \subseteq Text \cup Phrase \cup Id
    /\ copies \subseteq Text /\ jobs \subseteq Text /\ copying \subseteq jobs
    /\ doing \in [Session -> {"nothing", "recall", "brief", "save", "forget"}]
    /\ at \in [Session -> {"idle", "looking", "listing", "acting"}]
    /\ note \in [Session -> 0..MaxOps]
    /\ read \in [Session -> SUBSET (Text \cup Phrase \cup Id)]
    /\ \A s \in Session :
          /\ DOMAIN listed[s] \subseteq Id
          /\ \A i \in DOMAIN listed[s] : listed[s][i] \in Row
          /\ doomed[s] \cup fading[s] \subseteq DOMAIN listed[s]
    /\ shown \in [Session -> SUBSET Text]
    /\ word \in [Text -> Word] /\ since \in [Session -> [Text -> Word]]
    /\ lost \subseteq Text
    /\ disused \in Seq(0..2) /\ Len(disused) = Len(rows)
    /\ ops \in 0..MaxOps /\ periods \in 0..MaxPeriods

Init ==
    /\ rows = <<>> /\ tombs = {}
    /\ copies = {} /\ jobs = {} /\ copying = {}
    /\ doing = [s \in Session |-> "nothing"]
    /\ at = [s \in Session |-> "idle"]
    /\ note = [s \in Session |-> 0]
    /\ read = [s \in Session |-> {}]
    /\ listed = [s \in Session |-> <<>>]
    /\ doomed = [s \in Session |-> {}] /\ fading = [s \in Session |-> {}]
    /\ shown = [s \in Session |-> {}]
    /\ word = [t \in Text |-> "none"] /\ lost = {}
    /\ since = [s \in Session |-> word]
    /\ disused = <<>>
    /\ ops = 0 /\ periods = 0

IsNote(t) == TitleOf[t] # Plain

-----------------------------------------------------------------------------
(* Remembering: one transaction.                                           *)

\* Two texts are the same memory when they are equal or carry one title.
Same(t, u) == t = u \/ (IsNote(t) /\ TitleOf[t] = TitleOf[u])

\* Mutant: a forgotten row is as good as an active one.
KnownAtAll(t) == {i \in DOMAIN rows : Same(rows[i].text, t)}

\* The active rows a memory may already have.
Known(t) == {i \in DOMAIN rows : rows[i].active /\ Same(rows[i].text, t)}

Fresh(t, stamp) == [text |-> t, active |-> TRUE, hot |-> TRUE, age |-> 0, stamp |-> stamp]

\* Mutant: the forget markers of phrases in the text go too.
StoredForgettingPhrases(t) ==
    /\ tombs' = tombs \ ({t} \cup {p \in Phrase : t \in Within[p]})
    /\ rows' = Append(rows, Fresh(t, 0)) /\ disused' = Append(disused, 0)
    /\ word' = [word EXCEPT ![t] = "kept"]
    /\ since' = [s \in Session |-> [since[s] EXCEPT ![t] = "kept"]]
    /\ UNCHANGED lost

\* A note that is known gets the new text, a plain memory stays as it is, an
\* unknown one is inserted; the exact forget marker goes.
Stored(t) ==
    /\ tombs' = tombs \ {t}
    /\ LET known == Known(t) IN
       IF known = {} THEN
            /\ rows' = Append(rows, Fresh(t, 0))
            /\ disused' = Append(disused, 0)
       ELSE IF IsNote(t) THEN
            /\ rows' = [rows EXCEPT ![Max(known)] = Fresh(t, @.stamp + 1)]
            /\ disused' = [disused EXCEPT ![Max(known)] = 0]
       ELSE UNCHANGED <<rows, disused>>
    /\ word' = [u \in Text |->
                    IF u = t THEN "kept"
                    ELSE IF word[u] = "kept" /\ Same(u, t) THEN "none" ELSE word[u]]
    /\ since' = [s \in Session |-> [since[s] EXCEPT ![t] = "kept"]]
    /\ lost' = {u \in lost : ~Same(u, t)}

Begins == ops < MaxOps /\ ops' = ops + 1

\* /memory remember and finished tasks: a plain memory, then enqueue, which
\* takes a job or does not (MirrorQueue).
Remember(t) ==
    /\ Begins /\ ~IsNote(t)
    /\ Stored(t)
    /\ \/ Graphiti /\ jobs' = jobs \cup {t}
       \/ UNCHANGED jobs
    /\ UNCHANGED <<copies, copying, session, periods>>

\* memory_remember: a note, then the store is read again and tidied.
Save(s, t) ==
    /\ Begins /\ at[s] = "idle" /\ IsNote(t)
    /\ Stored(t)
    /\ doing' = [doing EXCEPT ![s] = "save"]
    /\ at' = [at EXCEPT ![s] = "looking"]
    /\ note' = [note EXCEPT ![s] =
                    IF Known(t) = {} THEN Len(rows) + 1 ELSE Max(Known(t))]
    /\ UNCHANGED <<index, read, listed, doomed, fading, shown, periods>>

-----------------------------------------------------------------------------
(* Forgetting: one transaction.                                            *)

Covers(q) == IF q \in Phrase THEN Within[q] ELSE {q}

\* A row number forgets that row; anything else every row it occurs in.
Taken(x) ==
    IF x \in DOMAIN rows THEN {x}
    ELSE {i \in DOMAIN rows : rows[i].text \in Covers(x)}

Forgotten(x) ==
    /\ tombs' = tombs \cup {x}
    /\ rows' = [i \in DOMAIN rows |->
                    IF i \in Taken(x) THEN [rows[i] EXCEPT !.active = FALSE] ELSE rows[i]]

\* What a person who forgets x will not hear of again.
Meant(x) ==
    IF x \in DOMAIN rows THEN {rows[i].text : i \in {j \in {x} : rows[j].active}}
    ELSE Covers(x)

ForgottenOnRequest(x) ==
    /\ Forgotten(x)
    /\ word' = [t \in Text |->
                    IF t \notin Meant(x) THEN word[t]
                    ELSE IF x \in Text \cup Distinctive THEN "gone"
                    ELSE IF word[t] = "gone" THEN "gone" ELSE "dropped"]
    /\ UNCHANGED <<since, disused, lost>>

\* /memory forget <memory-id-or-query>.
Forget(x) ==
    /\ Begins
    /\ x \in Text \cup Phrase \cup DOMAIN rows
    /\ ForgottenOnRequest(x)
    /\ UNCHANGED <<index, session, periods>>

-----------------------------------------------------------------------------
(* Reading: the tombstones, then the active rows, in two transactions.     *)

\* _is_tombstoned, of a text and of a row.
HiddenText(t, marks) ==
    \/ t \in marks
    \/ \E p \in marks \cap Distinctive : t \in Within[p]
Hidden(i, marks) == i \in marks \/ HiddenText(rows[i].text, marks)

\* A recall of notes, a brief from the index too, or memory_forget.
Begin(s, what) ==
    /\ Begins /\ at[s] = "idle"
    /\ what \in {"recall", "brief", "forget"}
    /\ doing' = [doing EXCEPT ![s] = what]
    /\ at' = [at EXCEPT ![s] = "looking"]
    /\ UNCHANGED <<store, index, note, read, listed, doomed, fading, shown, history, periods>>

Look(s) ==
    /\ at[s] = "looking"
    /\ at' = [at EXCEPT ![s] = "listing"]
    /\ read' = [read EXCEPT ![s] = tombs]
    /\ shown' = [shown EXCEPT ![s] = {}]
    /\ since' = [since EXCEPT ![s] = word]
    /\ UNCHANGED <<store, index, doing, note, listed, doomed, fading, word, disused, lost,
                   ops, periods>>

Visible(s) == {i \in DOMAIN rows : rows[i].active /\ ~Hidden(i, read[s])}

\* What tidy will do about a snapshot: rows archived and unused for over 90
\* days are forgotten, hot ones unused for over 60 are archived, and so are
\* the longest unused of those beyond the cap.  A session whose own note is
\* not among them reports that and does not tidy.
Expired(view) ==
    {i \in DOMAIN view : IsNote(view[i].text) /\ ~view[i].hot /\ view[i].age = 2}
Cooling(view) ==
    {i \in DOMAIN view : IsNote(view[i].text) /\ view[i].hot /\ view[i].age > 0}
Crowded(view) ==
    LET hot == {i \in DOMAIN view : IsNote(view[i].text) /\ view[i].hot /\ view[i].age = 0}
        over == Cardinality(hot) - HotCap
    IN IF over > 0 THEN kSubset(over, hot) ELSE {{}}

List(s) ==
    /\ at[s] = "listing"
    /\ at' = [at EXCEPT ![s] = "acting"]
    /\ LET view == [i \in Visible(s) |-> rows[i]] IN
       /\ listed' = [listed EXCEPT ![s] = view]
       /\ IF note[s] \in DOMAIN view
          THEN /\ doomed' = [doomed EXCEPT ![s] = Expired(view)]
               /\ \E crowd \in Crowded(view) :
                     fading' = [fading EXCEPT ![s] = Cooling(view) \cup crowd]
          ELSE UNCHANGED <<doomed, fading>>
    /\ UNCHANGED <<store, index, doing, note, read, shown, history, ops, periods>>

\* Mutant: the rows to forget outlive the snapshot they were chosen from.
IdleStillDoomed(s) ==
    /\ doing' = [doing EXCEPT ![s] = "nothing"]
    /\ at' = [at EXCEPT ![s] = "idle"]
    /\ note' = [note EXCEPT ![s] = 0]
    /\ read' = [read EXCEPT ![s] = {}]
    /\ listed' = [listed EXCEPT ![s] = <<>>]
    /\ fading' = [fading EXCEPT ![s] = {}]
    /\ UNCHANGED doomed

\* The session is through, or was killed.
Idle(s) ==
    /\ doing' = [doing EXCEPT ![s] = "nothing"]
    /\ at' = [at EXCEPT ![s] = "idle"]
    /\ note' = [note EXCEPT ![s] = 0]
    /\ read' = [read EXCEPT ![s] = {}]
    /\ listed' = [listed EXCEPT ![s] = <<>>]
    /\ doomed' = [doomed EXCEPT ![s] = {}]
    /\ fading' = [fading EXCEPT ![s] = {}]

\* recall: the chosen rows are marked as used, if they are still active.
Touch(s) ==
    /\ at[s] = "acting" /\ doing[s] = "recall"
    /\ \E chosen \in SUBSET DOMAIN listed[s] :
          LET used == {i \in chosen : rows[i].active /\ IsNote(rows[i].text)} IN
          /\ shown' = [shown EXCEPT ![s] = {listed[s][i].text : i \in chosen}]
          /\ rows' = [i \in DOMAIN rows |->
                          IF i \in used THEN Fresh(rows[i].text, rows[i].stamp + 1)
                          ELSE rows[i]]
          /\ disused' = [i \in DOMAIN rows |-> IF i \in used THEN 0 ELSE disused[i]]
    /\ Idle(s)
    /\ UNCHANGED <<tombs, index, word, since, lost, ops, periods>>

\* get_relevant: what the index finds, when it is up, comes along, unless a
\* tombstone read before hides its text.
Brief(s) ==
    /\ at[s] = "acting" /\ doing[s] = "brief"
    /\ \E found \in {{}, copies} :
          shown' = [shown EXCEPT ![s] =
                        {listed[s][i].text : i \in DOMAIN listed[s]}
                        \cup {t \in found : ~HiddenText(t, read[s])}]
    /\ Idle(s)
    /\ UNCHANGED <<store, index, history, ops, periods>>

\* memory_forget: only a row that was listed.
ForgetListed(s) ==
    /\ at[s] = "acting" /\ doing[s] = "forget"
    /\ \E i \in DOMAIN listed[s] : ForgottenOnRequest(i)
    /\ Idle(s)
    /\ UNCHANGED <<index, shown, ops, periods>>

-----------------------------------------------------------------------------
(* Tidying, after a note was saved.                                        *)

\* One row of the snapshot is forgotten, whatever it has become.  A history
\* variable notes when it was saved or recalled in between.
Expire(s, i) ==
    /\ at[s] = "acting" /\ i \in doomed[s]
    /\ doomed' = [doomed EXCEPT ![s] = @ \ {i}]
    /\ Forgotten(i)
    /\ LET t == rows[i].text IN
       IF rows[i].stamp = listed[s][i].stamp
       THEN /\ word' = [word EXCEPT ![t] = IF @ = "kept" THEN "none" ELSE @]
            /\ UNCHANGED lost
       ELSE /\ lost' = IF rows[i].active THEN lost \cup {t} ELSE lost
            /\ UNCHANGED word
    /\ UNCHANGED <<index, doing, at, note, read, listed, fading, shown, since, disused,
                   ops, periods>>

\* Mutant: the snapshot is written back over whatever is there.
ArchiveBlindly(s, i) ==
    /\ at[s] = "acting" /\ doomed[s] = {} /\ i \in fading[s]
    /\ fading' = [fading EXCEPT ![s] = @ \ {i}]
    /\ rows' = [rows EXCEPT ![i].hot = FALSE, ![i].age = listed[s][i].age]
    /\ UNCHANGED <<tombs, index, doing, at, note, read, listed,
                   doomed, shown, history, ops, periods>>

\* _save: tier and age of the snapshot are written back, if nobody has
\* written the row since.
Archive(s, i) ==
    /\ at[s] = "acting" /\ doomed[s] = {} /\ i \in fading[s]
    /\ fading' = [fading EXCEPT ![s] = @ \ {i}]
    /\ rows' = IF rows[i].active /\ rows[i].stamp = listed[s][i].stamp
               THEN [rows EXCEPT ![i].hot = FALSE, ![i].age = listed[s][i].age,
                                 ![i].stamp = @ + 1]
               ELSE rows
    /\ UNCHANGED <<tombs, index, doing, at, note, read, listed,
                   doomed, shown, history, ops, periods>>

\* Nothing is left to tidy, a step of it failed, there was no such row to
\* forget, or the process was killed.
Leave(s) ==
    /\ at[s] # "idle"
    /\ Idle(s)
    /\ UNCHANGED <<store, index, shown, history, ops, periods>>

-----------------------------------------------------------------------------
(* The index.                                                              *)

\* mirror_to_graphiti looks for a tombstone first; the index is down, or the
\* text goes on its way.
Check(t) ==
    /\ t \in jobs \ copying
    /\ \/ jobs' = jobs \ {t} /\ UNCHANGED copying
       \/ ~HiddenText(t, tombs) /\ copying' = copying \cup {t} /\ UNCHANGED jobs
    /\ UNCHANGED <<store, copies, session, history, ops, periods>>

Copy(t) ==
    /\ t \in copying
    /\ \/ copies' = copies \cup {t}
       \/ UNCHANGED copies
    /\ copying' = copying \ {t} /\ jobs' = jobs \ {t}
    /\ UNCHANGED <<store, session, history, ops, periods>>

Aged(table) ==
    [i \in DOMAIN table |-> [table[i] EXCEPT !.age = IF @ < 2 THEN @ + 1 ELSE 2]]

\* 61 days, so that two of them are more than 90; no call takes that long.
TimePasses ==
    /\ periods < MaxPeriods /\ periods' = periods + 1
    /\ \A s \in Session : at[s] = "idle"
    /\ rows' = Aged(rows)
    /\ disused' = [i \in DOMAIN rows |-> IF disused[i] < 2 THEN disused[i] + 1 ELSE 2]
    /\ UNCHANGED <<tombs, index, session, word, since, lost, ops>>

-----------------------------------------------------------------------------
Tidies(s) == \E i \in Id : Expire(s, i) \/ Archive(s, i)

Next ==
    \/ \E t \in Text : Remember(t) \/ Check(t) \/ Copy(t)
    \/ \E x \in Text \cup Phrase \cup Id : Forget(x)
    \/ \E s \in Session :
          \/ \E t \in Text : Save(s, t)
          \/ \E what \in {"recall", "brief", "forget"} : Begin(s, what)
          \/ Look(s) \/ List(s) \/ Touch(s) \/ Brief(s) \/ ForgetListed(s)
          \/ Tidies(s) \/ Leave(s)
    \/ TimePasses

Spec == Init /\ [][Next]_vars

-----------------------------------------------------------------------------
(* Properties.                                                             *)

\* A recall never gives a memory that was forgotten by its text or by a
\* distinctive phrase before it began and not remembered since; one that was
\* forgotten by its number or by a short phrase can only come from the index,
\* which knows neither.  Jobs that were queued, checked or being written at
\* the time of forgetting change nothing of that (service.py:91-105,
\* 389-402, 248-291).
ForgottenOnlyComesFromTheIndex ==
    \A s \in Session : \A t \in shown[s] :
        /\ since[s][t] # "gone"
        /\ since[s][t] = "dropped" => t \in copies

\* What was saved last is an active row with no exact forget marker, until
\* it is forgotten, replaced or expires, whatever was forgotten before and
\* however many sessions write; only a tidy that was overtaken loses it
\* (sqlite_store.py:178-225, simple_memory.py:311-337).
SavedIsKept ==
    \A t \in Text :
        word[t] = "kept" /\ t \notin lost =>
            /\ t \notin tombs
            /\ \E i \in DOMAIN rows \ tombs : rows[i].active /\ rows[i].text = t

\* The age on an active note is the time since it was last saved or recalled:
\* a tidy that writes tiers back over a note in use does not put the old date
\* back too, by which the note would expire early (sqlite_store.py:400-418).
AgesAreTrue ==
    \A i \in DOMAIN rows :
        rows[i].active /\ IsNote(rows[i].text) => rows[i].age = disused[i]

=============================================================================
