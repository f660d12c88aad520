------------------------- MODULE TelegramTurnsProofs -------------------------
(***************************************************************************)
(* Proofs about TelegramTurns, for any number of processes, updates and    *)
(* rounds: its types, that an update is handled once, and that none slips  *)
(* by the stored offset.                                                   *)
(***************************************************************************)
EXTENDS TelegramTurns, SequenceTheorems, WellFoundedInduction, TLAPS

\* What was fetched is a stretch of update_ids the bot has been sent.
BatchesAreStretches ==
    \A p \in Process : \A i \in DOMAIN batch[p] :
        batch[p][i] = batch[p][1] + i - 1 /\ batch[p][i] <= Len(sent)

\* The insert comes before any handling, and the handling before any answer.
BegunIsProcessed == \A p \in Process, u \in Update : Begun(p, u) => u \in processed
AnsweredIsProcessed == \A u \in Update : u \notin processed => reply[u] = "none"

\* An update that is done with or that somebody is responsible for.
InHands(u) == \E p \in Process : stage[p][u] \in {"taken", "queued"}
Accounted(u) == u \in processed \cup cut \/ InHands(u)

\* The three marks an update may lie behind: the stored offset, what Telegram
\* has forgotten, and the next update of a batch.
Behind(u) ==
    \/ u < offset \/ u < confirmed
    \/ \E p \in Process : batch[p] # <<>> /\ u < batch[p][1]

PassedAreAccounted == \A u \in Update : Behind(u) => Accounted(u)

\* The invariant: types, what is fetched, what is begun, and what is behind.
TInv ==
    /\ TypeOK /\ BatchesAreStretches
    /\ BegunIsProcessed /\ AnsweredIsProcessed /\ HandledOnce
    /\ PassedAreAccounted

-----------------------------------------------------------------------------
\* A set of naturals has a least element.
LEMMA LeastOf ==
    ASSUME NEW T \in SUBSET Nat, T # {}
    PROVE  \E m \in T : \A k \in T : m <= k
<1> DEFINE R == {ss \in Nat \X Nat : ss[1] < ss[2]}
<1>1. IsWellFoundedOn(R, Nat)
  BY NatLessThanWellFounded DEF OpToRel
<1>2. \E m \in T : \A k \in T : ~(<<k, m>> \in R)
  <2> HIDE DEF R
  <2> QED
    BY <1>1, WFMin
<1>3. PICK m \in T : \A k \in T : ~(<<k, m>> \in R)
  BY <1>2
<1>4. ASSUME NEW k \in T PROVE m <= k
  <2>1. m \in Nat /\ k \in Nat
    OBVIOUS
  <2>2. ~(k < m)
    BY <1>3, <2>1
  <2> QED
    BY <2>1, <2>2
<1> QED
  BY <1>4

\* Taking an element out of a sequence leaves a sequence.
LEMMA RemoveFirstType ==
    ASSUME NEW S, NEW q \in Seq(S), NEW e
    PROVE  RemoveFirst(q, e) \in Seq(S)
<1> DEFINE I == {i \in 1..Len(q) : q[i] = e}
<1>1. CASE I = {}
  BY <1>1 DEF RemoveFirst
<1>2. CASE I # {}
  <2>1. I \in SUBSET Nat
    OBVIOUS
  <2>2. Min(I) \in I
    <3>1. \E m \in I : \A k \in I : m <= k
      BY <1>2, <2>1, LeastOf
    <3> QED
      BY <3>1 DEF Min
  <2>3. RemoveFirst(q, e) = SubSeq(q, 1, Min(I) - 1) \o SubSeq(q, Min(I) + 1, Len(q))
    BY <1>2 DEF RemoveFirst, RemoveAt, SelectInSeq
  <2>4. SubSeq(q, 1, Min(I) - 1) \in Seq(S) /\ SubSeq(q, Min(I) + 1, Len(q)) \in Seq(S)
    <3>1. Min(I) \in 1..Len(q) /\ Len(q) \in Nat
      BY <2>2, LenProperties
    <3> HIDE DEF I
    <3>2. \A i \in 1..Min(I) - 1 : q[i] \in S
      BY <3>1, ElementOfSeq
    <3>3. \A i \in Min(I) + 1..Len(q) : q[i] \in S
      BY <3>1, ElementOfSeq
    <3>4. SubSeq(q, 1, Min(I) - 1) \in Seq(S)
      BY <3>1, <3>2, SubSeqProperties
    <3>5. SubSeq(q, Min(I) + 1, Len(q)) \in Seq(S)
      BY <3>1, <3>3, SubSeqProperties
    <3> QED
      BY <3>4, <3>5
  <2> QED
    BY <2>3, <2>4, ConcatProperties
<1> QED
  BY <1>1, <1>2

-----------------------------------------------------------------------------
\* Nothing was sent, fetched or begun yet.
LEMMA InitInv == Init => TInv
<1> SUFFICES ASSUME Init PROVE TInv
  OBVIOUS
<1> USE TelegramAssumption DEF Init
<1>1. TypeOK
  BY DEF TypeOK, Stage, Reply, Update
<1>2. BatchesAreStretches /\ BegunIsProcessed /\ AnsweredIsProcessed /\ HandledOnce
  BY DEF BatchesAreStretches, BegunIsProcessed, AnsweredIsProcessed, HandledOnce, Begun
<1>3. PassedAreAccounted
  BY DEF PassedAreAccounted, Behind, Update
<1> QED
  BY <1>1, <1>2, <1>3 DEF TInv

\* An element of a batch is an update, and so is what may be fetched.
LEMMA BatchShape ==
    ASSUME TInv, NEW p \in Process, batch[p] # <<>>
    PROVE  /\ batch[p] \in Seq(Update) /\ Len(batch[p]) \in Nat /\ 1 \in DOMAIN batch[p]
           /\ Head(batch[p]) = batch[p][1] /\ batch[p][1] \in Update
           /\ batch[p][1] <= Len(sent)
           /\ Tail(batch[p]) \in Seq(Update)
           /\ Len(Tail(batch[p])) = Len(batch[p]) - 1
           /\ \A i \in DOMAIN Tail(batch[p]) :
                 Tail(batch[p])[i] = batch[p][i + 1] /\ i + 1 \in DOMAIN batch[p]
<1>1. batch[p] \in Seq(Update)
  BY DEF TInv, TypeOK
<1>2. Len(batch[p]) \in Nat /\ DOMAIN batch[p] = 1..Len(batch[p]) /\ Len(batch[p]) # 0
  BY <1>1, LenProperties, EmptySeq
<1>3. 1 \in DOMAIN batch[p]
  BY <1>2
<1>4. batch[p][1] \in Update /\ Head(batch[p]) = batch[p][1]
  BY <1>1, <1>2, ElementOfSeq
<1>5. batch[p][1] <= Len(sent)
  BY <1>3 DEF TInv, BatchesAreStretches
<1> QED
  BY <1>1, <1>2, <1>3, <1>4, <1>5, HeadTailProperties

\* The types of a queue of updates at one process or of one turn.
LEMMA UpdatesOf ==
    ASSUME NEW q \in Seq(Update)
    PROVE  /\ \A i \in DOMAIN q : q[i] \in Update
           /\ q # <<>> => q[Len(q)] \in Update
BY LenProperties, EmptySeq, ElementOfSeq

\* A step of one update keeps the types of the stages.
LEMMA MovesType ==
    ASSUME TypeOK, NEW p \in Process, NEW u \in Update, NEW s \in Stage, Moves(p, u, s)
    PROVE  stage' \in [Process -> [Update -> Stage]]
<1>1. stage[p] \in [Update -> Stage]
  BY DEF TypeOK
<1>2. [stage[p] EXCEPT ![u] = s] \in [Update -> Stage]
  BY <1>1
<1> QED
  BY <1>2 DEF TypeOK, Moves

\* One step of the proof per action.
LEMMA TypeStep == TInv /\ [Next]_vars => TypeOK'
<1> SUFFICES ASSUME TInv, [Next]_vars PROVE TypeOK'
  OBVIOUS
<1>0. TypeOK
  BY DEF TInv
<1> USE TelegramAssumption DEF telegram, store, polling, turns
<1>1. ASSUME NEW kind \in Kind, PersonSends(kind) PROVE TypeOK'
  <2>1. /\ sent' \in Seq(Kind) /\ Len(sent') = Len(sent) + 1
        /\ Len(sent) \in Nat /\ Len(sent) < MaxUpdates
    BY <1>0, <1>1, AppendProperties DEF PersonSends, TypeOK
  <2>2. /\ Len(sent') <= MaxUpdates
        /\ confirmed \in 1..Len(sent') + 1 /\ offset \in 1..Len(sent') + 1
    BY <1>0, <2>1 DEF TypeOK
  <2> QED
    BY <1>0, <1>1, <2>1, <2>2 DEF PersonSends, TypeOK
<1>2. ASSUME NEW p \in Process, StartPolling(p) PROVE TypeOK'
  BY <1>0, <1>2 DEF StartPolling, TypeOK
<1>3. ASSUME NEW p \in Process, Fetch(p) PROVE TypeOK'
  <2> DEFINE from == IF offset > confirmed THEN offset ELSE confirmed
  <2>1. /\ from \in 1..Len(sent) /\ confirmed' = from /\ Len(sent) \in Nat
        /\ batch' = [batch EXCEPT ![p] = [i \in 1..Len(sent) - from + 1 |-> from + i - 1]]
    BY <1>0, <1>3 DEF Fetch, TypeOK
  <2> HIDE DEF from
  <2>2. [i \in 1..Len(sent) - from + 1 |-> from + i - 1] \in Seq(Update)
    BY <1>0, <2>1, IsASeq DEF TypeOK, Update
  <2> QED
    BY <1>0, <1>3, <2>1, <2>2 DEF Fetch, TypeOK
<1>4. ASSUME NEW p \in Process, Take(p) PROVE TypeOK'
  <2>1. batch[p] # <<>>
    BY <1>4 DEF Take
  <2>2. /\ offset' = batch[p][1] + 1 /\ batch[p][1] \in Update /\ Head(batch[p]) \in Update
        /\ batch[p][1] <= Len(sent) /\ Tail(batch[p]) \in Seq(Update)
    BY <1>4, <2>1, BatchShape DEF Take
  <2>3. offset' \in 1..Len(sent) + 1
    <3>1. Len(sent) \in Nat
      BY <1>0, LenProperties DEF TypeOK
    <3> QED
      BY <2>2, <3>1 DEF Update
  <2>4. batch' \in [Process -> Seq(Update)]
    BY <1>0, <1>4, <2>2 DEF Take, TypeOK
  <2>5. stage' \in [Process -> [Update -> Stage]]
    <3>1. CASE UNCHANGED stage
      BY <1>0, <3>1 DEF TypeOK
    <3>2. CASE Moves(p, Head(batch[p]), "taken")
      BY <1>0, <2>2, <3>2, MovesType DEF Stage
    <3> QED
      BY <1>4, <3>1, <3>2 DEF Take
  <2> QED
    BY <1>0, <1>4, <2>3, <2>4, <2>5 DEF Take, TypeOK
<1>5. ASSUME NEW p \in Process, NEW u \in Update,
             Acknowledge(p, u) \/ Raises(p, u) \/ Dedupe(p, u)
      PROVE  TypeOK'
  <2>1. stage' \in [Process -> [Update -> Stage]]
    BY <1>0, <1>5, MovesType DEF Acknowledge, Raises, Dedupe, Stage
  <2>2. batch' \in [Process -> Seq(Update)]
    <3>1. <<>> \in Seq(Update) /\ batch \in [Process -> Seq(Update)]
      BY <1>0, EmptySeq DEF TypeOK
    <3>2. batch' = batch \/ batch' = [batch EXCEPT ![p] = <<>>]
      BY <1>5 DEF Acknowledge, Raises, Dedupe
    <3> QED
      BY <3>1, <3>2
  <2> QED
    BY <1>0, <1>5, <2>1, <2>2 DEF Acknowledge, Raises, Dedupe, TypeOK
<1>6. ASSUME NEW p \in Process, NEW u \in Update, Command(p, u) PROVE TypeOK'
  <2>1. runs[p] # <<>> => runs[p][Len(runs[p])] \in Update
    BY <1>0, UpdatesOf DEF TypeOK
  <2>2. stage' \in [Process -> [Update -> Stage]]
    BY <1>0, <1>6, MovesType DEF Command, Stage
  <2>3. reply' \in [Update -> Reply] /\ cancelled' \subseteq Update
    BY <1>0, <1>6, <2>1 DEF Command, TypeOK, Reply
  <2> QED
    BY <1>0, <1>6, <2>2, <2>3 DEF Command, TypeOK
<1>7. ASSUME NEW p \in Process, StopPolling(p) PROVE TypeOK'
  BY <1>0, <1>7 DEF StopPolling, TypeOK
<1>8. ASSUME NEW p \in Process, FinishStopping(p) PROVE TypeOK'
  <2>1. [u \in Update |-> IF u \in Cancelled(p) THEN "none" ELSE stage[p][u]]
            \in [Update -> Stage]
    BY <1>0 DEF TypeOK, Stage
  <2>2. stage' \in [Process -> [Update -> Stage]]
    BY <1>0, <1>8, <2>1 DEF FinishStopping, TypeOK
  <2>3. batch' \in [Process -> Seq(Update)]
    BY <1>0, <1>8, EmptySeq DEF FinishStopping, TypeOK
  <2> QED
    BY <1>0, <1>8, <2>2, <2>3 DEF FinishStopping, TypeOK, Cancelled, Unanswered
<1>9. ASSUME NEW p \in Process, Crash(p) PROVE TypeOK'
  <2>1. [u \in Update |-> "none"] \in [Update -> Stage]
    BY DEF Stage
  <2>2. stage' \in [Process -> [Update -> Stage]]
    BY <1>0, <1>9, <2>1 DEF Crash, TypeOK
  <2>3. batch' \in [Process -> Seq(Update)] /\ runs' \in [Process -> Seq(Update)]
    BY <1>0, <1>9, EmptySeq DEF Crash, TypeOK
  <2> QED
    BY <1>0, <1>9, <2>2, <2>3 DEF Crash, TypeOK, Cancelled, Unanswered
<1>10. ASSUME NEW p \in Process, NEW u \in Update, Route(p, u) PROVE TypeOK'
  <2>1. runs[p] # <<>> => runs[p][Len(runs[p])] \in Update
    BY <1>0, UpdatesOf DEF TypeOK
  <2>2. stage' \in [Process -> [Update -> Stage]]
    BY <1>0, <1>10, MovesType DEF Route, Stage
  <2>3. steered' \in [Update -> Update \cup {0}]
    BY <1>0, <1>10, <2>1 DEF Route, TypeOK
  <2> QED
    BY <1>0, <1>10, <2>2, <2>3 DEF Route, TypeOK
<1>11. ASSUME NEW p \in Process, NEW u \in Update, AddFeedback(p, u) PROVE TypeOK'
  <2>1. \A i \in DOMAIN runs[p] : runs[p][i] \in Update
    BY <1>0, UpdatesOf DEF TypeOK
  <2>2. feedback' \in [Update -> Seq(Update)]
    <3>1. CASE feedback' = feedback
      BY <1>0, <3>1 DEF TypeOK
    <3>2. CASE /\ steered[u] \in Update
               /\ feedback' = [feedback EXCEPT ![steered[u]] = Append(@, u)]
      BY <1>0, <3>2, AppendProperties DEF TypeOK
    <3> QED
      BY <1>11, <2>1, <3>1, <3>2 DEF AddFeedback
  <2>3. stage' \in [Process -> [Update -> Stage]]
    BY <1>0, <1>11, MovesType DEF AddFeedback, Stage
  <2>4. reply' \in [Update -> Reply]
    BY <1>0, <1>11 DEF AddFeedback, TypeOK, Reply
  <2> QED
    BY <1>0, <1>11, <2>2, <2>3, <2>4 DEF AddFeedback, TypeOK
<1>12. ASSUME NEW p \in Process, NEW u \in Update, Register(p, u) PROVE TypeOK'
  <2>1. Append(runs[p], u) \in Seq(Update)
    BY <1>0, AppendProperties DEF TypeOK
  <2>2. stage' \in [Process -> [Update -> Stage]]
    BY <1>0, <1>12, MovesType DEF Register, Stage
  <2> QED
    BY <1>0, <1>12, <2>1, <2>2 DEF Register, TypeOK
<1>13. ASSUME NEW p \in Process, NEW u \in Update, Round(p, u) PROVE TypeOK'
  <2>1. {feedback[u][i] : i \in DOMAIN feedback[u]} \subseteq Update
    BY <1>0, UpdatesOf DEF TypeOK
  <2>2. feedback' \in [Update -> Seq(Update)]
    BY <1>0, <1>13, EmptySeq DEF Round, TypeOK
  <2>3. rounds' \in [Update -> 0..MaxRounds]
    <3>1. rounds[u] + 1 \in 0..MaxRounds
      BY <1>0, <1>13 DEF Round, TypeOK
    <3> QED
      BY <1>0, <1>13, <3>1 DEF Round, TypeOK
  <2>4. read' \subseteq Update
    BY <1>0, <1>13, <2>1 DEF Round, TypeOK
  <2> QED
    BY <1>0, <1>13, <2>2, <2>3, <2>4 DEF Round, TypeOK
<1>14. ASSUME NEW p \in Process, NEW u \in Update, Complete(p, u) PROVE TypeOK'
  <2>1. RemoveFirst(runs[p], u) \in Seq(Update)
    BY <1>0, RemoveFirstType DEF TypeOK
  <2>2. stage' \in [Process -> [Update -> Stage]]
    BY <1>0, <1>14, MovesType DEF Complete, Stage
  <2>3. reply' \in [Update -> Reply]
    BY <1>0, <1>14 DEF Complete, TypeOK, Reply
  <2> QED
    BY <1>0, <1>14, <2>1, <2>2, <2>3 DEF Complete, TypeOK
<1>15. CASE UNCHANGED vars
  BY <1>0, <1>15 DEF vars, TypeOK
<1> QED
  BY <1>1, <1>2, <1>3, <1>4, <1>5, <1>6, <1>7, <1>8, <1>9, <1>10, <1>11, <1>12, <1>13,
     <1>14, <1>15
     DEF Next, Polls, Lifecycle, Handles, Turns

-----------------------------------------------------------------------------
\* Moving one update leaves the others where they are.
LEMMA MovesEffect ==
    ASSUME TypeOK, NEW p \in Process, NEW u \in Update, NEW s, Moves(p, u, s)
    PROVE  \A q \in Process, v \in Update :
              stage'[q][v] = IF q = p /\ v = u THEN s ELSE stage[q][v]
BY DEF TypeOK, Moves

\* The one step that begins an update: the first insert of it.
FirstInsert(p, u) ==
    /\ stage[p][u] = "queued" /\ stage'[p][u] = "routing"
    /\ u \notin processed /\ u \in processed' /\ UNCHANGED reply
    /\ \A q \in Process \ {p} : stage'[q][u] = stage[q][u]

\* What any step may do to an update at a process.
StageMoves(p, u) ==
    \/ stage'[p][u] = stage[p][u]
    \/ stage[p][u] = "none" /\ stage'[p][u] = "taken"
    \/ stage[p][u] = "taken" /\ stage'[p][u] = "queued"
    \/ stage[p][u] \in {"taken", "queued"} /\ stage'[p][u] = "none"
       /\ u \in processed' \cup cut'
    \/ FirstInsert(p, u)
    \/ Begun(p, u) /\ stage'[p][u] \in {"none", "adding", "starting", "running"}

EveryStageMoves == \A p \in Process, u \in Update : StageMoves(p, u)

\* The ways in which an update gets from one stage to the next.
LEMMA StageStep ==
    ASSUME TInv, [Next]_vars
    PROVE  EveryStageMoves
<1> USE DEF EveryStageMoves, StageMoves, At
<1>0. TypeOK
  BY DEF TInv
<1> DEFINE Effect(q, v, s) == \A p \in Process, u \in Update :
               stage'[p][u] = IF p = q /\ u = v THEN s ELSE stage[p][u]
<1>1. ASSUME NEW q \in Process, NEW v \in Update, Dedupe(q, v) PROVE EveryStageMoves
  <2>1. Effect(q, v, IF v \in processed THEN "none" ELSE "routing")
    BY <1>0, <1>1, MovesEffect DEF Dedupe
  <2>2. stage[q][v] = "queued" /\ v \in processed' /\ reply' = reply
    BY <1>1 DEF Dedupe, At
  <2> QED
    BY <2>1, <2>2 DEF FirstInsert
<1>2. ASSUME NEW q \in Process, NEW v \in Update, Acknowledge(q, v) PROVE EveryStageMoves
  <2>1. Effect(q, v, "queued")
    BY <1>0, <1>2, MovesEffect DEF Acknowledge
  <2> QED
    BY <1>2, <2>1 DEF Acknowledge
<1>3. ASSUME NEW q \in Process, NEW v \in Update, Command(q, v) \/ Raises(q, v) PROVE EveryStageMoves
  <2>1. Effect(q, v, "none")
    BY <1>0, <1>3, MovesEffect DEF Command, Raises
  <2>2. v \in processed' \cup cut' /\ stage[q][v] \in {"taken", "queued"}
    BY <1>3 DEF Command, Raises
  <2> QED
    BY <2>1, <2>2
<1>4. ASSUME NEW q \in Process, NEW v \in Update, Route(q, v) PROVE EveryStageMoves
  <2>1. Effect(q, v, "starting") \/ Effect(q, v, "adding")
    BY <1>0, <1>4, MovesEffect DEF Route
  <2>2. Begun(q, v)
    BY <1>4 DEF Route, Begun
  <2> QED
    BY <2>1, <2>2
<1>5. ASSUME NEW q \in Process, NEW v \in Update,
             AddFeedback(q, v) \/ Register(q, v) \/ Complete(q, v)
      PROVE  EveryStageMoves
  <2>1. Effect(q, v, "none") \/ Effect(q, v, "running")
    BY <1>0, <1>5, MovesEffect DEF AddFeedback, Register, Complete
  <2>2. Begun(q, v)
    BY <1>5 DEF AddFeedback, Register, Complete, Begun
  <2> QED
    BY <2>1, <2>2
<1>6. ASSUME NEW q \in Process, Take(q) PROVE EveryStageMoves
  <2>1. Head(batch[q]) \in Update
    BY <1>6, BatchShape DEF Take
  <2>2. CASE At(q, Head(batch[q]), "none")
    <3>1. Effect(q, Head(batch[q]), "taken")
      BY <1>0, <1>6, <2>1, <2>2, MovesEffect DEF Take
    <3> QED
      BY <2>2, <3>1
  <2>3. CASE ~At(q, Head(batch[q]), "none")
    BY <1>6, <2>3 DEF Take
  <2> QED
    BY <2>2, <2>3
<1>7. ASSUME NEW q \in Process, FinishStopping(q) PROVE EveryStageMoves
  <2>1. \A p \in Process, u \in Update :
            stage'[p][u] = IF p = q /\ u \in Cancelled(q) THEN "none" ELSE stage[p][u]
    BY <1>0, <1>7 DEF FinishStopping, TypeOK
  <2>2. \A u \in Update : u \in Cancelled(q) => u \in cut' /\
            (stage[q][u] \in {"taken", "queued"} \/ Begun(q, u))
    BY <1>7 DEF FinishStopping, Cancelled, Begun
  <2> QED
    BY <2>1, <2>2
<1>8. ASSUME NEW q \in Process, Crash(q) PROVE EveryStageMoves
  <2>1. \A p \in Process, u \in Update :
            stage'[p][u] = IF p = q THEN "none" ELSE stage[p][u]
    BY <1>0, <1>8 DEF Crash, TypeOK
  <2>2. \A u \in Update :
            \/ stage[q][u] = "none"
            \/ u \in cut' /\ (stage[q][u] \in {"taken", "queued"} \/ Begun(q, u))
    BY <1>0, <1>8 DEF Crash, Cancelled, Unanswered, Begun, TypeOK, Stage
  <2> QED
    BY <2>1, <2>2
<1>9. ASSUME UNCHANGED stage PROVE EveryStageMoves
  BY <1>9
<1> QED
  <2>1. \A q \in Process, v \in Update : Round(q, v) => UNCHANGED stage
    BY DEF Round
  <2>2. \A q \in Process :
            StartPolling(q) \/ Fetch(q) \/ StopPolling(q) => UNCHANGED stage
    BY DEF StartPolling, Fetch, StopPolling
  <2>3. \A kind \in Kind : PersonSends(kind) => UNCHANGED stage
    BY DEF PersonSends
  <2> HIDE DEF EveryStageMoves, StageMoves, At
  <2>4. ASSUME NEW q \in Process, Polls(q) \/ Lifecycle(q) PROVE EveryStageMoves
    BY <1>2, <1>3, <1>6, <1>7, <1>8, <1>9, <2>2, <2>4 DEF Polls, Lifecycle
  <2>5. ASSUME NEW q \in Process, NEW v \in Update,
               Handles(q, v) \/ Turns(q, v) \/ Raises(q, v)
        PROVE  EveryStageMoves
    BY <1>1, <1>3, <1>4, <1>5, <1>9, <2>1, <2>5 DEF Handles, Turns
  <2>6. CASE UNCHANGED vars
    BY <1>9, <2>6 DEF vars
  <2>7. ASSUME NEW kind \in Kind, PersonSends(kind) PROVE EveryStageMoves
    BY <1>9, <2>3, <2>7
  <2> QED
    BY <2>4, <2>5, <2>6, <2>7 DEF Next

\* An update once processed stays so.
LEMMA ProcessedStays ==
    ASSUME TInv, [Next]_vars
    PROVE  processed \subseteq processed' /\ cut \subseteq cut'
BY DEF Next, Polls, Lifecycle, Handles, Turns, vars, telegram, store, polling, turns,
       PersonSends, StartPolling, Fetch, Take, Acknowledge, Command, Raises, Dedupe,
       StopPolling, FinishStopping, Crash, Route, AddFeedback, Register, Round, Complete

\* Only what is being handled, or was not processed before, is answered.
LEMMA ReplyStep ==
    ASSUME TInv, [Next]_vars, NEW u \in Update, reply'[u] # reply[u]
    PROVE  u \in processed' /\ \A p \in Process : ~Begun(p, u)'
<1>0. TypeOK /\ HandledOnce /\ BegunIsProcessed
  BY DEF TInv
<1> DEFINE Goal == u \in processed' /\ \A p \in Process : ~Begun(p, u)'
<1>1. ASSUME NEW q \in Process, NEW v \in Update, Command(q, v) PROVE Goal
  <2>1. u = v /\ u \notin processed /\ u \in processed'
    BY <1>0, <1>1 DEF Command, TypeOK
  <2>2. \A p \in Process : stage'[p][u] = IF p = q THEN "none" ELSE stage[p][u]
    BY <1>0, <1>1, <2>1, MovesEffect DEF Command
  <2> QED
    BY <1>0, <2>1, <2>2 DEF BegunIsProcessed, Begun
<1>2. ASSUME NEW q \in Process, NEW v \in Update, AddFeedback(q, v) \/ Complete(q, v)
      PROVE  Goal
  <2>1. u = v /\ Begun(q, v) /\ processed' = processed
    BY <1>0, <1>2 DEF AddFeedback, Complete, TypeOK, Begun, At, store
  <2>2. \A p \in Process : stage'[p][u] = IF p = q THEN "none" ELSE stage[p][u]
    BY <1>0, <1>2, <2>1, MovesEffect DEF AddFeedback, Complete
  <2> QED
    BY <1>0, <2>1, <2>2 DEF BegunIsProcessed, HandledOnce, Begun
<1> QED
  <2> HIDE DEF Goal
  <2>1. Goal
    BY <1>1, <1>2
       DEF Next, Polls, Lifecycle, Handles, Turns, vars, turns,
           PersonSends, StartPolling, Fetch, Take, Acknowledge, Raises, Dedupe,
           StopPolling, FinishStopping, Crash, Route, Register, Round
  <2> QED
    BY <2>1 DEF Goal

\* Only Dedupe begins an update, and only one that is not processed.
LEMMA OnceStep ==
    TInv /\ [Next]_vars => (BegunIsProcessed /\ AnsweredIsProcessed /\ HandledOnce)'
<1> SUFFICES ASSUME TInv, [Next]_vars
             PROVE  (BegunIsProcessed /\ AnsweredIsProcessed /\ HandledOnce)'
  OBVIOUS
<1>0. BegunIsProcessed /\ AnsweredIsProcessed /\ HandledOnce
  BY DEF TInv
<1>1. ASSUME NEW p \in Process, NEW u \in Update, Begun(p, u)'
      PROVE  Begun(p, u) \/ FirstInsert(p, u)
  BY <1>1, StageStep DEF EveryStageMoves, StageMoves, Begun
<1>2. BegunIsProcessed'
  BY <1>0, <1>1, ProcessedStays DEF BegunIsProcessed, FirstInsert
<1>3. AnsweredIsProcessed'
  BY <1>0, ReplyStep, ProcessedStays DEF AnsweredIsProcessed
<1>4. ASSUME NEW p \in Process, NEW u \in Update, Begun(p, u)'
      PROVE  (\A q \in Process \ {p} : ~Begun(q, u)') /\ reply'[u] = "none"
  <2>1. reply'[u] = reply[u]
    BY <1>4, ReplyStep
  <2>2. CASE Begun(p, u)
    <3>1. u \in processed /\ reply[u] = "none" /\ \A q \in Process \ {p} : ~Begun(q, u)
      BY <1>0, <2>2 DEF BegunIsProcessed, HandledOnce
    <3>2. \A q \in Process : ~FirstInsert(q, u)
      BY <3>1 DEF FirstInsert
    <3> QED
      BY <1>1, <2>1, <3>1, <3>2
  <2>3. CASE FirstInsert(p, u)
    <3>1. \A q \in Process \ {p} : Begun(q, u)' => Begun(q, u)
      BY <2>3 DEF FirstInsert, Begun
    <3> QED
      BY <1>0, <2>1, <2>3, <3>1 DEF BegunIsProcessed, AnsweredIsProcessed, FirstInsert
  <2> QED
    BY <1>1, <1>4, <2>2, <2>3
<1> QED
  BY <1>2, <1>3, <1>4 DEF HandledOnce

-----------------------------------------------------------------------------
\* Only a fetch and a take put something new at the head of a batch or move
\* one of the two offsets.
LEMMA BatchStep ==
    ASSUME TInv, [Next]_vars
    PROVE  \/ \E q \in Process : Take(q) \/ Fetch(q)
           \/ /\ \A p \in Process : batch'[p] = batch[p] \/ batch'[p] = <<>>
              /\ UNCHANGED <<offset, confirmed>> /\ Len(sent) <= Len(sent')
<1>0. TypeOK /\ Len(sent) \in Nat
  BY LenProperties DEF TInv, TypeOK
<1> DEFINE Quiet == /\ \A p \in Process : batch'[p] = batch[p] \/ batch'[p] = <<>>
                    /\ UNCHANGED <<offset, confirmed>> /\ Len(sent) <= Len(sent')
<1>1. ASSUME NEW kind \in Kind, PersonSends(kind) PROVE Quiet
  <2>1. Len(sent') = Len(sent) + 1
    BY <1>0, <1>1, AppendProperties DEF PersonSends, TypeOK
  <2> QED
    BY <1>0, <1>1, <2>1 DEF PersonSends, store, polling
<1>2. ASSUME NEW q \in Process, NEW u \in Update, Raises(q, u) PROVE Quiet
  BY <1>0, <1>2 DEF Raises, TypeOK, telegram, store
<1>3. ASSUME NEW q \in Process, FinishStopping(q) \/ Crash(q) PROVE Quiet
  BY <1>0, <1>3 DEF FinishStopping, Crash, TypeOK, telegram, store
<1>4. ASSUME NEW q \in Process, StartPolling(q) \/ StopPolling(q) PROVE Quiet
  BY <1>0, <1>4 DEF StartPolling, StopPolling, telegram
<1>5. ASSUME NEW q \in Process, NEW u \in Update,
             \/ Acknowledge(q, u) \/ Command(q, u) \/ Dedupe(q, u) \/ Route(q, u)
             \/ AddFeedback(q, u) \/ Register(q, u) \/ Round(q, u) \/ Complete(q, u)
      PROVE  Quiet
  BY <1>0, <1>5 DEF Acknowledge, Command, Dedupe, Route, AddFeedback, Register, Round,
                    Complete, telegram, store, polling
<1>6. CASE UNCHANGED vars
  BY <1>0, <1>6 DEF vars, telegram, store, polling
<1> QED
  BY <1>1, <1>2, <1>3, <1>4, <1>5, <1>6 DEF Next, Polls, Lifecycle, Handles, Turns

\* What the two steps that do so put there.
LEMMA TakeStep ==
    ASSUME TInv, NEW q \in Process, Take(q)
    PROVE  /\ batch[q] # <<>> /\ offset' = batch[q][1] + 1 /\ UNCHANGED <<sent, confirmed>>
           /\ batch[q][1] \in Update
           /\ \A p \in Process : batch'[p] = IF p = q THEN Tail(batch[q]) ELSE batch[p]
           /\ \A i \in DOMAIN Tail(batch[q]) :
                 /\ Tail(batch[q])[i] = batch[q][1] + i
                 /\ Tail(batch[q])[i] <= Len(sent)
           /\ \A v \in Update : v = batch[q][1] => Accounted(v)'
<1>0. TypeOK /\ BatchesAreStretches /\ BegunIsProcessed
  BY DEF TInv
<1>1. batch[q] # <<>>
  BY DEF Take
<1> DEFINE b == batch[q][1]
<1>2. /\ Head(batch[q]) = b /\ b \in Update
      /\ Tail(batch[q]) \in Seq(Update)
      /\ \A i \in DOMAIN Tail(batch[q]) :
            Tail(batch[q])[i] = batch[q][i + 1] /\ i + 1 \in DOMAIN batch[q]
  BY <1>1, BatchShape
<1>3. ASSUME NEW i \in DOMAIN Tail(batch[q])
      PROVE  Tail(batch[q])[i] = b + i /\ Tail(batch[q])[i] <= Len(sent)
  <2>1. i \in Nat
    BY <1>2, LenProperties
  <2>2. batch[q][i + 1] = b + (i + 1) - 1 /\ batch[q][i + 1] <= Len(sent)
    BY <1>0, <1>2 DEF BatchesAreStretches
  <2> QED
    BY <1>2, <2>1, <2>2 DEF Update
<1>4. \A p \in Process : batch'[p] = IF p = q THEN Tail(batch[q]) ELSE batch[p]
  BY <1>0 DEF Take, TypeOK
<1>5. ASSUME NEW v \in Update, v = b PROVE Accounted(v)'
  <2>1. CASE At(q, v, "none")
    <3>1. stage'[q][v] = "taken"
      BY <1>0, <1>2, <1>5, <2>1, MovesEffect DEF Take
    <3> QED
      BY <3>1 DEF Accounted, InHands
  <2>2. CASE ~At(q, v, "none")
    <3>1. stage' = stage /\ processed' = processed
      BY <1>2, <1>5, <2>2 DEF Take
    <3>2. stage[q][v] = "queued" \/ Begun(q, v)
      BY <1>0, <1>2, <1>5, <2>2 DEF Take, At, Begun, TypeOK, Stage
    <3> QED
      BY <1>0, <1>2, <3>1, <3>2 DEF Accounted, InHands, BegunIsProcessed
  <2> QED
    BY <2>1, <2>2
<1> QED
  BY <1>1, <1>2, <1>3, <1>4, <1>5 DEF Take, telegram

\* What Fetch takes is the stretch from the offset it asked with.
LEMMA FetchStep ==
    ASSUME TInv, NEW q \in Process, Fetch(q)
    PROVE  /\ UNCHANGED <<sent, offset>> /\ confirmed' \in {offset, confirmed}
           /\ confirmed' \in Nat /\ offset \in Nat /\ confirmed \in Nat /\ Len(sent) \in Nat
           /\ \A p \in Process : p # q => batch'[p] = batch[p]
           /\ \A i \in DOMAIN batch'[q] :
                 i \in Nat /\ batch'[q][i] = confirmed' + i - 1 /\ batch'[q][i] <= Len(sent)
           /\ batch'[q][1] = confirmed'
<1>0. TypeOK
  BY DEF TInv
<1> DEFINE from == IF offset > confirmed THEN offset ELSE confirmed
<1>1. /\ confirmed' = from /\ from <= Len(sent) /\ UNCHANGED <<sent, offset>>
      /\ batch' = [batch EXCEPT ![q] = [i \in 1..Len(sent) - from + 1 |-> from + i - 1]]
  BY DEF Fetch, store
<1>2. Len(sent) \in Nat /\ offset \in Nat /\ confirmed \in Nat /\ from \in {offset, confirmed}
  BY <1>0 DEF TypeOK
<1> HIDE DEF from
<1>3. /\ \A p \in Process : p # q => batch'[p] = batch[p]
      /\ batch'[q] = [i \in 1..Len(sent) - from + 1 |-> from + i - 1]
  BY <1>0, <1>1 DEF TypeOK
<1> QED
  BY <1>1, <1>2, <1>3

\* Take removes the first of a batch, which leaves a stretch.
LEMMA StretchesStep == TInv /\ [Next]_vars => BatchesAreStretches'
<1> SUFFICES ASSUME TInv, [Next]_vars PROVE BatchesAreStretches'
  OBVIOUS
<1>0. TypeOK /\ BatchesAreStretches
  BY DEF TInv
<1>1. ASSUME NEW q \in Process, Take(q) PROVE BatchesAreStretches'
  <2>1. ASSUME NEW p \in Process, p # q, NEW i \in DOMAIN batch'[p]
        PROVE  batch'[p][i] = batch'[p][1] + i - 1 /\ batch'[p][i] <= Len(sent')
    BY <1>0, <1>1, <2>1, TakeStep DEF BatchesAreStretches
  <2>2. ASSUME NEW i \in DOMAIN batch'[q]
        PROVE  batch'[q][i] = batch'[q][1] + i - 1 /\ batch'[q][i] <= Len(sent')
    <3>1. batch'[q] = Tail(batch[q]) /\ sent' = sent
      BY <1>1, TakeStep
    <3>2. Tail(batch[q]) \in Seq(Update) /\ batch[q][1] \in Update
      BY <1>1, TakeStep, BatchShape
    <3>3. i \in Nat /\ 1 \in DOMAIN Tail(batch[q])
      BY <3>1, <3>2, LenProperties
    <3>4. Tail(batch[q])[i] = batch[q][1] + i /\ Tail(batch[q])[1] = batch[q][1] + 1
          /\ Tail(batch[q])[i] <= Len(sent)
      BY <1>1, <3>1, <3>3, TakeStep
    <3> QED
      BY <3>1, <3>2, <3>3, <3>4 DEF Update
  <2> QED
    BY <2>1, <2>2 DEF BatchesAreStretches
<1>2. ASSUME NEW q \in Process, Fetch(q) PROVE BatchesAreStretches'
  BY <1>0, <1>2, FetchStep DEF BatchesAreStretches
<1>3. CASE /\ \A p \in Process : batch'[p] = batch[p] \/ batch'[p] = <<>>
           /\ Len(sent) <= Len(sent')
  <2>1. Len(sent) \in Nat /\ Len(sent') \in Nat
    BY <1>0, TypeStep, LenProperties DEF TypeOK
  <2>2. ASSUME NEW p \in Process, NEW i \in DOMAIN batch'[p]
        PROVE  batch'[p][i] = batch'[p][1] + i - 1 /\ batch'[p][i] <= Len(sent')
    <3>1. batch'[p] = batch[p]
      BY <1>3, <2>2
    <3>2. batch[p][i] \in Update /\ batch[p][i] <= Len(sent)
          /\ batch[p][i] = batch[p][1] + i - 1
      BY <1>0, <2>2, <3>1, UpdatesOf DEF BatchesAreStretches, TypeOK
    <3> QED
      BY <1>3, <2>1, <3>1, <3>2 DEF Update
  <2> QED
    BY <2>2 DEF BatchesAreStretches
<1> QED
  BY <1>1, <1>2, <1>3, BatchStep

\* Whoever is responsible for an update hands it on or records what became of it.
LEMMA AccountedStays ==
    ASSUME TInv, [Next]_vars, NEW u \in Update, Accounted(u)
    PROVE  Accounted(u)'
<1>1. CASE u \in processed \cup cut
  BY <1>1, ProcessedStays DEF Accounted
<1>2. ASSUME NEW p \in Process, stage[p][u] \in {"taken", "queued"} PROVE Accounted(u)'
  <2>1. StageMoves(p, u)
    BY StageStep DEF EveryStageMoves
  <2> QED
    BY <1>2, <2>1 DEF StageMoves, FirstInsert, Begun, Accounted, InHands
<1> QED
  BY <1>1, <1>2 DEF Accounted, InHands

\* Acknowledge moves the offset past an update that was taken, and Telegram
\* forgets what lies below the offset asked for.
LEMMA PassedStep == TInv /\ [Next]_vars => PassedAreAccounted'
<1> SUFFICES ASSUME TInv, [Next]_vars, NEW u \in Update, Behind(u)'
             PROVE  Accounted(u)'
  BY DEF PassedAreAccounted
<1>0. TypeOK /\ PassedAreAccounted /\ u \in Nat
  BY DEF TInv, Update
<1>1. Behind(u) => Accounted(u)'
  BY <1>0, AccountedStays DEF PassedAreAccounted
<1>2. ASSUME NEW q \in Process, Take(q) PROVE Accounted(u)'
  <2> DEFINE b == batch[q][1]
  <2>1. /\ batch[q] # <<>> /\ offset' = b + 1 /\ confirmed' = confirmed
        /\ b \in Update /\ \A v \in Update : v = b => Accounted(v)'
        /\ \A p \in Process : batch'[p] = IF p = q THEN Tail(batch[q]) ELSE batch[p]
    BY <1>2, TakeStep
  <2>2. CASE u < b
    BY <1>1, <2>1, <2>2 DEF Behind
  <2>3. CASE u = b
    BY <2>1, <2>3
  <2>4. CASE u > b
    <3>1. batch'[q] # <<>> => ~(u < batch'[q][1])
      <4>1. Tail(batch[q]) \in Seq(Update)
        BY <1>2, <2>1, BatchShape
      <4>2. Tail(batch[q]) # <<>> => Tail(batch[q])[1] = b + 1
        BY <1>2, <4>1, TakeStep, LenProperties, EmptySeq
      <4>3. batch'[q] = Tail(batch[q])
        BY <2>1
      <4>4. b \in Nat /\ ~(u < b + 1)
        BY <1>0, <2>1, <2>4 DEF Update
      <4> QED
        BY <4>2, <4>3, <4>4
    <3>2. ~(u < offset')
      BY <1>0, <2>1, <2>4 DEF Update
    <3>3. Behind(u)
      BY <2>1, <3>1, <3>2 DEF Behind
    <3> QED
      BY <1>1, <3>3
  <2> QED
    BY <1>0, <2>1, <2>2, <2>3, <2>4 DEF Update
<1>3. ASSUME NEW q \in Process, Fetch(q) PROVE Accounted(u)'
  <2>1. Behind(u)
    BY <1>3, FetchStep DEF Behind
  <2> QED
    BY <1>1, <2>1
<1>4. CASE /\ \A p \in Process : batch'[p] = batch[p] \/ batch'[p] = <<>>
           /\ UNCHANGED <<offset, confirmed>>
  <2>1. Behind(u)
    BY <1>4 DEF Behind
  <2> QED
    BY <1>1, <2>1
<1> QED
  BY <1>2, <1>3, <1>4, BatchStep

-----------------------------------------------------------------------------
\* The invariant holds in every state of every behaviour.
LEMMA Invariance == Spec => []TInv
<1>1. TInv /\ [Next]_vars => TInv'
  BY TypeStep, StretchesStep, OnceStep, PassedStep DEF TInv
<1> QED
  BY InitInv, <1>1, PTL DEF Spec

\* The ingress keeps its types: what is fetched, queued, routed and registered
\* are updates the bot was sent, and no turn begins more rounds than the loop
\* allows (controller.py, sessions.py, run_control.py).
THEOREM TypeCorrect == Spec => []TypeOK
BY Invariance, PTL DEF TInv

\* However many processes run the bot, with the lease or without it, one
\* update starts one turn or one steer and is answered once: the insert of
\* mark_update_processed comes before any handling (storage.py:371-381).
THEOREM UpdatesAreHandledOnce == Spec => []HandledOnce
BY Invariance, PTL DEF TInv

\* The stored offset never passes an update nobody is responsible for: each
\* one below it was inserted as processed, is with a poller that took it, or
\* was dropped by a process that died, stopped or failed (transport.py:96-101).
THEOREM TheOffsetPassesNoUpdate == Spec => []NothingSlipsByTheOffset
<1>1. TInv => NothingSlipsByTheOffset
  <2> SUFFICES ASSUME TInv, NEW u \in 1..offset - 1
               PROVE  Accounted(u)
    BY DEF NothingSlipsByTheOffset, Accounted, InHands
  <2>1. u \in Update /\ u < offset
    <3>1. Len(sent) \in Nat /\ Len(sent) <= MaxUpdates /\ offset \in 1..Len(sent) + 1
      BY LenProperties DEF TInv, TypeOK
    <3> QED
      BY <3>1, TelegramAssumption DEF Update
  <2> QED
    BY <2>1 DEF TInv, PassedAreAccounted, Behind
<1> QED
  BY <1>1, Invariance, PTL

=============================================================================
