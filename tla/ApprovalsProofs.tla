--------------------------- MODULE ApprovalsProofs ---------------------------
(***************************************************************************)
(* Proofs about Approvals and ApprovalWatcher: what an asking call         *)
(* returns, what its row says and what may happen to it, and that the      *)
(* watcher's notes about it are true, for any number of questions,         *)
(* sweepers and failed store calls.                                        *)
(***************************************************************************)
EXTENDS ApprovalWatcher, TLAPS

\* What the table says of one question by itself: who decided it, and that a
\* timeout only ever denies.
RowShape(q) ==
    /\ decision[q] = "absent" <=> asker[q] = "new"
    /\ asker[q] = "new" => kind[q] = Nobody
    /\ Decided(q) <=> by[q] # Nobody
    /\ by[q] = "timeout" => decision[q] = "deny"

\* What the asking call holds in memory agrees with the row it came from.
AskerShape(q) ==
    /\ outcome[q] # "none" => asker[q] = "done"
    /\ watched[q] # "none" => decision[q] = watched[q]
    /\ local[q] # "none" => Decided(q)
    /\ asker[q] = "answering" => typed[q] \in Choice
    /\ asker[q] = "closing" =>
          overdue[q] \/ late[q] \/ (stopping /\ kind[q] = "broker")
    /\ press.question = q => Decided(q)

AInv ==
    /\ TypeOK
    /\ \A q \in Question : RowShape(q)
    /\ \A q \in Question : AskerShape(q)
    /\ YesIsOnRecord
    /\ RowClosesOnEveryExit
    /\ OnlyOverdueQuestionsTimeOut

-----------------------------------------------------------------------------
\* Each step keeps the types.
LEMMA TypeStep == AInv /\ [Next]_vars => TypeOK'
<1> SUFFICES ASSUME AInv, [Next]_vars PROVE TypeOK'
  OBVIOUS
<1> USE ApprovalAssumption
    DEF AInv, TypeOK, Choice, Surface, Asker, Pressed, RowShape, AskerShape,
        Decided, clock, asking, answers, record, pass, elsewhere
<1>1. ASSUME StopRunner PROVE TypeOK'
  BY <1>1 DEF StopRunner
<1>2. ASSUME NEW r \in Question, PassExpiry(r) PROVE TypeOK'
  BY <1>2 DEF PassExpiry
<1>3. ASSUME NEW r \in Question, PassDeadline(r) PROVE TypeOK'
  BY <1>3 DEF PassDeadline
<1>4. ASSUME NEW r \in Question, NEW k \in Kind,
              Raise(r, k) PROVE TypeOK'
  BY <1>4 DEF Raise
<1>5. ASSUME NEW r \in Question, Poll(r) PROVE TypeOK'
  BY <1>5 DEF Poll, Return, Forget, Advance, Decided, Open, Expired
<1>6. ASSUME NEW r \in Question, PollTelegram(r) PROVE TypeOK'
  BY <1>6 DEF PollTelegram, Return, Forget, Advance, Decided
<1>7. ASSUME NEW r \in Question, CloseUnanswered(r) PROVE TypeOK'
  BY <1>7 DEF CloseUnanswered, Resolve, Open, Return, Forget
<1>8. ASSUME NEW r \in Question, MarkRaisedHere(r) PROVE TypeOK'
  BY <1>8 DEF MarkRaisedHere, Advance
<1>9. ASSUME NEW r \in Question, Watch(r) PROVE TypeOK'
  BY <1>9 DEF Watch, Prompting, Decided
<1>10. ASSUME NEW r \in Question, Wake(r) PROVE TypeOK'
  BY <1>10 DEF Wake, Prompting, Return, Forget, Advance
<1>11. ASSUME NEW r \in Question, AnswerHere(r) PROVE TypeOK'
  BY <1>11 DEF AnswerHere, Resolve, Open, Return, Forget
<1>12. ASSUME NEW r \in Question, Cancelled(r) PROVE TypeOK'
  BY <1>12 DEF Cancelled, AtConsole, Resolve, Open, Return, Forget
<1>13. ASSUME NEW r \in Question, NEW c \in Choice,
              Type(r, c) PROVE TypeOK'
  BY <1>13 DEF Type, Prompting
<1>14. ASSUME NEW r \in Question, NEW c \in Choice,
              AnswerMenu(r, c) PROVE TypeOK'
  BY <1>14 DEF AnswerMenu, Resolve, Open, Return, Forget
<1>15. ASSUME NEW r \in Question, NEW c \in Choice,
              AnswerOnWeb(r, c) PROVE TypeOK'
  BY <1>15 DEF AnswerOnWeb, Resolve, Open
<1>16. ASSUME NEW r \in Question, NEW c \in Choice,
              Press(r, c) PROVE TypeOK'
  BY <1>16 DEF Press, Resolve, Open
<1>17. ASSUME NEW r \in Question, NEW c \in Choice,
              Command(r, c) PROVE TypeOK'
  BY <1>17 DEF Command, Pending, Open
<1>18. ASSUME NEW r \in Question, AskerGone(r) PROVE TypeOK'
  BY <1>18 DEF AskerGone, Asking, Forget
<1>19. ASSUME NEW r \in Question, FallBack(r) PROVE TypeOK'
  BY <1>19 DEF FallBack, AtConsole, Advance
<1>20. ASSUME PressLocally PROVE TypeOK'
  BY <1>20 DEF PressLocally, NoPress
<1>21. ASSUME NEW w \in Sweeper, SweepReads(w) PROVE TypeOK'
  BY <1>21 DEF SweepReads, Open
<1>22. ASSUME NEW w \in Sweeper, NEW r \in Question,
              SweepStamps(w, r) PROVE TypeOK'
  BY <1>22 DEF SweepStamps, Resolve, Open, Expired
<1>23. ASSUME NEW w \in Sweeper, SweepEnds(w) PROVE TypeOK'
  BY <1>23 DEF SweepEnds
<1>24. ASSUME NEW w \in Sweeper, SweepFails(w) PROVE TypeOK'
  BY <1>24 DEF SweepFails
<1>25. ASSUME CommandWrites PROVE TypeOK'
  BY <1>25 DEF CommandWrites, Resolve, Open, NoPress
<1>26. ASSUME UNCHANGED vars PROVE TypeOK'
  BY <1>26 DEF vars
<1> HIDE DEF AInv, TypeOK, RowShape, AskerShape
<1> QED
  BY <1>1, <1>2, <1>3, <1>4, <1>5, <1>6, <1>7, <1>8, <1>9, <1>10, <1>11,
     <1>12, <1>13, <1>14, <1>15, <1>16, <1>17, <1>18, <1>19, <1>20,
     <1>21, <1>22, <1>23, <1>24, <1>25, <1>26
     DEF Next, Quiet, Clock, AskerStep, Human, SweeperStep

\* Each step keeps what a row looks like before it is raised and while it is open.
LEMMA RowStep == AInv /\ [Next]_vars => \A q \in Question : RowShape(q)'
<1> SUFFICES ASSUME AInv, [Next]_vars, NEW z \in Question PROVE RowShape(z)'
  OBVIOUS
<1> USE ApprovalAssumption
    DEF AInv, TypeOK, Choice, Surface, Asker, Pressed, RowShape, AskerShape,
        Decided, clock, asking, answers, record, pass, elsewhere
<1>1. ASSUME StopRunner PROVE RowShape(z)'
  BY <1>1 DEF StopRunner
<1>2. ASSUME NEW r \in Question, PassExpiry(r) PROVE RowShape(z)'
  BY <1>2 DEF PassExpiry
<1>3. ASSUME NEW r \in Question, PassDeadline(r) PROVE RowShape(z)'
  BY <1>3 DEF PassDeadline
<1>4. ASSUME NEW r \in Question, NEW k \in Kind,
              Raise(r, k) PROVE RowShape(z)'
  BY <1>4 DEF Raise
<1>5. ASSUME NEW r \in Question, Poll(r) PROVE RowShape(z)'
  BY <1>5 DEF Poll, Return, Forget, Advance, Decided, Open, Expired
<1>6. ASSUME NEW r \in Question, PollTelegram(r) PROVE RowShape(z)'
  BY <1>6 DEF PollTelegram, Return, Forget, Advance, Decided
<1>7. ASSUME NEW r \in Question, CloseUnanswered(r) PROVE RowShape(z)'
  BY <1>7 DEF CloseUnanswered, Resolve, Open, Return, Forget
<1>8. ASSUME NEW r \in Question, MarkRaisedHere(r) PROVE RowShape(z)'
  BY <1>8 DEF MarkRaisedHere, Advance
<1>9. ASSUME NEW r \in Question, Watch(r) PROVE RowShape(z)'
  BY <1>9 DEF Watch, Prompting, Decided
<1>10. ASSUME NEW r \in Question, Wake(r) PROVE RowShape(z)'
  BY <1>10 DEF Wake, Prompting, Return, Forget, Advance
<1>11. ASSUME NEW r \in Question, AnswerHere(r) PROVE RowShape(z)'
  BY <1>11 DEF AnswerHere, Resolve, Open, Return, Forget
<1>12. ASSUME NEW r \in Question, Cancelled(r) PROVE RowShape(z)'
  BY <1>12 DEF Cancelled, AtConsole, Resolve, Open, Return, Forget
<1>13. ASSUME NEW r \in Question, NEW c \in Choice,
              Type(r, c) PROVE RowShape(z)'
  BY <1>13 DEF Type, Prompting
<1>14. ASSUME NEW r \in Question, NEW c \in Choice,
              AnswerMenu(r, c) PROVE RowShape(z)'
  BY <1>14 DEF AnswerMenu, Resolve, Open, Return, Forget
<1>15. ASSUME NEW r \in Question, NEW c \in Choice,
              AnswerOnWeb(r, c) PROVE RowShape(z)'
  BY <1>15 DEF AnswerOnWeb, Resolve, Open
<1>16. ASSUME NEW r \in Question, NEW c \in Choice,
              Press(r, c) PROVE RowShape(z)'
  BY <1>16 DEF Press, Resolve, Open
<1>17. ASSUME NEW r \in Question, NEW c \in Choice,
              Command(r, c) PROVE RowShape(z)'
  BY <1>17 DEF Command, Pending, Open
<1>18. ASSUME NEW r \in Question, AskerGone(r) PROVE RowShape(z)'
  BY <1>18 DEF AskerGone, Asking, Forget
<1>19. ASSUME NEW r \in Question, FallBack(r) PROVE RowShape(z)'
  BY <1>19 DEF FallBack, AtConsole, Advance
<1>20. ASSUME PressLocally PROVE RowShape(z)'
  BY <1>20 DEF PressLocally, NoPress
<1>21. ASSUME NEW w \in Sweeper, SweepReads(w) PROVE RowShape(z)'
  BY <1>21 DEF SweepReads, Open
<1>22. ASSUME NEW w \in Sweeper, NEW r \in Question,
              SweepStamps(w, r) PROVE RowShape(z)'
  BY <1>22 DEF SweepStamps, Resolve, Open, Expired
<1>23. ASSUME NEW w \in Sweeper, SweepEnds(w) PROVE RowShape(z)'
  BY <1>23 DEF SweepEnds
<1>24. ASSUME NEW w \in Sweeper, SweepFails(w) PROVE RowShape(z)'
  BY <1>24 DEF SweepFails
<1>25. ASSUME CommandWrites PROVE RowShape(z)'
  BY <1>25 DEF CommandWrites, Resolve, Open, NoPress
<1>26. ASSUME UNCHANGED vars PROVE RowShape(z)'
  BY <1>26 DEF vars
<1> HIDE DEF AInv, TypeOK, RowShape, AskerShape
<1> QED
  BY <1>1, <1>2, <1>3, <1>4, <1>5, <1>6, <1>7, <1>8, <1>9, <1>10, <1>11,
     <1>12, <1>13, <1>14, <1>15, <1>16, <1>17, <1>18, <1>19, <1>20,
     <1>21, <1>22, <1>23, <1>24, <1>25, <1>26
     DEF Next, Quiet, Clock, AskerStep, Human, SweeperStep

\* Each step keeps what an asking call holds at the position it is in.
LEMMA AskerStepShape == AInv /\ [Next]_vars => \A q \in Question : AskerShape(q)'
<1> SUFFICES ASSUME AInv, [Next]_vars, NEW z \in Question PROVE AskerShape(z)'
  OBVIOUS
<1> USE ApprovalAssumption
    DEF AInv, TypeOK, Choice, Surface, Asker, Pressed, RowShape, AskerShape,
        Decided, clock, asking, answers, record, pass, elsewhere
<1>1. ASSUME StopRunner PROVE AskerShape(z)'
  BY <1>1 DEF StopRunner
<1>2. ASSUME NEW r \in Question, PassExpiry(r) PROVE AskerShape(z)'
  BY <1>2 DEF PassExpiry
<1>3. ASSUME NEW r \in Question, PassDeadline(r) PROVE AskerShape(z)'
  BY <1>3 DEF PassDeadline
<1>4. ASSUME NEW r \in Question, NEW k \in Kind,
              Raise(r, k) PROVE AskerShape(z)'
  BY <1>4 DEF Raise
<1>5. ASSUME NEW r \in Question, Poll(r) PROVE AskerShape(z)'
  BY <1>5 DEF Poll, Return, Forget, Advance, Decided, Open, Expired
<1>6. ASSUME NEW r \in Question, PollTelegram(r) PROVE AskerShape(z)'
  BY <1>6 DEF PollTelegram, Return, Forget, Advance, Decided
<1>7. ASSUME NEW r \in Question, CloseUnanswered(r) PROVE AskerShape(z)'
  BY <1>7 DEF CloseUnanswered, Resolve, Open, Return, Forget
<1>8. ASSUME NEW r \in Question, MarkRaisedHere(r) PROVE AskerShape(z)'
  BY <1>8 DEF MarkRaisedHere, Advance
<1>9. ASSUME NEW r \in Question, Watch(r) PROVE AskerShape(z)'
  BY <1>9 DEF Watch, Prompting, Decided
<1>10. ASSUME NEW r \in Question, Wake(r) PROVE AskerShape(z)'
  BY <1>10 DEF Wake, Prompting, Return, Forget, Advance
<1>11. ASSUME NEW r \in Question, AnswerHere(r) PROVE AskerShape(z)'
  BY <1>11 DEF AnswerHere, Resolve, Open, Return, Forget
<1>12. ASSUME NEW r \in Question, Cancelled(r) PROVE AskerShape(z)'
  BY <1>12 DEF Cancelled, AtConsole, Resolve, Open, Return, Forget
<1>13. ASSUME NEW r \in Question, NEW c \in Choice,
              Type(r, c) PROVE AskerShape(z)'
  BY <1>13 DEF Type, Prompting
<1>14. ASSUME NEW r \in Question, NEW c \in Choice,
              AnswerMenu(r, c) PROVE AskerShape(z)'
  BY <1>14 DEF AnswerMenu, Resolve, Open, Return, Forget
<1>15. ASSUME NEW r \in Question, NEW c \in Choice,
              AnswerOnWeb(r, c) PROVE AskerShape(z)'
  BY <1>15 DEF AnswerOnWeb, Resolve, Open
<1>16. ASSUME NEW r \in Question, NEW c \in Choice,
              Press(r, c) PROVE AskerShape(z)'
  BY <1>16 DEF Press, Resolve, Open
<1>17. ASSUME NEW r \in Question, NEW c \in Choice,
              Command(r, c) PROVE AskerShape(z)'
  BY <1>17 DEF Command, Pending, Open
<1>18. ASSUME NEW r \in Question, AskerGone(r) PROVE AskerShape(z)'
  BY <1>18 DEF AskerGone, Asking, Forget
<1>19. ASSUME NEW r \in Question, FallBack(r) PROVE AskerShape(z)'
  BY <1>19 DEF FallBack, AtConsole, Advance
<1>20. ASSUME PressLocally PROVE AskerShape(z)'
  BY <1>20 DEF PressLocally, NoPress
<1>21. ASSUME NEW w \in Sweeper, SweepReads(w) PROVE AskerShape(z)'
  BY <1>21 DEF SweepReads, Open
<1>22. ASSUME NEW w \in Sweeper, NEW r \in Question,
              SweepStamps(w, r) PROVE AskerShape(z)'
  BY <1>22 DEF SweepStamps, Resolve, Open, Expired
<1>23. ASSUME NEW w \in Sweeper, SweepEnds(w) PROVE AskerShape(z)'
  BY <1>23 DEF SweepEnds
<1>24. ASSUME NEW w \in Sweeper, SweepFails(w) PROVE AskerShape(z)'
  BY <1>24 DEF SweepFails
<1>25. ASSUME CommandWrites PROVE AskerShape(z)'
  BY <1>25 DEF CommandWrites, Resolve, Open, NoPress
<1>26. ASSUME UNCHANGED vars PROVE AskerShape(z)'
  BY <1>26 DEF vars
<1> HIDE DEF AInv, TypeOK, RowShape, AskerShape
<1> QED
  BY <1>1, <1>2, <1>3, <1>4, <1>5, <1>6, <1>7, <1>8, <1>9, <1>10, <1>11,
     <1>12, <1>13, <1>14, <1>15, <1>16, <1>17, <1>18, <1>19, <1>20,
     <1>21, <1>22, <1>23, <1>24, <1>25, <1>26
     DEF Next, Quiet, Clock, AskerStep, Human, SweeperStep

\* Each step keeps the three promises about what a call returns and why a row times out.
LEMMA OutcomeStep ==
    AInv /\ [Next]_vars =>
        YesIsOnRecord' /\ RowClosesOnEveryExit' /\ OnlyOverdueQuestionsTimeOut'
<1> DEFINE Fine(q) ==
        /\ Arbitrated(q) /\ outcome[q] = "allow" =>
              decision[q] = "allow" /\ by[q] \in Surface
        /\ outcome[q] # "none" => Decided(q)
        /\ by[q] = "timeout" =>
              overdue[q] \/ late[q] \/ (stopping /\ kind[q] = "broker")
<1> SUFFICES ASSUME AInv, [Next]_vars, NEW z \in Question PROVE Fine(z)'
  BY DEF YesIsOnRecord, RowClosesOnEveryExit, OnlyOverdueQuestionsTimeOut
<1> USE ApprovalAssumption
    DEF AInv, TypeOK, Choice, Surface, Asker, Pressed, RowShape, AskerShape,
        Decided, YesIsOnRecord, RowClosesOnEveryExit,
        OnlyOverdueQuestionsTimeOut, Arbitrated,
        clock, asking, answers, record, pass, elsewhere
<1>1. ASSUME StopRunner PROVE Fine(z)'
  BY <1>1 DEF StopRunner
<1>2. ASSUME NEW r \in Question, PassExpiry(r) PROVE Fine(z)'
  BY <1>2 DEF PassExpiry
<1>3. ASSUME NEW r \in Question, PassDeadline(r) PROVE Fine(z)'
  BY <1>3 DEF PassDeadline
<1>4. ASSUME NEW r \in Question, NEW k \in Kind,
              Raise(r, k) PROVE Fine(z)'
  BY <1>4 DEF Raise
<1>5. ASSUME NEW r \in Question, Poll(r) PROVE Fine(z)'
  BY <1>5 DEF Poll, Return, Forget, Advance, Decided, Open, Expired
<1>6. ASSUME NEW r \in Question, PollTelegram(r) PROVE Fine(z)'
  BY <1>6 DEF PollTelegram, Return, Forget, Advance, Decided
<1>7. ASSUME NEW r \in Question, CloseUnanswered(r) PROVE Fine(z)'
  BY <1>7 DEF CloseUnanswered, Resolve, Open, Return, Forget
<1>8. ASSUME NEW r \in Question, MarkRaisedHere(r) PROVE Fine(z)'
  BY <1>8 DEF MarkRaisedHere, Advance
<1>9. ASSUME NEW r \in Question, Watch(r) PROVE Fine(z)'
  BY <1>9 DEF Watch, Prompting, Decided
<1>10. ASSUME NEW r \in Question, Wake(r) PROVE Fine(z)'
  BY <1>10 DEF Wake, Prompting, Return, Forget, Advance
<1>11. ASSUME NEW r \in Question, AnswerHere(r) PROVE Fine(z)'
  BY <1>11 DEF AnswerHere, Resolve, Open, Return, Forget
<1>12. ASSUME NEW r \in Question, Cancelled(r) PROVE Fine(z)'
  BY <1>12 DEF Cancelled, AtConsole, Resolve, Open, Return, Forget
<1>13. ASSUME NEW r \in Question, NEW c \in Choice,
              Type(r, c) PROVE Fine(z)'
  BY <1>13 DEF Type, Prompting
<1>14. ASSUME NEW r \in Question, NEW c \in Choice,
              AnswerMenu(r, c) PROVE Fine(z)'
  BY <1>14 DEF AnswerMenu, Resolve, Open, Return, Forget
<1>15. ASSUME NEW r \in Question, NEW c \in Choice,
              AnswerOnWeb(r, c) PROVE Fine(z)'
  BY <1>15 DEF AnswerOnWeb, Resolve, Open
<1>16. ASSUME NEW r \in Question, NEW c \in Choice,
              Press(r, c) PROVE Fine(z)'
  BY <1>16 DEF Press, Resolve, Open
<1>17. ASSUME NEW r \in Question, NEW c \in Choice,
              Command(r, c) PROVE Fine(z)'
  BY <1>17 DEF Command, Pending, Open
<1>18. ASSUME NEW r \in Question, AskerGone(r) PROVE Fine(z)'
  BY <1>18 DEF AskerGone, Asking, Forget
<1>19. ASSUME NEW r \in Question, FallBack(r) PROVE Fine(z)'
  BY <1>19 DEF FallBack, AtConsole, Advance
<1>20. ASSUME PressLocally PROVE Fine(z)'
  BY <1>20 DEF PressLocally, NoPress
<1>21. ASSUME NEW w \in Sweeper, SweepReads(w) PROVE Fine(z)'
  BY <1>21 DEF SweepReads, Open
<1>22. ASSUME NEW w \in Sweeper, NEW r \in Question,
              SweepStamps(w, r) PROVE Fine(z)'
  BY <1>22 DEF SweepStamps, Resolve, Open, Expired
<1>23. ASSUME NEW w \in Sweeper, SweepEnds(w) PROVE Fine(z)'
  BY <1>23 DEF SweepEnds
<1>24. ASSUME NEW w \in Sweeper, SweepFails(w) PROVE Fine(z)'
  BY <1>24 DEF SweepFails
<1>25. ASSUME CommandWrites PROVE Fine(z)'
  BY <1>25 DEF CommandWrites, Resolve, Open, NoPress
<1>26. ASSUME UNCHANGED vars PROVE Fine(z)'
  BY <1>26 DEF vars
<1> HIDE DEF AInv, TypeOK, RowShape, AskerShape
<1> QED
  BY <1>1, <1>2, <1>3, <1>4, <1>5, <1>6, <1>7, <1>8, <1>9, <1>10, <1>11,
     <1>12, <1>13, <1>14, <1>15, <1>16, <1>17, <1>18, <1>19, <1>20,
     <1>21, <1>22, <1>23, <1>24, <1>25, <1>26
     DEF Next, Quiet, Clock, AskerStep, Human, SweeperStep

\* Nothing is asked at first.
LEMMA InitInv == Init => AInv
<1> SUFFICES ASSUME Init PROVE AInv
  OBVIOUS
<1> USE ApprovalAssumption DEF Init, Choice, Surface, Asker, Decided
<1>1. NoPress \in Pressed
  BY DEF NoPress, Pressed
<1>2. /\ step \in [Sweeper -> {"rest", "stamping"}]
      /\ batch \in [Sweeper -> SUBSET Question]
      /\ failures \in 0..MaxFailures
  OBVIOUS
<1>3. TypeOK
  BY <1>1, <1>2 DEF TypeOK
<1>4. \A q \in Question : RowShape(q)
  BY DEF RowShape
<1>5. \A q \in Question : AskerShape(q)
  BY DEF AskerShape, NoPress
<1>6. YesIsOnRecord /\ RowClosesOnEveryExit /\ OnlyOverdueQuestionsTimeOut
  BY DEF YesIsOnRecord, RowClosesOnEveryExit, OnlyOverdueQuestionsTimeOut
<1> QED
  BY <1>3, <1>4, <1>5, <1>6 DEF AInv

\* The whole invariant holds of every behaviour.
LEMMA Invariance == Spec => []AInv
<1>1. AInv /\ [Next]_vars => AInv'
  BY TypeStep, RowStep, AskerStepShape, OutcomeStep DEF AInv
<1> QED
  BY InitInv, <1>1, PTL DEF Spec

-----------------------------------------------------------------------------
\* Every variable of the approvals keeps its type.
THEOREM TypeCorrect == Spec => []TypeOK
<1>1. AInv => TypeOK
  BY DEF AInv
<1> QED
  BY Invariance, <1>1, PTL

\* An asker that lets the store arbitrate is told yes only when a surface put
\* an ALLOW on record: the failure of everything else is a denial
\* (approvals.py:14-17).
THEOREM FailsClosed == Spec => []YesIsOnRecord
<1>1. AInv => YesIsOnRecord
  BY DEF AInv
<1> QED
  BY Invariance, <1>1, PTL

\* No asking call returns and leaves its row open (repl.py:5900-5908).
THEOREM RowsClose == Spec => []RowClosesOnEveryExit
<1>1. AInv => RowClosesOnEveryExit
  BY DEF AInv
<1> QED
  BY Invariance, <1>1, PTL

\* The sweepers, however stale the list they walk, time out no live question
\* (store.py:588-613).
THEOREM LiveQuestionsAreLeftAlone == Spec => []OnlyOverdueQuestionsTimeOut
<1>1. AInv => OnlyOverdueQuestionsTimeOut
  BY DEF AInv
<1> QED
  BY Invariance, <1>1, PTL

\* A step that finds a decision leaves it and its author as they are.
LEMMA FinalStep ==
    AInv /\ [Next]_vars =>
        \A q \in Question :
            Decided(q) => decision'[q] = decision[q] /\ by'[q] = by[q]
<1> SUFFICES ASSUME AInv, [Next]_vars, NEW z \in Question, Decided(z)
             PROVE decision'[z] = decision[z] /\ by'[z] = by[z]
  OBVIOUS
<1> USE DEF AInv, TypeOK, RowShape, Decided, Choice, clock, asking, answers, record, pass, elsewhere
<1>1. ASSUME StopRunner PROVE decision'[z] = decision[z] /\ by'[z] = by[z]
  BY <1>1 DEF StopRunner
<1>2. ASSUME NEW r \in Question, PassExpiry(r) PROVE decision'[z] = decision[z] /\ by'[z] = by[z]
  BY <1>2 DEF PassExpiry
<1>3. ASSUME NEW r \in Question, PassDeadline(r) PROVE decision'[z] = decision[z] /\ by'[z] = by[z]
  BY <1>3 DEF PassDeadline
<1>4. ASSUME NEW r \in Question, NEW k \in Kind,
              Raise(r, k) PROVE decision'[z] = decision[z] /\ by'[z] = by[z]
  BY <1>4 DEF Raise
<1>5. ASSUME NEW r \in Question, Poll(r) PROVE decision'[z] = decision[z] /\ by'[z] = by[z]
  BY <1>5 DEF Poll, Return, Forget, Advance, Decided, Open, Expired
<1>6. ASSUME NEW r \in Question, PollTelegram(r) PROVE decision'[z] = decision[z] /\ by'[z] = by[z]
  BY <1>6 DEF PollTelegram, Return, Forget, Advance, Decided
<1>7. ASSUME NEW r \in Question, CloseUnanswered(r) PROVE decision'[z] = decision[z] /\ by'[z] = by[z]
  BY <1>7 DEF CloseUnanswered, Resolve, Open, Return, Forget
<1>8. ASSUME NEW r \in Question, MarkRaisedHere(r) PROVE decision'[z] = decision[z] /\ by'[z] = by[z]
  BY <1>8 DEF MarkRaisedHere, Advance
<1>9. ASSUME NEW r \in Question, Watch(r) PROVE decision'[z] = decision[z] /\ by'[z] = by[z]
  BY <1>9 DEF Watch, Prompting, Decided
<1>10. ASSUME NEW r \in Question, Wake(r) PROVE decision'[z] = decision[z] /\ by'[z] = by[z]
  BY <1>10 DEF Wake, Prompting, Return, Forget, Advance
<1>11. ASSUME NEW r \in Question, AnswerHere(r) PROVE decision'[z] = decision[z] /\ by'[z] = by[z]
  BY <1>11 DEF AnswerHere, Resolve, Open, Return, Forget
<1>12. ASSUME NEW r \in Question, Cancelled(r) PROVE decision'[z] = decision[z] /\ by'[z] = by[z]
  BY <1>12 DEF Cancelled, AtConsole, Resolve, Open, Return, Forget
<1>13. ASSUME NEW r \in Question, NEW c \in Choice,
              Type(r, c) PROVE decision'[z] = decision[z] /\ by'[z] = by[z]
  BY <1>13 DEF Type, Prompting
<1>14. ASSUME NEW r \in Question, NEW c \in Choice,
              AnswerMenu(r, c) PROVE decision'[z] = decision[z] /\ by'[z] = by[z]
  BY <1>14 DEF AnswerMenu, Resolve, Open, Return, Forget
<1>15. ASSUME NEW r \in Question, NEW c \in Choice,
              AnswerOnWeb(r, c) PROVE decision'[z] = decision[z] /\ by'[z] = by[z]
  BY <1>15 DEF AnswerOnWeb, Resolve, Open
<1>16. ASSUME NEW r \in Question, NEW c \in Choice,
              Press(r, c) PROVE decision'[z] = decision[z] /\ by'[z] = by[z]
  BY <1>16 DEF Press, Resolve, Open
<1>17. ASSUME NEW r \in Question, NEW c \in Choice,
              Command(r, c) PROVE decision'[z] = decision[z] /\ by'[z] = by[z]
  BY <1>17 DEF Command, Pending, Open
<1>18. ASSUME NEW r \in Question, AskerGone(r) PROVE decision'[z] = decision[z] /\ by'[z] = by[z]
  BY <1>18 DEF AskerGone, Asking, Forget
<1>19. ASSUME NEW r \in Question, FallBack(r) PROVE decision'[z] = decision[z] /\ by'[z] = by[z]
  BY <1>19 DEF FallBack, AtConsole, Advance
<1>20. ASSUME PressLocally PROVE decision'[z] = decision[z] /\ by'[z] = by[z]
  BY <1>20 DEF PressLocally, NoPress
<1>21. ASSUME NEW w \in Sweeper, SweepReads(w) PROVE decision'[z] = decision[z] /\ by'[z] = by[z]
  BY <1>21 DEF SweepReads, Open
<1>22. ASSUME NEW w \in Sweeper, NEW r \in Question,
              SweepStamps(w, r) PROVE decision'[z] = decision[z] /\ by'[z] = by[z]
  BY <1>22 DEF SweepStamps, Resolve, Open, Expired
<1>23. ASSUME NEW w \in Sweeper, SweepEnds(w) PROVE decision'[z] = decision[z] /\ by'[z] = by[z]
  BY <1>23 DEF SweepEnds
<1>24. ASSUME NEW w \in Sweeper, SweepFails(w) PROVE decision'[z] = decision[z] /\ by'[z] = by[z]
  BY <1>24 DEF SweepFails
<1>25. ASSUME CommandWrites PROVE decision'[z] = decision[z] /\ by'[z] = by[z]
  BY <1>25 DEF CommandWrites, Resolve, Open, NoPress
<1>26. ASSUME UNCHANGED vars PROVE decision'[z] = decision[z] /\ by'[z] = by[z]
  BY <1>26 DEF vars
<1> HIDE DEF AInv, TypeOK, RowShape, AskerShape
<1> QED
  BY <1>1, <1>2, <1>3, <1>4, <1>5, <1>6, <1>7, <1>8, <1>9, <1>10, <1>11,
     <1>12, <1>13, <1>14, <1>15, <1>16, <1>17, <1>18, <1>19, <1>20,
     <1>21, <1>22, <1>23, <1>24, <1>25, <1>26
     DEF Next, Quiet, Clock, AskerStep, Human, SweeperStep

\* A recorded decision is final, through every race of buttons, commands,
\* timeouts and sweepers (store.py:508-524).
THEOREM DecisionsAreFinal == Spec => FirstAnswerStands
<1>1. AInv /\ [Next]_vars =>
        [\A q \in Question :
            Decided(q) => decision'[q] = decision[q] /\ by'[q] = by[q]]_vars
  BY FinalStep
<1> QED
  BY Invariance, <1>1, PTL DEF Spec, FirstAnswerStands

-----------------------------------------------------------------------------
(* The watcher.  Its notes rest on the finality of decisions: a note is    *)
(* about a row that another process may be writing while it is printed.    *)

\* The watcher's invariant: that of the approvals, its types and its notes.
WInv == AInv /\ PanelTypeOK /\ NotesStayTrue

\* A step of the watcher is a step of the approvals, or leaves them alone.
LEMMA StepsBelow == [WatcherNext]_watcherVars => [Next]_vars
<1>1. Elsewhere => Next
  BY DEF Elsewhere, Next
<1>2. Commanded => Next
  BY DEF Commanded, Next
<1>3. WatcherStep => UNCHANGED vars
  BY DEF WatcherStep, Lists, Notes, Shows
<1> QED
  BY <1>1, <1>2, <1>3 DEF WatcherNext, watcherVars

\* What a note says of a row is true of that row.
LEMMA NoteIsTrue ==
    ASSUME AInv, NEW q \in Question
    PROVE  /\ NoteOf(q) \in {"answered", "expired", "unanswered"}
           /\ NoteOf(q) = "answered" => Decided(q) /\ by[q] \in Surface
           /\ NoteOf(q) = "expired" => decision[q] = "deny" /\ by[q] = "timeout"
<1>1. CASE ~Decided(q)
  BY <1>1, ApprovalAssumption DEF NoteOf, AInv, RowShape
<1>2. CASE Decided(q) /\ by[q] = "timeout"
  BY <1>2 DEF NoteOf, AInv, RowShape
<1>3. CASE Decided(q) /\ by[q] # "timeout"
  <2>1. by[q] \in Surface
    BY <1>3 DEF AInv, TypeOK, RowShape
  <2> QED
    BY <1>3, <2>1 DEF NoteOf
<1> QED
  BY <1>1, <1>2, <1>3

\* Each step of the watcher keeps its types and the truth of its notes.
LEMMA PanelStep == WInv /\ [WatcherNext]_watcherVars => PanelTypeOK' /\ NotesStayTrue'
<1> SUFFICES ASSUME WInv, [WatcherNext]_watcherVars
             PROVE  PanelTypeOK' /\ NotesStayTrue'
  OBVIOUS
<1>1. \A q \in Question :
        Decided(q) => decision'[q] = decision[q] /\ by'[q] = by[q]
  BY FinalStep, StepsBelow DEF WInv
<1>2. ASSUME UNCHANGED note PROVE NotesStayTrue'
  BY <1>1, <1>2 DEF WInv, NotesStayTrue, Decided, Choice
<1>3. ASSUME NEW q \in Question, ~Open(q) \/ UNCHANGED vars, UNCHANGED record,
             note' = [note EXCEPT ![q] = NoteOf(q)]
      PROVE  NotesStayTrue'
  <2>1. AInv
    BY DEF WInv
  <2> QED
    BY <1>3, <2>1, NoteIsTrue
       DEF WInv, PanelTypeOK, NotesStayTrue, Decided, record
<1>4. CASE Elsewhere
  BY <1>2, <1>4 DEF Elsewhere, panel, WInv, PanelTypeOK
<1>5. CASE Commanded
  <2>1. PanelTypeOK'
    <3>1. ASSUME NEW q \in Question PROVE NoteOf(q) \in {"answered", "expired", "unanswered"}
      BY <3>1, NoteIsTrue DEF WInv
    <3> QED
      BY <1>5, <3>1 DEF Commanded, WInv, PanelTypeOK
  <2>2. ASSUME Open(command.question) PROVE NotesStayTrue'
    BY <1>2, <1>5, <2>2 DEF Commanded
  <2>3. ASSUME ~Open(command.question) PROVE NotesStayTrue'
    <3>1. command.question \in Question \cup {Nobody} /\ UNCHANGED record
      BY <1>5, <2>3 DEF Commanded, CommandWrites, Resolve, WInv, AInv, TypeOK, Pressed
    <3>2. CASE command.question \in Question
      BY <1>3, <1>5, <2>3, <3>1, <3>2 DEF Commanded
    <3>3. CASE command.question = Nobody
      <4>1. UNCHANGED note
        BY <1>5, <2>3, <3>3, ApprovalAssumption DEF Commanded, WInv, PanelTypeOK
      <4> QED
        BY <1>2, <4>1
    <3> QED
      BY <3>1, <3>2, <3>3
  <2> QED
    BY <2>1, <2>2, <2>3
<1>6. CASE Lists
  BY <1>2, <1>6 DEF Lists, WInv, PanelTypeOK
<1>7. CASE Shows
  BY <1>2, <1>7 DEF Shows, WInv, PanelTypeOK
<1>8. ASSUME NEW q \in gone, Notes(q) PROVE PanelTypeOK' /\ NotesStayTrue'
  <2>1. q \in Question
    BY <1>8 DEF WInv, PanelTypeOK
  <2>2. UNCHANGED record
    BY <1>8 DEF Notes, vars
  <2>3. NotesStayTrue'
    BY <1>3, <1>8, <2>1, <2>2 DEF Notes
  <2>4. NoteOf(q) \in {"answered", "expired", "unanswered"}
    BY <2>1, NoteIsTrue DEF WInv
  <2> QED
    BY <1>8, <2>1, <2>3, <2>4 DEF Notes, WInv, PanelTypeOK
<1>9. CASE UNCHANGED watcherVars
  BY <1>2, <1>9 DEF watcherVars, panel, WInv, PanelTypeOK
<1> QED
  BY <1>4, <1>5, <1>6, <1>7, <1>8, <1>9 DEF WatcherNext, WatcherStep, Notes

\* With the watcher the whole invariant holds of every behaviour.
LEMMA WatcherInvariance == WatcherSpec => []WInv
<1>1. WatcherInit => WInv
  BY InitInv DEF WatcherInit, WInv, PanelTypeOK, NotesStayTrue
<1>2. WInv /\ [WatcherNext]_watcherVars => WInv'
  <2>1. AInv /\ [Next]_vars => AInv'
    BY TypeStep, RowStep, AskerStepShape, OutcomeStep DEF AInv
  <2> QED
    BY <2>1, StepsBelow, PanelStep DEF WInv
<1> QED
  BY <1>1, <1>2, PTL DEF WatcherSpec

\* What a closing note told the user, a human's answer or a timeout, is what
\* the record says from then on (console.py:328-337).
THEOREM NotesAreTrue == WatcherSpec => []NotesStayTrue
<1>1. WInv => NotesStayTrue
  BY DEF WInv
<1> QED
  BY WatcherInvariance, <1>1, PTL

=============================================================================
