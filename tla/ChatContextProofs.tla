-------------------------- MODULE ChatContextProofs --------------------------
(***************************************************************************)
(* Proofs about ChatContext, for a window, a number of repeats, of rounds  *)
(* and of records of any size: its types, that no request of a person is   *)
(* forgotten without one of the two named reasons, that results keep the   *)
(* calls they answer, that the summary is told when it is needed, and that *)
(* nothing from before /clear is shown.                                    *)
(*                                                                         *)
(* The watermark is a number, so the invariant says what it counts: the    *)
(* records of some earlier window's beginning, all of them folded or       *)
(* excused, and what that window was loaded from.  A record that slips     *)
(* below the watermark then has fewer records before it in today's window  *)
(* than were counted, so that one that was counted is no longer loaded.    *)
(***************************************************************************)
EXTENDS ChatContext, FiniteSetTheorems, SequenceTheorems, TLAPS

\* Kinds that are dropped when a turn loads its window, whatever came before.
Dropped == {"nudge", "blank", "notice"}

\* A repeat of which an earlier one is loaded, unless none ever is.
SaidBefore(r, loaded) ==
    /\ transcript[r] \in Echo
    /\ MaxRepeated > 0 => \E e \in loaded : e < r /\ transcript[e] \in Echo

\* Loaded, or passed over by one of the filters.
Passed(r, loaded) == r \in loaded \/ transcript[r] \in Dropped \/ SaidBefore(r, loaded)

\* In the summary, or behind something in it that is not loaded again.
Excused(r) == r \in folded \/ \E d \in folded : d < r /\ SetAside(d)

\* Between turns there is no window and no request.
Resting == phase = "idle" => memory = <<>> /\ offset = 0 /\ upto = 1 /\ prompt = {}

\* While tools run the transcript ends in the calls and results of this round.
ToolsRun ==
    phase = "tools" =>
        /\ todo > 0 /\ transcript # <<>>
        /\ transcript[Len(transcript)] \in Calling \cup {"result"}

\* The messages of a turn are records past /clear, in their order ...
MemoryAscends ==
    phase # "idle" =>
        /\ floor <= offset /\ offset <= Skipped
        /\ \A i \in DOMAIN memory : offset < memory[i]
        /\ \A i, j \in DOMAIN memory : i < j => memory[i] < memory[j]

\* ... and all of them but those the filters passed over.
WindowIsWhole ==
    phase # "idle" => \A r \in offset + 1..Len(transcript) : Passed(r, ToSet(memory))

\* What the summary is taken to cover, it does, or the reason is in it.
BelowIsFolded == \A i \in 1..upto - 1 : Excused(memory[i])

\* The saved watermark counts the records Q that a window which began at o had
\* at its beginning.
Counts(o, Q) ==
    /\ \A q \in Q : o < q /\ Excused(q)
    /\ \A q \in Q : \A r \in o + 1..q : Passed(r, Q)
    /\ mark = o + Cardinality(Q)

WatermarkCounts ==
    folded # {} => \E o \in 0..Skipped, Q \in SUBSET (1..Len(transcript)) : Counts(o, Q)

\* Every result follows on disk the call it answers and other results of it.
FollowsACall(r) ==
    \E c \in 1..r :
        /\ transcript[c] \in Calling
        /\ \A between \in c + 1..r : transcript[between] = "result"

ResultsFollowCalls ==
    \A r \in 1..Len(transcript) : transcript[r] = "result" => FollowsACall(r)

\* The inductive invariant.
CInv ==
    /\ TypeOK /\ Resting /\ ToolsRun
    /\ MemoryAscends /\ WindowIsWhole
    /\ BelowIsFolded /\ WatermarkCounts
    /\ ResultsFollowCalls
    /\ ForgottenForAReason /\ ResultsKeepTheirCalls
    /\ SummaryToldWhenNeeded /\ NothingFromBeforeClear

-----------------------------------------------------------------------------
(* Sets of numbers in their order.                                         *)

\* A larger number has more numbers below it.
LEMMA RanksGrow ==
    ASSUME NEW S \in SUBSET Nat, IsFiniteSet(S), NEW a \in S, NEW b \in S, a < b
    PROVE  Cardinality({e \in S : e < a}) < Cardinality({e \in S : e < b})
<1> DEFINE A == {e \in S : e < a}
<1> DEFINE B == {e \in S : e < b}
<1>1. IsFiniteSet(A) /\ IsFiniteSet(B)
  BY FS_Subset
<1>2. A \in SUBSET B /\ a \in B /\ a \notin A
  <2>1. a \in Nat /\ b \in Nat /\ \A e \in S : e \in Nat
    OBVIOUS
  <2>2. \A e \in S : e < a => e < b
    BY <2>1
  <2>3. A \subseteq B
    BY <2>2
  <2>4. a \in B /\ a \notin A
    BY <2>1
  <2> QED
    BY <2>3, <2>4
<1> HIDE DEF A, B
<1>3. Cardinality(A) <= Cardinality(B) /\ Cardinality(A) # Cardinality(B)
  BY <1>1, <1>2, FS_Subset
<1>4. Cardinality(A) \in Nat /\ Cardinality(B) \in Nat
  BY <1>1, FS_CardinalityType
<1> QED
  BY <1>3, <1>4 DEF A, B

\* InOrder lists each of the numbers once, in order, and the i-th has i - 1
\* below it.
LEMMA InOrderLists ==
    ASSUME NEW S \in SUBSET Nat, IsFiniteSet(S)
    PROVE  /\ Cardinality(S) \in Nat
           /\ InOrder(S) \in [1..Cardinality(S) -> S]
           /\ \A i \in 1..Cardinality(S) :
                 Cardinality({e \in S : e < InOrder(S)[i]}) = i - 1
           /\ \A i, j \in 1..Cardinality(S) : i < j => InOrder(S)[i] < InOrder(S)[j]
           /\ \A r \in S : \E i \in 1..Cardinality(S) : InOrder(S)[i] = r
<1> DEFINE n == Cardinality(S)
<1> DEFINE Rank(r) == Cardinality({e \in S : e < r})
<1> DEFINE f == [r \in S |-> Rank(r) + 1]
<1>1. n \in Nat
  BY FS_CardinalityType
<1>2. ASSUME NEW r \in S PROVE Rank(r) \in 0..n - 1
  <2>1. IsFiniteSet({e \in S : e < r}) /\ Rank(r) <= n /\ (n = Rank(r) => S = {e \in S : e < r})
    BY FS_Subset
  <2>2. S # {e \in S : e < r}
    OBVIOUS
  <2>3. Rank(r) \in Nat
    BY <2>1, FS_CardinalityType
  <2> HIDE DEF n, Rank
  <2> QED
    BY <1>1, <2>1, <2>2, <2>3
<1>3. ASSUME NEW a \in S, NEW b \in S, a < b PROVE Rank(a) < Rank(b)
  BY <1>3, RanksGrow
<1> HIDE DEF Rank, n
<1>4. f \in Injection(S, 1..n)
  <2>1. f \in [S -> 1..n]
    BY <1>1, <1>2
  <2>2. ASSUME NEW a \in S, NEW b \in S, f[a] = f[b] PROVE a = b
    <3>1. Rank(a) = Rank(b) /\ Rank(a) \in Nat /\ Rank(b) \in Nat
      BY <1>1, <1>2, <2>2
    <3>2. ~(a < b) /\ ~(b < a)
      BY <1>3, <3>1
    <3> QED
      BY <3>2
  <2> QED
    BY <2>1, <2>2 DEF Injection, IsInjective
<1>5. f \in Surjection(S, 1..n)
  <2>1. IsFiniteSet(1..n) /\ Cardinality(1..n) = n
    BY <1>1, FS_Interval
  <2> QED
    BY <1>4, <2>1, FS_Injection DEF n
<1>6. ASSUME NEW i \in 1..n PROVE \E r \in S : Rank(r) = i - 1
  <2>1. PICK r \in S : f[r] = i
    BY <1>5 DEF Surjection
  <2>2. Rank(r) \in Nat /\ i \in Nat /\ Rank(r) + 1 = i
    BY <1>1, <1>2, <2>1
  <2> QED
    BY <2>2
<1>7. InOrder(S) = [i \in 1..n |-> CHOOSE r \in S : Rank(r) = i - 1]
  BY DEF InOrder, Rank, n
<1>8. ASSUME NEW i \in 1..n PROVE InOrder(S)[i] \in S /\ Rank(InOrder(S)[i]) = i - 1
  BY <1>6, <1>7
<1>9. ASSUME NEW i \in 1..n, NEW j \in 1..n, i < j PROVE InOrder(S)[i] < InOrder(S)[j]
  <2>1. PICK a \in S : a = InOrder(S)[i] /\ Rank(a) = i - 1
    BY <1>8
  <2>2. PICK b \in S : b = InOrder(S)[j] /\ Rank(b) = j - 1
    BY <1>8
  <2>3. a \in Nat /\ b \in Nat /\ i \in Nat /\ j \in Nat
    BY <1>1
  <2>4. a # b /\ ~(b < a)
    BY <1>3, <1>9, <2>1, <2>2, <2>3
  <2> QED
    BY <2>1, <2>2, <2>3, <2>4
<1>10. ASSUME NEW r \in S PROVE \E i \in 1..n : InOrder(S)[i] = r
  <2>1. Rank(r) + 1 \in 1..n /\ Rank(r) \in Nat
    BY <1>1, <1>2
  <2>2. PICK i \in 1..n : i = Rank(r) + 1
    BY <2>1
  <2>3. PICK a \in S : a = InOrder(S)[i] /\ Rank(a) = Rank(r)
    <3>1. i - 1 = Rank(r)
      BY <2>1, <2>2
    <3> QED
      BY <1>8, <3>1
  <2>4. ~(a < r) /\ ~(r < a) /\ a \in Nat /\ r \in Nat
    <3>1. a < r => Rank(a) < Rank(r)
      BY <1>3
    <3>2. r < a => Rank(r) < Rank(a)
      BY <1>3
    <3> QED
      BY <2>1, <2>3, <3>1, <3>2
  <2> QED
    BY <2>3, <2>4
<1> QED
  BY <1>1, <1>7, <1>8, <1>9, <1>10 DEF Rank, n

-----------------------------------------------------------------------------
(* What a step does.                                                       *)

\* Records are only ever appended.
Extends ==
    /\ transcript' \in Seq(Record)
    /\ Len(transcript) \in Nat /\ Len(transcript') \in Nat
    /\ Len(transcript) <= Len(transcript')
    /\ DOMAIN transcript = 1..Len(transcript) /\ DOMAIN transcript' = 1..Len(transcript')
    /\ \A i \in 1..Len(transcript) : transcript'[i] = transcript[i]

\* A turn goes on after these records; what tools are to do, and what they did,
\* is the last of them.
GrowsBy(records) ==
    /\ phase # "idle" /\ phase' \in {"asked", "round", "tools", "ran"}
    /\ Appended(records)
    /\ UNCHANGED <<floor, mark, folded, offset, upto, round, request>>
    /\ (\A i \in DOMAIN records : records[i] # "result") \/ (phase = "tools" /\ records = <<"result">>)
    /\ todo' \in Nat
    /\ phase' = "tools" =>
          /\ todo' > 0 /\ Len(records) = 1
          /\ records[Len(records)] \in Calling \cup {"result"}

Grows == \E records \in Seq(Record) : GrowsBy(records)

\* A turn is over: it answered or stopped, or the process died.
Closes ==
    /\ phase # "idle" /\ Over
    /\ UNCHANGED <<floor, mark, folded>>
    /\ \E records \in Seq(Record) :
          /\ transcript' = transcript \o records
          /\ \A i \in DOMAIN records : records[i] # "result"

\* A transcript with something appended to it.
LEMMA Longer ==
    ASSUME transcript \in Seq(Record), NEW records \in Seq(Record),
           transcript' = transcript \o records
    PROVE  /\ Extends
           /\ Len(records) \in Nat /\ DOMAIN records = 1..Len(records)
           /\ Len(transcript') = Len(transcript) + Len(records)
           /\ \A i \in 1..Len(records) : transcript'[Len(transcript) + i] = records[i]
BY DEF Extends

\* Every step appends to the transcript or leaves it.
LEMMA Kinds ==
    ASSUME TypeOK, ToolsRun, [Next]_vars
    PROVE  Ask \/ Compact \/ Send \/ Retry \/ Grows \/ Closes \/ Clear \/ UNCHANGED vars
<1> USE DEF Goes, Ends, Grows, Closes
<1>0. /\ \A r \in Record : <<r>> \in Seq(Record)
      /\ \A r, q \in Record : <<r, q>> \in Seq(Record)
      /\ <<>> \in Seq(Record)
  OBVIOUS
<1>a. /\ {"nudge", "person", "blank", "answer", "echo", "report", "notice", "result"} \subseteq Record
      /\ Calling \subseteq Record /\ "result" \notin Calling
  BY DEF Record, UserRole, Echo, Calling
<1>1. CASE AskForAPlan \/ Interject
  <2>1. \E r \in {"nudge", "person"} : GrowsBy(<<r>>)
    BY <1>1 DEF AskForAPlan, Interject, GrowsBy, TypeOK, request
  <2> QED
    BY <1>0, <1>a, <2>1
<1>2. CASE Correct
  <2>1. PICK reply \in {"blank", "answer", "echo"} : Goes(<<reply, "nudge">>, "round")
    BY <1>2 DEF Correct
  <2>2. GrowsBy(<<reply, "nudge">>)
    BY <1>2, <2>1 DEF Correct, GrowsBy, TypeOK
  <2>3. <<reply, "nudge">> \in Seq(Record)
    BY <1>0, <1>a
  <2> QED
    BY <2>2, <2>3
<1>3. CASE CallTools
  <2>1. PICK call \in Calling, n \in 1..2 : Goes(<<call>>, "tools") /\ todo' = n
    BY <1>3 DEF CallTools
  <2>2. GrowsBy(<<call>>)
    BY <1>3, <1>a, <2>1 DEF CallTools, GrowsBy
  <2> QED
    BY <1>0, <1>a, <2>2
<1>4. CASE ToolResult
  <2>1. GrowsBy(<<"result">>)
    BY <1>4 DEF ToolResult, GrowsBy, ToolsRun, TypeOK
  <2> QED
    BY <1>0, <1>a, <2>1
<1>5. CASE Steer \/ NextRound
  <2>1. GrowsBy(<<"nudge">>) \/ GrowsBy(<<"report">>) \/ GrowsBy(<<>>)
    BY <1>5 DEF Steer, NextRound, GrowsBy, TypeOK
  <2> QED
    BY <1>0, <1>a, <2>1
<1>6. CASE Answer \/ Stop \/ EndOnQuestion
  <2>1. PICK records \in Seq(Record) :
           Ends(records) /\ \A i \in DOMAIN records : records[i] # "result"
    <3>1. \E reply \in {"answer", "echo", "notice"} : Ends(<<reply>>) \/ Ends(<<"report", reply>>)
      BY <1>6 DEF Answer, Stop, EndOnQuestion
    <3>2. PICK reply \in {"answer", "echo", "notice"} : Ends(<<reply>>) \/ Ends(<<"report", reply>>)
      BY <3>1
    <3>3. /\ <<reply>> \in Seq(Record) /\ <<"report", reply>> \in Seq(Record)
          /\ \A i \in DOMAIN <<reply>> : <<reply>>[i] # "result"
          /\ \A i \in DOMAIN <<"report", reply>> : <<"report", reply>>[i] # "result"
      BY <1>0, <1>a
    <3> HIDE DEF Ends
    <3> QED
      BY <3>2, <3>3
  <2>2. phase # "idle"
    BY <1>6 DEF Answer, Stop, EndOnQuestion
  <2> QED
    BY <2>1, <2>2
<1>7. CASE Crash
  <2>1. transcript' = transcript \o <<>>
    BY <1>7 DEF Crash, disk, TypeOK
  <2>2. \A i \in DOMAIN <<>> : <<>>[i] # "result"
    OBVIOUS
  <2>3. \E records \in Seq(Record) :
           transcript' = transcript \o records /\ \A i \in DOMAIN records : records[i] # "result"
    BY <1>0, <2>1, <2>2
  <2> QED
    BY <1>7, <2>3 DEF Crash, disk
<1> QED
  BY <1>1, <1>2, <1>3, <1>4, <1>5, <1>6, <1>7
     DEF Next, TurnStep, Preparing, Speaking, Replying, Acting

\* Every step extends the transcript, and the window moves forward only.
LEMMA StepExtends ==
    ASSUME TypeOK, ToolsRun, [Next]_vars
    PROVE  /\ Extends
           /\ Skipped \in Nat
           /\ floor' = floor => Skipped <= Skipped'
<1>1. transcript \in Seq(Record) /\ floor \in 0..Len(transcript)
  BY DEF TypeOK
<1>2. Extends
  <2>1. CASE transcript' = transcript
    BY <1>1, <2>1 DEF Extends
  <2>2. CASE \E records \in Seq(Record) : transcript' = transcript \o records
    BY <1>1, <2>2, Longer
  <2>3. CASE Ask
    <3>1. transcript' = transcript \o <<"person">> /\ <<"person">> \in Seq(Record)
      BY <1>1, <2>3 DEF Ask, Record, UserRole
    <3> QED
      BY <2>2, <3>1
  <2> QED
    BY <2>1, <2>2, <2>3, Kinds
       DEF Compact, Send, Retry, Grows, GrowsBy, Appended, Closes, Clear, vars, disk
<1>3. Skipped \in Nat
  BY <1>1, ContextAssumption DEF Skipped, Larger
<1>4. floor' = floor => Skipped <= Skipped'
  BY <1>1, <1>2, ContextAssumption DEF Skipped, Larger, Extends
<1> QED
  BY <1>2, <1>3, <1>4

\* The window a turn loads.
Loaded == WithoutStale(Hydrated)

\* It is finitely many records, all of them past what is skipped.
LEMMA LoadedIsFinite ==
    ASSUME TypeOK
    PROVE  /\ Loaded \in SUBSET Nat /\ IsFiniteSet(Loaded)
           /\ Cardinality(Hydrated) \in Nat
           /\ Loaded \subseteq 1..Len(transcript)
           /\ \A r \in Loaded : Skipped < r
           /\ Skipped \in 0..Len(transcript)
<1>1. Len(transcript) \in Nat /\ floor \in 0..Len(transcript)
  BY DEF TypeOK
<1>2. Skipped \in 0..Len(transcript)
  BY <1>1, ContextAssumption DEF Skipped, Larger
<1>3. IsFiniteSet(Skipped + 1..Len(transcript))
  BY <1>1, <1>2, FS_Interval
<1>4. Hydrated \subseteq Skipped + 1..Len(transcript) /\ Loaded \subseteq Hydrated
  BY DEF Hydrated, Loaded, WithoutStale
<1>5. IsFiniteSet(Hydrated) /\ IsFiniteSet(Loaded)
  BY <1>3, <1>4, FS_Subset
<1>6. Cardinality(Hydrated) \in Nat
  BY <1>5, FS_CardinalityType
<1> QED
  BY <1>1, <1>2, <1>4, <1>5, <1>6

\* The messages a turn begins with: what it loads, in order, and the request.
LEMMA AskLoads ==
    ASSUME TypeOK, Ask
    PROVE  LET n == Cardinality(Loaded) IN
           /\ n \in Nat /\ InOrder(Loaded) \in Seq(1..Len(transcript))
           /\ memory' = Append(InOrder(Loaded), Len(transcript) + 1)
           /\ DOMAIN memory' = 1..n + 1 /\ Len(memory') = n + 1
           /\ \A i \in 1..n : memory'[i] = InOrder(Loaded)[i] /\ memory'[i] \in Loaded
           /\ memory'[n + 1] = Len(transcript) + 1
           /\ transcript' = Append(transcript, "person") /\ Len(transcript') = Len(transcript) + 1
           /\ upto' \in 1..n + 1 /\ upto' <= Restored
<1> DEFINE n == Cardinality(Loaded)
<1> DEFINE kept == InOrder(Loaded)
<1>1. n \in Nat /\ kept \in [1..n -> Loaded]
  BY LoadedIsFinite, InOrderLists
<1>2. Loaded \subseteq 1..Len(transcript)
  BY LoadedIsFinite
<1>3. kept \in Seq(1..Len(transcript)) /\ Len(kept) = n
  <2> HIDE DEF kept, n
  <2>1. kept \in [1..n -> 1..Len(transcript)]
    BY <1>1, <1>2
  <2> QED
    BY <1>1, <2>1
<1>4. memory' = Append(kept, Len(transcript) + 1) /\ upto' = Smaller(Restored, Len(kept) + 1)
  BY DEF Ask, Loaded
<1>5. Restored \in Int /\ Restored >= 1
  BY LoadedIsFinite DEF Restored, Larger, Smaller, TypeOK
<1> HIDE DEF kept
<1>6. upto' \in 1..n + 1 /\ upto' <= Restored
  <2> HIDE DEF n
  <2> QED
    BY <1>1, <1>3, <1>4, <1>5 DEF Smaller
<1>7. /\ DOMAIN memory' = 1..n + 1 /\ Len(memory') = n + 1
      /\ \A i \in 1..n : memory'[i] = kept[i]
      /\ memory'[n + 1] = Len(transcript) + 1
  <2> HIDE DEF n
  <2> QED
    BY <1>1, <1>3, <1>4
<1>8. transcript' = Append(transcript, "person") /\ Len(transcript') = Len(transcript) + 1
  BY DEF Ask, TypeOK
<1> QED
  BY <1>1, <1>3, <1>4, <1>6, <1>7, <1>8 DEF kept

\* The messages of a turn are records.
LEMMA MemoryTypes ==
    ASSUME TypeOK
    PROVE  /\ Len(memory) \in Nat /\ DOMAIN memory = 1..Len(memory)
           /\ \A i \in 1..Len(memory) : memory[i] \in 1..Len(transcript)
           /\ Len(transcript) \in Nat
<1>1. memory \in Seq(1..Len(transcript))
  BY DEF TypeOK
<1> QED
  BY <1>1, LenProperties, ElementOfSeq DEF TypeOK

\* A turn's messages grow with the transcript.
LEMMA GrowsMemory ==
    ASSUME TypeOK, NEW records \in Seq(Record), GrowsBy(records)
    PROVE  LET n == Len(memory)  k == Len(records) IN
           /\ n \in Nat /\ k \in Nat /\ Len(transcript) \in Nat
           /\ DOMAIN memory = 1..n /\ DOMAIN memory' = 1..n + k /\ Len(memory') = n + k
           /\ Len(transcript') = Len(transcript) + k
           /\ \A i \in 1..n : memory'[i] = memory[i] /\ memory[i] \in 1..Len(transcript)
           /\ \A i \in 1..k : memory'[n + i] = Len(transcript) + i
           /\ memory' \in Seq(1..Len(transcript'))
<1> DEFINE n == Len(memory)
<1> DEFINE k == Len(records)
<1> DEFINE L == Len(transcript)
<1> DEFINE added == [i \in DOMAIN records |-> L + i]
<1>1. /\ memory \in Seq(1..L) /\ n \in Nat /\ k \in Nat /\ L \in Nat
      /\ DOMAIN memory = 1..n /\ DOMAIN records = 1..k
  BY DEF TypeOK
<1>2. Len(transcript') = L + k
  BY DEF GrowsBy, Appended, TypeOK
<1>3. memory' = memory \o added
  BY DEF GrowsBy, Appended
<1> HIDE DEF L, n, k
<1>4. added \in Seq(1..L + k) /\ Len(added) = k /\ \A i \in 1..k : added[i] = L + i
  <2>1. added \in [1..k -> 1..L + k]
    BY <1>1
  <2> QED
    BY <1>1, <2>1
<1>5. \A i \in 1..n : memory[i] \in 1..L
  BY <1>1
<1> HIDE DEF added
<1>6. memory \in Seq(1..L + k)
  <2>1. 1..L \subseteq 1..L + k
    BY <1>1
  <2> QED
    BY <1>1, <1>5, <2>1
<1>7. memory' \in Seq(1..L + k)
  BY <1>3, <1>4, <1>6
<1>8. /\ Len(memory') = n + k /\ DOMAIN memory' = 1..n + k
      /\ \A i \in 1..n : memory'[i] = memory[i]
      /\ \A i \in 1..k : memory'[n + i] = added[i]
  <2>1. /\ Len(memory \o added) = Len(memory) + Len(added)
        /\ \A i \in 1..Len(memory) + Len(added) :
              (memory \o added)[i] = IF i <= Len(memory) THEN memory[i] ELSE added[i - Len(memory)]
    BY <1>4, <1>6, ConcatProperties
  <2>2. n = Len(memory)
    BY DEF n
  <2>3. /\ Len(memory') = n + k
        /\ \A i \in 1..n + k : memory'[i] = IF i <= n THEN memory[i] ELSE added[i - n]
    BY <1>3, <1>4, <2>1, <2>2
  <2>4. \A i \in 1..k : n + i \in 1..n + k /\ ~(n + i <= n) /\ n + i - n = i
    BY <1>1
  <2>5. \A i \in 1..n : i \in 1..n + k /\ i <= n
    BY <1>1
  <2>6. DOMAIN memory' = 1..Len(memory')
    BY <1>7, LenProperties
  <2>7. \A i \in 1..k : memory'[n + i] = added[i]
    <3> TAKE i \in 1..k
    <3>1. PICK x \in 1..n + k : x = n + i /\ ~(x <= n) /\ x - n = i
      BY <1>1
    <3>2. memory'[x] = added[x - n]
      BY <2>3, <3>1
    <3> QED
      BY <3>1, <3>2
  <2> QED
    BY <2>3, <2>5, <2>6, <2>7
<1> QED
  BY <1>1, <1>2, <1>4, <1>5, <1>7, <1>8 DEF n, k, L

-----------------------------------------------------------------------------
(* Types, and what each phase has.                                         *)

\* Folding keeps the types of the watermark and of the summary.
LEMMA FoldTypes ==
    ASSUME TypeOK, NEW start \in Starts, NEW narrated \in BOOLEAN, FoldEvicted(start, narrated)
    PROVE  /\ folded' \subseteq 1..Len(transcript) /\ mark' \in Nat
           /\ upto' \in 1..Len(memory) + 1
           /\ start \in 1..Len(memory) /\ Len(memory) \in Nat
<1>1. start \in 1..Len(memory) /\ Len(memory) \in Nat
  BY DEF Starts, TypeOK
<1>2. CASE UNCHANGED <<folded, upto, mark>>
  BY <1>1, <1>2 DEF TypeOK
<1>3. CASE Fold(start)
  <2>1. Evicted(start) \subseteq 1..Len(transcript)
    BY <1>1 DEF Evicted, TypeOK
  <2>2. upto' \in 1..Len(memory) + 1
    BY <1>1, <1>3 DEF Fold, Larger, TypeOK
  <2>3. mark' \in Nat
    <3>1. mark' = Larger(1, offset + upto' - 1)
      BY <1>3 DEF Fold
    <3>2. PICK m \in Nat : m = upto' /\ m >= 1
      BY <1>1, <2>2
    <3>3. offset \in Nat
      BY DEF TypeOK
    <3>4. mark' = IF 1 > offset + m - 1 THEN 1 ELSE offset + m - 1
      BY <3>1, <3>2 DEF Larger
    <3>5. PICK z \in Nat : z = offset
      BY <3>3
    <3>6. z + m - 1 \in Nat
      <4>1. m >= 1
        BY <3>2
      <4> QED
        BY <4>1
    <3> QED
      BY <3>4, <3>5, <3>6
  <2> QED
    BY <1>1, <1>3, <2>1, <2>2, <2>3 DEF Fold, TypeOK
<1> QED
  BY <1>2, <1>3 DEF FoldEvicted

\* Every step keeps the types.
LEMMA TypeStep ==
    ASSUME TypeOK, ToolsRun, [Next]_vars
    PROVE  TypeOK'
<1> USE ContextAssumption DEF Phase
<1>0. Extends
  BY StepExtends
<1>1. CASE UNCHANGED vars
  BY <1>1 DEF TypeOK, vars, disk, window, request
<1>2. CASE Ask
  <2>1. /\ memory' \in Seq(1..Len(transcript')) /\ upto' \in 1..Len(memory') + 1
        /\ Len(transcript') = Len(transcript) + 1 /\ Len(transcript) \in Nat
    <3> DEFINE kept == InOrder(Loaded)
    <3> DEFINE L == Len(transcript)
    <3>1. /\ kept \in Seq(1..L) /\ memory' = Append(kept, L + 1) /\ Len(transcript') = L + 1
          /\ upto' \in 1..Len(memory') + 1
      BY <1>2, AskLoads
    <3>2. L \in Nat
      BY DEF TypeOK
    <3> HIDE DEF kept, L
    <3>3. 1..L \subseteq 1..L + 1
      BY <3>2
    <3>4. kept \in Seq(1..L + 1)
      <4>1. \A i \in 1..Len(kept) : kept[i] \in 1..L
        BY <3>1, ElementOfSeq
      <4> QED
        BY <3>1, <3>3, <4>1
    <3>5. Append(kept, L + 1) \in Seq(1..L + 1)
      BY <3>2, <3>4
    <3> QED
      BY <3>1, <3>2, <3>5 DEF L
  <2>2. offset' \in 0..Len(transcript)
    BY <1>2, LoadedIsFinite DEF Ask
  <2> QED
    BY <1>0, <1>2, <2>1, <2>2 DEF Ask, TypeOK, request, Extends
<1>3. CASE Compact
  <2>1. PICK start \in Starts, narrated \in BOOLEAN : FoldEvicted(start, narrated)
    BY <1>3 DEF Compact
  <2> QED
    BY <1>3, <2>1, FoldTypes DEF Compact, TypeOK, request
<1>4. CASE Send
  <2>1. PICK start \in Starts :
          /\ FoldEvicted(start, FALSE)
          /\ prompt' = {memory[i] : i \in start..Len(memory)}
          /\ told' = IncludesSummary(start)
    BY <1>4 DEF Send
  <2>2. prompt' \subseteq 1..Len(transcript)
    <3>1. start..Len(memory) \subseteq 1..Len(memory)
      <4>1. start \in 1..Len(memory) /\ Len(memory) \in Nat
        BY <2>1, FoldTypes
      <4> QED
        BY <4>1
    <3>2. \A i \in start..Len(memory) : memory[i] \in 1..Len(transcript)
      BY <3>1, MemoryTypes
    <3> QED
      BY <2>1, <3>2
  <2>3. told' \in BOOLEAN
    BY <2>1 DEF IncludesSummary
  <2>4. round' \in 0..MaxRounds
    BY <1>4 DEF Send, TypeOK
  <2>5. /\ folded' \subseteq 1..Len(transcript) /\ mark' \in Nat /\ upto' \in 1..Len(memory) + 1
    BY <2>1, FoldTypes
  <2> QED
    BY <1>4, <2>2, <2>3, <2>4, <2>5 DEF Send, TypeOK
<1>5. CASE Grows
  <2>1. PICK records \in Seq(Record) : GrowsBy(records)
    BY <1>5 DEF Grows
  <2>2. /\ memory' \in Seq(1..Len(transcript')) /\ Len(memory) <= Len(memory')
        /\ Len(memory) \in Nat /\ Len(memory') \in Nat
    BY <2>1, GrowsMemory
  <2>3. upto' \in 1..Len(memory') + 1
    BY <2>1, <2>2 DEF GrowsBy, TypeOK
  <2> QED
    BY <1>0, <2>1, <2>2, <2>3 DEF GrowsBy, TypeOK, Extends, request
<1>6. CASE Closes
  <2>1. memory' = <<>> /\ memory' \in Seq(1..Len(transcript')) /\ Len(memory') = 0
    BY <1>6 DEF Closes, Over
  <2>2. 0..Len(transcript) \subseteq 0..Len(transcript') /\ 1..Len(transcript) \subseteq 1..Len(transcript')
    BY <1>0 DEF Extends
  <2>3. /\ floor' \in 0..Len(transcript') /\ folded' \subseteq 1..Len(transcript')
        /\ mark' \in Nat /\ 0 \in 0..Len(transcript')
    BY <1>0, <1>6, <2>2 DEF Closes, TypeOK, Extends
  <2>4. transcript' \in Seq(Record)
    BY <1>0 DEF Extends
  <2>5. upto' \in 1..Len(memory') + 1 /\ round' \in 0..MaxRounds
    BY <1>6, <2>1 DEF Closes, Over
  <2> QED
    BY <1>6, <2>1, <2>3, <2>4, <2>5 DEF Closes, Over, TypeOK
<1>7. CASE Clear
  BY <1>7 DEF Clear, TypeOK, window, request, Larger
<1>8. CASE Retry
  BY <1>8 DEF Retry, TypeOK, disk, window, request
<1> QED
  BY <1>1, <1>2, <1>3, <1>4, <1>5, <1>6, <1>7, <1>8, Kinds

\* The end of a turn, and its death, leave nothing in memory.
LEMMA RestingStep ==
    ASSUME TypeOK, ToolsRun, Resting, [Next]_vars
    PROVE  Resting'
BY Kinds DEF Resting, Ask, Compact, Send, Retry, Grows, GrowsBy, Closes, Over, Clear,
             vars, disk, window, request

\* A round's calls are appended as it goes to its tools, their results after.
LEMMA ToolsRunStep ==
    ASSUME TypeOK, ToolsRun, [Next]_vars
    PROVE  ToolsRun'
<1>1. CASE Grows
  <2>1. PICK records \in Seq(Record) : GrowsBy(records)
    BY <1>1 DEF Grows
  <2>2. /\ Extends /\ Len(transcript') = Len(transcript) + Len(records)
        /\ \A i \in 1..Len(records) : transcript'[Len(transcript) + i] = records[i]
    BY <2>1, Longer DEF GrowsBy, Appended, TypeOK
  <2>3. phase' = "tools" =>
           /\ transcript' # <<>>
           /\ transcript'[Len(transcript')] \in Calling \cup {"result"}
    <3> SUFFICES ASSUME phase' = "tools"
                 PROVE  /\ transcript' # <<>>
                        /\ transcript'[Len(transcript')] \in Calling \cup {"result"}
      OBVIOUS
    <3>1. Len(records) = 1 /\ records[1] \in Calling \cup {"result"}
      BY <2>1 DEF GrowsBy
    <3>2. transcript'[Len(transcript')] = records[1] /\ Len(transcript') # 0
      BY <2>2, <3>1 DEF Extends
    <3> QED
      BY <3>1, <3>2
  <2> QED
    BY <2>1, <2>3 DEF GrowsBy, ToolsRun
<1> QED
  BY <1>1, Kinds DEF ToolsRun, Ask, Compact, Send, Retry, Closes, Over, Clear, vars, disk

-----------------------------------------------------------------------------
(* The window of a turn.                                                   *)

\* A turn's messages are loaded in order, and each new one is the last record.
LEMMA MemoryAscendsStep ==
    ASSUME TypeOK, ToolsRun, MemoryAscends, [Next]_vars
    PROVE  MemoryAscends'
<1>0. Extends /\ Skipped \in Nat /\ (floor' = floor => Skipped <= Skipped')
  BY StepExtends
<1>1. CASE Ask
  <2> DEFINE n == Cardinality(Loaded)
  <2> DEFINE kept == InOrder(Loaded)
  <2>1. /\ n \in Nat /\ DOMAIN memory' = 1..n + 1
        /\ \A i \in 1..n : memory'[i] = kept[i] /\ memory'[i] \in Loaded
        /\ memory'[n + 1] = Len(transcript) + 1
    BY <1>1, AskLoads
  <2>2. /\ \A r \in Loaded : Skipped < r /\ r \in 1..Len(transcript)
        /\ Skipped \in 0..Len(transcript) /\ Len(transcript) \in Nat
    BY LoadedIsFinite DEF TypeOK
  <2>3. \A i, j \in 1..n : i < j => kept[i] < kept[j]
    BY LoadedIsFinite, InOrderLists
  <2>4. floor' = floor /\ offset' = Skipped /\ floor <= Skipped
    BY <1>1, ContextAssumption DEF Ask, Skipped, Larger, TypeOK
  <2>5. offset' <= Skipped' /\ floor' <= offset'
    BY <1>0, <2>4
  <2> HIDE DEF n, kept
  <2>6. ASSUME NEW i \in 1..n + 1 PROVE offset' < memory'[i]
    <3>1. i \in 1..n \/ i = n + 1
      BY <2>1
    <3> QED
      BY <2>1, <2>2, <2>4, <3>1
  <2>7. ASSUME NEW i \in 1..n + 1, NEW j \in 1..n + 1, i < j PROVE memory'[i] < memory'[j]
    <3>1. i \in 1..n /\ (j \in 1..n \/ j = n + 1)
      BY <2>1, <2>7
    <3>2. CASE j \in 1..n
      BY <2>1, <2>3, <2>7, <3>1, <3>2
    <3>3. CASE j = n + 1
      <4>1. memory'[i] \in 1..Len(transcript)
        BY <2>1, <2>2, <3>1
      <4> QED
        BY <2>1, <2>2, <3>3, <4>1
    <3> QED
      BY <3>1, <3>2, <3>3
  <2> QED
    BY <2>1, <2>5, <2>6, <2>7 DEF MemoryAscends
<1>2. CASE Grows
  <2>1. PICK records \in Seq(Record) : GrowsBy(records)
    BY <1>2 DEF Grows
  <2> DEFINE n == Len(memory)
  <2> DEFINE k == Len(records)
  <2> DEFINE L == Len(transcript)
  <2>2. /\ n \in Nat /\ k \in Nat /\ L \in Nat /\ DOMAIN memory = 1..n
        /\ DOMAIN memory' = 1..n + k
        /\ \A i \in 1..n : memory'[i] = memory[i] /\ memory[i] \in 1..L
        /\ \A i \in 1..k : memory'[n + i] = L + i
    BY <2>1, GrowsMemory
  <2>3. /\ phase # "idle" /\ floor' = floor /\ offset' = offset
        /\ offset \in 0..L /\ floor \in 0..L
    BY <2>1 DEF GrowsBy, TypeOK
  <2>4. /\ floor <= offset /\ offset <= Skipped
        /\ \A i \in 1..n : offset < memory[i]
        /\ \A i, j \in 1..n : i < j => memory[i] < memory[j]
    BY <2>2, <2>3 DEF MemoryAscends
  <2>5. floor' <= offset' /\ offset' <= Skipped'
    <3>1. Skipped <= Skipped' /\ Skipped \in Nat
      BY <1>0, <2>3
    <3>2. Skipped' \in Int
      BY <1>0, <2>3, ContextAssumption DEF Skipped, Larger, Extends
    <3> QED
      BY <2>3, <2>4, <3>1, <3>2
  <2> HIDE DEF n, k, L
  <2>6. ASSUME NEW i \in 1..n + k
        PROVE  i \in 1..n \/ (~(i <= n) /\ memory'[i] = L + (i - n) /\ i - n \in 1..k)
    <3>1. CASE i <= n
      BY <2>2, <3>1
    <3>2. CASE ~(i <= n)
      <4>1. PICK d \in 1..k : i = n + d
        <5>1. i - n \in 1..k /\ i = n + (i - n)
          BY <2>2, <3>2
        <5> QED
          BY <5>1
      <4>2. d = i - n
        BY <2>2, <4>1
      <4> QED
        BY <2>2, <3>2, <4>1, <4>2
    <3> QED
      BY <3>1, <3>2
  <2>7. ASSUME NEW i \in 1..n + k PROVE offset' < memory'[i]
    BY <2>2, <2>3, <2>4, <2>6
  <2>8. ASSUME NEW i \in 1..n + k, NEW j \in 1..n + k, i < j PROVE memory'[i] < memory'[j]
    <3>1. CASE j \in 1..n
      <4>1. i \in 1..n
        BY <2>2, <2>8, <3>1
      <4> QED
        BY <2>2, <2>4, <2>8, <3>1, <4>1
    <3>2. CASE ~(j <= n) /\ memory'[j] = L + (j - n) /\ j - n \in 1..k
      <4>1. CASE i \in 1..n
        BY <2>2, <3>2, <4>1
      <4>2. CASE ~(i <= n) /\ memory'[i] = L + (i - n)
        BY <2>2, <2>8, <3>2, <4>2
      <4> QED
        BY <2>6, <4>1, <4>2
    <3> QED
      BY <2>6, <3>1, <3>2
  <2> QED
    BY <2>2, <2>5, <2>7, <2>8 DEF MemoryAscends
<1>3. CASE Compact \/ Send \/ Retry \/ UNCHANGED vars
  <2>1. /\ UNCHANGED <<transcript, floor, offset, memory>> /\ (phase' # "idle" => phase # "idle")
    BY <1>3 DEF Compact, Send, Retry, vars, disk, window
  <2>2. Skipped' = Skipped
    BY <2>1 DEF Skipped, Larger
  <2> QED
    BY <2>1, <2>2 DEF MemoryAscends
<1>4. CASE Closes \/ Clear
  BY <1>4 DEF Closes, Over, Clear, MemoryAscends
<1> QED
  BY <1>1, <1>2, <1>3, <1>4, Kinds

\* What passed over a record goes on doing so.
LEMMA PassedStays ==
    ASSUME Extends, NEW r \in 1..Len(transcript), NEW loaded \in SUBSET (1..Len(transcript)),
           NEW more, loaded \subseteq more, Passed(r, loaded)
    PROVE  \/ r \in more \/ transcript'[r] \in Dropped
           \/ /\ transcript'[r] \in Echo
              /\ MaxRepeated > 0 => \E e \in more : e < r /\ transcript'[e] \in Echo
BY DEF Extends, Passed, SaidBefore

\* Of a repeat that is not loaded, the first is.
LEMMA FirstIsLoaded ==
    ASSUME TypeOK, NEW r \in Skipped + 1..Len(transcript), Repeated(r), MaxRepeated > 0
    PROVE  \E e \in Loaded : e < r /\ transcript[e] \in Echo
<1> DEFINE Said(n) == {e \in Skipped + 1..n - 1 : transcript[e] \in Echo}
<1>1. Len(transcript) \in Nat /\ Skipped \in 0..Len(transcript)
  BY LoadedIsFinite DEF TypeOK
<1>2. Said(r) \in SUBSET Nat /\ IsFiniteSet(Said(r))
  <2>1. IsFiniteSet(Skipped + 1..r - 1)
    BY <1>1, FS_Interval
  <2>2. Said(r) \subseteq Skipped + 1..r - 1
    OBVIOUS
  <2>3. Skipped + 1..r - 1 \subseteq Nat
    BY <1>1
  <2> QED
    BY <2>1, <2>2, <2>3, FS_Subset
<1>3. Cardinality(Said(r)) >= MaxRepeated /\ transcript[r] \in Echo
  BY DEF Repeated
<1>4. Cardinality(Said(r)) \in Nat /\ Cardinality(Said(r)) >= 1
  BY <1>2, <1>3, FS_CardinalityType, ContextAssumption
<1>5. \E m \in Said(r) : Cardinality({e \in Said(r) : e < m}) = 0
  <2> HIDE DEF Said
  <2>1. 1 \in 1..Cardinality(Said(r))
    BY <1>4
  <2>2. /\ InOrder(Said(r))[1] \in Said(r)
        /\ Cardinality({e \in Said(r) : e < InOrder(Said(r))[1]}) = 0
    BY <1>2, <2>1, InOrderLists
  <2> QED
    BY <2>2
<1>6. PICK m \in Said(r) : Cardinality({e \in Said(r) : e < m}) = 0
  BY <1>5
<1>7. m \in Skipped + 1..r - 1 /\ transcript[m] \in Echo /\ m < r /\ m <= Len(transcript)
  BY <1>1
<1>8. Said(m) = {e \in Said(r) : e < m}
  BY <1>1, <1>7
<1>9. ~Repeated(m)
  <2>1. Cardinality(Said(m)) = 0
    BY <1>6, <1>8
  <2> QED
    BY <2>1, ContextAssumption DEF Repeated
<1>10. transcript[m] \notin {"notice", "nudge", "blank"}
  BY <1>7 DEF Echo
<1>11. m \in Skipped + 1..Len(transcript)
  BY <1>1, <1>7
<1> HIDE DEF Said
<1>12. m \in Loaded
  BY <1>9, <1>10, <1>11 DEF Loaded, WithoutStale, Hydrated
<1> QED
  BY <1>7, <1>12

\* A filter passed over what a turn does not load.
LEMMA AskPasses ==
    ASSUME TypeOK, NEW r \in Skipped + 1..Len(transcript)
    PROVE  Passed(r, Loaded)
<1>1. CASE transcript[r] \in Dropped
  BY <1>1 DEF Passed
<1>2. CASE Repeated(r)
  <2>1. transcript[r] \in Echo
    BY <1>2 DEF Repeated
  <2>2. MaxRepeated > 0 => \E e \in Loaded : e < r /\ transcript[e] \in Echo
    BY <1>2, FirstIsLoaded
  <2> QED
    BY <2>1, <2>2 DEF Passed, SaidBefore
<1>3. CASE transcript[r] \notin Dropped /\ ~Repeated(r)
  BY <1>3 DEF Passed, Loaded, WithoutStale, Hydrated, Dropped
<1> QED
  BY <1>1, <1>2, <1>3

\* A turn loads all that no filter drops, and what it appends it keeps.
LEMMA WindowIsWholeStep ==
    ASSUME TypeOK, ToolsRun, WindowIsWhole, [Next]_vars
    PROVE  WindowIsWhole'
<1>0. Extends
  BY StepExtends
<1>1. CASE Ask
  <2>1. /\ offset' = Skipped /\ Len(transcript') = Len(transcript) + 1
        /\ Len(transcript) \in Nat /\ Skipped \in 0..Len(transcript)
    BY <1>1, AskLoads, LoadedIsFinite DEF Ask, TypeOK
  <2>2. /\ Loaded \subseteq ToSet(memory') /\ Len(transcript) + 1 \in ToSet(memory')
        /\ Loaded \in SUBSET (1..Len(transcript))
    <3> DEFINE n == Cardinality(Loaded)
    <3>1. /\ n \in Nat /\ DOMAIN memory' = 1..n + 1
          /\ \A i \in 1..n : memory'[i] = InOrder(Loaded)[i]
          /\ memory'[n + 1] = Len(transcript) + 1
      BY <1>1, AskLoads
    <3>2. \A r \in Loaded : \E i \in 1..n : InOrder(Loaded)[i] = r
      BY LoadedIsFinite, InOrderLists
    <3>3. Loaded \subseteq 1..Len(transcript)
      BY LoadedIsFinite
    <3> HIDE DEF n
    <3>4. \A i \in 1..n : i \in DOMAIN memory'
      BY <3>1
    <3>5. n + 1 \in DOMAIN memory'
      BY <3>1
    <3>6. \A r \in Loaded : \E i \in DOMAIN memory' : memory'[i] = r
      BY <3>1, <3>2, <3>4
    <3> QED
      BY <3>1, <3>3, <3>5, <3>6 DEF ToSet
  <2>3. ASSUME NEW r \in offset' + 1..Len(transcript') PROVE Passed(r, ToSet(memory))'
    <3>1. CASE r = Len(transcript) + 1
      BY <2>2, <3>1 DEF Passed
    <3>2. CASE r # Len(transcript) + 1
      <4>1. r \in Skipped + 1..Len(transcript) /\ r \in 1..Len(transcript)
        BY <2>1, <3>2
      <4>2. Passed(r, Loaded)
        BY <4>1, AskPasses
      <4> QED
        BY <1>0, <2>2, <4>1, <4>2, PassedStays DEF Passed, SaidBefore
    <3> QED
      BY <3>1, <3>2
  <2> QED
    BY <2>3 DEF WindowIsWhole
<1>2. CASE Grows
  <2>1. PICK records \in Seq(Record) : GrowsBy(records)
    BY <1>2 DEF Grows
  <2> DEFINE n == Len(memory)
  <2> DEFINE k == Len(records)
  <2> DEFINE L == Len(transcript)
  <2>2. /\ n \in Nat /\ k \in Nat /\ L \in Nat /\ DOMAIN memory = 1..n
        /\ DOMAIN memory' = 1..n + k /\ Len(transcript') = L + k
        /\ \A i \in 1..n : memory'[i] = memory[i] /\ memory[i] \in 1..L
        /\ \A i \in 1..k : memory'[n + i] = L + i
    BY <2>1, GrowsMemory
  <2>3. phase # "idle" /\ offset' = offset /\ offset \in 0..L
    BY <2>1 DEF GrowsBy, TypeOK
  <2> HIDE DEF n, k, L
  <2>4. ToSet(memory) \subseteq ToSet(memory') /\ ToSet(memory) \in SUBSET (1..L)
    <3>1. \A i \in 1..n : i \in 1..n + k
      BY <2>2
    <3> QED
      BY <2>2, <3>1 DEF ToSet
  <2>5. ASSUME NEW r \in offset' + 1..Len(transcript') PROVE Passed(r, ToSet(memory))'
    <3>1. CASE r > L
      <4>1. PICK d \in 1..k : r = L + d
        <5>1. r - L \in 1..k /\ r = L + (r - L)
          BY <2>2, <2>3, <3>1
        <5> QED
          BY <5>1
      <4>2. n + d \in 1..n + k
        BY <2>2
      <4>3. memory'[n + d] = r
        BY <2>2, <4>1
      <4> QED
        BY <2>2, <4>2, <4>3 DEF Passed, ToSet
    <3>2. CASE ~(r > L)
      <4>1. r \in offset + 1..L /\ r \in 1..L
        BY <2>2, <2>3, <3>2
      <4>2. Passed(r, ToSet(memory))
        BY <2>3, <4>1 DEF WindowIsWhole, L
      <4> QED
        BY <1>0, <2>4, <4>1, <4>2, PassedStays DEF Passed, SaidBefore, L
    <3> QED
      BY <3>1, <3>2
  <2> QED
    BY <2>5 DEF WindowIsWhole
<1>3. CASE Compact \/ Send \/ Retry \/ UNCHANGED vars
  <2>1. UNCHANGED <<transcript, offset, memory>> /\ (phase' # "idle" => phase # "idle")
    BY <1>3 DEF Compact, Send, Retry, vars, disk, window
  <2> QED
    BY <2>1 DEF WindowIsWhole, Passed, SaidBefore
<1>4. CASE Closes \/ Clear
  BY <1>4 DEF Closes, Over, Clear, WindowIsWhole
<1> QED
  BY <1>1, <1>2, <1>3, <1>4, Kinds

-----------------------------------------------------------------------------
(* The watermark.                                                          *)

\* What excuses a record goes on doing so while the summary grows.
LEMMA ExcusedStays ==
    ASSUME TypeOK, Extends, folded \subseteq folded', NEW r \in 1..Len(transcript), Excused(r)
    PROVE  \/ r \in folded'
           \/ \E d \in folded' :
                 d < r /\ transcript'[d] \in {"nudge", "blank", "notice"} \cup Echo
<1>1. folded \subseteq 1..Len(transcript)
  BY DEF TypeOK
<1>2. CASE r \in folded
  BY <1>2
<1>3. ASSUME NEW d \in folded, d < r, SetAside(d)
      PROVE  d \in folded' /\ transcript'[d] \in {"nudge", "blank", "notice"} \cup Echo
  BY <1>1, <1>3 DEF Extends, SetAside
<1> QED
  BY <1>2, <1>3 DEF Excused

\* The translated watermark reaches no further than the saved one.
LEMMA RestoredBound ==
    ASSUME TypeOK
    PROVE  /\ Restored \in Int
           /\ folded = {} => Restored = 1
           /\ Restored = 1 \/ Restored <= 1 + (mark - Skipped)
BY LoadedIsFinite DEF Restored, Larger, Smaller, TypeOK

\* A request that slips below the watermark slips past something folded that
\* is not loaded any more: else the records that were counted are before it
\* today, as many as the watermark says.
LEMMA AskBelow ==
    ASSUME TypeOK, WatermarkCounts, Ask, NEW i \in 1..upto' - 1
    PROVE  memory'[i] \in Loaded /\ Excused(memory'[i])
<1> DEFINE n == Cardinality(Loaded)
<1>1. /\ n \in Nat /\ upto' \in 1..n + 1 /\ upto' <= Restored
      /\ \A j \in 1..n : memory'[j] = InOrder(Loaded)[j] /\ memory'[j] \in Loaded
  BY AskLoads
<1>2. i \in 1..n /\ i + 1 <= Restored /\ Restored # 1
  <2> HIDE DEF n
  <2>1. PICK u \in 1..n + 1 : u = upto'
    BY <1>1
  <2>2. PICK z \in Int : z = Restored
    BY RestoredBound
  <2>3. i \in 1..u - 1 /\ u <= z /\ n \in Nat
    BY <1>1, <2>1, <2>2
  <2>4. i \in 1..n /\ i + 1 <= z /\ z # 1
    BY <2>3
  <2> QED
    BY <2>2, <2>4
<1>3. PICK r \in Loaded : r = memory'[i]
  BY <1>1, <1>2
<1>4. Cardinality({e \in Loaded : e < r}) = i - 1
  <2>1. r = InOrder(Loaded)[i]
    BY <1>1, <1>2, <1>3
  <2>2. Cardinality({e \in Loaded : e < InOrder(Loaded)[i]}) = i - 1
    BY <1>2, LoadedIsFinite, InOrderLists
  <2> QED
    BY <2>1, <2>2
<1>5. /\ Loaded \in SUBSET Nat /\ IsFiniteSet(Loaded) /\ Loaded \subseteq 1..Len(transcript)
      /\ Skipped \in Nat /\ Skipped < r /\ r \in Nat /\ i \in Nat /\ Len(transcript) \in Nat
  BY <1>2, LoadedIsFinite DEF TypeOK
<1>6. SUFFICES ASSUME ~Excused(r) PROVE FALSE
  BY <1>3
<1>7. PICK o \in 0..Skipped, Q \in SUBSET (1..Len(transcript)) : Counts(o, Q)
  BY <1>2, RestoredBound DEF WatermarkCounts
<1>8. o \in Nat /\ o <= Skipped /\ \A q \in Q : q \in Nat /\ q <= Len(transcript)
  BY <1>5, <1>7
<1>9. ASSUME NEW q \in Q PROVE q < r
  <2> SUFFICES ASSUME r <= q PROVE FALSE
    BY <1>5, <1>8
  <2>1. r \in o + 1..q
    BY <1>5, <1>8
  <2>2. Passed(r, Q)
    BY <1>7, <2>1 DEF Counts
  <2>3. CASE r \in Q
    BY <1>6, <1>7, <2>3 DEF Counts
  <2>4. transcript[r] \notin Dropped /\ ~Repeated(r)
    BY DEF Loaded, WithoutStale, Hydrated, Dropped
  <2>5. CASE SaidBefore(r, Q)
    <3>1. MaxRepeated # 0
      <4>1. SUFFICES ASSUME MaxRepeated = 0 PROVE Repeated(r)
        BY <2>4
      <4>2. IsFiniteSet({e \in Skipped + 1..r - 1 : transcript[e] \in Echo})
        <5>1. IsFiniteSet(Skipped + 1..r - 1)
          BY <1>5, FS_Interval
        <5> QED
          BY <5>1, FS_Subset
      <4>3. Cardinality({e \in Skipped + 1..r - 1 : transcript[e] \in Echo}) \in Nat
        BY <4>2, FS_CardinalityType
      <4> QED
        BY <2>5, <4>1, <4>3 DEF Repeated, SaidBefore
    <3>2. PICK e \in Q : e < r /\ transcript[e] \in Echo
      BY <2>5, <3>1, ContextAssumption DEF SaidBefore
    <3>3. Excused(e)
      BY <1>7 DEF Counts
    <3>4. CASE e \in folded
      BY <1>6, <3>2, <3>4 DEF Excused, SetAside
    <3>5. ASSUME NEW d \in folded, d < e, SetAside(d) PROVE FALSE
      <4>1. d < r
        BY <1>5, <1>8, <3>2, <3>5 DEF TypeOK
      <4> QED
        BY <1>6, <3>5, <4>1 DEF Excused
    <3> QED
      BY <3>3, <3>4, <3>5 DEF Excused
  <2> QED
    BY <2>2, <2>3, <2>4, <2>5 DEF Passed
<1>10. ASSUME NEW q \in Q, q > Skipped PROVE q \in Loaded
  <2>1. Excused(q) /\ q < r
    BY <1>7, <1>9 DEF Counts
  <2>2. q \in folded
    <3>1. ASSUME NEW d \in folded, d < q, SetAside(d) PROVE FALSE
      <4>1. d < r
        BY <1>5, <1>8, <2>1, <3>1 DEF TypeOK
      <4> QED
        BY <1>6, <3>1, <4>1 DEF Excused
    <3> QED
      BY <2>1, <3>1 DEF Excused
  <2>3. ~SetAside(q)
    BY <1>6, <2>1, <2>2 DEF Excused
  <2>4. q \in Skipped + 1..Len(transcript)
    BY <1>5, <1>8, <1>10
  <2> QED
    BY <2>3, <2>4 DEF SetAside, Loaded, WithoutStale, Hydrated, Repeated
<1> DEFINE Below == {e \in Loaded : e < r}
<1>11. Q \subseteq (o + 1..Skipped) \cup Below
  <2>1. ASSUME NEW q \in Q PROVE q \in (o + 1..Skipped) \cup Below
    <3>1. o < q /\ q < r
      BY <1>7, <1>9 DEF Counts
    <3>2. CASE q > Skipped
      BY <1>10, <3>1, <3>2
    <3>3. CASE ~(q > Skipped)
      BY <1>5, <1>8, <3>1, <3>3
    <3> QED
      BY <3>2, <3>3
  <2> QED
    BY <2>1
<1>12. IsFiniteSet(o + 1..Skipped) /\ Cardinality(o + 1..Skipped) = Skipped - o
  <2>1. o + 1 \in Int /\ Skipped \in Int
    BY <1>5, <1>8
  <2>2. /\ IsFiniteSet(o + 1..Skipped)
        /\ Cardinality(o + 1..Skipped) = IF o + 1 > Skipped THEN 0 ELSE Skipped - (o + 1) + 1
    BY <2>1, FS_Interval
  <2> QED
    BY <1>5, <1>8, <2>2
<1>13. IsFiniteSet(Below) /\ Cardinality(Below) = i - 1
  BY <1>4, <1>5, FS_Subset
<1> HIDE DEF Below
<1>14. Cardinality(Q) <= (Skipped - o) + (i - 1) /\ Cardinality(Q) \in Nat
  <2> DEFINE A == o + 1..Skipped
  <2>1. /\ IsFiniteSet(A \cup Below)
        /\ Cardinality(A \cup Below) = Cardinality(A) + Cardinality(Below) - Cardinality(A \cap Below)
    BY <1>12, <1>13, FS_Union
  <2>2. Cardinality(A \cap Below) \in Nat
    BY <1>12, FS_Intersection, FS_CardinalityType
  <2>3. /\ IsFiniteSet(Q) /\ Cardinality(Q) <= Cardinality(A \cup Below)
        /\ Cardinality(Q) \in Nat
    <3>1. Q \in SUBSET (A \cup Below)
      BY <1>11
    <3> HIDE DEF A
    <3> QED
      BY <2>1, <3>1, FS_Subset, FS_CardinalityType
  <2>4. Cardinality(A) = Skipped - o
    BY <1>12
  <2> HIDE DEF A
  <2> QED
    BY <1>5, <1>8, <1>13, <2>1, <2>2, <2>3, <2>4
<1>15. mark = o + Cardinality(Q)
  BY <1>7 DEF Counts
<1>16. Restored <= 1 + (mark - Skipped) /\ Restored \in Int
  BY <1>2, RestoredBound
<1> QED
  BY <1>2, <1>5, <1>8, <1>14, <1>15, <1>16

\* Every step but /clear keeps the summary or adds to it; only a fold moves the
\* saved watermark.
LEMMA SummaryGrows ==
    ASSUME TypeOK, ToolsRun, [Next]_vars
    PROVE  \/ Clear
           \/ /\ phase # "idle" /\ phase' # "idle" /\ UNCHANGED <<transcript, floor, memory, offset>>
              /\ \E start \in Starts : Evicted(start) # {} /\ Fold(start)
           \/ UNCHANGED <<folded, mark, floor>>
BY Kinds DEF Ask, Compact, Send, FoldEvicted, Retry, Grows, GrowsBy, Closes, vars, disk

\* What a fold counts: the messages from the first to the last it folded.
LEMMA FoldFacts ==
    ASSUME TypeOK, NEW start \in Starts, Evicted(start) # {}, Fold(start)
    PROVE  /\ upto' \in 2..Len(memory) + 1 /\ mark' = offset + (upto' - 1)
           /\ \A i \in 1..upto' - 1 : i \in 1..upto - 1 \/ memory[i] \in folded'
           /\ folded \subseteq folded' /\ upto <= upto'
<1>1. /\ start \in 1..Len(memory) /\ Len(memory) \in Nat
      /\ upto \in 1..Len(memory) + 1 /\ offset \in Nat
  BY DEF Starts, TypeOK
<1>2. upto < start
  BY <1>1 DEF Evicted
<1>3. upto' = start
  BY <1>1, <1>2 DEF Fold, Larger
<1>4. mark' = offset + (upto' - 1)
  <2>1. mark' = Larger(1, offset + start - 1)
    BY <1>3 DEF Fold
  <2>2. mark' = offset + (start - 1)
    BY <1>1, <1>2, <2>1 DEF Larger
  <2> QED
    BY <1>3, <2>2
<1>5. \A i \in 1..start - 1 : i \in 1..upto - 1 \/ memory[i] \in folded'
  BY <1>1, <1>2 DEF Fold, Evicted
<1>6. start \in 2..Len(memory) + 1 /\ upto <= start
  BY <1>1, <1>2
<1> QED
  BY <1>3, <1>4, <1>5, <1>6 DEF Fold

\* What goes below the watermark is folded, or slips past something that is.
LEMMA BelowIsFoldedStep ==
    ASSUME TypeOK, ToolsRun, Resting, WatermarkCounts, BelowIsFolded, [Next]_vars
    PROVE  BelowIsFolded'
<1>0. Extends
  BY StepExtends
<1> USE DEF Excused, SetAside
<1>1. CASE Ask
  <2>1. folded' = folded
    BY <1>1 DEF Ask
  <2>2. \A i \in 1..upto' - 1 : memory'[i] \in 1..Len(transcript) /\ Excused(memory'[i])
    BY <1>1, AskBelow, LoadedIsFinite
  <2>3. ASSUME NEW i \in 1..upto' - 1 PROVE Excused(memory[i])'
    <3>1. PICK r \in 1..Len(transcript) : r = memory'[i] /\ Excused(r)
      BY <2>2
    <3>2. \/ r \in folded'
          \/ \E d \in folded' :
                d < r /\ transcript'[d] \in {"nudge", "blank", "notice"} \cup Echo
      BY <1>0, <2>1, <3>1, ExcusedStays
    <3> QED
      BY <3>1, <3>2
  <2> QED
    BY <2>3 DEF BelowIsFolded
<1>2. CASE (Compact \/ Send) /\ \E start \in Starts : Evicted(start) # {} /\ Fold(start)
  <2>1. PICK start \in Starts : Evicted(start) # {} /\ Fold(start)
    BY <1>2
  <2>2. UNCHANGED <<transcript, memory>>
    BY <1>2 DEF Compact, Send
  <2>3. /\ upto' \in 2..Len(memory) + 1
        /\ \A i \in 1..upto' - 1 : i \in 1..upto - 1 \/ memory[i] \in folded'
        /\ folded \subseteq folded'
    BY <2>1, FoldFacts
  <2> QED
    BY <2>2, <2>3 DEF BelowIsFolded
<1>3. CASE (Compact \/ Send) /\ UNCHANGED <<folded, upto, mark>>
  <2>1. UNCHANGED <<transcript, memory, folded, upto>>
    BY <1>3 DEF Compact, Send
  <2> QED
    BY <2>1 DEF BelowIsFolded
<1>4. CASE Grows
  <2>1. PICK records \in Seq(Record) : GrowsBy(records)
    BY <1>4 DEF Grows
  <2>2. UNCHANGED <<folded, upto>>
    BY <2>1 DEF GrowsBy
  <2>3. \A i \in 1..Len(memory) : memory'[i] = memory[i] /\ memory[i] \in 1..Len(transcript)
    BY <2>1, GrowsMemory
  <2>4. 1..upto - 1 \subseteq 1..Len(memory)
    BY MemoryTypes DEF TypeOK
  <2>5. ASSUME NEW i \in 1..upto' - 1 PROVE Excused(memory[i])'
    <3>1. PICK r \in 1..Len(transcript) : r = memory'[i] /\ r = memory[i]
      BY <2>2, <2>3, <2>4
    <3>2. Excused(r)
      BY <2>2, <3>1 DEF BelowIsFolded
    <3>3. \/ r \in folded'
          \/ \E d \in folded' :
                d < r /\ transcript'[d] \in {"nudge", "blank", "notice"} \cup Echo
      BY <1>0, <2>2, <3>2, ExcusedStays
    <3> QED
      BY <3>1, <3>3
  <2> QED
    BY <2>5 DEF BelowIsFolded
<1>5. CASE Closes \/ Clear
  <2>1. upto' = 1
    BY <1>5 DEF Closes, Over, Clear, Resting, window
  <2> QED
    BY <2>1 DEF BelowIsFolded
<1>6. CASE Retry \/ UNCHANGED vars
  <2>1. UNCHANGED <<transcript, memory, folded, upto>>
    BY <1>6 DEF Retry, vars, disk, window
  <2> QED
    BY <2>1 DEF BelowIsFolded
<1> QED
  BY <1>1, <1>2, <1>3, <1>4, <1>5, <1>6, Kinds DEF Compact, Send, FoldEvicted

\* The beginning of the messages has as many records as messages.
LEMMA Beginning ==
    ASSUME TypeOK, MemoryAscends, phase # "idle", NEW k \in 0..Len(memory)
    PROVE  Cardinality({memory[i] : i \in 1..k}) = k
<1> DEFINE P == {memory[i] : i \in 1..k}
<1> DEFINE f == [i \in 1..k |-> memory[i]]
<1>1. k \in Nat /\ DOMAIN memory = 1..Len(memory) /\ Len(memory) \in Nat
  BY MemoryTypes
<1>2. IsFiniteSet(1..k) /\ Cardinality(1..k) = k
  BY <1>1, FS_Interval
<1>3. \A i, j \in 1..k : i # j => memory[i] # memory[j]
  <2> TAKE i, j \in 1..k
  <2>1. i \in DOMAIN memory /\ j \in DOMAIN memory
    BY <1>1
  <2>2. memory[i] \in Nat /\ memory[j] \in Nat
    BY <1>1, <2>1, MemoryTypes
  <2>3. (i < j => memory[i] < memory[j]) /\ (j < i => memory[j] < memory[i])
    BY <2>1 DEF MemoryAscends
  <2> QED
    BY <2>2, <2>3
<1>4. f \in Bijection(1..k, P)
  BY <1>3 DEF Bijection, Injection, IsInjective, Surjection
<1> QED
  BY <1>2, <1>4, FS_Bijection DEF ExistsBijection

\* A fold counts the beginning of the messages; later steps only append.
LEMMA WatermarkStep ==
    ASSUME TypeOK, ToolsRun, MemoryAscends, WindowIsWhole, WatermarkCounts, [Next]_vars,
           BelowIsFolded'
    PROVE  WatermarkCounts'
<1>0. Extends /\ Skipped \in Nat
  BY StepExtends
<1>1. CASE Clear
  BY <1>1 DEF Clear, WatermarkCounts
<1>2. CASE /\ phase # "idle" /\ UNCHANGED <<transcript, floor, memory, offset>>
           /\ \E start \in Starts : Evicted(start) # {} /\ Fold(start)
  <2>1. PICK start \in Starts : Evicted(start) # {} /\ Fold(start)
    BY <1>2
  <2>2. PICK u \in 2..Len(memory) + 1 : u = upto'
    BY <2>1, FoldFacts
  <2>3. mark' = offset + (u - 1)
    BY <2>1, <2>2, FoldFacts
  <2>4. /\ Len(memory) \in Nat /\ DOMAIN memory = 1..Len(memory) /\ Len(transcript) \in Nat
        /\ \A i \in 1..Len(memory) : memory[i] \in 1..Len(transcript)
    BY MemoryTypes
  <2>5. u - 1 \in 0..Len(memory) /\ u - 1 \in Nat /\ 1..u - 1 \subseteq 1..Len(memory)
    BY <2>4
  <2>6. /\ offset \in 0..Skipped /\ Skipped' = Skipped
        /\ \A i \in DOMAIN memory : offset < memory[i]
        /\ \A i, j \in DOMAIN memory : i < j => memory[i] < memory[j]
    BY <1>0, <1>2 DEF MemoryAscends, TypeOK, Skipped, Larger
  <2>7. PICK Q \in SUBSET (1..Len(transcript)) : Q = {memory[i] : i \in 1..u - 1}
    BY <2>4, <2>5
  <2>8. PICK z \in 0..Skipped : z = offset
    BY <2>6
  <2>9. Cardinality(Q) = u - 1
    BY <1>2, <2>5, <2>7, Beginning
  <2>10. ASSUME NEW q \in Q PROVE z < q /\ Excused(q)'
    <3>1. PICK i \in 1..u - 1 : q = memory[i]
      BY <2>7
    <3>2. Excused(memory[i])' /\ memory' = memory
      BY <1>2, <2>2 DEF BelowIsFolded
    <3> QED
      BY <2>4, <2>5, <2>6, <2>8, <3>1, <3>2 DEF Excused, SetAside
  <2>11. ASSUME NEW q \in Q, NEW r \in z + 1..q PROVE Passed(r, Q)
    <3>1. PICK i \in 1..u - 1 : q = memory[i]
      BY <2>7
    <3>2. q \in 1..Len(transcript) /\ r \in z + 1..Len(transcript) /\ r <= q /\ r \in Nat
      BY <1>0, <2>4, <2>8
    <3>3. Passed(r, ToSet(memory))
      BY <1>2, <2>8, <3>2 DEF WindowIsWhole
    <3>4. ASSUME NEW e \in ToSet(memory), e <= q PROVE e \in Q
      <4>1. PICK j \in DOMAIN memory : memory[j] = e
        BY DEF ToSet
      <4>2. i \in DOMAIN memory /\ e \in Nat /\ q \in Nat
        BY <2>4, <2>5, <3>2, <4>1
      <4>3. ~(i < j)
        BY <2>6, <3>1, <3>4, <4>1, <4>2
      <4>4. j \in 1..u - 1
        BY <2>4, <2>5, <4>1, <4>2, <4>3
      <4> QED
        BY <2>7, <4>1, <4>4
    <3>5. CASE r \in ToSet(memory)
      BY <3>2, <3>4, <3>5 DEF Passed
    <3>6. CASE SaidBefore(r, ToSet(memory))
      <4>1. ASSUME NEW e \in ToSet(memory), e < r PROVE e \in Q
        <5>1. e \in Nat
          BY <2>4 DEF ToSet
        <5> QED
          BY <3>2, <3>4, <4>1, <5>1
      <4> QED
        BY <3>6, <4>1 DEF Passed, SaidBefore
    <3> QED
      BY <3>3, <3>5, <3>6 DEF Passed
  <2>12. Counts(z, Q)'
    <3>1. \A q \in Q : \A r \in z + 1..q : Passed(r, Q)'
      BY <1>2, <2>11 DEF Passed, SaidBefore
    <3>2. mark' = z + Cardinality(Q)
      BY <2>3, <2>8, <2>9
    <3> QED
      BY <2>10, <3>1, <3>2 DEF Counts
  <2>13. z \in 0..Skipped' /\ Q \in SUBSET (1..Len(transcript'))
    BY <1>2, <2>6, <2>8
  <2> QED
    BY <2>12, <2>13 DEF WatermarkCounts
<1>3. CASE UNCHANGED <<folded, mark, floor>>
  <2> SUFFICES ASSUME folded' # {} PROVE WatermarkCounts'
    BY DEF WatermarkCounts
  <2>1. PICK o \in 0..Skipped, Q \in SUBSET (1..Len(transcript)) : Counts(o, Q)
    BY <1>3 DEF WatermarkCounts
  <2>2. Skipped <= Skipped' /\ Skipped' \in Int
    BY <1>0, <1>3, StepExtends, ContextAssumption DEF Skipped, Larger, Extends, TypeOK
  <2>3. o \in 0..Skipped' /\ o \in Nat
    BY <1>0, <2>2
  <2>4. Q \in SUBSET (1..Len(transcript'))
    BY <1>0 DEF Extends
  <2>5. ASSUME NEW q \in Q PROVE o < q /\ Excused(q)'
    BY <1>0, <1>3, <2>1, ExcusedStays DEF Counts, Excused, SetAside
  <2>6. ASSUME NEW q \in Q, NEW r \in o + 1..q PROVE Passed(r, Q)'
    <3>1. r \in 1..Len(transcript)
      BY <1>0, <2>1, <2>3 DEF Extends
    <3>2. Passed(r, Q)
      BY <2>1 DEF Counts
    <3> QED
      BY <1>0, <3>1, <3>2, PassedStays DEF Passed, SaidBefore
  <2>7. Counts(o, Q)'
    BY <1>3, <2>1, <2>5, <2>6 DEF Counts
  <2> QED
    BY <2>3, <2>4, <2>7 DEF WatermarkCounts
<1> QED
  BY <1>1, <1>2, <1>3, SummaryGrows

-----------------------------------------------------------------------------
(* Calls and their results.                                                *)

\* A result is appended while tools run, behind a call or a result of it;
\* nothing is put between them later.
LEMMA ResultsFollowCallsStep ==
    ASSUME TypeOK, ToolsRun, ResultsFollowCalls, [Next]_vars
    PROVE  ResultsFollowCalls'
<1>0. Extends
  BY StepExtends
<1>1. ASSUME NEW r \in 1..Len(transcript), transcript'[r] = "result"
      PROVE  FollowsACall(r)'
  <2>1. transcript[r] = "result" /\ r \in Nat /\ r <= Len(transcript)
    BY <1>0, <1>1 DEF Extends
  <2>2. PICK c \in 1..r :
           /\ transcript[c] \in Calling
           /\ \A between \in c + 1..r : transcript[between] = "result"
    BY <2>1 DEF ResultsFollowCalls, FollowsACall
  <2>3. \A x \in c..r : transcript'[x] = transcript[x]
    BY <1>0, <2>1 DEF Extends
  <2>4. c \in c..r /\ \A x \in c + 1..r : x \in c..r
    BY <2>1
  <2> QED
    BY <2>2, <2>3, <2>4 DEF FollowsACall
<1>2. CASE transcript' = transcript
  BY <1>1, <1>2 DEF ResultsFollowCalls
<1>3. ASSUME NEW records \in Seq(Record), transcript' = transcript \o records,
             \A i \in DOMAIN records : records[i] # "result"
      PROVE  ResultsFollowCalls'
  <2>1. /\ Len(transcript') = Len(transcript) + Len(records)
        /\ DOMAIN records = 1..Len(records) /\ Len(records) \in Nat
        /\ \A i \in 1..Len(records) : transcript'[Len(transcript) + i] = records[i]
    BY <1>3, Longer DEF TypeOK
  <2>2. ASSUME NEW r \in 1..Len(transcript'), transcript'[r] = "result"
        PROVE  r \in 1..Len(transcript)
    <3> SUFFICES ASSUME r > Len(transcript) PROVE FALSE
      BY <1>0, <2>1 DEF Extends
    <3>1. PICK d \in 1..Len(records) : r = Len(transcript) + d
      <4>1. r - Len(transcript) \in 1..Len(records) /\ r = Len(transcript) + (r - Len(transcript))
        BY <1>0, <2>1 DEF Extends
      <4> QED
        BY <4>1
    <3> QED
      BY <1>3, <2>1, <2>2, <3>1
  <2> QED
    BY <1>1, <2>2 DEF ResultsFollowCalls
<1>4. CASE phase = "tools" /\ transcript' = transcript \o <<"result">>
  <2> DEFINE L == Len(transcript)
  <2>1. L \in Nat /\ L >= 1 /\ transcript[L] \in Calling \cup {"result"}
    BY <1>4 DEF ToolsRun, TypeOK
  <2>2. Len(transcript') = L + 1 /\ transcript'[L + 1] = "result"
    BY <1>4 DEF TypeOK
  <2>3. PICK c \in 1..L :
           /\ transcript[c] \in Calling
           /\ \A between \in c + 1..L : transcript[between] = "result"
    <3>1. CASE transcript[L] \in Calling
      <4>1. L \in 1..L /\ \A x \in L + 1..L : FALSE
        BY <2>1
      <4> QED
        BY <3>1, <4>1
    <3>2. CASE transcript[L] = "result"
      BY <2>1, <3>2 DEF ResultsFollowCalls, FollowsACall
    <3> QED
      BY <2>1, <3>1, <3>2
  <2>4. \A x \in 1..L : transcript'[x] = transcript[x]
    BY <1>0 DEF Extends
  <2> HIDE DEF L
  <2>5. \A x \in c + 1..L + 1 : transcript'[x] = "result"
    <3> TAKE x \in c + 1..L + 1
    <3>1. CASE x = L + 1
      BY <2>2, <3>1
    <3>2. CASE x # L + 1
      <4>1. x \in c + 1..L /\ x \in 1..L
        BY <2>1, <3>2
      <4> QED
        BY <2>3, <2>4, <4>1
    <3> QED
      BY <3>1, <3>2
  <2>6. c \in 1..L + 1 /\ transcript'[c] \in Calling
    BY <2>1, <2>3, <2>4
  <2>7. ASSUME NEW r \in 1..Len(transcript'), transcript'[r] = "result" PROVE FollowsACall(r)'
    <3>1. CASE r = L + 1
      BY <2>5, <2>6, <3>1 DEF FollowsACall
    <3>2. CASE r # L + 1
      <4>1. r \in 1..Len(transcript)
        <5>1. r \in 1..L
          BY <2>1, <2>2, <3>2
        <5> QED
          BY <5>1 DEF L
      <4> QED
        BY <1>1, <2>7, <4>1
    <3> QED
      BY <3>1, <3>2
  <2> QED
    BY <2>7 DEF ResultsFollowCalls
<1>5. CASE Ask
  <2>1. transcript' = transcript \o <<"person">> /\ <<"person">> \in Seq(Record)
    BY <1>5 DEF Ask, TypeOK, Record, UserRole
  <2>2. \A i \in DOMAIN <<"person">> : <<"person">>[i] # "result"
    OBVIOUS
  <2> QED
    BY <1>3, <2>1, <2>2
<1>6. CASE Grows
  BY <1>3, <1>4, <1>6 DEF Grows, GrowsBy, Appended
<1>7. CASE Closes
  BY <1>3, <1>7 DEF Closes
<1> QED
  BY <1>2, <1>5, <1>6, <1>7, Kinds DEF Compact, Send, Retry, Clear, vars, disk

-----------------------------------------------------------------------------
(* The properties.                                                         *)

\* What a request to the model is made of.
LEMMA SendFacts ==
    ASSUME TypeOK, Send
    PROVE  \E start \in Starts :
              /\ FoldEvicted(start, FALSE)
              /\ prompt' = {memory[i] : i \in start..Len(memory)}
              /\ told' = IncludesSummary(start)
              /\ start \in 1..Len(memory)
              /\ phase = "round" /\ UNCHANGED <<transcript, floor, memory, offset>>
BY FoldTypes DEF Send

\* A request of a person that is not sent is below the watermark, or too far
\* back: a selection that leaves it behind folds it, as it leaves a trace.
LEMMA ForgottenForAReasonStep ==
    ASSUME TypeOK, ToolsRun, WindowIsWhole, ForgottenForAReason, [Next]_vars, BelowIsFolded'
    PROVE  ForgottenForAReason'
<1>1. CASE UNCHANGED vars
  BY <1>1 DEF vars, disk, window, request, ForgottenForAReason, Forgotten, SetAside
<1>2. CASE Send
  <2>1. PICK start \in Starts :
           /\ FoldEvicted(start, FALSE)
           /\ prompt' = {memory[i] : i \in start..Len(memory)}
           /\ start \in 1..Len(memory)
           /\ phase = "round" /\ UNCHANGED <<transcript, floor, memory, offset>>
    BY <1>2, SendFacts
  <2>2. /\ Len(memory) \in Nat /\ DOMAIN memory = 1..Len(memory)
        /\ upto \in 1..Len(memory) + 1 /\ offset \in Nat /\ floor \in Nat
        /\ Len(transcript) \in Nat
    BY MemoryTypes DEF TypeOK
  <2> SUFFICES ASSUME NEW r \in Forgotten', r > offset
               PROVE  \E d \in folded' : d < r /\ SetAside(d)'
    <3>1. Forgotten' \subseteq Nat /\ offset' = offset
      BY <2>1, <2>2 DEF Forgotten
    <3> QED
      BY <2>2, <3>1 DEF ForgottenForAReason
  <2>3. /\ r \in offset + 1..Len(transcript) /\ transcript[r] = "person"
        /\ r \notin prompt' /\ r \notin folded'
    BY <2>1, <2>2 DEF Forgotten
  <2>4. r \in ToSet(memory)
    BY <2>1, <2>3 DEF WindowIsWhole, Passed, SaidBefore, Dropped, Echo
  <2>5. PICK i \in 1..Len(memory) : memory[i] = r
    BY <2>2, <2>4 DEF ToSet
  <2>6. i < start
    <3> SUFFICES ASSUME i \in start..Len(memory) PROVE FALSE
      BY <2>1, <2>2, <2>5
    <3> QED
      BY <2>1, <2>3, <2>5
  <2>7. PICK u \in Nat : u = upto' /\ i \in 1..u - 1
    <3>1. CASE Fold(start)
      <4>1. PICK u \in Nat : u = upto' /\ u >= start
        BY <2>1, <2>2, <3>1 DEF Fold, Larger
      <4>2. i \in Nat /\ i >= 1 /\ start \in Nat
        BY <2>1, <2>2, <2>5
      <4>3. u \in Nat /\ i < u
        <5>1. u >= start /\ u \in Nat
          BY <4>1
        <5> QED
          BY <2>6, <4>2, <5>1
      <4>4. i \in 1..u - 1
        BY <4>2, <4>3
      <4> QED
        BY <4>1, <4>4
    <3>2. CASE UNCHANGED <<folded, upto, mark>> /\ ~Digested(Evicted(start))
      <4>1. r \notin Evicted(start)
        BY <2>3, <3>2 DEF Digested
      <4>2. i \notin upto..start - 1
        BY <2>5, <4>1 DEF Evicted
      <4>3. i \in 1..upto - 1 /\ upto \in Nat
        BY <2>1, <2>2, <2>6, <4>2
      <4> QED
        BY <3>2, <4>3
    <3>3. CASE UNCHANGED <<folded, upto, mark>> /\ Evicted(start) = {}
      <4>1. i \notin upto..start - 1
        BY <3>3 DEF Evicted
      <4>2. i \in 1..upto - 1 /\ upto \in Nat
        BY <2>1, <2>2, <2>6, <4>1
      <4> QED
        BY <3>3, <4>2
    <3> QED
      BY <2>1, <3>1, <3>2, <3>3 DEF FoldEvicted
  <2>8. Excused(memory[i])'
    BY <2>7 DEF BelowIsFolded
  <2>9. memory'[i] = r
    BY <2>1, <2>5
  <2> QED
    BY <2>3, <2>8, <2>9 DEF Excused
<1>3. CASE ~UNCHANGED vars /\ ~Send
  <2>1. phase' # "sent"
    BY <1>3, Kinds DEF Ask, Compact, Retry, Grows, GrowsBy, Closes, Over, Clear
  <2> QED
    BY <2>1 DEF ForgottenForAReason
<1> QED
  BY <1>1, <1>2, <1>3

\* A selection begins at a message in the user role, which is not between a
\* call and its results: the call is behind it, and sent with them.
LEMMA ResultsKeepTheirCallsStep ==
    ASSUME TypeOK, ToolsRun, MemoryAscends, WindowIsWhole, ResultsFollowCalls,
           ResultsKeepTheirCalls, [Next]_vars
    PROVE  ResultsKeepTheirCalls'
<1>0. Extends
  BY StepExtends
<1>1. CASE prompt' \subseteq prompt /\ (prompt' # {} => prompt' = prompt)
  <2> SUFFICES ASSUME NEW r \in prompt', transcript'[r] = "result"
               PROVE  \E c \in 1..r :
                         /\ transcript'[c] \in Calling
                         /\ \A between \in c + 1..r : transcript'[between] = "result"
                         /\ c \in prompt' \/ transcript'[c] = "echocall"
    BY DEF ResultsKeepTheirCalls
  <2>1. prompt' = prompt /\ r \in 1..Len(transcript) /\ transcript[r] = "result"
    BY <1>0, <1>1 DEF Extends, TypeOK
  <2>2. PICK c \in 1..r :
           /\ transcript[c] \in Calling
           /\ \A between \in c + 1..r : transcript[between] = "result"
           /\ c \in prompt \/ transcript[c] = "echocall"
    BY <2>1 DEF ResultsKeepTheirCalls
  <2>3. \A x \in 1..r : transcript'[x] = transcript[x]
    BY <1>0, <2>1 DEF Extends
  <2>4. \A x \in c + 1..r : x \in 1..r
    BY <1>0, <2>1
  <2> QED
    BY <2>1, <2>2, <2>3, <2>4
<1>2. CASE Send
  <2>1. PICK start \in Starts :
           /\ prompt' = {memory[i] : i \in start..Len(memory)}
           /\ start \in 1..Len(memory)
           /\ phase = "round" /\ UNCHANGED <<transcript, floor, memory, offset>>
    BY <1>2, SendFacts
  <2>2. /\ Len(memory) \in Nat /\ DOMAIN memory = 1..Len(memory)
        /\ \A i \in 1..Len(memory) : memory[i] \in 1..Len(transcript)
        /\ offset \in Nat /\ Len(transcript) \in Nat
    BY MemoryTypes DEF TypeOK
  <2>3. /\ \A i \in 1..Len(memory) : offset < memory[i]
        /\ \A i, j \in 1..Len(memory) : i < j => memory[i] < memory[j]
    BY <2>1, <2>2 DEF MemoryAscends
  <2> SUFFICES ASSUME NEW r \in prompt', transcript[r] = "result"
               PROVE  \E c \in 1..r :
                         /\ transcript[c] \in Calling
                         /\ \A between \in c + 1..r : transcript[between] = "result"
                         /\ c \in prompt' \/ transcript[c] = "echocall"
    BY <2>1 DEF ResultsKeepTheirCalls
  <2>4. PICK i \in start..Len(memory) : r = memory[i]
    BY <2>1
  <2>5. i \in 1..Len(memory) /\ r \in 1..Len(transcript)
    BY <2>1, <2>2, <2>4
  <2>6. PICK c \in 1..r :
           /\ transcript[c] \in Calling
           /\ \A between \in c + 1..r : transcript[between] = "result"
    BY <2>5 DEF ResultsFollowCalls, FollowsACall
  <2>7. PICK m \in 1..Len(transcript) :
           m = memory[start] /\ transcript[m] \in UserRole /\ offset < m
    BY <2>1, <2>2, <2>3 DEF Starts
  <2>8. m <= r
    BY <2>1, <2>2, <2>3, <2>4, <2>5, <2>7
  <2>9. m < c
    <3>1. m # c
      BY <2>6, <2>7 DEF UserRole, Calling
    <3>2. m \notin c + 1..r
      BY <2>6, <2>7 DEF UserRole
    <3> QED
      BY <2>2, <2>5, <2>7, <2>8, <3>1, <3>2
  <2>10. c \in offset + 1..Len(transcript)
    BY <2>2, <2>5, <2>7, <2>9
  <2>11. c \in ToSet(memory) \/ transcript[c] = "echocall"
    BY <2>1, <2>6, <2>10 DEF WindowIsWhole, Passed, SaidBefore, Dropped, Echo, Calling
  <2>12. ASSUME c \in ToSet(memory) PROVE c \in prompt'
    <3>1. PICK j \in 1..Len(memory) : memory[j] = c
      BY <2>2, <2>12 DEF ToSet
    <3>2. ~(j < start) /\ j # start
      BY <2>1, <2>2, <2>3, <2>7, <2>9, <3>1
    <3>3. j \in start..Len(memory)
      BY <2>1, <2>2, <3>2
    <3> QED
      BY <2>1, <3>1, <3>3
  <2> QED
    BY <2>6, <2>11, <2>12
<1>3. CASE ~Send
  <2>1. prompt' = prompt \/ prompt' = {}
    BY <1>3, Kinds
       DEF Ask, Compact, Retry, Grows, GrowsBy, Closes, Over, Clear, vars, request
  <2> QED
    BY <1>1, <2>1
<1> QED
  BY <1>2, <1>3

\* A request that has every message is behind nothing but what /clear hides and
\* the filters set aside.
LEMMA SummaryToldWhenNeededStep ==
    ASSUME TypeOK, ToolsRun, WindowIsWhole, SummaryToldWhenNeeded, [Next]_vars, TypeOK'
    PROVE  SummaryToldWhenNeeded'
<1>1. CASE UNCHANGED vars
  BY <1>1 DEF vars, disk, request, SummaryToldWhenNeeded, SetAside
<1>2. CASE Send
  <2>1. PICK start \in Starts :
           /\ prompt' = {memory[i] : i \in start..Len(memory)}
           /\ told' = IncludesSummary(start)
           /\ start \in 1..Len(memory)
           /\ phase = "round" /\ UNCHANGED <<transcript, floor, memory, offset>>
    BY <1>2, SendFacts
  <2> SUFFICES ASSUME NEW r \in folded', r \notin prompt', ~SetAside(r)'
               PROVE  IncludesSummary(start)
    BY <2>1 DEF SummaryToldWhenNeeded
  <2>2. /\ Len(memory) \in Nat /\ DOMAIN memory = 1..Len(memory) /\ offset \in Nat
        /\ r \in 1..Len(transcript)
    BY <2>1, MemoryTypes DEF TypeOK
  <2>3. CASE start = 1 /\ offset = 0
    <3>1. Passed(r, ToSet(memory))
      BY <2>1, <2>2, <2>3 DEF WindowIsWhole
    <3>2. r \in ToSet(memory)
      BY <2>1, <3>1 DEF Passed, SaidBefore, SetAside, Dropped
    <3>3. r \in prompt'
      BY <2>1, <2>2, <2>3, <3>2 DEF ToSet
    <3> QED
      BY <3>3
  <2>4. CASE ~(start = 1 /\ offset = 0)
    BY <2>1, <2>2, <2>4 DEF IncludesSummary
  <2> QED
    BY <2>3, <2>4
<1>3. CASE ~UNCHANGED vars /\ ~Send
  <2>1. phase' # "sent"
    BY <1>3, Kinds DEF Ask, Compact, Retry, Grows, GrowsBy, Closes, Over, Clear
  <2> QED
    BY <2>1 DEF SummaryToldWhenNeeded
<1> QED
  BY <1>1, <1>2, <1>3

\* The messages of a turn are past the floor, and so is what is folded of them.
LEMMA NothingFromBeforeClearStep ==
    ASSUME TypeOK, ToolsRun, Resting, MemoryAscends, NothingFromBeforeClear, [Next]_vars
    PROVE  NothingFromBeforeClear'
<1>1. CASE Clear
  BY <1>1 DEF Clear, Resting, NothingFromBeforeClear, request
<1>2. CASE Compact \/ Send
  <2>1. PICK start \in Starts :
           /\ folded' = folded \cup Evicted(start) \/ folded' = folded
           /\ prompt' = prompt \/ prompt' = {memory[i] : i \in start..Len(memory)}
           /\ phase # "idle" /\ floor' = floor
    BY <1>2 DEF Compact, Send, FoldEvicted, Fold, request
  <2>2. /\ Len(memory) \in Nat /\ DOMAIN memory = 1..Len(memory) /\ start \in 1..Len(memory)
        /\ upto \in 1..Len(memory) + 1 /\ floor \in Nat /\ offset \in Nat
        /\ \A i \in 1..Len(memory) : memory[i] \in Nat
    BY MemoryTypes DEF TypeOK, Starts
  <2>3. \A i \in 1..Len(memory) : memory[i] > floor
    BY <2>1, <2>2 DEF MemoryAscends
  <2>4. upto..start - 1 \subseteq 1..Len(memory) /\ start..Len(memory) \subseteq 1..Len(memory)
    BY <2>2
  <2>5. \A r \in Evicted(start) : r > floor
    BY <2>3, <2>4 DEF Evicted
  <2>6. \A r \in {memory[i] : i \in start..Len(memory)} : r > floor
    BY <2>3, <2>4
  <2>7. \A r \in prompt \cup folded : r > floor
    BY DEF NothingFromBeforeClear
  <2> QED
    BY <2>1, <2>5, <2>6, <2>7 DEF NothingFromBeforeClear
<1>3. CASE ~Clear /\ ~Compact /\ ~Send
  <2>1. (prompt' = prompt \/ prompt' = {}) /\ UNCHANGED <<folded, floor>>
    BY <1>3, Kinds
       DEF Ask, Retry, Grows, GrowsBy, Closes, Over, vars, disk, request
  <2> QED
    BY <2>1 DEF NothingFromBeforeClear
<1> QED
  BY <1>1, <1>2, <1>3

-----------------------------------------------------------------------------
(* The invariant, and the theorems.                                        *)

\* A session begins with no records, no summary and no turn.
LEMMA CInvInit ==
    ASSUME Init
    PROVE  CInv
<1>1. transcript \in Seq(Record) /\ memory \in Seq(1..Len(transcript)) /\ Len(transcript) = 0 /\ Len(memory) = 0
  BY DEF Init
<1>2. TypeOK
  <2>1. 0 \in 0..MaxRounds /\ 0 \in 0..Len(transcript) /\ 1 \in 1..Len(memory) + 1
    BY <1>1, ContextAssumption
  <2> QED
    BY <1>1, <2>1 DEF Init, TypeOK, Phase
<1>3. Resting /\ ToolsRun /\ MemoryAscends /\ WindowIsWhole /\ BelowIsFolded /\ WatermarkCounts
  BY DEF Init, Resting, ToolsRun, MemoryAscends, WindowIsWhole, BelowIsFolded, WatermarkCounts
<1>4. ResultsFollowCalls
  BY <1>1 DEF ResultsFollowCalls
<1>5. /\ ForgottenForAReason /\ ResultsKeepTheirCalls
      /\ SummaryToldWhenNeeded /\ NothingFromBeforeClear
  BY DEF Init, ForgottenForAReason, ResultsKeepTheirCalls, SummaryToldWhenNeeded,
         NothingFromBeforeClear
<1> QED
  BY <1>2, <1>3, <1>4, <1>5 DEF CInv

\* Every step keeps the invariant.
LEMMA CInvStep ==
    ASSUME CInv, [Next]_vars
    PROVE  CInv'
<1> USE DEF CInv
<1>1. TypeOK' /\ Resting' /\ ToolsRun'
  BY TypeStep, RestingStep, ToolsRunStep
<1>2. MemoryAscends' /\ WindowIsWhole'
  BY MemoryAscendsStep, WindowIsWholeStep
<1>3. BelowIsFolded' /\ WatermarkCounts'
  BY BelowIsFoldedStep, WatermarkStep
<1>4. ResultsFollowCalls' /\ ResultsKeepTheirCalls'
  BY ResultsFollowCallsStep, ResultsKeepTheirCallsStep
<1>5. ForgottenForAReason' /\ SummaryToldWhenNeeded' /\ NothingFromBeforeClear'
  BY <1>1, <1>3, ForgottenForAReasonStep, SummaryToldWhenNeededStep, NothingFromBeforeClearStep
<1> QED
  BY <1>1, <1>2, <1>3, <1>4, <1>5

\* The invariant holds in every state the program reaches.
LEMMA CInvAlways == Spec => []CInv
<1>1. Init => CInv
  BY CInvInit
<1>2. CInv /\ [Next]_vars => CInv'
  BY CInvStep
<1> QED
  BY <1>1, <1>2, PTL DEF Spec

\* The transcript, the window a turn loads of it (chat_state.py:551-607), the
\* summary and its watermark keep their types through every round of the chat
\* loop (simple_chat.py) and every crash: no step leaves a message, a watermark
\* or a part of a request that points behind the end of the transcript.
THEOREM TypeCorrect == Spec => []TypeOK
<1>1. CInv => TypeOK
  BY DEF CInv
<1> QED
  BY <1>1, CInvAlways, PTL

\* "Fold what no longer fits into a digest instead of dropping it"
\* (simple_chat.py:4615-4618): with a window, budgets and turns of any size, a
\* request a person made is in what the model is sent or in its summary, unless
\* it is further back than the window or behind a record of the summary that
\* a later turn no longer loads, which is how the watermark of
\* chat_state.py:344-389 goes wrong.
THEOREM NothingIsForgottenSilently == Spec => []ForgottenForAReason
<1>1. CInv => ForgottenForAReason
  BY DEF CInv
<1> QED
  BY <1>1, CInvAlways, PTL

\* "never keep a tool result after dropping the assistant call that owns it"
\* (chat_state.py:257-259): whatever suffix the budget selects, a result in a
\* request has its call in it, unless the filter of repeated answers took it.
THEOREM ResultsFollowTheirCalls == Spec => []ResultsKeepTheirCalls
<1>1. CInv => ResultsKeepTheirCalls
  BY DEF CInv
<1> QED
  BY <1>1, CInvAlways, PTL

\* should_include_summary (chat_state.py:444-460): a request from which a folded
\* record is missing carries the summary, whichever turn folded it.
THEOREM SummaryIsTold == Spec => []SummaryToldWhenNeeded
<1>1. CInv => SummaryToldWhenNeeded
  BY DEF CInv
<1> QED
  BY <1>1, CInvAlways, PTL

\* /clear (manager.py:568-579) hides the turns before it for good: neither a
\* request nor the summary ever has one of their records again.
THEOREM ClearHolds == Spec => []NothingFromBeforeClear
<1>1. CInv => NothingFromBeforeClear
  BY DEF CInv
<1> QED
  BY <1>1, CInvAlways, PTL

=============================================================================
