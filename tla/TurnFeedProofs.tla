---------------------------- MODULE TurnFeedProofs ----------------------------
(***************************************************************************)
(* Proofs about TurnFeed, for any number of streams, turns and events, any *)
(* capacity and any number of faults and lost connections: its types, that *)
(* a page shows each recorded event once and in the order of the file,     *)
(* that a resume misses nothing but in front of a torn line, and that a    *)
(* subscriber misses no milestone and is handed nothing twice.             *)
(*                                                                         *)
(* Records, Frames and LineOfRecord go by the number of parsing lines in   *)
(* front of a line, so what they give follows from cardinalities of finite *)
(* sets.  Replayed is a recursive function; what holds of it for every     *)
(* number of events follows from the least number for which it would not.  *)
(***************************************************************************)
EXTENDS TurnFeed, FiniteSetTheorems, SequenceTheorems, WellFoundedInduction, TLAPS

\* The file: nothing is recorded twice, and what a stream has recorded of its
\* turn is not past the event it is at.
Past(e, s) ==
    /\ e.turn <= turns
    /\ e.turn = event[s].turn => e.seq <= event[s].seq

TurnsAreOwn ==
    /\ \A s \in Stream : event[s].turn <= turns
    /\ \A s, t \in Stream : s # t /\ event[s].turn = event[t].turn => event[s] = Nothing
    /\ \A s \in Stream : doing[s] # "idle" => event[s] # Nothing

RecordedOnce ==
    /\ \A i \in DOMAIN log, s \in Stream :
          log[i] # Torn => Past(log[i], s) /\ (doing[s] = "writing" => log[i] # event[s])
    /\ \A i, j \in DOMAIN log : i # j /\ log[i] # Torn => log[i] # log[j]

\* The subscription: only its stream offers to it ...
OffersAreHeard ==
    /\ \A s \in Stream : doing[s] \in {"offering", "waking"} => s = Watched /\ sub # "none"
    /\ sub = "none" => heard = <<>> /\ queue = <<>> /\ owed = {}
    /\ \A e \in owed : Kept(e)

\* ... and what is offered was neither seen nor handed out before.
Unseen(e) == Past(e, Watched) /\ (doing[Watched] \in {"writing", "offering"} => e # event[Watched])

PositionIsPast ==
    sub # "none" =>
        /\ Past(since, Watched)
        /\ doing[Watched] \in {"writing", "offering"} => ~Seen(event[Watched], since)

ComingIsPast == \A e \in Elements(Coming) : Unseen(e)

\* The page: what it shows, and what is on its way to it.
Trail == shown \o [k \in DOMAIN flight |-> flight[k].event]

TrailFollows ==
    /\ \A i \in DOMAIN Trail : \E n \in DOMAIN log : log[n] = Trail[i]
    /\ \A i, j \in DOMAIN Trail : i < j =>
          \A m, n \in DOMAIN log : log[m] = Trail[i] /\ log[n] = Trail[j] => m < n

PositionsAreReached ==
    /\ page # "connected" => flight = <<>>
    /\ page = "closed" => shown = <<>>
    /\ page = "connected" => ResumePoint <= served
    /\ \A i \in DOMAIN shown, m \in DOMAIN log : log[m] = shown[i] => m <= ResumePoint
    /\ \A k \in DOMAIN flight :
          /\ flight[k].id <= served
          /\ \A m \in DOMAIN log : log[m] = flight[k].event => m <= flight[k].id

\* Line n arrived, or is in one of the first k frames on their way.
OnItsWay(n, k) == Arrived(n) \/ \E m \in 1..k : flight[m].event = log[n]

FlightHasTheRest ==
    page = "connected" =>
        /\ \A n \in 1..served : OnItsWay(n, Len(flight))
        /\ \A k \in DOMAIN flight : \A n \in 1..flight[k].id : OnItsWay(n, k)

FileInv == TurnsAreOwn /\ RecordedOnce

SubscriptionInv ==
    OffersAreHeard /\ PositionIsPast /\ ComingIsPast /\ SubscriberMissesNoMilestone

PageInv ==
    TrailFollows /\ PositionsAreReached /\ FlightHasTheRest /\ MissedOnlyBeforeATornLine

FInv == TypeOK /\ FileInv /\ SubscriptionInv /\ PageInv
-----------------------------------------------------------------------------
(* Numbers in their order.                                                 *)

\* A set of naturals has a least element.
LEMMA LeastOf ==
    ASSUME NEW T \in SUBSET Nat, T # {}
    PROVE  \E m \in T : \A k \in T : m <= k
<1> DEFINE R == {ss \in Nat \X Nat : ss[1] < ss[2]}
<1>1. IsWellFoundedOn(R, Nat)
  BY NatLessThanWellFounded DEF OpToRel
<1>2. \E m \in T : \A k \in T : ~(<<k, m>> \in R)
  <2> HIDE DEF R
  <2> QED
    BY <1>1, WFMin
<1>3. PICK m \in T : \A k \in T : ~(<<k, m>> \in R)
  BY <1>2
<1>4. ASSUME NEW k \in T PROVE m <= k
  <2>1. m \in Nat /\ k \in Nat
    OBVIOUS
  <2>2. ~(k < m)
    BY <1>3, <2>1
  <2> QED
    BY <2>1, <2>2
<1> QED
  BY <1>4

\* A larger number has more numbers below it.
LEMMA RanksGrow ==
    ASSUME NEW S \in SUBSET Nat, IsFiniteSet(S), NEW a \in S, NEW b \in S, a < b
    PROVE  Cardinality({e \in S : e < a}) < Cardinality({e \in S : e < b})
<1> DEFINE A == {e \in S : e < a}
<1> DEFINE B == {e \in S : e < b}
<1>1. IsFiniteSet(A) /\ IsFiniteSet(B)
  BY FS_Subset
<1>2. A \in SUBSET B /\ a \in B /\ a \notin A
  <2>1. a \in Nat /\ b \in Nat /\ \A e \in S : e \in Nat
    OBVIOUS
  <2>2. \A e \in S : e < a => e < b
    BY <2>1
  <2>3. A \subseteq B
    BY <2>2
  <2>4. a \in B /\ a \notin A
    BY <2>1
  <2> QED
    BY <2>3, <2>4
<1> HIDE DEF A, B
<1>3. Cardinality(A) <= Cardinality(B) /\ Cardinality(A) # Cardinality(B)
  BY <1>1, <1>2, FS_Subset
<1>4. Cardinality(A) \in Nat /\ Cardinality(B) \in Nat
  BY <1>1, FS_CardinalityType
<1> QED
  BY <1>3, <1>4 DEF A, B

\* The i-th of the numbers, and that each is one of these, in their order.
Nth(S, i) == CHOOSE r \in S : Cardinality({e \in S : e < r}) = i - 1

LEMMA NthLists ==
    ASSUME NEW S \in SUBSET Nat, IsFiniteSet(S)
    PROVE  /\ Cardinality(S) \in Nat
           /\ \A i \in 1..Cardinality(S) : Nth(S, i) \in S
           /\ \A i \in 1..Cardinality(S) :
                 Cardinality({e \in S : e < Nth(S, i)}) = i - 1
           /\ \A i, j \in 1..Cardinality(S) : i < j => Nth(S, i) < Nth(S, j)
           /\ \A r \in S : \E i \in 1..Cardinality(S) : Nth(S, i) = r
<1> DEFINE n == Cardinality(S)
<1> DEFINE Rank(r) == Cardinality({e \in S : e < r})
<1> DEFINE f == [r \in S |-> Rank(r) + 1]
<1>1. n \in Nat
  BY FS_CardinalityType
<1>2. ASSUME NEW r \in S PROVE Rank(r) \in 0..n - 1
  <2>1. IsFiniteSet({e \in S : e < r}) /\ Rank(r) <= n /\ (n = Rank(r) => S = {e \in S : e < r})
    BY FS_Subset
  <2>2. S # {e \in S : e < r}
    OBVIOUS
  <2>3. Rank(r) \in Nat
    BY <2>1, FS_CardinalityType
  <2> HIDE DEF n, Rank
  <2> QED
    BY <1>1, <2>1, <2>2, <2>3
<1>3. ASSUME NEW a \in S, NEW b \in S, a < b PROVE Rank(a) < Rank(b)
  BY <1>3, RanksGrow
<1> HIDE DEF Rank, n
<1>4. f \in Injection(S, 1..n)
  <2>1. f \in [S -> 1..n]
    BY <1>1, <1>2
  <2>2. ASSUME NEW a \in S, NEW b \in S, f[a] = f[b] PROVE a = b
    <3>1. Rank(a) = Rank(b) /\ Rank(a) \in Nat /\ Rank(b) \in Nat
      BY <1>1, <1>2, <2>2
    <3>2. ~(a < b) /\ ~(b < a)
      BY <1>3, <3>1
    <3> QED
      BY <3>2
  <2> QED
    BY <2>1, <2>2 DEF Injection, IsInjective
<1>5. f \in Surjection(S, 1..n)
  <2>1. IsFiniteSet(1..n) /\ Cardinality(1..n) = n
    BY <1>1, FS_Interval
  <2> QED
    BY <1>4, <2>1, FS_Injection DEF n
<1>6. ASSUME NEW i \in 1..n PROVE \E r \in S : Rank(r) = i - 1
  <2>1. PICK r \in S : f[r] = i
    BY <1>5 DEF Surjection
  <2>2. Rank(r) \in Nat /\ i \in Nat /\ Rank(r) + 1 = i
    BY <1>1, <1>2, <2>1
  <2> QED
    BY <2>2
<1>7. \A i \in 1..n : Nth(S, i) = CHOOSE r \in S : Rank(r) = i - 1
  BY DEF Nth, Rank
<1>8. ASSUME NEW i \in 1..n PROVE Nth(S, i) \in S /\ Rank(Nth(S, i)) = i - 1
  BY <1>6, <1>7
<1>9. ASSUME NEW i \in 1..n, NEW j \in 1..n, i < j PROVE Nth(S, i) < Nth(S, j)
  <2>1. PICK a \in S : a = Nth(S, i) /\ Rank(a) = i - 1
    BY <1>8
  <2>2. PICK b \in S : b = Nth(S, j) /\ Rank(b) = j - 1
    BY <1>8
  <2>3. a \in Nat /\ b \in Nat /\ i \in Nat /\ j \in Nat
    BY <1>1
  <2>4. a # b /\ ~(b < a)
    BY <1>3, <1>9, <2>1, <2>2, <2>3
  <2> QED
    BY <2>1, <2>2, <2>3, <2>4
<1>10. ASSUME NEW r \in S PROVE \E i \in 1..n : Nth(S, i) = r
  <2>1. Rank(r) + 1 \in 1..n /\ Rank(r) \in Nat
    BY <1>1, <1>2
  <2>2. PICK i \in 1..n : i = Rank(r) + 1
    BY <2>1
  <2>3. PICK a \in S : a = Nth(S, i) /\ Rank(a) = Rank(r)
    <3>1. i - 1 = Rank(r)
      BY <2>1, <2>2
    <3> QED
      BY <1>8, <3>1
  <2>4. ~(a < r) /\ ~(r < a) /\ a \in Nat /\ r \in Nat
    <3>1. a < r => Rank(a) < Rank(r)
      BY <1>3
    <3>2. r < a => Rank(r) < Rank(a)
      BY <1>3
    <3> QED
      BY <2>1, <2>3, <3>1, <3>2
  <2> QED
    BY <2>3, <2>4
<1> QED
  BY <1>1, <1>8, <1>9, <1>10 DEF Rank, n

-----------------------------------------------------------------------------
(* What a file says.                                                       *)

\* There are as many records as lines that parse, each of them at a line of its
\* own, in the order of the lines.
LEMMA RecordsAreLines ==
    ASSUME NEW S, NEW lines \in Seq(S)
    PROVE  LET n == Cardinality(Parsed(lines)) IN
           /\ n \in Nat /\ IsFiniteSet(Parsed(lines)) /\ Parsed(lines) \subseteq 1..Len(lines)
           /\ Records(lines) \in Seq(S \ {Torn}) /\ Len(Records(lines)) = n
           /\ DOMAIN Records(lines) = 1..n
           /\ \A k \in 1..n :
                 /\ LineOfRecord(lines, k) \in Parsed(lines)
                 /\ Records(lines)[k] = lines[LineOfRecord(lines, k)]
                 /\ Cardinality({j \in Parsed(lines) : j < LineOfRecord(lines, k)}) = k - 1
           /\ \A i, k \in 1..n : i < k => LineOfRecord(lines, i) < LineOfRecord(lines, k)
           /\ \A i \in Parsed(lines) : \E k \in 1..n : LineOfRecord(lines, k) = i
<1> DEFINE P == Parsed(lines)
<1> DEFINE n == Cardinality(P)
<1>1. P \subseteq 1..Len(lines) /\ Len(lines) \in Nat
  BY DEF Parsed
<1>2. IsFiniteSet(P) /\ P \in SUBSET Nat
  <2>1. IsFiniteSet(1..Len(lines))
    BY <1>1, FS_Interval
  <2>2. 1..Len(lines) \subseteq Nat
    BY <1>1
  <2> HIDE DEF P
  <2> QED
    BY <1>1, <2>1, <2>2, FS_Subset
<1>3. \A k : LineOfRecord(lines, k) = Nth(P, k)
  BY DEF LineOfRecord, Nth
<1>4. /\ n \in Nat
      /\ \A k \in 1..n : Nth(P, k) \in P /\ Cardinality({j \in P : j < Nth(P, k)}) = k - 1
      /\ \A i, k \in 1..n : i < k => Nth(P, i) < Nth(P, k)
      /\ \A i \in P : \E k \in 1..n : Nth(P, k) = i
  BY <1>2, NthLists
<1>5. Records(lines) = [k \in 1..n |-> lines[LineOfRecord(lines, k)]]
  BY DEF Records
<1>6. \A i \in P : lines[i] \in S \ {Torn}
  BY DEF Parsed
<1> HIDE DEF P, n
<1>7. Records(lines) \in [1..n -> S \ {Torn}]
  BY <1>3, <1>4, <1>5, <1>6
<1>8. Records(lines) \in Seq(S \ {Torn}) /\ Len(Records(lines)) = n
  BY <1>4, <1>7
<1> QED
  BY <1>1, <1>2, <1>3, <1>4, <1>5, <1>8 DEF n, P

-----------------------------------------------------------------------------
(* Queues.                                                                 *)

Distinct(q) == \A i, j \in DOMAIN q : i # j => q[i] # q[j]

\* An element of a sequence is at one of its places.
LEMMA ElementsOf ==
    ASSUME NEW S, NEW q \in Seq(S)
    PROVE  /\ Elements(q) \subseteq S
           /\ \A k \in 1..Len(q) : q[k] \in Elements(q)
           /\ \A e \in Elements(q) : \E k \in 1..Len(q) : q[k] = e
           /\ Len(q) \in Nat /\ DOMAIN q = 1..Len(q)
BY LenProperties, ElementOfSeq DEF Elements

\* Two sequences, one behind the other.
LEMMA ConcatElements ==
    ASSUME NEW S, NEW a \in Seq(S), NEW b \in Seq(S)
    PROVE  /\ a \o b \in Seq(S)
           /\ Elements(a \o b) = Elements(a) \cup Elements(b)
           /\ Distinct(a \o b) <=>
                 Distinct(a) /\ Distinct(b) /\ Elements(a) \cap Elements(b) = {}
<1> DEFINE c == a \o b
<1> DEFINE m == Len(a)
<1> DEFINE n == Len(b)
<1>1. /\ c \in Seq(S) /\ Len(c) = m + n /\ m \in Nat /\ n \in Nat
      /\ \A i \in 1..m + n : c[i] = IF i <= m THEN a[i] ELSE b[i - m]
  BY ConcatProperties, LenProperties
<1>2. DOMAIN c = 1..m + n /\ DOMAIN a = 1..m /\ DOMAIN b = 1..n
  BY <1>1, LenProperties
<1> HIDE DEF c, m, n
<1>3. \A i \in 1..m : i \in 1..m + n /\ c[i] = a[i]
  BY <1>1
<1>4. \A j \in 1..n : m + j \in 1..m + n /\ c[m + j] = b[j]
  <2> TAKE j \in 1..n
  <2>1. m + j \in 1..m + n /\ ~(m + j <= m) /\ (m + j) - m = j
    BY <1>1
  <2> QED
    BY <1>1, <2>1
<1>5. \A i \in 1..m + n : i \in 1..m \/ \E j \in 1..n : i = m + j
  <2> TAKE i \in 1..m + n
  <2>1. CASE i <= m
    BY <1>1, <2>1
  <2>2. CASE ~(i <= m)
    <3>1. i - m \in 1..n /\ i = m + (i - m)
      BY <1>1, <2>2
    <3> QED
      BY <3>1
  <2> QED
    BY <2>1, <2>2
<1>6. Elements(c) = Elements(a) \cup Elements(b)
  <2>1. ASSUME NEW e \in Elements(c) PROVE e \in Elements(a) \cup Elements(b)
    <3>1. PICK i \in 1..m + n : c[i] = e
      BY <1>2 DEF Elements
    <3> QED
      BY <1>2, <1>3, <1>4, <1>5, <3>1 DEF Elements
  <2>2. \A i \in 1..m : a[i] \in Elements(c)
    BY <1>2, <1>3 DEF Elements
  <2>3. \A j \in 1..n : b[j] \in Elements(c)
    BY <1>2, <1>4 DEF Elements
  <2> QED
    BY <1>2, <2>1, <2>2, <2>3 DEF Elements
<1>7. ASSUME Distinct(c)
      PROVE  Distinct(a) /\ Distinct(b) /\ Elements(a) \cap Elements(b) = {}
  <2>1. Distinct(a)
    BY <1>2, <1>3, <1>7 DEF Distinct
  <2>2. Distinct(b)
    <3> SUFFICES ASSUME NEW i \in 1..n, NEW j \in 1..n, i # j PROVE b[i] # b[j]
      BY <1>2 DEF Distinct
    <3>1. m + i # m + j
      BY <1>1
    <3> QED
      BY <1>2, <1>4, <1>7, <3>1 DEF Distinct
  <2>3. ASSUME NEW i \in 1..m, NEW j \in 1..n PROVE a[i] # b[j]
    <3>1. i # m + j
      BY <1>1
    <3> QED
      BY <1>2, <1>3, <1>4, <1>7, <3>1 DEF Distinct
  <2> QED
    BY <1>2, <2>1, <2>2, <2>3 DEF Elements
<1>8. ASSUME Distinct(a), Distinct(b), Elements(a) \cap Elements(b) = {}
      PROVE  Distinct(c)
  <2> SUFFICES ASSUME NEW i \in 1..m + n, NEW j \in 1..m + n, i # j PROVE c[i] # c[j]
    BY <1>2 DEF Distinct
  <2>1. \A k \in 1..m, l \in 1..n : a[k] # b[l]
    BY <1>2, <1>8 DEF Elements
  <2>2. CASE i \in 1..m /\ j \in 1..m
    BY <1>2, <1>3, <1>8, <2>2 DEF Distinct
  <2>3. CASE \E k, l \in 1..n : i = m + k /\ j = m + l
    <3>1. PICK k \in 1..n, l \in 1..n : i = m + k /\ j = m + l
      BY <2>3
    <3>2. k # l
      BY <3>1
    <3> QED
      BY <1>2, <1>4, <1>8, <3>1, <3>2 DEF Distinct
  <2> QED
    BY <1>3, <1>4, <1>5, <2>1, <2>2, <2>3
<1> QED
  BY <1>1, <1>6, <1>7, <1>8 DEF c

\* One more at the end.
LEMMA AppendElements ==
    ASSUME NEW S, NEW q \in Seq(S), NEW e \in S
    PROVE  /\ Append(q, e) \in Seq(S)
           /\ Elements(Append(q, e)) = Elements(q) \cup {e}
           /\ Distinct(Append(q, e)) <=> Distinct(q) /\ e \notin Elements(q)
<1>1. <<e>> \in Seq(S) /\ Elements(<<e>>) = {e} /\ Distinct(<<e>>)
  BY DEF Elements, Distinct
<1>2. Append(q, e) = q \o <<e>>
  BY AppendIsConcat
<1> DEFINE o == <<e>>
<1> HIDE DEF o
<1>3. /\ q \o o \in Seq(S)
      /\ Elements(q \o o) = Elements(q) \cup Elements(o)
      /\ Distinct(q \o o) <=> Distinct(q) /\ Distinct(o) /\ Elements(q) \cap Elements(o) = {}
  BY <1>1, ConcatElements DEF o
<1>4. Elements(o) = {e} /\ Distinct(o)
  BY <1>1 DEF o
<1>5. Append(q, e) = q \o o
  BY <1>2 DEF o
<1>6. (Elements(q) \cap {e} = {}) <=> e \notin Elements(q)
  OBVIOUS
<1> QED
  BY <1>3, <1>4, <1>5, <1>6

\* One less: what was at place i is gone, if it was nowhere else.
LEMMA RemoveAtElements ==
    ASSUME NEW S, NEW q \in Seq(S), NEW i \in 1..Len(q)
    PROVE  /\ RemoveAt(q, i) \in Seq(S)
           /\ Elements(RemoveAt(q, i)) \subseteq Elements(q)
           /\ Elements(q) \subseteq Elements(RemoveAt(q, i)) \cup {q[i]}
           /\ Distinct(q) => Distinct(RemoveAt(q, i))
<1> DEFINE n == Len(q)
<1> DEFINE a == SubSeq(q, 1, i - 1)
<1> DEFINE b == SubSeq(q, i + 1, n)
<1>1. n \in Nat /\ \A k \in 1..n : q[k] \in S
  BY LenProperties, ElementOfSeq
<1>2. a \in Seq(S) /\ b \in Seq(S)
  <2>1. 1 \in Int /\ i - 1 \in Int /\ i + 1 \in Int /\ n \in Int
    BY <1>1
  <2>2. \A k \in 1..i - 1 : q[k] \in S
    BY <1>1
  <2>3. \A k \in i + 1..n : q[k] \in S
    BY <1>1
  <2> HIDE DEF n
  <2> QED
    BY <2>1, <2>2, <2>3, SubSeqProperties
<1>3. q = (a \o <<q[i]>>) \o b
  <2>1. SubSeq(q, 1, i) = a \o <<q[i]>>
    BY <1>1, SubSeqRecursiveSecond
  <2>2. SubSeq(q, 1, i) \o b = SubSeq(q, 1, n)
    BY <1>1, ConcatAdjacentSubSeq
  <2>3. SubSeq(q, 1, n) = q
    BY SubSeqFull
  <2> QED
    BY <2>1, <2>2, <2>3
<1>4. RemoveAt(q, i) = a \o b
  BY DEF RemoveAt
<1> DEFINE o == <<q[i]>>
<1>5. o \in Seq(S) /\ Elements(o) = {q[i]}
  BY <1>1 DEF Elements
<1> HIDE DEF a, b, o, n
<1>6. q = (a \o o) \o b /\ a \o o \in Seq(S)
  BY <1>2, <1>3, <1>5, ConcatElements DEF o
<1>7. Elements(q) = Elements(a) \cup {q[i]} \cup Elements(b)
  <2>1. Elements(a \o o) = Elements(a) \cup Elements(o)
    BY <1>2, <1>5, ConcatElements
  <2> DEFINE ao == a \o o
  <2> HIDE DEF ao
  <2>2. ao \in Seq(S) /\ q = ao \o b
    BY <1>6 DEF ao
  <2>3. Elements(ao \o b) = Elements(ao) \cup Elements(b)
    BY <1>2, <2>2, ConcatElements
  <2> QED
    BY <1>5, <2>1, <2>2, <2>3 DEF ao
<1>8. Elements(a \o b) = Elements(a) \cup Elements(b) /\ a \o b \in Seq(S)
  BY <1>2, ConcatElements
<1>9. ASSUME Distinct(q) PROVE Distinct(a \o b)
  <2>1. Distinct(a \o o) /\ Distinct(b) /\ Elements(a \o o) \cap Elements(b) = {}
    BY <1>2, <1>6, <1>9, ConcatElements
  <2>2. Distinct(a) /\ Elements(a) \subseteq Elements(a \o o)
    BY <1>2, <1>5, <2>1, ConcatElements
  <2> QED
    BY <1>2, <2>1, <2>2, ConcatElements
<1> QED
  BY <1>4, <1>7, <1>8, <1>9

\* A queue that makes room keeps what must stay.
LEMMA ShedElements ==
    ASSUME NEW q \in Seq(Event)
    PROVE  /\ Shed(q) \in Seq(Event)
           /\ Elements(Shed(q)) \subseteq Elements(q)
           /\ \A e \in Elements(q) : Kept(e) => e \in Elements(Shed(q))
           /\ Distinct(q) => Distinct(Shed(q))
<1>1. CASE Len(q) > Capacity /\ Droppable(q) # {}
  <2> DEFINE i == Oldest(Droppable(q))
  <2>1. Droppable(q) \in SUBSET Nat /\ Droppable(q) \subseteq 1..Len(q)
    BY LenProperties DEF Droppable
  <2>2. \E m \in Droppable(q) : \A k \in Droppable(q) : m <= k
    BY <1>1, <2>1, LeastOf
  <2>3. i \in Droppable(q)
    BY <2>2 DEF Oldest
  <2>4. i \in 1..Len(q) /\ ~Kept(q[i]) /\ Shed(q) = RemoveAt(q, i)
    BY <1>1, <2>1, <2>3 DEF Droppable, Shed
  <2> HIDE DEF i
  <2> QED
    BY <2>4, RemoveAtElements
<1>2. CASE ~(Len(q) > Capacity /\ Droppable(q) # {})
  BY <1>2 DEF Shed
<1> QED
  BY <1>1, <1>2

\* A queue an event is offered to.
LEMMA OfferedElements ==
    ASSUME NEW e \in Event, NEW position, NEW q \in Seq(Event)
    PROVE  /\ Offered(e, position, q) \in Seq(Event)
           /\ \A d \in Elements(Offered(e, position, q)) :
                 d \in Elements(q) \/ (d = e /\ ~Seen(e, position))
           /\ \A d \in Elements(q) : Kept(d) => d \in Elements(Offered(e, position, q))
           /\ Kept(e) /\ ~Seen(e, position) => e \in Elements(Offered(e, position, q))
           /\ Distinct(q) /\ e \notin Elements(q) => Distinct(Offered(e, position, q))
<1>1. CASE Seen(e, position)
  <2>1. Offered(e, position, q) = q
    BY <1>1 DEF Offered
  <2> QED
    BY <1>1, <2>1
<1>2. CASE ~Seen(e, position)
  <2> DEFINE p == Append(q, e)
  <2>1. Offered(e, position, q) = Shed(p)
    BY <1>2 DEF Offered
  <2>2. /\ p \in Seq(Event)
        /\ Elements(p) = Elements(q) \cup {e}
        /\ Distinct(p) <=> Distinct(q) /\ e \notin Elements(q)
    BY AppendElements
  <2> HIDE DEF p
  <2> QED
    BY <1>2, <2>1, <2>2, ShedElements
<1> QED
  BY <1>1, <1>2

-----------------------------------------------------------------------------
(* Replays.                                                                *)

\* A replay is a row of queues: an empty one, and each next one the queue
\* before it after one more event is offered.
LEMMA ReplayIsARow ==
    ASSUME NEW events, Len(events) \in Nat, NEW position
    PROVE  \E g : /\ g[0] = <<>>
                  /\ \A n \in 1..Len(events) : g[n] = Offered(events[n], position, g[n - 1])
                  /\ Replayed(events, position) = g[Len(events)]
<1> DEFINE Step(n, h) == IF n = 0 THEN <<>> ELSE Offered(events[n], position, h[n - 1])
<1> DEFINE Row(m) == \E g : g = [n \in 0..m |-> Step(n, g)]
<1> DEFINE Bad == {m \in Nat : ~Row(m)}
<1>1. Row(0)
  <2> DEFINE g == [n \in 0..0 |-> <<>>]
  <2>1. \A n \in 0..0 : Step(n, g) = <<>>
    OBVIOUS
  <2>2. g = [n \in 0..0 |-> Step(n, g)]
    BY <2>1
  <2> QED
    BY <2>2
<1>2. ASSUME NEW m \in Nat, Row(m) PROVE Row(m + 1)
  <2>1. PICK g : g = [n \in 0..m |-> Step(n, g)]
    BY <1>2
  <2> DEFINE h == [n \in 0..m + 1 |-> IF n = m + 1 THEN Offered(events[n], position, g[n - 1]) ELSE g[n]]
  <2>2. \A n \in 0..m : h[n] = g[n] /\ g[n] = Step(n, g)
    BY <2>1
  <2>3. h[m + 1] = Offered(events[m + 1], position, g[m])
    OBVIOUS
  <2>4. ASSUME NEW n \in 0..m + 1 PROVE h[n] = Step(n, h)
    <3>1. CASE n = m + 1
      <4>1. n # 0 /\ n - 1 = m /\ m \in 0..m
        BY <3>1
      <4>2. h[n - 1] = g[m]
        BY <2>2, <4>1
      <4> HIDE DEF h
      <4> QED
        BY <2>3, <3>1, <4>1, <4>2
    <3>2. CASE n \in 0..m /\ n # 0
      <4>1. n - 1 \in 0..m
        BY <3>2
      <4>2. h[n - 1] = g[n - 1] /\ h[n] = g[n] /\ g[n] = Step(n, g)
        BY <2>2, <3>2, <4>1
      <4> HIDE DEF h
      <4> QED
        BY <3>2, <4>2
    <3>3. CASE n = 0
      <4>1. n \in 0..m
        BY <3>3
      <4>2. h[n] = g[n] /\ g[n] = Step(n, g)
        BY <2>2, <4>1
      <4> HIDE DEF h
      <4> QED
        BY <3>3, <4>2
    <3> QED
      BY <3>1, <3>2, <3>3
  <2>5. h = [n \in 0..m + 1 |-> Step(n, h)]
    <3> DEFINE k == [n \in 0..m + 1 |-> Step(n, h)]
    <3>1. DOMAIN h = 0..m + 1 /\ h = [n \in DOMAIN h |-> h[n]]
      OBVIOUS
    <3>2. \A n \in 0..m + 1 : k[n] = h[n]
      BY <2>4
    <3> HIDE DEF h, Step
    <3> QED
      BY <2>4, <3>1
  <2> HIDE DEF h, Step
  <2> QED
    BY <2>5
<1>3. ASSUME Bad # {} PROVE FALSE
  <2>1. PICK m \in Bad : \A k \in Bad : m <= k
    BY <1>3, LeastOf
  <2>2. m \in Nat /\ ~Row(m)
    BY <2>1
  <2>3. m # 0
    BY <1>1, <2>2
  <2> HIDE DEF Row
  <2>4. m - 1 \in Nat /\ (m - 1) + 1 = m
    BY <2>2, <2>3
  <2>5. m - 1 \notin Bad
    BY <2>1, <2>4
  <2>6. Row(m - 1)
    BY <2>4, <2>5
  <2>7. Row((m - 1) + 1)
    BY <1>2, <2>4, <2>6
  <2> QED
    BY <2>2, <2>4, <2>7
<1>4. Row(Len(events))
  BY <1>3
<1> DEFINE after == CHOOSE g : g = [n \in 0..Len(events) |-> Step(n, g)]
<1>5. after = [n \in 0..Len(events) |-> Step(n, after)]
  BY <1>4
<1>6. Replayed(events, position) = after[Len(events)]
  BY DEF Replayed
<1> HIDE DEF after
<1>7. after[0] = <<>>
  BY <1>5
<1>8. \A n \in 1..Len(events) : after[n] = Offered(events[n], position, after[n - 1])
  BY <1>5
<1> QED
  BY <1>6, <1>7, <1>8

\* A replay of events that differ hands out events not seen, each of them once,
\* and all that must stay.
LEMMA ReplayedElements ==
    ASSUME NEW events \in Seq(Event), Distinct(events), NEW position
    PROVE  /\ Replayed(events, position) \in Seq(Event)
           /\ Distinct(Replayed(events, position))
           /\ \A e \in Elements(Replayed(events, position)) :
                 e \in Elements(events) /\ ~Seen(e, position)
           /\ \A e \in Elements(events) : Kept(e) /\ ~Seen(e, position) =>
                 e \in Elements(Replayed(events, position))
<1> DEFINE N == Len(events)
<1>1. N \in Nat /\ DOMAIN events = 1..N /\ \A k \in 1..N : events[k] \in Event
  BY LenProperties, ElementOfSeq
<1>2. PICK g : /\ g[0] = <<>>
               /\ \A n \in 1..N : g[n] = Offered(events[n], position, g[n - 1])
               /\ Replayed(events, position) = g[N]
  BY <1>1, ReplayIsARow
<1> DEFINE Good(n) == /\ g[n] \in Seq(Event) /\ Distinct(g[n])
                      /\ \A e \in Elements(g[n]) :
                            \E k \in 1..n : e = events[k] /\ ~Seen(e, position)
                      /\ \A k \in 1..n : Kept(events[k]) /\ ~Seen(events[k], position) =>
                            events[k] \in Elements(g[n])
<1>3. Good(0)
  BY <1>2 DEF Elements, Distinct
<1>4. ASSUME NEW n \in 1..N, Good(n - 1) PROVE Good(n)
  <2> DEFINE e == events[n]
  <2> DEFINE q == g[n - 1]
  <2>1. e \in Event /\ q \in Seq(Event) /\ Distinct(q) /\ g[n] = Offered(e, position, q)
    BY <1>1, <1>2, <1>4
  <2>2. /\ \A d \in Elements(q) : \E k \in 1..n - 1 : d = events[k] /\ ~Seen(d, position)
        /\ \A k \in 1..n - 1 : Kept(events[k]) /\ ~Seen(events[k], position) =>
              events[k] \in Elements(q)
    BY <1>4
  <2>3. \A k \in 1..n - 1 : k \in 1..n /\ k \in 1..N /\ k # n
    BY <1>1
  <2>4. \A k \in 1..n : k \in 1..n - 1 \/ k = n
    BY <1>1
  <2>5. n \in 1..n
    BY <1>1
  <2>6. e \notin Elements(q)
    BY <1>1, <2>2, <2>3 DEF Distinct
  <2> HIDE DEF q
  <2>7. g[n] \in Seq(Event) /\ Distinct(g[n])
    BY <2>1, <2>6, OfferedElements
  <2>8. ASSUME NEW d \in Elements(g[n])
        PROVE  \E k \in 1..n : d = events[k] /\ ~Seen(d, position)
    <3>1. d \in Elements(q) \/ (d = e /\ ~Seen(e, position))
      BY <2>1, OfferedElements
    <3> QED
      BY <2>2, <2>3, <2>5, <3>1
  <2>9. ASSUME NEW k \in 1..n, Kept(events[k]), ~Seen(events[k], position)
        PROVE  events[k] \in Elements(g[n])
    <3>1. CASE k \in 1..n - 1
      BY <2>1, <2>2, <2>9, <3>1, OfferedElements
    <3>2. CASE k = n
      BY <2>1, <2>9, <3>2, OfferedElements
    <3> QED
      BY <2>4, <3>1, <3>2
  <2> QED
    BY <2>7, <2>8, <2>9
<1> DEFINE Bad == {n \in 0..N : ~Good(n)}
<1> HIDE DEF Good
<1>5. Bad = {}
  <2> SUFFICES ASSUME Bad # {} PROVE FALSE
    OBVIOUS
  <2>1. Bad \in SUBSET Nat
    BY <1>1
  <2>2. PICK n \in Bad : \A k \in Bad : n <= k
    BY <2>1, LeastOf
  <2>3. n \in 0..N /\ ~Good(n) /\ n # 0
    BY <1>3, <2>2
  <2>4. n \in 1..N /\ n - 1 \in 0..N /\ ~(n <= n - 1)
    BY <1>1, <2>3
  <2>5. Good(n - 1)
    BY <2>2, <2>4
  <2> QED
    BY <1>4, <2>3, <2>4, <2>5
<1>6. Good(N)
  BY <1>1, <1>5
<1> DEFINE r == Replayed(events, position)
<1>7. /\ r \in Seq(Event) /\ Distinct(r)
      /\ \A e \in Elements(r) : \E k \in 1..N : e = events[k] /\ ~Seen(e, position)
      /\ \A k \in 1..N : Kept(events[k]) /\ ~Seen(events[k], position) =>
            events[k] \in Elements(r)
  BY <1>2, <1>6 DEF Good
<1>8. /\ \A k \in 1..N : events[k] \in Elements(events)
      /\ \A e \in Elements(events) : \E k \in 1..N : events[k] = e
  BY <1>1 DEF Elements
<1> HIDE DEF r, N
<1>9. \A e \in Elements(r) : e \in Elements(events) /\ ~Seen(e, position)
  BY <1>7, <1>8
<1>10. \A e \in Elements(events) : Kept(e) /\ ~Seen(e, position) => e \in Elements(r)
  BY <1>7, <1>8
<1> QED
  BY <1>7, <1>9, <1>10 DEF r

-----------------------------------------------------------------------------
(* What a step leaves alone.                                               *)

\* The parts of the invariant read only their own variables.
LEMMA FileKept ==
    ASSUME FileInv, UNCHANGED <<log, publishing>>
    PROVE  FileInv'
BY DEF FileInv, TurnsAreOwn, RecordedOnce, Past, publishing

\* What is subscribed, queued and handed out reads the publishers' state and its own.
LEMMA SubscriptionKept ==
    ASSUME SubscriptionInv, UNCHANGED <<publishing, subscription>>
    PROVE  SubscriptionInv'
<1>1. /\ turns' = turns /\ doing' = doing /\ event' = event /\ sub' = sub
      /\ since' = since /\ queue' = queue /\ heard' = heard /\ owed' = owed
  BY DEF publishing, subscription
<1>2. Coming' = Coming /\ \A e, s : Past(e, s)' <=> Past(e, s)
  BY <1>1 DEF Coming, Past
<1>3. \A e : Unseen(e)' <=> Unseen(e)
  BY <1>1, <1>2 DEF Unseen
<1>4. OffersAreHeard' /\ ComingIsPast'
  BY <1>1, <1>2, <1>3 DEF OffersAreHeard, ComingIsPast, SubscriptionInv
<1>5. PositionIsPast' /\ SubscriberMissesNoMilestone'
  BY <1>1, <1>2 DEF PositionIsPast, Past, SubscriberMissesNoMilestone, SubscriptionInv
<1> QED
  BY <1>4, <1>5 DEF SubscriptionInv

\* What a page shows reads the file's lines and its own state.
LEMMA PageKept ==
    ASSUME PageInv, UNCHANGED <<log, browser>>
    PROVE  PageInv'
BY DEF PageInv, TrailFollows, PositionsAreReached, FlightHasTheRest,
       MissedOnlyBeforeATornLine, Trail, OnItsWay, Arrived, ResumePoint, browser

-----------------------------------------------------------------------------
(* Publishing.                                                             *)

\* Events are records of numbers, and neither Nothing nor a torn line is one.
LEMMA EventsAreTyped ==
    /\ \A e \in Event : e.turn \in 1..MaxTurns /\ e.seq \in 1..MaxSeq
    /\ \A e \in Event \cup {Nothing} : e.turn \in Nat /\ e.seq \in Nat
    /\ \A e \in Event \cup {Nothing} : e.turn = 0 => e = Nothing
    /\ Nothing \notin Event /\ Torn \notin Event /\ Nothing.turn = 0 /\ Nothing.seq = 0
    /\ MaxTurns \in Nat /\ MaxSeq \in Nat
<1>1. MaxTurns \in Nat /\ MaxSeq \in Nat /\ Torn \notin [turn : Nat, seq : Nat]
  BY FeedAssumption
<1>2. \A e \in Event : e.turn \in 1..MaxTurns /\ e.seq \in 1..MaxSeq /\ e \in [turn : Nat, seq : Nat]
  BY <1>1 DEF Event
<1>3. Nothing.turn = 0 /\ Nothing.seq = 0
  BY DEF Nothing
<1> QED
  BY <1>1, <1>2, <1>3

\* The event a stream publishes next is later than all it has recorded, or a
\* position in its turn.
LEMMA NextIsLater ==
    ASSUME TypeOK, TurnsAreOwn, NEW s \in Stream, NEW e \in NextEvents(s)
    PROVE  /\ e \in Event
           /\ turns \in Nat /\ e.turn \in Nat /\ e.seq \in Nat
           /\ \A t \in Stream : t # s => event[t].turn # e.turn
           /\ \A p : p.turn \in Int /\ p.seq \in Int /\ Past(p, s) =>
                 /\ p.turn <= turns
                 /\ p.turn = e.turn => ~(e.seq <= p.seq)
                 /\ p # e
<1>1. e \in Event /\ e.turn \in Nat /\ e.seq \in Nat /\ e.turn \in 1..MaxTurns
  BY EventsAreTyped DEF NextEvents
<1>2. turns \in Nat /\ \A t \in Stream : event[t] \in Event \cup {Nothing}
  BY EventsAreTyped DEF TypeOK
<1>3. \A t \in Stream : event[t].turn \in Nat /\ event[t].seq \in Nat /\ event[t].turn <= turns
  BY <1>2, EventsAreTyped DEF TurnsAreOwn
<1>4. CASE e.turn = turns + 1
  <2>1. \A n \in Int : n <= turns => n # e.turn
    BY <1>2, <1>4
  <2> QED
    BY <1>1, <1>2, <1>3, <2>1 DEF Past
<1>5. CASE e.turn = event[s].turn /\ e.seq = event[s].seq + 1
  <2>1. event[s] # Nothing
    BY <1>1, <1>5, EventsAreTyped
  <2>2. \A t \in Stream : t # s => event[t].turn # e.turn
    BY <1>5, <2>1 DEF TurnsAreOwn
  <2>3. \A n \in Int : n <= event[s].seq => ~(e.seq <= n)
    BY <1>3, <1>5
  <2>4. ASSUME NEW p, p.turn \in Int, p.seq \in Int, Past(p, s)
        PROVE  p.turn <= turns /\ (p.turn = e.turn => ~(e.seq <= p.seq)) /\ p # e
    <3>1. p.turn <= turns /\ (p.turn = e.turn => p.seq <= event[s].seq)
      BY <1>5, <2>4 DEF Past
    <3>2. p.turn = e.turn => ~(e.seq <= p.seq)
      BY <2>3, <2>4, <3>1
    <3>3. e.seq <= e.seq
      BY <1>1
    <3> QED
      BY <3>1, <3>2, <3>3
  <2> QED
    BY <1>1, <1>2, <2>2, <2>4
<1> QED
  BY <1>4, <1>5 DEF NextEvents

\* Publish: types, the file and the subscription.
LEMMA PublishKeeps ==
    ASSUME TypeOK, FileInv, SubscriptionInv, NEW s \in Stream, NEW e \in Event, Publish(s, e)
    PROVE  TypeOK' /\ FileInv' /\ SubscriptionInv' /\ UNCHANGED <<log, browser>>
<1>1. /\ doing[s] = "idle" /\ e \in NextEvents(s)
      /\ event' = [event EXCEPT ![s] = e] /\ doing' = [doing EXCEPT ![s] = "writing"]
      /\ open' = open \cup {s} /\ UNCHANGED <<log, browser, subscription, faults>>
  BY DEF Publish
<1>2. turns' = IF e.turn > turns THEN e.turn ELSE turns
  BY DEF Publish
<1>3. /\ turns \in 0..MaxTurns /\ doing \in [Stream -> Doing]
      /\ event \in [Stream -> Event \cup {Nothing}] /\ log \in Seq(Event \cup {Torn})
      /\ TurnsAreOwn /\ RecordedOnce
  BY DEF TypeOK, FileInv
<1>4. /\ turns \in Nat /\ e.turn \in Nat /\ e.seq \in Nat
      /\ \A t \in Stream : t # s => event[t].turn # e.turn
      /\ \A p : p.turn \in Int /\ p.seq \in Int /\ Past(p, s) =>
            /\ p.turn <= turns
            /\ p.turn = e.turn => ~(e.seq <= p.seq)
            /\ p # e
  BY <1>1, <1>3, NextIsLater
<1>5. turns' \in 0..MaxTurns /\ e.turn <= turns' /\ \A n \in Int : n <= turns => n <= turns'
  <2>1. PICK u \in Nat : u = IF e.turn > turns THEN e.turn ELSE turns
    BY <1>4
  <2>2. u \in 0..MaxTurns /\ e.turn <= u /\ \A n \in Int : n <= turns => n <= u
    BY <1>3, <1>4, <2>1, EventsAreTyped
  <2> QED
    BY <1>2, <2>1, <2>2
<1>6. /\ event'[s] = e /\ doing'[s] = "writing"
      /\ \A t \in Stream : t # s => event'[t] = event[t] /\ doing'[t] = doing[t]
  BY <1>1, <1>3
<1>7. TypeOK'
  <2>1. event' \in [Stream -> Event \cup {Nothing}]
    BY <1>1, <1>3
  <2>2. doing' \in [Stream -> Doing]
    BY <1>1, <1>3 DEF Doing
  <2>3. open' \subseteq Stream \cup {Torn}
    BY <1>1 DEF TypeOK
  <2> QED
    BY <1>1, <1>5, <2>1, <2>2, <2>3 DEF TypeOK, browser, subscription
<1>8. TurnsAreOwn'
  <2>1. ASSUME NEW t \in Stream PROVE event'[t].turn <= turns'
    <3>1. event[t].turn \in Int /\ event[t].turn <= turns
      BY <1>3, EventsAreTyped DEF TurnsAreOwn
    <3> QED
      BY <1>5, <1>6, <3>1
  <2>2. ASSUME NEW a \in Stream, NEW b \in Stream, a # b, event'[a].turn = event'[b].turn
        PROVE  event'[a] = Nothing
    BY <1>3, <1>4, <1>6, <2>2 DEF TurnsAreOwn
  <2>3. ASSUME NEW t \in Stream, doing'[t] # "idle" PROVE event'[t] # Nothing
    BY <1>3, <1>6, <2>3, EventsAreTyped DEF TurnsAreOwn
  <2> QED
    BY <2>1, <2>2, <2>3 DEF TurnsAreOwn
\* What was past stays past, and is not the new event.
<1>9. ASSUME NEW p, p.turn \in Int, p.seq \in Int, NEW t \in Stream, Past(p, t)
      PROVE  Past(p, t)' /\ (t = s => p # e /\ ~(p.turn = e.turn /\ e.seq <= p.seq))
  <2>1. p.turn <= turns'
    BY <1>5, <1>9 DEF Past
  <2>2. CASE t = s
    <3>1. p # e /\ ~(p.turn = e.turn /\ e.seq <= p.seq)
      BY <1>4, <1>9, <2>2
    <3>2. p.turn = e.turn => p.seq <= e.seq
      BY <1>4, <1>9, <3>1
    <3> QED
      BY <1>6, <2>1, <2>2, <3>1, <3>2 DEF Past
  <2>3. CASE t # s
    BY <1>6, <1>9, <2>1, <2>3 DEF Past
  <2> QED
    BY <2>2, <2>3
<1>10. RecordedOnce'
  <2>1. log' = log
    BY <1>1
  <2>2. ASSUME NEW i \in DOMAIN log, NEW t \in Stream, log[i] # Torn
        PROVE  Past(log[i], t)' /\ (doing'[t] = "writing" => log[i] # event'[t])
    <3>1. log[i] \in Event
      BY <1>3, <2>2, LenProperties, ElementOfSeq
    <3>2. Past(log[i], t) /\ log[i].turn \in Int /\ log[i].seq \in Int
      BY <1>3, <2>2, <3>1, EventsAreTyped DEF RecordedOnce
    <3>3. Past(log[i], t)' /\ (t = s => log[i] # e)
      BY <1>9, <2>1, <3>2 DEF Past
    <3>4. t # s => (doing[t] = "writing" => log[i] # event[t])
      BY <1>3, <2>2 DEF RecordedOnce
    <3> QED
      BY <1>6, <3>3, <3>4
  <2> QED
    BY <1>3, <2>1, <2>2 DEF RecordedOnce, Past
<1>11. /\ sub' = sub /\ since' = since /\ queue' = queue /\ heard' = heard /\ owed' = owed
       /\ OffersAreHeard /\ PositionIsPast /\ ComingIsPast /\ SubscriberMissesNoMilestone
  BY <1>1 DEF subscription, SubscriptionInv
<1>12. OffersAreHeard'
  BY <1>6, <1>11 DEF OffersAreHeard
<1>13. Watched \in Stream
  BY FeedAssumption
<1>14. PositionIsPast'
  <2> SUFFICES ASSUME sub # "none"
               PROVE  /\ Past(since, Watched)'
                      /\ doing'[Watched] \in {"writing", "offering"} => ~Seen(event'[Watched], since)
    BY <1>11 DEF PositionIsPast, Past, Seen
  <2>1. since.turn \in Int /\ since.seq \in Int
    BY EventsAreTyped DEF TypeOK
  <2>2. Past(since, Watched) /\ (doing[Watched] \in {"writing", "offering"} => ~Seen(event[Watched], since))
    BY <1>11 DEF PositionIsPast
  <2>3. /\ since.turn <= turns'
        /\ Watched = s => ~Seen(e, since)
        /\ since.turn = event'[Watched].turn => since.seq <= event'[Watched].seq
    BY <1>9, <1>11, <1>13, <2>1, <2>2 DEF Past, Seen
  <2> QED
    BY <1>6, <1>11, <1>13, <2>2, <2>3 DEF Past
<1>15. ComingIsPast'
  <2>1. Coming' = Coming
    BY <1>11 DEF Coming
  <2>2. ASSUME NEW d \in Elements(Coming) PROVE Unseen(d)'
    <3>1. d \in Event
      <4>1. heard \in Seq(Event) /\ queue \in Seq(Event)
        BY DEF TypeOK
      <4>2. Coming \in Seq(Event)
        BY <4>1, ConcatElements DEF Coming
      <4> QED
        BY <4>2, ElementsOf
    <3>2. Unseen(d)
      BY <1>11 DEF ComingIsPast
    <3>3. d.turn \in Int /\ d.seq \in Int
      BY <3>1, EventsAreTyped
    <3>4. Past(d, Watched)' /\ (Watched = s => d # e)
      BY <1>9, <1>13, <3>2, <3>3 DEF Unseen
    <3> QED
      BY <1>6, <1>13, <3>2, <3>4 DEF Unseen
  <2> QED
    BY <2>1, <2>2 DEF ComingIsPast
<1>16. SubscriberMissesNoMilestone'
  <2>1. Coming' = Coming
    BY <1>11 DEF Coming
  <2>2. \A d \in owed :
           d \in Elements(Coming) \/ (doing'[Watched] = "offering" /\ event'[Watched] = d)
    BY <1>1, <1>6, <1>11, <1>13 DEF SubscriberMissesNoMilestone
  <2> QED
    BY <1>11, <2>1, <2>2 DEF SubscriberMissesNoMilestone
<1> QED
  BY <1>1, <1>7, <1>8, <1>10, <1>12, <1>14, <1>15, <1>16 DEF FileInv, SubscriptionInv

\* The second half of publish, whether the line was written or not.
LEMMA OffersKeeps ==
    ASSUME TypeOK, FileInv, SubscriptionInv,
           NEW s \in Stream, doing[s] = "writing", Offers(s)
    PROVE  /\ TurnsAreOwn' /\ SubscriptionInv'
           /\ doing' \in [Stream -> Doing] /\ owed' \subseteq Event /\ event[s] \in Event
           /\ \A t \in Stream : t # s => doing'[t] = doing[t]
           /\ doing'[s] # "writing"
<1>1. /\ doing' = [doing EXCEPT ![s] = IF Registered(s) THEN "offering" ELSE "idle"]
      /\ owed' = IF Registered(s) /\ Kept(event[s]) THEN owed \cup {event[s]} ELSE owed
      /\ turns' = turns /\ event' = event /\ sub' = sub /\ since' = since
      /\ queue' = queue /\ heard' = heard
  BY DEF Offers
<1>2. /\ doing \in [Stream -> Doing] /\ event \in [Stream -> Event \cup {Nothing}]
      /\ owed \subseteq Event /\ TurnsAreOwn /\ Watched \in Stream
      /\ OffersAreHeard /\ PositionIsPast /\ ComingIsPast /\ SubscriberMissesNoMilestone
  BY FeedAssumption DEF TypeOK, FileInv, SubscriptionInv
<1>3. event[s] \in Event
  BY <1>2 DEF TurnsAreOwn
<1>4. /\ \A t \in Stream : t # s => doing'[t] = doing[t]
      /\ doing'[s] = IF Registered(s) THEN "offering" ELSE "idle"
      /\ doing' \in [Stream -> Doing]
  BY <1>1, <1>2 DEF Doing
<1>5. TurnsAreOwn'
  <2>1. \A t \in Stream : doing'[t] # "idle" => event[t] # Nothing
    BY <1>2, <1>3, <1>4, EventsAreTyped DEF TurnsAreOwn
  <2> QED
    BY <1>1, <1>2, <2>1 DEF TurnsAreOwn
<1>6. Coming' = Coming /\ \A p, t : Past(p, t)' <=> Past(p, t)
  BY <1>1 DEF Coming, Past
\* The stream was writing: what holds while it does still holds.
<1>7. doing'[Watched] \in {"writing", "offering"} => doing[Watched] \in {"writing", "offering"}
  BY <1>2, <1>4
<1>8. OffersAreHeard'
  <2>1. \A t \in Stream : doing'[t] \in {"offering", "waking"} => t = Watched /\ sub' # "none"
    BY <1>1, <1>2, <1>4 DEF OffersAreHeard, Registered
  <2>2. sub' = "none" => heard' = <<>> /\ queue' = <<>> /\ owed' = {}
    BY <1>1, <1>2 DEF OffersAreHeard, Registered
  <2>3. \A e \in owed' : Kept(e)
    BY <1>1, <1>2 DEF OffersAreHeard
  <2> QED
    BY <2>1, <2>2, <2>3 DEF OffersAreHeard
<1>9. PositionIsPast'
  BY <1>1, <1>2, <1>6, <1>7 DEF PositionIsPast, Past, Seen
<1>10. ComingIsPast'
  <2>1. \A e : Unseen(e) => Unseen(e)'
    BY <1>1, <1>6, <1>7 DEF Unseen
  <2> QED
    BY <1>2, <1>6, <2>1 DEF ComingIsPast
<1>11. SubscriberMissesNoMilestone'
  <2> SUFFICES ASSUME NEW e \in owed'
               PROVE  e \in Elements(Coming) \/ (doing'[Watched] = "offering" /\ event[Watched] = e)
    BY <1>1, <1>2, <1>6 DEF SubscriberMissesNoMilestone
  <2>1. CASE e \in owed
    <3>1. e \in Elements(Coming) \/ (doing[Watched] = "offering" /\ event[Watched] = e)
      BY <1>2, <2>1 DEF SubscriberMissesNoMilestone
    <3>2. doing[Watched] = "offering" => doing'[Watched] = "offering"
      BY <1>2, <1>4
    <3> QED
      BY <3>1, <3>2
  <2>2. CASE e \notin owed
    <3>1. Registered(s) /\ e = event[s]
      BY <1>1, <2>2
    <3>2. s = Watched /\ doing'[s] = "offering"
      BY <1>4, <3>1 DEF Registered
    <3> QED
      BY <3>1, <3>2
  <2> QED
    BY <2>1, <2>2
<1>12. owed' \subseteq Event
  BY <1>1, <1>2, <1>3
<1>13. doing'[s] # "writing"
  BY <1>4
<1> QED
  BY <1>3, <1>4, <1>5, <1>8, <1>9, <1>10, <1>11, <1>12, <1>13 DEF SubscriptionInv

\* The append fails.
LEMMA WriteFailsKeeps ==
    ASSUME TypeOK, FileInv, SubscriptionInv, NEW s \in Stream, WriteFails(s)
    PROVE  TypeOK' /\ FileInv' /\ SubscriptionInv' /\ UNCHANGED <<log, browser>>
<1>1. /\ doing[s] = "writing" /\ faults < MaxFaults /\ faults' = faults + 1 /\ Offers(s)
      /\ open' = IF s \in open THEN (open \ {s}) \cup {Torn} ELSE open
      /\ log' = log /\ UNCHANGED <<turns, event, sub, since, queue, ready, heard, browser>>
  BY DEF WriteFails, Offers
<1>2. /\ TurnsAreOwn' /\ SubscriptionInv'
      /\ doing' \in [Stream -> Doing] /\ owed' \subseteq Event
      /\ \A t \in Stream : t # s => doing'[t] = doing[t]
      /\ doing'[s] # "writing"
  BY <1>1, OffersKeeps
<1>3. faults' \in 0..MaxFaults
  <2>1. MaxFaults \in Nat /\ faults \in 0..MaxFaults
    BY FeedAssumption DEF TypeOK
  <2>2. faults + 1 \in 0..MaxFaults
    BY <1>1, <2>1
  <2> QED
    BY <1>1, <2>2
<1>4. open' \subseteq Stream \cup {Torn}
  BY <1>1 DEF TypeOK
<1>5. TypeOK'
  BY <1>1, <1>2, <1>3, <1>4 DEF TypeOK, browser
<1>6. RecordedOnce'
  BY <1>1, <1>2 DEF FileInv, RecordedOnce, Past
<1> QED
  BY <1>1, <1>2, <1>5, <1>6 DEF FileInv

\* The rest of the line is written.
LEMMA WrittenKeeps ==
    ASSUME TypeOK, FileInv, SubscriptionInv, NEW s \in Stream, Written(s),
           cursor \in 0..Len(log), lastId \in -1..Len(log), served \in 0..Len(log)
    PROVE  TypeOK' /\ FileInv' /\ SubscriptionInv'
<1> DEFINE x == IF open = {s} THEN event[s] ELSE Torn
<1> DEFINE n == Len(log)
<1>1. /\ doing[s] = "writing" /\ Offers(s) /\ log' = Append(log, x) /\ open' = {}
      /\ UNCHANGED <<turns, event, sub, since, queue, ready, heard, browser, faults>>
  BY DEF Written, Offers
<1>2. /\ TurnsAreOwn' /\ SubscriptionInv'
      /\ doing' \in [Stream -> Doing] /\ owed' \subseteq Event /\ event[s] \in Event
      /\ \A t \in Stream : t # s => doing'[t] = doing[t]
      /\ doing'[s] # "writing"
  BY <1>1, OffersKeeps
<1>3. /\ log \in Seq(Event \cup {Torn}) /\ x \in Event \cup {Torn} /\ n \in Nat
      /\ event \in [Stream -> Event \cup {Nothing}] /\ TurnsAreOwn /\ RecordedOnce
  BY <1>2, LenProperties DEF TypeOK, FileInv
<1> HIDE DEF n
<1>4. /\ log' \in Seq(Event \cup {Torn}) /\ Len(log') = n + 1
      /\ \A i \in 1..n : log'[i] = log[i]
      /\ log'[n + 1] = x
  <2> HIDE DEF x
  <2> QED
    BY <1>1, <1>3, AppendProperties DEF n
<1>5. DOMAIN log = 1..n /\ DOMAIN log' = 1..n + 1
  BY <1>3, <1>4, LenProperties DEF n
<1>6. TypeOK'
  <2>1. \A k \in -1..n : k \in -1..n + 1
    BY <1>3
  <2>2. \A k \in 0..n : k \in 0..n + 1
    BY <1>3
  <2>3. cursor' \in 0..Len(log') /\ lastId' \in -1..Len(log') /\ served' \in 0..Len(log')
    BY <1>1, <1>4, <2>1, <2>2 DEF browser, n
  <2> QED
    BY <1>1, <1>2, <1>4, <2>3 DEF TypeOK, browser
<1>7. RecordedOnce'
  <2>1. ASSUME NEW i \in 1..n, log[i] # Torn
        PROVE  x # log[i]
    BY <1>1, <1>3, <1>5, <2>1 DEF RecordedOnce
  <2>2. ASSUME NEW t \in Stream, event[s] # Nothing
        PROVE  Past(event[s], t) /\ (doing'[t] = "writing" => event[s] # event[t])
    <3>1. event[s].turn <= turns /\ event[s].seq <= event[s].seq
      BY <1>2, <1>3, EventsAreTyped DEF TurnsAreOwn
    <3>2. t # s => event[s].turn # event[t].turn
      BY <1>3, <2>2 DEF TurnsAreOwn
    <3> QED
      BY <1>2, <3>1, <3>2 DEF Past
  <2>3. PICK l : l = log' /\ l[n + 1] = x /\ \A i \in 1..n : l[i] = log[i]
    BY <1>4
  <2>4. ASSUME NEW i \in 1..n + 1, NEW t \in Stream, l[i] # Torn
        PROVE  Past(l[i], t)' /\ (doing'[t] = "writing" => l[i] # event'[t])
    <3>1. CASE i \in 1..n
      <4>1. l[i] = log[i]
        BY <2>3, <3>1
      <4>2. Past(log[i], t) /\ (doing[t] = "writing" => log[i] # event[t])
        BY <1>3, <1>5, <2>4, <3>1, <4>1 DEF RecordedOnce
      <4> QED
        BY <1>1, <1>2, <4>1, <4>2 DEF Past
    <3>2. CASE i = n + 1
      <4>1. l[i] = event[s]
        BY <2>3, <2>4, <3>2
      <4>2. event[s] # Nothing
        BY <1>2, EventsAreTyped
      <4>3. Past(event[s], t) /\ (doing'[t] = "writing" => event[s] # event[t])
        BY <2>2, <4>2
      <4> QED
        BY <1>1, <4>1, <4>3 DEF Past
    <3> QED
      BY <1>3, <3>1, <3>2
  <2>5. ASSUME NEW i \in 1..n + 1, NEW j \in 1..n + 1, i # j, l[i] # Torn
        PROVE  l[i] # l[j]
    <3>1. \A k \in 1..n + 1 : k \in 1..n \/ k = n + 1
      BY <1>3
    <3>2. CASE i \in 1..n /\ j \in 1..n
      BY <1>3, <2>3, <1>5, <2>5, <3>2 DEF RecordedOnce
    <3>3. CASE i \in 1..n /\ j = n + 1
      <4> HIDE DEF x
      <4> QED
        BY <2>3, <2>1, <2>5, <3>3
    <3>4. CASE i = n + 1 /\ j \in 1..n
      <4> HIDE DEF x
      <4> QED
        BY <2>3, <2>1, <2>5, <3>4
    <3> QED
      BY <2>5, <3>1, <3>2, <3>3, <3>4
  <2> QED
    BY <1>5, <2>3, <2>4, <2>5 DEF RecordedOnce, Past
<1> QED
  BY <1>2, <1>6, <1>7 DEF FileInv

\* A process dies.
LEMMA DiesKeeps ==
    ASSUME TypeOK, FileInv, SubscriptionInv, NEW s \in Stream, Dies(s)
    PROVE  TypeOK' /\ FileInv' /\ SubscriptionInv' /\ UNCHANGED <<log, browser>>
<1>1. /\ faults < MaxFaults /\ faults' = faults + 1
      /\ doing' = [doing EXCEPT ![s] = "idle"] /\ event' = [event EXCEPT ![s] = Nothing]
      /\ open' = IF s \in open THEN (open \ {s}) \cup {Torn} ELSE open
      /\ UNCHANGED <<log, turns, browser>>
  BY DEF Dies
<1>2. /\ doing \in [Stream -> Doing] /\ event \in [Stream -> Event \cup {Nothing}]
      /\ log \in Seq(Event \cup {Torn}) /\ turns \in 0..MaxTurns /\ Watched \in Stream
      /\ TurnsAreOwn /\ RecordedOnce
  BY FeedAssumption DEF TypeOK, FileInv
<1>3. /\ event'[s] = Nothing /\ doing'[s] = "idle"
      /\ \A t \in Stream : t # s => event'[t] = event[t] /\ doing'[t] = doing[t]
      /\ doing' \in [Stream -> Doing] /\ event' \in [Stream -> Event \cup {Nothing}]
  BY <1>1, <1>2 DEF Doing
<1>4. /\ s # Watched => UNCHANGED subscription
      /\ s = Watched => /\ sub' = "none" /\ since' = [turn |-> 0, seq |-> -1]
                        /\ queue' = <<>> /\ ready' = FALSE /\ heard' = <<>> /\ owed' = {}
  BY DEF Dies
<1>5. TypeOK'
  <2>1. faults' \in 0..MaxFaults
    <3>1. MaxFaults \in Nat /\ faults \in 0..MaxFaults
      BY FeedAssumption DEF TypeOK
    <3>2. faults < MaxFaults => faults + 1 \in 0..MaxFaults
      BY <3>1
    <3> QED
      BY <1>1, <3>1, <3>2
  <2>2. open' \subseteq Stream \cup {Torn}
    BY <1>1 DEF TypeOK
  <2>3. /\ sub' \in {"none", "waiting", "drained"}
        /\ since' \in [turn : 0..MaxTurns, seq : -1..MaxSeq]
        /\ queue' \in Seq(Event) /\ heard' \in Seq(Event)
        /\ owed' \subseteq Event /\ ready' \in BOOLEAN
    <3>1. CASE s # Watched
      BY <1>4, <3>1 DEF TypeOK, subscription
    <3>2. CASE s = Watched
      <4>1. [turn |-> 0, seq |-> -1] \in [turn : 0..MaxTurns, seq : -1..MaxSeq]
        BY EventsAreTyped
      <4>2. <<>> \in Seq(Event)
        OBVIOUS
      <4> QED
        BY <1>4, <3>2, <4>1, <4>2
    <3> QED
      BY <3>1, <3>2
  <2> QED
    BY <1>1, <1>3, <2>1, <2>2, <2>3 DEF TypeOK, browser
<1>6. TurnsAreOwn'
  <2>1. \A t \in Stream : event'[t].turn <= turns
    BY <1>2, <1>3, EventsAreTyped DEF TurnsAreOwn
  <2>2. ASSUME NEW a \in Stream, NEW b \in Stream, a # b, event'[a].turn = event'[b].turn
        PROVE  event'[a] = Nothing
    <3>1. CASE b = s
      <4>1. event'[a].turn = 0
        BY <1>3, <2>2, <3>1, EventsAreTyped
      <4> QED
        BY <1>3, <4>1, EventsAreTyped
    <3>2. CASE b # s
      BY <1>2, <1>3, <2>2, <3>2 DEF TurnsAreOwn
    <3> QED
      BY <3>1, <3>2
  <2>3. \A t \in Stream : doing'[t] # "idle" => event'[t] # Nothing
    BY <1>2, <1>3 DEF TurnsAreOwn
  <2> QED
    BY <1>1, <2>1, <2>2, <2>3 DEF TurnsAreOwn
<1>7. ASSUME NEW p, p.turn # 0, NEW t \in Stream, Past(p, t) PROVE Past(p, t)'
  BY <1>1, <1>3, <1>7, EventsAreTyped DEF Past
<1>8. RecordedOnce'
  <2>1. ASSUME NEW i \in DOMAIN log, NEW t \in Stream, log[i] # Torn
        PROVE  Past(log[i], t)' /\ (doing'[t] = "writing" => log[i] # event'[t])
    <3>1. log[i] \in Event
      BY <1>2, <2>1, LenProperties, ElementOfSeq
    <3>2. log[i].turn # 0
      BY <3>1, EventsAreTyped
    <3>3. Past(log[i], t) /\ (doing[t] = "writing" => log[i] # event[t])
      BY <1>2, <2>1 DEF RecordedOnce
    <3>4. Past(log[i], t)'
      BY <1>1, <1>7, <3>2, <3>3 DEF Past
    <3> QED
      BY <1>3, <3>3, <3>4
  <2> QED
    BY <1>1, <1>2, <2>1 DEF RecordedOnce, Past
<1>9. SubscriptionInv'
  <2>1. CASE s # Watched
    <3>1. /\ sub' = sub /\ since' = since /\ queue' = queue /\ heard' = heard /\ owed' = owed
          /\ event'[Watched] = event[Watched] /\ doing'[Watched] = doing[Watched]
      BY <1>2, <1>3, <1>4, <2>1 DEF subscription
    <3>2. Coming' = Coming /\ \A p : Past(p, Watched)' <=> Past(p, Watched)
      BY <1>1, <3>1 DEF Coming, Past
    <3>3. \A e : Unseen(e)' <=> Unseen(e)
      BY <3>1, <3>2 DEF Unseen
    <3>4. OffersAreHeard'
      BY <1>3, <3>1 DEF OffersAreHeard, SubscriptionInv
    <3>5. PositionIsPast' /\ SubscriberMissesNoMilestone'
      BY <1>1, <3>1, <3>2 DEF PositionIsPast, Past, Seen, SubscriberMissesNoMilestone, SubscriptionInv
    <3> QED
      BY <3>2, <3>3, <3>4, <3>5 DEF ComingIsPast, SubscriptionInv
  <2>2. CASE s = Watched
    <3>1. OffersAreHeard'
      BY <1>3, <1>4, <2>2 DEF OffersAreHeard, SubscriptionInv
    <3>2. Coming' = <<>>
      BY <1>4, <2>2 DEF Coming
    <3>3. ComingIsPast' /\ SubscriberMissesNoMilestone' /\ PositionIsPast'
      BY <1>4, <2>2, <3>2 DEF ComingIsPast, SubscriberMissesNoMilestone, PositionIsPast, Elements
    <3> QED
      BY <3>1, <3>3 DEF SubscriptionInv
  <2> QED
    BY <2>1, <2>2
<1> QED
  BY <1>1, <1>5, <1>6, <1>8, <1>9 DEF FileInv

-----------------------------------------------------------------------------
(* The subscription.                                                       *)

\* The records of the file are what its lines say, and differ as these do.
LEMMA RecordsElements ==
    ASSUME log \in Seq(Event \cup {Torn}), RecordedOnce
    PROVE  /\ Records(log) \in Seq(Event) /\ Distinct(Records(log))
           /\ \A e \in Elements(Records(log)) :
                 \E i \in DOMAIN log : log[i] = e /\ log[i] # Torn
           /\ \A i \in DOMAIN log : log[i] # Torn => log[i] \in Elements(Records(log))
<1> DEFINE r == Records(log)
<1> DEFINE n == Cardinality(Parsed(log))
<1> DEFINE line(k) == LineOfRecord(log, k)
<1>1. /\ n \in Nat /\ Parsed(log) \subseteq 1..Len(log)
      /\ r \in Seq((Event \cup {Torn}) \ {Torn}) /\ DOMAIN r = 1..n
      /\ \A k \in 1..n : line(k) \in Parsed(log) /\ r[k] = log[line(k)]
      /\ \A i, k \in 1..n : i < k => line(i) < line(k)
      /\ \A i \in Parsed(log) : \E k \in 1..n : line(k) = i
  BY RecordsAreLines
<1>2. r \in Seq(Event)
  <2>1. (Event \cup {Torn}) \ {Torn} \subseteq Event
    OBVIOUS
  <2> HIDE DEF r
  <2> QED
    BY <1>1, <2>1, SeqMonotonic
<1>3. DOMAIN log = 1..Len(log) /\ Len(log) \in Nat
      /\ \A i : i \in Parsed(log) <=> i \in DOMAIN log /\ log[i] # Torn
  BY LenProperties DEF Parsed
<1> HIDE DEF r, n, line
<1>4. Distinct(r)
  <2> SUFFICES ASSUME NEW i \in 1..n, NEW j \in 1..n, i # j PROVE r[i] # r[j]
    BY <1>1 DEF Distinct
  <2>1. line(i) # line(j)
    <3>1. line(i) \in Nat /\ line(j) \in Nat
      BY <1>1, <1>3
    <3>2. i < j \/ j < i
      BY <1>1
    <3> QED
      BY <1>1, <3>1, <3>2
  <2> QED
    BY <1>1, <1>3, <2>1 DEF RecordedOnce
<1>5. \A e \in Elements(r) : \E i \in DOMAIN log : log[i] = e /\ log[i] # Torn
  BY <1>1, <1>3 DEF Elements
<1>6. \A i \in DOMAIN log : log[i] # Torn => log[i] \in Elements(r)
  BY <1>1, <1>3 DEF Elements
<1> QED
  BY <1>2, <1>4, <1>5, <1>6 DEF r

\* Somebody subscribes, with the position they say they got to.
LEMMA SubscribeKeeps ==
    ASSUME TypeOK, FileInv, SubscriptionInv, NEW seq \in -1..MaxSeq, Subscribe(seq)
    PROVE  TypeOK' /\ SubscriptionInv' /\ UNCHANGED <<log, publishing, browser>>
<1> DEFINE recorded == Records(log)
<1> DEFINE turn == IF recorded = <<>> THEN 0 ELSE Last(recorded).turn
<1> DEFINE position == [turn |-> turn, seq |-> seq]
<1>1. /\ sub = "none" /\ doing[Watched] # "writing"
      /\ seq # -1 => \E e \in Elements(recorded) : e.turn = turn /\ e.seq = seq
      /\ since' = position /\ queue' = Replayed(recorded, position)
      /\ owed' = {e \in Elements(recorded) : Kept(e) /\ ~Seen(e, position)}
      /\ ready' = (queue' # <<>>) /\ sub' = "waiting"
      /\ UNCHANGED <<heard, file, publishing, browser, faults>>
  BY DEF Subscribe
<1>2. /\ log \in Seq(Event \cup {Torn}) /\ RecordedOnce /\ OffersAreHeard
      /\ Watched \in Stream /\ doing \in [Stream -> Doing]
      /\ event \in [Stream -> Event \cup {Nothing}] /\ turns \in 0..MaxTurns
  BY FeedAssumption DEF TypeOK, FileInv, SubscriptionInv
<1>3. /\ log' = log /\ turns' = turns /\ doing' = doing /\ event' = event /\ heard' = heard
      /\ open' = open
  BY <1>1 DEF file, publishing
<1>4. doing[Watched] = "idle" /\ heard = <<>>
  BY <1>1, <1>2 DEF OffersAreHeard, Doing
<1>5. /\ recorded \in Seq(Event) /\ Distinct(recorded)
      /\ \A e \in Elements(recorded) : \E i \in DOMAIN log : log[i] = e /\ log[i] # Torn
  BY <1>2, RecordsElements
<1>6. \A e \in Elements(recorded) : e \in Event /\ Past(e, Watched)
  BY <1>2, <1>5, ElementsOf DEF RecordedOnce
<1> HIDE DEF recorded
<1>7. turn \in 0..MaxTurns /\ turn <= turns
  <2>1. CASE recorded = <<>>
    BY <1>2, <2>1, EventsAreTyped
  <2>2. CASE recorded # <<>>
    <3>1. Len(recorded) \in 1..Len(recorded)
      BY <1>5, <2>2, EmptySeq
    <3>2. Last(recorded) \in Elements(recorded)
      BY <1>5, <3>1, ElementsOf DEF Last
    <3>3. Last(recorded).turn \in 1..MaxTurns /\ Last(recorded).turn <= turns
      BY <1>6, <3>2, EventsAreTyped DEF Past
    <3> QED
      BY <2>2, <3>3
  <2> QED
    BY <2>1, <2>2
<1>8. turn = event[Watched].turn => seq <= event[Watched].seq
  <2>1. CASE seq = -1
    BY <1>2, <2>1, EventsAreTyped
  <2>2. CASE seq # -1
    <3>1. PICK e \in Elements(recorded) : e.turn = turn /\ e.seq = seq
      BY <1>1, <2>2
    <3> QED
      BY <1>6, <3>1 DEF Past
  <2> QED
    BY <2>1, <2>2
<1> HIDE DEF turn
<1>9. position \in [turn : 0..MaxTurns, seq : -1..MaxSeq] /\ Past(position, Watched)
  BY <1>7, <1>8 DEF Past
<1> HIDE DEF position
<1>10. /\ queue' \in Seq(Event) /\ Distinct(queue')
       /\ \A e \in Elements(queue') : e \in Elements(recorded)
       /\ \A e \in Elements(recorded) : Kept(e) /\ ~Seen(e, position) => e \in Elements(queue')
  <2> DEFINE q == Replayed(recorded, position)
  <2>1. /\ q \in Seq(Event) /\ Distinct(q)
        /\ \A e \in Elements(q) : e \in Elements(recorded)
        /\ \A e \in Elements(recorded) : Kept(e) /\ ~Seen(e, position) => e \in Elements(q)
    BY <1>5, ReplayedElements
  <2> HIDE DEF q
  <2> QED
    BY <1>1, <2>1 DEF q
<1>11. TypeOK'
  <2>1. owed' \subseteq Event
    BY <1>1, <1>6
  <2> QED
    BY <1>1, <1>3, <1>9, <1>10, <2>1 DEF TypeOK, browser
<1>12. Coming' = queue'
  BY <1>3, <1>4, <1>10, ConcatEmptySeq DEF Coming
<1>13. OffersAreHeard'
  BY <1>1, <1>2, <1>3 DEF OffersAreHeard
<1>14. PositionIsPast'
  BY <1>1, <1>3, <1>4, <1>9 DEF PositionIsPast, Past
<1>15. ComingIsPast'
  <2>1. \A e \in Elements(queue') : Past(e, Watched)
    BY <1>6, <1>10
  <2> QED
    BY <1>3, <1>4, <1>12, <2>1 DEF ComingIsPast, Unseen, Past
<1>16. SubscriberMissesNoMilestone'
  BY <1>1, <1>10, <1>12 DEF SubscriberMissesNoMilestone, Distinct
<1> QED
  BY <1>1, <1>3, <1>11, <1>13, <1>14, <1>15, <1>16 DEF SubscriptionInv

\* The event is offered.
LEMMA OfferKeeps ==
    ASSUME TypeOK, FileInv, SubscriptionInv, NEW s \in Stream, Offer(s)
    PROVE  TypeOK' /\ FileInv' /\ SubscriptionInv' /\ UNCHANGED <<log, browser>>
<1> DEFINE e == event[s]
<1>1. /\ doing[s] = "offering" /\ queue' = Offered(e, since, queue)
      /\ doing' = [doing EXCEPT ![s] = IF Seen(e, since) THEN "idle" ELSE "waking"]
      /\ UNCHANGED <<file, turns, event, browser, sub, since, ready, heard, owed, faults>>
  BY DEF Offer
<1>2. /\ doing \in [Stream -> Doing] /\ event \in [Stream -> Event \cup {Nothing}]
      /\ queue \in Seq(Event) /\ heard \in Seq(Event) /\ TurnsAreOwn /\ RecordedOnce
      /\ OffersAreHeard /\ PositionIsPast /\ ComingIsPast /\ SubscriberMissesNoMilestone
  BY DEF TypeOK, FileInv, SubscriptionInv
<1>3. /\ log' = log /\ open' = open /\ turns' = turns /\ event' = event /\ sub' = sub
      /\ since' = since /\ ready' = ready /\ heard' = heard /\ owed' = owed /\ faults' = faults
  BY <1>1 DEF file
<1>4. s = Watched /\ sub # "none" /\ e \in Event
  BY <1>1, <1>2 DEF OffersAreHeard, TurnsAreOwn
<1>5. ~Seen(e, since) /\ e \notin Elements(Coming)
  BY <1>1, <1>2, <1>4 DEF PositionIsPast, ComingIsPast, Unseen
<1>6. /\ doing'[s] = "waking" /\ doing' \in [Stream -> Doing]
      /\ \A t \in Stream : t # s => doing'[t] = doing[t]
  BY <1>1, <1>2, <1>5 DEF Doing
<1>7. /\ Coming \in Seq(Event) /\ Elements(Coming) = Elements(heard) \cup Elements(queue)
      /\ Distinct(Coming)
      /\ Distinct(heard) /\ Distinct(queue) /\ Elements(heard) \cap Elements(queue) = {}
  <2>1. Distinct(Coming)
    BY <1>2 DEF SubscriberMissesNoMilestone, Distinct
  <2> QED
    BY <1>2, <2>1, ConcatElements DEF Coming
<1> DEFINE q == Offered(e, since, queue)
<1>8. /\ q \in Seq(Event) /\ Distinct(q)
      /\ \A d \in Elements(q) : d \in Elements(queue) \/ d = e
      /\ \A d \in Elements(queue) : Kept(d) => d \in Elements(q)
      /\ Kept(e) => e \in Elements(q)
  BY <1>2, <1>4, <1>5, <1>7, OfferedElements
<1>9. /\ heard \o q \in Seq(Event) /\ Distinct(heard \o q)
      /\ Elements(heard \o q) = Elements(heard) \cup Elements(q)
  <2> HIDE DEF q
  <2>1. Elements(heard) \cap Elements(q) = {}
    BY <1>5, <1>7, <1>8
  <2> QED
    BY <1>2, <1>7, <1>8, <2>1, ConcatElements
<1> HIDE DEF q
<1>10. Coming' = heard \o q /\ queue' = q
  BY <1>1, <1>3 DEF Coming, q
<1>11. TypeOK'
  BY <1>1, <1>3, <1>6, <1>8, <1>10 DEF TypeOK, browser
<1>12. FileInv'
  <2>1. TurnsAreOwn'
    BY <1>2, <1>3, <1>4, <1>6, EventsAreTyped DEF TurnsAreOwn
  <2>2. RecordedOnce'
    BY <1>2, <1>3, <1>6 DEF RecordedOnce, Past
  <2> QED
    BY <2>1, <2>2 DEF FileInv
<1>13. OffersAreHeard'
  BY <1>2, <1>3, <1>4, <1>6 DEF OffersAreHeard
<1>14. PositionIsPast'
  BY <1>2, <1>3, <1>4, <1>6 DEF PositionIsPast, Past
<1>15. ComingIsPast'
  <2>1. Past(e, Watched)
    <3>1. e.turn <= turns /\ e.seq <= e.seq
      BY <1>2, <1>4, EventsAreTyped DEF TurnsAreOwn
    <3> QED
      BY <1>4, <3>1 DEF Past
  <2>2. ASSUME NEW d \in Elements(heard \o q) PROVE Past(d, Watched)
    <3>1. d \in Elements(Coming) \/ d = e
      BY <1>7, <1>8, <1>9
    <3> HIDE DEF e
    <3> QED
      BY <1>2, <2>1, <3>1 DEF ComingIsPast, Unseen
  <2> QED
    BY <1>3, <1>4, <1>6, <1>10, <2>2 DEF ComingIsPast, Unseen, Past
<1>16. SubscriberMissesNoMilestone'
  <2>1. ASSUME NEW d \in owed PROVE d \in Elements(heard \o q)
    <3>1. Kept(d) /\ (d \in Elements(Coming) \/ d = e)
      BY <1>2, <1>4, <2>1 DEF SubscriberMissesNoMilestone, OffersAreHeard
    <3> HIDE DEF e
    <3> QED
      BY <1>7, <1>8, <1>9, <3>1
  <2> QED
    BY <1>3, <1>9, <1>10, <2>1 DEF SubscriberMissesNoMilestone, Distinct
<1> QED
  BY <1>1, <1>3, <1>11, <1>12, <1>13, <1>14, <1>15, <1>16 DEF SubscriptionInv

\* The subscriber is woken.
LEMMA WakeKeeps ==
    ASSUME TypeOK, FileInv, SubscriptionInv, NEW s \in Stream, Wake(s)
    PROVE  TypeOK' /\ FileInv' /\ SubscriptionInv' /\ UNCHANGED <<log, browser>>
<1>1. /\ doing[s] = "waking" /\ ready' = TRUE /\ doing' = [doing EXCEPT ![s] = "idle"]
      /\ UNCHANGED <<file, turns, event, browser, sub, since, queue, heard, owed, faults>>
  BY DEF Wake
<1>2. /\ doing \in [Stream -> Doing] /\ event \in [Stream -> Event \cup {Nothing}]
      /\ Watched \in Stream /\ TurnsAreOwn /\ RecordedOnce
      /\ OffersAreHeard /\ PositionIsPast /\ ComingIsPast /\ SubscriberMissesNoMilestone
  BY FeedAssumption DEF TypeOK, FileInv, SubscriptionInv
<1>3. /\ log' = log /\ open' = open /\ turns' = turns /\ event' = event /\ sub' = sub
      /\ since' = since /\ queue' = queue /\ heard' = heard /\ owed' = owed /\ faults' = faults
  BY <1>1 DEF file
<1>4. /\ doing'[s] = "idle" /\ doing' \in [Stream -> Doing]
      /\ \A t \in Stream : t # s => doing'[t] = doing[t]
  BY <1>1, <1>2 DEF Doing
<1>5. TypeOK'
  BY <1>1, <1>3, <1>4 DEF TypeOK, browser
<1>6. FileInv'
  <2>1. TurnsAreOwn'
    BY <1>2, <1>3, <1>4 DEF TurnsAreOwn
  <2>2. RecordedOnce'
    BY <1>2, <1>3, <1>4 DEF RecordedOnce, Past
  <2> QED
    BY <2>1, <2>2 DEF FileInv
<1>7. Coming' = Coming /\ \A p : Past(p, Watched)' <=> Past(p, Watched)
  BY <1>3 DEF Coming, Past
<1>8. /\ doing'[Watched] \in {"writing", "offering"} => doing[Watched] \in {"writing", "offering"}
      /\ doing[Watched] = "offering" => doing'[Watched] = "offering"
  BY <1>1, <1>2, <1>4
<1>9. OffersAreHeard'
  BY <1>2, <1>3, <1>4 DEF OffersAreHeard
<1>10. PositionIsPast'
  BY <1>2, <1>3, <1>7, <1>8 DEF PositionIsPast, Past, Seen
<1>11. ComingIsPast'
  BY <1>2, <1>3, <1>7, <1>8 DEF ComingIsPast, Unseen
<1>12. SubscriberMissesNoMilestone'
  BY <1>2, <1>3, <1>7, <1>8 DEF SubscriberMissesNoMilestone
<1> QED
  BY <1>1, <1>3, <1>5, <1>6, <1>9, <1>10, <1>11, <1>12 DEF SubscriptionInv

\* drain, in its two halves: what is queued is handed out.
LEMMA HearsKeeps ==
    ASSUME TypeOK, SubscriptionInv, Hears
    PROVE  TypeOK' /\ SubscriptionInv' /\ UNCHANGED <<log, publishing, browser>>
<1>1. /\ UNCHANGED <<file, publishing, browser, since, owed, faults>>
      /\ sub \in {"waiting", "drained"} /\ sub' \in {"waiting", "drained"}
      /\ ready' = ready \/ ready' = FALSE
      /\ \/ heard' = heard \o queue /\ queue' = <<>>
         \/ heard' = heard /\ queue' = queue
  BY DEF Hears, Drain, Cleared
<1>2. heard \in Seq(Event) /\ queue \in Seq(Event)
  BY DEF TypeOK
<1>3. Coming' = Coming /\ heard' \in Seq(Event) /\ queue' \in Seq(Event)
  <2>1. heard \o queue \in Seq(Event) /\ (heard \o queue) \o <<>> = heard \o queue
    BY <1>2, ConcatElements, ConcatEmptySeq
  <2>2. <<>> \in Seq(Event)
    OBVIOUS
  <2>3. CASE heard' = heard \o queue /\ queue' = <<>>
    <3>1. Coming' = (heard \o queue) \o <<>>
      BY <2>3 DEF Coming
    <3> QED
      BY <2>1, <2>2, <2>3, <3>1 DEF Coming
  <2>4. CASE heard' = heard /\ queue' = queue
    BY <1>2, <2>4 DEF Coming
  <2> QED
    BY <1>1, <2>3, <2>4
<1>4. /\ log' = log /\ open' = open /\ turns' = turns /\ event' = event /\ doing' = doing
      /\ since' = since /\ owed' = owed /\ faults' = faults
  BY <1>1 DEF file, publishing
<1>5. TypeOK'
  BY <1>1, <1>3, <1>4 DEF TypeOK, browser
<1>6. SubscriptionInv'
  <2>1. OffersAreHeard'
    BY <1>1, <1>4 DEF SubscriptionInv, OffersAreHeard
  <2>2. PositionIsPast'
    BY <1>1, <1>4 DEF SubscriptionInv, PositionIsPast, Past, Seen
  <2>3. ComingIsPast'
    BY <1>3, <1>4 DEF SubscriptionInv, ComingIsPast, Unseen, Past
  <2>4. SubscriberMissesNoMilestone'
    BY <1>3, <1>4 DEF SubscriptionInv, SubscriberMissesNoMilestone
  <2> QED
    BY <2>1, <2>2, <2>3, <2>4 DEF SubscriptionInv
<1> QED
  BY <1>1, <1>4, <1>5, <1>6

-----------------------------------------------------------------------------
(* A batch.                                                                *)

\* The records up to some line, and how many can follow.
LEMMA RecordsFromALine ==
    ASSUME NEW n \in Nat, NEW P \in SUBSET (1..n), NEW a \in 1..n
    PROVE  LET before == Cardinality({j \in P : j < a}) IN
           /\ before \in Nat /\ Cardinality(P) \in Nat
           /\ Cardinality(P) <= before + (n - a + 1)
           /\ a..n \subseteq P => Cardinality(P) = before + (n - a + 1)
<1> DEFINE A == {j \in P : j < a}
<1> DEFINE B == {j \in P : ~(j < a)}
<1>1. IsFiniteSet(1..n) /\ IsFiniteSet(a..n) /\ Cardinality(a..n) = n - a + 1
  <2>1. a \in Int /\ n \in Int /\ 1 \in Int /\ ~(a > n)
    OBVIOUS
  <2> QED
    BY <2>1, FS_Interval
<1>2. A \subseteq P /\ B \subseteq a..n /\ P = A \cup B /\ A \cap B = {}
  <2>1. \A j \in 1..n : ~(j < a) => j \in a..n
    OBVIOUS
  <2> QED
    BY <2>1
<1>3. a..n \subseteq P => B = a..n
  <2>1. \A j \in a..n : ~(j < a)
    OBVIOUS
  <2> QED
    BY <1>2, <2>1
<1> HIDE DEF A, B
<1>4. IsFiniteSet(P) /\ IsFiniteSet(A) /\ IsFiniteSet(B) /\ Cardinality(B) <= n - a + 1
  <2>1. IsFiniteSet(P)
    BY <1>1, FS_Subset
  <2>2. A \in SUBSET P /\ B \in SUBSET P /\ B \in SUBSET (a..n)
    BY <1>2
  <2>3. IsFiniteSet(A) /\ IsFiniteSet(B)
    BY <2>1, <2>2, FS_Subset
  <2>4. Cardinality(B) <= Cardinality(a..n)
    BY <1>1, <2>2, FS_Subset
  <2> QED
    BY <1>1, <2>1, <2>3, <2>4
<1>5. Cardinality(P) = Cardinality(A) + Cardinality(B) - Cardinality(A \cap B)
  BY <1>2, <1>4, FS_Union
<1>6. Cardinality(A \cap B) = 0
  BY <1>2, FS_EmptySet
<1>7. Cardinality(A) \in Nat /\ Cardinality(B) \in Nat /\ Cardinality(P) \in Nat
  BY <1>4, FS_CardinalityType
<1>8. Cardinality(P) = Cardinality(A) + Cardinality(B)
  BY <1>5, <1>6, <1>7
<1>9. a..n \subseteq P => Cardinality(B) = n - a + 1
  BY <1>1, <1>3
<1>10. Cardinality(P) <= Cardinality(A) + (n - a + 1)
  BY <1>4, <1>7, <1>8
<1> QED
  BY <1>7, <1>8, <1>9, <1>10 DEF A

\* The frames of a batch are its records, each numbered with a line not before
\* its own; and a line up to that number is torn, in front of a torn one, or a
\* record of one of the frames so far.
LEMMA FramesAreLines ==
    ASSUME NEW lg \in Seq(Event \cup {Torn}), NEW v \in Nat, v < Len(lg)
    PROVE  LET N == Len(lg)
               fr == Frames(SubSeq(lg, v + 1, N), N)
           IN  \E R \in Nat : \E line \in [1..R -> v + 1..N] :
                 /\ fr \in Seq(Frame) /\ Len(fr) = R
                 /\ \A k \in 1..R :
                       /\ fr[k].event = lg[line[k]] /\ fr[k].event \in Event
                       /\ fr[k].id \in Nat /\ line[k] <= fr[k].id /\ fr[k].id <= N
                 /\ \A i, k \in 1..R : i < k => line[i] < line[k]
                 /\ \A n \in v + 1..N : lg[n] = Torn \/ \E k \in 1..R : line[k] = n
                 /\ \A k \in 1..R : \A n \in v + 1..fr[k].id :
                       \/ lg[n] = Torn
                       \/ \E m \in 1..k : line[m] = n
                       \/ \E j \in n + 1..N : lg[j] = Torn
<1> DEFINE N == Len(lg)
<1> DEFINE L == N - v
<1> DEFINE lines == SubSeq(lg, v + 1, N)
<1> DEFINE P == Parsed(lines)
<1> DEFINE R == Cardinality(P)
<1> DEFINE recs == Records(lines)
<1> DEFINE p(k) == LineOfRecord(lines, k)
<1> DEFINE fr == Frames(lines, N)
<1> DEFINE line == [k \in 1..R |-> v + p(k)]
<1>1. N \in Nat /\ L \in Nat /\ v < N /\ \A i \in 1..N : lg[i] \in Event \cup {Torn}
  <2>1. Len(lg) \in Nat /\ \A i \in 1..Len(lg) : lg[i] \in Event \cup {Torn}
    BY LenProperties, ElementOfSeq
  <2> QED
    BY <2>1
<1>2. /\ lines \in Seq(Event \cup {Torn}) /\ Len(lines) = L
      /\ \A i \in 1..L : lines[i] = lg[v + i] /\ v + i \in v + 1..N
  <2>1. v + 1 \in Int /\ N \in Int /\ v + 1 <= N /\ N - (v + 1) + 1 = L
    BY <1>1
  <2>2. \A i \in v + 1..N : lg[i] \in Event \cup {Torn}
    BY <1>1
  <2>3. \A i \in 1..L : v + 1 + i - 1 = v + i /\ v + i \in v + 1..N
    BY <1>1
  <2> HIDE DEF N, L
  <2>4. /\ lines \in Seq(Event \cup {Torn}) /\ Len(lines) = N - (v + 1) + 1
        /\ \A i \in 1..N - (v + 1) + 1 : lines[i] = lg[v + 1 + i - 1]
    BY <2>1, <2>2, SubSeqProperties
  <2> HIDE DEF lines
  <2> QED
    BY <2>1, <2>3, <2>4
<1> HIDE DEF lines
<1>3. /\ R \in Nat /\ P \subseteq 1..L /\ DOMAIN recs = 1..R /\ Len(recs) = R
      /\ \A k \in 1..R :
            /\ p(k) \in P /\ recs[k] = lines[p(k)]
            /\ Cardinality({j \in P : j < p(k)}) = k - 1
      /\ \A i, k \in 1..R : i < k => p(i) < p(k)
      /\ \A i \in P : \E k \in 1..R : p(k) = i
  BY <1>2, RecordsAreLines
<1>4. \A i : i \in P <=> i \in 1..L /\ lines[i] # Torn
  <2>1. DOMAIN lines = 1..L
    BY <1>2, LenProperties
  <2> QED
    BY <2>1 DEF Parsed
<1>5. fr = [i \in 1..R |-> [id |-> N - R + i, event |-> recs[i]]]
  BY <1>3 DEF Frames
<1> HIDE DEF P, R, recs, p, fr, N, L
<1>6. ASSUME NEW k \in 1..R
      PROVE  /\ p(k) \in 1..L /\ v + p(k) \in v + 1..N
             /\ fr[k].event = lg[v + p(k)] /\ fr[k].event \in Event
             /\ fr[k].id = N - R + k /\ p(k) <= L - R + k
  <2>1. p(k) \in 1..L /\ v + p(k) \in v + 1..N /\ lines[p(k)] = lg[v + p(k)] /\ lines[p(k)] # Torn
    BY <1>2, <1>3, <1>4
  <2>2. fr[k].event = lines[p(k)] /\ fr[k].id = N - R + k
    BY <1>3, <1>5
  <2>3. lines[p(k)] \in Event
    BY <1>2, <2>1, ElementOfSeq
  <2>4. R <= (k - 1) + (L - p(k) + 1)
    BY <1>1, <1>3, <2>1, RecordsFromALine DEF R
  <2>5. p(k) <= L - R + k
    BY <1>1, <1>3, <2>1, <2>4
  <2> QED
    BY <2>1, <2>2, <2>3, <2>5
<1>7. line \in [1..R -> v + 1..N]
  BY <1>6
<1>8. \A k \in 1..R : line[k] = v + p(k)
  OBVIOUS
<1> HIDE DEF line
<1>9. L = N - v
  BY DEF L
<1>10. ASSUME NEW k \in 1..R
       PROVE  fr[k].id \in Nat /\ line[k] <= fr[k].id /\ fr[k].id <= N
  <2>1. PICK a \in 1..L : a = p(k) /\ a <= L - R + k
    BY <1>6
  <2>2. N - R + k \in Nat /\ v + a <= N - R + k /\ N - R + k <= N
    BY <1>1, <1>3, <1>9, <2>1
  <2> QED
    BY <1>6, <1>8, <2>1, <2>2
<1>11. fr \in Seq(Frame) /\ Len(fr) = R
  <2>1. \A k \in 1..R : [id |-> N - R + k, event |-> recs[k]] \in Frame
    <3> TAKE k \in 1..R
    <3>1. N - R + k \in Nat /\ recs[k] \in Event
      BY <1>5, <1>6, <1>10
    <3> QED
      BY <3>1 DEF Frame
  <2> QED
    BY <1>3, <1>5, <2>1
<1>12. ASSUME NEW i \in 1..R, NEW k \in 1..R, i < k PROVE line[i] < line[k]
  <2>1. PICK a \in 1..L, b \in 1..L : a = p(i) /\ b = p(k) /\ a < b
    BY <1>3, <1>6, <1>12
  <2>2. v + a < v + b
    BY <1>1, <2>1
  <2> QED
    BY <1>8, <2>1, <2>2
\* Line n of the file is line n - v of the batch.
<1>13. ASSUME NEW n \in v + 1..N
       PROVE  n - v \in 1..L /\ v + (n - v) = n /\ lines[n - v] = lg[n]
  <2>1. n - v \in 1..L /\ v + (n - v) = n
    BY <1>1, <1>9
  <2> QED
    BY <1>2, <2>1
<1>14. ASSUME NEW n \in v + 1..N, lg[n] # Torn
       PROVE  \E k \in 1..R : p(k) = n - v /\ line[k] = n
  BY <1>3, <1>4, <1>8, <1>13, <1>14
<1>15. ASSUME NEW k \in 1..R, NEW n \in v + 1..N, n <= N - R + k, lg[n] # Torn,
              \A j \in n + 1..N : lg[j] # Torn
       PROVE  \E m \in 1..k : line[m] = n
  <2>1. PICK m \in 1..R : p(m) = n - v /\ line[m] = n
    BY <1>14, <1>15
  <2> DEFINE a == n - v
  <2>2. a \in 1..L /\ Cardinality({j \in P : j < a}) = m - 1
    BY <1>3, <1>13, <2>1
  <2>3. ASSUME NEW j \in a..L PROVE j \in P
    <3>1. j \in 1..L /\ v + j \in n..N /\ v + j \in v + 1..N
      BY <1>1, <1>9, <2>2
    <3>2. lines[j] = lg[v + j] /\ lg[v + j] # Torn
      <4>1. v + j = n \/ v + j \in n + 1..N
        BY <1>1, <3>1
      <4> QED
        BY <1>2, <1>15, <3>1, <4>1
    <3> QED
      BY <1>4, <3>1, <3>2
  <2>4. m \in Int /\ k \in Int /\ n \in Int /\ v \in Int /\ N \in Int /\ R \in Int
        /\ L \in Nat /\ P \in SUBSET (1..L) /\ n <= N - R + k /\ L = N - v
    BY <1>1, <1>3, <1>9, <1>15
  <2>5. a = n - v
    OBVIOUS
  <2> HIDE DEF a
  <2>6. a..L \subseteq P
    BY <2>3
  <2>7. Cardinality(P) = Cardinality({j \in P : j < a}) + (L - a + 1)
    BY <2>2, <2>4, <2>6, RecordsFromALine
  <2>8. R = (m - 1) + (L - a + 1)
    BY <2>2, <2>7 DEF R
  <2>9. m <= k
    BY <2>4, <2>5, <2>8
  <2>10. m \in 1..k
    BY <2>4, <2>9
  <2> QED
    BY <2>1, <2>10
<1>16. \A k \in 1..R : \A n \in v + 1..fr[k].id :
          \/ lg[n] = Torn
          \/ \E m \in 1..k : line[m] = n
          \/ \E j \in n + 1..N : lg[j] = Torn
  <2> TAKE k \in 1..R
  <2>1. fr[k].id = N - R + k /\ N - R + k <= N /\ N - R + k \in Nat
    BY <1>6, <1>10
  <2> TAKE n \in v + 1..fr[k].id
  <2>2. n \in v + 1..N /\ n <= N - R + k
    BY <1>1, <2>1
  <2> QED
    BY <1>15, <2>2
<1>17. /\ \A k \in 1..R :
              /\ fr[k].event = lg[line[k]] /\ fr[k].event \in Event
              /\ fr[k].id \in Nat /\ line[k] <= fr[k].id /\ fr[k].id <= N
       /\ \A i, k \in 1..R : i < k => line[i] < line[k]
       /\ \A n \in v + 1..N : lg[n] = Torn \/ \E k \in 1..R : line[k] = n
  BY <1>6, <1>8, <1>10, <1>12, <1>14
<1>18. \E RR \in Nat : \E ln \in [1..RR -> v + 1..N] :
          /\ fr \in Seq(Frame) /\ Len(fr) = RR
          /\ \A k \in 1..RR :
                /\ fr[k].event = lg[ln[k]] /\ fr[k].event \in Event
                /\ fr[k].id \in Nat /\ ln[k] <= fr[k].id /\ fr[k].id <= N
          /\ \A i, k \in 1..RR : i < k => ln[i] < ln[k]
          /\ \A n \in v + 1..N : lg[n] = Torn \/ \E k \in 1..RR : ln[k] = n
          /\ \A k \in 1..RR : \A n \in v + 1..fr[k].id :
                \/ lg[n] = Torn
                \/ \E m \in 1..k : ln[m] = n
                \/ \E j \in n + 1..N : lg[j] = Torn
  <2> R \in Nat
    BY <1>3
  <2> line \in [1..R -> v + 1..N]
    BY <1>7
  <2> WITNESS R \in Nat
  <2> WITNESS line \in [1..R -> v + 1..N]
  <2> QED
    BY <1>11, <1>16, <1>17
<1> QED
  BY <1>18 DEF fr, N, lines

-----------------------------------------------------------------------------
(* The page.                                                               *)

\* What is shown, and behind it what is on its way.
LEMMA TrailOf ==
    ASSUME NEW sh \in Seq(Event), NEW fl \in Seq(Frame)
    PROVE  LET t == sh \o [k \in DOMAIN fl |-> fl[k].event] IN
           /\ t \in Seq(Event) /\ Len(sh) \in Nat /\ Len(fl) \in Nat
           /\ DOMAIN sh = 1..Len(sh) /\ DOMAIN fl = 1..Len(fl)
           /\ \A i \in 1..Len(sh) : i \in DOMAIN t /\ t[i] = sh[i]
           /\ \A k \in 1..Len(fl) :
                 Len(sh) + k \in DOMAIN t /\ t[Len(sh) + k] = fl[k].event /\ fl[k] \in Frame
           /\ \A i \in DOMAIN t : i \in 1..Len(sh) \/ \E k \in 1..Len(fl) : i = Len(sh) + k
           /\ \A i \in DOMAIN t : i \in Nat /\ t[i] \in Event /\ t[i] # Torn
<1> DEFINE evs == [k \in DOMAIN fl |-> fl[k].event]
<1> DEFINE t == sh \o evs
<1> DEFINE m == Len(sh)
<1> DEFINE n == Len(fl)
<1>1. /\ m \in Nat /\ n \in Nat /\ DOMAIN sh = 1..m /\ DOMAIN fl = 1..n
      /\ \A k \in 1..n : fl[k] \in Frame
  BY LenProperties, ElementOfSeq
<1>2. \A k \in 1..n : fl[k].event \in Event
  BY <1>1 DEF Frame
<1>3. evs \in Seq(Event) /\ Len(evs) = n
  <2> HIDE DEF n
  <2>1. evs = [k \in 1..n |-> fl[k].event]
    BY <1>1
  <2>2. evs \in [1..n -> Event]
    BY <1>2, <2>1
  <2> HIDE DEF evs
  <2> QED
    BY <1>1, <2>2
<1>4. \A k \in 1..n : evs[k] = fl[k].event
  BY <1>1
<1> HIDE DEF evs
<1>5. /\ t \in Seq(Event) /\ Len(t) = m + n
      /\ \A i \in 1..m + n : t[i] = IF i <= m THEN sh[i] ELSE evs[i - m]
  <2>1. /\ t \in Seq(Event) /\ Len(t) = Len(sh) + Len(evs)
        /\ \A i \in 1..Len(sh) + Len(evs) : t[i] = IF i <= Len(sh) THEN sh[i] ELSE evs[i - Len(sh)]
    BY <1>3, ConcatProperties
  <2>2. Len(evs) = n
    BY <1>3
  <2> HIDE DEF t, n
  <2> QED
    BY <2>1, <2>2
<1>6. DOMAIN t = 1..m + n /\ \A i \in 1..m + n : t[i] \in Event
  BY <1>5, LenProperties, ElementOfSeq
<1> HIDE DEF t, m, n
<1>7. \A i \in 1..m : i \in 1..m + n /\ t[i] = sh[i]
  BY <1>1, <1>5
<1>8. \A k \in 1..n : m + k \in 1..m + n /\ t[m + k] = fl[k].event
  <2> TAKE k \in 1..n
  <2>1. m + k \in 1..m + n /\ ~(m + k <= m) /\ (m + k) - m = k
    BY <1>1
  <2> QED
    BY <1>4, <1>5, <2>1
<1>9. \A i \in 1..m + n : i \in 1..m \/ \E k \in 1..n : i = m + k
  <2> TAKE i \in 1..m + n
  <2>1. CASE i <= m
    BY <1>1, <2>1
  <2>2. CASE ~(i <= m)
    <3>1. i - m \in 1..n /\ i = m + (i - m)
      BY <1>1, <2>2
    <3> QED
      BY <3>1
  <2> QED
    BY <2>1, <2>2
<1>10. \A i \in DOMAIN t : i \in Nat /\ t[i] \in Event /\ t[i] # Torn
  <2>1. \A i \in 1..m + n : i \in Nat
    OBVIOUS
  <2> QED
    BY <1>6, <2>1, EventsAreTyped
<1> QED
  BY <1>1, <1>5, <1>6, <1>7, <1>8, <1>9, <1>10 DEF m, n, t, evs

\* A trail that is the beginning of one that followed the file follows it.
LEMMA TrailPrefix ==
    ASSUME TrailFollows, log' = log,
           \A i \in DOMAIN Trail' : i \in DOMAIN Trail /\ Trail'[i] = Trail[i]
    PROVE  TrailFollows'
<1> PICK t : t = Trail'
  OBVIOUS
<1>1. \A i \in DOMAIN t : i \in DOMAIN Trail /\ t[i] = Trail[i]
  OBVIOUS
<1>2. /\ \A i \in DOMAIN t : \E n \in DOMAIN log : log[n] = t[i]
      /\ \A i, j \in DOMAIN t : i < j =>
            \A m, n \in DOMAIN log : log[m] = t[i] /\ log[n] = t[j] => m < n
  BY <1>1 DEF TrailFollows
<1> QED
  BY <1>2 DEF TrailFollows

\* What is shown follows the file: the first line of each is before the next's.
LEMMA ShownFollows ==
    TypeOK /\ TrailFollows => PageFollowsTheFile
<1> SUFFICES ASSUME TypeOK, TrailFollows PROVE PageFollowsTheFile
  OBVIOUS
<1>1. shown \in Seq(Event) /\ flight \in Seq(Frame)
  BY DEF TypeOK
<1>2. \A i \in DOMAIN shown : i \in DOMAIN Trail /\ Trail[i] = shown[i]
  BY <1>1, TrailOf DEF Trail
<1>3. \A i \in DOMAIN shown : LineOf(shown[i]) \in DOMAIN log /\ log[LineOf(shown[i])] = shown[i]
  BY <1>2 DEF TrailFollows, LineOf
<1> QED
  BY <1>2, <1>3 DEF TrailFollows, PageFollowsTheFile

\* A line is appended: nothing on the page or on its way to it is the new one.
LEMMA WrittenKeepsPage ==
    ASSUME TypeOK, FileInv, PageInv, NEW s \in Stream, Written(s)
    PROVE  PageInv'
<1> DEFINE x == IF open = {s} THEN event[s] ELSE Torn
<1> DEFINE n == Len(log)
<1>1. /\ doing[s] = "writing" /\ log' = Append(log, x)
      /\ UNCHANGED browser
  BY DEF Written, Offers
<1>2. /\ page' = page /\ shown' = shown /\ cursor' = cursor /\ lastId' = lastId
      /\ served' = served /\ flight' = flight
  BY <1>1 DEF browser
<1>3. /\ log \in Seq(Event \cup {Torn}) /\ n \in Nat /\ shown \in Seq(Event) /\ flight \in Seq(Frame)
      /\ event \in [Stream -> Event \cup {Nothing}] /\ TurnsAreOwn /\ RecordedOnce
      /\ served \in 0..n /\ cursor \in 0..n /\ lastId \in -1..n
  BY LenProperties DEF TypeOK, FileInv
<1>4. event[s] \in Event /\ x \in Event \cup {Torn}
  BY <1>1, <1>3 DEF TurnsAreOwn
<1>5. \A i \in DOMAIN log : log[i] # Torn => log[i] # x
  BY <1>1, <1>3 DEF RecordedOnce
<1> HIDE DEF x
<1>6. PICK l : /\ l = log' /\ l \in Seq(Event \cup {Torn}) /\ Len(l) = n + 1
               /\ (\A i \in 1..n : l[i] = log[i]) /\ l[n + 1] = x
  <2> DEFINE S == Event \cup {Torn}
  <2> DEFINE ap == Append(log, x)
  <2>1. log \in Seq(S) /\ x \in S
    BY <1>3, <1>4
  <2> HIDE DEF S
  <2>2. /\ ap \in Seq(S) /\ Len(ap) = n + 1
        /\ \A i \in 1..n : ap[i] = log[i]
        /\ ap[n + 1] = x
    BY <2>1, AppendProperties
  <2>3. ap = log'
    BY <1>1
  <2> HIDE DEF ap, n
  <2> QED
    BY <2>2, <2>3 DEF S
<1>7. DOMAIN log = 1..n /\ DOMAIN l = 1..n + 1
  BY <1>3, <1>6, LenProperties
<1> HIDE DEF n
\* A line that says what an earlier one does is not the new one.
<1>8. ASSUME NEW e \in Event, NEW a \in DOMAIN log, log[a] = e, NEW m \in DOMAIN l, l[m] = e
      PROVE  m \in DOMAIN log /\ log[m] = e
  <2>1. m \in 1..n \/ m = n + 1
    BY <1>3, <1>7, EventsAreTyped
  <2>2. m # n + 1
    BY <1>5, <1>6, <1>8, EventsAreTyped
  <2> QED
    BY <1>6, <1>7, <1>8, <2>1, <2>2
<1>9. Trail' = Trail /\ Trail \in Seq(Event) /\ \A i \in DOMAIN Trail : Trail[i] \in Event
  BY <1>2, <1>3, TrailOf DEF Trail
<1>10. /\ \A i \in DOMAIN Trail : \E m \in DOMAIN log : log[m] = Trail[i]
       /\ \A i, j \in DOMAIN Trail : i < j =>
             \A a, b \in DOMAIN log : log[a] = Trail[i] /\ log[b] = Trail[j] => a < b
  BY DEF PageInv, TrailFollows
<1>11. \A m \in DOMAIN log : m \in DOMAIN l /\ l[m] = log[m]
  BY <1>3, <1>6, <1>7
<1>12. TrailFollows'
  <2>1. ASSUME NEW i \in DOMAIN Trail PROVE \E m \in DOMAIN l : l[m] = Trail[i]
    BY <1>10, <1>11
  <2>2. ASSUME NEW i \in DOMAIN Trail, NEW j \in DOMAIN Trail, i < j,
               NEW a \in DOMAIN l, NEW b \in DOMAIN l, l[a] = Trail[i], l[b] = Trail[j]
        PROVE  a < b
    <3>1. a \in DOMAIN log /\ log[a] = Trail[i] /\ b \in DOMAIN log /\ log[b] = Trail[j]
      BY <1>8, <1>9, <1>10, <2>2
    <3> QED
      BY <1>10, <2>2, <3>1
  <2> QED
    BY <1>6, <1>9, <2>1, <2>2 DEF TrailFollows
<1>13. /\ \A i \in 1..Len(shown) : i \in DOMAIN Trail /\ Trail[i] = shown[i]
       /\ \A k \in 1..Len(flight) : Len(shown) + k \in DOMAIN Trail
                                  /\ Trail[Len(shown) + k] = flight[k].event
       /\ DOMAIN shown = 1..Len(shown) /\ DOMAIN flight = 1..Len(flight)
  BY <1>3, TrailOf DEF Trail
<1>14. ResumePoint' = ResumePoint
  BY <1>2 DEF ResumePoint
<1>15. PositionsAreReached'
  <2>1. /\ page # "connected" => flight = <<>>
        /\ page = "closed" => shown = <<>>
        /\ page = "connected" => ResumePoint <= served
        /\ \A k \in DOMAIN flight : flight[k].id <= served
    BY DEF PageInv, PositionsAreReached
  <2>2. ASSUME NEW i \in DOMAIN shown, NEW m \in DOMAIN l, l[m] = shown[i]
        PROVE  m <= ResumePoint
    <3>1. m \in DOMAIN log /\ log[m] = shown[i]
      BY <1>8, <1>9, <1>10, <1>13, <2>2
    <3> QED
      BY <2>2, <3>1 DEF PageInv, PositionsAreReached
  <2>3. ASSUME NEW k \in DOMAIN flight, NEW m \in DOMAIN l, l[m] = flight[k].event
        PROVE  m <= flight[k].id
    <3>1. m \in DOMAIN log /\ log[m] = flight[k].event
      BY <1>8, <1>9, <1>10, <1>13, <2>3
    <3> QED
      BY <2>3, <3>1 DEF PageInv, PositionsAreReached
  <2> QED
    BY <1>2, <1>6, <1>14, <2>1, <2>2, <2>3 DEF PositionsAreReached
<1>16. ASSUME NEW i \in 1..n PROVE Arrived(i) => Arrived(i)'
  <2>1. \A j \in i + 1..n : j \in i + 1..n + 1 /\ j \in 1..n
    BY <1>3
  <2>2. i <= n + 1
    BY <1>3
  <2> QED
    BY <1>2, <1>6, <2>1, <2>2 DEF Arrived, n
<1>17. FlightHasTheRest'
  <2>1. ASSUME NEW k, NEW i \in 1..n, OnItsWay(i, k) PROVE OnItsWay(i, k)'
    BY <1>2, <1>6, <1>16, <2>1 DEF OnItsWay
  <2>2. \A i \in 1..served : i \in 1..n
    BY <1>3
  <2>3. ASSUME NEW k \in DOMAIN flight PROVE \A i \in 1..flight[k].id : i \in 1..n
    <3>1. flight[k] \in Frame
      BY <1>3, <1>13, ElementOfSeq
    <3>2. flight[k].id \in Nat /\ flight[k].id <= served
      BY <3>1 DEF Frame, PageInv, PositionsAreReached
    <3> QED
      BY <1>3, <3>2
  <2> PICK f : f = Len(flight) /\ f = Len(flight')
    BY <1>2
  <2>4. page = "connected" => \A i \in 1..served : OnItsWay(i, f)'
    BY <2>1, <2>2 DEF PageInv, FlightHasTheRest
  <2>5. page = "connected" => \A k \in DOMAIN flight : \A i \in 1..flight[k].id : OnItsWay(i, k)'
    BY <2>1, <2>3 DEF PageInv, FlightHasTheRest
  <2> QED
    BY <1>2, <2>4, <2>5 DEF FlightHasTheRest, OnItsWay, Arrived
<1>18. MissedOnlyBeforeATornLine'
  <2>1. ResumePoint \in 0..n
    BY <1>3 DEF ResumePoint
  <2>2. \A i \in 1..ResumePoint : i \in 1..n
    BY <1>3, <2>1
  <2>3. page # "closed" => \A i \in 1..ResumePoint : Arrived(i)'
    BY <1>16, <2>2 DEF PageInv, MissedOnlyBeforeATornLine
  <2> QED
    BY <1>2, <1>14, <2>3 DEF MissedOnlyBeforeATornLine, Arrived
<1> QED
  BY <1>12, <1>15, <1>17, <1>18 DEF PageInv

\* The page is loaded: all records there are, and where the file ended.
LEMMA LoadKeeps ==
    ASSUME TypeOK, FileInv, PageInv, Load
    PROVE  TypeOK' /\ PageInv' /\ UNCHANGED <<log, publishing, subscription>>
<1> DEFINE r == Records(log)
<1> DEFINE n == Len(log)
<1>1. /\ page' = "loaded" /\ shown' = r /\ cursor' = n /\ lastId' = -1
      /\ served' = 0 /\ flight' = <<>>
      /\ drops' = drops \/ (drops < MaxDrops /\ drops' = drops + 1)
      /\ UNCHANGED <<file, publishing, subscription, faults>>
  BY DEF Load
<1>2. log \in Seq(Event \cup {Torn}) /\ n \in Nat /\ DOMAIN log = 1..n /\ RecordedOnce
  BY LenProperties DEF TypeOK, FileInv
<1>3. log' = log /\ open' = open
  BY <1>1 DEF file
<1>4. /\ r \in Seq(Event)
      /\ \A i \in DOMAIN log : log[i] # Torn => log[i] \in Elements(r)
  BY <1>2, RecordsElements
<1> DEFINE line(k) == LineOfRecord(log, k)
<1> DEFINE c == Cardinality(Parsed(log))
<1>5. /\ c \in Nat /\ DOMAIN r = 1..c
      /\ \A k \in 1..c : line(k) \in DOMAIN log /\ log[line(k)] = r[k] /\ r[k] # Torn
      /\ \A i, k \in 1..c : i < k => line(i) < line(k)
  <2>1. \A i \in Parsed(log) : i \in DOMAIN log /\ log[i] # Torn
    BY DEF Parsed
  <2>2. /\ c \in Nat /\ DOMAIN r = 1..c
        /\ \A k \in 1..c : line(k) \in Parsed(log) /\ r[k] = log[line(k)]
        /\ \A i, k \in 1..c : i < k => line(i) < line(k)
    <3>1. c \in Nat /\ DOMAIN r = 1..c
      BY <1>2, RecordsAreLines
    <3>2. \A k \in 1..c : line(k) \in Parsed(log) /\ r[k] = log[line(k)]
      BY <1>2, RecordsAreLines
    <3>3. \A i, k \in 1..c : i < k => line(i) < line(k)
      BY <1>2, RecordsAreLines
    <3> QED
      BY <3>1, <3>2, <3>3
  <2> HIDE DEF c, r, line
  <2> QED
    BY <2>1, <2>2
<1> HIDE DEF c
<1> HIDE DEF r, n, line
<1>6. TypeOK'
  <2>1. drops' \in 0..MaxDrops
    <3>1. MaxDrops \in Nat /\ drops \in 0..MaxDrops
      BY FeedAssumption DEF TypeOK
    <3>2. drops < MaxDrops => drops + 1 \in 0..MaxDrops
      BY <3>1
    <3> QED
      BY <1>1, <3>1, <3>2
  <2>2. cursor' \in 0..Len(log') /\ lastId' \in -1..Len(log') /\ served' \in 0..Len(log')
    BY <1>1, <1>2, <1>3 DEF n
  <2>3. <<>> \in Seq(Frame)
    OBVIOUS
  <2> QED
    BY <1>1, <1>3, <1>4, <2>1, <2>2, <2>3 DEF TypeOK, publishing, subscription
<1>7. \A i \in DOMAIN r, m \in DOMAIN log : log[m] = r[i] => m = line(i)
  BY <1>2, <1>5 DEF RecordedOnce
<1>8. PICK t : t = Trail' /\ DOMAIN t = DOMAIN r /\ \A i \in DOMAIN r : t[i] = r[i]
  <2> DEFINE tt == r \o [k \in DOMAIN <<>> |-> <<>>[k].event]
  <2>1. [k \in DOMAIN <<>> |-> <<>>[k].event] = <<>>
    OBVIOUS
  <2>2. Trail' = r \o <<>>
    BY <1>1, <2>1 DEF Trail
  <2>3. Trail' = r
    BY <1>4, <2>2, ConcatEmptySeq
  <2> QED
    BY <2>3
<1>9. TrailFollows'
  <2>1. \A i \in DOMAIN t : \E m \in DOMAIN log : log[m] = t[i]
    BY <1>5, <1>8
  <2>2. \A i, j \in DOMAIN t : i < j =>
           \A a, b \in DOMAIN log : log[a] = t[i] /\ log[b] = t[j] => a < b
    BY <1>5, <1>7, <1>8
  <2> QED
    BY <1>3, <1>8, <2>1, <2>2 DEF TrailFollows
<1>10. ResumePoint' = n
  BY <1>1 DEF ResumePoint
<1>11. PositionsAreReached'
  <2>1. \A m \in DOMAIN log : m <= n
    BY <1>2
  <2> QED
    BY <1>1, <1>3, <1>10, <2>1 DEF PositionsAreReached
<1>12. FlightHasTheRest'
  BY <1>1 DEF FlightHasTheRest
<1>13. MissedOnlyBeforeATornLine'
  <2>1. \A i \in 1..n : i <= n /\ (log[i] = Torn \/ log[i] \in Elements(r))
    BY <1>2, <1>4
  <2> QED
    BY <1>1, <1>3, <1>10, <2>1 DEF MissedOnlyBeforeATornLine, Arrived, n, Elements
<1> QED
  BY <1>1, <1>3, <1>6, <1>9, <1>11, <1>12, <1>13 DEF PageInv

\* A connection is made, from where the page got to, or lost.
LEMMA ConnectOrDropKeeps ==
    ASSUME TypeOK, PageInv, Connect \/ Drop
    PROVE  TypeOK' /\ PageInv' /\ UNCHANGED <<log, publishing, subscription>>
<1>1. /\ flight' = <<>> /\ page # "closed" /\ page' \in {"connected", "lost"}
      /\ page' = "connected" => served' = ResumePoint
      /\ served' = ResumePoint \/ served' = 0
      /\ drops' = drops \/ (drops < MaxDrops /\ drops' = drops + 1)
      /\ UNCHANGED <<file, publishing, shown, cursor, lastId, subscription, faults>>
  BY DEF Connect, Drop, ResumePoint
<1>2. log' = log /\ open' = open
  BY <1>1 DEF file
<1>3. /\ shown \in Seq(Event) /\ flight \in Seq(Frame) /\ Len(log) \in Nat
      /\ cursor \in 0..Len(log) /\ lastId \in -1..Len(log)
  BY LenProperties DEF TypeOK
<1>4. ResumePoint' = ResumePoint /\ ResumePoint \in 0..Len(log)
  BY <1>1, <1>3 DEF ResumePoint
<1>5. TypeOK'
  <2>1. drops' \in 0..MaxDrops
    <3>1. MaxDrops \in Nat /\ drops \in 0..MaxDrops
      BY FeedAssumption DEF TypeOK
    <3>2. drops < MaxDrops => drops + 1 \in 0..MaxDrops
      BY <3>1
    <3> QED
      BY <1>1, <3>1, <3>2
  <2>2. served' \in 0..Len(log)
    BY <1>1, <1>3, <1>4
  <2>3. <<>> \in Seq(Frame)
    OBVIOUS
  <2> QED
    BY <1>1, <1>2, <2>1, <2>2, <2>3 DEF TypeOK, publishing, subscription
<1>6. TrailFollows'
  <2>1. [k \in DOMAIN <<>> |-> <<>>[k].event] = <<>>
    OBVIOUS
  <2>2. Trail' = shown \o <<>>
    BY <1>1, <2>1 DEF Trail
  <2>3. Trail' = shown
    BY <1>3, <2>2, ConcatEmptySeq
  <2>4. \A i \in DOMAIN shown : i \in DOMAIN Trail /\ Trail[i] = shown[i]
    BY <1>3, TrailOf DEF Trail
  <2>5. \A i \in DOMAIN Trail' : i \in DOMAIN Trail /\ Trail'[i] = Trail[i]
    BY <2>3, <2>4
  <2> QED
    BY <1>2, <2>5, TrailPrefix DEF PageInv
<1>7. PositionsAreReached'
  <2>1. ResumePoint <= ResumePoint
    BY <1>3, <1>4
  <2>2. page' = "connected" => ResumePoint' <= served'
    BY <1>1, <1>4, <2>1
  <2>3. \A i \in DOMAIN shown, m \in DOMAIN log : log[m] = shown[i] => m <= ResumePoint
    BY DEF PageInv, PositionsAreReached
  <2> QED
    BY <1>1, <1>2, <1>4, <2>2, <2>3 DEF PositionsAreReached
<1>8. MissedOnlyBeforeATornLine'
  BY <1>1, <1>2, <1>4 DEF PageInv, MissedOnlyBeforeATornLine, Arrived
<1>9. FlightHasTheRest'
  <2>1. \A i \in 1..ResumePoint : Arrived(i)
    BY <1>1 DEF PageInv, MissedOnlyBeforeATornLine
  <2> QED
    BY <1>1, <1>2, <2>1 DEF FlightHasTheRest, OnItsWay, Arrived
<1> QED
  BY <1>1, <1>2, <1>5, <1>6, <1>7, <1>8, <1>9 DEF PageInv

\* The handler writes the next batch.
LEMMA PollKeeps ==
    ASSUME TypeOK, FileInv, PageInv, Poll
    PROVE  TypeOK' /\ PageInv' /\ UNCHANGED <<log, publishing, subscription>>
<1> DEFINE N == Len(log)
<1> DEFINE fr == Frames(SubSeq(log, served + 1, N), N)
<1>1. /\ page = "connected" /\ flight = <<>> /\ served < N /\ served' = N /\ flight' = fr
      /\ UNCHANGED <<file, publishing, page, shown, cursor, lastId, drops, subscription, faults>>
  BY DEF Poll
<1>2. /\ log \in Seq(Event \cup {Torn}) /\ N \in Nat /\ DOMAIN log = 1..N
      /\ shown \in Seq(Event) /\ served \in 0..N /\ served \in Nat /\ RecordedOnce
      /\ cursor \in 0..N /\ lastId \in -1..N
  BY LenProperties DEF TypeOK, FileInv
<1>3. log' = log /\ open' = open
  BY <1>1 DEF file
<1>4. PICK R \in Nat : \E ln \in [1..R -> served + 1..N] :
         /\ fr \in Seq(Frame) /\ Len(fr) = R
         /\ \A k \in 1..R :
               /\ fr[k].event = log[ln[k]] /\ fr[k].event \in Event
               /\ fr[k].id \in Nat /\ ln[k] <= fr[k].id /\ fr[k].id <= N
         /\ \A i, k \in 1..R : i < k => ln[i] < ln[k]
         /\ \A n \in served + 1..N : log[n] = Torn \/ \E k \in 1..R : ln[k] = n
         /\ \A k \in 1..R : \A n \in served + 1..fr[k].id :
               \/ log[n] = Torn
               \/ \E m \in 1..k : ln[m] = n
               \/ \E j \in n + 1..N : log[j] = Torn
  BY <1>1, <1>2, FramesAreLines
<1> HIDE DEF fr
<1>5. PICK line \in [1..R -> served + 1..N] :
         /\ fr \in Seq(Frame) /\ Len(fr) = R
         /\ \A k \in 1..R :
               /\ fr[k].event = log[line[k]] /\ fr[k].event \in Event
               /\ fr[k].id \in Nat /\ line[k] <= fr[k].id /\ fr[k].id <= N
         /\ \A i, k \in 1..R : i < k => line[i] < line[k]
         /\ \A n \in served + 1..N : log[n] = Torn \/ \E k \in 1..R : line[k] = n
         /\ \A k \in 1..R : \A n \in served + 1..fr[k].id :
               \/ log[n] = Torn
               \/ \E m \in 1..k : line[m] = n
               \/ \E j \in n + 1..N : log[j] = Torn
  BY <1>4
<1>6. DOMAIN fr = 1..R
  BY <1>5, LenProperties
<1>7. TypeOK'
  <2>1. served' \in 0..N
    BY <1>1, <1>2
  <2> QED
    BY <1>1, <1>3, <1>5, <2>1 DEF TypeOK, publishing, subscription
<1> HIDE DEF N
\* The line of a frame is one of the batch, and no other line says the same.
<1>8. ASSUME NEW k \in 1..R
      PROVE  /\ line[k] \in DOMAIN log /\ served < line[k]
             /\ \A m \in DOMAIN log : log[m] = fr[k].event => m = line[k]
  <2>1. line[k] \in 1..N /\ served < line[k]
    BY <1>2
  <2>2. log[line[k]] = fr[k].event /\ fr[k].event # Torn
    BY <1>5, EventsAreTyped
  <2> QED
    BY <1>2, <2>1, <2>2 DEF RecordedOnce
<1>9. ResumePoint' = ResumePoint /\ ResumePoint \in 0..N /\ ResumePoint <= served
  BY <1>1, <1>2 DEF ResumePoint, PageInv, PositionsAreReached
<1>10. \A i \in DOMAIN shown, m \in DOMAIN log : log[m] = shown[i] => m <= served
  BY <1>2, <1>9 DEF PageInv, PositionsAreReached
<1> DEFINE t == shown \o [k \in DOMAIN fr |-> fr[k].event]
<1>11. /\ Len(shown) \in Nat /\ DOMAIN shown = 1..Len(shown)
       /\ \A i \in 1..Len(shown) : i \in DOMAIN t /\ t[i] = shown[i]
       /\ \A k \in 1..R : t[Len(shown) + k] = fr[k].event
       /\ \A i \in DOMAIN t : i \in 1..Len(shown) \/ \E k \in 1..R : i = Len(shown) + k
       /\ \A i \in DOMAIN t : i \in Nat
  <2> shown \in Seq(Event) /\ fr \in Seq(Frame)
    BY <1>2, <1>5
  <2>1. Len(shown) \in Nat /\ DOMAIN shown = 1..Len(shown)
    BY TrailOf
  <2>2. \A i \in 1..Len(shown) : i \in DOMAIN t /\ t[i] = shown[i]
    BY TrailOf
  <2>3. \A k \in 1..Len(fr) : t[Len(shown) + k] = fr[k].event
    BY TrailOf
  <2>4. \A i \in DOMAIN t : i \in 1..Len(shown) \/ \E k \in 1..Len(fr) : i = Len(shown) + k
    BY TrailOf
  <2>5. \A i \in DOMAIN t : i \in Nat
    BY TrailOf
  <2> HIDE DEF t
  <2> QED
    BY <1>5, <2>1, <2>2, <2>3, <2>4, <2>5
<1>12. Trail' = t
  BY <1>1 DEF Trail
<1> HIDE DEF t
<1>13. TrailFollows'
  <2>1. /\ \A i \in 1..Len(shown) : i \in DOMAIN Trail /\ Trail[i] = shown[i]
        /\ TrailFollows
    <3>1. flight \in Seq(Frame)
      BY DEF TypeOK
    <3> QED
      BY <1>2, <3>1, TrailOf DEF Trail, PageInv
  <2>2. ASSUME NEW i \in DOMAIN t PROVE \E m \in DOMAIN log : log[m] = t[i]
    <3>1. CASE i \in 1..Len(shown)
      BY <1>11, <2>1, <3>1 DEF TrailFollows
    <3>2. CASE \E k \in 1..R : i = Len(shown) + k
      <4>1. PICK k \in 1..R : i = Len(shown) + k
        BY <3>2
      <4>2. t[i] = log[line[k]] /\ line[k] \in DOMAIN log
        BY <1>5, <1>8, <1>11, <4>1
      <4> QED
        BY <4>2
    <3> QED
      BY <1>11, <3>1, <3>2
  <2>3. ASSUME NEW i \in DOMAIN t, NEW j \in DOMAIN t, i < j,
               NEW a \in DOMAIN log, NEW b \in DOMAIN log, log[a] = t[i], log[b] = t[j]
        PROVE  a < b
    <3>1. CASE i \in 1..Len(shown) /\ j \in 1..Len(shown)
      BY <1>11, <2>1, <2>3, <3>1 DEF TrailFollows
    <3>2. CASE i \in 1..Len(shown) /\ \E k \in 1..R : j = Len(shown) + k
      <4>1. PICK k \in 1..R : j = Len(shown) + k
        BY <3>2
      <4>2. a <= served /\ b = line[k] /\ served < line[k]
        BY <1>8, <1>10, <1>11, <2>3, <3>2, <4>1
      <4>3. a \in Nat /\ b \in Nat
        BY <1>2
      <4> QED
        BY <1>2, <4>2, <4>3
    <3>3. CASE (\E k \in 1..R : i = Len(shown) + k) /\ (\E k \in 1..R : j = Len(shown) + k)
      <4>1. PICK k \in 1..R, l \in 1..R : i = Len(shown) + k /\ j = Len(shown) + l
        BY <3>3
      <4>2. k < l
        BY <1>11, <2>3, <4>1
      <4>3. t[i] = fr[k].event /\ t[j] = fr[l].event
        BY <1>11, <4>1
      <4>4. a = line[k] /\ b = line[l]
        BY <1>8, <2>3, <4>3
      <4>5. \A m, n \in 1..R : m < n => line[m] < line[n]
        BY <1>5
      <4> QED
        BY <4>2, <4>4, <4>5
    <3>4. CASE (\E k \in 1..R : i = Len(shown) + k) /\ j \in 1..Len(shown)
      BY <1>11, <2>3, <3>4
    <3> QED
      BY <1>11, <3>1, <3>2, <3>3, <3>4
  <2> QED
    BY <1>3, <1>12, <2>2, <2>3 DEF TrailFollows
<1>14. PositionsAreReached'
  <2>1. ResumePoint <= N
    BY <1>2, <1>9
  <2>2. \A i \in DOMAIN shown, m \in DOMAIN log : log[m] = shown[i] => m <= ResumePoint
    BY DEF PageInv, PositionsAreReached
  <2>3. ASSUME NEW k \in 1..R
        PROVE  fr[k].id <= N /\ \A m \in DOMAIN log : log[m] = fr[k].event => m <= fr[k].id
    BY <1>5, <1>8
  <2> QED
    BY <1>1, <1>3, <1>6, <1>9, <2>1, <2>2, <2>3 DEF PositionsAreReached
<1>15. \A i : Arrived(i)' <=> Arrived(i)
  BY <1>1, <1>3 DEF Arrived
<1>16. MissedOnlyBeforeATornLine'
  <2>1. \A i \in 1..ResumePoint : Arrived(i)'
    BY <1>1, <1>15 DEF PageInv, MissedOnlyBeforeATornLine
  <2> QED
    BY <1>9, <2>1 DEF MissedOnlyBeforeATornLine, Arrived
<1>17. \A i \in 1..served : Arrived(i)
  <2>1. Len(flight) = 0
    BY <1>1
  <2>2. \A i \in 1..served : OnItsWay(i, 0)
    BY <1>1, <2>1 DEF PageInv, FlightHasTheRest
  <2> QED
    BY <2>2 DEF OnItsWay
<1>18. FlightHasTheRest'
  <2> DEFINE Rest(n, k) == Arrived(n) \/ \E m \in 1..k : fr[m].event = log[n]
  <2>1. ASSUME NEW n \in 1..N PROVE Rest(n, R)
    <3>1. CASE n \in 1..served
      BY <1>17, <3>1
    <3>2. CASE n \in served + 1..N
      <4>1. CASE log[n] = Torn
        BY <1>2, <4>1 DEF Arrived, N
      <4>2. CASE \E k \in 1..R : line[k] = n
        BY <1>5, <4>2
      <4> QED
        BY <1>5, <3>2, <4>1, <4>2
    <3> QED
      BY <1>2, <3>1, <3>2
  <2>2. ASSUME NEW k \in 1..R, NEW n \in 1..fr[k].id PROVE Rest(n, k)
    <3>1. CASE n \in 1..served
      BY <1>17, <3>1
    <3>2. CASE n \in served + 1..fr[k].id
      <4>1. n <= N
        BY <1>2, <1>5, <3>2
      <4>2. CASE log[n] = Torn
        BY <4>1, <4>2 DEF Arrived, N
      <4>3. CASE \E m \in 1..k : line[m] = n
        <5>1. \A m \in 1..k : m \in 1..R
          OBVIOUS
        <5> QED
          BY <1>5, <4>3, <5>1
      <4>4. CASE \E j \in n + 1..N : log[j] = Torn
        BY <4>1, <4>4 DEF Arrived, N
      <4> QED
        BY <1>5, <3>2, <4>2, <4>3, <4>4
    <3> QED
      BY <1>2, <1>5, <3>1, <3>2
  <2> HIDE DEF Rest
  <2>3. \A n, k : Rest(n, k) => OnItsWay(n, k)'
    BY <1>1, <1>3, <1>15 DEF Rest, OnItsWay
  <2>4. \A n \in 1..N : OnItsWay(n, R)'
    BY <2>1, <2>3
  <2>5. \A k \in 1..R : \A n \in 1..fr[k].id : OnItsWay(n, k)'
    BY <2>2, <2>3
  <2>6. Len(flight') = R /\ DOMAIN flight' = 1..R
    BY <1>1, <1>5, <1>6
  <2> QED
    BY <1>1, <2>4, <2>5, <2>6 DEF FlightHasTheRest, OnItsWay, Arrived
<1> QED
  BY <1>1, <1>3, <1>7, <1>13, <1>14, <1>16, <1>18 DEF PageInv

\* The page gets the next frame, and with it the position it would resume at.
LEMMA ReceiveKeeps ==
    ASSUME TypeOK, PageInv, Receive
    PROVE  TypeOK' /\ PageInv' /\ UNCHANGED <<log, publishing, subscription>>
<1> DEFINE h == Head(flight)
<1> DEFINE N == Len(log)
<1> DEFINE c == Len(shown)
<1> DEFINE F == Len(flight)
<1>1. /\ page = "connected" /\ flight # <<>>
      /\ shown' = Append(shown, h.event) /\ lastId' = h.id /\ flight' = Tail(flight)
      /\ UNCHANGED <<file, publishing, page, cursor, served, drops, subscription, faults>>
  BY DEF Receive
<1>2. log' = log /\ open' = open
  BY <1>1 DEF file
<1>3. /\ log \in Seq(Event \cup {Torn}) /\ N \in Nat /\ DOMAIN log = 1..N
      /\ shown \in Seq(Event) /\ c \in Nat /\ DOMAIN shown = 1..c
      /\ flight \in Seq(Frame) /\ F \in Nat /\ DOMAIN flight = 1..F
      /\ served \in 0..N /\ cursor \in 0..N /\ lastId \in -1..N
  BY LenProperties DEF TypeOK
<1>4. /\ 1 \in 1..F /\ h = flight[1] /\ h \in Frame
      /\ Tail(flight) \in Seq(Frame) /\ Len(Tail(flight)) = F - 1
      /\ \A k \in 1..F - 1 : Tail(flight)[k] = flight[k + 1] /\ k + 1 \in 1..F
  <2>1. F # 0
    BY <1>1, <1>3, EmptySeq
  <2>2. 1 \in 1..F /\ \A k \in 1..F - 1 : k + 1 \in 1..F
    BY <1>3, <2>1
  <2>3. h = flight[1]
    BY <1>1, <1>3
  <2>4. /\ Tail(flight) \in Seq(Frame) /\ Len(Tail(flight)) = F - 1
        /\ \A k \in 1..Len(Tail(flight)) : Tail(flight)[k] = flight[k + 1]
    BY <1>1, <1>3, HeadTailProperties
  <2>5. flight[1] \in Frame
    BY <1>3, <2>2, ElementOfSeq
  <2> HIDE DEF h
  <2> QED
    BY <2>2, <2>3, <2>4, <2>5
<1>5. h.id \in Nat /\ h.event \in Event /\ h.id <= served
      /\ \A m \in DOMAIN log : log[m] = h.event => m <= h.id
  BY <1>3, <1>4 DEF Frame, PageInv, PositionsAreReached
<1> HIDE DEF h
<1>6. PICK sh : /\ sh = shown' /\ sh \in Seq(Event) /\ Len(sh) = c + 1
                /\ (\A i \in 1..c : sh[i] = shown[i]) /\ sh[c + 1] = h.event
  BY <1>1, <1>3, <1>5, AppendProperties
<1>7. PICK fl : /\ fl = flight' /\ fl \in Seq(Frame) /\ Len(fl) = F - 1
                /\ \A k \in 1..F - 1 : fl[k] = flight[k + 1] /\ k + 1 \in 1..F
  BY <1>1, <1>4
<1>8. DOMAIN sh = 1..c + 1 /\ DOMAIN fl = 1..F - 1
  BY <1>6, <1>7, LenProperties
<1> HIDE DEF N, c, F
<1>9. TypeOK'
  <2>1. lastId' \in -1..N /\ served' \in 0..N
    BY <1>1, <1>3, <1>5
  <2> QED
    BY <1>1, <1>2, <1>6, <1>7, <2>1 DEF TypeOK, N, publishing, subscription
\* The trail stays: its next frame has become its last shown event.
<1> DEFINE t == sh \o [k \in DOMAIN fl |-> fl[k].event]
<1>10. Trail' = t
  BY <1>6, <1>7 DEF Trail
<1>11. ASSUME NEW i \in DOMAIN t PROVE i \in DOMAIN Trail /\ t[i] = Trail[i]
  <2>1. /\ \A j \in 1..c : j \in DOMAIN Trail /\ Trail[j] = shown[j]
        /\ \A k \in 1..F : c + k \in DOMAIN Trail /\ Trail[c + k] = flight[k].event
    BY <1>3, TrailOf DEF Trail, c, F
  <2>2. /\ \A j \in 1..Len(sh) : t[j] = sh[j]
        /\ \A k \in 1..Len(fl) : t[Len(sh) + k] = fl[k].event
    BY <1>6, <1>7, TrailOf
  <2>3. i \in 1..Len(sh) \/ \E k \in 1..Len(fl) : i = Len(sh) + k
    BY <1>6, <1>7, TrailOf
  <2> HIDE DEF t
  <2>4. CASE i \in 1..c
    <3>1. i \in 1..c + 1
      BY <1>3, <2>4
    <3> QED
      BY <1>6, <2>1, <2>2, <2>4, <3>1
  <2>5. CASE i = c + 1
    <3>1. t[i] = h.event
      BY <1>3, <1>6, <2>2, <2>5
    <3> QED
      BY <1>4, <2>1, <2>5, <3>1
  <2>6. CASE \E k \in 1..F - 1 : i = (c + 1) + k
    <3>1. PICK k \in 1..F - 1 : i = (c + 1) + k
      BY <2>6
    <3>2. i = c + (k + 1)
      BY <1>3, <3>1
    <3>3. t[i] = flight[k + 1].event /\ k + 1 \in 1..F
      BY <1>6, <1>7, <2>2, <3>1
    <3> QED
      BY <2>1, <3>2, <3>3
  <2>7. i \in 1..c + 1 \/ \E k \in 1..F - 1 : i = (c + 1) + k
    BY <1>6, <1>7, <2>3
  <2>8. i \in 1..c + 1 => i \in 1..c \/ i = c + 1
    BY <1>3
  <2> QED
    BY <2>4, <2>5, <2>6, <2>7, <2>8
<1> HIDE DEF t
<1>12. TrailFollows'
  <2>1. \A i \in DOMAIN Trail' : i \in DOMAIN Trail /\ Trail'[i] = Trail[i]
    BY <1>10, <1>11
  <2> QED
    BY <1>2, <2>1, TrailPrefix DEF PageInv
<1>13. ResumePoint' = h.id
  <2>1. ~(-1 >= 0) /\ h.id >= 0
    BY <1>5
  <2> QED
    BY <1>1, <2>1 DEF ResumePoint
\* What is shown comes from lines before that of the frame.
<1>14. ASSUME NEW i \in 1..c + 1, NEW m \in DOMAIN log, log[m] = sh[i] PROVE m <= h.id
  <2>1. /\ \A j \in 1..c : j \in DOMAIN Trail /\ Trail[j] = shown[j]
        /\ c + 1 \in DOMAIN Trail /\ Trail[c + 1] = h.event
    BY <1>3, <1>4, TrailOf DEF Trail, c, F
  <2>2. CASE i = c + 1
    BY <1>5, <1>6, <1>14, <2>2
  <2>3. CASE i \in 1..c
    <3>1. PICK n \in DOMAIN log : log[n] = h.event
      BY <2>1 DEF PageInv, TrailFollows
    <3>2. log[m] = Trail[i] /\ i \in DOMAIN Trail /\ i < c + 1
      BY <1>3, <1>6, <1>14, <2>1, <2>3
    <3>3. m < n
      BY <2>1, <3>1, <3>2 DEF PageInv, TrailFollows
    <3>4. n <= h.id /\ m \in Nat /\ n \in Nat
      BY <1>3, <1>5, <3>1
    <3> QED
      BY <1>5, <3>3, <3>4
  <2> QED
    BY <1>3, <2>2, <2>3
<1>15. PositionsAreReached'
  <2>1. \A i \in DOMAIN sh, m \in DOMAIN log : log[m] = sh[i] => m <= h.id
    BY <1>8, <1>14
  <2>2. ASSUME NEW k \in DOMAIN fl
        PROVE  fl[k].id <= served /\ \A m \in DOMAIN log : log[m] = fl[k].event => m <= fl[k].id
    BY <1>3, <1>7, <1>8 DEF PageInv, PositionsAreReached
  <2> QED
    BY <1>1, <1>2, <1>5, <1>6, <1>7, <1>13, <2>1, <2>2 DEF PositionsAreReached
\* What arrived, or was to come with this frame, has arrived.
<1>16. \A e : e \in Elements(shown) \/ e = h.event => e \in Elements(sh)
  <2>1. \A i \in 1..c : i \in 1..c + 1
    BY <1>3
  <2>2. c + 1 \in 1..c + 1
    BY <1>3
  <2> QED
    BY <1>3, <1>6, <1>8, <2>1, <2>2 DEF Elements
<1>17. ASSUME NEW n, Arrived(n) \/ (n <= N /\ log[n] = h.event) PROVE Arrived(n)'
  BY <1>2, <1>6, <1>16, <1>17 DEF Arrived, N
<1>18. ASSUME NEW n, NEW k \in Nat, n <= N, OnItsWay(n, k + 1) PROVE OnItsWay(n, k)' \/ k + 1 > F
  <2>1. CASE Arrived(n)
    BY <1>17, <2>1 DEF OnItsWay
  <2>2. CASE \E m \in 1..k + 1 : flight[m].event = log[n] /\ k + 1 <= F
    <3>1. PICK m \in 1..k + 1 : flight[m].event = log[n] /\ k + 1 <= F
      BY <2>2
    <3>2. CASE m = 1
      BY <1>4, <1>17, <1>18, <3>1, <3>2 DEF OnItsWay
    <3>3. CASE m # 1
      <4>1. m - 1 \in 1..k /\ m - 1 \in 1..F - 1 /\ (m - 1) + 1 = m
        BY <1>3, <3>1, <3>3
      <4>2. fl[m - 1].event = log[n]
        BY <1>7, <3>1, <4>1
      <4> QED
        BY <1>2, <1>7, <4>1, <4>2 DEF OnItsWay
    <3> QED
      BY <3>2, <3>3
  <2>3. k + 1 <= F \/ k + 1 > F
    BY <1>3
  <2> QED
    BY <1>18, <2>1, <2>2, <2>3 DEF OnItsWay
<1>19. FlightHasTheRest'
  <2>1. PICK f \in Nat : f = F - 1 /\ f + 1 = F /\ ~(f + 1 > F)
    <3>1. F - 1 \in Nat /\ (F - 1) + 1 = F /\ ~((F - 1) + 1 > F)
      BY <1>3, <1>4
    <3> QED
      BY <3>1
  <2>2. ASSUME NEW k \in 1..F - 1, NEW n \in 1..fl[k].id PROVE OnItsWay(n, k)'
    <3>1. k \in Nat /\ k + 1 \in 1..F /\ ~(k + 1 > F) /\ fl[k] = flight[k + 1]
      BY <1>3, <1>7
    <3>2. OnItsWay(n, k + 1)
      BY <1>1, <1>3, <3>1 DEF PageInv, FlightHasTheRest
    <3>3. n <= N
      <4>1. flight[k + 1].id <= served /\ flight[k + 1] \in Frame
        BY <1>3, <3>1, ElementOfSeq DEF PageInv, PositionsAreReached, F
      <4>2. flight[k + 1].id \in Nat
        BY <4>1 DEF Frame
      <4> QED
        BY <1>3, <3>1, <4>1, <4>2
    <3> QED
      BY <1>18, <3>1, <3>2, <3>3
  <2>3. ASSUME NEW n \in 1..served PROVE OnItsWay(n, f)'
    <3>1. OnItsWay(n, F) /\ n <= N
      BY <1>1, <1>3 DEF PageInv, FlightHasTheRest, F
    <3>2. OnItsWay(n, f + 1)
      BY <2>1, <3>1
    <3> QED
      BY <1>18, <2>1, <3>1, <3>2
  <2>4. f = Len(flight')
    BY <1>7, <2>1
  <2> QED
    BY <1>1, <1>7, <1>8, <2>1, <2>2, <2>3, <2>4 DEF FlightHasTheRest, OnItsWay, Arrived
<1>20. MissedOnlyBeforeATornLine'
  <2>1. ASSUME NEW n \in 1..h.id PROVE Arrived(n)'
    <3>1. n <= N
      BY <1>3, <1>5
    <3>2. OnItsWay(n, 1)
      BY <1>1, <1>3, <1>4 DEF PageInv, FlightHasTheRest
    <3>3. Arrived(n) \/ log[n] = h.event
      BY <1>4, <3>2 DEF OnItsWay
    <3> QED
      BY <1>17, <3>1, <3>3
  <2> QED
    BY <1>13, <2>1 DEF MissedOnlyBeforeATornLine, Arrived
<1> QED
  BY <1>1, <1>2, <1>9, <1>12, <1>15, <1>19, <1>20 DEF PageInv

-----------------------------------------------------------------------------
(* The invariant, and what follows from it.                                *)

\* Nothing is recorded, offered or shown.
LEMMA FInvInit == Init => FInv
<1> SUFFICES ASSUME Init PROVE FInv
  OBVIOUS
<1>1. /\ log = <<>> /\ open = {} /\ turns = 0
      /\ doing = [s \in Stream |-> "idle"] /\ event = [s \in Stream |-> Nothing]
      /\ page = "closed" /\ shown = <<>> /\ cursor = 0 /\ lastId = -1
      /\ served = 0 /\ flight = <<>>
      /\ sub = "none" /\ since = [turn |-> 0, seq |-> -1]
      /\ queue = <<>> /\ ready = FALSE /\ heard = <<>> /\ owed = {}
      /\ faults = 0 /\ drops = 0
  BY DEF Init
<1>2. Watched \in Stream /\ MaxFaults \in Nat /\ MaxDrops \in Nat
  BY FeedAssumption
<1>3. TypeOK
  <2>1. since \in [turn : 0..MaxTurns, seq : -1..MaxSeq] /\ turns \in 0..MaxTurns
    BY <1>1, EventsAreTyped
  <2>2. doing \in [Stream -> Doing] /\ event \in [Stream -> Event \cup {Nothing}]
    BY <1>1 DEF Doing
  <2>3. Len(log) = 0 /\ faults \in 0..MaxFaults /\ drops \in 0..MaxDrops
    BY <1>1, <1>2
  <2>4. cursor \in 0..Len(log) /\ lastId \in -1..Len(log) /\ served \in 0..Len(log)
    BY <1>1, <2>3
  <2>5. /\ log \in Seq(Event \cup {Torn}) /\ shown \in Seq(Event) /\ flight \in Seq(Frame)
        /\ queue \in Seq(Event) /\ heard \in Seq(Event)
    BY <1>1
  <2> QED
    BY <1>1, <2>1, <2>2, <2>3, <2>4, <2>5 DEF TypeOK
<1>4. FileInv
  <2>1. \A s \in Stream : event[s] = Nothing /\ doing[s] = "idle"
    BY <1>1
  <2>2. TurnsAreOwn
    BY <1>1, <2>1, EventsAreTyped DEF TurnsAreOwn
  <2>3. RecordedOnce
    BY <1>1 DEF RecordedOnce
  <2> QED
    BY <2>2, <2>3 DEF FileInv
<1>5. SubscriptionInv
  <2>1. Coming = <<>>
    BY <1>1 DEF Coming
  <2>2. \A s \in Stream : doing[s] = "idle"
    BY <1>1
  <2> QED
    BY <1>1, <2>1, <2>2 DEF SubscriptionInv, OffersAreHeard, PositionIsPast, ComingIsPast,
                            SubscriberMissesNoMilestone, Elements
<1>6. PageInv
  <2>1. Trail = <<>>
    BY <1>1 DEF Trail
  <2> QED
    BY <1>1, <2>1 DEF PageInv, TrailFollows, PositionsAreReached, FlightHasTheRest,
                      MissedOnlyBeforeATornLine
<1> QED
  BY <1>3, <1>4, <1>5, <1>6 DEF FInv

\* Each step keeps what it changes, and leaves the rest alone.
LEMMA FInvStep == FInv /\ [Next]_vars => FInv'
<1> SUFFICES ASSUME FInv, [Next]_vars PROVE FInv'
  OBVIOUS
<1>1. TypeOK /\ FileInv /\ SubscriptionInv /\ PageInv
  BY DEF FInv
<1>2. ASSUME NEW s \in Stream, Publishes(s) \/ Offer(s) \/ Wake(s) \/ WriteFails(s) \/ Dies(s)
      PROVE  FInv'
  <2>1. TypeOK' /\ FileInv' /\ SubscriptionInv' /\ UNCHANGED <<log, browser>>
    BY <1>1, <1>2, PublishKeeps, OfferKeeps, WakeKeeps, WriteFailsKeeps, DiesKeeps DEF Publishes
  <2> QED
    BY <1>1, <2>1, PageKept DEF FInv
<1>3. ASSUME NEW s \in Stream, Written(s) PROVE FInv'
  <2>1. cursor \in 0..Len(log) /\ lastId \in -1..Len(log) /\ served \in 0..Len(log)
    BY <1>1 DEF TypeOK
  <2>2. TypeOK' /\ FileInv' /\ SubscriptionInv'
    BY <1>1, <1>3, <2>1, WrittenKeeps
  <2>3. PageInv'
    BY <1>1, <1>3, WrittenKeepsPage
  <2> QED
    BY <2>2, <2>3 DEF FInv
<1>4. ASSUME NEW seq \in -1..MaxSeq, Subscribe(seq) PROVE FInv'
  <2>1. TypeOK' /\ SubscriptionInv' /\ UNCHANGED <<log, publishing, browser>>
    BY <1>1, <1>4, SubscribeKeeps
  <2> QED
    BY <1>1, <2>1, FileKept, PageKept DEF FInv
<1>5. CASE Hears
  <2>1. TypeOK' /\ SubscriptionInv' /\ UNCHANGED <<log, publishing, browser>>
    BY <1>1, <1>5, HearsKeeps
  <2> QED
    BY <1>1, <2>1, FileKept, PageKept DEF FInv
<1>6. CASE Load \/ Connect \/ Poll \/ Receive \/ Drop
  <2>1. TypeOK' /\ PageInv' /\ UNCHANGED <<log, publishing, subscription>>
    BY <1>1, <1>6, LoadKeeps, ConnectOrDropKeeps, PollKeeps, ReceiveKeeps
  <2> QED
    BY <1>1, <2>1, FileKept, SubscriptionKept DEF FInv
<1>7. CASE UNCHANGED vars
  <2>1. UNCHANGED <<file, publishing, browser, subscription, faults>>
    BY <1>7 DEF vars
  <2>2. UNCHANGED <<log, publishing, browser, subscription>> /\ open' = open /\ faults' = faults
    BY <2>1 DEF file
  <2>3. TypeOK'
    BY <1>1, <2>2 DEF TypeOK, publishing, browser, subscription
  <2> QED
    BY <1>1, <2>2, <2>3, FileKept, PageKept, SubscriptionKept DEF FInv
<1> QED
  BY <1>2, <1>3, <1>4, <1>5, <1>6, <1>7 DEF Next, Carries, Follows

\* The whole invariant holds of every behaviour: shamsu/runtime/turn_stream.py
\* writes, replays and offers, and shamsu/webui/sse.py with static/app.js
\* carries the file to a page.
THEOREM FeedInvariant == Spec => []FInv
BY FInvInit, FInvStep, PTL DEF Spec

\* Every variable keeps its type: a position of the page (stream_cursor,
\* Last-Event-ID, consumed_lines) is never past the end of activity.jsonl, and
\* only events reach a queue or the page.
THEOREM TypeCorrect == Spec => []TypeOK
<1>1. FInv => TypeOK
  BY DEF FInv
<1> QED
  BY <1>1, FeedInvariant, PTL

\* Through loads, batches, lost connections and reconnects a page shows what
\* the file says in its order and each event once (tail_events numbers a batch
\* backwards, a resume starts after Last-Event-ID: sse.py:84-151).
THEOREM PageIsFaithful == Spec => []PageFollowsTheFile
<1>1. FInv => PageFollowsTheFile
  BY ShownFollows DEF FInv, PageInv
<1> QED
  BY <1>1, FeedInvariant, PTL

\* Where a page would resume, every line before it is on the page, torn, or in
\* front of a torn one (sse.py:84-151, the stream_cursor of api.py): no record is
\* lost in a file of whole lines.
THEOREM ResumeMissesOnlyBeforeATornLine == Spec => []MissedOnlyBeforeATornLine
<1>1. FInv => MissedOnlyBeforeATornLine
  BY DEF FInv, PageInv
<1> QED
  BY <1>1, FeedInvariant, PTL

\* A subscriber is handed, or has queued or on its way, every milestone it was
\* replayed or registered for, and nothing twice, whatever its queue drops
\* (Subscription.offer and subscribe, turn_stream.py).
THEOREM MilestonesAreDelivered == Spec => []SubscriberMissesNoMilestone
<1>1. FInv => SubscriberMissesNoMilestone
  BY DEF FInv, SubscriptionInv
<1> QED
  BY <1>1, FeedInvariant, PTL

=============================================================================
