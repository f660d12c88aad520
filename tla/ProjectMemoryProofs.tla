------------------------- MODULE ProjectMemoryProofs -------------------------
(***************************************************************************)
(* Proofs about ProjectMemory, for any number of sessions, texts, titles,  *)
(* phrases and operations: its types, that what was saved last is kept,    *)
(* that the ages tidying goes by are true, and that what was forgotten can *)
(* only come back from the index.                                          *)
(***************************************************************************)
EXTENDS ProjectMemory, SequenceTheorems, WellFoundedInduction, TLAPS

\* The functions of the sessions, which TypeOK describes pointwise.
Shapes ==
    /\ listed = [s \in Session |-> listed[s]]
    /\ doomed \in [Session -> SUBSET Id] /\ fading \in [Session -> SUBSET Id]

\* An operation inserts one row at most.
FewRows == Len(rows) <= ops

\* Of the rows that are the same memory one is active ...
OneActive ==
    \A i, j \in DOMAIN rows :
        rows[i].active /\ rows[j].active /\ Same(rows[i].text, rows[j].text) => i = j

\* ... and a row that was forgotten by its number never is again.
NumbersAreRows == \A i \in Id \cap tombs : i \in DOMAIN rows /\ ~rows[i].active

\* Only a session that acts has a snapshot.
Unlisted ==
    \A s \in Session :
        at[s] # "acting" => listed[s] = <<>> /\ doomed[s] = {} /\ fading[s] = {}

\* A row of a snapshot with the stamp it still has, has its age too.
SnapshotsAreOlder ==
    \A s \in Session : \A i \in DOMAIN listed[s] :
        /\ i \in DOMAIN rows
        /\ listed[s][i].stamp <= rows[i].stamp
        /\ listed[s][i].stamp = rows[i].stamp => listed[s][i].age = rows[i].age

NoActive(t) == \A i \in DOMAIN rows : rows[i].active => rows[i].text # t

\* What the tombstones and the table say of the last word on a text.
WordsAreTrue ==
    /\ \A t \in Text : word[t] = "gone" => HiddenText(t, tombs)
    /\ \A t \in Text : word[t] = "dropped" => NoActive(t)
    /\ \A s \in Session, t \in Text : since[s][t] = "dropped" => NoActive(t)

\* What a recall goes by hides what had been forgotten when it began.
ReadHides ==
    \A s \in Session, t \in Text :
        at[s] \in {"listing", "acting"} /\ since[s][t] = "gone" => HiddenText(t, read[s])

ListedAreVisible ==
    \A s \in Session : \A i \in DOMAIN listed[s] :
        /\ ~HiddenText(listed[s][i].text, read[s])
        /\ since[s][listed[s][i].text] # "dropped"

\* What the rows keep.
TableInv == TypeOK /\ Shapes /\ FewRows /\ OneActive /\ NumbersAreRows

MInv ==
    /\ TableInv
    /\ Unlisted /\ SnapshotsAreOlder /\ AgesAreTrue
    /\ SavedIsKept
    /\ WordsAreTrue /\ ReadHides /\ ListedAreVisible /\ ForgottenOnlyComesFromTheIndex

-----------------------------------------------------------------------------
\* A set of naturals has a least element.
LEMMA LeastOf ==
    ASSUME NEW T \in SUBSET Nat, T # {}
    PROVE  \E m \in T : \A k \in T : m <= k
<1> DEFINE R == {ss \in Nat \X Nat : ss[1] < ss[2]}
<1>1. IsWellFoundedOn(R, Nat)
  BY NatLessThanWellFounded DEF OpToRel
<1>2. \E m \in T : \A k \in T : ~(<<k, m>> \in R)
  <2> HIDE DEF R
  <2> QED
    BY <1>1, WFMin
<1>3. PICK m \in T : \A k \in T : ~(<<k, m>> \in R)
  BY <1>2
<1>4. ASSUME NEW k \in T PROVE m <= k
  <2>1. m \in Nat /\ k \in Nat
    OBVIOUS
  <2>2. ~(k < m)
    BY <1>3, <2>1
  <2> QED
    BY <2>1, <2>2
<1> QED
  BY <1>4

\* Max of some of the numbers up to n is one of them.
LEMMA MaxOf ==
    ASSUME NEW n \in Nat, NEW S \in SUBSET (1..n), S # {}
    PROVE  Max(S) \in S
<1> DEFINE T == {k \in Nat : \E i \in S : k = n - i}
<1>1. T \in SUBSET Nat /\ T # {}
  <2>1. PICK i \in S : TRUE
    OBVIOUS
  <2>2. n - i \in Nat
    OBVIOUS
  <2> QED
    BY <2>1, <2>2
<1>2. PICK m \in T : \A k \in T : m <= k
  <2> HIDE DEF T
  <2> QED
    BY <1>1, LeastOf
<1>3. PICK i \in S : m = n - i
  OBVIOUS
<1>4. ASSUME NEW j \in S PROVE i >= j
  <2>1. n - j \in T
    OBVIOUS
  <2>2. n - i <= n - j
    BY <1>2, <1>3, <2>1
  <2> QED
    BY <2>2
<1>5. \E x \in S : \A y \in S : x >= y
  BY <1>4
<1> QED
  BY <1>5 DEF Max

\* A function over the first numbers is a sequence.
LEMMA SeqOf ==
    ASSUME NEW S, NEW n \in Nat, NEW f \in [1..n -> S]
    PROVE  f \in Seq(S) /\ Len(f) = n /\ DOMAIN f = 1..n
BY SeqDef, LenProperties

\* The table, row by row.
LEMMA RowTypes ==
    ASSUME TypeOK
    PROVE  /\ Len(rows) \in Nat /\ DOMAIN rows = 1..Len(rows) /\ DOMAIN rows \subseteq Id
           /\ DOMAIN disused = DOMAIN rows
           /\ \A i \in DOMAIN rows : /\ i \in Nat /\ rows[i] \in Row /\ disused[i] \in 0..2
                                     /\ rows[i].text \in Text /\ rows[i].stamp \in Nat
                                     /\ rows[i].age \in 0..2
<1>1. /\ rows \in Seq(Row) /\ Len(rows) <= MaxOps
      /\ disused \in Seq(0..2) /\ Len(disused) = Len(rows)
  BY DEF TypeOK
<1>2. Len(rows) \in Nat /\ DOMAIN rows = 1..Len(rows) /\ DOMAIN disused = 1..Len(rows)
  BY <1>1, LenProperties
<1>3. \A i \in 1..Len(rows) : rows[i] \in Row /\ disused[i] \in 0..2
  BY <1>1, <1>2, ElementOfSeq
<1>4. 1..Len(rows) \subseteq Id
  BY <1>1, <1>2, MemoryAssumption DEF Id
<1> QED
  BY <1>2, <1>3, <1>4 DEF Row

\* Texts and phrases are no numbers.
LEMMA Apart ==
    /\ \A t \in Text : t \notin Phrase /\ t \notin Int
    /\ \A p \in Phrase : p \notin Int
    /\ Id \subseteq Int
BY MemoryAssumption DEF Id

-----------------------------------------------------------------------------
\* There is no row, no tombstone and no call at first.
LEMMA InitInv == Init => MInv
<1> SUFFICES ASSUME Init PROVE MInv
  OBVIOUS
<1> USE MemoryAssumption
<1>1. TypeOK
  BY LenProperties, EmptySeq DEF Init, TypeOK, Word, Id
<1>2. Shapes /\ FewRows /\ OneActive /\ NumbersAreRows
  BY EmptySeq DEF Init, Shapes, FewRows, OneActive, NumbersAreRows, Id
<1>3. Unlisted /\ SnapshotsAreOlder /\ AgesAreTrue /\ SavedIsKept
  BY DEF Init, Unlisted, SnapshotsAreOlder, AgesAreTrue, SavedIsKept
<1>4. WordsAreTrue /\ ReadHides /\ ListedAreVisible /\ ForgottenOnlyComesFromTheIndex
  BY DEF Init, WordsAreTrue, ReadHides, ListedAreVisible, ForgottenOnlyComesFromTheIndex,
         NoActive
<1> QED
  BY <1>1, <1>2, <1>3, <1>4 DEF MInv, TableInv

-----------------------------------------------------------------------------
(* What a transaction leaves of the table.                                 *)

\* Both tables after a step, of n rows.
TableTypes(n) ==
    /\ rows' \in Seq(Row) /\ Len(rows') = n /\ DOMAIN rows' = 1..n
    /\ disused' \in Seq(0..2) /\ Len(disused') = n

\* The row r is the one that holds t after a step that stores it.
Puts(t, r) ==
    /\ DOMAIN rows' = DOMAIN rows \cup {r}
    /\ rows'[r].active /\ rows'[r].text = t
    /\ \A i \in DOMAIN rows \ {r} :
          /\ rows'[i] = rows[i] /\ disused'[i] = disused[i]
          /\ rows[i].active => ~Same(rows[i].text, t)
    /\ r \notin tombs
    /\ \/ r \notin DOMAIN rows /\ rows'[r].age = disused'[r]
       \/ r \in DOMAIN rows /\ Same(rows[r].text, t) /\ rows'[r].stamp > rows[r].stamp
          /\ rows'[r].age = disused'[r]
       \/ r \in DOMAIN rows /\ rows'[r] = rows[r] /\ disused'[r] = disused[r]

\* Being the same memory is an equivalence.
LEMMA SameIsSame ==
    ASSUME NEW t, NEW u, NEW v
    PROVE  /\ Same(t, t) /\ (Same(t, u) => Same(u, t))
           /\ Same(t, u) /\ Same(u, v) => Same(t, v)
BY DEF Same, IsNote

\* Storing replaces the active row that is the same memory, or adds one.
LEMMA StoredPuts ==
    ASSUME TableInv, NEW t \in Text, Stored(t), Len(rows) < MaxOps
    PROVE  /\ \E r \in Id : Puts(t, r)
           /\ TableTypes(Len(rows)) \/ TableTypes(Len(rows) + 1)
<1>0. TypeOK /\ OneActive /\ NumbersAreRows /\ MaxOps \in Nat
  BY MemoryAssumption DEF TableInv
<1> DEFINE n == Len(rows)
<1>1. /\ n \in Nat /\ DOMAIN rows = 1..n /\ DOMAIN disused = 1..n /\ DOMAIN rows \subseteq Id
      /\ rows \in Seq(Row) /\ disused \in Seq(0..2) /\ Len(disused) = n
      /\ \A i \in DOMAIN rows : rows[i].stamp \in Nat /\ rows[i].text \in Text
  BY <1>0, RowTypes DEF TypeOK
<1>2. ASSUME NEW k \in Nat PROVE Fresh(t, k) \in Row
  BY DEF Fresh, Row
<1>3. CASE Known(t) = {}
  <2>1. rows' = Append(rows, Fresh(t, 0)) /\ disused' = Append(disused, 0)
    BY <1>3 DEF Stored
  <2>2. /\ rows' \in Seq(Row) /\ Len(rows') = n + 1 /\ rows'[n + 1] = Fresh(t, 0)
        /\ \A i \in 1..n : rows'[i] = rows[i]
    BY <1>1, <1>2, <2>1, AppendProperties
  <2>3. /\ disused' \in Seq(0..2) /\ Len(disused') = n + 1 /\ disused'[n + 1] = 0
        /\ \A i \in 1..n : disused'[i] = disused[i]
    BY <1>1, <2>1, AppendProperties
  <2>4. DOMAIN rows' = 1..n + 1 /\ n + 1 \in Id /\ n + 1 \notin 1..n
    BY <1>0, <1>1, <2>2, LenProperties DEF Id
  <2>5. n + 1 \notin tombs
    BY <1>0, <1>1, <2>4 DEF NumbersAreRows
  <2>6. \A i \in DOMAIN rows : rows[i].active => ~Same(rows[i].text, t)
    BY <1>3 DEF Known
  <2>7. rows'[n + 1].active /\ rows'[n + 1].text = t /\ rows'[n + 1].age = 0
    BY <2>2 DEF Fresh
  <2>8. DOMAIN rows' = DOMAIN rows \cup {n + 1}
    BY <1>1, <2>4
  <2>9. Puts(t, n + 1)
    BY <1>1, <2>2, <2>3, <2>4, <2>5, <2>6, <2>7, <2>8 DEF Puts
  <2> QED
    BY <2>2, <2>3, <2>4, <2>9 DEF TableTypes
<1>4. ASSUME NEW r \in Known(t)
      PROVE  /\ r \in DOMAIN rows /\ r \in Id /\ rows[r].active /\ Same(rows[r].text, t)
             /\ r \notin tombs
             /\ \A i \in DOMAIN rows \ {r} : rows[i].active => ~Same(rows[i].text, t)
  <2>1. r \in DOMAIN rows /\ r \in Id /\ rows[r].active /\ Same(rows[r].text, t)
    BY <1>1 DEF Known
  <2> QED
    BY <1>0, <2>1, SameIsSame DEF OneActive, NumbersAreRows
<1>5. CASE Known(t) # {} /\ IsNote(t)
  <2> DEFINE r == Max(Known(t))
  <2>1. r \in Known(t)
    BY <1>1, <1>5, MaxOf DEF Known
  <2> HIDE DEF r
  <2>2. /\ rows' = [rows EXCEPT ![r] = Fresh(t, @.stamp + 1)]
        /\ disused' = [disused EXCEPT ![r] = 0]
    BY <1>5 DEF Stored, r
  <2>3. r \in 1..n
    BY <1>1, <1>4, <2>1
  <2>4. Fresh(t, rows[r].stamp + 1) \in Row
    BY <1>1, <1>2, <2>3
  <2>5. rows' \in [1..n -> Row] /\ disused' \in [1..n -> 0..2]
    <3>1. rows \in [1..n -> Row] /\ disused \in [1..n -> 0..2]
      BY <1>1, ElementOfSeq, LenProperties
    <3> QED
      BY <2>2, <2>3, <2>4, <3>1
  <2>6. TableTypes(n)
    <3>1. rows' \in Seq(Row) /\ Len(rows') = n /\ DOMAIN rows' = 1..n
      BY <1>1, <2>5, SeqOf
    <3>2. disused' \in Seq(0..2) /\ Len(disused') = n
      BY <1>1, <2>5, SeqOf
    <3> QED
      BY <3>1, <3>2 DEF TableTypes
  <2>7. /\ rows'[r] = Fresh(t, rows[r].stamp + 1) /\ disused'[r] = 0
        /\ \A i \in 1..n : i # r => rows'[i] = rows[i] /\ disused'[i] = disused[i]
    BY <1>1, <2>2, <2>3
  <2>8. rows'[r].active /\ rows'[r].text = t /\ rows'[r].age = 0
        /\ rows'[r].stamp > rows[r].stamp
    BY <1>1, <2>3, <2>7 DEF Fresh
  <2>9. Puts(t, r)
    BY <1>1, <1>4, <2>1, <2>3, <2>6, <2>7, <2>8 DEF Puts, TableTypes
  <2> QED
    BY <1>4, <2>1, <2>6, <2>9
<1>6. CASE Known(t) # {} /\ ~IsNote(t)
  <2>1. PICK r \in Known(t) : TRUE
    BY <1>6
  <2>2. rows' = rows /\ disused' = disused
    BY <1>6 DEF Stored
  <2>3. rows[r].text = t
    BY <1>4, <1>6, <2>1 DEF Same, IsNote
  <2>4. Puts(t, r)
    BY <1>4, <2>1, <2>2, <2>3 DEF Puts
  <2> QED
    BY <1>1, <1>4, <2>1, <2>2, <2>4 DEF TableTypes
<1> QED
  BY <1>3, <1>5, <1>6

\* What every other step leaves of a row: its text, and no row comes back.
Withers ==
    /\ TableTypes(Len(rows)) /\ DOMAIN rows' = DOMAIN rows
    /\ \A i \in DOMAIN rows :
          rows'[i].text = rows[i].text /\ (rows'[i].active => rows[i].active)

\* What it leaves of the stamps.
Stamped ==
    \A i \in DOMAIN rows :
        /\ i \in DOMAIN rows' /\ rows[i].stamp <= rows'[i].stamp
        /\ rows'[i].stamp = rows[i].stamp => rows'[i].age = rows[i].age

\* Forgetting makes rows inactive and changes nothing else of them.
LEMMA ForgottenEffect ==
    ASSUME TableInv, NEW x, Forgotten(x), UNCHANGED disused
    PROVE  /\ Withers /\ Stamped /\ tombs' = tombs \cup {x}
           /\ \A i \in DOMAIN rows :
                 /\ rows'[i].age = rows[i].age
                 /\ rows'[i].active <=> rows[i].active /\ i \notin Taken(x)
<1>0. TypeOK
  BY DEF TableInv
<1>1. /\ Len(rows) \in Nat /\ DOMAIN rows = 1..Len(rows) /\ rows \in Seq(Row)
      /\ disused \in Seq(0..2) /\ Len(disused) = Len(rows)
      /\ \A i \in DOMAIN rows : rows[i] \in Row /\ rows[i].stamp \in Nat
  BY <1>0, RowTypes DEF TypeOK
<1>2. /\ DOMAIN rows' = DOMAIN rows
      /\ \A i \in DOMAIN rows :
            rows'[i] = IF i \in Taken(x) THEN [rows[i] EXCEPT !.active = FALSE] ELSE rows[i]
  BY DEF Forgotten
<1>3. ASSUME NEW i \in DOMAIN rows
      PROVE  /\ rows'[i] \in Row /\ rows'[i].text = rows[i].text
             /\ rows'[i].stamp = rows[i].stamp /\ rows'[i].age = rows[i].age
             /\ rows'[i].active <=> rows[i].active /\ i \notin Taken(x)
  <2>1. rows[i] \in Row
    BY <1>1
  <2>2. CASE i \in Taken(x)
    <3>1. rows'[i] = [rows[i] EXCEPT !.active = FALSE]
      BY <1>2, <2>2
    <3> QED
      BY <2>1, <2>2, <3>1 DEF Row
  <2>3. CASE i \notin Taken(x)
    BY <1>2, <2>1, <2>3
  <2> QED
    BY <2>2, <2>3
<1>4. rows' \in [1..Len(rows) -> Row]
  BY <1>1, <1>3 DEF Forgotten
<1>5. TableTypes(Len(rows))
  BY <1>1, <1>4, SeqOf DEF TableTypes
<1> QED
  BY <1>1, <1>2, <1>3, <1>5 DEF Withers, Stamped, Forgotten

\* A recall renews the rows it lists, if they are still as listed.
LEMMA TouchEffect ==
    ASSUME MInv, NEW s \in Session, Touch(s)
    PROVE  /\ Withers /\ Stamped
           /\ \A i \in DOMAIN rows :
                 /\ rows'[i].active <=> rows[i].active
                 /\ \/ rows'[i].age = disused'[i]
                    \/ rows'[i].age = rows[i].age /\ disused'[i] = disused[i]
<1>0. TypeOK
  BY DEF MInv, TableInv
<1>1. /\ Len(rows) \in Nat /\ DOMAIN rows = 1..Len(rows) /\ DOMAIN disused = DOMAIN rows
      /\ \A i \in DOMAIN rows : /\ rows[i] \in Row /\ disused[i] \in 0..2
                                /\ rows[i].stamp \in Nat /\ rows[i].text \in Text
  BY <1>0, RowTypes
<1>2. PICK chosen \in SUBSET DOMAIN listed[s] :
        LET used == {i \in chosen : rows[i].active /\ IsNote(rows[i].text)} IN
          /\ rows' = [i \in DOMAIN rows |->
                          IF i \in used THEN Fresh(rows[i].text, rows[i].stamp + 1)
                          ELSE rows[i]]
          /\ disused' = [i \in DOMAIN rows |-> IF i \in used THEN 0 ELSE disused[i]]
  BY DEF Touch
<1> DEFINE used == {i \in chosen : rows[i].active /\ IsNote(rows[i].text)}
<1>3. /\ rows' = [i \in DOMAIN rows |->
                     IF i \in used THEN Fresh(rows[i].text, rows[i].stamp + 1) ELSE rows[i]]
      /\ disused' = [i \in DOMAIN rows |-> IF i \in used THEN 0 ELSE disused[i]]
  BY <1>2
<1>4. \A i \in used : rows[i].active
  OBVIOUS
<1> HIDE DEF used
<1>5. ASSUME NEW i \in DOMAIN rows
      PROVE  /\ rows'[i] \in Row /\ disused'[i] \in 0..2 /\ rows'[i].text = rows[i].text
             /\ rows'[i].active <=> rows[i].active
             /\ rows[i].stamp <= rows'[i].stamp
             /\ rows'[i].stamp = rows[i].stamp => rows'[i].age = rows[i].age
             /\ \/ rows'[i].age = disused'[i]
                \/ rows'[i].age = rows[i].age /\ disused'[i] = disused[i]
  <2>1. CASE i \in used
    <3>1. rows'[i] = Fresh(rows[i].text, rows[i].stamp + 1) /\ disused'[i] = 0
      BY <1>3, <2>1
    <3> QED
      BY <1>1, <1>4, <2>1, <3>1 DEF Fresh, Row
  <2>2. CASE i \notin used
    BY <1>1, <1>3, <2>2
  <2> QED
    BY <2>1, <2>2
<1>6. rows' \in [1..Len(rows) -> Row] /\ disused' \in [1..Len(rows) -> 0..2]
  BY <1>1, <1>3, <1>5
<1>7. TableTypes(Len(rows)) /\ DOMAIN rows' = DOMAIN rows
  BY <1>1, <1>6, SeqOf DEF TableTypes
<1> QED
  BY <1>5, <1>7 DEF Withers, Stamped

\* A row whose tier is lowered keeps everything else but its stamp.
LEMMA Cooled ==
    ASSUME NEW r \in Row
    PROVE  LET cold == [r EXCEPT !.hot = FALSE, !.age = r.age, !.stamp = @ + 1]
           IN  /\ cold \in Row /\ cold.text = r.text /\ cold.active = r.active
               /\ cold.age = r.age /\ cold.stamp = r.stamp + 1
<1>1. /\ DOMAIN r = {"text", "active", "hot", "age", "stamp"}
      /\ r.text \in Text /\ r.active \in BOOLEAN /\ r.age \in 0..2 /\ r.stamp \in Nat
  BY DEF Row
<1> DEFINE a == [r EXCEPT !.hot = FALSE]
<1> DEFINE b == [a EXCEPT !.age = r.age]
<1> DEFINE c == [b EXCEPT !.stamp = @ + 1]
<1>2. /\ DOMAIN a = DOMAIN r /\ a.hot = FALSE /\ a.text = r.text
      /\ a.active = r.active /\ a.age = r.age /\ a.stamp = r.stamp
  BY <1>1
<1> HIDE DEF a
<1>3. /\ DOMAIN b = DOMAIN r /\ b.hot = FALSE /\ b.text = r.text
      /\ b.active = r.active /\ b.age = r.age /\ b.stamp = r.stamp
  BY <1>1, <1>2
<1> HIDE DEF b
<1>4. /\ DOMAIN c = DOMAIN r /\ c.hot = FALSE /\ c.text = r.text
      /\ c.active = r.active /\ c.age = r.age /\ c.stamp = r.stamp + 1
  BY <1>1, <1>3
<1>5. c = [text |-> c.text, active |-> c.active, hot |-> c.hot, age |-> c.age,
           stamp |-> c.stamp]
  BY <1>1, <1>4
<1> HIDE DEF c
<1>6. c \in Row
  <2>1. c.text \in Text /\ c.active \in BOOLEAN
    BY <1>1, <1>4, Zenon
  <2>2. c.hot \in BOOLEAN
    BY <1>4
  <2>3. c.age \in 0..2 /\ c.stamp \in Nat
    BY <1>1, <1>4
  <2> QED
    BY <1>5, <2>1, <2>2, <2>3 DEF Row
<1> QED
  BY <1>4, <1>6 DEF a, b, c

\* Tidying writes a tier back, unless the row was stamped since.
LEMMA ArchiveEffect ==
    ASSUME MInv, NEW s \in Session, NEW j \in Id, Archive(s, j)
    PROVE  /\ Withers /\ Stamped /\ disused' = disused
           /\ \A i \in DOMAIN rows :
                 /\ rows'[i].active <=> rows[i].active
                 /\ rows'[i].age = rows[i].age
<1>0. TypeOK /\ SnapshotsAreOlder
  BY DEF MInv, TableInv
<1>1. /\ Len(rows) \in Nat /\ DOMAIN rows = 1..Len(rows) /\ rows \in Seq(Row)
      /\ disused \in Seq(0..2) /\ Len(disused) = Len(rows)
      /\ \A i \in DOMAIN rows : rows[i] \in Row /\ rows[i].stamp \in Nat
  BY <1>0, RowTypes DEF TypeOK
<1>2. disused' = disused
  BY DEF Archive, history
<1>3. CASE rows' = rows
  BY <1>1, <1>2, <1>3 DEF Withers, Stamped, TableTypes
<1>4. CASE /\ rows[j].stamp = listed[s][j].stamp
           /\ rows' = [rows EXCEPT ![j].hot = FALSE, ![j].age = listed[s][j].age,
                                   ![j].stamp = @ + 1]
  <2>1. j \in DOMAIN listed[s] /\ j \in DOMAIN rows /\ listed[s][j] \in Row
    BY <1>0 DEF Archive, SnapshotsAreOlder, TypeOK
  <2>2. listed[s][j].age = rows[j].age
    BY <1>0, <1>4, <2>1 DEF SnapshotsAreOlder
  <2>3. /\ rows'[j] = [rows[j] EXCEPT !.hot = FALSE, !.age = rows[j].age, !.stamp = @ + 1]
        /\ \A i \in DOMAIN rows : i # j => rows'[i] = rows[i]
        /\ DOMAIN rows' = DOMAIN rows
    BY <1>1, <1>4, <2>1, <2>2
  <2>4. /\ rows'[j] \in Row /\ rows'[j].text = rows[j].text
        /\ rows'[j].active = rows[j].active /\ rows'[j].age = rows[j].age
        /\ rows'[j].stamp = rows[j].stamp + 1
    <3>1. rows[j] \in Row /\ rows[j].stamp \in Nat
      BY <1>1, <2>1
    <3> QED
      BY <2>3, <3>1, Cooled
  <2>5. rows' \in [1..Len(rows) -> Row]
    <3>1. rows \in [1..Len(rows) -> Row]
      BY <1>1, ElementOfSeq
    <3> QED
      BY <1>1, <1>4, <2>3, <2>4, <3>1
  <2>6. TableTypes(Len(rows))
    BY <1>1, <1>2, <2>5, SeqOf DEF TableTypes
  <2>7. \A i \in DOMAIN rows :
            /\ rows'[i].text = rows[i].text /\ rows'[i].active = rows[i].active
            /\ rows'[i].age = rows[i].age /\ rows[i].stamp <= rows'[i].stamp
    <3>1. \A i \in DOMAIN rows : rows[i].stamp \in Nat /\ (i = j \/ rows'[i] = rows[i])
      BY <1>1, <2>3
    <3> QED
      BY <2>4, <3>1
  <2> QED
    BY <1>2, <2>3, <2>6, <2>7 DEF Withers, Stamped
<1> QED
  BY <1>3, <1>4 DEF Archive

\* A period passes for every note at once.
LEMMA TimeEffect ==
    ASSUME TableInv, TimePasses
    PROVE  /\ Withers
           /\ \A i \in DOMAIN rows :
                 /\ rows'[i].active <=> rows[i].active
                 /\ rows[i].age = disused[i] => rows'[i].age = disused'[i]
<1>0. TypeOK
  BY DEF TableInv
<1>1. /\ Len(rows) \in Nat /\ DOMAIN rows = 1..Len(rows)
      /\ \A i \in DOMAIN rows : /\ rows[i] \in Row /\ disused[i] \in 0..2
                                /\ rows[i].age \in 0..2
  BY <1>0, RowTypes
<1>2. /\ rows' = [i \in DOMAIN rows |->
                     [rows[i] EXCEPT !.age = IF @ < 2 THEN @ + 1 ELSE 2]]
      /\ disused' = [i \in DOMAIN rows |-> IF disused[i] < 2 THEN disused[i] + 1 ELSE 2]
  BY DEF TimePasses, Aged
<1>3. ASSUME NEW i \in DOMAIN rows
      PROVE  /\ rows'[i] \in Row /\ disused'[i] \in 0..2 /\ rows'[i].text = rows[i].text
             /\ rows'[i].active <=> rows[i].active
             /\ rows[i].age = disused[i] => rows'[i].age = disused'[i]
  <2> DEFINE older == IF rows[i].age < 2 THEN rows[i].age + 1 ELSE 2
  <2>1. older \in 0..2
    BY <1>1
  <2>2. rows'[i] = [rows[i] EXCEPT !.age = older]
    BY <1>2
  <2>3. disused'[i] = (IF disused[i] < 2 THEN disused[i] + 1 ELSE 2) /\ disused'[i] \in 0..2
    BY <1>1, <1>2
  <2>4. rows[i].age = disused[i] => older = disused'[i]
    BY <2>3
  <2> HIDE DEF older
  <2> QED
    BY <1>1, <2>1, <2>2, <2>3, <2>4 DEF Row
<1>4. rows' \in [1..Len(rows) -> Row] /\ disused' \in [1..Len(rows) -> 0..2]
  BY <1>1, <1>2, <1>3
<1>5. TableTypes(Len(rows)) /\ DOMAIN rows' = DOMAIN rows
  BY <1>1, <1>4, SeqOf DEF TableTypes
<1> QED
  BY <1>3, <1>5 DEF Withers

-----------------------------------------------------------------------------
(* The steps, by what they do to the table.                                *)

StoresOne == \E t \in Text : Stored(t) /\ ops < MaxOps /\ ops' = ops + 1
ForgetsOnRequest == \E x \in Text \cup Phrase \cup DOMAIN rows : ForgottenOnRequest(x)
Expires == \E s \in Session, i \in Id : Expire(s, i)
Touches == \E s \in Session : Touch(s)
Archives == \E s \in Session, i \in Id : Archive(s, i)
LeavesTable == UNCHANGED <<rows, tombs, word, disused, lost>>

\* Every step is one of these to the table.
LEMMA StepKinds ==
    ASSUME MInv, [Next]_vars
    PROVE  StoresOne \/ ForgetsOnRequest \/ Expires \/ Touches \/ Archives \/ TimePasses
           \/ LeavesTable
<1> USE DEF store, history, LeavesTable
<1>1. ASSUME NEW t \in Text, Remember(t) PROVE StoresOne
  BY <1>1 DEF Remember, Begins, StoresOne
<1>2. ASSUME NEW s \in Session, NEW t \in Text, Save(s, t) PROVE StoresOne
  BY <1>2 DEF Save, Begins, StoresOne
<1>3. ASSUME NEW x \in Text \cup Phrase \cup Id, Forget(x) PROVE ForgetsOnRequest
  BY <1>3 DEF Forget, ForgetsOnRequest
<1>4. ASSUME NEW s \in Session, ForgetListed(s) PROVE ForgetsOnRequest
  <2>1. PICK i \in DOMAIN listed[s] : ForgottenOnRequest(i)
    BY <1>4 DEF ForgetListed
  <2>2. i \in DOMAIN rows
    BY <2>1 DEF MInv, SnapshotsAreOlder
  <2> QED
    BY <2>1, <2>2 DEF ForgetsOnRequest
<1>5. ASSUME NEW s \in Session, Touch(s) \/ \E i \in Id : Expire(s, i) \/ Archive(s, i)
      PROVE  Expires \/ Touches \/ Archives
  BY <1>5 DEF Expires, Touches, Archives
<1>6. ASSUME NEW s \in Session, Look(s) \/ List(s) \/ Brief(s) \/ Leave(s) PROVE LeavesTable
  BY <1>6 DEF Look, List, Brief, Leave
<1>7. ASSUME NEW s \in Session, NEW what, Begin(s, what) PROVE LeavesTable
  BY <1>7 DEF Begin
<1>8. ASSUME NEW t \in Text, Check(t) \/ Copy(t) PROVE LeavesTable
  BY <1>8 DEF Check, Copy
<1>9. CASE UNCHANGED vars
  BY <1>9 DEF vars
<1> HIDE DEF LeavesTable
<1> QED
  BY <1>1, <1>2, <1>3, <1>4, <1>5, <1>6, <1>7, <1>8, <1>9 DEF Next, Tidies

\* What a step that stores nothing leaves of the table and its tombstones.
Quiet ==
    /\ Withers /\ tombs \subseteq tombs'
    /\ \A i \in Id \cap tombs' : i \in tombs \/ (i \in DOMAIN rows /\ ~rows'[i].active)

\* A forget only makes rows inactive, and a number among the tombstones is that
\* of an inactive row.
LEMMA ForgetsQuietly ==
    ASSUME TableInv, NEW x \in Text \cup Phrase \cup DOMAIN rows, Forgotten(x), UNCHANGED disused
    PROVE  Quiet /\ tombs' \subseteq Text \cup Phrase \cup Id
<1>0. TypeOK
  BY DEF TableInv
<1>1. /\ Withers /\ tombs' = tombs \cup {x} /\ DOMAIN rows \subseteq Id
      /\ \A i \in DOMAIN rows : rows'[i].active <=> rows[i].active /\ i \notin Taken(x)
  BY <1>0, ForgottenEffect, RowTypes
<1>2. ASSUME x \in Id PROVE x \in DOMAIN rows /\ ~rows'[x].active
  <2>1. x \in DOMAIN rows
    BY <1>2, Apart
  <2> QED
    BY <1>1, <2>1 DEF Taken
<1> QED
  BY <1>0, <1>1, <1>2 DEF Quiet, TypeOK

\* What a step does to one row.
LEMMA RowStep ==
    ASSUME MInv, [Next]_vars
    PROVE  \/ StoresOne
           \/ Quiet /\ tombs' \subseteq Text \cup Phrase \cup Id
<1>0. TableInv /\ TypeOK /\ Unlisted /\ SnapshotsAreOlder
  BY DEF MInv, TableInv
<1> DEFINE Goal == Quiet /\ tombs' \subseteq Text \cup Phrase \cup Id
<1>1. CASE ForgetsOnRequest
  BY <1>0, <1>1, ForgetsQuietly DEF ForgetsOnRequest, ForgottenOnRequest
<1>2. CASE Expires
  <2>1. PICK s \in Session, i \in Id : Expire(s, i)
    BY <1>2 DEF Expires
  <2>2. i \in DOMAIN rows
    BY <1>0, <2>1 DEF Expire, TypeOK, SnapshotsAreOlder
  <2> QED
    BY <1>0, <2>1, <2>2, ForgetsQuietly DEF Expire
<1>3. ASSUME Withers, UNCHANGED tombs PROVE Goal
  BY <1>0, <1>3 DEF Quiet, TypeOK
<1>4. CASE Touches
  BY <1>3, <1>4, TouchEffect DEF Touches, Touch
<1>5. CASE Archives
  BY <1>3, <1>5, ArchiveEffect DEF Archives, Archive
<1>6. CASE TimePasses
  BY <1>0, <1>3, <1>6, TimeEffect DEF TimePasses
<1>7. CASE LeavesTable
  <2>1. Withers
    BY <1>0, <1>7, RowTypes DEF LeavesTable, Withers, TableTypes, TypeOK
  <2> QED
    BY <1>3, <1>7, <2>1 DEF LeavesTable
<1> QED
  BY <1>1, <1>2, <1>4, <1>5, <1>6, <1>7, StepKinds

\* The parts of TypeOK beside the table itself.
TypesOf ==
    /\ copies \subseteq Text /\ jobs \subseteq Text /\ copying \subseteq jobs
    /\ doing \in [Session -> {"nothing", "recall", "brief", "save", "forget"}]
    /\ at \in [Session -> {"idle", "looking", "listing", "acting"}]
    /\ note \in [Session -> 0..MaxOps]
    /\ read \in [Session -> SUBSET (Text \cup Phrase \cup Id)]
    /\ shown \in [Session -> SUBSET Text]
    /\ ops \in 0..MaxOps /\ periods \in 0..MaxPeriods

HistoryTypes ==
    /\ word \in [Text -> Word] /\ since \in [Session -> [Text -> Word]]
    /\ lost \subseteq Text

SnapshotTypes ==
    \A s \in Session :
        /\ DOMAIN listed[s] \subseteq Id
        /\ \A i \in DOMAIN listed[s] : listed[s][i] \in Row
        /\ doomed[s] \cup fading[s] \subseteq DOMAIN listed[s]

\* What is stored is the last word on its text.
LEMMA StoredHistory ==
    ASSUME TypeOK, NEW t \in Text, Stored(t)
    PROVE  HistoryTypes'
<1>1. \A s \in Session : [since[s] EXCEPT ![t] = "kept"] \in [Text -> Word]
  BY DEF TypeOK, Word
<1>2. since' \in [Session -> [Text -> Word]]
  BY <1>1 DEF Stored
<1>3. word' \in [Text -> Word]
  BY DEF TypeOK, Stored, Word
<1> QED
  BY <1>2, <1>3 DEF TypeOK, Stored, HistoryTypes

\* The history keeps its types.
LEMMA HistoryStep == MInv /\ [Next]_vars => HistoryTypes'
<1> SUFFICES ASSUME MInv, [Next]_vars PROVE HistoryTypes'
  OBVIOUS
<1>0. TypeOK /\ SnapshotsAreOlder
  BY DEF MInv, TableInv
<1>1. CASE StoresOne
  BY <1>0, <1>1, StoredHistory DEF StoresOne
<1>2. CASE ForgetsOnRequest
  BY <1>0, <1>2 DEF ForgetsOnRequest, ForgottenOnRequest, TypeOK, HistoryTypes, Word
<1>3. ASSUME NEW s \in Session, NEW i \in Id, Expire(s, i) PROVE HistoryTypes'
  <2>1. rows[i].text \in Text
    BY <1>0, <1>3, RowTypes DEF Expire, TypeOK, SnapshotsAreOlder
  <2> QED
    BY <1>0, <1>3, <2>1 DEF Expire, TypeOK, HistoryTypes, Word
<1>4. CASE UNCHANGED <<word, lost>> /\ ((\E s \in Session : Look(s)) \/ UNCHANGED since)
  BY <1>0, <1>4 DEF Look, TypeOK, HistoryTypes
<1>5. \/ StoresOne \/ ForgetsOnRequest \/ \E s \in Session, i \in Id : Expire(s, i)
      \/ UNCHANGED <<word, lost>> /\ ((\E s \in Session : Look(s)) \/ UNCHANGED since)
  <2> USE DEF history
  <2>1. \A t \in Text : Check(t) \/ Copy(t) => UNCHANGED <<word, lost, since>>
    BY DEF Check, Copy
  <2>2. \A s \in Session : List(s) \/ Touch(s) \/ Brief(s) \/ Leave(s)
                              \/ (\E i \in Id : Archive(s, i))
                              \/ (\E what \in {"recall", "brief", "forget"} : Begin(s, what))
                           => UNCHANGED <<word, lost, since>>
    BY DEF List, Touch, Brief, Leave, Archive, Begin
  <2>3. \A s \in Session : Look(s) => UNCHANGED <<word, lost>>
    BY DEF Look
  <2>4. \A t \in Text : Remember(t) => StoresOne
    BY DEF Remember, Begins, StoresOne
  <2>5. \A s \in Session, t \in Text : Save(s, t) => StoresOne
    BY DEF Save, Begins, StoresOne
  <2>6. \A x \in Text \cup Phrase \cup Id : Forget(x) => ForgetsOnRequest
    BY DEF Forget, ForgetsOnRequest
  <2>7. \A s \in Session : ForgetListed(s) => ForgetsOnRequest
    BY <1>0 DEF ForgetListed, ForgetsOnRequest, SnapshotsAreOlder
  <2>8. TimePasses => UNCHANGED <<word, lost, since>>
    BY DEF TimePasses
  <2>9. UNCHANGED vars => UNCHANGED <<word, lost, since>>
    BY DEF vars
  <2> QED
    BY <2>1, <2>2, <2>3, <2>4, <2>5, <2>6, <2>7, <2>8, <2>9 DEF Next, Tidies
<1> QED
  BY <1>1, <1>2, <1>3, <1>4, <1>5

\* The table, the index and the sessions' calls keep their types.
LEMMA TypesOfStep == MInv /\ [Next]_vars => TypesOf'
<1> SUFFICES ASSUME MInv, [Next]_vars PROVE TypesOf'
  OBVIOUS
<1>0. /\ TypeOK /\ FewRows /\ SnapshotsAreOlder /\ Len(rows) \in Nat
      /\ \A s \in Session : \A i \in DOMAIN listed[s] : listed[s][i].text \in Text
  BY RowTypes DEF MInv, TableInv, TypeOK, Row
<1>1. TypesOf /\ MaxOps \in Nat /\ MaxPeriods \in Nat
  BY <1>0, MemoryAssumption DEF TypeOK, TypesOf
<1> USE <1>1 DEF TypesOf
<1>2. ASSUME NEW t \in Text, Remember(t) PROVE TypesOf'
  BY <1>2 DEF Remember, Begins, session
<1>3. ASSUME NEW t \in Text, Check(t) \/ Copy(t) PROVE TypesOf'
  BY <1>3 DEF Check, Copy, session
<1>4. ASSUME NEW x, Forget(x) PROVE TypesOf'
  BY <1>4 DEF Forget, Begins, index, session
<1>5. ASSUME NEW s \in Session, NEW t \in Text, Save(s, t) PROVE TypesOf'
  <2> DEFINE r == IF Known(t) = {} THEN Len(rows) + 1 ELSE Max(Known(t))
  <2>1. r \in 0..MaxOps
    <3>1. CASE Known(t) = {}
      BY <1>0, <1>5, <3>1 DEF Save, Begins, FewRows
    <3>2. CASE Known(t) # {}
      <4>1. Known(t) \in SUBSET (1..Len(rows)) /\ Len(rows) <= MaxOps
        BY <1>0, RowTypes DEF Known, TypeOK
      <4>2. Max(Known(t)) \in 1..Len(rows)
        BY <1>0, <3>2, <4>1, MaxOf
      <4> QED
        BY <1>0, <3>2, <4>1, <4>2
    <3> QED
      BY <3>1, <3>2
  <2> HIDE DEF r
  <2>2. note' = [note EXCEPT ![s] = r]
    BY <1>5 DEF Save, r
  <2> QED
    BY <1>5, <2>1, <2>2 DEF Save, Begins, index
<1>6. ASSUME NEW s \in Session, NEW what \in {"recall", "brief", "forget"}, Begin(s, what)
      PROVE  TypesOf'
  BY <1>6 DEF Begin, Begins, index
<1>7. ASSUME NEW s \in Session, Look(s) PROVE TypesOf'
  BY <1>0, <1>7 DEF Look, index, TypeOK
<1>8. ASSUME NEW s \in Session, List(s) PROVE TypesOf'
  BY <1>8 DEF List, index
<1>9. ASSUME NEW s \in Session, Touch(s) PROVE TypesOf'
  <2>1. shown' \in [Session -> SUBSET Text]
    BY <1>0, <1>9 DEF Touch
  <2> QED
    BY <1>9, <2>1 DEF Touch, Idle, index
<1>10. ASSUME NEW s \in Session, Brief(s) PROVE TypesOf'
  <2>1. shown' \in [Session -> SUBSET Text]
    BY <1>0, <1>10 DEF Brief
  <2> QED
    BY <1>10, <2>1 DEF Brief, Idle, index
<1>11. ASSUME NEW s \in Session, ForgetListed(s) \/ Leave(s) PROVE TypesOf'
  <2>1. Idle(s) /\ UNCHANGED <<copies, jobs, copying, shown, ops, periods>>
    BY <1>11 DEF ForgetListed, Leave, index
  <2> QED
    BY <2>1 DEF Idle
<1>12. ASSUME NEW s \in Session, NEW i \in Id, Expire(s, i) \/ Archive(s, i) PROVE TypesOf'
  BY <1>12 DEF Expire, Archive, index
<1>13. CASE TimePasses
  BY <1>13 DEF TimePasses, index, session
<1>14. CASE UNCHANGED vars
  BY <1>14 DEF vars, index, session
<1> HIDE DEF TypesOf
<1> QED
  BY <1>2, <1>3, <1>4, <1>5, <1>6, <1>7, <1>8, <1>9, <1>10, <1>11, <1>12, <1>13, <1>14
     DEF Next, Tidies

-----------------------------------------------------------------------------
(* What a step does to the snapshot of a session.                          *)

Holds(s) ==
    /\ listed'[s] = listed[s]
    /\ doomed'[s] \subseteq doomed[s] /\ fading'[s] \subseteq fading[s]
    /\ at'[s] = at[s] \/ at[s] # "acting"
Clears(s) == listed'[s] = <<>> /\ doomed'[s] = {} /\ fading'[s] = {}
Lists(s) ==
    /\ at[s] = "listing" /\ at'[s] = "acting"
    /\ listed'[s] = [i \in Visible(s) |-> rows[i]]
    /\ doomed'[s] \subseteq Visible(s) /\ fading'[s] \subseteq Visible(s)
    /\ UNCHANGED <<rows, read, since>>

SnapshotMoves == Shapes' /\ \A s \in Session : Holds(s) \/ Clears(s) \/ Lists(s)

\* What a step does to a session's snapshot.
LEMMA SnapshotStep ==
    ASSUME MInv, [Next]_vars
    PROVE  SnapshotMoves
<1>0. Shapes /\ Unlisted
      /\ at \in [Session -> {"idle", "looking", "listing", "acting"}]
  BY DEF MInv, TableInv, TypeOK
<1> DEFINE Same3 == UNCHANGED <<listed, doomed, fading>>
<1>1. ASSUME Same3, NEW s \in Session,
             \/ UNCHANGED at
             \/ at[s] # "acting" /\ \E next : at' = [at EXCEPT ![s] = next]
      PROVE  SnapshotMoves
  BY <1>0, <1>1 DEF SnapshotMoves, Shapes, Holds
<1>2. ASSUME NEW s \in Session, Idle(s) PROVE SnapshotMoves
  BY <1>0, <1>2 DEF Idle, SnapshotMoves, Shapes, Holds, Clears
<1>3. ASSUME NEW s \in Session, List(s) PROVE SnapshotMoves
  <2> DEFINE view == [i \in Visible(s) |-> rows[i]]
  <2>1. /\ at[s] = "listing" /\ at' = [at EXCEPT ![s] = "acting"]
        /\ listed' = [listed EXCEPT ![s] = view]
        /\ \/ /\ doomed' = [doomed EXCEPT ![s] = Expired(view)]
              /\ \E crowd \in Crowded(view) :
                     fading' = [fading EXCEPT ![s] = Cooling(view) \cup crowd]
           \/ UNCHANGED <<doomed, fading>>
        /\ UNCHANGED <<rows, read, since>>
    BY <1>3 DEF List, store, history
  <2>2. doomed[s] = {} /\ fading[s] = {}
    BY <1>0, <2>1 DEF Unlisted
  <2>3. Expired(view) \subseteq Visible(s) /\ Cooling(view) \subseteq Visible(s)
    BY DEF Expired, Cooling
  <2>4. \A crowd \in Crowded(view) : crowd \subseteq Visible(s)
    BY DEF Crowded, kSubset
  <2>5. Visible(s) \subseteq Id
    BY RowTypes DEF Visible, MInv, TableInv
  <2> HIDE DEF view
  <2>6. doomed' \in [Session -> SUBSET Id] /\ fading' \in [Session -> SUBSET Id]
    BY <1>0, <2>1, <2>3, <2>4, <2>5 DEF Shapes
  <2>7. /\ doomed'[s] \subseteq Visible(s) /\ fading'[s] \subseteq Visible(s)
        /\ \A r \in Session \ {s} : doomed'[r] = doomed[r] /\ fading'[r] = fading[r]
    BY <1>0, <2>1, <2>2, <2>3, <2>4 DEF Shapes
  <2>8. /\ listed' = [r \in Session |-> listed'[r]] /\ listed'[s] = view
        /\ \A r \in Session \ {s} : listed'[r] = listed[r] /\ at'[r] = at[r]
        /\ at'[s] = "acting"
    BY <1>0, <2>1 DEF Shapes
  <2>9. Lists(s)
    BY <2>1, <2>7, <2>8 DEF Lists, view
  <2>10. \A r \in Session \ {s} : Holds(r)
    BY <2>7, <2>8 DEF Holds
  <2> QED
    BY <2>6, <2>8, <2>9, <2>10 DEF SnapshotMoves, Shapes
<1>4. ASSUME NEW s \in Session, NEW i \in Id, Expire(s, i) \/ Archive(s, i)
      PROVE  SnapshotMoves
  BY <1>0, <1>4 DEF Expire, Archive, SnapshotMoves, Shapes, Holds
<1>5. ASSUME NEW t, Remember(t) \/ Forget(t) \/ Check(t) \/ Copy(t) PROVE Same3 /\ UNCHANGED at
  BY <1>5 DEF Remember, Forget, Check, Copy, session
<1>6. TimePasses \/ UNCHANGED vars => Same3 /\ UNCHANGED at
  BY DEF TimePasses, vars, session
<1>7. ASSUME UNCHANGED at, Same3 PROVE SnapshotMoves
  BY <1>0, <1>7 DEF SnapshotMoves, Shapes, Holds
<1>8. ASSUME NEW s \in Session,
             \/ \E t \in Text : Save(s, t)
             \/ \E what \in {"recall", "brief", "forget"} : Begin(s, what)
             \/ Look(s)
      PROVE  Same3 /\ at[s] # "acting" /\ \E next : at' = [at EXCEPT ![s] = next]
  BY <1>8 DEF Save, Begin, Look
<1>9. ASSUME NEW s \in Session, Touch(s) \/ Brief(s) \/ ForgetListed(s) \/ Leave(s)
      PROVE  Idle(s)
  BY <1>9 DEF Touch, Brief, ForgetListed, Leave
<1>10. ASSUME NEW s \in Session,
              \/ \E t \in Text : Save(s, t)
              \/ \E what \in {"recall", "brief", "forget"} : Begin(s, what)
              \/ Look(s)
       PROVE  SnapshotMoves
  BY <1>1, <1>8, <1>10
<1>11. ASSUME NEW s \in Session, Touch(s) \/ Brief(s) \/ ForgetListed(s) \/ Leave(s)
       PROVE  SnapshotMoves
  BY <1>2, <1>9, <1>11
<1>12. ASSUME NEW t, Remember(t) \/ Forget(t) \/ Check(t) \/ Copy(t) PROVE SnapshotMoves
  BY <1>5, <1>7, <1>12
<1>13. CASE TimePasses \/ UNCHANGED vars
  BY <1>6, <1>7, <1>13
<1> QED
  BY <1>3, <1>4, <1>10, <1>11, <1>12, <1>13 DEF Next, Tidies

-----------------------------------------------------------------------------
(* The table and the snapshots stay what they should be.                   *)

\* Operations are only ever begun.
LEMMA OpsStep ==
    ASSUME MInv, [Next]_vars
    PROVE  ops' = ops \/ ops' = ops + 1
BY DEF Next, Tidies, vars, Remember, Check, Copy, Forget, Save, Begin, Look, List, Touch,
       Brief, ForgetListed, Expire, Archive, Leave, TimePasses, Begins

\* A snapshot has rows, and what a tidy will write is in it.
LEMMA SnapshotTypesStep == MInv /\ [Next]_vars => SnapshotTypes'
<1> SUFFICES ASSUME MInv, [Next]_vars, NEW s \in Session
             PROVE  /\ DOMAIN listed'[s] \subseteq Id
                    /\ \A i \in DOMAIN listed'[s] : listed'[s][i] \in Row
                    /\ doomed'[s] \cup fading'[s] \subseteq DOMAIN listed'[s]
  BY DEF SnapshotTypes
<1>0. /\ DOMAIN listed[s] \subseteq Id
      /\ \A i \in DOMAIN listed[s] : listed[s][i] \in Row
      /\ doomed[s] \cup fading[s] \subseteq DOMAIN listed[s]
  BY DEF MInv, TableInv, TypeOK
<1>1. CASE Holds(s)
  BY <1>0, <1>1 DEF Holds
<1>2. CASE Clears(s)
  BY <1>2 DEF Clears
<1>3. CASE Lists(s)
  <2>1. Visible(s) \subseteq Id /\ \A i \in Visible(s) : rows[i] \in Row
    BY RowTypes DEF MInv, TableInv, Visible
  <2> QED
    BY <1>3, <2>1 DEF Lists
<1> QED
  BY <1>1, <1>2, <1>3, SnapshotStep DEF SnapshotMoves

\* One active row of each memory, and no more rows than operations.
LEMMA TableStep == MInv /\ [Next]_vars => TableInv'
<1> SUFFICES ASSUME MInv, [Next]_vars PROVE TableInv'
  OBVIOUS
<1>0. /\ TableInv /\ TypeOK /\ FewRows /\ OneActive /\ NumbersAreRows
      /\ MaxOps \in Nat /\ ops \in 0..MaxOps /\ Len(rows) \in Nat
  BY RowTypes, MemoryAssumption DEF MInv, TableInv, TypeOK
<1>1. TypesOf' /\ HistoryTypes' /\ SnapshotTypes' /\ Shapes'
  BY TypesOfStep, HistoryStep, SnapshotTypesStep, SnapshotStep DEF SnapshotMoves
<1>2. CASE StoresOne
  <2>1. PICK t \in Text : Stored(t) /\ ops < MaxOps /\ ops' = ops + 1
    BY <1>2 DEF StoresOne
  <2>2. Len(rows) < MaxOps
    BY <1>0, <2>1 DEF FewRows
  <2>3. /\ \E r \in Id : Puts(t, r)
        /\ TableTypes(Len(rows)) \/ TableTypes(Len(rows) + 1)
    BY <1>0, <2>1, <2>2, StoredPuts
  <2>4. PICK r \in Id : Puts(t, r)
    BY <2>3
  <2>5. Len(rows') <= ops' /\ Len(rows') <= MaxOps
    BY <1>0, <2>1, <2>2, <2>3 DEF TableTypes, FewRows
  <2>6. TypeOK'
    <3>1. tombs' \subseteq Text \cup Phrase \cup Id
      BY <1>0, <2>1 DEF Stored, TypeOK
    <3>2. /\ rows' \in Seq(Row) /\ disused' \in Seq(0..2) /\ Len(disused') = Len(rows')
      BY <2>3 DEF TableTypes
    <3> QED
      BY <1>1, <2>5, <3>1, <3>2
         DEF TypeOK, TypesOf, HistoryTypes, SnapshotTypes
  <2>7. OneActive'
    <3> SUFFICES ASSUME NEW i \in DOMAIN rows', NEW j \in DOMAIN rows',
                        rows'[i].active, rows'[j].active,
                        Same(rows'[i].text, rows'[j].text)
                 PROVE  i = j
      BY DEF OneActive, Same, IsNote
    <3>1. \A k \in DOMAIN rows' : k = r \/ (k \in DOMAIN rows \ {r} /\ rows'[k] = rows[k])
      BY <2>4 DEF Puts
    <3>2. \A k \in DOMAIN rows \ {r} : rows[k].active => ~Same(rows[k].text, t)
      BY <2>4 DEF Puts
    <3>3. rows'[r].text = t
      BY <2>4 DEF Puts
    <3> QED
      BY <1>0, <3>1, <3>2, <3>3, SameIsSame DEF OneActive
  <2>8. NumbersAreRows'
    <3> SUFFICES ASSUME NEW i \in Id \cap tombs' PROVE i \in DOMAIN rows' /\ ~rows'[i].active
      BY DEF NumbersAreRows
    <3>1. i \in tombs
      BY <2>1 DEF Stored
    <3> QED
      BY <1>0, <2>4, <3>1 DEF NumbersAreRows, Puts
  <2> QED
    BY <1>1, <2>5, <2>6, <2>7, <2>8 DEF TableInv, FewRows
<1>3. CASE Quiet /\ tombs' \subseteq Text \cup Phrase \cup Id
  <2>1. /\ TableTypes(Len(rows)) /\ DOMAIN rows' = DOMAIN rows
        /\ \A i \in DOMAIN rows :
              rows'[i].text = rows[i].text /\ (rows'[i].active => rows[i].active)
    BY <1>3 DEF Quiet, Withers
  <2>2. Len(rows') <= ops' /\ Len(rows') <= MaxOps
    BY <1>0, <2>1, OpsStep DEF TableTypes, FewRows, TypeOK
  <2>3. TypeOK'
    <3>1. /\ rows' \in Seq(Row) /\ disused' \in Seq(0..2) /\ Len(disused') = Len(rows')
      BY <2>1 DEF TableTypes
    <3> QED
      BY <1>1, <1>3, <2>2, <3>1 DEF TypeOK, TypesOf, HistoryTypes, SnapshotTypes
  <2>4. OneActive'
    BY <1>0, <2>1 DEF OneActive, Same, IsNote
  <2>5. NumbersAreRows'
    BY <1>0, <1>3, <2>1 DEF NumbersAreRows, Quiet
  <2> QED
    BY <1>1, <2>2, <2>3, <2>4, <2>5 DEF TableInv, FewRows
<1> QED
  BY <1>2, <1>3, RowStep

\* A call that ends leaves no snapshot.
LEMMA UnlistedStep == MInv /\ [Next]_vars => Unlisted'
<1> SUFFICES ASSUME MInv, [Next]_vars, NEW s \in Session, at'[s] # "acting"
             PROVE  listed'[s] = <<>> /\ doomed'[s] = {} /\ fading'[s] = {}
  BY DEF Unlisted
<1>1. Unlisted
  BY DEF MInv
<1>2. Holds(s) \/ Clears(s) \/ Lists(s)
  BY SnapshotStep DEF SnapshotMoves
<1> QED
  BY <1>1, <1>2 DEF Unlisted, Holds, Clears, Lists

\* A stamp is a number.
LEMMA NextStamps ==
    ASSUME MInv, [Next]_vars
    PROVE  \A i \in DOMAIN rows' : rows'[i].stamp \in Nat
<1>1. rows' \in Seq(Row)
  BY TableStep DEF TableInv, TypeOK
<1>2. \A i \in DOMAIN rows' : rows'[i] \in Row
  BY <1>1, LenProperties, ElementOfSeq
<1> QED
  BY <1>2 DEF Row

\* A row's stamp only grows, and its age changes with it.
LEMMA StampStep ==
    ASSUME MInv, [Next]_vars
    PROVE  Stamped \/ TimePasses
<1>0. /\ TableInv /\ TypeOK /\ FewRows /\ SnapshotsAreOlder /\ ops \in Nat /\ MaxOps \in Nat
      /\ Len(rows) \in Nat /\ \A i \in DOMAIN rows : rows[i].stamp \in Nat
  BY RowTypes, MemoryAssumption DEF MInv, TableInv, TypeOK
<1>1. CASE StoresOne
  <2>1. PICK t \in Text, r \in Id : Puts(t, r)
    BY <1>0, <1>1, StoredPuts DEF StoresOne, FewRows
  <2>2. /\ DOMAIN rows \subseteq DOMAIN rows'
        /\ \A i \in DOMAIN rows \ {r} : rows'[i] = rows[i]
        /\ r \in DOMAIN rows => rows'[r] = rows[r] \/ rows'[r].stamp > rows[r].stamp
    BY <2>1 DEF Puts
  <2>3. \A i \in DOMAIN rows' : rows'[i].stamp \in Nat
    BY NextStamps
  <2>4. ASSUME NEW i \in DOMAIN rows
        PROVE  /\ i \in DOMAIN rows' /\ rows[i].stamp <= rows'[i].stamp
               /\ rows'[i].stamp = rows[i].stamp => rows'[i].age = rows[i].age
    <3>1. rows'[i] = rows[i] \/ rows'[i].stamp > rows[i].stamp
      BY <2>2
    <3> QED
      BY <1>0, <2>2, <2>3, <3>1
  <2> QED
    BY <2>4 DEF Stamped
<1>2. CASE ForgetsOnRequest
  BY <1>0, <1>2, ForgottenEffect DEF ForgetsOnRequest, ForgottenOnRequest
<1>3. CASE Expires
  BY <1>0, <1>3, ForgottenEffect DEF Expires, Expire
<1>4. CASE Touches
  BY <1>4, TouchEffect DEF Touches
<1>5. CASE Archives
  BY <1>5, ArchiveEffect DEF Archives
<1>6. CASE LeavesTable
  BY <1>0, <1>6 DEF LeavesTable, Stamped
<1> QED
  BY <1>1, <1>2, <1>3, <1>4, <1>5, <1>6, StepKinds

\* A snapshot is of rows as they were.
LEMMA OlderStep == MInv /\ [Next]_vars => SnapshotsAreOlder'
<1> SUFFICES ASSUME MInv, [Next]_vars, NEW s \in Session, NEW i \in DOMAIN listed'[s]
             PROVE  /\ i \in DOMAIN rows'
                    /\ listed'[s][i].stamp <= rows'[i].stamp
                    /\ listed'[s][i].stamp = rows'[i].stamp =>
                          listed'[s][i].age = rows'[i].age
  BY DEF SnapshotsAreOlder
<1>0. /\ TypeOK /\ SnapshotsAreOlder /\ Unlisted
      /\ at \in [Session -> {"idle", "looking", "listing", "acting"}]
      /\ \A j \in DOMAIN rows : rows[j].stamp \in Nat
      /\ \A j \in DOMAIN rows' : rows'[j].stamp \in Nat
  BY NextStamps, RowTypes DEF MInv, TableInv, TypeOK
<1>1. CASE Lists(s)
  <2>1. i \in DOMAIN rows /\ rows' = rows /\ listed'[s][i] = rows[i]
    BY <1>1 DEF Lists, Visible
  <2> QED
    BY <1>0, <2>1
<1>2. CASE Holds(s)
  <2>1. listed'[s] = listed[s] /\ i \in DOMAIN listed[s]
    BY <1>2 DEF Holds
  <2>2. /\ i \in DOMAIN rows /\ listed[s][i].stamp <= rows[i].stamp
        /\ listed[s][i].stamp = rows[i].stamp => listed[s][i].age = rows[i].age
        /\ listed[s][i].stamp \in Nat
    BY <1>0, <2>1 DEF SnapshotsAreOlder, TypeOK, Row
  <2>3. CASE TimePasses
    <3>1. at[s] = "idle"
      BY <2>3 DEF TimePasses
    <3> QED
      BY <1>0, <2>1, <3>1 DEF Unlisted
  <2>4. CASE Stamped
    <3>1. /\ i \in DOMAIN rows' /\ rows[i].stamp <= rows'[i].stamp
          /\ rows'[i].stamp = rows[i].stamp => rows'[i].age = rows[i].age
      BY <2>2, <2>4 DEF Stamped
    <3>2. rows[i].stamp \in Nat /\ rows'[i].stamp \in Nat
      BY <1>0, <2>2, <3>1
    <3> QED
      BY <2>1, <2>2, <3>1, <3>2
  <2> QED
    BY <2>3, <2>4, StampStep
<1>3. CASE Clears(s)
  BY <1>3 DEF Clears
<1> QED
  BY <1>1, <1>2, <1>3, SnapshotStep DEF SnapshotMoves

\* A tidy lowers tiers of rows that were not stamped since, and no age.
LEMMA AgesStep == MInv /\ [Next]_vars => AgesAreTrue'
<1> SUFFICES ASSUME MInv, [Next]_vars, NEW i \in DOMAIN rows',
                    rows'[i].active, IsNote(rows'[i].text)
             PROVE  rows'[i].age = disused'[i]
  BY DEF AgesAreTrue, IsNote
<1>0. /\ TableInv /\ TypeOK /\ FewRows /\ AgesAreTrue /\ ops \in Nat /\ MaxOps \in Nat
      /\ Len(rows) \in Nat
  BY RowTypes, MemoryAssumption DEF MInv, TableInv, TypeOK
<1>1. CASE StoresOne
  <2>1. PICK t \in Text, r \in Id : Puts(t, r)
    BY <1>0, <1>1, StoredPuts DEF StoresOne, FewRows
  <2>2. CASE i # r
    <3>1. i \in DOMAIN rows /\ rows'[i] = rows[i] /\ disused'[i] = disused[i]
      BY <2>1, <2>2 DEF Puts
    <3> QED
      BY <1>0, <3>1 DEF AgesAreTrue
  <2>3. CASE i = r
    <3>1. \/ rows'[i].age = disused'[i]
          \/ i \in DOMAIN rows /\ rows'[i] = rows[i] /\ disused'[i] = disused[i]
      BY <2>1, <2>3 DEF Puts
    <3> QED
      BY <1>0, <3>1 DEF AgesAreTrue
  <2> QED
    BY <2>2, <2>3
<1>2. ASSUME Withers, rows[i].active, rows'[i].age = rows[i].age, disused'[i] = disused[i]
      PROVE  rows'[i].age = disused'[i]
  BY <1>0, <1>2 DEF Withers, AgesAreTrue
<1>3. CASE ForgetsOnRequest
  <2>1. PICK x \in Text \cup Phrase \cup DOMAIN rows : Forgotten(x) /\ UNCHANGED disused
    BY <1>3 DEF ForgetsOnRequest, ForgottenOnRequest
  <2> QED
    BY <1>0, <1>2, <2>1, ForgottenEffect DEF Withers
<1>4. CASE Expires
  <2>1. PICK x \in Id : Forgotten(x) /\ UNCHANGED disused
    BY <1>4 DEF Expires, Expire
  <2> QED
    BY <1>0, <1>2, <2>1, ForgottenEffect DEF Withers
<1>5. CASE Touches
  <2>1. PICK s \in Session : Touch(s)
    BY <1>5 DEF Touches
  <2> QED
    BY <1>0, <1>2, <2>1, TouchEffect DEF Withers
<1>6. CASE Archives
  <2>1. PICK s \in Session, k \in Id : Archive(s, k)
    BY <1>6 DEF Archives
  <2> QED
    BY <1>0, <1>2, <2>1, ArchiveEffect DEF Withers
<1>7. CASE TimePasses
  BY <1>0, <1>7, TimeEffect DEF AgesAreTrue, Withers
<1>8. CASE LeavesTable
  BY <1>0, <1>8 DEF AgesAreTrue, LeavesTable
<1> QED
  BY <1>1, <1>3, <1>4, <1>5, <1>6, <1>7, <1>8, StepKinds

-----------------------------------------------------------------------------
(* What was saved last is kept.                                            *)

\* What was saved stays active until its last word is another.
LEMMA SavedStep == MInv /\ [Next]_vars => SavedIsKept'
<1> SUFFICES ASSUME MInv, [Next]_vars, NEW u \in Text, word'[u] = "kept", u \notin lost'
             PROVE  /\ u \notin tombs'
                    /\ \E i \in DOMAIN rows' \ tombs' : rows'[i].active /\ rows'[i].text = u
  BY DEF SavedIsKept
<1> DEFINE Goal == /\ u \notin tombs'
                   /\ \E i \in DOMAIN rows' \ tombs' : rows'[i].active /\ rows'[i].text = u
<1>0. /\ TableInv /\ TypeOK /\ FewRows /\ SavedIsKept /\ ops \in Nat /\ MaxOps \in Nat
      /\ Len(rows) \in Nat /\ DOMAIN rows \subseteq Id /\ SnapshotsAreOlder
      /\ \A s \in Session : doomed[s] \subseteq DOMAIN listed[s]
  BY RowTypes, MemoryAssumption DEF MInv, TableInv, TypeOK
<1>1. ASSUME word[u] = "kept", u \notin lost
      PROVE  u \notin tombs /\ \E i \in DOMAIN rows \ tombs : rows[i].active /\ rows[i].text = u
  BY <1>0, <1>1 DEF SavedIsKept
<1>2. CASE StoresOne
  <2>1. PICK t \in Text : Stored(t) /\ ops < MaxOps
    BY <1>2 DEF StoresOne
  <2>2. PICK r \in Id : Puts(t, r)
    BY <1>0, <2>1, StoredPuts DEF FewRows
  <2>3. tombs' = tombs \ {t}
    BY <2>1 DEF Stored
  <2>4. CASE u = t
    <3>1. r \in DOMAIN rows' \ tombs' /\ rows'[r].active /\ rows'[r].text = t
      BY <2>2, <2>3 DEF Puts
    <3> QED
      BY <2>3, <2>4, <3>1
  <2>5. CASE u # t
    <3>1. word[u] = "kept" /\ ~Same(u, t) /\ u \notin lost
      BY <2>1, <2>5 DEF Stored
    <3>2. PICK i \in DOMAIN rows \ tombs : rows[i].active /\ rows[i].text = u
      BY <1>1, <3>1
    <3>3. i # r
      <4>1. ASSUME i = r PROVE Same(rows[r].text, t) \/ rows'[r] = rows[r]
        BY <2>2, <3>2, <4>1 DEF Puts
      <4> QED
        BY <2>2, <2>5, <3>1, <3>2, <4>1 DEF Puts
    <3>4. i \in DOMAIN rows' /\ rows'[i] = rows[i]
      BY <2>2, <3>2, <3>3 DEF Puts
    <3> QED
      BY <1>1, <2>3, <3>1, <3>2, <3>4
  <2> QED
    BY <2>4, <2>5
<1>3. CASE ForgetsOnRequest
  <2>1. PICK x \in Text \cup Phrase \cup DOMAIN rows : ForgottenOnRequest(x)
    BY <1>3 DEF ForgetsOnRequest
  <2>2. u \notin Meant(x) /\ word[u] = "kept" /\ u \notin lost
    BY <2>1 DEF ForgottenOnRequest
  <2>3. PICK i \in DOMAIN rows \ tombs : rows[i].active /\ rows[i].text = u
    BY <1>1, <2>2
  <2>4. /\ tombs' = tombs \cup {x} /\ Withers
        /\ \A k \in DOMAIN rows : rows'[k].active <=> rows[k].active /\ k \notin Taken(x)
    BY <1>0, <2>1, ForgottenEffect DEF ForgottenOnRequest
  <2>5. i \notin Taken(x) /\ x # i
    <3>1. CASE x \in DOMAIN rows
      BY <2>2, <2>3, <3>1 DEF Taken, Meant
    <3>2. CASE x \notin DOMAIN rows
      BY <2>2, <2>3, <3>2 DEF Taken, Meant
    <3> QED
      BY <3>1, <3>2
  <2>6. x # u
    <3>1. CASE x \in DOMAIN rows
      BY <1>0, <3>1, Apart
    <3>2. CASE x \notin DOMAIN rows
      BY <2>2, <3>2, Apart DEF Meant, Covers
    <3> QED
      BY <3>1, <3>2
  <2>7. i \in DOMAIN rows' \ tombs' /\ rows'[i].active /\ rows'[i].text = u
    BY <2>3, <2>4, <2>5 DEF Withers
  <2> QED
    BY <1>1, <2>2, <2>4, <2>6, <2>7
<1>4. CASE Expires
  <2>1. PICK s \in Session, x \in Id : Expire(s, x)
    BY <1>4 DEF Expires
  <2>2. x \in DOMAIN rows
    BY <1>0, <2>1 DEF Expire, SnapshotsAreOlder
  <2>3. /\ tombs' = tombs \cup {x} /\ Withers
        /\ \A k \in DOMAIN rows : rows'[k].active <=> rows[k].active /\ k \notin Taken(x)
    BY <1>0, <2>1, ForgottenEffect DEF Expire
  <2>4. word[u] = "kept" /\ u \notin lost
    BY <1>0, <2>1 DEF Expire, TypeOK
  <2>5. rows[x].active => u # rows[x].text
    BY <1>0, <2>1 DEF Expire, TypeOK
  <2>6. PICK i \in DOMAIN rows \ tombs : rows[i].active /\ rows[i].text = u
    BY <1>1, <2>4
  <2>7. i # x /\ i \notin Taken(x)
    BY <2>2, <2>5, <2>6 DEF Taken
  <2>8. x # u
    BY <1>0, <2>2, Apart
  <2>9. i \in DOMAIN rows' \ tombs' /\ rows'[i].active /\ rows'[i].text = u
    BY <2>3, <2>6, <2>7 DEF Withers
  <2> QED
    BY <1>1, <2>3, <2>4, <2>8, <2>9
<1>5. ASSUME Withers, \A k \in DOMAIN rows : rows'[k].active <=> rows[k].active,
             UNCHANGED <<tombs, word, lost>>
      PROVE  Goal
  BY <1>1, <1>5 DEF Withers
<1>6. CASE Touches
  BY <1>5, <1>6, TouchEffect DEF Touches, Touch
<1>7. CASE Archives
  BY <1>5, <1>7, ArchiveEffect DEF Archives, Archive, history
<1>8. CASE TimePasses
  BY <1>0, <1>5, <1>8, TimeEffect DEF TimePasses
<1>9. CASE LeavesTable
  BY <1>1, <1>9 DEF LeavesTable
<1> QED
  BY <1>2, <1>3, <1>4, <1>6, <1>7, <1>8, <1>9, StepKinds

-----------------------------------------------------------------------------
(* What was forgotten stays away.                                          *)

\* What a step does to the recall of a session: it begins, it goes on, or it
\* ends with what it was shown.
Looks(s) ==
    /\ at[s] = "looking" /\ at'[s] = "listing"
    /\ since'[s] = word /\ read'[s] = tombs /\ shown'[s] = {} /\ UNCHANGED <<rows, word>>
Goes(s) ==
    /\ read'[s] = read[s] /\ shown'[s] = shown[s]
    /\ at'[s] \in {"listing", "acting"} => at[s] \in {"listing", "acting"}
    /\ \A u \in Text : since'[s][u] \in {since[s][u], "kept"}
Gives(s) ==
    /\ at'[s] = "idle" /\ since'[s] = since[s]
    /\ \A u \in shown'[s] :
          \/ u \in shown[s]
          \/ at[s] = "acting" /\ u \in copies /\ ~HiddenText(u, read[s])
          \/ at[s] = "acting" /\ \E i \in DOMAIN listed[s] : u = listed[s][i].text

RecallMoves == copies \subseteq copies' /\ \A s \in Session : Looks(s) \/ Goes(s) \/ Gives(s)

\* What a step does to a session's recall.
LEMMA RecallStep ==
    ASSUME MInv, [Next]_vars
    PROVE  RecallMoves
<1>0. /\ at \in [Session -> {"idle", "looking", "listing", "acting"}]
      /\ read \in [Session -> SUBSET (Text \cup Phrase \cup Id)]
      /\ shown \in [Session -> SUBSET Text]
      /\ since \in [Session -> [Text -> Word]]
  BY DEF MInv, TableInv, TypeOK
<1>1. ASSUME UNCHANGED <<copies, at, read, shown>>, NEW t \in Text, Stored(t) PROVE RecallMoves
  BY <1>0, <1>1 DEF Stored, RecallMoves, Goes
<1>2. ASSUME NEW t \in Text, Remember(t) PROVE RecallMoves
  BY <1>1, <1>2 DEF Remember, session
<1>3. ASSUME NEW s \in Session, NEW t \in Text, Save(s, t) PROVE RecallMoves
  <2>1. /\ Stored(t) /\ UNCHANGED <<copies, read, shown>>
        /\ at' = [at EXCEPT ![s] = "looking"]
    BY <1>3 DEF Save, index
  <2>2. \A r \in Session, u \in Text : since'[r][u] \in {since[r][u], "kept"}
    BY <1>0, <2>1 DEF Stored
  <2> QED
    BY <1>0, <2>1, <2>2 DEF RecallMoves, Goes
<1>4. ASSUME copies \subseteq copies', UNCHANGED <<at, read, shown, since>> PROVE RecallMoves
  BY <1>0, <1>4 DEF RecallMoves, Goes
<1>5. ASSUME NEW t \in Text, Check(t) \/ Copy(t) PROVE RecallMoves
  <2>1. copies \subseteq copies' /\ UNCHANGED <<at, read, shown, since>>
    BY <1>5 DEF Check, Copy, session, history
  <2> QED
    BY <1>4, <2>1
<1>6. ASSUME NEW x, Forget(x) PROVE RecallMoves
  BY <1>4, <1>6 DEF Forget, ForgottenOnRequest, session, index
<1>7. ASSUME NEW s \in Session, NEW what, Begin(s, what) PROVE RecallMoves
  BY <1>0, <1>7 DEF Begin, index, history, RecallMoves, Goes
<1>8. ASSUME NEW s \in Session, Look(s) PROVE RecallMoves
  <2>1. Looks(s)
    BY <1>0, <1>8 DEF Look, Looks, store
  <2>2. \A r \in Session \ {s} : Goes(r)
    BY <1>0, <1>8 DEF Look, Goes
  <2> QED
    BY <1>8, <2>1, <2>2 DEF Look, index, RecallMoves
<1>9. ASSUME NEW s \in Session, List(s) PROVE RecallMoves
  BY <1>0, <1>9 DEF List, index, history, RecallMoves, Goes
<1>10. ASSUME NEW s \in Session, NEW i \in Id, Expire(s, i) \/ Archive(s, i) PROVE RecallMoves
  BY <1>4, <1>10 DEF Expire, Archive, index, history
<1>11. ASSUME NEW s \in Session, Idle(s), UNCHANGED <<copies, since>>,
              shown' = [shown EXCEPT ![s] = shown'[s]],
              \A u \in shown'[s] :
                 \/ u \in shown[s]
                 \/ at[s] = "acting" /\ u \in copies /\ ~HiddenText(u, read[s])
                 \/ at[s] = "acting" /\ \E i \in DOMAIN listed[s] : u = listed[s][i].text
       PROVE  RecallMoves
  <2>1. Gives(s)
    BY <1>0, <1>11 DEF Idle, Gives
  <2>2. \A r \in Session \ {s} : Goes(r)
    BY <1>0, <1>11 DEF Idle, Goes
  <2> QED
    BY <1>11, <2>1, <2>2 DEF RecallMoves
<1>12. ASSUME NEW s \in Session, ForgetListed(s) \/ Leave(s) PROVE RecallMoves
  BY <1>0, <1>11, <1>12 DEF ForgetListed, Leave, ForgottenOnRequest, index, history
<1>13. ASSUME NEW s \in Session, Touch(s) PROVE RecallMoves
  <2>1. PICK chosen \in SUBSET DOMAIN listed[s] :
            shown' = [shown EXCEPT ![s] = {listed[s][i].text : i \in chosen}]
    BY <1>13 DEF Touch
  <2>2. /\ shown'[s] = {listed[s][i].text : i \in chosen}
        /\ shown' = [shown EXCEPT ![s] = shown'[s]]
    BY <1>0, <2>1
  <2>3. \A u \in shown'[s] : \E i \in DOMAIN listed[s] : u = listed[s][i].text
    BY <2>2
  <2> QED
    BY <1>11, <1>13, <2>2, <2>3 DEF Touch, index
<1>14. ASSUME NEW s \in Session, Brief(s) PROVE RecallMoves
  <2>1. PICK found \in {{}, copies} :
            shown' = [shown EXCEPT ![s] =
                        {listed[s][i].text : i \in DOMAIN listed[s]}
                        \cup {t \in found : ~HiddenText(t, read[s])}]
    BY <1>14 DEF Brief
  <2>2. /\ shown'[s] = {listed[s][i].text : i \in DOMAIN listed[s]}
                       \cup {t \in found : ~HiddenText(t, read[s])}
        /\ shown' = [shown EXCEPT ![s] = shown'[s]]
    BY <1>0, <2>1
  <2>3. \A u \in shown'[s] :
            \/ u \in copies /\ ~HiddenText(u, read[s])
            \/ \E i \in DOMAIN listed[s] : u = listed[s][i].text
    BY <2>2
  <2> QED
    BY <1>11, <1>14, <2>2, <2>3 DEF Brief, index, history
<1>15. CASE TimePasses \/ UNCHANGED vars
  BY <1>4, <1>15 DEF TimePasses, vars, session, index, history
<1> QED
  BY <1>2, <1>3, <1>5, <1>6, <1>7, <1>8, <1>9, <1>10, <1>12, <1>13, <1>14, <1>15
     DEF Next, Tidies

\* A text without an active row gets one only by being stored.
LEMMA NoActiveStays ==
    ASSUME MInv, [Next]_vars, NEW u, NoActive(u)
    PROVE  \/ NoActive(u)'
           \/ u \in Text /\ Stored(u)
<1>0. TableInv /\ FewRows /\ ops \in Nat /\ MaxOps \in Nat /\ Len(rows) \in Nat
  BY RowTypes, MemoryAssumption DEF MInv, TableInv, TypeOK
<1>1. CASE StoresOne
  <2>1. PICK t \in Text : Stored(t) /\ ops < MaxOps
    BY <1>1 DEF StoresOne
  <2>2. PICK r \in Id : Puts(t, r)
    BY <1>0, <2>1, StoredPuts DEF FewRows
  <2>3. CASE u = t
    BY <2>1, <2>3
  <2>4. CASE u # t
    BY <2>2, <2>4 DEF Puts, NoActive
  <2> QED
    BY <2>3, <2>4
<1>2. CASE Quiet
  BY <1>2 DEF Quiet, Withers, NoActive
<1> QED
  BY <1>1, <1>2, RowStep

\* Every text a request to forget is meant for is hidden, or has no row left.
LEMMA MeantIsForgotten ==
    ASSUME MInv, NEW x \in Text \cup Phrase \cup DOMAIN rows, ForgottenOnRequest(x),
           NEW t \in Meant(x)
    PROVE  IF x \in Text \cup Distinctive THEN HiddenText(t, tombs') ELSE NoActive(t)'
<1>0. /\ TableInv /\ OneActive /\ DOMAIN rows \subseteq Id
      /\ \A i \in DOMAIN rows : rows[i].text \in Text
  BY RowTypes DEF MInv, TableInv
<1>1. /\ tombs' = tombs \cup {x} /\ Withers
      /\ \A k \in DOMAIN rows : rows'[k].active <=> rows[k].active /\ k \notin Taken(x)
  BY <1>0, ForgottenEffect DEF ForgottenOnRequest
<1>2. Distinctive \subseteq Phrase
  BY MemoryAssumption
<1>3. CASE x \in DOMAIN rows
  <2>1. x \notin Text \cup Distinctive
    BY <1>0, <1>2, <1>3, Apart
  <2>2. rows[x].active /\ rows[x].text = t /\ Taken(x) = {x}
    BY <1>3 DEF Meant, Taken
  <2>3. ASSUME NEW k \in DOMAIN rows', rows'[k].active PROVE rows'[k].text # t
    <3>1. k \in DOMAIN rows /\ rows[k].active /\ k # x /\ rows'[k].text = rows[k].text
      BY <1>1, <2>2, <2>3 DEF Withers
    <3>2. ~Same(rows[k].text, rows[x].text)
      BY <1>0, <1>3, <2>2, <3>1 DEF OneActive
    <3> QED
      BY <2>2, <3>1, <3>2, SameIsSame
  <2> QED
    BY <2>1, <2>3 DEF NoActive
<1>4. CASE x \notin DOMAIN rows
  <2>1. t \in Covers(x) /\ Taken(x) = {i \in DOMAIN rows : rows[i].text \in Covers(x)}
    BY <1>4 DEF Meant, Taken
  <2>2. CASE x \in Text
    BY <1>1, <2>1, <2>2, Apart DEF Covers, HiddenText
  <2>3. CASE x \in Distinctive
    BY <1>1, <1>2, <2>1, <2>3 DEF Covers, HiddenText
  <2>4. CASE x \notin Text \cup Distinctive
    BY <1>1, <2>1, <2>4 DEF Withers, NoActive
  <2> QED
    BY <2>2, <2>3, <2>4
<1> QED
  BY <1>3, <1>4

\* A tombstone stays, and a save removes those of its text.
LEMMA WordsStep == MInv /\ [Next]_vars => WordsAreTrue'
<1> SUFFICES ASSUME MInv, [Next]_vars PROVE WordsAreTrue'
  OBVIOUS
<1>0. /\ TableInv /\ TypeOK /\ WordsAreTrue
      /\ word \in [Text -> Word] /\ since \in [Session -> [Text -> Word]]
  BY DEF MInv, TableInv, TypeOK
<1>1. ASSUME NEW t \in Text, word'[t] = "gone" PROVE HiddenText(t, tombs')
  <2>1. ASSUME word[t] = "gone", tombs \subseteq tombs' PROVE HiddenText(t, tombs')
    BY <1>0, <2>1 DEF WordsAreTrue, HiddenText
  <2>2. CASE StoresOne
    <3>1. PICK v \in Text : Stored(v)
      BY <2>2 DEF StoresOne
    <3>2. v # t /\ word[t] = "gone" /\ tombs' = tombs \ {v}
      BY <1>1, <3>1 DEF Stored
    <3>3. \A p \in Distinctive : p # v
      BY MemoryAssumption, Apart
    <3> QED
      BY <1>0, <3>2, <3>3 DEF WordsAreTrue, HiddenText
  <2>3. CASE ForgetsOnRequest
    <3>1. PICK x \in Text \cup Phrase \cup DOMAIN rows : ForgottenOnRequest(x)
      BY <2>3 DEF ForgetsOnRequest
    <3>2. CASE t \in Meant(x) /\ x \in Text \cup Distinctive
      BY <3>1, <3>2, MeantIsForgotten
    <3>3. CASE ~(t \in Meant(x) /\ x \in Text \cup Distinctive)
      BY <1>1, <2>1, <3>1, <3>3 DEF ForgottenOnRequest, Forgotten
    <3> QED
      BY <3>2, <3>3
  <2>4. CASE Expires
    <3>1. PICK s \in Session, i \in Id : Expire(s, i)
      BY <2>4 DEF Expires
    <3>2. word[t] = "gone" /\ tombs \subseteq tombs'
      BY <1>0, <1>1, <3>1 DEF Expire, Forgotten, TypeOK
    <3> QED
      BY <2>1, <3>2
  <2>5. CASE Touches \/ Archives \/ TimePasses \/ LeavesTable
    <3>1. UNCHANGED <<word, tombs>>
      BY <2>5 DEF Touches, Touch, Archives, Archive, TimePasses, LeavesTable, history
    <3> QED
      BY <1>1, <2>1, <3>1
  <2> QED
    BY <2>2, <2>3, <2>4, <2>5, StepKinds
<1>2. ASSUME NEW t \in Text, word'[t] = "dropped" PROVE NoActive(t)'
  <2>1. ASSUME word[t] = "dropped", ~Stored(t) PROVE NoActive(t)'
    BY <1>0, <2>1, NoActiveStays DEF WordsAreTrue
  <2>2. ~Stored(t)
    BY <1>2 DEF Stored
  <2>3. CASE StoresOne
    <3>1. word[t] = "dropped"
      BY <1>2, <2>3 DEF StoresOne, Stored
    <3> QED
      BY <2>1, <2>2, <3>1
  <2>4. CASE ForgetsOnRequest
    <3>1. PICK x \in Text \cup Phrase \cup DOMAIN rows : ForgottenOnRequest(x)
      BY <2>4 DEF ForgetsOnRequest
    <3>2. CASE t \in Meant(x)
      <4>1. x \notin Text \cup Distinctive
        BY <1>2, <3>1, <3>2 DEF ForgottenOnRequest
      <4> QED
        BY <3>1, <3>2, <4>1, MeantIsForgotten
    <3>3. CASE t \notin Meant(x)
      BY <1>2, <2>1, <2>2, <3>1, <3>3 DEF ForgottenOnRequest
    <3> QED
      BY <3>2, <3>3
  <2>5. CASE Expires
    <3>1. PICK s \in Session, i \in Id : Expire(s, i)
      BY <2>5 DEF Expires
    <3>2. word[t] = "dropped"
      BY <1>0, <1>2, <3>1 DEF Expire, TypeOK
    <3> QED
      BY <2>1, <2>2, <3>2
  <2>6. CASE Touches \/ Archives \/ TimePasses \/ LeavesTable
    <3>1. UNCHANGED word
      BY <2>6 DEF Touches, Touch, Archives, Archive, TimePasses, LeavesTable, history
    <3> QED
      BY <1>2, <2>1, <2>2, <3>1
  <2> QED
    BY <2>3, <2>4, <2>5, <2>6, StepKinds
<1>3. ASSUME NEW s \in Session, NEW t \in Text, since'[s][t] = "dropped" PROVE NoActive(t)'
  <2>1. ~Stored(t)
    BY <1>0, <1>3 DEF Stored
  <2>2. since[s][t] = "dropped" \/ word[t] = "dropped"
    BY <1>3, RecallStep DEF RecallMoves, Looks, Goes, Gives
  <2> QED
    BY <1>0, <2>1, <2>2, NoActiveStays DEF WordsAreTrue
<1> QED
  BY <1>1, <1>2, <1>3 DEF WordsAreTrue, HiddenText

\* What a call read of the tombstones hides what they hid.
LEMMA HidesStep == MInv /\ [Next]_vars => ReadHides'
<1> SUFFICES ASSUME MInv, [Next]_vars, NEW s \in Session, NEW t \in Text,
                    at'[s] \in {"listing", "acting"}, since'[s][t] = "gone"
             PROVE  HiddenText(t, read'[s])
  BY DEF ReadHides, HiddenText
<1>0. ReadHides /\ WordsAreTrue
  BY DEF MInv
<1>1. CASE Looks(s)
  BY <1>0, <1>1 DEF Looks, WordsAreTrue
<1>2. CASE Goes(s)
  <2>1. since[s][t] = "gone" /\ at[s] \in {"listing", "acting"} /\ read'[s] = read[s]
    BY <1>2 DEF Goes
  <2> QED
    BY <1>0, <2>1 DEF ReadHides
<1>3. CASE Gives(s)
  BY <1>3 DEF Gives
<1> QED
  BY <1>1, <1>2, <1>3, RecallStep DEF RecallMoves

\* What a call lists was not hidden when it looked.
LEMMA VisibleStep == MInv /\ [Next]_vars => ListedAreVisible'
<1> SUFFICES ASSUME MInv, [Next]_vars, NEW s \in Session, NEW i \in DOMAIN listed'[s]
             PROVE  /\ ~HiddenText(listed'[s][i].text, read'[s])
                    /\ since'[s][listed'[s][i].text] # "dropped"
  BY DEF ListedAreVisible, HiddenText
<1>0. /\ ListedAreVisible /\ WordsAreTrue /\ Unlisted /\ Unlisted'
      /\ \A k \in DOMAIN rows : rows[k].text \in Text
      /\ \A k \in DOMAIN listed[s] : listed[s][k].text \in Text
  BY UnlistedStep, RowTypes DEF MInv, TableInv, TypeOK, Row
<1>1. CASE Lists(s)
  <2>1. /\ i \in Visible(s) /\ listed'[s][i] = rows[i]
        /\ read'[s] = read[s] /\ since'[s] = since[s]
    BY <1>1 DEF Lists
  <2>2. i \in DOMAIN rows /\ rows[i].active /\ ~HiddenText(rows[i].text, read[s])
    BY <2>1 DEF Visible, Hidden
  <2>3. since[s][rows[i].text] # "dropped"
    BY <1>0, <2>2 DEF WordsAreTrue, NoActive
  <2> QED
    BY <2>1, <2>2, <2>3
<1>2. CASE Holds(s)
  <2>1. listed'[s] = listed[s] /\ i \in DOMAIN listed[s]
    BY <1>2 DEF Holds
  <2>2. at[s] = "acting" /\ at'[s] = "acting"
    BY <1>0, <2>1 DEF Unlisted
  <2>3. Goes(s)
    BY <2>2, RecallStep DEF RecallMoves, Looks, Gives
  <2> QED
    BY <1>0, <2>1, <2>3 DEF Goes, ListedAreVisible
<1>3. CASE Clears(s)
  BY <1>3 DEF Clears
<1> QED
  BY <1>1, <1>2, <1>3, SnapshotStep DEF SnapshotMoves

\* What a recall shows was listed, or comes from the index.
LEMMA ShownStep == MInv /\ [Next]_vars => ForgottenOnlyComesFromTheIndex'
<1> SUFFICES ASSUME MInv, [Next]_vars, NEW s \in Session, NEW t \in shown'[s]
             PROVE  /\ since'[s][t] # "gone"
                    /\ since'[s][t] = "dropped" => t \in copies'
  BY DEF ForgottenOnlyComesFromTheIndex
<1>0. /\ ForgottenOnlyComesFromTheIndex /\ ReadHides /\ ListedAreVisible
      /\ copies \subseteq copies' /\ copies \subseteq Text /\ shown[s] \subseteq Text
      /\ \A k \in DOMAIN listed[s] : listed[s][k].text \in Text
  BY RecallStep DEF MInv, TableInv, TypeOK, Row, RecallMoves
<1>1. CASE Looks(s)
  BY <1>1 DEF Looks
<1>2. CASE Goes(s)
  <2>1. t \in shown[s] /\ since'[s][t] \in {since[s][t], "kept"}
    BY <1>0, <1>2 DEF Goes
  <2> QED
    BY <1>0, <2>1 DEF ForgottenOnlyComesFromTheIndex
<1>3. CASE Gives(s)
  <2>1. since'[s] = since[s]
    BY <1>3 DEF Gives
  <2>2. CASE t \in shown[s]
    BY <1>0, <2>1, <2>2 DEF ForgottenOnlyComesFromTheIndex
  <2>3. CASE at[s] = "acting" /\ t \in copies /\ ~HiddenText(t, read[s])
    BY <1>0, <2>1, <2>3 DEF ReadHides
  <2>4. ASSUME at[s] = "acting", NEW i \in DOMAIN listed[s], t = listed[s][i].text
        PROVE  since[s][t] # "gone" /\ since[s][t] # "dropped"
    BY <1>0, <2>4 DEF ReadHides, ListedAreVisible
  <2> QED
    BY <1>3, <2>1, <2>2, <2>3, <2>4 DEF Gives
<1> QED
  BY <1>1, <1>2, <1>3, RecallStep DEF RecallMoves

-----------------------------------------------------------------------------
\* The invariant holds in every state of every behaviour.
LEMMA Invariance == Spec => []MInv
<1>1. MInv /\ [Next]_vars => MInv'
  BY TableStep, UnlistedStep, OlderStep, AgesStep, SavedStep, WordsStep, HidesStep,
     VisibleStep, ShownStep DEF MInv
<1> QED
  BY InitInv, <1>1, PTL DEF Spec

\* The table and what the sessions have of it keep their types: there are no
\* more rows than operations, each with its text, tier, age and stamp, and
\* what a tidy will write was in its snapshot.
THEOREM TypeCorrect == Spec => []TypeOK
BY Invariance, PTL DEF MInv, TableInv

\* For any number of sessions and of overlapping tidies and requests to
\* forget: what was saved last is an active row that no tombstone hides by its
\* text or number, unless a tidy forgot it that had not seen its use
\* (sqlite_store.py:178-225, simple_memory.py:311-337).
THEOREM WhatWasSavedIsKept == Spec => []SavedIsKept
BY Invariance, PTL DEF MInv

\* Whatever tidies write back over notes in use, no active note is thought to
\* be older than the time since its last use (sqlite_store.py:400-418).
THEOREM NoNoteAgesEarly == Spec => []AgesAreTrue
BY Invariance, PTL DEF MInv

\* A recall gives nothing that was forgotten by its text or by a distinctive
\* phrase before it began; what was forgotten by number or by a short phrase
\* it can only have from the index (service.py:91-105, 248-291, 389-402).
THEOREM ForgottenStaysAway == Spec => []ForgottenOnlyComesFromTheIndex
BY Invariance, PTL DEF MInv

=============================================================================
