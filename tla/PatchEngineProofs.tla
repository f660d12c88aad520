-------------------------- MODULE PatchEngineProofs --------------------------
(***************************************************************************)
(* Proofs about PatchEngine, for any set of paths and any number of        *)
(* changes, operations and faults: its types, that /undo spares the        *)
(* changes after the one it takes back, that a diff which fails puts back  *)
(* what its backups allow, and that a rollback which reports success has   *)
(* restored everything.                                                    *)
(*                                                                         *)
(* The last three say what one kind of step does, so each follows from an  *)
(* invariant that holds before the step.  The lemmas named Same... sum a   *)
(* step up once: what it can make of the change under way, of a rollback,  *)
(* of a manifest and of a change's history.                                *)
(***************************************************************************)
EXTENDS PatchEngine, TLAPS

Stage == {"ready", "saving", "changing", "halfway", "recording", "refused", "undoing"}

\* What a change under way has in each stage: it is the latest one, an operation
\* while it backs up or changes files, a path still to back up while it saves;
\* a diff goes through three of the stages only.
JobShape ==
    job # Free =>
        /\ job.n = begun
        /\ job.stage \in {"saving", "changing", "halfway"} => job.op \in Op
        /\ job.stage = "saving" => job.todo # <<>>
        /\ job.diff => job.stage \in {"ready", "halfway", "refused"}
        /\ job.diff /\ job.stage = "halfway" => job.op.dest \in job.saved

\* A rollback is of a change that has begun, and its caller's is of the change
\* that is being undone.
UndoShape ==
    \A u \in Undoer : undo[u] # Resting =>
        /\ undo[u].n <= begun /\ undo[u].upto <= begun
        /\ u = "caller" => undo[u].n = job.n

\* A change under way that the user rolls back counts as disturbed everywhere.
DisturbedByUndo ==
    job # Free =>
        /\ Restoring("user") /\ undo["user"].n = job.n => found[job.n].others = Path
        /\ Readable(job.n) /\ manifest[job.n].status = "rolled_back" => found[job.n].others = Path

\* /undo skipped no change that is not rolled back.
UndoSkipsNone ==
    undo["user"] # Resting /\ undo["user"].how = "undo" =>
        \A m \in Change :
            undo["user"].n < m /\ m <= undo["user"].upto
                /\ Readable(m) /\ manifest[m].status # "rolled_back"
            => found[m].others = Path

\* What a diff under way can put back: directories are where they were, what it
\* did not write is as it was, and what it wrote over has its backup.
DiffKeepsBackups ==
    job # Free /\ job.diff =>
        \A p \in Path \ found[job.n].others :
            /\ (found[job.n].disk[p] = Dir) <=> (disk[p] = Dir)
            /\ p \notin job.saved \cup job.created => disk[p] = found[job.n].disk[p]
            /\ p \in job.saved \ job.created /\ found[job.n].disk[p] \in File
                 => bak[p] = found[job.n].disk[p]

\* What is on the disk, and what was kept of it, comes from changes that had
\* begun by then.
UpTo(n) == 0..n \cup {Absent, Dir, None}

ContentsAreOld ==
    /\ \A p \in Path : disk[p] \in UpTo(begun) /\ bak[p] \in UpTo(begun)
    /\ \A n \in 1..begun : \A p \in Path : found[n].disk[p] \in UpTo(n - 1)
    /\ \A n \in 1..begun : Readable(n) =>
          \A i \in DOMAIN manifest[n].touched : manifest[n].touched[i].was \in UpTo(n)
    /\ \A u \in Undoer : undo[u] # Resting =>
          \A i \in DOMAIN undo[u].left : undo[u].left[i].was \in UpTo(undo[u].n)

\* A diff keeps no manifest.
DiffsHaveNoManifest == job # Free /\ job.diff => ~Readable(job.n)

\* The file a change found at a path.
Before(n, p) == IF found[n].disk[p] \in File THEN found[n].disk[p] ELSE None

\* A manifest has one backup of each path, of the file the change found there.
BackupsAreTrue ==
    \A n \in 1..begun : Readable(n) =>
        \A i \in DOMAIN manifest[n].touched :
            /\ manifest[n].touched[i].path \notin found[n].others =>
                  manifest[n].touched[i].was = Before(n, manifest[n].touched[i].path)
            /\ \A k \in DOMAIN manifest[n].touched :
                  manifest[n].touched[k].path = manifest[n].touched[i].path => k = i

\* A change under way writes no path before it has its backup.
UntouchedIsAsFound ==
    job # Free /\ ~job.diff /\ job.stage # "undoing" /\ Readable(job.n) =>
        /\ \A p \in Path \ (Touched(job.n) \cup found[job.n].others) :
              disk[p] = found[job.n].disk[p]
        /\ job.stage = "saving" =>
              {job.op.path, job.op.dest} \subseteq Touched(job.n) \cup ToSet(job.todo)
        /\ job.stage \in {"changing", "halfway"} =>
              {job.op.path, job.op.dest} \subseteq Touched(job.n)

\* What the latest change wrote is where it has a backup.
WritesAreTouched ==
    begun > 0 /\ Readable(begun) =>
        \A p \in Path \ (Touched(begun) \cup found[begun].others) : disk[p] # begun

\* What a path is after RestoreOne put it back, a directory being left alone.
PutBackTo(e) == IF e.was = None THEN {Absent, Dir} ELSE {e.was, Dir}

\* How many of the backups a rollback has put back.
Done(u) == Len(manifest[undo[u].n].touched) - Len(undo[u].left)

\* A rollback has a suffix of the backups left, and what came before it is put
\* back, unless somebody wrote there since.
RollbacksAdvance ==
    \A u \in Undoer :
        Restoring(u) /\ Readable(undo[u].n) /\ found[undo[u].n].others # Path =>
            /\ Done(u) >= 0
            /\ \A i \in DOMAIN undo[u].left :
                  undo[u].left[i] = manifest[undo[u].n].touched[Done(u) + i]
            /\ \A i \in 1..Done(u) :
                  manifest[undo[u].n].touched[i].path \notin undo[u].others =>
                      disk[manifest[undo[u].n].touched[i].path]
                          \in PutBackTo(manifest[undo[u].n].touched[i])

\* There is no manifest of a change that has not begun.
NoneBeforehand == \A n \in Change : n > begun => ~Readable(n)

\* What the safety of undo and of a diff rests on beside their own invariant.
Shapes == TypeOK /\ JobShape /\ UndoShape /\ NoneBeforehand

\* The invariant for a rollback that reports success.
PInv ==
    /\ Shapes
    /\ ContentsAreOld /\ DiffsHaveNoManifest /\ DisturbedByUndo
    /\ BackupsAreTrue /\ UntouchedIsAsFound /\ WritesAreTouched /\ RollbacksAdvance

-----------------------------------------------------------------------------
\* A change's record stays one when a field of it is replaced.
LEMMA JobRecords ==
    ASSUME NEW j \in Job
    PROVE  /\ \A s \in Stage : [j EXCEPT !.stage = s] \in Job
           /\ \A o \in Op \cup {None} : [j EXCEPT !.op = o] \in Job
           /\ \A t \in Seq(Path) : [j EXCEPT !.todo = t] \in Job
           /\ \A s \in Stage, o \in Op \cup {None}, t \in Seq(Path) :
                  [j EXCEPT !.stage = s, !.op = o, !.todo = t] \in Job
           /\ \A s \in Stage, o \in Op \cup {None}, t \in SUBSET Path :
                  [j EXCEPT !.stage = s, !.op = o, !.saved = t] \in Job
           /\ \A t \in SUBSET Path : [j EXCEPT !.created = t] \in Job
BY DEF Job, Stage

\* An operation touches one path or two.
LEMMA OpPaths ==
    ASSUME NEW op \in Op
    PROVE  /\ PathsOf(op) \in Seq(Path) /\ PathsOf(op) # <<>>
           /\ ToSet(PathsOf(op)) \subseteq Path
           /\ ToSet(PathsOf(op)) \subseteq {op.path, op.dest}
           /\ WellFormed(op) => ToSet(PathsOf(op)) = {op.path, op.dest}
BY DEF PathsOf, TwoPaths, Op, ToSet, WellFormed

\* No record of a stage is the one that stands for no work.
LEMMA Records ==
    /\ Free \notin Job /\ Resting \notin Undo
    /\ \A j \in Job :
          j.n \in Change /\ j.saved \in SUBSET Path /\ j.created \in SUBSET Path
    /\ \A k \in Undo :
          /\ k.n \in Change /\ k.upto \in Change /\ k.left \in Seq(Entry)
          /\ k.others \in SUBSET Path
          /\ \A o \in SUBSET Path : [k EXCEPT !.others = o] \in Undo
          /\ \A l \in Seq(Entry) : [k EXCEPT !.left = l] \in Undo
          /\ \A l \in Seq(Entry) : [k EXCEPT !.stage = "restoring", !.left = l] \in Undo
BY DEF Free, Resting, Job, Undo

\* A manifest stays one when a field of it is replaced.
LEMMA Entries ==
    ASSUME NEW m \in Manifest
    PROVE  /\ m.touched \in Seq(Entry) /\ m.status \in Status
           /\ \A t \in Seq(Entry) : [m EXCEPT !.touched = t] \in Manifest
           /\ \A s \in Status : [m EXCEPT !.status = s] \in Manifest
BY DEF Manifest

\* What an operation's first step makes of the files are files.
LEMMA FirstStepType ==
    ASSUME TypeOK, NEW op \in Op, job # Free
    PROVE  FirstStep(op) \in [Path -> Content]
BY DEF TypeOK, FirstStep, Content, File, Op, Job, Change

\* What one sees of another's step leaves everything else of his rollback.
LEMMA Seen ==
    ASSUME TypeOK, Changed \subseteq Path, NEW u \in Undoer
    PROVE  /\ SeenByUndo(u) \in Undo \cup {Resting}
           /\ SeenByUndo(u) = Resting <=> undo[u] = Resting
           /\ undo[u] # Resting =>
                /\ SeenByUndo(u).stage = undo[u].stage /\ SeenByUndo(u).n = undo[u].n
                /\ SeenByUndo(u).how = undo[u].how /\ SeenByUndo(u).upto = undo[u].upto
                /\ SeenByUndo(u).left = undo[u].left
                /\ SeenByUndo(u).others = undo[u].others \cup Changed
<1>1. CASE undo[u] = Resting
  BY <1>1 DEF SeenByUndo
<1>2. CASE undo[u] # Resting
  <2>1. undo[u] \in Undo
    BY <1>2 DEF TypeOK
  <2>2. undo[u].others \cup Changed \in SUBSET Path
    BY <2>1, Records
  <2>3. SeenByUndo(u) = [undo[u] EXCEPT !.others = @ \cup Changed]
    BY <1>2 DEF SeenByUndo
  <2>4. SeenByUndo(u) \in Undo
    BY <2>1, <2>2, <2>3, Records
  <2>5. SeenByUndo(u) # Resting
    BY <2>4, Records
  <2> QED
    BY <1>2, <2>1, <2>3, <2>4, <2>5 DEF Undo
<1> QED
  BY <1>1, <1>2

\* So do the files and the rollbacks after a change has written.
LEMMA WritesType ==
    ASSUME TypeOK, NEW files \in [Path -> Content], JobWrites(files)
    PROVE  /\ disk' \in [Path -> Content]
           /\ undo' \in [Undoer -> Undo \cup {Resting}]
           /\ undo'["caller"] # Resting <=> undo["caller"] # Resting
<1>1. Changed \subseteq Path
  BY DEF Changed
<1> QED
  BY <1>1, Seen DEF JobWrites, Undoer

\* A backup is appended to entries, or was among them.
LEMMA SavedType ==
    ASSUME TypeOK, NEW entries \in Seq(Entry), NEW p \in Path
    PROVE  Saved(entries, p) \in Seq(Entry)
<1>1. [path |-> p, was |-> FileAt(p)] \in Entry
  BY DEF TypeOK, FileAt, Entry, Content
<1> QED
  BY <1>1 DEF Saved

\* The history of one change is replaced.
LEMMA FoundType ==
    ASSUME TypeOK, NEW k \in Change, k <= begun, NEW x \in Found,
           found' = [found EXCEPT ![k] = x]
    PROVE  found' \in [Change -> Found \cup {None}] /\ \A n \in 1..begun : found'[n] \in Found
<1>1. found' \in [Change -> Found \cup {None}]
  BY DEF TypeOK
<1>2. ASSUME NEW n \in 1..begun PROVE found'[n] \in Found
  BY PatchAssumption DEF TypeOK, Change
<1> QED
  BY <1>1, <1>2

\* The initial state has its types.
LEMMA TypeInit == ASSUME Init PROVE TypeOK
BY PatchAssumption DEF Init, TypeOK, Content, File, Working, Undoer, Free, Resting

\* One step of the proof per action.
LEMMA TypeStep == ASSUME Shapes, [Next]_vars PROVE TypeOK'
<1> USE PatchAssumption
<1>0. CASE UNCHANGED vars
  BY <1>0 DEF Shapes, TypeOK, vars, Working
<1>1. ASSUME NEW diff \in BOOLEAN, Begin(diff) PROVE TypeOK'
  <2>1. begun' \in Change /\ begun + 1 = begun' /\ begun \in Nat
    BY <1>1 DEF Begin, Shapes, TypeOK, Change
  <2>2. job' \in Job
    BY <1>1, <2>1 DEF Begin, Job
  <2>3. manifest' \in [Change -> Manifest \cup {None, Torn}]
    BY <1>1, <2>1 DEF Begin, Shapes, TypeOK, Manifest, Status
  <2>4. found'[begun'] \in Found /\ found' \in [Change -> Found \cup {None}]
    BY <1>1, <2>1 DEF Begin, Shapes, TypeOK, Found
  <2>5. \A n \in 1..begun' : found'[n] \in Found
    BY <1>1, <2>1, <2>4 DEF Begin, Shapes, TypeOK, Change
  <2>6. undo'["caller"] = Resting /\ ~Working("undoing")'
    BY <1>1, <2>2, Records DEF Begin, Shapes, TypeOK, Working, Free
  <2>7. UNCHANGED <<disk, bak, undo, ops, faults>> /\ begun' \in 0..MaxChanges
    BY <1>1, <2>1 DEF Begin, Change
  <2> QED
    BY <2>2, <2>3, <2>4, <2>5, <2>6, <2>7 DEF Shapes, TypeOK
<1>2. ASSUME NEW op \in Op, NextOp(op) PROVE TypeOK'
  <2>1. job \in Job /\ job' \in Job
    BY <1>2, OpPaths, JobRecords DEF NextOp, Shapes, TypeOK, Working, Stage
  <2>2. job.stage = "ready" /\ job'.stage \in {"saving", "refused"}
    BY <1>2, <2>1 DEF NextOp, Working, Job
  <2>3. ops' \in 0..MaxOps
    BY <1>2 DEF NextOp, Shapes, TypeOK
  <2>4. (undo["caller"] # Resting <=> Working("undoing"))'
    BY <1>2, <2>1, <2>2, Records DEF NextOp, Shapes, TypeOK, Working
  <2>5. UNCHANGED <<disk, begun, manifest, bak, undo, found, faults>>
    BY <1>2 DEF NextOp
  <2> QED
    BY <2>1, <2>3, <2>4, <2>5 DEF Shapes, TypeOK
<1>3. CASE Save
  <2>1. job \in Job /\ job.n \in Change /\ manifest[job.n] \in Manifest
    BY <1>3 DEF Save, Shapes, TypeOK, Working, Readable, Job
  <2>2. Head(job.todo) \in Path /\ Tail(job.todo) \in Seq(Path)
    BY <1>3, <2>1 DEF Save, Shapes, JobShape, Working, Job
  <2>3. manifest' \in [Change -> Manifest \cup {None, Torn}]
    BY <1>3, <2>1, <2>2, SavedType, Entries DEF Save, Shapes, TypeOK
  <2>4. job' \in Job /\ job'.stage \in {"saving", "changing"}
    BY <1>3, <2>1, <2>2 DEF Save, Working, Job
  <2> QED
    BY <1>3, <2>1, <2>3, <2>4, Records DEF Save, Shapes, TypeOK, Working
<1>4. CASE Mutate
  <2>1. job \in Job /\ job.op \in Op
    BY <1>4 DEF Mutate, Shapes, TypeOK, JobShape, Working
  <2>2. JobWrites(FirstStep(job.op)) /\ FirstStep(job.op) \in [Path -> Content]
    BY <1>4, <2>1, FirstStepType DEF Mutate, Shapes, Working
  <2>3. job' \in Job /\ job'.stage \in {"halfway", "recording"}
    BY <1>4, <2>1 DEF Mutate, Job
  <2> QED
    BY <1>4, <2>1, <2>2, <2>3, WritesType, Records DEF Mutate, Shapes, TypeOK, Working
<1>5. CASE Rewrite
  <2>1. job \in Job /\ job.op \in Op /\ job.n \in Content
    BY <1>5 DEF Rewrite, Shapes, TypeOK, JobShape, Working, Job, Content, File, Change
  <2>2. [disk EXCEPT ![job.op.dest] = job.n] \in [Path -> Content]
    BY <2>1 DEF Shapes, TypeOK
  <2>3. job' \in Job /\ job'.stage \in {"ready", "recording"}
    BY <1>5, <2>1 DEF Rewrite, Job
  <2> QED
    BY <1>5, <2>1, <2>2, <2>3, WritesType, Records DEF Rewrite, Shapes, TypeOK, Working
<1>6. CASE Record
  <2>1. job \in Job /\ job' \in Job /\ job'.stage = "ready"
    BY <1>6 DEF Record, Shapes, TypeOK, Working, Job
  <2> QED
    BY <1>6, <2>1, Records DEF Record, Shapes, TypeOK, Working
<1>7. CASE Raises
  <2>1. job \in Job /\ job' \in Job /\ job'.stage = "refused"
    <3>1. job \in Job /\ <<>> \in Seq(Path)
      BY <1>7 DEF Raises, Shapes, TypeOK
    <3>2. job' = [job EXCEPT !.stage = "refused", !.op = None, !.todo = <<>>]
      BY <1>7 DEF Raises
    <3> QED
      BY <3>1, <3>2 DEF Job
  <2>2. faults' \in 0..MaxFaults
    BY <1>7 DEF Raises, Faulty, Shapes, TypeOK
  <2> QED
    BY <1>7, <2>1, <2>2, Records DEF Raises, Shapes, TypeOK, Working
<1>8. CASE Finalize
  <2>1. job \in Job /\ job.n \in Change /\ manifest[job.n] \in Manifest
    BY <1>8 DEF Finalize, Shapes, TypeOK, Readable, Job
  <2>2. manifest' \in [Change -> Manifest \cup {None, Torn}]
    <3>1. PICK status \in Status : manifest' = [manifest EXCEPT ![job.n].status = status]
      BY <1>8 DEF Finalize, Outcomes, Status
    <3> QED
      BY <2>1, <3>1, Entries DEF Shapes, TypeOK
  <2> QED
    BY <1>8, <2>1, <2>2 DEF Finalize, Shapes, TypeOK, Working
<1>9. ASSUME NEW op \in Op, PatchFile(op) PROVE TypeOK'
  <2>1. job \in Job /\ job.stage = "ready" /\ op.path \in Path
    BY <1>9 DEF PatchFile, Shapes, TypeOK, Working, Op
  <2>2. JobWrites(FirstStep(op)) /\ FirstStep(op) \in [Path -> Content]
    BY <1>9, FirstStepType DEF PatchFile, Shapes, Working
  <2>3. job' \in Job /\ job'.stage \in {"ready", "halfway"}
    <3>1. job.created \cup {op.path} \in SUBSET Path
      BY <2>1, Records
    <3>2. job.saved \cup ToSet(PathsOf(op)) \in SUBSET Path
      BY <2>1, Records, OpPaths
    <3>3. CASE op.kind = "create"
      <4>1. job' = [job EXCEPT !.created = job.created \cup {op.path}]
        BY <1>9, <3>3 DEF PatchFile
      <4> QED
        BY <2>1, <3>1, <4>1 DEF Job
    <3>4. CASE op.kind # "create"
      <4>1. PICK st \in {"ready", "halfway"}, o \in Op \cup {None} :
               job' = [job EXCEPT !.stage = st, !.op = o,
                                  !.saved = job.saved \cup ToSet(PathsOf(op))]
        BY <1>9, <3>4 DEF PatchFile
      <4> QED
        BY <2>1, <3>2, <4>1 DEF Job
    <3> QED
      BY <3>3, <3>4
  <2>4. bak' \in [Path -> File \cup {None}]
    BY <1>9, <2>1 DEF PatchFile, Copied, Shapes, TypeOK
  <2>5. ops' \in 0..MaxOps
    BY <1>9 DEF PatchFile, Shapes, TypeOK
  <2>6. UNCHANGED <<begun, manifest, found, faults>>
    BY <1>9 DEF PatchFile
  <2> QED
    BY <2>1, <2>2, <2>3, <2>4, <2>5, <2>6, WritesType, Records DEF Shapes, TypeOK, Working
<1>10. CASE PatchRefused
  <2>1. job \in Job /\ job.stage = "ready"
    BY <1>10 DEF PatchRefused, Shapes, TypeOK, Working
  <2>2. job' \in Job /\ job'.stage = "refused"
    <3>1. CASE job' = [job EXCEPT !.stage = "refused"]
      BY <2>1, <3>1 DEF Job
    <3>2. CASE \E p \in Path : job' = [job EXCEPT !.stage = "refused", !.saved = @ \cup {p}]
      <4>1. PICK p \in Path :
               job' = [job EXCEPT !.stage = "refused", !.saved = job.saved \cup {p}]
        BY <3>2
      <4>2. job.saved \cup {p} \in SUBSET Path
        BY <2>1, Records
      <4> QED
        BY <2>1, <4>1, <4>2 DEF Job
    <3> QED
      BY <1>10, <3>1, <3>2 DEF PatchRefused
  <2>3. bak' \in [Path -> File \cup {None}]
    BY <1>10 DEF PatchRefused, Copied, Shapes, TypeOK
  <2>4. UNCHANGED <<disk, begun, manifest, undo, found, ops, faults>>
    BY <1>10 DEF PatchRefused
  <2> QED
    BY <2>1, <2>2, <2>3, <2>4, Records DEF Shapes, TypeOK, Working
<1>11. CASE PatchApplied
  BY <1>11, Records DEF PatchApplied, Shapes, TypeOK, Working
<1>12. CASE RestoreBackups
  <2>1. job \in Job /\ job.stage = "refused"
    BY <1>12 DEF RestoreBackups, Shapes, TypeOK, Working
  <2>2. [p \in Path |-> PutBack(p)] \in [Path -> Content]
    BY DEF PutBack, Over, Shapes, TypeOK, Content
  <2>3. bak' \in [Path -> File \cup {None}]
    BY <1>12 DEF RestoreBackups, Shapes, TypeOK
  <2>4. JobWrites([p \in Path |-> PutBack(p)]) /\ job' = Free
        /\ UNCHANGED <<begun, manifest, found, ops, faults>>
    BY <1>12 DEF RestoreBackups
  <2> QED
    BY <2>1, <2>2, <2>3, <2>4, WritesType DEF Shapes, TypeOK, Working
<1>13. ASSUME NEW u \in Undoer, NEW n \in Change, NEW how \in {"undo", "id", "caller"},
              Choose(u, n, how), begun # 0
       PROVE  /\ undo' \in [Undoer -> Undo \cup {Resting}] /\ undo'[u] \in Undo
              /\ \A v \in Undoer \ {u} : undo'[v] = undo[v]
  <2> DEFINE asked == [stage |-> "asking", n |-> n, how |-> how, upto |-> begun,
                       left |-> <<>>, others |-> {}]
  <2>1. asked \in Undo
    BY <1>13 DEF Undo, Shapes, TypeOK, Change
  <2>2. undo' = [undo EXCEPT ![u] = asked]
    BY <1>13 DEF Choose
  <2> QED
    BY <2>1, <2>2 DEF Shapes, TypeOK
<1>14. CASE ChooseLast \/ ChooseById
  <2>1. PICK n \in Change, how \in {"undo", "id"} : Choose("user", n, how)
    BY <1>14 DEF ChooseLast, ChooseById, Shapes, TypeOK, Change
  <2>2. begun # 0
    <3>1. CASE ChooseById
      BY <3>1 DEF ChooseById, Shapes, TypeOK
    <3>2. CASE ChooseLast
      <4>1. PICK m \in Change : Readable(m)
        BY <3>2 DEF ChooseLast, Undoable
      <4> QED
        BY <4>1 DEF Shapes, TypeOK, NoneBeforehand, Change
    <3> QED
      BY <1>14, <3>1, <3>2
  <2> QED
    BY <1>13, <1>14, <2>1, <2>2 DEF ChooseLast, ChooseById, Shapes, TypeOK, Working, Undoer
<1>15. CASE ChooseOwn
  <2>1. job \in Job /\ job.n \in Change /\ manifest[job.n] \in Manifest
    BY <1>15 DEF ChooseOwn, Shapes, TypeOK, Readable, Job
  <2>2. manifest' \in [Change -> Manifest \cup {None, Torn}]
    <3>1. PICK status \in Status : manifest' = [manifest EXCEPT ![job.n].status = status]
      BY <1>15, <2>1, Entries DEF ChooseOwn, Status
    <3> QED
      BY <2>1, <3>1, Entries DEF Shapes, TypeOK
  <2>3. job' \in Job /\ job'.stage = "undoing"
    BY <1>15, <2>1 DEF ChooseOwn, Job
  <2>4. Choose("caller", job.n, "caller") /\ begun # 0
    BY <1>15, <2>1 DEF ChooseOwn, Shapes, JobShape, Change
  <2>5. /\ undo' \in [Undoer -> Undo \cup {Resting}]
        /\ undo'["caller"] \in Undo
    BY <1>13, <2>1, <2>4 DEF Undoer
  <2>6. UNCHANGED <<disk, begun, bak, found, ops, faults>>
    BY <1>15 DEF ChooseOwn
  <2> QED
    BY <2>2, <2>3, <2>5, <2>6, Records DEF Shapes, TypeOK, Working
<1>16. ASSUME NEW u \in Undoer, StartRollback(u) PROVE TypeOK'
  <2>1. undo[u] \in Undo /\ undo[u].n \in Change /\ manifest[undo[u].n] \in Manifest
    BY <1>16 DEF StartRollback, Shapes, TypeOK, Readable, Undoable, Undo
  <2>2. undo' = [undo EXCEPT ![u] = [undo[u] EXCEPT !.stage = "restoring",
                                               !.left = manifest[undo[u].n].touched]]
    BY <1>16 DEF StartRollback, Shapes, TypeOK
  <2>3. undo' \in [Undoer -> Undo \cup {Resting}] /\ undo'[u] \in Undo
    BY <2>1, <2>2, Entries, Records DEF Shapes, TypeOK
  <2>4. found' \in [Change -> Found \cup {None}] /\ \A n \in 1..begun : found'[n] \in Found
    <3>1. undo[u].n \in 1..begun /\ found[undo[u].n] \in Found
      BY <1>16, <2>1 DEF StartRollback, Shapes, TypeOK, UndoShape, Change
    <3>2. [found[undo[u].n] EXCEPT !.others = Path] \in Found
      BY <3>1 DEF Found
    <3>3. \/ found' = found
          \/ found' = [found EXCEPT ![undo[u].n] = [found[undo[u].n] EXCEPT !.others = Path]]
      BY <1>16, <2>1 DEF StartRollback, Shapes, TypeOK
    <3> QED
      <4>1. undo[u].n <= begun
        BY <3>1, PatchAssumption DEF Shapes, TypeOK
      <4> QED
        BY <3>2, <3>3, <4>1, <2>1, FoundType DEF Shapes, TypeOK
  <2>5. undo'["caller"] # Resting <=> undo["caller"] # Resting
    BY <1>16, <2>2, <2>3, Records DEF StartRollback, Shapes, TypeOK, Undoer
  <2>6. UNCHANGED <<disk, begun, manifest, bak, job, ops, faults>>
    BY <1>16 DEF StartRollback
  <2> QED
    BY <2>3, <2>4, <2>5, <2>6 DEF Shapes, TypeOK, Working
<1>17. ASSUME NEW u \in Undoer, UndoEnds(u)
       PROVE  /\ job' \in Job \cup {Free} /\ undo' \in [Undoer -> Undo \cup {Resting}]
              /\ (undo["caller"] # Resting <=> Working("undoing"))'
  BY <1>17, Records DEF UndoEnds, Shapes, TypeOK, Working, Undoer
<1>18. ASSUME NEW u \in Undoer, NoRollback(u) PROVE TypeOK'
  <2>1. UndoEnds(u) /\ UNCHANGED <<disk, begun, manifest, bak, found, ops, faults>>
    BY <1>18 DEF NoRollback
  <2> QED
    BY <1>17, <2>1 DEF Shapes, TypeOK
<1>19. ASSUME NEW u \in Undoer, RestoreOne(u) PROVE TypeOK'
  <2> DEFINE e == Head(undo[u].left)
  <2>1. undo[u] \in Undo /\ e \in Entry /\ Tail(undo[u].left) \in Seq(Entry)
    BY <1>19 DEF RestoreOne, Restoring, Shapes, TypeOK, Undo
  <2>2. PICK content \in PutBackEntry(e) : disk' = [disk EXCEPT ![e.path] = content]
    BY <1>19 DEF RestoreOne
  <2>3. disk' \in [Path -> Content] /\ Changed \in SUBSET Path
    BY <2>1, <2>2 DEF PutBackEntry, Over, Entry, Content, Shapes, TypeOK, Changed
  <2>4. /\ undo' \in [Undoer -> Undo \cup {Resting}]
        /\ undo'["caller"] # Resting <=> undo["caller"] # Resting
    <3>1. undo'[u] \in Undo
      BY <1>19, <2>1, Records DEF RestoreOne
    <3>2. \A v \in Undoer \ {u} : undo'[v] = SeenByUndo(v)
      BY <1>19 DEF RestoreOne
    <3>3. undo[u] # Resting
      BY <1>19 DEF RestoreOne, Restoring
    <3>4. \A v \in Undoer : undo'[v] \in Undo \cup {Resting}
      BY <2>3, <3>1, <3>2, Seen DEF Shapes
    <3>5. undo' = [v \in Undoer |-> undo'[v]]
      BY <1>19 DEF RestoreOne
    <3>6. undo'["caller"] # Resting <=> undo["caller"] # Resting
      <4>1. "caller" \in Undoer
        BY DEF Undoer
      <4>2. CASE u = "caller"
        BY <3>1, <3>3, <4>2, Records
      <4>3. CASE u # "caller"
        BY <2>3, <3>2, <4>1, <4>3, Seen DEF Shapes
      <4> QED
        BY <4>2, <4>3
    <3> QED
      BY <3>4, <3>5, <3>6
  <2>5. found' \in [Change -> Found \cup {None}] /\ \A n \in 1..begun : found'[n] \in Found
    <3>1. CASE found' = found
      BY <3>1 DEF Shapes, TypeOK
    <3>2. CASE found' # found
      <4>1. job \in Job /\ job.n \in Change /\ job.n <= begun
        BY <1>19, <3>2 DEF RestoreOne, Shapes, TypeOK, JobShape, Job, Change
      <4>2. found' = [found EXCEPT ![job.n] =
                        [found[job.n] EXCEPT !.others = found[job.n].others \cup Changed]]
        BY <1>19, <3>2, <4>1 DEF RestoreOne, Shapes, TypeOK
      <4>3. found[job.n] \in Found /\ found[job.n].others \cup Changed \in SUBSET Path
        <5>1. job.n \in 1..begun
          BY <4>1, PatchAssumption DEF Shapes, TypeOK, Change
        <5> QED
          BY <2>3, <5>1 DEF Shapes, TypeOK, Found
      <4>4. [found[job.n] EXCEPT !.others = found[job.n].others \cup Changed] \in Found
        BY <4>3 DEF Found
      <4> QED
        BY <4>1, <4>2, <4>4, FoundType DEF Shapes
    <3> QED
      BY <3>1, <3>2
  <2>6. UNCHANGED <<begun, manifest, bak, job, ops, faults>>
    BY <1>19 DEF RestoreOne
  <2>7. Working("undoing")' <=> Working("undoing")
    BY <2>6 DEF Working
  <2> QED
    BY <2>3, <2>4, <2>5, <2>6, <2>7 DEF Shapes, TypeOK
<1>20. ASSUME NEW u \in Undoer, FinishRollback(u) PROVE TypeOK'
  <2>1. undo[u].n \in Change /\ manifest[undo[u].n] \in Manifest
    BY <1>20 DEF FinishRollback, Restoring, Readable, Shapes, TypeOK, Undo
  <2>2. manifest' \in [Change -> Manifest \cup {None, Torn}]
    <3>1. manifest' = [manifest EXCEPT ![undo[u].n] =
                          [manifest[undo[u].n] EXCEPT !.status = "rolled_back"]]
      BY <1>20, <2>1 DEF FinishRollback, Shapes, TypeOK
    <3> QED
      BY <2>1, <3>1, Entries DEF Status, Shapes, TypeOK
  <2>3. UndoEnds(u) /\ UNCHANGED <<disk, begun, bak, found, ops, faults>>
    BY <1>20 DEF FinishRollback
  <2> QED
    BY <1>17, <2>2, <2>3 DEF Shapes, TypeOK
<1>21. ASSUME NEW u \in Undoer, RollbackRaises(u) PROVE TypeOK'
  <2>1. UndoEnds(u) /\ UNCHANGED <<disk, begun, manifest, bak, found, ops>>
    BY <1>21 DEF RollbackRaises
  <2>2. faults' \in 0..MaxFaults
    BY <1>21 DEF RollbackRaises, Faulty, Shapes, TypeOK
  <2> QED
    BY <1>17, <2>1, <2>2 DEF Shapes, TypeOK
<1>22. CASE JobDies
  <2>1. faults' \in 0..MaxFaults
    BY <1>22 DEF JobDies, Faulty, Shapes, TypeOK
  <2>2. manifest' \in [Change -> Manifest \cup {None, Torn}]
    BY <1>22 DEF JobDies, MayTear, Shapes, TypeOK
  <2>3. job' = Free /\ UNCHANGED <<disk, begun, bak, undo, found, ops>>
    BY <1>22 DEF JobDies
  <2>4. (undo["caller"] # Resting <=> Working("undoing"))'
    BY <1>22, <2>3 DEF JobDies, Shapes, TypeOK, Working
  <2> QED
    BY <2>1, <2>2, <2>3, <2>4 DEF Shapes, TypeOK
<1>23. ASSUME NEW u \in Undoer, UndoDies(u) PROVE TypeOK'
  <2>1. UndoEnds(u) /\ UNCHANGED <<disk, begun, bak, found, ops>>
    BY <1>23 DEF UndoDies
  <2>2. faults' \in 0..MaxFaults
    BY <1>23 DEF UndoDies, Faulty, Shapes, TypeOK
  <2>3. manifest' \in [Change -> Manifest \cup {None, Torn}]
    BY <1>23 DEF UndoDies, MayTear, Shapes, TypeOK
  <2> QED
    BY <1>17, <2>1, <2>2, <2>3 DEF Shapes, TypeOK
<1> QED
  BY <1>0, <1>1, <1>2, <1>3, <1>4, <1>5, <1>6, <1>7, <1>8, <1>9, <1>10, <1>11, <1>12, <1>14,
     <1>15, <1>16, <1>18, <1>19, <1>20, <1>21, <1>22, <1>23
     DEF Next, Transacts, Patches, Undoes
-----------------------------------------------------------------------------

\* A change under way stays itself until it is over.
LEMMA SameJob ==
    ASSUME Shapes, [Next]_vars
    PROVE  \/ job' = Free
           \/ \E diff \in BOOLEAN : Begin(diff)
           \/ /\ job # Free /\ job'.n = job.n /\ job'.diff = job.diff
              /\ begun' = begun
<1>0. CASE UNCHANGED vars
  BY <1>0 DEF vars
<1>1. CASE \E op \in Op : NextOp(op) \/ PatchFile(op)
  BY <1>1 DEF NextOp, PatchFile, Working, Job, Shapes, TypeOK
<1>2. CASE Save \/ Mutate \/ Rewrite \/ Record \/ Raises \/ PatchRefused \/ ChooseOwn
  BY <1>2 DEF Save, Mutate, Rewrite, Record, Raises, PatchRefused, ChooseOwn, Working, Job,
              Shapes, TypeOK
<1>3. CASE Finalize \/ PatchApplied \/ RestoreBackups \/ JobDies
  BY <1>3 DEF Finalize, PatchApplied, RestoreBackups, JobDies
<1>4. CASE ChooseLast \/ ChooseById \/ \E u \in Undoer : StartRollback(u) \/ RestoreOne(u)
  BY <1>4 DEF ChooseLast, ChooseById, StartRollback, RestoreOne
<1>5. CASE \E u \in Undoer : NoRollback(u) \/ FinishRollback(u) \/ RollbackRaises(u) \/ UndoDies(u)
  BY <1>5 DEF NoRollback, FinishRollback, RollbackRaises, UndoDies, UndoEnds
<1> QED
  BY <1>0, <1>1, <1>2, <1>3, <1>4, <1>5 DEF Next, Transacts, Patches, Undoes

\* Each step keeps the shape of the change under way.
LEMMA JobShapeStep == ASSUME Shapes, [Next]_vars PROVE JobShape'
<1>1. CASE job' = Free
  BY <1>1 DEF JobShape
<1>2. ASSUME NEW diff \in BOOLEAN, Begin(diff) PROVE JobShape'
  BY <1>2 DEF JobShape, Begin
<1>3. CASE UNCHANGED job /\ UNCHANGED begun
  BY <1>3 DEF JobShape, Shapes
<1>4. ASSUME NEW op \in Op, NextOp(op) PROVE JobShape'
  <2>1. job \in Job /\ job # Free /\ PathsOf(op) # <<>> /\ ~job.diff
    BY <1>4, OpPaths DEF NextOp, Working, Shapes, TypeOK
  <2>2. CASE job' = [job EXCEPT !.stage = "refused"]
    BY <1>4, <2>1, <2>2 DEF NextOp, JobShape, Shapes, Job
  <2>3. CASE job' = [job EXCEPT !.stage = "saving", !.op = op, !.todo = PathsOf(op)]
    BY <1>4, <2>1, <2>3 DEF NextOp, JobShape, Shapes, Job
  <2> QED
    BY <1>4, <2>2, <2>3 DEF NextOp
<1>5. CASE Save
  <2>1. job \in Job /\ job # Free /\ job.stage = "saving" /\ job.todo \in Seq(Path)
    BY <1>5 DEF Save, Working, Shapes, TypeOK, Job
  <2>2. ASSUME Len(job.todo) # 1, job.todo # <<>> PROVE Tail(job.todo) # <<>>
    <3>1. Len(job.todo) \in Nat /\ Len(job.todo) # 0
      BY <2>1, <2>2
    <3>2. Tail(job.todo) \in Seq(Path) /\ Len(Tail(job.todo)) = Len(job.todo) - 1
      BY <2>1, <2>2
    <3>3. Len(Tail(job.todo)) # 0
      BY <2>2, <3>1, <3>2
    <3>4. Len(<<>>) = 0
      OBVIOUS
    <3> QED
      BY <3>3, <3>4, Zenon
  <2> QED
    BY <1>5, <2>1, <2>2 DEF Save, JobShape, Shapes, Job
<1>6. CASE Mutate \/ Rewrite \/ Record \/ Raises \/ PatchRefused \/ ChooseOwn
  <2>1. job \in Job /\ job # Free
    BY <1>6 DEF Mutate, Rewrite, Record, Raises, PatchRefused, ChooseOwn, Working, Shapes, TypeOK
  <2>2. CASE Mutate
    BY <2>1, <2>2 DEF Mutate, Working, JobShape, Shapes, Job
  <2>3. CASE Rewrite \/ Record \/ Raises
    <3>1. job'.stage \in {"ready", "recording", "refused"} /\ begun' = begun
          /\ job'.n = job.n /\ job'.diff = job.diff
      BY <2>1, <2>3 DEF Rewrite, Record, Raises, Job
    <3>2. job.diff => job'.stage \in {"ready", "refused"}
      BY <2>1, <2>3 DEF Rewrite, Record, Raises, JobShape, Shapes, Working, Job
    <3> QED
      BY <2>1, <3>1, <3>2 DEF JobShape, Shapes
  <2>4. CASE PatchRefused \/ ChooseOwn
    <3>1. job'.stage \in {"refused", "undoing"} /\ begun' = begun
          /\ job'.n = job.n /\ job'.diff = job.diff
      BY <2>1, <2>4 DEF PatchRefused, ChooseOwn, Job
    <3>2. job.diff => job'.stage = "refused"
      BY <2>1, <2>4 DEF PatchRefused, ChooseOwn, Job
    <3> QED
      BY <2>1, <3>1, <3>2 DEF JobShape, Shapes
  <2> QED
    BY <1>6, <2>2, <2>3, <2>4
<1>7. ASSUME NEW op \in Op, PatchFile(op) PROVE JobShape'
  <2>1. job \in Job /\ job # Free /\ job.stage = "ready" /\ job.diff /\ begun' = begun
    BY <1>7 DEF PatchFile, Working, Shapes, TypeOK
  <2>2. CASE op.kind = "create"
    <3>1. job' = [job EXCEPT !.created = job.created \cup {op.path}]
      BY <1>7, <2>2 DEF PatchFile
    <3> QED
      BY <2>1, <3>1 DEF JobShape, Shapes, Job
  <2>3. CASE op.kind = "rewrite"
    <3>1. job' = [job EXCEPT !.stage = "halfway", !.op = op, !.saved = job.saved \cup ToSet(PathsOf(op))]
      BY <1>7, <2>3 DEF PatchFile
    <3>2. op.dest \in ToSet(PathsOf(op))
      BY <1>7, OpPaths DEF PatchFile
    <3> QED
      BY <2>1, <3>1, <3>2 DEF JobShape, Shapes, Job
  <2>4. CASE op.kind \notin {"create", "rewrite"}
    <3>1. job' = [job EXCEPT !.stage = "ready", !.op = None, !.saved = job.saved \cup ToSet(PathsOf(op))]
      BY <1>7, <2>4 DEF PatchFile
    <3> QED
      BY <2>1, <3>1 DEF JobShape, Shapes, Job
  <2> QED
    BY <2>2, <2>3, <2>4
<1>8. CASE \E u \in Undoer : NoRollback(u) \/ FinishRollback(u) \/ RollbackRaises(u) \/ UndoDies(u)
  BY <1>1, <1>3, <1>8 DEF NoRollback, FinishRollback, RollbackRaises, UndoDies, UndoEnds
<1>9. CASE Finalize \/ PatchApplied \/ RestoreBackups \/ JobDies
  BY <1>1, <1>9 DEF Finalize, PatchApplied, RestoreBackups, JobDies
<1>10. CASE \/ UNCHANGED vars
            \/ ChooseLast \/ ChooseById
            \/ \E u \in Undoer : StartRollback(u) \/ RestoreOne(u)
  BY <1>3, <1>10 DEF vars, ChooseLast, ChooseById, StartRollback, RestoreOne
<1> QED
  BY <1>2, <1>4, <1>5, <1>6, <1>7, <1>8, <1>9, <1>10 DEF Next, Transacts, Patches, Undoes

\* What a step makes of a rollback: it begins, or stays itself, and what others
\* write is seen.
LEMMA SameUndo ==
    ASSUME Shapes, [Next]_vars, NEW u \in Undoer, undo'[u] # Resting
    PROVE  \/ /\ u = "user" /\ (ChooseLast \/ ChooseById)
              /\ \E n \in 1..begun, how \in {"undo", "id"} : Choose(u, n, how)
           \/ u = "caller" /\ ChooseOwn /\ Choose(u, job.n, "caller") /\ job.n \in 1..begun
           \/ StartRollback(u)
           \/ RestoreOne(u)
           \/ /\ undo[u] # Resting
              /\ undo'[u].stage = undo[u].stage /\ undo'[u].n = undo[u].n
              /\ undo'[u].how = undo[u].how /\ undo'[u].upto = undo[u].upto
              /\ undo'[u].left = undo[u].left
              /\ undo'[u].others = undo[u].others \cup Changed
<1>0. Changed \subseteq Path /\ Undoer = {"user", "caller"}
  BY DEF Changed, Undoer
<1>1. ASSUME UNCHANGED <<disk, undo>>
      PROVE  undo'[u].others = undo[u].others \cup Changed
  <2>1. Changed = {}
    BY <1>1 DEF Changed
  <2> QED
    BY <1>1, <2>1
<1>2. CASE undo'[u] = undo[u] /\ UNCHANGED disk
  <2>1. Changed = {}
    BY <1>2 DEF Changed
  <2> QED
    BY <1>2, <2>1
<1>3. CASE undo'[u] = SeenByUndo(u)
  BY <1>0, <1>3, Seen DEF Shapes
<1>4. CASE \E files \in [Path -> Content] : JobWrites(files)
  BY <1>3, <1>4 DEF JobWrites
<1>5. CASE Mutate \/ Rewrite \/ RestoreBackups \/ \E op \in Op : PatchFile(op)
  <2>1. undo'[u] = SeenByUndo(u)
    BY <1>5 DEF Mutate, Rewrite, RestoreBackups, PatchFile, JobWrites
  <2> QED
    BY <1>3, <2>1
<1>6. CASE \/ UNCHANGED vars
           \/ \E diff \in BOOLEAN : Begin(diff)
           \/ \E op \in Op : NextOp(op)
           \/ Save \/ Record \/ Finalize \/ PatchRefused \/ PatchApplied \/ Raises \/ JobDies
  BY <1>2, <1>6 DEF vars, Begin, NextOp, Save, Record, Finalize, PatchRefused, PatchApplied,
                    Raises, JobDies
<1>7. CASE ChooseLast \/ ChooseById
  <2>1. UNCHANGED disk
    BY <1>7 DEF ChooseLast, ChooseById
  <2>2. PICK n \in 1..begun, how \in {"undo", "id"} : Choose("user", n, how)
    <3>1. CASE ChooseById
      BY <3>1 DEF ChooseById
    <3>2. CASE ChooseLast
      BY <3>2, PatchAssumption DEF ChooseLast, Undoable, NoneBeforehand, Shapes, TypeOK, Change
    <3> QED
      BY <1>7, <3>1, <3>2
  <2>3. CASE u = "user"
    BY <1>7, <2>2, <2>3
  <2>4. CASE u # "user"
    <3>1. undo'[u] = undo[u]
      BY <2>2, <2>4 DEF Choose, Shapes, TypeOK
    <3> QED
      BY <1>2, <2>1, <3>1
  <2> QED
    BY <2>3, <2>4
<1>8. CASE ChooseOwn
  <2>1. UNCHANGED disk /\ Choose("caller", job.n, "caller") /\ job.n \in 1..begun
    BY <1>8, PatchAssumption DEF ChooseOwn, Shapes, TypeOK, JobShape, Job, Change
  <2>2. CASE u = "caller"
    BY <1>8, <2>1, <2>2
  <2>3. CASE u # "caller"
    <3>1. undo'[u] = undo[u]
      BY <2>1, <2>3 DEF Choose, Shapes, TypeOK
    <3> QED
      BY <1>2, <2>1, <3>1
  <2> QED
    BY <2>2, <2>3
<1>9. ASSUME NEW v \in Undoer, StartRollback(v)
      PROVE  (undo'[u] = undo[u] /\ UNCHANGED disk) \/ StartRollback(u)
  BY <1>9 DEF StartRollback, Shapes, TypeOK
<1>10. ASSUME NEW v \in Undoer, RestoreOne(v)
       PROVE  undo'[u] = SeenByUndo(u) \/ RestoreOne(u)
  BY <1>10 DEF RestoreOne
<1>11. ASSUME NEW v \in Undoer, NoRollback(v) \/ FinishRollback(v) \/ RollbackRaises(v) \/ UndoDies(v)
       PROVE  undo'[u] = undo[u] /\ UNCHANGED disk
  <2>1. UNCHANGED disk /\ UndoEnds(v)
    BY <1>11 DEF NoRollback, FinishRollback, RollbackRaises, UndoDies
  <2> QED
    BY <2>1 DEF UndoEnds, Shapes, TypeOK
<1> QED
  BY <1>2, <1>3, <1>5, <1>6, <1>7, <1>8, <1>9, <1>10, <1>11 DEF Next, Transacts, Patches, Undoes

\* What a step makes of a manifest that can be read after it.
LEMMA SameManifest ==
    ASSUME Shapes, [Next]_vars, NEW n \in Change, Readable(n)'
    PROVE  \/ /\ Begin(FALSE) /\ n = begun'
              /\ manifest'[n] = [status |-> "pending", touched |-> <<>>]
           \/ /\ Save /\ n = job.n /\ Readable(n)
              /\ manifest'[n].touched = Saved(manifest[n].touched, Head(job.todo))
              /\ manifest'[n].status = manifest[n].status
           \/ /\ Readable(n) /\ manifest'[n].touched = manifest[n].touched
              /\ \/ manifest'[n].status = manifest[n].status
                 \/ n = job.n /\ (Finalize \/ ChooseOwn)
                 \/ \E u \in Undoer : FinishRollback(u) /\ n = undo[u].n
<1>1. CASE UNCHANGED manifest
  BY <1>1 DEF Readable
<1>2. CASE \/ UNCHANGED vars
           \/ \E op \in Op : NextOp(op) \/ PatchFile(op)
           \/ Mutate \/ Rewrite \/ Record \/ PatchRefused \/ PatchApplied \/ RestoreBackups
           \/ Raises \/ ChooseLast \/ ChooseById
           \/ \E u \in Undoer : StartRollback(u) \/ NoRollback(u) \/ RestoreOne(u)
                               \/ RollbackRaises(u)
  BY <1>1, <1>2 DEF vars, NextOp, PatchFile, Mutate, Rewrite, Record, PatchRefused, PatchApplied,
                    RestoreBackups, Raises, ChooseLast, ChooseById, StartRollback, NoRollback,
                    RestoreOne, RollbackRaises
<1>3. CASE Begin(FALSE)
  <2>1. begun' \in Change
    BY <1>3, PatchAssumption DEF Begin, Shapes, TypeOK, Change
  <2>2. CASE n = begun'
    BY <1>3, <2>1, <2>2 DEF Begin, Shapes, TypeOK
  <2>3. CASE n # begun'
    BY <1>3, <2>1, <2>3 DEF Begin, Shapes, TypeOK, Readable
  <2> QED
    BY <2>2, <2>3
<1>4. CASE Begin(TRUE)
  BY <1>1, <1>4 DEF Begin
<1>5. CASE Save
  <2>1. manifest[job.n] \in Manifest /\ Readable(job.n) /\ job.n \in Change
    BY <1>5 DEF Save, Shapes, TypeOK, Working, Readable, Job
  <2>2. manifest' = [manifest EXCEPT ![job.n] =
                       [manifest[job.n] EXCEPT !.touched =
                           Saved(manifest[job.n].touched, Head(job.todo))]]
    BY <1>5, <2>1 DEF Save, Shapes, TypeOK
  <2>3. CASE n = job.n
    BY <1>5, <2>1, <2>2, <2>3 DEF Shapes, TypeOK, Manifest
  <2>4. CASE n # job.n
    BY <2>1, <2>2, <2>4 DEF Shapes, TypeOK, Readable
  <2> QED
    BY <2>3, <2>4
<1>6. ASSUME NEW k \in Change, Readable(k), NEW status \in Status,
             manifest' = [manifest EXCEPT ![k].status = status]
      PROVE  /\ Readable(n) /\ manifest'[n].touched = manifest[n].touched
             /\ n # k => manifest'[n].status = manifest[n].status
  <2>1. manifest[k] \in Manifest
    BY <1>6 DEF Readable, Shapes, TypeOK
  <2>2. manifest' = [manifest EXCEPT ![k] = [manifest[k] EXCEPT !.status = status]]
    BY <1>6, <2>1 DEF Shapes, TypeOK
  <2>3. CASE n = k
    BY <1>6, <2>1, <2>2, <2>3 DEF Shapes, TypeOK, Manifest
  <2>4. CASE n # k
    BY <1>6, <2>2, <2>4 DEF Shapes, TypeOK, Readable
  <2> QED
    BY <2>3, <2>4
<1>7. CASE Finalize \/ ChooseOwn
  <2>1. job.n \in Change /\ Readable(job.n) /\ manifest[job.n].status \in Status
    BY <1>7, Entries DEF Finalize, ChooseOwn, Shapes, TypeOK, Job, Readable
  <2>2. PICK status \in Status : manifest' = [manifest EXCEPT ![job.n].status = status]
    BY <1>7, <2>1 DEF Finalize, ChooseOwn, Outcomes, Status
  <2> QED
    BY <1>6, <1>7, <2>1, <2>2
<1>8. ASSUME NEW u \in Undoer, FinishRollback(u)
      PROVE  /\ Readable(n) /\ manifest'[n].touched = manifest[n].touched
             /\ n # undo[u].n => manifest'[n].status = manifest[n].status
  <2>1. undo[u].n \in Change /\ Readable(undo[u].n) /\ "rolled_back" \in Status
    BY <1>8 DEF FinishRollback, Restoring, Shapes, TypeOK, Undo, Status
  <2>2. manifest' = [manifest EXCEPT ![undo[u].n].status = "rolled_back"]
    BY <1>8 DEF FinishRollback
  <2> QED
    BY <1>6, <2>1, <2>2
<1>9. CASE JobDies \/ \E u \in Undoer : UndoDies(u)
  <2>1. \/ manifest' = manifest
        \/ \E k \in Change : manifest' = [manifest EXCEPT ![k] = Torn]
    BY <1>9 DEF JobDies, UndoDies, MayTear, Restoring, Shapes, TypeOK, Job, Undo
  <2> QED
    BY <1>1, <2>1 DEF Readable, Shapes, TypeOK
<1> QED
  BY <1>2, <1>3, <1>4, <1>5, <1>7, <1>8, <1>9 DEF Next, Transacts, Patches, Undoes

\* What a step makes of the history of a change.
LEMMA SameFound ==
    ASSUME Shapes, [Next]_vars, NEW n \in 1..begun
    PROVE  /\ found'[n].disk = found[n].disk /\ found[n].others \subseteq found'[n].others
           /\ \/ found'[n] = found[n]
              \/ job # Free /\ n = job.n /\ StartRollback("user") /\ n = undo["user"].n
              \/ job # Free /\ n = job.n /\ RestoreOne("user")
           /\ RestoreOne("user") /\ job # Free => Changed \subseteq found'[job.n].others
           /\ StartRollback("user") /\ job # Free /\ n = job.n /\ n = undo["user"].n
                 => found'[n].others = Path
<1>0. n \in Change /\ found[n] \in Found /\ "user" \in Undoer
  BY PatchAssumption DEF Shapes, TypeOK, Change, Undoer
<1>1. CASE RestoreOne("user")
  <2>1. CASE job = Free
    BY <1>0, <1>1, <2>1 DEF RestoreOne, StartRollback, Restoring
  <2>2. CASE job # Free
    <3>1. job.n \in Change /\ job.n \in 1..begun /\ found[job.n] \in Found
      BY <2>2, PatchAssumption DEF Shapes, TypeOK, JobShape, Job, Change
    <3>2. found' = [found EXCEPT ![job.n] =
                      [found[job.n] EXCEPT !.others = found[job.n].others \cup Changed]]
      BY <1>1, <2>2, <3>1 DEF RestoreOne, Shapes, TypeOK
    <3>3. found'[job.n].others = found[job.n].others \cup Changed
          /\ found'[job.n].disk = found[job.n].disk
      BY <3>1, <3>2 DEF Shapes, TypeOK, Found
    <3>4. ~StartRollback("user")
      BY <1>1 DEF RestoreOne, Restoring, StartRollback
    <3>5. n # job.n => found'[n] = found[n]
      BY <1>0, <3>2 DEF Shapes, TypeOK
    <3> QED
      BY <1>1, <2>2, <3>3, <3>4, <3>5
  <2> QED
    BY <2>1, <2>2
<1>2. CASE StartRollback("user")
  <2>0. ~RestoreOne("user")
    BY <1>2 DEF RestoreOne, Restoring, StartRollback
  <2>1. CASE job # Free /\ job.n = undo["user"].n
    <3>1. job.n \in Change /\ job.n \in 1..begun /\ found[job.n] \in Found
      BY <2>1, PatchAssumption DEF Shapes, TypeOK, JobShape, Job, Change
    <3>2. found' = [found EXCEPT ![job.n] = [found[job.n] EXCEPT !.others = Path]]
      BY <1>2, <2>1, <3>1 DEF StartRollback, Shapes, TypeOK
    <3>3. found'[job.n].others = Path /\ found'[job.n].disk = found[job.n].disk
      BY <3>1, <3>2 DEF Shapes, TypeOK, Found
    <3>4. n # job.n => found'[n] = found[n]
      BY <1>0, <3>2 DEF Shapes, TypeOK
    <3>5. found[n].others \subseteq Path
      BY <1>0 DEF Found
    <3> QED
      BY <1>2, <2>0, <2>1, <3>3, <3>4, <3>5
  <2>2. CASE ~(job # Free /\ job.n = undo["user"].n)
    BY <1>0, <1>2, <2>0, <2>2 DEF StartRollback
  <2> QED
    BY <2>1, <2>2
<1>3. CASE ~RestoreOne("user") /\ ~StartRollback("user")
  <2>1. CASE \E diff \in BOOLEAN : Begin(diff)
    <3>1. found'[n] = found[n]
      BY <1>0, <2>1 DEF Begin, Shapes, TypeOK
    <3> QED
      BY <1>3, <3>1
  <2>2. CASE \E u \in Undoer : StartRollback(u) \/ RestoreOne(u)
    <3>1. found' = found
      BY <1>3, <2>2 DEF StartRollback, RestoreOne, Undoer
    <3> QED
      BY <1>3, <3>1
  <2>3. CASE \/ UNCHANGED vars
             \/ \E op \in Op : NextOp(op) \/ PatchFile(op)
             \/ Save \/ Mutate \/ Rewrite \/ Record \/ Finalize
             \/ PatchRefused \/ PatchApplied \/ RestoreBackups
             \/ Raises \/ JobDies \/ ChooseLast \/ ChooseById \/ ChooseOwn
             \/ \E u \in Undoer : \/ NoRollback(u) \/ FinishRollback(u)
                                 \/ RollbackRaises(u) \/ UndoDies(u)
    <3>1. found' = found
      BY <2>3 DEF vars, NextOp, PatchFile, Save, Mutate, Rewrite, Record, Finalize, PatchRefused,
                  PatchApplied, RestoreBackups, Raises, JobDies, ChooseLast, ChooseById,
                  ChooseOwn, NoRollback, FinishRollback, RollbackRaises, UndoDies
    <3> QED
      BY <1>3, <3>1
  <2> QED
    BY <2>1, <2>2, <2>3 DEF Next, Transacts, Patches, Undoes
<1> QED
  BY <1>1, <1>2, <1>3

\* Changes are only ever begun.
LEMMA Forward ==
    ASSUME Shapes, [Next]_vars
    PROVE  /\ begun \in Nat /\ begun' \in Nat /\ begun <= begun'
           /\ begun' # begun => \E diff \in BOOLEAN : Begin(diff) /\ begun' = begun + 1
<1>0. begun \in Nat
  BY PatchAssumption DEF Shapes, TypeOK
<1>1. CASE \E diff \in BOOLEAN : Begin(diff)
  <2>1. PICK diff \in BOOLEAN : Begin(diff)
    BY <1>1
  <2>2. begun' = begun + 1
    BY <2>1 DEF Begin
  <2> QED
    BY <1>0, <2>1, <2>2
<1>2. CASE begun' = begun
  BY <1>0, <1>2
<1>3. CASE \/ UNCHANGED vars
           \/ \E op \in Op : NextOp(op) \/ PatchFile(op)
           \/ Save \/ Mutate \/ Rewrite \/ Record \/ Finalize
           \/ PatchRefused \/ PatchApplied \/ RestoreBackups
           \/ Raises \/ JobDies \/ ChooseLast \/ ChooseById \/ ChooseOwn
           \/ \E u \in Undoer : \/ StartRollback(u) \/ NoRollback(u) \/ RestoreOne(u)
                               \/ FinishRollback(u) \/ RollbackRaises(u) \/ UndoDies(u)
  BY <1>2, <1>3 DEF vars, NextOp, PatchFile, Save, Mutate, Rewrite, Record, Finalize,
              PatchRefused, PatchApplied, RestoreBackups, Raises, JobDies, ChooseLast, ChooseById,
              ChooseOwn, StartRollback, NoRollback, RestoreOne, FinishRollback, RollbackRaises,
              UndoDies
<1> QED
  BY <1>1, <1>3 DEF Next, Transacts, Patches, Undoes

\* Each step keeps the shape of the rollbacks.
LEMMA UndoShapeStep == ASSUME Shapes, [Next]_vars PROVE UndoShape'
<1> SUFFICES ASSUME NEW u \in Undoer, undo'[u] # Resting
             PROVE  /\ undo'[u].n <= begun' /\ undo'[u].upto <= begun'
                    /\ u = "caller" => undo'[u].n = job'.n
  BY DEF UndoShape
<1>0. TypeOK' /\ begun \in Nat /\ begun' \in Nat /\ begun <= begun'
  BY TypeStep, Forward
<1>1. ASSUME NEW n \in 1..begun, NEW how \in {"undo", "id", "caller"}, Choose(u, n, how)
      PROVE  undo'[u].n = n /\ undo'[u].upto = begun
  BY <1>1 DEF Choose, Shapes, TypeOK
<1>2. CASE u = "user" /\ \E n \in 1..begun, how \in {"undo", "id"} : Choose(u, n, how)
  BY <1>0, <1>1, <1>2
<1>3. CASE u = "caller" /\ ChooseOwn /\ Choose(u, job.n, "caller") /\ job.n \in 1..begun
  <2>1. job'.n = job.n
    BY <1>3 DEF ChooseOwn, Shapes, TypeOK, Job
  <2> QED
    BY <1>0, <1>1, <1>3, <2>1
<1>4. CASE undo[u] # Resting /\ undo'[u].n = undo[u].n /\ undo'[u].upto = undo[u].upto
  <2>1. undo[u].n \in Nat /\ undo[u].upto \in Nat
    <3>1. undo[u] \in Undo
      BY <1>4 DEF Shapes, TypeOK
    <3> QED
      BY <3>1 DEF Undo, Change
  <2>2. undo[u].n <= begun /\ undo[u].upto <= begun /\ (u = "caller" => undo[u].n = job.n)
    BY <1>4 DEF Shapes, UndoShape
  <2>3. CASE u = "caller"
    <3>1. job' # Free /\ job'.stage = "undoing"
      BY <1>0, <2>3 DEF TypeOK, Working
    <3>2. ~\E diff \in BOOLEAN : Begin(diff)
      BY <3>1 DEF Begin
    <3>3. job'.n = job.n
      BY <3>1, <3>2, SameJob
    <3> QED
      BY <1>0, <1>4, <2>1, <2>2, <3>3
  <2> QED
    BY <1>0, <1>4, <2>1, <2>2, <2>3
<1>5. CASE StartRollback(u) \/ RestoreOne(u)
  <2>1. undo[u] # Resting /\ undo[u] \in Undo
    BY <1>5 DEF StartRollback, RestoreOne, Restoring, Shapes, TypeOK
  <2>2. undo'[u].n = undo[u].n /\ undo'[u].upto = undo[u].upto
    BY <1>5, <2>1 DEF StartRollback, RestoreOne, Shapes, TypeOK, Undo
  <2> QED
    BY <1>4, <2>1, <2>2
<1> QED
  BY <1>2, <1>3, <1>4, <1>5, SameUndo

\* Each step keeps a change that has not begun without a readable manifest.
LEMMA NoneBeforehandStep == ASSUME Shapes, [Next]_vars PROVE NoneBeforehand'
<1> SUFFICES ASSUME NEW n \in Change, n > begun', Readable(n)' PROVE FALSE
  BY DEF NoneBeforehand
<1>1. begun \in Nat /\ begun' \in Nat /\ begun <= begun' /\ n \in Nat
  BY Forward DEF Change
<1>2. ~Readable(n) /\ n # begun'
  BY <1>1 DEF Shapes, NoneBeforehand
<1> QED
  BY <1>2, SameManifest

\* The shapes hold at first.
LEMMA ShapesInit == ASSUME Init PROVE Shapes
BY TypeInit DEF Init, Shapes, JobShape, UndoShape, NoneBeforehand, Readable

\* Each step keeps the shapes.
LEMMA ShapesStep == ASSUME Shapes, [Next]_vars PROVE Shapes'
BY TypeStep, JobShapeStep, UndoShapeStep, NoneBeforehandStep DEF Shapes

\* Every variable stays within its bounds.  (TypeOK)
THEOREM TypeCorrect == Spec => []TypeOK
<1>1. Spec => []Shapes
  BY ShapesInit, ShapesStep, PTL DEF Spec
<1>2. Shapes => TypeOK
  BY DEF Shapes
<1> QED
  BY <1>1, <1>2, PTL

-----------------------------------------------------------------------------

\* What others wrote while a change was under way is only ever added to.
LEMMA StaysDisturbed ==
    ASSUME Shapes, [Next]_vars, NEW n \in 1..begun, found[n].others = Path
    PROVE  found'[n].others = Path
<1>1. n \in 1..begun' /\ TypeOK'
  BY TypeStep, Forward
<1>2. found'[n].others \subseteq Path
  BY <1>1 DEF TypeOK, Found
<1> QED
  BY <1>2, SameFound

\* A user's rollback that begins beside its own change disturbs it everywhere,
\* and stays recorded as doing so.
LEMMA DisturbedByUndoStep ==
    ASSUME Shapes, DisturbedByUndo, [Next]_vars
    PROVE  DisturbedByUndo'
<1> SUFFICES ASSUME job' # Free
             PROVE  /\ Restoring("user")' /\ undo'["user"].n = job'.n
                          => found'[job'.n].others = Path
                    /\ Readable(job.n)' /\ manifest'[job'.n].status = "rolled_back"
                          => found'[job'.n].others = Path
  BY DEF DisturbedByUndo
<1>0. "user" \in Undoer /\ begun \in Nat /\ begun' \in Nat /\ TypeOK'
  BY Forward, TypeStep DEF Undoer
<1>1. ASSUME NEW diff \in BOOLEAN, Begin(diff) PROVE DisturbedByUndo'
  <2>1. job'.n = begun + 1 /\ undo' = undo /\ begun' = begun + 1 /\ begun' \in Change
    BY <1>0, <1>1, PatchAssumption DEF Begin, Shapes, TypeOK, Change
  <2>2. ~(Restoring("user")' /\ undo'["user"].n = job'.n)
    BY <1>0, <2>1 DEF Restoring, Shapes, UndoShape
  <2>3. ASSUME NEW k \in Change, k = begun', Readable(k)'
        PROVE  manifest'[k].status = "pending"
    <3>1. ~Readable(k)
      BY <1>0, <2>1, <2>3 DEF Shapes, NoneBeforehand
    <3>2. manifest'[k] = [status |-> "pending", touched |-> <<>>]
      BY <2>3, <3>1, SameManifest, Zenon
    <3> QED
      BY <3>2
  <2>4. ~(Readable(job.n)' /\ manifest'[job'.n].status = "rolled_back")
    BY <2>1, <2>3 DEF Readable
  <2> QED
    BY <2>2, <2>4 DEF DisturbedByUndo
<1>2. ASSUME job # Free, job'.n = job.n, begun' = begun PROVE DisturbedByUndo'
  <2>0. PICK n : n = job.n
    OBVIOUS
  <2>1. n = job.n /\ n = job'.n /\ n \in 1..begun /\ n \in Change
    BY <2>0, <1>0, <1>2 DEF Shapes, TypeOK, JobShape, Job, Change
  <2>2. ASSUME Restoring("user")', undo'["user"].n = n PROVE found'[n].others = Path
    <3>1. undo'["user"] # Resting /\ undo'["user"].stage = "restoring"
      BY <2>2 DEF Restoring
    <3>2. ASSUME NEW k \in 1..begun, NEW how \in {"undo", "id", "caller"},
                 Choose("user", k, how)
          PROVE  FALSE
      BY <1>0, <3>1, <3>2 DEF Choose, Shapes, TypeOK
    <3>3. CASE StartRollback("user")
      <4>1. undo["user"] \in Undo /\ undo'["user"].n = undo["user"].n
        BY <1>0, <3>3 DEF StartRollback, Shapes, TypeOK, Undo
      <4> QED
        BY <1>2, <2>1, <2>2, <3>3, <4>1, SameFound
    <3>4. CASE RestoreOne("user")
      <4>1. Restoring("user") /\ undo'["user"].n = undo["user"].n
        BY <1>0, <3>4 DEF RestoreOne, Restoring, Shapes, TypeOK, Undo
      <4> QED
        BY <1>2, <2>1, <2>2, <4>1, StaysDisturbed DEF DisturbedByUndo
    <3>5. CASE /\ undo["user"] # Resting
               /\ undo'["user"].stage = undo["user"].stage /\ undo'["user"].n = undo["user"].n
      BY <1>2, <2>1, <2>2, <3>1, <3>5, StaysDisturbed DEF DisturbedByUndo, Restoring
    <3> QED
      BY <1>0, <3>1, <3>2, <3>3, <3>4, <3>5, SameUndo
  <2>3. ASSUME Readable(n)', manifest'[n].status = "rolled_back" PROVE found'[n].others = Path
    <3>1. CASE Readable(n) /\ manifest[n].status = "rolled_back"
      BY <1>2, <2>1, <3>1, StaysDisturbed DEF DisturbedByUndo
    <3>2. n # begun' \/ ~Begin(FALSE)
      BY <1>0, <1>2 DEF Begin
    <3>3. ~Finalize
      BY DEF Finalize
    <3>4. CASE Readable(n) /\ ChooseOwn
      <4>1. PICK status \in {manifest[n].status, "failed"} :
               manifest' = [manifest EXCEPT ![n].status = status]
        BY <2>1, <3>4 DEF ChooseOwn
      <4>2. manifest'[n].status = status
        BY <2>1, <3>4, <4>1 DEF Shapes, TypeOK, Readable, Manifest
      <4> QED
        BY <2>3, <3>1, <3>4, <4>1, <4>2
    <3>5. ASSUME NEW u \in Undoer, FinishRollback(u), n = undo[u].n PROVE found'[n].others = Path
      <4>1. u = "user"
        BY <3>5 DEF FinishRollback, UndoEnds, Undoer
      <4>2. Restoring("user")
        BY <3>5, <4>1 DEF FinishRollback
      <4> QED
        BY <1>2, <2>1, <3>5, <4>1, <4>2, StaysDisturbed DEF DisturbedByUndo
    <3> QED
      BY <2>1, <2>3, <3>1, <3>2, <3>3, <3>4, <3>5, SameManifest
  <2> QED
    BY <2>1, <2>2, <2>3 DEF DisturbedByUndo, Readable
<1> QED
  BY <1>1, <1>2, SameJob DEF DisturbedByUndo

\* ChooseLast takes the latest change that can be undone; afterwards a change
\* becomes unreadable or rolled back, or was being undone already.
LEMMA UndoSkipsNoneStep ==
    ASSUME Shapes, DisturbedByUndo, UndoSkipsNone, [Next]_vars
    PROVE  UndoSkipsNone'
<1> SUFFICES ASSUME undo'["user"] # Resting, undo'["user"].how = "undo"
             PROVE  \A m \in Change :
                       undo'["user"].n < m /\ m <= undo'["user"].upto
                           /\ Readable(m)' /\ manifest'[m].status # "rolled_back"
                       => found'[m].others = Path
  BY DEF UndoSkipsNone
<1> TAKE m \in Change
<1> HAVE undo'["user"].n < m /\ m <= undo'["user"].upto
            /\ Readable(m)' /\ manifest'[m].status # "rolled_back"
<1>0. "user" \in Undoer /\ begun \in Nat /\ begun' \in Nat /\ m \in Nat /\ 0 < m
  BY Forward DEF Undoer, Change
<1>1. ASSUME NEW n \in 1..begun, NEW how \in {"undo", "id"}, Choose("user", n, how),
             ChooseLast \/ ChooseById
      PROVE  FALSE
  <2>1. undo'["user"].n = n /\ undo'["user"].how = how /\ undo'["user"].upto = begun
    BY <1>0, <1>1 DEF Choose, Shapes, TypeOK
  <2>2. CASE ChooseById
    <3>1. PICK k \in 1..begun : Choose("user", k, "id")
      BY <2>2 DEF ChooseById
    <3>2. undo'["user"].how = "id"
      BY <1>0, <3>1 DEF Choose, Shapes, TypeOK
    <3> QED
      BY <3>2
  <2>3. CASE ChooseLast
    <3>1. PICK k \in Change : /\ Choose("user", k, "undo")
                              /\ \A j \in k + 1..MaxChanges : ~Undoable(j)
      BY <2>3 DEF ChooseLast
    <3>2. undo'["user"].n = k /\ UNCHANGED manifest
      BY <1>0, <2>3, <3>1 DEF Choose, ChooseLast, Shapes, TypeOK
    <3>3. ~Undoable(m)
      BY <1>0, <3>1, <3>2, PatchAssumption DEF Change
    <3> QED
      BY <3>2, <3>3 DEF Undoable, Readable
  <2> QED
    BY <1>1, <2>2, <2>3
<1>2. /\ undo["user"] # Resting /\ undo'["user"].n = undo["user"].n
      /\ undo'["user"].how = undo["user"].how /\ undo'["user"].upto = undo["user"].upto
  <2>1. CASE StartRollback("user") \/ RestoreOne("user")
    <3>1. undo["user"] # Resting /\ undo["user"] \in Undo
      BY <1>0, <2>1 DEF StartRollback, RestoreOne, Restoring, Shapes, TypeOK
    <3> QED
      BY <1>0, <2>1, <3>1 DEF StartRollback, RestoreOne, Shapes, TypeOK, Undo
  <2> QED
    BY <1>0, <1>1, <2>1, SameUndo
<1>3. m \in 1..begun
  <2>1. undo["user"].upto <= begun /\ undo["user"].upto \in Nat
    <3>1. undo["user"] \in Undo
      BY <1>0, <1>2 DEF Shapes, TypeOK
    <3> QED
      BY <1>0, <1>2, <3>1 DEF Shapes, UndoShape, Undo, Change
  <2> QED
    BY <1>0, <1>2, <2>1
<1>4. CASE Readable(m) /\ manifest[m].status # "rolled_back"
  BY <1>2, <1>3, <1>4, StaysDisturbed DEF UndoSkipsNone
<1>5. ~(Begin(FALSE) /\ m = begun')
  BY <1>0, <1>3 DEF Begin
<1>6. CASE Readable(m) /\ m = job.n /\ (Finalize \/ ChooseOwn)
  <2>1. job # Free
    BY <1>6 DEF Finalize, ChooseOwn
  <2> QED
    BY <1>3, <1>4, <1>6, <2>1, StaysDisturbed DEF DisturbedByUndo
<1>7. ASSUME NEW u \in Undoer, FinishRollback(u), m = undo[u].n PROVE FALSE
  <2>1. Readable(m) /\ manifest[m] \in Manifest
    BY <1>7 DEF FinishRollback, Readable, Shapes, TypeOK
  <2>2. manifest' = [manifest EXCEPT ![m].status = "rolled_back"]
    BY <1>7 DEF FinishRollback
  <2>3. manifest'[m].status = "rolled_back"
    BY <2>1, <2>2 DEF Shapes, TypeOK, Manifest
  <2> QED
    BY <2>3
<1> QED
  BY <1>4, <1>5, <1>6, <1>7, SameManifest

\* /undo writes over no later change that was not rolled back, in whatever
\* state that change was left, unless its rollback had begun while it was
\* writing.  (UndoSparesRecordedChanges)
THEOREM UndoSpares == Spec => UndoSparesRecordedChanges
<1> DEFINE I == Shapes /\ DisturbedByUndo /\ UndoSkipsNone
           Spares == RestoreOne("user") =>
                       \A m \in Change :
                          Readable(m) /\ manifest[m].status # "rolled_back"
                              /\ found[m].others # Path
                            => ~Loses(m)
<1>1. Init => I
  BY ShapesInit DEF Init, DisturbedByUndo, UndoSkipsNone, Undoer
<1>2. I /\ [Next]_vars => I'
  BY ShapesStep, DisturbedByUndoStep, UndoSkipsNoneStep
<1>3. I => Spares
  BY DEF UndoSkipsNone, Loses
<1>4. I /\ [Next]_vars => [Spares]_vars
  BY <1>3
<1> HIDE DEF I, Spares
<1>5. Spec => [][Spares]_vars
  BY <1>1, <1>2, <1>4, PTL DEF Spec
<1> QED
  BY <1>5 DEF Spares, UndoSparesRecordedChanges

-----------------------------------------------------------------------------

\* The three ways of not being a file differ from each other and from files.
LEMMA Values ==
    /\ Absent \notin File /\ Dir \notin File /\ None \notin File
    /\ Absent # Dir /\ Absent # None /\ Dir # None
    /\ Change \subseteq File /\ File \subseteq Content /\ Content = File \cup {Absent, Dir}
<1>1. File \subseteq Nat /\ Change \subseteq File
  BY PatchAssumption DEF File, Change
<1> QED
  BY <1>1, PatchAssumption DEF Content

\* PatchFile backs a file up before it writes there, and nothing else of a diff
\* writes at all.
LEMMA DiffKeepsBackupsStep ==
    ASSUME Shapes, DiffKeepsBackups, [Next]_vars
    PROVE  DiffKeepsBackups'
<1> SUFFICES ASSUME job' # Free, job'.diff,
                    NEW p \in Path, p \notin found'[job'.n].others
             PROVE  /\ (found'[job'.n].disk[p] = Dir) <=> (disk'[p] = Dir)
                    /\ p \notin job'.saved \cup job'.created
                         => disk'[p] = found'[job'.n].disk[p]
                    /\ p \in job'.saved \ job'.created /\ found'[job'.n].disk[p] \in File
                         => bak'[p] = found'[job'.n].disk[p]
  BY DEF DiffKeepsBackups
<1>0. "user" \in Undoer /\ begun \in Nat /\ begun' \in Nat
  BY Forward DEF Undoer
<1> DEFINE Goal == /\ (found'[job'.n].disk[p] = Dir) <=> (disk'[p] = Dir)
                   /\ p \notin job'.saved \cup job'.created
                        => disk'[p] = found'[job'.n].disk[p]
                   /\ p \in job'.saved \ job'.created /\ found'[job'.n].disk[p] \in File
                        => bak'[p] = found'[job'.n].disk[p]
<1>1. ASSUME NEW diff \in BOOLEAN, Begin(diff) PROVE Goal
  <2>1. begun' = begun + 1 /\ begun' \in Change /\ job'.n = begun'
    BY <1>0, <1>1, PatchAssumption DEF Begin, Shapes, TypeOK, Change
  <2>2. found'[job'.n].disk = disk /\ disk' = disk
    BY <1>1, <2>1 DEF Begin, Shapes, TypeOK
  <2>3. job'.saved = {} /\ job'.created = {}
    BY <1>1 DEF Begin
  <2> QED
    BY <2>2, <2>3
<1>2. ASSUME job # Free, job'.n = job.n, job'.diff = job.diff, begun' = begun PROVE Goal
  <2>0. PICK n : n = job.n
    OBVIOUS
  <2>1. n = job.n /\ n = job'.n /\ n \in 1..begun /\ n \in Change /\ job \in Job /\ job.diff
    BY <2>0, <1>0, <1>2 DEF Shapes, TypeOK, JobShape, Job, Change
  <2>2. found'[n].disk = found[n].disk /\ p \notin found[n].others
    BY <2>1, SameFound
  <2> DEFINE was == found[n].disk[p]
  <2>3. /\ (was = Dir) <=> (disk[p] = Dir)
        /\ p \notin job.saved \cup job.created => disk[p] = was
        /\ p \in job.saved \ job.created /\ was \in File => bak[p] = was
    BY <1>2, <2>1, <2>2 DEF DiffKeepsBackups
  <2>4. was \in Content /\ disk[p] \in Content
    BY <2>1 DEF Shapes, TypeOK, Found
  <2> HIDE DEF was
  <2>5. SUFFICES /\ (was = Dir) <=> (disk'[p] = Dir)
                 /\ p \notin job'.saved \cup job'.created => disk'[p] = was
                 /\ p \in job'.saved \ job'.created /\ was \in File => bak'[p] = was
    BY <2>1, <2>2 DEF was
  <2>6. CASE /\ UNCHANGED bak /\ disk'[p] = disk[p]
             /\ job'.saved = job.saved /\ job'.created = job.created
    BY <2>3, <2>6
  <2>7. ASSUME NEW op \in Op, PatchFile(op)
        PROVE  /\ (was = Dir) <=> (disk'[p] = Dir)
               /\ p \notin job'.saved \cup job'.created => disk'[p] = was
               /\ p \in job'.saved \ job'.created /\ was \in File => bak'[p] = was
    <3>1. /\ disk' = FirstStep(op) /\ disk[op.path] # Dir
          /\ op.kind \in {"create", "edit", "delete", "rewrite"}
          /\ op.kind = "create" => disk[op.path] = Absent
          /\ WellFormed(op)
      BY <2>7 DEF PatchFile, JobWrites, Admitted
    <3>2. disk'[op.path] \in {n, Absent} /\ (p # op.path => disk'[p] = disk[p])
      BY <2>1, <3>1 DEF FirstStep, Op, Shapes, TypeOK
    <3>3. disk'[op.path] # Dir
      BY <2>1, <3>2, Values
    <3>4. (was = Dir) <=> (disk'[p] = Dir)
      BY <2>3, <3>1, <3>2, <3>3
    <3>5. CASE op.kind = "create"
      <4>1. job' = [job EXCEPT !.created = job.created \cup {op.path}] /\ UNCHANGED bak
        BY <2>7, <3>5 DEF PatchFile
      <4>2. job'.created = job.created \cup {op.path} /\ job'.saved = job.saved
        BY <2>1, <4>1 DEF Job
      <4> QED
        BY <2>3, <3>2, <3>4, <4>1, <4>2
    <3>6. CASE op.kind # "create"
      <4>1. PICK st \in {"ready", "halfway"}, o \in Op \cup {None} :
               job' = [job EXCEPT !.stage = st, !.op = o,
                                  !.saved = job.saved \cup ToSet(PathsOf(op))]
        BY <2>7, <3>6 DEF PatchFile
      <4>2. job'.created = job.created /\ job'.saved = job.saved \cup ToSet(PathsOf(op))
        BY <2>1, <4>1 DEF Job
      <4>3. op.path \in ToSet(PathsOf(op))
        BY <3>1, OpPaths
      <4>4. bak'[p] = IF p \in ToSet(PathsOf(op)) THEN Copied(p) ELSE bak[p]
        BY <2>7, <3>6 DEF PatchFile
      <4>5. p \notin job'.saved \cup job'.created => disk'[p] = was
        BY <2>3, <3>2, <4>2, <4>3
      <4>6. ASSUME p \in job'.saved \ job'.created, was \in File PROVE bak'[p] = was
        <5>1. CASE p \in job.saved
          BY <2>3, <4>2, <4>4, <4>6, <5>1 DEF Copied
        <5>2. CASE p \notin job.saved
          <6>1. disk[p] = was /\ p \in ToSet(PathsOf(op))
            BY <2>3, <4>2, <4>6, <5>2
          <6> QED
            BY <4>4, <4>6, <5>2, <6>1 DEF Copied
        <5> QED
          BY <5>1, <5>2
      <4> QED
        BY <3>4, <4>5, <4>6
    <3> QED
      BY <3>5, <3>6
  <2>8. CASE PatchRefused
    <3>1. UNCHANGED disk
      BY <2>8 DEF PatchRefused
    <3>2. CASE job' = [job EXCEPT !.stage = "refused"] /\ UNCHANGED bak
      BY <2>1, <2>6, <3>1, <3>2 DEF Job
    <3>3. ASSUME NEW q \in Path, bak' = [bak EXCEPT ![q] = Copied(q)],
                 job' = [job EXCEPT !.stage = "refused", !.saved = @ \cup {q}]
          PROVE  /\ p \notin job'.saved \cup job'.created => disk'[p] = was
                 /\ p \in job'.saved \ job'.created /\ was \in File => bak'[p] = was
      <4>1. job'.created = job.created /\ job'.saved = job.saved \cup {q}
        BY <2>1, <3>3 DEF Job
      <4>2. bak'[p] = IF p = q THEN Copied(p) ELSE bak[p]
        BY <3>3 DEF Shapes, TypeOK
      <4> QED
        BY <2>3, <3>1, <4>1, <4>2 DEF Copied
    <3> QED
      BY <2>3, <2>8, <3>1, <3>2, <3>3 DEF PatchRefused
  <2>9. CASE Rewrite
    <3>1. /\ job.op \in Op /\ job.op.dest \in job.saved /\ disk[job.op.dest] # Dir
          /\ disk' = [disk EXCEPT ![job.op.dest] = n] /\ UNCHANGED bak
          /\ job' = [job EXCEPT !.stage = "ready", !.op = None]
      BY <1>2, <2>1, <2>9 DEF Rewrite, JobWrites, Working, Shapes, JobShape
    <3>2. job'.saved = job.saved /\ job'.created = job.created
      BY <2>1, <3>1 DEF Job
    <3>3. job.op.dest \in Path
      BY <3>1 DEF Op
    <3>4. CASE p = job.op.dest
      <4>1. disk'[p] = n /\ n # Dir
        BY <2>1, <3>1, <3>4, Values DEF Shapes, TypeOK
      <4> QED
        BY <2>3, <3>1, <3>2, <3>4, <4>1
    <3>5. CASE p # job.op.dest
      BY <2>6, <3>1, <3>2, <3>5 DEF Shapes, TypeOK
    <3> QED
      BY <3>4, <3>5
  <2>10. CASE Raises
    <3>1. UNCHANGED <<disk, bak>> /\ job'.saved = job.saved /\ job'.created = job.created
      BY <2>1, <2>10 DEF Raises, Job
    <3> QED
      BY <2>6, <3>1
  <2>11. ASSUME NEW u \in Undoer, RestoreOne(u) PROVE disk'[p] = disk[p]
    <3>1. u = "user"
      <4>1. undo[u] # Resting /\ job.stage # "undoing"
        BY <1>2, <2>1, <2>11 DEF RestoreOne, Restoring, Shapes, JobShape
      <4> QED
        BY <4>1 DEF Shapes, TypeOK, Working, Undoer
    <3>2. Changed \subseteq found'[n].others
      BY <1>2, <2>1, <2>11, <3>1, SameFound
    <3> QED
      BY <2>1, <3>2 DEF Changed
  <2>12. CASE \E u \in Undoer : RestoreOne(u)
    <3>1. disk'[p] = disk[p] /\ UNCHANGED <<bak, job>>
      BY <2>11, <2>12 DEF RestoreOne
    <3> QED
      BY <2>6, <3>1
  <2>13. CASE \/ UNCHANGED vars \/ ChooseLast \/ ChooseById
              \/ \E u \in Undoer : \/ StartRollback(u) \/ NoRollback(u) \/ FinishRollback(u)
                                  \/ RollbackRaises(u) \/ UndoDies(u)
    <3>1. UNCHANGED <<disk, bak, job>>
      BY <2>13 DEF vars, ChooseLast, ChooseById, StartRollback, NoRollback, FinishRollback,
                   RollbackRaises, UndoDies, UndoEnds
    <3> QED
      BY <2>6, <3>1
  <2>14. ~(\E op \in Op : NextOp(op)) /\ ~Save /\ ~Mutate /\ ~Record /\ ~Finalize /\ ~ChooseOwn
    BY <2>1 DEF NextOp, Save, Mutate, Record, Finalize, ChooseOwn, Working, Shapes, JobShape
  <2>15. ~PatchApplied /\ ~RestoreBackups /\ ~JobDies
    BY DEF PatchApplied, RestoreBackups, JobDies
  <2>16. ~\E diff \in BOOLEAN : Begin(diff)
    BY <1>2 DEF Begin
  <2> QED
    BY <2>7, <2>8, <2>9, <2>10, <2>12, <2>13, <2>14, <2>15, <2>16
       DEF Next, Transacts, Patches, Undoes
<1> QED
  BY <1>1, <1>2, SameJob

\* A diff that fails puts every file back as it found it, but for those that
\* its backups cannot bring back and what others wrote.
\* (FailedDiffRestoresTheRest)
THEOREM FailedDiffRestores == Spec => FailedDiffRestoresTheRest
<1> DEFINE I == Shapes /\ DiffKeepsBackups
           Restores == RestoreBackups =>
                         \A p \in Path \ found[job.n].others :
                            ~BeyondBackups(p) => disk'[p] = found[job.n].disk[p]
<1>1. Init => I
  BY ShapesInit DEF Init, DiffKeepsBackups
<1>2. I /\ [Next]_vars => I'
  BY ShapesStep, DiffKeepsBackupsStep
<1>3. ASSUME I PROVE Restores
  <2> SUFFICES ASSUME RestoreBackups, NEW p \in Path \ found[job.n].others, ~BeyondBackups(p)
               PROVE  disk'[p] = found[job.n].disk[p]
    OBVIOUS
  <2> DEFINE was == found[job.n].disk[p]
  <2>1. job # Free /\ job.diff /\ job \in Job /\ job.n \in 1..begun
    BY <1>3, Forward, PatchAssumption
       DEF RestoreBackups, Working, Shapes, TypeOK, JobShape, Job, Change
  <2>2. /\ (was = Dir) <=> (disk[p] = Dir)
        /\ p \notin job.saved \cup job.created => disk[p] = was
        /\ p \in job.saved \ job.created /\ was \in File => bak[p] = was
    BY <1>3, <2>1 DEF DiffKeepsBackups
  <2>3. was \in Content
    BY <1>3, <2>1 DEF Shapes, TypeOK, Found
  <2>4. ~(was = Absent /\ p \in job.saved \ job.created) /\ ~(was \in File /\ p \in job.created)
    BY DEF BeyondBackups
  <2>5. disk'[p] = PutBack(p)
    BY DEF RestoreBackups, JobWrites
  <2> HIDE DEF was
  <2>6. PutBack(p) = was
    BY <2>2, <2>3, <2>4, Values DEF PutBack, Over
  <2> QED
    BY <2>5, <2>6 DEF was
<1>4. I /\ [Next]_vars => [Restores]_vars
  BY <1>3
<1> HIDE DEF I, Restores
<1>5. Spec => [][Restores]_vars
  BY <1>1, <1>2, <1>4, PTL DEF Spec
<1> QED
  BY <1>5 DEF Restores, FailedDiffRestoresTheRest

-----------------------------------------------------------------------------

\* The fields of a rollback.
LEMMA UndoFields ==
    ASSUME Shapes, NEW u \in Undoer, undo[u] # Resting
    PROVE  /\ undo[u] \in Undo /\ undo[u].n \in Change /\ undo[u].n \in 1..begun
           /\ undo[u].left \in Seq(Entry) /\ undo[u].others \subseteq Path
<1>1. undo[u] \in Undo
  BY DEF Shapes, TypeOK
<1>2. undo[u].n \in Change /\ undo[u].left \in Seq(Entry) /\ undo[u].others \subseteq Path
  BY <1>1 DEF Undo
<1>3. undo[u].n <= begun /\ begun \in Nat
  BY PatchAssumption DEF Shapes, UndoShape, TypeOK
<1> QED
  BY <1>1, <1>2, <1>3 DEF Change

\* The fields of a change under way.
LEMMA JobFields ==
    ASSUME Shapes, job # Free
    PROVE  /\ job \in Job /\ job.n \in Change /\ job.n \in 1..begun /\ job.n = begun
           /\ job.todo \in Seq(Path)
<1>1. job \in Job /\ job.n = begun /\ begun \in Nat
  BY PatchAssumption DEF Shapes, TypeOK, JobShape
<1> QED
  BY <1>1 DEF Job, Change

\* What backup_file makes of the entries.
LEMMA SavedEntries ==
    ASSUME TypeOK, NEW entries \in Seq(Entry), NEW p \in Path
    PROVE  \/ Saved(entries, p) = entries /\ \E i \in DOMAIN entries : entries[i].path = p
           \/ /\ \A i \in DOMAIN entries : entries[i].path # p
              /\ DOMAIN Saved(entries, p) = 1..Len(entries) + 1
              /\ DOMAIN entries = 1..Len(entries)
              /\ \A i \in DOMAIN entries : Saved(entries, p)[i] = entries[i]
              /\ Saved(entries, p)[Len(entries) + 1] = [path |-> p, was |-> FileAt(p)]
<1>1. [path |-> p, was |-> FileAt(p)] \in Entry
  BY DEF TypeOK, FileAt, Entry, Content
<1> QED
  BY <1>1 DEF Saved

\* The paths a step of an operation writes, and what.
LEMMA FilesAfter ==
    ASSUME Shapes, job # Free, NEW op \in Op, NEW p \in Path
    PROVE  /\ FirstStep(op)[p] \in {disk[q] : q \in Path} \cup {job.n, Absent, Dir}
           /\ p \notin {op.path, op.dest} => FirstStep(op)[p] = disk[p]
BY DEF FirstStep, Op, Shapes, TypeOK

\* More changes, more contents.
LEMMA UpToGrows ==
    ASSUME NEW m \in Nat, NEW n \in Nat, m <= n
    PROVE  UpTo(m) \subseteq UpTo(n)
BY DEF UpTo

\* A step writes what a file held, or what the change under way writes.
LEMMA DiskIsOldStep ==
    ASSUME Shapes, ContentsAreOld, [Next]_vars, NEW p \in Path
    PROVE  disk'[p] \in UpTo(begun') /\ bak'[p] \in UpTo(begun')
<1>0. begun \in Nat /\ begun' \in Nat /\ begun <= begun' /\ UpTo(begun) \subseteq UpTo(begun')
  BY Forward, UpToGrows
<1>1. /\ \A q \in Path : disk[q] \in UpTo(begun) /\ bak[q] \in UpTo(begun)
      /\ Absent \in UpTo(begun) /\ Dir \in UpTo(begun) /\ None \in UpTo(begun)
  BY DEF ContentsAreOld, UpTo
<1>2. job # Free => job.n \in UpTo(begun)
  BY <1>0 DEF Shapes, TypeOK, JobShape, UpTo
<1>3. SUFFICES disk'[p] \in UpTo(begun) /\ bak'[p] \in UpTo(begun)
  BY <1>0
<1>4. ASSUME NEW op \in Op, job # Free PROVE FirstStep(op)[p] \in UpTo(begun)
  BY <1>1, <1>2, <1>4, FilesAfter
<1>5. CASE Mutate
  BY <1>1, <1>4, <1>5 DEF Mutate, Working, JobWrites, Shapes, JobShape
<1>6. CASE Rewrite
  BY <1>1, <1>2, <1>6 DEF Rewrite, Working, JobWrites, Shapes, TypeOK
<1>7. ASSUME NEW op \in Op, PatchFile(op) PROVE disk'[p] \in UpTo(begun) /\ bak'[p] \in UpTo(begun)
  <2>1. disk'[p] \in UpTo(begun)
    BY <1>4, <1>7 DEF PatchFile, Working, JobWrites
  <2>2. bak'[p] \in {bak[p], disk[p]}
    BY <1>7 DEF PatchFile, Copied
  <2> QED
    BY <1>1, <2>1, <2>2
<1>8. CASE PatchRefused
  <2>1. bak'[p] \in {bak[p], disk[p]} /\ UNCHANGED disk
    BY <1>8 DEF PatchRefused, Copied, Shapes, TypeOK
  <2> QED
    BY <1>1, <2>1
<1>9. CASE RestoreBackups
  <2>1. disk'[p] = PutBack(p) /\ bak'[p] \in {bak[p], None}
    BY <1>9 DEF RestoreBackups, JobWrites
  <2>2. PutBack(p) \in {Dir, Absent, bak[p], disk[p]}
    BY DEF PutBack, Over
  <2> QED
    BY <1>1, <2>1, <2>2
<1>10. ASSUME NEW u \in Undoer, RestoreOne(u) PROVE disk'[p] \in UpTo(begun) /\ bak'[p] \in UpTo(begun)
  <2> DEFINE e == Head(undo[u].left)
  <2>1. undo[u] # Resting /\ undo[u] \in Undo /\ undo[u].left \in Seq(Entry) /\ undo[u].left # <<>>
    BY <1>10, Records DEF RestoreOne, Restoring, Shapes, TypeOK
  <2>2. undo[u].n \in Nat /\ undo[u].n <= begun
    BY <2>1, UndoFields DEF Change
  <2>3. e = undo[u].left[1] /\ 1 \in DOMAIN undo[u].left
    BY <2>1
  <2>4. e.was \in UpTo(undo[u].n)
    BY <2>1, <2>3 DEF ContentsAreOld
  <2>5. e.was \in UpTo(begun)
    BY <1>0, <2>2, <2>4, UpToGrows
  <2>6. disk'[p] \in {disk[p], e.was, Dir, Absent}
    BY <1>10 DEF RestoreOne, PutBackEntry, Over, Shapes, TypeOK
  <2> QED
    BY <1>1, <1>10, <2>5, <2>6 DEF RestoreOne
<1>11. CASE \/ UNCHANGED vars
            \/ \E diff \in BOOLEAN : Begin(diff)
            \/ \E op \in Op : NextOp(op)
            \/ Save \/ Record \/ Finalize \/ PatchApplied \/ Raises \/ JobDies
            \/ ChooseLast \/ ChooseById \/ ChooseOwn
            \/ \E u \in Undoer : \/ StartRollback(u) \/ NoRollback(u) \/ FinishRollback(u)
                                \/ RollbackRaises(u) \/ UndoDies(u)
  BY <1>1, <1>11 DEF vars, Begin, NextOp, Save, Record, Finalize, PatchApplied, Raises, JobDies,
                     ChooseLast, ChooseById, ChooseOwn, StartRollback, NoRollback,
                     FinishRollback, RollbackRaises, UndoDies
<1> QED
  BY <1>5, <1>6, <1>7, <1>8, <1>9, <1>10, <1>11 DEF Next, Transacts, Patches, Undoes

\* The fields of a manifest.
LEMMA ManifestFields ==
    ASSUME Shapes, NEW n \in Change, Readable(n)
    PROVE  /\ manifest[n] \in Manifest /\ manifest[n].touched \in Seq(Entry)
           /\ DOMAIN manifest[n].touched = 1..Len(manifest[n].touched)
           /\ Touched(n) = {manifest[n].touched[i].path : i \in 1..Len(manifest[n].touched)}
<1>1. manifest[n] \in Manifest
  BY DEF Readable, Shapes, TypeOK
<1>2. manifest[n].touched \in Seq(Entry)
  BY <1>1, Entries
<1> QED
  BY <1>1, <1>2 DEF Touched

\* A change finds what changes before it left.
LEMMA FoundIsOldStep ==
    ASSUME Shapes, ContentsAreOld, [Next]_vars, NEW n \in 1..begun', NEW p \in Path
    PROVE  found'[n].disk[p] \in UpTo(n - 1)
<1>0. begun \in Nat /\ begun' \in Nat /\ begun <= begun'
  BY Forward
<1>1. CASE n \in 1..begun
  BY <1>1, SameFound DEF ContentsAreOld
<1>2. CASE n \notin 1..begun
  <2>1. PICK diff \in BOOLEAN : Begin(diff) /\ begun' = begun + 1
    BY <1>0, <1>2, Forward
  <2>2. n = begun + 1 /\ begun' \in Change /\ n = begun'
    BY <1>0, <1>2, <2>1, PatchAssumption DEF Begin, Change
  <2>3. found'[n].disk = disk
    BY <2>1, <2>2 DEF Begin, Shapes, TypeOK
  <2>4. n - 1 = begun
    BY <1>0, <2>2
  <2> QED
    BY <2>3, <2>4 DEF ContentsAreOld
<1> QED
  BY <1>1, <1>2

\* A backup is of what is on the disk.
LEMMA EntriesAreOldStep ==
    ASSUME Shapes, ContentsAreOld, [Next]_vars,
           NEW n \in 1..begun', Readable(n)', NEW i \in DOMAIN manifest'[n].touched
    PROVE  manifest'[n].touched[i].was \in UpTo(n)
<1>0. begun \in Nat /\ begun' \in Nat /\ n \in Change
  BY Forward, TypeStep, PatchAssumption DEF TypeOK, Change
<1>1. CASE manifest'[n].touched = <<>>
  BY <1>1
<1>2. CASE Readable(n) /\ manifest'[n].touched = manifest[n].touched
  <2>1. n \in 1..begun
    BY <1>0, <1>2 DEF Shapes, NoneBeforehand
  <2> QED
    BY <1>2, <2>1 DEF ContentsAreOld
<1>3. CASE /\ Save /\ n = job.n /\ Readable(n)
           /\ manifest'[n].touched = Saved(manifest[n].touched, Head(job.todo))
  <2>1. n \in 1..begun /\ n = begun /\ Head(job.todo) \in Path
    BY <1>3, JobFields DEF Save, Working, Shapes, JobShape
  <2>2. manifest[n].touched \in Seq(Entry)
    BY <1>0, <1>3, ManifestFields
  <2>3. \A k \in DOMAIN manifest[n].touched : manifest[n].touched[k].was \in UpTo(n)
    BY <1>3, <2>1 DEF ContentsAreOld
  <2>4. FileAt(Head(job.todo)) \in UpTo(n)
    <3>1. disk[Head(job.todo)] \in UpTo(n) /\ None \in UpTo(n)
      BY <2>1 DEF ContentsAreOld, UpTo
    <3> QED
      BY <3>1 DEF FileAt
  <2> DEFINE old == manifest[n].touched
             new == Saved(old, Head(job.todo))
  <2>5. \/ new = old
        \/ /\ DOMAIN new = 1..Len(old) + 1 /\ DOMAIN old = 1..Len(old)
           /\ \A k \in DOMAIN old : new[k] = old[k]
           /\ new[Len(old) + 1] = [path |-> Head(job.todo), was |-> FileAt(Head(job.todo))]
    BY <2>1, <2>2, SavedEntries DEF Shapes
  <2>6. i \in DOMAIN new /\ Len(old) \in Nat
    BY <1>3, <2>2
  <2> HIDE DEF old, new
  <2>7. new[i].was \in UpTo(n)
    BY <2>3, <2>4, <2>5, <2>6 DEF old
  <2> QED
    BY <1>3, <2>7 DEF old, new
<1>4. CASE manifest'[n] = [status |-> "pending", touched |-> <<>>]
  BY <1>1, <1>4
<1> QED
  BY <1>0, <1>1, <1>2, <1>3, <1>4, SameManifest

\* A rollback's backups are those of its manifest.
LEMMA LeftIsOldStep ==
    ASSUME Shapes, ContentsAreOld, [Next]_vars,
           NEW u \in Undoer, undo'[u] # Resting, NEW i \in DOMAIN undo'[u].left
    PROVE  undo'[u].left[i].was \in UpTo(undo'[u].n)
<1>1. ASSUME NEW n, NEW how, Choose(u, n, how) PROVE undo'[u].left = <<>>
  BY <1>1 DEF Choose, Shapes, TypeOK
<1>2. CASE undo'[u].left = <<>>
  BY <1>2
<1>3. CASE StartRollback(u)
  <2>1. undo[u] # Resting /\ Readable(undo[u].n)
    BY <1>3 DEF StartRollback, Undoable
  <2>2. undo'[u].left = manifest[undo[u].n].touched /\ undo'[u].n = undo[u].n
    BY <1>3, <2>1, UndoFields DEF StartRollback, Shapes, TypeOK, Undo
  <2> QED
    BY <2>1, <2>2, UndoFields DEF ContentsAreOld
<1>4. CASE RestoreOne(u)
  <2>1. undo[u] # Resting /\ undo[u].left # <<>>
    BY <1>4 DEF RestoreOne, Restoring
  <2>2. undo'[u].left = Tail(undo[u].left) /\ undo'[u].n = undo[u].n
    BY <1>4, <2>1, UndoFields DEF RestoreOne, Undo
  <2>3. i + 1 \in DOMAIN undo[u].left /\ undo'[u].left[i] = undo[u].left[i + 1]
    BY <2>1, <2>2, UndoFields
  <2> QED
    BY <2>1, <2>2, <2>3 DEF ContentsAreOld
<1>5. CASE undo[u] # Resting /\ undo'[u].left = undo[u].left /\ undo'[u].n = undo[u].n
  BY <1>5 DEF ContentsAreOld
<1> QED
  BY <1>1, <1>2, <1>3, <1>4, <1>5, SameUndo

\* Each step keeps what is on the disk from changes that have begun.
LEMMA ContentsAreOldStep ==
    ASSUME Shapes, ContentsAreOld, [Next]_vars
    PROVE  ContentsAreOld'
<1>1. \A p \in Path : disk'[p] \in UpTo(begun') /\ bak'[p] \in UpTo(begun')
  BY DiskIsOldStep
<1>2. \A n \in 1..begun' : \A p \in Path : found'[n].disk[p] \in UpTo(n - 1)
  BY FoundIsOldStep
<1>3. \A n \in 1..begun' : Readable(n)' =>
        \A i \in DOMAIN manifest'[n].touched : manifest'[n].touched[i].was \in UpTo(n)
  BY EntriesAreOldStep
<1>4. \A u \in Undoer : undo'[u] # Resting =>
        \A i \in DOMAIN undo'[u].left : undo'[u].left[i].was \in UpTo(undo'[u].n)
  BY LeftIsOldStep
<1> QED
  BY <1>1, <1>2, <1>3, <1>4 DEF ContentsAreOld, UpTo

\* A manifest is written by the transaction that began it.
LEMMA DiffsHaveNoManifestStep ==
    ASSUME Shapes, DiffsHaveNoManifest, [Next]_vars
    PROVE  DiffsHaveNoManifest'
<1> SUFFICES ASSUME job' # Free, job'.diff PROVE ~Readable(job.n)'
  BY DEF DiffsHaveNoManifest
<1>1. PICK n : n = job'.n
  OBVIOUS
<1>2. SUFFICES ASSUME Readable(n)' PROVE FALSE
  BY <1>1 DEF Readable
<1>3. begun \in Nat /\ n \in Change
  BY <1>1, Forward, TypeStep DEF TypeOK, Job
<1>4. ASSUME NEW diff \in BOOLEAN, Begin(diff) PROVE FALSE
  <2>1. n = begun + 1 /\ diff
    BY <1>1, <1>4 DEF Begin
  <2>2. ~Readable(n)
    BY <1>3, <2>1 DEF Shapes, NoneBeforehand
  <2> QED
    BY <1>4, <1>2, <2>1, <2>2 DEF Begin, Readable
<1>5. CASE job # Free /\ job'.n = job.n /\ job'.diff = job.diff /\ begun' = begun
  <2>1. ~Readable(n)
    BY <1>1, <1>5 DEF DiffsHaveNoManifest
  <2>2. ~Begin(FALSE)
    BY <1>3, <1>5 DEF Begin
  <2> QED
    BY <1>2, <1>3, <2>1, <2>2, SameManifest
<1> QED
  BY <1>4, <1>5, SameJob

\* What is left to back up is what was, but for the first.
LEMMA TailSet ==
    ASSUME NEW S, NEW s \in Seq(S), s # <<>>
    PROVE  /\ ToSet(s) \subseteq {Head(s)} \cup ToSet(Tail(s))
           /\ Len(s) = 1 => ToSet(Tail(s)) = {}
<1>1. ASSUME NEW i \in DOMAIN s, i # 1 PROVE i - 1 \in DOMAIN Tail(s) /\ s[i] = Tail(s)[i - 1]
  BY <1>1
<1>2. s[1] = Head(s)
  OBVIOUS
<1>3. Len(s) = 1 => DOMAIN Tail(s) = {}
  OBVIOUS
<1> QED
  BY <1>1, <1>2, <1>3 DEF ToSet

\* Save adds the first path to the manifest's, and no other.
LEMMA SaveSaves ==
    ASSUME Shapes, Save
    PROVE  manifest'[job.n].touched = Saved(manifest[job.n].touched, Head(job.todo))
<1>1. manifest[job.n] \in Manifest /\ job.n \in Change
  BY JobFields, ManifestFields DEF Save, Working
<1>2. manifest' = [manifest EXCEPT ![job.n] =
                     [manifest[job.n] EXCEPT !.touched =
                         Saved(manifest[job.n].touched, Head(job.todo))]]
  BY <1>1 DEF Save, Shapes, TypeOK
<1> QED
  BY <1>1, <1>2 DEF Shapes, TypeOK, Manifest

\* What a step makes of the entries of a manifest that can be read after it.
LEMMA TouchedGrows ==
    ASSUME Shapes, [Next]_vars, NEW n \in 1..begun, Readable(n)'
    PROVE  /\ n \in Change /\ Readable(n)
           /\ Touched(n) \subseteq Touched(n)'
           /\ \/ ~(Save /\ n = job.n) /\ manifest'[n].touched = manifest[n].touched
              \/ /\ Save /\ n = job.n
                 /\ manifest'[n].touched = Saved(manifest[n].touched, Head(job.todo))
                 /\ Head(job.todo) \in Path /\ Head(job.todo) \in Touched(n)'
<1>0. n \in Change /\ begun \in Nat
  BY PatchAssumption DEF Shapes, TypeOK, Change
<1>1. ~(Begin(FALSE) /\ n = begun')
  BY <1>0 DEF Begin
<1>2. Readable(n)
  BY <1>0, <1>1, SameManifest
<1>3. CASE ~(Save /\ n = job.n)
  <2>1. manifest'[n].touched = manifest[n].touched
    BY <1>0, <1>1, <1>3, SameManifest
  <2> QED
    BY <1>0, <1>2, <1>3, <2>1 DEF Touched
<1>4. CASE Save /\ n = job.n
  <2> DEFINE old == manifest[n].touched
             q == Head(job.todo)
             new == Saved(old, q)
  <2>1. q \in Path
    BY <1>4, JobFields DEF Save, Working, Shapes, JobShape
  <2>2. old \in Seq(Entry)
    BY <1>0, <1>2, ManifestFields
  <2>3. \/ new = old /\ \E k \in DOMAIN old : old[k].path = q
        \/ /\ DOMAIN new = 1..Len(old) + 1 /\ DOMAIN old = 1..Len(old)
           /\ \A k \in DOMAIN old : new[k] = old[k]
           /\ new[Len(old) + 1] = [path |-> q, was |-> FileAt(q)]
    BY <2>1, <2>2, SavedEntries DEF Shapes
  <2>4. Len(old) \in Nat
    BY <2>2
  <2> HIDE DEF old, new, q
  <2>5. {new[i].path : i \in DOMAIN new} = {old[i].path : i \in DOMAIN old} \cup {q}
    <3>1. CASE new = old /\ \E k \in DOMAIN old : old[k].path = q
      BY <3>1
    <3>2. CASE /\ DOMAIN new = 1..Len(old) + 1 /\ DOMAIN old = 1..Len(old)
               /\ \A k \in DOMAIN old : new[k] = old[k]
               /\ new[Len(old) + 1] = [path |-> q, was |-> FileAt(q)]
      <4>1. DOMAIN new = DOMAIN old \cup {Len(old) + 1}
        BY <2>4, <3>2
      <4>2. new[Len(old) + 1].path = q
        BY <3>2
      <4>3. \A k \in DOMAIN old : new[k].path = old[k].path
        BY <3>2
      <4> HIDE <3>2
      <4> QED
        BY <4>1, <4>2, <4>3
    <3> QED
      BY <2>3, <3>1, <3>2
  <2>6. manifest'[n].touched = new
    BY <1>4, SaveSaves DEF old, new, q
  <2>7. Touched(n) = {old[i].path : i \in DOMAIN old} /\ Touched(n)' = {new[i].path : i \in DOMAIN new}
    BY <2>6 DEF Touched, old
  <2> QED
    BY <1>0, <1>2, <1>4, <2>1, <2>5, <2>6, <2>7 DEF q, new, old
<1> QED
  BY <1>3, <1>4

\* A path is backed up while it is as the change found it, and once.
LEMMA BackupsAreTrueStep ==
    ASSUME Shapes, BackupsAreTrue, UntouchedIsAsFound, [Next]_vars
    PROVE  BackupsAreTrue'
<1> SUFFICES ASSUME NEW n \in 1..begun', Readable(n)',
                    NEW i \in DOMAIN manifest'[n].touched
             PROVE  /\ manifest'[n].touched[i].path \notin found'[n].others =>
                          manifest'[n].touched[i].was = Before(n, manifest[n].touched[i].path)'
                    /\ \A k \in DOMAIN manifest'[n].touched :
                          manifest'[n].touched[k].path = manifest'[n].touched[i].path => k = i
  BY DEF BackupsAreTrue, Before
<1>0. begun \in Nat /\ begun' \in Nat /\ n \in Change
  BY Forward, TypeStep, PatchAssumption DEF TypeOK, Change
<1>1. CASE n \notin 1..begun
  <2>1. ~Readable(n)
    BY <1>0, <1>1 DEF Shapes, NoneBeforehand
  <2>2. manifest'[n] = [status |-> "pending", touched |-> <<>>]
    BY <1>0, <2>1, SameManifest, Zenon
  <2>3. manifest'[n].touched = <<>>
    BY <2>2
  <2> QED
    BY <2>3
<1>2. CASE n \in 1..begun
  <2> DEFINE old == manifest[n].touched
             new == manifest'[n].touched
  <2>1. /\ Readable(n) /\ old \in Seq(Entry)
        /\ found'[n].disk = found[n].disk /\ found[n].others \subseteq found'[n].others
    BY <1>0, <1>2, TouchedGrows, ManifestFields, SameFound
  <2>2. \A j \in DOMAIN old :
           /\ old[j].path \notin found[n].others => old[j].was = Before(n, old[j].path)
           /\ \A k \in DOMAIN old : old[k].path = old[j].path => k = j
    BY <1>2, <2>1 DEF BackupsAreTrue
  <2>3. Before(n, manifest[n].touched[i].path)' = Before(n, new[i].path)
    BY <2>1 DEF Before
  <2>4. CASE new = old
    BY <2>1, <2>2, <2>3, <2>4
  <2>5. CASE Save /\ n = job.n /\ new # old
    <3> DEFINE q == Head(job.todo)
    <3>1. /\ new = Saved(old, q) /\ q \in Path /\ Len(old) \in Nat
          /\ job # Free /\ job.stage = "saving" /\ ~job.diff
      BY <1>2, <2>1, <2>5, TouchedGrows DEF Save, Working, Shapes, JobShape
    <3> HIDE DEF old, new, q
    <3>2. /\ \A j \in DOMAIN old : old[j].path # q
          /\ DOMAIN new = 1..Len(old) + 1 /\ DOMAIN old = 1..Len(old)
          /\ \A j \in DOMAIN old : new[j] = old[j]
          /\ new[Len(old) + 1] = [path |-> q, was |-> FileAt(q)]
      BY <2>1, <2>5, <3>1, SavedEntries DEF Shapes
    <3>3. new[Len(old) + 1].path = q /\ new[Len(old) + 1].was = FileAt(q)
      BY <3>2
    <3>4. q \notin Touched(n)
      BY <3>2 DEF Touched, old
    <3>5. q \notin found[n].others => FileAt(q) = Before(n, q)
      <4>1. q \notin found[n].others => disk[q] = found[n].disk[q]
        BY <2>1, <2>5, <3>1, <3>4 DEF UntouchedIsAsFound
      <4> QED
        BY <4>1 DEF FileAt, Before
    <3>6. DOMAIN new = DOMAIN old \cup {Len(old) + 1} /\ Len(old) + 1 \notin DOMAIN old
      BY <3>1, <3>2
    <3>7. /\ new[i].path \notin found'[n].others => new[i].was = Before(n, new[i].path)
          /\ \A k \in DOMAIN new : new[k].path = new[i].path => k = i
      <4>1. i \in DOMAIN new
        BY DEF new
      <4>2. CASE i \in DOMAIN old
        BY <2>1, <2>2, <3>2, <3>3, <3>6, <4>1, <4>2
      <4>3. CASE i = Len(old) + 1
        BY <2>1, <3>2, <3>3, <3>5, <3>6, <4>3
      <4> QED
        BY <3>6, <4>1, <4>2, <4>3
    <3> QED
      BY <2>3, <3>7 DEF new
  <2> QED
    BY <1>2, <2>4, <2>5, TouchedGrows
<1> QED
  BY <1>1, <1>2

\* A change writes only where it has a backup, and others' writes are recorded.
LEMMA UntouchedIsAsFoundStep ==
    ASSUME Shapes, UntouchedIsAsFound, [Next]_vars
    PROVE  UntouchedIsAsFound'
<1> SUFFICES ASSUME job' # Free, ~job'.diff, job'.stage # "undoing", Readable(job.n)'
             PROVE  UntouchedIsAsFound'
  BY DEF UntouchedIsAsFound
<1>1. PICK n : n = job'.n
  OBVIOUS
<1>2. n \in Change /\ job' \in Job /\ Readable(n)' /\ begun \in Nat
  BY <1>1, TypeStep, Forward DEF TypeOK, Job, Readable
<1>3. SUFFICES /\ \A p \in Path \ (Touched(n)' \cup found'[n].others) : disk'[p] = found'[n].disk[p]
               /\ job'.stage = "saving" =>
                     {job'.op.path, job'.op.dest} \subseteq Touched(n)' \cup ToSet(job'.todo)
               /\ job'.stage \in {"changing", "halfway"} =>
                     {job'.op.path, job'.op.dest} \subseteq Touched(n)'
  BY <1>1 DEF UntouchedIsAsFound, Touched
<1>4. ASSUME NEW diff \in BOOLEAN, Begin(diff)
      PROVE  /\ \A p \in Path \ (Touched(n)' \cup found'[n].others) : disk'[p] = found'[n].disk[p]
             /\ job'.stage = "ready"
  <2>1. n = begun' /\ found'[n].disk = disk /\ disk' = disk /\ job'.stage = "ready"
    BY <1>1, <1>2, <1>4 DEF Begin, Shapes, TypeOK
  <2> QED
    BY <2>1
<1>5. CASE job # Free /\ job'.n = job.n /\ job'.diff = job.diff /\ begun' = begun
  <2>1. n = job.n /\ n \in 1..begun /\ job \in Job /\ ~job.diff
    BY <1>1, <1>5, JobFields
  <2>2. Readable(n) /\ Touched(n) \subseteq Touched(n)' /\ found'[n].disk = found[n].disk
        /\ found[n].others \subseteq found'[n].others
    BY <1>2, <2>1, TouchedGrows, SameFound
  <2>3. ASSUME job.stage # "undoing"
        PROVE  /\ \A p \in Path \ (Touched(n) \cup found[n].others) : disk[p] = found[n].disk[p]
               /\ job.stage = "saving" =>
                     {job.op.path, job.op.dest} \subseteq Touched(n) \cup ToSet(job.todo)
               /\ job.stage \in {"changing", "halfway"} =>
                     {job.op.path, job.op.dest} \subseteq Touched(n)
    BY <1>5, <2>1, <2>2, <2>3 DEF UntouchedIsAsFound
  <2>4. ASSUME job.stage # "undoing", NEW p \in Path, disk'[p] = disk[p],
               p \notin Touched(n)' \cup found'[n].others
        PROVE  disk'[p] = found'[n].disk[p]
    BY <2>2, <2>3, <2>4
  <2>5. CASE UNCHANGED <<disk, job>>
    BY <2>2, <2>3, <2>4, <2>5
  <2>6. ASSUME NEW op \in Op, NextOp(op)
        PROVE  /\ UNCHANGED disk /\ job.stage = "ready" /\ job'.stage \in {"saving", "refused"}
               /\ job'.stage = "saving" => {job'.op.path, job'.op.dest} \subseteq ToSet(job'.todo)
    <3>1. UNCHANGED disk /\ job.stage = "ready" /\ WellFormed(op)
      BY <2>6 DEF NextOp, Working
    <3>2. CASE job' = [job EXCEPT !.stage = "saving", !.op = op, !.todo = PathsOf(op)]
      <4>1. job'.stage = "saving" /\ job'.op = op /\ job'.todo = PathsOf(op)
        BY <2>1, <3>2 DEF Job
      <4> QED
        BY <3>1, <4>1, OpPaths
    <3>3. CASE job' = [job EXCEPT !.stage = "refused"]
      BY <2>1, <3>1, <3>3 DEF Job
    <3> QED
      BY <2>6, <3>2, <3>3 DEF NextOp
  <2>7. CASE Save
    <3>1. /\ job.stage = "saving" /\ UNCHANGED disk /\ job.todo \in Seq(Path) /\ job.todo # <<>>
          /\ job' = [job EXCEPT !.todo = Tail(job.todo),
                                !.stage = IF Len(job.todo) = 1 THEN "changing" ELSE job.stage]
      BY <1>5, <2>7, JobFields DEF Save, Working, Shapes, JobShape
    <3>2. /\ job'.op = job.op /\ job'.todo = Tail(job.todo)
          /\ job'.stage = IF Len(job.todo) = 1 THEN "changing" ELSE "saving"
      BY <2>1, <3>1 DEF Job
    <3>3. ToSet(job.todo) \subseteq {Head(job.todo)} \cup ToSet(Tail(job.todo))
          /\ (Len(job.todo) = 1 => ToSet(Tail(job.todo)) = {})
      BY <3>1, TailSet
    <3>4. Head(job.todo) \in Touched(n)'
      BY <1>2, <2>1, <2>7, TouchedGrows
    <3> QED
      BY <2>2, <2>3, <2>4, <3>1, <3>2, <3>3, <3>4
  <2>8. ASSUME Mutate \/ Rewrite, NEW p \in Path, p \notin Touched(n) PROVE disk'[p] = disk[p]
    <3>1. job.stage \in {"changing", "halfway"} /\ job.op \in Op
      BY <1>5, <2>8 DEF Mutate, Rewrite, Working, Shapes, JobShape
    <3>2. p \notin {job.op.path, job.op.dest}
      BY <2>3, <2>8, <3>1
    <3>3. CASE Mutate
      BY <1>5, <3>1, <3>2, <3>3, FilesAfter DEF Mutate, JobWrites
    <3>4. CASE Rewrite
      BY <3>2, <3>4 DEF Rewrite, JobWrites, Shapes, TypeOK
    <3> QED
      BY <2>8, <3>3, <3>4
  <2>9. CASE Mutate
    <3>1. job.stage = "changing" /\ job'.stage \in {"halfway", "recording"} /\ job'.op = job.op
      BY <2>1, <2>9 DEF Mutate, Working, Job
    <3> QED
      BY <2>2, <2>3, <2>4, <2>8, <2>9, <3>1
  <2>10. CASE Rewrite
    <3>1. job.stage = "halfway" /\ job'.stage \in {"ready", "recording"}
      BY <2>1, <2>10 DEF Rewrite, Working, Job
    <3> QED
      BY <2>2, <2>3, <2>4, <2>8, <2>10, <3>1
  <2>11. CASE Record \/ Raises
    <3>1. job.stage # "undoing" /\ job'.stage \in {"ready", "refused"} /\ UNCHANGED disk
      BY <2>1, <2>11 DEF Record, Raises, Working, Job
    <3> QED
      BY <2>4, <3>1
  <2>12. ASSUME NEW u \in Undoer, RestoreOne(u)
         PROVE  /\ UNCHANGED job /\ job.stage # "undoing"
                /\ \A p \in Path \ found'[n].others : disk'[p] = disk[p]
    <3>1. UNCHANGED job
      BY <2>12 DEF RestoreOne
    <3>2. job.stage # "undoing"
      BY <3>1
    <3>3. u = "user"
      <4>1. undo[u] # Resting
        BY <2>12 DEF RestoreOne, Restoring
      <4> QED
        BY <3>2, <4>1 DEF Shapes, TypeOK, Working, Undoer
    <3>4. Changed \subseteq found'[n].others
      BY <1>5, <2>1, <2>12, <3>3, SameFound
    <3> QED
      BY <3>1, <3>2, <3>4 DEF Changed
  <2>13. CASE \E u \in Undoer : RestoreOne(u)
    BY <2>2, <2>3, <2>4, <2>12, <2>13
  <2>14. CASE \/ UNCHANGED vars \/ ChooseLast \/ ChooseById
              \/ \E u \in Undoer : \/ StartRollback(u) \/ NoRollback(u) \/ FinishRollback(u)
                                  \/ RollbackRaises(u) \/ UndoDies(u)
    <3>1. UNCHANGED <<disk, job>>
      BY <2>14 DEF vars, ChooseLast, ChooseById, StartRollback, NoRollback, FinishRollback,
                   RollbackRaises, UndoDies, UndoEnds
    <3> QED
      BY <2>5, <3>1
  <2>15. /\ \A op \in Op : ~PatchFile(op)
         /\ ~PatchRefused /\ ~PatchApplied /\ ~RestoreBackups
    BY <2>1 DEF PatchFile, PatchRefused, PatchApplied, RestoreBackups
  <2>16. ~Finalize /\ ~JobDies
    BY DEF Finalize, JobDies
  <2>17. ~ChooseOwn
    BY <2>1 DEF ChooseOwn, Job
  <2>18. ~\E diff \in BOOLEAN : Begin(diff)
    BY <1>5 DEF Begin
  <2>19. CASE \E op \in Op : NextOp(op)
    BY <2>4, <2>6, <2>19
  <2> QED
    BY <2>7, <2>9, <2>10, <2>11, <2>13, <2>14, <2>15, <2>16, <2>17, <2>18, <2>19
       DEF Next, Transacts, Patches, Undoes
<1> QED
  BY <1>4, <1>5, SameJob

\* Only the latest change writes what it writes.
LEMMA WritesAreTouchedStep ==
    ASSUME Shapes, ContentsAreOld, DiffsHaveNoManifest, UntouchedIsAsFound, RollbacksAdvance,
           WritesAreTouched, [Next]_vars
    PROVE  WritesAreTouched'
<1> SUFFICES ASSUME NEW n, n = begun', n > 0, Readable(n)',
                    NEW p \in Path, p \notin Touched(n)', p \notin found'[n].others
             PROVE  disk'[p] # n
  BY DEF WritesAreTouched, Readable, Touched
<1>0. begun \in Nat /\ n \in Nat /\ n \in Change
  BY Forward, TypeStep DEF TypeOK, Change
<1>1. ASSUME NEW diff \in BOOLEAN, Begin(diff) PROVE disk'[p] # n
  <2>1. n = begun + 1 /\ disk' = disk
    BY <1>1 DEF Begin
  <2>2. disk[p] \in UpTo(begun)
    BY DEF ContentsAreOld
  <2>3. n \notin UpTo(begun)
    BY <1>0, <2>1, PatchAssumption DEF UpTo
  <2> QED
    BY <2>1, <2>2, <2>3
<1>2. CASE n = begun
  <2>1. Readable(n) /\ n \in 1..begun
    BY <1>0, <1>2, TouchedGrows
  <2>2. p \notin Touched(n) /\ p \notin found[n].others
    BY <2>1, TouchedGrows, SameFound
  <2>3. disk[p] # n
    BY <1>0, <1>2, <2>1, <2>2 DEF WritesAreTouched
  <2>4. CASE disk'[p] = disk[p]
    BY <2>3, <2>4
  <2>5. job # Free => job.n = n /\ ~job.diff
    BY <1>2, <2>1, JobFields DEF DiffsHaveNoManifest
  <2>6. CASE Mutate \/ Rewrite
    <3>1. /\ job # Free /\ job.stage \in {"changing", "halfway"} /\ job.op \in Op
      BY <2>6 DEF Mutate, Rewrite, Working, Shapes, JobShape
    <3>2. p \notin {job.op.path, job.op.dest}
      BY <2>1, <2>2, <2>5, <3>1 DEF UntouchedIsAsFound
    <3>3. CASE Mutate
      BY <2>4, <3>1, <3>2, <3>3, FilesAfter DEF Mutate, JobWrites
    <3>4. CASE Rewrite
      BY <2>4, <3>2, <3>4 DEF Rewrite, JobWrites, Shapes, TypeOK
    <3> QED
      BY <2>6, <3>3, <3>4
  <2>7. ASSUME NEW u \in Undoer, RestoreOne(u) PROVE disk'[p] # n
    <3> DEFINE e == Head(undo[u].left)
    <3>1. undo[u] # Resting /\ undo[u].left # <<>> /\ Restoring(u)
      BY <2>7 DEF RestoreOne, Restoring
    <3>2. e = undo[u].left[1] /\ 1 \in DOMAIN undo[u].left /\ undo[u].n \in 1..begun
      BY <3>1, UndoFields
    <3>3. e.was \in UpTo(undo[u].n)
      BY <3>1, <3>2 DEF ContentsAreOld
    <3>4. CASE undo[u].n < n
      <4>1. e.was # n /\ Dir # n /\ Absent # n
        BY <1>0, <3>2, <3>3, <3>4, PatchAssumption DEF UpTo
      <4>2. disk'[p] \in {disk[p], e.was, Dir, Absent}
        BY <2>7 DEF RestoreOne, PutBackEntry, Over, Shapes, TypeOK
      <4> QED
        BY <2>3, <4>1, <4>2
    <3>5. CASE undo[u].n = n
      <4>1. found[n].others # Path
        BY <2>2
      <4>2. /\ Done(u) >= 0
            /\ e = manifest[n].touched[Done(u) + 1]
        BY <2>1, <3>1, <3>2, <3>5, <4>1 DEF RollbacksAdvance
      <4>3. Done(u) + 1 \in DOMAIN manifest[n].touched
        <5>1. Len(undo[u].left) \in Nat /\ Len(undo[u].left) >= 1
          BY <3>1, UndoFields
        <5>2. Len(manifest[n].touched) \in Nat /\ DOMAIN manifest[n].touched = 1..Len(manifest[n].touched)
          BY <1>0, <2>1, ManifestFields
        <5>3. Done(u) = Len(manifest[n].touched) - Len(undo[u].left)
          BY <3>5 DEF Done
        <5>4. Done(u) >= 0
          BY <4>2
        <5>5. PICK lt \in Nat, ll \in Nat : lt = Len(manifest[n].touched) /\ ll = Len(undo[u].left)
          BY <5>1, <5>2, Zenon
        <5>6. ll >= 1 /\ Done(u) = lt - ll
          BY <5>1, <5>3, <5>5, Zenon
        <5>7. Done(u) + 1 \in 1..lt
          BY <5>4, <5>6
        <5> QED
          BY <5>2, <5>5, <5>7
      <4>4. e.path \in Touched(n)
        BY <4>2, <4>3 DEF Touched
      <4>5. disk'[p] = disk[p]
        BY <2>2, <2>7, <4>4 DEF RestoreOne, Shapes, TypeOK
      <4> QED
        BY <2>4, <4>5
    <3> QED
      BY <1>0, <1>2, <3>2, <3>4, <3>5
  <2>8. /\ \A op \in Op : ~PatchFile(op)
        /\ ~RestoreBackups
    BY <2>5 DEF PatchFile, RestoreBackups, Working
  <2>9. CASE \/ UNCHANGED vars
             \/ \E op \in Op : NextOp(op)
             \/ Save \/ Record \/ Finalize \/ PatchRefused \/ PatchApplied \/ Raises \/ JobDies
             \/ ChooseLast \/ ChooseById \/ ChooseOwn
             \/ \E u \in Undoer : \/ StartRollback(u) \/ NoRollback(u) \/ FinishRollback(u)
                                 \/ RollbackRaises(u) \/ UndoDies(u)
    BY <2>4, <2>9 DEF vars, NextOp, Save, Record, Finalize, PatchRefused, PatchApplied, Raises,
                      JobDies, ChooseLast, ChooseById, ChooseOwn, StartRollback, NoRollback,
                      FinishRollback, RollbackRaises, UndoDies
  <2> QED
    BY <1>1, <2>6, <2>7, <2>8, <2>9 DEF Next, Transacts, Patches, Undoes
<1> QED
  BY <1>0, <1>1, <1>2, Forward

\* RestoreOne puts the first of the backups left back; no other step takes one
\* from the list, and what writes over a path that is back is seen.
LEMMA RollbacksAdvanceStep ==
    ASSUME Shapes, DisturbedByUndo, BackupsAreTrue, RollbacksAdvance, [Next]_vars
    PROVE  RollbacksAdvance'
<1> SUFFICES ASSUME NEW u \in Undoer, Restoring(u)',
                    Readable(undo[u].n)', found'[undo'[u].n].others # Path
             PROVE  /\ Done(u)' >= 0
                    /\ \A i \in DOMAIN undo'[u].left :
                          undo'[u].left[i] = manifest'[undo'[u].n].touched[Done(u)' + i]
                    /\ \A i \in 1..Done(u)' :
                          manifest'[undo'[u].n].touched[i].path \notin undo'[u].others =>
                              disk'[manifest'[undo'[u].n].touched[i].path]
                                  \in PutBackTo(manifest'[undo'[u].n].touched[i])
  BY DEF RollbacksAdvance, PutBackTo
<1>1. PICK n : n = undo'[u].n
  OBVIOUS
<1> DEFINE left == undo'[u].left
           new == manifest'[n].touched
           done == Len(new) - Len(left)
<1>2. SUFFICES /\ done >= 0
               /\ \A i \in DOMAIN left : left[i] = new[done + i]
               /\ \A i \in 1..done :
                     new[i].path \notin undo'[u].others => disk'[new[i].path] \in PutBackTo(new[i])
  BY <1>1 DEF Done
<1>3. undo'[u] # Resting /\ undo'[u].stage = "restoring" /\ Readable(n)' /\ begun \in Nat
  BY <1>1, Forward DEF Restoring, Readable
<1>4. ASSUME NEW k, NEW how, Choose(u, k, how) PROVE FALSE
  BY <1>3, <1>4 DEF Choose, Shapes, TypeOK
<1>5. ASSUME undo[u] # Resting, undo[u].n = n, Readable(n), n \in 1..begun
      PROVE  /\ n \in Change /\ found[n].others # Path
             /\ manifest[n].touched \in Seq(Entry) /\ undo[u].left \in Seq(Entry)
             /\ DOMAIN manifest[n].touched = 1..Len(manifest[n].touched)
             /\ Done(u) = Len(manifest[n].touched) - Len(undo[u].left)
             /\ Len(manifest[n].touched) \in Nat /\ Len(undo[u].left) \in Nat
             /\ Restoring(u) =>
                   /\ Done(u) >= 0
                   /\ \A i \in DOMAIN undo[u].left : undo[u].left[i] = manifest[n].touched[Done(u) + i]
                   /\ \A i \in 1..Done(u) :
                         manifest[n].touched[i].path \notin undo[u].others =>
                             disk[manifest[n].touched[i].path] \in PutBackTo(manifest[n].touched[i])
  <2>1. n \in Change /\ found[n].others # Path
    BY <1>1, <1>5, UndoFields, StaysDisturbed
  <2>2. manifest[n].touched \in Seq(Entry) /\ undo[u].left \in Seq(Entry)
    BY <1>5, <2>1, ManifestFields, UndoFields
  <2>3. DOMAIN manifest[n].touched = 1..Len(manifest[n].touched)
        /\ Len(manifest[n].touched) \in Nat /\ Len(undo[u].left) \in Nat
    BY <2>2
  <2>4. Done(u) = Len(manifest[n].touched) - Len(undo[u].left)
    BY <1>5 DEF Done
  <2>5. Restoring(u) =>
          /\ Done(u) >= 0
          /\ \A i \in DOMAIN undo[u].left : undo[u].left[i] = manifest[n].touched[Done(u) + i]
          /\ \A i \in 1..Done(u) :
                manifest[n].touched[i].path \notin undo[u].others =>
                    disk[manifest[n].touched[i].path] \in PutBackTo(manifest[n].touched[i])
    BY <1>5, <2>1 DEF RollbacksAdvance
  <2> QED
    BY <2>1, <2>2, <2>3, <2>4, <2>5
<1>6. CASE StartRollback(u)
  <2>1. undo[u] # Resting /\ undo[u] \in Undo /\ Readable(undo[u].n) /\ undo[u].n \in 1..begun
        /\ UNCHANGED manifest
    BY <1>6, UndoFields DEF StartRollback, Undoable
  <2>2. undo[u].n = n /\ left = manifest[n].touched
    BY <1>1, <1>6, <2>1 DEF StartRollback, Shapes, TypeOK, Undo
  <2>3. new = left /\ new \in Seq(Entry)
    BY <1>5, <2>1, <2>2
  <2> HIDE DEF new, left
  <2>4. done = 0 /\ \A i \in DOMAIN left : done + i = i
    BY <2>3
  <2> QED
    BY <2>3, <2>4
<1>7. CASE RestoreOne(u)
  <2> DEFINE e == Head(undo[u].left)
  <2>1. /\ undo[u] # Resting /\ undo[u] \in Undo /\ undo[u].n \in 1..begun
        /\ undo[u].left # <<>> /\ Restoring(u) /\ UNCHANGED manifest
    BY <1>7, UndoFields DEF RestoreOne, Restoring
  <2>2. undo[u].n = n /\ left = Tail(undo[u].left) /\ undo'[u].others = undo[u].others
    BY <1>1, <1>7, <2>1 DEF RestoreOne, Undo
  <2>3. Readable(n)
    BY <1>3, <2>1 DEF Readable
  <2>4. PICK content \in PutBackEntry(e) : disk' = [disk EXCEPT ![e.path] = content]
    BY <1>7 DEF RestoreOne
  <2>5. new = manifest[n].touched /\ new \in Seq(Entry) /\ undo[u].left \in Seq(Entry)
    BY <1>5, <2>1, <2>2, <2>3
  <2>6. /\ Done(u) = Len(new) - Len(undo[u].left) /\ Done(u) >= 0
        /\ \A i \in DOMAIN undo[u].left : undo[u].left[i] = new[Done(u) + i]
        /\ \A i \in 1..Done(u) :
              new[i].path \notin undo[u].others => disk[new[i].path] \in PutBackTo(new[i])
    BY <1>5, <2>1, <2>2, <2>3, <2>5
  <2>7. \A i, k \in DOMAIN new : new[i].path = new[k].path => i = k
    BY <2>1, <2>2, <2>3, <2>5 DEF BackupsAreTrue
  <2> HIDE DEF new, left
  <2>8. /\ Len(undo[u].left) \in Nat /\ Len(undo[u].left) >= 1 /\ Len(new) \in Nat
        /\ DOMAIN new = 1..Len(new) /\ DOMAIN left = 1..Len(undo[u].left) - 1
        /\ Len(left) = Len(undo[u].left) - 1
        /\ e = undo[u].left[1] /\ 1 \in DOMAIN undo[u].left
        /\ \A i \in DOMAIN left : i + 1 \in DOMAIN undo[u].left /\ left[i] = undo[u].left[i + 1]
    BY <2>1, <2>2, <2>5
  <2>9. done = Done(u) + 1 /\ done \in DOMAIN new /\ new[done] = e /\ Done(u) \in Nat
    <3>1. Done(u) \in Nat /\ done = Done(u) + 1 /\ done \in 1..Len(new)
      BY <2>6, <2>8
    <3>2. undo[u].left[1] = new[Done(u) + 1]
      BY <2>6, <2>8
    <3> QED
      BY <2>8, <3>1, <3>2
  <2>10. \A i \in DOMAIN left : left[i] = new[done + i]
    <3>1. ASSUME NEW i \in DOMAIN left PROVE left[i] = new[done + i]
      <4>1. left[i] = new[Done(u) + (i + 1)]
        BY <2>6, <2>8
      <4>2. Done(u) + (i + 1) = done + i
        <5>1. i \in Nat
          BY <2>8
        <5> QED
          BY <2>9, <5>1
      <4> QED
        BY <4>1, <4>2
    <3> QED
      BY <3>1
  <2>11. e.path \in Path /\ disk'[e.path] \in PutBackTo(e)
    <3>1. e \in Entry
      BY <2>5, <2>8
    <3>2. content \in PutBackTo(e)
      BY <2>4 DEF PutBackEntry, PutBackTo, Over
    <3> QED
      BY <2>4, <3>1, <3>2 DEF Entry, Shapes, TypeOK
  <2>12. ASSUME NEW i \in 1..done, new[i].path \notin undo'[u].others
         PROVE  disk'[new[i].path] \in PutBackTo(new[i])
    <3>1. CASE i = done
      BY <2>9, <2>11, <3>1
    <3>2. CASE i # done
      <4>1. i \in 1..Done(u) /\ i \in DOMAIN new
        <5>1. i \in 1..(Done(u) + 1) /\ i # Done(u) + 1
          BY <2>9, <3>2, Zenon
        <5>2. i <= Done(u) /\ i <= Len(new)
          BY <2>8, <2>9, <5>1
        <5> QED
          BY <2>8, <2>9, <5>1, <5>2
      <4>2. new[i].path # e.path
        BY <2>7, <2>9, <3>2, <4>1
      <4>3. disk'[new[i].path] = disk[new[i].path]
        BY <2>4, <4>2 DEF Shapes, TypeOK
      <4> QED
        BY <2>2, <2>6, <2>12, <4>1, <4>3
    <3> QED
      BY <3>1, <3>2
  <2> QED
    BY <2>6, <2>9, <2>10, <2>12
<1>8. CASE /\ undo[u] # Resting
           /\ undo'[u].stage = undo[u].stage /\ undo'[u].n = undo[u].n
           /\ undo'[u].left = undo[u].left
           /\ undo'[u].others = undo[u].others \cup Changed
  <2>1. undo[u].n = n /\ n \in 1..begun /\ Restoring(u) /\ left = undo[u].left
    BY <1>1, <1>3, <1>8, UndoFields DEF Restoring
  <2>2. Readable(n)
    BY <1>3, <2>1, TouchedGrows
  <2>3. new = manifest[n].touched
    <3>1. ASSUME Save, n = job.n PROVE FALSE
      <4>1. job # Free /\ job.stage = "saving"
        BY <3>1 DEF Save, Working
      <4>2. u = "user"
        BY <1>8, <4>1 DEF Shapes, TypeOK, Working, Undoer
      <4> QED
        BY <1>5, <1>8, <2>1, <2>2, <3>1, <4>1, <4>2 DEF DisturbedByUndo
    <3> QED
      BY <1>3, <2>1, <3>1, TouchedGrows
  <2>4. done = Done(u)
    BY <2>1, <2>3 DEF Done
  <2>5. /\ Done(u) >= 0
        /\ \A i \in DOMAIN left : left[i] = new[Done(u) + i]
        /\ \A i \in 1..Done(u) :
              new[i].path \notin undo[u].others => disk[new[i].path] \in PutBackTo(new[i])
        /\ DOMAIN new = 1..Len(new) /\ new \in Seq(Entry) /\ Len(left) \in Nat
    BY <1>5, <1>8, <2>1, <2>2, <2>3
  <2> HIDE DEF new, left, done
  <2>6. ASSUME NEW i \in 1..done, new[i].path \notin undo'[u].others
        PROVE  disk'[new[i].path] \in PutBackTo(new[i])
    <3>1. i \in DOMAIN new
      BY <2>4, <2>5 DEF done
    <3>2. new[i].path \in Path
      <4>1. new[i] \in Entry
        BY <2>5, <3>1
      <4> QED
        BY <4>1 DEF Entry
    <3>3. disk'[new[i].path] = disk[new[i].path]
      BY <1>8, <2>6, <3>2 DEF Changed
    <3> QED
      BY <1>8, <2>4, <2>5, <2>6, <3>3
  <2> QED
    BY <2>4, <2>5, <2>6
<1> QED
  BY <1>3, <1>4, <1>6, <1>7, <1>8, SameUndo

\* The whole invariant holds at first.
LEMMA PInvInit == ASSUME Init PROVE PInv
<1>1. Shapes
  BY ShapesInit
<1>2. ContentsAreOld
  <2>1. \A p \in Path : disk[p] \in UpTo(begun) /\ bak[p] \in UpTo(begun)
    BY PatchAssumption DEF Init, UpTo
  <2>2. begun = 0 /\ (\A u \in Undoer : undo[u] = Resting)
    BY DEF Init
  <2>3. 1..begun = {}
    BY <2>2
  <2> QED
    BY <2>1, <2>2, <2>3 DEF ContentsAreOld
<1>3. DiffsHaveNoManifest /\ DisturbedByUndo /\ UntouchedIsAsFound /\ WritesAreTouched
  BY DEF Init, DiffsHaveNoManifest, DisturbedByUndo, UntouchedIsAsFound, WritesAreTouched
<1>4. BackupsAreTrue
  <2>1. 1..begun = {}
    BY DEF Init
  <2> QED
    BY <2>1 DEF BackupsAreTrue
<1>5. RollbacksAdvance
  BY DEF Init, RollbacksAdvance, Restoring
<1> QED
  BY <1>1, <1>2, <1>3, <1>4, <1>5 DEF PInv

\* Each step keeps the whole invariant.
LEMMA PInvStep == ASSUME PInv, [Next]_vars PROVE PInv'
BY ShapesStep, ContentsAreOldStep, DiffsHaveNoManifestStep, DisturbedByUndoStep,
   BackupsAreTrueStep, UntouchedIsAsFoundStep, WritesAreTouchedStep, RollbacksAdvanceStep
   DEF PInv

\* What a rollback that has nothing left to do has done.
LEMMA RolledBack ==
    ASSUME PInv, NEW u \in Undoer, FinishRollback(u), NEW p \in Path \ Disturbed(u)
    PROVE  /\ p \in Touched(undo[u].n) => disk[p] = Dir \/ IsBack(p, found[undo[u].n].disk[p])
           /\ begun = undo[u].n => disk[p] # undo[u].n
<1> DEFINE n == undo[u].n
           touched == manifest[n].touched
<1>1. /\ undo[u] # Resting /\ Restoring(u) /\ Readable(n) /\ undo[u].left = <<>>
      /\ n \in Change /\ n \in 1..begun
      /\ p \notin undo[u].others /\ p \notin found[n].others /\ found[n].others # Path
  BY UndoFields DEF FinishRollback, Restoring, Disturbed, PInv
<1>2. /\ touched \in Seq(Entry) /\ DOMAIN touched = 1..Len(touched)
      /\ Touched(n) = {touched[i].path : i \in 1..Len(touched)}
  BY <1>1, ManifestFields DEF PInv
<1>3. Done(u) = Len(touched)
  BY <1>1, <1>2 DEF Done
<1>4. ASSUME p \in Touched(n)
      PROVE  disk[p] \in {Dir, IF Before(n, p) = None THEN Absent ELSE Before(n, p)}
  <2>1. PICK i \in 1..Len(touched) : touched[i].path = p
    BY <1>2, <1>4
  <2>2. disk[p] \in PutBackTo(touched[i])
    BY <1>1, <1>3, <2>1 DEF PInv, RollbacksAdvance
  <2>3. touched[i].was = Before(n, p)
    BY <1>1, <1>2, <2>1 DEF PInv, BackupsAreTrue
  <2> QED
    BY <2>2, <2>3 DEF PutBackTo
<1>5. found[n].disk[p] \in Content /\ found[n].disk[p] \in UpTo(n - 1)
  BY <1>1 DEF PInv, Shapes, TypeOK, Found, ContentsAreOld
<1>6. ASSUME p \in Touched(n) PROVE disk[p] = Dir \/ IsBack(p, found[n].disk[p])
  BY <1>4, <1>5, <1>6, Values DEF Before, IsBack
<1>7. ASSUME begun = n PROVE disk[p] # n
  <2>1. CASE p \in Touched(n)
    <3>1. n \in Nat /\ n \notin UpTo(n - 1) /\ Dir # n /\ Absent # n
      BY <1>1, PatchAssumption DEF UpTo, Change
    <3>2. Before(n, p) # n
      BY <1>5, <3>1, PatchAssumption DEF Before
    <3> QED
      BY <1>4, <2>1, <3>1, <3>2
  <2>2. CASE p \notin Touched(n)
    BY <1>1, <1>7, <2>2 DEF PInv, WritesAreTouched
  <2> QED
    BY <2>1, <2>2
<1> QED
  BY <1>6, <1>7

\* When a rollback reports success every file its change touched holds again
\* what the change found there, or is gone if there was none, and nothing the
\* change wrote is left unless a later one moved it; but for directories and
\* for what others wrote meanwhile.  (RollbackRestores)
THEOREM RolledBackIsRestored == Spec => RollbackRestores
<1> DEFINE Restores == \A u \in Undoer : FinishRollback(u) =>
              \A p \in Path \ Disturbed(u) :
                 /\ p \in Touched(undo[u].n) =>
                       disk[p] = Dir \/ IsBack(p, found[undo[u].n].disk[p])
                 /\ begun = undo[u].n => disk[p] # undo[u].n
<1>1. PInv /\ [Next]_vars => [Restores]_vars
  BY RolledBack
<1> HIDE DEF Restores
<1>2. Spec => [][Restores]_vars
  BY PInvInit, PInvStep, <1>1, PTL DEF Spec
<1> QED
  BY <1>2 DEF Restores, RollbackRestores

=============================================================================
