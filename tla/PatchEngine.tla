----------------------------- MODULE PatchEngine -----------------------------
(***************************************************************************)
(* Changes to the files of a workspace and the ways back                   *)
(* (shamsu/patch/engine.py, transactions.py, file_mutations.py,            *)
(* rollback.py and /undo in shamsu/cli/repl.py).                           *)
(*                                                                         *)
(* A change is a transaction, whose manifest and backups let it be rolled  *)
(* back later, or a plain diff, whose .bak files are put back when it      *)
(* fails.  Somebody at the terminal may undo while a change is under way:  *)
(* a turn from the web runs on a thread of its own.  What change n writes  *)
(* into a file is abstracted to n, what a file held at first to 0, and     *)
(* paths do not contain each other.                                        *)
(***************************************************************************)
EXTENDS Integers, SequencesExt

CONSTANTS
    Path,       \* files and directories of the workspace
    Absent,     \* nothing at a path
    Dir,        \* a directory at a path
    None,       \* no record: of a manifest, of a backup
    Torn,       \* a manifest that does not parse
    InitDisk,   \* what is at each path at first
    MaxChanges, \* bound: changes
    MaxOps,     \* bound: operations, of all changes together
    MaxFaults   \* bound: processes that die and steps that raise

ASSUME PatchAssumption ==
    /\ MaxChanges \in Nat /\ MaxOps \in Nat /\ MaxFaults \in Nat
    /\ Absent \notin {Dir, None} /\ Dir # None
    /\ {Absent, Dir, None} \cap Nat = {}
    /\ InitDisk \in [Path -> {0, Absent, Dir}]

Change == 1..MaxChanges
File == 0..MaxChanges
Content == File \cup {Absent, Dir}

\* Who may be rolling back: the user, and the caller of a change that failed.
Undoer == {"user", "caller"}

VARIABLES
    disk,      \* [Path -> Content]
    begun,     \* changes begun; a later one has a later created_at
    manifest,  \* [Change -> its manifest.json]
    bak,       \* [Path -> the .bak beside it, or None]
    job,       \* the change under way
    undo,      \* [Undoer -> the rollback under way]
    found,     \* history: the disk each change found, and where others wrote
               \* while it was under way (all of it once it is rolled back)
    ops,       \* operations begun
    faults

vars == <<disk, begun, manifest, bak, job, undo, found, ops, faults>>

Status == {"pending", "applied", "failed", "verification_failed", "rolled_back"}

\* One entry per touched file, in order: before_hashes with its backup.
Entry == [path : Path, was : File \cup {None}]
Manifest == [status : Status, touched : Seq(Entry)]

Op == [kind : {"create", "edit", "delete", "move", "mkdir", "rewrite"}, path : Path, dest : Path]

Free == [stage |-> "free"]
Resting == [stage |-> "resting"]

\* What a change under way keeps: the operation at hand and its paths still
\* to back up; for a diff, the files with a .bak and those
\* it created.
Job == [stage : {"ready", "saving", "changing", "halfway", "recording", "refused", "undoing"},
        n : Change, diff : BOOLEAN, op : Op \cup {None},
        todo : Seq(Path), saved : SUBSET Path, created : SUBSET Path]

\* how tells who named the change: /undo, an id, or the change's own caller.
\* upto is the latest change when it was chosen; others, what others wrote
\* since, is history.
Undo == [stage : {"asking", "restoring"}, n : Change, how : {"undo", "id", "caller"},
         upto : Change, left : Seq(Entry), others : SUBSET Path]

Found == [disk : [Path -> Content], others : SUBSET Path]

Init ==
    /\ disk = InitDisk /\ begun = 0
    /\ manifest = [n \in Change |-> None]
    /\ bak = [p \in Path |-> None]
    /\ job = Free /\ undo = [u \in Undoer |-> Resting] /\ ops = 0 /\ faults = 0
    /\ found = [n \in Change |-> None]

Working(stage) == job # Free /\ job.stage = stage
Readable(n) == manifest[n] \notin {None, Torn}
FileAt(p) == IF disk[p] \in File THEN disk[p] ELSE None

Changed == {p \in Path : disk'[p] # disk[p]}

\* What one writes is what the others find changed.
SeenByUndo(u) ==
    IF undo[u] = Resting THEN Resting ELSE [undo[u] EXCEPT !.others = @ \cup Changed]

JobWrites(files) ==
    /\ disk' = files
    /\ undo' = [u \in Undoer |-> SeenByUndo(u)]

\* A step that raises, or a process that dies.
Faulty == faults < MaxFaults /\ faults' = faults + 1

-----------------------------------------------------------------------------
(* A transaction.                                                          *)

\* begin, or the diff that was approved: no file is touched yet.
Begin(diff) ==
    /\ job = Free /\ begun < MaxChanges
    /\ begun' = begun + 1
    /\ manifest' = IF diff THEN manifest
                   ELSE [manifest EXCEPT ![begun'] = [status |-> "pending", touched |-> <<>>]]
    /\ found' = [found EXCEPT ![begun'] = [disk |-> disk, others |-> {}]]
    /\ job' = [stage |-> "ready", n |-> begun', diff |-> diff, op |-> None, todo |-> <<>>,
               saved |-> {}, created |-> {}]
    /\ UNCHANGED <<disk, bak, undo, ops, faults>>

TwoPaths(op) == op.kind \in {"move", "rewrite"}
PathsOf(op) == IF TwoPaths(op) THEN <<op.path, op.dest>> ELSE <<op.path>>
WellFormed(op) == TwoPaths(op) <=> op.path # op.dest

\* What an operation asks of the files before it touches them.
Admitted(op) ==
    CASE op.kind = "create"  -> disk[op.path] = Absent
      [] op.kind \in {"edit", "rewrite"} -> disk[op.path] \in File
      [] op.kind = "delete"  -> disk[op.path] # Absent
      [] op.kind = "move"    -> disk[op.path] # Absent /\ disk[op.dest] = Absent
      [] op.kind = "mkdir"   -> TRUE

\* The next operation, refused or with its files to be backed up.
NextOp(op) ==
    /\ Working("ready") /\ ~job.diff /\ ops < MaxOps /\ WellFormed(op)
    /\ job' = IF Admitted(op)
              THEN [job EXCEPT !.stage = "saving", !.op = op, !.todo = PathsOf(op)]
              ELSE [job EXCEPT !.stage = "refused"]
    /\ ops' = ops + 1
    /\ UNCHANGED <<disk, begun, manifest, bak, undo, found, faults>>

\* Mutant: a later operation on a file backs it up again.
SavedAgain(entries, p) ==
    Append(SelectSeq(entries, LAMBDA e : e.path # p), [path |-> p, was |-> FileAt(p)])

\* backup_file: the first backup of a file in a transaction stays.
Saved(entries, p) ==
    IF \E i \in DOMAIN entries : entries[i].path = p THEN entries
    ELSE Append(entries, [path |-> p, was |-> FileAt(p)])

Save ==
    /\ Working("saving") /\ Readable(job.n)
    /\ manifest' = [manifest EXCEPT ![job.n].touched = Saved(@, Head(job.todo))]
    /\ job' = [job EXCEPT !.todo = Tail(@),
                          !.stage = IF Len(job.todo) = 1 THEN "changing" ELSE @]
    /\ UNCHANGED <<disk, begun, bak, undo, found, ops, faults>>

\* What the system refuses: to write over a directory, to make one over a
\* file, to take away what is gone.
Possible(op) ==
    CASE op.kind = "mkdir" -> disk[op.path] \notin File
      [] op.kind \in {"create", "edit"} -> disk[op.path] # Dir
      [] op.kind = "rewrite" -> disk[op.path] \in File
      [] op.kind \in {"delete", "move"} -> disk[op.path] # Absent

\* The files after the first step of an operation, its only one but for a
\* rename by patch, which removes the old file before it writes the new one.
FirstStep(op) ==
    CASE op.kind \in {"create", "edit"} -> [disk EXCEPT ![op.path] = job.n]
      [] op.kind \in {"delete", "rewrite"} -> [disk EXCEPT ![op.path] = Absent]
      [] op.kind = "move" -> [disk EXCEPT ![op.dest] = IF @ = Dir THEN Dir ELSE disk[op.path],
                                          ![op.path] = Absent]
      [] op.kind = "mkdir" -> [disk EXCEPT ![op.path] = Dir]

Mutate ==
    /\ Working("changing") /\ Possible(job.op)
    /\ JobWrites(FirstStep(job.op))
    /\ job' = [job EXCEPT !.stage = IF job.op.kind = "rewrite" THEN "halfway" ELSE "recording"]
    /\ UNCHANGED <<begun, manifest, bak, found, ops, faults>>

\* The second half of a rename by patch.
Rewrite ==
    /\ Working("halfway") /\ disk[job.op.dest] # Dir
    /\ JobWrites([disk EXCEPT ![job.op.dest] = job.n])
    /\ job' = IF job.diff THEN [job EXCEPT !.stage = "ready", !.op = None]
              ELSE [job EXCEPT !.stage = "recording"]
    /\ UNCHANGED <<begun, manifest, bak, found, ops, faults>>

\* record_after: hashes that no rollback reads, but the manifest is rewritten.
Record ==
    /\ Working("recording") /\ Readable(job.n)
    /\ job' = [job EXCEPT !.stage = "ready", !.op = None]
    /\ UNCHANGED <<disk, begun, manifest, bak, undo, found, ops, faults>>

\* A step raises: the files stay as they are.
Raises ==
    /\ job # Free /\ job.stage \notin {"refused", "undoing"}
    /\ \/ Faulty
       \/ /\ \/ Working("changing") /\ ~Possible(job.op)
             \/ Working("halfway") /\ disk[job.op.dest] = Dir
          /\ UNCHANGED faults
    /\ job' = [job EXCEPT !.stage = "refused", !.op = None, !.todo = <<>>]
    /\ UNCHANGED <<disk, begun, manifest, bak, undo, found, ops>>

\* finalize: verified or not, or failed halfway with what was done left there.
Outcomes == IF Working("refused") THEN {"failed"} ELSE {"applied", "verification_failed"}

Finalize ==
    /\ job # Free /\ ~job.diff /\ job.stage \in {"ready", "refused"} /\ Readable(job.n)
    /\ \E status \in Outcomes : manifest' = [manifest EXCEPT ![job.n].status = status]
    /\ job' = Free
    /\ UNCHANGED <<disk, begun, bak, undo, found, ops, faults>>

-----------------------------------------------------------------------------
(* A plain diff (PatchEngine.apply_result).                                *)

\* Mutant: the copy is taken of whatever is there.
CopiedAnyway(p) == IF p \in job.saved THEN bak[p] ELSE disk[p]

\* _backup_file: a copy beside the file, if there is one.
Copied(p) == IF p \in job.saved \/ disk[p] \notin File THEN bak[p] ELSE disk[p]

\* One file of the diff, backed up and written in place.
PatchFile(op) ==
    /\ Working("ready") /\ job.diff /\ ops < MaxOps
    /\ op.kind \in {"create", "edit", "delete", "rewrite"} /\ WellFormed(op)
    /\ Admitted(op) /\ Possible(op) /\ disk[op.path] # Dir
    /\ JobWrites(FirstStep(op))
    /\ IF op.kind = "create"
       THEN /\ job' = [job EXCEPT !.created = @ \cup {op.path}]
            /\ UNCHANGED bak
       ELSE /\ bak' = [p \in Path |-> IF p \in ToSet(PathsOf(op)) THEN Copied(p) ELSE bak[p]]
            /\ job' = [job EXCEPT !.stage = IF op.kind = "rewrite" THEN "halfway" ELSE "ready",
                                  !.op = IF op.kind = "rewrite" THEN op ELSE None,
                                  !.saved = @ \cup ToSet(PathsOf(op))]
    /\ ops' = ops + 1
    /\ UNCHANGED <<begun, manifest, found, faults>>

\* A file of the diff does not fit: it is missing or in the way, or its lines
\* are not found, and then it has its backup already.
PatchRefused ==
    /\ Working("ready") /\ job.diff /\ ops < MaxOps
    /\ \/ job' = [job EXCEPT !.stage = "refused"] /\ UNCHANGED bak
       \/ \E p \in Path :
            /\ disk[p] \in File
            /\ bak' = [bak EXCEPT ![p] = Copied(p)]
            /\ job' = [job EXCEPT !.stage = "refused", !.saved = @ \cup {p}]
    /\ UNCHANGED <<disk, begun, manifest, undo, found, ops, faults>>

PatchApplied ==
    /\ Working("ready") /\ job.diff
    /\ job' = Free
    /\ UNCHANGED <<disk, begun, manifest, bak, undo, found, ops, faults>>

\* A directory in the way takes the backup in and stays.
Over(p, content) == IF disk[p] = Dir THEN Dir ELSE content

\* Mutant: what the diff created is left.
PutBackOnly(p) == IF p \in job.saved /\ bak[p] # None THEN Over(p, bak[p]) ELSE disk[p]

\* Every backup is moved back onto its file, then what was created goes.
PutBack(p) ==
    IF p \in job.created THEN Over(p, Absent)
    ELSE IF p \in job.saved /\ bak[p] # None THEN Over(p, bak[p]) ELSE disk[p]

RestoreBackups ==
    /\ Working("refused") /\ job.diff
    /\ JobWrites([p \in Path |-> PutBack(p)])
    /\ bak' = [p \in Path |-> IF p \in job.saved THEN None ELSE bak[p]]
    /\ job' = Free
    /\ UNCHANGED <<begun, manifest, found, ops, faults>>

-----------------------------------------------------------------------------
(* Rolling back.                                                           *)

\* Mutant: only what was applied can be the last change.
UndoableIfApplied(n) == Readable(n) /\ manifest[n].status = "applied"

Undoable(n) == Readable(n) /\ manifest[n].status # "rolled_back"

Choose(u, n, how) ==
    /\ undo[u] = Resting
    /\ undo' = [undo EXCEPT ![u] = [stage |-> "asking", n |-> n, how |-> how, upto |-> begun,
                                    left |-> <<>>, others |-> {}]]

\* /undo: the latest change that can be rolled back, before anybody agreed.
ChooseLast ==
    /\ \E n \in Change :
         /\ Undoable(n) /\ \A m \in n + 1..MaxChanges : ~Undoable(m)
         /\ Choose("user", n, "undo")
    /\ UNCHANGED <<disk, begun, manifest, bak, job, found, ops, faults>>

\* /patch rollback <id>
ChooseById ==
    /\ \E n \in 1..begun : Choose("user", n, "id")
    /\ UNCHANGED <<disk, begun, manifest, bak, job, found, ops, faults>>

\* The callers that roll their own change back: a bundle that failed, a
\* generation that raised, a repair that did not help.
ChooseOwn ==
    /\ job # Free /\ ~job.diff /\ job.stage \in {"ready", "refused"} /\ Readable(job.n)
    /\ \E status \in {manifest[job.n].status, "failed"} :
         manifest' = [manifest EXCEPT ![job.n].status = status]
    /\ Choose("caller", job.n, "caller")
    /\ job' = [job EXCEPT !.stage = "undoing"]
    /\ UNCHANGED <<disk, begun, bak, found, ops, faults>>

Restoring(u) == undo[u] # Resting /\ undo[u].stage = "restoring"

\* The end of a rollback, and of the change whose caller waits for it.
UndoEnds(u) ==
    /\ undo' = [undo EXCEPT ![u] = Resting]
    /\ job' = IF u = "caller" THEN Free ELSE job

\* rollback_transaction reads the manifest again, when the user has agreed.
StartRollback(u) ==
    /\ undo[u] # Resting /\ undo[u].stage = "asking" /\ Undoable(undo[u].n)
    /\ undo' = [undo EXCEPT ![u].stage = "restoring", ![u].left = manifest[undo[u].n].touched]
    /\ found' = IF u = "user" /\ job # Free /\ job.n = undo[u].n
                THEN [found EXCEPT ![undo[u].n].others = Path] ELSE found
    /\ UNCHANGED <<disk, begun, manifest, bak, job, ops, faults>>

\* The user says no, or there is nothing left to roll back.
NoRollback(u) ==
    /\ undo[u] # Resting /\ undo[u].stage = "asking"
    /\ u = "user" \/ ~Undoable(undo[u].n)
    /\ UndoEnds(u)
    /\ UNCHANGED <<disk, begun, manifest, bak, found, ops, faults>>

\* A path that had no file loses the one it has, or its directory if that is
\* empty; the others get their backup, which a directory takes in.
PutBackEntry(e) ==
    IF e.was # None THEN {Over(e.path, e.was)}
    ELSE IF disk[e.path] = Dir THEN {Dir, Absent} ELSE {Absent}

RestoreOne(u) ==
    /\ Restoring(u) /\ undo[u].left # <<>>
    /\ LET e == Head(undo[u].left) IN
         \E content \in PutBackEntry(e) : disk' = [disk EXCEPT ![e.path] = content]
    /\ undo' = [v \in Undoer |-> IF v = u THEN [undo[u] EXCEPT !.left = Tail(@)] ELSE SeenByUndo(v)]
    /\ found' = IF job = Free \/ u = "caller" THEN found
                ELSE [found EXCEPT ![job.n].others = @ \cup Changed]
    /\ UNCHANGED <<begun, manifest, bak, job, ops, faults>>

FinishRollback(u) ==
    /\ Restoring(u) /\ undo[u].left = <<>> /\ Readable(undo[u].n)
    /\ manifest' = [manifest EXCEPT ![undo[u].n].status = "rolled_back"]
    /\ UndoEnds(u)
    /\ UNCHANGED <<disk, begun, bak, found, ops, faults>>

\* A copy raises halfway, or the manifest is gone: the change stays undoable.
RollbackRaises(u) ==
    /\ Restoring(u)
    /\ \/ Faulty
       \/ undo[u].left = <<>> /\ ~Readable(undo[u].n) /\ UNCHANGED faults
    /\ UndoEnds(u)
    /\ UNCHANGED <<disk, begun, manifest, bak, found, ops>>

-----------------------------------------------------------------------------
(* The process dies.  A manifest that was being written may be cut short.  *)

MayTear(n) == manifest' \in {manifest, [manifest EXCEPT ![n] = Torn]}

JobDies ==
    /\ job # Free /\ job.stage # "undoing" /\ Faulty
    /\ IF ~job.diff /\ job.stage \notin {"changing", "halfway"} /\ Readable(job.n)
       THEN MayTear(job.n) ELSE UNCHANGED manifest
    /\ job' = Free
    /\ UNCHANGED <<disk, begun, bak, undo, found, ops>>

UndoDies(u) ==
    /\ undo[u] # Resting /\ Faulty
    /\ IF Restoring(u) /\ undo[u].left = <<>> /\ Readable(undo[u].n)
       THEN MayTear(undo[u].n) ELSE UNCHANGED manifest
    /\ UndoEnds(u)
    /\ UNCHANGED <<disk, begun, bak, found, ops>>

-----------------------------------------------------------------------------

Transacts == (\E op \in Op : NextOp(op)) \/ Save \/ Mutate \/ Rewrite \/ Record \/ Finalize
Patches == (\E op \in Op : PatchFile(op)) \/ PatchRefused \/ PatchApplied \/ RestoreBackups
Undoes(u) == StartRollback(u) \/ NoRollback(u) \/ RestoreOne(u) \/ FinishRollback(u)

Next ==
    \/ \E diff \in BOOLEAN : Begin(diff)
    \/ Transacts \/ Patches \/ Raises \/ JobDies
    \/ ChooseLast \/ ChooseById \/ ChooseOwn
    \/ \E u \in Undoer : Undoes(u) \/ RollbackRaises(u) \/ UndoDies(u)

Spec == Init /\ [][Next]_vars

-----------------------------------------------------------------------------

\* Every variable stays within its bounds: a backup of a transaction or a
\* .bak holds what a file held, a change that began has its history, and a
\* caller waits for its rollback exactly while its change is being undone.
TypeOK ==
    /\ disk \in [Path -> Content] /\ begun \in 0..MaxChanges
    /\ manifest \in [Change -> Manifest \cup {None, Torn}]
    /\ found \in [Change -> Found \cup {None}]
    /\ \A n \in 1..begun : found[n] \in Found
    /\ bak \in [Path -> File \cup {None}]
    /\ job \in Job \cup {Free}
    /\ undo \in [Undoer -> Undo \cup {Resting}]
    /\ undo["caller"] # Resting <=> Working("undoing")
    /\ ops \in 0..MaxOps /\ faults \in 0..MaxFaults

Touched(n) == {manifest[n].touched[i].path : i \in DOMAIN manifest[n].touched}

\* Paths whose content somebody else wrote while the change or its rollback
\* was under way, and directories, of which no backup is kept.
Disturbed(u) == undo[u].others \cup found[undo[u].n].others

IsBack(p, before) ==
    CASE before \in File -> disk[p] = before
      [] before = Absent -> disk[p] \notin File
      [] before = Dir -> TRUE

\* When a rollback reports success every file its change touched, through any
\* number of operations on it, holds again what it held before the change, or
\* is gone if it did not exist; and nothing the change wrote is left unless a
\* later one moved it.  (rollback_transaction, "restores every file touched
\* by a transaction back to its pre-mutation state".)
RollbackRestores ==
    [][\A u \in Undoer : FinishRollback(u) =>
         \A p \in Path \ Disturbed(u) :
            /\ p \in Touched(undo[u].n) => disk[p] = Dir \/ IsBack(p, found[undo[u].n].disk[p])
            /\ begun = undo[u].n => disk[p] # undo[u].n]_vars

\* A later change than the one /undo takes back, begun before /undo chose,
\* whose file the step writes over.
Loses(m) ==
    \E p \in Changed : /\ disk[p] = m /\ undo["user"] # Resting /\ undo["user"].how = "undo"
                       /\ m > undo["user"].n /\ m <= undo["user"].upto

\* /undo destroys no later change that was not rolled back and has a readable
\* manifest, whatever became of that change (it failed, was not verified, or
\* its rollback was interrupted), unless its rollback began while it was
\* writing.  (latest_undoable_transaction.)
UndoSparesRecordedChanges ==
    [][RestoreOne("user") =>
         \A m \in Change :
            Readable(m) /\ manifest[m].status # "rolled_back" /\ found[m].others # Path
              => ~Loses(m)]_vars

\* Where the code that puts backups back cannot: the new name of a file the
\* diff renamed, and a file it deleted and then created again.
BeyondBackups(p) ==
    \/ found[job.n].disk[p] = Absent /\ p \in job.saved \ job.created
    \/ found[job.n].disk[p] \in File /\ p \in job.created

\* A diff that fails after some of its files were written leaves every file
\* as it found it, but for the two cases above and what others wrote.
\* (apply_result: "partial changes restored".)
FailedDiffRestoresTheRest ==
    [][RestoreBackups =>
         \A p \in Path \ found[job.n].others :
            ~BeyondBackups(p) => disk'[p] = found[job.n].disk[p]]_vars

=============================================================================
