------------------------------ MODULE FileEdits ------------------------------
(***************************************************************************)
(* The tools that change workspace files: FileTool (files/tool.py) under   *)
(* the leases of FileLock, GitSnapshotStore and FileHistoryTool            *)
(* (files/snapshots.py, history.py) and ApplyPatchTool (files/patch.py),   *)
(* which the command line builds without a lock registry.                  *)
(*                                                                         *)
(* Agents edit the file "f", the one FileLock's record is about; a patch   *)
(* also touches "g".  A file is a sequence of lines, a line a number.  A   *)
(* call of FileTool reads the file, then takes the lease, and in it takes  *)
(* the snapshot and writes: other agents act between these steps.          *)
(***************************************************************************)
EXTENDS FileLock, Sequences, FiniteSets, Functions

CONSTANTS
  Workloads,   \* records: see workload
  Patches,     \* patches the patch tool is called with
  Window       \* how far a hunk is looked for, 20 lines in the code

Files == {"f", "g"}

FilePatch ==
  [path : Files, hunks : Seq([start : Nat, old : Seq(Nat), new : Seq(Nat)]) \ {<<>>}]

\* _parse_patch lets no empty patch through, and none without a hunk.
ASSUME EditAssumption ==
  Patches \subseteq Seq(FilePatch) \ {<<>>} /\ Window \in Nat

\* No file; it compares with every content.
NoFile == <<0>>

NoJob == [op |-> "none", step |-> "none", base |-> NoFile, text |-> NoFile]

VARIABLES
  workload,   \* [start: content of f, ops: operations called, calls: their bound,
              \*  agents: who is at work]
  file,       \* the workspace
  job,        \* agent -> its FileTool call: what it read, what it will write
  undo,       \* agent -> _undo for f: <<>>, or <<previous>>, NoFile for None
  snaps,      \* commits of the snapshot repository, oldest first
  patch,      \* the patch under way: file patches [path, hunks]
  dry,        \* how many of them were tried on a copy
  pstep,      \* where apply_patch is
  originals, target,   \* path -> what it read, what it will write
  written,    \* the paths it has written, in order; in a rollback, those to undo
  torn,       \* history variable: the paths where a write of the patch failed
  foreign,    \* history variable: files others wrote since the patch read them
  toolCalls   \* counter of the bound

fileVars  == <<file, foreign>>
patchVars == <<patch, dry, pstep, originals, target, written, torn>>
editVars  == <<workload, fileVars, job, undo, snaps, patchVars, toolCalls>>

-----------------------------------------------------------------------------
(***************************************************************************)
(* Texts                                                                   *)
(***************************************************************************)
\* What a write that raises leaves: the old content, or the first lines of the
\* new one, for write_text truncates the file before it writes.  A deletion that
\* raises leaves the file.
CutShort(old, text) ==
  {old} \cup (IF text = NoFile THEN {} ELSE {SubSeq(text, 1, n) : n \in 0..Len(text)})

Replaced(s, from, length, by) ==
  SubSeq(s, 1, from - 1) \o by \o SubSeq(s, from + length, Len(s))

\* str_replace of a line, exact or fuzzy.  One that occurs more than once is
\* refused, or replaced throughout with replace_all.
StrReplace(content, line) ==
  {[i \in DOMAIN content |-> IF content[i] = content[k] THEN line ELSE content[i]] :
     k \in DOMAIN content}

Insert(content, line) == {Replaced(content, k + 1, 0, <<line>>) : k \in 0..Len(content)}

\* Does a hunk's context stand at line k?
MatchesAt(lines, k, hunk) ==
  k + Len(hunk.old) - 1 <= Len(lines) /\ SubSeq(lines, k, k + Len(hunk.old) - 1) = hunk.old

\* The lines near k where it stands.
Candidates(lines, k, hunk) ==
  {c \in (k - Window)..(k + Window) : c >= 1 /\ MatchesAt(lines, c, hunk)}

Failed == [ok |-> FALSE, lines |-> <<>>, offset |-> 0]

\* One hunk: at its place shifted by what earlier hunks did, else at the only
\* place nearby.
ApplyHunk(acc, hunk) ==
  LET index == IF hunk.old = <<>> THEN hunk.start + 1 ELSE hunk.start
      k     == index + acc.offset
      near  == Candidates(acc.lines, k, hunk)
      at    == IF MatchesAt(acc.lines, k, hunk) THEN k ELSE CHOOSE c \in near : TRUE
  IN  IF ~acc.ok \/ k < 1 \/ k > Len(acc.lines) + 1 THEN Failed
      ELSE IF ~MatchesAt(acc.lines, k, hunk) /\ Cardinality(near) # 1 THEN Failed
      ELSE [ok |-> TRUE,
            lines |-> Replaced(acc.lines, at, Len(hunk.old), hunk.new),
            offset |-> at - index + Len(hunk.new) - Len(hunk.old)]

\* _apply_file_patch
ApplyFilePatch(content, hunks) ==
  LET after[k \in 0..Len(hunks)] ==
        IF k = 0 THEN [ok |-> TRUE, lines |-> content, offset |-> 0]
        ELSE ApplyHunk(after[k - 1], hunks[k])
  IN  after[Len(hunks)]

-----------------------------------------------------------------------------
EditInit ==
  /\ LockInit
  /\ workload \in Workloads
  /\ file = [x \in Files |-> IF x = "f" THEN workload.start ELSE <<1, 2>>]
  /\ job = [p \in Procs |-> NoJob] /\ undo = [p \in Procs |-> <<>>]
  /\ snaps = <<>>
  /\ patch = <<>> /\ dry = 0 /\ pstep = "idle" /\ originals = <<>> /\ target = <<>> /\ written = <<>>
  /\ foreign = {} /\ torn = {} /\ toolCalls = 0

\* A number for a line this call brings in.
Fresh == 10 + toolCalls

Called == toolCalls < workload.calls /\ toolCalls' = toolCalls + 1

StartJob(p, what) ==
  /\ job' = [job EXCEPT ![p] = what]
  /\ UNCHANGED <<lockVars, workload, fileVars, undo, snaps, patchVars>>

\* The start of a call: the file is read before any lease is taken.
Ready(p, op) ==
  p \in workload.agents /\ pc[p] = "idle" /\ job[p] = NoJob /\ op \in workload.ops /\ Called

Intends(op, base, text) == [op |-> op, step |-> "ready", base |-> base, text |-> text]

\* _create: the existence check.
Create(p) ==
  /\ Ready(p, "create") /\ file["f"] = NoFile
  /\ StartJob(p, Intends("create", NoFile, <<Fresh>>))

\* _str_replace and _insert, up to the write.
Edit(p) ==
  /\ Ready(p, "edit") /\ file["f"] # NoFile
  /\ \E text \in StrReplace(file["f"], Fresh) \cup Insert(file["f"], Fresh) :
       StartJob(p, Intends("edit", file["f"], text))

\* _undo_edit: the undo of a create deletes, a missing file reads as empty.
UndoEdit(p) ==
  /\ Ready(p, "undo") /\ undo[p] # <<>>
  /\ StartJob(p, Intends("undo", IF file["f"] = NoFile THEN <<>> ELSE file["f"], undo[p][1]))

\* A caller of the registry that edits by other means.
Hold(p) == Ready(p, "hold") /\ StartJob(p, Intends("hold", NoFile, NoFile))

-----------------------------------------------------------------------------
(***************************************************************************)
(* _write_locked: acquire, run the operation, release.                     *)
(***************************************************************************)
AtStep(p, step) == job[p].step = step
ToStep(p, step) == job' = [job EXCEPT ![p].step = step]
EndJob(p)       == job' = [job EXCEPT ![p] = NoJob]

TakeLease(p) ==
  /\ AtStep(p, "ready") /\ Acquire(p)
  /\ ToStep(p, "locking")
  /\ UNCHANGED <<workload, fileVars, undo, snaps, patchVars, toolCalls>>

\* FileLockTimeoutError, or the failure to write the record, ends the call.
Locking(p) ==
  /\ AtStep(p, "locking")
  /\ \/ TryCreate(p) \/ WriteRecord(p) \/ WriteFails(p)
     \/ ReadOwn(p) \/ ReadExpired(p) \/ ReadBusy(p)
     \/ CheckUnchanged(p) \/ UnlinkExpired(p)
  /\ IF pc'[p] = "idle" THEN EndJob(p) ELSE UNCHANGED job
  /\ UNCHANGED <<workload, fileVars, undo, snaps, patchVars, toolCalls>>

InLease(p) == AtStep(p, "locking") /\ pc[p] = "held"

\* Mutant: the new content is committed, not the one it replaces.
Committed_New(p) == job[p].text

Committed(p) == job[p].base

\* GitSnapshotStore.snapshot, strict: git refuses a commit without a change, and
\* may fail otherwise; the edit is then not made.
Snapshot(p) ==
  /\ InLease(p) /\ job[p].op = "edit"
  /\ \/ /\ snaps # <<>> => snaps[Len(snaps)] # Committed(p)
        /\ snaps' = Append(snaps, Committed(p))
        /\ ToStep(p, "write")
     \/ UNCHANGED snaps /\ ToStep(p, "failed")
  /\ UNCHANGED <<lockVars, workload, fileVars, undo, patchVars, toolCalls>>

\* An agent writes a file that a patch may have read.
WriteTo(x, content) ==
  /\ file' = [file EXCEPT ![x] = content]
  /\ foreign' = IF x \in DOMAIN originals THEN foreign \cup {x} ELSE foreign

\* workspace.write_text or delete_file.
Write(p) ==
  /\ AtStep(p, "write") \/ (InLease(p) /\ job[p].op \in {"create", "undo"})
  /\ IF job[p].text = NoFile /\ file["f"] = NoFile
     THEN ToStep(p, "failed") /\ UNCHANGED fileVars
     ELSE ToStep(p, "written") /\ WriteTo("f", job[p].text)
  /\ UNCHANGED <<lockVars, workload, undo, snaps, patchVars, toolCalls>>

\* The write fails: OSError.
WriteError(p) ==
  /\ AtStep(p, "write") \/ (InLease(p) /\ job[p].op \in {"create", "undo"})
  /\ ToStep(p, "failed")
  /\ \E left \in CutShort(file["f"], job[p].text) :
       IF left = file["f"] THEN UNCHANGED fileVars ELSE WriteTo("f", left)
  /\ UNCHANGED <<lockVars, workload, undo, snaps, patchVars, toolCalls>>

\* _undo[path] = content, and pop for the undo of a create.
Remember(p) ==
  undo' = [undo EXCEPT ![p] =
    IF job[p].op = "undo" /\ job[p].text = NoFile THEN <<>> ELSE <<job[p].base>>]

\* A lease that was lost raises FileLockOwnershipError: the file is written, but
\* there is nothing to undo it with.
ReleaseLease(p) ==
  /\ AtStep(p, "written") \/ AtStep(p, "failed") \/ (InLease(p) /\ job[p].op = "hold")
  /\ Release(p)
  /\ IF pc'[p] = "idle" THEN EndJob(p) ELSE UNCHANGED job
  /\ UNCHANGED <<workload, fileVars, undo, snaps, patchVars, toolCalls>>

Released(p) ==
  /\ UnlinkOwn(p)
  /\ IF AtStep(p, "written") THEN Remember(p) ELSE UNCHANGED undo
  /\ EndJob(p)
  /\ UNCHANGED <<workload, fileVars, snaps, patchVars, toolCalls>>

\* renew() by a caller that holds the lease for longer.
RenewLease(p) ==
  /\ InLease(p) /\ job[p].op = "hold"
  /\ Renew(p)
  /\ IF pc'[p] = "idle" THEN EndJob(p) ELSE UNCHANGED job
  /\ UNCHANGED <<workload, fileVars, undo, snaps, patchVars, toolCalls>>

Renewed(p) == ReplaceRecord(p) /\ UNCHANGED editVars

\* owner_of() by an agent between its calls.
LookUpOwner(p) ==
  /\ p \in workload.agents /\ job[p] = NoJob
  /\ OwnerOf(p) \/ (goal[p] = "owner_of" /\ (CheckUnchanged(p) \/ UnlinkExpired(p)))
  /\ UNCHANGED editVars

\* FileHistoryTool restore: a snapshot is written back, without a lease, or the
\* write fails.
Restore ==
  /\ "restore" \in workload.ops /\ Called
  /\ \E k \in DOMAIN snaps : \E left \in CutShort(file["f"], snaps[k]) : WriteTo("f", left)
  /\ UNCHANGED <<lockVars, workload, job, undo, snaps, patchVars>>

\* The process dies: the tools and what they remember are gone, the files stay.
Die(r) ==
  /\ Crash(r)
  /\ job' = [p \in Procs |-> IF RegistryOf[p] = r THEN NoJob ELSE job[p]]
  /\ undo' = [p \in Procs |-> IF RegistryOf[p] = r THEN <<>> ELSE undo[p]]
  /\ UNCHANGED <<workload, fileVars, snaps, patchVars, toolCalls>>

-----------------------------------------------------------------------------
(***************************************************************************)
(* ApplyPatchTool.execute: every file patch is tried on a copy, then the   *)
(* files are written one by one; a failure writes the originals back.      *)
(***************************************************************************)
StartPatch ==
  /\ pstep = "idle" /\ "patch" \in workload.ops /\ Called
  /\ patch' \in Patches
  /\ pstep' = "dry" /\ dry' = 0
  /\ UNCHANGED <<lockVars, workload, fileVars, job, undo, snaps, originals, target, written, torn>>

\* dict[key] = value
Put(dict, key, value) ==
  [x \in DOMAIN dict \cup {key} |-> IF x = key THEN value ELSE dict[x]]

\* The next file patch: the file is read unless an earlier one was for it too.
DryRun ==
  /\ pstep = "dry" /\ dry < Len(patch)
  /\ LET x       == patch[dry + 1].path
         content == IF x \in DOMAIN target THEN target[x] ELSE file[x]
         result  == ApplyFilePatch(content, patch[dry + 1].hunks)
     IN  IF content = NoFile \/ ~result.ok
         THEN pstep' = "aborted" /\ UNCHANGED <<dry, originals, target>>
         ELSE /\ originals' = IF x \in DOMAIN target THEN originals ELSE Put(originals, x, content)
              /\ target' = Put(target, x, result.lines)
              /\ dry' = dry + 1
              /\ pstep' = IF dry' = Len(patch) THEN "write" ELSE "dry"
  /\ UNCHANGED <<lockVars, workload, fileVars, job, undo, snaps, patch, written, torn, toolCalls>>

\* The paths still to be written.
Pending == DOMAIN target \ Range(written)

\* They are written in the order they were first patched in.
IsNext(x) ==
  \E k \in DOMAIN patch :
    x = patch[k].path /\ x \in Pending /\ \A j \in 1..(k - 1) : patch[j].path \notin Pending

WriteNext ==
  /\ pstep = "write"
  /\ \E x \in Files :
       /\ IsNext(x)
       /\ file' = [file EXCEPT ![x] = target[x]]
       /\ written' = Append(written, x)
       /\ pstep' = IF Pending = {x} THEN "applied" ELSE "write"
  /\ UNCHANGED <<lockVars, workload, foreign, job, undo, snaps, patch, dry, originals, target, torn,
                 toolCalls>>

\* Mutant: the last file written is not rolled back.
ToUndo_ButLast == SubSeq(written, 1, Len(written) - 1)

\* The files to roll back: the one whose write failed is not among them.
ToUndo == written

WriteNextFails ==
  /\ pstep = "write"
  /\ \E x \in Files :
       /\ IsNext(x)
       /\ \E left \in CutShort(file[x], target[x]) : file' = [file EXCEPT ![x] = left]
       /\ torn' = {x}
  /\ written' = ToUndo
  /\ pstep' = IF ToUndo = <<>> THEN "failed" ELSE "rollback"
  /\ UNCHANGED <<lockVars, workload, foreign, job, undo, snaps, patch, dry, originals, target, toolCalls>>

\* The last file written that is not undone gets its original back, or this fails
\* too; the others are tried all the same.
RollbackNext ==
  /\ pstep = "rollback"
  /\ LET x == written[Len(written)]
     IN  \/ file' = [file EXCEPT ![x] = originals[x]] /\ UNCHANGED torn
         \/ \E left \in CutShort(file[x], originals[x]) :
              file' = [file EXCEPT ![x] = left] /\ torn' = torn \cup {x}
  /\ written' = SubSeq(written, 1, Len(written) - 1)
  /\ pstep' = IF Len(written) = 1 THEN "failed" ELSE "rollback"
  /\ UNCHANGED <<lockVars, workload, foreign, job, undo, snaps, patch, dry, originals, target, toolCalls>>

PatchReturns ==
  /\ pstep \in {"aborted", "applied", "failed"}
  /\ pstep' = "idle" /\ patch' = <<>> /\ dry' = 0
  /\ originals' = <<>> /\ target' = <<>> /\ written' = <<>>
  /\ foreign' = {} /\ torn' = {}
  /\ UNCHANGED <<lockVars, workload, file, job, undo, snaps, toolCalls>>

-----------------------------------------------------------------------------
Call(p) == Create(p) \/ Edit(p) \/ UndoEdit(p) \/ Hold(p)

\* What a call does once it has begun.
Continue(p) ==
  \/ TakeLease(p) \/ Locking(p) \/ Snapshot(p) \/ Write(p) \/ WriteError(p)
  \/ ReleaseLease(p) \/ Released(p) \/ Renewed(p)

Patching ==
  DryRun \/ WriteNext \/ WriteNextFails \/ RollbackNext \/ PatchReturns

EditNext ==
  \/ Tick /\ UNCHANGED editVars
  \/ \E p \in Procs :
       \/ Call(p) \/ Continue(p) \/ RenewLease(p) \/ LookUpOwner(p) \/ Die(p)
       \/ Restart(p) /\ UNCHANGED editVars
  \/ Restore \/ StartPatch \/ Patching

\* Agents are scheduled, a call of the file system returns, and time passes.
EditSpec ==
  /\ EditInit /\ [][EditNext]_<<lockVars, editVars>>
  /\ WF_<<lockVars, editVars>>(Tick /\ UNCHANGED editVars)
  /\ \A p \in Procs : WF_<<lockVars, editVars>>(Continue(p) \/ LookUpOwner(p))

-----------------------------------------------------------------------------
(***************************************************************************)
(* What an edit writes over can be had back from the snapshot repository,  *)
(* unless another agent wrote the file between the edit's read and its     *)
(* write: also when the write fails half-way, the call then dies, its      *)
(* lease is lost or the release fails (tool.py:560, "Persist the pre-edit  *)
(* content immediately before the coordinated write").                     *)
(***************************************************************************)
PreImageKept ==
  [][\A p \in Procs :
       /\ job[p].op = "edit" /\ AtStep(p, "write") /\ job'[p].step \in {"written", "failed"}
       /\ file'["f"] # file["f"] /\ file["f"] = job[p].base
       => file["f"] \in Range(snaps')]_<<lockVars, editVars>>

\* The hunks put in place from the last to the first, so that none moves another.
Intended(content, hunks) ==
  LET with[k \in 1..(Len(hunks) + 1)] ==
        IF k = Len(hunks) + 1 THEN content
        ELSE LET h == hunks[k]
             IN  Replaced(with[k + 1], IF h.old = <<>> THEN h.start + 1 ELSE h.start, Len(h.old), h.new)
  IN  with[1]

\* Every hunk is where it says, after the one before it.
Exact(content, hunks) ==
  \A k \in DOMAIN hunks :
    /\ hunks[k].old # <<>> /\ hunks[k].start >= 1 /\ MatchesAt(content, hunks[k].start, hunks[k])
    /\ k > 1 => hunks[k].start >= hunks[k - 1].start + Len(hunks[k - 1].old)

HunksFor(x) ==
  LET of[k \in 0..Len(patch)] ==
        IF k = 0 THEN <<>>
        ELSE of[k - 1] \o (IF patch[k].path = x THEN patch[k].hunks ELSE <<>>)
  IN  of[Len(patch)]

\* An applied patch put every hunk that fits the file where it says, whatever
\* earlier hunks added or removed.
PatchedAsIntended ==
  pstep = "applied" =>
    \A x \in DOMAIN originals \ foreign :
      Exact(originals[x], HunksFor(x)) => file[x] = Intended(originals[x], HunksFor(x))

\* One that was refused or failed, at any of its writes, left every file as it
\* was, but for those where a write itself failed.
FailedPatchUndone ==
  pstep \in {"aborted", "failed"} =>
    \A x \in DOMAIN originals \ (foreign \cup torn) : file[x] = originals[x]

(***************************************************************************)
(* "Dry-run patch, then apply it or leave the workspace unchanged"         *)
(* (patch.py:113), as far as the code does: a file whose own write fails   *)
(* may be cut short (manager.py:154) and is not among the files rolled     *)
(* back (patch.py:148-157); every other one is as it was, also when the    *)
(* rollback of some file fails.  Files that an agent wrote since the patch *)
(* read them are left out.                                                 *)
(***************************************************************************)
PatchAllOrNothing == PatchedAsIntended /\ FailedPatchUndone
=============================================================================
