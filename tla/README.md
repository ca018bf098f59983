# Verification of xbkeeper

xbkeeper is a single-purpose command around Percona XtraBackup.  `xbkeeper
backup` takes a full backup into a *stage*, prepares it, hashes it, makes it
durable, promotes it by a rename and prunes older backups; `status` lists what
is there and `verify` audits the hashes.  This directory holds TLA+ models of
it, their model-checking runs (TLC) and machine-checked proofs (TLAPS).
`PROJECT.json` ties every definition to the lines it models and lists the runs,
mutants, theorems, findings and hazards.

## The system

| part | source (`src/internal/...`) | state it keeps | operations |
| --- | --- | --- | --- |
| backup workflow | `backup/workflow.go`, `keeper.go` | locals of `backup()`: `finished`, `preserveStage`, `err`, `s`, `kept` | one straight-line function with deferred cleanup |
| backup root | `backup/state.go`, `rootops.go`, `types.go` | directory names `inprogress-`, `backup-`, `.deleting-` + id, the trees behind them | mkdir, rename, rename without replacing, fsync, recursive sync and removal, scan |
| retention | end of `backup()` | the inventory read once, a counter | retry interrupted deletions, keep `Keep - 1`, delete the rest |
| locking | `backup/storage.go` | flock on `.lock` | exclusive for backup, shared for verify, both non-blocking |
| child containment | `backup/process.go` | pgid, TERM and KILL times | start, poll `/proc`, signal, wait at most 4 s after TERM |
| integrity manifest | `backup/integrity.go` | `SHA256SUMS` | walk, hash, write, parse, compare |
| verification | `backup/verify.go` | a report | audit one or all backups under the shared lock |
| inventory, status | `backup/state.go` | none | scan without a lock |
| command output | `backup/output.go` | ring on disk, line buffers, byte budget | concurrent writes of stdout and stderr |
| failure log | `saveFailure` in `workflow.go` | `.last-failure.log` | replace by rename |
| root initialisation | `rootops.go`, `config.go` | directories | create and sync each missing component |
| free space, configuration | `storage.go`, `config.go` | none | checks before anything is written |
| command line | `cli/cli.go`, `cmd/xbkeeper/main.go` | context | signals, result envelope, exit status |

The parts meet in three places: the *backup root*, shared by every invocation,
by xtrabackup and by anyone else with the same uid; the *flock*, which a dying
process gives back although its xtrabackup, in a process group of its own, may
live on; and the *context* that SIGINT and SIGTERM cancel and that most, but
not all, calls of `backup()` look at.

What is hard about it, and hardly reached by tests, is what happens *between*
those calls: a crash or a power loss at any of them, a name that is durable
later than its rename, a process group that outlives its run, a cancellation on
either side of the promotion, a clock that was set back, an inventory that is
old by the time it is used.  `PROJECT.json` lists these hazards at their lines.

What makes each part correct, in short: a completed name never stands for a
torn tree; two xtrabackups never write at once; a stage someone may still write
is never removed, and neither is one that has metadata; retention keeps the new
backup and the newest others, finishes what it reports, and leaves `Keep`
durable backups whatever happens; an audit sees a still root; a cancelled run
ends.  Around it: whoever has the lock meets the next one there; a root that was
walked to is durable and was checked; backups and data do not lie in each other;
a sum cannot wrap; a status reports no id twice and nothing that never was; an
audit that passes had every file right; a log is the tail of its stream, an
event a line of it, and the failure log the output of one run; an exit status of
0 means that all is told and well; a signal never reaches a reused process
group.

## Modules

| module | models |
| --- | --- |
| `BackupRoot` | names, trees, what is on stable storage; scan, order, rename, sync, unlink; power loss and foreign writers |
| `Workflow` | `backup()` run by run on that root, the flock, xtrabackup's process groups, verifiers; the properties |
| `Vault` | abstract: the set of backups that would survive a power loss now |
| `WorkflowInvariant` | the inductive invariant `IInv`, in named parts |
| `WorkflowProofs` | the theorems and their proofs |
| `MCWorkflow` | the small instances of `Workflow` |
| `PhaseContract` | abstract: what the workflow relies on when it runs a phase of xtrabackup |
| `Containment` | the loop of `runChildStreams` and `waitChild` beside the process group it watches; properties and inductive invariant |
| `ContainmentProofs` | its theorems and their proofs |
| `LogTail` | abstract: the last `maxLog` bytes of a stream |
| `CommandTail` | the ring file behind the command log, `Write` and `Bytes` |
| `MCCommandTail` | its small instance |
| `ReadWriteLock` | abstract: a lock that one run has alone or audits share |
| `LockFile` | `lock()` and `sharedLock()` call by call on `.lock` |
| `PathPolicy` | `backup_dir` against `datadir`, in a file system with links |
| `RootWalk` | `openBackupRoot`, component by component |
| `RootWalkProofs` | its theorems and their proofs |
| `FreeSpace` | the sum of `freeSpace` in a word |
| `CommandLine` | an invocation from its arguments to its exit status |
| `MCStart` | `LockFile`, `PathPolicy`, `RootWalk` twice, `FreeSpace` and `CommandLine` side by side |
| `StartProofs` | the theorems about these and their proofs |
| `StatusScan` | `inspectContext` without the lock, name by name beside `Workflow` |
| `StatusScanProofs` | its theorems and their proofs |
| `HashFile` | `hashFile` beside another writer |
| `Audit` | the manifest and `verifyOne` beside another writer |
| `MCAudit` | `HashFile` and `Audit` side by side |
| `AuditProofs` | the theorems about these and their proofs |
| `PhaseOutput` | the line buffers and the budget of `--verbose`, and their copiers |
| `SequenceFold` | a fold whose step is a function |
| `FailureLog` | the command logs and `.last-failure.log` |
| `MCOutput` | `PhaseOutput`, `FailureLog` and `CommandTail` side by side |
| `OutputProofs` | the theorems about these and their proofs |
| `Induction` | lemmas: induction on sets of numbers and of sequences, folds |

### BackupRoot

An id is the UTC stamp and random token of a run; it owns one name per prefix
and its tree has one of them at a time, so `at[i]` is a name's prefix and a
rename is one assignment.  `onDisk[i]` is the name after a power loss:
`SyncRoot` (fsync of the root) sets all of them, `Writeback` any one of them at
any time and in any order.  The content of a tree is how far the workflow has
brought it (raw, prepared, described, sealed, partial); `synced` holds the ids
whose whole tree has been through `syncTree`.  `LosePower` returns to the names
on disk and tears any tree that is not synced.  A removal is two steps,
something unlinked and the rest unlinked, so that it can stop in between.

Two things are the work of other writers: `Taint` plants an entry `safeTree`
and `listFiles` refuse, `Squat` takes a `.deleting-` name with a private
directory.  `RootInit` starts from every mix of complete backups, interrupted
deletions and quarantined stages that earlier invocations leave.  Ids are
integers in the order of their *names*, and runs do not start in that order:
the stamp in a name is only as good as the clock, and the token is random.

`Newer` is the sort of `inspectContext`: `prepared_at`, then name.
`InventoryValid` is its fail-fast: one invalid backup or unsafe stage fails the
whole scan, what is pending deletion is not looked at.

### Workflow

`pc[r]` is the call run `r` makes next; each action is one call of `backup()`
with the checks that follow it, and each early return is an action of its own.

| actions | code |
| --- | --- |
| `OpenBackupRoot` `Lock` `Inspect` `Preflight` `NoCommandLog` `FailsEarly` | `workflow.go:95-155` |
| `StartChild` `PhaseEnds` `PhaseFails` `PhaseUncertain` | `execPhase`, `workflow.go:156-194`, over the contract of `runChildStreams` |
| `Validate` `Describe` `Hash` `Check` `SyncStage` `Promote` `FailsWithStage` `SyncParent` `SyncParentFails` | `workflow.go:195-249` |
| `SkipRetention` `Scan` `RetryDeletion` `PendingDone` | `workflow.go:250-286` |
| `SkipNew` `KeepOld` `PruneOld` `NameTaken` `RenameOld` `SyncRenamed` `RemoveSome` `RemoveRest` `SyncRemoved` `Retained` `FailsInRetention` | `workflow.go:258-337`; the removal steps also serve the retry loop |
| `DropSome` `DropRest` `LeaveStage` `Unlock` | the deferred functions, `workflow.go:99-104`, `130-134`, `255-257` |

A guard `r \notin cancelled` stands where the code looks at the context, and
nowhere else.  `kept[r]` is the set of old backups the counter `kept` has
counted.  `failed` is the error a run is about to return, `event` what the
deferred closure of retention has logged; the two are apart because the closure
reads `err`.

The process group of a phase is `child[r]`.  `runChildStreams` returns nil or
an error only once it has seen the group gone, so `PhaseEnds` and `PhaseFails`
need it gone; `PhaseUncertain` needs nothing and quarantines the stage.
`ChildWrites` may rewrite the stage as long as the group lives, with or without
its run.  `Cancel`, `Crash` (SIGKILL of the run, its flock is free at once, its
group lives on) and `PowerLoss` may come between any two steps; `Resolve` is
the operator who removes a stage nobody uses any more, as `docs/operations.md`
asks for.

### Vault

`Workflow` implements `Vault` under the mapping `Surviving`: the ids that have
a completed name *on disk* and a sealed, synced tree.  Backups join that set as
they may; in a step in which one leaves it, at least `Keep` remain.

### Containment

`Containment` opens up the one step that a phase is in `Workflow`.  `proc` is
the state of the leader and of the helpers it may fork, directly or not;
`held` says that a process which left the group keeps the output pipe.  `pc` is
where a pass of the loop is.

| actions | code |
| --- | --- |
| `Start` `NeverStarts` | `process.go:127-143` |
| `PollLeader` | `leaderActive`, and what the loop makes of its error, `145-150` |
| `Signal` `NoSignal` with `Terminate` | SIGTERM, SIGKILL, whether to scan: `151-160` |
| `ListProc` `ReadEntry` `ScanEnds` `ScanFails` | `groupActive`: the listing, then one entry after the other, `84-109`; its error, `183-187` |
| `NextTick` `GiveUp` | `188-198` |
| `Reap` `Waited` `StopWaiting` | `waitChild`, `111-121`, and the outcome, `162-182`, `191-194` |

A dead leader is a zombie until it is reaped, so its `/proc` entry is there as
long as the loop polls it, and the code's branch for `os.ErrNotExist` on the
leader is not taken.  Reading `/proc` may fail at the poll, the listing or any
entry: a read of an entry whose process is reaped meanwhile can end in `ESRCH`,
which is not `os.ErrNotExist`, so a good run may fail that way; it fails safe.
A process is dead in the model once it is `Z` or `X` for `liveStat`.
`PipeOpen` is whether `cmd.Wait` meets a pipe still open after `WaitDelay`: it
does if a detached helper has it, it may if a member has.  Time exists only
since SIGTERM (`elapsed`, seconds, up to the four at which nothing changes any
more); a pass may take as long as it likes.

`Containment` implements `PhaseContract`: an outcome other than "uncertain" is
given only when the group is gone or was never started.  This is what
`PhaseEnds`, `PhaseFails` and `PhaseUncertain` of `Workflow` take as their
guards.  It holds if nobody forks while `/proc` is scanned
(`ForkDuringScan = FALSE`), and not otherwise: see the findings.

### CommandTail

`disk`, `pos` and `size` are the fields of `commandTail` (`output.go:16-76`).
`Write` and `Bytes` hold its mutex, so a write of stdout or stderr is one step,
and only the outcomes differ: a piece as long as the ring (`WriteOversized`),
one turn of the loop (`WriteInPlace`), two (`WriteWrapped`; a shorter piece
never needs three), or an error after part of the first or second `WriteAt`
(`FailsInFirst`, `FailsInSecond`), which leaves those bytes in the file and the
fields where the turn before left them.  `piece` and `failed` record the
last call and what it returned, so that the refinement is about that very piece,
and a write that loses bytes and returns no error is not taken for one that
failed.

It implements `LogTail` under `log <- Bytes`: a write appends and keeps the last
`maxLog` bytes.  After an error the log is what it was if the piece had room,
and may be spoilt otherwise, since in a full ring every byte overwrites one that
is still read; it never gets shorter.  `saveFailure` then saves such a mixture,
which only a failing disk can bring about.

### LockFile and ReadWriteLock

`entry` is the inode named `.lock`, `safe` the inodes that pass `checkLock`,
`fd[p]` what an invocation has open; an inode without name and descriptor may be
given to a new file.  `Create`/`Open`, `CheckLock`, `Flock` and `LockIdentity`
are the calls of `storage.go:23-82` in their order, `Close` is every error
return, the release and the death of a process.  Another writer may `Remove`,
`Replace` and `Spoil` the file; whether also while somebody holds the lock is
`ReplaceWhileHeld`.  With that, nothing can help: the holder has checked the
name once.

Without it, `LockFile` implements `ReadWriteLock`.  `Lock` and `AuditLock` of
`Workflow` have the guards of its `Acquire`, with `lockHolder` and `readers` for
the holders, so that `Workflow` takes the lock in one step.

### PathPolicy, RootWalk and FreeSpace

`PathPolicy` is the policy that backups and data must not lie in each other.
`fs` says what each name in each directory is: a directory, a link or nothing,
and `Walk` follows a path as the kernel does.  `LoadConfig` compares two names
and looks at one of them, `OpenBackupRoot` and `Mkdir` make what is missing, and
`ValidateRuntime` looks at the other last (`config.go:98-181`,
`rootops.go:23-40`, `config.go:195-197`).  Until the root is opened anybody may
rearrange directories and links (`Change`).

`RootWalk` is the loop of `openBackupRoot` (`rootops.go:23-111`), one action per
call: `Lookup`, `Mkdir`, `LookAgain`, `Check`, `Open`, `Compare`, `SyncParent`.
One directory leads to one component, so `entries[d]` is the inode below
directory `d`, and `onDisk[d]` that after a power loss.  Runs walk at the same
time, because the lock lies at the end of the path; `Swap` replaces a component,
`Fails` stands for failing calls and killed runs.

`FreeSpace` adds up `Fits` file by file in words of `Modulus` values
(`storage.go:83-118`).  `total` is the same sum without a width, and only the
properties look at it.

### CommandLine

`Cli.Run`, `presentResult` and `main` (`cli.go`, `main.go`), and the loop of
`Verify` over its backups.  An operation ends in one of three ways; `verify`
also with a part of its results when it is cancelled.  `Write` is one write of
the result: the JSON value, or the header and then the details, any of which may
fail (`WriteFails`) or find the reader gone (`BrokenPipe`, which the Go runtime
turns into death by signal on stdout).  `Exit` is what `main` makes of the
error.

### StatusScan

`status` takes no lock, so its scan is a process of its own beside `Workflow`.
`Begin` and `Listed` are `ReadDir`, which takes time: a name that is there
throughout (`stable`) is listed, one that never is (`ever`) is not.
`ValidateBackup`, `ReadPreparedAt` and `VisitStage` look at one name after the
other in the order of `ReadDir` (`state.go:144-212`); the metadata is read a
second time, by pathname.  `Return` is also every failure: one name that is gone
fails the whole scan.  `lasting` and `once` are histories for the properties.

### HashFile and Audit

`HashFile` is `hashFile` with `checkedFile` and `sameSnapshot`
(`integrity.go:49-112`): one action for each look at the file, and one for each
block.  Times are ticks of the kernel.  Another writer may write, set the times
or replace the file.  A writer within the tick of the check leaves no trace,
which no snapshot can help (`racy`); the property says what holds without that.

`Audit` is what is around that.  The tree is a content for each file, the
manifest a content for each of its lines.

| actions | code |
| --- | --- |
| `GenerateManifest` `Validate` | the seal, `workflow.go:211-226`, `integrity.go:299-324` |
| `SealRefused` `SealFails` | its refusals, apart from calls that fail or are cancelled; either way the stage is kept |
| `OpenBackup` `ReadMetadata` `CheckStructure` `FindReason` | `verify.go:100-154`; `validBackupRoot` |
| `ReadManifest` `List` | what `structuralManifest` has parsed and listed once is parsed and listed again, `155-172` |
| `HashStart` `HashEnd` | `hashFile`, up to its first snapshot and from its last one on; `173-193` |
| `Finish` | the second look at the directory, `194-204` |
| `CallFails` `Return` | any failing call, which makes a backup invalid; a cancelled audit |
| `Overwrite` `Add` `Remove` `Spoil` `ChangeDirs` `Forge` `TimePasses` | another writer, and the clock |

What a tree may fail by is what the code looks at: the number of entries
(`integrity.go:141`), files that are links or not private (`39-47`), names that
are not supported or lie too deep (`Refused`; `122`, `160`), the number of lines
(`281`) and bytes of a manifest, where it is parsed and where it is made (`233`,
`245`, `268`, `316`; `Length` is that of a line), metadata that are garbled, of
format 1 or without a version or times (`state.go:121-135`), and checkpoints that
are missing or not full-prepared (`54-76`).  `Truth` says independently of the order
of these checks which verdict the documentation promises for a tree, and `Sealable`
what it says can be sealed.

`verify` compares snapshots, of each file before and after it is hashed and of
the top directory before and after all of it.  `stale` says which of them differ
now.  A change shows in a snapshot unless it is made in a tick in which what it
changes was changed before (`fresh`); then it may show or not, as with the size.
What comes, goes, or changes its mode always shows.  What was looked at and then
changed within one tick is in `blurred`, and `OkUnderWrites` excepts it; with
`HashFile` it is the same exception as `racy`.  In the looks between `HashStart`
and `HashEnd`, which `HashFile` has one by one, only what was written to in between
matters (`torn`): then the digest may be any.

### PhaseOutput and FailureLog

`PhaseOutput` has two goroutines per phase that copy stdout and stderr
(`ReadPiece`, `WritePart`, `StreamEnds`) and the run that flushes their buffers
and reads the version when the phase has returned.  `WritePart` is one turn of
the loop of `lineOutput.Write`, `Flush` the event with the budget
(`output.go:92-134`).  Bytes are newlines or not.

`FailureLog` has one file `.command-` per run, the copy `.failure-` that
`saveFailure` writes, and `.last-failure.log` (`workflow.go:137-149`,
`339-374`).  Any call may fail, the removals among them, whose errors the code
passes over (`Discard`, `RemoveCommandLog`) and the looks that decide on one
(`CheckCommandLog`); what was to go and did not is in `stuck`.  The run may be
killed at any call, and another writer may take away or replace the log and the
command files (`Plant`, `PlantCommand`).

## Runs

| run | instance | what it shows |
| --- | --- | --- |
| `wf_retention` | 1 run, 3 earlier ids, `Keep = 2`, 2 clock readings, 746k states | retention against every initial mix: `RetentionDone`, `NewestKept`, `JustCompletedKept`, `OneTreePerName`, the refinement `VaultSpec`, and that `IInv` holds |
| `wf_handover` | 2 runs, 1 earlier id, 1 verifier, `Keep = 1`, 585k states | what one run leaves to the next, and runs beside audits: `NoTornBackup`, `SingleWriter`, `ChildConfined`, `AuditStable`, `HashedStageKept` |
| `wf_cancel` | 1 run, 2 earlier ids, under `FairSpec` | `CancelEnds`: a cancelled run ends |
| `wf_event` | 1 run, 2 earlier ids | finding 1 below, a violation of `RetentionEventHonest` |
| `ct_scan` | a leader and 2 helpers, no fork during a scan, under `FairSpec`, 11k states | `CInv`, `GoneWhenReturned`, `OkIsFinal`, `SignalsReachTheGroup`, the refinement `ContractSpec`, and `Ends`: what has to stop comes to an outcome |
| `ct_fork` | the same, with forks during a scan | finding 2, a violation of `GoneWhenReturned` |
| `ct_stall` | the same, without | finding 3, a violation of `KilledBeforeGivingUp` |
| `start` | six parts, 1.0M states: 2 backups and an audit on 3 inodes; 5 directories, paths of 2 names, 1 link; 2 first runs beside a writer and 3 without, on a root 2 below `/`; words of 4 bits; any command line with 3 backups | what is around a workflow: `LockInv`, the refinement `LockSpec`, `PathsApart`, `WalkInv`, `WalkedIsDurable`, `NobodyIsRefused`, `VerdictTrue`, `ZeroMeansAll`, `EverythingTold` |
| `status` | 1 run, 2 earlier ids of which one may turn invalid, `Keep = 1`, 2 clock readings, 1.4M states | a status beside a run: `ScanInv`, `OneNamePerId`, `LastSuccessCurrent` |
| `audit` | 2 files of up to 2 blocks in 2 ticks; stages of 2 to 5 files, one of them in a subdirectory and one with a refused name, with 1 or 2 subdirectories, a limit of 4 entries and of 4 bytes, 2 changes, 2.0M states | `DigestOfOneInstant`; `QuietAuditIsTrue`, `OkUnderWrites`, `SealsWithinLimit` |
| `output` | a ring of 4 bytes and pieces of 0 to 5; 2 phases, streams of 4 bytes, lines of 2, a budget for two events; 3 runs that save their output, 1.9M states | the refinement `TailSpec`; `LinesLogged`, `BudgetHeld`; `WholeLog`, `OutputRemoved` |
| `output_race` | the phases of `output` | finding 4, a violation of `BuffersLeftToCopiers` |

`start`, `audit` and `output` each check several models that share no state.
They run one at a time, chosen in the initial state (`part`): side by side they
would only multiply.  Where one follows another in the code, it starts from
whatever the one before may leave, so nothing is lost by that.  `MCStart`,
`MCAudit` and `MCOutput` are parameterised like any other module, and the theorems
are about them; only the `.cfg` files are small.

Bounds.  Three earlier ids with `Keep = 2` are the fewest for which retention
keeps an old backup, deletes two, and meets an interrupted deletion besides;
two clock readings give ties, which the name decides, and rollback.  Two runs
are enough for one to inherit what another left, and the second run starts
where any number of earlier ones may have stopped, because `RootInit` starts
from what they leave.  `Keep = 1` is the edge at which no old backup is kept.
No counter has a bound: runs happen once each, a tree is torn once.  Two
helpers let one fork another and leave, be read before or after it, and detach,
while the leader is dead already.  `elapsed` stops at `GiveUpAfter`, past which
no comparison of the code changes.  A ring of four bytes wraps at every offset,
and pieces of up to five are shorter than, as long as and longer than it.

Three inodes let each of two invocations have a `.lock` open that is not the one
with the name.  Two components and one link are the fewest with which a name can
lead into another directory by a detour, and four directories besides `/` are
one more than two such paths need.  A root two below `/` has a parent that may
itself be missing, and four inodes let a component be replaced twice.  Words of
four bits wrap with two files.  For `status`, a run with one backup to prune and
one to keep goes through every rename while the scan looks at each name.  Two
blocks and two ticks are enough to read one before a change and the other after
it.  Five files and two directories pass the limit of four entries by one, by two
and more, and one file has a line so long that it passes the limit of bytes with any
two others.  Two changes are one that does damage and one that hides it.  A
budget of eleven is used up by one long or several short events, with a remainder
that holds an event with less than its line.  The theorems below hold without
any of these bounds.

Every property has a mutant in `PROJECT.json`, a plausible bug at the place the
property is about, under which its run finds the violation: a sync left out, a
guard dropped, a counter off by one, a sort reversed, the shared lock ignored.

Deadlock is checked in the `wf_` runs and `status`: the world around the runs
(audits, write-back, power loss) always has a step.  In the others it is not:
the call returns, the audit or the phases are over, the stage is kept, and
nothing is left to do.

### Fairness

`FairSpec` adds weak fairness of `Prompt(r)`, one step of run `r`.  Every call
of `backup()` returns (the flock is non-blocking, `waitChild` is bounded), so a
run between two calls goes on.  The exception is a live xtrabackup that nobody
has cancelled, which may take for ever, and `Prompt` excludes it; once the
context is cancelled the loop of `runChildStreams` ends within four seconds,
gone or uncertain (`process.go:188-194`).  That last claim is `Ends`, checked by
`ct_scan`, whose `FairSpec` assumes that the loop goes on, which its ticker and
bounded waits justify, and that time does.  Nothing is assumed of xtrabackup,
of other writers, or of power.

## Findings

1. `wf_event`: in retention, the collision of the `.deleting-` name is returned
   without being assigned to `err` (`workflow.go:309`, `311`), and the deferred
   closure (`255-257`) logs `ok=true` for a phase that failed.  The exit status
   and the result on stdout are right; the structured event of `docs/cli.md:75`
   is not.
2. `ct_fork`: `groupActive` lists `/proc` once and reads the entries afterwards.
   A helper that is forked after the listing, by one that exits before its own
   entry is read, is not seen; the scan finds nobody and the run returns a
   definite outcome while that helper is alive in the group.  `process.go:145`
   means the scan to catch exactly such descendants.  The window is small.
3. `ct_stall`: SIGKILL is due two seconds after SIGTERM, but only at the check
   in line 156; giving up is due four seconds after, at line 188.  A pass that
   lasts from before the one to after the other gives up without SIGKILL, which
   `docs/operations.md:72` says the group receives.  The outcome is
   "uncertain" and the stage stays quarantined, so nothing else relies on it.
4. `output_race`: `version.String()` is called whatever the version phase
   returned (`workflow.go:174`).  After an uncertain end the copier of `os/exec`
   may still write to that buffer.  The comment at `workflow.go:161-162` rules
   this out for the line buffers, for which it is kept.  The value is not used
   on that path, so the effect is a data race and nothing else.

Noticed while modelling, without a run of its own:

- `listFiles` admits one entry more than `maxEntries` (`integrity.go:141`),
  which `docs/integrity.md:31` means for `SHA256SUMS`, and `SealsWithinLimit`
  depends on it.  A stage does not have that file yet when its manifest is made,
  so one with exactly one entry too many is hashed as a whole first and refused
  afterwards, when its manifest is validated.
- The removal of `.failure-<token>` and `.command-<id>` is tried once and its error
  ignored (`workflow.go:147`, `366`, `370`), and no later run looks for them.  What a
  failed removal leaves, or a killed run, stays until an operator removes it;
  `OutputRemoved` says that nothing else does.
- A file that comes to the top directory of a backup in the tick in which the audit
  opened it may go unseen: the snapshots of `verify.go:105` and `194` are the same.
  `docs/integrity.md` means ordinary changes only, and wants backups left alone.
- `saveFailure` looks at `.last-failure.log` before it writes its copy and
  renames it later (`workflow.go:344-369`).  What another writer has put there
  in between is replaced without having been looked at.
- A reader of stdout that goes away kills the process with SIGPIPE, with no
  exit status of 1 and nothing on stderr, which `docs/cli.md:59-60` promises
  for a result that cannot be written.  `EverythingTold` holds for invocations
  that end by themselves.

## Proofs

`WorkflowProofs` proves, for every finite set of ids, any verifiers, any set of
clock readings and every `Keep >= 1`:

| theorem | property |
| --- | --- |
| `Invariant` | `IInv` |
| `TypeCorrect` | `TypeOK` |
| `BackupsWhole` | `NoTornBackup` |
| `OneWriter` | `SingleWriter` |
| `StageOfLiveChild` | `ChildConfined` |
| `NewBackupStays` | `JustCompletedKept` |
| `NoClobber` | `OneTreePerName` |
| `PrunesOldest` | `NewestKept` |
| `SuccessMeansDone` | `RetentionDone` |
| `AuditUndisturbed` | `AuditStable` |
| `HashedStageStays` | `HashedStageKept` |
| `ImplementsVault` | `VaultSpec` |

Assumptions: the ids are finitely many integers and runs have ids of their own
(`IdsAssumption`: the token is random and mkdir and rename refuse a second use),
the clock reads integers (`ClockAssumption`), and `Keep >= 1` (`config.go:170`).

The argument.  `NoTornBackup` alone is not inductive: that a promoted tree is
synced depends on where the run is (`ContentInv`), that a tree being unlinked
has no completed name on disk depends on the names that are durable during
retention (`DurableInv`, `LagInv`) and on which tree is the victim
(`VictimInv`).  `SingleWriter` rests on every live group having a stage
(`ChildInv`), on there being no other stage once a run has passed the
inspection (`StageInv`) and on the flock (`LockInv`); the stage itself is what
carries the exclusion over a crash that frees the flock.  `RetentionDone` and
`NewestKept` rest on `LoopInv`: what is completed is the new backup, those kept
and those still to visit, and every kept one is newer than every one to visit;
`PendingInv` says the same of interrupted deletions, and `DoneInv` carries both
to the end.  `ImplementsVault` rests on `CoverInv`, which says that a deletion
that is not durable yet, perhaps of a run that died, is covered by `Keep`
backups that are.  One lemma per part shows that each group of actions
preserves it.

`ContainmentProofs` proves, for any set of helpers:

| theorem | property | assumes |
| --- | --- | --- |
| `ScanMissesNobody` | `CInv` | no fork during a scan |
| `OutcomeAfterGroup` | `GoneWhenReturned` | no fork during a scan |
| `SuccessIsFinal` | `OkIsFinal` | no fork during a scan |
| `ImplementsContract` | `ContractSpec` | no fork during a scan |
| `NoStraySignal` | `SignalsReachTheGroup` | |

The argument is `ScanInv`: while `/proc` is scanned, every live member is among
those still to be read, because the listing had it and dying is all that can
happen to it; so a scan that ends has found the group gone, and a group that is
gone has nobody to fork.  `StopInv` carries `OkIsFinal`: a signal is sent only
for a reason that is remembered to the end.  It also says that the leader is
reaped only after the loop, which alone gives `NoStraySignal`.

`OutputProofs` proves, for every set of bytes, every `maxLog >= 1` and every set of
pieces; for any number of phases and any limits of pieces, streams, lines and the
budget; for any runs:

| theorem | property |
| --- | --- |
| `RingStays` | `RingInv` |
| `ImplementsTail` | `TailSpec` |
| `LinesAreLogged` | `LinesLogged` |
| `BudgetIsHeld` | `BudgetHeld` |
| `FailureLogWhole` | `WholeLog` |
| `NoOutputLeft` | `OutputRemoved` |

The ring.  `Around` says of one turn of the loop, or two, that the bytes of the
piece go to the slots from `pos` on around the ring; `Place` is where the k-th
byte that can be read is, counted back from `pos`; so every byte that is left is
an old one or one of the piece, each in its order (`Shifted`), which is what
`LogTail` asks for.

The events.  Both properties are folds, over the bytes a stream has sent and over
the events of all phases.  `PhaseInv` relates them to what the code has at hand: a
buffer is the beginning of the line that the fold of the bytes is in the middle of,
flagged if it is not all of it (`BufferInv`); no event is of a later phase, so a
new phase starts with none (`NoLaterPhase`); a stream is flushed after its copier
has ended, unless the phase is uncertain, when it is not flushed at all
(`FlushInOrder`).  A piece goes through the fold up to its next newline, and one
event more is one step more of the other fold.

The failure log.  A run that is neither at work on an output file nor was killed has
tried to remove it, and renames only what it has written whole (`FailureInv`).

`AuditProofs` proves, for any inodes, blocks, sizes and ticks, any names, lengths of
lines and directories, any limits and any number of changes:

| theorem | property |
| --- | --- |
| `DigestHolds` | `DigestOfOneInstant` |
| `QuietAudit` | `QuietAuditIsTrue` |
| `AuditUnderWrites` | `OkUnderWrites` |
| `StagesSealed` | `SealsWithinLimit` |

`AuditAssumption` says that names are finitely many, that the control files and the
top directory have names of their own, that entry limit and changes are numbers, and
that `None` and the garbled manifest are neither what a file holds nor a manifest.

`hashFile`.  Without a change in the tick of the check, a ctime that is still the
one that was looked up means that nothing has changed since: what was read is what
the open file begins with, until the end of file says that it is all of it.

`verifyOne`.  `QuietSoFar` says what an audit has found out at each of its calls if
nothing has changed: that `validBackupRoot` has passed, and so which verdict is true
(`TruthOfValid`), that the manifest it parsed is the one there is, and that the files
it need not hash any more are as the manifest says, and are as many as it has
counted.  The same for an audit under writes is `Witnessed`, about the contents that
files had (`had`) and not those they have: what is written to while it is hashed
either shows or is blurred, and only what does not show is compared.  `TopSeen` is
what the unchanged snapshot of the top directory says of the files in it: none has
come or gone, and they are those that were listed.  `Sealing` carries what prepare
left through `GenerateManifest` to the seal.  One lemma serves every end of an audit
(`ReportsKeeps`) and one every change of another writer (`ChangeKeeps`).

`StartProofs` proves, for every value of the constants of `MCStart`:

| theorem | property | assumes |
| --- | --- | --- |
| `HolderMeetsTheNext` | `LockInv` | nobody replaces `.lock` under a holder |
| `ImplementsReadWriteLock` | `LockSpec` | the same |
| `VerdictHolds` | `VerdictTrue` | |
| `ZeroSaysAll` | `ZeroMeansAll` | |
| `FailureToldOnce` | `EverythingTold` | |
| `RootAndDataApart` | `PathsApart` | |
| `StartWalkChecked` | `WalkInv` | |
| `StartWalkDurable` | `WalkedIsDurable` | |
| `StartNobodyRefused` | `NobodyIsRefused` | |

`StartAssumption` says that `/` is a directory, that `None` is nothing else, and
that the root has at least one component.  `HolderMeetsTheNext`,
`ImplementsReadWriteLock` and `VerdictHolds` are about the specifications of
`LockFile` and `FreeSpace`; `LockPart` and `SpacePart` say that `MCStart` keeps to
them.

`LockFile`.  The flocks on *one* file agree by `Flock`; that all holders have
flocks on the same file is `HolderHasTheName`, which the second look gives and
the assumption keeps.

`FreeSpace`.  `needed` and `total` are equal as long as the walk goes on, and
`needed <= available - size` is asked before the sum is made, so the sum stays
below `Modulus`.

`CommandLine`.  `CommandInv` says what has been found out before the operation is
over (`NothingYet`), that `verify` presents every audit it has completed
(`AuditsPresented`), that stdout has the beginning of the output, and all of it
unless a write failed (`OutputSoFar`), and what the exit status and stderr make of
it (`StatusSays`).

`PathPolicy`.  `Walk` is defined by recursion over paths and links, so first that
such a function exists: level by level, each for one link more, each along the
length of a path (`WalkExists`).  `OneName`, that a directory has one name, makes a
path without links unique (`OnePath`), by induction over its length; then a
directory below another one has a path that begins with that one's
(`BelowIsPrefix`), and comparing the names was enough.  That the name of the
backup root leads to it without links is what `OpenBackupRoot` has made sure of, and
`LinksDoNotMatter` carries it over to a walk that follows them.  `PathsInv` says
from when on which of the two names is known to lead somewhere.

`RootWalkProofs` has the theorems about `RootWalk` itself, which `StartProofs`
applies to its two instances: `WalkedChecked`, `WalkedDurable` and, if nobody
replaces components (`~Hostile`), `NobodyRefused`.  Along a trail every inode is
one that has been used, and what is put under a name is a new one; so an entry that
still leads on as it did has not been changed since it was synced, and nothing else
is synced there in its place (`RootInv`).  Without another writer a trail is the way
that leads to where the run is, what it has looked up is still there, and everything
on it was made by runs, for a power loss cuts off only what no run has passed yet
(`QuietInv`); so no check refuses anything.

`StatusScanProofs` proves, under the assumptions of `Workflow`:

| theorem | property |
| --- | --- |
| `ListedSound` | `ScanInv` |
| `ListedOnce` | `OneNamePerId` |
| `LastSuccessHolds` | `LastSuccessCurrent` |

The steps of `StatusScan` are those of `Workflow` or leave its variables alone, so
`IInv` carries over.  To it are added that an id which has lost its stage does not
get one again, and one that is being deleted no backup either (`PastStays`, by
`PlaceInv` and `VictimInv`), that a power loss ends the scan, and that the names
are looked at in the order of their prefixes: `.deleting-` first, by name alone,
then `backup-`, then `inprogress-`.  An id found under one name is not found under
a later one unless its tree went backwards, and it does not.  For `last_success`,
`LastingInv`: what has been complete since the scan began is listed, and is in the
result with its own time once its name has been visited; and a result that is not
empty has a first backup, which every backup added to it keeps (`FirstOfMore`).

`Induction` states induction over numbers and over sequences for a *set* that has
the first and with each the next, which the provers can instantiate where they
cannot a predicate, and from it that a fold exists, and what it is on the empty
sequence and on one element more.

Every safety invariant, action property and refinement that a passing run checks is
so stated by a theorem.  Only model-checked are `CancelEnds` and `Ends`, because
liveness under fairness is beyond the prover.  What the findings refute has no
theorem, except that `GoneWhenReturned` is proved for the case that it holds in,
`ForkDuringScan = FALSE`.  `TypeOK` of `Workflow` and `RingInv` of `CommandTail`
have theorems but no run that lists them: the one is part of `IInv`, the other is
what `TailSpec` rests on.

## Not modelled

- Of `backup()` the text of errors and events; of trees everything but how far
  they have come.  In `Workflow` the content of a completed backup does not
  change silently; it does in `Audit`.
- TOML, JSON and their limits (`loadConfig`, `strictJSON`), and the checks
  of single paths and numbers in the configuration: sequential, without state,
  and covered by tests.
- The grammar of a line of the manifest, and of the metadata and the checkpoints,
  which are well formed or not.
- The single reads of a walk (`listFiles`), of a control file and of the manifest:
  each of these is one step, with the snapshots taken within it, which can only make
  it fail (`CallFails`).  `validBackupRoot` is one step, too.  What is in
  subdirectories is not looked at again after the listing, by the code either.
- The depth limit as such: a file that lies too deep is one whose name is refused
  (`Refused`).  An empty directory that lies too deep is left out.
- Owner and mode of the directory of a backup, and its renaming under an audit.
- Another writer in a stage before it is sealed.
- `limitedWriter`, which cuts the version off at 4096 bytes: one comparison.
- Fork and exec themselves, and what XtraBackup does.
- Durability of the failure log: it is not synced, and a power loss may leave
  any of it.
- A clock that is set back while one file is hashed; `Workflow` has one that is
  set back between runs.
- A writer who replaces `.lock` under its holder, with which the lock cannot
  exclude anything (`ReplaceWhileHeld = TRUE`).
- Packaging and the systemd unit: configuration, no code.
