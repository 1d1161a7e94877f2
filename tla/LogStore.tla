------------------------------ MODULE LogStore ------------------------------
(***************************************************************************)
(* One logbook: ADIFLogProvider, which runs the mutations of the clients   *)
(* one after the other; AdifFileStore, which carries them out on the file; *)
(* AdifBackupService, whose backups and restores read and replace the same *)
(* file; and the file itself, on a disk that forgets what was not synced.  *)
(*                                                                         *)
(* The content of a file is the sequence of its records.  Records are      *)
(* numbers, handed out in order, so that no two are ever the same; Torn    *)
(* stands for the bytes of a record that was not written to its end.  A    *)
(* generation token is the content it was computed from.                   *)
(***************************************************************************)
EXTENDS Integers, Sequences, FiniteSets, SequencesExt

CONSTANTS
  MaxRecords,  \* bound on the records ever written
  MaxCalls,    \* bound on the calls that wait in mutationTail
  MaxBackups,  \* bound on the backups and the previews asked for
  MaxFaults,   \* bound on the operations of the file system that fail
  MaxCrashes,  \* bound on the crashes and restarts
  MaxEdits,    \* bound on the edits by other programs
  NoContent    \* no file, no generation, no manifest

\* The bounds are numbers, and no file is not the content of a file.
ASSUME BoundsAssumption ==
  /\ {MaxRecords, MaxCalls, MaxBackups, MaxFaults, MaxCrashes, MaxEdits} \subseteq Nat
  /\ NoContent \notin Seq(Nat)

Records == 1 .. MaxRecords
Torn    == 0

VARIABLES
  disk,    \* the formal ADIF file, latest.adi and pre-restore.adi
  store,   \* AdifFileStore: state and closing
  gen,     \* the provider's document and generation
  calls,   \* mutationTail: the calls that wait, the running one first
  op,      \* how far the running call is
  path,    \* PerPathSerialQueue: who uses the file, and who waits for it
  backup,  \* AdifBackupService: manifest, backupJob, the preview, maintenance
  closer,  \* ADIFLogProvider.close
  told,    \* what the clients were shown, for the properties
  left     \* what remains of the bounds

vars == <<disk, store, gen, calls, op, path, backup, closer, told, left>>

-----------------------------------------------------------------------------
IsTorn(c)   == c # <<>> /\ Last(c) = Torn
Complete(c) == IF IsTorn(c) THEN Front(c) ELSE c

\* What the file may be when recs are on their way behind c.
Pieces(c, recs) ==
  {c \o SubSeq(recs, 1, n) : n \in 0 .. Len(recs)} \cup
  {Append(c \o SubSeq(recs, 1, n), Torn) : n \in 0 .. Len(recs) - 1}

\* What a power failure may leave under the name of the formal file.
AfterPowerLoss == disk.dirty \cup disk.stale

\* The log after a call: what was prepared from the document.
Prepared(c) ==
  IF c.kind = "append" THEN gen \o c.recs
  ELSE LET i == CHOOSE i \in DOMAIN gen : gen[i] = c.old
       IN  SubSeq(gen, 1, i - 1) \o c.recs \o SubSeq(gen, i + 1, Len(gen))

NoOp == [at |-> "idle", kind |-> "none", before |-> <<>>, next |-> <<>>,
         temp |-> {}, confirmed |-> TRUE]

Reopening == [kind |-> "reopen", old |-> Torn, recs |-> <<>>]

NoBackup == [manifest |-> NoContent, job |-> "idle", failed |-> FALSE, snap |-> <<>>,
             preview |-> "none", revision |-> NoContent,
             token |-> NoContent, maintenance |-> FALSE]

Works == UNCHANGED left
Fails == left.faults > 0 /\ left' = [left EXCEPT !.faults = @ - 1]

\* A process that starts: initialize opens the file before any call.
Boot ==
  /\ store' = [state |-> "unavailable", closing |-> FALSE]
  /\ gen' = NoContent
  /\ calls' = <<Reopening>>
  /\ op' = NoOp /\ path' = <<>> /\ backup' = NoBackup
  /\ closer' = [at |-> "open", ahead |-> 0]

Init ==
  /\ disk = [file |-> <<>>, dirty |-> {<<>>}, stale |-> {},
             latest |-> NoContent, kept |-> NoContent]
  /\ store = [state |-> "unavailable", closing |-> FALSE]
  /\ gen = NoContent
  /\ calls = <<Reopening>>
  /\ op = NoOp /\ path = <<>> /\ backup = NoBackup
  /\ closer = [at |-> "open", ahead |-> 0]
  /\ told = [log |-> <<>>, loose |-> {}, edited |-> FALSE, late |-> FALSE]
  /\ left = [records |-> 1, calls |-> MaxCalls, backups |-> MaxBackups, faults |-> MaxFaults,
             crashes |-> MaxCrashes, edits |-> MaxEdits]

-----------------------------------------------------------------------------
(* ADIFLogProvider: the calls of the clients.                              *)

Health ==
  CASE op.kind = "reopen" -> "loading"
    [] op.kind # "reopen" /\ (gen = NoContent \/ store.state \in {"unavailable", "closed"})
         -> "unavailable"
    [] OTHER -> IF store.state \in {"read-only", "uncertain"} THEN "read_only" ELSE "writable"

Paused == backup.maintenance \/ \E i \in DOMAIN calls : calls[i].kind = "restore"

Writable == Health = "writable" /\ ~Paused

\* AdifFileStore.assertMutationAllowed.
Blocked ==
  store.closing \/ store.state \in {"closed", "uncertain", "unavailable", "read-only"}

Closing == store.closing \/ store.state = "closed"

Enqueue(c) ==
  /\ left.calls > 0
  /\ calls' = Append(calls, c)
  /\ UNCHANGED <<disk, store, gen, op, path, backup, closer, told>>

\* addQSO, and an import of new records only.
CallAppend(n) ==
  /\ Writable /\ left.records + n - 1 <= MaxRecords
  /\ Enqueue([kind |-> "append", old |-> Torn,
              recs |-> [i \in 1 .. n |-> left.records + i - 1]])
  /\ left' = [left EXCEPT !.calls = @ - 1, !.records = @ + n]

\* updateQSO, and an import that merges.
CallUpdate(r) ==
  /\ Writable /\ r \in ToSet(gen) /\ left.records <= MaxRecords
  /\ Enqueue([kind |-> "rewrite", old |-> r, recs |-> <<left.records>>])
  /\ left' = [left EXCEPT !.calls = @ - 1, !.records = @ + 1]

CallDelete(r) ==
  /\ Writable /\ r \in ToSet(gen)
  /\ Enqueue([kind |-> "rewrite", old |-> r, recs |-> <<>>])
  /\ left' = [left EXCEPT !.calls = @ - 1]

CallReopen ==
  /\ closer.at = "open"
  /\ Enqueue(Reopening)
  /\ left' = [left EXCEPT !.calls = @ - 1]

CallRestore ==
  /\ ~Paused /\ backup.token # NoContent
  /\ Enqueue([kind |-> "restore", old |-> Torn, recs |-> <<>>])
  /\ left' = [left EXCEPT !.calls = @ - 1]

\* Mutant: a restore that fails leaves the log in maintenance.
AnswerInMaintenance ==
  /\ calls' = Tail(calls) /\ op' = NoOp
  /\ closer' = [closer EXCEPT !.ahead = IF @ = 0 THEN 0 ELSE @ - 1]
  /\ UNCHANGED backup

\* The running call returns, however it went; the next one may start.
Answer ==
  /\ calls' = Tail(calls) /\ op' = NoOp
  /\ closer' = [closer EXCEPT !.ahead = IF @ = 0 THEN 0 ELSE @ - 1]
  /\ backup' = IF op.kind = "restore" THEN [backup EXCEPT !.maintenance = FALSE] ELSE backup

AnswerUnlocked == Answer /\ UNCHANGED path
AnswerLocked   == Answer /\ path' = Tail(path)

\* commitAppend, commitRewrite, commitReplaceFromFile: the check in front of the queue.
EnterStore(o) ==
  IF IF o.kind = "restore" THEN Closing ELSE Blocked
  THEN AnswerUnlocked
  ELSE /\ op' = [o EXCEPT !.at = "waiting"]
       /\ path' = Append(path, "op")
       /\ UNCHANGED <<calls, closer, backup>>

BeginMutation ==
  /\ op.at = "idle" /\ calls # <<>> /\ Head(calls).kind \in {"append", "rewrite"}
  /\ LET c == Head(calls)
     IN  IF ~Writable \/ (c.kind = "rewrite" /\ c.old \notin ToSet(gen))
         THEN AnswerUnlocked
         ELSE LET o == [NoOp EXCEPT !.kind = c.kind, !.next = Prepared(c)]
              IN  IF c.kind = "append" THEN EnterStore(o)
                  ELSE /\ op' = [o EXCEPT !.at = IF backup.job = "idle" THEN "ensure" ELSE "joined"]
                       /\ UNCHANGED <<calls, path, backup, closer>>
  /\ UNCHANGED <<disk, store, gen, told, left>>

\* createBackup: the job waits for the file like a mutation does.
MayStartJob ==
  /\ backup.job = "idle" /\ op.at \notin {"joined", "backing"}
  /\ ~backup.maintenance /\ backup.preview = "none" /\ ~Closing

StartJob ==
  /\ backup' = [backup EXCEPT !.job = "queued", !.failed = FALSE]
  /\ path' = Append(path, "backup")

\* ensureBeforeRewrite: a backup that was running may fail and take the call along.
EnsureBackup ==
  /\ op.at \in {"joined", "ensure", "backing"} /\ backup.job = "idle"
  /\ \/ op.at # "ensure" /\ backup.failed /\ AnswerUnlocked
     \/ op.at = "joined" /\ ~backup.failed
        /\ op' = [op EXCEPT !.at = "ensure"]
        /\ UNCHANGED <<calls, path, backup, closer>>
     \/ op.at = "backing" /\ ~backup.failed /\ EnterStore(op)
     \/ op.at = "ensure" /\ disk.latest # NoContent /\ EnterStore(op)
     \/ op.at = "ensure"   \* none yet, or too old
        /\ IF ~MayStartJob THEN AnswerUnlocked
           ELSE StartJob /\ op' = [op EXCEPT !.at = "backing"] /\ UNCHANGED <<calls, closer>>
  /\ UNCHANGED <<disk, store, gen, told, left>>

-----------------------------------------------------------------------------
(* AdifFileStore, inside the queue of the path.                            *)

HasPath(who) == path # <<>> /\ Head(path) = who

OpHolds(at) == op.at = at /\ HasPath("op")

Goto(at) == op' = [op EXCEPT !.at = at] /\ UNCHANGED <<calls, path, backup, closer>>

State(s) == store' = [store EXCEPT !.state = s]

\* scanMutationBaseline and assertExpectedGeneration.
Baseline ==
  /\ OpHolds("waiting") /\ op.kind \in {"append", "rewrite"}
  /\ \/ Blocked /\ AnswerLocked /\ Works /\ UNCHANGED store
     \/ ~Blocked /\ Fails /\ State("read-only") /\ AnswerLocked
     \/ ~Blocked /\ disk.file # gen /\ State("read-only") /\ AnswerLocked /\ Works
     \/ /\ ~Blocked /\ disk.file = gen /\ ~IsTorn(gen)
        /\ op' = [op EXCEPT !.before = gen, !.at = IF op.kind = "append" THEN "write" ELSE "temp"]
        /\ Works /\ UNCHANGED <<store, calls, path, backup, closer>>
  /\ UNCHANGED <<disk, gen, told>>

\* The clients see the file; others are what a power failure could leave of it.
Shown(others) ==
  [log |-> Complete(disk.file), loose |-> {Complete(c) : c \in others},
   edited |-> FALSE, late |-> FALSE]

\* The mutation is over and the clients learn of the new log.
Commit(state) ==
  /\ AnswerLocked /\ Works
  /\ State(state)
  /\ gen' = disk.file
  /\ told' = Shown(disk.stale)

AppendWrite ==
  /\ OpHolds("write")
  /\ LET recs == SubSeq(op.next, Len(op.before) + 1, Len(op.next))
     IN  \/ /\ disk' = [disk EXCEPT !.file = @ \o recs, !.dirty = @ \cup Pieces(disk.file, recs)]
            /\ Goto("sync") /\ Works
         \/ \E f \in Pieces(disk.file, recs) :
              /\ disk' = [disk EXCEPT !.file = f,
                            !.dirty = @ \cup {p \in Pieces(disk.file, recs) : Len(p) <= Len(f)}]
              /\ Goto("failed") /\ Fails
         \/ UNCHANGED disk /\ AnswerLocked /\ Fails   \* the file did not open
  /\ UNCHANGED <<store, gen, told>>

\* Mutant: the append is acknowledged without an fsync.
AppendUnsynced ==
  /\ OpHolds("sync") /\ Goto("verify") /\ Works
  /\ UNCHANGED <<disk, store, gen, told>>

AppendSync ==
  /\ OpHolds("sync")
  /\ \/ disk' = [disk EXCEPT !.dirty = {disk.file}] /\ Goto("verify") /\ Works
     \/ UNCHANGED disk /\ Goto("failed") /\ Fails
     \/ disk' = [disk EXCEPT !.dirty = {disk.file}] /\ Goto("failed") /\ Fails  \* close fails
  /\ UNCHANGED <<store, gen, told>>

\* materializeAppendResult and the validation against the prepared document.
AppendVerify ==
  /\ OpHolds("verify")
  /\ \/ disk.file = op.next /\ Commit("ready")
     \/ disk.file = op.next /\ Goto("truncate") /\ Fails /\ UNCHANGED <<store, gen, told>>
     \/ /\ disk.file # op.next
        /\ State(IF Len(disk.file) = Len(op.next) /\ SubSeq(disk.file, 1, Len(op.before)) # op.before
                 THEN "read-only" ELSE "uncertain")
        /\ AnswerLocked /\ Works /\ UNCHANGED <<gen, told>>
     \/ State("uncertain") /\ AnswerLocked /\ Fails /\ UNCHANGED <<gen, told>>
  /\ UNCHANGED disk

ScannedState == IF IsTorn(disk.file) THEN "read-only" ELSE "ready"

\* The append failed: nothing to undo when the content is what it was.
AppendFailed ==
  /\ OpHolds("failed")
  /\ \/ disk.file = op.before /\ State(ScannedState) /\ AnswerLocked /\ Works
     \/ disk.file # op.before /\ Goto("truncate") /\ Works /\ UNCHANGED store
     \/ Goto("truncate") /\ Fails /\ UNCHANGED store
  /\ UNCHANGED <<disk, gen, told>>

\* rollbackAppend.
Truncate ==
  /\ OpHolds("truncate")
  /\ \/ /\ LET old == SubSeq(disk.file, 1, Len(op.before))
           IN  disk' = [disk EXCEPT !.file = old, !.dirty = @ \cup {old}]
        /\ Goto("restoreSync") /\ Works /\ UNCHANGED store
     \/ State("uncertain") /\ AnswerLocked /\ Fails /\ UNCHANGED disk
  /\ UNCHANGED <<gen, told>>

RollbackSync ==
  /\ OpHolds("restoreSync")
  /\ \/ disk' = [disk EXCEPT !.dirty = {disk.file}] /\ State(ScannedState) /\ AnswerLocked /\ Works
     \/ disk' = [disk EXCEPT !.dirty = {disk.file}] /\ State("uncertain") /\ AnswerLocked /\ Fails
     \/ State("uncertain") /\ AnswerLocked /\ Fails /\ UNCHANGED disk
  /\ UNCHANGED <<gen, told>>

\* A failure before the rename: the temporary file is removed.
BeforeRename(next) ==
  \/ next
  \/ AnswerLocked /\ Fails /\ UNCHANGED store

TempWrite ==
  /\ OpHolds("temp")
  /\ BeforeRename(/\ op' = [op EXCEPT !.at = "tempSync", !.temp = Pieces(<<>>, op.next)]
                  /\ Works /\ UNCHANGED <<store, calls, path, backup, closer>>)
  /\ UNCHANGED <<disk, gen, told>>

TempSync ==
  /\ OpHolds("tempSync")
  /\ BeforeRename(/\ op' = [op EXCEPT !.at = "recheck", !.temp = {op.next}]
                  /\ Works /\ UNCHANGED <<store, calls, path, backup, closer>>)
  /\ UNCHANGED <<disk, gen, told>>

\* Mutant: the formal file is not looked at again before the rename.
RecheckNothing ==
  /\ OpHolds("recheck")
  /\ BeforeRename(Goto("rename") /\ Works /\ UNCHANGED store)
  /\ told' = [told EXCEPT !.late = FALSE]
  /\ UNCHANGED <<disk, gen>>

\* The candidate is valid; is the formal file still the one it was made from?
Recheck ==
  /\ OpHolds("recheck")
  /\ BeforeRename(\/ disk.file = op.before /\ Goto("rename") /\ Works /\ UNCHANGED store
                  \/ disk.file # op.before /\ State("read-only") /\ AnswerLocked /\ Works)
  /\ told' = [told EXCEPT !.late = FALSE]
  /\ UNCHANGED <<disk, gen>>

Rename ==
  /\ OpHolds("rename")
  /\ BeforeRename(Goto("dirSync") /\ Works /\ UNCHANGED store)
  /\ disk' = IF op'.at = "dirSync"
             THEN [disk EXCEPT !.file = op.next, !.dirty = op.temp, !.stale = @ \cup disk.dirty]
             ELSE disk
  /\ UNCHANGED <<gen, told>>

\* Where the directory cannot be synced the commit stands and is called degraded.
DirSync ==
  /\ OpHolds("dirSync")
  /\ \/ disk' = [disk EXCEPT !.stale = {}] /\ op' = [op EXCEPT !.at = "renamed"] /\ Works
     \/ UNCHANGED disk /\ op' = [op EXCEPT !.at = "renamed", !.confirmed = FALSE] /\ Fails
  /\ UNCHANGED <<store, gen, calls, path, backup, closer, told>>

Renamed ==
  /\ OpHolds("renamed")
  /\ \/ disk.file = op.next /\ Commit(IF op.confirmed THEN "ready" ELSE "degraded")
     \/ /\ disk.file # op.next
        /\ State("uncertain") /\ AnswerLocked /\ Works /\ UNCHANGED <<gen, told>>
     \/ State("uncertain") /\ AnswerLocked /\ Fails /\ UNCHANGED <<gen, told>>
  /\ UNCHANGED disk

-----------------------------------------------------------------------------
(* retryOpen and initialize.                                               *)

BeginReopen ==
  /\ op.at = "idle" /\ calls # <<>> /\ Head(calls).kind = "reopen"
  /\ \/ /\ ~Closing
        /\ op' = [NoOp EXCEPT !.at = "waiting", !.kind = "reopen"]
        /\ path' = Append(path, "op")
        /\ UNCHANGED <<store, gen, calls, backup, closer>>
     \/ /\ Closing
        /\ State("closed") /\ gen' = NoContent /\ AnswerUnlocked
  /\ UNCHANGED <<disk, told, left>>

\* openLocked: the file is the truth, and an unfinished record makes it read-only.
Open ==
  /\ OpHolds("waiting") /\ op.kind = "reopen"
  /\ \/ /\ State(ScannedState) /\ gen' = disk.file /\ Works
        /\ told' = Shown((disk.dirty \ {disk.file}) \cup disk.stale)
     \/ State("unavailable") /\ gen' = NoContent /\ Fails /\ UNCHANGED told
  /\ path' = Tail(path) /\ calls' = Tail(calls) /\ op' = NoOp
  /\ closer' = [closer EXCEPT !.ahead = IF @ = 0 THEN 0 ELSE @ - 1]
  /\ backup' = [backup EXCEPT !.manifest = IF @ = NoContent THEN disk.latest ELSE @]
  /\ UNCHANGED disk

-----------------------------------------------------------------------------
(* AdifBackupService.                                                      *)

\* createBackup, after a mutation, by the clock or by the user.
StartBackup ==
  /\ MayStartJob /\ StartJob
  /\ gen # NoContent
  /\ left.backups > 0 /\ left' = [left EXCEPT !.backups = @ - 1]
  /\ UNCHANGED <<disk, store, gen, calls, op, closer, told>>

JobFails == backup' = [backup EXCEPT !.job = "idle", !.failed = TRUE, !.snap = <<>>]

\* Mutant: a snapshot that cannot be opened keeps its place in the queue.
OpenSnapshotHolding ==
  /\ backup.job = "queued" /\ HasPath("backup")
  /\ \/ ~store.closing /\ Works
        /\ backup' = [backup EXCEPT !.job = "copying", !.snap = disk.file]
        /\ path' = Tail(path)
     \/ store.closing /\ Works /\ JobFails /\ UNCHANGED path
     \/ Fails /\ JobFails /\ UNCHANGED path
  /\ UNCHANGED <<disk, store, gen, calls, op, closer, told>>

\* The copy owns its snapshot: bytes below its size are never changed in place.
OpenSnapshot ==
  /\ backup.job = "queued" /\ HasPath("backup")
  /\ \/ ~store.closing /\ Works
        /\ backup' = [backup EXCEPT !.job = "copying", !.snap = disk.file]
     \/ store.closing /\ Works /\ JobFails
     \/ Fails /\ JobFails
  /\ path' = Tail(path)
  /\ UNCHANGED <<disk, store, gen, calls, op, closer, told>>

FinishBackup ==
  /\ backup.job = "copying"
  /\ \/ /\ ~IsTorn(backup.snap) /\ Works
        /\ disk' = [disk EXCEPT !.latest = backup.snap]
        /\ backup' = [backup EXCEPT !.job = "idle", !.manifest = backup.snap, !.snap = <<>>]
     \/ IsTorn(backup.snap) /\ Works /\ JobFails /\ UNCHANGED disk
     \/ Fails /\ JobFails /\ UNCHANGED disk
  /\ UNCHANGED <<store, gen, calls, op, path, closer, told>>

\* prepareRestore: the preview binds a token to the log and to the backup shown.
StartPreview ==
  /\ backup.preview = "none" /\ ~Paused /\ gen # NoContent
  /\ backup' = [backup EXCEPT !.preview = "joined", !.revision = gen]
  /\ left.backups > 0 /\ left' = [left EXCEPT !.backups = @ - 1]
  /\ UNCHANGED <<disk, store, gen, calls, op, path, closer, told>>

EndPreview(token) ==
  backup' = [backup EXCEPT !.preview = "none", !.revision = NoContent, !.token = token]

QueuePreview ==
  /\ backup.preview = "joined" /\ backup.job = "idle"
  /\ IF backup.manifest = NoContent \/ Closing
     THEN EndPreview(backup.token) /\ UNCHANGED path
     ELSE /\ backup' = [backup EXCEPT !.preview = "queued"]
          /\ path' = Append(path, "preview")
  /\ UNCHANGED <<disk, store, gen, calls, op, closer, told, left>>

Preview ==
  /\ backup.preview = "queued" /\ HasPath("preview")
  /\ path' = Tail(path)
  /\ IF ~store.closing /\ gen = backup.revision /\ disk.file = gen
     THEN EndPreview([main |-> gen, from |-> backup.manifest])
     ELSE EndPreview(backup.token)
  /\ UNCHANGED <<disk, store, gen, calls, op, closer, told, left>>

\* restoreBackup: the token serves once, and only for the log it was made for.
BeginRestore ==
  /\ op.at = "idle" /\ calls # <<>> /\ Head(calls).kind = "restore"
  /\ LET t == backup.token
     IN  IF t = NoContent THEN AnswerUnlocked
         ELSE IF t.main # gen \/ t.from # backup.manifest THEN AnswerUnlocked
         ELSE /\ op' = [NoOp EXCEPT !.at = "hush", !.kind = "restore",
                                    !.before = t.main, !.next = t.from]
              /\ backup' = [backup EXCEPT !.token = NoContent, !.maintenance = TRUE]
              /\ UNCHANGED <<calls, path, closer>>
  /\ UNCHANGED <<disk, store, gen, told, left>>

\* A running backup ends first; then the log that is to go is kept as pre-restore.adi.
KeepMain ==
  /\ op.at = "hush" /\ backup.job = "idle"
  /\ \/ backup.manifest # op.next /\ AnswerUnlocked /\ Works /\ UNCHANGED disk
     \/ /\ backup.manifest = op.next /\ EnterStore(op) /\ Works
        /\ disk' = [disk EXCEPT !.kept = disk.file]
     \/ AnswerUnlocked /\ Fails /\ UNCHANGED disk
  /\ UNCHANGED <<store, gen, told>>

\* commitReplaceFromFile: allowed on a log that is read-only or uncertain.
RestoreBaseline ==
  /\ OpHolds("waiting") /\ op.kind = "restore"
  /\ \/ store.closing /\ AnswerLocked /\ Works /\ UNCHANGED store
     \/ AnswerLocked /\ Fails /\ UNCHANGED store
     \/ ~store.closing /\ disk.file # op.before /\ State("read-only") /\ AnswerLocked /\ Works
     \/ ~store.closing /\ disk.file = op.before /\ Goto("temp") /\ Works /\ UNCHANGED store
  /\ UNCHANGED <<disk, gen, told>>

-----------------------------------------------------------------------------
(* ADIFLogProvider.close and AdifFileStore.close.                          *)

Close ==
  /\ closer.at = "open" /\ gen # NoContent
  /\ closer' = [at |-> "flush", ahead |-> Len(calls)]
  /\ UNCHANGED <<disk, store, gen, calls, op, path, backup, told, left>>

\* The calls made before the close have ended; flushWithin backs up what is new.
CloseFlushed ==
  /\ closer.at = "flush" /\ closer.ahead = 0
  /\ closer' = [closer EXCEPT !.at = "backup"]
  /\ \/ UNCHANGED <<backup, path>>
     \/ MayStartJob /\ StartJob
  /\ UNCHANGED <<disk, store, gen, calls, op, told, left>>

\* It waits for the backup no longer than its deadline.
CloseStore ==
  /\ closer.at = "backup"
  /\ closer' = [closer EXCEPT !.at = "drain"]
  /\ store' = [store EXCEPT !.closing = TRUE]
  /\ UNCHANGED <<disk, gen, calls, op, path, backup, told, left>>

CloseDrained ==
  /\ closer.at = "drain" /\ path = <<>>
  /\ closer' = [closer EXCEPT !.at = "closed"]
  /\ State("closed")
  /\ UNCHANGED <<disk, gen, calls, op, path, backup, told, left>>

-----------------------------------------------------------------------------
(* What happens to the program.                                            *)

\* The process ends and another one starts: the file is as it was written.
Restart ==
  /\ left.crashes > 0 /\ left' = [left EXCEPT !.crashes = @ - 1]
  /\ Boot
  /\ UNCHANGED <<disk, told>>

\* The machine loses power: the file is what had reached the disk, or less.
PowerLoss ==
  /\ left.crashes > 0 /\ left' = [left EXCEPT !.crashes = @ - 1]
  /\ Boot
  /\ \E f \in AfterPowerLoss :
       disk' = [disk EXCEPT !.file = f, !.dirty = {f}, !.stale = {}]
  /\ UNCHANGED told

\* Another program adds a record, or puts one of the same length in place of the last.
Edit ==
  /\ left.edits > 0 /\ left.records <= MaxRecords
  /\ left' = [left EXCEPT !.edits = @ - 1, !.records = @ + 1]
  /\ ~IsTorn(disk.file)
  /\ \E f \in {Append(disk.file, left.records)} \cup
              (IF disk.file = <<>> THEN {} ELSE {Append(Front(disk.file), left.records)}) :
       disk' = [disk EXCEPT !.file = f, !.dirty = @ \cup {f}]
  /\ told' = [told EXCEPT !.edited = TRUE, !.late = @ \/ op.at = "rename"]
  /\ UNCHANGED <<store, gen, calls, op, path, backup, closer>>

-----------------------------------------------------------------------------
Clients ==
  \/ \E n \in 1 .. 2 : CallAppend(n)
  \/ \E r \in Records : CallUpdate(r) \/ CallDelete(r)
  \/ CallReopen \/ CallRestore
  \/ StartBackup \/ StartPreview \/ Close

StoreStep ==
  \/ Baseline
  \/ AppendWrite \/ AppendSync \/ AppendVerify
  \/ AppendFailed \/ Truncate \/ RollbackSync
  \/ TempWrite \/ TempSync \/ Recheck \/ Rename \/ DirSync \/ Renamed
  \/ Open \/ RestoreBaseline

ProviderStep ==
  \/ BeginMutation \/ EnsureBackup \/ BeginReopen \/ BeginRestore \/ KeepMain

BackupStep ==
  \/ OpenSnapshot \/ FinishBackup \/ QueuePreview \/ Preview

CloseStep == CloseFlushed \/ CloseStore \/ CloseDrained

World == Restart \/ PowerLoss \/ Edit

Next ==
  \/ Clients \/ StoreStep \/ ProviderStep \/ BackupStep \/ CloseStep \/ World

Spec == Init /\ [][Next]_vars

\* Every operation of the file system returns, well or not.
FairSpec ==
  Spec /\ WF_vars(StoreStep) /\ WF_vars(ProviderStep)
       /\ WF_vars(BackupStep) /\ WF_vars(CloseStep)

-----------------------------------------------------------------------------
(* Properties.                                                             *)

Contents == {c \in Seq({Torn} \cup 1 .. left.records - 1) : \A i \in 1 .. Len(c) - 1 : c[i] # Torn}
Optional == {NoContent} \cup Contents
Calls == [kind : {"append", "rewrite", "restore", "reopen"}, old : Records \cup {Torn},
          recs : Seq(1 .. left.records - 1)]

Outside   == {"idle", "joined", "ensure", "backing", "hush"}
Appending == {"write", "sync", "verify", "failed", "truncate", "restoreSync"}
Replacing == {"temp", "tempSync", "recheck", "rename", "dirSync", "renamed"}

LeftType == [records : 1 .. MaxRecords + 1, calls : Nat, backups : Nat, faults : Nat,
             crashes : Nat, edits : Nat]
DiskType == [file : Contents, dirty : SUBSET Contents, stale : SUBSET Contents,
             latest : Optional, kept : Optional]
StoreType ==
  [state : {"ready", "degraded", "read-only", "unavailable", "uncertain", "closed"},
   closing : BOOLEAN]
OpType ==
  [at : Outside \cup {"waiting"} \cup Appending \cup Replacing,
   kind : {"none", "append", "rewrite", "restore", "reopen"},
   before : Contents, next : Contents, temp : SUBSET Contents, confirmed : BOOLEAN]
BackupType ==
  [manifest : Optional, job : {"idle", "queued", "copying"}, failed : BOOLEAN,
   snap : Contents, preview : {"none", "joined", "queued"}, revision : Optional,
   token : {NoContent} \cup [main : Contents, from : Contents], maintenance : BOOLEAN]
CloserType == [at : {"open", "flush", "backup", "drain", "closed"}, ahead : Nat]
ToldType == [log : Contents, loose : SUBSET Contents, edited : BOOLEAN, late : BOOLEAN]

\* Contents consist of records handed out before, and only their end may be torn.
Typed ==
  /\ left \in LeftType /\ disk \in DiskType /\ store \in StoreType /\ gen \in Optional
  /\ calls \in Seq(Calls) /\ op \in OpType /\ path \in Seq({"op", "backup", "preview"})
  /\ backup \in BackupType /\ closer \in CloserType /\ told \in ToldType

\* The file is used by one at a time, by whoever is in the middle of an
\* operation on it, and by nobody once the store is closed.
QueueHolds ==
  /\ IsInjective(path)
  /\ op.at \notin Outside <=> "op" \in ToSet(path)
  /\ op.at \in Appending \cup Replacing => HasPath("op")
  /\ backup.job = "queued" <=> "backup" \in ToSet(path)
  /\ backup.preview = "queued" <=> "preview" \in ToSet(path)
  /\ closer.at \in {"drain", "closed"} => store.closing
  /\ closer.at = "closed" => path = <<>>

\* The running call is the first one; a maintenance belongs to a restore.
CallHolds ==
  /\ op.at = "idle" <=> op.kind = "none"
  /\ op.at # "idle" => calls # <<>>
  /\ op.at \in {"joined", "ensure", "backing"} => op.kind = "rewrite"
  /\ op.at = "hush" => op.kind = "restore"
  /\ op.at \in Appending => op.kind = "append"
  /\ op.at \in Replacing => op.kind \in {"rewrite", "restore"}
  /\ backup.maintenance => op.kind = "restore"
  /\ \A i \in DOMAIN calls : calls[i].kind = "append" => calls[i].recs # <<>>

\* Nothing is replaced without a backup, and no torn log is one.
BackupHolds ==
  /\ disk.latest = NoContent => backup.manifest = NoContent
  /\ \A c \in {disk.latest, backup.manifest} \ {NoContent} : ~IsTorn(c)
  /\ backup.preview = "queued" => backup.manifest # NoContent
  /\ backup.token # NoContent => disk.latest # NoContent /\ ~IsTorn(backup.token.from)
  /\ op.at = "backing" /\ backup.job = "idle" /\ ~backup.failed => disk.latest # NoContent
  /\ op.kind = "restore" => disk.latest # NoContent
  /\ op.kind = "rewrite" /\ op.at \notin Outside => disk.latest # NoContent

Accepting == store.state \in {"ready", "degraded"}

\* What the clients see is what the provider goes on from.
DocumentHolds ==
  /\ ~IsTorn(told.log)
  /\ Accepting => gen = told.log
  /\ op.kind \in {"append", "rewrite", "restore"} => ~IsTorn(op.next)
  /\ op.kind = "append" /\ op.at = "waiting" => IsStrictPrefix(gen, op.next)
  /\ op.at \in Appending => Accepting /\ op.before = gen /\ IsStrictPrefix(gen, op.next)
  /\ op.at \in Replacing /\ op.kind = "rewrite" => Accepting /\ op.before = gen

LogsOf(contents) == {Complete(c) : c \in contents}

\* While no other program interferes, the file is what was written to it, step
\* by step, and whatever else a power failure may leave has been accounted for.
FileHolds ==
  /\ disk.file \in disk.dirty
  /\ op.at \in Appending => Len(op.before) <= Len(disk.file)
  /\ op.at = "write" => ~IsTorn(disk.file)
  /\ op.at \in {"verify", "dirSync", "renamed"} /\ disk.file = op.next => disk.dirty = {op.next}
  /\ op.at = "renamed" /\ op.confirmed => disk.stale = {}
  /\ Accepting /\ op.at \notin {"dirSync", "renamed"} => LogsOf(disk.stale) \subseteq told.loose

Untouched ==
  Accepting /\ ~told.edited =>
    /\ op.at \notin (Appending \ {"write"}) \cup {"dirSync", "renamed"}
         => disk.file = gen /\ LogsOf(disk.dirty) \subseteq {gen} \cup told.loose
    /\ op.at = "sync" => disk.file = op.next
    /\ op.at \in {"failed", "truncate"} => SubSeq(disk.file, 1, Len(gen)) = gen
    /\ op.at = "failed" /\ disk.file = gen => LogsOf(disk.dirty) \subseteq {gen} \cup told.loose
    /\ op.at = "restoreSync" => disk.file = gen

\* A replacement is ready and its original is what was read.
ReplacementHolds ==
  /\ op.at \in {"recheck", "rename"} => op.temp = {op.next}
  /\ op.at = "rename" => told.late \/ disk.file = op.before
  /\ op.kind = "restore" /\ op.at \in {"waiting", "temp", "tempSync", "recheck", "rename"}
       => disk.kept = op.before \/ disk.file # op.before

\* One at a time uses the file; what the clients were shown, what the provider
\* holds and what is on the disk agree at every step of every call, and a
\* replacement has its backup and its original.  The invariant is inductive.
StoreInv ==
  /\ Typed /\ QueueHolds /\ CallHolds /\ BackupHolds
  /\ DocumentHolds /\ FileHolds /\ Untouched /\ ReplacementHolds

InFlight == IF op.kind \in {"append", "rewrite", "restore"} THEN Complete(op.next) ELSE NoContent

Durable == INSTANCE DurableLog WITH
  Qsos   <- Records,
  NoCall <- NoContent,
  log    <- told.log,
  call   <- InFlight,
  onDisk <- LogsOf(AfterPowerLoss),
  loose  <- told.loose,
  warned <- store.state = "degraded",
  halted <- ~Accepting,
  edited <- told.edited

\* The provider, its store, the backups and the restores keep what the log
\* promises, whatever fails and whenever the process or the machine stops: an
\* acknowledged QSO is found again, a refused mutation left nothing behind,
\* and one in doubt stops the log until it is read again.
ImplementsDurableLog == Durable!Spec

\* A rewrite or a restore replaces the very version it was prepared from, with
\* a backup in place; a restore has kept that version as pre-restore.adi.
\* Only an edit in the moment between the last look and the rename is lost.
ReplacesWhatItRead ==
  [][op.at = "rename" /\ op'.at = "dirSync"
       => /\ disk.latest # NoContent
          /\ told.late \/ disk.file = op.before
          /\ op.kind = "restore" /\ ~told.late => disk.kept = disk.file]_vars

\* Every call of a client returns, and so does close: neither the two queues nor
\* the waits for a backup inside them can block one another, and a close waits
\* for the calls before it only.
EveryCallEnds ==
  /\ [](calls # <<>> => <>(calls = <<>>))
  /\ closer.at = "flush" ~> closer.at \in {"closed", "open"}

=============================================================================
