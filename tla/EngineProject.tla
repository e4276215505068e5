----------------------------- MODULE EngineProject -----------------------------
(***************************************************************************)
(* The life of a project in the engine (src/engine/project.rs, volume.rs): *)
(* create, import, start, stop, delete, export and reconcile, over the     *)
(* host resources they share: the containerd record and its rootfs         *)
(* snapshot, the task, the backing image, its loop device, the mount and   *)
(* what can be seen at the mount point.                                    *)
(*                                                                         *)
(* nemrd answers its RPCs concurrently and holds no lock per project, so a *)
(* request is a program counter and each step is what runs between two     *)
(* awaits, or one call of the privileged helper.  A client that goes away  *)
(* cancels its request at an await; the daemon can crash anywhere; the     *)
(* host can reboot.  Credentials, sizes, network indices, forwards,        *)
(* packages and bundle contents are not modelled here.                     *)
(***************************************************************************)
EXTENDS Integers, FiniteSets

CONSTANTS
    Name,  \* project names
    Slot   \* the requests nemrd serves at the same time

ASSUME NameAssumption == Name # {}

\* A filesystem: the volume in the image file at the project's path, a volume
\* whose image file was unlinked under it, or the host's own.
Place == {"image", "deleted", "host"}
Volumes == {"image", "deleted"}

VARIABLES
    record,    \* name -> a container record exists (containerd)
    snapshot,  \* name -> a rootfs snapshot exists under the container's key
    task,      \* name -> "none", "exited", or where the running task's
               \* /workspace lives
    wired,     \* name -> the running task has its session network
    image,     \* name -> the backing file <name>.img exists
    loop,      \* name -> volumes a loop device is attached to
    mounted,   \* name -> the volume mounted at the mount point, or "no"
    mountDir,  \* name -> the mount point directory exists
    dirs,      \* name -> filesystems with the .nemr-state directories at the
               \* mount point's path
    rpc,       \* slot -> the request it serves
    quiet,     \* history: the running reconcile has been alone, and no call of
               \* the helper has failed, since it began
    alone      \* history: no two requests have ever been served at once

ctr == <<record, snapshot, task, wired>>
disk == <<image, loop, mounted, mountDir, dirs>>
history == <<quiet, alone>>
vars == <<ctr, disk, rpc, history>>

CreatePc == {"check", "allocate", "mount", "dirs", "index", "prepare", "insert",
             "persist", "undoSnapshot", "undoMount", "undoImage", "dropVolume"}
StartPc == {"resolveStart", "ensureStart", "taskState", "createTask", "wire", "unwire"}
StopPc == {"resolveStop", "stopTask", "disconnect"}
DeletePc == {"resolveDelete", "stopForDelete", "unwireForDelete", "release", "unlink",
             "deleteRecord", "deleteSnapshot"}
TransferPc == {"resolveTransfer", "checkStopped", "ensureTransfer", "transfer"}
ReconcilePc == {"list", "mounts", "images", "untracked", "snapshots"}
Pc == CreatePc \cup StartPc \cup StopPc \cup DeletePc \cup TransferPc \cup ReconcilePc

\* import: the request is an import_creating.  known: the project names of
\* reconcile's first read; rest: the names its phase has still to look at;
\* seen: the names it has reported.
Request == [pc : Pc \cup {"idle"}, name : Name, import : BOOLEAN,
            known : SUBSET Name, rest : SUBSET Name, seen : SUBSET Name]

Running(n) == task[n] \in Place

TypeOK ==
    /\ record \in [Name -> BOOLEAN]
    /\ snapshot \in [Name -> BOOLEAN]
    /\ task \in [Name -> Place \cup {"none", "exited"}]
    /\ wired \in [Name -> BOOLEAN]
    /\ image \in [Name -> BOOLEAN]
    /\ loop \in [Name -> SUBSET Volumes]
    /\ mounted \in [Name -> Volumes \cup {"no"}]
    /\ mountDir \in [Name -> BOOLEAN]
    /\ dirs \in [Name -> SUBSET Place]
    /\ rpc \in [Slot -> Request]
    /\ quiet \in BOOLEAN /\ alone \in BOOLEAN

AnyName == CHOOSE n \in Name : TRUE
At(pc, n) == [pc |-> pc, name |-> n, import |-> FALSE,
              known |-> {}, rest |-> {}, seen |-> {}]
Idle == At("idle", AnyName)

Init ==
    /\ record = [n \in Name |-> FALSE]
    /\ snapshot = [n \in Name |-> FALSE]
    /\ task = [n \in Name |-> "none"]
    /\ wired = [n \in Name |-> FALSE]
    /\ image = [n \in Name |-> FALSE]
    /\ loop = [n \in Name |-> {}]
    /\ mounted = [n \in Name |-> "no"]
    /\ mountDir = [n \in Name |-> FALSE]
    /\ dirs = [n \in Name |-> {}]
    /\ rpc = [r \in Slot |-> Idle]
    /\ quiet = FALSE /\ alone = TRUE

-------------------------------------------------------------------------------
(* Requests *)

On(r, pc) == rpc[r].pc = pc
N(r) == rpc[r].name
Goto(r, pc) == rpc' = [rpc EXCEPT ![r].pc = pc]
Answer(r) == rpc' = [rpc EXCEPT ![r] = Idle]

\* A step that only looks: on to pc when the condition holds, else an error.
Checks(r, condition, pc) ==
    /\ IF condition THEN Goto(r, pc) ELSE Answer(r)
    /\ UNCHANGED <<ctr, disk, history>>

Begin(r, n) ==
    /\ On(r, "idle")
    /\ \/ \E pc \in {"resolveStart", "resolveStop", "resolveDelete", "resolveTransfer"} :
             rpc' = [rpc EXCEPT ![r] = At(pc, n)] /\ quiet' = FALSE
       \/ \E b \in BOOLEAN :
             rpc' = [rpc EXCEPT ![r] = [At("check", n) EXCEPT !.import = b]]
             /\ quiet' = FALSE
       \/ /\ rpc' = [rpc EXCEPT ![r] = At("list", AnyName)]
          /\ quiet' = \A s \in Slot : On(s, "idle")
    /\ alone' = (alone /\ \A s \in Slot : On(s, "idle"))
    /\ UNCHANGED <<ctr, disk>>

-------------------------------------------------------------------------------
(* The privileged helper and the filesystem *)

\* What a path through the mount point reaches.
View(n) == IF mounted[n] # "no" THEN mounted[n]
           ELSE IF mountDir[n] THEN "host" ELSE "nothing"

\* nemr-volume mount: under the image file's lock, refused when something is
\* mounted already; attach, mount and chown are undone together on failure.
HelperMounts(n) ==
    /\ image[n] /\ mounted[n] = "no"
    /\ loop' = [loop EXCEPT ![n] = @ \cup {"image"}]
    /\ mounted' = [mounted EXCEPT ![n] = "image"]

\* Mutant of DetachedBy: a loop device of an unlinked image is not looked for.
DetachedByInode(n) == IF image[n] THEN {"image"} ELSE {}

\* The loop device nemr-volume unmount detaches: the one backed by the inode at
\* the image's path, or, when there is no such file, the one of the mount or of
\* that path with "(deleted)".
DetachedBy(n) == IF image[n] THEN {"image"} ELSE {"deleted"}

HelperUnmounts(n) ==
    /\ mounted' = [mounted EXCEPT ![n] = "no"]
    /\ loop' = [loop EXCEPT ![n] = @ \ DetachedBy(n)]
    /\ dirs' = [dirs EXCEPT ![n] = IF mounted[n] = "deleted" THEN @ \ {"deleted"} ELSE @]
    /\ UNCHANGED <<image, mountDir, history>>

\* The helper failed before it changed anything: no sudo, a stale helper, no
\* loop device left, or a busy mount.
Disturbed == quiet' = FALSE /\ UNCHANGED alone
HelperFails == Disturbed /\ UNCHANGED disk

TriesUnmount(n) == HelperUnmounts(n) \/ HelperFails

\* remove_file(image): whatever is attached, mounted or in use keeps the inode.
Unlinked(S) == IF "image" \in S THEN (S \ {"image"}) \cup {"deleted"} ELSE S
UnlinksImage(n) ==
    /\ image' = [image EXCEPT ![n] = FALSE]
    /\ loop' = [loop EXCEPT ![n] = Unlinked(@)]
    /\ mounted' = [mounted EXCEPT ![n] = IF @ = "image" THEN "deleted" ELSE @]
    /\ task' = [task EXCEPT ![n] = IF @ = "image" THEN "deleted" ELSE @]
    /\ dirs' = [dirs EXCEPT ![n] = IF "image" \in loop[n] THEN Unlinked(@)
                                   ELSE @ \ {"image"}]

\* ensure_volume_mounted: a mount is accepted when it is backed by the path of
\* the project's image, deleted or not; with no mount, the image is remounted.
EnsuresMounted(r, next) ==
    LET n == N(r) IN
    \/ /\ mounted[n] # "no"
       /\ Goto(r, next)
       /\ UNCHANGED <<ctr, disk, history>>
    \/ /\ mounted[n] = "no" /\ ~image[n]
       /\ Answer(r)
       /\ UNCHANGED <<ctr, disk, history>>
    \/ /\ mounted[n] = "no" /\ image[n]
       /\ mountDir' = [mountDir EXCEPT ![n] = TRUE]
       /\ \/ /\ HelperMounts(n)
             /\ Goto(r, next)
             /\ UNCHANGED history
          \/ /\ UNCHANGED <<loop, mounted>>
             /\ Answer(r)
             /\ Disturbed
       /\ UNCHANGED <<ctr, image, dirs>>

-------------------------------------------------------------------------------
(* create, and the first half of import *)

CreateCheck(r) == On(r, "check") /\ Checks(r, ~record[N(r)], "allocate")

\* The image file is created exclusively, after the check that there is none.
CreateAllocate(r) ==
    /\ On(r, "allocate")
    /\ IF image[N(r)]
       THEN Answer(r) /\ UNCHANGED image
       ELSE Goto(r, "mount") /\ image' = [image EXCEPT ![N(r)] = TRUE]
    /\ UNCHANGED <<ctr, loop, mounted, mountDir, dirs, history>>

\* mkfs, the mount point, the helper.  On failure the guard releases whatever
\* the helper may have done before the file is removed.
CreateMount(r) ==
    LET n == N(r) IN
    /\ On(r, "mount")
    /\ mountDir' = [mountDir EXCEPT ![n] = TRUE]
    /\ \/ HelperMounts(n) /\ Goto(r, "dirs") /\ UNCHANGED history
       \/ Goto(r, "undoMount") /\ Disturbed /\ UNCHANGED <<loop, mounted>>
    /\ UNCHANGED <<ctr, image, dirs>>

\* mkfs failed: there is nothing privileged to release.
CreateFormatFails(r) ==
    /\ On(r, "mount")
    /\ Goto(r, "undoImage")
    /\ UNCHANGED <<ctr, disk, history>>

\* Mutant of DirsLand: the directories are made before the volume covers them.
DirsLandUnder(n) == "host"

DirsLand(n) == IF View(n) = "nothing" THEN "host" ELSE View(n)

\* The .nemr-state directories are created through the mount point, whatever is
\* there; failing that, the mount is released and the image stays.
CreateDirs(r) ==
    LET n == N(r) IN
    /\ On(r, "dirs")
    /\ \/ /\ Goto(r, "index")
          /\ mountDir' = [mountDir EXCEPT ![n] = TRUE]
          /\ dirs' = [dirs EXCEPT ![n] = @ \cup {DirsLand(n)}]
       \/ Goto(r, "dropVolume") /\ UNCHANGED <<mountDir, dirs>>
    /\ UNCHANGED <<ctr, image, loop, mounted, history>>

\* A network index, or none: the table of routes conflicts, or all are taken.
CreateIndex(r) ==
    /\ On(r, "index")
    /\ Goto(r, "prepare") \/ Goto(r, "dropVolume")
    /\ UNCHANGED <<ctr, disk, history>>

\* create_container: the image is looked up, the snapshot is prepared under a
\* lease, the record is written, and a failure of either removes the snapshot.
CreatePrepare(r) ==
    LET n == N(r) IN
    /\ On(r, "prepare")
    /\ \/ /\ ~snapshot[n]
          /\ snapshot' = [snapshot EXCEPT ![n] = TRUE]
          /\ Goto(r, "insert")
       \/ Goto(r, "undoSnapshot") /\ UNCHANGED snapshot
       \/ Goto(r, "undoMount") /\ UNCHANGED snapshot
    /\ UNCHANGED <<record, task, wired, disk, history>>

CreateInsert(r) ==
    LET n == N(r) IN
    /\ On(r, "insert")
    /\ \/ /\ ~record[n]
          /\ record' = [record EXCEPT ![n] = TRUE]
          /\ Goto(r, "persist")
       \/ Goto(r, "undoSnapshot") /\ UNCHANGED record
    /\ UNCHANGED <<snapshot, task, wired, disk, history>>

\* The guard gives the mount up; an import goes on into the new project.
CreatePersist(r) ==
    /\ On(r, "persist")
    /\ IF rpc[r].import THEN Goto(r, "resolveTransfer") ELSE Answer(r)
    /\ UNCHANGED <<ctr, disk, history>>

RemovesSnapshot(n) ==
    /\ snapshot' = [snapshot EXCEPT ![n] = FALSE]
    /\ UNCHANGED <<record, task, wired>>

UndoSnapshot(r) ==
    /\ On(r, "undoSnapshot")
    /\ RemovesSnapshot(N(r)) \/ UNCHANGED ctr
    /\ Goto(r, "undoMount")
    /\ UNCHANGED <<disk, history>>

\* Volume::drop, then the backing file.
UndoMount(r) ==
    /\ On(r, "undoMount")
    /\ TriesUnmount(N(r))
    /\ Goto(r, "undoImage")
    /\ UNCHANGED ctr

UndoImage(r) ==
    /\ On(r, "undoImage")
    /\ UnlinksImage(N(r))
    /\ Answer(r)
    /\ UNCHANGED <<record, snapshot, wired, mountDir, history>>

\* Volume::drop alone: every early return after the volume was created.
DropVolume(r) ==
    /\ On(r, "dropVolume")
    /\ TriesUnmount(N(r))
    /\ Answer(r)
    /\ UNCHANGED ctr

-------------------------------------------------------------------------------
(* start *)

StartResolve(r) == On(r, "resolveStart") /\ Checks(r, record[N(r)], "ensureStart")

StartEnsure(r) == On(r, "ensureStart") /\ EnsuresMounted(r, "taskState")

\* Running: refused.  Exited and never reaped: reaped first.
StartTaskState(r) ==
    LET n == N(r) IN
    /\ On(r, "taskState")
    /\ IF Running(n) THEN Answer(r) ELSE Goto(r, "createTask")
    /\ task' = [task EXCEPT ![n] = IF @ = "exited" THEN "none" ELSE @]
    /\ UNCHANGED <<record, snapshot, wired, disk, history>>

\* The bind sources exist: the mount point and, under it, .nemr-state.
BindsResolve(n) == View(n) \in dirs[n]

\* The migrations and start_task need the record and the snapshot; containerd
\* refuses a second task; runc refuses a bind source that is not there.
StartCreateTask(r) ==
    LET n == N(r) IN
    /\ On(r, "createTask")
    /\ \/ /\ record[n] /\ snapshot[n] /\ task[n] = "none" /\ BindsResolve(n)
          /\ task' = [task EXCEPT ![n] = View(n)]
          /\ Goto(r, "wire")
       \/ Answer(r) /\ UNCHANGED task
    /\ UNCHANGED <<record, snapshot, wired, disk, history>>

\* tasks.start and wire_session.  A task that cannot be wired is stopped again;
\* a task that was created and could not be started is left as it is.  What
\* follows (seeding, packages, forwards) never fails the start.
StartWire(r) ==
    LET n == N(r) IN
    /\ On(r, "wire")
    /\ \/ /\ Running(n) /\ record[n]
          /\ wired' = [wired EXCEPT ![n] = TRUE]
          /\ Answer(r)
       \/ Goto(r, "unwire") /\ UNCHANGED wired
       \/ Answer(r) /\ UNCHANGED wired
    /\ UNCHANGED <<record, snapshot, task, disk, history>>

\* stop_task: the outcome.  Graceful, Killed and NoTask leave no task; Wedged
\* and an error leave what there was, and the network with it.
Stops(n) == /\ task' = [task EXCEPT ![n] = "none"]
            /\ wired' = [wired EXCEPT ![n] = FALSE]
            /\ UNCHANGED <<record, snapshot>>
Wedges(n) == Running(n) /\ UNCHANGED ctr

StartUnwire(r) ==
    /\ On(r, "unwire")
    /\ Stops(N(r)) \/ UNCHANGED ctr
    /\ Answer(r)
    /\ UNCHANGED <<disk, history>>

-------------------------------------------------------------------------------
(* stop *)

StopResolve(r) ==
    /\ On(r, "resolveStop")
    /\ Checks(r, record[N(r)] /\ task[N(r)] # "none", "stopTask")

\* The outcomes stop_task reports as Ok: the task is gone, or it is wedged.
StoppedOk(n) == Stops(n) \/ Wedges(n)

StopTask(r) ==
    /\ On(r, "stopTask")
    /\ \/ StoppedOk(N(r)) /\ Goto(r, "disconnect")
       \/ UNCHANGED ctr /\ Answer(r)
    /\ UNCHANGED <<disk, history>>

\* disconnect_session, with the allocation the record carries.
Disconnects(n) ==
    /\ wired' = [wired EXCEPT ![n] = FALSE]
    /\ UNCHANGED <<record, snapshot, task>>

StopDisconnect(r) ==
    /\ On(r, "disconnect")
    /\ IF record[N(r)] THEN Disconnects(N(r)) ELSE UNCHANGED ctr
    /\ Answer(r)
    /\ UNCHANGED <<disk, history>>

-------------------------------------------------------------------------------
(* delete *)

DeleteResolve(r) ==
    On(r, "resolveDelete") /\ Checks(r, record[N(r)], "stopForDelete")

\* stop_task: only an error ends the delete.
DeleteStop(r) ==
    /\ On(r, "stopForDelete")
    /\ \/ StoppedOk(N(r)) /\ Goto(r, "unwireForDelete")
       \/ UNCHANGED ctr /\ Answer(r)
    /\ UNCHANGED <<disk, history>>

AfterDisconnect == "release"

DeleteDisconnect(r) ==
    /\ On(r, "unwireForDelete")
    /\ Disconnects(N(r))
    /\ Goto(r, AfterDisconnect)
    /\ UNCHANGED <<disk, history>>

DeleteRelease(r) ==
    /\ On(r, "release")
    /\ \/ HelperUnmounts(N(r)) /\ Goto(r, "unlink")
       \/ HelperFails /\ Answer(r)
    /\ UNCHANGED ctr

\* The backing file, then the mount point if it is empty and not a mount.
DeleteUnlink(r) ==
    LET n == N(r) IN
    /\ On(r, "unlink")
    /\ UnlinksImage(n)
    /\ mountDir' = [mountDir EXCEPT ![n] = @ /\ (mounted[n] # "no" \/ "host" \in dirs[n])]
    /\ Goto(r, "deleteRecord")
    /\ UNCHANGED <<record, snapshot, wired, history>>

DeleteRecord(r) ==
    /\ On(r, "deleteRecord")
    /\ \/ record' = [record EXCEPT ![N(r)] = FALSE] /\ Goto(r, "deleteSnapshot")
       \/ UNCHANGED record /\ Answer(r)
    /\ UNCHANGED <<snapshot, task, wired, disk, history>>

DeleteSnapshot(r) ==
    /\ On(r, "deleteSnapshot")
    /\ RemovesSnapshot(N(r)) \/ UNCHANGED ctr
    /\ Answer(r)
    /\ UNCHANGED <<disk, history>>

-------------------------------------------------------------------------------
(* export, and the second half of import *)

\* An import that fails deletes the project it created.
TransferFails(r) == IF rpc[r].import THEN Goto(r, "resolveDelete") ELSE Answer(r)

TransferChecks(r, condition, pc) ==
    /\ IF condition THEN Goto(r, pc) ELSE TransferFails(r)
    /\ UNCHANGED <<ctr, disk, history>>

TransferResolve(r) ==
    On(r, "resolveTransfer") /\ TransferChecks(r, record[N(r)], "checkStopped")

TransferState(r) ==
    On(r, "checkStopped") /\ TransferChecks(r, ~Running(N(r)), "ensureTransfer")

TransferEnsure(r) ==
    LET n == N(r) IN
    /\ On(r, "ensureTransfer")
    /\ \/ EnsuresMounted(r, "transfer") /\ (rpc'[r].pc = "transfer" \/ ~rpc[r].import)
       \/ TransferFails(r) /\ rpc[r].import /\ Disturbed /\ UNCHANGED <<ctr, disk>>

\* write_bundle reads the mount point, extract writes it, for as long as it
\* takes; either can fail.
TransferEnds(r) ==
    /\ On(r, "transfer")
    /\ Answer(r) \/ TransferFails(r)
    /\ UNCHANGED <<ctr, disk, history>>

-------------------------------------------------------------------------------
(* reconcile *)

ToPhase(r, pc, known, seen) ==
    rpc' = [rpc EXCEPT ![r].pc = pc, ![r].known = known, ![r].seen = seen,
                       ![r].rest = Name \ known]

\* One name of the phase is dealt with; it is reported, or not.
Handled(r, n, reported) ==
    rpc' = [rpc EXCEPT ![r].rest = @ \ {n},
                       ![r].seen = IF reported THEN @ \cup {n} ELSE @]

ReconcileList(r) ==
    /\ On(r, "list")
    /\ ToPhase(r, "mounts", {n \in Name : record[n]}, {})
    /\ UNCHANGED <<ctr, disk, history>>

\* 1. Mount points that belong to no project.
ReconcileMount(r, n) ==
    /\ On(r, "mounts") /\ n \in rpc[r].rest
    /\ \/ mountDir[n] /\ HelperUnmounts(n) /\ Handled(r, n, TRUE)
       \/ mountDir[n] /\ HelperFails /\ Handled(r, n, FALSE)
       \/ ~mountDir[n] /\ Handled(r, n, FALSE) /\ UNCHANGED <<disk, history>>
    /\ UNCHANGED ctr

\* 2. Image files that belong to no project: kept and reported.
ReconcileImage(r, n) ==
    /\ On(r, "images") /\ n \in rpc[r].rest
    /\ IF image[n]
       THEN TriesUnmount(n) /\ Handled(r, n, TRUE)
       ELSE Handled(r, n, FALSE) /\ UNCHANGED <<disk, history>>
    /\ UNCHANGED ctr

\* 3. What untracked_volumes still finds, with a new list of the projects.
ReconcileStranded(r, n) ==
    /\ On(r, "untracked") /\ n \in rpc[r].rest
    /\ IF ~record[n] /\ n \notin rpc[r].seen /\ (image[n] \/ loop[n] # {})
       THEN TriesUnmount(n)
       ELSE UNCHANGED <<disk, history>>
    /\ Handled(r, n, FALSE)
    /\ UNCHANGED ctr

\* 4. The snapshots whose key is no container's, on the first list.
Orphaned(r) == {n \in Name : snapshot[n] /\ n \notin rpc[r].known}

ReconcileSnapshots(r) ==
    /\ On(r, "snapshots")
    /\ \/ snapshot' = [n \in Name |-> snapshot[n] /\ n \notin Orphaned(r)]
          /\ UNCHANGED history
       \/ Disturbed /\ UNCHANGED snapshot
    /\ Answer(r)
    /\ UNCHANGED <<record, task, wired, disk>>

ReconcilePhase(r) ==
    /\ rpc[r].rest = {}
    /\ \/ On(r, "mounts") /\ ToPhase(r, "images", rpc[r].known, rpc[r].seen)
       \/ On(r, "images") /\ ToPhase(r, "untracked", rpc[r].known, rpc[r].seen)
       \/ On(r, "untracked") /\ ToPhase(r, "snapshots", rpc[r].known, rpc[r].seen)
    /\ UNCHANGED <<ctr, disk, history>>

-------------------------------------------------------------------------------
(* Faults *)

\* The awaits at which a request can be cancelled while it owns the volume it
\* created: the guard is dropped.  Anywhere else the request just ends.
GuardedAwaits == {"index", "prepare", "insert", "persist", "undoSnapshot"}
Awaits == {"check", "resolveStart", "taskState", "createTask", "wire", "unwire",
           "resolveStop", "stopTask", "disconnect", "resolveDelete", "stopForDelete",
           "unwireForDelete", "deleteRecord", "deleteSnapshot", "resolveTransfer",
           "checkStopped", "list", "untracked", "snapshots"}

Cancel(r) ==
    /\ \/ rpc[r].pc \in GuardedAwaits /\ Goto(r, "dropVolume")
       \/ rpc[r].pc \in Awaits /\ Answer(r)
    /\ UNCHANGED <<ctr, disk, history>>

\* A task ends by itself, and its namespace and link with it.
TaskExits(n) ==
    /\ Running(n)
    /\ task' = [task EXCEPT ![n] = "exited"]
    /\ wired' = [wired EXCEPT ![n] = FALSE]
    /\ UNCHANGED <<record, snapshot, disk, rpc, history>>

\* nemrd dies; nothing is unwound, everything outside it stays.
DaemonDies ==
    /\ \E r \in Slot : ~On(r, "idle")
    /\ rpc' = [r \in Slot |-> Idle]
    /\ Disturbed
    /\ UNCHANGED <<ctr, disk>>

\* Records, snapshots and files survive; tasks, mounts and loop devices do not.
Reboot ==
    /\ rpc' = [r \in Slot |-> Idle]
    /\ task' = [n \in Name |-> "none"]
    /\ wired' = [n \in Name |-> FALSE]
    /\ loop' = [n \in Name |-> {}]
    /\ mounted' = [n \in Name |-> "no"]
    /\ dirs' = [n \in Name |-> dirs[n] \ {"deleted"}]
    /\ Disturbed
    /\ UNCHANGED <<record, snapshot, image, mountDir>>

-------------------------------------------------------------------------------
Create(r) ==
    \/ CreateCheck(r) \/ CreateAllocate(r) \/ CreateMount(r) \/ CreateFormatFails(r)
    \/ CreateDirs(r) \/ CreateIndex(r) \/ CreatePrepare(r) \/ CreateInsert(r) \/ CreatePersist(r)
    \/ UndoSnapshot(r) \/ UndoMount(r) \/ UndoImage(r) \/ DropVolume(r)

Start(r) ==
    \/ StartResolve(r) \/ StartEnsure(r) \/ StartTaskState(r) \/ StartCreateTask(r)
    \/ StartWire(r) \/ StartUnwire(r)

Stop(r) == StopResolve(r) \/ StopTask(r) \/ StopDisconnect(r)

Delete(r) ==
    \/ DeleteResolve(r) \/ DeleteStop(r) \/ DeleteDisconnect(r) \/ DeleteRelease(r)
    \/ DeleteUnlink(r) \/ DeleteRecord(r) \/ DeleteSnapshot(r)

Transfer(r) ==
    TransferResolve(r) \/ TransferState(r) \/ TransferEnsure(r) \/ TransferEnds(r)

Reconcile(r) ==
    \/ ReconcileList(r) \/ ReconcilePhase(r) \/ ReconcileSnapshots(r)
    \/ \E n \in Name : ReconcileMount(r, n) \/ ReconcileImage(r, n) \/ ReconcileStranded(r, n)

Next ==
    \/ \E r \in Slot : \/ \E n \in Name : Begin(r, n)
                       \/ Create(r) \/ Start(r) \/ Stop(r) \/ Delete(r)
                       \/ Transfer(r) \/ Reconcile(r) \/ Cancel(r)
    \/ \E n \in Name : TaskExits(n)
    \/ DaemonDies
    \/ Reboot

Spec == Init /\ [][Next]_vars

-------------------------------------------------------------------------------
(* Properties *)

\* VOL-05: no session ever runs on the host's own filesystem.
NeverOnHost == \A n \in Name : task[n] # "host"

\* A reconcile that nothing disturbed leaves no mount and no snapshot of a
\* project that does not exist, and no loop device unless an image file is there
\* too, whatever was interrupted before, and wherever.
ReconcileReclaims ==
    [][\A r \in Slot :
         ReconcileSnapshots(r) /\ quiet'
         => \A n \in Name : ~record[n] =>
              /\ ~snapshot'[n]
              /\ mounted[n] = "no"
              /\ image[n] \/ loop[n] = {}]_vars

\* Served one request at a time, whatever was cancelled, crashed or rebooted, a
\* project whose image no delete has unlinked yet has all that start needs of it:
\* the rootfs snapshot and, on the volume, the state directories.
Startable ==
    alone => \A n \in Name :
                record[n] /\ image[n] => snapshot[n] /\ "image" \in dirs[n]

===============================================================================
