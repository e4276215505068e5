------------------------------ MODULE VolumeHelper ------------------------------
(***************************************************************************)
(* The privileged volume helper, one system call at a time                 *)
(* (deploy/nemr-volume: main.rs, safe.rs, loopdev.rs), under the engine's  *)
(* four callers of it: create, start, delete and reconcile                 *)
(* (engine/volume.rs, engine/project.rs).                                  *)
(*                                                                         *)
(* Each call of the helper is a process of its own, started through sudo.  *)
(* It locks the backing file it opened (an inode), and works on a mount    *)
(* point (a name) and a loop device (a number) that other calls can reach  *)
(* too.  EngineProject takes a call of the helper as one step; this module *)
(* is what goes on inside it.                                              *)
(*                                                                         *)
(* A helper can be killed between two system calls, a system call can      *)
(* fail, and the host can reboot: at most MaxFault of these.  Sizes are in *)
(* VolumeSizes; who may call the helper and with which argument text is    *)
(* not modelled: every call here is one the engine makes.                  *)
(***************************************************************************)
EXTENDS Integers, Sequences, FiniteSets

CONSTANTS
    Name,     \* project names
    Proc,     \* requests the engine serves at the same time, each with the
              \* helper it is waiting for
    MaxLoop,  \* loop devices
    MaxIno,   \* backing files ever allocated
    MaxFault  \* kills, failed system calls and reboots

Loop == 1..MaxLoop
Ino == 1..MaxIno
None == 0

ASSUME CountsAssumption == MaxLoop \in Nat /\ MaxIno \in Nat /\ MaxFault \in Nat
ASSUME NamesAssumption == Name # {} /\ None \notin Proc

VARIABLES
    record,    \* name -> a container record exists
    file,      \* name -> the inode of <name>.img, or None
    madeFor,   \* inode -> the name it was allocated under; its length is how
               \* many there have been
    mountDir,  \* name -> the mount point directory exists
    mounts,    \* name -> the loop devices mounted there, the last one on top
    backing,   \* loop device -> the inode it is attached to, or None
    clear,     \* loop devices that detach themselves when they are unmounted
    lock,      \* inode -> the request whose helper holds its flock, or None
    req,       \* request -> what it does and where it is
    faults,    \* kills, failed calls and reboots so far
    pulled     \* history: a device was detached from under a mount call that
               \* had attached it and not mounted it yet

disk == <<file, madeFor>>
kernel == <<mounts, backing, clear>>
vars == <<record, disk, mountDir, kernel, lock, req, faults, pulled>>

EnginePc == {"idle", "allocate", "commit", "undoFile", "ensure", "remove", "forget"}
MountPc == {"mOpen", "mLock", "mCheck", "mConfigure", "mMount", "mChown", "mDetach"}
UnmountPc == {"uOpen", "uLock", "uLook", "uUmount", "uFind", "uDetach"}
Op == {"create", "start", "delete", "reconcile"}

\* fd: the backing file the helper holds open; dev: the loop device it is about
\* to use; pin: the mount point it opened still has a name; seen: it saw the
\* mount point in the mount table.
Request == [op : Op, name : Name, pc : EnginePc \cup MountPc \cup UnmountPc,
            fd : Ino \cup {None}, dev : Loop \cup {None}, pin : BOOLEAN, seen : BOOLEAN]

AnyName == CHOOSE n \in Name : TRUE
At(op, n, pc) == [op |-> op, name |-> n, pc |-> pc, fd |-> None, dev |-> None,
                  pin |-> FALSE, seen |-> FALSE]
Idle == At("reconcile", AnyName, "idle")

Init ==
    /\ record = [n \in Name |-> FALSE]
    /\ file = [n \in Name |-> None]
    /\ madeFor = <<>>
    /\ mountDir = [n \in Name |-> FALSE]
    /\ mounts = [n \in Name |-> <<>>]
    /\ backing = [k \in Loop |-> None]
    /\ clear = {}
    /\ lock = [i \in Ino |-> None]
    /\ req = [p \in Proc |-> Idle]
    /\ faults = 0
    /\ pulled = FALSE

N(p) == req[p].name
On(p, pc) == req[p].pc = pc
Goto(p, pc) == req' = [req EXCEPT ![p].pc = pc]
Call(p, pc) == req' = [req EXCEPT ![p] = At(req[p].op, N(p), pc)]
Answer(p) == req' = [req EXCEPT ![p] = Idle]

Faulty == faults < MaxFault /\ faults' = faults + 1
Sound == UNCHANGED faults

-------------------------------------------------------------------------------
(* The kernel: loop devices and the mount table *)

\* Somewhere a filesystem on device k is mounted.
InUse(k, m) == \E n \in Name : \E i \in DOMAIN m[n] : m[n][i] = k

\* The devices attached to a backing file that was allocated as <n>.img: what
\* /sys says of them, "(deleted)" or not.
DevicesOf(n) == {k \in Loop : backing[k] # None /\ madeFor[backing[k]] = n}

\* LOOP_CLR_FD: a mounted device only goes when its last mount does.
Clears(k) ==
    /\ IF InUse(k, mounts) /\ backing[k] # None
       THEN clear' = clear \cup {k} /\ UNCHANGED backing
       ELSE backing' = [backing EXCEPT ![k] = None] /\ UNCHANGED clear
    /\ pulled' = (pulled \/ \E q \in Proc : On(q, "mMount") /\ req[q].dev = k)
    /\ UNCHANGED mounts

\* is_mounted: the mount table lists the mount point.
IsMounted(n) == mounts[n] # <<>>

\* umount2: the filesystem on top goes, and a device that was waiting for it.
Unmounts(n) ==
    LET k == mounts[n][Len(mounts[n])]
        m == [mounts EXCEPT ![n] = SubSeq(@, 1, Len(@) - 1)]
        gone == k \in clear /\ ~InUse(k, m)
    IN  /\ mounts' = m
        /\ backing' = IF gone THEN [backing EXCEPT ![k] = None] ELSE backing
        /\ clear' = IF gone THEN clear \ {k} ELSE clear

-------------------------------------------------------------------------------
(* Reading /proc/self/mountinfo: the helper and the engine each have a     *)
(* parser of it.  A line is the mount point as the kernel writes it, the   *)
(* device, and the tags of its propagation; a byte is its code.            *)

\* The kernel writes a space, a tab, a newline and a backslash as \NNN.
Octal(b) == <<92, 48 + (b \div 64), 48 + ((b \div 8) % 8), 48 + (b % 8)>>
Escaped(path) ==
    LET from[i \in 1 .. Len(path) + 1] ==
          IF i > Len(path) THEN <<>>
          ELSE (IF path[i] \in {9, 10, 32, 92} THEN Octal(path[i]) ELSE <<path[i]>>) \o from[i + 1]
    IN  from[1]

\* unescape_octal: a backslash and three octal digits are a byte, modulo a byte.
Unescape(field) ==
    LET IsOctal(i) == field[i] = 92 /\ i + 3 <= Len(field)
                      /\ \A k \in i + 1 .. i + 3 : field[k] \in 48 .. 55
        Byte(i) == ((field[i + 1] - 48) * 64 + (field[i + 2] - 48) * 8 + field[i + 3] - 48) % 256
        from[i \in 1 .. Len(field) + 1] ==
          IF i > Len(field) THEN <<>>
          ELSE IF IsOctal(i) THEN <<Byte(i)>> \o from[i + 4]
          ELSE <<field[i]>> \o from[i + 1]
    IN  from[1]

\* mountinfo_targets, and the lines of a table that are about a path, in their order.
MountTarget(line) == Unescape(line.target)
Targets(table) == {MountTarget(table[i]) : i \in DOMAIN table}
LinesOf(table, path) == SelectSeq(table, LAMBDA line : MountTarget(line) = path)
HasTarget(table, path) == path \in Targets(table)

\* mount_source_device, mountinfo_device_for: the first mount there, not the top one.
DeviceFor(table, path) == IF HasTarget(table, path) THEN LinesOf(table, path)[1].device ELSE None

\* mountinfo_propagation: only "shared" carries a mount on into the runtime's namespace.
Propagation(table, path) ==
    IF ~HasTarget(table, path) THEN "Unknown"
    ELSE IF "shared" \in LinesOf(table, path)[1].tags THEN "Shared" ELSE "Private"

-------------------------------------------------------------------------------
(* Returns of the helper to the engine *)

\* A call ends, however it ends: the descriptors and the lock with them.
Unlocked(p) == [i \in Ino |-> IF lock[i] = p THEN None ELSE lock[i]]

\* What the caller does after a mount, and after an unmount.
AfterMount(p, ok) ==
    CASE req[p].op = "create" /\ ok -> Call(p, "commit")
      [] req[p].op = "create" /\ ~ok -> Call(p, "uOpen")
      [] OTHER -> Answer(p)

AfterUnmount(p, ok) ==
    CASE req[p].op = "create" -> Call(p, "undoFile")
      [] req[p].op = "delete" /\ ok -> Call(p, "remove")
      [] OTHER -> Answer(p)

MountReturns(p, ok) == AfterMount(p, ok) /\ lock' = Unlocked(p)
UnmountReturns(p, ok) == AfterUnmount(p, ok) /\ lock' = Unlocked(p)

-------------------------------------------------------------------------------
(* nemr-volume mount *)

MountOpen(p) ==
    /\ On(p, "mOpen") /\ Sound
    /\ IF file[N(p)] = None
       THEN MountReturns(p, FALSE)
       ELSE req' = [req EXCEPT ![p].fd = file[N(p)], ![p].pc = "mLock"] /\ UNCHANGED lock
    /\ UNCHANGED <<record, disk, mountDir, kernel, pulled>>

\* Mutant of Locks: the lock is not waited for.
LocksAnyway(p, i) == lock' = [lock EXCEPT ![i] = p]

\* flock(LOCK_EX) on the inode.
Locks(p, i) == lock[i] = None /\ lock' = [lock EXCEPT ![i] = p]

MountLock(p) ==
    /\ On(p, "mLock") /\ Locks(p, req[p].fd) /\ Goto(p, "mCheck")
    /\ UNCHANGED <<record, disk, mountDir, kernel, faults, pulled>>

Free == {k \in Loop : backing[k] = None}
Lowest(S) == CHOOSE k \in S : \A j \in S : k <= j

\* LOOP_CTL_GET_FREE, or a call that ends because no device is left.
Reserves(p) ==
    IF Free = {}
    THEN MountReturns(p, FALSE)
    ELSE /\ req' = [req EXCEPT ![p].dev = Lowest(Free), ![p].pc = "mConfigure",
                               ![p].pin = @ \/ On(p, "mCheck")]
         /\ UNCHANGED lock

\* The mount point is opened, nothing may be mounted there, and the kernel names
\* a free device.
MountCheck(p) ==
    /\ On(p, "mCheck") /\ Sound
    /\ IF mountDir[N(p)] /\ ~IsMounted(N(p)) THEN Reserves(p) ELSE MountReturns(p, FALSE)
    /\ UNCHANGED <<record, disk, mountDir, kernel, pulled>>

\* Mutant of Configures: a device that is taken is configured again.
ConfiguresAnyway(p, k) ==
    /\ backing' = [backing EXCEPT ![k] = req[p].fd] /\ Goto(p, "mMount") /\ UNCHANGED lock

\* LOOP_CONFIGURE: EBUSY when another call took the device, and then a fresh one.
Configures(p, k) ==
    IF backing[k] = None
    THEN backing' = [backing EXCEPT ![k] = req[p].fd] /\ Goto(p, "mMount") /\ UNCHANGED lock
    ELSE Reserves(p) /\ UNCHANGED backing

MountConfigure(p) ==
    /\ On(p, "mConfigure") /\ Configures(p, req[p].dev)
    /\ UNCHANGED <<record, disk, mountDir, mounts, clear, faults, pulled>>

\* mount(2) onto the mount point that was opened, on top of what is there.
MountMount(p) ==
    /\ On(p, "mMount")
    /\ LET possible == backing[req[p].dev] # None /\ req[p].pin
       IN  \/ /\ possible /\ Sound
              /\ mounts' = [mounts EXCEPT ![N(p)] = Append(@, req[p].dev)]
              /\ req' = [req EXCEPT ![p].pc = "mChown", ![p].pin = FALSE]
           \/ /\ IF possible THEN Faulty ELSE Sound
              /\ req' = [req EXCEPT ![p].pc = "mDetach", ![p].pin = FALSE]
              /\ UNCHANGED mounts
    /\ UNCHANGED <<record, disk, mountDir, backing, clear, lock, pulled>>

\* The mount point is opened again, into the mount, and handed to the user; when
\* that fails, what is mounted there is unmounted.
MountChown(p) ==
    /\ On(p, "mChown")
    /\ \/ mountDir[N(p)] /\ Sound /\ MountReturns(p, TRUE) /\ UNCHANGED kernel
       \/ /\ IF mountDir[N(p)] THEN Faulty ELSE Sound
          /\ IF mounts[N(p)] = <<>> THEN UNCHANGED kernel ELSE Unmounts(N(p))
          /\ Goto(p, "mDetach") /\ UNCHANGED lock
    /\ UNCHANGED <<record, disk, mountDir, pulled>>

\* A mount that failed detaches its device again.
MountDetach(p) ==
    /\ On(p, "mDetach") /\ Clears(req[p].dev) /\ MountReturns(p, FALSE)
    /\ UNCHANGED <<record, disk, mountDir, faults>>

-------------------------------------------------------------------------------
(* nemr-volume unmount *)

\* Without a backing file there is nothing to lock, and the call goes on.
UnmountOpen(p) ==
    /\ On(p, "uOpen")
    /\ req' = [req EXCEPT ![p].fd = file[N(p)],
                          ![p].pc = IF file[N(p)] = None THEN "uLook" ELSE "uLock"]
    /\ UNCHANGED <<record, disk, mountDir, kernel, lock, faults, pulled>>

UnmountLock(p) ==
    /\ On(p, "uLock") /\ Locks(p, req[p].fd) /\ Goto(p, "uLook")
    /\ UNCHANGED <<record, disk, mountDir, kernel, faults, pulled>>

\* The mount table is read: the first mount at the mount point names a device,
\* for a call without a backing file.
UnmountLook(p) ==
    /\ On(p, "uLook")
    /\ req' = [req EXCEPT ![p].dev = IF IsMounted(N(p)) /\ req[p].fd = None
                                      THEN mounts[N(p)][1] ELSE None,
                          ![p].seen = IsMounted(N(p)), ![p].pc = "uUmount"]
    /\ UNCHANGED <<record, disk, mountDir, kernel, lock, faults, pulled>>

UnmountUmount(p) ==
    /\ On(p, "uUmount")
    /\ \/ ~req[p].seen /\ Sound /\ Goto(p, "uFind") /\ UNCHANGED <<kernel, lock>>
       \/ /\ req[p].seen /\ mounts[N(p)] # <<>> /\ Sound
          /\ Unmounts(N(p)) /\ UNCHANGED lock
          /\ req' = [req EXCEPT ![p].pc = "uFind", ![p].seen = FALSE]
       \/ /\ req[p].seen
          /\ IF mounts[N(p)] = <<>> THEN Sound ELSE Faulty
          /\ UnmountReturns(p, FALSE) /\ UNCHANGED kernel
    /\ UNCHANGED <<record, disk, mountDir, pulled>>

\* The device to detach: of the inode that is open; else the one the mount
\* table named; else one attached to the image's path.
Found(p) ==
    IF req[p].fd # None THEN {k \in Loop : backing[k] = req[p].fd}
    ELSE IF req[p].dev # None THEN {req[p].dev} ELSE DevicesOf(N(p))

UnmountFind(p) ==
    /\ On(p, "uFind")
    /\ \/ /\ Found(p) = {} /\ UnmountReturns(p, TRUE)
       \/ /\ \E k \in Found(p) : req' = [req EXCEPT ![p].dev = k, ![p].pc = "uDetach"]
          /\ UNCHANGED lock
    /\ UNCHANGED <<record, disk, mountDir, kernel, faults, pulled>>

UnmountDetach(p) ==
    /\ On(p, "uDetach") /\ Clears(req[p].dev) /\ UnmountReturns(p, TRUE)
    /\ UNCHANGED <<record, disk, mountDir, faults>>

-------------------------------------------------------------------------------
(* The engine's callers *)

\* A request is accepted on what it finds, and acts on it later.
Begin(p, op, n, pc) ==
    /\ On(p, "idle") /\ req' = [req EXCEPT ![p] = At(op, n, pc)]
    /\ UNCHANGED <<record, disk, mountDir, kernel, lock, faults, pulled>>

\* A new project has neither half: no record and no backing file.
BeginCreate(p, n) ==
    /\ ~record[n] /\ file[n] = None /\ Len(madeFor) < MaxIno
    /\ Begin(p, "create", n, "allocate")

BeginStart(p, n) == record[n] /\ Begin(p, "start", n, "ensure")
BeginDelete(p, n) == record[n] /\ Begin(p, "delete", n, "uOpen")

\* Nobody's, and something is there: a mount point, an image, or a device.
Orphan(n) == ~record[n] /\ (mountDir[n] \/ file[n] # None \/ DevicesOf(n) # {})

BeginReconcile(p, n) == Orphan(n) /\ Begin(p, "reconcile", n, "uOpen")

\* create_new, never over a file that appeared meanwhile; mkfs, whose failure
\* leaves only the file to remove; the mount point.
CreateAllocate(p) ==
    /\ On(p, "allocate")
    /\ IF file[N(p)] # None \/ Len(madeFor) = MaxIno
       THEN Answer(p) /\ Sound /\ UNCHANGED <<disk, mountDir>>
       ELSE /\ madeFor' = Append(madeFor, N(p))
            /\ file' = [file EXCEPT ![N(p)] = Len(madeFor')]
            /\ \/ mountDir' = [mountDir EXCEPT ![N(p)] = TRUE] /\ Call(p, "mOpen") /\ Sound
               \/ Call(p, "undoFile") /\ Faulty /\ UNCHANGED mountDir
    /\ UNCHANGED <<record, kernel, lock, pulled>>

\* The container record: the volume outlives the guard from here on.
CreateCommit(p) ==
    /\ On(p, "commit")
    /\ \/ ~record[N(p)] /\ record' = [record EXCEPT ![N(p)] = TRUE] /\ Answer(p) /\ Sound
       \/ /\ IF record[N(p)] THEN Sound ELSE Faulty
          /\ Call(p, "uOpen") /\ UNCHANGED record
    /\ UNCHANGED <<disk, mountDir, kernel, lock, pulled>>

\* remove_file by name, whatever became of the release before it.
CreateUndoFile(p) ==
    /\ On(p, "undoFile") /\ file' = [file EXCEPT ![N(p)] = None] /\ Answer(p)
    /\ UNCHANGED <<record, madeFor, mountDir, kernel, lock, faults, pulled>>

\* ensure_volume_mounted: something mounted is accepted or refused by what backs
\* it; nothing mounted is mounted again, if the file is there.
StartEnsure(p) ==
    /\ On(p, "ensure")
    /\ IF IsMounted(N(p)) \/ file[N(p)] = None
       THEN Answer(p) /\ UNCHANGED mountDir
       ELSE mountDir' = [mountDir EXCEPT ![N(p)] = TRUE] /\ Call(p, "mOpen")
    /\ UNCHANGED <<record, disk, kernel, lock, faults, pulled>>

\* The image, and the mount point when nothing is mounted on it.
DeleteRemove(p) ==
    /\ On(p, "remove")
    /\ file' = [file EXCEPT ![N(p)] = None]
    /\ LET free == ~IsMounted(N(p))
       IN  /\ mountDir' = [mountDir EXCEPT ![N(p)] = @ /\ ~free]
           /\ req' = [q \in Proc |->
                         IF q = p THEN [req[p] EXCEPT !.pc = "forget"]
                         ELSE [req[q] EXCEPT !.pin = @ /\ (N(q) # N(p) \/ ~free)]]
    /\ UNCHANGED <<record, madeFor, kernel, lock, faults, pulled>>

DeleteForget(p) ==
    /\ On(p, "forget") /\ record' = [record EXCEPT ![N(p)] = FALSE] /\ Answer(p)
    /\ UNCHANGED <<disk, mountDir, kernel, lock, faults, pulled>>

-------------------------------------------------------------------------------
(* Faults *)

\* run_capturing: the installed helper speaks another protocol, or sudo refuses; the
\* caller sees a failed call, and nothing of it has happened.
CallRefused(p) ==
    /\ Faulty
    /\ \/ On(p, "mOpen") /\ MountReturns(p, FALSE)
       \/ On(p, "uOpen") /\ UnmountReturns(p, FALSE)
    /\ UNCHANGED <<record, disk, mountDir, kernel, pulled>>

\* The helper is killed, or a call of it that is no step here fails: the caller sees a
\* failed call, the kernel releases the lock and nothing else.
HelperDies(p) ==
    /\ Faulty
    /\ \/ req[p].pc \in MountPc \ {"mOpen"} /\ MountReturns(p, FALSE)
       \/ req[p].pc \in UnmountPc \ {"uOpen"} /\ UnmountReturns(p, FALSE)
    /\ UNCHANGED <<record, disk, mountDir, kernel, pulled>>

\* The engine dies, or drops the request, after it has changed something.
EngineDies(p) ==
    /\ Faulty /\ req[p].pc \in {"commit", "undoFile", "remove", "forget"} /\ Answer(p)
    /\ UNCHANGED <<record, disk, mountDir, kernel, lock, pulled>>

\* Mounts, devices and processes go; records, files and directories stay.
Reboot ==
    /\ Faulty
    /\ mounts' = [n \in Name |-> <<>>] /\ backing' = [k \in Loop |-> None] /\ clear' = {}
    /\ lock' = [i \in Ino |-> None] /\ req' = [p \in Proc |-> Idle]
    /\ UNCHANGED <<record, disk, mountDir, pulled>>

-------------------------------------------------------------------------------

MountStep(p) ==
    MountOpen(p) \/ MountCheck(p) \/ MountConfigure(p) \/ MountMount(p)
    \/ MountChown(p) \/ MountDetach(p)
UnmountStep(p) ==
    UnmountOpen(p) \/ UnmountLook(p) \/ UnmountUmount(p) \/ UnmountFind(p) \/ UnmountDetach(p)
EngineStep(p) ==
    CreateAllocate(p) \/ CreateCommit(p) \/ CreateUndoFile(p) \/ StartEnsure(p)
    \/ DeleteRemove(p) \/ DeleteForget(p)

LockStep(p) == MountLock(p) \/ UnmountLock(p)
Step(p) == MountStep(p) \/ UnmountStep(p) \/ EngineStep(p)
Reconciles(n) == \E p \in Proc : BeginReconcile(p, n)

Next ==
    \/ \E p \in Proc : MountStep(p) \/ UnmountStep(p) \/ EngineStep(p) \/ LockStep(p)
    \/ \E p \in Proc, n \in Name : BeginCreate(p, n) \/ BeginStart(p, n) \/ BeginDelete(p, n)
    \/ \E n \in Name : Reconciles(n)
    \/ \E p \in Proc : CallRefused(p) \/ HelperDies(p) \/ EngineDies(p)
    \/ Reboot

\* A helper runs on, the kernel hands a released lock to one that waits, and
\* reconcile is run again and again.
Fairness ==
    /\ \A p \in Proc : WF_vars(Step(p)) /\ SF_vars(LockStep(p))
    /\ \A n \in Name : SF_vars(Reconciles(n))

Spec == Init /\ [][Next]_vars /\ Fairness

-------------------------------------------------------------------------------
(* Properties *)

MountedDevices == {k \in Loop : InUse(k, mounts)}

\* The type of every variable; a device that detaches itself is a mounted one.
TypeOK ==
    /\ record \in [Name -> BOOLEAN]
    /\ file \in [Name -> Ino \cup {None}]
    /\ madeFor \in Seq(Name) /\ Len(madeFor) <= MaxIno
    /\ mountDir \in [Name -> BOOLEAN]
    /\ mounts \in [Name -> Seq(Loop)]
    /\ backing \in [Loop -> Ino \cup {None}]
    /\ clear \subseteq MountedDevices
    /\ lock \in [Ino -> Proc \cup {None}]
    /\ req \in [Proc -> Request]
    /\ faults \in 0..MaxFault /\ pulled \in BOOLEAN

\* One image is never mounted through two loop devices: two read-write ext4
\* superblocks over one set of bytes (safe.rs, FileLock), unless an unmount that
\* held no lock has pulled a device from a mount call.
NoTwoDevices ==
    \/ pulled
    \/ \A j, k \in MountedDevices : backing[j] = backing[k] => j = k

\* What is mounted at a project's mount point is an image of that project
\* (F-28): a device number that is given back and taken by another project
\* never carries that project's volume here.
OwnVolume ==
    \/ pulled
    \/ \A n \in Name : \A i \in DOMAIN mounts[n] :
          /\ backing[mounts[n][i]] # None
          /\ madeFor[backing[mounts[n][i]]] = n

\* project.rs: any mount and any loop device that no current record owns is an
\* orphan and is reclaimed.
ReclaimsAll ==
    \A n \in Name : <>[](record[n] \/ (mounts[n] = <<>> /\ DevicesOf(n) = {}))


=================================================================================
