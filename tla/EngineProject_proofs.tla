------------------------- MODULE EngineProject_proofs -------------------------
(***************************************************************************)
(* For any projects and any number of requests: what start needs is there  *)
(* as long as requests come one at a time, and a reconcile nothing         *)
(* disturbed leaves nothing of a project that does not exist.              *)
(***************************************************************************)
EXTENDS EngineProject, TLAPS

-------------------------------------------------------------------------------
(* Types *)

CtrTypes ==
    /\ record \in [Name -> BOOLEAN] /\ snapshot \in [Name -> BOOLEAN]
    /\ task \in [Name -> Place \cup {"none", "exited"}]
    /\ wired \in [Name -> BOOLEAN]
DiskTypes ==
    /\ image \in [Name -> BOOLEAN] /\ loop \in [Name -> SUBSET Volumes]
    /\ mounted \in [Name -> Volumes \cup {"no"}]
    /\ mountDir \in [Name -> BOOLEAN] /\ dirs \in [Name -> SUBSET Place]
RpcTypes == rpc \in [Slot -> Request]
HistoryTypes == quiet \in BOOLEAN /\ alone \in BOOLEAN

LEMMA TypeParts ==
    /\ TypeOK <=> CtrTypes /\ DiskTypes /\ RpcTypes /\ HistoryTypes
    /\ TypeOK' <=> CtrTypes' /\ DiskTypes' /\ RpcTypes' /\ HistoryTypes'
  BY DEF TypeOK, CtrTypes, DiskTypes, RpcTypes, HistoryTypes

LEMMA Kept ==
    /\ CtrTypes /\ UNCHANGED ctr => CtrTypes'
    /\ DiskTypes /\ UNCHANGED disk => DiskTypes'
    /\ RpcTypes /\ UNCHANGED rpc => RpcTypes'
    /\ HistoryTypes /\ UNCHANGED history => HistoryTypes'
  BY DEF CtrTypes, DiskTypes, RpcTypes, HistoryTypes, ctr, disk, history

LEMMA AnyNameIsName == AnyName \in Name
  BY NameAssumption DEF AnyName

LEMMA AtTypes ==
    /\ \A pc \in Pc, n \in Name, b \in BOOLEAN :
          At(pc, n) \in Request /\ [At(pc, n) EXCEPT !.import = b] \in Request
    /\ Idle \in Request
  BY AnyNameIsName DEF At, Idle, Request

\* A request alone moves: what the four ways to move it leave of it.
LEMMA GoesTo ==
    ASSUME RpcTypes, NEW r \in Slot, NEW pc \in Pc, Goto(r, pc)
    PROVE  /\ RpcTypes'
           /\ rpc'[r].pc = pc
           /\ rpc'[r].name = rpc[r].name /\ rpc'[r].import = rpc[r].import
           /\ rpc'[r].known = rpc[r].known /\ rpc'[r].rest = rpc[r].rest
           /\ rpc'[r].seen = rpc[r].seen
           /\ \A s \in Slot : s # r => rpc'[s] = rpc[s]
<1> DEFINE new == [rpc[r] EXCEPT !.pc = pc]
<1>1. rpc[r] \in Request
  BY DEF RpcTypes
<1>2. new \in Request /\ new.pc = pc /\ new.name = rpc[r].name
      /\ new.import = rpc[r].import /\ new.known = rpc[r].known
      /\ new.rest = rpc[r].rest /\ new.seen = rpc[r].seen
  BY <1>1 DEF Request
<1>3. rpc' = [rpc EXCEPT ![r] = new]
  BY DEF Goto
<1> HIDE DEF new
<1>4. rpc'[r] = new /\ RpcTypes' /\ \A s \in Slot : s # r => rpc'[s] = rpc[s]
  BY <1>2, <1>3 DEF RpcTypes
<1>5. QED
  BY <1>2, <1>4

LEMMA Answers ==
    ASSUME RpcTypes, NEW r \in Slot, Answer(r)
    PROVE  /\ RpcTypes'
           /\ rpc'[r].pc = "idle"
           /\ \A s \in Slot : s # r => rpc'[s] = rpc[s]
<1>1. rpc'[r] = Idle /\ RpcTypes' /\ \A s \in Slot : s # r => rpc'[s] = rpc[s]
  BY AtTypes DEF RpcTypes, Answer
<1>2. QED
  BY <1>1 DEF Idle, At

LEMMA Phases ==
    ASSUME RpcTypes, NEW r \in Slot, NEW pc \in Pc, NEW known \in SUBSET Name,
           NEW seen \in SUBSET Name, ToPhase(r, pc, known, seen)
    PROVE  /\ RpcTypes'
           /\ rpc'[r].pc = pc /\ rpc'[r].name = rpc[r].name
           /\ rpc'[r].known = known /\ rpc'[r].seen = seen
           /\ rpc'[r].rest = Name \ known
           /\ \A s \in Slot : s # r => rpc'[s] = rpc[s]
<1> DEFINE new == [rpc[r] EXCEPT !.pc = pc, !.known = known, !.seen = seen,
                                 !.rest = Name \ known]
<1>1. rpc[r] \in Request
  BY DEF RpcTypes
<1>2. new \in Request /\ new.pc = pc /\ new.known = known /\ new.seen = seen
      /\ new.rest = Name \ known /\ new.name = rpc[r].name
  BY <1>1 DEF Request
<1>3. rpc' = [rpc EXCEPT ![r] = new]
  BY <1>1 DEF ToPhase, RpcTypes
<1> HIDE DEF new
<1>4. rpc'[r] = new /\ RpcTypes' /\ \A s \in Slot : s # r => rpc'[s] = rpc[s]
  BY <1>2, <1>3 DEF RpcTypes
<1>5. QED
  BY <1>2, <1>4

LEMMA HandledMoves ==
    ASSUME RpcTypes, NEW r \in Slot, NEW n \in Name, NEW b \in BOOLEAN, Handled(r, n, b)
    PROVE  /\ RpcTypes'
           /\ rpc'[r].pc = rpc[r].pc /\ rpc'[r].name = rpc[r].name
           /\ rpc'[r].known = rpc[r].known
           /\ rpc'[r].seen = IF b THEN rpc[r].seen \cup {n} ELSE rpc[r].seen
           /\ rpc'[r].rest = rpc[r].rest \ {n}
           /\ \A s \in Slot : s # r => rpc'[s] = rpc[s]
<1> DEFINE new == [rpc[r] EXCEPT !.rest = @ \ {n},
                                 !.seen = IF b THEN @ \cup {n} ELSE @]
<1>1. rpc[r] \in Request
  BY DEF RpcTypes
<1>2. new \in Request /\ new.pc = rpc[r].pc /\ new.known = rpc[r].known
      /\ new.seen = (IF b THEN rpc[r].seen \cup {n} ELSE rpc[r].seen)
      /\ new.rest = rpc[r].rest \ {n} /\ new.name = rpc[r].name
  BY <1>1 DEF Request
<1>3. rpc' = [rpc EXCEPT ![r] = new]
  BY <1>1 DEF Handled, RpcTypes
<1> HIDE DEF new
<1>4. rpc'[r] = new /\ RpcTypes' /\ \A s \in Slot : s # r => rpc'[s] = rpc[s]
  BY <1>2, <1>3 DEF RpcTypes
<1>5. QED
  BY <1>2, <1>4

\* What a step of a request leaves of every other request, and of the history.
Steps(r) ==
    /\ rpc[r].pc # "idle"
    /\ RpcTypes'
    /\ \A s \in Slot : s # r => rpc'[s] = rpc[s]
    /\ alone' = alone
    /\ quiet' = quiet \/ quiet' = FALSE

LEMMA CreateSteps ==
    ASSUME RpcTypes, NEW r \in Slot, Create(r)
    PROVE  Steps(r)
<1> USE GoesTo, Answers DEF Steps, On, history, Disturbed, Pc, CreatePc, TransferPc
<1>1. CASE CreateCheck(r)
  BY <1>1 DEF CreateCheck, Checks
<1>2. CASE CreateAllocate(r)
  BY <1>2 DEF CreateAllocate
<1>3. CASE CreateMount(r)
  BY <1>3 DEF CreateMount
<1>4. CASE CreateFormatFails(r)
  BY <1>4 DEF CreateFormatFails
<1>5. CASE CreateDirs(r)
  BY <1>5 DEF CreateDirs
<1>6. CASE CreateIndex(r)
  BY <1>6 DEF CreateIndex
<1>7. CASE CreatePrepare(r)
  BY <1>7 DEF CreatePrepare
<1>8. CASE CreateInsert(r)
  BY <1>8 DEF CreateInsert
<1>9. CASE CreatePersist(r)
  BY <1>9 DEF CreatePersist
<1>10. CASE UndoSnapshot(r)
  BY <1>10 DEF UndoSnapshot
<1>11. CASE UndoMount(r)
  BY <1>11 DEF UndoMount, TriesUnmount, HelperUnmounts, HelperFails
<1>12. CASE UndoImage(r)
  BY <1>12 DEF UndoImage
<1>13. CASE DropVolume(r)
  BY <1>13 DEF DropVolume, TriesUnmount, HelperUnmounts, HelperFails
<1>14. QED
  BY <1>1, <1>2, <1>3, <1>4, <1>5, <1>6, <1>7, <1>8, <1>9, <1>10, <1>11, <1>12, <1>13
     DEF Create

LEMMA StartSteps ==
    ASSUME RpcTypes, NEW r \in Slot, Start(r)
    PROVE  Steps(r)
<1> USE GoesTo, Answers DEF Steps, On, history, Disturbed, Pc, StartPc
<1>1. CASE StartResolve(r)
  BY <1>1 DEF StartResolve, Checks
<1>2. CASE StartEnsure(r)
  BY <1>2 DEF StartEnsure, EnsuresMounted
<1>3. CASE StartTaskState(r)
  BY <1>3 DEF StartTaskState
<1>4. CASE StartCreateTask(r)
  BY <1>4 DEF StartCreateTask
<1>5. CASE StartWire(r)
  BY <1>5 DEF StartWire
<1>6. CASE StartUnwire(r)
  BY <1>6 DEF StartUnwire
<1>7. QED
  BY <1>1, <1>2, <1>3, <1>4, <1>5, <1>6 DEF Start

LEMMA StopAndDeleteSteps ==
    ASSUME RpcTypes, NEW r \in Slot, Stop(r) \/ Delete(r)
    PROVE  Steps(r)
<1> USE GoesTo, Answers DEF Steps, On, history, Disturbed, Pc, StopPc, DeletePc
<1>1. CASE StopResolve(r)
  BY <1>1 DEF StopResolve, Checks
<1>2. CASE StopTask(r)
  BY <1>2 DEF StopTask
<1>3. CASE StopDisconnect(r)
  BY <1>3 DEF StopDisconnect
<1>4. CASE DeleteResolve(r)
  BY <1>4 DEF DeleteResolve, Checks
<1>5. CASE DeleteStop(r)
  BY <1>5 DEF DeleteStop
<1>6. CASE DeleteDisconnect(r)
  BY <1>6 DEF DeleteDisconnect, AfterDisconnect
<1>7. CASE DeleteRelease(r)
  BY <1>7 DEF DeleteRelease, HelperUnmounts, HelperFails
<1>8. CASE DeleteUnlink(r)
  BY <1>8 DEF DeleteUnlink
<1>9. CASE DeleteRecord(r)
  BY <1>9 DEF DeleteRecord
<1>10. CASE DeleteSnapshot(r)
  BY <1>10 DEF DeleteSnapshot
<1>11. QED
  BY <1>1, <1>2, <1>3, <1>4, <1>5, <1>6, <1>7, <1>8, <1>9, <1>10 DEF Stop, Delete

LEMMA TransferSteps ==
    ASSUME RpcTypes, NEW r \in Slot, Transfer(r)
    PROVE  Steps(r)
<1> USE GoesTo, Answers
    DEF Steps, On, history, Disturbed, Pc, TransferPc, DeletePc, TransferFails, TransferChecks
<1>1. CASE TransferResolve(r)
  BY <1>1 DEF TransferResolve
<1>2. CASE TransferState(r)
  BY <1>2 DEF TransferState
<1>3. CASE TransferEnsure(r)
  BY <1>3 DEF TransferEnsure, EnsuresMounted
<1>4. CASE TransferEnds(r)
  BY <1>4 DEF TransferEnds
<1>5. QED
  BY <1>1, <1>2, <1>3, <1>4 DEF Transfer

LEMMA ReconcileSteps ==
    ASSUME RpcTypes, NEW r \in Slot, Reconcile(r)
    PROVE  Steps(r)
<1> USE GoesTo, Answers DEF Steps, On, history, Disturbed, Pc, ReconcilePc
<1>1. rpc[r].known \in SUBSET Name /\ rpc[r].seen \in SUBSET Name
  BY DEF RpcTypes, Request
<1>2. CASE ReconcileList(r)
  BY SMTT(60), <1>2, Phases DEF ReconcileList
<1>3. CASE ReconcilePhase(r)
  BY SMTT(60), <1>1, <1>3, Phases DEF ReconcilePhase
<1>4. CASE ReconcileSnapshots(r)
  BY <1>4 DEF ReconcileSnapshots
<1>5. ASSUME NEW n \in Name, ReconcileMount(r, n)
      PROVE  Steps(r)
  BY <1>5, HandledMoves DEF ReconcileMount, HelperUnmounts, HelperFails
<1>6. ASSUME NEW n \in Name, ReconcileImage(r, n)
      PROVE  Steps(r)
  BY <1>6, HandledMoves DEF ReconcileImage, TriesUnmount, HelperUnmounts, HelperFails
<1>7. ASSUME NEW n \in Name, ReconcileStranded(r, n)
      PROVE  Steps(r)
  BY <1>7, HandledMoves DEF ReconcileStranded, TriesUnmount, HelperUnmounts, HelperFails
<1>8. QED
  BY <1>2, <1>3, <1>4, <1>5, <1>6, <1>7 DEF Reconcile

LEMMA CancelSteps ==
    ASSUME RpcTypes, NEW r \in Slot, Cancel(r)
    PROVE  Steps(r)
  BY GoesTo, Answers
     DEF Cancel, Steps, history, GuardedAwaits, Awaits, Pc, CreatePc

Acts(r) == \/ Create(r) \/ Start(r) \/ Stop(r) \/ Delete(r)
           \/ Transfer(r) \/ Reconcile(r) \/ Cancel(r)

LEMMA ActsStep ==
    ASSUME RpcTypes, NEW r \in Slot, Acts(r)
    PROVE  Steps(r)
  BY CreateSteps, StartSteps, StopAndDeleteSteps, TransferSteps, ReconcileSteps, CancelSteps
     DEF Acts

LEMMA NextActs ==
    Next <=> \/ \E r \in Slot, n \in Name : Begin(r, n)
             \/ \E r \in Slot : Acts(r)
             \/ \E n \in Name : TaskExits(n)
             \/ DaemonDies \/ Reboot
  BY DEF Next, Acts

\* What the calls of the helper and of the filesystem keep well typed.
LEMMA HelperTypes ==
    ASSUME DiskTypes, NEW n \in Name
    PROVE  /\ HelperMounts(n) => loop' \in [Name -> SUBSET Volumes]
                                 /\ mounted' \in [Name -> Volumes \cup {"no"}]
           /\ HelperUnmounts(n) => DiskTypes'
           /\ UnlinksImage(n) => image' \in [Name -> BOOLEAN]
                                 /\ loop' \in [Name -> SUBSET Volumes]
                                 /\ mounted' \in [Name -> Volumes \cup {"no"}]
                                 /\ dirs' \in [Name -> SUBSET Place]
           /\ View(n) \in Place \cup {"nothing"} /\ DirsLand(n) \in Place
<1>1. HelperMounts(n) => loop' \in [Name -> SUBSET Volumes]
                         /\ mounted' \in [Name -> Volumes \cup {"no"}]
  BY DEF DiskTypes, HelperMounts, Volumes
<1>2. HelperUnmounts(n) => DiskTypes'
  BY DEF DiskTypes, HelperUnmounts, Volumes, Place
<1>3. UnlinksImage(n) => image' \in [Name -> BOOLEAN]
                         /\ loop' \in [Name -> SUBSET Volumes]
                         /\ mounted' \in [Name -> Volumes \cup {"no"}]
                         /\ dirs' \in [Name -> SUBSET Place]
  BY DEF DiskTypes, UnlinksImage, Unlinked, Volumes, Place
<1>4. View(n) \in Place \cup {"nothing"} /\ DirsLand(n) \in Place
  BY DEF DiskTypes, View, DirsLand, Volumes, Place
<1>5. QED
  BY <1>1, <1>2, <1>3, <1>4

LEMMA CreateTypes ==
    ASSUME CtrTypes, DiskTypes, RpcTypes, NEW r \in Slot, Create(r)
    PROVE  CtrTypes' /\ DiskTypes'
<1>0. N(r) \in Name
  BY DEF N, RpcTypes, Request
<1>a. CreateAllocate(r) => image' \in [Name -> BOOLEAN]
  BY DEF CreateAllocate, DiskTypes
<1>b. CreateDirs(r) => dirs' \in [Name -> SUBSET Place] /\ mountDir' \in [Name -> BOOLEAN]
  <2>1. DirsLand(N(r)) \in Place
    BY <1>0, HelperTypes
  <2>2. CreateDirs(r) => dirs' \in [Name -> SUBSET Place]
    BY <1>0, <2>1 DEF CreateDirs, DiskTypes
  <2>3. CreateDirs(r) => mountDir' \in [Name -> BOOLEAN]
    BY <1>0 DEF CreateDirs, DiskTypes
  <2>4. QED
    BY <2>2, <2>3
<1> USE <1>0, Kept, HelperTypes DEF CtrTypes, DiskTypes, ctr, disk
<1>1. CASE CreateCheck(r)
  BY <1>1 DEF CreateCheck, Checks
<1>2. CASE CreateAllocate(r)
  BY <1>2, <1>a DEF CreateAllocate
<1>3. CASE CreateMount(r)
  BY <1>3 DEF CreateMount
<1>4. CASE CreateFormatFails(r) \/ CreateIndex(r) \/ CreatePersist(r)
  BY <1>4 DEF CreateFormatFails, CreateIndex, CreatePersist
<1>5. CASE CreateDirs(r)
  BY <1>5, <1>b DEF CreateDirs
<1>6. CASE CreatePrepare(r)
  BY ZenonT(60), <1>6 DEF CreatePrepare
<1>7. CASE CreateInsert(r)
  BY ZenonT(60), <1>7 DEF CreateInsert
<1>8. CASE UndoSnapshot(r)
  BY ZenonT(60), <1>8 DEF UndoSnapshot, RemovesSnapshot
<1>9. CASE UndoMount(r) \/ DropVolume(r)
  BY <1>9 DEF UndoMount, DropVolume, TriesUnmount, HelperFails
<1>10. CASE UndoImage(r)
  <2>1. task' \in [Name -> Place \cup {"none", "exited"}]
    BY <1>10 DEF UndoImage, UnlinksImage, Place
  <2>2. QED
    BY <1>10, <2>1 DEF UndoImage
<1>11. QED
  BY <1>1, <1>2, <1>3, <1>4, <1>5, <1>6, <1>7, <1>8, <1>9, <1>10 DEF Create

LEMMA EnsuresTypes ==
    ASSUME CtrTypes, DiskTypes, RpcTypes, NEW r \in Slot, NEW pc, EnsuresMounted(r, pc)
    PROVE  CtrTypes' /\ DiskTypes'
<1>1. N(r) \in Name
  BY DEF N, RpcTypes, Request
<1>2. QED
  BY <1>1, Kept, HelperTypes DEF EnsuresMounted, DiskTypes, ctr, disk

LEMMA StartTypes ==
    ASSUME CtrTypes, DiskTypes, RpcTypes, NEW r \in Slot, Start(r)
    PROVE  CtrTypes' /\ DiskTypes'
<1>0. N(r) \in Name
  BY DEF N, RpcTypes, Request
<1> USE <1>0, Kept, HelperTypes DEF CtrTypes
<1>1. CASE StartResolve(r)
  BY <1>1 DEF StartResolve, Checks
<1>2. CASE StartEnsure(r)
  BY <1>2, EnsuresTypes DEF StartEnsure
<1>3. CASE StartTaskState(r)
  BY <1>3 DEF StartTaskState
<1>4. CASE StartCreateTask(r)
  <2>1. BindsResolve(N(r)) => View(N(r)) \in Place
    BY DEF BindsResolve, DiskTypes
  <2>2. QED
    BY <1>4, <2>1 DEF StartCreateTask
<1>5. CASE StartWire(r)
  BY <1>5 DEF StartWire
<1>6. CASE StartUnwire(r)
  BY <1>6 DEF StartUnwire, Stops
<1>7. QED
  BY <1>1, <1>2, <1>3, <1>4, <1>5, <1>6 DEF Start

LEMMA StopAndDeleteTypes ==
    ASSUME CtrTypes, DiskTypes, RpcTypes, NEW r \in Slot, Stop(r) \/ Delete(r)
    PROVE  CtrTypes' /\ DiskTypes'
<1>0. N(r) \in Name
  BY DEF N, RpcTypes, Request
<1> USE <1>0, Kept, HelperTypes DEF CtrTypes
<1>1. CASE StopResolve(r) \/ DeleteResolve(r)
  BY <1>1 DEF StopResolve, DeleteResolve, Checks
<1>2. CASE StopTask(r) \/ DeleteStop(r)
  BY <1>2 DEF StopTask, DeleteStop, StoppedOk, Stops, Wedges
<1>3. CASE StopDisconnect(r) \/ DeleteDisconnect(r)
  BY <1>3 DEF StopDisconnect, DeleteDisconnect, Disconnects
<1>4. CASE DeleteRelease(r)
  BY <1>4 DEF DeleteRelease, HelperFails
<1>5. CASE DeleteUnlink(r)
  <2>1. task' \in [Name -> Place \cup {"none", "exited"}]
    BY <1>5 DEF DeleteUnlink, UnlinksImage, Place
  <2>2. mountDir' \in [Name -> BOOLEAN]
    BY <1>5 DEF DeleteUnlink, DiskTypes
  <2>3. QED
    BY <1>5, <2>1, <2>2 DEF DeleteUnlink, DiskTypes
<1>6. CASE DeleteRecord(r)
  BY <1>6 DEF DeleteRecord
<1>7. CASE DeleteSnapshot(r)
  BY <1>7 DEF DeleteSnapshot, RemovesSnapshot
<1>8. QED
  BY <1>1, <1>2, <1>3, <1>4, <1>5, <1>6, <1>7 DEF Stop, Delete

LEMMA TransferTypes ==
    ASSUME CtrTypes, DiskTypes, RpcTypes, NEW r \in Slot, Transfer(r)
    PROVE  CtrTypes' /\ DiskTypes'
<1>1. CASE TransferResolve(r) \/ TransferState(r) \/ TransferEnds(r)
  BY <1>1, Kept DEF TransferResolve, TransferState, TransferEnds, TransferChecks
<1>2. CASE TransferEnsure(r)
  BY <1>2, EnsuresTypes, Kept DEF TransferEnsure
<1>3. QED
  BY <1>1, <1>2 DEF Transfer

LEMMA ReconcileTypes ==
    ASSUME CtrTypes, DiskTypes, RpcTypes, NEW r \in Slot, Reconcile(r)
    PROVE  CtrTypes' /\ DiskTypes'
<1> USE Kept, HelperTypes
<1>1. CASE ReconcileList(r) \/ ReconcilePhase(r)
  BY <1>1 DEF ReconcileList, ReconcilePhase
<1>2. CASE ReconcileSnapshots(r)
  BY <1>2 DEF ReconcileSnapshots, CtrTypes
<1>3. ASSUME NEW n \in Name, ReconcileMount(r, n) \/ ReconcileImage(r, n) \/ ReconcileStranded(r, n)
      PROVE  CtrTypes' /\ DiskTypes'
  BY <1>3 DEF ReconcileMount, ReconcileImage, ReconcileStranded, TriesUnmount, HelperFails
<1>4. QED
  BY <1>1, <1>2, <1>3 DEF Reconcile

LEMMA BeginTypes ==
    ASSUME RpcTypes, NEW r \in Slot, NEW n \in Name, Begin(r, n)
    PROVE  RpcTypes' /\ \A s \in Slot : s # r => rpc'[s] = rpc[s]
<1>1. \E new \in Request : rpc' = [rpc EXCEPT ![r] = new]
  BY AtTypes, AnyNameIsName
     DEF Begin, Pc, StartPc, StopPc, DeletePc, TransferPc, CreatePc, ReconcilePc
<1>2. QED
  BY <1>1 DEF RpcTypes

LEMMA InitTypes == Init => TypeOK
<1> SUFFICES ASSUME Init PROVE CtrTypes /\ DiskTypes /\ RpcTypes /\ HistoryTypes
  BY TypeParts
<1>1. CtrTypes
  BY DEF Init, CtrTypes
<1>2. DiskTypes
  BY DEF Init, DiskTypes
<1>3. RpcTypes /\ HistoryTypes
  BY AtTypes DEF Init, RpcTypes, HistoryTypes
<1>4. QED
  BY <1>1, <1>2, <1>3

LEMMA StepTypes == TypeOK /\ [Next]_vars => TypeOK'
<1> SUFFICES ASSUME CtrTypes, DiskTypes, RpcTypes, HistoryTypes, [Next]_vars
             PROVE  CtrTypes' /\ DiskTypes' /\ RpcTypes' /\ HistoryTypes'
  BY TypeParts
<1>1. ASSUME NEW r \in Slot, NEW n \in Name, Begin(r, n)
      PROVE  CtrTypes' /\ DiskTypes' /\ RpcTypes' /\ HistoryTypes'
  <2>1. HistoryTypes'
    BY <1>1 DEF Begin, HistoryTypes, On
  <2>2. QED
    BY <1>1, <2>1, BeginTypes, Kept DEF Begin
<1>2. ASSUME NEW r \in Slot, Acts(r)
      PROVE  CtrTypes' /\ DiskTypes' /\ RpcTypes' /\ HistoryTypes'
  <2>1. RpcTypes' /\ HistoryTypes'
    BY <1>2, ActsStep DEF Steps, HistoryTypes
  <2>2. Cancel(r) => CtrTypes' /\ DiskTypes'
    BY Kept DEF Cancel
  <2>3. QED
    BY <1>2, <2>1, <2>2, CreateTypes, StartTypes, StopAndDeleteTypes, TransferTypes,
       ReconcileTypes DEF Acts
<1>3. ASSUME NEW n \in Name, TaskExits(n)
      PROVE  CtrTypes' /\ DiskTypes' /\ RpcTypes' /\ HistoryTypes'
  BY <1>3, Kept DEF TaskExits, CtrTypes
<1>4. CASE DaemonDies
  BY <1>4, Kept, AtTypes DEF DaemonDies, Disturbed, RpcTypes, HistoryTypes
<1>5. CASE Reboot
  BY <1>5, AtTypes
     DEF Reboot, Disturbed, RpcTypes, HistoryTypes, CtrTypes, DiskTypes, Volumes, Place
<1>6. CASE UNCHANGED vars
  BY <1>6, Kept DEF vars
<1>7. QED
  BY <1>1, <1>2, <1>3, <1>4, <1>5, <1>6, NextActs

\* Every variable keeps its type.
THEOREM TypeCorrect == Spec => []TypeOK
  BY InitTypes, StepTypes, PTL DEF Spec

-------------------------------------------------------------------------------
(* What start needs of a project *)

\* As long as requests have come one at a time, and while an undisturbed
\* reconcile runs, all the others are idle.
Solitary ==
    alone \/ quiet => \A r, s \in Slot : r = s \/ On(r, "idle") \/ On(s, "idle")

\* A mount has its mount point, and a loop device of the image has the file.
DiskInv ==
    \A n \in Name : /\ mounted[n] # "no" => mountDir[n]
                    /\ "image" \in loop[n] => image[n]

Ready == \A n \in Name : record[n] /\ image[n] => snapshot[n] /\ "image" \in dirs[n]

\* What a request relies on that is alone: no record while it creates one or
\* after it deleted one, the volume where it made the directories, what it made
\* before the record, and the projects of reconcile's first list.
Unrecorded == {"allocate", "mount", "dirs", "index", "prepare", "insert",
               "undoSnapshot", "deleteSnapshot"}
Known(r) == rpc[r].pc \in {"mounts", "images", "untracked", "snapshots"}
               => rpc[r].known = {n \in Name : record[n]}
Made(r) ==
    /\ rpc[r].pc \in Unrecorded => ~record[N(r)]
    /\ On(r, "dirs") => mounted[N(r)] = "image"
    /\ rpc[r].pc \in {"index", "prepare", "insert"} => "image" \in dirs[N(r)]
    /\ On(r, "insert") => snapshot[N(r)]
    /\ Known(r)

AloneInv == alone => Ready /\ \A r \in Slot : Made(r)

LEMMA NameOf == RpcTypes => \A r \in Slot : N(r) \in Name /\ rpc[r] \in Request
  BY DEF N, RpcTypes, Request

LEMMA CreateMakes ==
    ASSUME TypeOK, NEW r \in Slot, Ready, Made(r), Create(r)
    PROVE  Ready' /\ Made(r)'
<1>0. N(r) \in Name /\ RpcTypes /\ CtrTypes /\ DiskTypes
  BY NameOf, TypeParts
<1> USE <1>0, GoesTo, Answers
    DEF Ready, Made, Known, On, N, Unrecorded, ctr, disk, Pc, CreatePc, TransferPc
<1>1. CASE CreateCheck(r)
  BY <1>1 DEF CreateCheck, Checks
<1>2. CASE CreateAllocate(r)
  BY <1>2 DEF CreateAllocate, DiskTypes
<1>3. CASE CreateMount(r)
  BY <1>3 DEF CreateMount, HelperMounts, DiskTypes
<1>4. CASE CreateFormatFails(r) \/ CreateIndex(r) \/ CreatePersist(r)
  BY <1>4 DEF CreateFormatFails, CreateIndex, CreatePersist
<1>5. CASE CreateDirs(r)
  BY <1>5 DEF CreateDirs, DirsLand, View, DiskTypes
<1>6. CASE CreatePrepare(r)
  BY <1>6 DEF CreatePrepare, CtrTypes
<1>7. CASE CreateInsert(r)
  BY <1>7 DEF CreateInsert, CtrTypes
<1>8. CASE UndoSnapshot(r)
  BY <1>8 DEF UndoSnapshot, RemovesSnapshot, CtrTypes
<1>9. CASE UndoMount(r) \/ DropVolume(r)
  BY <1>9 DEF UndoMount, DropVolume, TriesUnmount, HelperUnmounts, HelperFails, DiskTypes
<1>10. CASE UndoImage(r)
  BY <1>10 DEF UndoImage, UnlinksImage, DiskTypes
<1>11. QED
  BY <1>1, <1>2, <1>3, <1>4, <1>5, <1>6, <1>7, <1>8, <1>9, <1>10 DEF Create

LEMMA EnsuresMakes ==
    ASSUME TypeOK, NEW r \in Slot, Ready, NEW pc, EnsuresMounted(r, pc)
    PROVE  Ready' /\ record' = record /\ image' = image
  BY DEF EnsuresMounted, Ready, ctr, disk

LEMMA StartMakes ==
    ASSUME TypeOK, NEW r \in Slot, Ready, Made(r), Start(r)
    PROVE  Ready' /\ Made(r)'
<1>0. N(r) \in Name /\ RpcTypes /\ CtrTypes /\ DiskTypes
  BY NameOf, TypeParts
<1> USE <1>0, GoesTo, Answers DEF Made, Known, On, N, Unrecorded, Pc, StartPc
<1>1. CASE StartResolve(r)
  BY <1>1 DEF StartResolve, Checks, Ready, ctr, disk
<1>2. CASE StartEnsure(r)
  <2>1. Ready'
    BY <1>2, EnsuresMakes DEF StartEnsure
  <2>2. Goto(r, "taskState") \/ Answer(r)
    BY <1>2 DEF StartEnsure, EnsuresMounted
  <2>3. QED
    BY <2>1, <2>2
<1>3. CASE StartTaskState(r) \/ StartCreateTask(r) \/ StartWire(r) \/ StartUnwire(r)
  <2>1. Ready'
    BY <1>3 DEF Ready, StartTaskState, StartCreateTask, StartWire, StartUnwire, Stops,
                ctr, disk
  <2>2. Goto(r, "createTask") \/ Goto(r, "wire") \/ Goto(r, "unwire") \/ Answer(r)
    BY <1>3 DEF StartTaskState, StartCreateTask, StartWire, StartUnwire
  <2>3. QED
    BY <2>1, <2>2
<1>4. QED
  BY <1>1, <1>2, <1>3 DEF Start

LEMMA StopAndDeleteMakes ==
    ASSUME TypeOK, NEW r \in Slot, Ready, Made(r), Stop(r) \/ Delete(r)
    PROVE  Ready' /\ Made(r)'
<1>0. N(r) \in Name /\ RpcTypes /\ CtrTypes /\ DiskTypes
  BY NameOf, TypeParts
<1> USE <1>0, GoesTo, Answers
    DEF Ready, Made, Known, On, N, Unrecorded, ctr, disk, Pc, StopPc, DeletePc
<1>1. CASE StopResolve(r) \/ DeleteResolve(r)
  BY <1>1 DEF StopResolve, DeleteResolve, Checks
<1>2. CASE StopTask(r) \/ DeleteStop(r)
  BY <1>2 DEF StopTask, DeleteStop, StoppedOk, Stops, Wedges
<1>3. CASE StopDisconnect(r) \/ DeleteDisconnect(r)
  BY <1>3 DEF StopDisconnect, DeleteDisconnect, Disconnects, AfterDisconnect
<1>4. CASE DeleteRelease(r)
  BY <1>4 DEF DeleteRelease, HelperUnmounts, HelperFails, DiskTypes
<1>5. CASE DeleteUnlink(r)
  BY <1>5 DEF DeleteUnlink, UnlinksImage, DiskTypes
<1>6. CASE DeleteRecord(r)
  BY <1>6 DEF DeleteRecord, CtrTypes
<1>7. CASE DeleteSnapshot(r)
  BY <1>7 DEF DeleteSnapshot, RemovesSnapshot, CtrTypes
<1>8. QED
  BY <1>1, <1>2, <1>3, <1>4, <1>5, <1>6, <1>7 DEF Stop, Delete

LEMMA TransferMakes ==
    ASSUME TypeOK, NEW r \in Slot, Ready, Made(r), Transfer(r)
    PROVE  Ready' /\ Made(r)'
<1>0. N(r) \in Name /\ RpcTypes
  BY NameOf, TypeParts
<1>1. Ready'
  BY <1>0, EnsuresMakes
     DEF Transfer, TransferResolve, TransferState, TransferEnsure, TransferEnds,
         TransferChecks, Ready, ctr, disk
<1>2. \/ Answer(r)
      \/ \E pc \in {"checkStopped", "ensureTransfer", "transfer", "resolveDelete"} : Goto(r, pc)
  BY DEF Transfer, TransferResolve, TransferState, TransferEnsure, TransferEnds,
         TransferChecks, TransferFails, EnsuresMounted
<1>3. QED
  BY <1>0, <1>1, <1>2, GoesTo, Answers
     DEF Made, Known, On, Unrecorded, Pc, TransferPc, DeletePc

LEMMA PhaseMoves ==
    ASSUME RpcTypes, NEW r \in Slot, ReconcilePhase(r)
    PROVE  /\ \/ On(r, "mounts") /\ rpc'[r].pc = "images"
              \/ On(r, "images") /\ rpc'[r].pc = "untracked"
              \/ On(r, "untracked") /\ rpc'[r].pc = "snapshots"
           /\ rpc'[r].known = rpc[r].known /\ rpc'[r].seen = rpc[r].seen
           /\ rpc'[r].rest = Name \ rpc[r].known
<1>1. rpc[r].known \in SUBSET Name /\ rpc[r].seen \in SUBSET Name
  BY DEF RpcTypes, Request
<1>2. QED
  BY <1>1, Phases DEF ReconcilePhase, Pc, ReconcilePc

LEMMA ReconcileMakes ==
    ASSUME TypeOK, NEW r \in Slot, Ready, Made(r), Reconcile(r)
    PROVE  Ready' /\ Made(r)'
<1>0. CtrTypes /\ DiskTypes /\ RpcTypes /\ rpc[r] \in Request
  BY NameOf, TypeParts
<1>1. rpc[r].known \in SUBSET Name /\ rpc[r].seen \in SUBSET Name
  BY <1>0 DEF Request
<1> USE <1>0 DEF Ready, Made, Known, On, N, Unrecorded, ctr, disk, Pc, ReconcilePc
<1>2. CASE ReconcileList(r)
  BY <1>2, Phases DEF ReconcileList
<1>3. CASE ReconcilePhase(r)
  <2>1. /\ rpc'[r].pc \in {"images", "untracked", "snapshots"}
        /\ rpc'[r].known = rpc[r].known
    BY <1>3, PhaseMoves
  <2>2. rpc[r].pc \in {"mounts", "images", "untracked"} /\ UNCHANGED <<ctr, disk>>
    BY <1>3 DEF ReconcilePhase
  <2>3. QED
    BY <2>1, <2>2
<1>4. CASE ReconcileSnapshots(r)
  BY <1>4, Answers DEF ReconcileSnapshots, Orphaned, CtrTypes
<1>5. ASSUME NEW n \in Name, ReconcileMount(r, n) \/ ReconcileImage(r, n) \/ ReconcileStranded(r, n)
      PROVE  Ready' /\ Made(r)'
  <2>1. \E b \in BOOLEAN : Handled(r, n, b)
    BY <1>5 DEF ReconcileMount, ReconcileImage, ReconcileStranded
  <2>2. HelperUnmounts(n) \/ UNCHANGED disk
    BY <1>5 DEF ReconcileMount, ReconcileImage, ReconcileStranded, TriesUnmount, HelperFails
  <2>3. UNCHANGED ctr
    BY <1>5 DEF ReconcileMount, ReconcileImage, ReconcileStranded
  <2>4. Ready'
    BY <2>2, <2>3 DEF HelperUnmounts, DiskTypes
  <2>5. rpc[r].pc \in {"mounts", "images", "untracked"}
    BY <1>5 DEF ReconcileMount, ReconcileImage, ReconcileStranded
  <2>6. QED
    BY ZenonT(60), <2>1, <2>3, <2>4, <2>5, HandledMoves
<1>6. QED
  BY <1>2, <1>3, <1>4, <1>5 DEF Reconcile

LEMMA CancelMakes ==
    ASSUME TypeOK, NEW r \in Slot, Ready, Made(r), Cancel(r)
    PROVE  Ready' /\ Made(r)'
<1>1. RpcTypes
  BY TypeParts
<1>2. QED
  BY <1>1, GoesTo, Answers
     DEF Cancel, Ready, Made, Known, On, N, Unrecorded, ctr, disk, Pc, CreatePc

LEMMA SolitaryStep ==
    ASSUME TypeOK, Solitary, [Next]_vars
    PROVE  Solitary'
<1>0. RpcTypes
  BY TypeParts
<1>1. ASSUME NEW r \in Slot, NEW n \in Name, Begin(r, n)
      PROVE  Solitary'
  <2>1. \A s \in Slot : s # r => rpc'[s] = rpc[s]
    BY <1>0, <1>1, BeginTypes
  <2>2. alone' \/ quiet' => \A s \in Slot : On(s, "idle")
    BY <1>1 DEF Begin
  <2>3. QED
    BY <2>1, <2>2 DEF Solitary, On
<1>2. ASSUME NEW r \in Slot, Acts(r)
      PROVE  Solitary'
  BY <1>0, <1>2, ActsStep DEF Solitary, Steps, On
<1>3. CASE DaemonDies \/ Reboot
  BY <1>3 DEF DaemonDies, Reboot, Solitary, On, Idle, At
<1>4. CASE UNCHANGED rpc /\ UNCHANGED history
  BY <1>4 DEF Solitary, On, history
<1>5. QED
  BY <1>1, <1>2, <1>3, <1>4, NextActs DEF TaskExits, vars

LEMMA AloneStep ==
    ASSUME TypeOK, Solitary, AloneInv, [Next]_vars
    PROVE  AloneInv'
<1>0. RpcTypes /\ RpcTypes'
  BY TypeParts, StepTypes
<1> SUFFICES ASSUME alone' PROVE Ready' /\ \A s \in Slot : Made(s)'
  BY DEF AloneInv
<1>a. \A s \in Slot : rpc'[s].pc = "idle" => Made(s)'
  BY DEF Made, Known, On, Unrecorded
<1>1. ASSUME NEW r \in Slot, NEW n \in Name, Begin(r, n)
      PROVE  Ready' /\ \A s \in Slot : Made(s)'
  <2>1. alone /\ \A s \in Slot : On(s, "idle")
    BY <1>1 DEF Begin
  <2>2. Ready'
    BY <1>1, <2>1 DEF Begin, AloneInv, Ready, ctr, disk
  <2>3. \A s \in Slot : s # r => Made(s)'
    BY <1>0, <1>1, <1>a, <2>1, BeginTypes DEF On
  <2>4. rpc'[r].pc \in {"resolveStart", "resolveStop", "resolveDelete", "resolveTransfer",
                        "check", "list"}
    <3>1. \/ \E pc \in {"resolveStart", "resolveStop", "resolveDelete", "resolveTransfer"} :
                rpc'[r] = At(pc, n)
          \/ \E b \in BOOLEAN : rpc'[r] = [At("check", n) EXCEPT !.import = b]
          \/ rpc'[r] = At("list", AnyName)
      BY <1>0, <1>1 DEF Begin, RpcTypes
    <3>2. ASSUME NEW b \in BOOLEAN, rpc'[r] = [At("check", n) EXCEPT !.import = b]
          PROVE  rpc'[r].pc = "check"
      BY <3>2 DEF At
    <3>3. ASSUME NEW pc, NEW m, rpc'[r] = At(pc, m)
          PROVE  rpc'[r].pc = pc
      BY <3>3 DEF At
    <3>4. QED
      BY <3>1, <3>2, <3>3
  <2>5. Made(r)'
    BY <2>4 DEF Made, Known, On, Unrecorded
  <2>6. QED
    BY <2>2, <2>3, <2>5
<1>2. ASSUME NEW r \in Slot, Acts(r)
      PROVE  Ready' /\ \A s \in Slot : Made(s)'
  <2>1. Steps(r)
    BY <1>0, <1>2, ActsStep
  <2>2. alone /\ Ready /\ Made(r)
    BY <2>1 DEF Steps, AloneInv
  <2>3. Ready' /\ Made(r)'
    BY <1>2, <2>2, CreateMakes, StartMakes, StopAndDeleteMakes, TransferMakes,
       ReconcileMakes, CancelMakes DEF Acts
  <2>4. \A s \in Slot : s # r => Made(s)'
    BY <1>a, <2>1, <2>2 DEF Steps, Solitary, On
  <2>5. QED
    BY <2>3, <2>4
<1>3. ASSUME NEW n \in Name, TaskExits(n)
      PROVE  Ready' /\ \A s \in Slot : Made(s)'
  BY <1>3 DEF TaskExits, AloneInv, Ready, Made, Known, On, N, disk, history
<1>4. CASE DaemonDies
  BY <1>4, <1>a DEF DaemonDies, Disturbed, AloneInv, Ready, Idle, At, ctr, disk
<1>5. CASE Reboot
  BY <1>5, <1>a DEF Reboot, Disturbed, AloneInv, Ready, Idle, At
<1>6. CASE UNCHANGED vars
  BY <1>6 DEF vars, AloneInv, Ready, Made, Known, On, N, ctr, disk, history
<1>7. QED
  BY <1>1, <1>2, <1>3, <1>4, <1>5, <1>6, NextActs

LEMMA SolitaryInit == Init => Solitary /\ AloneInv
  BY DEF Init, Solitary, AloneInv, Ready, Made, Known, On, Idle, At, Unrecorded

\* Served one request at a time, whatever was cancelled, crashed or rebooted in
\* create, import, start, stop, delete, export and reconcile, a project whose
\* image is there has its snapshot and, on the volume, its state directories.
THEOREM ProjectsStartable == Spec => []Startable
<1>1. Init => TypeOK /\ Solitary /\ AloneInv
  BY InitTypes, SolitaryInit
<1>2. TypeOK /\ Solitary /\ AloneInv /\ [Next]_vars => (TypeOK /\ Solitary /\ AloneInv)'
  BY StepTypes, SolitaryStep, AloneStep
<1>3. AloneInv => Startable
  BY DEF AloneInv, Startable, Ready
<1>4. QED
  BY <1>1, <1>2, <1>3, PTL DEF Spec

-------------------------------------------------------------------------------
(* What an undisturbed reconcile leaves *)

LEMMA EnsuresDisk ==
    ASSUME TypeOK, DiskInv, NEW r \in Slot, NEW pc, EnsuresMounted(r, pc)
    PROVE  DiskInv'
  BY NameOf, TypeParts
     DEF EnsuresMounted, HelperMounts, DiskInv, DiskTypes, disk, N

LEMMA UnmountsDisk ==
    ASSUME TypeOK, DiskInv, NEW n \in Name, HelperUnmounts(n)
    PROVE  /\ DiskInv'
           /\ mounted'[n] = "no" /\ (image'[n] \/ loop'[n] = {}) /\ image' = image
           /\ \A m \in Name : m # n => mounted'[m] = mounted[m] /\ loop'[m] = loop[m]
<1>1. DiskTypes
  BY TypeParts
<1>2. /\ mounted'[n] = "no" /\ image' = image /\ mountDir' = mountDir
      /\ loop'[n] = loop[n] \ DetachedBy(n)
      /\ \A m \in Name : m # n => mounted'[m] = mounted[m] /\ loop'[m] = loop[m]
  BY <1>1 DEF HelperUnmounts, DiskTypes
<1>3. image[n] \/ loop'[n] = {}
  <2>1. ~image[n] => loop[n] \subseteq {"deleted"}
    BY <1>1 DEF DiskInv, DiskTypes, Volumes
  <2>2. QED
    BY <1>2, <2>1 DEF DetachedBy
<1>4. DiskInv'
  BY <1>2 DEF DiskInv
<1>5. QED
  BY <1>2, <1>3, <1>4

LEMMA UnlinksDisk ==
    ASSUME TypeOK, DiskInv, NEW n \in Name, UnlinksImage(n)
    PROVE  /\ \A m \in Name : m # n => /\ mounted'[m] = mounted[m] /\ loop'[m] = loop[m]
                                       /\ image'[m] = image[m]
           /\ "image" \notin loop'[n]
           /\ mounted'[n] # "no" => mounted[n] # "no"
  BY TypeParts DEF UnlinksImage, Unlinked, DiskTypes

LEMMA DiskStep ==
    ASSUME TypeOK, DiskInv, [Next]_vars
    PROVE  DiskInv'
<1>0. DiskTypes /\ RpcTypes
  BY TypeParts
<1>1. ASSUME NEW r \in Slot, Create(r)
      PROVE  DiskInv'
  <2>0. N(r) \in Name
    BY <1>0, NameOf
  <2>1. CASE CreateAllocate(r) \/ CreateMount(r) \/ CreateDirs(r)
    BY <1>0, <2>0, <2>1
       DEF CreateAllocate, CreateMount, CreateDirs, HelperMounts, DiskInv, DiskTypes
  <2>2. CASE UndoImage(r)
    <3>1. UnlinksImage(N(r)) /\ UNCHANGED mountDir
      BY <2>2 DEF UndoImage
    <3>2. QED
      BY <2>0, <3>1, UnlinksDisk DEF DiskInv
  <2>3. CASE UndoMount(r) \/ DropVolume(r)
    <3>1. HelperUnmounts(N(r)) \/ UNCHANGED disk
      BY <2>3 DEF UndoMount, DropVolume, TriesUnmount, HelperFails
    <3>2. QED
      BY <2>0, <3>1, UnmountsDisk DEF DiskInv, disk
  <2>4. UNCHANGED disk => DiskInv'
    BY DEF DiskInv, disk
  <2>5. QED
    BY <1>1, <2>1, <2>2, <2>3, <2>4
       DEF Create, CreateCheck, Checks, CreateFormatFails, CreateIndex, CreatePrepare,
           CreateInsert, CreatePersist, UndoSnapshot
<1>2. ASSUME NEW r \in Slot, Start(r) \/ Transfer(r)
      PROVE  DiskInv'
  <2>1. (\E pc : EnsuresMounted(r, pc)) \/ UNCHANGED disk
    BY <1>2 DEF Start, StartResolve, Checks, StartEnsure, StartTaskState, StartCreateTask,
                StartWire, StartUnwire, Transfer, TransferResolve, TransferState,
                TransferChecks, TransferEnsure, TransferEnds
  <2>2. QED
    BY <2>1, EnsuresDisk DEF DiskInv, disk
<1>3. ASSUME NEW r \in Slot, Stop(r) \/ Delete(r)
      PROVE  DiskInv'
  <2>0. N(r) \in Name
    BY <1>0, NameOf
  <2>1. CASE DeleteRelease(r)
    BY <2>0, <2>1, UnmountsDisk DEF DeleteRelease, HelperFails, DiskInv, disk
  <2>2. CASE DeleteUnlink(r)
    <3>1. /\ UnlinksImage(N(r))
          /\ \A m \in Name : m # N(r) => mountDir'[m] = mountDir[m]
          /\ mounted[N(r)] # "no" => mountDir'[N(r)] = mountDir[N(r)]
      BY <1>0, <2>0, <2>2 DEF DeleteUnlink, DiskTypes
    <3>2. QED
      BY <2>0, <3>1, UnlinksDisk DEF DiskInv
  <2>3. UNCHANGED disk => DiskInv'
    BY DEF DiskInv, disk
  <2>4. QED
    BY <1>3, <2>1, <2>2, <2>3
       DEF Stop, Delete, StopResolve, StopTask, StopDisconnect, DeleteResolve, DeleteStop,
           DeleteDisconnect, DeleteRecord, DeleteSnapshot, Checks
<1>4. ASSUME NEW r \in Slot, Reconcile(r)
      PROVE  DiskInv'
  <2>1. UNCHANGED disk \/ \E n \in Name : HelperUnmounts(n)
    BY <1>4 DEF Reconcile, ReconcileList, ReconcilePhase, ReconcileSnapshots, ReconcileMount,
                ReconcileImage, ReconcileStranded, TriesUnmount, HelperFails
  <2>2. QED
    BY <2>1, UnmountsDisk DEF DiskInv, disk
<1>5. CASE Reboot
  BY <1>5 DEF Reboot, DiskInv
<1>6. UNCHANGED disk => DiskInv'
  BY DEF DiskInv, disk
<1>7. QED
  BY <1>1, <1>2, <1>3, <1>4, <1>5, <1>6 DEF Next, Begin, Cancel, TaskExits, DaemonDies, vars

NoLoop(n) == image[n] \/ loop[n] = {}

\* The progress of an undisturbed reconcile: each phase has done its part for
\* the names it has looked at, and the phases before it for every name.
Reclaimed(r) ==
    /\ Known(r)
    /\ On(r, "mounts") => \A n \in Name \ (rpc[r].known \cup rpc[r].rest) : mounted[n] = "no"
    /\ rpc[r].pc \in {"images", "untracked", "snapshots"}
          => \A n \in Name \ rpc[r].known : mounted[n] = "no"
    /\ rpc[r].pc \in {"mounts", "images", "untracked"}
          => \A n \in Name : n \in rpc[r].seen => NoLoop(n)
    /\ On(r, "untracked") => \A n \in Name \ (rpc[r].known \cup rpc[r].rest) : NoLoop(n)
    /\ On(r, "snapshots") => \A n \in Name \ rpc[r].known : NoLoop(n)

QuietInv == quiet => \A r \in Slot : /\ rpc[r].pc \in ReconcilePc \cup {"idle"}
                                     /\ Reclaimed(r)

LEMMA ReconcileReclaimed ==
    ASSUME TypeOK, DiskInv, NEW r \in Slot, Reclaimed(r), Reconcile(r), quiet'
    PROVE  rpc'[r].pc \in ReconcilePc \cup {"idle"} /\ Reclaimed(r)'
<1>0. RpcTypes /\ rpc[r] \in Request /\ DiskTypes
  BY NameOf, TypeParts
<1>1. CASE ReconcileList(r)
  <2>1. rpc'[r].pc = "mounts" /\ rpc'[r].known = {n \in Name : record[n]}
        /\ rpc'[r].rest = Name \ rpc'[r].known /\ rpc'[r].seen = {}
    <3> DEFINE recorded == {n \in Name : record[n]}
    <3>1. ToPhase(r, "mounts", recorded, {})
      BY <1>1 DEF ReconcileList
    <3>2. recorded \in SUBSET Name /\ {} \in SUBSET Name /\ "mounts" \in Pc
      BY DEF Pc, ReconcilePc
    <3> HIDE DEF recorded
    <3>3. rpc'[r].pc = "mounts" /\ rpc'[r].known = recorded
          /\ rpc'[r].rest = Name \ recorded /\ rpc'[r].seen = {}
      BY <1>0, <3>1, <3>2, Phases
    <3>4. QED
      BY <3>3 DEF recorded
  <2>2. record' = record
    BY <1>1 DEF ReconcileList, ctr
  <2>3. QED
    BY <2>1, <2>2 DEF Reclaimed, Known, On, ReconcilePc
<1>2. CASE ReconcilePhase(r)
  <2>1. rpc[r].rest = {} /\ UNCHANGED <<ctr, disk>>
    BY <1>2 DEF ReconcilePhase
  <2>2. QED
    BY <1>0, <1>2, <2>1, PhaseMoves DEF Reclaimed, Known, NoLoop, On, ReconcilePc, ctr, disk
<1>3. CASE ReconcileSnapshots(r)
  BY <1>0, <1>3, Answers DEF ReconcileSnapshots, Reclaimed, Known, On
<1>4. ASSUME NEW n \in Name, NEW b \in BOOLEAN, Handled(r, n, b), record' = record,
             On(r, "mounts") \/ On(r, "images") \/ On(r, "untracked"),
             HelperUnmounts(n) \/ UNCHANGED disk,
             On(r, "mounts") => mounted'[n] = "no",
             b => image'[n] \/ loop'[n] = {},
             On(r, "untracked") /\ ~record[n] => image'[n] \/ loop'[n] = {}
      PROVE  rpc'[r].pc \in ReconcilePc \cup {"idle"} /\ Reclaimed(r)'
  <2>1. /\ rpc'[r].pc = rpc[r].pc /\ rpc'[r].known = rpc[r].known
        /\ rpc'[r].seen = IF b THEN rpc[r].seen \cup {n} ELSE rpc[r].seen
        /\ rpc'[r].rest = rpc[r].rest \ {n}
    BY <1>0, <1>4, HandledMoves
  <2>2. image' = image /\ \A m \in Name : m # n => mounted'[m] = mounted[m] /\ loop'[m] = loop[m]
    BY <1>4, UnmountsDisk DEF disk
  <2>3. (mounted[n] = "no" => mounted'[n] = "no") /\ (loop[n] = {} => loop'[n] = {})
    BY <1>0, <1>4 DEF HelperUnmounts, DiskTypes, disk
  <2>4. QED
    BY <1>4, <2>1, <2>2, <2>3 DEF Reclaimed, Known, NoLoop, On, ReconcilePc
<1>5. ASSUME NEW n \in Name, ReconcileMount(r, n)
      PROVE  rpc'[r].pc \in ReconcilePc \cup {"idle"} /\ Reclaimed(r)'
  <2>1. CASE HelperUnmounts(n) /\ Handled(r, n, TRUE)
    BY <1>4, <1>5, <2>1, UnmountsDisk DEF ReconcileMount, ctr, On
  <2>2. CASE ~mountDir[n] /\ Handled(r, n, FALSE) /\ UNCHANGED disk
    BY <1>4, <1>5, <2>2 DEF ReconcileMount, ctr, disk, DiskInv, On
  <2>3. QED
    BY <1>5, <2>1, <2>2 DEF ReconcileMount, HelperFails, Disturbed
<1>6. ASSUME NEW n \in Name, ReconcileImage(r, n)
      PROVE  rpc'[r].pc \in ReconcilePc \cup {"idle"} /\ Reclaimed(r)'
  <2>1. CASE HelperUnmounts(n) /\ Handled(r, n, TRUE)
    BY <1>4, <1>6, <2>1, UnmountsDisk DEF ReconcileImage, ctr, On
  <2>2. CASE Handled(r, n, FALSE) /\ UNCHANGED disk
    BY <1>4, <1>6, <2>2 DEF ReconcileImage, ctr, disk, On
  <2>3. QED
    BY <1>6, <2>1, <2>2 DEF ReconcileImage, TriesUnmount, HelperFails, Disturbed
<1>7. ASSUME NEW n \in Name, ReconcileStranded(r, n)
      PROVE  rpc'[r].pc \in ReconcilePc \cup {"idle"} /\ Reclaimed(r)'
  <2>1. On(r, "untracked") /\ Handled(r, n, FALSE) /\ record' = record
    BY <1>7 DEF ReconcileStranded, ctr
  <2>2. CASE HelperUnmounts(n)
    BY <1>4, <2>1, <2>2, UnmountsDisk DEF On
  <2>3. CASE UNCHANGED disk /\ (record[n] \/ n \in rpc[r].seen \/ loop[n] = {})
    BY <1>4, <2>1, <2>3 DEF disk, On, Reclaimed, NoLoop
  <2>4. QED
    BY <1>7, <2>2, <2>3 DEF ReconcileStranded, TriesUnmount, HelperFails, Disturbed
<1>8. QED
  BY <1>1, <1>2, <1>3, <1>5, <1>6, <1>7 DEF Reconcile

LEMMA OnlyReconcileActs ==
    ASSUME RpcTypes, NEW r \in Slot, rpc[r].pc \in ReconcilePc \cup {"idle"}, Acts(r)
    PROVE  Reconcile(r) \/ (Cancel(r) /\ Answer(r) /\ UNCHANGED <<ctr, disk>>)
<1>1. ~Create(r)
  BY DEF Create, CreateCheck, CreateAllocate, CreateMount, CreateFormatFails, CreateDirs,
         CreateIndex, CreatePrepare, CreateInsert, CreatePersist, UndoSnapshot, UndoMount,
         UndoImage, DropVolume, On, ReconcilePc
<1>2. ~Start(r) /\ ~Stop(r)
  BY DEF Start, StartResolve, StartEnsure, StartTaskState, StartCreateTask, StartWire,
         StartUnwire, Stop, StopResolve, StopTask, StopDisconnect, On, ReconcilePc
<1>3. ~Delete(r) /\ ~Transfer(r)
  BY DEF Delete, DeleteResolve, DeleteStop, DeleteDisconnect, DeleteRelease, DeleteUnlink,
         DeleteRecord, DeleteSnapshot, Transfer, TransferResolve, TransferState,
         TransferEnsure, TransferEnds, On, ReconcilePc
<1>4. Cancel(r) => Answer(r) /\ UNCHANGED <<ctr, disk>>
  BY DEF Cancel, GuardedAwaits, ReconcilePc
<1>5. QED
  BY <1>1, <1>2, <1>3, <1>4 DEF Acts

LEMMA QuietStep ==
    ASSUME TypeOK, Solitary, DiskInv, QuietInv, [Next]_vars
    PROVE  QuietInv'
<1>0. RpcTypes
  BY TypeParts
<1> DEFINE Calm(s) == rpc[s].pc \in ReconcilePc \cup {"idle"} /\ Reclaimed(s)
<1> SUFFICES ASSUME quiet' PROVE \A s \in Slot : Calm(s)'
  BY DEF QuietInv
<1>a. \A s \in Slot : rpc'[s].pc \in {"idle", "list"} => Calm(s)'
  BY DEF Reclaimed, Known, On, ReconcilePc
<1>1. ASSUME NEW r \in Slot, NEW n \in Name, Begin(r, n)
      PROVE  \A s \in Slot : Calm(s)'
  <2>1. rpc' = [rpc EXCEPT ![r] = At("list", AnyName)] /\ \A s \in Slot : On(s, "idle")
    BY <1>1 DEF Begin
  <2>2. rpc'[r].pc = "list" /\ \A s \in Slot : s # r => rpc'[s].pc = "idle"
    BY <1>0, <2>1 DEF RpcTypes, At, On
  <2>3. QED
    BY <1>a, <2>2
<1>2. ASSUME NEW r \in Slot, Acts(r)
      PROVE  \A s \in Slot : Calm(s)'
  <2>1. Steps(r)
    BY <1>0, <1>2, ActsStep
  <2>2. quiet /\ Calm(r) /\ \A s \in Slot : s # r => On(s, "idle")
    BY <2>1 DEF Steps, QuietInv, Solitary, On
  <2>3. Reconcile(r) => Calm(r)'
    BY <2>2, ReconcileReclaimed
  <2>4. Answer(r) => Calm(r)'
    BY <1>0, <1>a, Answers
  <2>5. \A s \in Slot : s # r => Calm(s)'
    BY <1>a, <2>1, <2>2 DEF Steps, On
  <2>6. Calm(r)'
    BY <1>0, <1>2, <2>2, <2>3, <2>4, OnlyReconcileActs
  <2>7. QED
    BY <2>5, <2>6
<1>3. ASSUME NEW n \in Name, TaskExits(n)
      PROVE  \A s \in Slot : Calm(s)'
  BY <1>3 DEF TaskExits, QuietInv, Reclaimed, Known, NoLoop, On, disk, history
<1>4. CASE DaemonDies \/ Reboot
  BY <1>4 DEF DaemonDies, Reboot, Disturbed
<1>5. CASE UNCHANGED vars
  BY <1>5 DEF vars, QuietInv, Reclaimed, Known, NoLoop, On, ctr, disk, history
<1>6. QED
  BY <1>1, <1>2, <1>3, <1>4, <1>5, NextActs

LEMMA QuietInit == Init => Solitary /\ DiskInv /\ QuietInv
  BY DEF Init, Solitary, DiskInv, QuietInv, On, Idle, At

LEMMA SnapshotsReclaim ==
    ASSUME TypeOK, QuietInv, NEW r \in Slot, ReconcileSnapshots(r), quiet',
           NEW n \in Name, ~record[n]
    PROVE  /\ ~snapshot'[n]
           /\ mounted[n] = "no"
           /\ image[n] \/ loop[n] = {}
<1>1. quiet /\ On(r, "snapshots") /\ snapshot' = [m \in Name |-> snapshot[m] /\ m \notin Orphaned(r)]
  BY DEF ReconcileSnapshots, Disturbed, history
<1>2. n \notin rpc[r].known /\ mounted[n] = "no" /\ NoLoop(n)
  BY <1>1 DEF QuietInv, Reclaimed, Known, On
<1>3. QED
  BY <1>1, <1>2 DEF Orphaned, NoLoop

\* A reconcile that nothing disturbed leaves no mount, no snapshot and no
\* stranded loop device of a project that does not exist, whatever create,
\* delete, a crash or a cancelled request had left behind.
THEOREM ReconcileLeavesNothing == Spec => ReconcileReclaims
<1> DEFINE Inv == TypeOK /\ Solitary /\ DiskInv /\ QuietInv
<1>1. Init => Inv
  BY InitTypes, QuietInit
<1>2. Inv /\ [Next]_vars => Inv'
  BY StepTypes, SolitaryStep, DiskStep, QuietStep
<1>3. Inv => \A r \in Slot : ReconcileSnapshots(r) /\ quiet'
                 => \A n \in Name : ~record[n] => /\ ~snapshot'[n]
                                                  /\ mounted[n] = "no"
                                                  /\ image[n] \/ loop[n] = {}
  BY SnapshotsReclaim
<1>4. QED
  BY <1>1, <1>2, <1>3, PTL DEF Spec, ReconcileReclaims

===============================================================================
