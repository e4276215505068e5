------------------------ MODULE SessionNetwork_proofs --------------------------
(***************************************************************************)
(* Proofs about SessionNetwork, and about the two regimes it is checked    *)
(* under (MCSessionNetwork), for every set of names and slots, every       *)
(* number of indices and every set of legacy projects.                     *)
(***************************************************************************)
EXTENDS MCSessionNetwork, TLAPS

-------------------------------------------------------------------------------
(* What the ways to move a request do to it *)

Others(r) == \A s \in Slot \ {r} : rpc'[s] = rpc[s]

LEMMA IdleType == Idle \in Request /\ Idle.pc = "idle"
<1>1. (CHOOSE n \in Name : TRUE) \in Name
  BY Constants
<1>2. QED
  BY <1>1 DEF Idle, At, Request, Label

LEMMA AnswerEffect ==
    ASSUME TypeOK, NEW r \in Slot, Answer(r)
    PROVE  /\ rpc' \in [Slot -> Request]
           /\ rpc'[r].pc = "idle"
           /\ Others(r)
  BY IdleType DEF TypeOK, Answer, Others

LEMMA GotoEffect ==
    ASSUME TypeOK, NEW r \in Slot, NEW pc \in Pc, Goto(r, pc)
    PROVE  /\ rpc' \in [Slot -> Request]
           /\ rpc'[r].pc = pc
           /\ rpc'[r].index = I(r)
           /\ rpc'[r].name = N(r)
           /\ Others(r)
<1>1. rpc[r] \in Request
  BY DEF TypeOK
<1>2. QED
  BY <1>1 DEF TypeOK, Goto, Others, Request, I, N

LEMMA GotoWithEffect ==
    ASSUME TypeOK, NEW r \in Slot, NEW pc \in Pc, NEW i \in Label, GotoWith(r, pc, i)
    PROVE  /\ rpc' \in [Slot -> Request]
           /\ rpc'[r].pc = pc
           /\ rpc'[r].index = i
           /\ rpc'[r].name = N(r)
           /\ Others(r)
<1>1. rpc[r] \in Request
  BY DEF TypeOK
<1>2. QED
  BY <1>1 DEF TypeOK, GotoWith, Others, Request, N

LEMMA UnlocksType ==
    ASSUME TypeOK, NEW r \in Slot, Unlocks(r)
    PROVE  lock' \in Slot \cup {Nobody}
  BY DEF TypeOK, Unlocks, Unlocked

LEMMA TaskEndsType ==
    ASSUME TypeOK, NEW n \in Name, TaskEnds(n)
    PROVE  /\ task' \in [Name -> Slot \cup {Nobody}]
           /\ link' \in [Index -> Name \cup {Nobody}]
  BY DEF TypeOK, TaskEnds

LEMMA CarriesType ==
    ASSUME TypeOK, NEW n \in Name, NEW i \in Label, Carries(n, i)
    PROVE  label' \in [Name -> Label] /\ putBack' \subseteq Name
  BY DEF TypeOK, Carries

LEMMA RequestName ==
    ASSUME TypeOK, NEW r \in Slot
    PROVE  N(r) \in Name /\ I(r) \in Label /\ label[N(r)] \in Label
<1>1. rpc[r] \in Request
  BY DEF TypeOK
<1>2. QED
  BY <1>1 DEF TypeOK, Request, N, I

-------------------------------------------------------------------------------
(* Types *)

LEMMA LooksType ==
    ASSUME TypeOK, NEW r \in Slot, NEW condition, NEW pc \in Pc,
           Looks(r, condition, pc)
    PROVE  TypeOK'
<1>1. rpc' \in [Slot -> Request]
  <2>1. Goto(r, pc) \/ Answer(r)
    BY DEF Looks
  <2>2. QED
    BY <2>1, AnswerEffect, GotoEffect
<1>2. QED
  BY <1>1 DEF TypeOK, Looks

LEMMA LocksType ==
    ASSUME TypeOK, NEW r \in Slot, NEW pc \in Pc, Locks(r, pc)
    PROVE  TypeOK'
<1>1. rpc' \in [Slot -> Request]
  BY GotoEffect DEF Locks
<1>2. QED
  BY <1>1 DEF TypeOK, Locks

LEMMA CreateType ==
    ASSUME TypeOK, NEW r \in Slot,
           CreateCheck(r) \/ CreateLock(r) \/ CreateChoose(r) \/ CreatePublish(r)
    PROVE  TypeOK'
<1> USE DEF Pc, CreatePc
<1>1. CASE CreateCheck(r)
  BY <1>1, LooksType DEF CreateCheck
<1>2. CASE CreateLock(r)
  BY <1>2, LocksType DEF CreateLock
<1>3. CASE CreateChoose(r)
  <2>1. rpc' \in [Slot -> Request] /\ lock' \in Slot \cup {Nobody}
    <3>1. CASE Chooses(r, "publish")
      <4>1. PICK i \in Index : GotoWith(r, "publish", i) /\ lock' = lock
        BY <3>1 DEF Chooses, Candidates
      <4>2. i \in Label
        BY DEF Label
      <4>3. QED
        BY <4>1, <4>2, GotoWithEffect DEF TypeOK
    <3>2. CASE Answer(r) /\ Unlocks(r)
      BY <3>2, AnswerEffect, UnlocksType
    <3>3. QED
      BY <1>3, <3>1, <3>2 DEF CreateChoose
  <2>2. QED
    BY <1>3, <2>1 DEF TypeOK, CreateChoose
<1>4. CASE CreatePublish(r)
  <2>1. rpc' \in [Slot -> Request] /\ lock' \in Slot \cup {Nobody}
    BY <1>4, AnswerEffect, UnlocksType DEF CreatePublish
  <2>2. label' \in [Name -> Label] /\ putBack' \subseteq Name
    BY <1>4, RequestName, CarriesType DEF CreatePublish, TypeOK
  <2>3. QED
    BY <1>4, <2>1, <2>2 DEF TypeOK, CreatePublish
<1>5. QED
  BY <1>1, <1>2, <1>3, <1>4

LEMMA StartType ==
    ASSUME TypeOK, NEW r \in Slot,
           \/ StartResolve(r) \/ StartCreateTask(r) \/ StartFind(r) \/ StartLock(r)
           \/ StartReread(r) \/ StartChoose(r) \/ StartRecord(r) \/ StartConnect(r)
           \/ StartUnwired(r)
    PROVE  TypeOK'
<1> USE RequestName DEF Pc, StartPc
<1>0. {"createTask", "find", "lockStart", "reread", "chooseStart", "record", "connect",
       "unstart"} \subseteq Pc /\ Index \subseteq Label
  BY DEF Label
<1>1. CASE StartResolve(r)
  BY <1>1, LooksType DEF StartResolve
<1>2. CASE StartCreateTask(r)
  <2>1. rpc' \in [Slot -> Request]
    BY <1>2, AnswerEffect, GotoEffect DEF StartCreateTask
  <2>2. task' \in [Name -> Slot \cup {Nobody}]
    BY <1>2 DEF StartCreateTask, TypeOK
  <2>3. QED
    BY <1>2, <2>1, <2>2 DEF TypeOK, StartCreateTask
<1>3. CASE StartFind(r)
  <2>1. rpc' \in [Slot -> Request]
    BY <1>3, GotoEffect, GotoWithEffect DEF StartFind
  <2>2. QED
    BY <1>3, <2>1 DEF TypeOK, StartFind
<1>4. CASE StartLock(r)
  BY <1>4, LocksType DEF StartLock
<1>5. CASE StartReread(r)
  <2>1. rpc' \in [Slot -> Request]
    BY <1>5, GotoEffect, GotoWithEffect DEF StartReread
  <2>2. lock' \in Slot \cup {Nobody}
    BY <1>5, UnlocksType DEF StartReread, TypeOK
  <2>3. QED
    BY <1>5, <2>1, <2>2 DEF TypeOK, StartReread
<1>6. CASE StartChoose(r)
  <2>1. rpc' \in [Slot -> Request] /\ lock' \in Slot \cup {Nobody}
    <3>1. CASE Chooses(r, "record")
      <4>1. PICK i \in Index : GotoWith(r, "record", i) /\ lock' = lock
        BY <3>1 DEF Chooses, Candidates
      <4>2. QED
        BY <1>0, <4>1, GotoWithEffect DEF TypeOK
    <3>2. CASE Goto(r, "unstart") /\ Unlocks(r)
      BY <1>0, <3>2, GotoEffect, UnlocksType
    <3>3. QED
      BY <1>6, <3>1, <3>2 DEF StartChoose
  <2>2. QED
    BY <1>6, <2>1 DEF TypeOK, StartChoose
<1>7. CASE StartRecord(r)
  <2>1. rpc' \in [Slot -> Request] /\ lock' \in Slot \cup {Nobody}
    BY <1>7, GotoEffect, UnlocksType DEF StartRecord
  <2>2. label' \in [Name -> Label] /\ putBack' \subseteq Name
    BY <1>7, CarriesType DEF StartRecord, TypeOK
  <2>3. QED
    BY <1>7, <2>1, <2>2 DEF TypeOK, StartRecord
<1>8. CASE StartConnect(r)
  <2>1. rpc' \in [Slot -> Request]
    BY <1>8, AnswerEffect, GotoEffect DEF StartConnect
  <2>2. link' \in [Index -> Name \cup {Nobody}]
    BY <1>8 DEF StartConnect, TypeOK
  <2>3. QED
    BY <1>8, <2>1, <2>2 DEF TypeOK, StartConnect
<1>9. CASE StartUnwired(r)
  <2>1. rpc' \in [Slot -> Request]
    BY <1>9, AnswerEffect DEF StartUnwired
  <2>2. /\ task' \in [Name -> Slot \cup {Nobody}]
        /\ link' \in [Index -> Name \cup {Nobody}]
    BY <1>9, TaskEndsType DEF StartUnwired, TypeOK
  <2>3. QED
    BY <1>9, <2>1, <2>2 DEF TypeOK, StartUnwired
<1>10. QED
  BY <1>1, <1>2, <1>3, <1>4, <1>5, <1>6, <1>7, <1>8, <1>9

LEMMA EndType ==
    ASSUME TypeOK, NEW r \in Slot,
           \/ StopResolve(r) \/ DeleteResolve(r) \/ DeleteAllocation(r) \/ StopTask(r)
           \/ StopAllocation(r) \/ Disconnect(r) \/ DeleteRecord(r)
    PROVE  TypeOK'
<1> USE RequestName DEF Pc, EndPc
<1>1. CASE StopResolve(r)
  BY <1>1, LooksType DEF StopResolve
<1>2. CASE DeleteResolve(r)
  BY <1>2, LooksType DEF DeleteResolve
<1>3. CASE DeleteAllocation(r)
  <2>1. PICK i \in {label[N(r)], NoRecord} :
          rpc' = [rpc EXCEPT ![r].pc = "stopTask", ![r].index = i, ![r].deleting = TRUE]
    BY <1>3 DEF DeleteAllocation
  <2>2. i \in Label
    BY <2>1 DEF Label
  <2>3. rpc[r] \in Request
    BY DEF TypeOK
  <2>4. rpc' \in [Slot -> Request]
    BY <2>1, <2>2, <2>3 DEF TypeOK, Request
  <2>5. QED
    BY <1>3, <2>4 DEF TypeOK, DeleteAllocation
<1>4. CASE StopTask(r)
  <2>1. rpc' \in [Slot -> Request]
    BY <1>4, AnswerEffect, GotoEffect DEF StopTask
  <2>2. /\ task' \in [Name -> Slot \cup {Nobody}]
        /\ link' \in [Index -> Name \cup {Nobody}]
    BY <1>4, TaskEndsType DEF StopTask, TypeOK
  <2>3. QED
    BY <1>4, <2>1, <2>2 DEF TypeOK, StopTask
<1>5. CASE StopAllocation(r)
  <2>1. rpc' \in [Slot -> Request]
    BY <1>5, AnswerEffect, GotoWithEffect DEF StopAllocation
  <2>2. QED
    BY <1>5, <2>1 DEF TypeOK, StopAllocation
<1>6. CASE Disconnect(r)
  <2>1. rpc' \in [Slot -> Request]
    BY <1>6, AnswerEffect, GotoEffect DEF Disconnect
  <2>2. link' \in [Index -> Name \cup {Nobody}]
    BY <1>6 DEF Disconnect, TypeOK
  <2>3. QED
    BY <1>6, <2>1, <2>2 DEF TypeOK, Disconnect
<1>7. CASE DeleteRecord(r)
  <2>1. rpc' \in [Slot -> Request]
    BY <1>7, AnswerEffect DEF DeleteRecord
  <2>2. label' \in [Name -> Label] /\ putBack' \subseteq Name
    <3>1. NoRecord \in Label
      BY DEF Label
    <3>2. QED
      BY <1>7, <3>1, CarriesType DEF DeleteRecord, TypeOK
  <2>3. QED
    BY <1>7, <2>1, <2>2 DEF TypeOK, DeleteRecord
<1>8. QED
  BY <1>1, <1>2, <1>3, <1>4, <1>5, <1>6, <1>7

LEMMA EditType ==
    ASSUME TypeOK, NEW r \in Slot, EditRead(r) \/ EditWrite(r)
    PROVE  TypeOK'
<1> USE RequestName DEF Pc, EditPc
<1>1. CASE EditRead(r)
  <2>1. rpc' \in [Slot -> Request]
    BY <1>1, AnswerEffect, GotoWithEffect DEF EditRead
  <2>2. QED
    BY <1>1, <2>1 DEF TypeOK, EditRead
<1>2. CASE EditWrite(r)
  <2>1. rpc' \in [Slot -> Request]
    BY <1>2, AnswerEffect DEF EditWrite
  <2>2. label' \in [Name -> Label] /\ putBack' \subseteq Name
    BY <1>2 DEF EditWrite, TypeOK, Label
  <2>3. QED
    BY <1>2, <2>1, <2>2 DEF TypeOK, EditWrite
<1>3. QED
  BY <1>1, <1>2

LEMMA BeginType ==
    ASSUME TypeOK, NEW r \in Slot, NEW n \in Name, Begin(r, n)
    PROVE  TypeOK'
<1>1. PICK pc \in Begins : rpc' = [rpc EXCEPT ![r] = At(pc, n)]
  BY DEF Begin
<1>2. At(pc, n) \in Request
  BY <1>1 DEF Begins, At, Request, Label, Pc, CreatePc, StartPc, EndPc, EditPc
<1>3. QED
  BY <1>1, <1>2 DEF Begin, TypeOK

LEMMA FaultType ==
    ASSUME TypeOK,
           \/ \E r \in Slot : Cancel(r)
           \/ \E n \in Name : TaskExits(n)
           \/ DaemonRestarts
    PROVE  TypeOK'
<1>1. ASSUME NEW r \in Slot, Cancel(r) PROVE TypeOK'
  BY <1>1, AnswerEffect, UnlocksType DEF Cancel, TypeOK
<1>2. ASSUME NEW n \in Name, TaskExits(n) PROVE TypeOK'
  BY <1>2, TaskEndsType DEF TaskExits, TypeOK
<1>3. CASE DaemonRestarts
  BY <1>3, IdleType DEF DaemonRestarts, TypeOK
<1>4. QED
  BY <1>1, <1>2, <1>3

\* Every reachable state is well typed: in particular every index on a record is
\* one of the subnets there are (netns.rs, allocate_index).
THEOREM NetworkTypes == Spec => []TypeOK
<1>1. Init => TypeOK
  BY IdleType, Constants DEF Init, TypeOK, Label
<1>2. TypeOK /\ [Next]_vars => TypeOK'
  <2> SUFFICES ASSUME TypeOK, [Next]_vars PROVE TypeOK'
    OBVIOUS
  <2>1. ASSUME NEW r \in Slot, NEW n \in Name, Begin(r, n) PROVE TypeOK'
    BY <2>1, BeginType
  <2>2. ASSUME NEW r \in Slot, Acquire(r) \/ Progress(r) PROVE TypeOK'
    BY <2>2, CreateType, StartType, EndType, EditType DEF Acquire, Progress
  <2>3. CASE UNCHANGED vars
    BY <2>3 DEF vars, TypeOK
  <2>4. QED
    BY <2>1, <2>2, <2>3, FaultType DEF Next
<1>3. QED
  BY <1>1, <1>2, PTL DEF Spec

-------------------------------------------------------------------------------
(* The allocator gives no index twice.  AllocatedOnce alone is not         *)
(* inductive: publishing keeps it only because the chosen index is still   *)
(* free, which holds because choosing and publishing happen under the lock *)
(* and outside it only a label edit puts an index on a record.             *)

\* A step of r that leaves every record alone and takes r to a place where it
\* needs neither the lock nor the index it chose.
LEMMA LeavesLabels ==
    ASSUME TypeOK, AllocationInv, NEW r \in Slot,
           label' = label, putBack' = putBack, Others(r), rpc'[r].pc \notin LockPc,
           lock' = lock \/ Unlocks(r)
    PROVE  AllocationInv'
<1>1. AllocatedOnce'
  BY DEF AllocationInv, AllocatedOnce
<1>2. Choosers'
  <2>1. ASSUME NEW s \in Slot, rpc'[s].pc \in LockPc PROVE lock' = s
    <3>1. s # r /\ rpc'[s] = rpc[s]
      BY <2>1 DEF Others
    <3>2. lock = s
      BY <2>1, <3>1 DEF AllocationInv, Choosers
    <3>3. QED
      BY <3>1, <3>2 DEF Unlocks, Unlocked
  <2>2. QED
    BY <2>1 DEF Choosers
<1>3. ChosenIsFree'
  <2>1. ASSUME NEW s \in Slot, rpc'[s].pc \in {"publish", "record"}
        PROVE  I(s)' \in Index /\ Free(I(s))'
    <3>1. s # r /\ rpc'[s] = rpc[s]
      BY <2>1 DEF Others, LockPc
    <3>2. QED
      BY <2>1, <3>1 DEF AllocationInv, ChosenIsFree, Free, I
  <2>2. QED
    BY <2>1 DEF ChosenIsFree
<1>5. QED
  BY <1>1, <1>2, <1>3 DEF AllocationInv

\* Taking the lock, and going on under it to look again.
LEMMA UnderLock ==
    ASSUME TypeOK, AllocationInv, NEW r \in Slot,
           label' = label, putBack' = putBack, Others(r),
           rpc'[r].pc \in {"chooseCreate", "reread", "chooseStart"},
           lock' = r, lock \in {r, Nobody}
    PROVE  AllocationInv'
<1>1. AllocatedOnce'
  BY DEF AllocationInv, AllocatedOnce
<1>2. Choosers'
  <2>1. ASSUME NEW s \in Slot, rpc'[s].pc \in LockPc, s # r PROVE FALSE
    <3>1. lock = s
      BY <2>1 DEF AllocationInv, Choosers, Others
    <3>2. QED
      BY <2>1, <3>1, Constants
  <2>2. QED
    BY <2>1 DEF Choosers
<1>3. ChosenIsFree'
  <2>1. ASSUME NEW s \in Slot, rpc'[s].pc \in {"publish", "record"}
        PROVE  I(s)' \in Index /\ Free(I(s))'
    <3>1. s # r /\ rpc'[s] = rpc[s]
      BY <2>1 DEF Others
    <3>2. QED
      BY <2>1, <3>1 DEF AllocationInv, ChosenIsFree, Free, I
  <2>2. QED
    BY <2>1 DEF ChosenIsFree
<1>5. QED
  BY <1>1, <1>2, <1>3 DEF AllocationInv

\* Choosing: the index is free when it is chosen.
LEMMA ChoosesFree ==
    ASSUME TypeOK, AllocationInv, NEW r \in Slot, NEW pc \in {"publish", "record"},
           rpc[r].pc \in LockPc, Chooses(r, pc), label' = label, putBack' = putBack
    PROVE  AllocationInv'
<1>1. PICK i \in Index : FirstFree(i) /\ GotoWith(r, pc, i) /\ lock' = lock
  BY DEF Chooses, Candidates
<1>2. i \in Label /\ pc \in Pc
  BY DEF Label, Pc, CreatePc, StartPc
<1>3. rpc'[r].pc = pc /\ rpc'[r].index = i /\ Others(r)
  BY <1>1, <1>2, GotoWithEffect
<1>4. lock = r
  BY DEF AllocationInv, Choosers
<1>5. AllocatedOnce'
  BY DEF AllocationInv, AllocatedOnce
<1>6. Choosers'
  BY <1>1, <1>3, <1>4 DEF AllocationInv, Choosers, Others
<1>7. ChosenIsFree'
  <2>1. ASSUME NEW s \in Slot, rpc'[s].pc \in {"publish", "record"}
        PROVE  I(s)' \in Index /\ Free(I(s))'
    <3>1. CASE s = r
      BY <1>1, <1>3, <3>1 DEF FirstFree, InUse, Free, I
    <3>2. CASE s # r
      BY <1>3, <2>1, <3>2 DEF AllocationInv, ChosenIsFree, Others, Free, I
    <3>3. QED
      BY <3>1, <3>2
  <2>2. QED
    BY <2>1 DEF ChosenIsFree
<1>9. QED
  BY <1>5, <1>6, <1>7 DEF AllocationInv

\* Publishing: the index goes onto one record while it is on no other, and the
\* request gives the lock up.
LEMMA Publishes ==
    ASSUME TypeOK, AllocationInv, NEW r \in Slot,
           rpc[r].pc \in {"publish", "record"},
           Carries(N(r), I(r)),
           Others(r), rpc'[r].pc \notin LockPc, Unlocks(r)
    PROVE  AllocationInv'
<1>1. lock = r /\ Free(I(r))
  BY DEF AllocationInv, Choosers, ChosenIsFree, LockPc
<1>2. ASSUME NEW s \in Slot PROVE rpc'[s].pc \notin LockPc
  <2>1. CASE s = r
    BY <2>1
  <2>2. CASE s # r
    BY <1>1, <2>2 DEF AllocationInv, Choosers, Others
  <2>3. QED
    BY <2>1, <2>2
<1>3. AllocatedOnce'
  <2>1. ASSUME NEW m \in Name, NEW n \in Name, m # n, label'[m] \in Index,
               label'[m] = label'[n]
        PROVE  putBack' \cap {m, n} # {}
    <3>1. N(r) \in Name
      BY RequestName
    <3>2. CASE m = N(r)
      BY <1>1, <2>1, <3>1, <3>2 DEF TypeOK, Free, Carries
    <3>3. CASE n = N(r)
      BY <1>1, <2>1, <3>1, <3>3 DEF TypeOK, Free, Carries
    <3>4. CASE m # N(r) /\ n # N(r)
      BY <2>1, <3>1, <3>4 DEF TypeOK, AllocationInv, AllocatedOnce, Carries
    <3>5. QED
      BY <3>2, <3>3, <3>4
  <2>2. QED
    BY <2>1 DEF AllocatedOnce
<1>4. Choosers'
  BY <1>2 DEF Choosers
<1>5. ChosenIsFree'
  BY <1>2 DEF ChosenIsFree, LockPc
<1>7. QED
  BY <1>3, <1>4, <1>5 DEF AllocationInv

\* Deleting a record frees its index and takes none.
LEMMA Unpublishes ==
    ASSUME TypeOK, AllocationInv, NEW r \in Slot, DeleteRecord(r)
    PROVE  AllocationInv'
<1>1. rpc'[r].pc = "idle" /\ Others(r) /\ lock' = lock
  BY AnswerEffect DEF DeleteRecord
<1>2. rpc'[r].pc \notin LockPc
  BY <1>1 DEF LockPc
<1>3. CASE UNCHANGED <<label, putBack>>
  BY <1>1, <1>2, <1>3, LeavesLabels
<1>4. CASE Carries(N(r), NoRecord)
  <2>1. NoRecord \notin Index
    BY Constants DEF NoRecord, Index
  <2>2. \A n \in Name : label'[n] \in Index
                         => label'[n] = label[n] /\ (n \in putBack => n \in putBack')
    BY <1>4, <2>1, RequestName DEF TypeOK, Carries
  <2>3. AllocatedOnce'
    BY <2>2 DEF AllocationInv, AllocatedOnce
  <2>4. Choosers'
    BY <1>1, <1>2 DEF AllocationInv, Choosers, Others
  <2>5. ChosenIsFree'
    <3>1. ASSUME NEW s \in Slot, rpc'[s].pc \in {"publish", "record"}
          PROVE  I(s)' \in Index /\ Free(I(s))'
      <4>1. s # r /\ rpc'[s] = rpc[s]
        BY <1>1, <3>1 DEF Others
      <4>2. I(s) \in Index /\ Free(I(s))
        BY <3>1, <4>1 DEF AllocationInv, ChosenIsFree
      <4>3. QED
        BY <2>2, <4>1, <4>2 DEF Free, I
    <3>2. QED
      BY <3>1 DEF ChosenIsFree
  <2>7. QED
    BY <2>3, <2>4, <2>5 DEF AllocationInv
<1>5. QED
  BY <1>3, <1>4 DEF DeleteRecord

LEMMA CreateAllocates ==
    ASSUME TypeOK, AllocationInv, NEW r \in Slot,
           CreateCheck(r) \/ CreateLock(r) \/ CreateChoose(r) \/ CreatePublish(r)
    PROVE  AllocationInv'
<1> USE DEF Pc, CreatePc
<1>1. CASE CreateCheck(r)
  <2>1. rpc'[r].pc \in {"lockCreate", "idle"} /\ Others(r)
    BY <1>1, AnswerEffect, GotoEffect DEF CreateCheck, Looks
  <2>2. QED
    BY <1>1, <2>1, LeavesLabels DEF CreateCheck, Looks, LockPc
<1>2. CASE CreateLock(r)
  <2>1. rpc'[r].pc = "chooseCreate" /\ Others(r)
    BY <1>2, GotoEffect DEF CreateLock, Locks
  <2>2. QED
    BY <1>2, <2>1, UnderLock DEF CreateLock, Locks
<1>3. CASE CreateChoose(r)
  <2>1. CASE Chooses(r, "publish")
    BY <1>3, <2>1, ChoosesFree DEF CreateChoose, On, LockPc
  <2>2. CASE Answer(r) /\ Unlocks(r)
    BY <1>3, <2>2, AnswerEffect, LeavesLabels DEF CreateChoose, LockPc
  <2>3. QED
    BY <1>3, <2>1, <2>2 DEF CreateChoose
<1>4. CASE CreatePublish(r)
  <2>1. rpc'[r].pc = "idle" /\ Others(r) /\ Unlocks(r)
    BY <1>4, AnswerEffect DEF CreatePublish
  <2>2. rpc'[r].pc \notin LockPc
    BY <2>1 DEF LockPc
  <2>3. CASE UNCHANGED <<label, putBack>>
    BY <2>1, <2>2, <2>3, LeavesLabels
  <2>4. CASE Carries(N(r), I(r))
    BY <1>4, <2>1, <2>2, <2>4, Publishes DEF CreatePublish, On
  <2>5. QED
    BY <1>4, <2>3, <2>4 DEF CreatePublish
<1>5. QED
  BY <1>1, <1>2, <1>3, <1>4

LEMMA StartAllocates ==
    ASSUME TypeOK, AllocationInv, NEW r \in Slot,
           \/ StartResolve(r) \/ StartCreateTask(r) \/ StartFind(r) \/ StartLock(r)
           \/ StartReread(r) \/ StartChoose(r) \/ StartRecord(r) \/ StartConnect(r)
           \/ StartUnwired(r)
    PROVE  AllocationInv'
<1>0. /\ {"createTask", "find", "lockStart", "reread", "chooseStart", "record", "connect",
           "unstart"} \subseteq Pc
      /\ Index \subseteq Label
      /\ {"createTask", "find", "lockStart", "connect", "unstart", "idle"}
           \cap (LockPc) = {}
  BY DEF Label, Pc, StartPc, LockPc
<1>1. CASE StartResolve(r)
  <2>1. rpc'[r].pc \in {"createTask", "idle"} /\ Others(r)
    BY <1>0, <1>1, AnswerEffect, GotoEffect DEF StartResolve, Looks
  <2>2. QED
    BY <1>0, <1>1, <2>1, LeavesLabels DEF StartResolve, Looks
<1>2. CASE StartCreateTask(r)
  <2>1. rpc'[r].pc \in {"find", "idle"} /\ Others(r)
    BY <1>0, <1>2, AnswerEffect, GotoEffect DEF StartCreateTask
  <2>2. QED
    BY <1>0, <1>2, <2>1, LeavesLabels DEF StartCreateTask
<1>3. CASE StartFind(r)
  <2>1. rpc'[r].pc \in {"connect", "lockStart", "unstart"} /\ Others(r)
    BY <1>0, <1>3, GotoEffect, GotoWithEffect DEF StartFind
  <2>2. QED
    BY <1>0, <1>3, <2>1, LeavesLabels DEF StartFind
<1>4. CASE StartLock(r)
  <2>1. rpc'[r].pc = "reread" /\ Others(r)
    BY <1>0, <1>4, GotoEffect DEF StartLock, Locks
  <2>2. QED
    BY <1>4, <2>1, UnderLock DEF StartLock, Locks
<1>5. CASE StartReread(r)
  <2>1. lock = r
    BY <1>5 DEF StartReread, On, AllocationInv, Choosers, LockPc
  <2>2. CASE Goto(r, "chooseStart") /\ lock' = lock
    BY <1>0, <1>5, <2>1, <2>2, GotoEffect, UnderLock DEF StartReread
  <2>3. CASE Unlocks(r) /\ rpc'[r].pc \in {"connect", "unstart"} /\ Others(r)
    BY <1>0, <1>5, <2>3, LeavesLabels DEF StartReread
  <2>4. QED
    BY <1>0, <1>5, <2>2, <2>3, GotoEffect, GotoWithEffect DEF StartReread
<1>6. CASE StartChoose(r)
  <2>1. CASE Chooses(r, "record")
    BY <1>6, <2>1, ChoosesFree DEF StartChoose, On, LockPc
  <2>2. CASE Goto(r, "unstart") /\ Unlocks(r)
    BY <1>0, <1>6, <2>2, GotoEffect, LeavesLabels DEF StartChoose
  <2>3. QED
    BY <1>6, <2>1, <2>2 DEF StartChoose
<1>7. CASE StartRecord(r)
  <2>1. rpc'[r].pc \in {"connect", "unstart"} /\ Others(r) /\ Unlocks(r)
    BY <1>0, <1>7, GotoEffect DEF StartRecord
  <2>2. CASE UNCHANGED <<label, putBack>>
    BY <1>0, <2>1, <2>2, LeavesLabels
  <2>3. CASE Carries(N(r), I(r))
    BY <1>0, <1>7, <2>1, <2>3, Publishes DEF StartRecord, On
  <2>4. QED
    BY <1>7, <2>2, <2>3 DEF StartRecord
<1>8. CASE StartConnect(r)
  <2>1. rpc'[r].pc \in {"unstart", "idle"} /\ Others(r)
    BY <1>0, <1>8, AnswerEffect, GotoEffect DEF StartConnect
  <2>2. QED
    BY <1>0, <1>8, <2>1, LeavesLabels DEF StartConnect
<1>9. CASE StartUnwired(r)
  <2>1. rpc'[r].pc = "idle" /\ Others(r)
    BY <1>9, AnswerEffect DEF StartUnwired
  <2>2. QED
    BY <1>0, <1>9, <2>1, LeavesLabels DEF StartUnwired
<1>10. QED
  BY <1>1, <1>2, <1>3, <1>4, <1>5, <1>6, <1>7, <1>8, <1>9

LEMMA EndAllocates ==
    ASSUME TypeOK, AllocationInv, NEW r \in Slot,
           \/ StopResolve(r) \/ DeleteResolve(r) \/ DeleteAllocation(r) \/ StopTask(r)
           \/ StopAllocation(r) \/ Disconnect(r) \/ DeleteRecord(r)
    PROVE  AllocationInv'
<1>0. /\ EndPc \subseteq Pc /\ Index \subseteq Label
      /\ (EndPc \cup {"idle"}) \cap (LockPc) = {}
  BY DEF Label, Pc, EndPc, LockPc
<1> SUFFICES ASSUME ~DeleteRecord(r) PROVE AllocationInv'
  BY Unpublishes
<1>1. label' = label /\ putBack' = putBack /\ lock' = lock
  BY DEF StopResolve, DeleteResolve, DeleteAllocation, StopTask, StopAllocation,
         Disconnect, Looks
<1>2. rpc'[r].pc \in EndPc \cup {"idle"} /\ Others(r)
  <2> USE <1>0, AnswerEffect, GotoEffect DEF EndPc
  <2>1. CASE StopResolve(r)
    BY <2>1 DEF StopResolve, Looks
  <2>2. CASE DeleteResolve(r)
    BY <2>2 DEF DeleteResolve, Looks
  <2>3. CASE DeleteAllocation(r)
    <3>1. PICK i \in {label[N(r)], NoRecord} :
            rpc' = [rpc EXCEPT ![r].pc = "stopTask", ![r].index = i, ![r].deleting = TRUE]
      BY <2>3 DEF DeleteAllocation
    <3>2. rpc[r] \in Request
      BY DEF TypeOK
    <3>3. QED
      BY <3>1, <3>2 DEF TypeOK, Others, Request
  <2>4. CASE StopTask(r)
    BY <2>4 DEF StopTask
  <2>5. CASE StopAllocation(r)
    BY <2>5, GotoWithEffect DEF StopAllocation
  <2>6. CASE Disconnect(r)
    BY <2>6 DEF Disconnect
  <2>7. QED
    BY <2>1, <2>2, <2>3, <2>4, <2>5, <2>6
<1>3. QED
  BY <1>0, <1>1, <1>2, LeavesLabels

\* A label edit: where it changes an index, the record counts as put back.
LEMMA EditAllocates ==
    ASSUME TypeOK, AllocationInv, NEW r \in Slot, EditRead(r) \/ EditWrite(r)
    PROVE  AllocationInv'
<1>1. CASE EditRead(r)
  <2>1. "writeLabels" \in Pc /\ {"writeLabels", "idle"} \cap LockPc = {}
    BY DEF Pc, EditPc, LockPc
  <2>2. rpc'[r].pc \in {"writeLabels", "idle"} /\ Others(r)
    BY <1>1, <2>1, RequestName, AnswerEffect, GotoWithEffect DEF EditRead
  <2>3. QED
    BY <1>1, <2>1, <2>2, LeavesLabels DEF EditRead
<1>2. CASE EditWrite(r)
  <2>1. rpc'[r].pc = "idle" /\ Others(r) /\ lock' = lock
    BY <1>2, AnswerEffect DEF EditWrite
  <2>2. /\ putBack \subseteq putBack'
        /\ \A n \in Name : label'[n] = label[n] \/ n \in putBack'
    BY <1>2, RequestName DEF EditWrite, TypeOK
  <2>3. AllocatedOnce'
    BY <2>2 DEF AllocationInv, AllocatedOnce
  <2>4. Choosers'
    BY <2>1 DEF AllocationInv, Choosers, Others, LockPc
  <2>5. ChosenIsFree'
    <3>1. ASSUME NEW s \in Slot, rpc'[s].pc \in {"publish", "record"}
          PROVE  I(s)' \in Index /\ Free(I(s))'
      <4>1. s # r /\ rpc'[s] = rpc[s]
        BY <2>1, <3>1 DEF Others
      <4>2. I(s) \in Index /\ Free(I(s))
        BY <3>1, <4>1 DEF AllocationInv, ChosenIsFree
      <4>3. QED
        BY <2>2, <4>1, <4>2 DEF Free, I
    <3>2. QED
      BY <3>1 DEF ChosenIsFree
  <2>6. QED
    BY <2>3, <2>4, <2>5 DEF AllocationInv
<1>3. QED
  BY <1>1, <1>2

LEMMA BeginAllocates ==
    ASSUME TypeOK, AllocationInv, NEW r \in Slot, NEW n \in Name,
           Begin(r, n)
    PROVE  AllocationInv'
<1>1. PICK pc \in Begins : rpc' = [rpc EXCEPT ![r] = At(pc, n)]
  BY DEF Begin
<1>2. rpc'[r].pc = pc /\ Others(r)
  BY <1>1 DEF TypeOK, At, Others
<1>3. pc \notin LockPc
  BY DEF Begins, LockPc
<1>4. QED
  BY <1>2, <1>3, LeavesLabels DEF Begin

LEMMA FaultAllocates ==
    ASSUME TypeOK, AllocationInv,
           \/ \E r \in Slot : Cancel(r)
           \/ \E n \in Name : TaskExits(n)
           \/ DaemonRestarts
    PROVE  AllocationInv'
<1>1. ASSUME NEW r \in Slot, Cancel(r) PROVE AllocationInv'
  BY <1>1, AnswerEffect, LeavesLabels DEF Cancel, LockPc
<1>2. ASSUME NEW n \in Name, TaskExits(n) PROVE AllocationInv'
  BY <1>2 DEF TaskExits, AllocationInv, AllocatedOnce, Choosers, ChosenIsFree,
              Free, I
<1>3. CASE DaemonRestarts
  <2>1. \A s \in Slot : rpc'[s].pc = "idle"
    BY <1>3, IdleType DEF DaemonRestarts
  <2>2. AllocatedOnce'
    BY <1>3 DEF DaemonRestarts, AllocationInv, AllocatedOnce
  <2>3. QED
    BY <2>1, <2>2 DEF AllocationInv, Choosers, ChosenIsFree, LockPc
<1>4. QED
  BY <1>1, <1>2, <1>3

\* NET-04 and the comment at NETWORK_ALLOCATION (project.rs:3281-3295): however
\* creates, starts, stops, deletes and label edits interleave, are cancelled or
\* die, the allocator gives no index to two projects.
THEOREM UniqueIndices == Spec => []AllocatedOnce
<1>1. Init => AllocationInv
  <2> SUFFICES ASSUME Init PROVE AllocationInv
    OBVIOUS
  <2>1. AllocatedOnce
    BY Constants DEF Init, AllocatedOnce, Index, NoIndex, NoRecord
  <2>2. \A r \in Slot : rpc[r].pc = "idle"
    BY IdleType DEF Init
  <2>3. QED
    BY <2>1, <2>2 DEF AllocationInv, Choosers, ChosenIsFree, LockPc
<1>2. TypeOK /\ AllocationInv /\ [Next]_vars => AllocationInv'
  <2> SUFFICES ASSUME TypeOK, AllocationInv, [Next]_vars PROVE AllocationInv'
    OBVIOUS
  <2>1. ASSUME NEW r \in Slot, NEW n \in Name, Begin(r, n) PROVE AllocationInv'
    BY <2>1, BeginAllocates
  <2>2. ASSUME NEW r \in Slot, Acquire(r) \/ Progress(r) PROVE AllocationInv'
    BY <2>2, CreateAllocates, StartAllocates, EndAllocates, EditAllocates
       DEF Acquire, Progress
  <2>3. CASE UNCHANGED vars
    BY <2>3 DEF vars, AllocationInv, AllocatedOnce, Choosers, ChosenIsFree,
                Free, I
  <2>4. QED
    BY <2>1, <2>2, <2>3, FaultAllocates DEF Next
<1>3. AllocationInv => AllocatedOnce
  BY DEF AllocationInv
<1>4. QED
  BY <1>1, <1>2, <1>3, NetworkTypes, PTL DEF Spec

-------------------------------------------------------------------------------
(* A request at a time: what a request has read is so still when it acts on *)
(* it, no link outlives its task, and no label edit puts anything back.     *)

AtMostOne == \A r, s \in Slot : r # s => On(r, "idle") \/ On(s, "idle")

LinksLive == \A i \in Index : link[i] # Nobody => task[link[i]] # Nobody

UpToDate(r) ==
    LET pc == rpc[r].pc
        now == label[N(r)] IN
    /\ pc \in {"lockCreate", "chooseCreate", "publish"} => now = NoRecord
    /\ pc \in {"chooseStart", "record"} => now = NoIndex
    /\ pc \in {"connect", "writeLabels"} => I(r) = now
    /\ pc = "resolveStop" => I(r) = NoRecord
    /\ pc \in {"stopTask", "disconnect"} => I(r) \in {now, NoRecord}
    /\ pc \in {"afterStop", "disconnect", "deleteRecord"} => task[N(r)] = Nobody

AloneInv ==
    alone => AtMostOne /\ putBack = {} /\ LinkLeadsHome /\ \A r \in Slot : UpToDate(r)

LEMMA NotIndices == NoIndex \notin Index /\ NoRecord \notin Index /\ NoIndex # NoRecord
  BY Constants DEF Index, NoIndex, NoRecord

LEMMA TaskEndsLive ==
    ASSUME TypeOK, LinksLive, NEW n \in Name, TaskEnds(n)
    PROVE  LinksLive'
<1>1. \A i \in Index : link'[i] = IF link[i] = n THEN Nobody ELSE link[i]
  BY DEF TaskEnds
<1>2. \A m \in Name : m # n => task'[m] = task[m]
  BY DEF TaskEnds, TypeOK
<1>3. QED
  BY <1>1, <1>2 DEF LinksLive, TypeOK

LEMMA StepLive ==
    ASSUME TypeOK, LinksLive, NEW r \in Slot, Acquire(r) \/ Progress(r) \/ Cancel(r)
    PROVE  LinksLive'
<1>0. N(r) \in Name /\ r # Nobody
  BY RequestName, Constants
<1>1. CASE UNCHANGED <<task, link>>
  BY <1>1 DEF LinksLive
<1>2. CASE StartCreateTask(r)
  BY <1>0, <1>2 DEF StartCreateTask, LinksLive, TypeOK
<1>3. CASE StartConnect(r)
  <2>1. UNCHANGED task
    BY <1>3 DEF StartConnect
  <2>2. CASE task[N(r)] = r /\ link' = [link EXCEPT ![I(r)] = N(r)]
    BY <1>0, <2>1, <2>2 DEF LinksLive, TypeOK
  <2>3. CASE link' = [link EXCEPT ![I(r)] = Nobody]
    BY <2>1, <2>3 DEF LinksLive, TypeOK
  <2>4. QED
    BY <1>3, <2>2, <2>3 DEF StartConnect
<1>4. CASE StartUnwired(r)
  BY <1>0, <1>1, <1>4, TaskEndsLive DEF StartUnwired
<1>5. CASE StopTask(r)
  BY <1>0, <1>1, <1>5, TaskEndsLive DEF StopTask
<1>6. CASE Disconnect(r)
  BY <1>6 DEF Disconnect, LinksLive
<1>7. ~StartCreateTask(r) /\ ~StartConnect(r) /\ ~StartUnwired(r) /\ ~StopTask(r) /\ ~Disconnect(r)
      => UNCHANGED <<task, link>>
  <2>1. CASE Acquire(r) \/ Cancel(r)
    BY <2>1 DEF Acquire, CreateLock, StartLock, Locks, Cancel
  <2>2. CASE Progress(r)
    BY <2>2 DEF Progress, CreateCheck, CreateChoose, CreatePublish, StartResolve, StartFind,
                StartReread, StartChoose, StartRecord, StopResolve, DeleteResolve,
                DeleteAllocation, StopAllocation, DeleteRecord, EditRead, EditWrite, Looks
  <2>3. QED
    BY <2>1, <2>2
<1>8. QED
  BY <1>1, <1>2, <1>3, <1>4, <1>5, <1>6, <1>7

LEMMA NextLive ==
    ASSUME TypeOK, LinksLive, [Next]_vars
    PROVE  LinksLive'
<1>1. ASSUME NEW n \in Name, TaskExits(n) PROVE LinksLive'
  BY <1>1, TaskEndsLive DEF TaskExits
<1>2. CASE DaemonRestarts \/ UNCHANGED vars \/ \E r \in Slot, n \in Name : Begin(r, n)
  BY <1>2 DEF DaemonRestarts, vars, Begin, LinksLive
<1>3. QED
  BY <1>1, <1>2, StepLive DEF Next

\* Where no label changes and links only go, every link still leads home.
LEMMA StillHome ==
    ASSUME LinkLeadsHome, putBack = {}, UNCHANGED <<label, putBack>>,
           \A i \in Index : link'[i] \in {link[i], Nobody}
    PROVE  LinkLeadsHome' /\ putBack' = {}
  BY DEF LinkLeadsHome

LEMMA TaskEndsHome ==
    ASSUME NEW n, TaskEnds(n)
    PROVE  \A i \in Index : link'[i] \in {link[i], Nobody}
  BY DEF TaskEnds

\* A record without an index gets one: no link led to its project.
LEMMA CarriesHome ==
    ASSUME TypeOK, LinkLeadsHome, putBack = {}, NEW n \in Name, NEW i \in Label, Carries(n, i),
           label[n] \notin Index \/ \A j \in Index : link[j] # n, UNCHANGED link
    PROVE  LinkLeadsHome' /\ putBack' = {}
<1>1. \A j \in Index : link[j] # n
  BY Constants DEF LinkLeadsHome, TypeOK
<1>2. \A m \in Name : m # n => label'[m] = label[m]
  BY DEF Carries, TypeOK
<1>3. QED
  BY <1>1, <1>2 DEF LinkLeadsHome, Carries, TypeOK

LEMMA CreateAlone ==
    ASSUME TypeOK, LinkLeadsHome, putBack = {}, NEW r \in Slot, UpToDate(r),
           CreateCheck(r) \/ CreateLock(r) \/ CreateChoose(r) \/ CreatePublish(r)
    PROVE  LinkLeadsHome' /\ putBack' = {} /\ UpToDate(r)'
<1> USE DEF Pc, CreatePc, N, I
<1>0. N(r) \in Name /\ I(r) \in Label /\ Index \subseteq Label
  BY RequestName DEF Label
<1>1. CASE CreateCheck(r)
  <2>1. UNCHANGED <<label, putBack, task, link>>
    BY <1>1 DEF CreateCheck, Looks
  <2>2. \/ rpc'[r].pc = "idle"
        \/ rpc'[r].pc = "lockCreate" /\ rpc'[r].name = rpc[r].name /\ label[rpc[r].name] = NoRecord
    BY <1>1, AnswerEffect, GotoEffect DEF CreateCheck, Looks
  <2>3. QED
    BY <2>1, <2>2, StillHome DEF UpToDate
<1>2. CASE CreateLock(r)
  <2>1. UNCHANGED <<label, putBack, task, link>>
    BY <1>2 DEF CreateLock, Locks
  <2>2. /\ rpc'[r].pc = "chooseCreate" /\ rpc'[r].name = rpc[r].name
        /\ label[rpc[r].name] = NoRecord
    BY <1>2, GotoEffect DEF CreateLock, Locks, On, UpToDate
  <2>3. QED
    BY <2>1, <2>2, StillHome DEF UpToDate
<1>3. CASE CreateChoose(r)
  <2>1. UNCHANGED <<label, putBack, task, link>> /\ label[rpc[r].name] = NoRecord
    BY <1>3 DEF CreateChoose, On, UpToDate
  <2>2. \/ rpc'[r].pc = "idle"
        \/ rpc'[r].pc = "publish" /\ rpc'[r].name = rpc[r].name
    BY <1>0, <1>3, AnswerEffect, GotoWithEffect DEF CreateChoose, Chooses, Candidates
  <2>3. QED
    BY <2>1, <2>2, StillHome DEF UpToDate
<1>4. CASE CreatePublish(r)
  <2>1. rpc'[r].pc = "idle" /\ UNCHANGED link /\ label[N(r)] = NoRecord
    BY <1>4, AnswerEffect DEF CreatePublish, On, UpToDate
  <2>2. LinkLeadsHome' /\ putBack' = {}
    BY <1>0, <1>4, <2>1, NotIndices, CarriesHome, StillHome DEF CreatePublish
  <2>3. QED
    BY <2>1, <2>2 DEF UpToDate
<1>5. QED
  BY <1>1, <1>2, <1>3, <1>4

LEMMA StartAlone ==
    ASSUME TypeOK, LinkLeadsHome, putBack = {}, NEW r \in Slot, UpToDate(r),
           \/ StartResolve(r) \/ StartCreateTask(r) \/ StartFind(r) \/ StartLock(r)
           \/ StartReread(r) \/ StartChoose(r) \/ StartRecord(r) \/ StartConnect(r)
           \/ StartUnwired(r)
    PROVE  LinkLeadsHome' /\ putBack' = {} /\ UpToDate(r)'
<1>0. N(r) \in Name /\ I(r) \in Label /\ Index \subseteq Label
  BY RequestName DEF Label
<1>0a. {"createTask", "find", "lockStart", "reread", "chooseStart", "record", "connect",
        "unstart"} \subseteq Pc
  BY DEF Pc, StartPc
<1>1. CASE StartResolve(r) \/ StartCreateTask(r) \/ StartLock(r)
  <2>1. UNCHANGED <<label, putBack, link>>
    BY <1>1 DEF StartResolve, Looks, StartCreateTask, StartLock, Locks
  <2>2. rpc'[r].pc \in {"idle", "createTask", "find", "reread"}
    BY <1>0a, <1>1, AnswerEffect, GotoEffect
    DEF StartResolve, Looks, StartCreateTask, StartLock, Locks
  <2>3. QED
    BY <2>1, <2>2, StillHome DEF UpToDate
<1>2. CASE StartFind(r)
  <2>1. UNCHANGED <<label, putBack, link>>
    BY <1>2 DEF StartFind
  <2>2. \/ rpc'[r].pc = "connect" /\ I(r)' = label[N(r)] /\ N(r)' = N(r)
        \/ rpc'[r].pc \in {"lockStart", "unstart"}
    BY <1>0, <1>0a, <1>2, GotoEffect, GotoWithEffect DEF StartFind, I, N
  <2>3. QED
    BY <2>1, <2>2, StillHome DEF UpToDate
<1>3. CASE StartReread(r)
  <2>1. UNCHANGED <<label, putBack, link>>
    BY <1>3 DEF StartReread
  <2>2. \/ rpc'[r].pc = "connect" /\ I(r)' = label[N(r)] /\ N(r)' = N(r)
        \/ rpc'[r].pc = "chooseStart" /\ label[N(r)] = NoIndex /\ N(r)' = N(r)
        \/ rpc'[r].pc = "unstart"
    BY <1>0, <1>0a, <1>3, GotoEffect, GotoWithEffect DEF StartReread, I, N
  <2>3. QED
    BY <2>1, <2>2, StillHome DEF UpToDate
<1>4. CASE StartChoose(r)
  <2>1. UNCHANGED <<label, putBack, link>> /\ label[N(r)] = NoIndex
    BY <1>4 DEF StartChoose, On, UpToDate
  <2>2. \/ rpc'[r].pc = "record" /\ N(r)' = N(r)
        \/ rpc'[r].pc = "unstart"
    BY <1>0, <1>0a, <1>4, GotoEffect, GotoWithEffect DEF StartChoose, Chooses, Candidates, N
  <2>3. QED
    BY <2>1, <2>2, StillHome DEF UpToDate
<1>5. CASE StartRecord(r)
  <2>1. UNCHANGED link /\ label[N(r)] = NoIndex
    BY <1>5 DEF StartRecord, On, UpToDate
  <2>2. LinkLeadsHome' /\ putBack' = {}
    BY <1>0, <1>5, <2>1, NotIndices, CarriesHome, StillHome DEF StartRecord
  <2>3. \/ /\ rpc'[r].pc = "connect" /\ I(r)' = I(r) /\ N(r)' = N(r)
           /\ label' = [label EXCEPT ![N(r)] = I(r)]
        \/ rpc'[r].pc = "unstart"
    BY <1>0a, <1>5, GotoEffect DEF StartRecord, Carries, I, N
  <2>4. rpc'[r].pc = "connect" => I(r)' = label'[N(r)']
    BY <1>0, <2>3 DEF TypeOK
  <2>5. rpc'[r].pc \in {"connect", "unstart"}
    BY <2>3
  <2>6. QED
    BY <2>2, <2>4, <2>5 DEF UpToDate
<1>6. CASE StartConnect(r)
  <2>1. rpc'[r].pc \in {"idle", "unstart"} /\ UNCHANGED <<label, putBack>> /\ I(r) = label[N(r)]
    BY <1>0a, <1>6, AnswerEffect, GotoEffect DEF StartConnect, On, UpToDate
  <2>2. CASE link' = [link EXCEPT ![I(r)] = N(r)]
    BY <1>0, <2>1, <2>2 DEF LinkLeadsHome, UpToDate, TypeOK
  <2>3. CASE link' = [link EXCEPT ![I(r)] = Nobody]
    BY <2>1, <2>3 DEF LinkLeadsHome, UpToDate, TypeOK
  <2>4. QED
    BY <1>6, <2>2, <2>3 DEF StartConnect
<1>7. CASE StartUnwired(r)
  <2>1. rpc'[r].pc = "idle" /\ UNCHANGED <<label, putBack>>
    BY <1>7, AnswerEffect DEF StartUnwired
  <2>2. \A i \in Index : link'[i] \in {link[i], Nobody}
    BY <1>7, TaskEndsHome DEF StartUnwired
  <2>3. QED
    BY <2>1, <2>2, StillHome DEF UpToDate
<1>8. QED
  BY <1>1, <1>2, <1>3, <1>4, <1>5, <1>6, <1>7

\* No task is wedged, so nothing is left of a task that was stopped.
LEMMA EndAlone ==
    ASSUME TypeOK, LinksLive, LinkLeadsHome, putBack = {}, NEW r \in Slot, UpToDate(r), NoneWedged,
           \/ StopResolve(r) \/ DeleteResolve(r) \/ DeleteAllocation(r) \/ StopTask(r)
           \/ StopAllocation(r) \/ Disconnect(r) \/ DeleteRecord(r)
    PROVE  LinkLeadsHome' /\ putBack' = {} /\ UpToDate(r)'
<1>0. N(r) \in Name /\ I(r) \in Label /\ Index \subseteq Label /\ NoRecord \in Label
  BY RequestName DEF Label
<1>0a. EndPc \subseteq Pc
  BY DEF Pc
<1>1. CASE StopResolve(r)
  <2>1. UNCHANGED <<label, putBack, link>> /\ I(r) = NoRecord
    BY <1>1 DEF StopResolve, Looks, On, UpToDate
  <2>2. rpc'[r].pc = "idle" \/ (rpc'[r].pc = "stopTask" /\ I(r)' = I(r))
    BY <1>0a, <1>1, AnswerEffect, GotoEffect DEF StopResolve, Looks, EndPc, I
  <2>3. QED
    BY <2>1, <2>2, StillHome DEF UpToDate
<1>2. CASE DeleteResolve(r)
  <2>1. UNCHANGED <<label, putBack, link>>
    BY <1>2 DEF DeleteResolve, Looks
  <2>2. rpc'[r].pc \in {"idle", "allocation"}
    BY <1>0a, <1>2, AnswerEffect, GotoEffect DEF DeleteResolve, Looks, EndPc
  <2>3. QED
    BY <2>1, <2>2, StillHome DEF UpToDate
<1>3. CASE DeleteAllocation(r)
  <2>1. PICK i \in {label[N(r)], NoRecord} :
          rpc' = [rpc EXCEPT ![r].pc = "stopTask", ![r].index = i, ![r].deleting = TRUE]
    BY <1>3 DEF DeleteAllocation
  <2>2. rpc[r] \in Request
    BY DEF TypeOK
  <2>3. rpc'[r].pc = "stopTask" /\ I(r)' = i /\ N(r)' = N(r)
    BY <2>1, <2>2 DEF TypeOK, Request, I, N
  <2>4. UNCHANGED <<label, putBack, link>>
    BY <1>3 DEF DeleteAllocation
  <2>5. QED
    BY <2>1, <2>3, <2>4, StillHome DEF UpToDate
<1>4. CASE StopTask(r)
  <2>1. UNCHANGED <<label, putBack>> /\ I(r) \in {label[N(r)], NoRecord} /\ On(r, "stopTask")
    BY <1>4 DEF StopTask, On, UpToDate
  <2>2. \A i \in Index : link'[i] \in {link[i], Nobody}
    BY <1>4, TaskEndsHome DEF StopTask
  <2>3. \/ rpc'[r].pc = "idle"
        \/ rpc'[r].pc \in {"disconnect", "afterStop"} /\ I(r)' = I(r) /\ N(r)' = N(r)
    BY <1>0a, <1>4, AnswerEffect, GotoEffect DEF StopTask, EndPc, I, N
  <2>4. rpc'[r].pc \in {"disconnect", "afterStop"} => task'[N(r)] = Nobody
    BY <2>1 DEF NoneWedged
  <2>5. QED
    BY <2>1, <2>2, <2>3, <2>4, StillHome DEF UpToDate
<1>5. CASE StopAllocation(r)
  <2>1. UNCHANGED <<label, putBack, task, link>> /\ task[N(r)] = Nobody
    BY <1>5 DEF StopAllocation, On, UpToDate
  <2>2. \/ rpc'[r].pc = "idle"
        \/ rpc'[r].pc = "disconnect" /\ I(r)' = label[N(r)] /\ N(r)' = N(r)
    BY <1>0, <1>0a, <1>5, AnswerEffect, GotoWithEffect DEF StopAllocation, EndPc, I, N
  <2>3. QED
    BY <2>1, <2>2, StillHome DEF UpToDate
<1>6. CASE Disconnect(r)
  <2>1. UNCHANGED <<label, putBack, task>> /\ task[N(r)] = Nobody
    BY <1>6 DEF Disconnect, On, UpToDate
  <2>2. \/ rpc'[r].pc = "idle"
        \/ rpc'[r].pc = "deleteRecord" /\ N(r)' = N(r)
    BY <1>0a, <1>6, AnswerEffect, GotoEffect DEF Disconnect, EndPc, N
  <2>3. \A i \in Index : link'[i] \in {link[i], Nobody}
    BY <1>6 DEF Disconnect
  <2>4. QED
    BY <2>1, <2>2, <2>3, StillHome DEF UpToDate
<1>7. CASE DeleteRecord(r)
  <2>1. rpc'[r].pc = "idle" /\ UNCHANGED link /\ task[N(r)] = Nobody
    BY <1>7, AnswerEffect DEF DeleteRecord, On, UpToDate
  <2>2. \A j \in Index : link[j] # N(r)
    BY <1>0, <2>1, Constants DEF LinksLive
  <2>3. LinkLeadsHome' /\ putBack' = {}
    BY <1>0, <1>7, <2>1, <2>2, CarriesHome, StillHome DEF DeleteRecord
  <2>4. QED
    BY <2>1, <2>3 DEF UpToDate
<1>8. QED
  BY <1>1, <1>2, <1>3, <1>4, <1>5, <1>6, <1>7

\* A label edit writes back what is there.
LEMMA EditAlone ==
    ASSUME TypeOK, LinkLeadsHome, putBack = {}, NEW r \in Slot, UpToDate(r),
           EditRead(r) \/ EditWrite(r)
    PROVE  LinkLeadsHome' /\ putBack' = {} /\ UpToDate(r)'
<1>0. N(r) \in Name /\ label[N(r)] \in Label /\ "writeLabels" \in Pc
  BY RequestName DEF Pc, EditPc
<1>1. CASE EditRead(r)
  <2>1. UNCHANGED <<label, putBack, link>>
    BY <1>1 DEF EditRead
  <2>2. \/ rpc'[r].pc = "idle"
        \/ rpc'[r].pc = "writeLabels" /\ I(r)' = label[N(r)] /\ N(r)' = N(r)
    BY <1>0, <1>1, AnswerEffect, GotoWithEffect DEF EditRead, I, N
  <2>3. QED
    BY <2>1, <2>2, StillHome DEF UpToDate
<1>2. CASE EditWrite(r)
  <2>1. I(r) = label[N(r)] /\ UNCHANGED link /\ rpc'[r].pc = "idle"
    BY <1>2, AnswerEffect DEF EditWrite, On, UpToDate
  <2>2. UNCHANGED <<label, putBack>>
    BY <1>0, <1>2, <2>1 DEF EditWrite, TypeOK
  <2>3. QED
    BY <2>1, <2>2, StillHome DEF UpToDate
<1>3. QED
  BY <1>1, <1>2

LEMMA StepOthers ==
    ASSUME TypeOK, NEW r \in Slot, Acquire(r) \/ Progress(r) \/ Cancel(r)
    PROVE  rpc[r].pc # "idle" /\ Others(r)
<1>1. rpc[r].pc # "idle"
  <2>1. CASE Acquire(r) \/ Cancel(r)
    BY <2>1 DEF Acquire, CreateLock, StartLock, On, Cancel
  <2>2. CASE Progress(r)
    BY <2>2 DEF Progress, CreateCheck, CreateChoose, CreatePublish, StartResolve,
                StartCreateTask, StartFind, StartReread, StartChoose, StartRecord, StartConnect,
                StartUnwired, StopResolve, DeleteResolve, DeleteAllocation, StopTask,
                StopAllocation, Disconnect, DeleteRecord, EditRead, EditWrite, On
  <2>3. QED
    BY <2>1, <2>2
<1>2. Others(r)
  <2>1. Answer(r) \/ (\E pc : Goto(r, pc)) \/ (\E pc, i : GotoWith(r, pc, i)) => Others(r)
    BY DEF Answer, Goto, GotoWith, Others, TypeOK
  <2>2. CASE Acquire(r) \/ Cancel(r)
    BY <2>1, <2>2 DEF Acquire, CreateLock, StartLock, Locks, Cancel
  <2>3. CASE CreateCheck(r) \/ CreateChoose(r) \/ CreatePublish(r) \/ EditRead(r) \/ EditWrite(r)
    BY <2>1, <2>3, Zenon
    DEF CreateCheck, CreateChoose, Chooses, CreatePublish, EditRead, EditWrite, Looks
  <2>4. CASE \/ StartResolve(r) \/ StartCreateTask(r) \/ StartFind(r) \/ StartReread(r)
             \/ StartChoose(r) \/ StartRecord(r) \/ StartConnect(r) \/ StartUnwired(r)
    BY <2>1, <2>4, Zenon
    DEF StartResolve, StartCreateTask, StartFind, StartReread, StartChoose, Chooses, StartRecord,
        StartConnect, StartUnwired, Looks
  <2>5. CASE \/ StopResolve(r) \/ DeleteResolve(r) \/ StopTask(r) \/ StopAllocation(r)
             \/ Disconnect(r) \/ DeleteRecord(r)
    BY <2>1, <2>5, Zenon
    DEF StopResolve, DeleteResolve, StopTask, StopAllocation, Disconnect, DeleteRecord, Looks
  <2>6. CASE DeleteAllocation(r)
    BY <2>6 DEF DeleteAllocation, Others, TypeOK
  <2>7. QED
    BY <2>2, <2>3, <2>4, <2>5, <2>6 DEF Progress
<1>3. QED
  BY <1>1, <1>2

LEMMA StepAlone ==
    ASSUME TypeOK, LinksLive, AloneInv, alone, NoneWedged, NEW r \in Slot,
           Acquire(r) \/ Progress(r) \/ Cancel(r)
    PROVE  AtMostOne' /\ putBack' = {} /\ LinkLeadsHome' /\ \A s \in Slot : UpToDate(s)'
<1>1. AtMostOne /\ putBack = {} /\ LinkLeadsHome /\ UpToDate(r)
  BY DEF AloneInv
<1>2. \A s \in Slot \ {r} : rpc'[s].pc = "idle"
  BY <1>1, StepOthers DEF AtMostOne, On, Others
<1>3. putBack' = {} /\ LinkLeadsHome' /\ UpToDate(r)'
  <2>1. CASE Cancel(r)
    <3>1. rpc'[r].pc = "idle" /\ UNCHANGED <<label, putBack, link>>
      BY <2>1, AnswerEffect DEF Cancel
    <3>2. QED
      BY <1>1, <3>1, StillHome DEF UpToDate
  <2>2. CASE Acquire(r) \/ Progress(r)
    BY <1>1, <2>2, CreateAlone, StartAlone, EndAlone, EditAlone DEF Acquire, Progress
  <2>3. QED
    BY <2>1, <2>2
<1>4. \A s \in Slot : UpToDate(s)'
  BY <1>2, <1>3 DEF UpToDate
<1>5. AtMostOne'
  BY <1>2 DEF AtMostOne, On
<1>6. QED
  BY <1>3, <1>4, <1>5

LEMMA BeginAlone ==
    ASSUME TypeOK, AloneInv, alone, OneAtATime, NEW r \in Slot, NEW n \in Name, Begin(r, n)
    PROVE  AtMostOne' /\ putBack' = {} /\ LinkLeadsHome' /\ \A s \in Slot : UpToDate(s)'
<1>1. PICK pc \in Begins : rpc' = [rpc EXCEPT ![r] = At(pc, n)]
  BY DEF Begin
<1>2. rpc'[r].pc \in Begins /\ I(r)' = NoRecord
  BY <1>1 DEF At, TypeOK, I
<1>3. "idle" \notin Begins
  BY DEF Begins
<1>4. \A s \in Slot \ {r} : rpc'[s].pc = "idle"
  BY <1>2, <1>3 DEF OneAtATime
<1>5. UpToDate(r)'
  BY <1>2 DEF UpToDate, Begins
<1>6. \A s \in Slot : UpToDate(s)'
  BY <1>4, <1>5 DEF UpToDate
<1>7. AtMostOne'
  BY <1>4 DEF AtMostOne, On
<1>8. putBack' = {} /\ LinkLeadsHome'
  BY StillHome DEF Begin, AloneInv
<1>9. QED
  BY <1>6, <1>7, <1>8

\* A task that exits, or nemrd that starts again, ends no request halfway.
LEMMA FaultAlone ==
    ASSUME TypeOK, AloneInv, alone, DaemonRestarts \/ \E n \in Name : TaskExits(n)
    PROVE  AtMostOne' /\ putBack' = {} /\ LinkLeadsHome' /\ \A s \in Slot : UpToDate(s)'
<1>0. AtMostOne /\ putBack = {} /\ LinkLeadsHome /\ \A s \in Slot : UpToDate(s)
  BY DEF AloneInv
<1>1. CASE DaemonRestarts
  <2>1. \A s \in Slot : rpc'[s].pc = "idle"
    BY <1>1, IdleType DEF DaemonRestarts
  <2>2. UNCHANGED <<label, putBack, link>>
    BY <1>1 DEF DaemonRestarts
  <2>3. QED
    BY <1>0, <2>1, <2>2, StillHome DEF AtMostOne, On, UpToDate
<1>2. ASSUME NEW n \in Name, TaskExits(n)
      PROVE  AtMostOne' /\ putBack' = {} /\ LinkLeadsHome' /\ \A s \in Slot : UpToDate(s)'
  <2>1. UNCHANGED <<label, putBack, rpc>> /\ \A i \in Index : link'[i] \in {link[i], Nobody}
    BY <1>2, TaskEndsHome DEF TaskExits
  <2>2. \A m \in Name : task[m] = Nobody => task'[m] = Nobody
    BY <1>2 DEF TaskExits, TaskEnds, TypeOK
  <2>3. \A s \in Slot : UpToDate(s)'
    BY <1>0, <2>1, <2>2, RequestName DEF UpToDate, N, I
  <2>4. QED
    BY <1>0, <2>1, <2>3, StillHome DEF AtMostOne, On
<1>3. QED
  BY <1>1, <1>2

LEMMA NextAlone ==
    ASSUME TypeOK, LinksLive, AloneInv, [MCNext]_<<vars, alone>>
    PROVE  AloneInv'
<1>1. CASE UNCHANGED <<vars, alone>>
  BY <1>1 DEF vars, AloneInv, AtMostOne, On, LinkLeadsHome, UpToDate, N, I
<1>2. CASE MCNext
  <2>1. alone' = alone
    BY <1>2 DEF MCNext
  <2>2. alone => Next /\ OneAtATime /\ NoneWedged
    BY <1>2 DEF MCNext
  <2>3. alone => AtMostOne' /\ putBack' = {} /\ LinkLeadsHome' /\ \A s \in Slot : UpToDate(s)'
    BY <2>2, StepAlone, BeginAlone, FaultAlone DEF Next
  <2>4. QED
    BY <2>1, <2>3 DEF AloneInv
<1>3. QED
  BY <1>1, <1>2

LEMMA AloneRuns == MCSpec => Spec
<1>1. MCInit => Init
  BY DEF MCInit
<1>2. [MCNext]_<<vars, alone>> => [Next]_vars
  BY DEF MCNext
<1>3. QED
  BY <1>1, <1>2, PTL DEF MCSpec, Spec

LEMMA AloneAlways == MCSpec => [](TypeOK /\ AllocatedOnce /\ AloneInv)
<1>1. MCInit => LinksLive /\ AloneInv
  <2> SUFFICES ASSUME MCInit PROVE LinksLive /\ AloneInv
    OBVIOUS
  <2>1. /\ \A i \in Index : link[i] = Nobody
        /\ putBack = {} /\ \A r \in Slot : rpc[r].pc = "idle"
    BY IdleType DEF MCInit, Init
  <2>2. QED
    BY <2>1 DEF LinksLive, AloneInv, AtMostOne, On, LinkLeadsHome, UpToDate
<1>2. [MCNext]_<<vars, alone>> => [Next]_vars
  BY DEF MCNext
<1>3. TypeOK /\ LinksLive /\ AloneInv /\ [MCNext]_<<vars, alone>> => LinksLive' /\ AloneInv'
  BY <1>2, NextLive, NextAlone
<1>4. MCSpec => []TypeOK /\ []AllocatedOnce
  BY AloneRuns, NetworkTypes, UniqueIndices, PTL
<1>5. QED
  BY <1>1, <1>3, <1>4, PTL DEF MCSpec

\* A request at a time and no wedged task: a wired session is wired on the index its
\* own record carries.
THEOREM LinksLeadHome == MCSpec => []AloneLinkLeadsHome
<1>1. AloneInv => AloneLinkLeadsHome
  BY DEF AloneInv, AloneLinkLeadsHome
<1>2. QED
  BY <1>1, AloneAlways, PTL

\* A request at a time and no wedged task: the link that connect and disconnect delete
\* by its name is the project's own, or nobody's.
THEOREM LinksOfOthersStay == MCSpec => AloneOthersKeepTheirLink
<1>1. ASSUME TypeOK, AllocatedOnce, AloneInv, alone, NEW r \in Slot,
             StartConnect(r) \/ Disconnect(r), I(r) \in Index
      PROVE  link[I(r)] \in {N(r), Nobody}
  <2>1. putBack = {} /\ LinkLeadsHome /\ UpToDate(r)
    BY <1>1 DEF AloneInv
  <2>2. I(r) = label[N(r)]
    BY <1>1, <2>1, NotIndices DEF UpToDate, StartConnect, Disconnect, On
  <2>3. link[I(r)] # Nobody => link[I(r)] \in Name /\ label[link[I(r)]] = I(r)
    BY <1>1, <2>1 DEF LinkLeadsHome, TypeOK
  <2>4. QED
    BY <1>1, <2>1, <2>2, <2>3, RequestName DEF AllocatedOnce
<1>2. TypeOK /\ AllocatedOnce /\ AloneInv
      => (alone => \A r \in Slot : (StartConnect(r) \/ Disconnect(r)) /\ I(r) \in Index
                                   => link[I(r)] \in {N(r), Nobody})
  BY <1>1
<1>3. QED
  BY <1>2, AloneAlways, PTL DEF MCSpec, AloneOthersKeepTheirLink

===============================================================================
