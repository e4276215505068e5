-------------------------- MODULE PortForwards_proofs --------------------------
(***************************************************************************)
(* Proofs about PortForwards, for any projects, ports and requests.        *)
(***************************************************************************)
EXTENDS PortForwards, FiniteSetTheorems, TLAPS

-------------------------------------------------------------------------------
(* Types *)

LEMMA IdleType == Idle \in Request /\ Idle.pc = "idle" /\ Idle.kind = "create"
<1>1. AnyProject \in Project /\ AnyPort \in Port
  BY Constants DEF AnyProject, AnyPort
<1>2. QED
  BY <1>1 DEF Idle, At, Request, Kind

LEMMA AnswerType ==
    ASSUME TypeOK, NEW r \in Slot, Answer(r)
    PROVE  rpc' \in [Slot -> Request]
  BY IdleType DEF TypeOK, Answer

LEMMA GotoType ==
    ASSUME TypeOK, NEW r \in Slot, NEW pc \in Pc, Goto(r, pc)
    PROVE  rpc' \in [Slot -> Request]
  BY DEF TypeOK, Goto, Request

LEMMA RequestFields ==
    ASSUME TypeOK, NEW r \in Slot
    PROVE  /\ P(r) \in Project /\ H(r) \in Port /\ rpc[r].kind \in Kind
           /\ rpc[r].claims \in SUBSET Claim
           /\ rpc[r].seen \in SUBSET Port /\ rpc[r].todo \in SUBSET Port
  BY DEF TypeOK, Request, P, H

LEMMA ForgetType ==
    ASSUME NEW f \in [Slot -> Request], NEW gone
    PROVE  Forget(f, gone) \in [Slot -> Request]
  BY DEF Forget, Request

LEMMA ClaimTypes ==
    ASSUME TypeOK
    PROVE  /\ \A p \in Project : Labels(p) \in SUBSET Claim
           /\ \A c \in SUBSET Claim : Ports(c) \in SUBSET Port
  BY DEF TypeOK, Labels, Ports, Claim

LEMMA HistoryType ==
    ASSUME TypeOK, Expected \/ Disturbed
    PROVE  /\ alone' \in BOOLEAN /\ clean' \in BOOLEAN /\ quiet' \in BOOLEAN
           /\ clean' => alone'
<1>1. alone \in BOOLEAN /\ clean \in BOOLEAN /\ quiet \in BOOLEAN /\ (clean => alone)
  BY Zenon DEF TypeOK
<1>2. CASE Expected
  <2>1. alone' = alone /\ clean' = clean /\ quiet' = quiet
    BY <1>2, Zenon DEF Expected, history
  <2>2. QED
    BY <1>1, <2>1, Zenon
<1>3. CASE Disturbed
  <2>1. alone' = alone /\ clean' = FALSE /\ quiet' = FALSE
    BY <1>3, Zenon DEF Disturbed
  <2>2. QED
    BY <1>1, <2>1, Zenon
<1>4. QED
  BY <1>2, <1>3, Zenon

\* A step that changes nothing but its own request.
LEMMA StateType ==
    ASSUME TypeOK, UNCHANGED state, Expected \/ Disturbed, rpc' \in [Slot -> Request]
    PROVE  TypeOK'
  BY HistoryType DEF TypeOK, state

LEMMA LooksType ==
    ASSUME TypeOK, NEW r \in Slot, NEW condition, NEW pc \in Pc, Looks(r, condition, pc)
    PROVE  TypeOK'
  BY AnswerType, GotoType, StateType DEF Looks, Fails

LEMMA BindsType ==
    ASSUME TypeOK, NEW h \in Port, NEW who \in Project \cup {User, Host}, Binds(h, who)
    PROVE  bound' \in [Port -> Project \cup {User, Host, Free}]
  BY DEF TypeOK, Binds

LEMMA WritesType ==
    ASSUME TypeOK, NEW r \in Slot, NEW ports \in SUBSET Port, WritesPorts(r, ports)
    PROVE  TypeOK'
<1>1. P(r) \in Project
  BY RequestFields
<1>2. rpc' \in [Slot -> Request] /\ (Expected \/ Disturbed)
  BY AnswerType DEF WritesPorts, Fails
<1>3. declared' \in [Project -> SUBSET Port] /\ \A p \in Project \ record : declared'[p] = {}
  BY <1>1 DEF TypeOK, WritesPorts, Updates
<1>4. QED
  BY <1>2, <1>3, HistoryType DEF TypeOK, WritesPorts

LEMMA DropsType ==
    ASSUME TypeOK, NEW r \in Slot, NEW h \in Port, Drops(r, h)
    PROVE  TypeOK'
<1> DEFINE rest == [rpc EXCEPT ![r].todo = @ \ {h}]
<1>1. rest \in [Slot -> Request]
  BY RequestFields DEF TypeOK, Request
<1>2. rpc' \in [Slot -> Request] /\ (Expected \/ Disturbed)
  BY <1>1, ForgetType DEF Drops
<1>3. bound' \in [Port -> Project \cup {User, Host, Free}]
  BY DEF Drops, TypeOK
<1>4. QED
  BY <1>2, <1>3, HistoryType DEF TypeOK, Drops

LEMMA CreateStartType ==
    ASSUME TypeOK, NEW r \in Slot, Create(r) \/ Start(r)
    PROVE  TypeOK'
<1> USE RequestFields
<1>1. CASE Create(r)
  BY <1>1, AnswerType DEF Create, TypeOK, history
<1>2. CASE StartState(r)
  BY <1>2, LooksType DEF StartState, Pc, StartPc
<1>3. CASE StartReap(r)
  <2>1. "startTask" \in Pc
    BY DEF Pc, StartPc
  <2>2. rpc' \in [Slot -> Request] /\ (Expected \/ Disturbed)
    BY <1>3, <2>1, AnswerType, GotoType DEF StartReap, Fails
  <2>3. QED
    BY <1>3, <2>2, HistoryType DEF StartReap, TypeOK, TaskGone
<1>4. CASE StartTask(r)
  <2>1. "findApply" \in Pc
    BY DEF Pc, StartPc
  <2>2. rpc' \in [Slot -> Request] /\ (Expected \/ Disturbed)
    BY <1>4, <2>1, AnswerType, GotoType DEF StartTask, Fails
  <2>3. QED
    BY <1>4, <2>2, HistoryType DEF StartTask, TypeOK
<1>5. CASE ApplyFind(r)
  <2>1. rpc' \in [Slot -> Request]
    BY <1>5, AnswerType, ClaimTypes DEF ApplyFind, Fails, TypeOK, Request, Pc, StartPc
  <2>2. QED
    BY <1>5, <2>1, StateType DEF ApplyFind, Fails
<1>6. CASE ApplyList(r)
  <2>1. Ports(rpc[r].claims) \in SUBSET Port /\ Missing(rpc[r].claims) \in SUBSET Port
    BY ClaimTypes DEF Missing
  <2>2. rpc' \in [Slot -> Request]
    BY <1>6, <2>1 DEF ApplyList, TypeOK, Request, Pc, StartPc
  <2>3. QED
    BY <1>6, <2>2, StateType DEF ApplyList
<1>7. CASE ApplyEnds(r)
  BY <1>7, AnswerType, StateType DEF ApplyEnds, Expected
<1>8. ASSUME NEW h \in Port, ApplyPort(r, h) PROVE TypeOK'
  <2>1. rpc' \in [Slot -> Request] /\ (Expected \/ Disturbed)
    BY <1>8 DEF ApplyPort, TypeOK, Request
  <2>2. bound' \in [Port -> Project \cup {User, Host, Free}]
    BY <1>8, BindsType DEF ApplyPort, TypeOK
  <2>3. QED
    BY <1>8, <2>1, <2>2, HistoryType DEF ApplyPort, TypeOK
<1>9. QED
  BY <1>1, <1>2, <1>3, <1>4, <1>5, <1>6, <1>7, <1>8 DEF Start

LEMMA EndType ==
    ASSUME TypeOK, NEW r \in Slot, End(r)
    PROVE  TypeOK'
<1> USE RequestFields
<1>1. CASE StopState(r)
  BY <1>1, LooksType DEF StopState, Pc, EndPc
<1>2. CASE DeleteResolve(r)
  BY <1>2, LooksType DEF DeleteResolve, Pc, EndPc
<1>3. CASE WithdrawFind(r)
  <2>1. Labels(P(r)) \in SUBSET Claim
    BY ClaimTypes
  <2>2. rpc' \in [Slot -> Request]
    BY <1>3, <2>1 DEF WithdrawFind, TypeOK, Request, Pc, EndPc, Goto
  <2>3. QED
    BY <1>3, <2>2, StateType DEF WithdrawFind
<1>4. CASE WithdrawList(r)
  <2>1. Withdrawn(r) \cap LivePorts \in SUBSET Port
    BY DEF LivePorts
  <2>2. rpc' \in [Slot -> Request]
    BY SMTT(60), <1>4, <2>1 DEF WithdrawList, Lists, TypeOK, Request, Pc, RemovePc, Goto
  <2>3. QED
    BY <1>4, <2>2, StateType DEF WithdrawList, Lists
<1>5. CASE DropEnds(r)
  <2>1. rpc' \in [Slot -> Request]
    BY <1>5, GotoType DEF DropEnds, Pc, RemovePc, EndPc
  <2>2. QED
    BY <1>5, <2>1, StateType DEF DropEnds, Expected
<1>6. CASE StopTask(r)
  <2>1. rpc' \in [Slot -> Request] /\ (Expected \/ Disturbed)
    BY <1>6, AnswerType, GotoType DEF StopTask, Pc, EndPc
  <2>2. QED
    BY <1>6, <2>1, HistoryType DEF StopTask, TypeOK, TaskGone
<1>7. CASE DeleteRecord(r)
  <2>1. rpc' \in [Slot -> Request] /\ (Expected \/ Disturbed)
    BY <1>7, AnswerType DEF DeleteRecord, Fails
  <2>2. /\ record' \subseteq Project /\ declared' \in [Project -> SUBSET Port]
        /\ \A p \in Project \ record' : declared'[p] = {}
    BY <1>7 DEF DeleteRecord, TypeOK
  <2>3. QED
    BY <1>7, <2>1, <2>2, HistoryType DEF DeleteRecord, TypeOK
<1>8. ASSUME NEW h \in Port, Drop(r, h) PROVE TypeOK'
  BY <1>8, DropsType DEF Drop
<1>9. QED
  BY <1>1, <1>2, <1>3, <1>4, <1>5, <1>6, <1>7, <1>8 DEF End

LEMMA AddType ==
    ASSUME TypeOK, NEW r \in Slot, Add(r)
    PROVE  TypeOK'
<1> USE RequestFields
<1>1. CASE AddFind(r)
  <2>1. Labels(P(r)) \in SUBSET Claim
    BY ClaimTypes
  <2>2. rpc' \in [Slot -> Request]
    BY <1>1, <2>1, AnswerType DEF AddFind, Fails, TypeOK, Request, Pc, AddPc
  <2>3. QED
    BY <1>1, <2>2, StateType DEF AddFind, Fails
<1>2. CASE AddOthers(r)
  BY <1>2, LooksType DEF AddOthers, Pc, AddPc
<1>3. CASE AddState(r)
  <2>1. rpc' \in [Slot -> Request]
    BY <1>3, AnswerType, GotoType DEF AddState, Fails, Pc, AddPc
  <2>2. QED
    BY <1>3, <2>1, StateType DEF AddState, Fails
<1>4. CASE AddBind(r)
  <2>1. rpc' \in [Slot -> Request] /\ (Expected \/ Disturbed)
    BY <1>4, AnswerType, GotoType DEF AddBind, Fails, Pc, AddPc
  <2>2. bound' \in [Port -> Project \cup {User, Host, Free}]
    BY <1>4, BindsType DEF AddBind, TypeOK
  <2>3. QED
    BY <1>4, <2>1, <2>2, HistoryType DEF AddBind, TypeOK
<1>5. CASE AddProbe(r)
  BY <1>5, LooksType DEF AddProbe, Pc, AddPc
<1>6. CASE AddWrite(r)
  BY <1>6, ClaimTypes, WritesType DEF AddWrite
<1>7. QED
  BY <1>1, <1>2, <1>3, <1>4, <1>5, <1>6 DEF Add

LEMMA RemoveType ==
    ASSUME TypeOK, NEW r \in Slot, Remove(r)
    PROVE  TypeOK'
<1> USE RequestFields
<1>1. CASE RemoveFind(r)
  <2>1. Labels(P(r)) \in SUBSET Claim
    BY ClaimTypes
  <2>2. rpc' \in [Slot -> Request]
    BY <1>1, <2>1, AnswerType DEF RemoveFind, Fails, TypeOK, Request, Pc, RemovePc
  <2>3. QED
    BY <1>1, <2>2, StateType DEF RemoveFind, Fails
<1>2. CASE RemoveList(r)
  <2>1. Removed(r) \cap LivePorts \in SUBSET Port
    BY DEF LivePorts
  <2>2. rpc' \in [Slot -> Request]
    BY <1>2, <2>1 DEF RemoveList, Lists, TypeOK, Request, Pc, RemovePc, Goto
  <2>3. QED
    BY <1>2, <2>2, StateType DEF RemoveList, Lists
<1>3. CASE RemoveWrite(r)
  BY <1>3, ClaimTypes, WritesType DEF RemoveWrite
<1>4. QED
  BY <1>1, <1>2, <1>3 DEF Remove

LEMMA ReconcileType ==
    ASSUME TypeOK, NEW r \in Slot, Reconcile(r)
    PROVE  TypeOK'
<1> USE RequestFields
<1>1. CASE ReconcileContainers(r)
  <2>1. UNION {Labels(p) : p \in record} \in SUBSET Claim
    BY ClaimTypes DEF TypeOK
  <2>2. rpc' \in [Slot -> Request]
    BY <1>1, <2>1, AnswerType DEF ReconcileContainers, Fails, TypeOK, Request, Pc, ReconcilePc
  <2>3. QED
    BY <1>1, <2>2, StateType DEF ReconcileContainers, Fails
<1>2. CASE ReconcileList(r)
  <2>1. rpc' \in [Slot -> Request]
    BY <1>2, AnswerType
       DEF ReconcileList, Fails, TypeOK, Request, Pc, ReconcilePc, Attributable
  <2>2. QED
    BY <1>2, <2>1, StateType DEF ReconcileList, Fails
<1>3. ASSUME NEW p \in Project, ReconcileState(r, p) PROVE TypeOK'
  <2>1. Claimed(r, p) \in SUBSET Port
    BY DEF Claimed
  <2>2. {c \in rpc[r].claims : c[1] # p} \in SUBSET Claim
    OBVIOUS
  <2> DEFINE claimed == Claimed(r, p)
             decided == [rpc[r] EXCEPT !.claims = {c \in @ : c[1] # p},
                                       !.seen = @ \ claimed]
             reclaimed == [decided EXCEPT !.todo = @ \cup claimed]
  <2>3. rpc[r] \in Request
    BY DEF TypeOK
  <2>4. decided \in Request
    BY ZenonT(60), <2>1, <2>2, <2>3, RequestFields DEF Request
  <2>5. reclaimed \in Request
    BY <2>1, <2>4 DEF Request
  <2>6. \/ rpc' = [rpc EXCEPT ![r] = decided]
        \/ rpc' = [rpc EXCEPT ![r] = reclaimed]
    BY <1>3 DEF ReconcileState
  <2> HIDE DEF decided, reclaimed
  <2>7. rpc' \in [Slot -> Request]
    BY <2>4, <2>5, <2>6 DEF TypeOK
  <2>8. QED
    BY <1>3, <2>7, StateType DEF ReconcileState
<1>4. CASE ReconcileAsked(r)
  <2> DEFINE asked == [rpc[r] EXCEPT !.pc = "reclaim", !.seen = {}]
  <2>1. rpc[r] \in Request
    BY DEF TypeOK
  <2>2. asked \in Request
    BY <2>1 DEF Request, Pc, ReconcilePc
  <2>3. rpc' = [rpc EXCEPT ![r] = asked]
    BY <1>4 DEF ReconcileAsked
  <2> HIDE DEF asked
  <2>4. rpc' \in [Slot -> Request]
    BY <2>2, <2>3 DEF TypeOK
  <2>5. QED
    BY <1>4, <2>4, StateType DEF ReconcileAsked, Expected
<1>5. ASSUME NEW h \in Port, ReconcileDrop(r, h) PROVE TypeOK'
  BY <1>5, DropsType DEF ReconcileDrop
<1>6. CASE ReconcileEnds(r)
  BY <1>6, AnswerType, StateType DEF ReconcileEnds, Expected
<1>7. QED
  BY <1>1, <1>2, <1>3, <1>4, <1>5, <1>6 DEF Reconcile

LEMMA BeginType ==
    ASSUME TypeOK, NEW r \in Slot, NEW kind \in Kind, NEW p \in Project, NEW h \in Port,
           Begin(r, kind, p, h)
    PROVE  TypeOK'
<1>1. First(kind) \in Pc
  BY DEF Kind, First, Pc, AddPc, RemovePc, StartPc, EndPc, ReconcilePc
<1>2. At(First(kind), kind, p, h) \in Request
  BY <1>1 DEF At, Request
<1>3. rpc' \in [Slot -> Request]
  BY <1>2 DEF Begin, TypeOK
<1>4. /\ alone' \in BOOLEAN /\ clean' \in BOOLEAN /\ quiet' \in BOOLEAN
      /\ clean' => alone'
  <2> DEFINE nobody == \A s \in Slot : On(s, "idle")
  <2>1. /\ alone' = (alone /\ nobody) /\ clean' = (clean /\ nobody)
        /\ quiet' = (nobody /\ kind = "reconcile")
    BY Zenon DEF Begin
  <2>2. clean => alone
    BY Zenon DEF TypeOK
  <2> HIDE DEF nobody
  <2>3. QED
    BY <2>1, <2>2, Zenon
<1>5. QED
  BY <1>3, <1>4 DEF Begin, TypeOK, state

LEMMA OutsideType ==
    ASSUME TypeOK, Outside
    PROVE  TypeOK'
<1>1. Disturbed
  BY DEF Outside, TaskExits, OthersBind, OthersUnbind, RootlesskitRestarts, DaemonRestarts
<1>2. rpc' \in [Slot -> Request]
  <2>1. /\ rpc \in [Slot -> Request]
        /\ \A gone : Forget(rpc, gone) \in [Slot -> Request]
    BY ForgetType DEF TypeOK
  <2>2. [r \in Slot |-> Idle] \in [Slot -> Request]
    BY IdleType
  <2>3. \/ rpc' = rpc \/ rpc' = [r \in Slot |-> Idle]
        \/ \E gone : rpc' = Forget(rpc, gone)
    BY Zenon
    DEF Outside, TaskExits, OthersBind, OthersUnbind, RootlesskitRestarts, DaemonRestarts
  <2>4. QED
    BY <2>1, <2>2, <2>3, Zenon
<1>3. bound' \in [Port -> Project \cup {User, Host, Free}]
  BY DEF TypeOK, Outside, TaskExits, OthersBind, Binds, OthersUnbind, RootlesskitRestarts,
         DaemonRestarts, state
<1>4. task' \in [Project -> {"none", "running", "exited"}]
  BY DEF TypeOK, Outside, TaskExits, OthersBind, OthersUnbind, RootlesskitRestarts,
         DaemonRestarts, state
<1>5. UNCHANGED <<record, declared>>
  BY DEF Outside, TaskExits, OthersBind, OthersUnbind, RootlesskitRestarts,
         DaemonRestarts, state
<1>6. QED
  BY <1>1, <1>2, <1>3, <1>4, <1>5, HistoryType DEF TypeOK

LEMMA NextType ==
    ASSUME TypeOK, [Next]_vars
    PROVE  TypeOK'
<1>1. ASSUME NEW r \in Slot, Cancel(r) PROVE TypeOK'
  BY <1>1, AnswerType, StateType DEF Cancel, Fails
<1>2. CASE UNCHANGED vars
  BY <1>2 DEF TypeOK, vars, history
<1>3. QED
  BY <1>1, <1>2, BeginType, CreateStartType, EndType, AddType, RemoveType, ReconcileType,
     OutsideType DEF Next

\* The type invariant of the port forwards.
THEOREM PortTypes == Spec => []TypeOK
<1>1. Init => TypeOK
  <2> SUFFICES ASSUME Init PROVE TypeOK
    OBVIOUS
  <2>1. rpc \in [Slot -> Request]
    BY IdleType DEF Init
  <2>2. alone \in BOOLEAN /\ clean \in BOOLEAN /\ quiet \in BOOLEAN /\ (clean => alone)
    BY Zenon DEF Init
  <2>3. QED
    BY <2>1, <2>2 DEF Init, TypeOK
<1>2. QED
  BY <1>1, NextType, PTL DEF Spec

-------------------------------------------------------------------------------
(* What a step of one request leaves of the others *)

Takes(h) == bound[h] \in Project /\ bound'[h] # bound[h]

\* A step of r leaves s where it is, and s no longer names a project's forward
\* that has gone.
Leaves(r) ==
    /\ rpc[r].pc # "idle"
    /\ \A s \in Slot \ {r} :
         /\ rpc'[s].pc = rpc[s].pc /\ rpc'[s].kind = rpc[s].kind
         /\ rpc'[s].seen \subseteq rpc[s].seen /\ rpc'[s].todo \subseteq rpc[s].todo
         /\ rpc[s].kind # "start"
            => \A h \in Port : Takes(h) => h \notin rpc'[s].seen \cup rpc'[s].todo

\* A step that changes its own request and takes nobody's forward.
OwnStep(r) ==
    /\ rpc[r].pc # "idle"
    /\ \A s \in Slot \ {r} : rpc'[s] = rpc[s]
    /\ \A h \in Port : bound'[h] # bound[h] => bound[h] = Free

Step(r) == Create(r) \/ Add(r) \/ Remove(r) \/ Start(r) \/ End(r) \/ Reconcile(r) \/ Cancel(r)

LEMMA OwnLeaves ==
    ASSUME NEW r \in Slot, OwnStep(r)
    PROVE  Leaves(r)
<1>1. Free \notin Project
  BY Constants
<1>2. QED
  BY <1>1 DEF OwnStep, Leaves, Takes

LEMMA DropsLeaves ==
    ASSUME TypeOK, NEW r \in Slot, NEW h \in Port, Drops(r, h), rpc[r].pc # "idle"
    PROVE  Leaves(r)
<1> DEFINE rest == [rpc EXCEPT ![r].todo = @ \ {h}]
<1>1. /\ rest \in [Slot -> Request]
      /\ \A s \in Slot \ {r} : rest[s] = rpc[s] /\ rpc[s] \in Request
  BY RequestFields DEF TypeOK, Request
<1>2. CASE UNCHANGED bound /\ rpc' = rest
  BY <1>1, <1>2 DEF Leaves, Takes
<1>3. CASE bound' = [bound EXCEPT ![h] = Free] /\ rpc' = Forget(rest, {h})
  <2>1. \A g \in Port : Takes(g) => g = h
    BY <1>3 DEF Takes, TypeOK
  <2> HIDE DEF rest
  <2>2. ASSUME NEW s \in Slot \ {r}
        PROVE  rpc'[s] = IF rpc[s].kind = "start" THEN rpc[s]
                         ELSE [rpc[s] EXCEPT !.seen = @ \ {h}, !.todo = @ \ {h}]
    BY <1>1, <1>3 DEF Forget
  <2>3. ASSUME NEW s \in Slot \ {r}
        PROVE  /\ rpc'[s].pc = rpc[s].pc /\ rpc'[s].kind = rpc[s].kind
               /\ rpc'[s].seen \subseteq rpc[s].seen /\ rpc'[s].todo \subseteq rpc[s].todo
               /\ rpc[s].kind # "start" => h \notin rpc'[s].seen \cup rpc'[s].todo
    <3> DEFINE less == [rpc[s] EXCEPT !.seen = @ \ {h}, !.todo = @ \ {h}]
    <3>1. rpc[s] \in Request
      BY <1>1
    <3>2. /\ less.pc = rpc[s].pc /\ less.kind = rpc[s].kind
          /\ less.seen = rpc[s].seen \ {h} /\ less.todo = rpc[s].todo \ {h}
      BY <3>1 DEF Request
    <3>3. rpc'[s] = IF rpc[s].kind = "start" THEN rpc[s] ELSE less
      BY <2>2
    <3> HIDE DEF less
    <3>4. QED
      BY <3>2, <3>3
  <2>4. QED
    BY <2>1, <2>3 DEF Leaves
<1>4. QED
  BY <1>2, <1>3 DEF Drops

LEMMA StepLeaves ==
    ASSUME TypeOK, NEW r \in Slot, Step(r)
    PROVE  Leaves(r)
<1> USE DEF OwnStep, On, Goto, Answer, Fails, Looks, state, Binds, IsFree, TypeOK
<1>1. CASE Create(r) \/ Cancel(r)
  <2>1. OwnStep(r)
    BY <1>1 DEF Create, Cancel
  <2>2. QED
    BY <2>1, OwnLeaves
<1>2. CASE Add(r)
  <2>1. CASE AddFind(r) \/ AddOthers(r) \/ AddState(r) \/ AddProbe(r)
    BY <2>1, OwnLeaves DEF AddFind, AddOthers, AddState, AddProbe
  <2>2. CASE AddBind(r)
    BY <2>2, OwnLeaves DEF AddBind
  <2>3. CASE AddWrite(r)
    BY <2>3, OwnLeaves DEF AddWrite, WritesPorts
  <2>4. QED
    BY <1>2, <2>1, <2>2, <2>3 DEF Add
<1>3. CASE Remove(r)
  BY <1>3, OwnLeaves DEF Remove, RemoveFind, RemoveList, Lists, RemoveWrite, WritesPorts
<1>4. CASE Start(r)
  BY <1>4, OwnLeaves
     DEF Start, StartState, StartReap, StartTask, ApplyFind, ApplyList, ApplyEnds, ApplyPort
<1>5. CASE End(r)
  <2>1. ASSUME NEW h \in Port, Drop(r, h) PROVE Leaves(r)
    BY <2>1, DropsLeaves DEF Drop
  <2>2. QED
    BY <1>5, <2>1, OwnLeaves
    DEF End, StopState, DeleteResolve, WithdrawFind, WithdrawList, Lists, DropEnds, StopTask,
        DeleteRecord
<1>6. CASE Reconcile(r)
  <2>1. ASSUME NEW h \in Port, ReconcileDrop(r, h) PROVE Leaves(r)
    BY <2>1, DropsLeaves DEF ReconcileDrop
  <2>2. QED
    BY <1>6, <2>1, OwnLeaves
    DEF Reconcile, ReconcileContainers, ReconcileList, ReconcileAsked, ReconcileEnds,
        ReconcileState
<1>7. QED
  BY <1>1, <1>2, <1>3, <1>4, <1>5, <1>6 DEF Step

-------------------------------------------------------------------------------
(* ReconcileSparesOthers *)

\* What a reconcile has listed and not dropped is a project's still: ids are not
\* given twice, and one that has gone is forgotten.
Spared(r) ==
    rpc[r].pc \in ReconcilePc
    => /\ rpc[r].kind # "start"
       /\ \A h \in rpc[r].seen \cup rpc[r].todo : bound[h] \in Project

SparedInv == \A r \in Slot : Spared(r)

LEMMA LeavesSpared ==
    ASSUME TypeOK, SparedInv, NEW r \in Slot, Leaves(r), NEW s \in Slot \ {r}
    PROVE  Spared(s)'
<1>1. rpc[s].seen \subseteq Port /\ rpc[s].todo \subseteq Port
  BY DEF TypeOK, Request
<1>2. QED
  BY <1>1 DEF SparedInv, Spared, Leaves, Takes

\* No step but a reconcile's own, or the beginning of one, ends in one.
LEMMA NotReconciling ==
    ASSUME TypeOK, NEW r \in Slot, rpc'[r].pc \notin ReconcilePc
    PROVE  Spared(r)'
  BY DEF Spared

LEMMA ElsewhereSpared ==
    ASSUME TypeOK, NEW r \in Slot,
           Create(r) \/ Add(r) \/ Remove(r) \/ Start(r) \/ Cancel(r)
    PROVE  Spared(r)'
<1> USE IdleType, NotReconciling
    DEF On, Goto, Answer, Fails, Looks, TypeOK, Request, ReconcilePc
<1>1. CASE Create(r) \/ Cancel(r)
  BY <1>1 DEF Create, Cancel
<1>2. CASE Add(r)
  BY <1>2 DEF Add, AddFind, AddOthers, AddState, AddBind, AddProbe, AddWrite, WritesPorts
<1>3. CASE Remove(r)
  BY <1>3 DEF Remove, RemoveFind, RemoveList, Lists, RemoveWrite, WritesPorts
<1>4. CASE Start(r)
  BY <1>4
     DEF Start, StartState, StartReap, StartTask, ApplyFind, ApplyList, ApplyEnds, ApplyPort
<1>5. QED
  BY <1>1, <1>2, <1>3, <1>4

\* What a request has dropped, or has failed to drop, is not on its list.
LEMMA DropsOwn ==
    ASSUME TypeOK, NEW r \in Slot, NEW h \in Port, Drops(r, h)
    PROVE  /\ rpc'[r].pc = rpc[r].pc /\ rpc'[r].kind = rpc[r].kind
           /\ rpc'[r].claims = rpc[r].claims
           /\ rpc'[r].project = rpc[r].project /\ rpc'[r].port = rpc[r].port
           /\ rpc'[r].seen \subseteq rpc[r].seen /\ rpc'[r].todo = rpc[r].todo \ {h}
           /\ rpc[r].kind # "start"
              => \A g \in Port : Takes(g) => g \notin rpc'[r].seen \cup rpc'[r].todo
<1> DEFINE own == [rpc[r] EXCEPT !.todo = @ \ {h}]
           less == [own EXCEPT !.seen = @ \ {h}, !.todo = @ \ {h}]
           rest == [rpc EXCEPT ![r].todo = @ \ {h}]
<1>1. rpc[r] \in Request
  BY DEF TypeOK
<1>2. /\ own.pc = rpc[r].pc /\ own.kind = rpc[r].kind /\ own.claims = rpc[r].claims
      /\ own.project = rpc[r].project /\ own.port = rpc[r].port
      /\ own.seen = rpc[r].seen /\ own.todo = rpc[r].todo \ {h}
      /\ own \in Request
  BY <1>1, RequestFields DEF Request
<1> HIDE DEF own
<1>3. /\ less.pc = own.pc /\ less.kind = own.kind /\ less.claims = own.claims
      /\ less.project = own.project /\ less.port = own.port
      /\ less.seen = own.seen \ {h} /\ less.todo = own.todo \ {h}
  BY <1>2 DEF Request
<1>4. rest[r] = own
  BY DEF TypeOK, own
<1> HIDE DEF rest
<1>5. CASE UNCHANGED bound /\ rpc' = rest
  BY <1>2, <1>4, <1>5 DEF Takes
<1>6. CASE bound' = [bound EXCEPT ![h] = Free] /\ rpc' = Forget(rest, {h})
  <2>1. rpc'[r] = IF own.kind = "start" THEN own ELSE less
    BY <1>4, <1>6 DEF Forget
  <2>2. \A g \in Port : Takes(g) => g = h
    BY <1>6 DEF Takes, TypeOK
  <2> HIDE DEF less
  <2>3. QED
    BY <1>2, <1>3, <2>1, <2>2
<1>7. QED
  BY <1>5, <1>6 DEF Drops, rest

LEMMA EndSpared ==
    ASSUME TypeOK, NEW r \in Slot, End(r)
    PROVE  Spared(r)'
<1>1. ASSUME NEW h \in Port, Drop(r, h) PROVE rpc'[r].pc \notin ReconcilePc
  BY <1>1, DropsOwn DEF Drop, On, ReconcilePc
<1>2. QED
  BY <1>1, IdleType, NotReconciling
  DEF End, StopState, DeleteResolve, WithdrawFind, WithdrawList, Lists, DropEnds, StopTask,
      DeleteRecord, On, Goto, Answer, Fails, Looks, TypeOK, Request, ReconcilePc

LEMMA ReconcileSpared ==
    ASSUME TypeOK, SparedInv, NEW r \in Slot, Reconcile(r)
    PROVE  Spared(r)'
<1> USE IdleType, RequestFields DEF On, Answer, Fails
<1>1. rpc[r] \in Request /\ Spared(r)
  BY DEF TypeOK, SparedInv
<1>2. CASE ReconcileContainers(r)
  <2>1. \/ rpc'[r].pc \notin ReconcilePc
        \/ rpc'[r].kind = rpc[r].kind /\ rpc'[r].seen = rpc[r].seen /\ rpc'[r].todo = rpc[r].todo
    BY <1>1, <1>2 DEF ReconcileContainers, TypeOK, Request, ReconcilePc
  <2>2. UNCHANGED bound /\ rpc[r].pc \in ReconcilePc
    BY <1>2 DEF ReconcileContainers, state, ReconcilePc
  <2>3. QED
    BY <1>1, <2>1, <2>2 DEF Spared
<1>3. CASE ReconcileList(r)
  <2>1. \/ rpc'[r].pc \notin ReconcilePc
        \/ rpc'[r].kind = rpc[r].kind /\ rpc'[r].seen = Attributable /\ rpc'[r].todo = rpc[r].todo
    BY <1>1, <1>3 DEF ReconcileList, TypeOK, Request, ReconcilePc
  <2>2. UNCHANGED bound /\ rpc[r].pc \in ReconcilePc
    BY <1>3 DEF ReconcileList, state, ReconcilePc
  <2>3. QED
    BY <1>1, <2>1, <2>2 DEF Spared, Attributable
<1>4. ASSUME NEW p \in Project, ReconcileState(r, p) PROVE Spared(r)'
  <2> DEFINE claimed == Claimed(r, p)
             decided == [rpc[r] EXCEPT !.claims = {c \in @ : c[1] # p},
                                       !.seen = @ \ claimed]
             reclaimed == [decided EXCEPT !.todo = @ \cup claimed]
  <2>1. Claimed(r, p) \subseteq rpc[r].seen
    BY DEF Claimed
  <2>2. /\ decided.kind = rpc[r].kind
        /\ decided.seen \subseteq rpc[r].seen /\ decided.todo = rpc[r].todo
    BY <1>1 DEF Request
  <2>3. /\ reclaimed.kind = rpc[r].kind
        /\ reclaimed.seen = decided.seen /\ reclaimed.todo = rpc[r].todo \cup claimed
    BY <1>1, <2>2 DEF Request
  <2>4. rpc'[r] = decided \/ rpc'[r] = reclaimed
    BY <1>4 DEF ReconcileState, TypeOK
  <2> HIDE DEF decided, reclaimed
  <2>5. UNCHANGED bound /\ rpc[r].pc \in ReconcilePc
    BY <1>4 DEF ReconcileState, state, ReconcilePc
  <2>6. QED
    BY <1>1, <2>1, <2>2, <2>3, <2>4, <2>5 DEF Spared
<1>5. CASE ReconcileAsked(r)
  <2>1. rpc'[r].kind = rpc[r].kind /\ rpc'[r].seen = {} /\ rpc'[r].todo = rpc[r].todo
    BY <1>1, <1>5 DEF ReconcileAsked, TypeOK, Request
  <2>2. UNCHANGED bound /\ rpc[r].pc \in ReconcilePc
    BY <1>5 DEF ReconcileAsked, state, ReconcilePc
  <2>3. QED
    BY <1>1, <2>1, <2>2 DEF Spared
<1>6. ASSUME NEW h \in Port, ReconcileDrop(r, h) PROVE Spared(r)'
  BY <1>1, <1>6, DropsOwn DEF ReconcileDrop, Spared, Takes, Request
<1>7. CASE ReconcileEnds(r)
  BY <1>7, NotReconciling DEF ReconcileEnds, TypeOK, ReconcilePc
<1>8. QED
  BY <1>2, <1>3, <1>4, <1>5, <1>6, <1>7 DEF Reconcile

LEMMA BeginSpared ==
    ASSUME TypeOK, SparedInv, NEW r \in Slot, NEW kind \in Kind, NEW p \in Project,
           NEW h \in Port, Begin(r, kind, p, h)
    PROVE  SparedInv'
<1>1. rpc' = [rpc EXCEPT ![r] = At(First(kind), kind, p, h)] /\ UNCHANGED bound
  BY DEF Begin, state
<1>2. ASSUME NEW s \in Slot \ {r} PROVE Spared(s)'
  BY <1>1 DEF SparedInv, Spared, TypeOK
<1>3. First(kind) \in ReconcilePc => kind = "reconcile"
  BY DEF Kind, First, ReconcilePc
<1>4. Spared(r)'
  BY <1>1, <1>3 DEF Spared, TypeOK, At
<1>5. QED
  BY <1>2, <1>4 DEF SparedInv

LEMMA ForgetSpared ==
    ASSUME TypeOK, SparedInv, NEW gone \in SUBSET Port, rpc' = Forget(rpc, gone),
           \A h \in Port \ gone : bound'[h] = bound[h]
    PROVE  SparedInv'
<1> SUFFICES ASSUME NEW s \in Slot PROVE Spared(s)'
  BY DEF SparedInv
<1> DEFINE less == [rpc[s] EXCEPT !.seen = @ \ gone, !.todo = @ \ gone]
<1>1. rpc[s] \in Request /\ Spared(s)
  BY DEF TypeOK, SparedInv
<1>2. /\ less.pc = rpc[s].pc /\ less.kind = rpc[s].kind
      /\ less.seen = rpc[s].seen \ gone /\ less.todo = rpc[s].todo \ gone
  BY <1>1 DEF Request
<1>3. rpc'[s] = IF rpc[s].kind = "start" THEN rpc[s] ELSE less
  BY DEF Forget
<1> HIDE DEF less
<1>4. rpc[s].seen \subseteq Port /\ rpc[s].todo \subseteq Port
  BY <1>1 DEF Request
<1>5. QED
  BY <1>1, <1>2, <1>3, <1>4 DEF Spared

LEMMA OutsideSpared ==
    ASSUME TypeOK, SparedInv, Outside
    PROVE  SparedInv'
<1>1. ASSUME NEW p \in Project, TaskExits(p) PROVE SparedInv'
  BY <1>1 DEF TaskExits, SparedInv, Spared
<1>2. ASSUME NEW h \in Port, OthersUnbind(h) PROVE SparedInv'
  <2>1. rpc' = Forget(rpc, {h}) /\ \A g \in Port \ {h} : bound'[g] = bound[g]
    BY <1>2 DEF OthersUnbind, TypeOK
  <2>2. QED
    BY <2>1, ForgetSpared
<1>3. ASSUME NEW h \in Port, NEW who \in {User, Host}, OthersBind(h, who) PROVE SparedInv'
  <2>1. Free \notin Project
    BY Constants
  <2>2. UNCHANGED rpc /\ \A g \in Port : bound[g] \in Project => bound'[g] = bound[g]
    BY <1>3, <2>1 DEF OthersBind, Binds, IsFree, TypeOK
  <2>3. \A s \in Slot : rpc[s].seen \subseteq Port /\ rpc[s].todo \subseteq Port
    BY DEF TypeOK, Request
  <2>4. QED
    BY <2>2, <2>3 DEF SparedInv, Spared
<1>4. CASE RootlesskitRestarts
  <2>1. LivePorts \in SUBSET Port
    BY DEF LivePorts
  <2>2. rpc' = Forget(rpc, LivePorts) /\ \A g \in Port \ LivePorts : bound'[g] = bound[g]
    BY <1>4 DEF RootlesskitRestarts, LivePorts
  <2>3. QED
    BY <2>1, <2>2, ForgetSpared
<1>5. CASE DaemonRestarts
  BY <1>5, IdleType DEF DaemonRestarts, SparedInv, Spared, ReconcilePc
<1>6. QED
  BY <1>1, <1>2, <1>3, <1>4, <1>5 DEF Outside

LEMMA NextSpared ==
    ASSUME TypeOK, SparedInv, [Next]_vars
    PROVE  SparedInv'
<1>1. ASSUME NEW r \in Slot, Step(r) PROVE SparedInv'
  <2>1. \A s \in Slot \ {r} : Spared(s)'
    BY <1>1, StepLeaves, LeavesSpared
  <2>2. Spared(r)'
    BY <1>1, ElsewhereSpared, EndSpared, ReconcileSpared DEF Step
  <2>3. QED
    BY <2>1, <2>2 DEF SparedInv
<1>2. CASE UNCHANGED vars
  BY <1>2 DEF vars, SparedInv, Spared
<1>3. QED
  BY <1>1, <1>2, BeginSpared, OutsideSpared DEF Next, Step

\* A reconcile never takes a forward of the user's or of another program, however
\* many requests are served at once (F-97).
THEOREM SparesOthers == Spec => ReconcileSparesOthers
<1>1. Init => SparedInv
  BY IdleType DEF Init, SparedInv, Spared, ReconcilePc
<1>2. Spec => [](TypeOK /\ SparedInv)
  BY <1>1, PortTypes, NextSpared, PTL DEF Spec
<1>3. TypeOK /\ SparedInv /\ [Next]_vars
      => [\A r \in Slot, h \in Port :
            ReconcileDrop(r, h) /\ bound'[h] # bound[h] => bound[h] \in Project]_vars
  BY DEF SparedInv, Spared, ReconcileDrop, Drops, On, ReconcilePc
<1>4. QED
  BY <1>2, <1>3, PTL DEF Spec, ReconcileSparesOthers

-------------------------------------------------------------------------------
(* DeclaredOnce *)

Disjoint == \A p, q \in Project : p # q => declared[p] \cap declared[q] = {}

AtMostOne == \A r, s \in Slot : r # s => On(r, "idle") \/ On(s, "idle")

\* What a request has read and acts on later is so still.
ReadPc == {"others", "state", "bind", "probe", "writeAdd",
           "listRemove", "listWithdraw", "drop", "writeRemove"}
CheckedPc == {"state", "bind", "probe", "writeAdd"}

Knows(r) ==
    /\ rpc[r].pc \in ReadPc => rpc[r].claims = Labels(P(r))
    /\ rpc[r].pc \in CheckedPc => ~DeclaredElsewhere(P(r), H(r))

AloneInv == alone => Disjoint /\ AtMostOne /\ \A r \in Slot : Knows(r)

LEMMA PortsOfLabels ==
    ASSUME NEW p \in Project
    PROVE  Ports(Labels(p)) = declared[p]
<1>1. \A h \in declared[p] : <<p, h>> \in Labels(p) /\ <<p, h>>[2] = h
  BY DEF Labels
<1>2. \A c \in Labels(p) : c[2] \in declared[p]
  BY DEF Labels
<1>3. QED
  BY <1>1, <1>2 DEF Ports

\* The request's own request is still what it read, and nothing it read about
\* has changed.
LEMMA StillKnows ==
    ASSUME NEW r \in Slot, Knows(r), UNCHANGED <<record, declared>>,
           rpc'[r].claims = rpc[r].claims, rpc'[r].project = rpc[r].project,
           rpc'[r].port = rpc[r].port,
           rpc'[r].pc \in ReadPc => rpc[r].pc \in ReadPc,
           rpc'[r].pc \in CheckedPc => rpc[r].pc \in CheckedPc
    PROVE  Knows(r)'
  BY DEF Knows, Labels, DeclaredElsewhere, P, H

LEMMA Unknowing ==
    ASSUME NEW r \in Slot, rpc'[r].pc \notin ReadPc
    PROVE  Knows(r)'
  BY DEF Knows, ReadPc, CheckedPc

\* A request that only reads, and does not change its own project and port.
LEMMA ReadsLabels ==
    ASSUME NEW r \in Slot, UNCHANGED <<record, declared>>,
           rpc'[r].claims = Labels(P(r)), rpc'[r].project = rpc[r].project,
           rpc'[r].pc \notin CheckedPc
    PROVE  Knows(r)'
  BY DEF Knows, Labels, P

LEMMA AddKnows ==
    ASSUME TypeOK, NEW r \in Slot, Knows(r), Add(r), ~AddWrite(r)
    PROVE  UNCHANGED declared /\ Knows(r)'
<1> USE IdleType DEF On, state
<1>1. rpc[r] \in Request
  BY DEF TypeOK
<1> DEFINE Moves(pc) == /\ rpc'[r].pc = pc /\ rpc'[r].claims = rpc[r].claims
                        /\ rpc'[r].project = rpc[r].project /\ rpc'[r].port = rpc[r].port
<1>2. \A pc \in Pc : Goto(r, pc) => Moves(pc)
  BY <1>1 DEF Goto, TypeOK, Request
<1>3. Answer(r) => rpc'[r].pc \notin ReadPc
  BY DEF Answer, TypeOK, ReadPc
<1>4. {"state", "bind", "probe", "writeAdd"} \subseteq Pc
  BY DEF Pc, AddPc
<1> HIDE DEF Moves
<1>5. CASE AddFind(r)
  <2>1. \/ /\ rpc'[r].pc = "others" /\ rpc'[r].claims = Labels(P(r))
           /\ rpc'[r].project = rpc[r].project
        \/ Answer(r)
    BY <1>1, <1>5 DEF AddFind, Fails, TypeOK, Request
  <2>2. UNCHANGED <<record, declared>>
    BY <1>5 DEF AddFind
  <2>3. QED
    BY <1>3, <2>1, <2>2, ReadsLabels, Unknowing DEF CheckedPc
<1>6. CASE AddOthers(r)
  <2>1. \/ Moves("state") /\ ~DeclaredElsewhere(P(r), H(r))
        \/ Answer(r)
    BY <1>2, <1>4, <1>6 DEF AddOthers, Looks, Fails
  <2>2. UNCHANGED <<record, declared>> /\ rpc[r].pc \in ReadPc
    BY <1>6 DEF AddOthers, Looks, ReadPc
  <2>3. QED
    BY <1>3, <2>1, <2>2, Unknowing DEF Moves, Knows, Labels, DeclaredElsewhere, P, H
<1>7. CASE AddState(r) \/ AddBind(r) \/ AddProbe(r)
  <2>1. \/ Moves("bind") \/ Moves("probe") \/ Moves("writeAdd") \/ Answer(r)
    BY <1>2, <1>4, <1>7 DEF AddState, AddBind, AddProbe, Looks, Fails
  <2>2. UNCHANGED <<record, declared>> /\ rpc[r].pc \in ReadPc /\ rpc[r].pc \in CheckedPc
    BY <1>7 DEF AddState, AddBind, AddProbe, Looks, ReadPc, CheckedPc
  <2>3. QED
    BY <1>3, <2>1, <2>2, Unknowing, StillKnows DEF Moves
<1>8. QED
  BY <1>5, <1>6, <1>7 DEF Add

LEMMA TakingKnows ==
    ASSUME TypeOK, NEW r \in Slot, Knows(r), Remove(r) \/ End(r), ~RemoveWrite(r), ~DeleteRecord(r)
    PROVE  UNCHANGED declared /\ Knows(r)'
<1> USE IdleType DEF On, state
<1>1. rpc[r] \in Request
  BY DEF TypeOK
<1>2. Answer(r) => rpc'[r].pc \notin ReadPc
  BY DEF Answer, TypeOK, ReadPc
<1>3. CASE RemoveFind(r) \/ WithdrawFind(r)
  <2>1. \/ /\ rpc'[r].pc \in {"listRemove", "listWithdraw"} /\ rpc'[r].claims = Labels(P(r))
           /\ rpc'[r].project = rpc[r].project
        \/ rpc'[r].pc = "stopTask"
        \/ Answer(r)
    BY <1>1, <1>3 DEF RemoveFind, WithdrawFind, Fails, Goto, TypeOK, Request
  <2>2. UNCHANGED <<record, declared>>
    BY <1>3 DEF RemoveFind, WithdrawFind
  <2>3. QED
    BY <1>2, <2>1, <2>2, ReadsLabels, Unknowing DEF ReadPc, CheckedPc
<1>4. CASE RemoveList(r) \/ WithdrawList(r) \/ DropEnds(r)
  <2>1. /\ rpc'[r].pc \in {"drop", "writeRemove", "stopTask"} /\ rpc'[r].claims = rpc[r].claims
        /\ rpc'[r].project = rpc[r].project /\ rpc'[r].port = rpc[r].port
    BY <1>1, <1>4 DEF RemoveList, WithdrawList, DropEnds, Lists, Goto, TypeOK, Request
  <2>2. UNCHANGED <<record, declared>> /\ rpc[r].pc \in ReadPc
    BY <1>4 DEF RemoveList, WithdrawList, DropEnds, ReadPc
  <2>3. QED
    BY <2>1, <2>2, StillKnows DEF CheckedPc
<1>5. ASSUME NEW h \in Port, Drop(r, h) PROVE UNCHANGED declared /\ Knows(r)'
  BY <1>5, DropsOwn, StillKnows DEF Drop, Drops
<1>6. CASE StopState(r) \/ DeleteResolve(r) \/ StopTask(r)
  <2>1. \/ Goto(r, "findWithdraw") \/ Goto(r, "deleteRecord") \/ Answer(r)
    BY <1>6 DEF StopState, DeleteResolve, StopTask, Looks, Fails
  <2>3. \A pc : Goto(r, pc) => rpc'[r].pc = pc
    BY <1>1 DEF Goto, TypeOK, Request
  <2>2. UNCHANGED declared
    BY <1>6 DEF StopState, DeleteResolve, StopTask, Looks
  <2>4. QED
    BY <1>2, <2>1, <2>2, <2>3, Unknowing DEF ReadPc
<1>7. QED
  BY <1>3, <1>4, <1>5, <1>6 DEF Remove, End

LEMMA ElseKnows ==
    ASSUME TypeOK, NEW r \in Slot, Create(r) \/ Start(r) \/ Reconcile(r) \/ Cancel(r)
    PROVE  UNCHANGED declared /\ Knows(r)'
<1>1. UNCHANGED declared
  BY DEF Create, Cancel, Start, StartState, StartReap, StartTask, ApplyFind, ApplyList, ApplyEnds,
         ApplyPort, Looks, Reconcile, ReconcileContainers, ReconcileList, ReconcileAsked,
         ReconcileEnds, ReconcileState, ReconcileDrop, Drops, state
<1>2. ASSUME NEW h \in Port, ReconcileDrop(r, h) PROVE rpc'[r].pc \notin ReadPc
  BY <1>2, DropsOwn DEF ReconcileDrop, On, ReadPc
<1>3. ASSUME NEW p \in Project, ReconcileState(r, p) PROVE rpc'[r].pc \notin ReadPc
  <2>1. rpc[r] \in Request /\ rpc[r].pc = "states"
    BY <1>3 DEF TypeOK, ReconcileState, On
  <2> DEFINE decided == [rpc[r] EXCEPT !.claims = {c \in @ : c[1] # p},
                                       !.seen = @ \ Claimed(r, p)]
             reclaimed == [decided EXCEPT !.todo = @ \cup Claimed(r, p)]
  <2>2. decided.pc = "states"
    BY <2>1 DEF Request
  <2>3. reclaimed.pc = "states"
    BY <2>2
  <2>4. rpc'[r] = decided \/ rpc'[r] = reclaimed
    BY <1>3 DEF ReconcileState, TypeOK
  <2> HIDE DEF decided, reclaimed
  <2>5. QED
    BY <2>2, <2>3, <2>4 DEF ReadPc
<1>4. rpc'[r].pc \notin ReadPc
  BY <1>2, <1>3, IdleType
  DEF Create, Cancel, Start, StartState, StartReap, StartTask, ApplyFind, ApplyList, ApplyEnds,
      ApplyPort, Looks, Fails, Answer, Goto, On, Reconcile, ReconcileContainers, ReconcileList,
      ReconcileAsked, ReconcileEnds, TypeOK, Request, ReadPc
<1>5. QED
  BY SMTT(60), <1>1, <1>4, Unknowing

\* The writes keep the declarations apart: what is added was declared by nobody
\* else, and is the project's own claims with one more.
LEMMA WriteDisjoint ==
    ASSUME TypeOK, Disjoint, NEW r \in Slot, Knows(r),
           AddWrite(r) \/ RemoveWrite(r) \/ DeleteRecord(r)
    PROVE  Disjoint' /\ Knows(r)'
<1> USE RequestFields, IdleType DEF On
<1>1. Answer(r)
  BY DEF AddWrite, RemoveWrite, DeleteRecord, WritesPorts, Fails
<1>2. Knows(r)'
  BY <1>1, Unknowing DEF Answer, TypeOK, ReadPc
<1>3. CASE AddWrite(r)
  <2>1. Ports(rpc[r].claims) = declared[P(r)] /\ ~DeclaredElsewhere(P(r), H(r))
    BY <1>3, PortsOfLabels DEF AddWrite, Knows, ReadPc, CheckedPc
  <2>2. \A q \in Project : q # P(r) => H(r) \notin declared[q]
    BY <2>1 DEF DeclaredElsewhere, TypeOK
  <2>3. \/ declared' = [declared EXCEPT ![P(r)] = declared[P(r)] \cup {H(r)}]
        \/ UNCHANGED declared
    BY <1>3, <2>1 DEF AddWrite, WritesPorts, Updates
  <2>4. QED
    BY <1>2, <2>2, <2>3 DEF Disjoint, TypeOK
<1>4. CASE RemoveWrite(r)
  <2>1. Ports(rpc[r].claims) = declared[P(r)]
    BY <1>4, PortsOfLabels DEF RemoveWrite, Knows, ReadPc
  <2>2. \/ declared' = [declared EXCEPT ![P(r)] = declared[P(r)] \ {H(r)}]
        \/ UNCHANGED declared
    BY <1>4, <2>1 DEF RemoveWrite, WritesPorts, Updates
  <2>3. QED
    BY <1>2, <2>2 DEF Disjoint, TypeOK
<1>5. CASE DeleteRecord(r)
  <2>1. declared' = [declared EXCEPT ![P(r)] = {}] \/ UNCHANGED declared
    BY <1>5 DEF DeleteRecord
  <2>2. QED
    BY <1>2, <2>1 DEF Disjoint, TypeOK
<1>6. QED
  BY <1>3, <1>4, <1>5

LEMMA StepKnows ==
    ASSUME TypeOK, Disjoint, NEW r \in Slot, Knows(r), Step(r)
    PROVE  Disjoint' /\ Knows(r)'
<1>1. UNCHANGED declared => Disjoint'
  BY DEF Disjoint
<1>2. QED
  BY <1>1, WriteDisjoint, AddKnows, TakingKnows, ElseKnows DEF Step

LEMMA StepHistory ==
    ASSUME NEW r \in Slot, Step(r)
    PROVE  Expected \/ Disturbed
<1>1. CASE Create(r) \/ Cancel(r)
  BY <1>1 DEF Create, Cancel, Fails, Expected
<1>2. CASE Add(r)
  BY <1>2 DEF Add, AddFind, AddOthers, AddState, AddBind, AddProbe, AddWrite, WritesPorts,
              Looks, Fails
<1>3. CASE Remove(r)
  BY <1>3 DEF Remove, RemoveFind, RemoveList, Lists, RemoveWrite, WritesPorts, Fails
<1>4. CASE Start(r)
  BY <1>4 DEF Start, StartState, StartReap, StartTask, ApplyFind, ApplyList, ApplyEnds,
              ApplyPort, Looks, Fails, Expected
<1>5. CASE End(r)
  BY <1>5 DEF End, StopState, DeleteResolve, WithdrawFind, WithdrawList, Lists, Drop, Drops,
              DropEnds, StopTask, DeleteRecord, Looks, Fails, Expected
<1>6. CASE Reconcile(r)
  BY <1>6 DEF Reconcile, ReconcileContainers, ReconcileList, ReconcileAsked, ReconcileEnds,
              ReconcileState, ReconcileDrop, Drops, Fails, Expected
<1>7. QED
  BY <1>1, <1>2, <1>3, <1>4, <1>5, <1>6 DEF Step

LEMMA StepAlone ==
    ASSUME NEW r \in Slot, Step(r)
    PROVE  UNCHANGED alone
<1>1. (Expected \/ Disturbed) => UNCHANGED alone
  BY Zenon DEF Expected, Disturbed, history
<1>2. QED
  BY <1>1, StepHistory

LEMMA BeginAlone ==
    ASSUME TypeOK, AloneInv, NEW r \in Slot, NEW kind \in Kind, NEW p \in Project,
           NEW h \in Port, Begin(r, kind, p, h)
    PROVE  AloneInv'
<1> DEFINE nobody == \A s \in Slot : On(s, "idle")
<1>1. alone' = (alone /\ nobody)
  BY Zenon DEF Begin
<1> HIDE DEF nobody
<1>2. alone' => alone /\ nobody
  BY <1>1, Zenon
<1> USE DEF nobody
<1>3. rpc' = [rpc EXCEPT ![r] = At(First(kind), kind, p, h)] /\ UNCHANGED <<record, declared>>
  BY DEF Begin, state
<1>4. First(kind) \notin ReadPc
  BY DEF Kind, First, ReadPc
<1>5. \A s \in Slot : rpc'[s].pc = IF s = r THEN First(kind) ELSE rpc[s].pc
  BY <1>3 DEF At, TypeOK
<1>6. nobody => \A s \in Slot : rpc'[s].pc \notin ReadPc
  BY <1>4, <1>5 DEF On, ReadPc
<1>7. nobody => AtMostOne'
  BY <1>5 DEF On, AtMostOne
<1>8. Disjoint => Disjoint'
  BY <1>3 DEF Disjoint
<1>9. QED
  BY <1>2, <1>6, <1>7, <1>8, Unknowing DEF AloneInv

LEMMA OutsideAlone ==
    ASSUME TypeOK, AloneInv, Outside
    PROVE  AloneInv'
<1>1. UNCHANGED <<alone, record, declared>>
  <2>1. Disturbed => UNCHANGED alone
    BY Zenon DEF Disturbed
  <2>2. QED
    BY <2>1 DEF Outside, TaskExits, OthersBind, OthersUnbind, RootlesskitRestarts,
                DaemonRestarts, state
<1>2. \A gone : \A s \in Slot : LET q == Forget(rpc, gone)[s] IN
        /\ q.pc = rpc[s].pc /\ q.claims = rpc[s].claims
        /\ q.project = rpc[s].project /\ q.port = rpc[s].port
  <2> TAKE gone
  <2> TAKE s \in Slot
  <2>1. rpc[s] \in Request
    BY DEF TypeOK
  <2>2. QED
    BY <2>1 DEF Forget, Request
<1>3. \/ \A s \in Slot : /\ rpc'[s].pc = rpc[s].pc /\ rpc'[s].claims = rpc[s].claims
                         /\ rpc'[s].project = rpc[s].project /\ rpc'[s].port = rpc[s].port
      \/ \A s \in Slot : rpc'[s].pc = "idle"
  <2>1. UNCHANGED rpc \/ (\E gone : rpc' = Forget(rpc, gone)) \/ rpc' = [r \in Slot |-> Idle]
    BY Zenon
    DEF Outside, TaskExits, OthersBind, OthersUnbind, RootlesskitRestarts, DaemonRestarts
  <2>2. QED
    BY <1>2, <2>1, IdleType
<1>4. Disjoint => Disjoint'
  BY <1>1 DEF Disjoint
<1>5. AtMostOne => AtMostOne'
  BY <1>3 DEF AtMostOne, On
<1>6. ASSUME NEW s \in Slot, Knows(s) PROVE Knows(s)'
  BY <1>1, <1>3, <1>6, StillKnows, Unknowing DEF ReadPc
<1>7. QED
  BY <1>1, <1>4, <1>5, <1>6 DEF AloneInv

LEMMA NextAlone ==
    ASSUME TypeOK, AloneInv, [Next]_vars
    PROVE  AloneInv'
<1>1. ASSUME NEW r \in Slot, Step(r), alone' PROVE Disjoint' /\ AtMostOne' /\ \A s \in Slot : Knows(s)'
  <2>1. Disjoint /\ AtMostOne /\ \A s \in Slot : Knows(s)
    BY <1>1, StepAlone, Zenon DEF AloneInv
  <2>2. \A s \in Slot \ {r} : rpc[s].pc = "idle" /\ rpc'[s].pc = "idle"
    BY <1>1, <2>1, StepLeaves DEF Leaves, AtMostOne, On
  <2>3. AtMostOne'
    BY <2>2 DEF AtMostOne, On
  <2>4. \A s \in Slot \ {r} : Knows(s)'
    BY <2>2, Unknowing DEF ReadPc
  <2>5. Disjoint' /\ Knows(r)'
    BY <1>1, <2>1, StepKnows
  <2>6. QED
    BY <2>3, <2>4, <2>5
<1>2. ASSUME NEW r \in Slot, Step(r) PROVE AloneInv'
  BY <1>1, <1>2, Zenon DEF AloneInv
<1>3. CASE UNCHANGED vars
  <2>1. UNCHANGED <<alone, record, declared, rpc>>
    BY <1>3 DEF vars, history
  <2>2. QED
    BY <2>1 DEF AloneInv, Disjoint, AtMostOne, Knows, Labels, DeclaredElsewhere, On, P, H
<1>4. QED
  BY <1>2, <1>3, BeginAlone, OutsideAlone DEF Next, Step

\* Served one at a time, no two projects ever declare a port, whatever fails or
\* is interrupted between two steps of a request.
THEOREM DeclaredByOne == Spec => []DeclaredOnce
<1>1. Init => AloneInv
  BY IdleType DEF Init, AloneInv, Disjoint, AtMostOne, Knows, On, ReadPc, CheckedPc
<1>2. AloneInv => DeclaredOnce
  BY DEF AloneInv, Disjoint, DeclaredOnce
<1>3. QED
  BY <1>1, <1>2, PortTypes, NextAlone, PTL DEF Spec

-------------------------------------------------------------------------------
(* ForwardsAreDerived *)

\* A port of a project is as its label and its task say.
Settled(p, h) == (bound[h] = p) <=> (Running(p) /\ h \in declared[p])

\* The ports of its project that a request has not settled yet.
Unsettled(r, h) ==
    \/ rpc[r].pc \in {"findApply", "listApply", "stopTask"}
    \/ rpc[r].pc = "apply" /\ h \in rpc[r].todo
    \/ rpc[r].pc = "drop" /\ (rpc[r].kind = "remove" => h = H(r))
    \/ rpc[r].pc \in {"writeAdd", "writeRemove"} /\ h = H(r)

\* How far a request is with its project, as long as nothing else happens.
StartsSo(r) ==
    /\ rpc[r].pc = "reap" => ~Running(P(r))
    /\ rpc[r].pc \in {"findApply", "listApply", "apply"} => Running(P(r))
    /\ rpc[r].pc \in {"findApply", "listApply"} => \A h \in Port : bound[h] # P(r)
    /\ rpc[r].pc = "listApply" => rpc[r].claims = Labels(P(r))
    /\ rpc[r].pc = "apply" => \A h \in rpc[r].todo : h \in declared[P(r)] /\ bound[h] = Free
EndsSo(r) ==
    /\ rpc[r].pc \in {"stateStop", "resolveDelete", "findWithdraw", "listWithdraw", "stopTask"}
       => rpc[r].kind # "remove"
    /\ rpc[r].pc = "drop"
       => /\ rpc[r].todo \subseteq declared[P(r)]
          /\ rpc[r].kind = "remove" => rpc[r].todo \subseteq {H(r)}
          /\ \A h \in Port : bound[h] = P(r) /\ (rpc[r].kind = "remove" => h = H(r)) => h \in rpc[r].todo
    /\ rpc[r].pc = "stopTask" => \A h \in Port : bound[h] # P(r)
    /\ rpc[r].pc = "deleteRecord" => ~Running(P(r))
ChangesSo(r) ==
    /\ rpc[r].pc \in {"findRemove", "listRemove"} => rpc[r].kind = "remove"
    /\ rpc[r].pc = "listRemove" => H(r) \in declared[P(r)]
    /\ rpc[r].pc = "writeRemove" => bound[H(r)] # P(r)
    /\ rpc[r].pc = "bind" => Running(P(r))
    /\ rpc[r].pc = "probe" => ~Running(P(r))
    /\ rpc[r].pc = "writeAdd" => bound[H(r)] = IF Running(P(r)) THEN P(r) ELSE Free
ReconcilesSo(r) ==
    rpc[r].pc \in ReconcilePc
    => /\ rpc[r].todo = {}
       /\ rpc[r].pc # "list" => \A c \in rpc[r].claims : c[2] \in declared[c[1]]
       /\ rpc[r].pc = "states" => \A h \in rpc[r].seen : bound[h] \in Project

\* No declared port is anyone's but a project's.
OthersApart == \A p \in Project : \A h \in declared[p] : bound[h] \notin {User, Host}

\* All of it, for the one request that is served.
SettledBut(r) ==
    /\ OthersApart
    /\ StartsSo(r) /\ EndsSo(r) /\ ChangesSo(r) /\ ReconcilesSo(r)
    /\ \A q \in Project, h \in Port : Settled(q, h) \/ (q = P(r) /\ Unsettled(r, h))

CleanInv ==
    clean => /\ OthersApart
             /\ \A r \in Slot : ~On(r, "idle") => SettledBut(r)
             /\ (\A r \in Slot : On(r, "idle")) => \A q \in Project, h \in Port : Settled(q, h)

LEMMA NotDisturbed ==
    ASSUME clean'
    PROVE  ~Disturbed /\ \A r \in Slot : ~Fails(r)
  BY Zenon DEF Disturbed, Fails

LEMMA Others == {User, Host, Free} \cap Project = {} /\ User # Free /\ Host # Free
<1>1. {User, Host, Free} \cap Project = {} /\ Cardinality({User, Host, Free}) = 3
  BY Constants
<1>2. \A a, b : Cardinality({a, b}) # 3
  <2> TAKE a, b
  <2>1. IsFiniteSet({}) /\ Cardinality({}) = 0
    BY FS_EmptySet
  <2>2. IsFiniteSet({b}) /\ Cardinality({b}) = 1
    BY FS_Singleton
  <2>3. Cardinality({b} \cup {a}) = 1 \/ Cardinality({b} \cup {a}) = 2
    BY <2>2, FS_AddElement
  <2>4. {b} \cup {a} = {a, b}
    OBVIOUS
  <2>5. QED
    BY <2>3, <2>4
<1>3. User = Free => {User, Host, Free} = {User, Host}
  OBVIOUS
<1>4. Host = Free => {User, Host, Free} = {User, Host}
  OBVIOUS
<1>5. QED
  BY <1>1, <1>2, <1>3, <1>4

\* Where a request is, with nothing of what it knows changed.
Same(r, pc) == /\ rpc'[r].pc = pc /\ rpc'[r].kind = rpc[r].kind
               /\ rpc'[r].project = rpc[r].project /\ rpc'[r].port = rpc[r].port
               /\ rpc'[r].claims = rpc[r].claims /\ rpc'[r].seen = rpc[r].seen
               /\ rpc'[r].todo = rpc[r].todo

LEMMA Went ==
    ASSUME TypeOK, NEW r \in Slot, NEW pc, Goto(r, pc)
    PROVE  Same(r, pc)
  BY DEF TypeOK, Goto, Request, Same

LEMMA Answered ==
    ASSUME TypeOK, NEW r \in Slot, Answer(r)
    PROVE  rpc'[r].pc = "idle"
  BY IdleType DEF TypeOK, Answer

\* An answered request has settled everything.
LEMMA DoneSettled ==
    ASSUME NEW r \in Slot, rpc'[r].pc = "idle", OthersApart',
           \A q \in Project, h \in Port : Settled(q, h)'
    PROVE  SettledBut(r)'
  BY DEF SettledBut, StartsSo, EndsSo, ChangesSo, ReconcilesSo, ReconcilePc

\* A step that changes no port, from where everything is settled.
LEMMA LookSettled ==
    ASSUME NEW r \in Slot, SettledBut(r), UNCHANGED <<declared, task, bound>>,
           \A h \in Port : ~Unsettled(r, h)
    PROVE  /\ OthersApart'
           /\ \A q \in Project, h \in Port : Settled(q, h)'
  BY DEF SettledBut, Settled, Running, OthersApart

LEMMA CreateSettled ==
    ASSUME TypeOK, NEW r \in Slot, SettledBut(r), clean', Create(r)
    PROVE  SettledBut(r)'
  BY Answered, LookSettled, DoneSettled DEF Create, Unsettled, On

LEMMA StartSettled ==
    ASSUME TypeOK, Disjoint, NEW r \in Slot, SettledBut(r), clean', Start(r)
    PROVE  SettledBut(r)'
<1> USE NotDisturbed DEF On, state
<1>0. rpc[r] \in Request /\ P(r) \in Project
  BY RequestFields DEF TypeOK
<1>1. CASE StartState(r)
  <2>1. (\A h \in Port : ~Unsettled(r, h)) /\ UNCHANGED <<declared, task, bound>>
    BY <1>1 DEF StartState, Looks, Unsettled
  <2>2. CASE Answer(r)
    BY <2>1, <2>2, Answered, LookSettled, DoneSettled
  <2>3. CASE task[P(r)] # "running" /\ (Same(r, "reap") \/ Same(r, "startTask"))
    BY <2>1, <2>3, LookSettled
    DEF SettledBut, Same, P, Running, StartsSo, EndsSo, ChangesSo, ReconcilesSo, ReconcilePc
  <2>4. QED
    BY <1>1, <2>2, <2>3, Went DEF StartState, Looks
<1>2. CASE StartReap(r)
  <2>1. TaskGone(P(r)) /\ Same(r, "startTask") /\ UNCHANGED <<declared, bound>>
    BY <1>2, Went DEF StartReap
  <2>2. ~Running(P(r)) /\ \A q \in Project : Running(q)' <=> Running(q)
    BY <1>0, <1>2, <2>1 DEF StartReap, SettledBut, StartsSo, TaskGone, Running, TypeOK
  <2>3. \A q \in Project, h \in Port : Settled(q, h)'
    BY <1>2, <2>1, <2>2 DEF StartReap, SettledBut, Settled, Unsettled
  <2>4. QED
    BY <2>1, <2>3
    DEF SettledBut, OthersApart, Same, StartsSo, EndsSo, ChangesSo, ReconcilesSo, ReconcilePc
<1>3. CASE StartTask(r)
  <2>1. /\ task' = [task EXCEPT ![P(r)] = "running"] /\ task[P(r)] = "none"
        /\ Same(r, "findApply") /\ UNCHANGED <<declared, bound>>
    BY <1>3, Went DEF StartTask
  <2>2. \A h \in Port : bound[h] # P(r)
    BY <1>0, <1>3, <2>1 DEF StartTask, SettledBut, Settled, Unsettled, Running
  <2>3. P(r)' = P(r)
    BY <2>1 DEF Same, P
  <2>4. StartsSo(r)' /\ EndsSo(r)' /\ ChangesSo(r)' /\ ReconcilesSo(r)' /\ OthersApart'
    BY <1>0, <2>1, <2>2, <2>3
    DEF SettledBut, OthersApart, Same, StartsSo, EndsSo, ChangesSo, ReconcilesSo, ReconcilePc, Running, TypeOK
  <2>5. \A q \in Project, h \in Port : Settled(q, h)' \/ (q = P(r)' /\ Unsettled(r, h)')
    BY <1>0, <1>3, <2>1, <2>3 DEF StartTask, SettledBut, Settled, Unsettled, Same, Running, TypeOK
  <2>6. QED
    BY <2>4, <2>5 DEF SettledBut
<1>4. CASE ApplyFind(r)
  <2>1. CASE declared[P(r)] = {} /\ Answer(r)
    <3>1. UNCHANGED <<declared, task, bound>>
      BY <1>4 DEF ApplyFind
    <3>2. \A q \in Project, h \in Port : Settled(q, h)'
      BY <1>4, <2>1, <3>1 DEF ApplyFind, SettledBut, Settled, Unsettled, Running, StartsSo
    <3>3. OthersApart'
      BY <3>1 DEF SettledBut, OthersApart
    <3>4. QED
      BY <2>1, <3>2, <3>3, Answered, DoneSettled
  <2>2. CASE rpc' = [rpc EXCEPT ![r].pc = "listApply", ![r].claims = Labels(P(r))]
    <3>1. /\ rpc'[r].pc = "listApply" /\ rpc'[r].claims = Labels(P(r))
          /\ rpc'[r].project = rpc[r].project
      BY <1>0, <2>2 DEF TypeOK, Request
    <3>2. UNCHANGED <<declared, task, bound>> /\ P(r)' = P(r) /\ Labels(P(r))' = Labels(P(r))
      BY <1>4, <3>1 DEF ApplyFind, P, Labels
    <3>3. QED
      BY <1>4, <3>1, <3>2
      DEF ApplyFind, SettledBut, Settled, Unsettled, Running, OthersApart, StartsSo, EndsSo, ChangesSo,
          ReconcilesSo, ReconcilePc
  <2>3. QED
    BY <1>4, <2>1, <2>2 DEF ApplyFind
<1>5. CASE ApplyList(r)
  <2>1. /\ rpc' = [rpc EXCEPT ![r].pc = "apply", ![r].todo = Missing(rpc[r].claims)]
        /\ rpc[r].pc = "listApply" /\ UNCHANGED <<declared, task, bound>>
    BY <1>5 DEF ApplyList
  <2>2. Ports(rpc[r].claims) = declared[P(r)]
    BY <1>0, <2>1, PortsOfLabels DEF SettledBut, StartsSo
  <2>3. /\ rpc'[r].pc = "apply" /\ rpc'[r].todo = declared[P(r)] \ LivePorts
        /\ rpc'[r].project = rpc[r].project
    BY <1>0, <2>1, <2>2 DEF TypeOK, Request, Missing
  <2>4. \A h \in declared[P(r)] : h \in Port /\ bound[h] = Free
    <3>1. ASSUME NEW h \in declared[P(r)] PROVE h \in Port /\ bound[h] = Free
      <4>1. h \in Port /\ bound[h] \in Project \cup {User, Host, Free} /\ bound[h] \notin {User, Host}
        BY <1>0 DEF TypeOK, SettledBut, OthersApart
      <4>2. ASSUME bound[h] \in Project PROVE FALSE
        <5>1. bound[h] # P(r)
          BY <2>1, <4>1 DEF SettledBut, StartsSo
        <5>2. h \in declared[bound[h]]
          BY <4>1, <4>2, <5>1 DEF SettledBut, Settled
        <5>3. QED
          BY <1>0, <4>2, <5>1, <5>2 DEF Disjoint
      <4>3. QED
        BY <4>1, <4>2
    <3>2. QED
      BY <3>1
  <2>5. declared[P(r)] \ LivePorts = declared[P(r)]
    BY <2>4, Others DEF LivePorts, Live
  <2>6. P(r)' = P(r)
    BY <2>3 DEF P
  <2>7. StartsSo(r)' /\ EndsSo(r)' /\ ChangesSo(r)' /\ ReconcilesSo(r)' /\ OthersApart'
    BY <2>1, <2>3, <2>4, <2>6
    DEF SettledBut, OthersApart, StartsSo, EndsSo, ChangesSo, ReconcilesSo, ReconcilePc, Running
  <2>8. \A q \in Project, h \in Port : Settled(q, h)' \/ (q = P(r)' /\ Unsettled(r, h)')
    BY <2>1, <2>3, <2>5, <2>6 DEF SettledBut, StartsSo, Settled, Unsettled, Running
  <2>9. QED
    BY <2>7, <2>8 DEF SettledBut
<1>6. CASE ApplyEnds(r)
  <2>1. (\A h \in Port : ~Unsettled(r, h)) /\ UNCHANGED <<declared, task, bound>> /\ Answer(r)
    BY <1>6 DEF ApplyEnds, Unsettled
  <2>2. QED
    BY <2>1, Answered, LookSettled, DoneSettled
<1>7. ASSUME NEW h \in Port, ApplyPort(r, h) PROVE SettledBut(r)'
  <2>1. /\ rpc[r].pc = "apply" /\ h \in rpc[r].todo /\ h \in declared[P(r)] /\ bound[h] = Free
        /\ Running(P(r)) /\ UNCHANGED <<declared, task>>
    BY <1>7 DEF ApplyPort, SettledBut, StartsSo
  <2>2. bound' = [bound EXCEPT ![h] = P(r)]
    BY <1>7, <2>1 DEF ApplyPort, Binds, IsFree
  <2>3. /\ rpc'[r].pc = "apply" /\ rpc'[r].todo = rpc[r].todo \ {h}
        /\ rpc'[r].project = rpc[r].project
    BY <1>0, <1>7, <2>1 DEF ApplyPort, TypeOK, Request
  <2>4. /\ P(r)' = P(r) /\ bound'[h] = P(r)
        /\ \A g \in Port \ {h} : bound'[g] = bound[g]
    BY <2>2, <2>3 DEF P, TypeOK
  <2>5. OthersApart'
    BY <1>0, <2>1, <2>4, Others DEF SettledBut, OthersApart, TypeOK
  <2>6. StartsSo(r)' /\ EndsSo(r)' /\ ChangesSo(r)' /\ ReconcilesSo(r)'
    BY <1>0, <2>1, <2>3, <2>4
    DEF SettledBut, StartsSo, EndsSo, ChangesSo, ReconcilesSo, ReconcilePc, Running, Request
  <2>7. ASSUME NEW q \in Project, NEW g \in Port
        PROVE  Settled(q, g)' \/ (q = P(r)' /\ Unsettled(r, g)')
    <3>1. CASE g # h
      BY <2>1, <2>3, <2>4, <3>1 DEF SettledBut, Settled, Unsettled, Running
    <3>2. CASE g = h /\ q = P(r)
      BY <2>1, <2>4, <3>2 DEF Settled, Running
    <3>3. CASE g = h /\ q # P(r)
      BY <1>0, <2>1, <2>4, <3>3 DEF Settled, Disjoint
    <3>4. QED
      BY <3>1, <3>2, <3>3
  <2>8. QED
    BY <2>5, <2>6, <2>7 DEF SettledBut
<1>8. QED
  BY <1>1, <1>2, <1>3, <1>4, <1>5, <1>6, <1>7 DEF Start

LEMMA AddSettled ==
    ASSUME TypeOK, NEW r \in Slot, Knows(r), SettledBut(r), clean', Add(r)
    PROVE  SettledBut(r)'
<1> USE NotDisturbed DEF On, state
<1>0. rpc[r] \in Request /\ P(r) \in Project /\ H(r) \in Port
  BY RequestFields DEF TypeOK
<1>1. CASE AddFind(r) \/ AddOthers(r) \/ AddState(r) \/ AddProbe(r)
  <2>1. (\A h \in Port : ~Unsettled(r, h)) /\ UNCHANGED <<declared, task, bound>>
    BY <1>1 DEF AddFind, AddOthers, AddState, AddProbe, Looks, Unsettled
  <2>2. CASE Answer(r)
    BY <2>1, <2>2, Answered, LookSettled, DoneSettled
  <2>3. CASE ~Answer(r)
    <3>1. /\ rpc'[r].project = rpc[r].project /\ rpc'[r].port = rpc[r].port
          /\ \/ rpc'[r].pc \in {"others", "state"}
             \/ rpc'[r].pc = "bind" /\ Running(P(r))
             \/ rpc'[r].pc = "probe" /\ ~Running(P(r))
             \/ rpc'[r].pc = "writeAdd" /\ ~Running(P(r)) /\ bound[H(r)] = Free
      <4>1. CASE AddFind(r)
        BY <1>0, <2>3, <4>1 DEF AddFind, TypeOK, Request
      <4>2. CASE AddOthers(r) \/ AddState(r) \/ AddProbe(r)
        BY <2>3, <4>2, Went
        DEF AddOthers, AddState, AddProbe, Looks, Same, Running, IsFree, SettledBut, ChangesSo
      <4>3. QED
        BY <1>1, <4>1, <4>2
    <3>2. P(r)' = P(r) /\ H(r)' = H(r)
      BY <3>1 DEF P, H
    <3>3. StartsSo(r)' /\ EndsSo(r)' /\ ChangesSo(r)' /\ ReconcilesSo(r)'
      BY <2>1, <3>1, <3>2 DEF StartsSo, EndsSo, ChangesSo, ReconcilesSo, ReconcilePc, Running
    <3>4. QED
      BY <2>1, <3>3, LookSettled DEF SettledBut
  <2>4. QED
    BY <2>2, <2>3
<1>2. CASE AddBind(r)
  <2>1. /\ (\A h \in Port : ~Unsettled(r, h)) /\ Running(P(r))
        /\ UNCHANGED <<declared, task>>
    BY <1>2 DEF AddBind, Unsettled, SettledBut, ChangesSo
  <2>2. CASE UNCHANGED bound /\ Answer(r)
    BY <2>1, <2>2, Answered, LookSettled, DoneSettled
  <2>3. CASE Binds(H(r), P(r)) /\ Goto(r, "writeAdd")
    <3>1. /\ Same(r, "writeAdd") /\ bound[H(r)] = Free /\ bound'[H(r)] = P(r)
          /\ \A h \in Port \ {H(r)} : bound'[h] = bound[h]
          /\ P(r)' = P(r) /\ H(r)' = H(r)
      BY <1>0, <2>3, Went DEF Binds, IsFree, Same, P, H, TypeOK
    <3>2. OthersApart'
      BY <1>0, <2>1, <3>1, Others DEF SettledBut, OthersApart, TypeOK
    <3>3. StartsSo(r)' /\ EndsSo(r)' /\ ChangesSo(r)' /\ ReconcilesSo(r)'
      BY <2>1, <3>1 DEF Same, StartsSo, EndsSo, ChangesSo, ReconcilesSo, ReconcilePc, Running
    <3>4. ASSUME NEW q \in Project, NEW g \in Port
          PROVE  Settled(q, g)' \/ (q = P(r)' /\ Unsettled(r, g)')
      <4>1. CASE g # H(r)
        BY <2>1, <3>1, <4>1 DEF SettledBut, Settled, Running
      <4>2. CASE g = H(r) /\ q = P(r)
        BY <3>1, <4>2 DEF Unsettled, Same
      <4>3. CASE g = H(r) /\ q # P(r)
        BY <2>1, <3>1, <4>3, Others DEF SettledBut, Settled, Running
      <4>4. QED
        BY <4>1, <4>2, <4>3
    <3>5. QED
      BY <3>2, <3>3, <3>4 DEF SettledBut
  <2>4. QED
    BY <1>2, <2>2, <2>3 DEF AddBind
<1>3. CASE AddWrite(r)
  <2>1. /\ declared' = [declared EXCEPT ![P(r)] = declared[P(r)] \cup {H(r)}]
        /\ Answer(r) /\ UNCHANGED <<task, bound>>
    BY <1>0, <1>3, PortsOfLabels DEF AddWrite, WritesPorts, Updates, Knows, ReadPc
  <2>2. bound[H(r)] = IF Running(P(r)) THEN P(r) ELSE Free
    BY <1>3 DEF AddWrite, SettledBut, ChangesSo
  <2>3. OthersApart'
    BY <1>0, <2>1, <2>2, Others DEF SettledBut, OthersApart, TypeOK
  <2>4. ASSUME NEW q \in Project, NEW g \in Port
        PROVE  Settled(q, g)'
    <3>1. CASE ~(q = P(r) /\ g = H(r))
      BY <1>0, <1>3, <2>1, <3>1 DEF AddWrite, SettledBut, Settled, Unsettled, Running, TypeOK
    <3>2. CASE q = P(r) /\ g = H(r)
      BY <1>0, <2>1, <2>2, <3>2, Others DEF Settled, Running, TypeOK
    <3>3. QED
      BY <3>1, <3>2
  <2>5. QED
    BY <2>1, <2>3, <2>4, Answered, DoneSettled
<1>4. QED
  BY <1>1, <1>2, <1>3 DEF Add

\* A forward that is dropped is of the project's, on a port that the request takes.
LEMMA DropSettled ==
    ASSUME TypeOK, Disjoint, NEW r \in Slot, NEW h \in Port, SettledBut(r), clean', Drop(r, h)
    PROVE  SettledBut(r)'
<1> USE NotDisturbed DEF On
<1>1. /\ rpc[r].pc = "drop" /\ h \in rpc[r].todo /\ bound' = [bound EXCEPT ![h] = Free]
      /\ UNCHANGED <<declared, task>> /\ P(r) \in Project
  BY RequestFields DEF Drop, Drops
<1>2. /\ rpc'[r].pc = "drop" /\ rpc'[r].kind = rpc[r].kind /\ rpc'[r].todo = rpc[r].todo \ {h}
      /\ P(r)' = P(r) /\ H(r)' = H(r)
  BY <1>1, DropsOwn DEF Drop, P, H
<1>3. bound'[h] = Free /\ \A g \in Port \ {h} : bound'[g] = bound[g]
  BY <1>1 DEF TypeOK
<1>4. h \in declared[P(r)] /\ (rpc[r].kind = "remove" => h = H(r))
  BY <1>1 DEF SettledBut, EndsSo
<1>5. OthersApart'
  BY <1>1, <1>3, Others DEF SettledBut, OthersApart, TypeOK
<1>6. StartsSo(r)' /\ EndsSo(r)' /\ ChangesSo(r)' /\ ReconcilesSo(r)'
  BY <1>1, <1>2, <1>3, Others DEF SettledBut, StartsSo, EndsSo, ChangesSo, ReconcilesSo, ReconcilePc
<1>7. ASSUME NEW q \in Project, NEW g \in Port
      PROVE  Settled(q, g)' \/ (q = P(r)' /\ Unsettled(r, g)')
  <2>1. CASE g # h
    BY <1>1, <1>2, <1>3, <2>1 DEF SettledBut, Settled, Unsettled, Running
  <2>2. CASE g = h /\ q = P(r)
    BY <1>2, <1>4, <2>2 DEF Unsettled
  <2>3. CASE g = h /\ q # P(r)
    <3>1. ~(Running(q) /\ h \in declared[q])
      BY <1>1, <1>4, <2>3 DEF Disjoint
    <3>2. QED
      BY <1>1, <1>3, <2>3, <3>1, Others DEF Settled, Running
  <2>4. QED
    BY <2>1, <2>2, <2>3
<1>8. QED
  BY <1>5, <1>6, <1>7 DEF SettledBut

\* The forwards listed to be dropped are all of the project's that the request takes: no
\* declared port is live for anyone else.
LEMMA ListsTaken ==
    ASSUME TypeOK, NEW r \in Slot, SettledBut(r), clean', NEW ports \in SUBSET Port,
           ports \subseteq declared[P(r)], Lists(r, ports, "drop")
    PROVE  /\ rpc'[r].pc = "drop" /\ rpc'[r].kind = rpc[r].kind
           /\ P(r)' = P(r) /\ H(r)' = H(r)
           /\ rpc'[r].todo \subseteq ports
           /\ \A h \in ports : bound[h] = P(r) => h \in rpc'[r].todo
<1>1. rpc[r] \in Request /\ P(r) \in Project
  BY RequestFields DEF TypeOK
<1>2. rpc' = [rpc EXCEPT ![r].pc = "drop", ![r].todo = ports \cap LivePorts]
  BY NotDisturbed DEF Lists
<1>3. /\ rpc'[r].pc = "drop" /\ rpc'[r].kind = rpc[r].kind /\ rpc'[r].project = rpc[r].project
      /\ rpc'[r].port = rpc[r].port /\ rpc'[r].todo = ports \cap LivePorts
  BY <1>1, <1>2 DEF TypeOK, Request
<1>4. QED
  BY <1>1, <1>3 DEF P, H, LivePorts, Live

LEMMA RemoveSettled ==
    ASSUME TypeOK, NEW r \in Slot, Knows(r), SettledBut(r), clean', Remove(r)
    PROVE  SettledBut(r)'
<1> USE NotDisturbed DEF On, state
<1>0. rpc[r] \in Request /\ P(r) \in Project /\ H(r) \in Port
  BY RequestFields DEF TypeOK
<1>1. CASE RemoveFind(r)
  <2>1. (\A h \in Port : ~Unsettled(r, h)) /\ UNCHANGED <<declared, task, bound>>
    BY <1>1 DEF RemoveFind, Unsettled
  <2>2. CASE Answer(r)
    BY <2>1, <2>2, Answered, LookSettled, DoneSettled
  <2>3. CASE /\ H(r) \in declared[P(r)]
             /\ rpc' = [rpc EXCEPT ![r].pc = "listRemove", ![r].claims = Labels(P(r))]
    <3>1. /\ rpc'[r].pc = "listRemove" /\ rpc'[r].kind = rpc[r].kind
          /\ P(r)' = P(r) /\ H(r)' = H(r)
      BY <1>0, <2>3 DEF TypeOK, Request, P, H
    <3>2. StartsSo(r)' /\ EndsSo(r)' /\ ChangesSo(r)' /\ ReconcilesSo(r)'
      BY <1>1, <2>1, <2>3, <3>1
      DEF RemoveFind, SettledBut, StartsSo, EndsSo, ChangesSo, ReconcilesSo, ReconcilePc
    <3>3. QED
      BY <2>1, <3>2, LookSettled DEF SettledBut
  <2>4. QED
    BY <1>1, <2>2, <2>3 DEF RemoveFind
<1>2. CASE RemoveList(r)
  <2>1. /\ (\A h \in Port : ~Unsettled(r, h)) /\ UNCHANGED <<declared, task, bound>>
        /\ H(r) \in declared[P(r)] /\ rpc[r].kind = "remove"
    BY <1>2 DEF RemoveList, Unsettled, SettledBut, ChangesSo
  <2>2. /\ rpc'[r].pc = "drop" /\ rpc'[r].kind = rpc[r].kind /\ P(r)' = P(r) /\ H(r)' = H(r)
        /\ rpc'[r].todo \subseteq {H(r)} /\ (bound[H(r)] = P(r) => H(r) \in rpc'[r].todo)
    BY <1>0, <1>2, <2>1, ListsTaken DEF RemoveList, Removed
  <2>3. StartsSo(r)' /\ EndsSo(r)' /\ ChangesSo(r)' /\ ReconcilesSo(r)'
    BY <2>1, <2>2 DEF StartsSo, EndsSo, ChangesSo, ReconcilesSo, ReconcilePc
  <2>4. QED
    BY <2>1, <2>3, LookSettled DEF SettledBut
<1>3. CASE RemoveWrite(r)
  <2>1. /\ declared' = [declared EXCEPT ![P(r)] = declared[P(r)] \ {H(r)}]
        /\ Answer(r) /\ UNCHANGED <<task, bound>> /\ bound[H(r)] # P(r)
    BY <1>0, <1>3, PortsOfLabels
    DEF RemoveWrite, WritesPorts, Updates, Knows, ReadPc, SettledBut, ChangesSo
  <2>2. OthersApart'
    BY <1>0, <2>1 DEF SettledBut, OthersApart, TypeOK
  <2>3. \A q \in Project, g \in Port : Settled(q, g)'
    BY <1>0, <1>3, <2>1 DEF RemoveWrite, SettledBut, Settled, Unsettled, Running, TypeOK
  <2>4. QED
    BY <2>1, <2>2, <2>3, Answered, DoneSettled
<1>4. QED
  BY <1>1, <1>2, <1>3 DEF Remove

LEMMA EndSettled ==
    ASSUME TypeOK, Disjoint, NEW r \in Slot, Knows(r), SettledBut(r), clean', End(r)
    PROVE  SettledBut(r)'
<1> USE NotDisturbed DEF On, state
<1>0. rpc[r] \in Request /\ P(r) \in Project
  BY RequestFields DEF TypeOK
<1>1. CASE StopState(r) \/ DeleteResolve(r)
  <2>1. (\A h \in Port : ~Unsettled(r, h)) /\ UNCHANGED <<declared, task, bound>>
    BY <1>1 DEF StopState, DeleteResolve, Looks, Unsettled
  <2>2. CASE Answer(r)
    BY <2>1, <2>2, Answered, LookSettled, DoneSettled
  <2>3. CASE Same(r, "findWithdraw")
    BY <1>1, <2>1, <2>3, LookSettled
    DEF StopState, DeleteResolve, SettledBut, Same, StartsSo, EndsSo, ChangesSo, ReconcilesSo, ReconcilePc
  <2>4. QED
    BY <1>1, <2>2, <2>3, Went DEF StopState, DeleteResolve, Looks
<1>2. CASE WithdrawFind(r)
  <2>1. (\A h \in Port : ~Unsettled(r, h)) /\ UNCHANGED <<declared, task, bound>>
    BY <1>2 DEF WithdrawFind, Unsettled
  <2>2. CASE declared[P(r)] = {} /\ Goto(r, "stopTask")
    <3>1. Same(r, "stopTask") /\ P(r)' = P(r)
      BY <2>2, Went DEF Same, P
    <3>2. \A h \in Port : bound[h] # P(r)
      BY <1>0, <2>1, <2>2 DEF SettledBut, Settled
    <3>3. QED
      BY <1>2, <2>1, <3>1, <3>2, LookSettled
      DEF WithdrawFind, SettledBut, Same, StartsSo, EndsSo, ChangesSo, ReconcilesSo, ReconcilePc
  <2>3. CASE rpc' = [rpc EXCEPT ![r].pc = "listWithdraw", ![r].claims = Labels(P(r))]
    <3>1. /\ rpc'[r].pc = "listWithdraw" /\ rpc'[r].kind = rpc[r].kind
      BY <1>0, <2>3 DEF TypeOK, Request
    <3>2. QED
      BY <1>2, <2>1, <3>1, LookSettled
      DEF WithdrawFind, SettledBut, StartsSo, EndsSo, ChangesSo, ReconcilesSo, ReconcilePc
  <2>4. QED
    BY <1>2, <2>2, <2>3 DEF WithdrawFind
<1>3. CASE WithdrawList(r)
  <2>1. /\ (\A h \in Port : ~Unsettled(r, h)) /\ UNCHANGED <<declared, task, bound>>
        /\ Withdrawn(r) = declared[P(r)] /\ declared[P(r)] \in SUBSET Port /\ rpc[r].kind # "remove"
    BY <1>0, <1>3, PortsOfLabels
    DEF WithdrawList, Unsettled, Withdrawn, Knows, ReadPc, SettledBut, EndsSo, TypeOK
  <2>2. /\ rpc'[r].pc = "drop" /\ rpc'[r].kind = rpc[r].kind /\ P(r)' = P(r)
        /\ rpc'[r].todo \subseteq declared[P(r)]
        /\ \A h \in declared[P(r)] : bound[h] = P(r) => h \in rpc'[r].todo
    BY <1>3, <2>1, ListsTaken DEF WithdrawList
  <2>3. \A h \in Port : bound[h] = P(r) => h \in declared[P(r)]
    BY <1>0, <2>1 DEF SettledBut, Settled
  <2>4. StartsSo(r)' /\ EndsSo(r)' /\ ChangesSo(r)' /\ ReconcilesSo(r)'
    BY <2>1, <2>2, <2>3 DEF StartsSo, EndsSo, ChangesSo, ReconcilesSo, ReconcilePc
  <2>5. QED
    BY <2>1, <2>4, LookSettled DEF SettledBut
<1>4. CASE DropEnds(r)
  <2>1. /\ UNCHANGED <<declared, task, bound>> /\ rpc[r].pc = "drop" /\ rpc[r].todo = {}
        /\ Same(r, IF rpc[r].kind = "remove" THEN "writeRemove" ELSE "stopTask")
    BY <1>4, Went DEF DropEnds
  <2>2. /\ P(r)' = P(r) /\ H(r)' = H(r) /\ H(r) \in Port
        /\ \A h \in Port : bound[h] = P(r) => ~(rpc[r].kind = "remove" => h = H(r))
    BY <2>1, RequestFields DEF Same, P, H, SettledBut, EndsSo
  <2>3. StartsSo(r)' /\ EndsSo(r)' /\ ChangesSo(r)' /\ ReconcilesSo(r)' /\ OthersApart'
    BY <2>1, <2>2 DEF SettledBut, OthersApart, Same, StartsSo, EndsSo, ChangesSo, ReconcilesSo, ReconcilePc
  <2>4. \A q \in Project, h \in Port : Settled(q, h)' \/ (q = P(r)' /\ Unsettled(r, h)')
    BY <2>1, <2>2 DEF SettledBut, Settled, Unsettled, Same, Running
  <2>5. QED
    BY <2>3, <2>4 DEF SettledBut
<1>5. CASE StopTask(r)
  <2>1. /\ task' = [task EXCEPT ![P(r)] = "none"] /\ UNCHANGED <<declared, bound>>
        /\ rpc[r].pc = "stopTask"
        /\ Answer(r) \/ Same(r, "deleteRecord")
    BY <1>5, Went DEF StopTask, TaskGone
  <2>2. /\ task'[P(r)] = "none"
        /\ \A q \in Project : q # P(r) => (Running(q)' <=> Running(q))
        /\ \A h \in Port : bound[h] # P(r)
    <3>1. P(r) \in Project
      BY <1>0, RequestFields DEF P
    <3>2. task'[P(r)] = "none" /\ \A q \in Project : q # P(r) => task'[q] = task[q]
      BY <2>1, <3>1 DEF TypeOK
    <3>3. QED
      BY <2>1, <3>2 DEF Running, SettledBut, EndsSo
  <2>3. \A q \in Project, h \in Port : Settled(q, h)'
    <3>1. ASSUME NEW q \in Project, NEW h \in Port PROVE Settled(q, h)'
      <4>1. CASE q = P(r)
        BY <1>0, <2>1, <2>2, <4>1 DEF Settled, Running, TypeOK
      <4>2. CASE q # P(r)
        BY <2>1, <2>2, <4>2 DEF SettledBut, Settled
      <4>3. QED
        BY <4>1, <4>2
    <3>2. QED
      BY <3>1
  <2>4. OthersApart'
    BY <2>1 DEF SettledBut, OthersApart
  <2>5. CASE Answer(r)
    BY <2>3, <2>4, <2>5, Answered, DoneSettled
  <2>6. CASE Same(r, "deleteRecord")
    <3>1. P(r)' = P(r) /\ task'[P(r)] = "none"
      BY <1>0, <2>1, <2>6 DEF Same, P, TypeOK
    <3>2. StartsSo(r)' /\ EndsSo(r)' /\ ChangesSo(r)' /\ ReconcilesSo(r)'
      BY <2>6, <3>1 DEF Same, StartsSo, EndsSo, ChangesSo, ReconcilesSo, ReconcilePc, Running
    <3>3. QED
      BY <2>3, <2>4, <3>2 DEF SettledBut
  <2>7. QED
    BY <2>1, <2>5, <2>6
<1>6. CASE DeleteRecord(r)
  <2>1. /\ declared' = [declared EXCEPT ![P(r)] = {}] /\ Answer(r) /\ UNCHANGED <<task, bound>>
        /\ ~Running(P(r)) /\ \A h \in Port : ~Unsettled(r, h)
    BY <1>6 DEF DeleteRecord, SettledBut, EndsSo, Unsettled
  <2>2. OthersApart'
    BY <1>0, <2>1 DEF SettledBut, OthersApart, TypeOK
  <2>3. \A q \in Project, h \in Port : Settled(q, h)'
    BY <1>0, <2>1 DEF SettledBut, Settled, Running, TypeOK
  <2>4. QED
    BY <2>1, <2>2, <2>3, Answered, DoneSettled
<1>7. QED
  BY <1>1, <1>2, <1>3, <1>4, <1>5, <1>6, DropSettled DEF End

\* With every forward as its label and task say, a reconcile finds nothing to reclaim.
LEMMA ReconcileSettled ==
    ASSUME TypeOK, Disjoint, NEW r \in Slot, SettledBut(r), clean', Reconcile(r)
    PROVE  SettledBut(r)'
<1> USE NotDisturbed DEF On, state
<1>0. rpc[r] \in Request
  BY DEF TypeOK
<1>1. rpc[r].pc \in ReconcilePc /\ rpc[r].todo = {} /\ \A h \in Port : ~Unsettled(r, h)
  BY DEF Reconcile, ReconcileContainers, ReconcileList, ReconcileAsked, ReconcileEnds, ReconcileState,
         ReconcileDrop, ReconcilePc, SettledBut, ReconcilesSo, Unsettled
<1>2. \A h \in Port : ~ReconcileDrop(r, h)
  BY <1>1 DEF ReconcileDrop, Drops
<1>3. UNCHANGED <<declared, task, bound>>
  BY <1>2 DEF Reconcile, ReconcileContainers, ReconcileList, ReconcileAsked, ReconcileEnds, ReconcileState
<1>4. OthersApart' /\ \A q \in Project, h \in Port : Settled(q, h)'
  BY <1>1, <1>3, LookSettled
<1>5. CASE Answer(r)
  BY <1>4, <1>5, Answered, DoneSettled
<1>6. ASSUME rpc'[r].pc \in {"listLive", "states", "reclaim"}, ReconcilesSo(r)'
      PROVE  SettledBut(r)'
  BY <1>4, <1>6 DEF SettledBut, StartsSo, EndsSo, ChangesSo
<1>7. CASE ReconcileContainers(r) /\ ~Answer(r)
  <2>1. rpc' = [rpc EXCEPT ![r].pc = "listLive", ![r].claims = UNION {Labels(p) : p \in record}]
    BY <1>7 DEF ReconcileContainers
  <2>2. /\ rpc'[r].pc = "listLive" /\ rpc'[r].todo = rpc[r].todo
        /\ rpc'[r].claims = UNION {Labels(p) : p \in record}
    BY <1>0, <2>1 DEF TypeOK, Request
  <2>3. \A c \in UNION {Labels(p) : p \in record} : c[2] \in declared[c[1]]
    BY DEF Labels
  <2>4. QED
    BY <1>1, <1>3, <1>6, <2>2, <2>3 DEF ReconcilesSo
<1>8. CASE ReconcileList(r) /\ ~Answer(r)
  <2>1. rpc' = [rpc EXCEPT ![r].pc = "states", ![r].seen = Attributable] /\ rpc[r].pc = "listLive"
    BY <1>8 DEF ReconcileList
  <2>2. /\ rpc'[r].pc = "states" /\ rpc'[r].todo = rpc[r].todo /\ rpc'[r].claims = rpc[r].claims
        /\ rpc'[r].seen = Attributable
    BY <1>0, <2>1 DEF TypeOK, Request
  <2>3. QED
    BY <1>1, <1>3, <1>6, <2>1, <2>2 DEF ReconcilesSo, SettledBut, Attributable
<1>9. ASSUME NEW p \in Project, ReconcileState(r, p) PROVE SettledBut(r)'
  <2> DEFINE claimed == Claimed(r, p)
             decided == [rpc[r] EXCEPT !.claims = {c \in @ : c[1] # p}, !.seen = @ \ claimed]
             reclaimed == [decided EXCEPT !.todo = @ \cup claimed]
  <2>1. /\ rpc[r].pc = "states"
        /\ \A c \in rpc[r].claims : c[2] \in declared[c[1]]
        /\ \A h \in rpc[r].seen : bound[h] \in Project
    BY <1>1, <1>9 DEF ReconcileState, SettledBut, ReconcilesSo
  <2>2. \A h \in claimed : h \in Port /\ h \in declared[p] /\ bound[h] \in Project
    BY <2>1, RequestFields DEF Claimed
  <2>3. \A h \in claimed : Running(p)
    <3>1. ASSUME NEW h \in claimed PROVE Running(p)
      <4>1. Running(bound[h]) /\ h \in declared[bound[h]]
        BY <1>1, <2>2 DEF SettledBut, Settled
      <4>2. bound[h] = p
        BY <2>2, <4>1 DEF Disjoint
      <4>3. QED
        BY <4>1, <4>2
    <3>2. QED
      BY <3>1
  <2>4. rpc' = [rpc EXCEPT ![r] = IF Reclaims(p) THEN reclaimed ELSE decided]
    BY SMTT(60), <1>9 DEF ReconcileState
  <2>5. /\ decided.pc = "states" /\ decided.todo = {}
        /\ decided.claims \subseteq rpc[r].claims /\ decided.seen \subseteq rpc[r].seen
        /\ decided \in Request
    BY <1>0, <1>1, <2>1, RequestFields DEF Request
  <2> HIDE DEF decided
  <2>6. reclaimed.pc = "states" /\ reclaimed.todo = {} \cup claimed /\ reclaimed.claims = decided.claims
        /\ reclaimed.seen = decided.seen
    BY <2>5 DEF Request
  <2>7. Reclaims(p) => claimed = {}
    BY <2>3 DEF Reclaims, Running
  <2> HIDE DEF claimed, reclaimed
  <2>8. /\ rpc'[r].pc = "states" /\ rpc'[r].todo = {}
        /\ rpc'[r].claims \subseteq rpc[r].claims /\ rpc'[r].seen \subseteq rpc[r].seen
    BY <2>4, <2>5, <2>6, <2>7 DEF TypeOK
  <2>9. QED
    BY <1>3, <1>6, <2>1, <2>8 DEF ReconcilesSo
<1>10. CASE ReconcileAsked(r)
  <2>1. rpc' = [rpc EXCEPT ![r].pc = "reclaim", ![r].seen = {}] /\ rpc[r].claims = {}
    BY <1>10 DEF ReconcileAsked
  <2>2. /\ rpc'[r].pc = "reclaim" /\ rpc'[r].todo = rpc[r].todo /\ rpc'[r].claims = {}
    BY <1>0, <2>1 DEF TypeOK, Request
  <2>3. QED
    BY <1>1, <1>6, <2>2 DEF ReconcilesSo
<1>11. CASE ReconcileEnds(r)
  BY <1>5, <1>11 DEF ReconcileEnds
<1>12. QED
  BY <1>2, <1>5, <1>7, <1>8, <1>9, <1>10, <1>11 DEF Reconcile

\* From the only request served, or none, to the next.
LEMMA StepClean ==
    ASSUME TypeOK, AloneInv, CleanInv, NEW r \in Slot, Step(r), clean'
    PROVE  CleanInv'
<1>1. clean
  <2>1. Expected \/ Disturbed => (clean' => clean)
    BY Zenon DEF Expected, Disturbed, history
  <2>2. Expected \/ Disturbed
    BY StepHistory
  <2>3. QED
    BY <2>1, <2>2, Zenon
<1>2. alone
  BY <1>1, Zenon DEF TypeOK
<1>3. Disjoint /\ AtMostOne /\ \A s \in Slot : Knows(s)
  BY <1>2, Zenon DEF AloneInv
<1>4. ~On(r, "idle") /\ \A s \in Slot \ {r} : rpc[s].pc = "idle" /\ rpc'[s].pc = "idle"
  BY <1>3, StepLeaves DEF Leaves, AtMostOne, On
<1>5. SettledBut(r)
  BY <1>1, <1>4, Zenon DEF CleanInv
<1>6. SettledBut(r)'
  <2>1. ~Cancel(r)
    BY NotDisturbed DEF Cancel
  <2>2. QED
    BY <1>3, <1>5, <2>1, CreateSettled, StartSettled, AddSettled, RemoveSettled, EndSettled,
       ReconcileSettled DEF Step
<1>7. (\A s \in Slot : rpc'[s].pc = "idle") => \A q \in Project, h \in Port : Settled(q, h)'
  BY <1>6 DEF SettledBut, Unsettled
<1>8. OthersApart' /\ \A s \in Slot : rpc'[s].pc # "idle" => SettledBut(s)'
  BY <1>4, <1>6 DEF SettledBut
<1>9. QED
  BY <1>7, <1>8 DEF CleanInv, On

LEMMA BeginClean ==
    ASSUME TypeOK, CleanInv, NEW r \in Slot, NEW kind \in Kind, NEW p \in Project,
           NEW h \in Port, Begin(r, kind, p, h), clean'
    PROVE  CleanInv'
<1> DEFINE nobody == \A s \in Slot : On(s, "idle")
<1>1. clean' = (clean /\ nobody)
  BY Zenon DEF Begin
<1> HIDE DEF nobody
<1>2. clean /\ nobody
  BY <1>1, Zenon
<1> USE DEF nobody
<1>3. OthersApart /\ \A q \in Project, g \in Port : Settled(q, g)
  BY <1>2, Zenon DEF CleanInv
<1>4. rpc' = [rpc EXCEPT ![r] = At(First(kind), kind, p, h)] /\ UNCHANGED <<declared, task, bound>>
  BY DEF Begin, state
<1>5. /\ rpc'[r].pc = First(kind) /\ rpc'[r].kind = kind /\ rpc'[r].todo = {}
      /\ \A s \in Slot \ {r} : rpc'[s].pc = "idle"
  BY <1>2, <1>4 DEF At, TypeOK, On
<1>6. /\ First(kind) \in {"create", "findAdd", "findRemove", "stateStart", "stateStop", "resolveDelete", "list"}
      /\ First(kind) = "findRemove" <=> kind = "remove"
  BY DEF First, Kind
<1>7. OthersApart' /\ \A q \in Project, g \in Port : Settled(q, g)'
  BY <1>3, <1>4 DEF OthersApart, Settled, Running
<1>8. StartsSo(r)' /\ EndsSo(r)' /\ ChangesSo(r)' /\ ReconcilesSo(r)'
  BY <1>5, <1>6 DEF StartsSo, EndsSo, ChangesSo, ReconcilesSo, ReconcilePc
<1>9. SettledBut(r)'
  BY <1>7, <1>8 DEF SettledBut
<1>10. QED
  BY <1>5, <1>7, <1>9 DEF CleanInv, On

LEMMA NextClean ==
    ASSUME TypeOK, AloneInv, CleanInv, [Next]_vars
    PROVE  CleanInv'
<1> SUFFICES ASSUME clean' PROVE CleanInv'
  BY Zenon DEF CleanInv
<1>1. CASE UNCHANGED vars
  BY <1>1 DEF vars, history, CleanInv, SettledBut, OthersApart, StartsSo, EndsSo, ChangesSo, ReconcilesSo,
     Settled, Unsettled, Running, Labels, On, P, H
<1>2. ~Outside
  BY NotDisturbed DEF Outside, TaskExits, OthersBind, OthersUnbind, RootlesskitRestarts, DaemonRestarts
<1>3. QED
  BY <1>1, <1>2, StepClean, BeginClean DEF Next, Step

\* While requests are served one at a time and nothing fails, a project's forwards are
\* those its label and its task say, between any two requests.
THEOREM Derived == Spec => []ForwardsAreDerived
<1>1. Init => CleanInv /\ AloneInv
  <2> SUFFICES ASSUME Init PROVE CleanInv /\ AloneInv
    OBVIOUS
  <2>1. AloneInv
    BY IdleType DEF Init, AloneInv, Disjoint, AtMostOne, Knows, On, ReadPc, CheckedPc
  <2>2. \A q \in Project, h \in Port : Settled(q, h)
    BY Others DEF Init, Settled, Running
  <2>3. OthersApart /\ \A r \in Slot : On(r, "idle")
    BY IdleType DEF Init, OthersApart, On
  <2>4. QED
    BY <2>1, <2>2, <2>3 DEF CleanInv
<1>2. CleanInv => ForwardsAreDerived
  BY DEF CleanInv, ForwardsAreDerived, Settled
<1>3. QED
  BY <1>1, <1>2, PortTypes, NextAlone, NextClean, PTL DEF Spec

-------------------------------------------------------------------------------
(* What a reconcile leaves *)

\* A project that runs declares the port.
Kept(h) == \E q \in Project : h \in declared[q] /\ Running(q)

\* Until the states are asked for the claims are the labels.  Then a forward of a
\* project is still to be decided, to be removed, or of a port a running project
\* declares; one that is to be decided and is declared has its claim.
Covers(r) ==
    LET a == rpc[r] IN
    /\ a.pc \in {"listLive", "states"}
       => \A p \in Project, h \in Port : <<p, h>> \in a.claims => h \in declared[p]
    /\ a.pc = "listLive" => \A p \in Project : \A h \in declared[p] : <<p, h>> \in a.claims
    /\ a.pc = "states" =>
         \A h \in Port :
           /\ bound[h] \in Project => h \in a.seen \cup a.todo \/ Kept(h)
           /\ h \in a.seen => \A p \in Project : h \in declared[p] => <<p, h>> \in a.claims
    /\ a.pc = "reclaim" =>
         \A p \in Project : \A h \in declared[p] : bound[h] \in Project => h \in a.todo \/ Kept(h)

QuietInv ==
    quiet => /\ AtMostOne
             /\ \A r \in Slot : rpc[r].pc \in ReconcilePc \cup {"idle"} /\ Covers(r)

LEMMA Uncovering ==
    ASSUME NEW r \in Slot
    PROVE  /\ rpc[r].pc \in {"idle", "list"} => Covers(r)
           /\ rpc'[r].pc \in {"idle", "list"} => Covers(r)'
  BY DEF Covers

LEMMA NotQuiet ==
    ASSUME quiet'
    PROVE  /\ ~Disturbed /\ (\A r \in Slot : ~Fails(r))
           /\ (Expected => quiet)
  BY Zenon DEF Disturbed, Fails, Expected, history

LEMMA LabelsCover ==
    ASSUME TypeOK
    PROVE  /\ \A p \in Project : \A h \in declared[p] : <<p, h>> \in UNION {Labels(q) : q \in record}
           /\ \A p, h : <<p, h>> \in UNION {Labels(q) : q \in record} => h \in declared[p]
<1>1. ASSUME NEW p \in Project, NEW h \in declared[p]
      PROVE  <<p, h>> \in UNION {Labels(q) : q \in record}
  <2>1. p \in record /\ <<p, h>> \in Labels(p)
    BY DEF TypeOK, Labels
  <2>2. QED
    BY <2>1
<1>2. ASSUME NEW p, NEW h, <<p, h>> \in UNION {Labels(q) : q \in record}
      PROVE  h \in declared[p]
  BY <1>2 DEF Labels
<1>3. QED
  BY <1>1, <1>2

LEMMA ReconcileCovers ==
    ASSUME TypeOK, NEW r \in Slot, Covers(r), Reconcile(r), quiet'
    PROVE  rpc'[r].pc \in ReconcilePc \cup {"idle"} /\ Covers(r)'
<1> USE DEF On
<1>0. rpc[r] \in Request
  BY DEF TypeOK
<1>1. CASE Answer(r)
  BY <1>1, Answered, Uncovering
<1>2. CASE ReconcileContainers(r) /\ ~Answer(r)
  <2>1. rpc' = [rpc EXCEPT ![r].pc = "listLive", ![r].claims = UNION {Labels(p) : p \in record}]
        /\ UNCHANGED declared
    BY <1>2, NotQuiet DEF ReconcileContainers, state
  <2> DEFINE all == UNION {Labels(p) : p \in record}
  <2> HIDE DEF all
  <2>2. rpc'[r].pc = "listLive" /\ rpc'[r].claims = all
    BY <1>0, <2>1 DEF TypeOK, Request, all
  <2>3. /\ \A p \in Project : \A h \in declared[p] : <<p, h>> \in all
        /\ \A p, h : <<p, h>> \in all => h \in declared[p]
    BY LabelsCover DEF all
  <2>4. QED
    BY <2>1, <2>2, <2>3 DEF Covers, ReconcilePc
<1>3. CASE ReconcileList(r) /\ ~Answer(r)
  <2>1. /\ rpc' = [rpc EXCEPT ![r].pc = "states", ![r].seen = Attributable]
        /\ UNCHANGED <<declared, task, bound>> /\ rpc[r].pc = "listLive"
    BY <1>3, NotQuiet DEF ReconcileList, state
  <2>2. rpc'[r].pc = "states" /\ rpc'[r].seen = Attributable /\ rpc'[r].claims = rpc[r].claims
    BY <1>0, <2>1 DEF TypeOK, Request
  <2>3. QED
    BY <2>1, <2>2 DEF Covers, ReconcilePc, Attributable
<1>4. ASSUME NEW p \in Project, ReconcileState(r, p)
      PROVE  rpc'[r].pc \in ReconcilePc \cup {"idle"} /\ Covers(r)'
  <2> DEFINE claimed == Claimed(r, p)
             others == {c \in rpc[r].claims : c[1] # p}
             decided == [rpc[r] EXCEPT !.claims = {c \in @ : c[1] # p}, !.seen = @ \ claimed]
             reclaimed == [decided EXCEPT !.todo = @ \cup claimed]
  <2>1. /\ rpc' = [rpc EXCEPT ![r] = IF Reclaims(p) THEN reclaimed ELSE decided]
        /\ rpc[r].pc = "states" /\ UNCHANGED <<declared, task, bound>>
    BY SMTT(60), <1>4, NotQuiet DEF ReconcileState, state
  <2>2. /\ decided \in Request /\ decided.pc = "states" /\ decided.claims = others
        /\ decided.seen = rpc[r].seen \ claimed /\ decided.todo = rpc[r].todo
    BY <1>0, <2>1, RequestFields DEF Request
  <2> HIDE DEF decided
  <2>3. /\ reclaimed.pc = "states" /\ reclaimed.claims = others
        /\ reclaimed.seen = rpc[r].seen \ claimed /\ reclaimed.todo = rpc[r].todo \cup claimed
    BY <2>2 DEF Request
  <2> HIDE DEF reclaimed
  <2>4. \A h \in claimed : h \in rpc[r].seen /\ <<p, h>> \in rpc[r].claims /\ h \in Port
    BY RequestFields DEF Claimed
  <2>5. \A h \in rpc[r].seen : <<p, h>> \in rpc[r].claims => h \in claimed
    BY DEF Claimed
  <2>6. \A q, h : <<q, h>> \in others <=> <<q, h>> \in rpc[r].claims /\ q # p
    OBVIOUS
  <2> HIDE DEF claimed, others
  <2>7. /\ rpc'[r].pc = "states" /\ rpc'[r].claims = others
        /\ rpc'[r].seen = rpc[r].seen \ claimed
        /\ rpc'[r].todo = IF Reclaims(p) THEN rpc[r].todo \cup claimed ELSE rpc[r].todo
    BY <2>1, <2>2, <2>3 DEF TypeOK
  <2>8. ~Reclaims(p) => \A h \in claimed : Kept(h)
    BY <2>1, <2>4 DEF Covers, Reclaims, Kept, Running
  <2>9. \A h : Kept(h)' <=> Kept(h)
    BY <2>1 DEF Kept, Running
  <2>10. ASSUME NEW h \in Port, bound'[h] \in Project
         PROVE  h \in rpc'[r].seen \cup rpc'[r].todo \/ Kept(h)'
    BY <2>1, <2>7, <2>8, <2>9, <2>10 DEF Covers
  <2>11. ASSUME NEW h \in Port, h \in rpc'[r].seen, NEW q \in Project, h \in declared'[q]
         PROVE  <<q, h>> \in rpc'[r].claims
    BY <2>1, <2>5, <2>6, <2>7, <2>11 DEF Covers
  <2>12. \A q \in Project, h \in Port : <<q, h>> \in rpc'[r].claims => h \in declared'[q]
    BY <2>1, <2>6, <2>7 DEF Covers
  <2>13. QED
    BY <2>7, <2>10, <2>11, <2>12 DEF Covers, ReconcilePc
<1>5. CASE ReconcileAsked(r)
  <2>1. /\ rpc' = [rpc EXCEPT ![r].pc = "reclaim", ![r].seen = {}] /\ rpc[r].claims = {}
        /\ rpc[r].pc = "states" /\ UNCHANGED <<declared, task, bound>>
    BY <1>5 DEF ReconcileAsked, state
  <2>2. rpc'[r].pc = "reclaim" /\ rpc'[r].todo = rpc[r].todo
    BY <1>0, <2>1 DEF TypeOK, Request
  <2>3. \A p \in Project : declared[p] \in SUBSET Port
    BY DEF TypeOK
  <2>4. QED
    BY <2>1, <2>2, <2>3 DEF Covers, ReconcilePc, Kept, Running
<1>6. ASSUME NEW h \in Port, ReconcileDrop(r, h)
      PROVE  rpc'[r].pc \in ReconcilePc \cup {"idle"} /\ Covers(r)'
  <2>1. /\ bound' = [bound EXCEPT ![h] = Free] /\ UNCHANGED <<declared, task>>
        /\ rpc[r].pc = "reclaim"
    BY <1>6, NotQuiet DEF ReconcileDrop, Drops
  <2>2. rpc'[r].pc = "reclaim" /\ rpc'[r].todo = rpc[r].todo \ {h}
    BY <1>6, <2>1, DropsOwn DEF ReconcileDrop
  <2>3. bound'[h] \notin Project /\ \A g \in Port : g # h => bound'[g] = bound[g]
    BY <2>1, Others DEF TypeOK
  <2>4. \A p \in Project : declared[p] \in SUBSET Port
    BY DEF TypeOK
  <2>5. QED
    BY <2>1, <2>2, <2>3, <2>4 DEF Covers, ReconcilePc, Kept, Running
<1>7. CASE ReconcileEnds(r)
  BY <1>1, <1>7 DEF ReconcileEnds
<1>8. QED
  BY <1>1, <1>2, <1>3, <1>4, <1>5, <1>6, <1>7 DEF Reconcile

\* Nothing but the reconcile goes on in quiet.
LEMMA StepQuiet ==
    ASSUME TypeOK, QuietInv, NEW r \in Slot, Step(r), quiet'
    PROVE  QuietInv'
<1>1. quiet
  BY StepHistory, NotQuiet
<1>2. AtMostOne /\ \A s \in Slot : rpc[s].pc \in ReconcilePc \cup {"idle"} /\ Covers(s)
  BY <1>1, Zenon DEF QuietInv
<1>3. ~On(r, "idle") /\ \A s \in Slot \ {r} : rpc[s].pc = "idle" /\ rpc'[s].pc = "idle"
  BY <1>2, StepLeaves DEF Leaves, AtMostOne, On
<1>4. Reconcile(r)
  <2>1. rpc[r].pc \in ReconcilePc
    BY <1>2, <1>3 DEF On
  <2>2. ~Cancel(r)
    BY NotQuiet DEF Cancel
  <2>3. ~Create(r) /\ ~Add(r) /\ ~Remove(r)
    BY <2>1 DEF ReconcilePc, On, Create, Add, AddFind, AddOthers, AddState, AddBind, AddProbe,
                AddWrite, Remove, RemoveFind, RemoveList, RemoveWrite
  <2>4. ~Start(r) /\ ~End(r)
    BY <2>1 DEF ReconcilePc, On, Start, StartState, StartReap, StartTask, ApplyFind, ApplyList,
                ApplyEnds, ApplyPort, End, StopState, DeleteResolve, WithdrawFind, WithdrawList,
                Drop, DropEnds, StopTask, DeleteRecord
  <2>5. QED
    BY <2>2, <2>3, <2>4 DEF Step
<1>5. rpc'[r].pc \in ReconcilePc \cup {"idle"} /\ Covers(r)'
  BY <1>2, <1>4, ReconcileCovers
<1>6. \A s \in Slot : rpc'[s].pc \in ReconcilePc \cup {"idle"} /\ Covers(s)'
  BY <1>3, <1>5, Uncovering
<1>7. AtMostOne'
  BY <1>3 DEF AtMostOne, On
<1>8. QED
  BY <1>6, <1>7 DEF QuietInv

LEMMA BeginQuiet ==
    ASSUME TypeOK, NEW r \in Slot, NEW kind \in Kind, NEW p \in Project,
           NEW h \in Port, Begin(r, kind, p, h), quiet'
    PROVE  QuietInv'
<1> DEFINE nobody == \A s \in Slot : On(s, "idle")
<1>1. quiet' = (nobody /\ kind = "reconcile")
  BY Zenon DEF Begin
<1> HIDE DEF nobody
<1>2. nobody /\ kind = "reconcile"
  BY <1>1, Zenon
<1> USE DEF nobody
<1>3. rpc' = [rpc EXCEPT ![r] = At("list", kind, p, h)]
  BY <1>2 DEF Begin, First
<1>4. \A s \in Slot : rpc'[s].pc = IF s = r THEN "list" ELSE "idle"
  BY <1>2, <1>3 DEF At, TypeOK, On
<1>5. \A s \in Slot : rpc'[s].pc \in ReconcilePc \cup {"idle"} /\ Covers(s)'
  BY <1>4, Uncovering DEF ReconcilePc
<1>6. AtMostOne'
  BY <1>4 DEF AtMostOne, On
<1>7. QED
  BY <1>5, <1>6 DEF QuietInv

LEMMA NextQuiet ==
    ASSUME TypeOK, QuietInv, [Next]_vars
    PROVE  QuietInv'
<1> SUFFICES ASSUME quiet' PROVE QuietInv'
  BY Zenon DEF QuietInv
<1>1. CASE UNCHANGED vars
  BY <1>1 DEF vars, history, QuietInv, AtMostOne, On, Covers, Kept, Running
<1>2. ~Outside
  BY NotQuiet DEF Outside, TaskExits, OthersBind, OthersUnbind, RootlesskitRestarts, DaemonRestarts
<1>3. QED
  BY <1>1, <1>2, StepQuiet, BeginQuiet DEF Next, Step

\* A reconcile that nothing disturbed leaves no forward of a project on a port that
\* only stopped projects declare, whatever was interrupted before it.
THEOREM ReclaimsForwards == Spec => ReconcileReclaims
<1>1. Init => QuietInv
  <2> SUFFICES ASSUME Init PROVE QuietInv
    OBVIOUS
  <2>1. quiet = FALSE
    BY Zenon DEF Init
  <2>2. QED
    BY <2>1, Zenon DEF QuietInv
<1>2. ASSUME TypeOK, QuietInv, NEW r \in Slot, ReconcileEnds(r), quiet,
             NEW p \in Project, NEW h \in declared[p], bound[h] \in Project
      PROVE  \E q \in Project : h \in declared[q] /\ Running(q)
  <2>1. rpc[r].pc = "reclaim" /\ rpc[r].todo = {}
    BY <1>2 DEF ReconcileEnds, On
  <2>2. Covers(r)
    BY <1>2, Zenon DEF QuietInv
  <2>3. QED
    BY <1>2, <2>1, <2>2 DEF Covers, Kept
<1>3. TypeOK /\ QuietInv
      => \A r \in Slot : ReconcileEnds(r) /\ quiet
           => \A p \in Project : \A h \in declared[p] :
                bound[h] \in Project => \E q \in Project : h \in declared[q] /\ Running(q)
  BY <1>2
<1>4. QED
  BY <1>1, <1>3, PortTypes, NextQuiet, PTL DEF Spec, ReconcileReclaims

===============================================================================
