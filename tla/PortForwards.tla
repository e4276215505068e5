------------------------------ MODULE PortForwards ------------------------------
(***************************************************************************)
(* Port forwards (src/engine/ports.rs and the operations of project.rs     *)
(* that use it): the host ports a project declares on its container record *)
(* and the forwards rootlesskit holds, which are derived from them.        *)
(*                                                                         *)
(* rootlesskit's table is shared with whatever else the user runs.  It is  *)
(* asked through a command, and no lock of nemrd's spans two of its steps. *)
(* A forward is removed by id and ids are not given twice: a request that  *)
(* listed a forward names it by its port, and forgets it when it goes.     *)
(* A forward to a project matches a declaration of its port exactly; one   *)
(* of the user's shares the host port at most.                             *)
(***************************************************************************)
EXTENDS FiniteSets

CONSTANTS
    Project,  \* project names
    Port,     \* host ports, each with the container port it is forwarded to
    Slot,     \* the requests nemrd serves at the same time
    User,     \* who added a forward by hand
    Host,     \* another program of the host, bound to a port
    Free      \* nobody is

ASSUME Constants ==
    /\ Project # {} /\ Port # {} /\ Slot # {}
    /\ Cardinality({User, Host, Free}) = 3
    /\ {User, Host, Free} \cap Project = {}

VARIABLES
    record,    \* the projects that have a container record
    declared,  \* project -> the ports on its record's label
    task,      \* project -> its task's state
    bound,     \* port -> the project or other its traffic goes to, or Free
    rpc,       \* slot -> the request it serves
    alone,     \* history: no two requests have ever been served at once
    clean,     \* history: alone, and nothing failed or came from outside
    quiet      \* history: the same, since the running reconcile began

history == <<alone, clean, quiet>>
vars == <<record, declared, task, bound, rpc, history>>

AddPc == {"findAdd", "others", "state", "bind", "probe", "writeAdd"}
RemovePc == {"findRemove", "listRemove", "drop", "writeRemove"}
StartPc == {"stateStart", "reap", "startTask", "findApply", "listApply", "apply"}
EndPc == {"stateStop", "resolveDelete", "findWithdraw", "listWithdraw", "stopTask",
          "deleteRecord"}
ReconcilePc == {"list", "listLive", "states", "reclaim"}
Pc == AddPc \cup RemovePc \cup StartPc \cup EndPc \cup ReconcilePc \cup {"create"}
Kind == {"create", "add", "remove", "start", "stop", "delete", "reconcile"}

Claim == Project \X Port

\* claims: the labels read.  seen: forwards listed and not yet attributed.
\* todo: the ports to forward, or the forwards to remove.
Request == [pc : Pc \cup {"idle"}, kind : Kind, project : Project, port : Port,
            claims : SUBSET Claim, seen : SUBSET Port, todo : SUBSET Port]

TypeOK ==
    /\ record \subseteq Project
    /\ declared \in [Project -> SUBSET Port]
    /\ \A p \in Project \ record : declared[p] = {}
    /\ task \in [Project -> {"none", "running", "exited"}]
    /\ bound \in [Port -> Project \cup {User, Host, Free}]
    /\ rpc \in [Slot -> Request]
    /\ alone \in BOOLEAN /\ clean \in BOOLEAN /\ quiet \in BOOLEAN
    /\ clean => alone

At(pc, kind, p, h) == [pc |-> pc, kind |-> kind, project |-> p, port |-> h,
                       claims |-> {}, seen |-> {}, todo |-> {}]
AnyProject == CHOOSE p \in Project : TRUE
AnyPort == CHOOSE h \in Port : TRUE
Idle == At("idle", "create", AnyProject, AnyPort)

\* Others may be bound to some ports already.
Init ==
    /\ record = {}
    /\ declared = [p \in Project |-> {}]
    /\ task = [p \in Project |-> "none"]
    /\ bound \in [Port -> {User, Host, Free}]
    /\ rpc = [r \in Slot |-> Idle]
    /\ alone = TRUE /\ clean = TRUE /\ quiet = FALSE

-------------------------------------------------------------------------------
(* Requests *)

On(r, pc) == rpc[r].pc = pc
P(r) == rpc[r].project
H(r) == rpc[r].port
Goto(r, pc) == rpc' = [rpc EXCEPT ![r].pc = pc]
Answer(r) == rpc' = [rpc EXCEPT ![r] = Idle]

state == <<record, declared, task, bound>>
Expected == UNCHANGED history
Disturbed == clean' = FALSE /\ quiet' = FALSE /\ UNCHANGED alone

\* A call fails, and the request with it.
Fails(r) == Answer(r) /\ Disturbed

First(kind) ==
    CASE kind = "create" -> "create"
      [] kind = "add" -> "findAdd"
      [] kind = "remove" -> "findRemove"
      [] kind = "start" -> "stateStart"
      [] kind = "stop" -> "stateStop"
      [] kind = "delete" -> "resolveDelete"
      [] kind = "reconcile" -> "list"

Begin(r, kind, p, h) ==
    LET nobody == \A s \in Slot : On(s, "idle") IN
    /\ On(r, "idle")
    /\ kind \notin {"add", "remove"} => h = AnyPort
    /\ kind = "reconcile" => p = AnyProject
    /\ rpc' = [rpc EXCEPT ![r] = At(First(kind), kind, p, h)]
    /\ alone' = (alone /\ nobody)
    /\ clean' = (clean /\ nobody)
    /\ quiet' = (nobody /\ kind = "reconcile")
    /\ UNCHANGED state

\* A step that only looks; the request goes on when the condition holds.
Looks(r, condition, pc) ==
    /\ \/ condition /\ Goto(r, pc) /\ Expected
       \/ ~condition /\ Answer(r) /\ Expected
       \/ Fails(r)
    /\ UNCHANGED state

\* find_container: the labels of the record, as they are now.
Labels(p) == {p} \X declared[p]
Ports(claims) == {c[2] : c \in claims}

\* The same forwards, without those no longer there.
Forget(requests, gone) ==
    [r \in Slot |-> IF requests[r].kind = "start" THEN requests[r]
                    ELSE [requests[r] EXCEPT !.seen = @ \ gone, !.todo = @ \ gone]]

Live(h) == bound[h] \in Project \cup {User}
LivePorts == {h \in Port : Live(h)}

Updates(p, ports) == p \in record /\ declared' = [declared EXCEPT ![p] = ports]

\* update_container_labels: the labels read, with the ports changed.  There is
\* no record to update, or the update fails, or the client has gone.
WritesPorts(r, ports) ==
    /\ \/ Updates(P(r), ports) /\ Answer(r) /\ Expected
       \/ UNCHANGED declared /\ Fails(r)
    /\ UNCHANGED <<record, task, bound>>

-------------------------------------------------------------------------------
(* create, start, as far as ports go *)

Create(r) ==
    /\ On(r, "create")
    /\ record' \in {record, record \cup {P(r)}}
    /\ Answer(r)
    /\ UNCHANGED <<declared, task, bound, history>>

StartState(r) ==
    LET p == P(r) IN
    /\ On(r, "stateStart")
    /\ Looks(r, p \in record /\ task[p] # "running",
             IF task[p] = "exited" THEN "reap" ELSE "startTask")

\* stop_task; its forwards are still there.
TaskGone(p) == task' = [task EXCEPT ![p] = "none"]

StartReap(r) ==
    /\ On(r, "reap")
    /\ \/ TaskGone(P(r)) /\ Goto(r, "startTask") /\ Expected
       \/ Fails(r) /\ UNCHANGED task
    /\ UNCHANGED <<record, declared, bound>>

\* start_task and the wiring of its network.
StartTask(r) ==
    LET p == P(r) IN
    /\ On(r, "startTask")
    /\ \/ /\ p \in record /\ task[p] = "none"
          /\ task' = [task EXCEPT ![p] = "running"]
          /\ Goto(r, "findApply") /\ Expected
       \/ Fails(r) /\ UNCHANGED task
    /\ UNCHANGED <<record, declared, bound>>

ApplyFind(r) ==
    /\ On(r, "findApply")
    /\ \/ /\ P(r) \in record /\ declared[P(r)] # {}
          /\ rpc' = [rpc EXCEPT ![r].pc = "listApply", ![r].claims = Labels(P(r))]
          /\ Expected
       \/ declared[P(r)] = {} /\ Answer(r) /\ Expected
       \/ Fails(r)
    /\ UNCHANGED state

\* The declared ports no forward holds.
Missing(claims) == Ports(claims) \ LivePorts

\* Without the list everything is tried.
ApplyList(r) ==
    LET c == rpc[r].claims IN
    /\ On(r, "listApply")
    /\ \/ rpc' = [rpc EXCEPT ![r].pc = "apply", ![r].todo = Missing(c)] /\ Expected
       \/ rpc' = [rpc EXCEPT ![r].pc = "apply", ![r].todo = Ports(c)] /\ Disturbed
    /\ UNCHANGED state

\* host_port_is_free
IsFree(h) == bound[h] = Free

\* add_live: refused when anyone is bound to the port.
Binds(h, p) == IsFree(h) /\ bound' = [bound EXCEPT ![h] = p]

\* A port that cannot be forwarded is reported and skipped.
ApplyPort(r, h) ==
    /\ On(r, "apply") /\ h \in rpc[r].todo
    /\ rpc' = [rpc EXCEPT ![r].todo = @ \ {h}]
    /\ \/ Binds(h, P(r)) /\ Expected
       \/ ~IsFree(h) /\ UNCHANGED bound /\ Expected
       \/ UNCHANGED bound /\ Disturbed
    /\ UNCHANGED <<record, declared, task>>

ApplyEnds(r) == On(r, "apply") /\ rpc[r].todo = {} /\ Answer(r) /\ UNCHANGED <<state, history>>

-------------------------------------------------------------------------------
(* Taking forwards away: stop, delete, port rm *)

\* Every live forward of a host port the request is about, whoever added it.
Withdrawn(r) == Ports(rpc[r].claims)

\* list_live, or no list and nothing to drop.
Lists(r, ports, pc) ==
    \/ rpc' = [rpc EXCEPT ![r].pc = pc, ![r].todo = ports \cap LivePorts] /\ Expected
    \/ Goto(r, pc) /\ Disturbed

\* remove_live, by id; one that fails is not tried again.
Drops(r, h) ==
    LET rest == [rpc EXCEPT ![r].todo = @ \ {h}] IN
    /\ h \in rpc[r].todo
    /\ \/ /\ bound' = [bound EXCEPT ![h] = Free]
          /\ rpc' = Forget(rest, {h})
          /\ Expected
       \/ UNCHANGED bound /\ rpc' = rest /\ Disturbed
    /\ UNCHANGED <<record, declared, task>>

StopState(r) ==
    On(r, "stateStop") /\ Looks(r, P(r) \in record /\ task[P(r)] # "none", "findWithdraw")

DeleteResolve(r) ==
    On(r, "resolveDelete") /\ Looks(r, P(r) \in record, "findWithdraw")

\* withdraw_declared_ports; what cannot be read is not withdrawn.
WithdrawFind(r) ==
    /\ On(r, "findWithdraw")
    /\ \/ /\ declared[P(r)] # {}
          /\ rpc' = [rpc EXCEPT ![r].pc = "listWithdraw", ![r].claims = Labels(P(r))]
          /\ Expected
       \/ declared[P(r)] = {} /\ Goto(r, "stopTask") /\ Expected
       \/ Goto(r, "stopTask") /\ Disturbed
    /\ UNCHANGED state

WithdrawList(r) ==
    /\ On(r, "listWithdraw")
    /\ Lists(r, Withdrawn(r), "drop")
    /\ UNCHANGED state

Drop(r, h) == On(r, "drop") /\ Drops(r, h)

DropEnds(r) ==
    /\ On(r, "drop") /\ rpc[r].todo = {}
    /\ Goto(r, IF rpc[r].kind = "remove" THEN "writeRemove" ELSE "stopTask")
    /\ UNCHANGED <<state, history>>

\* The task is gone; or it is wedged and lives on, which delete goes past; or it
\* cannot be stopped.
StopTask(r) ==
    LET p == P(r) IN
    /\ On(r, "stopTask")
    /\ \/ /\ TaskGone(p) /\ Expected
          /\ IF rpc[r].kind = "delete" THEN Goto(r, "deleteRecord") ELSE Answer(r)
       \/ /\ UNCHANGED task /\ Disturbed
          /\ Answer(r) \/ (rpc[r].kind = "delete" /\ Goto(r, "deleteRecord"))
    /\ UNCHANGED <<record, declared, bound>>

\* After the volume, the record, whether or not a task is there.
DeleteRecord(r) ==
    LET p == P(r) IN
    /\ On(r, "deleteRecord")
    /\ \/ /\ record' = record \ {p}
          /\ declared' = [declared EXCEPT ![p] = {}]
          /\ Answer(r) /\ Expected
       \/ UNCHANGED <<record, declared>> /\ Fails(r)
    /\ UNCHANGED <<task, bound>>

RemoveFind(r) ==
    /\ On(r, "findRemove")
    /\ \/ /\ H(r) \in declared[P(r)]
          /\ rpc' = [rpc EXCEPT ![r].pc = "listRemove", ![r].claims = Labels(P(r))]
          /\ Expected
       \/ H(r) \notin declared[P(r)] /\ Answer(r) /\ Expected
       \/ Fails(r)
    /\ UNCHANGED state

\* Mutant of Removed: the forwards of the ports the project goes on declaring.
RemovedOthers(r) == Ports(rpc[r].claims) \ {H(r)}

Removed(r) == {H(r)}

RemoveList(r) ==
    /\ On(r, "listRemove")
    /\ Lists(r, Removed(r), "drop")
    /\ UNCHANGED state

RemoveWrite(r) ==
    On(r, "writeRemove") /\ WritesPorts(r, Ports(rpc[r].claims) \ {H(r)})

-------------------------------------------------------------------------------
(* port add *)

AddFind(r) ==
    /\ On(r, "findAdd")
    /\ \/ /\ P(r) \in record /\ H(r) \notin declared[P(r)]
          /\ rpc' = [rpc EXCEPT ![r].pc = "others", ![r].claims = Labels(P(r))]
          /\ Expected
       \/ (P(r) \notin record \/ H(r) \in declared[P(r)]) /\ Answer(r) /\ Expected
       \/ Fails(r)
    /\ UNCHANGED state

\* project_holding_host_port
DeclaredElsewhere(p, h) == \E q \in record \ {p} : h \in declared[q]

AddOthers(r) == On(r, "others") /\ Looks(r, ~DeclaredElsewhere(P(r), H(r)), "state")

AddState(r) ==
    /\ On(r, "state")
    /\ \/ Goto(r, IF task[P(r)] = "running" THEN "bind" ELSE "probe") /\ Expected
       \/ Fails(r)
    /\ UNCHANGED state

AddBind(r) ==
    /\ On(r, "bind")
    /\ \/ Binds(H(r), P(r)) /\ Goto(r, "writeAdd") /\ Expected
       \/ ~IsFree(H(r)) /\ UNCHANGED bound /\ Answer(r) /\ Expected
       \/ (Binds(H(r), P(r)) \/ UNCHANGED bound) /\ Fails(r)
    /\ UNCHANGED <<record, declared, task>>

\* A bind to try, given up at once.
AddProbe(r) == On(r, "probe") /\ Looks(r, IsFree(H(r)), "writeAdd")

AddWrite(r) ==
    On(r, "writeAdd") /\ WritesPorts(r, Ports(rpc[r].claims) \cup {H(r)})

-------------------------------------------------------------------------------
(* reconcile *)

\* The containers and their labels, before anything is swept.
ReconcileContainers(r) ==
    LET claims == UNION {Labels(p) : p \in record} IN
    /\ On(r, "list")
    /\ \/ rpc' = [rpc EXCEPT ![r].pc = "listLive", ![r].claims = claims] /\ Expected
       \/ Fails(r)
    /\ UNCHANGED state

\* Mutant of Attributable: by host port alone, as before F-97.
AttributableByPort == LivePorts

\* classify_forward: a declaration matches exactly, or the forward is nobody's.
Attributable == {h \in Port : bound[h] \in Project}

ReconcileList(r) ==
    /\ On(r, "listLive")
    /\ \/ rpc' = [rpc EXCEPT ![r].pc = "states", ![r].seen = Attributable] /\ Expected
       \/ Fails(r)
    /\ UNCHANGED state

Claimed(r, p) == {h \in rpc[r].seen : <<p, h>> \in rpc[r].claims}

\* Mutant of Reclaims: an exited task's project counts as running.
ReclaimsOfNone(p) == task[p] = "none"

\* Anything but a running task.
Reclaims(p) == task[p] # "running"

\* The states are asked project by project, the first that claims a forward
\* decides about it, and no answer is taken for stopped.
ReconcileState(r, p) ==
    LET claimed == Claimed(r, p)
        decided == [rpc[r] EXCEPT !.claims = {c \in @ : c[1] # p}, !.seen = @ \ claimed]
        reclaimed == [decided EXCEPT !.todo = @ \cup claimed] IN
    /\ On(r, "states")
    /\ \E h \in Port : <<p, h>> \in rpc[r].claims
    /\ \/ rpc' = [rpc EXCEPT ![r] = IF Reclaims(p) THEN reclaimed ELSE decided] /\ Expected
       \/ rpc' = [rpc EXCEPT ![r] = reclaimed] /\ Disturbed
    /\ UNCHANGED state

ReconcileAsked(r) ==
    /\ On(r, "states") /\ rpc[r].claims = {}
    /\ rpc' = [rpc EXCEPT ![r].pc = "reclaim", ![r].seen = {}]
    /\ UNCHANGED <<state, history>>

ReconcileDrop(r, h) == On(r, "reclaim") /\ Drops(r, h)

ReconcileEnds(r) ==
    On(r, "reclaim") /\ rpc[r].todo = {} /\ Answer(r) /\ UNCHANGED <<state, history>>

-------------------------------------------------------------------------------
(* What happens outside *)

\* The client goes away: the request ends at an await.  The commands to
\* rootlesskit are not awaited.
Cancel(r) ==
    /\ rpc[r].pc \notin {"idle", "listRemove", "listWithdraw", "drop", "bind", "probe",
                         "listApply", "apply", "listLive", "reclaim"}
    /\ Fails(r)
    /\ UNCHANGED state

TaskExits(p) ==
    /\ task[p] = "running"
    /\ task' = [task EXCEPT ![p] = "exited"]
    /\ Disturbed
    /\ UNCHANGED <<record, declared, bound, rpc>>

\* A forward of the user's or another program takes a port.
OthersBind(h, who) ==
    /\ Binds(h, who)
    /\ Disturbed
    /\ UNCHANGED <<record, declared, task, rpc>>

\* It lets go of it; the user may drop any forward with rootlessctl remove-ports.
OthersUnbind(h) ==
    /\ ~IsFree(h)
    /\ bound' = [bound EXCEPT ![h] = Free]
    /\ rpc' = Forget(rpc, {h})
    /\ Disturbed
    /\ UNCHANGED <<record, declared, task>>

\* rootlesskit restarts: with it go every forward, containerd and every task.
RootlesskitRestarts ==
    /\ bound' = [h \in Port |-> IF Live(h) THEN Free ELSE bound[h]]
    /\ task' = [p \in Project |-> "none"]
    /\ rpc' = Forget(rpc, LivePorts)
    /\ Disturbed
    /\ UNCHANGED <<record, declared>>

\* nemrd dies and starts again.
DaemonRestarts ==
    /\ rpc' = [r \in Slot |-> Idle]
    /\ Disturbed
    /\ UNCHANGED state

-------------------------------------------------------------------------------
Add(r) == AddFind(r) \/ AddOthers(r) \/ AddState(r) \/ AddBind(r) \/ AddProbe(r) \/ AddWrite(r)

Remove(r) == RemoveFind(r) \/ RemoveList(r) \/ RemoveWrite(r)

Start(r) ==
    \/ StartState(r) \/ StartReap(r) \/ StartTask(r) \/ ApplyFind(r) \/ ApplyList(r)
    \/ ApplyEnds(r) \/ \E h \in Port : ApplyPort(r, h)

End(r) ==
    \/ StopState(r) \/ DeleteResolve(r) \/ WithdrawFind(r) \/ WithdrawList(r)
    \/ DropEnds(r) \/ StopTask(r) \/ DeleteRecord(r) \/ \E h \in Port : Drop(r, h)

Reconcile(r) ==
    \/ ReconcileContainers(r) \/ ReconcileList(r) \/ ReconcileAsked(r) \/ ReconcileEnds(r)
    \/ \E p \in Project : ReconcileState(r, p)
    \/ \E h \in Port : ReconcileDrop(r, h)

Outside ==
    \/ \E p \in Project : TaskExits(p)
    \/ \E h \in Port : OthersUnbind(h) \/ \E who \in {User, Host} : OthersBind(h, who)
    \/ RootlesskitRestarts
    \/ DaemonRestarts

Next ==
    \/ \E r \in Slot : \/ \E kind \in Kind, p \in Project, h \in Port : Begin(r, kind, p, h)
                       \/ Create(r) \/ Add(r) \/ Remove(r) \/ Start(r) \/ End(r)
                       \/ Reconcile(r) \/ Cancel(r)
    \/ Outside

Spec == Init /\ [][Next]_vars

-------------------------------------------------------------------------------
(* Properties *)

Running(p) == task[p] = "running"

\* ports.rs:25-34: forwards are derived from the labels.  While requests are
\* served one at a time and nothing fails, between two of them a project has a
\* forward exactly for the ports it declares while it runs, and no port has been
\* taken from anyone else.
ForwardsAreDerived ==
    clean /\ (\A r \in Slot : On(r, "idle"))
    => \A p \in Project, h \in Port :
         (bound[h] = p) <=> (Running(p) /\ h \in declared[p])

\* project.rs:3647-3659: served one at a time, no two projects declare a port,
\* whatever failed, exited or was restarted in between.
DeclaredOnce ==
    alone => \A p, q \in Project : p # q => declared[p] \cap declared[q] = {}

\* F-97, ports.rs:440-468: reconcile drops no forward that is not a project's,
\* whatever else is served meanwhile.
ReconcileSparesOthers ==
    [][\A r \in Slot, h \in Port :
         ReconcileDrop(r, h) /\ bound'[h] # bound[h] => bound[h] \in Project]_vars

\* A reconcile that nothing disturbed leaves no project's forward on a port that
\* only stopped projects declare, whatever was interrupted before, and wherever.
ReconcileReclaims ==
    [][\A r \in Slot :
         ReconcileEnds(r) /\ quiet
         => \A p \in Project : \A h \in declared[p] :
              bound[h] \in Project => \E q \in Project : h \in declared[q] /\ Running(q)]_vars
===============================================================================
