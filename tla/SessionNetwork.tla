---------------------------- MODULE SessionNetwork -----------------------------
(***************************************************************************)
(* The session networks of the engine (src/engine/netns.rs and the callers *)
(* in project.rs): the index a project's container record carries, from    *)
(* which its subnet, addresses and link name derive, and the link each     *)
(* index has in rootlesskit's namespace.                                   *)
(*                                                                         *)
(* An index is chosen from what the records say and published on a record, *)
(* under a process-wide lock.  Every other writer of a record's labels     *)
(* (port add, port rm, switch-agent) reads them and later writes them all  *)
(* back, without it.  A step is what runs between two awaits.              *)
(***************************************************************************)
EXTENDS Integers, Sequences

CONSTANTS
    Name,         \* project names
    Slot,         \* the requests nemrd serves at the same time
    Nobody,       \* no name and no slot
    MaxSessions,  \* the last index
    Legacy,       \* the projects created before there were session networks
    Wedging       \* a task can outlive the SIGKILL it is sent

ASSUME Constants ==
    /\ Name # {}
    /\ Nobody \notin Name \cup Slot
    /\ MaxSessions \in Nat
    /\ Legacy \subseteq Name
    /\ Wedging \in BOOLEAN

Index == 0 .. MaxSessions
NoIndex == -1   \* a record without an allocation
NoRecord == -2  \* no container record
Label == Index \cup {NoIndex, NoRecord}

VARIABLES
    label,    \* name -> the index on its container record
    putBack,  \* the names whose index a label edit put back (history)
    task,     \* name -> the slot whose start made the running task, or Nobody
    link,     \* index -> the project whose running task its veth pair leads to
    lock,     \* NETWORK_ALLOCATION: the slot that holds it, or Nobody
    rpc       \* slot -> the request it serves

vars == <<label, putBack, task, link, lock, rpc>>

CreatePc == {"check", "lockCreate", "chooseCreate", "publish"}
StartPc == {"resolveStart", "createTask", "find", "lockStart", "reread", "chooseStart",
            "record", "connect", "unstart"}
EndPc == {"resolveStop", "resolveDelete", "allocation", "stopTask", "disconnect",
          "afterStop", "deleteRecord"}
EditPc == {"readLabels", "writeLabels"}
Pc == CreatePc \cup StartPc \cup EndPc \cup EditPc

\* index: what was read from a record, or chosen for it.  deleting: the stop is
\* part of a delete.
Request == [pc : Pc \cup {"idle"}, name : Name, index : Label, deleting : BOOLEAN]

TypeOK ==
    /\ label \in [Name -> Label]
    /\ putBack \subseteq Name
    /\ task \in [Name -> Slot \cup {Nobody}]
    /\ link \in [Index -> Name \cup {Nobody}]
    /\ lock \in Slot \cup {Nobody}
    /\ rpc \in [Slot -> Request]

At(pc, n) == [pc |-> pc, name |-> n, index |-> NoRecord, deleting |-> FALSE]
Idle == At("idle", CHOOSE n \in Name : TRUE)

Init ==
    /\ label = [n \in Name |-> IF n \in Legacy THEN NoIndex ELSE NoRecord]
    /\ putBack = {}
    /\ task = [n \in Name |-> Nobody]
    /\ link = [i \in Index |-> Nobody]
    /\ lock = Nobody
    /\ rpc = [r \in Slot |-> Idle]

-------------------------------------------------------------------------------
(* Requests and the lock *)

On(r, pc) == rpc[r].pc = pc
N(r) == rpc[r].name
I(r) == rpc[r].index
Goto(r, pc) == rpc' = [rpc EXCEPT ![r].pc = pc]
GotoWith(r, pc, i) == rpc' = [rpc EXCEPT ![r].pc = pc, ![r].index = i]
Answer(r) == rpc' = [rpc EXCEPT ![r] = Idle]

Begins == {"check", "resolveStart", "resolveStop", "resolveDelete", "readLabels"}

Begin(r, n) ==
    /\ On(r, "idle")
    /\ \E pc \in Begins : rpc' = [rpc EXCEPT ![r] = At(pc, n)]
    /\ UNCHANGED <<label, putBack, task, link, lock>>

Looks(r, condition, pc) ==
    /\ IF condition THEN Goto(r, pc) ELSE Answer(r)
    /\ UNCHANGED <<label, putBack, task, link, lock>>

Locks(r, pc) ==
    /\ lock = Nobody
    /\ lock' = r
    /\ Goto(r, pc)
    /\ UNCHANGED <<label, putBack, task, link>>

\* Mutant of Unlocked: a path out that keeps the lock.
UnlockedNever(r) == lock

\* The guard is dropped.
Unlocked(r) == IF lock = r THEN Nobody ELSE lock
Unlocks(r) == lock' = Unlocked(r)

-------------------------------------------------------------------------------
(* Allocation *)

\* Mutant of InUse: only the projects whose task runs count.
InUseRunning(i) == \E n \in Name : label[n] = i /\ task[n] # Nobody

\* The index is on a record.
InUse(i) == \E n \in Name : label[n] = i

\* 0..=MAX_SESSIONS.
Candidates == Index

\* allocate_index: the first index no record carries.
FirstFree(i) == ~InUse(i) /\ \A j \in Candidates : j < i => InUse(j)

\* The host's routes, read before every choice: a table of lines, a line of words and
\* prefixes.  A prefix is the upper half of its address and its length: the range is
\* a /16, and no bit below decides anything.
OursHigh == 10 * 256 + 99
OursLen == 16
RouteTypes == {"unicast", "local", "broadcast", "multicast", "throw", "unreachable",
               "prohibit", "blackhole", "nat"}
NoPrefix == [word |-> "default", high |-> 0, len |-> 0]
Prefix(high, len) == [word |-> "", high |-> high, len |-> len]

\* route_destination: a line may begin with the type of its route.
RouteDestination(line) ==
    LET at == IF line # <<>> /\ line[1].word \in RouteTypes THEN 2 ELSE 1
    IN  IF at <= Len(line) THEN line[at] ELSE NoPrefix

\* overlaps_our_range: the bits of the shorter prefix are the same; a default route is
\* no claim, nor is a word or a length no address has.
Overlaps(dest) ==
    LET shorter == IF dest.len < OursLen THEN dest.len ELSE OursLen
        kept == 2 ^ (OursLen - shorter)
    IN  /\ dest.word = "" /\ dest.len \in 1 .. 32
        /\ dest.high \div kept = OursHigh \div kept

\* check_range_is_free: a table that cannot be read is no free range.
RangeIsFree(readable, table) ==
    readable /\ \A i \in DOMAIN table : ~Overlaps(RouteDestination(table[i]))

\* allocate_index_locked: the index found; or the host routes the range, its
\* routes or the records cannot be read, or no index is free.
Chooses(r, pc) ==
    \E i \in Candidates : FirstFree(i) /\ GotoWith(r, pc, i) /\ UNCHANGED lock

\* Mutant of Carries: the record is not updated.
CarriesNothing(n, i) == UNCHANGED <<label, putBack>>

\* The record of n, or none, carries index i.
Carries(n, i) ==
    /\ label' = [label EXCEPT ![n] = i]
    /\ putBack' = putBack \ {n}

-------------------------------------------------------------------------------
(* create *)

CreateCheck(r) == On(r, "check") /\ Looks(r, label[N(r)] = NoRecord, "lockCreate")

CreateLock(r) == On(r, "lockCreate") /\ Locks(r, "chooseCreate")

CreateChoose(r) ==
    /\ On(r, "chooseCreate")
    /\ Chooses(r, "publish") \/ (Answer(r) /\ Unlocks(r))
    /\ UNCHANGED <<label, putBack, task, link>>

\* containerd refuses a second record with the id; anything else may fail too.
CreatePublish(r) ==
    /\ On(r, "publish")
    /\ \/ label[N(r)] = NoRecord /\ Carries(N(r), I(r))
       \/ UNCHANGED <<label, putBack>>
    /\ Unlocks(r)
    /\ Answer(r)
    /\ UNCHANGED <<task, link>>

-------------------------------------------------------------------------------
(* start *)

StartResolve(r) ==
    /\ On(r, "resolveStart")
    /\ Looks(r, label[N(r)] # NoRecord /\ task[N(r)] = Nobody, "createTask")

\* One task to a container; its namespace is empty.
StartCreateTask(r) ==
    LET n == N(r) IN
    /\ On(r, "createTask")
    /\ \/ /\ label[n] # NoRecord /\ task[n] = Nobody
          /\ task' = [task EXCEPT ![n] = r]
          /\ Goto(r, "find")
       \/ Answer(r) /\ UNCHANGED task
    /\ UNCHANGED <<label, putBack, link, lock>>

\* wire_session reads the record: the recorded index, or one has to be chosen.
StartFind(r) ==
    LET i == label[N(r)] IN
    /\ On(r, "find")
    /\ \/ i \in Index /\ GotoWith(r, "connect", i)
       \/ i = NoIndex /\ Goto(r, "lockStart")
       \/ Goto(r, "unstart")
    /\ UNCHANGED <<label, putBack, task, link, lock>>

StartLock(r) == On(r, "lockStart") /\ Locks(r, "reread")

\* Read again under the lock: another start may have allocated.
StartReread(r) ==
    LET i == label[N(r)] IN
    /\ On(r, "reread")
    /\ \/ i \in Index /\ GotoWith(r, "connect", i) /\ Unlocks(r)
       \/ i = NoIndex /\ Goto(r, "chooseStart") /\ UNCHANGED lock
       \/ Goto(r, "unstart") /\ Unlocks(r)
    /\ UNCHANGED <<label, putBack, task, link>>

StartChoose(r) ==
    /\ On(r, "chooseStart")
    /\ Chooses(r, "record") \/ (Goto(r, "unstart") /\ Unlocks(r))
    /\ UNCHANGED <<label, putBack, task, link>>

\* The labels go back with the index, onto whatever record has the id now.
StartRecord(r) ==
    LET n == N(r) IN
    /\ On(r, "record")
    /\ \/ label[n] # NoRecord /\ Carries(n, I(r)) /\ Goto(r, "connect")
       \/ Goto(r, "unstart") /\ UNCHANGED <<label, putBack>>
    /\ Unlocks(r)
    /\ UNCHANGED <<task, link>>

\* connect_session: whatever link has the name is deleted first; a new pair leads
\* to the task this start made, if that still runs, or is removed again.
StartConnect(r) ==
    LET n == N(r) IN
    /\ On(r, "connect")
    /\ \/ /\ task[n] = r
          /\ link' = [link EXCEPT ![I(r)] = n]
          /\ Answer(r)
       \/ /\ link' = [link EXCEPT ![I(r)] = Nobody]
          /\ Goto(r, "unstart")
    /\ UNCHANGED <<label, putBack, task, lock>>

\* The task of n is gone, and with its namespace every link that led there.
TaskEnds(n) ==
    /\ task' = [task EXCEPT ![n] = Nobody]
    /\ link' = [i \in Index |-> IF link[i] = n THEN Nobody ELSE link[i]]

\* A task that could not be wired is stopped, whoever's it is by now.
StartUnwired(r) ==
    /\ On(r, "unstart")
    /\ TaskEnds(N(r)) \/ UNCHANGED <<task, link>>
    /\ Answer(r)
    /\ UNCHANGED <<label, putBack, lock>>

-------------------------------------------------------------------------------
(* stop and delete *)

StopResolve(r) ==
    /\ On(r, "resolveStop")
    /\ Looks(r, label[N(r)] # NoRecord /\ task[N(r)] # Nobody, "stopTask")

DeleteResolve(r) ==
    /\ On(r, "resolveDelete")
    /\ Looks(r, label[N(r)] # NoRecord, "allocation")

\* delete reads the allocation before it stops the task ...
DeleteAllocation(r) ==
    /\ On(r, "allocation")
    /\ \E i \in {label[N(r)], NoRecord} :
           rpc' = [rpc EXCEPT ![r].pc = "stopTask", ![r].index = i, ![r].deleting = TRUE]
    /\ UNCHANGED <<label, putBack, task, link, lock>>

\* The task is gone, is wedged and lives on, or could not be asked.
StopTask(r) ==
    LET n == N(r) IN
    /\ On(r, "stopTask")
    /\ \/ /\ TaskEnds(n) \/ (Wedging /\ UNCHANGED <<task, link>>)
          /\ Goto(r, IF rpc[r].deleting THEN "disconnect" ELSE "afterStop")
       \/ Answer(r) /\ UNCHANGED <<task, link>>
    /\ UNCHANGED <<label, putBack, lock>>

\* ... and stop after it.
StopAllocation(r) ==
    /\ On(r, "afterStop")
    /\ \/ label[N(r)] \in Index /\ GotoWith(r, "disconnect", label[N(r)])
       \/ Answer(r)
    /\ UNCHANGED <<label, putBack, task, link, lock>>

\* disconnect_session: the link of that name is deleted.
Disconnect(r) ==
    /\ On(r, "disconnect")
    /\ link' = [i \in Index |-> IF i = I(r) THEN Nobody ELSE link[i]]
    /\ IF rpc[r].deleting THEN Goto(r, "deleteRecord") ELSE Answer(r)
    /\ UNCHANGED <<label, putBack, task, lock>>

DeleteRecord(r) ==
    /\ On(r, "deleteRecord")
    /\ Carries(N(r), NoRecord) \/ UNCHANGED <<label, putBack>>
    /\ Answer(r)
    /\ UNCHANGED <<task, link, lock>>

-------------------------------------------------------------------------------
(* port add, port rm, switch-agent: what they do to the allocation *)

EditRead(r) ==
    LET i == label[N(r)] IN
    /\ On(r, "readLabels")
    /\ \/ i # NoRecord /\ GotoWith(r, "writeLabels", i)
       \/ Answer(r)
    /\ UNCHANGED <<label, putBack, task, link, lock>>

\* update_container_labels replaces every label of the record with the id.
EditWrite(r) ==
    LET n == N(r)
        i == IF label[n] = NoRecord THEN NoRecord ELSE I(r) IN
    /\ On(r, "writeLabels")
    /\ label' = [label EXCEPT ![n] = i]
    /\ putBack' = IF i = label[n] THEN putBack ELSE putBack \cup {n}
    /\ Answer(r)
    /\ UNCHANGED <<task, link, lock>>

-------------------------------------------------------------------------------
(* Faults *)

\* The client goes away: the request ends at an await and drops what it holds.
\* The host commands of connect and disconnect run on their own thread to the end.
Cancel(r) ==
    /\ rpc[r].pc \notin {"idle", "connect", "disconnect"}
    /\ Answer(r)
    /\ Unlocks(r)
    /\ UNCHANGED <<label, putBack, task, link>>

TaskExits(n) ==
    /\ task[n] # Nobody
    /\ TaskEnds(n)
    /\ UNCHANGED <<label, putBack, lock, rpc>>

\* nemrd dies and starts again.
DaemonRestarts ==
    /\ rpc' = [r \in Slot |-> Idle]
    /\ lock' = Nobody
    /\ UNCHANGED <<label, putBack, task, link>>

-------------------------------------------------------------------------------
Acquire(r) == CreateLock(r) \/ StartLock(r)

Progress(r) ==
    \/ CreateCheck(r) \/ CreateChoose(r) \/ CreatePublish(r)
    \/ StartResolve(r) \/ StartCreateTask(r) \/ StartFind(r) \/ StartReread(r)
    \/ StartChoose(r) \/ StartRecord(r) \/ StartConnect(r) \/ StartUnwired(r)
    \/ StopResolve(r) \/ DeleteResolve(r) \/ DeleteAllocation(r) \/ StopTask(r)
    \/ StopAllocation(r) \/ Disconnect(r) \/ DeleteRecord(r)
    \/ EditRead(r) \/ EditWrite(r)

Next ==
    \/ \E r \in Slot : \/ \E n \in Name : Begin(r, n)
                       \/ Acquire(r) \/ Progress(r) \/ Cancel(r)
    \/ \E n \in Name : TaskExits(n)
    \/ DaemonRestarts

Spec == Init /\ [][Next]_vars

\* containerd and the host commands answer; tokio's mutex is first come, first
\* served, so whoever waits for it while it is free over and over gets it.
Fairness == \A r \in Slot : WF_vars(Progress(r)) /\ SF_vars(Acquire(r))
FairSpec == Spec /\ Fairness

-------------------------------------------------------------------------------
(* Properties *)

\* NET-04, project.rs:3281-3295: no two projects carry the same index, or they
\* would derive the same addresses and the same link name.
IndicesUnique ==
    \A m, n \in Name : m # n /\ label[m] \in Index => label[m] # label[n]

\* What holds of it: the allocator never gives an index to two projects; where
\* two records carry one, a label edit put it back on one of them.
AllocatedOnce ==
    \A m, n \in Name :
        m # n /\ label[m] \in Index /\ label[m] = label[n] => putBack \cap {m, n} # {}

\* A wired session is wired on the index its own record carries, which is where
\* its forwards lead.
LinkLeadsHome ==
    \A i \in Index : link[i] # Nobody => label[link[i]] = i

\* A create that waits for the lock gets it, whatever the others do with it.
WaitersAreServed ==
    \A r \in Slot : On(r, "lockCreate") ~> ~On(r, "lockCreate")

\* The strengthening of AllocatedOnce that every step keeps: choosing and
\* publishing happen under the lock, and until then only a label edit can put the
\* chosen index on a record.
LockPc == {"chooseCreate", "publish", "reread", "chooseStart", "record"}
Choosers == \A r \in Slot : rpc[r].pc \in LockPc => lock = r
Free(i) == \A n \in Name : label[n] = i => n \in putBack
ChosenIsFree ==
    \A r \in Slot : rpc[r].pc \in {"publish", "record"} => I(r) \in Index /\ Free(I(r))
AllocationInv == AllocatedOnce /\ Choosers /\ ChosenIsFree
===============================================================================
