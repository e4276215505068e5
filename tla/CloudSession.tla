----------------------------- MODULE CloudSession ------------------------------
(***************************************************************************)
(* nemr-cloud's push, pull, release and delete (crates/nemr-cloud/src/     *)
(* core.rs) for one session name: the commands users run on several        *)
(* machines at once, the lease record each machine keeps on disk and the   *)
(* heartbeat processes it leaves behind (commands.rs, hold), against the   *)
(* server FencedSessions describes and SyncServer is shown to implement.   *)
(*                                                                         *)
(* A command is a list of steps; a step is one request to the server, one  *)
(* call of the engine or one access to the machine's state.  At every step *)
(* it may end: the request or the call fails, or the user interrupts it.   *)
(***************************************************************************)
EXTENDS Integers, Sequences, FiniteSets

CONSTANTS
    Machine,     \* the machines of the account
    Origin,      \* the machine the project is created on
    Clients,     \* how many commands can run at the same time, wherever
    Pids,        \* how many heartbeat processes can
    MaxId,       \* bounds the times the session is created on the server
    MaxFence,    \* bounds the grants of each
    MaxVersion,  \* bounds the states of the project worth telling apart
    MaxCommands  \* bounds the commands run

ASSUME CloudConstants ==
    /\ Origin \in Machine
    /\ Clients \in Nat /\ Pids \in Nat \ {0}
    /\ MaxId \in Nat \ {0} /\ MaxFence \in Nat \ {0} /\ MaxVersion \in Nat \ {0}
    /\ MaxCommands \in Nat

Id == 1 .. MaxId
Version == 1 .. MaxVersion
Client == 1 .. Clients
Pid == 1 .. Pids
Nothing == 0   \* no version, no fence
NoPid == 0

VARIABLES
    status, epoch, owner, held, value,  \* the server: see FencedSessions
    copy,    \* machine -> the version of its local project, or Nothing
    made,    \* the newest version there is
    record,  \* machine -> leases/<session>.json
    proc,    \* pid -> the heartbeat process, if it runs
    cmd,     \* client -> the command it runs
    begun,   \* how many commands have been run
    by,      \* history: the machine of the newest publish
    grants   \* history: the leases given, <<id, machine, fence>>

past == <<by, grants>>
server == <<status, epoch, owner, held, value>>
cloudVars == <<status, epoch, owner, held, value, copy, made, record, proc, cmd, begun, past>>

Server == INSTANCE FencedSessions
            WITH Body <- Version, NoBody <- Nothing

Fence == 0 .. MaxFence

Ops == {"push", "pull", "release", "delete"}
\* fence: the fence of the lease the command works under.  body: what it carries.
\* saw: history, the version on the server when it exported.
Command == [op : Ops \cup {"idle", "letGo"}, step : 1 .. 7, m : Machine, fence : Fence, body : Version \cup {Nothing},
            saw : Version \cup {Nothing}, pid : Pid \cup {NoPid}]
Lease == [status : {"none", "held", "lost"}, fence : Fence, pid : Pid \cup {NoPid}]
Process == [pc : {"gone", "asleep", "held", "lost"}, m : Machine, fence : Fence]

CloudTypeOK ==
    /\ status \in [Id -> {"new", "open", "closed"}]
    /\ epoch \in [Id -> Fence]
    /\ owner \in [Id -> Machine]
    /\ held \in [Id -> BOOLEAN]
    /\ value \in [Id -> Version \cup {Nothing}]
    /\ copy \in [Machine -> Version \cup {Nothing}]
    /\ made \in Version
    /\ record \in [Machine -> Lease]
    /\ proc \in [Pid -> Process]
    /\ cmd \in [Client -> Command]
    /\ begun \in 0 .. MaxCommands
    /\ by \in Machine
    /\ grants \subseteq Id \X Machine \X Fence

NoLease == [status |-> "none", fence |-> Nothing, pid |-> NoPid]
Gone == [pc |-> "gone", m |-> Origin, fence |-> Nothing]
NoCommand == [op |-> "idle", step |-> 1, m |-> Origin, fence |-> Nothing,
              body |-> Nothing, saw |-> Nothing, pid |-> NoPid]

\* The session as the first push leaves it: on the server, and held by Origin.
CloudInit ==
    /\ status = [i \in Id |-> IF i = 1 THEN "open" ELSE "new"]
    /\ epoch = [i \in Id |-> IF i = 1 THEN 1 ELSE Nothing]
    /\ owner = [i \in Id |-> Origin]
    /\ held = [i \in Id |-> i = 1]
    /\ value = [i \in Id |-> IF i = 1 THEN 1 ELSE Nothing]
    /\ copy = [m \in Machine |-> IF m = Origin THEN 1 ELSE Nothing]
    /\ made = 1
    /\ proc = [p \in Pid |-> IF p = 1 THEN [pc |-> "asleep", m |-> Origin, fence |-> 1]
                             ELSE Gone]
    /\ record = [m \in Machine |->
                   IF m = Origin THEN [status |-> "held", fence |-> 1, pid |-> 1]
                   ELSE NoLease]
    /\ cmd = [c \in Client |-> NoCommand]
    /\ begun = 0
    /\ by = Origin
    /\ grants = {<<1, Origin, 1>>}

-------------------------------------------------------------------------------
(* The list of sessions a user chooses a command from: what the server has of the   *)
(* account and what this machine has, by name.  Names are numbers here, for their   *)
(* order, and each is in either list at most once.                                  *)

Unknown == -1

\* What a list has of a name: one entry, or none.
Entries(list, name) == SelectSeq(list, LAMBDA e : e.name = name)

\* Where: from this machine's point of view.
Location(local, remote) ==
    IF local = <<>> THEN "remote" ELSE IF remote = <<>> THEN "local" ELSE "both"

\* F-17: what the session uses on this machine if that was measured, then what is
\* stored of it, then what it had when it was pushed.
SizeShown(local, remote) ==
    IF local # <<>> /\ local[1].known THEN local[1].used
    ELSE IF remote = <<>> THEN Unknown
    ELSE IF remote[1].stored # Unknown THEN remote[1].stored
    ELSE IF remote[1].size > 0 THEN remote[1].size ELSE Unknown

Row(name, local, remote) ==
    [name |-> name, location |-> Location(local, remote),
     running |-> local # <<>> /\ local[1].running,
     size |-> SizeShown(local, remote),
     holder |-> IF remote = <<>> THEN Unknown ELSE remote[1].holder]

\* merge_rows: one row for every name, in their order; an engine that could not be
\* asked lists nothing.
Ordered(names) ==
    CHOOSE s \in [1 .. Cardinality(names) -> names] : \A i, j \in DOMAIN s : i < j => s[i] < s[j]
Rows(remote, local) ==
    LET NamesOf(list) == {list[i].name : i \in DOMAIN list}
        names == Ordered(NamesOf(remote) \cup NamesOf(local))
    IN  [i \in DOMAIN names |-> Row(names[i], Entries(local, names[i]), Entries(remote, names[i]))]

-------------------------------------------------------------------------------
(* The server's answers *)

NoId == 0
\* The row the name resolves to.
Current == IF \E i \in Id : status[i] = "open"
           THEN CHOOSE i \in Id : status[i] = "open" ELSE NoId

Matches(m, f) == Current # NoId /\ owner[Current] = m /\ epoch[Current] = f /\ f # Nothing
Holds(m, f) == Matches(m, f) /\ held[Current]

-------------------------------------------------------------------------------
(* The commands *)

\* Mutants: push exports, or pull downloads, before it has the lease.
PushExportsFirst == <<"upsert", "export", "check", "acquire", "upload", "hold", "save">>
PullDownloadsFirst == <<"find", "download", "check", "acquire", "import", "hold", "save">>

PushSteps == <<"upsert", "check", "acquire", "export", "upload", "hold", "save">>
PullSteps == <<"find", "check", "acquire", "download", "import", "hold", "save">>
ReleaseSteps == <<"load", "stop", "release", "forget">>
DeleteSteps == <<"acquire", "close", "forget">>

\* letGo is how a push --release ends.
Program(op) ==
    CASE op = "push" -> PushSteps
      [] op = "letGo" -> Tail(ReleaseSteps)
      [] op = "pull" -> PullSteps
      [] op = "release" -> ReleaseSteps
      [] op = "delete" -> DeleteSteps
      [] op = "idle" -> <<"idle">>

About(c, step) == Program(cmd[c].op)[cmd[c].step] = step
M(c) == cmd[c].m
F(c) == cmd[c].fence
Record(c) == record[M(c)]

Then(c, next) ==
    cmd' = [cmd EXCEPT ![c] =
              IF next.step > Len(Program(next.op)) THEN NoCommand ELSE next]
Advanced(c) == [cmd[c] EXCEPT !.step = @ + 1]
Done(c) == Then(c, Advanced(c))
Ends(c) == cmd' = [cmd EXCEPT ![c] = NoCommand]

\* A delete takes the lease over first, or leaves it.  Clients are told apart by
\* what they run only: the first idle one begins.
Begin(c, m, op) ==
    /\ cmd[c].op = "idle" /\ \A d \in Client : d < c => cmd[d].op # "idle"
    /\ begun < MaxCommands
    /\ \E step \in IF op = "delete" THEN {1, 2} ELSE {1} :
           cmd' = [cmd EXCEPT ![c] = [NoCommand EXCEPT !.op = op, !.step = step, !.m = m]]
    /\ begun' = begun + 1
    /\ UNCHANGED <<server, copy, made, record, proc, past>>

\* Any step may fail, whatever the server made of the request, and ends it.
Fails(c) ==
    /\ cmd[c].op # "idle"
    /\ Ends(c)
    /\ UNCHANGED <<server, copy, made, record, proc, begun, past>>

\* push: the project exists here, and gets a row on the server if it has none.
Upsert(c) ==
    /\ About(c, "upsert")
    /\ copy[M(c)] # Nothing
    /\ IF Current # NoId
       THEN UNCHANGED server
       ELSE \E i \in Id : /\ \A j \in Id : j < i => status[j] = "closed"
                          /\ Server!Open(i)
    /\ Done(c)
    /\ UNCHANGED <<copy, made, record, proc, begun, past>>

\* pull: the session has a bundle.
Find(c) ==
    /\ About(c, "find")
    /\ Current # NoId /\ value[Current] # Nothing
    /\ Done(c)
    /\ UNCHANGED <<server, copy, made, record, proc, begun, past>>

\* holder_process_is_ours: the recorded process runs, with the recorded fence.
Ours(m) ==
    LET p == record[m].pid IN
    p # NoPid /\ proc[p].pc # "gone" /\ proc[p].m = m /\ proc[p].fence = record[m].fence

\* stop_holder.
Stopped(m) == IF Ours(m) THEN [proc EXCEPT ![record[m].pid] = Gone] ELSE proc

\* ensure_lease: a recorded hold that looks healthy is used again ...
Reuse(c) ==
    /\ About(c, "check")
    /\ Record(c).status = "held" /\ Ours(M(c))
    /\ Then(c, [cmd[c] EXCEPT !.step = @ + 2, !.fence = Record(c).fence])
    /\ UNCHANGED <<server, copy, made, record, proc, begun, past>>

\* ... and the holder of one that does not (its expiry may be near) is retired.
Retire(c) ==
    /\ About(c, "check")
    /\ proc' = Stopped(M(c))
    /\ Done(c)
    /\ UNCHANGED <<server, copy, made, record, begun, past>>

\* acquire, or acquire refused and then takeover: a new fence either way.
Acquire(c) ==
    /\ About(c, "acquire")
    /\ Current # NoId /\ epoch[Current] < MaxFence
    /\ Server!Hold(Current, M(c))
    /\ grants' = grants \cup {<<Current, M(c), epoch'[Current]>>}
    /\ Then(c, [Advanced(c) EXCEPT !.fence = epoch'[Current]])
    /\ UNCHANGED <<copy, made, record, proc, begun, by>>

Export(c) ==
    /\ About(c, "export")
    /\ copy[M(c)] # Nothing
    /\ Then(c, [Advanced(c) EXCEPT !.body = copy[M(c)],
                                !.saw = IF Current = NoId THEN Nothing ELSE value[Current]])
    /\ UNCHANGED <<server, copy, made, record, proc, begun, past>>

Upload(c) ==
    /\ About(c, "upload")
    /\ Holds(M(c), F(c))
    /\ Server!Record(Current, cmd[c].body)
    /\ by' = M(c) /\ UNCHANGED grants
    /\ \E op \in {"push", "letGo"} :
           Then(c, [cmd[c] EXCEPT !.op = op, !.step = IF op = "push" THEN @ + 1 ELSE 1,
                                  !.body = Nothing, !.saw = Nothing])
    /\ UNCHANGED <<copy, made, record, proc, begun>>

\* 409: the record says so and the push ends.
UploadRefused(c) ==
    /\ About(c, "upload")
    /\ Current # NoId /\ ~Holds(M(c), F(c))
    /\ record' = [record EXCEPT ![M(c)] =
                    [status |-> "lost", fence |-> F(c), pid |-> NoPid]]
    /\ Ends(c)
    /\ UNCHANGED <<server, copy, made, proc, begun, past>>

Download(c) ==
    /\ About(c, "download")
    /\ Current # NoId /\ value[Current] # Nothing
    /\ Then(c, [Advanced(c) EXCEPT !.body = value[Current]])
    /\ UNCHANGED <<server, copy, made, record, proc, begun, past>>

\* The engine refuses a name that exists.
Import(c) ==
    /\ About(c, "import")
    /\ copy[M(c)] = Nothing
    /\ copy' = [copy EXCEPT ![M(c)] = cmd[c].body]
    /\ Then(c, [Advanced(c) EXCEPT !.body = Nothing])
    /\ UNCHANGED <<server, made, record, proc, begun, past>>

\* ensure_holder: the holder on this fence is kept, any other retired and a new
\* one spawned ...
Hold(c) ==
    LET m == M(c) IN
    /\ About(c, "hold")
    /\ IF Record(c).fence = F(c) /\ Ours(m)
       THEN /\ Then(c, [Advanced(c) EXCEPT !.pid = Record(c).pid])
            /\ UNCHANGED proc
       ELSE \E p \in Pid :
              /\ Stopped(m)[p].pc = "gone" /\ \A q \in Pid : q < p => Stopped(m)[q].pc # "gone"
              /\ proc' = [Stopped(m) EXCEPT ![p] =
                            [pc |-> "asleep", m |-> m, fence |-> F(c)]]
              /\ Then(c, [Advanced(c) EXCEPT !.pid = p])
    /\ UNCHANGED <<server, copy, made, record, begun, past>>

\* ... and recorded.
Save(c) ==
    /\ About(c, "save")
    /\ record' = [record EXCEPT ![M(c)] =
                    [status |-> "held", fence |-> F(c), pid |-> cmd[c].pid]]
    /\ Done(c)
    /\ UNCHANGED <<server, copy, made, proc, begun, past>>

\* release: there is a lease to release.
Load(c) ==
    /\ About(c, "load")
    /\ Record(c) # NoLease
    /\ Then(c, [Advanced(c) EXCEPT !.fence = Record(c).fence])
    /\ UNCHANGED <<server, copy, made, record, proc, begun, past>>

Stop(c) ==
    /\ About(c, "stop")
    /\ proc' = Stopped(M(c))
    /\ Done(c)
    /\ UNCHANGED <<server, copy, made, record, begun, past>>

Release(c) ==
    /\ About(c, "release")
    /\ Matches(M(c), F(c))
    /\ Server!Lapse({Current})
    /\ Done(c)
    /\ UNCHANGED <<copy, made, record, proc, begun, past>>

\* 409: the lease was taken over (nemr-cloud release); push --release fails.
AlreadyLost(c) ==
    /\ About(c, "release") /\ cmd[c].op = "release"
    /\ Current # NoId /\ ~Matches(M(c), F(c))
    /\ Done(c)
    /\ UNCHANGED <<server, copy, made, record, proc, begun, past>>

Forget(c) ==
    /\ About(c, "forget")
    /\ record' = [record EXCEPT ![M(c)] = NoLease]
    /\ Done(c)
    /\ UNCHANGED <<server, copy, made, proc, begun, past>>

Close(c) ==
    /\ About(c, "close")
    /\ Current # NoId
    /\ Server!Close(Current, M(c))
    /\ Done(c)
    /\ UNCHANGED <<copy, made, record, proc, begun, past>>

-------------------------------------------------------------------------------
(* The heartbeat process (hold) *)

\* Mutant of Renewed: any lease of this machine will do.
RenewedAnyFence(p) ==
    Current # NoId /\ owner[Current] = proc[p].m /\ held[Current]

\* The heartbeat is answered 200.
Renewed(p) == Holds(proc[p].m, proc[p].fence)

\* It is, or it is refused; or nothing has been heard for a term, whatever the
\* server made of the requests.
Beat(p) ==
    /\ proc[p].pc = "asleep"
    /\ \E verdict \in {"held", "lost"} :
          /\ verdict = "held" => Renewed(p)
          /\ proc' = [proc EXCEPT ![p].pc = verdict]
    /\ UNCHANGED <<server, copy, made, record, cmd, begun, past>>

HeldByNobody(p) == [status |-> "held", fence |-> proc[p].fence, pid |-> NoPid]

HeldBy(p) == [status |-> "held", fence |-> proc[p].fence, pid |-> p]

SaveHeld(p) ==
    /\ proc[p].pc = "held"
    /\ record' = [record EXCEPT ![proc[p].m] = HeldBy(p)]
    /\ proc' = [proc EXCEPT ![p].pc = "asleep"]
    /\ UNCHANGED <<server, copy, made, cmd, begun, past>>

SaveLost(p) ==
    /\ proc[p].pc = "lost"
    /\ record' = [record EXCEPT ![proc[p].m] =
                    [status |-> "lost", fence |-> proc[p].fence, pid |-> NoPid]]
    /\ proc' = [proc EXCEPT ![p] = Gone]
    /\ UNCHANGED <<server, copy, made, cmd, begun, past>>

-------------------------------------------------------------------------------
(* The rest of the world *)

\* The user creates the project, or works in a session of it.
Work(m) ==
    /\ made < MaxVersion
    /\ made' = made + 1
    /\ copy' = [copy EXCEPT ![m] = made']
    /\ UNCHANGED <<server, record, proc, cmd, begun, past>>

\* A term passes without a renewal.
Expire ==
    /\ Current # NoId /\ held[Current]
    /\ Server!Lapse({Current})
    /\ UNCHANGED <<copy, made, record, proc, cmd, begun, past>>

Killed(p) ==
    /\ proc[p].pc # "gone"
    /\ proc' = [proc EXCEPT ![p] = Gone]
    /\ UNCHANGED <<server, copy, made, record, cmd, begun, past>>

-------------------------------------------------------------------------------
Steps(c) ==
    \/ Upsert(c) \/ Find(c) \/ Reuse(c) \/ Retire(c) \/ Acquire(c) \/ Export(c)
    \/ Upload(c) \/ UploadRefused(c) \/ Download(c) \/ Import(c) \/ Hold(c) \/ Save(c)
    \/ Load(c) \/ Stop(c) \/ Release(c) \/ AlreadyLost(c) \/ Forget(c) \/ Close(c)

Heartbeat(p) == Beat(p) \/ SaveHeld(p) \/ SaveLost(p)

CloudNext ==
    \/ \E c \in Client :
          \/ \E m \in Machine, op \in Ops : Begin(c, m, op)
          \/ Steps(c) \/ Fails(c)
    \/ \E p \in Pid : Heartbeat(p) \/ Killed(p)
    \/ \E m \in Machine : Work(m)
    \/ Expire

CloudSpec == CloudInit /\ [][CloudNext]_cloudVars

\* A heartbeat process is a loop around a sleep and a request with a deadline.
FairSpec == CloudSpec /\ \A p \in Pid : WF_cloudVars(Heartbeat(p))

-------------------------------------------------------------------------------
(* Properties *)

\* Fences begin again when a session is deleted and pushed anew: the machine has held
\* two sessions of this name under the one fence.
Reissued(m, f) ==
    \E i, j \in Id : i # j /\ <<i, m, f>> \in grants /\ <<j, m, f>> \in grants

\* What a push replaces is what was on the server when it exported, or what its
\* own machine has published since: never the work of another machine, unless its
\* fence was given again.
PublishedUnderLease ==
    [][\A c \in Client :
         Upload(c) => value[Current] = cmd[c].saw \/ by = M(c) \/ Reissued(M(c), F(c))]_cloudVars

\* What a pull imports while it still holds the lease is what is on the server, with
\* the same exception.
PulledIsCurrent ==
    [][\A c \in Client :
         Import(c) /\ Holds(M(c), F(c)) =>
           cmd[c].body = value[Current] \/ by = M(c) \/ Reissued(M(c), F(c))]_cloudVars

\* The same without the exception: "every stale credential stays stale forever"
\* (nemr-sync's lease.rs:205-209, of a release, which keeps the row for that).
StaleStaysStale ==
    [][\A c \in Client :
         Upload(c) => value[Current] = cmd[c].saw \/ by = M(c)]_cloudVars

\* A heartbeat process goes, or it keeps the lease and the machine's record comes
\* to name it, whatever has been written over it.
HoldersSettle ==
    \A p \in Pid :
        proc[p].pc # "gone"
        ~> proc[p].pc = "gone" \/ (Renewed(p) /\ record[proc[p].m].pid = p)

\* "The lease was already gone. Taken over by another machine, or expired."
\* (commands.rs:356-361)
AlreadyLostIsTrue ==
    [][\A c \in Client :
         AlreadyLost(c) => ~(owner[Current] = M(c) /\ held[Current])]_cloudVars
===============================================================================
