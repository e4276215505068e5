-------------------------------- MODULE ServerHost --------------------------------
(***************************************************************************)
(* `nemr server start | stop | status | configure` (nemr-cloud, server.rs  *)
(* and configure.rs) and the server process they are about (nemr-sync,     *)
(* main.rs): one host, its process table, the record file that says which  *)
(* process the server is, and the settings file.                           *)
(*                                                                         *)
(* start replaces itself with the server, so a command and its server have *)
(* one pid; pids are used again.  A preflight is a child process: an old   *)
(* nemr-sync does not know --check and runs as a server until the command  *)
(* kills it.  That a number changes hands between a look and the signal    *)
(* right after it is left out.  Ctrl-C reaches a command and its child; a  *)
(* server can die at any time.  Births and changes of the host or the file *)
(* are bounded.                                                            *)
(***************************************************************************)
EXTENDS ServerSettings, Naturals, FiniteSets

CONSTANTS
    Pid,       \* process numbers
    None,      \* no process number
    Env,       \* what a command's environment sets
    Files,     \* settings files a user writes
    MaxBirth,  \* processes ever started
    MaxTurn    \* changes of the host and edits of the settings file

ASSUME BoundsOfHost == MaxBirth \in Nat /\ MaxTurn \in Nat
ASSUME PidAssumption == None \notin Pid
ASSUME SourcesAssumption == Env \subseteq Source /\ Files \subseteq Settings

VARIABLES
    proc,        \* pid -> the process that has it
    births,      \* processes started so far: a process's start time
    record,      \* the record file: a pid and its start time
    file,        \* the settings file
    host,        \* what a server depends on
    turns,       \* changes of the host and edits of the file so far
    overlapped   \* history: a command was started while another one ran

hostVars == <<proc, births, record, file, host, turns, overlapped>>

Pc == {"check", "hung", "sweep", "unlink", "look", "record", "exec",
       "find", "wait", "read", "ask", "probe", "install",
       "load", "bind", "serving", "draining", "running"}
Command == {"start", "stop", "status", "configure"}

\* kind: what /proc/<pid>/comm says, "nemr" or "nemr-sync".
\* target: the process a command found or spawned, as pid and start time.
\* missing: what configure is asked to add; {} for a new file.
\* draft: the file configure is about to put in place.
\* since: (history) turns when configure read the file.
\* by: who started a server.
NoProcess == [kind |-> "free", does |-> "stop", pc |-> "running", born |-> 0, env |-> <<>>,
         addr |-> Default, target |-> [pid |-> None, born |-> 0], missing |-> {},
         draft |-> NoFile, since |-> 0, by |-> "hand"]

NoRecord == [pid |-> None, born |-> 0]

HostInit ==
    /\ proc = [p \in Pid |-> NoProcess]
    /\ births = 0
    /\ record = NoRecord
    /\ file \in Files
    /\ host = [dir |-> [d \in Dir |-> "writable"], db |-> TRUE, s3 |-> TRUE]
    /\ turns = 0
    /\ overlapped = FALSE

On(p, pc) == proc[p].kind = "nemr" /\ proc[p].pc = pc
Runs(p, does, pc) == On(p, pc) /\ proc[p].does = does
Goto(p, pc) == proc' = [proc EXCEPT ![p].pc = pc]
Exits(p) == proc' = [proc EXCEPT ![p] = NoProcess]
Settled == UNCHANGED <<file, host, turns, overlapped>>

\* A process starts under a pid nobody has.
Fork(table, p, new) == [table EXCEPT ![p] = [new EXCEPT !.born = births + 1]]
Forks(p) == proc[p].kind = "free" /\ births < MaxBirth /\ births' = births + 1

-------------------------------------------------------------------------------
(* The record file *)

Listening(addr) == \E p \in Pid :
    proc[p].kind = "nemr-sync" /\ proc[p].pc = "serving" /\ proc[p].addr = addr

\* Mutant of RunningPid: the number and the name are believed.
RunningPidByName(r) == r # NoRecord /\ proc[r.pid].kind = "nemr-sync"

\* running_pid: the pid exists, is a sync server, and is the process that the
\* record was written about.
RunningPid(r) ==
    r # NoRecord /\ proc[r.pid].kind = "nemr-sync" /\ proc[r.pid].born = r.born

\* Mutant of SweepThen: any record that is there is taken for a stale one.
SweepAlways(p, pc) == IF record # NoRecord THEN Goto(p, "unlink") ELSE Goto(p, pc)

\* sweep_stale_pid_file reads, and removes the file in a later step.
SweepThen(p, pc) ==
    IF record # NoRecord /\ ~RunningPid(record) THEN Goto(p, "unlink") ELSE Goto(p, pc)

AfterSweep(p) ==
    CASE proc[p].does = "start" -> "look"
      [] proc[p].does = "stop" -> "find"
      [] OTHER -> "check"

Sweep(p) ==
    /\ On(p, "sweep") /\ SweepThen(p, AfterSweep(p))
    /\ UNCHANGED <<births, record>> /\ Settled

SweepUnlink(p) ==
    /\ On(p, "unlink") /\ proc[p].target.pid = None
    /\ record' = NoRecord /\ Goto(p, AfterSweep(p))
    /\ UNCHANGED births /\ Settled

-------------------------------------------------------------------------------
(* Commands and their preflight *)

FirstPc(does) ==
    CASE does = "start" -> "check" [] does = "configure" -> "read" [] OTHER -> "sweep"

Begin(p, does, env) ==
    /\ Forks(p) /\ (does \in {"stop", "configure"} => env = <<>>)
    /\ proc' = Fork(proc, p, [NoProcess EXCEPT !.kind = "nemr", !.does = does, !.env = env,
                                          !.pc = FirstPc(does)])
    /\ overlapped' = (overlapped \/ \E q \in Pid : proc[q].kind = "nemr")
    /\ UNCHANGED <<record, file, host, turns>>

\* start: the report of the server's own check, or a refusal that names what is
\* missing.  status says what it finds and ends.
CheckAnswers(p) ==
    /\ On(p, "check")
    /\ LET report == Check(proc[p].env, file, host)
       IN  IF proc[p].does = "start" /\ Passes(report)
           THEN proc' = [proc EXCEPT ![p].pc = "sweep", ![p].addr = report.addr]
           ELSE Exits(p)
    /\ UNCHANGED <<births, record>> /\ Settled

Preflights(p) == On(p, "check") \/ On(p, "probe") \/ (On(p, "read") /\ file.state # "absent")

\* An old nemr-sync ignores --check: the child is a server, with the candidate
\* file when there is one.
CheckHangs(p, q) ==
    /\ Preflights(p) /\ p # q /\ Forks(q)
    /\ proc' = [Fork(proc, q, [NoProcess EXCEPT !.kind = "nemr-sync", !.pc = "load", !.by = "check",
                                           !.env = proc[p].env, !.draft = proc[p].draft])
                   EXCEPT ![p].pc = "hung", ![p].target = [pid |-> q, born |-> births + 1]]
    /\ UNCHANGED record /\ Settled

\* What a process makes of SIGTERM or SIGINT: a server that serves finishes its
\* requests; before that, and for everything else, it is the end.
Signalled(table, q) ==
    [table EXCEPT ![q] = IF @.kind = "nemr-sync" /\ @.pc \in {"serving", "draining"}
                         THEN [@ EXCEPT !.pc = "draining"] ELSE NoProcess]

ChildRuns(p) == proc[proc[p].target.pid].born = proc[p].target.born

\* Mutant of Deadline: the command gives up and leaves its child.
DeadlineGivesUp(p) == On(p, "hung") /\ Exits(p)

\* The deadline: SIGTERM and, 200 ms later, SIGKILL to the child.
Deadline(p) ==
    /\ On(p, "hung") /\ ChildRuns(p)
    /\ proc' = [proc EXCEPT ![proc[p].target.pid] = NoProcess, ![p] = NoProcess]

CheckTimesOut(p) == Deadline(p) /\ UNCHANGED <<births, record>> /\ Settled

\* The child ended by itself, without a report.
CheckRefused(p) ==
    /\ On(p, "hung") /\ ~ChildRuns(p)
    /\ Exits(p) /\ UNCHANGED <<births, record>> /\ Settled

-------------------------------------------------------------------------------
(* start *)

\* A server that runs already, or an address that is taken, ends the command.
StartLook(p) ==
    /\ Runs(p, "start", "look")
    /\ IF RunningPid(record) \/ Listening(proc[p].addr) THEN Exits(p) ELSE Goto(p, "record")
    /\ UNCHANGED <<births, record>> /\ Settled

StartRecord(p) ==
    /\ On(p, "record")
    /\ record' = [pid |-> p, born |-> proc[p].born]
    /\ Goto(p, "exec")
    /\ UNCHANGED births /\ Settled

\* The command becomes the server; when that fails it removes the record.
StartExec(p) ==
    /\ On(p, "exec")
    /\ \/ /\ proc' = [proc EXCEPT ![p] = [NoProcess EXCEPT !.kind = "nemr-sync", !.pc = "load",
                                             !.born = proc[p].born, !.env = proc[p].env,
                                             !.by = "start"]]
          /\ UNCHANGED record
       \/ Exits(p) /\ record' = NoRecord
    /\ UNCHANGED births /\ Settled

-------------------------------------------------------------------------------
(* stop *)

\* SIGTERM to the process that the record names, or nothing to stop.
StopSignal(p) ==
    /\ Runs(p, "stop", "find")
    /\ IF RunningPid(record)
       THEN proc' = [Signalled(proc, record.pid)
                        EXCEPT ![p].pc = "wait", ![p].target = [pid |-> record.pid, born |-> record.born]]
       ELSE Exits(p)
    /\ UNCHANGED <<births, record>> /\ Settled

\* A hundred looks at the record, or ten seconds.
StopWait(p) ==
    /\ On(p, "wait")
    /\ IF RunningPid(record) THEN Exits(p) ELSE Goto(p, "unlink")
    /\ UNCHANGED <<births, record>> /\ Settled

StopUnlink(p) ==
    /\ Runs(p, "stop", "unlink") /\ proc[p].target.pid # None
    /\ record' = NoRecord /\ Exits(p)
    /\ UNCHANGED births /\ Settled

-------------------------------------------------------------------------------
(* configure *)

\* What a preflight of the file alone finds missing; a file that has everything
\* ends the command, and so does one that cannot be read as settings.
ConfigureRead(p) ==
    /\ On(p, "read")
    /\ LET missing == Missing(Check(<<>>, file, host))
       IN  IF file.state = "absent"
           THEN proc' = [proc EXCEPT ![p].pc = "ask", ![p].since = turns]
           ELSE IF missing = {} THEN Exits(p)
           ELSE proc' = [proc EXCEPT ![p].pc = "ask", ![p].since = turns, ![p].missing = missing]
    /\ UNCHANGED <<births, record>> /\ Settled

\* The text a temporary file gets: a new one, or the file as it is now with what
\* was missing when it was read.
Draft(missing, addr, storage) ==
    IF missing = {} THEN File(Composed(addr, storage))
    ELSE Appended(file, Addition(missing, storage))

\* The questions are answered; a folder that is not there is made.
ConfigureAsk(p, addr, storage) ==
    /\ On(p, "ask")
    /\ LET missing == proc[p].missing
           asked == missing = {} \/ "storage" \in missing
       IN  /\ IF missing # {} /\ file.state = "absent" THEN Exits(p)
              ELSE proc' = [proc EXCEPT ![p].pc = "probe", ![p].missing = {},
                                        ![p].draft = Draft(missing, addr, storage)]
           /\ host' = IF asked /\ Has(storage, "dir") /\ host.dir[storage["dir"]] = "gone"
                      THEN [host EXCEPT !.dir[storage["dir"]] = "writable"] ELSE host
    /\ UNCHANGED <<births, record, file, turns, overlapped>>

\* The temporary file is checked before it is moved.
ConfigureProbe(p) ==
    /\ On(p, "probe")
    /\ IF ReportOk(Check(<<>>, proc[p].draft, host)) THEN Goto(p, "install") ELSE Exits(p)
    /\ UNCHANGED <<births, record>> /\ Settled

ConfigureInstall(p) ==
    /\ On(p, "install") /\ file' = proc[p].draft /\ Exits(p)
    /\ UNCHANGED <<births, record, host, turns, overlapped>>

-------------------------------------------------------------------------------
(* The server *)

\* A user, or a service manager, runs nemr-sync itself.
ByHand(p, env) ==
    /\ Forks(p)
    /\ proc' = Fork(proc, p, [NoProcess EXCEPT !.kind = "nemr-sync", !.pc = "load", !.env = env])
    /\ UNCHANGED record /\ Settled

\* Settings, pepper, storage, database: read again, whatever start was told.
ServerLoads(p) ==
    /\ proc[p].kind = "nemr-sync" /\ proc[p].pc = "load"
    /\ LET source == IF proc[p].draft.state = "absent" THEN file ELSE proc[p].draft
       IN  IF Starts(proc[p].env, source, host)
           THEN proc' = [proc EXCEPT ![p].pc = "bind", ![p].draft = NoFile, ![p].env = <<>>,
                                     ![p].addr = AddrOf(Load(proc[p].env, source))]
           ELSE Exits(p)
    /\ UNCHANGED <<births, record>> /\ Settled

ServerBinds(p) ==
    /\ proc[p].kind = "nemr-sync" /\ proc[p].pc = "bind"
    /\ IF Listening(proc[p].addr) THEN Exits(p) ELSE Goto(p, "serving")
    /\ UNCHANGED <<births, record>> /\ Settled

\* The last request of a server that was told to stop is answered.
ServerEnds(p) ==
    /\ proc[p].kind = "nemr-sync" /\ proc[p].pc = "draining" /\ Exits(p)
    /\ UNCHANGED <<births, record>> /\ Settled

-------------------------------------------------------------------------------
(* The rest of the host *)

\* A server dies.
Dies(p) ==
    /\ proc[p].kind = "nemr-sync" /\ Exits(p)
    /\ UNCHANGED <<births, record>> /\ Settled

\* Ctrl-C, at a command and at the child it waits for.
CtrlC(p) ==
    /\ proc[p].kind = "nemr"
    /\ proc' = [IF proc[p].pc = "hung" /\ ChildRuns(p) THEN Signalled(proc, proc[p].target.pid) ELSE proc
                   EXCEPT ![p] = NoProcess]
    /\ UNCHANGED <<births, record>> /\ Settled

Turn ==
    /\ turns < MaxTurn /\ turns' = turns + 1
    /\ \/ \E d \in Dir, s \in {"gone", "readonly", "writable"} :
             host' = [host EXCEPT !.dir[d] = s] /\ UNCHANGED file
       \/ host' = [host EXCEPT !.db = ~@] /\ UNCHANGED file
       \/ host' = [host EXCEPT !.s3 = ~@] /\ UNCHANGED file
       \/ file' \in Files /\ UNCHANGED host
    /\ UNCHANGED <<proc, births, record, overlapped>>

-------------------------------------------------------------------------------

HostNext ==
    \/ \E p \in Pid, does \in Command, env \in Env : Begin(p, does, env)
    \/ \E p \in Pid : Sweep(p) \/ SweepUnlink(p)
    \/ \E p \in Pid : CheckAnswers(p) \/ CheckTimesOut(p) \/ CheckRefused(p)
    \/ \E p, q \in Pid : CheckHangs(p, q)
    \/ \E p \in Pid : StartLook(p) \/ StartRecord(p) \/ StartExec(p)
    \/ \E p \in Pid : StopSignal(p) \/ StopWait(p) \/ StopUnlink(p)
    \/ \E p \in Pid : ConfigureRead(p) \/ ConfigureProbe(p) \/ ConfigureInstall(p)
    \/ \E p \in Pid, addr \in Addr, storage \in StorageAnswers : ConfigureAsk(p, addr, storage)
    \/ \E p \in Pid : ServerLoads(p) \/ ServerBinds(p) \/ ServerEnds(p)
    \/ \E p \in Pid, env \in Env : ByHand(p, env)
    \/ \E p \in Pid : Dies(p) \/ CtrlC(p)
    \/ Turn

HostSpec == HostInit /\ [][HostNext]_hostVars

-------------------------------------------------------------------------------
(* Properties *)

Ref == [pid : Pid \cup {None}, born : 0..MaxBirth]
Process ==
    [kind : {"free", "nemr", "nemr-sync"}, does : Command, pc : Pc, born : 0..MaxBirth,
     env : Source, addr : Addr, target : Ref, missing : SUBSET {"storage", "db", "pepper"},
     draft : Settings, since : 0..MaxTurn, by : {"hand", "start", "check"}]

\* The type of every variable; two processes never have one start time, which is
\* what makes a pid and a start time a name.
HostTypeOK ==
    /\ proc \in [Pid -> Process]
    /\ \A p, q \in Pid : proc[p].born = proc[q].born => p = q \/ proc[p].kind = "free"
    /\ \A p \in Pid : proc[p].born <= births
    /\ births \in 0..MaxBirth /\ record \in Ref
    /\ file \in Settings /\ host \in Host
    /\ turns \in 0..MaxTurn /\ overlapped \in BOOLEAN

\* server.rs: stop and status work from the record, so a server that start made
\* is the one it names, for as long as the server runs, whatever became of the
\* commands since.  While no two commands run at once: a sweep or a start that
\* overlaps another start loses the record of a server that runs.
RecordFindsServer ==
    overlapped \/ \A p \in Pid :
        proc[p].kind = "nemr-sync" /\ proc[p].by = "start" /\ proc[p].pc # "load"
           => record = [pid |-> p, born |-> proc[p].born]

\* server.rs: a stop that trusts a stale number sends a signal to a stranger.
\* What a stop changes, other than itself, is a server that start made: not a
\* server run by hand, a check or a command that has the number by now.
StopAimsAtServer ==
    [][\A p, q \in Pid :
          Runs(p, "stop", "find") /\ proc'[p] # proc[p] /\ p # q /\ proc'[q] # proc[q] =>
             proc[q].kind = "nemr-sync" /\ proc[q].by = "start"]_hostVars

\* server.rs: a read-only command must not be able to start a server.  What an
\* old binary makes of a check runs only while the command waits for it.
ChecksLeaveNothing ==
    \A q \in Pid : proc[q].kind = "nemr-sync" /\ proc[q].by = "check" =>
        \/ proc[q].pc = "draining"
        \/ \E p \in Pid : On(p, "hung") /\ proc[p].target = [pid |-> q, born |-> proc[q].born]

\* configure.rs: a file that configure puts in place, and that nobody else wrote
\* meanwhile, lacks nothing, and every key it had keeps its value; only a
\* backend that the server would not have selected gives way to another.
InstallOnlyCompletes ==
    [][\A p \in Pid :
          On(p, "install") /\ ~On(p, "install")' /\ file' # file
          /\ ~overlapped /\ proc[p].since = turns =>
             /\ \A k \in {"db", "pepper"} : Has(file'.keys, k)
             /\ Has(file'.keys, "dir") # Has(file'.keys, "s3")
             /\ \A k \in DOMAIN file.keys :
                   \/ file'.keys[k] = file.keys[k]
                   \/ ~Has(file.keys, k)
                   \/ k \in {"dir", "s3"} /\ ~Selects(file.keys, host)]_hostVars

===================================================================================
