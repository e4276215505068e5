------------------------------- MODULE Attach -------------------------------
(***************************************************************************)
(* One attach to a running project: attach_exec_start of engine/project.rs,*)
(* run_session and its output pump (daemon/attach.rs), the FIFOs of        *)
(* engine/tty.rs, the exec calls of containerd's client and the stream's   *)
(* other end: attach_client of bin/nemr.rs, or the page of nemr-cloud's    *)
(* serve.rs, which first buys a cookie with the launch token and a ticket  *)
(* with the cookie, and whose socket the bridge ties to the stream.        *)
(*                                                                         *)
(* Abstraction.  Input and output are chunks that are counted; what is in  *)
(* them does not matter.  stderr goes the way of stdout and is left out,   *)
(* and so are resizes.  The shim copies between the exec and the FIFOs,    *)
(* and answers a delete only when it has copied everything.                *)
(* Faults: the client stops reading, or goes; the program stops reading;   *)
(* the project is stopped; containerd does not answer; nemrd dies.         *)
(***************************************************************************)
EXTENDS Naturals

CONSTANTS
    MaxIn,        \* chunks the user types, in this instance
    MaxOut,       \* chunks the program writes
    FifoSize,     \* chunks a FIFO holds
    ChannelSize,  \* messages the response channel holds (64)
    MaxPid        \* how often nemrd is started

ASSUME AttachConstants ==
    {MaxIn, MaxOut} \subseteq Nat /\ {FifoSize, ChannelSize, MaxPid} \subseteq Nat \ {0}

VARIABLES
    pid,       \* the running nemrd
    dir,       \* the nemrd whose FIFO directory is on disk, 0: none
    gate,      \* the page's: [cookie, ticket, opened]: sockets the ticket opened
    call,      \* the bridge and the handler, up to the spawn of run_session
    task,      \* run_session
    wait,      \* its wait_exec: none asked, asked, answered
    timer,     \* the fallback is armed
    exec,      \* the exec as containerd knows it
    tty,       \* it has a terminal
    attentive, \* the program reads its input until the end of it
    input,     \* [fifo, held, open, eot]: chunks, our handle, the shim's handle, an EOT in it
    output,    \* [made, copied, pumped, sent, got]: how far the chunks have come
    pump,      \* the pump's thread
    stop,      \* its stop flag
    client,    \* the other end
    inbox,     \* [data, eof]: what it has sent and the task not received
    typed,     \* chunks it has sent so far, MaxIn + 1 after its end
    exit,      \* the exit code on its way
    excused    \* ghost: a chunk was dropped on a full channel, or a call of the teardown failed

attachVars == <<pid, dir, gate, call, task, wait, timer, exec, tty, attentive, input, output, pump,
                stop, client, inbox, typed, exit, excused>>

shell == <<tty, attentive>>
engine == <<pid, dir, gate, call>>
loop == <<task, wait, timer>>
stream == <<client, inbox, typed, exit>>

AttachTypeOK ==
    /\ pid \in 1..MaxPid /\ dir \in 0..pid
    /\ gate \in [cookie : BOOLEAN, ticket : {"none", "fresh", "dead"}, opened : 0..1]
    /\ call \in {"page", "frame", "link", "dirs", "exec", "open", "start", "spawn", "over"}
    /\ task \in {"none", "select", "write", "close", "eot", "endClose", "delete", "stop", "join",
                 "exit", "rmdir", "done"}
    /\ wait \in {"no", "asked", "answered"} /\ timer \in BOOLEAN
    /\ exec \in {"none", "created", "running", "exited"}
    /\ tty \in BOOLEAN /\ attentive \in BOOLEAN
    /\ input \in [fifo : 0..FifoSize, held : BOOLEAN, open : BOOLEAN, eot : BOOLEAN]
    /\ output \in [made : 0..MaxOut, copied : 0..MaxOut, pumped : 0..MaxOut, sent : 0..MaxOut,
                   got : 0..MaxOut]
    /\ output.got <= output.sent /\ output.sent <= output.pumped /\ output.pumped <= output.copied
    /\ output.copied <= output.made
    /\ pump \in {"none", "poll", "send", "ended"} /\ stop \in BOOLEAN
    /\ client \in {"reading", "stalled", "gone"}
    /\ inbox \in [data : 0..MaxIn, eof : BOOLEAN] /\ typed \in 0..MaxIn + 1
    /\ exit \in {"no", "sent", "got"} /\ excused \in BOOLEAN

AttachInit ==
    /\ pid = 1 /\ dir = 0 /\ call \in {"page", "dirs"}
    /\ gate = [cookie |-> FALSE, ticket |-> "none", opened |-> 0]
    /\ task = "none" /\ wait = "no" /\ timer = FALSE
    /\ exec = "none" /\ tty \in (IF call = "page" THEN {TRUE} ELSE BOOLEAN) /\ attentive \in BOOLEAN
    /\ input = [fifo |-> 0, held |-> FALSE, open |-> FALSE, eot |-> FALSE]
    /\ output = [made |-> 0, copied |-> 0, pumped |-> 0, sent |-> 0, got |-> 0]
    /\ pump = "none" /\ stop = FALSE
    /\ client = "reading" /\ inbox = [data |-> 0, eof |-> FALSE] /\ typed = 0
    /\ exit = "no" /\ excused = FALSE

idle == <<pid, dir, loop, exec, shell, input, output, pump, stop, stream, excused>>

----------------------------------------------------------------------------
(* The page, up to the bridge's call of Attach.                            *)

\* The launch token is swapped for a cookie by whoever is first.
Exchange ==
    /\ call = "page" /\ ~gate.cookie
    /\ gate' = [gate EXCEPT !.cookie = TRUE]
    /\ UNCHANGED <<call, idle>>

\* The cookie buys a ticket; a mint sweeps the dead ones.
MintTicket ==
    /\ call = "page" /\ gate.cookie /\ gate.ticket # "fresh"
    /\ gate' = [gate EXCEPT !.ticket = "fresh", !.opened = 0]
    /\ UNCHANGED <<call, idle>>

\* Thirty seconds.
TicketDies ==
    /\ gate.ticket = "fresh"
    /\ gate' = [gate EXCEPT !.ticket = "dead"]
    /\ UNCHANGED <<call, idle>>

\* A handshake spends the ticket it names, right or wrong.
Spent == [gate EXCEPT !.ticket = "none"]

Handshake ==
    /\ gate.ticket = "fresh"
    /\ gate' = [Spent EXCEPT !.opened = @ + 1]
    /\ call' = IF call = "page" THEN "frame" ELSE call
    /\ UNCHANGED idle

\* Too late, with another cookie, or for another session.
HandshakeRefused ==
    /\ gate.ticket # "none" /\ gate' = Spent
    /\ UNCHANGED <<call, idle>>

\* The first frame is the size of the page's terminal, or the bridge ends.
FirstFrame ==
    /\ call = "frame" /\ call' \in {"link", "over"}
    /\ UNCHANGED <<gate, idle>>

Link ==
    /\ call = "link" /\ call' = "dirs"
    /\ UNCHANGED <<gate, idle>>

Page == Exchange \/ MintTicket \/ TicketDies \/ Handshake \/ HandshakeRefused \/ FirstFrame \/ Link

----------------------------------------------------------------------------
(* attach_exec_start, in serve.                                            *)

\* Directories of a nemrd whose pid is no longer in /proc.
StaleDir(d) == d \notin {0, pid}
Swept == IF StaleDir(dir) THEN 0 ELSE dir

\* resolve, the task state, the sweep, the directory and its FIFOs.
AttachDirs ==
    /\ call = "dirs"
    /\ dir' = pid /\ call' = "exec"
    /\ UNCHANGED <<pid, gate, loop, exec, shell, input, output, pump, stop, stream, excused>>

AttachExec ==
    /\ call = "exec"
    /\ exec' = "created" /\ call' = "open"
    /\ UNCHANGED <<pid, dir, gate, loop, shell, input, output, pump, stop, stream, excused>>

\* Both ends of each FIFO are opened, O_RDWR, so that the open does not block.
AttachOpen ==
    /\ call = "open"
    /\ input' = [input EXCEPT !.held = TRUE] /\ call' = "start"
    /\ UNCHANGED <<pid, dir, gate, loop, exec, shell, output, pump, stop, stream, excused>>

\* The shim opens the FIFOs as the exec starts.
AttachStart ==
    /\ call = "start"
    /\ IF exec = "created" THEN exec' = "running" /\ input' = [input EXCEPT !.open = TRUE] /\ call' = "spawn"
       ELSE call' = "over" /\ input' = [input EXCEPT !.held = FALSE] /\ UNCHANGED exec
    /\ UNCHANGED <<pid, dir, gate, loop, shell, output, pump, stop, stream, excused>>

AttachSpawn ==
    /\ call = "spawn" /\ call' = "over"
    /\ task' = "select" /\ wait' = "asked" /\ pump' = "poll"
    /\ UNCHANGED <<pid, dir, gate, timer, exec, shell, input, output, stop, stream, excused>>

\* A call fails, or the client goes before the answer: nothing is undone.
AttachFails ==
    /\ call \in {"link", "dirs", "exec", "open", "start", "spawn"}
    /\ call' = "over" /\ input' = [input EXCEPT !.held = FALSE]
    /\ UNCHANGED <<pid, dir, gate, loop, exec, shell, output, pump, stop, stream, excused>>

\* Another attach is made: it sweeps.
OtherAttach ==
    /\ dir' = Swept
    /\ UNCHANGED <<pid, gate, call, loop, exec, shell, input, output, pump, stop, stream, excused>>

----------------------------------------------------------------------------
(* run_session: the loop.  Each round makes its wait_exec anew.            *)

Loops(next) == task' = next /\ wait' = IF next = "select" THEN "asked" ELSE "no"

WaitAnswered ==
    /\ task = "select" /\ wait = "asked" /\ exec # "running"
    /\ wait' = "answered"
    /\ UNCHANGED <<engine, task, timer, exec, shell, input, output, pump, stop, stream, excused>>

\* containerd could not say: the exit code is -1 and the session is over.
WaitFails ==
    /\ task = "select" /\ wait = "asked"
    /\ wait' = "answered" /\ excused' = TRUE
    /\ UNCHANGED <<engine, task, timer, exec, shell, input, output, pump, stop, stream>>

Exits ==
    /\ task = "select" /\ wait = "answered"
    /\ Loops("endClose")
    /\ UNCHANGED <<engine, timer, exec, shell, input, output, pump, stop, stream, excused>>

\* message(): what was sent, in order; then, if the stream has ended, its end, again and again.
Receive ==
    /\ task = "select"
    /\ \/ /\ inbox.data > 0
          /\ inbox' = [inbox EXCEPT !.data = @ - 1]
          /\ Loops(IF input.held THEN "write" ELSE "select")
       \/ /\ inbox.data = 0 /\ inbox.eof
          /\ inbox' = [inbox EXCEPT !.eof = FALSE]
          /\ Loops(IF tty THEN "eot" ELSE "close")
       \/ /\ inbox.data = 0 /\ ~inbox.eof /\ client = "gone"
          /\ Loops("close") /\ UNCHANGED inbox
    /\ UNCHANGED <<engine, timer, exec, shell, input, output, pump, stop, client, typed, exit, excused>>

\* write_all into the FIFO: it blocks while the FIFO is full, and no end of ours closes it.
Write ==
    /\ task = "write" /\ input.fifo < FifoSize
    /\ input' = [input EXCEPT !.fifo = @ + 1]
    /\ Loops("select")
    /\ UNCHANGED <<engine, timer, exec, shell, output, pump, stop, stream, excused>>

WriteEot ==
    /\ task = "eot" /\ (input.held => input.fifo < FifoSize)
    /\ input' = IF input.held THEN [input EXCEPT !.fifo = @ + 1, !.eot = TRUE] ELSE input
    /\ timer' = TRUE
    /\ Loops("select")
    /\ UNCHANGED <<engine, exec, shell, output, pump, stop, stream, excused>>

\* Mutant: the shim is told, our handle stays.
EndInputAtTheShim == [input EXCEPT !.open = FALSE]
\* End of input for a pipe, and a hang-up: our handle goes, and the shim is told.
EndInput == [input EXCEPT !.held = FALSE, !.open = FALSE]

CloseInput ==
    /\ task = "close"
    /\ input' = EndInput
    /\ Loops("select")
    /\ UNCHANGED <<engine, timer, exec, shell, output, pump, stop, stream, excused>>

\* Ten seconds after an EOT.
Fallback ==
    /\ task = "select" /\ timer
    /\ timer' = FALSE /\ input' = [input EXCEPT !.open = FALSE]
    /\ Loops("select")
    /\ UNCHANGED <<engine, exec, shell, output, pump, stop, stream, excused>>

----------------------------------------------------------------------------
(* run_session: the teardown, in this order.                               *)

EndClose ==
    /\ task = "endClose"
    /\ input' = [input EXCEPT !.open = FALSE]
    /\ Loops("delete")
    /\ UNCHANGED <<engine, timer, exec, shell, output, pump, stop, stream, excused>>

\* The shim answers when its copiers are through; a failure is ignored.
DeleteExec ==
    /\ task = "delete"
    /\ \/ exec # "running" /\ output.copied = output.made /\ exec' = "none" /\ UNCHANGED excused
       \/ excused' = TRUE /\ UNCHANGED exec
    /\ Loops("stop")
    /\ UNCHANGED <<engine, timer, shell, input, output, pump, stop, stream>>

StopPumps ==
    /\ task = "stop"
    /\ stop' = TRUE
    /\ Loops("join")
    /\ UNCHANGED <<engine, timer, exec, shell, input, output, pump, stream, excused>>

JoinPumps ==
    /\ task = "join" /\ pump = "ended"
    /\ Loops("exit")
    /\ UNCHANGED <<engine, timer, exec, shell, input, output, pump, stop, stream, excused>>

InChannel == output.sent - output.got

\* Mutant: the exit code is sent if there is room.
SendExitIfRoom ==
    /\ task = "exit"
    /\ exit' = IF client # "gone" /\ InChannel < ChannelSize THEN "sent" ELSE exit
    /\ Loops("rmdir")
    /\ UNCHANGED <<engine, timer, exec, shell, input, output, pump, stop, client, inbox, typed, excused>>
\* A full channel is waited for; a closed one is not.
SendExit ==
    /\ task = "exit"
    /\ \/ client = "gone" /\ UNCHANGED exit
       \/ client # "gone" /\ InChannel < ChannelSize /\ exit' = "sent"
    /\ Loops("rmdir")
    /\ UNCHANGED <<engine, timer, exec, shell, input, output, pump, stop, client, inbox, typed, excused>>

RemoveDir ==
    /\ task = "rmdir"
    /\ dir' = 0 /\ input' = [input EXCEPT !.held = FALSE]
    /\ Loops("done")
    /\ UNCHANGED <<pid, gate, call, timer, exec, shell, output, pump, stop, stream, excused>>

Teardown == EndClose \/ DeleteExec \/ StopPumps \/ JoinPumps \/ SendExit \/ RemoveDir

----------------------------------------------------------------------------
(* pump_fifo_to_stream.                                                    *)

InFifo == output.copied - output.pumped

PumpReads ==
    /\ pump = "poll" /\ InFifo > 0
    /\ pump' = "send" /\ output' = [output EXCEPT !.pumped = @ + 1]
    /\ UNCHANGED <<engine, loop, exec, shell, input, stop, stream, excused>>

\* Mutant: the flag is enough.
PumpStopsAtOnce ==
    /\ pump = "poll" /\ stop
    /\ pump' = "ended"
    /\ UNCHANGED <<engine, loop, exec, shell, input, output, stop, stream, excused>>
\* Nothing for 100 ms, and the flag is up.
PumpStops ==
    /\ pump = "poll" /\ InFifo = 0 /\ stop
    /\ pump' = "ended"
    /\ UNCHANGED <<engine, loop, exec, shell, input, output, stop, stream, excused>>

\* Mutant: as before F-88.
NeverGivesUp == FALSE
\* F-88: a full channel is retried until the flag is up.
GivesUp == stop

PumpSends ==
    /\ pump = "send"
    /\ \/ /\ client = "gone" /\ pump' = "ended" /\ UNCHANGED <<output, excused>>
       \/ /\ client # "gone" /\ InChannel < ChannelSize
          /\ pump' = "poll" /\ output' = [output EXCEPT !.sent = output.pumped]
          /\ UNCHANGED excused
       \/ /\ client # "gone" /\ InChannel >= ChannelSize /\ GivesUp
          /\ pump' = "ended" /\ excused' = TRUE /\ UNCHANGED output
    /\ UNCHANGED <<engine, loop, exec, shell, input, stop, stream>>

Pump == PumpReads \/ PumpStops \/ PumpSends

----------------------------------------------------------------------------
(* The program and the shim.                                               *)

\* It blocks when nobody takes what it writes.
ShellWrites ==
    /\ exec = "running" /\ output.made < MaxOut /\ output.made = output.copied
    /\ output' = [output EXCEPT !.made = @ + 1]
    /\ UNCHANGED <<engine, loop, exec, shell, input, pump, stop, stream, excused>>

ShimCopies ==
    /\ output.copied < output.made /\ InFifo < FifoSize
    /\ output' = [output EXCEPT !.copied = @ + 1]
    /\ UNCHANGED <<engine, loop, exec, shell, input, pump, stop, stream, excused>>

ToCopy == output.copied < output.made

ShellReads ==
    /\ exec = "running" /\ attentive /\ ~ToCopy /\ input.fifo > 0
    /\ input' = [input EXCEPT !.fifo = @ - 1]
    /\ UNCHANGED <<engine, loop, exec, shell, output, pump, stop, stream, excused>>

\* A pipe ends when every handle on it is closed; a terminal when an EOT is read.
AtEnd == IF tty THEN input.eot ELSE ~input.held /\ ~input.open

ShellSeesEnd ==
    /\ exec = "running" /\ attentive /\ ~ToCopy /\ input.fifo = 0 /\ AtEnd
    /\ exec' = "exited"
    /\ UNCHANGED <<engine, loop, shell, input, output, pump, stop, stream, excused>>

\* exit, a crash, or a stop or a delete of the project.
ShellExits ==
    /\ exec \in {"created", "running"} /\ exec' = "exited"
    /\ UNCHANGED <<engine, loop, shell, input, output, pump, stop, stream, excused>>

----------------------------------------------------------------------------
(* attach_client.                                                          *)

ClientTypes ==
    /\ task # "none" /\ client # "gone" /\ typed < MaxIn
    /\ typed' = typed + 1 /\ inbox' = [inbox EXCEPT !.data = @ + 1]
    /\ UNCHANGED <<engine, loop, exec, shell, input, output, pump, stop, client, exit, excused>>

\* Its standard input ends, once.
ClientEnds ==
    /\ task # "none" /\ client # "gone" /\ typed <= MaxIn
    /\ inbox' = [inbox EXCEPT !.eof = TRUE] /\ typed' = MaxIn + 1
    /\ UNCHANGED <<engine, loop, exec, shell, input, output, pump, stop, client, exit, excused>>

ClientReads ==
    /\ client = "reading"
    /\ \/ output.got < output.sent /\ output' = [output EXCEPT !.got = @ + 1] /\ UNCHANGED exit
       \/ output.got = output.sent /\ exit = "sent" /\ exit' = "got" /\ UNCHANGED output
    /\ UNCHANGED <<engine, loop, exec, shell, input, pump, stop, client, inbox, typed, excused>>

ClientStalls ==
    /\ client # "gone" /\ client' \in {"reading", "stalled"} /\ client' # client
    /\ UNCHANGED <<engine, loop, exec, shell, input, output, pump, stop, inbox, typed, exit, excused>>

\* The terminal is closed: the stream ends, in both directions.
ClientGoes ==
    /\ task # "none" /\ client # "gone" /\ client' = "gone"
    /\ UNCHANGED <<engine, loop, exec, shell, input, output, pump, stop, inbox, typed, exit, excused>>

\* The page is closed: the bridge sends the end of input first.
PageGoes ==
    /\ task # "none" /\ client # "gone" /\ client' = "gone"
    /\ gate.opened > 0 /\ inbox' = [inbox EXCEPT !.eof = TRUE]
    /\ UNCHANGED <<engine, loop, exec, shell, input, output, pump, stop, typed, exit, excused>>

\* nemrd dies: its tasks, threads and handles go with it, the exec does not.
NemrdRestarts ==
    /\ pid < MaxPid /\ pid' = pid + 1
    /\ call' = "over" /\ task' = "none" /\ wait' = "no" /\ timer' = FALSE /\ pump' = "none"
    /\ input' = [input EXCEPT !.held = FALSE] /\ client' = "gone"
    /\ UNCHANGED <<dir, gate, exec, shell, output, stop, inbox, typed, exit, excused>>

----------------------------------------------------------------------------
Call == AttachDirs \/ AttachExec \/ AttachOpen \/ AttachStart \/ AttachSpawn
Loop == Exits \/ Receive \/ Write \/ WriteEot \/ CloseInput \/ Fallback

AttachNext ==
    \/ Page \/ Call \/ AttachFails \/ OtherAttach
    \/ WaitAnswered \/ WaitFails \/ Loop \/ Teardown \/ Pump
    \/ ShellWrites \/ ShimCopies \/ ShellReads \/ ShellSeesEnd \/ ShellExits
    \/ ClientTypes \/ ClientEnds \/ ClientReads \/ ClientStalls \/ ClientGoes \/ PageGoes
    \/ NemrdRestarts

\* tokio runs what can run, threads run, containerd and the shim answer, an attentive
\* program reads and ends with its input, and a client that is not stalled reads.
Fairness ==
    /\ WF_attachVars(Call) /\ WF_attachVars(WaitAnswered) /\ WF_attachVars(Exits)
    /\ WF_attachVars(Receive) /\ WF_attachVars(Write) /\ WF_attachVars(WriteEot)
    /\ WF_attachVars(CloseInput) /\ WF_attachVars(Fallback)
    /\ WF_attachVars(Teardown) /\ WF_attachVars(Pump) /\ WF_attachVars(ShimCopies)
    /\ WF_attachVars(ShellReads) /\ WF_attachVars(ShellSeesEnd) /\ WF_attachVars(ClientReads)

AttachSpec == AttachInit /\ [][AttachNext]_attachVars /\ Fairness

----------------------------------------------------------------------------
(* Properties.                                                             *)

\* The exit code is the last thing a client sees, and everything the program wrote came
\* before it, also what it wrote as it died (tty.rs: "no trailing bytes are lost"), unless
\* the client lagged by a whole channel or containerd failed the teardown.
TailIsDelivered == exit = "got" /\ ~excused => output.got = output.made

\* F-88: whatever the client does, the pump's thread ends once it is told to.
PumpsEnd == stop ~> pump \in {"ended", "none"}

\* Who is attached and reads learns that the session has ended, if the program had taken
\* the input it was given.
ExitIsSeen ==
    (exec = "exited" /\ task = "select") ~>
      (exit = "got" \/ client # "reading" \/ task \in {"none", "write", "eot"})

\* Nobody takes what it writes any more, and it waits to write.
Stuck == (ToCopy /\ pump = "ended") \/ client = "stalled"

\* The end of input ends a shell that reads it: of a pipe (SPEC.md:674), by an EOT on a
\* terminal, and of a page that was closed ("so the shell inside exits rather than
\* lingering", SPEC.md:147), unless it waits to write what nobody takes.
EndOfInputEndsTheShell ==
    (inbox.eof /\ attentive /\ exec = "running" /\ task = "select") ~>
      (exec # "running" \/ Stuck \/ task \in {"none", "done"} \/ excused)

\* A client that hung up leaves nothing: once the shell has ended, its exec is deleted and
\* its directory removed (attach.rs 178-179).
HangUpIsCleanedUp ==
    (client = "gone" /\ exec = "exited" /\ task = "select") ~>
      task \in {"none", "done", "write", "eot"}
============================================================================
