----------------------------- MODULE HostCredential ----------------------------
(***************************************************************************)
(* The host's Claude credential (src/auth.rs): the one file nemr keeps for *)
(* all sessions of a machine, the requests that reset it or clear its      *)
(* marker, the daemon's watcher (src/daemon/credential_watch.rs), which    *)
(* records every rewrite and re-binds the file into the running sessions   *)
(* when it is replaced (src/engine/credential_bind.rs), and the sessions,  *)
(* which see it through a bind of its directory and write it themselves.   *)
(*                                                                         *)
(* A file is an inode; the path names one or none.  What a file holds is   *)
(* told apart as far as the engine does; tokens and dates are left out.    *)
(***************************************************************************)
EXTENDS Naturals, Sequences, FiniteSets

CONSTANTS
    Session,   \* the projects of this machine
    Slot,      \* the requests nemrd serves at the same time
    Inodes,    \* how many inodes there are to use
    MaxWrites  \* bounds the writes of sessions and of the host's user

ASSUME Constants == Inodes \in Nat \ {0} /\ MaxWrites \in Nat /\ "watcher" \notin Slot

Inode == 1 .. Inodes
NoFile == 0
Actor == Slot \cup {"watcher"}

\* "old" is a placeholder whose marker survives a login, "marked" such a login;
\* "dead" a login that cannot authenticate: blanked, or its refresh token spent.
Content == {"empty", "placeholder", "old", "dead", "login", "marked"}

VARIABLES
    path,     \* the inode of .credentials.json, or NoFile
    content,  \* inode -> what it holds
    running,  \* the sessions whose task runs
    pin,      \* session -> the inode a bind of the file shows in it, or NoFile
    watch,    \* the watcher runs, and the inode its file watch is on
    queue,    \* what inotify has to deliver
    events,   \* what the inotify thread has sent on
    job,      \* actor -> what it does
    last,     \* the verdict of the last rewrite, as nemr status reports it
    writes,   \* how many writes there have been from outside
    missed    \* history: nemrd has died since the file was last replaced

file == <<path, content>>
seen == <<watch, queue, events>>
vars == <<file, running, pin, seen, job, last, writes, missed>>

Kind == {"replaced", "removed", "written"}
Pc == {"idle", "ensure", "reset", "fill", "run", "scrub", "clear", "cleared", "record",
       "stale", "tree", "swap"}
\* fd: the file or the detached mount it has open.  todo: the sessions to re-bind,
\* or the one it is for.
Job == [pc : Pc, fd : Inode \cup {NoFile}, todo : SUBSET Session, kind : Kind]
Verdicts == {"none", "not a credential", "no login yet", "dead", "valid"}

TypeOK ==
    /\ path \in Inode \cup {NoFile}
    /\ content \in [Inode -> Content]
    /\ running \subseteq Session
    /\ pin \in [Session -> Inode \cup {NoFile}]
    /\ watch \in [on : BOOLEAN, file : Inode \cup {NoFile}]
    /\ queue \in Seq([kind : Kind, file : Inode \cup {NoFile}])
    /\ events \in Seq(Kind)
    /\ job \in [Actor -> Job]
    /\ last \in Verdicts
    /\ writes \in 0 .. MaxWrites
    /\ missed \in BOOLEAN

Idle == [pc |-> "idle", fd |-> NoFile, todo |-> {}, kind |-> "written"]

\* nemrd has just started.  Where there is no file there is no watcher.
Init ==
    /\ path \in {NoFile, 1}
    /\ content \in [Inode -> Content \ {"empty", "marked"}]
    /\ \A i \in Inode \ {1} : content[i] = "placeholder"
    /\ running = {}
    /\ pin = [s \in Session |-> NoFile]
    /\ watch = [on |-> path # NoFile, file |-> path]
    /\ queue = <<>> /\ events = <<>>
    /\ job = [a \in Actor |-> Idle]
    /\ last = "none"
    /\ writes = 0
    /\ missed = FALSE

-------------------------------------------------------------------------------
(* The file and inotify *)

\* credential_facts and their verdict, for what a read of the path returns.
Verdict ==
    IF path = NoFile THEN "not a credential"
    ELSE CASE content[path] = "empty" -> "not a credential"
           [] content[path] \in {"placeholder", "old"} -> "no login yet"
           [] content[path] = "dead" -> "dead"
           [] content[path] \in {"login", "marked"} -> "valid"

Notified(kind, i) == Append(queue, [kind |-> kind, file |-> i])

\* A file that was written is closed: seen if the file watch is on it.
Closed(i) == queue' = IF watch.on /\ watch.file = i THEN Notified("written", i) ELSE queue

\* A new file comes to the path: seen by the watch on the directory.
Arrived == queue' = IF watch.on THEN Notified("replaced", NoFile) ELSE queue

InUse == {path, watch.file} \cup {pin[s] : s \in Session} \cup {job[a].fd : a \in Actor}
         \cup {queue[k].file : k \in DOMAIN queue}
Fresh == CHOOSE i \in Inode : i \notin InUse
FreshExists == Inode \ InUse # {}

\* Whether the bind of a file outlives the name it is on is the kernel's affair.
PinsAfter(old) ==
    \/ UNCHANGED pin
    \/ pin' = [s \in Session |-> IF pin[s] = old THEN NoFile ELSE pin[s]]

-------------------------------------------------------------------------------
(* Requests *)

On(a, pc) == job[a].pc = pc
Goto(a, pc) == job' = [job EXCEPT ![a].pc = pc]
GotoWith(a, pc, i) == job' = [job EXCEPT ![a].pc = pc, ![a].fd = i]
Answer(a) == job' = [job EXCEPT ![a] = Idle]

\* create and start begin with ensure_host_credential_file, status with
\* scrub_placeholder_marker, attach with rebind_credential.
Begin(a, s) ==
    /\ a \in Slot /\ On(a, "idle")
    /\ \E pc \in {"ensure", "scrub", "stale"} :
           job' = [job EXCEPT ![a] = [Idle EXCEPT !.pc = pc, !.todo = {s}]]
    /\ UNCHANGED <<file, running, pin, seen, last, writes, missed>>

\* The file exists and is read: one that cannot authenticate is to be reset.
Ensure(a) ==
    /\ On(a, "ensure") /\ path # NoFile
    /\ Goto(a, IF content[path] = "dead" THEN "reset" ELSE "run")
    /\ UNCHANGED <<file, running, pin, seen, last, writes, missed>>

\* It does not: create_new.
EnsureNew(a) ==
    /\ On(a, "ensure") /\ path = NoFile /\ FreshExists
    /\ path' = Fresh
    /\ content' = [content EXCEPT ![Fresh] = "empty"]
    /\ GotoWith(a, "fill", Fresh)
    /\ Arrived
    /\ UNCHANGED <<running, pin, watch, events, last, writes, missed>>

\* Opening for writing truncates what the path names by then.
Truncates(a, pc, otherwise) ==
    \/ /\ path # NoFile
       /\ content' = [content EXCEPT ![path] = "empty"]
       /\ GotoWith(a, pc, path)
    \/ path = NoFile /\ otherwise /\ UNCHANGED content

Reset(a) ==
    /\ On(a, "reset")
    /\ Truncates(a, "fill", Goto(a, "run"))
    /\ UNCHANGED <<path, running, pin, seen, last, writes, missed>>

Fill(a) ==
    /\ On(a, "fill")
    /\ content' = [content EXCEPT ![job[a].fd] = "placeholder"]
    /\ GotoWith(a, "run", NoFile)
    /\ Closed(job[a].fd)
    /\ UNCHANGED <<path, running, pin, watch, events, last, writes, missed>>

\* The rest of start: the directory is bound into the task.  Or of create.
Run(a) ==
    /\ On(a, "run")
    /\ running' \in {running, running \cup job[a].todo}
    /\ Answer(a)
    /\ UNCHANGED <<file, pin, seen, last, writes, missed>>

\* scrub_placeholder_marker: a login beside the marker is to be written without.
Scrubbed(a) == IF a = "watcher" THEN Goto(a, "record") ELSE Answer(a)

Scrub(a) ==
    /\ On(a, "scrub")
    /\ IF path # NoFile /\ content[path] = "marked" THEN Goto(a, "clear") ELSE Scrubbed(a)
    /\ UNCHANGED <<file, running, pin, seen, last, writes, missed>>

Clear(a) ==
    /\ On(a, "clear")
    /\ Truncates(a, "cleared", Scrubbed(a))
    /\ UNCHANGED <<path, running, pin, seen, last, writes, missed>>

Cleared(a) ==
    /\ On(a, "cleared")
    /\ content' = [content EXCEPT ![job[a].fd] = "login"]
    /\ job' = [job EXCEPT ![a] = IF a = "watcher" THEN [@ EXCEPT !.pc = "record", !.fd = NoFile]
                                 ELSE Idle]
    /\ Closed(job[a].fd)
    /\ UNCHANGED <<path, running, pin, watch, events, last, writes, missed>>

-------------------------------------------------------------------------------
(* Re-binding *)

View(s) == IF pin[s] = NoFile THEN path ELSE pin[s]

\* attach: what the task sees is not what the path names.
Stale(a) ==
    /\ On(a, "stale")
    /\ IF path # NoFile /\ \E s \in job[a].todo \cap running : View(s) # path
       THEN Goto(a, "tree") ELSE Answer(a)
    /\ UNCHANGED <<file, running, pin, seen, last, writes, missed>>

\* nemrd __rebind: open_tree on the host's path ...
Tree(a) ==
    /\ On(a, "tree")
    /\ IF job[a].todo = {} THEN Answer(a)
       ELSE IF path # NoFile THEN GotoWith(a, "swap", path)
       ELSE \E s \in job[a].todo : job' = [job EXCEPT ![a].todo = @ \ {s}]
    /\ UNCHANGED <<file, running, pin, seen, last, writes, missed>>

\* ... then, in the task's namespace, detach what is on the path and mount it
\* there, if there is a file to mount it on.
Swap(a) ==
    /\ On(a, "swap")
    /\ \E s \in job[a].todo :
          /\ pin' = IF s \notin running THEN pin
                    ELSE [pin EXCEPT ![s] = IF path = NoFile THEN NoFile ELSE job[a].fd]
          /\ job' = [job EXCEPT ![a].pc = "tree", ![a].fd = NoFile, ![a].todo = @ \ {s}]
    /\ UNCHANGED <<file, running, seen, last, writes, missed>>

-------------------------------------------------------------------------------
(* The watcher *)

\* Mutant of Rearmed: the watch stays on the file it was put on first.
RearmedNever == watch.file
\* The file watch moves to what the path names now.
Rearmed == path

\* The inotify thread; an event of a file it no longer watches is dropped.
Notice ==
    /\ queue # <<>>
    /\ LET e == Head(queue)
           known == e.kind # "written" \/ e.file = watch.file
       IN /\ events' = IF known THEN Append(events, e.kind) ELSE events
          /\ watch' = IF e.kind = "replaced" THEN [watch EXCEPT !.file = Rearmed] ELSE watch
    /\ queue' = Tail(queue)
    /\ UNCHANGED <<file, running, pin, job, last, writes, missed>>

\* The handler takes an event and lists the running sessions.
Take ==
    /\ On("watcher", "idle") /\ events # <<>>
    /\ job' = [job EXCEPT !["watcher"] = [Idle EXCEPT !.pc = "scrub", !.todo = running,
                                                      !.kind = Head(events)]]
    /\ events' = Tail(events)
    /\ UNCHANGED <<file, running, pin, watch, queue, last, writes, missed>>

\* Mutant of Rebinds: a removal re-binds, a replacement does not.
RebindsOnRemoval(kind) == kind = "removed"
Rebinds(kind) == kind = "replaced"

Record ==
    /\ On("watcher", "record")
    /\ last' = Verdict
    /\ IF Rebinds(job["watcher"].kind) THEN Goto("watcher", "tree") ELSE Answer("watcher")
    /\ UNCHANGED <<file, running, pin, seen, writes, missed>>

-------------------------------------------------------------------------------
(* The sessions, the user and the host *)

Writing == writes < MaxWrites /\ writes' = writes + 1

\* What Claude Code writes: a login or a refresh, or the blank of a refused one.
Written(old, new) ==
    new = IF old \in {"old", "marked"} THEN "marked" ELSE "login"

\* By rename, in the bound directory ...
WritesByRename(s) ==
    /\ Writing /\ s \in running /\ pin[s] = NoFile /\ FreshExists
    /\ path' = Fresh
    /\ \E new \in {"login", "marked", "dead"} :
          /\ new = "dead" \/ Written(IF path = NoFile THEN "empty" ELSE content[path], new)
          /\ content' = [content EXCEPT ![Fresh] = new]
    /\ PinsAfter(path)
    /\ Arrived
    /\ missed' = FALSE
    /\ UNCHANGED <<running, watch, events, job, last>>

\* ... and in place, through a bind of the file, which no rename gets past.
WritesInPlace(s) ==
    /\ Writing /\ s \in running /\ pin[s] # NoFile
    /\ \E new \in {"login", "marked", "dead"} :
          /\ new = "dead" \/ Written(content[pin[s]], new)
          /\ content' = [content EXCEPT ![pin[s]] = new]
    /\ Closed(pin[s])
    /\ UNCHANGED <<path, running, pin, watch, events, job, last, missed>>

Remove ==
    /\ Writing /\ path # NoFile
    /\ path' = NoFile
    /\ queue' = IF watch.on THEN Notified("removed", NoFile) ELSE queue
    /\ PinsAfter(path)
    /\ UNCHANGED <<content, running, watch, events, job, last, missed>>

SessionEnds(s) ==
    /\ s \in running
    /\ running' = running \ {s}
    /\ pin' = [pin EXCEPT ![s] = NoFile]
    /\ UNCHANGED <<file, seen, job, last, writes, missed>>

\* nemrd dies and starts again.
DaemonRestarts ==
    /\ job' = [a \in Actor |-> Idle]
    /\ watch' = [on |-> path # NoFile, file |-> path]
    /\ queue' = <<>> /\ events' = <<>>
    /\ last' = "none"
    /\ missed' = TRUE
    /\ UNCHANGED <<file, running, pin, writes>>

-------------------------------------------------------------------------------
Progress(a) ==
    \/ Ensure(a) \/ EnsureNew(a) \/ Reset(a) \/ Fill(a) \/ Run(a)
    \/ Scrub(a) \/ Clear(a) \/ Cleared(a)
    \/ Stale(a) \/ Tree(a) \/ Swap(a)

Watcher == Take \/ Record \/ Progress("watcher")

Next ==
    \/ \E a \in Slot : Progress(a) \/ \E s \in Session : Begin(a, s)
    \/ Notice \/ Watcher
    \/ \E s \in Session : WritesByRename(s) \/ WritesInPlace(s) \/ SessionEnds(s)
    \/ Remove
    \/ DaemonRestarts

Spec == Init /\ [][Next]_vars

\* The inotify thread polls, and the handler awaits nothing that does not answer.
FairSpec == Spec /\ WF_vars(Notice) /\ WF_vars(Watcher)

-------------------------------------------------------------------------------
(* Properties *)

\* D-02 (f): once the watcher has dealt with all it was told, and nobody is in
\* the middle of a write, what status reports of the last rewrite is what the
\* file is.
Settled ==
    /\ watch.on /\ queue = <<>> /\ events = <<>> /\ On("watcher", "idle")
    /\ \A a \in Slot : job[a].pc \notin {"fill", "cleared"}
RecordTellsTheFile == Settled /\ last # "none" => last = Verdict

\* F-12: a running session that sees another file than the host has comes to see
\* it, unless the daemon died after the file was replaced, which is for attach.
SessionsCatchUp ==
    \A s \in Session :
        s \in running /\ View(s) # path
        ~> s \notin running \/ View(s) = path \/ path = NoFile \/ missed \/ ~watch.on

\* F-14 (project.rs:183-188): the directory is bound, so that a login, which
\* renames, lands on the host; a bind of the file would refuse it.
LoginsLand == \A s \in running : pin[s] = NoFile
===============================================================================
