------------------------ MODULE HostCredential_proofs ------------------------
(***************************************************************************)
(* What status reports of the host's credential is what the file is, for   *)
(* any sessions, requests, inodes and writes.  A change of what the path   *)
(* shows is always on its way to the watcher: in the middle of a write, in *)
(* inotify's queue, sent on, or about to be recorded.                      *)
(***************************************************************************)
EXTENDS HostCredential, Attach, SequenceTheorems, TLAPS

Event == [kind : Kind, file : Inode \cup {NoFile}]

USE Constants

-------------------------------------------------------------------------------
(* Types *)

LEMMA FreshIsInode ==
    ASSUME FreshExists
    PROVE  Fresh \in Inode
  BY DEF FreshExists, Fresh

LEMMA NamesOf ==
    /\ NoFile \notin Inode
    /\ Slot \subseteq Actor /\ "watcher" \in Actor
  BY DEF NoFile, Inode, Actor

LEMMA QueueTypes ==
    ASSUME TypeOK
    PROVE  /\ queue \in Seq(Event)
           /\ \A kind \in Kind, i \in Inode \cup {NoFile} :
                 Notified(kind, i) \in Seq(Event)
           /\ queue # <<>> => Head(queue) \in Event /\ Tail(queue) \in Seq(Event)
           /\ \A kind \in Kind : Append(events, kind) \in Seq(Kind)
           /\ events # <<>> => Head(events) \in Kind /\ Tail(events) \in Seq(Kind)
<1>1. queue \in Seq(Event) /\ events \in Seq(Kind)
  BY DEF TypeOK, Event
<1>2. \A kind \in Kind, i \in Inode \cup {NoFile} : [kind |-> kind, file |-> i] \in Event
  BY DEF Event
<1>3. \A kind \in Kind, i \in Inode \cup {NoFile} : Notified(kind, i) \in Seq(Event)
  BY <1>1, <1>2, AppendProperties DEF Notified
<1>4. \A kind \in Kind : Append(events, kind) \in Seq(Kind)
  BY <1>1, AppendProperties
<1>5. queue # <<>> => Head(queue) \in Event /\ Tail(queue) \in Seq(Event)
  BY <1>1, HeadTailProperties
<1>6. events # <<>> => Head(events) \in Kind /\ Tail(events) \in Seq(Kind)
  BY <1>1, HeadTailProperties
<1>7. QED
  BY <1>1, <1>3, <1>4, <1>5, <1>6

\* The parts of TypeOK that a step disturbs separately.
FileTypes == path \in Inode \cup {NoFile} /\ content \in [Inode -> Content]
SessionTypes == running \subseteq Session /\ pin \in [Session -> Inode \cup {NoFile}]
SeenTypes == /\ watch \in [on : BOOLEAN, file : Inode \cup {NoFile}]
             /\ queue \in Seq(Event) /\ events \in Seq(Kind)
JobTypes == job \in [Actor -> Job]
RestTypes == last \in Verdicts /\ writes \in 0 .. MaxWrites /\ missed \in BOOLEAN

LEMMA TypeParts ==
    /\ TypeOK <=> FileTypes /\ SessionTypes /\ SeenTypes /\ JobTypes /\ RestTypes
    /\ TypeOK' <=> FileTypes' /\ SessionTypes' /\ SeenTypes' /\ JobTypes' /\ RestTypes'
  BY DEF TypeOK, FileTypes, SessionTypes, SeenTypes, JobTypes, RestTypes, Event

LEMMA IdleIsJob == Idle \in Job
  BY DEF Idle, Job, Pc, Kind

LEMMA Moves ==
    ASSUME JobTypes, NEW a \in Actor
    PROVE  /\ Answer(a) => JobTypes'
           /\ \A pc \in Pc : Goto(a, pc) => JobTypes'
           /\ \A pc \in Pc, i \in Inode \cup {NoFile} : GotoWith(a, pc, i) => JobTypes'
<1>1. job[a] \in Job
  BY DEF JobTypes
<1>2. Answer(a) => JobTypes'
  BY IdleIsJob DEF JobTypes, Answer
<1>3. ASSUME NEW pc \in Pc, Goto(a, pc) PROVE JobTypes'
  <2> DEFINE new == [job[a] EXCEPT !.pc = pc]
  <2>1. new \in Job
    BY <1>1 DEF Job
  <2>2. job' = [job EXCEPT ![a] = new]
    BY <1>3 DEF Goto
  <2> HIDE DEF new
  <2>3. QED
    BY <2>1, <2>2 DEF JobTypes
<1>4. ASSUME NEW pc \in Pc, NEW i \in Inode \cup {NoFile}, GotoWith(a, pc, i) PROVE JobTypes'
  <2> DEFINE new == [job[a] EXCEPT !.pc = pc, !.fd = i]
  <2>1. new \in Job
    BY <1>1 DEF Job
  <2>2. job' = [job EXCEPT ![a] = new]
    BY <1>4 DEF GotoWith, JobTypes
  <2> HIDE DEF new
  <2>3. QED
    BY <2>1, <2>2 DEF JobTypes
<1>5. QED
  BY <1>2, <1>3, <1>4

\* What a step leaves alone stays well typed.
LEMMA Kept ==
    /\ FileTypes /\ UNCHANGED file => FileTypes'
    /\ SessionTypes /\ UNCHANGED <<running, pin>> => SessionTypes'
    /\ SeenTypes /\ UNCHANGED seen => SeenTypes'
    /\ JobTypes /\ UNCHANGED job => JobTypes'
    /\ RestTypes /\ UNCHANGED <<last, writes, missed>> => RestTypes'
  BY DEF FileTypes, SessionTypes, SeenTypes, JobTypes, RestTypes, file, seen

LEMMA Queued ==
    ASSUME TypeOK, UNCHANGED <<watch, events>>, NEW i \in Inode \cup {NoFile},
           \/ Closed(i)
           \/ Arrived
           \/ queue' = IF watch.on THEN Notified("removed", NoFile) ELSE queue
    PROVE  SeenTypes'
<1>1. queue' = queue \/ \E kind \in Kind, j \in Inode \cup {NoFile} : queue' = Notified(kind, j)
  BY DEF Closed, Arrived, Kind
<1>2. queue' \in Seq(Event)
  BY <1>1, QueueTypes
<1>3. QED
  BY <1>2, TypeParts DEF SeenTypes

LEMMA ScrubbedMoves ==
    ASSUME JobTypes, NEW a \in Actor, Scrubbed(a)
    PROVE  JobTypes'
  BY Moves DEF Scrubbed, Pc

\* The steps of a request or of the watcher's re-bind.
LEMMA ProgressTypes ==
    ASSUME TypeOK, NEW a \in Actor, Progress(a)
    PROVE  TypeOK'
<1> USE TypeParts
<1>0. job[a] \in Job
  BY DEF JobTypes
<1>1. CASE Ensure(a)
  BY <1>1, Kept, Moves DEF Ensure, Pc
<1>2. CASE EnsureNew(a)
  <2>1. FileTypes'
    BY <1>2, FreshIsInode DEF EnsureNew, FileTypes, Content
  <2>2. JobTypes'
    BY <1>2, FreshIsInode, Moves DEF EnsureNew, Pc
  <2>3. SeenTypes'
    BY <1>2, FreshIsInode, Queued DEF EnsureNew
  <2>4. QED
    BY <1>2, <2>1, <2>2, <2>3, Kept DEF EnsureNew
<1>3. CASE Reset(a)
  <2>1. FileTypes' /\ JobTypes'
    BY <1>3, Moves DEF Reset, Truncates, FileTypes, Content, Pc
  <2>2. QED
    BY <1>3, <2>1, Kept DEF Reset
<1>4. CASE Fill(a)
  <2>1. FileTypes' /\ JobTypes'
    BY <1>4, Moves DEF Fill, FileTypes, Content, Pc
  <2>2. SeenTypes'
    BY <1>0, <1>4, Queued DEF Fill, Job
  <2>3. QED
    BY <1>4, <2>1, <2>2, Kept DEF Fill
<1>5. CASE Run(a)
  <2>1. SessionTypes'
    BY <1>0, <1>5 DEF Run, SessionTypes, Job
  <2>2. QED
    BY <1>5, <2>1, Kept, Moves DEF Run
<1>6. CASE Scrub(a)
  BY <1>6, Kept, Moves, ScrubbedMoves DEF Scrub, Pc
<1>7. CASE Clear(a)
  <2>1. FileTypes' /\ JobTypes'
    BY <1>7, Moves, ScrubbedMoves DEF Clear, Truncates, FileTypes, Content, Pc
  <2>2. QED
    BY <1>7, <2>1, Kept DEF Clear
<1>8. CASE Cleared(a)
  <2>1. FileTypes'
    BY <1>8 DEF Cleared, FileTypes, Content
  <2>2. JobTypes'
    <3> DEFINE new == IF a = "watcher" THEN [job[a] EXCEPT !.pc = "record", !.fd = NoFile] ELSE Idle
    <3>1. new \in Job
      BY <1>0, IdleIsJob DEF Job, Pc
    <3>2. job' = [job EXCEPT ![a] = new]
      BY <1>8 DEF Cleared
    <3> HIDE DEF new
    <3>3. QED
      BY <3>1, <3>2 DEF JobTypes
  <2>3. SeenTypes'
    BY <1>0, <1>8, Queued DEF Cleared, Job
  <2>4. QED
    BY <1>8, <2>1, <2>2, <2>3, Kept DEF Cleared
<1>9. CASE Stale(a)
  BY <1>9, Kept, Moves DEF Stale, Pc
<1>10. CASE Tree(a)
  <2>1. ASSUME NEW s \in Session, job' = [job EXCEPT ![a].todo = @ \ {s}] PROVE JobTypes'
    <3> DEFINE new == [job[a] EXCEPT !.todo = @ \ {s}]
    <3>1. new \in Job
      BY <1>0 DEF Job
    <3>2. job' = [job EXCEPT ![a] = new]
      BY <2>1
    <3> HIDE DEF new
    <3>3. QED
      BY <3>1, <3>2 DEF JobTypes
  <2>2. job[a].todo \subseteq Session
    BY <1>0 DEF Job
  <2>3. JobTypes'
    <3>1. CASE Answer(a)
      BY <3>1, Moves
    <3>2. CASE path # NoFile /\ GotoWith(a, "swap", path)
      BY <3>2, Moves DEF FileTypes, Pc
    <3>3. QED
      BY <1>10, <2>1, <2>2, <3>1, <3>2 DEF Tree
  <2>4. QED
    BY <1>10, <2>3, Kept DEF Tree
<1>11. CASE Swap(a)
  <2>1. PICK s \in job[a].todo :
           /\ pin' = IF s \notin running THEN pin
                     ELSE [pin EXCEPT ![s] = IF path = NoFile THEN NoFile ELSE job[a].fd]
           /\ job' = [job EXCEPT ![a].pc = "tree", ![a].fd = NoFile, ![a].todo = @ \ {s}]
    BY <1>11 DEF Swap
  <2>2. SessionTypes'
    BY <1>0, <1>11, <2>1 DEF Swap, SessionTypes, Job
  <2>3. JobTypes'
    <3> DEFINE new == [job[a] EXCEPT !.pc = "tree", !.fd = NoFile, !.todo = @ \ {s}]
    <3>1. new \in Job
      BY <1>0 DEF Job, Pc
    <3>2. job' = [job EXCEPT ![a] = new]
      BY <2>1 DEF JobTypes
    <3> HIDE DEF new
    <3>3. QED
      BY <3>1, <3>2 DEF JobTypes
  <2>4. QED
    BY <1>11, <2>2, <2>3, Kept DEF Swap
<1>12. QED
  BY <1>1, <1>2, <1>3, <1>4, <1>5, <1>6, <1>7, <1>8, <1>9, <1>10, <1>11 DEF Progress

LEMMA PinTypes ==
    ASSUME SessionTypes, running' = running, NEW old, PinsAfter(old)
    PROVE  SessionTypes'
  BY DEF SessionTypes, PinsAfter

LEMMA WriteTypes ==
    ASSUME RestTypes, Writing, last' = last, missed' \in BOOLEAN
    PROVE  RestTypes'
  BY DEF RestTypes, Writing

\* Everything else: the inotify thread, the handler, the sessions and the host.
LEMMA TypeStep ==
    ASSUME TypeOK, [Next]_vars
    PROVE  TypeOK'
<1> USE TypeParts
<1>1. ASSUME NEW a \in Slot, NEW s \in Session, Begin(a, s) PROVE TypeOK'
  <2>1. PICK pc \in {"ensure", "scrub", "stale"} :
           job' = [job EXCEPT ![a] = [Idle EXCEPT !.pc = pc, !.todo = {s}]]
    BY <1>1 DEF Begin
  <2> DEFINE new == [Idle EXCEPT !.pc = pc, !.todo = {s}]
  <2>2. new \in Job
    BY DEF Idle, Job, Pc, Kind
  <2> HIDE DEF new
  <2>3. JobTypes'
    BY <2>1, <2>2 DEF JobTypes, new
  <2>4. QED
    BY <1>1, <2>3, Kept DEF Begin
<1>2. ASSUME NEW a \in Actor, Progress(a) PROVE TypeOK'
  BY <1>2, ProgressTypes
<1>3. CASE Notice
  <2>1. Head(queue) \in Event /\ Tail(queue) \in Seq(Event)
    BY <1>3, QueueTypes DEF Notice
  <2>2. events' \in Seq(Kind)
    BY <1>3, <2>1, QueueTypes DEF Notice, Event, SeenTypes
  <2>3. watch' \in [on : BOOLEAN, file : Inode \cup {NoFile}]
    BY <1>3 DEF Notice, Rearmed, SeenTypes, FileTypes
  <2>4. QED
    BY <1>3, <2>1, <2>2, <2>3, Kept DEF Notice, SeenTypes
<1>4. CASE Take
  <2> DEFINE new == [Idle EXCEPT !.pc = "scrub", !.todo = running, !.kind = Head(events)]
  <2>1. Head(events) \in Kind /\ Tail(events) \in Seq(Kind)
    BY <1>4, QueueTypes DEF Take
  <2>2. new \in Job
    BY <2>1 DEF Idle, Job, Pc, Kind, SessionTypes
  <2>3. job' = [job EXCEPT !["watcher"] = new]
    BY <1>4 DEF Take
  <2> HIDE DEF new
  <2>4. JobTypes' /\ SeenTypes'
    BY <1>4, <2>1, <2>2, <2>3 DEF Take, JobTypes, SeenTypes
  <2>5. QED
    BY <1>4, <2>4, Kept DEF Take
<1>5. CASE Record
  <2>1. JobTypes'
    BY <1>5, NamesOf, Moves DEF Record, Pc
  <2>2. Verdict \in Verdicts
    BY DEF Verdict, Verdicts, FileTypes, Content
  <2>3. QED
    BY <1>5, <2>1, <2>2, Kept DEF Record, RestTypes
<1>6. ASSUME NEW s \in Session, WritesByRename(s) PROVE TypeOK'
  <2>1. FileTypes'
    BY <1>6, FreshIsInode DEF WritesByRename, FileTypes, Content
  <2>2. SessionTypes' /\ RestTypes'
    BY <1>6, PinTypes, WriteTypes DEF WritesByRename
  <2>3. SeenTypes'
    BY <1>6, Queued DEF WritesByRename
  <2>4. QED
    BY <1>6, <2>1, <2>2, <2>3, Kept DEF WritesByRename
<1>7. ASSUME NEW s \in Session, WritesInPlace(s) PROVE TypeOK'
  <2>1. FileTypes'
    BY <1>7 DEF WritesInPlace, FileTypes, Content
  <2>2. RestTypes'
    BY <1>7, WriteTypes DEF WritesInPlace, RestTypes
  <2>3. SeenTypes'
    BY <1>7, Queued DEF WritesInPlace, SessionTypes
  <2>4. QED
    BY <1>7, <2>1, <2>2, <2>3, Kept DEF WritesInPlace
<1>8. ASSUME NEW s \in Session, SessionEnds(s) PROVE TypeOK'
  <2>1. SessionTypes'
    BY <1>8 DEF SessionEnds, SessionTypes
  <2>2. QED
    BY <1>8, <2>1, Kept DEF SessionEnds
<1>9. CASE Remove
  <2>1. FileTypes'
    BY <1>9 DEF Remove, FileTypes
  <2>2. SessionTypes' /\ RestTypes'
    BY <1>9, PinTypes, WriteTypes DEF Remove, RestTypes
  <2>3. SeenTypes'
    BY <1>9, Queued DEF Remove
  <2>4. QED
    BY <1>9, <2>1, <2>2, <2>3, Kept DEF Remove
<1>10. CASE DaemonRestarts
  <2>1. JobTypes'
    BY <1>10, IdleIsJob DEF DaemonRestarts, JobTypes
  <2>2. SeenTypes'
    BY <1>10 DEF DaemonRestarts, SeenTypes, FileTypes
  <2>3. RestTypes'
    BY <1>10 DEF DaemonRestarts, RestTypes, Verdicts
  <2>4. QED
    BY <1>10, <2>1, <2>2, <2>3, Kept DEF DaemonRestarts
<1>11. CASE UNCHANGED vars
  BY <1>11, Kept DEF vars, file, seen
<1>12. QED
  BY <1>1, <1>2, <1>3, <1>4, <1>5, <1>6, <1>7, <1>8, <1>9, <1>10, <1>11, NamesOf DEF Next, Watcher

LEMMA TypeInit == Init => TypeOK
<1> SUFFICES ASSUME Init PROVE TypeOK
  OBVIOUS
<1>1. FileTypes
  BY DEF Init, FileTypes, Content, Inode, NoFile
<1>2. SessionTypes
  BY DEF Init, SessionTypes
<1>r. RestTypes
  <2>1. writes \in 0 .. MaxWrites
    BY DEF Init
  <2>2. last \in Verdicts /\ missed \in BOOLEAN
    BY Zenon DEF Init, Verdicts
  <2>3. QED
    BY <2>1, <2>2 DEF RestTypes
<1>3. SeenTypes
  <2>1. <<>> \in Seq(Event) /\ <<>> \in Seq(Kind)
    BY EmptySeq
  <2>2. watch \in [on : BOOLEAN, file : Inode \cup {NoFile}]
    BY <1>1 DEF Init, FileTypes
  <2>3. QED
    BY <2>1, <2>2 DEF Init, SeenTypes
<1>4. JobTypes
  BY IdleIsJob DEF Init, JobTypes
<1>5. QED
  BY <1>1, <1>2, <1>r, <1>3, <1>4, TypeParts

-------------------------------------------------------------------------------
(* A change is on its way *)

Waiting == {queue[k] : k \in DOMAIN queue}

\* Something is under way that the watcher will look at the file for.
Pending ==
    \/ \E e \in Waiting : e.kind # "written" \/ (e.file = path /\ path # NoFile)
    \/ events # <<>>
    \/ job["watcher"].pc \in {"scrub", "clear", "cleared", "record"}
    \/ \E a \in Slot : job[a].pc \in {"fill", "cleared"} /\ job[a].fd = path /\ path # NoFile

Recorded == watch.on /\ last # "none" => last = Verdict \/ Pending

\* The watch is on the file the path names, or will be.
Watched ==
    watch.on /\ path # NoFile /\ watch.file # path => \E e \in Waiting : e.kind = "replaced"

WatcherPc == job["watcher"].pc \in {"idle", "scrub", "clear", "cleared", "record", "tree", "swap"}

CredInv == TypeOK /\ Watched /\ Recorded /\ WatcherPc

LEMMA Appended ==
    ASSUME TypeOK, NEW kind \in Kind, NEW i \in Inode \cup {NoFile}, queue' = Notified(kind, i)
    PROVE  Waiting' = Waiting \cup {[kind |-> kind, file |-> i]}
<1> DEFINE e == [kind |-> kind, file |-> i]
<1>1. queue \in Seq(Event) /\ e \in Event
  BY QueueTypes DEF Event
<1>2. queue' = Append(queue, e)
  BY DEF Notified
<1> HIDE DEF e
<1>3. /\ Len(queue') = Len(queue) + 1 /\ queue' \in Seq(Event)
      /\ \A k \in 1 .. Len(queue) : queue'[k] = queue[k]
      /\ queue'[Len(queue) + 1] = e
  BY <1>1, <1>2, AppendProperties
<1>4. /\ DOMAIN queue = 1 .. Len(queue) /\ Len(queue) \in Nat
      /\ DOMAIN queue' = 1 .. Len(queue) + 1
  BY <1>1, <1>3
<1>5. Waiting' = Waiting \cup {e}
  BY <1>3, <1>4 DEF Waiting
<1>6. QED
  BY <1>5 DEF e

LEMMA Delivered ==
    ASSUME TypeOK, queue # <<>>, queue' = Tail(queue)
    PROVE  Waiting = Waiting' \cup {Head(queue)}
<1>1. queue \in Seq(Event)
  BY QueueTypes
<1>2. /\ Len(queue') = Len(queue) - 1 /\ queue' \in Seq(Event)
      /\ \A k \in 1 .. Len(queue') : queue'[k] = queue[k + 1]
      /\ Head(queue) = queue[1]
  BY <1>1, HeadTailProperties
<1>3. /\ DOMAIN queue = 1 .. Len(queue) /\ Len(queue) \in Nat \ {0}
      /\ DOMAIN queue' = 1 .. Len(queue) - 1
  BY <1>1, <1>2, EmptySeq
<1>4. ASSUME NEW k \in 1 .. Len(queue), k # 1 PROVE queue[k] \in Waiting'
  <2>1. k - 1 \in 1 .. Len(queue') /\ queue'[k - 1] = queue[k]
    BY <1>2, <1>3, <1>4
  <2>2. QED
    BY <1>2, <1>3, <2>1 DEF Waiting
<1>5. \A k \in 1 .. Len(queue') : queue'[k] \in Waiting
  <2>1. ASSUME NEW k \in 1 .. Len(queue') PROVE k + 1 \in 1 .. Len(queue) /\ queue'[k] = queue[k + 1]
    BY <1>2, <1>3
  <2>2. QED
    BY <1>3, <2>1 DEF Waiting
<1>6. Head(queue) \in Waiting
  BY <1>2, <1>3 DEF Waiting
<1>7. QED
  BY <1>2, <1>3, <1>4, <1>5, <1>6 DEF Waiting

\* Of what is closed, comes or goes, the queue loses nothing; a file that the watch
\* is on or will be is heard of.
LEMMA Heard ==
    ASSUME TypeOK, Watched, NEW i \in Inode \cup {NoFile}, UNCHANGED <<path, watch>>, Closed(i)
    PROVE  /\ Waiting \subseteq Waiting'
           /\ watch.on /\ i = path /\ path # NoFile => Pending'
<1>1. CASE watch.on /\ watch.file = i
  <2>1. Waiting' = Waiting \cup {[kind |-> "written", file |-> i]}
    BY <1>1, Appended DEF Closed, Kind
  <2> DEFINE new == [kind |-> "written", file |-> i]
  <2>a. new.file = i /\ new \in Waiting'
    BY <2>1
  <2> HIDE DEF new
  <2>2. \E e \in Waiting' : e.file = i
    BY <2>a
  <2>3. i = path /\ path # NoFile => Pending'
    BY <2>2 DEF Pending
  <2>4. QED
    BY <2>1, <2>3
<1>2. CASE ~(watch.on /\ watch.file = i)
  <2>1. Waiting' = Waiting
    BY <1>2 DEF Closed, Waiting
  <2>2. QED
    BY <1>2, <2>1 DEF Watched, Pending
<1>3. QED
  BY <1>1, <1>2

LEMMA CameOrWent ==
    ASSUME TypeOK, watch.on, UNCHANGED watch, NEW kind \in {"replaced", "removed"},
           queue' = Notified(kind, NoFile), kind = "removed" => path' = NoFile
    PROVE  Pending' /\ Watched'
<1>1. Waiting' = Waiting \cup {[kind |-> kind, file |-> NoFile]}
  BY Appended DEF Kind
<1> DEFINE new == [kind |-> kind, file |-> NoFile]
<1>a. new.kind = kind /\ new \in Waiting'
  BY <1>1
<1> HIDE DEF new
<1>2. \E e \in Waiting' : e.kind = kind
  BY <1>a
<1>3. Pending'
  BY <1>2 DEF Pending
<1>4. Watched'
  BY <1>2 DEF Watched
<1>5. QED
  BY <1>3, <1>4

\* The step leaves the path and the watch, and nothing that is pending is lost.
LEMMA Carries ==
    ASSUME TypeOK, Watched, Recorded, UNCHANGED <<path, watch, last>>, Waiting \subseteq Waiting',
           watch.on => (Pending => Pending') /\ (path # NoFile => content'[path] = content[path] \/ Pending')
    PROVE  Watched' /\ Recorded'
<1>1. Watched'
  BY DEF Watched
<1>2. CASE watch.on /\ ~Pending'
  <2>1. path # NoFile => content'[path] = content[path]
    BY <1>2
  <2>2. Verdict' = Verdict
    <3>1. CASE path = NoFile
      BY <3>1 DEF Verdict
    <3>2. CASE path # NoFile
      <4>1. path' = path /\ content'[path'] = content[path]
        BY <2>1, <3>2
      <4>2. content[path] \in Content
        BY <3>2 DEF TypeOK
      <4>3. QED
        BY <3>2, <4>1, <4>2 DEF Content, Verdict
    <3>3. QED
      BY <3>1, <3>2
  <2>3. ~Pending
    BY <1>2
  <2>4. QED
    BY <1>1, <2>2, <2>3 DEF Recorded
<1>3. QED
  BY <1>1, <1>2 DEF Recorded

\* a alone moves, and not out of the middle of a write.
Alone(a) == \A b \in Actor : b # a => job'[b] = job[b]

LEMMA AloneMoves ==
    ASSUME NEW a \in Actor, JobTypes
    PROVE  /\ \A pc : Goto(a, pc) => Alone(a) /\ job'[a] = [job[a] EXCEPT !.pc = pc]
           /\ \A pc, i : GotoWith(a, pc, i) => Alone(a) /\ job'[a].pc = pc /\ job'[a].fd = i
           /\ Answer(a) => Alone(a) /\ job'[a] = Idle
           /\ \A new : job' = [job EXCEPT ![a] = new] => Alone(a) /\ job'[a] = new
<1>1. job[a] \in Job
  BY DEF JobTypes
<1>2. ASSUME NEW pc, NEW i, GotoWith(a, pc, i)
      PROVE  Alone(a) /\ job'[a].pc = pc /\ job'[a].fd = i
  <2> DEFINE new == [job[a] EXCEPT !.pc = pc, !.fd = i]
  <2>1. new.pc = pc /\ new.fd = i
    BY <1>1 DEF Job
  <2>2. job' = [job EXCEPT ![a] = new]
    BY <1>2 DEF GotoWith, JobTypes
  <2> HIDE DEF new
  <2>3. QED
    BY <2>1, <2>2 DEF JobTypes, Alone
<1>3. QED
  BY <1>2 DEF JobTypes, Alone, Goto, Answer

\* Whoever moves without having been in the middle of a write, and without having a
\* change to record, loses nothing that is pending.
LEMMA Bystander ==
    ASSUME TypeOK, NEW a \in Actor, Alone(a), path' = path, events' = events, Waiting \subseteq Waiting',
           a \in Slot => job[a].pc \notin {"fill", "cleared"} \/ ~(job[a].fd = path /\ path # NoFile),
           a = "watcher" => \/ job[a].pc \notin {"scrub", "clear", "cleared", "record"}
                            \/ job'[a].pc \in {"scrub", "clear", "cleared", "record"}
    PROVE  Pending => Pending'
<1> USE NamesOf
<1>1. CASE \E e \in Waiting : e.kind # "written" \/ (e.file = path /\ path # NoFile)
  BY <1>1 DEF Pending
<1>2. CASE events # <<>>
  BY <1>2 DEF Pending
<1>3. CASE job["watcher"].pc \in {"scrub", "clear", "cleared", "record"}
  BY <1>3 DEF Pending, Alone
<1>4. CASE \E b \in Slot : job[b].pc \in {"fill", "cleared"} /\ job[b].fd = path /\ path # NoFile
  <2>1. PICK b \in Slot : job[b].pc \in {"fill", "cleared"} /\ job[b].fd = path /\ path # NoFile
    BY <1>4
  <2>2. b # a
    BY <2>1
  <2>3. job'[b] = job[b]
    BY <2>2 DEF Alone
  <2>4. QED
    BY <2>1, <2>3 DEF Pending
<1>5. QED
  BY <1>1, <1>2, <1>3, <1>4 DEF Pending

\* The steps that leave the file and inotify alone.
LEMMA Quiet ==
    ASSUME CredInv, NEW a \in Actor, Alone(a), UNCHANGED <<file, seen, last>>,
           job[a].pc \notin {"fill", "cleared", "record"},
           a = "watcher" => /\ WatcherPc'
                            /\ job[a].pc \in {"scrub", "clear"} => job'[a].pc \in {"clear", "record"}
    PROVE  Watched' /\ Recorded' /\ WatcherPc'
<1>1. path' = path /\ content' = content /\ watch' = watch /\ Waiting' = Waiting /\ events' = events
  BY DEF file, seen, Waiting
<1>2. Pending => Pending'
  BY <1>1, Bystander DEF CredInv
<1>3. WatcherPc'
  BY NamesOf DEF CredInv, WatcherPc, Alone
<1>4. QED
  BY <1>1, <1>2, <1>3, Carries DEF CredInv

LEMMA QuietSteps ==
    ASSUME CredInv, NEW a \in Actor,
           Ensure(a) \/ Run(a) \/ Scrub(a) \/ Stale(a) \/ Tree(a) \/ Swap(a)
    PROVE  Watched' /\ Recorded' /\ WatcherPc'
<1>0. TypeOK /\ JobTypes /\ job[a] \in Job /\ (a = "watcher" => job[a].pc \notin {"ensure", "run", "stale"})
  BY TypeParts DEF CredInv, WatcherPc, JobTypes
<1>1. CASE Ensure(a)
  <2>1. Alone(a) /\ job[a].pc = "ensure"
    BY <1>0, <1>1, AloneMoves DEF Ensure, On
  <2>2. QED
    BY <1>0, <1>1, <2>1, Quiet DEF Ensure
<1>2. CASE Run(a)
  <2>1. Alone(a) /\ job[a].pc = "run"
    BY <1>0, <1>2, AloneMoves DEF Run, On
  <2>2. QED
    BY <1>0, <1>2, <2>1, Quiet DEF Run
<1>3. CASE Scrub(a)
  <2>1. Alone(a) /\ job[a].pc = "scrub"
    BY <1>0, <1>3, AloneMoves DEF Scrub, Scrubbed, On
  <2>2. a = "watcher" => job'[a].pc \in {"clear", "record"}
    <3>1. a = "watcher" => Goto(a, "clear") \/ Goto(a, "record")
      BY <1>3 DEF Scrub, Scrubbed
    <3>2. \A pc : Goto(a, pc) => job'[a].pc = pc
      <4>1. \A pc : [job[a] EXCEPT !.pc = pc].pc = pc
        BY <1>0 DEF Job
      <4>2. QED
        BY <1>0, <4>1, AloneMoves
    <3>3. QED
      BY <3>1, <3>2
  <2>3. QED
    BY <1>0, <1>3, <2>1, <2>2, Quiet DEF Scrub, WatcherPc
<1>4. CASE Stale(a)
  <2>1. Alone(a) /\ job[a].pc = "stale"
    BY <1>0, <1>4, AloneMoves DEF Stale, On
  <2>2. QED
    BY <1>0, <1>4, <2>1, Quiet DEF Stale
<1>5. CASE Tree(a)
  <2>1. ASSUME NEW s \in job[a].todo, job' = [job EXCEPT ![a].todo = @ \ {s}]
        PROVE  Alone(a) /\ job'[a].pc = job[a].pc
    BY <1>0, <2>1 DEF Alone, Job, JobTypes
  <2>2. Alone(a) /\ job[a].pc = "tree" /\ job'[a].pc \in {"idle", "tree", "swap"}
    <3>1. CASE Answer(a)
      <4>1. Alone(a) /\ job'[a] = Idle
        BY <1>0, <3>1, AloneMoves
      <4>2. job[a].pc = "tree"
        BY <1>5 DEF Tree, On
      <4>3. QED
        BY <4>1, <4>2 DEF Idle
    <3>2. CASE GotoWith(a, "swap", path)
      <4>1. Alone(a) /\ job'[a].pc = "swap"
        BY <1>0, <3>2, AloneMoves
      <4>2. job[a].pc = "tree"
        BY <1>5 DEF Tree, On
      <4>3. QED
        BY <4>1, <4>2
    <3>3. QED
      BY <1>5, <2>1, <3>1, <3>2 DEF Tree, On
  <2>3. QED
    BY <1>0, <1>5, <2>2, Quiet DEF Tree, WatcherPc
<1>6. CASE Swap(a)
  <2>1. PICK s \in job[a].todo :
           job' = [job EXCEPT ![a].pc = "tree", ![a].fd = NoFile, ![a].todo = @ \ {s}]
    BY <1>6 DEF Swap
  <2>2. Alone(a) /\ job'[a].pc = "tree"
    BY <1>0, <2>1 DEF Alone, Job, JobTypes
  <2>3. QED
    BY <1>0, <1>6, <2>2, Quiet DEF Swap, On, WatcherPc
<1>7. QED
  BY <1>1, <1>2, <1>3, <1>4, <1>5, <1>6

\* The steps that truncate the file: they end up in the middle of a write.
LEMMA Truncations ==
    ASSUME CredInv, NEW a \in Actor, Reset(a) \/ Clear(a)
    PROVE  Watched' /\ Recorded' /\ WatcherPc'
<1>0. TypeOK /\ JobTypes /\ job[a] \in Job /\ (a = "watcher" => ~On(a, "reset"))
  BY TypeParts DEF CredInv, WatcherPc, JobTypes, On
<1>1. UNCHANGED <<path, watch, last, queue, events>> /\ Waiting' = Waiting
  BY DEF Reset, Clear, seen, Waiting
<1>2. CASE path = NoFile
  <2>1. content' = content /\ Alone(a) /\ job[a].pc \in {"reset", "clear"}
    BY <1>0, <1>2, AloneMoves DEF Reset, Clear, Truncates, Scrubbed, On
  <2>2. a = "watcher" => job'[a].pc = "record"
    BY <1>0, <1>2, AloneMoves DEF Reset, Clear, Truncates, Scrubbed, Job, On
  <2>3. QED
    BY <1>0, <1>1, <2>1, <2>2, Quiet DEF file, seen, WatcherPc
<1>3. CASE path # NoFile
  <2>1. PICK pc \in {"fill", "cleared"} :
          /\ GotoWith(a, pc, path)
          /\ a = "watcher" => pc = "cleared"
          /\ job[a].pc \in {"reset", "clear"}
    BY <1>0, <1>3 DEF Reset, Clear, Truncates, On
  <2>2. Alone(a) /\ job'[a].pc = pc /\ job'[a].fd = path
    BY <1>0, <2>1, AloneMoves
  <2>3. Pending'
    <3>1. CASE a = "watcher"
      BY <2>1, <2>2, <3>1 DEF Pending
    <3>2. CASE a \in Slot
      BY <1>1, <1>3, <2>1, <2>2, <3>2 DEF Pending
    <3>3. QED
      BY <3>1, <3>2 DEF Actor
  <2>4. WatcherPc'
    BY <2>1, <2>2, NamesOf DEF CredInv, WatcherPc, Alone
  <2>5. QED
    BY <1>0, <1>1, <2>3, <2>4, Carries DEF CredInv
<1>4. QED
  BY <1>2, <1>3

\* The steps that write the file and close it: the watch hears of them.
LEMMA Writes ==
    ASSUME CredInv, NEW a \in Actor, Fill(a) \/ Cleared(a)
    PROVE  Watched' /\ Recorded' /\ WatcherPc'
<1>0. /\ TypeOK /\ JobTypes /\ FileTypes /\ job[a] \in Job
      /\ a = "watcher" => ~On(a, "fill")
  BY TypeParts DEF CredInv, WatcherPc, JobTypes, On
<1>1. /\ UNCHANGED <<path, watch, last, events>> /\ Closed(job[a].fd)
      /\ job[a].fd \in Inode \cup {NoFile}
      /\ job[a].fd # path => (path # NoFile => content'[path] = content[path])
  BY <1>0 DEF Fill, Cleared, FileTypes, Job
<1>2. Alone(a) /\ (a = "watcher" => job'[a].pc = "record")
  <2>1. CASE Fill(a)
    BY <1>0, <2>1, AloneMoves DEF Fill
  <2>2. CASE Cleared(a)
    <3> DEFINE new == IF a = "watcher" THEN [job[a] EXCEPT !.pc = "record", !.fd = NoFile] ELSE Idle
    <3>1. job' = [job EXCEPT ![a] = new] /\ (a = "watcher" => new.pc = "record")
      BY <1>0, <2>2 DEF Cleared, Job
    <3> HIDE DEF new
    <3>2. QED
      BY <1>0, <3>1, AloneMoves
  <2>3. QED
    BY <2>1, <2>2
<1>3. /\ Waiting \subseteq Waiting'
      /\ watch.on /\ job[a].fd = path /\ path # NoFile => Pending'
  BY <1>0, <1>1, Heard DEF CredInv
<1>4. watch.on => (Pending => Pending')
  <2>1. CASE job[a].fd = path /\ path # NoFile
    BY <1>3, <2>1
  <2>2. CASE ~(job[a].fd = path /\ path # NoFile)
    BY <1>0, <1>1, <1>2, <1>3, <2>2, Bystander
  <2>3. QED
    BY <2>1, <2>2
<1>5. WatcherPc'
  BY <1>2, NamesOf DEF CredInv, WatcherPc, Alone
<1>6. QED
  BY <1>0, <1>1, <1>3, <1>4, <1>5, Carries DEF CredInv

\* What comes to the path or leaves it is announced.
LEMMA Announcements ==
    ASSUME CredInv,
           \/ \E a \in Actor : EnsureNew(a)
           \/ \E s \in Session : WritesByRename(s)
           \/ Remove
    PROVE  Watched' /\ Recorded' /\ WatcherPc'
<1>0. TypeOK /\ JobTypes
  BY TypeParts DEF CredInv
<1>1. watch' = watch /\ last' = last
  BY DEF EnsureNew, WritesByRename, Remove
<1>2. watch.on => \E kind \in {"replaced", "removed"} :
          queue' = Notified(kind, NoFile) /\ (kind = "removed" => path' = NoFile)
  BY DEF EnsureNew, WritesByRename, Remove, Arrived
<1>3. watch.on => Pending' /\ Watched'
  BY <1>0, <1>1, <1>2, CameOrWent
<1>4. WatcherPc'
  <2>1. CASE \E a \in Actor : EnsureNew(a)
    <3>1. PICK a \in Actor : EnsureNew(a)
      BY <2>1
    <3>2. a # "watcher" /\ Alone(a)
      BY <1>0, <3>1, AloneMoves DEF EnsureNew, On, CredInv, WatcherPc
    <3>3. QED
      BY <3>2, NamesOf DEF CredInv, WatcherPc, Alone
  <2>2. CASE job' = job
    BY <2>2 DEF CredInv, WatcherPc
  <2>3. QED
    BY <2>1, <2>2 DEF WritesByRename, Remove
<1>5. QED
  BY <1>1, <1>3, <1>4 DEF Watched, Recorded

\* The inotify thread drops only what is of a file that the path has left.
LEMMA NoticeKeeps ==
    ASSUME CredInv, Notice
    PROVE  Watched' /\ Recorded' /\ WatcherPc'
<1> DEFINE e == Head(queue)
<1>0. TypeOK /\ Watched /\ Recorded /\ UNCHANGED <<path, content, job, last>> /\ SeenTypes
  BY TypeParts DEF CredInv, Notice, file
<1>1. Waiting = Waiting' \cup {e} /\ e \in Event
  BY <1>0, Delivered, QueueTypes DEF Notice
<1>2. /\ events' = IF e.kind # "written" \/ e.file = watch.file THEN Append(events, e.kind) ELSE events
      /\ watch' = IF e.kind = "replaced" THEN [watch EXCEPT !.file = path] ELSE watch
  BY DEF Notice, Rearmed
<1> HIDE DEF e
<1>3. watch'.on = watch.on /\ (e.kind = "replaced" => watch'.file = path)
  BY <1>0, <1>2 DEF SeenTypes
<1>4. Watched'
  <2>1. CASE e.kind = "replaced"
    BY <1>0, <1>3, <2>1 DEF Watched
  <2>2. CASE e.kind # "replaced"
    BY <1>0, <1>1, <1>2, <2>2 DEF Watched
  <2>3. QED
    BY <2>1, <2>2
<1>5. e.kind # "written" \/ e.file = watch.file => events' # <<>>
  <2>1. e.kind \in Kind /\ events \in Seq(Kind)
    BY <1>0, <1>1 DEF SeenTypes, Event
  <2>2. Append(events, e.kind) # <<>>
    BY <2>1, AppendProperties
  <2>3. QED
    BY <1>2, <2>2
<1>6. watch.on /\ Pending => Pending'
  <2>1. CASE e.kind # "written" \/ e.file = watch.file
    BY <1>5, <2>1 DEF Pending
  <2>2. CASE e.kind = "written" /\ e.file # watch.file
    <3>1. CASE e.file = path /\ path # NoFile /\ watch.on
      <4>1. \E w \in Waiting' : w.kind = "replaced"
        BY <1>0, <1>1, <2>2, <3>1 DEF Watched
      <4>2. QED
        BY <4>1 DEF Pending
    <3>2. CASE ~(e.file = path /\ path # NoFile)
      <4>1. events' = events
        BY <1>2, <2>2
      <4>2. QED
        BY <1>0, <1>1, <2>2, <3>2, <4>1 DEF Pending
    <3>3. QED
      BY <3>1, <3>2
  <2>3. QED
    BY <2>1, <2>2
<1>7. Verdict' = Verdict
  BY <1>0 DEF Verdict
<1>8. Recorded'
  BY <1>0, <1>3, <1>6, <1>7 DEF Recorded
<1>9. QED
  BY <1>0, <1>4, <1>8 DEF CredInv, WatcherPc

LEMMA StepKeeps ==
    ASSUME CredInv, [Next]_vars
    PROVE  Watched' /\ Recorded' /\ WatcherPc'
<1>0. TypeOK /\ JobTypes /\ SessionTypes /\ FileTypes /\ Watched /\ Recorded
  BY TypeParts DEF CredInv
<1>1. ASSUME NEW a \in Slot, NEW s \in Session, Begin(a, s) PROVE Watched' /\ Recorded' /\ WatcherPc'
  <2>1. Alone(a) /\ a # "watcher" /\ a \in Actor
    BY <1>0, <1>1, NamesOf, AloneMoves DEF Begin
  <2>2. QED
    BY <1>1, <2>1, Quiet DEF Begin, On
<1>2. ASSUME NEW a \in Actor, Progress(a) PROVE Watched' /\ Recorded' /\ WatcherPc'
  BY <1>2, QuietSteps, Truncations, Writes, Announcements DEF Progress
<1>3. CASE Take
  <2> DEFINE new == [Idle EXCEPT !.pc = "scrub", !.todo = running, !.kind = Head(events)]
  <2>1. new.pc = "scrub" /\ job' = [job EXCEPT !["watcher"] = new]
    BY <1>3 DEF Take, Idle
  <2> HIDE DEF new
  <2>2. job'["watcher"].pc = "scrub"
    BY <1>0, <2>1, NamesOf DEF JobTypes
  <2>3. Pending' /\ WatcherPc'
    BY <2>2 DEF Pending, WatcherPc
  <2>4. Watched'
    BY <1>0, <1>3 DEF Take, Watched, Waiting, file
  <2>5. QED
    BY <2>3, <2>4 DEF Recorded
<1>4. CASE Record
  <2>1. UNCHANGED <<path, content, watch, queue>> /\ last' = Verdict
    BY <1>4 DEF Record, file, seen
  <2>2. Verdict' = Verdict
    <3>1. UNCHANGED <<path, content>>
      BY <2>1
    <3>2. QED
      BY <3>1 DEF Verdict
  <2>3. Recorded' /\ Watched'
    BY <1>0, <2>1, <2>2 DEF Recorded, Watched, Waiting
  <2>4. job'["watcher"].pc \in {"tree", "idle"}
    <3>1. \A pc : Goto("watcher", pc) => job'["watcher"].pc = pc
      <4>1. job["watcher"] \in Job
        BY <1>0, NamesOf DEF JobTypes
      <4>2. \A pc : [job["watcher"] EXCEPT !.pc = pc].pc = pc
        BY <4>1 DEF Job
      <4>3. QED
        BY <1>0, <4>2, NamesOf, AloneMoves
    <3>2. Answer("watcher") => job'["watcher"].pc = "idle"
      BY <1>0, NamesOf, AloneMoves DEF Idle
    <3>3. QED
      BY <1>4, <3>1, <3>2 DEF Record
  <2>5. QED
    BY <2>3, <2>4 DEF WatcherPc
<1>5. ASSUME NEW s \in Session, WritesInPlace(s) PROVE Watched' /\ Recorded' /\ WatcherPc'
  <2>1. /\ UNCHANGED <<path, watch, last, events, job>> /\ Closed(pin[s]) /\ pin[s] \in Inode \cup {NoFile}
        /\ pin[s] # path => (path # NoFile => content'[path] = content[path])
    BY <1>0, <1>5 DEF WritesInPlace, SessionTypes, FileTypes
  <2>2. /\ Waiting \subseteq Waiting'
        /\ watch.on /\ pin[s] = path /\ path # NoFile => Pending'
    BY <1>0, <2>1, Heard
  <2>3. Pending => Pending'
    BY <2>1, <2>2 DEF Pending
  <2>4. QED
    BY <1>0, <2>1, <2>2, <2>3, Carries DEF CredInv, WatcherPc
<1>6. CASE UNCHANGED <<path, content, watch, queue, events, job, last>>
  <2>1. Verdict' = Verdict
    BY <1>6 DEF Verdict
  <2>2. Pending' = Pending
    BY <1>6 DEF Pending, Waiting
  <2>3. Watched'
    BY <1>0, <1>6 DEF Watched, Waiting
  <2>4. QED
    BY <1>0, <1>6, <2>1, <2>2, <2>3 DEF Recorded, CredInv, WatcherPc
<1>7. CASE DaemonRestarts
  <2>1. last' = "none" /\ path' = path /\ watch'.file = path /\ job'["watcher"] = Idle
    BY <1>7, NamesOf DEF DaemonRestarts, file
  <2>2. QED
    BY <2>1 DEF Watched, Recorded, WatcherPc, Idle
<1>8. QED
  BY <1>1, <1>2, <1>3, <1>4, <1>5, <1>6, <1>7, NoticeKeeps, Announcements, NamesOf
  DEF Next, Watcher, SessionEnds, vars, file, seen

LEMMA CredInitially == Init => CredInv
<1> SUFFICES ASSUME Init PROVE CredInv
  OBVIOUS
<1>1. Watched /\ Recorded /\ WatcherPc
  BY NamesOf DEF Init, Watched, Recorded, WatcherPc, Idle
<1>2. QED
  BY <1>1, TypeInit DEF CredInv

LEMMA CredAlways == Spec => []CredInv
<1>1. CredInv /\ [Next]_vars => CredInv'
  BY TypeStep, StepKeeps DEF CredInv
<1>2. QED
  BY <1>1, CredInitially, PTL DEF Spec

\* Every reachable state is well typed.
THEOREM CredentialTypes == Spec => []TypeOK
<1>1. CredInv => TypeOK
  BY DEF CredInv
<1>2. QED
  BY <1>1, CredAlways, PTL

\* Once the watcher has dealt with all it was told and nobody is in the middle of a write,
\* the verdict that status reports is the file's (credential_watch.rs, auth.rs).
THEOREM StatusTellsTheFile == Spec => []RecordTellsTheFile
<1>1. CredInv => RecordTellsTheFile
  <2> SUFFICES ASSUME CredInv, Settled, last # "none" PROVE last = Verdict
    BY DEF RecordTellsTheFile
  <2>1. Waiting = {}
    BY DEF Settled, Waiting
  <2>2. ~Pending
    BY <2>1 DEF Settled, Pending, On
  <2>3. QED
    BY <2>2 DEF CredInv, Recorded, Settled
<1>2. QED
  BY <1>1, CredAlways, PTL


-------------------------------------------------------------------------------
(* Attach: the types, a variable or two at a time *)

\* A ticket that opens a socket is spent.
GateInv ==
    /\ gate \in [cookie : BOOLEAN, ticket : {"none", "fresh", "dead"}, opened : 0..1]
    /\ gate.ticket = "fresh" => gate.opened = 0

InputInv == input \in [fifo : 0..FifoSize, held : BOOLEAN, open : BOOLEAN, eot : BOOLEAN]

OutputInv ==
    /\ output \in [made : 0..MaxOut, copied : 0..MaxOut, pumped : 0..MaxOut, sent : 0..MaxOut,
                   got : 0..MaxOut]
    /\ output.got <= output.sent /\ output.sent <= output.pumped
    /\ output.pumped <= output.copied /\ output.copied <= output.made

\* What is in the stream was typed.
InboxInv ==
    /\ inbox \in [data : 0..MaxIn, eof : BOOLEAN] /\ typed \in 0..MaxIn + 1
    /\ inbox.data <= typed

DirInv == pid \in 1..MaxPid /\ dir \in 0..pid

TaskInv ==
    /\ call \in {"page", "frame", "link", "dirs", "exec", "open", "start", "spawn", "over"}
    /\ task \in {"none", "select", "write", "close", "eot", "endClose", "delete", "stop", "join",
                 "exit", "rmdir", "done"}
    /\ wait \in {"no", "asked", "answered"} /\ timer \in BOOLEAN

OthersInv ==
    /\ exec \in {"none", "created", "running", "exited"}
    /\ tty \in BOOLEAN /\ attentive \in BOOLEAN
    /\ pump \in {"none", "poll", "send", "ended"} /\ stop \in BOOLEAN
    /\ client \in {"reading", "stalled", "gone"}
    /\ exit \in {"no", "sent", "got"} /\ excused \in BOOLEAN

TypesInv == GateInv /\ InputInv /\ OutputInv /\ InboxInv /\ DirInv /\ TaskInv /\ OthersInv

LEMMA TypesBegin == AttachInit => TypesInv
<1> SUFFICES ASSUME AttachInit PROVE TypesInv
  OBVIOUS
<1>1. GateInv /\ InputInv /\ OutputInv /\ InboxInv
  BY AttachConstants DEF AttachInit, GateInv, InputInv, OutputInv, InboxInv
<1>2. DirInv /\ TaskInv /\ OthersInv
  <2>1. tty \in BOOLEAN /\ attentive \in BOOLEAN
    BY DEF AttachInit
  <2>2. DirInv /\ TaskInv
    <3>1. pid = 1 /\ dir = 0 /\ call \in {"page", "dirs"}
      BY DEF AttachInit
    <3>2. task = "none" /\ wait = "no" /\ timer = FALSE
      BY DEF AttachInit
    <3>3. QED
      <4>1. MaxPid \in Nat \ {0}
        BY AttachConstants
      <4>2. DirInv
        BY <3>1, <4>1 DEF DirInv
      <4>3. QED
        BY <3>1, <3>2, <4>2 DEF TaskInv
  <2>3. QED
    BY <2>1, <2>2 DEF AttachInit, OthersInv
<1>3. QED
  BY <1>1, <1>2 DEF TypesInv

LEMMA GateStays ==
    ASSUME TypesInv, AttachNext
    PROVE  GateInv'
<1>1. CASE Exchange
  BY <1>1, AttachConstants DEF Exchange, TypesInv, GateInv
<1>2. CASE MintTicket
  <2>1. gate' = [cookie |-> gate.cookie, ticket |-> "fresh", opened |-> 0]
    BY <1>2 DEF MintTicket, TypesInv, GateInv
  <2>2. QED
    BY <2>1 DEF TypesInv, GateInv
<1>3. CASE TicketDies
  BY <1>3, AttachConstants DEF TicketDies, TypesInv, GateInv
<1>4. CASE Handshake
  <2>1. gate.opened = 0
    BY <1>4 DEF Handshake, TypesInv, GateInv
  <2>2. gate' = [cookie |-> gate.cookie, ticket |-> "none", opened |-> 1]
    <3>1. PICK s : s = Spent
      OBVIOUS
    <3>2. s = [cookie |-> gate.cookie, ticket |-> "none", opened |-> 0]
      BY <2>1, <3>1 DEF Spent, TypesInv, GateInv
    <3>3. gate' = [s EXCEPT !.opened = @ + 1]
      BY <1>4, <3>1 DEF Handshake
    <3>4. QED
      BY <3>2, <3>3
  <2>3. QED
    BY <2>2 DEF TypesInv, GateInv
<1>5. CASE HandshakeRefused
  BY <1>5, AttachConstants DEF HandshakeRefused, Spent, TypesInv, GateInv
<1>6. CASE UNCHANGED gate
  BY <1>6 DEF TypesInv, GateInv
<1>7. QED
  BY <1>1, <1>2, <1>3, <1>4, <1>5, <1>6 DEF AttachNext, Page, Call, Loop, Teardown, Pump,
     FirstFrame, Link, AttachDirs, AttachExec, AttachOpen, AttachStart, AttachSpawn, AttachFails,
     OtherAttach, WaitAnswered, WaitFails, Exits, Receive, Write, WriteEot, CloseInput, Fallback,
     EndClose, DeleteExec, StopPumps, JoinPumps, SendExit, RemoveDir, PumpReads, PumpStops,
     PumpSends, ShellWrites, ShimCopies, ShellReads, ShellSeesEnd, ShellExits, ClientTypes,
     ClientEnds, ClientReads, ClientStalls, ClientGoes, PageGoes, NemrdRestarts, engine, loop,
     shell, stream, idle

LEMMA InputStays ==
    ASSUME TypesInv, AttachNext
    PROVE  InputInv'
<1>1. CASE AttachOpen
  BY <1>1, AttachConstants DEF AttachOpen, TypesInv, InputInv
<1>2. CASE AttachStart
  BY <1>2, AttachConstants DEF AttachStart, TypesInv, InputInv
<1>3. CASE AttachFails
  BY <1>3, AttachConstants DEF AttachFails, TypesInv, InputInv
<1>4. CASE Write
  BY <1>4, AttachConstants DEF Write, TypesInv, InputInv
<1>5. CASE WriteEot
  <2>1. CASE input.held
    <3>1. PICK n \in 0..FifoSize : n = input.fifo + 1
      BY <1>5, <2>1, AttachConstants DEF WriteEot, TypesInv, InputInv
    <3>2. input' = [fifo |-> n, held |-> input.held, open |-> input.open, eot |-> TRUE]
      BY <1>5, <2>1, <3>1 DEF WriteEot, TypesInv, InputInv
    <3>3. QED
      BY <3>2 DEF TypesInv, InputInv
  <2>2. CASE ~input.held
    BY <1>5, <2>2 DEF WriteEot, TypesInv, InputInv
  <2>3. QED
    BY <2>1, <2>2
<1>6. CASE CloseInput
  BY <1>6, AttachConstants DEF CloseInput, EndInput, TypesInv, InputInv
<1>7. CASE Fallback
  BY <1>7, AttachConstants DEF Fallback, TypesInv, InputInv
<1>8. CASE EndClose
  BY <1>8, AttachConstants DEF EndClose, TypesInv, InputInv
<1>9. CASE RemoveDir
  BY <1>9, AttachConstants DEF RemoveDir, TypesInv, InputInv
<1>10. CASE ShellReads
  BY <1>10, AttachConstants DEF ShellReads, TypesInv, InputInv
<1>11. CASE NemrdRestarts
  BY <1>11, AttachConstants DEF NemrdRestarts, TypesInv, InputInv
<1>12. CASE UNCHANGED input
  BY <1>12 DEF TypesInv, InputInv
<1>13. QED
  BY <1>1, <1>2, <1>3, <1>4, <1>5, <1>6, <1>7, <1>8, <1>9, <1>10, <1>11, <1>12 DEF AttachNext,
     Page, Call, Loop, Teardown, Pump, Exchange, MintTicket, TicketDies, Handshake,
     HandshakeRefused, FirstFrame, Link, AttachDirs, AttachExec, AttachSpawn, OtherAttach,
     WaitAnswered, WaitFails, Exits, Receive, DeleteExec, StopPumps, JoinPumps, SendExit,
     PumpReads, PumpStops, PumpSends, ShellWrites, ShimCopies, ShellSeesEnd, ShellExits,
     ClientTypes, ClientEnds, ClientReads, ClientStalls, ClientGoes, PageGoes, engine, loop,
     shell, stream, idle

LEMMA OutputStays ==
    ASSUME TypesInv, AttachNext
    PROVE  OutputInv'
<1>1. CASE PumpReads
  BY <1>1, AttachConstants DEF PumpReads, InFifo, TypesInv, OutputInv
<1>2. CASE PumpSends
  BY <1>2, AttachConstants DEF PumpSends, TypesInv, OutputInv
<1>3. CASE ShellWrites
  BY <1>3, AttachConstants DEF ShellWrites, TypesInv, OutputInv
<1>4. CASE ShimCopies
  BY <1>4, AttachConstants DEF ShimCopies, TypesInv, OutputInv
<1>5. CASE ClientReads
  BY <1>5, AttachConstants DEF ClientReads, TypesInv, OutputInv
<1>6. CASE UNCHANGED output
  BY <1>6 DEF TypesInv, OutputInv
<1>7. QED
  BY <1>1, <1>2, <1>3, <1>4, <1>5, <1>6 DEF AttachNext, Page, Call, Loop, Teardown, Pump,
     Exchange, MintTicket, TicketDies, Handshake, HandshakeRefused, FirstFrame, Link, AttachDirs,
     AttachExec, AttachOpen, AttachStart, AttachSpawn, AttachFails, OtherAttach, WaitAnswered,
     WaitFails, Exits, Receive, Write, WriteEot, CloseInput, Fallback, EndClose, DeleteExec,
     StopPumps, JoinPumps, SendExit, RemoveDir, PumpStops, ShellReads, ShellSeesEnd, ShellExits,
     ClientTypes, ClientEnds, ClientStalls, ClientGoes, PageGoes, NemrdRestarts, engine, loop,
     shell, stream, idle

LEMMA InboxStays ==
    ASSUME TypesInv, AttachNext
    PROVE  InboxInv'
<1>1. CASE Receive
  <2>1. typed' = typed
    BY <1>1 DEF Receive, stream
  <2>2. CASE inbox' = [inbox EXCEPT !.data = @ - 1] /\ inbox.data > 0
    BY <2>1, <2>2, AttachConstants DEF TypesInv, InboxInv
  <2>3. CASE inbox' = [inbox EXCEPT !.eof = FALSE]
    BY <2>1, <2>3 DEF TypesInv, InboxInv
  <2>4. CASE inbox' = inbox
    BY <2>1, <2>4 DEF TypesInv, InboxInv
  <2>5. QED
    BY <1>1, <2>2, <2>3, <2>4 DEF Receive
<1>2. CASE ClientTypes
  BY <1>2, AttachConstants DEF ClientTypes, TypesInv, InboxInv, stream
<1>3. CASE ClientEnds
  <2>1. inbox' = [data |-> inbox.data, eof |-> TRUE] /\ typed' = MaxIn + 1
    BY <1>3 DEF ClientEnds, TypesInv, InboxInv
  <2>2. QED
    BY <2>1, AttachConstants DEF TypesInv, InboxInv
<1>4. CASE PageGoes
  BY <1>4, AttachConstants DEF PageGoes, TypesInv, InboxInv, stream
<1>5. CASE UNCHANGED <<inbox, typed>>
  BY <1>5 DEF TypesInv, InboxInv
<1>6. QED
  BY <1>1, <1>2, <1>3, <1>4, <1>5 DEF AttachNext, Page, Call, Loop, Teardown, Pump, Exchange,
     MintTicket, TicketDies, Handshake, HandshakeRefused, FirstFrame, Link, AttachDirs,
     AttachExec, AttachOpen, AttachStart, AttachSpawn, AttachFails, OtherAttach, WaitAnswered,
     WaitFails, Exits, Write, WriteEot, CloseInput, Fallback, EndClose, DeleteExec, StopPumps,
     JoinPumps, SendExit, RemoveDir, PumpReads, PumpStops, PumpSends, ShellWrites, ShimCopies,
     ShellReads, ShellSeesEnd, ShellExits, ClientReads, ClientStalls, ClientGoes, NemrdRestarts,
     engine, loop, shell, stream, idle

LEMMA DirStays ==
    ASSUME TypesInv, AttachNext
    PROVE  DirInv'
<1>1. CASE AttachDirs
  BY <1>1, AttachConstants DEF AttachDirs, TypesInv, DirInv
<1>2. CASE OtherAttach
  BY <1>2, AttachConstants DEF OtherAttach, Swept, TypesInv, DirInv
<1>3. CASE RemoveDir
  BY <1>3, AttachConstants DEF RemoveDir, TypesInv, DirInv
<1>4. CASE NemrdRestarts
  BY <1>4, AttachConstants DEF NemrdRestarts, TypesInv, DirInv
<1>5. CASE UNCHANGED <<pid, dir>>
  BY <1>5 DEF TypesInv, DirInv
<1>6. QED
  BY <1>1, <1>2, <1>3, <1>4, <1>5 DEF AttachNext, Page, Call, Loop, Teardown, Pump, Exchange,
     MintTicket, TicketDies, Handshake, HandshakeRefused, FirstFrame, Link, AttachExec,
     AttachOpen, AttachStart, AttachSpawn, AttachFails, WaitAnswered, WaitFails, Exits, Receive,
     Write, WriteEot, CloseInput, Fallback, EndClose, DeleteExec, StopPumps, JoinPumps, SendExit,
     PumpReads, PumpStops, PumpSends, ShellWrites, ShimCopies, ShellReads, ShellSeesEnd,
     ShellExits, ClientTypes, ClientEnds, ClientReads, ClientStalls, ClientGoes, PageGoes, engine,
     loop, shell, stream, idle

LEMMA TaskStays ==
    ASSUME TypesInv, AttachNext
    PROVE  TaskInv'
<1>1. CASE Page
  BY <1>1 DEF Page, Exchange, MintTicket, TicketDies, Handshake, HandshakeRefused, FirstFrame,
     Link, TypesInv, TaskInv, Loops, engine, loop, shell, stream, idle
<1>2. CASE Call \/ AttachFails \/ OtherAttach
  BY <1>2 DEF Call, AttachDirs, AttachExec, AttachOpen, AttachStart, AttachSpawn, AttachFails,
     OtherAttach, TypesInv, TaskInv, Loops, engine, loop, shell, stream, idle
<1>3. CASE WaitAnswered \/ WaitFails \/ Loop
  BY <1>3 DEF Loop, WaitAnswered, WaitFails, Exits, Receive, Write, WriteEot, CloseInput,
     Fallback, TypesInv, TaskInv, Loops, engine, loop, shell, stream, idle
<1>4. CASE Teardown
  BY <1>4 DEF Teardown, EndClose, DeleteExec, StopPumps, JoinPumps, SendExit, RemoveDir, TypesInv,
     TaskInv, Loops, engine, loop, shell, stream, idle
<1>5. CASE Pump
  BY <1>5 DEF Pump, PumpReads, PumpStops, PumpSends, TypesInv, TaskInv, Loops, engine, loop,
     shell, stream, idle
<1>6. CASE ShellWrites \/ ShimCopies \/ ShellReads \/ ShellSeesEnd \/ ShellExits
  BY <1>6 DEF ShellWrites, ShimCopies, ShellReads, ShellSeesEnd, ShellExits, TypesInv, TaskInv,
     Loops, engine, loop, shell, stream, idle
<1>7. CASE ClientTypes \/ ClientEnds \/ ClientReads \/ ClientStalls \/ ClientGoes \/ PageGoes
  BY <1>7 DEF ClientTypes, ClientEnds, ClientReads, ClientStalls, ClientGoes, PageGoes, TypesInv,
     TaskInv, Loops, engine, loop, shell, stream, idle
<1>8. CASE NemrdRestarts
  BY <1>8 DEF NemrdRestarts, TypesInv, TaskInv, Loops, engine, loop, shell, stream, idle
<1>9. QED
  BY <1>1, <1>2, <1>3, <1>4, <1>5, <1>6, <1>7, <1>8 DEF AttachNext

LEMMA OthersStay ==
    ASSUME TypesInv, AttachNext
    PROVE  OthersInv'
<1>1. CASE Page
  BY <1>1 DEF Page, Exchange, MintTicket, TicketDies, Handshake, HandshakeRefused, FirstFrame,
     Link, TypesInv, OthersInv, engine, loop, shell, stream, idle
<1>2. CASE Call \/ AttachFails \/ OtherAttach
  BY <1>2 DEF Call, AttachDirs, AttachExec, AttachOpen, AttachStart, AttachSpawn, AttachFails,
     OtherAttach, TypesInv, OthersInv, engine, loop, shell, stream, idle
<1>3. CASE WaitAnswered \/ WaitFails \/ Loop
  <2>1. UNCHANGED <<exec, tty, attentive, pump, stop, client, exit>> /\ excused' \in {excused, TRUE}
    BY <1>3 DEF Loop, WaitAnswered, WaitFails, Exits, Receive, Write, WriteEot, CloseInput,
       Fallback, shell, stream
  <2>2. QED
    BY <2>1 DEF TypesInv, OthersInv
<1>4. CASE Teardown
  <2>1. UNCHANGED <<tty, attentive, pump, client>> /\ exec' \in {exec, "none"}
    BY <1>4 DEF Teardown, EndClose, DeleteExec, StopPumps, JoinPumps, SendExit, RemoveDir,
       shell, stream
  <2>2. stop' \in {stop, TRUE} /\ exit' \in {exit, "sent"} /\ excused' \in {excused, TRUE}
    BY <1>4 DEF Teardown, EndClose, DeleteExec, StopPumps, JoinPumps, SendExit, RemoveDir,
       stream
  <2>3. QED
    BY <2>1, <2>2 DEF TypesInv, OthersInv
<1>5. CASE Pump
  BY <1>5 DEF Pump, PumpReads, PumpStops, PumpSends, TypesInv, OthersInv, engine, loop, shell,
     stream, idle
<1>6. CASE ShellWrites \/ ShimCopies \/ ShellReads \/ ShellSeesEnd \/ ShellExits
  BY <1>6 DEF ShellWrites, ShimCopies, ShellReads, ShellSeesEnd, ShellExits, TypesInv, OthersInv,
     engine, loop, shell, stream, idle
<1>7. CASE ClientTypes \/ ClientEnds \/ ClientReads \/ ClientStalls \/ ClientGoes \/ PageGoes
  BY <1>7 DEF ClientTypes, ClientEnds, ClientReads, ClientStalls, ClientGoes, PageGoes, TypesInv,
     OthersInv, engine, loop, shell, stream, idle
<1>8. CASE NemrdRestarts
  BY <1>8 DEF NemrdRestarts, TypesInv, OthersInv, engine, loop, shell, stream, idle
<1>9. QED
  BY <1>1, <1>2, <1>3, <1>4, <1>5, <1>6, <1>7, <1>8 DEF AttachNext

LEMMA TypesStay ==
    ASSUME TypesInv, [AttachNext]_attachVars
    PROVE  TypesInv'
<1>1. CASE AttachNext
  BY <1>1, GateStays, InputStays, OutputStays, InboxStays, DirStays, TaskStays, OthersStay
     DEF TypesInv
<1>2. CASE UNCHANGED attachVars
  BY <1>2 DEF attachVars, TypesInv, GateInv, InputInv, OutputInv, InboxInv, DirInv, TaskInv,
     OthersInv
<1>3. QED
  BY <1>1, <1>2

LEMMA TypesHold == AttachSpec => []TypesInv
<1>1. TypesInv /\ [AttachNext]_attachVars => TypesInv'
  BY TypesStay
<1>2. QED
  BY <1>1, TypesBegin, PTL DEF AttachSpec

-------------------------------------------------------------------------------
(* Attach: the end of a session *)

Ending == task \in {"stop", "join", "exit", "rmdir", "done"} \/ stop \/ exit # "no"

\* An attach is spawned once.
SpawnedOnce == task # "none" \/ pump # "none" \/ stop \/ exit # "no" => call = "over"

\* The exit code is sent by a task that has joined its pump.
Joined ==
    /\ task \in {"exit", "rmdir", "done"} => pump = "ended"
    /\ exit # "no" => pump \in {"ended", "none"}

\* A pump that polls has sent what it has read.
PollsEmpty == call # "over" \/ pump = "poll" => output.sent = output.pumped

\* A deleted exec writes no more, and the shim has copied what it wrote.
CopiedAll == ~excused /\ Ending => exec = "none" /\ output.copied = output.made

SentAll ==
    /\ ~excused /\ pump = "ended" /\ client # "gone" => stop /\ output.sent = output.made
    /\ ~excused /\ exit # "no" => output.sent = output.made

GotAll == exit = "got" => output.got = output.sent

EndInv == SpawnedOnce /\ Joined /\ PollsEmpty /\ CopiedAll /\ SentAll /\ GotAll

LEMMA EndBegins == AttachInit => EndInv
  BY DEF AttachInit, EndInv, Ending, SpawnedOnce, Joined, PollsEmpty, CopiedAll, SentAll, GotAll

LEMMA SpawnedOnceStays ==
    ASSUME TypesInv, EndInv, AttachNext
    PROVE  SpawnedOnce'
<1>1. CASE Page
  BY <1>1 DEF Page, Exchange, MintTicket, TicketDies, Handshake, HandshakeRefused, FirstFrame,
     Link, EndInv, SpawnedOnce, Loops, InFifo, InChannel, engine, loop, shell, stream, idle
<1>2. CASE Call \/ AttachFails \/ OtherAttach
  BY <1>2 DEF Call, AttachDirs, AttachExec, AttachOpen, AttachStart, AttachSpawn, AttachFails,
     OtherAttach, EndInv, SpawnedOnce, Loops, InFifo, InChannel, engine, loop, shell, stream, idle
<1>3. CASE WaitAnswered \/ WaitFails \/ Loop
  BY <1>3 DEF Loop, WaitAnswered, WaitFails, Exits, Receive, Write, WriteEot, CloseInput,
     Fallback, EndInv, SpawnedOnce, Loops, InFifo, InChannel, engine, loop, shell, stream, idle
<1>4. CASE Teardown
  BY <1>4 DEF Teardown, EndClose, DeleteExec, StopPumps, JoinPumps, SendExit, RemoveDir, EndInv,
     SpawnedOnce, Loops, InFifo, InChannel, engine, loop, shell, stream, idle
<1>5. CASE Pump
  BY <1>5 DEF Pump, PumpReads, PumpStops, PumpSends, EndInv, SpawnedOnce, Loops, InFifo,
     InChannel, engine, loop, shell, stream, idle
<1>6. CASE ShellWrites \/ ShimCopies \/ ShellReads \/ ShellSeesEnd \/ ShellExits
  BY <1>6 DEF ShellWrites, ShimCopies, ShellReads, ShellSeesEnd, ShellExits, EndInv, SpawnedOnce,
     Loops, InFifo, InChannel, engine, loop, shell, stream, idle
<1>7. CASE ClientTypes \/ ClientEnds \/ ClientReads \/ ClientStalls \/ ClientGoes \/ PageGoes
  BY <1>7 DEF ClientTypes, ClientEnds, ClientReads, ClientStalls, ClientGoes, PageGoes, EndInv,
     SpawnedOnce, Loops, InFifo, InChannel, engine, loop, shell, stream, idle
<1>8. CASE NemrdRestarts
  BY <1>8 DEF NemrdRestarts, EndInv, SpawnedOnce, Loops, InFifo, InChannel, engine, loop, shell,
     stream, idle
<1>9. QED
  BY <1>1, <1>2, <1>3, <1>4, <1>5, <1>6, <1>7, <1>8 DEF AttachNext

LEMMA JoinedStays ==
    ASSUME TypesInv, EndInv, AttachNext
    PROVE  Joined'
<1>1. CASE Page
  BY <1>1 DEF Page, Exchange, MintTicket, TicketDies, Handshake, HandshakeRefused, FirstFrame,
     Link, EndInv, Joined, SpawnedOnce, Loops, InFifo, InChannel, engine, loop, shell, stream,
     idle
<1>2. CASE Call \/ AttachFails \/ OtherAttach
  BY <1>2 DEF Call, AttachDirs, AttachExec, AttachOpen, AttachStart, AttachSpawn, AttachFails,
     OtherAttach, EndInv, Joined, SpawnedOnce, Loops, InFifo, InChannel, engine, loop, shell,
     stream, idle
<1>3. CASE WaitAnswered \/ WaitFails \/ Loop
  BY <1>3 DEF Loop, WaitAnswered, WaitFails, Exits, Receive, Write, WriteEot, CloseInput,
     Fallback, EndInv, Joined, SpawnedOnce, Loops, InFifo, InChannel, engine, loop, shell, stream,
     idle
<1>4. CASE Teardown
  BY <1>4 DEF Teardown, EndClose, DeleteExec, StopPumps, JoinPumps, SendExit, RemoveDir, EndInv,
     Joined, SpawnedOnce, Loops, InFifo, InChannel, engine, loop, shell, stream, idle
<1>5. CASE Pump
  BY <1>5 DEF Pump, PumpReads, PumpStops, PumpSends, EndInv, Joined, SpawnedOnce, Loops, InFifo,
     InChannel, engine, loop, shell, stream, idle
<1>6. CASE ShellWrites \/ ShimCopies \/ ShellReads \/ ShellSeesEnd \/ ShellExits
  BY <1>6 DEF ShellWrites, ShimCopies, ShellReads, ShellSeesEnd, ShellExits, EndInv, Joined,
     SpawnedOnce, Loops, InFifo, InChannel, engine, loop, shell, stream, idle
<1>7. CASE ClientTypes \/ ClientEnds \/ ClientReads \/ ClientStalls \/ ClientGoes \/ PageGoes
  BY <1>7 DEF ClientTypes, ClientEnds, ClientReads, ClientStalls, ClientGoes, PageGoes, EndInv,
     Joined, SpawnedOnce, Loops, InFifo, InChannel, engine, loop, shell, stream, idle
<1>8. CASE NemrdRestarts
  BY <1>8 DEF NemrdRestarts, EndInv, Joined, SpawnedOnce, Loops, InFifo, InChannel, engine, loop,
     shell, stream, idle
<1>9. QED
  BY <1>1, <1>2, <1>3, <1>4, <1>5, <1>6, <1>7, <1>8 DEF AttachNext

LEMMA PollsEmptyStays ==
    ASSUME TypesInv, EndInv, AttachNext
    PROVE  PollsEmpty'
<1>1. CASE Page
  BY <1>1 DEF Page, Exchange, MintTicket, TicketDies, Handshake, HandshakeRefused, FirstFrame,
     Link, EndInv, PollsEmpty, SpawnedOnce, Loops, InFifo, InChannel, engine, loop, shell, stream,
     idle, TypesInv, OutputInv
<1>2. CASE Call \/ AttachFails \/ OtherAttach
  BY <1>2 DEF Call, AttachDirs, AttachExec, AttachOpen, AttachStart, AttachSpawn, AttachFails,
     OtherAttach, EndInv, PollsEmpty, SpawnedOnce, Loops, InFifo, InChannel, engine, loop, shell,
     stream, idle, TypesInv, OutputInv
<1>3. CASE WaitAnswered \/ WaitFails \/ Loop
  BY <1>3 DEF Loop, WaitAnswered, WaitFails, Exits, Receive, Write, WriteEot, CloseInput,
     Fallback, EndInv, PollsEmpty, SpawnedOnce, Loops, InFifo, InChannel, engine, loop, shell,
     stream, idle, TypesInv, OutputInv
<1>4. CASE Teardown
  BY <1>4 DEF Teardown, EndClose, DeleteExec, StopPumps, JoinPumps, SendExit, RemoveDir, EndInv,
     PollsEmpty, SpawnedOnce, Loops, InFifo, InChannel, engine, loop, shell, stream, idle,
     TypesInv, OutputInv
<1>5. CASE Pump
  BY <1>5 DEF Pump, PumpReads, PumpStops, PumpSends, EndInv, PollsEmpty, SpawnedOnce, Loops,
     InFifo, InChannel, engine, loop, shell, stream, idle, TypesInv, OutputInv
<1>6. CASE ShellWrites \/ ShimCopies \/ ShellReads \/ ShellSeesEnd \/ ShellExits
  BY <1>6 DEF ShellWrites, ShimCopies, ShellReads, ShellSeesEnd, ShellExits, EndInv, PollsEmpty,
     SpawnedOnce, Loops, InFifo, InChannel, engine, loop, shell, stream, idle, TypesInv, OutputInv
<1>7. CASE ClientTypes \/ ClientEnds \/ ClientReads \/ ClientStalls \/ ClientGoes \/ PageGoes
  BY <1>7 DEF ClientTypes, ClientEnds, ClientReads, ClientStalls, ClientGoes, PageGoes, EndInv,
     PollsEmpty, SpawnedOnce, Loops, InFifo, InChannel, engine, loop, shell, stream, idle,
     TypesInv, OutputInv
<1>8. CASE NemrdRestarts
  BY <1>8 DEF NemrdRestarts, EndInv, PollsEmpty, SpawnedOnce, Loops, InFifo, InChannel, engine,
     loop, shell, stream, idle, TypesInv, OutputInv
<1>9. QED
  BY <1>1, <1>2, <1>3, <1>4, <1>5, <1>6, <1>7, <1>8 DEF AttachNext

LEMMA CopiedAllStays ==
    ASSUME TypesInv, EndInv, AttachNext
    PROVE  CopiedAll'
<1>1. CASE Page
  BY <1>1 DEF Page, Exchange, MintTicket, TicketDies, Handshake, HandshakeRefused, FirstFrame,
     Link, EndInv, CopiedAll, Ending, SpawnedOnce, Loops, InFifo, InChannel, engine, loop, shell,
     stream, idle, TypesInv, OutputInv
<1>2. CASE Call \/ AttachFails \/ OtherAttach
  BY <1>2 DEF Call, AttachDirs, AttachExec, AttachOpen, AttachStart, AttachSpawn, AttachFails,
     OtherAttach, EndInv, CopiedAll, Ending, SpawnedOnce, Loops, InFifo, InChannel, engine, loop,
     shell, stream, idle, TypesInv, OutputInv
<1>3. CASE WaitAnswered \/ WaitFails \/ Loop
  BY <1>3 DEF Loop, WaitAnswered, WaitFails, Exits, Receive, Write, WriteEot, CloseInput,
     Fallback, EndInv, CopiedAll, Ending, SpawnedOnce, Loops, InFifo, InChannel, engine, loop,
     shell, stream, idle, TypesInv, OutputInv
<1>4. CASE Teardown
  BY <1>4 DEF Teardown, EndClose, DeleteExec, StopPumps, JoinPumps, SendExit, RemoveDir, EndInv,
     CopiedAll, Ending, SpawnedOnce, Loops, InFifo, InChannel, engine, loop, shell, stream, idle,
     TypesInv, OutputInv
<1>5. CASE Pump
  BY <1>5 DEF Pump, PumpReads, PumpStops, PumpSends, EndInv, CopiedAll, Ending, SpawnedOnce,
     Loops, InFifo, InChannel, engine, loop, shell, stream, idle, TypesInv, OutputInv
<1>6. CASE ShellWrites \/ ShimCopies \/ ShellReads \/ ShellSeesEnd \/ ShellExits
  BY <1>6 DEF ShellWrites, ShimCopies, ShellReads, ShellSeesEnd, ShellExits, EndInv, CopiedAll,
     Ending, SpawnedOnce, Loops, InFifo, InChannel, engine, loop, shell, stream, idle, TypesInv,
     OutputInv
<1>7. CASE ClientTypes \/ ClientEnds \/ ClientReads \/ ClientStalls \/ ClientGoes \/ PageGoes
  BY <1>7 DEF ClientTypes, ClientEnds, ClientReads, ClientStalls, ClientGoes, PageGoes, EndInv,
     CopiedAll, Ending, SpawnedOnce, Loops, InFifo, InChannel, engine, loop, shell, stream, idle,
     TypesInv, OutputInv
<1>8. CASE NemrdRestarts
  BY <1>8 DEF NemrdRestarts, EndInv, CopiedAll, Ending, SpawnedOnce, Loops, InFifo, InChannel,
     engine, loop, shell, stream, idle, TypesInv, OutputInv
<1>9. QED
  BY <1>1, <1>2, <1>3, <1>4, <1>5, <1>6, <1>7, <1>8 DEF AttachNext

LEMMA SentAllStays ==
    ASSUME TypesInv, EndInv, AttachNext
    PROVE  SentAll'
<1>1. CASE Page
  BY <1>1 DEF Page, Exchange, MintTicket, TicketDies, Handshake, HandshakeRefused, FirstFrame,
     Link, EndInv, SentAll, SpawnedOnce, Joined, PollsEmpty, CopiedAll, Ending, Loops, InFifo,
     InChannel, engine, loop, shell, stream, idle, TypesInv, OutputInv
<1>2. CASE Call \/ AttachFails \/ OtherAttach
  BY <1>2 DEF Call, AttachDirs, AttachExec, AttachOpen, AttachStart, AttachSpawn, AttachFails,
     OtherAttach, EndInv, SentAll, SpawnedOnce, Joined, PollsEmpty, CopiedAll, Ending, Loops,
     InFifo, InChannel, engine, loop, shell, stream, idle, TypesInv, OutputInv
<1>3. CASE WaitAnswered \/ WaitFails \/ Loop
  BY <1>3 DEF Loop, WaitAnswered, WaitFails, Exits, Receive, Write, WriteEot, CloseInput,
     Fallback, EndInv, SentAll, SpawnedOnce, Joined, PollsEmpty, CopiedAll, Ending, Loops, InFifo,
     InChannel, engine, loop, shell, stream, idle, TypesInv, OutputInv
<1>4. CASE Teardown
  BY <1>4 DEF Teardown, EndClose, DeleteExec, StopPumps, JoinPumps, SendExit, RemoveDir, EndInv,
     SentAll, SpawnedOnce, Joined, PollsEmpty, CopiedAll, Ending, Loops, InFifo, InChannel,
     engine, loop, shell, stream, idle, TypesInv, OutputInv
<1>5. CASE Pump
  BY <1>5 DEF Pump, PumpReads, PumpStops, PumpSends, EndInv, SentAll, SpawnedOnce, Joined,
     PollsEmpty, CopiedAll, Ending, Loops, InFifo, InChannel, engine, loop, shell, stream, idle,
     TypesInv, OutputInv
<1>6. CASE ShellWrites \/ ShimCopies \/ ShellReads \/ ShellSeesEnd \/ ShellExits
  BY <1>6 DEF ShellWrites, ShimCopies, ShellReads, ShellSeesEnd, ShellExits, EndInv, SentAll,
     SpawnedOnce, Joined, PollsEmpty, CopiedAll, Ending, Loops, InFifo, InChannel, engine, loop,
     shell, stream, idle, TypesInv, OutputInv
<1>7. CASE ClientTypes \/ ClientEnds \/ ClientReads \/ ClientStalls \/ ClientGoes \/ PageGoes
  BY <1>7 DEF ClientTypes, ClientEnds, ClientReads, ClientStalls, ClientGoes, PageGoes, EndInv,
     SentAll, SpawnedOnce, Joined, PollsEmpty, CopiedAll, Ending, Loops, InFifo, InChannel,
     engine, loop, shell, stream, idle, TypesInv, OutputInv
<1>8. CASE NemrdRestarts
  BY <1>8 DEF NemrdRestarts, EndInv, SentAll, SpawnedOnce, Joined, PollsEmpty, CopiedAll, Ending,
     Loops, InFifo, InChannel, engine, loop, shell, stream, idle, TypesInv, OutputInv
<1>9. QED
  BY <1>1, <1>2, <1>3, <1>4, <1>5, <1>6, <1>7, <1>8 DEF AttachNext

LEMMA GotAllStays ==
    ASSUME TypesInv, EndInv, AttachNext
    PROVE  GotAll'
<1>1. CASE Page
  BY <1>1 DEF Page, Exchange, MintTicket, TicketDies, Handshake, HandshakeRefused, FirstFrame,
     Link, EndInv, GotAll, Joined, SpawnedOnce, Loops, InFifo, InChannel, engine, loop, shell,
     stream, idle, TypesInv, OutputInv
<1>2. CASE Call \/ AttachFails \/ OtherAttach
  BY <1>2 DEF Call, AttachDirs, AttachExec, AttachOpen, AttachStart, AttachSpawn, AttachFails,
     OtherAttach, EndInv, GotAll, Joined, SpawnedOnce, Loops, InFifo, InChannel, engine, loop,
     shell, stream, idle, TypesInv, OutputInv
<1>3. CASE WaitAnswered \/ WaitFails \/ Loop
  BY <1>3 DEF Loop, WaitAnswered, WaitFails, Exits, Receive, Write, WriteEot, CloseInput,
     Fallback, EndInv, GotAll, Joined, SpawnedOnce, Loops, InFifo, InChannel, engine, loop, shell,
     stream, idle, TypesInv, OutputInv
<1>4. CASE Teardown
  BY <1>4 DEF Teardown, EndClose, DeleteExec, StopPumps, JoinPumps, SendExit, RemoveDir, EndInv,
     GotAll, Joined, SpawnedOnce, Loops, InFifo, InChannel, engine, loop, shell, stream, idle,
     TypesInv, OutputInv
<1>5. CASE Pump
  BY <1>5 DEF Pump, PumpReads, PumpStops, PumpSends, EndInv, GotAll, Joined, SpawnedOnce, Loops,
     InFifo, InChannel, engine, loop, shell, stream, idle, TypesInv, OutputInv
<1>6. CASE ShellWrites \/ ShimCopies \/ ShellReads \/ ShellSeesEnd \/ ShellExits
  BY <1>6 DEF ShellWrites, ShimCopies, ShellReads, ShellSeesEnd, ShellExits, EndInv, GotAll,
     Joined, SpawnedOnce, Loops, InFifo, InChannel, engine, loop, shell, stream, idle, TypesInv,
     OutputInv
<1>7. CASE ClientTypes \/ ClientEnds \/ ClientReads \/ ClientStalls \/ ClientGoes \/ PageGoes
  BY <1>7 DEF ClientTypes, ClientEnds, ClientReads, ClientStalls, ClientGoes, PageGoes, EndInv,
     GotAll, Joined, SpawnedOnce, Loops, InFifo, InChannel, engine, loop, shell, stream, idle,
     TypesInv, OutputInv
<1>8. CASE NemrdRestarts
  BY <1>8 DEF NemrdRestarts, EndInv, GotAll, Joined, SpawnedOnce, Loops, InFifo, InChannel,
     engine, loop, shell, stream, idle, TypesInv, OutputInv
<1>9. QED
  BY <1>1, <1>2, <1>3, <1>4, <1>5, <1>6, <1>7, <1>8 DEF AttachNext

LEMMA EndHolds == AttachSpec => [](TypesInv /\ EndInv)
<1>1. TypesInv /\ EndInv /\ [AttachNext]_attachVars => EndInv'
  <2> SUFFICES ASSUME TypesInv, EndInv, [AttachNext]_attachVars PROVE EndInv'
    OBVIOUS
  <2>1. CASE AttachNext
    BY <2>1, SpawnedOnceStays, JoinedStays, PollsEmptyStays, CopiedAllStays, SentAllStays,
       GotAllStays DEF EndInv
  <2>2. CASE UNCHANGED attachVars
    BY <2>2 DEF attachVars, EndInv, Ending, SpawnedOnce, Joined, PollsEmpty, CopiedAll, SentAll,
       GotAll
  <2>3. QED
    BY <2>1, <2>2
<1>2. TypesInv /\ [AttachNext]_attachVars => TypesInv'
  BY TypesStay
<1>3. QED
  BY <1>1, <1>2, TypesBegin, EndBegins, PTL DEF AttachSpec

\* Every variable keeps its type: no output is received before it was sent, sent before it
\* was pumped, copied or made, and a ticket opens one socket (attach_ws in serve.rs).
THEOREM AttachTypes == AttachSpec => []AttachTypeOK
<1>1. TypesInv => AttachTypeOK
  BY DEF TypesInv, GateInv, InputInv, OutputInv, InboxInv, DirInv, TaskInv, OthersInv,
     AttachTypeOK
<1>2. QED
  BY <1>1, EndHolds, PTL

\* The exit code is the last thing a client sees, and all that the program wrote came
\* before it (the teardown of run_session, attach.rs).
THEOREM TailComes == AttachSpec => []TailIsDelivered
<1>1. TypesInv /\ EndInv => TailIsDelivered
  BY DEF EndInv, SentAll, GotAll, TypesInv, OthersInv, TailIsDelivered
<1>2. QED
  BY <1>1, EndHolds, PTL
==============================================================================
