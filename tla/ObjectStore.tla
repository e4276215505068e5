----------------------------- MODULE ObjectStore -----------------------------
(***************************************************************************)
(* The object store behind the sync server: nemr-storage's two backends as *)
(* bundles.rs uses them, put_file, get_stream and delete.  The server is   *)
(* given one of them when it starts (store.rs).                            *)
(*                                                                         *)
(* local.rs keeps an object in a file of its key's name.  A put writes a   *)
(* file beside it, named after the key alone, and renames it; a name leads *)
(* to an inode, and whoever has it open keeps reading or writing it        *)
(* whatever becomes of the name.  s3.rs uploads in parts that the bucket   *)
(* puts together when the upload is completed, and bills until it is.      *)
(*                                                                         *)
(* The bytes of a put are 1 to Chunks chunks marked with its number, so a  *)
(* file shows whose bytes it is made of.  Requests come and go in any      *)
(* order: the lease does not keep two uploads of one session apart (see    *)
(* SyncServer), and both write the one key of the session.                 *)
(***************************************************************************)
EXTENDS Integers, Sequences

CONSTANTS
    Key,      \* bundles/<user>/<session id>: no two share a file name stem
    Task,     \* the requests the server answers at once
    Inode,    \* the inodes of the directory; the versions of the bucket's objects
    Chunks,   \* the most chunks a bundle is read or written in
    MaxPuts   \* the puts of a behaviour, numbered from 1

ASSUME Constants ==
    /\ Key # {} /\ Task # {}
    /\ Inode \subseteq Nat \ {0}
    /\ Chunks \in Nat \ {0} /\ MaxPuts \in Nat \ {0}

VARIABLES
    backend,  \* "local" or "bucket"
    file,     \* inode -> its chunks; 0 is a hole
    object,   \* key -> the inode of its object, or 0
    partial,  \* key -> the inode of its .partial file, or 0
    uploads,  \* the puts whose parts the bucket keeps
    task,     \* task -> the request it serves
    puts,     \* how many puts there were
    stored,   \* key -> the put that took its place last, or None (history)
    raced,    \* the keys two puts wrote at once (history)
    excused   \* the puts that nobody was left to abort (history)

vars == <<backend, file, object, partial, uploads, task, puts, stored, raced, excused>>
history == <<puts, stored, raced, excused>>

Chunk == 0 .. MaxPuts
None == [id |-> 0, size |-> 0]
Bundle == [id : 1 .. MaxPuts, size : 1 .. Chunks] \cup {None}
Pc == {"idle", "create", "copy", "publish", "abort", "stream", "delivered", "broken"}

\* what: the bundle it writes, or the one that was stored when it began to read.
\* read: the chunks it has sent on; length: what it told the client to expect.
Request == [pc : Pc, key : Key, what : Bundle, inode : Inode \cup {0}, at : Nat,
            read : Seq(Chunk), length : Nat]

TypeOK ==
    /\ backend \in {"local", "bucket"}
    /\ file \in [Inode -> Seq(Chunk)]
    /\ object \in [Key -> Inode \cup {0}]
    /\ partial \in [Key -> Inode \cup {0}]
    /\ uploads \subseteq 1 .. MaxPuts
    /\ task \in [Task -> Request]
    /\ puts \in 0 .. MaxPuts
    /\ stored \in [Key -> Bundle]
    /\ raced \subseteq Key
    /\ excused \subseteq 1 .. MaxPuts

Idle == [pc |-> "idle", key |-> CHOOSE k \in Key : TRUE, what |-> None, inode |-> 0, at |-> 0,
         read |-> <<>>, length |-> 0]

Init ==
    /\ backend \in {"local", "bucket"}
    /\ file = [i \in Inode |-> <<>>]
    /\ object = [k \in Key |-> 0]
    /\ partial = [k \in Key |-> 0]
    /\ uploads = {}
    /\ task = [t \in Task |-> Idle]
    /\ puts = 0
    /\ stored = [k \in Key |-> None]
    /\ raced = {}
    /\ excused = {}

-------------------------------------------------------------------------------
At(t, pc) == task[t].pc = pc
K(t) == task[t].key
Goto(t, pc) == task' = [task EXCEPT ![t].pc = pc]
Answer(t) == task' = [task EXCEPT ![t] = Idle]
Local == backend = "local"

First(n, b) == [m \in 1 .. n |-> b.id]
Whole(b) == First(b.size, b)

\* An inode no name leads to and nobody has open; any will do, so the first.
Unused == {i \in Inode : /\ \A k \in Key : object[k] # i /\ partial[k] # i
                         /\ \A t \in Task : task[t].inode # i}
Fresh == {i \in Unused : \A j \in Unused : i <= j}

\* s written at position n, past what there is or over it.
Written(s, n, c) ==
    IF n <= Len(s) THEN [s EXCEPT ![n] = c]
    ELSE [m \in 1 .. n |-> IF m = n THEN c ELSE IF m <= Len(s) THEN s[m] ELSE 0]

-------------------------------------------------------------------------------
(* put_file *)

\* The upload is on the server's disk, and put_file gets it.
PutBegins(t, k) ==
    /\ At(t, "idle") /\ puts < MaxPuts
    /\ puts' = puts + 1
    /\ \E n \in 1 .. Chunks :
         task' = [task EXCEPT ![t] = [Idle EXCEPT !.pc = "create", !.key = k,
                                                  !.what = [id |-> puts + 1, size |-> n]]]
    /\ UNCHANGED <<backend, file, object, partial, uploads, stored, raced, excused>>

\* path.with_extension("partial"): a session id has no dot, so the key itself.
TemporaryOf(k) == k

\* Mutant of Truncated: the file is opened as an earlier put left it.
TruncatedNot(s) == s

\* File::create.
Truncated(s) == <<>>

\* The file is there, from a put under way or a failed one, or is made now.
Create(t) ==
    LET k == TemporaryOf(K(t)) IN
    /\ At(t, "create") /\ Local
    /\ \E i \in IF partial[k] = 0 THEN Fresh ELSE {partial[k]} :
         /\ partial' = [partial EXCEPT ![k] = i]
         /\ file' = [file EXCEPT ![i] = Truncated(@)]
         /\ task' = [task EXCEPT ![t].pc = "copy", ![t].inode = i]
    /\ raced' = IF \E u \in Task \ {t} : K(u) = K(t) /\ task[u].pc \in {"copy", "publish"}
                THEN raced \cup {K(t)} ELSE raced
    /\ UNCHANGED <<backend, object, uploads, puts, stored, excused>>

\* put_multipart.
CreateUpload(t) ==
    /\ At(t, "create") /\ ~Local
    /\ uploads' = uploads \cup {task[t].what.id}
    /\ Goto(t, "copy")
    /\ UNCHANGED <<backend, file, object, partial, puts, stored, raced, excused>>

\* One chunk: written where this put has got to, or sent as a part.
Copy(t) ==
    LET n == task[t].at + 1 IN
    /\ At(t, "copy")
    /\ task' = [task EXCEPT ![t].at = n, ![t].pc = IF n = task[t].what.size THEN "publish" ELSE "copy"]
    /\ file' = IF Local THEN [file EXCEPT ![task[t].inode] = Written(@, n, task[t].what.id)] ELSE file
    /\ UNCHANGED <<backend, object, partial, uploads, puts, stored, raced, excused>>

\* The rename: whatever has the name by now takes the object's.
Rename(t) ==
    LET k == TemporaryOf(K(t)) IN
    /\ At(t, "publish") /\ Local /\ partial[k] # 0
    /\ object' = [object EXCEPT ![K(t)] = partial[k]]
    /\ partial' = [partial EXCEPT ![k] = 0]
    /\ stored' = [stored EXCEPT ![K(t)] = task[t].what]
    /\ Answer(t)
    /\ UNCHANGED <<backend, file, uploads, puts, raced, excused>>

\* complete: the parts become the object.  Its answer may be lost, and then the
\* upload that is no more is aborted.
Complete(t) ==
    /\ At(t, "publish") /\ ~Local
    /\ \E i \in Fresh : /\ object' = [object EXCEPT ![K(t)] = i]
                       /\ file' = [file EXCEPT ![i] = Whole(task[t].what)]
    /\ uploads' = uploads \ {task[t].what.id}
    /\ stored' = [stored EXCEPT ![K(t)] = task[t].what]
    /\ Answer(t) \/ Goto(t, "abort")
    /\ UNCHANGED <<backend, partial, puts, raced, excused>>

\* Mutant of Aborting: only a part that could not be sent is cleaned up after.
AbortingParts == {"copy"}

\* Every failure after put_multipart aborts the upload.
Aborting == {"copy", "publish"}

\* The disk is full, the staged file cannot be read, the bucket refuses.  A local
\* put leaves its temporary file; so does one that finds no file of the name.
PutFails(t) ==
    /\ task[t].pc \in {"create", "copy", "publish"}
    /\ IF ~Local /\ task[t].pc \in Aborting THEN Goto(t, "abort") ELSE Answer(t)
    /\ UNCHANGED <<backend, file, object, partial, uploads, history>>

\* The abort is asked for once; what becomes of it is not looked at.
Abort(t) ==
    LET id == task[t].what.id IN
    /\ At(t, "abort")
    /\ \/ uploads' = uploads \ {id} /\ UNCHANGED excused
       \/ excused' = excused \cup {id} /\ UNCHANGED uploads
    /\ Answer(t)
    /\ UNCHANGED <<backend, file, object, partial, puts, stored, raced>>

-------------------------------------------------------------------------------
(* get_stream and delete *)

\* Mutant of Opened: the name is looked up again for every chunk.
OpenedNow(t) == IF object[K(t)] = 0 THEN task[t].inode ELSE object[K(t)]

\* The open file, or the bucket's answer, is of one object.
Opened(t) == task[t].inode

\* Its size is the Content-Length.
Open(t, k) ==
    /\ At(t, "idle") /\ object[k] # 0
    /\ task' = [task EXCEPT ![t] = [Idle EXCEPT
                  !.pc = "stream", !.key = k, !.what = stored[k], !.inode = object[k],
                  !.length = Len(file[object[k]])]]
    /\ UNCHANGED <<backend, file, object, partial, uploads, history>>

\* A chunk goes out, or the file is shorter than the client was told.
Stream(t) ==
    LET s == file[Opened(t)]
        n == task[t].at + 1 IN
    /\ At(t, "stream")
    /\ IF task[t].length = task[t].at THEN Goto(t, "delivered")
       ELSE IF n > Len(s) THEN Goto(t, "broken")
       ELSE task' = [task EXCEPT ![t].at = n, ![t].read = Append(@, s[n])]
    /\ UNCHANGED <<backend, file, object, partial, uploads, history>>

ReadEnds(t) ==
    /\ task[t].pc \in {"delivered", "broken"}
    /\ Answer(t)
    /\ UNCHANGED <<backend, file, object, partial, uploads, history>>

\* remove_file: the object's name goes, its .partial does not; absent is success.
Delete(k) ==
    /\ object' = [object EXCEPT ![k] = 0]
    /\ stored' = [stored EXCEPT ![k] = None]
    /\ UNCHANGED <<backend, file, partial, uploads, task, puts, raced, excused>>

-------------------------------------------------------------------------------
(* Faults *)

\* The puts of T that have parts in the bucket.
Begun(T) == IF Local THEN {}
            ELSE {task[t].what.id : t \in {u \in T : task[u].pc \in {"copy", "publish", "abort"}}}

\* The client hangs up and the request is dropped at an await.
Cancel(t) ==
    /\ task[t].pc \in Pc \ {"idle", "delivered", "broken"}
    /\ Answer(t)
    /\ excused' = excused \cup Begun({t})
    /\ UNCHANGED <<backend, file, object, partial, uploads, puts, stored, raced>>

ServerDies ==
    /\ task' = [t \in Task |-> Idle]
    /\ excused' = excused \cup Begun(Task)
    /\ UNCHANGED <<backend, file, object, partial, uploads, puts, stored, raced>>

-------------------------------------------------------------------------------
Next ==
    \/ \E t \in Task :
         \/ \E k \in Key : PutBegins(t, k) \/ Open(t, k)
         \/ Create(t) \/ CreateUpload(t) \/ Copy(t) \/ Rename(t) \/ Complete(t)
         \/ PutFails(t) \/ Abort(t)
         \/ Stream(t) \/ ReadEnds(t)
         \/ Cancel(t)
    \/ \E k \in Key : Delete(k)
    \/ ServerDies

Spec == Init /\ [][Next]_vars

-------------------------------------------------------------------------------
(* Properties *)

\* "a reader never observes a half-written object" (local.rs:135-136): under a key
\* there is, bytes and length, exactly what the put that last took the place wrote,
\* whatever failed, was cut off or left behind before, and nothing when the object
\* was deleted last; as long as, in a directory, no two puts of the key overlapped.
ObjectsAreWhole ==
    \A k \in Key \ raced :
        IF object[k] = 0 THEN stored[k] = None ELSE file[object[k]] = Whole(stored[k])

\* A download that gets to its end is byte for byte the bundle that was stored when
\* it began, although puts and deletes of the key went on meanwhile.
DownloadsAreWhole ==
    \A t \in Task : K(t) \notin raced =>
        /\ ~At(t, "broken")
        /\ At(t, "delivered") => task[t].read = Whole(task[t].what)

\* "Every failure after put_multipart aborts the upload" (s3.rs:305): parts stay in
\* the bucket only for a put under way, an abort that failed, or a put that nobody
\* was left to abort, its client or the server having gone.
PartsAreReclaimed ==
    uploads \subseteq excused \cup Begun(Task)

(* The strengthening of the first two that every step keeps.                *)

Writing(t) == Local /\ task[t].pc \in {"copy", "publish"}
Reading(t) == task[t].pc \in {"stream", "delivered", "broken"}
Opens(t) == task[t].inode # 0

\* How far a request has got.
Progress ==
    \A t \in Task :
        /\ At(t, "create") => task[t].at = 0
        /\ task[t].pc \in {"create", "copy", "publish", "abort"} => task[t].what # None
        /\ At(t, "copy") => task[t].at < task[t].what.size
        /\ At(t, "publish") => task[t].at = task[t].what.size
        /\ Opens(t) <=> Writing(t) \/ Reading(t)

\* No inode has two names.
NamesApart ==
    \A k, l \in Key :
        /\ object[k] # 0 => object[k] # partial[l] /\ (object[k] = object[l] => k = l)
        /\ partial[k] # 0 /\ partial[k] = partial[l] => k = l

\* What a request has open has been its own key's only, and a reader reads nothing
\* that a put may still find by its name.
KeysApart ==
    \A t \in Task : Opens(t) =>
        /\ \A u \in Task : task[u].inode = task[t].inode => K(u) = K(t)
        /\ \A k \in Key : task[t].inode \in {object[k], partial[k]} => k = K(t)
        /\ Reading(t) => task[t].inode # partial[K(t)]

\* The one put of a key has the file of that name and has written what it says.
WritersAlone ==
    \A t \in Task : Writing(t) /\ K(t) \notin raced =>
        /\ partial[K(t)] = task[t].inode
        /\ \A u \in Task : Writing(u) /\ K(u) = K(t) => u = t
        /\ file[task[t].inode] = First(task[t].at, task[t].what)

\* What a reader has open is the bundle it began with, and it has sent the start of it.
ReadersWhole ==
    \A t \in Task : Reading(t) /\ K(t) \notin raced =>
        /\ file[task[t].inode] = Whole(task[t].what)
        /\ task[t].length = task[t].what.size
        /\ task[t].at <= task[t].length
        /\ task[t].read = First(task[t].at, task[t].what)
        /\ ~At(t, "broken")
        /\ At(t, "delivered") => task[t].at = task[t].length

StoreInv ==
    /\ TypeOK /\ Progress /\ NamesApart /\ KeysApart
    /\ WritersAlone /\ ReadersWhole /\ ObjectsAreWhole
===============================================================================
