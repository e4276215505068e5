-------------------------- MODULE ObjectStore_proofs --------------------------
(***************************************************************************)
(* Proofs about ObjectStore, for any keys, requests and inodes, and        *)
(* bundles of any length; and, in the second half, about CloudSession, the *)
(* other side of a transfer, for any machines, commands and failures.      *)
(***************************************************************************)
EXTENDS ObjectStore, CloudSession, TLAPS

-------------------------------------------------------------------------------
(* The bytes of one put *)

LEMMA BundleType ==
    ASSUME NEW b \in Bundle
    PROVE  b.id \in Chunk /\ b.size \in Nat
  BY Constants DEF Bundle, None, Chunk

LEMMA FirstType ==
    ASSUME NEW b \in Bundle, NEW n \in Nat
    PROVE  /\ First(n, b) \in Seq(Chunk)
           /\ Len(First(n, b)) = n
           /\ \A m \in 1 .. n : First(n, b)[m] = b.id
<1>1. First(n, b) \in [1 .. n -> Chunk]
  BY BundleType DEF First
<1>2. QED
  BY <1>1 DEF First

LEMMA FirstNone ==
    ASSUME NEW b
    PROVE  First(0, b) = <<>>
  BY DEF First

\* Two sequences of the same length with the same elements are one.
LEMMA SameChunks ==
    ASSUME NEW s \in Seq(Chunk), NEW u \in Seq(Chunk), Len(s) = Len(u),
           \A m \in 1 .. Len(s) : s[m] = u[m]
    PROVE  s = u
  OBVIOUS

LEMMA WrittenType ==
    ASSUME NEW s \in Seq(Chunk), NEW n \in Nat \ {0}, NEW c \in Chunk
    PROVE  Written(s, n, c) \in Seq(Chunk)
<1>1. CASE n <= Len(s)
  BY <1>1 DEF Written
<1>2. CASE n > Len(s)
  <2>1. 0 \in Chunk
    BY Constants DEF Chunk
  <2>2. Written(s, n, c) \in [1 .. n -> Chunk]
    BY <1>2, <2>1 DEF Written
  <2>3. QED
    BY <2>2
<1>3. QED
  BY <1>1, <1>2

\* Writing where one has got to goes on with the bundle.
LEMMA WrittenNext ==
    ASSUME NEW b \in Bundle, NEW n \in Nat
    PROVE  Written(First(n, b), n + 1, b.id) = First(n + 1, b)
<1> DEFINE s == First(n, b)
<1>1. Len(s) = n /\ \A m \in 1 .. n : s[m] = b.id
  BY FirstType
<1>2. Written(s, n + 1, b.id)
        = [m \in 1 .. n + 1 |-> IF m = n + 1 THEN b.id ELSE IF m <= Len(s) THEN s[m] ELSE 0]
  BY <1>1 DEF Written
<1>3. \A m \in 1 .. n + 1 :
        (IF m = n + 1 THEN b.id ELSE IF m <= Len(s) THEN s[m] ELSE 0) = b.id
  BY <1>1
<1> HIDE DEF s
<1>4. Written(s, n + 1, b.id) = [m \in 1 .. n + 1 |-> b.id]
  BY <1>2, <1>3
<1>5. QED
  BY <1>4 DEF First, s

LEMMA AppendNext ==
    ASSUME NEW b \in Bundle, NEW n \in Nat
    PROVE  Append(First(n, b), b.id) = First(n + 1, b)
<1> DEFINE s == Append(First(n, b), b.id)
           u == First(n + 1, b)
<1>1. u \in Seq(Chunk) /\ Len(u) = n + 1 /\ \A m \in 1 .. n + 1 : u[m] = b.id
  BY FirstType
<1>2. s \in Seq(Chunk) /\ Len(s) = n + 1 /\ \A m \in 1 .. n + 1 : s[m] = b.id
  BY FirstType, BundleType
<1> HIDE DEF s, u
<1>3. s = u
  BY <1>1, <1>2, SameChunks
<1>4. QED
  BY <1>3 DEF s, u

-------------------------------------------------------------------------------
(* Types *)

LEMMA IdleType == Idle \in Request /\ Idle.pc = "idle" /\ Idle.inode = 0
<1>1. (CHOOSE k \in Key : TRUE) \in Key
  BY Constants
<1>2. None \in Bundle /\ <<>> \in Seq(Chunk)
  BY DEF Bundle
<1>3. QED
  BY <1>1, <1>2 DEF Idle, Request, Pc

LEMMA RequestFields ==
    ASSUME TypeOK, NEW t \in Task
    PROVE  /\ task[t].pc \in Pc /\ K(t) \in Key /\ task[t].what \in Bundle
           /\ task[t].inode \in Inode \cup {0} /\ task[t].at \in Nat
           /\ task[t].read \in Seq(Chunk) /\ task[t].length \in Nat
  BY DEF TypeOK, Request, K

LEMMA AnswerType ==
    ASSUME TypeOK, NEW t \in Task, Answer(t)
    PROVE  task' \in [Task -> Request]
  BY IdleType DEF TypeOK, Answer

LEMMA GotoType ==
    ASSUME TypeOK, NEW t \in Task, NEW pc \in Pc, Goto(t, pc)
    PROVE  task' \in [Task -> Request]
  BY DEF TypeOK, Goto, Request

\* A name of the directory is an inode's, never 0.
LEMMA FreshIsUnused ==
    ASSUME NEW i \in Fresh
    PROVE  /\ i \in Inode /\ i # 0
           /\ \A k \in Key : object[k] # i /\ partial[k] # i
           /\ \A t \in Task : task[t].inode # i
  BY Constants DEF Fresh, Unused

\* The id of a put under way is that of a bundle.
LEMMA IdType ==
    ASSUME TypeOK, Progress, NEW t \in Task, task[t].pc \in {"create", "copy", "publish", "abort"}
    PROVE  task[t].what.id \in 1 .. MaxPuts /\ task[t].what.size \in 1 .. Chunks
  BY RequestFields DEF Progress, Bundle

LEMMA PutTypes ==
    ASSUME TypeOK, Progress, NEW t \in Task
    PROVE  /\ (\E k \in Key : PutBegins(t, k)) => TypeOK'
           /\ Create(t) \/ CreateUpload(t) \/ Copy(t) => TypeOK'
           /\ Rename(t) \/ Complete(t) => TypeOK'
<1>1. ASSUME NEW k \in Key, PutBegins(t, k) PROVE TypeOK'
  <2>1. PICK n \in 1 .. Chunks :
          task' = [task EXCEPT ![t] = [Idle EXCEPT !.pc = "create", !.key = k,
                                         !.what = [id |-> puts + 1, size |-> n]]]
    BY <1>1 DEF PutBegins
  <2>2. puts + 1 \in 1 .. MaxPuts
    BY <1>1, Constants DEF PutBegins, TypeOK
  <2>3. [id |-> puts + 1, size |-> n] \in Bundle
    BY <2>2 DEF Bundle
  <2>4. task' \in [Task -> Request]
    BY <2>1, <2>3, IdleType DEF TypeOK, Request, Pc
  <2>5. puts' \in 0 .. MaxPuts
    BY <1>1, <2>2 DEF PutBegins
  <2>6. QED
    BY <1>1, <2>4, <2>5 DEF PutBegins, TypeOK
<1>2. CASE Create(t)
  <2>1. PICK i \in IF partial[TemporaryOf(K(t))] = 0 THEN Fresh ELSE {partial[TemporaryOf(K(t))]} :
          /\ partial' = [partial EXCEPT ![TemporaryOf(K(t))] = i]
          /\ file' = [file EXCEPT ![i] = Truncated(@)]
          /\ task' = [task EXCEPT ![t].pc = "copy", ![t].inode = i]
    BY <1>2 DEF Create
  <2>2. i \in Inode
    BY <2>1, FreshIsUnused, RequestFields DEF TypeOK, TemporaryOf
  <2>3. task' \in [Task -> Request]
    <3>1. task[t] \in Request
      BY DEF TypeOK
    <3>2. [task[t] EXCEPT !.pc = "copy", !.inode = i] \in Request
      BY <3>1, <2>2 DEF Request, Pc
    <3>3. task' = [task EXCEPT ![t] = [task[t] EXCEPT !.pc = "copy", !.inode = i]]
      BY <2>1 DEF TypeOK
    <3>4. QED
      BY <3>2, <3>3 DEF TypeOK
  <2>4. partial' \in [Key -> Inode \cup {0}]
    BY <2>1, <2>2 DEF TypeOK
  <2>5. file' \in [Inode -> Seq(Chunk)]
    BY <2>1, <2>2 DEF TypeOK, Truncated
  <2>6. raced' \subseteq Key
    BY <1>2, RequestFields DEF Create, TypeOK
  <2>7. QED
    BY <1>2, <2>3, <2>4, <2>5, <2>6 DEF Create, TypeOK
<1>3. CASE CreateUpload(t)
  <2>1. task' \in [Task -> Request]
    BY <1>3, GotoType DEF CreateUpload, Pc
  <2>2. uploads' \subseteq 1 .. MaxPuts
    BY <1>3, IdType DEF CreateUpload, At, TypeOK
  <2>3. QED
    BY <1>3, <2>1, <2>2 DEF CreateUpload, TypeOK
<1>4. CASE Copy(t)
  <2> DEFINE n == task[t].at + 1
  <2>1. n \in Nat \ {0} /\ task[t].what.id \in Chunk
    BY RequestFields, BundleType
  <2>2. task' \in [Task -> Request]
    <3> DEFINE pc == IF n = task[t].what.size THEN "publish" ELSE "copy"
    <3>1. task[t] \in Request /\ pc \in Pc
      BY DEF TypeOK, Pc
    <3>2. task' = [task EXCEPT ![t].at = n, ![t].pc = pc]
      BY <1>4 DEF Copy
    <3> HIDE DEF n, pc
    <3>3. [task[t] EXCEPT !.at = n, !.pc = pc] \in Request
      BY <2>1, <3>1 DEF Request
    <3>4. task' = [task EXCEPT ![t] = [task[t] EXCEPT !.at = n, !.pc = pc]]
      BY <3>2 DEF TypeOK
    <3>5. QED
      BY <3>3, <3>4 DEF TypeOK
  <2>3. CASE Local
    <3>1. Opens(t) /\ task[t].inode \in Inode
      BY <1>4, <2>3, RequestFields DEF Progress, Copy, At, Writing, Opens
    <3>2. Written(file[task[t].inode], n, task[t].what.id) \in Seq(Chunk)
      BY <2>1, <3>1, WrittenType DEF TypeOK
    <3>3. file' = [file EXCEPT ![task[t].inode] = Written(file[task[t].inode], n, task[t].what.id)]
      BY <1>4, <2>3 DEF Copy
    <3>4. file' \in [Inode -> Seq(Chunk)]
      BY <3>1, <3>2, <3>3 DEF TypeOK
    <3>5. QED
      BY <1>4, <2>2, <3>4 DEF Copy, TypeOK
  <2>4. CASE ~Local
    BY <1>4, <2>2, <2>4 DEF Copy, TypeOK
  <2>5. QED
    BY <2>3, <2>4
<1>5. CASE Rename(t)
  BY <1>5, AnswerType, RequestFields DEF Rename, TypeOK, TemporaryOf
<1>6. CASE Complete(t)
  <2>1. PICK i \in Fresh : /\ object' = [object EXCEPT ![K(t)] = i]
                           /\ file' = [file EXCEPT ![i] = Whole(task[t].what)]
    BY <1>6 DEF Complete
  <2>2. Whole(task[t].what) \in Seq(Chunk)
    BY RequestFields, BundleType, FirstType DEF Whole
  <2>3. i \in Inode
    BY FreshIsUnused
  <2>4. object' \in [Key -> Inode \cup {0}] /\ file' \in [Inode -> Seq(Chunk)]
    BY <2>1, <2>2, <2>3 DEF TypeOK
  <2>5. task' \in [Task -> Request]
    BY <1>6, AnswerType, GotoType DEF Complete, Pc
  <2>6. stored' \in [Key -> Bundle] /\ uploads' \subseteq 1 .. MaxPuts
    BY <1>6, RequestFields DEF Complete, TypeOK
  <2>7. QED
    BY <1>6, <2>4, <2>5, <2>6 DEF Complete, TypeOK
<1>7. QED
  BY <1>1, <1>2, <1>3, <1>4, <1>5, <1>6

\* Whose parts are kept belongs to puts there were.
LEMMA BegunType ==
    ASSUME TypeOK, Progress, NEW t \in Task
    PROVE  Begun({t}) \subseteq 1 .. MaxPuts
  BY IdType DEF Begun

LEMMA OtherTypes ==
    ASSUME TypeOK, Progress, NEW t \in Task
    PROVE  /\ PutFails(t) \/ Abort(t) => TypeOK'
           /\ (\E k \in Key : Open(t, k)) \/ Stream(t) \/ ReadEnds(t) => TypeOK'
           /\ Cancel(t) => TypeOK'
<1>1. CASE PutFails(t)
  BY <1>1, AnswerType, GotoType DEF PutFails, history, Pc, TypeOK
<1>2. CASE Abort(t)
  <2>1. task' \in [Task -> Request]
    BY <1>2, AnswerType DEF Abort
  <2>2. task[t].what.id \in 1 .. MaxPuts
    BY <1>2, IdType DEF Abort, At
  <2>3. QED
    BY <1>2, <2>1, <2>2 DEF Abort, TypeOK
<1>3. ASSUME NEW k \in Key, Open(t, k) PROVE TypeOK'
  <2>1. object[k] \in Inode /\ Len(file[object[k]]) \in Nat
    BY <1>3 DEF Open, TypeOK
  <2>2. task' \in [Task -> Request]
    BY <1>3, <2>1, IdleType DEF Open, TypeOK, Request, Pc
  <2>3. QED
    BY <1>3, <2>2 DEF Open, history, TypeOK
<1>4. CASE Stream(t)
  <2> DEFINE s == file[Opened(t)]
             n == task[t].at + 1
  <2>1. Opened(t) \in Inode
    BY <1>4, RequestFields DEF Progress, Stream, At, Reading, Opens, Opened
  <2>2. s \in Seq(Chunk) /\ n \in Nat /\ n > 0
    BY <2>1, RequestFields DEF TypeOK
  <2>3. CASE task[t].length = task[t].at
    BY <1>4, <2>3, GotoType DEF Stream, Pc, history, TypeOK
  <2>4. CASE task[t].length # task[t].at /\ n > Len(s)
    BY <1>4, <2>4, GotoType DEF Stream, Pc, history, TypeOK
  <2>5. CASE task[t].length # task[t].at /\ ~(n > Len(s))
    <3>1. s[n] \in Chunk
      BY <2>2, <2>5
    <3>2. Append(task[t].read, s[n]) \in Seq(Chunk)
      BY <3>1, RequestFields
    <3>3. task' = [task EXCEPT ![t].at = n, ![t].read = Append(task[t].read, s[n])]
      BY <1>4, <2>5 DEF Stream
    <3>4. task' \in [Task -> Request]
      BY ZenonT(60), <2>2, <3>2, <3>3 DEF TypeOK, Request
    <3>5. QED
      BY <1>4, <3>4 DEF Stream, history, TypeOK
  <2>6. QED
    BY <2>3, <2>4, <2>5
<1>5. CASE ReadEnds(t)
  BY <1>5, AnswerType DEF ReadEnds, history, TypeOK
<1>6. CASE Cancel(t)
  BY <1>6, AnswerType, BegunType DEF Cancel, TypeOK
<1>7. QED
  BY <1>1, <1>2, <1>3, <1>4, <1>5, <1>6

LEMMA DirectoryTypes ==
    ASSUME TypeOK, Progress, ServerDies \/ \E k \in Key : Delete(k)
    PROVE  TypeOK'
<1>1. ASSUME NEW k \in Key, Delete(k) PROVE TypeOK'
  BY <1>1 DEF Delete, TypeOK, Bundle
<1>2. CASE ServerDies
  <2>1. Begun(Task) \subseteq 1 .. MaxPuts
    BY IdType DEF Begun
  <2>2. QED
    BY <1>2, <2>1, IdleType DEF ServerDies, TypeOK
<1>3. QED
  BY <1>1, <1>2

LEMMA TypeStep ==
    ASSUME TypeOK, Progress, [Next]_vars
    PROVE  TypeOK'
<1>1. CASE UNCHANGED vars
  BY <1>1 DEF vars, TypeOK
<1>2. CASE Next
  BY <1>2, PutTypes, OtherTypes, DirectoryTypes DEF Next
<1>3. QED
  BY <1>1, <1>2

-------------------------------------------------------------------------------
(* What is stored and what is sent *)

\* How far the request of t has got: what Progress says of one.
Going(t) ==
    /\ At(t, "create") => task[t].at = 0
    /\ task[t].pc \in {"create", "copy", "publish", "abort"} => task[t].what # None
    /\ At(t, "copy") => task[t].at < task[t].what.size
    /\ At(t, "publish") => task[t].at = task[t].what.size
    /\ Opens(t) <=> Writing(t) \/ Reading(t)

\* A step after which every request is as it was, or has nothing open.
LEMMA Aside ==
    ASSUME StoreInv, TypeOK', UNCHANGED <<backend, file, object, partial, stored, raced>>,
           \A u \in Task : task'[u] = task[u] \/ (Going(u)' /\ ~Opens(u)')
    PROVE  StoreInv'
<1>1. \A u \in Task : Opens(u)' => task'[u] = task[u]
  BY DEF Going
<1>2. Progress'
  BY DEF StoreInv, Progress, Going, At, Opens, Writing, Reading, Local
<1>3. \A u \in Task : Writing(u)' \/ Reading(u)' => task'[u] = task[u]
  BY <1>1, <1>2 DEF Progress
<1>4. NamesApart'
  BY DEF StoreInv, NamesApart
<1>5. KeysApart'
  <2>1. ASSUME NEW t \in Task, Opens(t)' PROVE /\ task'[t] = task[t] /\ Opens(t)
                                              /\ K(t)' = K(t) /\ (Reading(t)' => Reading(t))
    BY <1>1, <2>1 DEF Opens, K, Reading
  <2>2. ASSUME NEW t \in Task, Opens(t)', NEW u \in Task, task'[u].inode = task'[t].inode
        PROVE  K(u)' = K(t)'
    <3>1. Opens(u)'
      BY <2>2 DEF Opens
    <3>2. QED
      BY <2>1, <2>2, <3>1 DEF StoreInv, KeysApart
  <2>3. QED
    BY <2>1, <2>2 DEF StoreInv, KeysApart
<1>6. WritersAlone'
  <2>1. ASSUME NEW t \in Task, Writing(t)' PROVE task'[t] = task[t] /\ Writing(t) /\ K(t)' = K(t)
    BY <1>3, <2>1 DEF Writing, Local, K
  <2>2. QED
    BY <2>1 DEF StoreInv, WritersAlone
<1>7. ReadersWhole'
  <2>1. ASSUME NEW t \in Task, Reading(t)' PROVE task'[t] = task[t] /\ Reading(t) /\ K(t)' = K(t)
    BY <1>3, <2>1 DEF Reading, K
  <2>2. QED
    BY <2>1 DEF StoreInv, ReadersWhole, At
<1>8. ObjectsAreWhole'
  BY DEF StoreInv, ObjectsAreWhole
<1>9. QED
  BY <1>2, <1>4, <1>5, <1>6, <1>7, <1>8 DEF StoreInv

\* A request that is answered has nothing open.
LEMMA AnsweredAside ==
    ASSUME TypeOK, NEW t \in Task, Answer(t)
    PROVE  \A u \in Task : task'[u] = task[u] \/ (Going(u)' /\ ~Opens(u)')
<1>1. \A u \in Task \ {t} : task'[u] = task[u]
  BY DEF Answer, TypeOK
<1>2. task'[t] = Idle
  BY DEF Answer, TypeOK
<1>3. Going(t)' /\ ~Opens(t)'
  BY <1>2, IdleType DEF Going, At, Opens, Writing, Reading
<1>4. QED
  BY <1>1, <1>3

LEMMA AsideSteps ==
    ASSUME StoreInv, TypeOK', NEW t \in Task
    PROVE  /\ (\E k \in Key : PutBegins(t, k)) => StoreInv'
           /\ CreateUpload(t) => StoreInv'
           /\ Copy(t) /\ ~Local => StoreInv'
           /\ PutFails(t) \/ Abort(t) \/ ReadEnds(t) \/ Cancel(t) => StoreInv'
           /\ ServerDies => StoreInv'
<1>1. ASSUME NEW k \in Key, PutBegins(t, k) PROVE StoreInv'
  <2>1. PICK n \in 1 .. Chunks :
          task' = [task EXCEPT ![t] = [Idle EXCEPT !.pc = "create", !.key = k,
                                         !.what = [id |-> puts + 1, size |-> n]]]
    BY <1>1 DEF PutBegins
  <2>2. \A u \in Task \ {t} : task'[u] = task[u]
    BY <2>1 DEF StoreInv, TypeOK
  <2>3. /\ task'[t].pc = "create" /\ task'[t].inode = 0 /\ task'[t].at = 0
        /\ task'[t].what # None
    BY <2>1 DEF StoreInv, TypeOK, Idle, None
  <2>4. Going(t)' /\ ~Opens(t)'
    BY <2>3 DEF Going, At, Opens, Writing, Reading
  <2>5. QED
    BY <1>1, <2>2, <2>4, Aside DEF PutBegins
<1>2. CASE CreateUpload(t)
  <2>1. \A u \in Task \ {t} : task'[u] = task[u]
    BY <1>2 DEF CreateUpload, Goto, StoreInv, TypeOK
  <2>2. task'[t].pc = "copy" /\ task'[t].inode = task[t].inode
        /\ task'[t].at = task[t].at /\ task'[t].what = task[t].what
    BY <1>2 DEF CreateUpload, Goto, StoreInv, TypeOK, Request
  <2>3. task[t].pc = "create" /\ task[t].inode = 0 /\ task[t].at = 0 /\ task[t].what # None
    BY <1>2 DEF CreateUpload, StoreInv, Progress, At, Opens, Writing, Reading
  <2>4. task[t].what.size > 0
    BY <1>2, <2>3, IdType DEF StoreInv
  <2>5. Going(t)' /\ ~Opens(t)'
    BY <1>2, <2>2, <2>3, <2>4 DEF CreateUpload, Going, At, Opens, Writing, Reading, Local
  <2>6. QED
    BY <1>2, <2>1, <2>5, Aside DEF CreateUpload
<1>3. CASE Copy(t) /\ ~Local
  <2> DEFINE n == task[t].at + 1
             pc == IF n = task[t].what.size THEN "publish" ELSE "copy"
  <2>1. task' = [task EXCEPT ![t].at = n, ![t].pc = pc] /\ file' = file
    BY <1>3 DEF Copy
  <2>2. \A u \in Task \ {t} : task'[u] = task[u]
    BY <2>1 DEF StoreInv, TypeOK
  <2>3. task'[t].pc = pc /\ task'[t].inode = task[t].inode
        /\ task'[t].at = n /\ task'[t].what = task[t].what
    BY <2>1 DEF StoreInv, TypeOK, Request
  <2>4. /\ task[t].inode = 0 /\ task[t].at < task[t].what.size /\ task[t].what # None
        /\ task[t].at \in Nat /\ task[t].what.size \in Nat
    BY <1>3, RequestFields, BundleType
       DEF Copy, StoreInv, Progress, At, Opens, Writing, Reading
  <2>5. Going(t)' /\ ~Opens(t)'
    BY <1>3, <2>3, <2>4 DEF Copy, Going, At, Opens, Writing, Reading, Local
  <2>6. QED
    BY <1>3, <2>1, <2>2, <2>5, Aside DEF Copy
<1>4. CASE PutFails(t)
  <2>1. CASE Answer(t)
    BY <1>4, <2>1, AnsweredAside, Aside DEF PutFails, history, StoreInv
  <2>2. CASE ~Local /\ Goto(t, "abort")
    <3>1. \A u \in Task \ {t} : task'[u] = task[u]
      BY <2>2 DEF Goto, StoreInv, TypeOK
    <3>2. task'[t].pc = "abort" /\ task'[t].inode = task[t].inode /\ task'[t].what = task[t].what
      BY <2>2 DEF Goto, StoreInv, TypeOK, Request
    <3>3. task[t].inode = 0 /\ task[t].what # None
      BY <1>4, <2>2 DEF PutFails, StoreInv, Progress, Opens, Writing, Reading
    <3>4. Going(t)' /\ ~Opens(t)'
      BY <3>2, <3>3 DEF Going, At, Opens, Writing, Reading
    <3>5. QED
      BY <1>4, <3>1, <3>4, Aside DEF PutFails, history
  <2>3. QED
    BY <1>4, <2>1, <2>2 DEF PutFails
<1>5. CASE Abort(t)
  BY <1>5, AnsweredAside, Aside DEF Abort, StoreInv
<1>6. CASE ReadEnds(t)
  BY <1>6, AnsweredAside, Aside DEF ReadEnds, history, StoreInv
<1>7. CASE Cancel(t)
  BY <1>7, AnsweredAside, Aside DEF Cancel, StoreInv
<1>8. CASE ServerDies
  <2>1. \A u \in Task : task'[u] = Idle
    BY <1>8 DEF ServerDies
  <2>2. \A u \in Task : Going(u)' /\ ~Opens(u)'
    BY <2>1, IdleType DEF Going, At, Opens, Writing, Reading
  <2>3. QED
    BY <1>8, <2>2, Aside DEF ServerDies
<1>9. QED
  BY <1>1, <1>2, <1>3, <1>4, <1>5, <1>6, <1>7, <1>8

\* The file of the temporary name is opened and is empty.
LEMMA CreateStep ==
    ASSUME StoreInv, TypeOK', NEW t \in Task, Create(t)
    PROVE  StoreInv'
<1> DEFINE k == K(t)
<1>1. PICK i \in IF partial[k] = 0 THEN Fresh ELSE {partial[k]} :
        /\ partial' = [partial EXCEPT ![k] = i]
        /\ file' = [file EXCEPT ![i] = <<>>]
        /\ task' = [task EXCEPT ![t].pc = "copy", ![t].inode = i]
  BY DEF Create, TemporaryOf, Truncated
<1>2. /\ Local /\ Local' /\ object' = object /\ stored' = stored
      /\ raced \subseteq raced' /\ k \in Key
      /\ task[t].pc = "create" /\ task[t].at = 0 /\ task[t].what # None /\ task[t].inode = 0
  BY RequestFields
     DEF Create, StoreInv, Progress, At, Local, Opens, Writing, Reading
\* The inode is nobody's, or has the temporary name already.
<1>3. /\ i \in Inode /\ i # 0
      /\ \A l \in Key : object[l] # i /\ (partial[l] = i => l = k)
      /\ \A u \in Task : task[u].inode = i => K(u) = k /\ ~Reading(u)
  <2>1. CASE partial[k] = 0
    BY <1>1, <2>1, FreshIsUnused
  <2>2. CASE partial[k] # 0
    <3>1. i = partial[k] /\ i \in Inode /\ i # 0
      BY <1>1, <1>2, <2>2 DEF StoreInv, TypeOK
    <3>2. \A l \in Key : object[l] # i /\ (partial[l] = i => l = k)
      BY <1>2, <3>1 DEF StoreInv, NamesApart
    <3>3. \A u \in Task : task[u].inode = i => K(u) = k /\ ~Reading(u)
      BY <1>2, <3>1 DEF StoreInv, KeysApart, Opens
    <3>4. QED
      BY <3>1, <3>2, <3>3
  <2>3. QED
    BY <2>1, <2>2
<1>4. /\ \A u \in Task \ {t} : task'[u] = task[u]
      /\ task'[t].pc = "copy" /\ task'[t].inode = i /\ task'[t].key = task[t].key
      /\ task'[t].at = 0 /\ task'[t].what = task[t].what
  BY <1>1, <1>2 DEF StoreInv, TypeOK, Request
<1>5. /\ \A u \in Task : K(u)' = K(u) /\ (u # t => Reading(u)' = Reading(u) /\ Writing(u)' = Writing(u))
      /\ Writing(t)' /\ ~Reading(t)' /\ Opens(t)'
  BY <1>2, <1>3, <1>4 DEF K, Reading, Writing, Opens
<1>6. partial'[k] = i /\ \A l \in Key \ {k} : partial'[l] = partial[l]
  BY <1>1, <1>2 DEF StoreInv, TypeOK
<1>7. file'[i] = <<>> /\ \A j \in Inode \ {i} : file'[j] = file[j]
  BY <1>1, <1>3 DEF StoreInv, TypeOK
<1> HIDE DEF k
<1>8. Progress'
  <2>1. task[t].what.size > 0
    BY <1>2, IdType DEF StoreInv
  <2>2. ASSUME NEW u \in Task PROVE Going(u)'
    <3>1. CASE u = t
      BY <1>4, <1>5, <2>1, <1>2, <3>1 DEF Going, At
    <3>2. CASE u # t
      BY <1>4, <1>5, <3>2 DEF Going, At, Opens, StoreInv, Progress
    <3>3. QED
      BY <3>1, <3>2
  <2>3. QED
    BY <2>2 DEF Going, Progress
<1>9. NamesApart'
  BY <1>2, <1>3, <1>6 DEF StoreInv, NamesApart
<1>10. KeysApart'
  <2>1. \A u \in Task : task'[u].inode = i => K(u) = k /\ ~Reading(u)'
    BY <1>3, <1>4, <1>5 DEF k
  <2>2. ASSUME NEW u \in Task, Opens(u)', NEW v \in Task, task'[v].inode = task'[u].inode
        PROVE  K(v)' = K(u)'
    <3>1. CASE task'[u].inode = i
      BY <1>5, <2>1, <2>2, <3>1
    <3>2. CASE task'[u].inode # i
      BY <1>4, <1>5, <2>2, <3>2 DEF StoreInv, KeysApart, Opens
    <3>3. QED
      BY <3>1, <3>2
  <2>3. ASSUME NEW u \in Task, Opens(u)', NEW l \in Key, task'[u].inode \in {object'[l], partial'[l]}
        PROVE  l = K(u)'
    <3>1. CASE task'[u].inode = i
      BY <1>2, <1>3, <1>5, <1>6, <2>1, <2>3, <3>1
    <3>2. CASE task'[u].inode # i
      BY <1>2, <1>4, <1>5, <1>6, <2>3, <3>2 DEF StoreInv, KeysApart, Opens
    <3>3. QED
      BY <3>1, <3>2
  <2>4. ASSUME NEW u \in Task, Opens(u)', Reading(u)' PROVE task'[u].inode # partial'[K(u)']
    <3>1. u # t /\ task'[u] = task[u] /\ Reading(u) /\ Opens(u) /\ task[u].inode # i
      BY <1>3, <1>4, <1>5, <2>4 DEF Opens
    <3>2. K(u) \in Key /\ task[u].inode # partial[K(u)]
      BY <3>1, RequestFields DEF StoreInv, KeysApart
    <3>3. QED
      BY <1>5, <1>6, <3>1, <3>2
  <2>5. QED
    BY <2>2, <2>3, <2>4 DEF KeysApart
<1>11. WritersAlone'
  <2> SUFFICES ASSUME NEW u \in Task, Writing(u)', K(u)' \notin raced'
               PROVE  /\ partial'[K(u)'] = task'[u].inode
                      /\ \A v \in Task : Writing(v)' /\ K(v)' = K(u)' => v = u
                      /\ file'[task'[u].inode] = First(task'[u].at, task'[u].what)
    BY DEF WritersAlone
  <2>1. CASE u = t
    <3>1. \A v \in Task \ {t} : K(v) = K(t) => task[v].pc \notin {"copy", "publish"}
      BY <1>5, <2>1, RequestFields DEF Create, StoreInv, TypeOK
    <3>2. \A v \in Task : Writing(v)' /\ K(v)' = K(u)' => v = u
      BY <1>5, <2>1, <3>1 DEF Writing
    <3>3. QED
      BY <1>4, <1>5, <1>6, <1>7, <2>1, <3>2, FirstNone DEF k
  <2>2. CASE u # t
    <3>1. Writing(u) /\ K(u)' = K(u) /\ K(u) \notin raced /\ task'[u] = task[u]
      BY <1>2, <1>4, <1>5, <2>2
    <3>2. K(u) # k
      BY <1>2, <1>5, <2>2, <3>1 DEF Create, k, Writing
    <3>3. task[u].inode # i /\ task[u].inode \in Inode
      BY <1>3, <3>1, <3>2, RequestFields DEF StoreInv, Progress, Opens
    <3>4. \A v \in Task : Writing(v)' /\ K(v)' = K(u) => v = u
      BY <1>5, <3>1, <3>2 DEF StoreInv, WritersAlone, k
    <3>5. K(u) \in Key
      BY RequestFields DEF StoreInv
    <3>6. QED
      BY <1>6, <1>7, <3>1, <3>2, <3>3, <3>4, <3>5 DEF StoreInv, WritersAlone
  <2>3. QED
    BY <2>1, <2>2
<1>12. ReadersWhole'
  <2> SUFFICES ASSUME NEW u \in Task, Reading(u)', K(u)' \notin raced'
               PROVE  /\ file'[task'[u].inode] = Whole(task'[u].what)
                      /\ task'[u].length = task'[u].what.size
                      /\ task'[u].at <= task'[u].length
                      /\ task'[u].read = First(task'[u].at, task'[u].what)
                      /\ ~At(u, "broken")'
                      /\ At(u, "delivered")' => task'[u].at = task'[u].length
    BY DEF ReadersWhole
  <2>1. u # t /\ task'[u] = task[u] /\ Reading(u) /\ K(u) \notin raced
    BY <1>2, <1>4, <1>5
  <2>2. task[u].inode # i /\ task[u].inode \in Inode
    BY <1>3, <2>1, RequestFields DEF StoreInv, Progress, Opens
  <2>3. QED
    BY <1>7, <2>1, <2>2 DEF StoreInv, ReadersWhole, At
<1>13. ObjectsAreWhole'
  BY <1>2, <1>3, <1>7 DEF StoreInv, TypeOK, ObjectsAreWhole
<1>14. QED
  BY <1>8, <1>9, <1>10, <1>11, <1>12, <1>13 DEF StoreInv

\* One more chunk of the bundle is in the file.
LEMMA CopyStep ==
    ASSUME StoreInv, TypeOK', NEW t \in Task, Copy(t), Local
    PROVE  StoreInv'
<1> DEFINE i == task[t].inode
           b == task[t].what
           n == task[t].at + 1
           pc == IF n = b.size THEN "publish" ELSE "copy"
<1>1. /\ Local' /\ object' = object /\ partial' = partial /\ stored' = stored /\ raced' = raced
      /\ task' = [task EXCEPT ![t].at = n, ![t].pc = pc]
      /\ file' = [file EXCEPT ![i] = Written(file[i], n, b.id)]
  BY DEF Copy, Local
<1>2. /\ task[t].pc = "copy" /\ Writing(t) /\ Opens(t) /\ i \in Inode /\ i # 0
      /\ task[t].at \in Nat /\ b \in Bundle /\ b.size \in Nat /\ task[t].at < b.size /\ b # None
  BY RequestFields, BundleType
     DEF Copy, StoreInv, Progress, At, Opens, Writing
<1>3. /\ \A u \in Task \ {t} : task'[u] = task[u]
      /\ task'[t].pc = pc /\ task'[t].inode = i /\ task'[t].key = task[t].key
      /\ task'[t].at = n /\ task'[t].what = b
  BY <1>1 DEF StoreInv, TypeOK, Request
<1>4. file'[i] = Written(file[i], n, b.id) /\ \A j \in Inode \ {i} : file'[j] = file[j]
  BY <1>1, <1>2 DEF StoreInv, TypeOK
<1> HIDE DEF i, b, n, pc
<1>5. pc \in {"copy", "publish"} /\ (pc = "copy" => n < b.size) /\ (pc = "publish" => n = b.size)
  BY <1>2 DEF pc, n
<1>6. \A u \in Task : /\ K(u)' = K(u) /\ Opens(u)' = Opens(u) /\ task'[u].inode = task[u].inode
                      /\ (Reading(u)' <=> Reading(u)) /\ (Writing(u)' <=> Writing(u))
  <2>1. /\ task'[t].inode = task[t].inode
        /\ Writing(t) /\ Writing(t)' /\ ~Reading(t) /\ ~Reading(t)'
    BY <1>1, <1>2, <1>3, <1>5 DEF Reading, Writing, i
  <2>2. \A u \in Task \ {t} : (Writing(u)' <=> Writing(u)) /\ (Reading(u)' <=> Reading(u))
    BY <1>1, <1>3 DEF Reading, Writing
  <2>3. \A u \in Task : K(u)' = K(u) /\ Opens(u)' = Opens(u) /\ task'[u].inode = task[u].inode
    BY <1>3, <2>1 DEF K, Opens
  <2>4. QED
    BY <2>1, <2>2, <2>3
<1>7. Progress'
  <2>1. ASSUME NEW u \in Task PROVE Going(u)'
    <3>1. CASE u = t
      BY <1>2, <1>3, <1>5, <1>6, <3>1 DEF Going, At
    <3>2. CASE u # t
      BY <1>3, <1>6, <3>2 DEF Going, At, StoreInv, Progress
    <3>3. QED
      BY <3>1, <3>2
  <2>2. QED
    BY <2>1 DEF Going, Progress
<1>8. NamesApart' /\ KeysApart'
  BY ZenonT(60), <1>1, <1>6 DEF StoreInv, NamesApart, KeysApart
<1>9. WritersAlone'
  <2> SUFFICES ASSUME NEW u \in Task, Writing(u), K(u) \notin raced
               PROVE  /\ partial[K(u)] = task[u].inode
                      /\ \A v \in Task : Writing(v) /\ K(v) = K(u) => v = u
                      /\ file'[task'[u].inode] = First(task'[u].at, task'[u].what)
    BY <1>1, <1>6 DEF WritersAlone
  <2>1. /\ partial[K(u)] = task[u].inode
        /\ \A v \in Task : Writing(v) /\ K(v) = K(u) => v = u
        /\ file[task[u].inode] = First(task[u].at, task[u].what)
    BY DEF StoreInv, WritersAlone
  <2>2. CASE u = t
    <3>1. file'[i] = Written(First(task[t].at, b), n, b.id)
      BY <1>4, <2>1, <2>2 DEF i, b
    <3>2. file'[i] = First(n, b)
      BY <1>2, <3>1, WrittenNext DEF n
    <3>3. QED
      BY <1>3, <2>1, <2>2, <3>2
  <2>3. CASE u # t
    <3>1. Opens(u) /\ task[u].inode \in Inode
      BY RequestFields DEF StoreInv, Progress, Opens
    <3>2. task[u].inode # i
      BY <1>2, <2>1, <2>3, <3>1 DEF StoreInv, KeysApart, i
    <3>3. QED
      BY <1>3, <1>4, <2>1, <2>3, <3>1, <3>2
  <2>4. QED
    BY <2>2, <2>3
\* A reader of t's file is of t's key, and t's file has the temporary name.
<1>10. ReadersWhole'
  <2> SUFFICES ASSUME NEW u \in Task, Reading(u), K(u) \notin raced
               PROVE  /\ file'[task[u].inode] = Whole(task[u].what)
                      /\ task'[u] = task[u]
    BY ZenonT(60), <1>1, <1>6 DEF StoreInv, ReadersWhole, At
  <2>1. u # t
    BY <1>2 DEF Reading
  <2>2. task[u].inode \in Inode /\ Opens(u)
    BY RequestFields DEF StoreInv, Progress, Opens
  <2>3. task[u].inode # i
    <3>1. SUFFICES ASSUME task[u].inode = i PROVE FALSE
      OBVIOUS
    <3>2. K(t) = K(u)
      BY <2>2, <3>1 DEF StoreInv, KeysApart, i
    <3>3. partial[K(u)] = i
      BY <1>2, <3>2 DEF StoreInv, WritersAlone, i
    <3>4. QED
      BY <2>2, <3>1, <3>3 DEF StoreInv, KeysApart
  <2>4. QED
    BY <1>3, <1>4, <2>1, <2>2, <2>3 DEF StoreInv, ReadersWhole
<1>11. ObjectsAreWhole'
  <2> SUFFICES ASSUME NEW k \in Key \ raced, object[k] # 0
               PROVE  file'[object[k]] = file[object[k]]
    BY <1>1 DEF StoreInv, ObjectsAreWhole
  <2>1. object[k] # i
    <3>1. SUFFICES ASSUME object[k] = i PROVE FALSE
      OBVIOUS
    <3>2. K(t) = k
      BY <1>2, <3>1 DEF StoreInv, KeysApart, i
    <3>3. partial[k] = i
      BY <1>2, <3>2 DEF StoreInv, WritersAlone, i
    <3>4. QED
      BY <3>1, <3>3 DEF StoreInv, NamesApart
  <2>2. QED
    BY <1>4, <2>1 DEF StoreInv, TypeOK
<1>12. QED
  BY <1>7, <1>8, <1>9, <1>10, <1>11 DEF StoreInv

\* What has the temporary name takes the object's.
LEMMA RenameStep ==
    ASSUME StoreInv, TypeOK', NEW t \in Task, Rename(t)
    PROVE  StoreInv'
<1> DEFINE k == K(t)
           i == partial[k]
<1>1. /\ Local /\ Local' /\ k \in Key /\ i # 0 /\ i \in Inode
      /\ object' = [object EXCEPT ![k] = i] /\ partial' = [partial EXCEPT ![k] = 0]
      /\ stored' = [stored EXCEPT ![k] = task[t].what] /\ file' = file /\ raced' = raced
      /\ task[t].pc = "publish" /\ Writing(t) /\ Answer(t)
      /\ task[t].at = task[t].what.size
  BY RequestFields DEF Rename, TemporaryOf, Local, StoreInv, TypeOK, Progress, At, Writing
<1>2. /\ object'[k] = i /\ \A l \in Key \ {k} : object'[l] = object[l]
      /\ partial'[k] = 0 /\ \A l \in Key \ {k} : partial'[l] = partial[l]
      /\ stored'[k] = task[t].what /\ \A l \in Key \ {k} : stored'[l] = stored[l]
  BY <1>1 DEF StoreInv, TypeOK
<1>3. /\ \A u \in Task \ {t} : task'[u] = task[u]
      /\ Going(t)' /\ ~Opens(t)'
  <2>1. task'[t] = Idle /\ \A u \in Task \ {t} : task'[u] = task[u]
    BY <1>1 DEF Answer, StoreInv, TypeOK
  <2>2. QED
    BY <2>1, IdleType DEF Going, At, Opens, Writing, Reading
<1>4. \A u \in Task \ {t} : /\ K(u)' = K(u) /\ Opens(u)' = Opens(u)
                            /\ Reading(u)' = Reading(u) /\ Writing(u)' = Writing(u)
  BY <1>1, <1>3 DEF K, Opens, Reading, Writing
<1>5. ~Reading(t)' /\ ~Writing(t)'
  BY <1>3 DEF Going
<1> HIDE DEF k, i
<1>6. Progress'
  BY <1>3, <1>4 DEF StoreInv, Progress, Going, At
<1>7. NamesApart'
  BY <1>1, <1>2 DEF StoreInv, NamesApart, i
<1>8. KeysApart'
  <2>1. ASSUME NEW u \in Task, Opens(u)' PROVE u # t /\ Opens(u) /\ task'[u] = task[u] /\ K(u)' = K(u)
    BY <1>3, <1>4, <2>1
  <2>2. ASSUME NEW u \in Task, Opens(u)', NEW v \in Task, task'[v].inode = task'[u].inode
        PROVE  K(v)' = K(u)'
    <3>1. Opens(v)'
      BY <2>2 DEF Opens
    <3>2. QED
      BY <2>1, <2>2, <3>1 DEF StoreInv, KeysApart
  <2>3. ASSUME NEW u \in Task, Opens(u)', NEW l \in Key, task'[u].inode \in {object'[l], partial'[l]}
        PROVE  l = K(u)'
    BY <1>2, <2>1, <2>3 DEF StoreInv, KeysApart, Opens, i
  <2>4. ASSUME NEW u \in Task, Opens(u)', Reading(u)' PROVE task'[u].inode # partial'[K(u)']
    <3>1. Reading(u) /\ K(u) \in Key
      BY <1>4, <2>1, <2>4, RequestFields DEF StoreInv
    <3>2. task[u].inode # partial[K(u)] /\ task[u].inode # 0
      BY <2>1, <2>4, <3>1 DEF StoreInv, KeysApart, Opens
    <3>3. QED
      BY <1>2, <2>1, <2>4, <3>1, <3>2
  <2>5. QED
    BY <2>2, <2>3, <2>4 DEF KeysApart
<1>9. WritersAlone'
  <2> SUFFICES ASSUME NEW u \in Task, Writing(u)', K(u)' \notin raced'
               PROVE  /\ partial'[K(u)'] = task'[u].inode
                      /\ \A v \in Task : Writing(v)' /\ K(v)' = K(u)' => v = u
                      /\ file'[task'[u].inode] = First(task'[u].at, task'[u].what)
    BY DEF WritersAlone
  <2>1. u # t /\ task'[u] = task[u] /\ Writing(u) /\ K(u)' = K(u) /\ K(u) \notin raced /\ K(u) \in Key
    BY <1>1, <1>3, <1>4, <1>5, RequestFields DEF StoreInv
  <2>2. K(u) # k
    BY <1>1, <2>1 DEF StoreInv, WritersAlone, k
  <2>3. \A v \in Task : Writing(v)' => Writing(v) /\ K(v)' = K(v)
    BY <1>4, <1>5
  <2>4. QED
    BY <1>1, <1>2, <2>1, <2>2, <2>3 DEF StoreInv, WritersAlone
<1>10. ReadersWhole'
  BY <1>1, <1>3, <1>4, <1>5 DEF StoreInv, ReadersWhole, At
<1>11. ObjectsAreWhole'
  <2>1. k \notin raced => file[i] = Whole(task[t].what)
    BY <1>1 DEF StoreInv, WritersAlone, Whole, k, i
  <2>2. QED
    BY <1>1, <1>2, <2>1 DEF StoreInv, ObjectsAreWhole
<1>12. QED
  BY <1>6, <1>7, <1>8, <1>9, <1>10, <1>11 DEF StoreInv

\* The bucket makes a new object of the parts.
LEMMA CompleteStep ==
    ASSUME StoreInv, TypeOK', NEW t \in Task, Complete(t)
    PROVE  StoreInv'
<1> DEFINE k == K(t)
<1>1. PICK i \in Fresh : /\ object' = [object EXCEPT ![k] = i]
                         /\ file' = [file EXCEPT ![i] = Whole(task[t].what)]
  BY DEF Complete
<1>2. /\ ~Local /\ ~Local' /\ k \in Key /\ partial' = partial /\ raced' = raced
      /\ stored' = [stored EXCEPT ![k] = task[t].what]
      /\ task[t].pc = "publish" /\ task[t].inode = 0 /\ task[t].what # None
  BY RequestFields
     DEF Complete, Local, StoreInv, Progress, At, Opens, Writing, Reading
<1>3. /\ i \in Inode /\ i # 0
      /\ \A l \in Key : object[l] # i /\ partial[l] # i
      /\ \A u \in Task : task[u].inode # i
  BY FreshIsUnused
<1>4. /\ object'[k] = i /\ \A l \in Key \ {k} : object'[l] = object[l]
      /\ stored'[k] = task[t].what /\ \A l \in Key \ {k} : stored'[l] = stored[l]
      /\ file'[i] = Whole(task[t].what) /\ \A j \in Inode \ {i} : file'[j] = file[j]
  BY <1>1, <1>2, <1>3 DEF StoreInv, TypeOK
<1>5. /\ \A u \in Task \ {t} : task'[u] = task[u]
      /\ Going(t)' /\ ~Opens(t)' /\ task'[t].inode = 0
  <2>1. CASE Answer(t)
    <3>1. task'[t] = Idle /\ \A u \in Task \ {t} : task'[u] = task[u]
      BY <2>1 DEF Answer, StoreInv, TypeOK
    <3>2. QED
      BY <3>1, IdleType DEF Going, At, Opens, Writing, Reading
  <2>2. CASE Goto(t, "abort")
    <3>1. \A u \in Task \ {t} : task'[u] = task[u]
      BY <2>2 DEF Goto, StoreInv, TypeOK
    <3>2. task'[t].pc = "abort" /\ task'[t].inode = 0 /\ task'[t].what = task[t].what
      BY <1>2, <2>2 DEF Goto, StoreInv, TypeOK, Request
    <3>3. QED
      BY <1>2, <3>1, <3>2 DEF Going, At, Opens, Writing, Reading
  <2>3. QED
    BY <2>1, <2>2 DEF Complete
<1>6. \A u \in Task : ~Writing(u)' /\ (Reading(u)' => u # t)
  BY <1>2, <1>5 DEF Writing, Going
<1> HIDE DEF k
<1>7. Progress'
  <2>1. ASSUME NEW u \in Task \ {t} PROVE Going(u)'
    BY <1>2, <1>5 DEF Going, At, Opens, Writing, Reading, StoreInv, Progress
  <2>2. QED
    BY <1>5, <2>1 DEF Going, Progress
<1>8. NamesApart'
  BY <1>2, <1>3, <1>4 DEF StoreInv, NamesApart
<1>9. KeysApart'
  <2> SUFFICES ASSUME NEW u \in Task, Opens(u)'
               PROVE  /\ \A v \in Task : task'[v].inode = task'[u].inode => K(v)' = K(u)'
                      /\ \A l \in Key : task'[u].inode \in {object'[l], partial'[l]} => l = K(u)'
                      /\ Reading(u)' => task'[u].inode # partial'[K(u)']
    BY DEF KeysApart
  <2>1. u # t /\ task'[u] = task[u] /\ Opens(u) /\ K(u)' = K(u)
    BY <1>5 DEF Opens, K
  <2>2. \A v \in Task : task'[v].inode = task'[u].inode => K(v)' = K(u)'
    <3>1. ASSUME NEW v \in Task, task'[v].inode = task'[u].inode PROVE task'[v] = task[v] /\ K(v)' = K(v)
      BY <1>5, <2>1, <3>1 DEF Opens, K
    <3>2. QED
      BY <2>1, <3>1 DEF StoreInv, KeysApart
  <2>3. \A l \in Key : task'[u].inode \in {object'[l], partial'[l]} => l = K(u)'
    BY <1>2, <1>3, <1>4, <2>1 DEF StoreInv, KeysApart
  <2>4. Reading(u)' => task'[u].inode # partial'[K(u)']
    BY <1>2, <2>1 DEF StoreInv, KeysApart, Reading
  <2>5. QED
    BY <2>2, <2>3, <2>4
<1>10. WritersAlone'
  BY <1>6 DEF WritersAlone
<1>11. ReadersWhole'
  <2>1. ASSUME NEW u \in Task, Reading(u)'
        PROVE  /\ task'[u] = task[u] /\ K(u)' = K(u) /\ Reading(u)
               /\ file'[task[u].inode] = file[task[u].inode]
    <3>1. task'[u] = task[u] /\ K(u)' = K(u) /\ Reading(u)
      BY <1>5, <1>6, <2>1 DEF K, Reading
    <3>2. task[u].inode \in Inode
      BY <3>1, RequestFields DEF StoreInv, Progress, Opens
    <3>3. QED
      BY <1>3, <1>4, <3>1, <3>2
  <2>2. QED
    BY <1>2, <2>1 DEF StoreInv, ReadersWhole, At
<1>12. ObjectsAreWhole'
  BY <1>2, <1>3, <1>4 DEF StoreInv, TypeOK, ObjectsAreWhole
<1>13. QED
  BY <1>7, <1>8, <1>9, <1>10, <1>11, <1>12 DEF StoreInv

\* A download begins with the whole object.
LEMMA OpenStep ==
    ASSUME StoreInv, TypeOK', NEW t \in Task, NEW k \in Key, Open(t, k)
    PROVE  StoreInv'
<1> DEFINE i == object[k]
<1>1. /\ i \in Inode /\ i # 0
      /\ backend' = backend /\ object' = object /\ partial' = partial /\ file' = file
      /\ stored' = stored /\ raced' = raced
      /\ task' = [task EXCEPT ![t] = [Idle EXCEPT
                    !.pc = "stream", !.key = k, !.what = stored[k], !.inode = i,
                    !.length = Len(file[i])]]
  BY DEF Open, history, StoreInv, TypeOK
<1>2. /\ \A u \in Task \ {t} : task'[u] = task[u]
      /\ task'[t].pc = "stream" /\ task'[t].key = k /\ task'[t].what = stored[k]
      /\ task'[t].inode = i /\ task'[t].length = Len(file[i])
      /\ task'[t].at = 0 /\ task'[t].read = <<>>
  BY <1>1 DEF StoreInv, TypeOK, Idle
<1> HIDE DEF i
<1>3. /\ \A u \in Task \ {t} : /\ K(u)' = K(u) /\ (Opens(u)' <=> Opens(u))
                               /\ (Reading(u)' <=> Reading(u)) /\ (Writing(u)' <=> Writing(u))
      /\ K(t)' = k /\ Opens(t)' /\ Reading(t)' /\ ~Writing(t)'
  BY <1>1, <1>2 DEF K, Opens, Reading, Writing, Local
<1>4. Progress'
  <2>1. ASSUME NEW u \in Task PROVE Going(u)'
    <3>1. CASE u = t
      BY <1>2, <1>3, <3>1 DEF Going, At
    <3>2. CASE u # t
      BY <1>2, <1>3, <3>2 DEF Going, At, StoreInv, Progress
    <3>3. QED
      BY <3>1, <3>2
  <2>2. QED
    BY <2>1 DEF Going, Progress
<1>5. NamesApart'
  BY <1>1 DEF StoreInv, NamesApart
<1>6. KeysApart'
  <2>1. \A u \in Task : task'[u].inode = i => K(u)' = k
    BY <1>1, <1>2, <1>3 DEF StoreInv, KeysApart, Opens, i
  <2>2. ASSUME NEW u \in Task, Opens(u)', NEW v \in Task, task'[v].inode = task'[u].inode
        PROVE  K(v)' = K(u)'
    <3>1. CASE task'[u].inode = i
      BY <2>1, <2>2, <3>1
    <3>2. CASE task'[u].inode # i
      BY <1>2, <1>3, <2>2, <3>2 DEF StoreInv, KeysApart
    <3>3. QED
      BY <3>1, <3>2
  <2>3. ASSUME NEW u \in Task, Opens(u)', NEW l \in Key, task'[u].inode \in {object'[l], partial'[l]}
        PROVE  l = K(u)'
    <3>1. CASE u = t
      BY <1>1, <1>2, <1>3, <2>3, <3>1 DEF StoreInv, NamesApart, i
    <3>2. CASE u # t
      BY <1>1, <1>2, <1>3, <2>3, <3>2 DEF StoreInv, KeysApart
    <3>3. QED
      BY <3>1, <3>2
  <2>4. ASSUME NEW u \in Task, Opens(u)', Reading(u)' PROVE task'[u].inode # partial'[K(u)']
    <3>1. CASE u = t
      BY <1>1, <1>2, <1>3, <3>1 DEF StoreInv, NamesApart, i
    <3>2. CASE u # t
      BY <1>1, <1>2, <1>3, <2>4, <3>2 DEF StoreInv, KeysApart
    <3>3. QED
      BY <3>1, <3>2
  <2>5. QED
    BY <2>2, <2>3, <2>4 DEF KeysApart
<1>7. WritersAlone'
  BY <1>1, <1>2, <1>3 DEF StoreInv, WritersAlone
<1>8. ReadersWhole'
  <2> SUFFICES ASSUME NEW u \in Task, Reading(u)', K(u)' \notin raced
               PROVE  /\ file[task'[u].inode] = Whole(task'[u].what)
                      /\ task'[u].length = task'[u].what.size
                      /\ task'[u].at <= task'[u].length
                      /\ task'[u].read = First(task'[u].at, task'[u].what)
                      /\ ~At(u, "broken")'
                      /\ At(u, "delivered")' => task'[u].at = task'[u].length
    BY <1>1 DEF ReadersWhole
  <2>1. CASE u = t
    <3>1. stored[k] \in Bundle /\ stored[k].size \in Nat
      BY BundleType DEF StoreInv, TypeOK
    <3>2. file[i] = Whole(stored[k])
      BY <1>1, <1>3, <2>1 DEF StoreInv, ObjectsAreWhole, i
    <3>3. Len(file[i]) = stored[k].size
      BY <3>1, <3>2, FirstType DEF Whole
    <3>4. QED
      BY <1>2, <2>1, <3>1, <3>2, <3>3, FirstNone DEF At
  <2>2. CASE u # t
    BY <1>2, <1>3, <2>2 DEF StoreInv, ReadersWhole, At
  <2>3. QED
    BY <2>1, <2>2
<1>9. ObjectsAreWhole'
  BY <1>1 DEF StoreInv, ObjectsAreWhole
<1>10. QED
  BY <1>4, <1>5, <1>6, <1>7, <1>8, <1>9 DEF StoreInv

\* A download goes on with the object it began with, to its end.
LEMMA StreamStep ==
    ASSUME StoreInv, TypeOK', NEW t \in Task, Stream(t)
    PROVE  StoreInv'
<1> DEFINE s == file[task[t].inode]
           b == task[t].what
           n == task[t].at + 1
<1>1. /\ backend' = backend /\ object' = object /\ partial' = partial /\ file' = file
      /\ stored' = stored /\ raced' = raced /\ task[t].pc = "stream" /\ Reading(t)
  BY DEF Stream, history, At, Reading
<1>2. /\ \A u \in Task \ {t} : task'[u] = task[u]
      /\ task'[t].inode = task[t].inode /\ task'[t].key = task[t].key
      /\ task'[t].what = b /\ task'[t].length = task[t].length
      /\ \/ /\ task[t].length = task[t].at /\ task'[t].pc = "delivered"
            /\ task'[t].at = task[t].at /\ task'[t].read = task[t].read
         \/ /\ n > Len(s) /\ task[t].length # task[t].at /\ task'[t].pc = "broken"
         \/ /\ task[t].length # task[t].at /\ task'[t].pc = "stream"
            /\ task'[t].at = n /\ task'[t].read = Append(task[t].read, s[n])
  <2> HIDE DEF s, n
  <2>1. CASE Goto(t, "delivered") /\ task[t].length = task[t].at
    BY <2>1 DEF Goto, StoreInv, TypeOK, Request
  <2>2. CASE Goto(t, "broken") /\ n > Len(s) /\ task[t].length # task[t].at
    BY <2>2 DEF Goto, StoreInv, TypeOK, Request
  <2>3. CASE /\ task' = [task EXCEPT ![t].at = n, ![t].read = Append(task[t].read, s[n])]
             /\ task[t].length # task[t].at
    BY <1>1, <2>3 DEF StoreInv, TypeOK, Request
  <2>4. QED
    BY <2>1, <2>2, <2>3 DEF Stream, Opened, s, n
<1> HIDE DEF s, b, n
<1>3. task'[t].pc \in {"stream", "delivered", "broken"}
  BY <1>2
<1>4. \A u \in Task : /\ K(u)' = K(u) /\ Opens(u)' = Opens(u) /\ task'[u].inode = task[u].inode
                      /\ (Reading(u)' <=> Reading(u)) /\ (Writing(u)' <=> Writing(u))
  BY <1>1, <1>2, <1>3 DEF K, Opens, Reading, Writing, Local
<1>5. Progress'
  <2>1. ASSUME NEW u \in Task PROVE Going(u)'
    <3>1. CASE u = t
      BY <1>1, <1>3, <1>4, <3>1 DEF Going, At, StoreInv, Progress
    <3>2. CASE u # t
      BY <1>2, <1>4, <3>2 DEF Going, At, StoreInv, Progress
    <3>3. QED
      BY <3>1, <3>2
  <2>2. QED
    BY <2>1 DEF Going, Progress
<1>6. NamesApart' /\ KeysApart' /\ ObjectsAreWhole'
  BY <1>1, <1>4 DEF StoreInv, NamesApart, KeysApart, ObjectsAreWhole
<1>7. WritersAlone'
  <2>1. ~Writing(t)
    BY <1>1 DEF Writing
  <2>2. QED
    BY <1>1, <1>2, <1>4, <2>1 DEF StoreInv, WritersAlone
<1>8. ReadersWhole'
  <2> SUFFICES ASSUME NEW u \in Task, Reading(u), K(u) \notin raced
               PROVE  /\ file[task'[u].inode] = Whole(task'[u].what)
                      /\ task'[u].length = task'[u].what.size
                      /\ task'[u].at <= task'[u].length
                      /\ task'[u].read = First(task'[u].at, task'[u].what)
                      /\ ~At(u, "broken")'
                      /\ At(u, "delivered")' => task'[u].at = task'[u].length
    BY <1>1, <1>4 DEF ReadersWhole
  <2>1. /\ file[task[u].inode] = Whole(task[u].what)
        /\ task[u].length = task[u].what.size /\ task[u].at <= task[u].length
        /\ task[u].read = First(task[u].at, task[u].what)
    BY DEF StoreInv, ReadersWhole
  <2>2. CASE u = t
    <3>1. b \in Bundle /\ b.size \in Nat /\ task[t].at \in Nat /\ task[t].length \in Nat
      BY RequestFields, BundleType DEF StoreInv, b
    <3>2. /\ s = First(b.size, b) /\ task[t].length = b.size /\ task[t].at <= b.size
          /\ task[t].read = First(task[t].at, b)
      BY <2>1, <2>2 DEF s, b, Whole
    <3>3. Len(s) = b.size /\ (task[t].length # task[t].at => n <= Len(s) /\ s[n] = b.id)
      <4>1. Len(First(b.size, b)) = b.size /\ \A m \in 1 .. b.size : First(b.size, b)[m] = b.id
        BY <3>1, FirstType
      <4>2. task[t].length # task[t].at => n \in 1 .. b.size
        BY <3>1, <3>2 DEF n
      <4>3. QED
        BY <3>2, <4>1, <4>2
    <3>4. Append(task[t].read, b.id) = First(n, b)
      BY <3>1, <3>2, AppendNext DEF n
    <3>5. CASE task[t].length = task[t].at /\ task'[t].pc = "delivered"
                 /\ task'[t].at = task[t].at /\ task'[t].read = task[t].read
      BY <1>2, <2>1, <2>2, <3>1, <3>2, <3>5 DEF At, b, s
    <3>6. CASE task[t].length # task[t].at /\ n > Len(s)
      BY <3>1, <3>3, <3>6 DEF n
    <3>7. CASE task[t].length # task[t].at /\ task'[t].pc = "stream"
                 /\ task'[t].at = n /\ task'[t].read = Append(task[t].read, s[n])
      <4>1. task'[t].read = First(n, b)
        BY <3>3, <3>4, <3>7
      <4>2. n <= task[t].length
        BY <3>1, <3>2, <3>3, <3>7
      <4>3. QED
        BY <1>2, <2>1, <2>2, <3>7, <4>1, <4>2 DEF At, b, s
    <3>8. QED
      BY <1>2, <3>5, <3>6, <3>7
  <2>3. CASE u # t
    BY <1>2, <2>1, <2>3 DEF At, StoreInv, ReadersWhole
  <2>4. QED
    BY <2>2, <2>3
<1>9. QED
  BY <1>5, <1>6, <1>7, <1>8 DEF StoreInv

\* A deleted object's file is not touched.
LEMMA DeleteStep ==
    ASSUME StoreInv, TypeOK', NEW k \in Key, Delete(k)
    PROVE  StoreInv'
<1>1. /\ backend' = backend /\ file' = file /\ partial' = partial /\ task' = task /\ raced' = raced
      /\ object'[k] = 0 /\ stored'[k] = None
      /\ \A l \in Key \ {k} : object'[l] = object[l] /\ stored'[l] = stored[l]
  BY DEF Delete, StoreInv, TypeOK
<1>2. Progress' /\ WritersAlone' /\ ReadersWhole'
  BY <1>1 DEF StoreInv, Progress, WritersAlone, ReadersWhole, At, K, Opens, Writing, Reading, Local
<1>3. NamesApart'
  BY <1>1 DEF StoreInv, NamesApart
<1>4. KeysApart'
  BY <1>1 DEF StoreInv, KeysApart, K, Opens, Reading
<1>5. ObjectsAreWhole'
  BY <1>1 DEF StoreInv, ObjectsAreWhole
<1>6. QED
  BY <1>2, <1>3, <1>4, <1>5 DEF StoreInv

-------------------------------------------------------------------------------
LEMMA StoreInit ==
    ASSUME Init
    PROVE  StoreInv
<1>1. \A t \in Task : task[t].pc = "idle" /\ task[t].inode = 0
  BY IdleType DEF Init
<1>2. TypeOK
  <2>1. file \in [Inode -> Seq(Chunk)]
    BY DEF Init
  <2>2. object \in [Key -> Inode \cup {0}] /\ partial \in [Key -> Inode \cup {0}]
    BY DEF Init
  <2>3. task \in [Task -> Request] /\ stored \in [Key -> Bundle]
    BY IdleType DEF Init, Bundle
  <2>4. puts \in 0 .. MaxPuts /\ backend \in {"local", "bucket"}
    BY Constants DEF Init
  <2>5. QED
    BY <2>1, <2>2, <2>3, <2>4 DEF Init, TypeOK
<1>3. Progress /\ KeysApart /\ WritersAlone /\ ReadersWhole
  BY <1>1 DEF Progress, KeysApart, WritersAlone, ReadersWhole, At, Opens, Writing, Reading
<1>4. NamesApart /\ ObjectsAreWhole
  BY DEF Init, NamesApart, ObjectsAreWhole
<1>5. QED
  BY <1>2, <1>3, <1>4 DEF StoreInv

LEMMA StoreStep ==
    ASSUME StoreInv, [Next]_vars
    PROVE  StoreInv'
<1>1. TypeOK'
  BY TypeStep DEF StoreInv
<1>2. CASE UNCHANGED vars
  BY <1>1, <1>2, Aside DEF vars
<1>3. ASSUME NEW t \in Task, Create(t) \/ CreateUpload(t) \/ Copy(t) \/ Rename(t) \/ Complete(t)
      PROVE  StoreInv'
  BY <1>1, <1>3, CreateStep, AsideSteps, CopyStep, RenameStep, CompleteStep
<1>4. ASSUME NEW t \in Task, NEW k \in Key, PutBegins(t, k) \/ Open(t, k)
      PROVE  StoreInv'
  BY <1>1, <1>4, AsideSteps, OpenStep
<1>5. ASSUME NEW t \in Task, PutFails(t) \/ Abort(t) \/ Stream(t) \/ ReadEnds(t) \/ Cancel(t)
      PROVE  StoreInv'
  BY <1>1, <1>5, AsideSteps, StreamStep
<1>6. ASSUME NEW k \in Key, Delete(k) PROVE StoreInv'
  BY <1>1, <1>6, DeleteStep
<1>7. CASE ServerDies
  <2>1. CASE Task = {}
    BY <2>1, Constants
  <2>2. CASE Task # {}
    BY <1>1, <1>7, <2>2, AsideSteps
  <2>3. QED
    BY <2>1, <2>2
<1>8. QED
  BY <1>2, <1>3, <1>4, <1>5, <1>6, <1>7 DEF Next

THEOREM StoreHolds == Spec => []StoreInv
<1>1. Init => StoreInv
  BY StoreInit
<1>2. StoreInv /\ [Next]_vars => StoreInv'
  BY StoreStep
<1>3. QED
  BY <1>1, <1>2, PTL DEF Spec

\* What is stored under a key is what the last put of it wrote, byte for byte.
THEOREM StoredWhole == Spec => []ObjectsAreWhole
<1>1. StoreInv => ObjectsAreWhole
  BY DEF StoreInv
<1>2. QED
  BY <1>1, StoreHolds, PTL

\* A download that ends is the bundle that was stored when it began.
THEOREM DownloadedWhole == Spec => []DownloadsAreWhole
<1>1. StoreInv => DownloadsAreWhole
  <2> SUFFICES ASSUME StoreInv, NEW t \in Task, K(t) \notin raced
               PROVE  ~At(t, "broken") /\ (At(t, "delivered") => task[t].read = Whole(task[t].what))
    BY DEF DownloadsAreWhole
  <2>1. CASE Reading(t)
    BY <2>1 DEF StoreInv, ReadersWhole, Whole
  <2>2. CASE ~Reading(t)
    BY <2>2 DEF Reading, At
  <2>3. QED
    BY <2>1, <2>2
<1>2. QED
  BY <1>1, StoreHolds, PTL

-------------------------------------------------------------------------------
(* The bucket's parts *)

\* Whose parts there are is told from the task alone.
LEMMA PartsStep ==
    ASSUME TypeOK, PartsAreReclaimed, [Next]_vars
    PROVE  PartsAreReclaimed'
<1>1. CASE UNCHANGED vars
  BY <1>1 DEF vars, PartsAreReclaimed, Begun, Local
<1>2. SUFFICES ASSUME Next, NEW id \in uploads', id \notin excused'
               PROVE  ~Local' /\ \E u \in Task : /\ task'[u].pc \in {"copy", "publish", "abort"}
                                                /\ task'[u].what.id = id
  BY <1>1 DEF PartsAreReclaimed, Begun
<1>3. id \in uploads /\ id \notin excused =>
        ~Local /\ \E u \in Task : /\ task[u].pc \in {"copy", "publish", "abort"}
                                 /\ task[u].what.id = id
  BY SMTT(60) DEF PartsAreReclaimed, Begun
<1>4. (Local' <=> Local) /\ id \notin excused
  BY <1>2 DEF Next, PutBegins, Open, Create, CreateUpload, Copy, Rename, Complete, PutFails,
              Abort, Stream, ReadEnds, Cancel, Delete, ServerDies, history, Local
\* A step of t that leaves the parts: its own are those of a put still under way.
<1>5. ASSUME NEW t \in Task, id \in uploads, \A u \in Task \ {t} : task'[u] = task[u],
             task[t].pc \in {"copy", "publish", "abort"} /\ task[t].what.id = id =>
                 task'[t].pc \in {"copy", "publish", "abort"} /\ task'[t].what.id = id
      PROVE  ~Local' /\ \E u \in Task : /\ task'[u].pc \in {"copy", "publish", "abort"}
                                       /\ task'[u].what.id = id
  <2>1. PICK u \in Task : task[u].pc \in {"copy", "publish", "abort"} /\ task[u].what.id = id
    BY <1>3, <1>4, <1>5
  <2>2. task'[u].pc \in {"copy", "publish", "abort"} /\ task'[u].what.id = id
    BY <1>5, <2>1
  <2>3. QED
    BY <1>3, <1>4, <1>5, <2>2
<1>6. ASSUME NEW t \in Task, Answer(t) \/ \E pc \in Pc : Goto(t, pc)
      PROVE  \A u \in Task \ {t} : task'[u] = task[u]
  BY <1>6 DEF Answer, Goto, TypeOK
<1>7. ASSUME NEW t \in Task, NEW k \in Key, PutBegins(t, k) \/ Open(t, k)
      PROVE  ~Local' /\ \E u \in Task : /\ task'[u].pc \in {"copy", "publish", "abort"}
                                       /\ task'[u].what.id = id
  <2>1. id \in uploads /\ task[t].pc = "idle" /\ \A u \in Task \ {t} : task'[u] = task[u]
    BY <1>2, <1>7 DEF PutBegins, Open, history, At, TypeOK
  <2>2. QED
    BY <1>5, <2>1
<1>8. ASSUME NEW t \in Task, Create(t) \/ Copy(t)
      PROVE  ~Local' /\ \E u \in Task : /\ task'[u].pc \in {"copy", "publish", "abort"}
                                       /\ task'[u].what.id = id
  <2>1. /\ id \in uploads /\ task[t].pc \in {"create", "copy"}
        /\ \A u \in Task \ {t} : task'[u] = task[u]
        /\ task'[t].pc \in {"copy", "publish"} /\ task'[t].what = task[t].what
    BY <1>2, <1>8 DEF Create, Copy, At, TypeOK, Request
  <2>2. QED
    BY <1>5, <2>1
<1>9. ASSUME NEW t \in Task, CreateUpload(t)
      PROVE  ~Local' /\ \E u \in Task : /\ task'[u].pc \in {"copy", "publish", "abort"}
                                       /\ task'[u].what.id = id
  <2>1. /\ ~Local /\ uploads' = uploads \cup {task[t].what.id}
        /\ \A u \in Task \ {t} : task'[u] = task[u]
        /\ task'[t].pc = "copy" /\ task'[t].what = task[t].what
    BY <1>9 DEF CreateUpload, Goto, TypeOK, Request
  <2>2. QED
    BY <1>2, <1>4, <1>5, <2>1
<1>10. ASSUME NEW t \in Task, Rename(t) \/ Complete(t)
       PROVE  ~Local' /\ \E u \in Task : /\ task'[u].pc \in {"copy", "publish", "abort"}
                                        /\ task'[u].what.id = id
  <2>1. \A u \in Task \ {t} : task'[u] = task[u]
    BY <1>6, <1>10 DEF Rename, Complete, Pc
  <2>2. id \in uploads /\ (task[t].what.id = id => Local)
    BY <1>2, <1>10 DEF Rename, Complete
  <2>3. QED
    BY <1>3, <1>4, <1>5, <2>1, <2>2
<1>11. ASSUME NEW t \in Task, PutFails(t) \/ Abort(t)
       PROVE  ~Local' /\ \E u \in Task : /\ task'[u].pc \in {"copy", "publish", "abort"}
                                        /\ task'[u].what.id = id
  <2>1. \A u \in Task \ {t} : task'[u] = task[u]
    BY <1>6, <1>11 DEF PutFails, Abort, Pc
  <2>2. id \in uploads
    BY <1>2, <1>11 DEF PutFails, Abort
  <2>3. CASE Abort(t)
    BY <1>2, <1>3, <1>4, <1>5, <2>1, <2>2, <2>3 DEF Abort
  <2>4. CASE PutFails(t) /\ ~Local /\ task[t].pc \in Aborting
    <3>1. task'[t].pc = "abort" /\ task'[t].what = task[t].what
      BY <2>4 DEF PutFails, Goto, TypeOK, Request
    <3>2. QED
      BY <1>5, <2>1, <2>2, <3>1
  <2>5. CASE PutFails(t) /\ ~(~Local /\ task[t].pc \in Aborting)
    BY <1>3, <1>4, <1>5, <2>1, <2>2, <2>5 DEF PutFails, Aborting
  <2>6. QED
    BY <1>11, <2>3, <2>4, <2>5
<1>12. ASSUME NEW t \in Task, Stream(t) \/ ReadEnds(t)
       PROVE  ~Local' /\ \E u \in Task : /\ task'[u].pc \in {"copy", "publish", "abort"}
                                        /\ task'[u].what.id = id
  <2>1. /\ id \in uploads /\ task[t].pc \in {"stream", "delivered", "broken"}
        /\ \A u \in Task \ {t} : task'[u] = task[u]
    BY <1>2, <1>12 DEF Stream, ReadEnds, At, history, Goto, Answer, TypeOK
  <2>2. QED
    BY <1>5, <2>1
<1>13. ASSUME NEW t \in Task, Cancel(t)
       PROVE  ~Local' /\ \E u \in Task : /\ task'[u].pc \in {"copy", "publish", "abort"}
                                        /\ task'[u].what.id = id
  <2>1. \A u \in Task \ {t} : task'[u] = task[u]
    BY <1>6, <1>13 DEF Cancel
  <2>2. id \in uploads /\ excused' = excused \cup Begun({t})
    BY <1>2, <1>13 DEF Cancel
  <2>3. ~Local /\ task[t].pc \in {"copy", "publish", "abort"} => task[t].what.id # id
    BY <1>2, <2>2 DEF Begun
  <2>4. QED
    BY <1>3, <1>4, <1>5, <2>1, <2>2, <2>3
<1>14. ASSUME NEW k \in Key, Delete(k)
       PROVE  ~Local' /\ \E u \in Task : /\ task'[u].pc \in {"copy", "publish", "abort"}
                                        /\ task'[u].what.id = id
  BY <1>2, <1>3, <1>4, <1>14 DEF Delete
<1>15. ~ServerDies
  <2>1. SUFFICES ASSUME ServerDies PROVE FALSE
    OBVIOUS
  <2>2. id \in uploads /\ excused' = excused \cup Begun(Task)
    BY <1>2, <2>1 DEF ServerDies
  <2>3. id \in Begun(Task)
    BY <1>4, <2>2 DEF PartsAreReclaimed
  <2>4. QED
    BY <1>2, <2>2, <2>3
<1>16. QED
  BY <1>2, <1>7, <1>8, <1>9, <1>10, <1>11, <1>12, <1>13, <1>14, <1>15 DEF Next

\* Nobody who could abort an upload leaves its parts in the bucket.
THEOREM PartsReclaimed == Spec => []PartsAreReclaimed
<1>1. Init => PartsAreReclaimed
  BY DEF Init, PartsAreReclaimed
<1>2. StoreInv /\ PartsAreReclaimed /\ [Next]_vars => PartsAreReclaimed'
  BY PartsStep DEF StoreInv
<1>3. QED
  BY <1>1, <1>2, StoreHolds, PTL DEF Spec
-------------------------------------------------------------------------------
(* CloudSession: the programs *)

AllOps == Ops \cup {"idle", "letGo"}

LEMMA Lengths ==
    /\ Len(Program("push")) = 7 /\ Len(Program("pull")) = 7
    /\ Len(Program("release")) = 4 /\ Len(Program("letGo")) = 3
    /\ Len(Program("delete")) = 3 /\ Len(Program("idle")) = 1
  BY DEF Program, PushSteps, PullSteps, ReleaseSteps, DeleteSteps

\* Where in its program a command does what the properties speak of.
LEMMA Where ==
    ASSUME NEW op \in AllOps, NEW n \in 1 .. Len(Program(op))
    PROVE  /\ Program(op)[n] = "upload" <=> op = "push" /\ n = 5
           /\ Program(op)[n] = "import" <=> op = "pull" /\ n = 5
           /\ Program(op)[n] = "export" <=> op = "push" /\ n = 4
           /\ Program(op)[n] = "download" <=> op = "pull" /\ n = 4
           /\ Program(op)[n] = "check" <=> op \in {"push", "pull"} /\ n = 2
           /\ Program(op)[n] = "acquire" =>
                 n \in {1, 3} /\ (op = "delete" \/ n = 3)
           /\ Program(op)[n] = "hold" => op \in {"push", "pull"} /\ n = 6
           /\ Program(op)[n] = "load" => op = "release" /\ n = 1
<1>1. CASE op = "push"
  BY <1>1, Lengths DEF Program, PushSteps
<1>2. CASE op = "pull"
  BY <1>2, Lengths DEF Program, PullSteps
<1>3. CASE op = "release"
  BY <1>3, Lengths DEF Program, ReleaseSteps
<1>4. CASE op = "letGo"
  BY <1>4, Lengths DEF Program, ReleaseSteps
<1>5. CASE op = "delete"
  BY <1>5, Lengths DEF Program, DeleteSteps
<1>6. CASE op = "idle"
  BY <1>6, Lengths DEF Program
<1>7. QED
  BY <1>1, <1>2, <1>3, <1>4, <1>5, <1>6 DEF AllOps, Ops

LEMMA LengthsOf == \A op \in AllOps : Len(Program(op)) \in 1 .. 7
  BY Lengths DEF AllOps, Ops

-------------------------------------------------------------------------------
(* The server *)

ServerTypes ==
    /\ status \in [Id -> {"new", "open", "closed"}]
    /\ epoch \in [Id -> Fence] /\ owner \in [Id -> Machine]
    /\ held \in [Id -> BOOLEAN] /\ value \in [Id -> Version \cup {Nothing}]
    /\ by \in Machine /\ grants \subseteq Id \X Machine \X Fence

OneOpen == \A i, j \in Id : status[i] = "open" /\ status[j] = "open" => i = j

\* A lease that was given is of a row that was opened, and no newer than the newest.
GrantsPast ==
    \A i \in Id, m \in Machine, f \in Fence :
        <<i, m, f>> \in grants => status[i] # "new" /\ (status[i] = "open" => f <= epoch[i])

UntouchedNew == \A i \in Id : status[i] = "new" => epoch[i] = 0

ServerInv == ServerTypes /\ OneOpen /\ GrantsPast /\ UntouchedNew

\* The machine has had the session, or one of its name, under this fence.
Granted(m, f) == \E i \in Id : <<i, m, f>> \in grants

\* What a machine on fence f may rely on over a step: it held the lease before and the
\* bundle is the same or its own, or its fence was given again.
Relies(m, f) ==
    \/ Reissued(m, f)'
    \/ by' = m
    \/ /\ Matches(m, f) /\ Current' = Current
       /\ value'[Current] = value[Current] /\ by' = by

Relied == \A m \in Machine, f \in Fence : Granted(m, f) /\ Matches(m, f)' => Relies(m, f)
Grows == grants \subseteq grants'

LEMMA CurrentIs ==
    ASSUME OneOpen
    PROVE  /\ Current # NoId => Current \in Id /\ status[Current] = "open"
           /\ \A i \in Id : status[i] = "open" => Current = i
  BY DEF Current, OneOpen, Id, NoId

LEMMA CurrentBecomes ==
    ASSUME OneOpen'
    PROVE  /\ Current' # NoId => Current' \in Id /\ status'[Current'] = "open"
           /\ \A i \in Id : status'[i] = "open" => Current' = i
  BY DEF Current, OneOpen, Id, NoId

Rests == UNCHANGED <<server, by, grants>>
OpensRow == \E i \in Id : Current = NoId /\ Server!Open(i) /\ UNCHANGED past
Grants == \E m \in Machine :
    /\ Current # NoId /\ epoch[Current] < MaxFence /\ Server!Hold(Current, m)
    /\ grants' = grants \cup {<<Current, m, epoch'[Current]>>} /\ UNCHANGED by
Publishes == \E m \in Machine, f \in Fence, b \in Version \cup {Nothing} :
    Holds(m, f) /\ Server!Record(Current, b) /\ by' = m /\ UNCHANGED grants
Lapses == Server!Lapse({Current}) /\ UNCHANGED past
Closes == \E m \in Machine : Current # NoId /\ Server!Close(Current, m) /\ UNCHANGED past

LEMMA OpensServer ==
    ASSUME ServerInv, OpensRow
    PROVE  ServerInv' /\ Relied /\ Grows
<1>1. PICK i \in Id : Current = NoId /\ Server!Open(i) /\ UNCHANGED past
  BY DEF OpensRow
<1>2. /\ status[i] = "new" /\ status' = [status EXCEPT ![i] = "open"]
      /\ UNCHANGED <<epoch, owner, held, value, by, grants>>
  BY <1>1 DEF Server!Open, past
<1>3. \A j \in Id : status[j] # "open"
  BY <1>1, CurrentIs DEF ServerInv, Id, NoId
<1>4. ServerTypes'
  BY <1>2 DEF ServerInv, ServerTypes
<1>5. OneOpen'
  BY <1>2, <1>3 DEF ServerInv, ServerTypes, OneOpen
<1>6. GrantsPast' /\ UntouchedNew'
  BY <1>2 DEF ServerInv, ServerTypes, GrantsPast, UntouchedNew
<1>7. Current' = i /\ epoch'[i] = 0
  BY <1>2, <1>5, CurrentBecomes DEF ServerInv, ServerTypes, UntouchedNew
<1>8. Relied
  BY <1>7 DEF Relied, Matches, Nothing
<1>9. QED
  BY <1>2, <1>4, <1>5, <1>6, <1>8 DEF ServerInv, Grows

LEMMA GrantsServer ==
    ASSUME ServerInv, Grants
    PROVE  ServerInv' /\ Relied /\ Grows
<1> DEFINE i == Current
<1>1. PICK m \in Machine :
        /\ i # NoId /\ epoch[i] < MaxFence /\ Server!Hold(i, m)
        /\ grants' = grants \cup {<<i, m, epoch'[i]>>} /\ UNCHANGED by
  BY DEF Grants
<1>2. i \in Id /\ status[i] = "open"
  BY <1>1, CurrentIs DEF ServerInv
<1>3. PICK h \in BOOLEAN : held' = [held EXCEPT ![i] = h]
  BY <1>1 DEF Server!Hold
<1>4. /\ epoch' = [epoch EXCEPT ![i] = @ + 1] /\ owner' = [owner EXCEPT ![i] = m]
      /\ UNCHANGED <<status, value>>
  BY <1>1 DEF Server!Hold
<1>5. epoch[i] \in 0 .. MaxFence /\ epoch'[i] = epoch[i] + 1 /\ epoch'[i] \in Fence
  BY <1>1, <1>2, <1>4, CloudConstants DEF ServerInv, ServerTypes, Fence
<1>6. ServerTypes'
  BY <1>1, <1>2, <1>3, <1>4, <1>5 DEF ServerInv, ServerTypes
<1>7. OneOpen' /\ Current' = i
  BY <1>2, <1>4, CurrentBecomes DEF ServerInv, OneOpen
<1>8. GrantsPast'
  BY <1>1, <1>2, <1>4, <1>5, CloudConstants DEF ServerInv, ServerTypes, GrantsPast, Fence
<1>9. UntouchedNew'
  BY <1>2, <1>4 DEF ServerInv, ServerTypes, UntouchedNew
<1>10. Relied
  <2> SUFFICES ASSUME NEW n \in Machine, NEW f \in Fence, Granted(n, f), Matches(n, f)'
               PROVE  Reissued(n, f)'
    BY DEF Relied, Relies
  <2>1. owner'[i] = n /\ epoch'[i] = f
    BY <1>7 DEF Matches
  <2>2. n = m /\ f = epoch[i] + 1
    BY <2>1, <1>2, <1>4, <1>5 DEF ServerInv, ServerTypes
  <2>3. PICK j \in Id : <<j, n, f>> \in grants
    BY DEF Granted
  <2>4. j # i
    BY <2>2, <2>3, <1>2, <1>5 DEF ServerInv, GrantsPast
  <2>5. <<i, n, f>> \in grants' /\ <<j, n, f>> \in grants'
    BY <2>1, <2>2, <2>3, <1>1
  <2>6. QED
    BY <2>4, <2>5, <1>2 DEF Reissued
<1>11. QED
  BY <1>1, <1>6, <1>7, <1>8, <1>9, <1>10 DEF ServerInv, Grows

LEMMA PublishesServer ==
    ASSUME ServerInv, Publishes
    PROVE  ServerInv' /\ Relied /\ Grows
<1>1. PICK m \in Machine, f \in Fence, b \in Version \cup {Nothing} :
        Holds(m, f) /\ Server!Record(Current, b) /\ by' = m /\ UNCHANGED grants
  BY DEF Publishes
<1>2. /\ value' = [value EXCEPT ![Current] = b]
      /\ UNCHANGED <<status, epoch, owner, held>>
  BY <1>1 DEF Server!Record
<1>3. ServerInv'
  BY <1>1, <1>2 DEF ServerInv, ServerTypes, OneOpen, GrantsPast, UntouchedNew
<1>4. Current' = Current
  BY <1>2 DEF Current
<1>5. owner[Current] = m
  BY <1>1 DEF Holds, Matches
<1>6. Relied
  BY <1>1, <1>2, <1>4, <1>5 DEF Relied, Relies, Matches
<1>7. QED
  BY <1>1, <1>3, <1>6 DEF Grows

LEMMA LapsesServer ==
    ASSUME ServerInv, Lapses
    PROVE  ServerInv' /\ Relied /\ Grows
<1>1. /\ held' = [i \in Id |-> held[i] /\ i \notin {Current}]
      /\ UNCHANGED <<status, epoch, owner, value, by, grants>>
  BY DEF Lapses, Server!Lapse, past
<1>2. ServerTypes'
  BY <1>1 DEF ServerInv, ServerTypes
<1>3. ServerInv'
  BY <1>1, <1>2 DEF ServerInv, OneOpen, GrantsPast, UntouchedNew
<1>4. Current' = Current
  BY <1>1 DEF Current
<1>5. QED
  BY <1>1, <1>3, <1>4 DEF Relied, Relies, Matches, Grows

LEMMA ClosesServer ==
    ASSUME ServerInv, Closes
    PROVE  ServerInv' /\ Relied /\ Grows
<1> DEFINE i == Current
<1>1. PICK m \in Machine : i # NoId /\ Server!Close(i, m) /\ UNCHANGED past
  BY DEF Closes
<1>2. i \in Id /\ status[i] = "open"
  BY <1>1, CurrentIs DEF ServerInv
<1>3. /\ status' = [status EXCEPT ![i] = "closed"] /\ epoch' = [epoch EXCEPT ![i] = 0]
      /\ held' = [held EXCEPT ![i] = FALSE] /\ value' = [value EXCEPT ![i] = Nothing]
      /\ UNCHANGED <<owner, by, grants>>
  BY <1>1 DEF Server!Close, past
<1>4. \A j \in Id : status'[j] # "open"
  BY <1>2, <1>3 DEF ServerInv, ServerTypes, OneOpen
<1>5. ServerTypes'
  BY <1>2, <1>3, CloudConstants DEF ServerInv, ServerTypes, Fence, Nothing
<1>6. GrantsPast' /\ UntouchedNew' /\ OneOpen'
  BY <1>2, <1>3, <1>4 DEF ServerInv, ServerTypes, GrantsPast, UntouchedNew, OneOpen
<1>7. Current' = NoId
  BY <1>4, <1>6, CurrentBecomes
<1>8. QED
  BY <1>3, <1>5, <1>6, <1>7 DEF ServerInv, Relied, Matches, Grows

LEMMA RestsServer ==
    ASSUME ServerInv, Rests
    PROVE  ServerInv' /\ Relied /\ Grows
<1>1. UNCHANGED <<status, epoch, owner, held, value, by, grants>>
  BY DEF Rests, server
<1>2. Current' = Current
  BY <1>1 DEF Current
<1>3. QED
  BY <1>1, <1>2 DEF ServerInv, ServerTypes, OneOpen, GrantsPast, UntouchedNew, Relied, Relies,
     Matches, Grows

ServerMoves == Rests \/ OpensRow \/ Grants \/ Publishes \/ Lapses \/ Closes

LEMMA MovesServer ==
    ASSUME ServerInv, ServerMoves
    PROVE  ServerInv' /\ Relied /\ Grows
  BY OpensServer, GrantsServer, PublishesServer, LapsesServer, ClosesServer, RestsServer
     DEF ServerMoves

-------------------------------------------------------------------------------
(* The commands and the processes *)

Known(m, f) == f # Nothing => Granted(m, f)

\* A command is somewhere in its program, and its fence was given to its machine.
SoundCommand(a) == a \in Command /\ a.step \in 1 .. Len(Program(a.op)) /\ Known(a.m, a.fence)
SoundLease(m, l) == l \in Lease /\ Known(m, l.fence)
SoundProcess(h) == h \in Process /\ Known(h.m, h.fence)

Sound ==
    /\ cmd \in [Client -> Command] /\ \A c \in Client : SoundCommand(cmd[c])
    /\ record \in [Machine -> Lease] /\ \A m \in Machine : SoundLease(m, record[m])
    /\ proc \in [Pid -> Process] /\ \A p \in Pid : SoundProcess(proc[p])

LocalTypes ==
    /\ copy \in [Machine -> Version \cup {Nothing}] /\ made \in Version
    /\ begun \in 0 .. MaxCommands

LEMMA KnownStays ==
    ASSUME Grows, NEW m, NEW f, Known(m, f)
    PROVE  Known(m, f)'
  BY DEF Grows, Known, Granted

LEMMA NothingKnown ==
    /\ NoCommand \in Command /\ SoundCommand(NoCommand) /\ SoundCommand(NoCommand)'
    /\ NoLease \in Lease /\ \A m : SoundLease(m, NoLease) /\ SoundLease(m, NoLease)'
    /\ Gone \in Process /\ SoundProcess(Gone) /\ SoundProcess(Gone)'
<1>1. 0 \in Fence
  BY CloudConstants DEF Fence
<1>2. NoCommand \in Command /\ NoCommand.step = 1 /\ NoCommand.op = "idle" /\ NoCommand.fence = 0
  BY <1>1, CloudConstants DEF NoCommand, Command, Nothing, NoPid
<1>3. NoLease \in Lease /\ NoLease.fence = 0
  BY <1>1 DEF NoLease, Lease, Nothing, NoPid
<1>4. Gone \in Process /\ Gone.fence = 0
  BY <1>1, CloudConstants DEF Gone, Process, Nothing
<1>5. SoundCommand(NoCommand) /\ SoundCommand(NoCommand)'
  BY <1>2, Lengths DEF SoundCommand, Known, Nothing, NoCommand
<1>6. \A m : SoundLease(m, NoLease) /\ SoundLease(m, NoLease)'
  BY <1>3 DEF SoundLease, Known, Nothing
<1>7. SoundProcess(Gone) /\ SoundProcess(Gone)'
  BY <1>4 DEF SoundProcess, Known, Nothing
<1>8. QED
  BY <1>2, <1>3, <1>4, <1>5, <1>6, <1>7

\* A command that is what it was, or is replaced by a sound one, or by none.
LEMMA CommandsStay ==
    ASSUME Sound, Grows, NEW c \in Client, NEW a, cmd' = [cmd EXCEPT ![c] = a],
           a \in Command, SoundCommand(a)'
    PROVE  cmd' \in [Client -> Command] /\ \A d \in Client : SoundCommand(cmd[d])'
<1>1. cmd' \in [Client -> Command]
  BY DEF Sound
<1>2. ASSUME NEW d \in Client PROVE SoundCommand(cmd[d])'
  <2>1. CASE d = c
    BY <2>1 DEF Sound
  <2>2. CASE d # c
    <3>1. cmd'[d] = cmd[d] /\ SoundCommand(cmd[d])
      BY <2>2 DEF Sound
    <3>2. QED
      BY <3>1, KnownStays DEF SoundCommand
  <2>3. QED
    BY <2>1, <2>2
<1>3. QED
  BY <1>1, <1>2

\* What a step of c does to its command, and to no other.
Moves(c, a) ==
    /\ cmd' \in [Client -> Command] /\ \A d \in Client : SoundCommand(cmd[d])'
    /\ \A d \in Client : d # c => cmd'[d] = cmd[d]
    /\ cmd'[c] \in {NoCommand, a}

LEMMA EndsMoves ==
    ASSUME Sound, Grows, NEW c \in Client, NEW a, Ends(c)
    PROVE  Moves(c, a)
<1>1. cmd' = [cmd EXCEPT ![c] = NoCommand]
  BY DEF Ends
<1>2. cmd' \in [Client -> Command] /\ \A d \in Client : SoundCommand(cmd[d])'
  BY <1>1, NothingKnown, CommandsStay
<1>3. QED
  BY <1>1, <1>2 DEF Moves, Sound

LEMMA ThenMoves ==
    ASSUME Sound, Grows, NEW c \in Client, NEW a, Then(c, a), a.step \in Nat \ {0},
           a.step <= Len(Program(a.op)) => a \in Command /\ Known(a.m, a.fence)'
    PROVE  Moves(c, a)
<1>1. CASE a.step > Len(Program(a.op))
  BY <1>1, EndsMoves DEF Then, Ends
<1>2. CASE ~(a.step > Len(Program(a.op)))
  <2>1. cmd' = [cmd EXCEPT ![c] = a]
    BY <1>2 DEF Then
  <2>2. a \in Command /\ a.op \in AllOps
    BY <1>2, LengthsOf DEF Command, AllOps, Ops
  <2>3. a.step \in 1 .. Len(Program(a.op)) /\ a \in Command /\ Known(a.m, a.fence)'
    BY <1>2
  <2>4. SoundCommand(a)'
    BY <2>3 DEF SoundCommand
  <2>5. cmd' \in [Client -> Command] /\ \A d \in Client : SoundCommand(cmd[d])'
    BY <2>1, <2>2, <2>4, CommandsStay
  <2>6. QED
    BY <2>1, <2>5 DEF Moves, Sound
<1>3. QED
  BY <1>1, <1>2

\* The same command further on: another step, fence, content or process.
Further(c, n, f, b, v, p) ==
    [op |-> cmd[c].op, step |-> n, m |-> cmd[c].m, fence |-> f, body |-> b, saw |-> v, pid |-> p]

LEMMA CommandIs ==
    ASSUME Sound, NEW c \in Client
    PROVE  /\ cmd[c] \in Command /\ cmd[c].op \in AllOps /\ M(c) \in Machine /\ F(c) \in Fence
           /\ cmd[c].step \in 1 .. 7 /\ cmd[c].step <= Len(Program(cmd[c].op))
           /\ Known(M(c), F(c))
           /\ Advanced(c) = Further(c, cmd[c].step + 1, F(c), cmd[c].body, cmd[c].saw, cmd[c].pid)
           /\ cmd[c].body \in Version \cup {Nothing} /\ cmd[c].saw \in Version \cup {Nothing}
           /\ cmd[c].pid \in Pid \cup {NoPid}
<1>1. cmd[c] \in Command /\ SoundCommand(cmd[c])
  BY DEF Sound
<1>2. cmd[c].op \in AllOps
  BY <1>1 DEF Command, AllOps
<1>3. Len(Program(cmd[c].op)) \in 1 .. 7
  BY <1>2, LengthsOf
<1>4. cmd[c].step \in 1 .. 7 /\ cmd[c].step <= Len(Program(cmd[c].op)) /\ Known(M(c), F(c))
  <2> DEFINE l == Len(Program(cmd[c].op))
  <2>1. cmd[c].step \in 1 .. l /\ Known(M(c), F(c))
    BY <1>1 DEF SoundCommand, M, F
  <2>2. l \in 1 .. 7
    BY <1>3
  <2> HIDE DEF l
  <2>3. cmd[c].step \in 1 .. 7 /\ cmd[c].step <= l
    BY <2>1, <2>2
  <2>4. QED
    BY <2>1, <2>3 DEF l
<1>5. QED
  BY <1>1, <1>2, <1>4 DEF Command, M, F, Advanced, Further

LEMMA FurtherMoves ==
    ASSUME Sound, Grows, NEW c \in Client, NEW n \in Nat \ {0}, NEW f \in Fence,
           NEW b \in Version \cup {Nothing}, NEW v \in Version \cup {Nothing},
           NEW p \in Pid \cup {NoPid}, \A m : m = M(c) => Known(m, f)',
           Then(c, Further(c, n, f, b, v, p))
    PROVE  Moves(c, Further(c, n, f, b, v, p))
<1>1. PICK a : a = Further(c, n, f, b, v, p)
  OBVIOUS
<1>2. a.op = cmd[c].op /\ a.step = n /\ a.m = M(c) /\ a.fence = f
  BY <1>1 DEF Further, M
<1>3. a.step <= Len(Program(a.op)) => a \in Command
  <2>1. Len(Program(a.op)) \in 1 .. 7 /\ cmd[c].op \in Ops \cup {"idle", "letGo"}
    BY <1>2, CommandIs, LengthsOf DEF AllOps
  <2>2. n <= Len(Program(a.op)) => n \in 1 .. 7
    <3> DEFINE l == Len(Program(a.op))
    <3> HIDE DEF l
    <3>1. l \in 1 .. 7
      BY <2>1 DEF l
    <3>2. n <= l => n \in 1 .. 7
      BY <3>1
    <3>3. QED
      BY <3>2 DEF l
  <2>3. M(c) \in Machine
    BY CommandIs
  <2>4. QED
    BY <1>1, <1>2, <2>1, <2>2, <2>3 DEF Further, Command, M
<1>4. Known(a.m, a.fence)'
  BY <1>2
<1>5. QED
  BY <1>1, <1>2, <1>3, <1>4, ThenMoves

LEMMA DoneMoves ==
    ASSUME Sound, Grows, NEW c \in Client, Done(c)
    PROVE  Moves(c, Advanced(c))
<1>1. PICK f \in Fence : f = F(c)
  BY CommandIs
<1>2. \A m : m = M(c) => Known(m, f)'
  BY <1>1, CommandIs, KnownStays
<1>3. PICK b \in Version \cup {Nothing} : b = cmd[c].body
  BY CommandIs
<1>4. PICK v \in Version \cup {Nothing} : v = cmd[c].saw
  BY CommandIs
<1>5. PICK p \in Pid \cup {NoPid} : p = cmd[c].pid
  BY CommandIs
<1>6. PICK n \in Nat \ {0} : n = cmd[c].step + 1
  BY CommandIs
<1>7. Advanced(c) = Further(c, n, f, b, v, p)
  BY <1>1, <1>3, <1>4, <1>5, <1>6, CommandIs
<1>8. QED
  BY <1>2, <1>7, FurtherMoves DEF Done

\* What has been read or exported under a lease that still stands is on the server, or
\* the machine's own, or the fence was given again.
Pass(c) ==
    Matches(M(c), F(c)) /\ ~Reissued(M(c), F(c)) =>
      /\ About(c, "upload") => value[Current] = cmd[c].saw \/ by = M(c)
      /\ About(c, "import") => value[Current] = cmd[c].body \/ by = M(c)

Away(c) == cmd'[c].op \in {"push", "pull"} => cmd'[c].step # 5
Commands(c) ==
    /\ cmd' \in [Client -> Command] /\ \A d \in Client : SoundCommand(cmd[d])'
    /\ \A d \in Client : d # c => cmd'[d] = cmd[d]
Leases == record' \in [Machine -> Lease] /\ \A m \in Machine : SoundLease(m, record[m])'
Processes == proc' \in [Pid -> Process] /\ \A p \in Pid : SoundProcess(proc[p])'

LEMMA AwayPasses ==
    ASSUME NEW c \in Client, Commands(c), Away(c)
    PROVE  Pass(c)'
<1>1. SoundCommand(cmd[c])' /\ cmd'[c] \in Command
  BY DEF Commands
<1>2. PICK op, n : op = cmd'[c].op /\ n = cmd'[c].step
  OBVIOUS
<1>3. op \in AllOps /\ n \in 1 .. Len(Program(op))
  BY <1>1, <1>2 DEF SoundCommand, Command, AllOps
<1>4. Program(op)[n] # "upload" /\ Program(op)[n] # "import"
  BY <1>2, <1>3, Where DEF Away
<1>5. ~About(c, "upload")' /\ ~About(c, "import")'
  BY <1>2, <1>4 DEF About
<1>6. QED
  BY <1>5 DEF Pass

\* A step of its command that is neither an export nor a download does not bring it to
\* an upload or an import.
LEMMA DoneCommands ==
    ASSUME Sound, Grows, NEW c \in Client, Done(c), ~About(c, "export"), ~About(c, "download")
    PROVE  Commands(c) /\ Away(c)
<1>1. Moves(c, Advanced(c))
  BY DoneMoves
<1>2. PICK op \in AllOps : op = cmd[c].op
  BY CommandIs
<1>21. PICK n \in 1 .. Len(Program(op)) : n = cmd[c].step
  BY <1>2 DEF Sound, SoundCommand
<1>3. op \in {"push", "pull"} => n # 4
  BY <1>2, <1>21, Where DEF About
<1>4. Advanced(c).op = op /\ Advanced(c).step = n + 1
  BY <1>2, <1>21, CommandIs DEF Further
<1>5. n \in 1 .. 7
  BY <1>21, CommandIs
<1>6. QED
  BY <1>1, <1>3, <1>4, <1>5 DEF Moves, Commands, Away, NoCommand

LEMMA EndsCommands ==
    ASSUME Sound, Grows, NEW c \in Client, Ends(c)
    PROVE  Commands(c) /\ Away(c)
  BY EndsMoves DEF Moves, Commands, Away, NoCommand

LEMMA LeasesKept ==
    ASSUME Sound, Grows, UNCHANGED record
    PROVE  Leases
<1>1. ASSUME NEW m \in Machine PROVE SoundLease(m, record[m])'
  <2>1. SoundLease(m, record[m]) /\ record'[m] = record[m]
    BY DEF Sound
  <2>2. QED
    BY <2>1, KnownStays DEF SoundLease
<1>2. QED
  BY <1>1 DEF Leases, Sound

LEMMA LeaseWritten ==
    ASSUME Sound, Grows, NEW m \in Machine, NEW l \in Lease, SoundLease(m, l)',
           record' = [record EXCEPT ![m] = l]
    PROVE  Leases
<1>1. ASSUME NEW n \in Machine PROVE SoundLease(n, record[n])'
  <2>1. CASE n = m
    BY <2>1 DEF Sound
  <2>2. CASE n # m
    <3>1. SoundLease(n, record[n]) /\ record'[n] = record[n]
      BY <2>2 DEF Sound
    <3>2. QED
      BY <3>1, KnownStays DEF SoundLease
  <2>3. QED
    BY <2>1, <2>2
<1>2. QED
  BY <1>1 DEF Leases, Sound

LEMMA ProcessesKept ==
    ASSUME Sound, Grows, UNCHANGED proc
    PROVE  Processes
<1>1. ASSUME NEW p \in Pid PROVE SoundProcess(proc[p])'
  <2>1. SoundProcess(proc[p]) /\ proc'[p] = proc[p]
    BY DEF Sound
  <2>2. QED
    BY <2>1, KnownStays DEF SoundProcess
<1>2. QED
  BY <1>1 DEF Processes, Sound

LEMMA ProcessWritten ==
    ASSUME Sound, Grows, NEW p \in Pid, NEW h \in Process, SoundProcess(h)',
           proc' = [proc EXCEPT ![p] = h]
    PROVE  Processes
<1>1. ASSUME NEW q \in Pid PROVE SoundProcess(proc[q])'
  <2>1. CASE q = p
    BY <2>1 DEF Sound
  <2>2. CASE q # p
    <3>1. SoundProcess(proc[q]) /\ proc'[q] = proc[q]
      BY <2>2 DEF Sound
    <3>2. QED
      BY <3>1, KnownStays DEF SoundProcess
  <2>3. QED
    BY <2>1, <2>2
<1>2. QED
  BY <1>1 DEF Processes, Sound

LEMMA ProcessStopped ==
    ASSUME Sound, Grows, NEW m \in Machine, proc' = Stopped(m)
    PROVE  Processes
<1>1. CASE Ours(m)
  <2>1. record[m].pid \in Pid
    BY <1>1 DEF Ours, Sound, Lease
  <2>2. proc' = [proc EXCEPT ![record[m].pid] = Gone]
    BY <1>1 DEF Stopped
  <2>3. QED
    BY <2>1, <2>2, NothingKnown, ProcessWritten
<1>2. CASE ~Ours(m)
  BY <1>2, ProcessesKept DEF Stopped
<1>3. QED
  BY <1>1, <1>2

-------------------------------------------------------------------------------
(* The steps *)

\* What a step of c comes to.
Does(c) == /\ ServerMoves /\ Commands(c) /\ Leases /\ Processes /\ LocalTypes'
           /\ Pass(c)'

LEMMA DoneDoes ==
    ASSUME ServerInv, Sound, LocalTypes, NEW c \in Client,
           Upsert(c) \/ Find(c) \/ Retire(c) \/ Save(c) \/ Stop(c) \/ Release(c)
             \/ AlreadyLost(c) \/ Forget(c) \/ Close(c)
    PROVE  Does(c)
<1>1. ServerMoves
  <2>1. CASE Upsert(c)
    BY <2>1 DEF Upsert, ServerMoves, Rests, OpensRow, past
  <2>2. CASE Release(c)
    BY <2>2 DEF Release, ServerMoves, Lapses
  <2>3. CASE Close(c)
    BY <2>3, CommandIs DEF Close, ServerMoves, Closes
  <2>4. QED
    BY <2>1, <2>2, <2>3 DEF Find, Retire, Save, Stop, AlreadyLost, Forget, ServerMoves, Rests, past
<1>2. Grows
  BY <1>1, MovesServer
<1>3. Commands(c) /\ Away(c)
  <2>1. Done(c) /\ ~About(c, "export") /\ ~About(c, "download")
    BY DEF Upsert, Find, Retire, Save, Stop, Release, AlreadyLost, Forget, Close, About
  <2>2. QED
    BY <1>2, <2>1, DoneCommands
<1>4. M(c) \in Machine
  BY CommandIs
<1>5. Leases
  <2>1. CASE Save(c)
    <3>1. PICK l : l = [status |-> "held", fence |-> F(c), pid |-> cmd[c].pid]
      OBVIOUS
    <3>2. l \in Lease /\ l.fence = F(c)
      BY <3>1, CommandIs DEF Lease
    <3>3. PICK m \in Machine : m = M(c)
      BY <1>4
    <3>4. SoundLease(m, l)'
      BY <1>2, <3>2, <3>3, CommandIs, KnownStays DEF SoundLease
    <3>5. QED
      BY <1>2, <2>1, <3>1, <3>2, <3>3, <3>4, LeaseWritten DEF Save
  <2>2. CASE Forget(c)
    BY <1>2, <1>4, <2>2, NothingKnown, LeaseWritten DEF Forget
  <2>3. CASE UNCHANGED record
    BY <1>2, <2>3, LeasesKept
  <2>4. QED
    BY <2>1, <2>2, <2>3 DEF Upsert, Find, Retire, Stop, Release, AlreadyLost, Close
<1>6. Processes
  <2>1. CASE Retire(c) \/ Stop(c)
    BY <1>2, <1>4, <2>1, ProcessStopped DEF Retire, Stop
  <2>2. CASE UNCHANGED proc
    BY <1>2, <2>2, ProcessesKept
  <2>3. QED
    BY <2>1, <2>2 DEF Upsert, Find, Save, Release, AlreadyLost, Forget, Close
<1>7. LocalTypes'
  BY DEF Upsert, Find, Retire, Save, Stop, Release, AlreadyLost, Forget, Close, LocalTypes
<1>8. QED
  BY <1>1, <1>3, <1>5, <1>6, <1>7, AwayPasses DEF Does

LEMMA EndsDoes ==
    ASSUME ServerInv, Sound, LocalTypes, NEW c \in Client, Fails(c) \/ UploadRefused(c)
    PROVE  Does(c)
<1>1. ServerMoves /\ Ends(c)
  BY DEF Fails, UploadRefused, ServerMoves, Rests, past
<1>2. Grows
  BY <1>1, MovesServer
<1>3. Commands(c) /\ Away(c)
  BY <1>1, <1>2, EndsCommands
<1>4. Leases
  <2>1. CASE UploadRefused(c)
    <3>1. PICK l : l = [status |-> "lost", fence |-> F(c), pid |-> NoPid]
      OBVIOUS
    <3>2. l \in Lease /\ l.fence = F(c)
      BY <3>1, CommandIs DEF Lease
    <3>3. PICK m \in Machine : m = M(c)
      BY CommandIs
    <3>4. SoundLease(m, l)'
      BY <1>2, <3>2, <3>3, CommandIs, KnownStays DEF SoundLease
    <3>5. QED
      BY <1>2, <2>1, <3>1, <3>2, <3>3, <3>4, LeaseWritten DEF UploadRefused
  <2>2. QED
    BY <1>2, <2>1, LeasesKept DEF Fails
<1>5. Processes /\ LocalTypes'
  BY <1>2, ProcessesKept DEF Fails, UploadRefused, LocalTypes
<1>6. QED
  BY <1>1, <1>3, <1>4, <1>5, AwayPasses DEF Does

\* A sound command of c that replaces the one it had.
LEMMA ReplacesCommand ==
    ASSUME Sound, Grows, NEW c \in Client, NEW a \in Command, Then(c, a), Known(a.m, a.fence)'
    PROVE  Commands(c) /\ cmd'[c] \in {NoCommand, a}
<1>1. a.step \in Nat \ {0}
  BY DEF Command
<1>2. QED
  BY <1>1, ThenMoves DEF Moves, Commands

LEMMA KnownFence ==
    ASSUME Sound, Grows, NEW c \in Client, NEW m, NEW f, m = M(c), f = F(c)
    PROVE  Known(m, f)'
  BY CommandIs, KnownStays

\* Where c stands in its program.
LEMMA Stands ==
    ASSUME Sound, NEW c \in Client
    PROVE  /\ About(c, "upload") <=> cmd[c].op = "push" /\ cmd[c].step = 5
           /\ About(c, "import") <=> cmd[c].op = "pull" /\ cmd[c].step = 5
           /\ About(c, "export") <=> cmd[c].op = "push" /\ cmd[c].step = 4
           /\ About(c, "download") <=> cmd[c].op = "pull" /\ cmd[c].step = 4
           /\ About(c, "check") => cmd[c].step = 2
           /\ About(c, "acquire") => cmd[c].step = 3 \/ (cmd[c].op = "delete" /\ cmd[c].step = 1)
           /\ About(c, "hold") => cmd[c].step = 6
           /\ About(c, "load") => cmd[c].step = 1 /\ cmd[c].op = "release"
<1>1. PICK op \in AllOps : op = cmd[c].op
  BY CommandIs
<1>2. PICK n \in 1 .. Len(Program(op)) : n = cmd[c].step
  BY <1>1 DEF Sound, SoundCommand
<1>3. QED
  BY <1>1, <1>2, Where DEF About

LEMMA ExportDoes ==
    ASSUME ServerInv, Sound, LocalTypes, NEW c \in Client, Export(c)
    PROVE  Does(c)
<1>1. ServerMoves /\ UNCHANGED <<status, epoch, owner, held, value, by, grants>>
  BY DEF Export, ServerMoves, Rests, past, server
<1>2. Grows
  BY <1>1, MovesServer
<1>3. cmd[c].op = "push" /\ cmd[c].step = 4
  BY Stands DEF Export
<1>4. PICK a : a = [Advanced(c) EXCEPT !.body = copy[M(c)],
                                       !.saw = IF Current = NoId THEN Nothing ELSE value[Current]]
  OBVIOUS
<1>5. /\ a.op = "push" /\ a.step = 5 /\ a.m = M(c) /\ a.fence = F(c)
      /\ Current # NoId => a.saw = value[Current]
  BY <1>3, <1>4, CommandIs DEF Further, M
<1>6. a \in Command
  <2>1. PICK b \in Version \cup {Nothing} : b = copy[M(c)]
    BY CommandIs DEF LocalTypes
  <2>2. PICK v \in Version \cup {Nothing} : v = IF Current = NoId THEN Nothing ELSE value[Current]
    BY CurrentIs DEF ServerInv, ServerTypes
  <2>3. a = [Advanced(c) EXCEPT !.body = b, !.saw = v]
    BY <1>4, <2>1, <2>2
  <2>4. Advanced(c) = Further(c, 5, F(c), cmd[c].body, cmd[c].saw, cmd[c].pid)
    BY <1>3, CommandIs
  <2>5. a = Further(c, 5, F(c), b, v, cmd[c].pid)
    <3>1. PICK d : d = Advanced(c)
      OBVIOUS
    <3>2. d = [op |-> cmd[c].op, step |-> 5, m |-> cmd[c].m, fence |-> F(c), body |-> cmd[c].body,
               saw |-> cmd[c].saw, pid |-> cmd[c].pid]
      BY <2>4, <3>1 DEF Further
    <3>3. a = [d EXCEPT !.body = b, !.saw = v]
      BY <2>3, <3>1
    <3>4. QED
      BY <3>2, <3>3 DEF Further
  <2>6. QED
    BY <1>3, <2>5, CommandIs DEF Further, Command, M, Ops
<1>7. Commands(c) /\ cmd'[c] \in {NoCommand, a}
  BY <1>2, <1>4, <1>5, <1>6, KnownFence, ReplacesCommand DEF Export
<1>8. Pass(c)'
  <2>1. CASE cmd'[c] = NoCommand
    BY <1>7, <2>1, AwayPasses DEF Away, NoCommand
  <2>2. CASE cmd'[c] = a
    <3>1. Current' = Current
      BY <1>1 DEF Current
    <3>2. Matches(M(c), F(c))' => Current' # NoId
      BY DEF Matches
    <3>3. ~About(c, "import")'
      BY <1>5, <2>2, Where DEF About, AllOps, Ops, Program, PushSteps
    <3>4. QED
      BY <1>1, <1>5, <2>2, <3>1, <3>2, <3>3 DEF Pass
  <2>3. QED
    BY <1>7, <2>1, <2>2
<1>9. Leases /\ Processes /\ LocalTypes'
  BY <1>2, LeasesKept, ProcessesKept DEF Export, LocalTypes
<1>10. QED
  BY <1>1, <1>7, <1>8, <1>9 DEF Does

LEMMA DownloadDoes ==
    ASSUME ServerInv, Sound, LocalTypes, NEW c \in Client, Download(c)
    PROVE  Does(c)
<1>1. ServerMoves /\ UNCHANGED <<status, epoch, owner, held, value, by, grants>>
  BY DEF Download, ServerMoves, Rests, past, server
<1>2. Grows
  BY <1>1, MovesServer
<1>3. cmd[c].op = "pull" /\ cmd[c].step = 4
  BY Stands DEF Download
<1>4. PICK a : a = [Advanced(c) EXCEPT !.body = value[Current]]
  OBVIOUS
<1>5. a.op = "pull" /\ a.step = 5 /\ a.m = M(c) /\ a.fence = F(c) /\ a.body = value[Current]
  BY <1>3, <1>4, CommandIs DEF Further, M
<1>6. a \in Command
  <2>1. value[Current] \in Version \cup {Nothing}
    BY CurrentIs DEF ServerInv, ServerTypes, Download
  <2>2. QED
    BY <1>3, <1>4, <2>1, CommandIs DEF Further, Command, M, Ops
<1>7. Commands(c) /\ cmd'[c] \in {NoCommand, a}
  BY <1>2, <1>4, <1>5, <1>6, KnownFence, ReplacesCommand DEF Download
<1>8. Pass(c)'
  <2>1. CASE cmd'[c] = NoCommand
    BY <1>7, <2>1, AwayPasses DEF Away, NoCommand
  <2>2. CASE cmd'[c] = a
    <3>1. Current' = Current
      BY <1>1 DEF Current
    <3>2. ~About(c, "upload")'
      BY <1>5, <2>2 DEF About, Program, PullSteps
    <3>3. QED
      BY <1>1, <1>5, <2>2, <3>1, <3>2 DEF Pass
  <2>3. QED
    BY <1>7, <2>1, <2>2
<1>9. Leases /\ Processes /\ LocalTypes'
  BY <1>2, LeasesKept, ProcessesKept DEF Download, LocalTypes
<1>10. QED
  BY <1>1, <1>7, <1>8, <1>9 DEF Does

LEMMA BeginDoes ==
    ASSUME ServerInv, Sound, LocalTypes, NEW c \in Client, NEW m \in Machine, NEW op \in Ops,
           Begin(c, m, op)
    PROVE  Does(c)
<1>1. ServerMoves
  BY DEF Begin, ServerMoves, Rests, past
<1>2. Grows
  BY <1>1, MovesServer
<1>3. PICK step \in IF op = "delete" THEN {1, 2} ELSE {1} :
        cmd' = [cmd EXCEPT ![c] = [NoCommand EXCEPT !.op = op, !.step = step, !.m = m]]
  BY DEF Begin
<1>31. step \in {1, 2} /\ (step = 2 => op = "delete")
  BY <1>3
<1>4. PICK a : a = [NoCommand EXCEPT !.op = op, !.step = step, !.m = m]
  OBVIOUS
<1>5. a.op = op /\ a.step = step /\ a.fence = Nothing
  BY <1>4 DEF NoCommand
<1>51. a = [op |-> op, step |-> step, m |-> m, fence |-> Nothing, body |-> Nothing,
            saw |-> Nothing, pid |-> NoPid]
  BY <1>4 DEF NoCommand
<1>6. a \in Command
  BY <1>31, <1>51, CloudConstants DEF Command, Fence, Nothing, Ops
<1>7. Len(Program(op)) \in 1 .. 7 /\ (op = "delete" => Len(Program(op)) = 3)
  BY LengthsOf, Lengths DEF AllOps
<1>71. a.step \in 1 .. Len(Program(a.op))
  <2> DEFINE l == Len(Program(op))
  <2> HIDE DEF l
  <2>1. l \in 1 .. 7 /\ (op = "delete" => l = 3)
    BY <1>7 DEF l
  <2>2. step \in 1 .. l
    BY <1>31, <2>1
  <2>3. QED
    BY <1>5, <2>2 DEF l
<1>8. SoundCommand(a)'
  BY <1>5, <1>6, <1>71 DEF SoundCommand, Known
<1>9. Commands(c) /\ cmd'[c] = a
  BY <1>2, <1>3, <1>4, <1>6, <1>8, CommandsStay DEF Commands, Sound
<1>10. Pass(c)'
  BY <1>5, <1>9, AwayPasses DEF Away
<1>11. Leases /\ Processes
  BY <1>2, LeasesKept, ProcessesKept DEF Begin
<1>12. LocalTypes'
  BY CloudConstants DEF Begin, LocalTypes
<1>13. QED
  BY <1>1, <1>9, <1>10, <1>11, <1>12 DEF Does

LEMMA ReuseDoes ==
    ASSUME ServerInv, Sound, LocalTypes, NEW c \in Client, Reuse(c)
    PROVE  Does(c)
<1>1. ServerMoves
  BY DEF Reuse, ServerMoves, Rests, past
<1>2. Grows
  BY <1>1, MovesServer
<1>3. cmd[c].step = 2
  BY Stands DEF Reuse
<1>4. PICK a : a = [cmd[c] EXCEPT !.step = @ + 2, !.fence = Record(c).fence]
  OBVIOUS
<1>5. SoundLease(M(c), record[M(c)]) /\ record[M(c)].fence \in Fence
  BY CommandIs DEF Sound, SoundLease, Lease
<1>51. PICK g \in Fence : g = Record(c).fence
  BY <1>5 DEF Record
<1>52. a = Further(c, 4, g, cmd[c].body, cmd[c].saw, cmd[c].pid)
  <2>1. a = [cmd[c] EXCEPT !.step = 4, !.fence = g]
    BY <1>3, <1>4, <1>51
  <2>2. cmd[c] = Further(c, 2, F(c), cmd[c].body, cmd[c].saw, cmd[c].pid)
    <3>1. cmd[c] \in Command
      BY CommandIs
    <3>2. QED
      BY <1>3, <3>1 DEF Command, Further, F
  <2>3. QED
    BY <2>1, <2>2 DEF Further
<1>6. a.step = 4 /\ a.m = M(c) /\ a.fence = record[M(c)].fence /\ a \in Command
  BY <1>3, <1>51, <1>52, CommandIs DEF Command, M, Further, Record
<1>7. Known(a.m, a.fence)'
  BY <1>2, <1>5, <1>6, KnownStays DEF SoundLease
<1>8. Commands(c) /\ cmd'[c] \in {NoCommand, a}
  BY <1>2, <1>4, <1>6, <1>7, ReplacesCommand DEF Reuse
<1>9. Pass(c)'
  BY <1>6, <1>8, AwayPasses DEF Away, NoCommand
<1>10. Leases /\ Processes /\ LocalTypes'
  BY <1>2, LeasesKept, ProcessesKept DEF Reuse, LocalTypes
<1>11. QED
  BY <1>1, <1>8, <1>9, <1>10 DEF Does

LEMMA LoadDoes ==
    ASSUME ServerInv, Sound, LocalTypes, NEW c \in Client, Load(c)
    PROVE  Does(c)
<1>1. ServerMoves
  BY DEF Load, ServerMoves, Rests, past
<1>2. Grows
  BY <1>1, MovesServer
<1>3. cmd[c].step = 1 /\ cmd[c].op = "release"
  BY Stands DEF Load
<1>4. SoundLease(M(c), record[M(c)]) /\ record[M(c)].fence \in Fence
  BY CommandIs DEF Sound, SoundLease, Lease
<1>5. PICK g \in Fence : g = Record(c).fence
  BY <1>4 DEF Record
<1>6. PICK a : a = [Advanced(c) EXCEPT !.fence = Record(c).fence]
  OBVIOUS
<1>7. a = Further(c, 2, g, cmd[c].body, cmd[c].saw, cmd[c].pid)
  BY <1>3, <1>5, <1>6, CommandIs DEF Further
<1>8. a.step = 2 /\ a.m = M(c) /\ a.fence = g /\ a \in Command
  BY <1>3, <1>7, CommandIs DEF Command, M, Further, Ops
<1>9. Known(a.m, a.fence)'
  BY <1>2, <1>4, <1>5, <1>8, KnownStays DEF SoundLease, Record
<1>10. Commands(c) /\ cmd'[c] \in {NoCommand, a}
  BY <1>2, <1>6, <1>8, <1>9, ReplacesCommand DEF Load
<1>11. Pass(c)'
  BY <1>8, <1>10, AwayPasses DEF Away, NoCommand
<1>12. Leases /\ Processes /\ LocalTypes'
  BY <1>2, LeasesKept, ProcessesKept DEF Load, LocalTypes
<1>13. QED
  BY <1>1, <1>10, <1>11, <1>12 DEF Does

LEMMA AcquireDoes ==
    ASSUME ServerInv, Sound, LocalTypes, NEW c \in Client, Acquire(c)
    PROVE  Does(c)
<1>1. ServerMoves
  BY CommandIs DEF Acquire, ServerMoves, Grants
<1>2. Grows /\ ServerInv'
  BY <1>1, MovesServer
<1>3. cmd[c].step = 3 \/ (cmd[c].op = "delete" /\ cmd[c].step = 1)
  BY Stands DEF Acquire
<1>4. Current \in Id
  BY CurrentIs DEF Acquire, ServerInv
<1>5. PICK g \in Fence : g = epoch'[Current]
  BY <1>2, <1>4 DEF ServerInv, ServerTypes
<1>6. PICK n \in {2, 4} : n = cmd[c].step + 1 /\ (n = 2 => cmd[c].op = "delete")
  BY <1>3
<1>7. PICK a : a = [Advanced(c) EXCEPT !.fence = g]
  OBVIOUS
<1>8. Advanced(c) = Further(c, n, F(c), cmd[c].body, cmd[c].saw, cmd[c].pid)
  BY <1>6, CommandIs
<1>9. a = Further(c, n, g, cmd[c].body, cmd[c].saw, cmd[c].pid)
  BY <1>7, <1>8 DEF Further
<1>10. a.op = cmd[c].op /\ a.step = n /\ a.m = M(c) /\ a.fence = g
  BY <1>9 DEF Further, M
<1>11. a \in Command
  <2>1. n \in 1 .. 7
    BY <1>6
  <2>2. QED
    BY <1>9, <2>1, CommandIs DEF Further, Command
<1>12. Known(a.m, a.fence)'
  BY <1>4, <1>5, <1>10 DEF Acquire, Known, Granted
<1>13. Then(c, a)
  BY <1>5, <1>7 DEF Acquire
<1>14. Commands(c) /\ cmd'[c] \in {NoCommand, a}
  BY <1>2, <1>11, <1>12, <1>13, ReplacesCommand
<1>15. Pass(c)'
  BY <1>10, <1>14, AwayPasses DEF Away, NoCommand
<1>16. Leases /\ Processes /\ LocalTypes'
  BY <1>2, LeasesKept, ProcessesKept DEF Acquire, LocalTypes
<1>17. QED
  BY <1>1, <1>14, <1>15, <1>16 DEF Does

LEMMA ImportDoes ==
    ASSUME ServerInv, Sound, LocalTypes, NEW c \in Client, Import(c)
    PROVE  Does(c)
<1>1. ServerMoves
  BY DEF Import, ServerMoves, Rests, past
<1>2. Grows
  BY <1>1, MovesServer
<1>3. cmd[c].op = "pull" /\ cmd[c].step = 5
  BY Stands DEF Import
<1>4. PICK a : a = [Advanced(c) EXCEPT !.body = Nothing]
  OBVIOUS
<1>5. Advanced(c) = Further(c, 6, F(c), cmd[c].body, cmd[c].saw, cmd[c].pid)
  BY <1>3, CommandIs
<1>6. a = Further(c, 6, F(c), Nothing, cmd[c].saw, cmd[c].pid)
  BY <1>4, <1>5 DEF Further
<1>7. a.step = 6 /\ a.m = M(c) /\ a.fence = F(c) /\ a \in Command
  BY <1>6, CommandIs DEF Further, Command, M
<1>8. Commands(c) /\ cmd'[c] \in {NoCommand, a}
  BY <1>2, <1>4, <1>7, KnownFence, ReplacesCommand DEF Import
<1>9. Pass(c)'
  BY <1>7, <1>8, AwayPasses DEF Away, NoCommand
<1>10. LocalTypes'
  BY CommandIs DEF Import, LocalTypes
<1>11. QED
  BY <1>1, <1>2, <1>8, <1>9, <1>10, LeasesKept, ProcessesKept DEF Import, Does

LEMMA UploadDoes ==
    ASSUME ServerInv, Sound, LocalTypes, NEW c \in Client, Upload(c)
    PROVE  Does(c)
<1>3. cmd[c].op = "push" /\ cmd[c].step = 5
  BY Stands DEF Upload
<1>1. ServerMoves
  <2>1. Publishes
    BY CommandIs DEF Upload, Publishes
  <2>2. QED
    BY <2>1 DEF ServerMoves
<1>2. Grows
  BY <1>1, MovesServer
<1>4. PICK op \in {"push", "letGo"} :
        Then(c, [cmd[c] EXCEPT !.op = op, !.step = IF op = "push" THEN @ + 1 ELSE 1,
                               !.body = Nothing, !.saw = Nothing])
  BY DEF Upload
<1>5. PICK n \in {1, 6} : n = (IF op = "push" THEN cmd[c].step + 1 ELSE 1)
  BY <1>3
<1>6. PICK a : a = [cmd[c] EXCEPT !.op = op, !.step = n, !.body = Nothing, !.saw = Nothing]
  OBVIOUS
<1>7. Then(c, a)
  BY <1>4, <1>5, <1>6
<1>8. a = [op |-> op, step |-> n, m |-> M(c), fence |-> F(c), body |-> Nothing, saw |-> Nothing,
           pid |-> cmd[c].pid]
  <2>1. cmd[c] \in Command
    BY CommandIs
  <2>2. QED
    BY <1>6, <2>1 DEF Command, M, F
<1>9. a.step = n /\ a.m = M(c) /\ a.fence = F(c)
  BY <1>8
<1>10. a \in Command
  <2>1. n \in 1 .. 7 /\ op \in Ops \cup {"idle", "letGo"}
    BY DEF Ops
  <2>2. QED
    BY <1>8, <2>1, CommandIs DEF Command
<1>11. Commands(c) /\ cmd'[c] \in {NoCommand, a}
  BY <1>2, <1>7, <1>9, <1>10, KnownFence, ReplacesCommand
<1>12. Pass(c)'
  BY <1>9, <1>11, AwayPasses DEF Away, NoCommand
<1>13. Leases /\ Processes /\ LocalTypes'
  BY <1>2, LeasesKept, ProcessesKept DEF Upload, LocalTypes
<1>14. QED
  BY <1>1, <1>11, <1>12, <1>13 DEF Does

LEMMA HoldDoes ==
    ASSUME ServerInv, Sound, LocalTypes, NEW c \in Client, Hold(c)
    PROVE  Does(c)
<1>1. ServerMoves
  BY DEF Hold, ServerMoves, Rests, past
<1>2. Grows
  BY <1>1, MovesServer
<1>3. cmd[c].step = 6
  BY Stands DEF Hold
<1>4. PICK m \in Machine : m = M(c)
  BY CommandIs
<1>5. PICK f \in Fence : f = F(c) /\ Known(m, f)'
  BY <1>2, <1>4, CommandIs, KnownStays
<1>6. ASSUME NEW p \in Pid, Then(c, [Advanced(c) EXCEPT !.pid = p])
      PROVE  Commands(c) /\ Away(c)
  <2>1. PICK a : a = [Advanced(c) EXCEPT !.pid = p]
    OBVIOUS
  <2>2. Advanced(c) = Further(c, 7, F(c), cmd[c].body, cmd[c].saw, cmd[c].pid)
    BY <1>3, CommandIs
  <2>3. a = Further(c, 7, F(c), cmd[c].body, cmd[c].saw, p)
    BY <2>1, <2>2 DEF Further
  <2>4. a.step = 7 /\ a.m = M(c) /\ a.fence = F(c) /\ a \in Command
    BY <2>3, CommandIs DEF Further, Command, M
  <2>5. Commands(c) /\ cmd'[c] \in {NoCommand, a}
    BY <1>2, <1>6, <2>1, <2>4, KnownFence, ReplacesCommand
  <2>6. QED
    BY <2>4, <2>5 DEF Away, NoCommand
<1>7. ASSUME Record(c).fence = F(c) /\ Ours(M(c))
      PROVE  Commands(c) /\ Away(c) /\ Processes
  <2>1. PICK p \in Pid : p = Record(c).pid
    BY <1>4, <1>7 DEF Ours, Record, Sound, Lease
  <2>2. Then(c, [Advanced(c) EXCEPT !.pid = p]) /\ UNCHANGED proc
    BY <1>7, <2>1 DEF Hold
  <2>3. QED
    BY <1>2, <1>6, <2>2, ProcessesKept DEF Processes
<1>8. ASSUME ~(Record(c).fence = F(c) /\ Ours(M(c)))
      PROVE  Commands(c) /\ Away(c) /\ Processes
  <2>1. PICK p \in Pid :
          /\ proc' = [Stopped(m) EXCEPT ![p] = [pc |-> "asleep", m |-> m, fence |-> f]]
          /\ Then(c, [Advanced(c) EXCEPT !.pid = p])
    BY <1>4, <1>5, <1>8 DEF Hold
  <2>2. PICK h : h = [pc |-> "asleep", m |-> m, fence |-> f]
    OBVIOUS
  <2>3. h \in Process /\ SoundProcess(h)'
    BY <1>5, <2>2 DEF Process, SoundProcess
  <2>4. Stopped(m) \in [Pid -> Process]
    BY NothingKnown DEF Stopped, Sound
  <2>5. \A q \in Pid : Stopped(m)[q] \in {proc[q], Gone}
    BY DEF Stopped, Sound
  <2>6. ASSUME NEW q \in Pid PROVE SoundProcess(proc[q])'
    <3>1. proc'[q] \in {h, proc[q], Gone}
      BY <2>1, <2>2, <2>4, <2>5
    <3>2. SoundProcess(proc[q]) /\ SoundProcess(Gone)'
      BY NothingKnown DEF Sound
    <3>3. CASE proc'[q] = proc[q]
      BY <1>2, <3>2, <3>3, KnownStays DEF SoundProcess
    <3>4. CASE proc'[q] = h
      BY <2>3, <3>4 DEF SoundProcess
    <3>5. CASE proc'[q] = Gone
      BY <3>2, <3>5 DEF SoundProcess, Gone
    <3>6. QED
      BY <3>1, <3>3, <3>4, <3>5
  <2>7. proc' \in [Pid -> Process]
    BY <2>1, <2>2, <2>3, <2>4
  <2>8. QED
    BY <1>6, <2>1, <2>6, <2>7 DEF Processes
<1>9. Commands(c) /\ Away(c) /\ Processes
  BY <1>2, <1>6, <1>7, <1>8
<1>10. Leases /\ LocalTypes'
  BY <1>2, LeasesKept DEF Hold, LocalTypes
<1>11. QED
  BY <1>1, <1>9, <1>10, AwayPasses DEF Does

\* A step of a command, and one of anybody else.
LEMMA StepDoes ==
    ASSUME ServerInv, Sound, LocalTypes, NEW c \in Client,
           Steps(c) \/ Fails(c) \/ \E m \in Machine, op \in Ops : Begin(c, m, op)
    PROVE  Does(c)
  BY DoneDoes, EndsDoes, ExportDoes, DownloadDoes, BeginDoes, ReuseDoes, LoadDoes, AcquireDoes,
     ImportDoes, UploadDoes, HoldDoes DEF Steps

Elsewhere ==
    \/ \E p \in Pid : Heartbeat(p) \/ Killed(p)
    \/ \E m \in Machine : Work(m)
    \/ Expire

LEMMA ElsewhereDoes ==
    ASSUME ServerInv, Sound, LocalTypes, Elsewhere
    PROVE  ServerMoves /\ UNCHANGED cmd /\ Leases /\ Processes /\ LocalTypes'
<1>1. ServerMoves
  BY DEF Elsewhere, Heartbeat, Beat, SaveHeld, SaveLost, Killed, Work, Expire, ServerMoves, Rests,
     Lapses, past
<1>2. Grows
  BY <1>1, MovesServer
<1>3. ASSUME NEW p \in Pid, Heartbeat(p) \/ Killed(p)
      PROVE  Leases /\ Processes
  <2>1. PICK m \in Machine, f \in Fence : m = proc[p].m /\ f = proc[p].fence
    BY DEF Sound, Process
  <2>2. Known(m, f)'
    BY <1>2, <2>1, KnownStays DEF Sound, SoundProcess
  <2>3. ASSUME NEW pc \in {"gone", "asleep", "held", "lost"}, proc' = [proc EXCEPT ![p].pc = pc]
        PROVE  Processes
    <3>1. PICK h : h = [pc |-> pc, m |-> m, fence |-> f]
      OBVIOUS
    <3>2. h \in Process /\ SoundProcess(h)'
      BY <2>2, <3>1 DEF Process, SoundProcess
    <3>3. [proc[p] EXCEPT !.pc = pc] = h
      <4>1. proc[p] \in Process
        BY DEF Sound
      <4>2. QED
        BY <2>1, <3>1, <4>1 DEF Process
    <3>30. proc' = [proc EXCEPT ![p] = h]
      BY <2>3, <3>3
    <3>4. QED
      BY <1>2, <3>2, <3>30, ProcessWritten
  <2>4. CASE Beat(p)
    BY <1>2, <2>3, <2>4, LeasesKept DEF Beat
  <2>5. CASE SaveHeld(p) \/ SaveLost(p)
    <3>1. ASSUME NEW st \in {"held", "lost"}, NEW q \in Pid \cup {NoPid},
                 record' = [record EXCEPT ![m] = [status |-> st, fence |-> f, pid |-> q]]
          PROVE  Leases
      <4>1. PICK l : l = [status |-> st, fence |-> f, pid |-> q]
        OBVIOUS
      <4>2. l \in Lease /\ SoundLease(m, l)'
        BY <2>2, <4>1 DEF Lease, SoundLease
      <4>3. QED
        BY <1>2, <3>1, <4>1, <4>2, LeaseWritten
    <3>2. CASE SaveHeld(p)
      BY <2>1, <2>3, <3>1, <3>2 DEF SaveHeld, HeldBy
    <3>3. CASE SaveLost(p)
      BY <1>2, <2>1, <3>1, <3>3, NothingKnown, ProcessWritten DEF SaveLost
    <3>4. QED
      BY <2>5, <3>2, <3>3
  <2>6. CASE Killed(p)
    BY <1>2, <2>6, LeasesKept, NothingKnown, ProcessWritten DEF Killed
  <2>7. QED
    BY <1>3, <2>4, <2>5, <2>6 DEF Heartbeat
<1>4. Leases /\ Processes
  BY <1>2, <1>3, LeasesKept, ProcessesKept DEF Elsewhere, Work, Expire
<1>5. UNCHANGED cmd /\ LocalTypes'
  <2>1. CASE \E m \in Machine : Work(m)
    <3>1. made' \in Version
      BY <2>1, CloudConstants DEF Work, LocalTypes, Version
    <3>2. QED
      BY <2>1, <3>1 DEF Work, LocalTypes
  <2>2. CASE ~\E m \in Machine : Work(m)
    BY <2>2 DEF Elsewhere, Heartbeat, Beat, SaveHeld, SaveLost, Killed, Expire, LocalTypes
  <2>3. QED
    BY <2>1, <2>2
<1>6. QED
  BY <1>1, <1>4, <1>5

LEMMA PassKept ==
    ASSUME ServerInv, Sound, Relied, Grows, NEW d \in Client, cmd'[d] = cmd[d], Pass(d)
    PROVE  Pass(d)'
<1>1. PICK m \in Machine, f \in Fence : m = M(d) /\ f = F(d)
  BY CommandIs
<1>2. M(d)' = m /\ F(d)' = f /\ cmd'[d] = cmd[d] /\ Known(m, f)
  BY <1>1, CommandIs DEF M, F
<1>3. SUFFICES ASSUME Matches(m, f)', ~Reissued(m, f)'
               PROVE  /\ About(d, "upload") => value'[Current'] = cmd[d].saw \/ by' = m
                      /\ About(d, "import") => value'[Current'] = cmd[d].body \/ by' = m
  <2>1. About(d, "upload")' = About(d, "upload") /\ About(d, "import")' = About(d, "import")
    BY <1>2 DEF About
  <2>2. QED
    BY <1>2, <2>1 DEF Pass
<1>4. Granted(m, f)
  BY <1>2, <1>3 DEF Matches, Known
<1>5. Relies(m, f)
  BY <1>3, <1>4 DEF Relied
<1>6. ~Reissued(m, f)
  BY <1>3 DEF Grows, Reissued
<1>7. QED
  BY <1>1, <1>3, <1>5, <1>6 DEF Relies, Pass

-------------------------------------------------------------------------------
CloudInv == ServerInv /\ Sound /\ LocalTypes /\ \A c \in Client : Pass(c)

LEMMA CloudInitInv == CloudInit => CloudInv
<1> SUFFICES ASSUME CloudInit PROVE CloudInv
  OBVIOUS
<1>1. /\ 0 \in Fence /\ 1 \in Fence /\ 1 \in Version /\ 1 \in Id /\ 1 \in Pid
      /\ Origin \in Machine
  BY CloudConstants DEF Fence, Version, Id, Pid
<1>2. ServerTypes
  BY <1>1 DEF CloudInit, ServerTypes, Nothing
<1>3. OneOpen /\ GrantsPast /\ UntouchedNew
  BY <1>1 DEF CloudInit, OneOpen, GrantsPast, UntouchedNew, Nothing
<1>4. cmd \in [Client -> Command] /\ \A c \in Client : SoundCommand(cmd[c])
  BY NothingKnown DEF CloudInit
<1>5. Granted(Origin, 1)
  BY <1>1 DEF CloudInit, Granted
<1>6. record \in [Machine -> Lease] /\ \A m \in Machine : SoundLease(m, record[m])
  <2>1. PICK l : l = [status |-> "held", fence |-> 1, pid |-> 1]
    OBVIOUS
  <2>2. l \in Lease /\ SoundLease(Origin, l)
    BY <1>1, <1>5, <2>1 DEF Lease, SoundLease, Known
  <2>3. record = [m \in Machine |-> IF m = Origin THEN l ELSE NoLease]
    BY <2>1 DEF CloudInit
  <2>4. QED
    BY <2>2, <2>3, NothingKnown
<1>7. proc \in [Pid -> Process] /\ \A p \in Pid : SoundProcess(proc[p])
  <2>1. PICK h : h = [pc |-> "asleep", m |-> Origin, fence |-> 1]
    OBVIOUS
  <2>2. h \in Process /\ SoundProcess(h)
    BY <1>1, <1>5, <2>1 DEF Process, SoundProcess, Known
  <2>3. proc = [p \in Pid |-> IF p = 1 THEN h ELSE Gone]
    BY <2>1 DEF CloudInit
  <2>4. QED
    BY <2>2, <2>3, NothingKnown
<1>8. LocalTypes
  BY <1>1, CloudConstants DEF CloudInit, LocalTypes
<1>9. ASSUME NEW c \in Client PROVE Pass(c)
  <2>1. Program("idle")[1] = "idle"
    BY DEF Program
  <2>2. cmd[c].op = "idle" /\ cmd[c].step = 1
    BY DEF CloudInit, NoCommand
  <2>3. QED
    BY <2>1, <2>2 DEF Pass, About
<1>10. QED
  BY <1>2, <1>3, <1>4, <1>6, <1>7, <1>8, <1>9 DEF CloudInv, ServerInv, Sound

LEMMA CloudSteps ==
    ASSUME CloudInv, [CloudNext]_cloudVars
    PROVE  CloudInv'
<1>1. ASSUME NEW c \in Client,
             Steps(c) \/ Fails(c) \/ \E m \in Machine, op \in Ops : Begin(c, m, op)
      PROVE  CloudInv'
  <2>1. Does(c)
    BY <1>1, StepDoes DEF CloudInv
  <2>2. ServerInv' /\ Relied /\ Grows
    BY <2>1, MovesServer DEF Does, CloudInv
  <2>3. ASSUME NEW d \in Client PROVE Pass(d)'
    <3>1. CASE d = c
      BY <2>1, <3>1 DEF Does
    <3>2. CASE d # c
      <4>1. cmd'[d] = cmd[d]
        BY <2>1, <3>2 DEF Does, Commands
      <4>2. QED
        BY <2>2, <4>1, PassKept DEF CloudInv
    <3>3. QED
      BY <3>1, <3>2
  <2>4. Sound'
    BY <2>1 DEF Does, Commands, Leases, Processes, Sound
  <2>5. QED
    BY <2>1, <2>2, <2>3, <2>4 DEF CloudInv, Does
<1>2. ASSUME ServerMoves, UNCHANGED cmd, Leases, Processes, LocalTypes'
      PROVE  CloudInv'
  <2>1. ServerInv' /\ Relied /\ Grows
    BY <1>2, MovesServer DEF CloudInv
  <2>2. ASSUME NEW d \in Client PROVE Pass(d)'
    BY <1>2, <2>1, PassKept DEF CloudInv
  <2>3. ASSUME NEW d \in Client PROVE SoundCommand(cmd[d])'
    <3>1. SoundCommand(cmd[d]) /\ cmd'[d] = cmd[d]
      BY <1>2 DEF CloudInv, Sound
    <3>2. QED
      BY <2>1, <3>1, KnownStays DEF SoundCommand
  <2>4. Sound'
    BY <1>2, <2>3 DEF CloudInv, Sound, Leases, Processes
  <2>5. QED
    BY <1>2, <2>1, <2>2, <2>4 DEF CloudInv
<1>3. CASE Elsewhere
  BY <1>2, <1>3, ElsewhereDoes DEF CloudInv
<1>4. CASE UNCHANGED cloudVars
  <2>1. ServerMoves /\ UNCHANGED <<cmd, record, proc, copy, made, begun>>
    BY <1>4 DEF cloudVars, ServerMoves, Rests, server, past
  <2>2. Grows
    BY <2>1, MovesServer DEF CloudInv
  <2>3. Leases /\ Processes /\ LocalTypes'
    BY <2>1, <2>2, LeasesKept, ProcessesKept DEF CloudInv, LocalTypes
  <2>4. QED
    BY <1>2, <2>1, <2>3
<1>5. QED
  BY <1>1, <1>3, <1>4 DEF CloudNext, Elsewhere

LEMMA CloudHolds == CloudSpec => []CloudInv
<1>1. CloudInit => CloudInv
  BY CloudInitInv
<1>2. CloudInv /\ [CloudNext]_cloudVars => CloudInv'
  BY CloudSteps
<1>3. QED
  BY <1>1, <1>2, PTL DEF CloudSpec

\* Every variable keeps its type, whatever the commands, their failures and the
\* heartbeat processes do (core.rs, commands.rs).
THEOREM CloudTypes == CloudSpec => []CloudTypeOK
<1>1. CloudInv => CloudTypeOK
  BY DEF CloudInv, ServerInv, ServerTypes, Sound, LocalTypes, CloudTypeOK
<1>2. QED
  BY <1>1, CloudHolds, PTL

\* What a push replaces is what was on the server when it exported, or what its own
\* machine has published since, unless its fence was given again (push, core.rs).
THEOREM PushReplacesOwn == CloudSpec => PublishedUnderLease
<1>1. ASSUME CloudInv, NEW c \in Client, Upload(c)
      PROVE  value[Current] = cmd[c].saw \/ by = M(c) \/ Reissued(M(c), F(c))
  <2>1. Pass(c) /\ About(c, "upload") /\ Matches(M(c), F(c))
    BY <1>1 DEF CloudInv, Upload, Holds
  <2>2. QED
    BY <2>1 DEF Pass
<1>2. CloudInv => [\A c \in Client :
         Upload(c) => value[Current] = cmd[c].saw \/ by = M(c) \/ Reissued(M(c), F(c))]_cloudVars
  BY <1>1
<1>3. QED
  BY <1>2, CloudHolds, PTL DEF PublishedUnderLease

\* What a pull imports while it holds the lease is what is on the server, or what its
\* own machine has published since, unless its fence was given again (pull, core.rs).
THEOREM PullIsCurrent == CloudSpec => PulledIsCurrent
<1>1. ASSUME CloudInv, NEW c \in Client, Import(c) /\ Holds(M(c), F(c))
      PROVE  cmd[c].body = value[Current] \/ by = M(c) \/ Reissued(M(c), F(c))
  <2>1. Pass(c) /\ About(c, "import") /\ Matches(M(c), F(c))
    BY <1>1 DEF CloudInv, Import, Holds
  <2>2. QED
    BY <2>1 DEF Pass
<1>2. CloudInv => [\A c \in Client :
         Import(c) /\ Holds(M(c), F(c)) =>
           cmd[c].body = value[Current] \/ by = M(c) \/ Reissued(M(c), F(c))]_cloudVars
  BY <1>1
<1>3. QED
  BY <1>2, CloudHolds, PTL DEF PulledIsCurrent
===============================================================================
