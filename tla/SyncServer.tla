------------------------------ MODULE SyncServer ------------------------------
(***************************************************************************)
(* The session index, the D-03 lease and the bundle store of nemr-sync     *)
(* (crates/nemr-sync/src/{index,lease,bundles}.rs), as one user sees them: *)
(* every statement of these handlers is keyed by that user's id.           *)
(*                                                                         *)
(* A handler is one request record.  Each SQL statement and each call on   *)
(* the object store is a step of its own, because the handler awaits it;   *)
(* a request can be dropped at any await (the client went away, or the     *)
(* server stopped), which loses the request and nothing else.              *)
(*                                                                         *)
(* Time is a counter that ticks at any moment between two steps.  The      *)
(* handlers take expires_at from the clock when they start and the         *)
(* statements compare it with the clock when they run.                     *)
(***************************************************************************)
EXTENDS Integers, FiniteSets

CONSTANTS
    Name,      \* session names of the user
    Machine,   \* lease holders: the machine names clients present
    Body,      \* bundle ciphertexts; a body stands for its digest too
    Req,       \* the requests in flight at the same time
    NoBody,    \* NULL storage_key and ciphertext_sha256; no stored object
    NoOp,      \* the operation of an idle request slot
    TTL,       \* Config::lease_ttl
    MaxId,     \* bound: sessions rows ever inserted
    MaxFence,  \* bound: the highest fence granted on one row
    MaxTime    \* bound: the last tick of the clock

ASSUME ConstAssumption ==
    /\ MaxId \in Nat
    /\ MaxFence \in Nat
    /\ MaxTime \in Nat \ {0}
    /\ TTL \in Nat \ {0}
    /\ Machine # {}
    /\ NoBody \notin Body

NoId == 0
Id == 1..MaxId

CredOps == {"heartbeat", "release", "upload"}      \* present (holder, fence)
HolderOps == {"acquire", "takeover", "delete"}     \* present a holder only
ExpiryOps == {"acquire", "takeover", "heartbeat"}  \* compute a new expires_at
Ops == CredOps \cup HolderOps \cup {"download"}

ASSUME NoOpAssumption == NoOp \notin Ops

VARIABLES
    now,       \* the clock; instant 0, to_timestamp(0), is long past
    sid,       \* sessions: name -> id of the row, NoId when there is none
    nextId,    \* the next fresh row id (gen_random_uuid)
    recorded,  \* sessions: id -> ciphertext_sha256, set with storage_key
    lease,     \* leases: id -> row; fence 0 when there is none
    object,    \* the object store: the one key of a session id -> bytes
    req,       \* requests in flight
    granted    \* history: every credential the server ever granted

vars == <<now, sid, nextId, recorded, lease, object, req, granted>>

Time == 0..(MaxTime + TTL)
LeaseRow == [holder : Machine, fence : 0..MaxFence, expires : Time]
Credential == [name : Name, id : Id, holder : Machine, fence : 1..MaxFence]

Idle == [op |-> NoOp, pc |-> "idle"]
Pending == [op : Ops, pc : {"resolved", "put", "publish", "object"},
            id : Id, name : Name, holder : Machine, fence : 0..MaxFence,
            body : Body \cup {NoBody}, expires : Time]

TypeOK ==
    /\ now \in 1..MaxTime
    /\ sid \in [Name -> Id \cup {NoId}]
    /\ nextId \in 1..(MaxId + 1)
    /\ recorded \in [Id -> Body \cup {NoBody}]
    /\ lease \in [Id -> LeaseRow]
    /\ object \in [Id -> Body \cup {NoBody}]
    /\ req \in [Req -> Pending \cup {Idle}]
    /\ granted \in SUBSET Credential

Rows == {sid[n] : n \in Name} \ {NoId}
Nobody == CHOOSE m \in Machine : TRUE   \* fills a column nothing reads
NoLease(m) == [holder |-> m, fence |-> 0, expires |-> 0]

Init ==
    /\ now = 1
    /\ sid = [n \in Name |-> NoId]
    /\ nextId = 1
    /\ recorded = [i \in Id |-> NoBody]
    /\ lease = [i \in Id |-> NoLease(Nobody)]
    /\ object = [i \in Id |-> NoBody]
    /\ req = [r \in Req |-> Idle]
    /\ granted = {}

-------------------------------------------------------------------------------
(* The index *)

\* index::upsert: insert the row of an unknown name.  On a known name the
\* statement rewrites descriptive columns only.
Upsert(n) ==
    /\ \/ /\ sid[n] = NoId
          /\ nextId <= MaxId
          /\ sid' = [sid EXCEPT ![n] = nextId]
          /\ nextId' = nextId + 1
       \/ /\ sid[n] # NoId
          /\ UNCHANGED <<sid, nextId>>
    /\ UNCHANGED <<now, recorded, lease, object, req, granted>>

\* index::resolve, the first statement of every lease and bundle handler: the
\* name is looked up once and the id it had then is used from there on; an
\* unknown name is answered 404.
Resolve(r, op, n, m, f, b) ==
    /\ req[r] = Idle
    /\ req' = IF sid[n] = NoId THEN req ELSE
         [req EXCEPT ![r] =
            [op |-> op, pc |-> "resolved", id |-> sid[n], name |-> n,
             holder |-> m, fence |-> f, body |-> b,
             expires |-> IF op \in ExpiryOps THEN now + TTL ELSE 0]]
    /\ UNCHANGED <<now, sid, nextId, recorded, lease, object, granted>>

\* The requests clients send: a machine names itself, a credential is one that
\* was granted for that name, however long ago, and a download needs neither.
Begin(r, n) ==
    \/ \E op \in HolderOps, m \in Machine : Resolve(r, op, n, m, 0, NoBody)
    \/ \E c \in granted :
         /\ c.name = n
         /\ \/ \E op \in CredOps \ {"upload"} :
                 Resolve(r, op, n, c.holder, c.fence, NoBody)
            \/ \E b \in Body : Resolve(r, "upload", n, c.holder, c.fence, b)
    \/ Resolve(r, "download", n, Nobody, 0, NoBody)

-------------------------------------------------------------------------------
(* Request bookkeeping *)

At(r, op, pc) == req[r].op = op /\ req[r].pc = pc
Answer(r) == req' = [req EXCEPT ![r] = Idle]
Advance(r, pc) == req' = [req EXCEPT ![r].pc = pc]

\* Mutant of Held: the fence is not compared.
HeldAnyFence(r) ==
    LET row == lease[req[r].id] IN
    row.fence # 0 /\ row.holder = req[r].holder /\ row.expires >= now

\* The WHERE clause shared by heartbeat, require_held and the metadata write.
Held(r) ==
    LET row == lease[req[r].id] IN
    /\ row.fence # 0
    /\ row.holder = req[r].holder
    /\ row.fence = req[r].fence
    /\ row.expires >= now

-------------------------------------------------------------------------------
(* The lease *)

NextFence(row) == row.fence + 1

\* The row written by acquire's and takeover's upsert: fence 1 on insert, the
\* next fence on conflict.  The insert fails when the session row is gone (the
\* foreign key), and so does the update, for the cascade removed the lease.
Grant(r) ==
    LET q == req[r]
        f == NextFence(lease[q.id])
    IN  /\ q.id \in Rows
        /\ f <= MaxFence
        /\ lease' = [lease EXCEPT ![q.id] =
                       [holder |-> q.holder, fence |-> f, expires |-> q.expires]]
        /\ granted' = granted \cup
             {[name |-> q.name, id |-> q.id, holder |-> q.holder, fence |-> f]}
        /\ Answer(r)
        /\ UNCHANGED <<now, sid, nextId, recorded, object>>

\* Mutant of MayAcquire: a lease in its last instant counts as free.
MayAcquireEarly(r) ==
    LET row == lease[req[r].id]
    IN  row.fence = 0 \/ row.expires <= now \/ row.holder = req[r].holder

\* lease::acquire: granted when nobody holds the row, or the caller does.
MayAcquire(r) ==
    LET row == lease[req[r].id]
    IN  row.fence = 0 \/ row.expires < now \/ row.holder = req[r].holder

Acquire(r) == At(r, "acquire", "resolved") /\ MayAcquire(r) /\ Grant(r)

\* Held by another machine: the holder is reported and nothing changes.
AcquireRefused(r) ==
    /\ At(r, "acquire", "resolved")
    /\ ~MayAcquire(r) \/ req[r].id \notin Rows
    /\ Answer(r)
    /\ UNCHANGED <<now, sid, nextId, recorded, lease, object, granted>>

\* lease::takeover: unconditional.
Takeover(r) == At(r, "takeover", "resolved") /\ Grant(r)

\* lease::heartbeat: renew, only while held.
Heartbeat(r) ==
    /\ At(r, "heartbeat", "resolved")
    /\ lease' = IF Held(r) THEN [lease EXCEPT ![req[r].id].expires = req[r].expires]
                 ELSE lease
    /\ Answer(r)
    /\ UNCHANGED <<now, sid, nextId, recorded, object, granted>>

\* lease::release: expire the row of the matching credential, live or not; the
\* row and its fence stay.
Matches(r) ==
    LET row == lease[req[r].id]
    IN  row.fence # 0 /\ row.holder = req[r].holder /\ row.fence = req[r].fence

\* Mutants of Released: the row is deleted; the row is backdated by a term and more.
ReleasedDeleted(row) == NoLease(row.holder)

Released(row) == [row EXCEPT !.expires = 0]

Release(r) ==
    /\ At(r, "release", "resolved")
    /\ lease' = IF Matches(r) THEN [lease EXCEPT ![req[r].id] = Released(@)] ELSE lease
    /\ Answer(r)
    /\ UNCHANGED <<now, sid, nextId, recorded, object, granted>>

-------------------------------------------------------------------------------
(* The bundle store *)

\* Mutant of AfterGate: the bundle is recorded before it is stored.
AfterGateRecord == "publish"

AfterGate == "put"

\* bundles::upload.  require_held fails fast on a fence that is already stale;
\* the body is then received and staged.
UploadGate(r) ==
    /\ At(r, "upload", "resolved")
    /\ IF Held(r) THEN Advance(r, AfterGate) ELSE Answer(r)
    /\ UNCHANGED <<now, sid, nextId, recorded, lease, object, granted>>

\* store.put_file: the session's one key is overwritten.
UploadPut(r) ==
    /\ At(r, "upload", "put")
    /\ object' = [object EXCEPT ![req[r].id] = req[r].body]
    /\ Advance(r, "publish")
    /\ UNCHANGED <<now, sid, nextId, recorded, lease, granted>>

\* The put failed or the body broke off: an error, and nothing was stored.
UploadFails(r) ==
    /\ At(r, "upload", "put")
    /\ Answer(r)
    /\ UNCHANGED <<now, sid, nextId, recorded, lease, object, granted>>

\* Mutant of MayPublish: the metadata write does not test the lease again.
MayPublishUnfenced(r) == req[r].id \in Rows

MayPublish(r) == req[r].id \in Rows /\ Held(r)

\* The metadata write, with the lease test in its own WHERE clause (F-92).
Publish(r) ==
    /\ At(r, "upload", "publish")
    /\ MayPublish(r)
    /\ recorded' = [recorded EXCEPT ![req[r].id] = req[r].body]
    /\ Answer(r)
    /\ UNCHANGED <<now, sid, nextId, lease, object, granted>>

\* No row matched: 409, "the bundle was not published".
PublishRefused(r) ==
    /\ At(r, "upload", "publish")
    /\ ~MayPublish(r)
    /\ Answer(r)
    /\ UNCHANGED <<now, sid, nextId, recorded, lease, object, granted>>

\* bundles::delete_cloud: the row goes, and by cascade its lease, unless
\* another machine's lease is live.  The storage_key the row had is kept.
HeldByOther(r) ==
    LET row == lease[req[r].id]
    IN  row.fence # 0 /\ row.holder # req[r].holder /\ row.expires >= now

\* ON DELETE CASCADE of the leases table.
Cascade(row) == NoLease(row.holder)

DeleteRow(r) ==
    LET i == req[r].id IN
    /\ At(r, "delete", "resolved")
    /\ i \in Rows
    /\ ~HeldByOther(r)
    /\ sid' = [n \in Name |-> IF sid[n] = i THEN NoId ELSE sid[n]]
    /\ lease' = [lease EXCEPT ![i] = Cascade(@)]
    /\ recorded' = [recorded EXCEPT ![i] = NoBody]
    /\ IF recorded[i] = NoBody THEN Answer(r) ELSE Advance(r, "object")
    /\ UNCHANGED <<now, nextId, object, granted>>

\* Another machine holds the lease, or a concurrent delete was first: 409.
DeleteRefused(r) ==
    /\ At(r, "delete", "resolved")
    /\ req[r].id \notin Rows \/ HeldByOther(r)
    /\ Answer(r)
    /\ UNCHANGED <<now, sid, nextId, recorded, lease, object, granted>>

DeleteObject(r) ==
    /\ At(r, "delete", "object")
    /\ object' = [object EXCEPT ![req[r].id] = NoBody]
    /\ Answer(r)
    /\ UNCHANGED <<now, sid, nextId, recorded, lease, granted>>

\* bundles::download: the storage_key is read, no lease is asked for, and the
\* object of that key is streamed out.
DownloadKey(r) ==
    /\ At(r, "download", "resolved")
    /\ IF recorded[req[r].id] # NoBody THEN Advance(r, "object") ELSE Answer(r)
    /\ UNCHANGED <<now, sid, nextId, recorded, lease, object, granted>>

DownloadObject(r) ==
    /\ At(r, "download", "object")
    /\ Answer(r)
    /\ UNCHANGED <<now, sid, nextId, recorded, lease, object, granted>>

-------------------------------------------------------------------------------
(* Faults and time *)

\* A request is dropped at an await: its client disconnected, a statement or a
\* store call failed, or the server went down.
Drop(r) ==
    /\ req[r] # Idle
    /\ Answer(r)
    /\ UNCHANGED <<now, sid, nextId, recorded, lease, object, granted>>

Tick ==
    /\ now < MaxTime
    /\ now' = now + 1
    /\ UNCHANGED <<sid, nextId, recorded, lease, object, req, granted>>

LeaseStep(r) ==
    Acquire(r) \/ AcquireRefused(r) \/ Takeover(r) \/ Heartbeat(r) \/ Release(r)

BundleStep(r) ==
    \/ UploadGate(r) \/ UploadPut(r) \/ UploadFails(r)
    \/ Publish(r) \/ PublishRefused(r)
    \/ DeleteRow(r) \/ DeleteRefused(r) \/ DeleteObject(r)
    \/ DownloadKey(r) \/ DownloadObject(r)

Next ==
    \/ \E n \in Name : Upsert(n) \/ \E r \in Req : Begin(r, n)
    \/ \E r \in Req : LeaseStep(r) \/ BundleStep(r) \/ Drop(r)
    \/ Tick

Spec == Init /\ [][Next]_vars

-------------------------------------------------------------------------------
(* Properties *)

Live(i) == lease[i].fence # 0 /\ lease[i].expires >= now

\* The row of a session carries the newest credential granted on it, so a
\* credential that was superseded can never match it again: lease.rs keeps the
\* row, and its fence, across release and expiry.
LeaseIsNewestGrant ==
    \A i \in Id :
        /\ lease[i].fence # 0 =>
             \E g \in granted : /\ g.id = i
                                /\ g.holder = lease[i].holder
                                /\ g.fence = lease[i].fence
        /\ i \in Rows => \A g \in granted : g.id = i => g.fence <= lease[i].fence

\* No two grants on one session carry the same fence, whatever machines raced
\* for it: the fence alone tells holds apart.
GrantsAreUnique ==
    \A g, h \in granted : g.id = h.id /\ g.fence = h.fence => g = h

\* A session whose row delete_cloud removed is gone for good: a request that
\* resolved its name before leaves no lease and no bundle record behind.
DeletedLeavesNoRecord ==
    \A i \in Id : i \notin Rows => lease[i].fence = 0 /\ recorded[i] = NoBody

\* A recorded bundle has its object in the store: upload stores before it
\* records, and delete_cloud removes the object only after the row.
RecordedBundleExists ==
    \A i \in Id : recorded[i] # NoBody => object[i] # NoBody

\* What the four invariants above rest on: ids are handed out in order, and a
\* request knows what its earlier steps achieved.  An upload about to record has
\* stored its object unless the session is gone, and a deletion about to remove
\* the object has removed the row.
IdsInOrder ==
    /\ \A i \in Rows : i < nextId
    /\ \A g \in granted : g.id < nextId
    /\ \A r \in Req : req[r] # Idle => req[r].id < nextId

StepsAccountedFor ==
    \A r \in Req :
        /\ At(r, "upload", "publish") /\ req[r].id \in Rows
             => object[req[r].id] # NoBody
        /\ At(r, "delete", "object") => req[r].id \notin Rows
        /\ req[r].op = "upload" => req[r].body \in Body

IInv ==
    /\ TypeOK
    /\ LeaseIsNewestGrant
    /\ GrantsAreUnique
    /\ DeletedLeavesNoRecord
    /\ RecordedBundleExists
    /\ IdsInOrder
    /\ StepsAccountedFor

\* A superseded credential renews, releases and publishes nothing, even when its
\* request passed an earlier check: the refusal is the server's (lease.rs:3-10).
SupersededNeverActs ==
    [][\A r \in Req :
         \/ Publish(r)
         \/ (Heartbeat(r) \/ Release(r)) /\ lease' # lease
         => \A g \in granted : g.id = req[r].id => g.fence <= req[r].fence]_vars

\* A live lease leaves its holder only by an explicit takeover or by the
\* holder's own deletion of the session.
LiveLeaseIsKept ==
    [][\A i \in Id :
         Live(i) /\ (lease'[i].holder # lease[i].holder \/ lease'[i].fence = 0)
         => \E r \in Req :
              /\ req[r].op \in {"takeover", "delete"}
              /\ req[r].id = i
              /\ req[r].op = "delete" => req[r].holder = lease[i].holder]_vars

\* The server implements the abstract sessions: what a request in flight, a
\* dropped one or one resolved before a deletion does to the tables is always
\* one of the abstract steps.
Sessions == INSTANCE FencedSessions WITH
    status <- [i \in Id |-> IF i >= nextId THEN "new"
                            ELSE IF i \in Rows THEN "open" ELSE "closed"],
    epoch  <- [i \in Id |-> lease[i].fence],
    owner  <- [i \in Id |-> lease[i].holder],
    held   <- [i \in Id |-> Live(i)],
    value  <- recorded

ImplementsSessions == Sessions!Spec

\* "Lease lost during the upload: the bundle was not published" leaves the bundle
\* the session already had as the rightful holder left it, object and digest.
\* (bundles.rs:163-169, tests/lease.rs: a fenced-out write publishes nothing)
RefusedUploadLeavesBundle ==
    [][\A r \in Req :
         PublishRefused(r) /\ recorded[req[r].id] # NoBody
         => object[req[r].id] = recorded[req[r].id]]_vars
===============================================================================
