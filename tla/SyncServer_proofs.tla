-------------------------- MODULE SyncServer_proofs --------------------------
(***************************************************************************)
(* Proofs about SyncServer, for every set of names, machines, bodies and   *)
(* requests and every bound.                                               *)
(***************************************************************************)
EXTENDS SyncServer, TLAPS

-------------------------------------------------------------------------------
(* Types *)

\* A request that is at some step of an operation carries that operation's
\* arguments.
LEMMA InFlight ==
    ASSUME TypeOK, NEW r \in Req, req[r].pc # "idle"
    PROVE  req[r] \in Pending
  BY DEF TypeOK, Idle

LEMMA AnswerType ==
    ASSUME TypeOK, NEW r \in Req, Answer(r)
    PROVE  req' \in [Req -> Pending \cup {Idle}]
  BY DEF TypeOK, Answer

LEMMA AdvanceType ==
    ASSUME TypeOK, NEW r \in Req, req[r] \in Pending,
           NEW pc \in {"put", "publish", "object"}, Advance(r, pc)
    PROVE  req' \in [Req -> Pending \cup {Idle}]
  BY DEF TypeOK, Advance, Pending

LEMMA ResolveType ==
    ASSUME TypeOK, NEW r \in Req, NEW op \in Ops, NEW n \in Name, NEW m \in Machine,
           NEW f \in 0..MaxFence, NEW b \in Body \cup {NoBody},
           Resolve(r, op, n, m, f, b)
    PROVE  TypeOK'
<1>1. now + TTL \in Time
  BY ConstAssumption DEF TypeOK, Time
<1>2. 0 \in Time
  BY ConstAssumption DEF Time
<1>3. sid[n] # NoId => sid[n] \in Id
  BY DEF TypeOK
<1>4. req' \in [Req -> Pending \cup {Idle}]
  BY <1>1, <1>2, <1>3 DEF TypeOK, Resolve, Pending
<1>5. QED
  BY <1>4 DEF TypeOK, Resolve

LEMMA GrantType ==
    ASSUME TypeOK, NEW r \in Req, req[r] \in Pending, Grant(r)
    PROVE  TypeOK'
<1>1. NextFence(lease[req[r].id]) \in 1..MaxFence
  BY ConstAssumption DEF TypeOK, Grant, NextFence, Pending, LeaseRow
<1>2. lease' \in [Id -> LeaseRow]
  BY <1>1 DEF TypeOK, Grant, Pending, LeaseRow
<1>3. granted' \in SUBSET Credential
  BY <1>1 DEF TypeOK, Grant, Pending, Credential
<1>4. QED
  BY <1>2, <1>3, AnswerType DEF TypeOK, Grant

LEMMA LeaseStepType ==
    ASSUME TypeOK, NEW r \in Req, LeaseStep(r)
    PROVE  TypeOK'
<1>1. req[r] \in Pending
  BY InFlight DEF LeaseStep, Acquire, AcquireRefused, Takeover, Heartbeat, Release, At
<1>2. CASE Acquire(r)
  BY <1>1, <1>2, GrantType DEF Acquire
<1>3. CASE Takeover(r)
  BY <1>1, <1>3, GrantType DEF Takeover
<1>4. CASE AcquireRefused(r)
  BY <1>4, AnswerType DEF AcquireRefused, TypeOK
<1>5. CASE Heartbeat(r)
  <2>1. lease' \in [Id -> LeaseRow]
    BY <1>1, <1>5 DEF Heartbeat, TypeOK, LeaseRow, Pending
  <2>2. QED
    BY <1>5, <2>1, AnswerType DEF Heartbeat, TypeOK
<1>6. CASE Release(r)
  <2>1. lease' \in [Id -> LeaseRow]
    BY <1>1, <1>6, ConstAssumption DEF Release, Released, TypeOK, LeaseRow, Pending, Time
  <2>2. QED
    BY <1>6, <2>1, AnswerType DEF Release, TypeOK
<1>7. QED
  BY <1>2, <1>3, <1>4, <1>5, <1>6 DEF LeaseStep

LEMMA BundleStepType ==
    ASSUME TypeOK, NEW r \in Req, BundleStep(r)
    PROVE  TypeOK'
<1>1. req[r] \in Pending
  BY InFlight DEF BundleStep, UploadGate, UploadPut, UploadFails, Publish, PublishRefused,
     DeleteRow, DeleteRefused, DeleteObject, DownloadKey, DownloadObject, At
<1>2. CASE UploadGate(r) \/ DownloadKey(r)
  <2>1. req' \in [Req -> Pending \cup {Idle}]
    BY <1>1, <1>2, AnswerType, AdvanceType DEF UploadGate, DownloadKey, AfterGate
  <2>2. QED
    BY <1>2, <2>1 DEF UploadGate, DownloadKey, TypeOK
<1>3. CASE UploadPut(r)
  <2>1. object' \in [Id -> Body \cup {NoBody}]
    BY <1>1, <1>3 DEF UploadPut, TypeOK, Pending
  <2>2. QED
    BY <1>1, <1>3, <2>1, AdvanceType DEF UploadPut, TypeOK
<1>4. CASE UploadFails(r) \/ PublishRefused(r) \/ DeleteRefused(r) \/ DownloadObject(r)
  BY <1>4, AnswerType DEF UploadFails, PublishRefused, DeleteRefused, DownloadObject, TypeOK
<1>5. CASE Publish(r)
  <2>1. recorded' \in [Id -> Body \cup {NoBody}]
    BY <1>1, <1>5 DEF Publish, TypeOK, Pending
  <2>2. QED
    BY <1>5, <2>1, AnswerType DEF Publish, TypeOK
<1>6. CASE DeleteRow(r)
  <2>1. sid' \in [Name -> Id \cup {NoId}]
    BY <1>6 DEF DeleteRow, TypeOK
  <2>2. lease' \in [Id -> LeaseRow]
    BY <1>1, <1>6, ConstAssumption
       DEF DeleteRow, Cascade, NoLease, TypeOK, Pending, LeaseRow, Time
  <2>3. recorded' \in [Id -> Body \cup {NoBody}]
    BY <1>6 DEF DeleteRow, TypeOK
  <2>4. req' \in [Req -> Pending \cup {Idle}]
    BY <1>1, <1>6, AnswerType, AdvanceType DEF DeleteRow
  <2>5. QED
    BY <1>6, <2>1, <2>2, <2>3, <2>4 DEF DeleteRow, TypeOK
<1>7. CASE DeleteObject(r)
  BY <1>7, AnswerType DEF DeleteObject, TypeOK
<1>8. QED
  BY <1>2, <1>3, <1>4, <1>5, <1>6, <1>7 DEF BundleStep

LEMMA BeginType ==
    ASSUME TypeOK, NEW r \in Req, NEW n \in Name, Begin(r, n)
    PROVE  TypeOK'
<1>0. 0 \in 0..MaxFence /\ Nobody \in Machine
  BY ConstAssumption DEF Nobody
<1>1. CASE \E op \in HolderOps, m \in Machine : Resolve(r, op, n, m, 0, NoBody)
  BY <1>0, <1>1, ResolveType DEF Ops
<1>2. CASE Resolve(r, "download", n, Nobody, 0, NoBody)
  BY <1>0, <1>2, ResolveType DEF Ops
<1>3. ASSUME NEW c \in granted,
             \/ \E op \in CredOps : Resolve(r, op, n, c.holder, c.fence, NoBody)
             \/ \E b \in Body : Resolve(r, "upload", n, c.holder, c.fence, b)
      PROVE  TypeOK'
  <2>1. c.holder \in Machine /\ c.fence \in 0..MaxFence
    BY ConstAssumption DEF TypeOK, Credential
  <2>2. CredOps \subseteq Ops /\ "upload" \in Ops
    BY DEF Ops, CredOps
  <2>3. QED
    BY <1>3, <2>1, <2>2, ResolveType
<1>4. QED
  BY <1>1, <1>2, <1>3 DEF Begin

LEMMA TypeStep == TypeOK /\ [Next]_vars => TypeOK'
<1> SUFFICES ASSUME TypeOK, [Next]_vars PROVE TypeOK'
  OBVIOUS
<1>1. ASSUME NEW n \in Name, Upsert(n) PROVE TypeOK'
  BY <1>1, ConstAssumption DEF Upsert, TypeOK, Id, NoId
<1>2. ASSUME NEW r \in Req, NEW n \in Name, Begin(r, n) PROVE TypeOK'
  BY <1>2, BeginType
<1>3. ASSUME NEW r \in Req, LeaseStep(r) \/ BundleStep(r) PROVE TypeOK'
  BY <1>3, LeaseStepType, BundleStepType
<1>4. ASSUME NEW r \in Req, Drop(r) PROVE TypeOK'
  BY <1>4, AnswerType DEF Drop, TypeOK
<1>5. CASE Tick
  BY <1>5, ConstAssumption DEF Tick, TypeOK
<1>6. CASE UNCHANGED vars
  BY <1>6 DEF vars, TypeOK
<1>7. QED
  BY <1>1, <1>2, <1>3, <1>4, <1>5, <1>6 DEF Next

\* Every table and every request record keeps its type.
THEOREM TypeCorrect == Spec => []TypeOK
<1>1. Init => TypeOK
  BY ConstAssumption DEF Init, TypeOK, NoLease, Nobody, LeaseRow, Time, Id, NoId, Idle
<1>2. QED
  BY <1>1, TypeStep, PTL DEF Spec

-------------------------------------------------------------------------------
(* The inductive invariant *)

LEMMA InitIInv == Init => IInv
<1> SUFFICES ASSUME Init PROVE IInv
  OBVIOUS
<1>1. TypeOK
  BY ConstAssumption DEF Init, TypeOK, NoLease, Nobody, LeaseRow, Time, Id, NoId, Idle
<1>2. Rows = {}
  BY DEF Init, Rows
<1>3. LeaseIsNewestGrant /\ GrantsAreUnique /\ DeletedLeavesNoRecord /\ RecordedBundleExists
  BY <1>2 DEF Init, LeaseIsNewestGrant, GrantsAreUnique, DeletedLeavesNoRecord,
     RecordedBundleExists, NoLease
<1>4. IdsInOrder
  BY <1>2 DEF Init, IdsInOrder
<1>5. StepsAccountedFor
  BY NoOpAssumption DEF Init, StepsAccountedFor, At, Idle, Ops, CredOps
<1>6. QED
  BY <1>1, <1>3, <1>4, <1>5 DEF IInv

\* A step that leaves the tables and the grants alone, and moves one request
\* without bringing it to a step that has something to account for.
LEMMA QuietStep ==
    ASSUME IInv, TypeOK', NEW r \in Req,
           UNCHANGED <<sid, nextId, recorded, lease, object, granted>>,
           \/ Answer(r)
           \/ Advance(r, "put") /\ req[r] # Idle
           \/ req[r].op = "download" /\ Advance(r, "object") /\ req[r] # Idle
    PROVE  IInv'
<1> USE DEF IInv
<1>1. LeaseIsNewestGrant' /\ GrantsAreUnique' /\ DeletedLeavesNoRecord' /\ RecordedBundleExists'
  BY DEF LeaseIsNewestGrant, GrantsAreUnique, DeletedLeavesNoRecord, RecordedBundleExists, Rows
<1>2. Rows' = Rows
  BY DEF Rows
<1>3. IdsInOrder'
  BY <1>2 DEF IdsInOrder, Answer, Advance, TypeOK, Pending
<1>4. StepsAccountedFor'
  BY <1>2, NoOpAssumption
     DEF StepsAccountedFor, Answer, Advance, At, TypeOK, Pending, Idle, Ops, CredOps
<1>5. QED
  BY <1>1, <1>3, <1>4

\* The row of a new session takes the next id, which nothing carries yet.
LEMMA UpsertIInv ==
    ASSUME IInv, TypeOK', NEW n \in Name, Upsert(n)
    PROVE  IInv'
<1> USE DEF IInv
<1>1. CASE sid[n] # NoId
  <2>1. UNCHANGED vars
    BY <1>1 DEF Upsert, vars
  <2>2. QED
    BY <2>1 DEF vars, LeaseIsNewestGrant, GrantsAreUnique, DeletedLeavesNoRecord,
       RecordedBundleExists, IdsInOrder, StepsAccountedFor, Rows, At
<1>2. CASE sid[n] = NoId
  <2>1. nextId \in Id /\ nextId' = nextId + 1
    BY <1>2, ConstAssumption DEF Upsert, TypeOK, Id
  <2>2. Rows' = Rows \cup {nextId}
    BY <1>2, <2>1 DEF Upsert, Rows, TypeOK, Id, NoId
  <2>3. \A g \in granted : g.id # nextId
    BY <2>1 DEF IdsInOrder, TypeOK, Credential, Id
  <2>4. LeaseIsNewestGrant' /\ GrantsAreUnique' /\ DeletedLeavesNoRecord' /\ RecordedBundleExists'
    BY <1>2, <2>2, <2>3 DEF Upsert, LeaseIsNewestGrant, GrantsAreUnique,
       DeletedLeavesNoRecord, RecordedBundleExists
  <2>5. IdsInOrder'
    <3>1. UNCHANGED <<req, granted>>
      BY <1>2 DEF Upsert
    <3>2. \A i \in Rows : i \in Id
      BY DEF Rows, TypeOK, NoId
    <3>3. \A r \in Req : req[r] # Idle => req[r].id \in Id
      BY DEF TypeOK, Pending
    <3>4. nextId \in Int /\ \A i \in Id : i \in Int
      BY <2>1 DEF Id
    <3>5. \A g \in granted : g.id \in Id
      BY DEF TypeOK, Credential
    <3>6. \A i \in Id : i < nextId => i < nextId'
      BY <2>1, <3>4
    <3>7. ASSUME NEW i \in Rows' PROVE i < nextId'
      <4>1. CASE i = nextId
        BY <2>1, <3>4, <4>1
      <4>2. CASE i \in Rows
        BY <3>2, <3>6, <4>2 DEF IdsInOrder
      <4>3. QED
        BY <2>2, <4>1, <4>2
    <3>8. \A g \in granted' : g.id < nextId'
      BY <3>1, <3>5, <3>6 DEF IdsInOrder
    <3>9. \A r \in Req : req'[r] # Idle => req'[r].id < nextId'
      BY <3>1, <3>3, <3>6 DEF IdsInOrder
    <3>10. QED
      BY <3>7, <3>8, <3>9 DEF IdsInOrder
  <2>6. StepsAccountedFor'
    <3>0. UNCHANGED <<req, object>>
      BY <1>2 DEF Upsert
    <3>1. \A r \in Req : At(r, "upload", "publish") \/ At(r, "delete", "object")
                         => req[r].id # nextId
      BY <2>1 DEF IdsInOrder, At, TypeOK, Pending, Idle, Id
    <3>2. QED
      BY <2>2, <3>0, <3>1 DEF StepsAccountedFor, At
  <2>7. QED
    BY <2>4, <2>5, <2>6
<1>3. QED
  BY <1>1, <1>2

LEMMA ResolveIInv ==
    ASSUME IInv, TypeOK', NEW r \in Req, NEW op, NEW n \in Name, NEW m, NEW f, NEW b,
           op = "upload" => b \in Body,
           Resolve(r, op, n, m, f, b)
    PROVE  IInv'
<1> USE DEF IInv
<1>1. UNCHANGED <<sid, nextId, recorded, lease, object, granted>> /\ Rows' = Rows
  BY DEF Resolve, Rows
<1>2. LeaseIsNewestGrant' /\ GrantsAreUnique' /\ DeletedLeavesNoRecord' /\ RecordedBundleExists'
  BY <1>1 DEF LeaseIsNewestGrant, GrantsAreUnique, DeletedLeavesNoRecord, RecordedBundleExists
<1>3. sid[n] # NoId => sid[n] \in Rows
  BY DEF Rows
<1>4. IdsInOrder'
  BY <1>1, <1>3 DEF Resolve, IdsInOrder, TypeOK
<1>5. StepsAccountedFor'
  BY <1>1 DEF Resolve, StepsAccountedFor, At, TypeOK
<1>6. QED
  BY <1>2, <1>4, <1>5

LEMMA GrantIInv ==
    ASSUME IInv, TypeOK', NEW r \in Req, req[r] \in Pending, Grant(r)
    PROVE  IInv'
<1> USE DEF IInv
<1> DEFINE i == req[r].id
           f == lease[i].fence + 1
           g == [name |-> req[r].name, id |-> i, holder |-> req[r].holder, fence |-> f]
<1>1. /\ i \in Id /\ i \in Rows /\ f \in Nat /\ f # 0 /\ Rows' = Rows
      /\ lease' = [lease EXCEPT ![i] =
                     [holder |-> req[r].holder, fence |-> f, expires |-> req[r].expires]]
      /\ granted' = granted \cup {g}
      /\ UNCHANGED <<sid, nextId, recorded, object>>
  BY DEF Grant, NextFence, Rows, Pending, TypeOK, LeaseRow
<1>2. \A h \in granted : h.id = i => h.fence < f
  BY <1>1 DEF LeaseIsNewestGrant, TypeOK, LeaseRow, Credential
<1>3. lease'[i].fence = f /\ lease'[i].holder = req[r].holder
  BY <1>1 DEF TypeOK
<1>4. LeaseIsNewestGrant'
  <2>1. ASSUME NEW j \in Id, j # i, lease'[j].fence # 0
        PROVE  \E h \in granted' : h.id = j /\ h.holder = lease'[j].holder
                                   /\ h.fence = lease'[j].fence
    BY <1>1, <2>1 DEF LeaseIsNewestGrant, TypeOK
  <2>2. g \in granted' /\ g.id = i /\ g.holder = lease'[i].holder /\ g.fence = lease'[i].fence
    BY <1>1, <1>3
  <2>3. ASSUME NEW j \in Id, j \in Rows', NEW h \in granted', h.id = j
        PROVE  h.fence <= lease'[j].fence
    BY <1>1, <1>2, <1>3, <2>3 DEF LeaseIsNewestGrant, TypeOK, Credential, LeaseRow
  <2>4. QED
    BY <2>1, <2>2, <2>3 DEF LeaseIsNewestGrant
<1>5. GrantsAreUnique'
  BY <1>1, <1>2 DEF GrantsAreUnique, TypeOK, Credential
<1>6. DeletedLeavesNoRecord' /\ RecordedBundleExists'
  BY <1>1 DEF DeletedLeavesNoRecord, RecordedBundleExists, TypeOK
<1>7. IdsInOrder'
  BY <1>1 DEF Grant, Answer, IdsInOrder, TypeOK, Idle
<1>8. StepsAccountedFor'
  BY <1>1, NoOpAssumption DEF Grant, Answer, StepsAccountedFor, At, TypeOK, Idle, Ops, CredOps
<1>9. QED
  BY <1>4, <1>5, <1>6, <1>7, <1>8

\* Renewing and releasing rewrite expires_at only.
LEMMA RenewIInv ==
    ASSUME IInv, TypeOK', NEW r \in Req, Answer(r),
           UNCHANGED <<sid, nextId, recorded, object, granted>>,
           \A i \in Id : /\ lease'[i].fence = lease[i].fence
                         /\ lease'[i].holder = lease[i].holder
    PROVE  IInv'
<1> USE DEF IInv
<1>1. Rows' = Rows
  BY DEF Rows
<1>2. LeaseIsNewestGrant' /\ GrantsAreUnique' /\ DeletedLeavesNoRecord' /\ RecordedBundleExists'
  BY <1>1 DEF LeaseIsNewestGrant, GrantsAreUnique, DeletedLeavesNoRecord, RecordedBundleExists
<1>3. IdsInOrder'
  BY <1>1 DEF IdsInOrder, Answer, TypeOK
<1>4. StepsAccountedFor'
  BY <1>1, NoOpAssumption DEF StepsAccountedFor, Answer, At, TypeOK, Idle, Ops, CredOps
<1>5. QED
  BY <1>2, <1>3, <1>4

LEMMA LeaseStepIInv ==
    ASSUME IInv, TypeOK', NEW r \in Req, LeaseStep(r)
    PROVE  IInv'
<1>1. TypeOK /\ req[r] \in Pending
  BY InFlight DEF IInv, LeaseStep, Acquire, AcquireRefused, Takeover, Heartbeat, Release, At
<1>2. CASE Acquire(r) \/ Takeover(r)
  BY <1>1, <1>2, GrantIInv DEF Acquire, Takeover
<1>3. CASE AcquireRefused(r)
  BY <1>3, QuietStep DEF AcquireRefused
<1>4. CASE Heartbeat(r)
  BY <1>1, <1>4, RenewIInv DEF Heartbeat, TypeOK, LeaseRow
<1>5. CASE Release(r)
  BY <1>1, <1>5, RenewIInv DEF Release, Released, TypeOK, LeaseRow
<1>6. QED
  BY <1>2, <1>3, <1>4, <1>5 DEF LeaseStep

LEMMA BundleStepIInv ==
    ASSUME IInv, TypeOK', NEW r \in Req, BundleStep(r)
    PROVE  IInv'
<1> USE DEF IInv
<1>1. TypeOK /\ req[r] \in Pending /\ req[r] # Idle
  BY InFlight DEF BundleStep, UploadGate, UploadPut, UploadFails, Publish, PublishRefused,
     DeleteRow, DeleteRefused, DeleteObject, DownloadKey, DownloadObject, At, Idle
<1>2. CASE UploadGate(r) \/ UploadFails(r) \/ PublishRefused(r) \/ DeleteRefused(r)
           \/ DownloadKey(r) \/ DownloadObject(r)
  BY <1>1, <1>2, QuietStep DEF UploadGate, UploadFails, PublishRefused, DeleteRefused,
     DownloadKey, DownloadObject, AfterGate, At
<1>3. CASE UploadPut(r)
  <2> DEFINE i == req[r].id
  <2>1. req[r].body \in Body /\ i \in Id /\ req[r].op = "upload"
    BY <1>1, <1>3 DEF UploadPut, At, StepsAccountedFor, Pending
  <2>2. /\ object' = [object EXCEPT ![i] = req[r].body]
        /\ req' = [req EXCEPT ![r].pc = "publish"]
        /\ UNCHANGED <<sid, nextId, recorded, lease, granted>> /\ Rows' = Rows
    BY <1>3 DEF UploadPut, Advance, Rows
  <2>3. \A j \in Id : object'[j] = object[j] \/ object'[j] # NoBody
    BY <2>1, <2>2, ConstAssumption DEF TypeOK
  <2>4. object'[i] # NoBody
    BY <2>1, <2>2, ConstAssumption DEF TypeOK
  <2>5. LeaseIsNewestGrant' /\ GrantsAreUnique' /\ DeletedLeavesNoRecord' /\ RecordedBundleExists'
    BY <2>2, <2>3 DEF LeaseIsNewestGrant, GrantsAreUnique, DeletedLeavesNoRecord,
       RecordedBundleExists
  <2>6. IdsInOrder'
    BY <1>1, <2>2 DEF IdsInOrder, TypeOK, Pending
  <2>7. StepsAccountedFor'
    <3>1. req'[r].id = i /\ req'[r].op = "upload" /\ req'[r].body = req[r].body
      BY <1>1, <2>1, <2>2 DEF TypeOK, Pending
    <3>2. \A q \in Req : q # r => req'[q] = req[q]
      BY <2>2 DEF TypeOK
    <3>3. \A q \in Req : req[q] # Idle => req[q].id \in Id
      BY DEF TypeOK, Pending
    <3>4. \A q \in Req : At(q, "upload", "publish") => req[q] # Idle
      BY DEF At, Idle
    <3>5. QED
      BY <2>1, <2>2, <2>3, <2>4, <3>1, <3>2, <3>3, <3>4 DEF StepsAccountedFor, At
  <2>8. QED
    BY <2>5, <2>6, <2>7
<1>4. CASE Publish(r)
  <2> DEFINE i == req[r].id
  <2>1. /\ i \in Id /\ i \in Rows /\ object[i] # NoBody
        /\ recorded' = [recorded EXCEPT ![i] = req[r].body]
        /\ UNCHANGED <<sid, nextId, lease, object, granted>> /\ Rows' = Rows
    BY <1>1, <1>4 DEF Publish, MayPublish, Rows, StepsAccountedFor, Pending
  <2>2. LeaseIsNewestGrant' /\ GrantsAreUnique' /\ DeletedLeavesNoRecord' /\ RecordedBundleExists'
    BY <2>1 DEF LeaseIsNewestGrant, GrantsAreUnique, DeletedLeavesNoRecord,
       RecordedBundleExists, TypeOK
  <2>3. IdsInOrder'
    BY <1>4, <2>1 DEF Publish, Answer, IdsInOrder, TypeOK
  <2>4. StepsAccountedFor'
    BY <1>4, <2>1, NoOpAssumption
       DEF Publish, Answer, StepsAccountedFor, At, TypeOK, Idle, Ops, CredOps
  <2>5. QED
    BY <2>2, <2>3, <2>4
<1>5. CASE DeleteRow(r)
  <2> DEFINE i == req[r].id
  <2>1. /\ i \in Id /\ i \in Rows /\ req[r].op = "delete"
        /\ lease' = [lease EXCEPT ![i] = NoLease(lease[i].holder)]
        /\ recorded' = [recorded EXCEPT ![i] = NoBody]
        /\ UNCHANGED <<nextId, object, granted>>
    BY <1>1, <1>5 DEF DeleteRow, Cascade, Pending, TypeOK, At
  <2>2. Rows' = Rows \ {i}
    BY <1>5 DEF DeleteRow, Rows, TypeOK
  <2>3. lease'[i].fence = 0 /\ recorded'[i] = NoBody
    BY <2>1 DEF TypeOK, NoLease
  <2>4. \A j \in Id : j # i => lease'[j] = lease[j] /\ recorded'[j] = recorded[j]
    BY <2>1 DEF TypeOK
  <2>5. LeaseIsNewestGrant' /\ GrantsAreUnique' /\ DeletedLeavesNoRecord' /\ RecordedBundleExists'
    BY <2>1, <2>2, <2>3, <2>4 DEF LeaseIsNewestGrant, GrantsAreUnique, DeletedLeavesNoRecord,
       RecordedBundleExists
  <2>6. \A q \in Req : q # r => req'[q] = req[q]
    BY <1>5 DEF DeleteRow, Answer, Advance, TypeOK
  <2>7. req'[r] = Idle \/ (req'[r].op = "delete" /\ req'[r].id = i)
    BY <1>1, <1>5, <2>1 DEF DeleteRow, Answer, Advance, TypeOK, Pending
  <2>8. IdsInOrder'
    BY <1>1, <2>1, <2>2, <2>6, <2>7 DEF IdsInOrder
  <2>9. StepsAccountedFor'
    BY <2>1, <2>2, <2>6, <2>7, NoOpAssumption
       DEF StepsAccountedFor, At, Idle, Ops, CredOps
  <2>10. QED
    BY <2>5, <2>8, <2>9
<1>6. CASE DeleteObject(r)
  <2> DEFINE i == req[r].id
  <2>1. /\ i \in Id /\ i \notin Rows
        /\ object' = [object EXCEPT ![i] = NoBody]
        /\ UNCHANGED <<sid, nextId, recorded, lease, granted>> /\ Rows' = Rows
    BY <1>1, <1>6 DEF DeleteObject, Rows, StepsAccountedFor, Pending
  <2>2. \A j \in Id : j # i => object'[j] = object[j]
    BY <2>1 DEF TypeOK
  <2>3. LeaseIsNewestGrant' /\ GrantsAreUnique' /\ DeletedLeavesNoRecord' /\ RecordedBundleExists'
    BY <2>1, <2>2 DEF LeaseIsNewestGrant, GrantsAreUnique, DeletedLeavesNoRecord,
       RecordedBundleExists
  <2>4. IdsInOrder'
    BY <1>6, <2>1 DEF DeleteObject, Answer, IdsInOrder, TypeOK
  <2>5. \A q \in Req : req'[q] = Idle \/ req'[q] = req[q]
    BY <1>6 DEF DeleteObject, Answer, TypeOK
  <2>6. \A q \in Req : At(q, "upload", "publish") => req[q].id \in Id
    BY InFlight DEF At, Pending
  <2>7. StepsAccountedFor'
    BY <2>1, <2>2, <2>5, <2>6, NoOpAssumption
       DEF StepsAccountedFor, At, Idle, Ops, CredOps
  <2>8. QED
    BY <2>3, <2>4, <2>7
<1>7. QED
  BY <1>2, <1>3, <1>4, <1>5, <1>6 DEF BundleStep

LEMMA IInvStep == IInv /\ [Next]_vars => IInv'
<1> SUFFICES ASSUME IInv, [Next]_vars PROVE IInv'
  OBVIOUS
<1>0. TypeOK /\ TypeOK'
  BY TypeStep DEF IInv
<1>1. ASSUME NEW n \in Name, Upsert(n) PROVE IInv'
  BY <1>0, <1>1, UpsertIInv
<1>2. ASSUME NEW r \in Req, NEW n \in Name, Begin(r, n) PROVE IInv'
  <2>1. "upload" \notin HolderOps /\ "upload" \notin CredOps \ {"upload"}
    BY DEF HolderOps, CredOps
  <2>2. CASE \/ \E op \in HolderOps, m \in Machine : Resolve(r, op, n, m, 0, NoBody)
             \/ Resolve(r, "download", n, Nobody, 0, NoBody)
    BY <1>0, <2>1, <2>2, ResolveIInv
  <2>3. ASSUME NEW c \in granted,
               \/ \E op \in CredOps \ {"upload"} :
                     Resolve(r, op, n, c.holder, c.fence, NoBody)
               \/ \E b \in Body : Resolve(r, "upload", n, c.holder, c.fence, b)
        PROVE  IInv'
    BY <1>0, <2>1, <2>3, ResolveIInv
  <2>4. QED
    BY <1>2, <2>2, <2>3 DEF Begin
<1>3. ASSUME NEW r \in Req, LeaseStep(r) \/ BundleStep(r) PROVE IInv'
  BY <1>0, <1>3, LeaseStepIInv, BundleStepIInv
<1>4. ASSUME NEW r \in Req, Drop(r) PROVE IInv'
  BY <1>0, <1>4, QuietStep DEF Drop
<1>5. CASE Tick \/ UNCHANGED vars
  <2>1. UNCHANGED <<sid, nextId, recorded, lease, object, req, granted>> /\ Rows' = Rows
    BY <1>5 DEF Tick, vars, Rows
  <2>2. QED
    BY <1>0, <2>1 DEF IInv, LeaseIsNewestGrant, GrantsAreUnique, DeletedLeavesNoRecord,
       RecordedBundleExists, IdsInOrder, StepsAccountedFor, At
<1>6. QED
  BY <1>1, <1>2, <1>3, <1>4, <1>5 DEF Next

LEMMA Invariance == Spec => []IInv
  BY InitIInv, IInvStep, PTL DEF Spec

\* The lease row of a session is its newest grant, whatever was released, had
\* expired or was taken over.
THEOREM NewestGrant == Spec => []LeaseIsNewestGrant
<1>1. IInv => LeaseIsNewestGrant
  BY DEF IInv
<1>2. QED
  BY <1>1, Invariance, PTL

\* No two grants on a session share a fence.
THEOREM UniqueGrants == Spec => []GrantsAreUnique
<1>1. IInv => GrantsAreUnique
  BY DEF IInv
<1>2. QED
  BY <1>1, Invariance, PTL

\* Nothing is recorded for a deleted session, however late a request that had
\* resolved its name comes in.
THEOREM DeletedStaysDeleted == Spec => []DeletedLeavesNoRecord
<1>1. IInv => DeletedLeavesNoRecord
  BY DEF IInv
<1>2. QED
  BY <1>1, Invariance, PTL

\* The index never names an object the store does not hold.
THEOREM NoDanglingBundle == Spec => []RecordedBundleExists
<1>1. IInv => RecordedBundleExists
  BY DEF IInv
<1>2. QED
  BY <1>1, Invariance, PTL

\* A credential that was superseded can do nothing any more.
THEOREM Fencing == Spec => SupersededNeverActs
<1>1. ASSUME IInv, NEW r \in Req,
             Publish(r) \/ ((Heartbeat(r) \/ Release(r)) /\ lease' # lease)
      PROVE  \A g \in granted : g.id = req[r].id => g.fence <= req[r].fence
  <2>1. req[r] \in Pending
    BY <1>1, InFlight DEF IInv, Publish, Heartbeat, Release, At
  <2>2. /\ lease[req[r].id].fence # 0
        /\ lease[req[r].id].fence = req[r].fence
    BY <1>1 DEF Publish, MayPublish, Heartbeat, Release, Held, Matches
  <2>3. req[r].id \in Id /\ req[r].id \in Rows
    BY <1>1, <2>1, <2>2 DEF IInv, DeletedLeavesNoRecord, Pending
  <2>4. QED
    BY <1>1, <2>2, <2>3 DEF IInv, LeaseIsNewestGrant
<1>2. IInv => [\A r \in Req :
                 \/ Publish(r)
                 \/ (Heartbeat(r) \/ Release(r)) /\ lease' # lease
                 => \A g \in granted : g.id = req[r].id => g.fence <= req[r].fence]_vars
  BY <1>1
<1>3. QED
  BY <1>2, Invariance, PTL DEF SupersededNeverActs

-------------------------------------------------------------------------------
(* Live leases *)

\* What a step may do to a lease that stands.
LEMMA LiveLeaseStep ==
    ASSUME IInv, Next, NEW i \in Id, Live(i),
           lease'[i].holder # lease[i].holder \/ lease'[i].fence = 0
    PROVE  \E r \in Req : /\ req[r].op \in {"takeover", "delete"}
                          /\ req[r].id = i
                          /\ req[r].op = "delete" => req[r].holder = lease[i].holder
<1>1. lease' # lease
  BY DEF Live
<1>2. PICK r \in Req : LeaseStep(r) \/ BundleStep(r)
  BY <1>1 DEF Next, Upsert, Begin, Resolve, Drop, Tick
<1>3. req[r] \in Pending /\ req[r].id \in Id
  <2>1. req[r].pc # "idle"
    BY <1>2 DEF LeaseStep, Acquire, AcquireRefused, Takeover, Heartbeat, Release,
       BundleStep, UploadGate, UploadPut, UploadFails, Publish, PublishRefused,
       DeleteRow, DeleteRefused, DeleteObject, DownloadKey, DownloadObject, At
  <2>2. QED
    BY <2>1, InFlight DEF IInv, Pending
<1>4. CASE Acquire(r) \/ Takeover(r)
  <2> DEFINE f == NextFence(lease[req[r].id])
  <2>1. /\ lease' = [lease EXCEPT ![req[r].id] =
                       [holder |-> req[r].holder, fence |-> f, expires |-> req[r].expires]]
        /\ f # 0
    BY <1>3, <1>4 DEF Acquire, Takeover, Grant, NextFence, IInv, TypeOK, LeaseRow
  <2> HIDE DEF f
  <2>2. req[r].id = i /\ req[r].holder # lease[i].holder
    BY <1>3, <2>1 DEF IInv, TypeOK, Live
  <2>3. ~MayAcquire(r)
    BY <2>2 DEF MayAcquire, Live, IInv, TypeOK, LeaseRow, Time
  <2>4. req[r].op = "takeover"
    BY <1>4, <2>3 DEF Acquire, Takeover, At
  <2>5. QED
    BY <2>2, <2>4
<1>5. CASE Heartbeat(r) \/ Release(r)
  <2>1. \A j \in Id : lease'[j].fence = lease[j].fence /\ lease'[j].holder = lease[j].holder
    <3>1. CASE Heartbeat(r)
      BY <1>3, <3>1 DEF Heartbeat, IInv, TypeOK, LeaseRow
    <3>2. CASE Release(r)
      BY <1>3, <3>2 DEF Release, Released, IInv, TypeOK, LeaseRow
    <3>3. QED
      BY <1>5, <3>1, <3>2
  <2>2. QED
    BY <2>1 DEF Live
<1>6. CASE DeleteRow(r)
  <2>1. req[r].op = "delete" /\ lease' = [lease EXCEPT ![req[r].id] = Cascade(@)] /\ ~HeldByOther(r)
    BY <1>6 DEF DeleteRow, At
  <2>2. req[r].id = i
    BY <1>3, <2>1 DEF IInv, TypeOK, Live
  <2>3. req[r].holder = lease[i].holder
    BY <2>1, <2>2 DEF HeldByOther, Live
  <2>4. QED
    BY <2>1, <2>2, <2>3
<1>7. QED
  BY <1>1, <1>2, <1>4, <1>5, <1>6 DEF LeaseStep, AcquireRefused, BundleStep,
     UploadGate, UploadPut, UploadFails, Publish, PublishRefused,
     DeleteRefused, DeleteObject, DownloadKey, DownloadObject

\* A live lease passes on only by a takeover, or with the holder's own deletion.
THEOREM LiveLeaseStays == Spec => LiveLeaseIsKept
<1>1. IInv /\ [Next]_vars =>
        [\A i \in Id :
           Live(i) /\ (lease'[i].holder # lease[i].holder \/ lease'[i].fence = 0)
           => \E r \in Req :
                /\ req[r].op \in {"takeover", "delete"}
                /\ req[r].id = i
                /\ req[r].op = "delete" => req[r].holder = lease[i].holder]_vars
  BY LiveLeaseStep
<1>2. QED
  BY <1>1, Invariance, PTL DEF Spec, LiveLeaseIsKept

-------------------------------------------------------------------------------
(* The server implements the abstract sessions *)

\* Nothing but time and requests in flight moves, or a lease's term changes: some holds lapse.
LEMMA LapseStep ==
    ASSUME UNCHANGED <<sid, nextId, recorded>>,
           \A i \in Id : /\ lease'[i].fence = lease[i].fence
                         /\ lease'[i].holder = lease[i].holder
                         /\ Live(i)' => Live(i)
    PROVE  [Sessions!Next]_(Sessions!sessionVars)
<1> DEFINE S == {i \in Id : ~Live(i)'}
<1>1. Rows' = Rows
  BY DEF Rows
<1>2. [i \in Id |-> Live(i)]' = [i \in Id |-> [j \in Id |-> Live(j)][i] /\ i \notin S]
  <2>1. ASSUME NEW i \in Id PROVE Live(i)' = ([j \in Id |-> Live(j)][i] /\ i \notin S)
    <3>1. Live(i)' <=> Live(i) /\ i \notin S
      OBVIOUS
    <3>2. [j \in Id |-> Live(j)][i] = Live(i)
      OBVIOUS
    <3>3. Live(i)' \in BOOLEAN /\ Live(i) \in BOOLEAN
      BY DEF Live
    <3> HIDE DEF S
    <3>4. QED
      BY <3>1, <3>2, <3>3
  <2> HIDE DEF S
  <2>2. QED
    BY <2>1, Zenon
<1>3. Sessions!Lapse(S)
  BY <1>1, <1>2 DEF Sessions!Lapse
<1>4. S \in SUBSET Id
  OBVIOUS
<1>5. QED
  BY <1>3, <1>4 DEF Sessions!Next

\* The row of a new session: it is opened.
LEMMA OpenStep ==
    ASSUME IInv, NEW n \in Name, Upsert(n)
    PROVE  [Sessions!Next]_(Sessions!sessionVars)
<1>1. CASE sid[n] # NoId
  BY <1>1, LapseStep DEF Upsert, Live
<1>2. CASE sid[n] = NoId
  <2>1. nextId \in Id /\ nextId' = nextId + 1 /\ UNCHANGED <<now, recorded, lease>>
    BY <1>2, ConstAssumption DEF Upsert, IInv, TypeOK, Id
  <2>2. Rows' = Rows \cup {nextId}
    BY <1>2, <2>1 DEF Upsert, Rows, IInv, TypeOK, Id, NoId
  <2>3. ASSUME NEW i \in Id
        PROVE  (IF i >= nextId' THEN "new" ELSE IF i \in Rows' THEN "open" ELSE "closed")
                = IF i = nextId THEN "open"
                  ELSE IF i >= nextId THEN "new" ELSE IF i \in Rows THEN "open" ELSE "closed"
    BY <2>1, <2>2 DEF Id
  <2>4. [i \in Id |-> IF i >= nextId THEN "new" ELSE IF i \in Rows THEN "open" ELSE "closed"]'
          = [[i \in Id |-> IF i >= nextId THEN "new" ELSE IF i \in Rows THEN "open" ELSE "closed"]
               EXCEPT ![nextId] = "open"]
    BY <2>1, <2>3
  <2>5. PICK i \in Id : i = nextId
    BY <2>1
  <2>6. Sessions!Open(i)
    <3>1. i >= nextId
      BY <2>1, <2>5 DEF Id
    <3>2. QED
      BY <2>1, <2>4, <2>5, <3>1 DEF Sessions!Open, Live
  <2>7. QED
    BY <2>6 DEF Sessions!Next
<1>3. QED
  BY <1>1, <1>2

\* acquire's or takeover's row: a new hold.
LEMMA HoldStep ==
    ASSUME IInv, NEW r \in Req, req[r] \in Pending,
           NEW i \in Id, i = req[r].id, NEW m \in Machine, m = req[r].holder, Grant(r)
    PROVE  [Sessions!Next]_(Sessions!sessionVars)
<1>1. /\ i \in Rows /\ ~(i >= nextId)
      /\ UNCHANGED <<now, sid, nextId, recorded>>
      /\ lease' = [lease EXCEPT ![i] =
                     [holder |-> m, fence |-> lease[i].fence + 1, expires |-> req[r].expires]]
  BY DEF Grant, NextFence, IInv, IdsInOrder, TypeOK, Pending, Id
<1>2. Rows' = Rows
  BY <1>1 DEF Rows
<1>3. /\ lease'[i].fence = lease[i].fence + 1 /\ lease'[i].holder = m
      /\ \A j \in Id \ {i} : lease'[j] = lease[j]
  BY <1>1 DEF IInv, TypeOK
<1>4. [j \in Id |-> lease[j].fence]' = [[j \in Id |-> lease[j].fence] EXCEPT ![i] = @ + 1]
  BY <1>1, <1>3
<1>5. [j \in Id |-> lease[j].holder]' = [[j \in Id |-> lease[j].holder] EXCEPT ![i] = m]
  <2>1. \A j \in Id : lease'[j].holder = IF j = i THEN m ELSE lease[j].holder
    BY <1>3
  <2>2. QED
    BY <2>1
<1>6. [j \in Id |-> Live(j)]' = [[j \in Id |-> Live(j)] EXCEPT ![i] = Live(i)']
  <2>1. ASSUME NEW j \in Id \ {i} PROVE Live(j)' = Live(j)
    BY <1>1, <1>3 DEF Live
  <2>2. QED
    BY <1>1, <2>1
<1>7. Live(i)' \in BOOLEAN
  BY DEF Live
<1>8. Sessions!Hold(i, m)
  BY <1>1, <1>2, <1>4, <1>5, <1>6, <1>7 DEF Sessions!Hold
<1>9. QED
  BY <1>1, <1>8 DEF Sessions!Next

\* The fenced metadata write: the value changes under a hold.
LEMMA RecordStep ==
    ASSUME IInv, NEW r \in Req, req[r] \in Pending,
           NEW i \in Id, i = req[r].id, NEW b \in Body, b = req[r].body, Publish(r)
    PROVE  [Sessions!Next]_(Sessions!sessionVars)
<1>1. /\ Live(i)
      /\ UNCHANGED <<now, sid, nextId, lease>>
      /\ recorded' = [recorded EXCEPT ![i] = b]
  BY DEF Publish, MayPublish, Held, Live, At, IInv, StepsAccountedFor, Pending
<1>2. Rows' = Rows /\ \A j \in Id : Live(j)' = Live(j)
  BY <1>1 DEF Rows, Live
<1>3. [j \in Id |-> Live(j)]' = [j \in Id |-> Live(j)]
  BY <1>2
<1>4. [j \in Id |-> Live(j)][i]
  BY <1>1
<1>5. Sessions!Record(i, b)
  BY <1>1, <1>2, <1>3, <1>4 DEF Sessions!Record
<1>6. QED
  BY <1>1, <1>5 DEF Sessions!Next

\* The row goes, and with it the lease and the record.
LEMMA CloseStep ==
    ASSUME IInv, NEW r \in Req, req[r] \in Pending,
           NEW i \in Id, i = req[r].id, NEW m \in Machine, m = req[r].holder, DeleteRow(r)
    PROVE  [Sessions!Next]_(Sessions!sessionVars)
<1>1. /\ i \in Rows /\ ~(i >= nextId) /\ ~HeldByOther(r)
      /\ UNCHANGED <<now, nextId>>
      /\ sid' = [n \in Name |-> IF sid[n] = i THEN NoId ELSE sid[n]]
      /\ lease' = [lease EXCEPT ![i] = [holder |-> lease[i].holder, fence |-> 0, expires |-> 0]]
      /\ recorded' = [recorded EXCEPT ![i] = NoBody]
  BY DEF DeleteRow, Cascade, NoLease, IInv, IdsInOrder, TypeOK, Pending, Id
<1>2. Live(i) => lease[i].holder = m
  BY <1>1 DEF HeldByOther, Live
<1>3. Rows' = Rows \ {i}
  BY <1>1 DEF Rows, IInv, TypeOK
<1>4. /\ lease'[i].fence = 0 /\ lease'[i].holder = lease[i].holder /\ ~Live(i)'
      /\ \A j \in Id \ {i} : lease'[j] = lease[j] /\ Live(j)' = Live(j)
  BY <1>1 DEF IInv, TypeOK, Live
<1>5. [j \in Id |-> IF j >= nextId THEN "new" ELSE IF j \in Rows THEN "open" ELSE "closed"]'
        = [[j \in Id |-> IF j >= nextId THEN "new" ELSE IF j \in Rows THEN "open" ELSE "closed"]
             EXCEPT ![i] = "closed"]
  BY <1>1, <1>3
<1>6. [j \in Id |-> lease[j].fence]' = [[j \in Id |-> lease[j].fence] EXCEPT ![i] = 0]
  <2>1. \A j \in Id : lease'[j].fence = IF j = i THEN 0 ELSE lease[j].fence
    BY <1>4
  <2>2. QED
    BY <2>1
<1>7. [j \in Id |-> lease[j].holder]' = [j \in Id |-> lease[j].holder]
  BY <1>1, <1>4
<1>8. [j \in Id |-> Live(j)]' = [[j \in Id |-> Live(j)] EXCEPT ![i] = FALSE]
  <2>1. Live(i)' = FALSE
    BY <1>4 DEF Live
  <2>2. QED
    BY <1>1, <1>4, <2>1
<1>9. [j \in Id |-> Live(j)][i] => [j \in Id |-> lease[j].holder][i] = m
  BY <1>1, <1>2
<1>10. Sessions!Close(i, m)
  BY <1>1, <1>5, <1>6, <1>7, <1>8, <1>9 DEF Sessions!Close
<1>11. QED
  BY <1>1, <1>10 DEF Sessions!Next

LEMMA SessionsStep ==
    ASSUME IInv, [Next]_vars
    PROVE  [Sessions!Next]_(Sessions!sessionVars)
<1>1. ASSUME UNCHANGED <<sid, nextId, recorded, lease>>, now' >= now, now \in Int, now' \in Int
      PROVE  [Sessions!Next]_(Sessions!sessionVars)
  <2>1. \A i \in Id : lease[i].expires \in Int
    BY ConstAssumption DEF IInv, TypeOK, LeaseRow, Time
  <2>2. \A i \in Id : Live(i)' => Live(i)
    BY <1>1, <2>1 DEF Live
  <2>3. QED
    BY <1>1, <2>2, LapseStep
<1>2. now \in Int /\ (now' = now => now' >= now)
  BY DEF IInv, TypeOK
<1>3. ASSUME NEW n \in Name, Upsert(n)
      PROVE  [Sessions!Next]_(Sessions!sessionVars)
  BY <1>3, OpenStep
<1>4. ASSUME NEW r \in Req, LeaseStep(r) \/ BundleStep(r)
      PROVE  [Sessions!Next]_(Sessions!sessionVars)
  <2>1. req[r] \in Pending
    <3>1. req[r].pc # "idle"
      BY <1>4 DEF LeaseStep, Acquire, AcquireRefused, Takeover, Heartbeat, Release,
         BundleStep, UploadGate, UploadPut, UploadFails, Publish, PublishRefused,
         DeleteRow, DeleteRefused, DeleteObject, DownloadKey, DownloadObject, At
    <3>2. QED
      BY <3>1, InFlight DEF IInv
  <2> PICK i \in Id, m \in Machine : i = req[r].id /\ m = req[r].holder
    BY <2>1 DEF Pending
  <2>2. CASE Acquire(r) \/ Takeover(r)
    BY <2>1, <2>2, HoldStep DEF Acquire, Takeover
  <2>3. CASE Publish(r)
    <3>1. req[r].body \in Body
      BY <2>3 DEF Publish, At, IInv, StepsAccountedFor
    <3>2. QED
      BY <2>1, <2>3, <3>1, RecordStep
  <2>4. CASE DeleteRow(r)
    BY <2>1, <2>4, CloseStep
  <2>5. CASE Heartbeat(r)
    <3>1. lease \in [Id -> LeaseRow] /\ UNCHANGED <<now, sid, nextId, recorded>>
      BY <2>1, <2>5 DEF Heartbeat, IInv, TypeOK
    <3>2. CASE Held(r)
      <4>1. lease' = [lease EXCEPT ![i].expires = req[r].expires] /\ Live(i)
        BY <2>5, <3>2 DEF Heartbeat, Held, Live
      <4>2. \A j \in Id : /\ lease'[j].fence = lease[j].fence
                          /\ lease'[j].holder = lease[j].holder
                          /\ j # i => lease'[j] = lease[j]
        BY <3>1, <4>1 DEF LeaseRow
      <4>3. \A j \in Id : Live(j)' => Live(j)
        BY <3>1, <4>1, <4>2 DEF Live
      <4>4. QED
        BY <3>1, <4>2, <4>3, LapseStep
    <3>3. CASE ~Held(r)
      BY <1>1, <1>2, <2>5, <3>3 DEF Heartbeat
    <3>4. QED
      BY <3>2, <3>3
  <2>6. CASE Release(r)
    <3>1. lease \in [Id -> LeaseRow] /\ UNCHANGED <<now, sid, nextId, recorded>>
      BY <2>1, <2>6 DEF Release, IInv, TypeOK
    <3>2. CASE Matches(r)
      <4>1. lease' = [lease EXCEPT ![i].expires = 0]
        BY <2>6, <3>1, <3>2 DEF Release, Released, LeaseRow
      <4>2. \A j \in Id : /\ lease'[j].fence = lease[j].fence
                          /\ lease'[j].holder = lease[j].holder
                          /\ j # i => lease'[j] = lease[j]
        BY <3>1, <4>1 DEF LeaseRow
      <4>3. ~Live(i)'
        <5>1. lease'[i].expires = 0 /\ now > 0 /\ now \in Int
          BY <3>1, <4>1 DEF LeaseRow, IInv, TypeOK
        <5>2. QED
          BY <3>1, <5>1 DEF Live
      <4>4. \A j \in Id : Live(j)' => Live(j)
        BY <3>1, <4>2, <4>3 DEF Live
      <4>5. QED
        BY <3>1, <4>2, <4>4, LapseStep
    <3>3. CASE ~Matches(r)
      BY <1>1, <1>2, <2>6, <3>3 DEF Release
    <3>4. QED
      BY <3>2, <3>3
  <2>7. CASE UNCHANGED <<now, sid, nextId, recorded, lease>>
    BY <1>1, <1>2, <2>7
  <2>8. QED
    BY <1>4, <2>2, <2>3, <2>4, <2>5, <2>6, <2>7 DEF LeaseStep, AcquireRefused, BundleStep,
       UploadGate, UploadPut, UploadFails, PublishRefused,
       DeleteRefused, DeleteObject, DownloadKey, DownloadObject
<1>5. ASSUME NEW r \in Req, NEW n \in Name, Begin(r, n) \/ Drop(r)
      PROVE  [Sessions!Next]_(Sessions!sessionVars)
  <2>1. UNCHANGED <<now, sid, nextId, recorded, lease>>
    BY <1>5 DEF Begin, Resolve, Drop
  <2>2. QED
    BY <1>1, <1>2, <2>1
<1>6. ASSUME NEW r \in Req, Drop(r)
      PROVE  [Sessions!Next]_(Sessions!sessionVars)
  <2>1. UNCHANGED <<now, sid, nextId, recorded, lease>>
    BY <1>6 DEF Drop
  <2>2. QED
    BY <1>1, <1>2, <2>1
<1>7. CASE Tick
  BY <1>1, <1>2, <1>7 DEF Tick
<1>8. CASE UNCHANGED vars
  BY <1>1, <1>2, <1>8 DEF vars
<1>9. QED
  BY <1>3, <1>4, <1>5, <1>6, <1>7, <1>8 DEF Next

LEMMA SessionsInit == Init => Sessions!Init
<1> SUFFICES ASSUME Init PROVE Sessions!Init
  OBVIOUS
<1>1. \A i \in Id : /\ i >= nextId /\ lease[i].fence = 0 /\ ~Live(i)
                    /\ lease[i].holder \in Machine /\ recorded[i] = NoBody
  BY ConstAssumption DEF Init, NoLease, Nobody, Live, Id
<1>2. [i \in Id |-> Live(i)] = [i \in Id |-> FALSE]
  <2>1. \A i \in Id : Live(i) = FALSE
    BY <1>1 DEF Live
  <2>2. QED
    BY <2>1
<1>3. QED
  BY <1>1, <1>2 DEF Init, Sessions!Init

\* Every step of the server, with any number of requests in flight, is one of the
\* abstract sessions' or changes nothing of theirs.
THEOREM Implements == Spec => ImplementsSessions
<1>1. Init => Sessions!Init
  BY SessionsInit
<1>2. IInv /\ [Next]_vars => [Sessions!Next]_(Sessions!sessionVars)
  BY SessionsStep
<1>3. QED
  BY <1>1, <1>2, Invariance, PTL DEF Spec, ImplementsSessions, Sessions!Spec
===============================================================================
