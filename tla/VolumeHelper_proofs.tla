-------------------------- MODULE VolumeHelper_proofs --------------------------
(***************************************************************************)
(* Proofs about the privileged volume helper, for any projects, processes, *)
(* devices, files and number of injected failures; about the way a size    *)
(* takes from the command to the helper's mount, for any units, bounds and *)
(* block size; and about a volume's content on its way through a bundle.   *)
(***************************************************************************)
EXTENDS VolumeHelper, VolumeSizes, Bundle, SequenceTheorems, WellFoundedInduction, TLAPS

-------------------------------------------------------------------------------
(* Sizes: what the command accepts reaches the helper whole *)

\* Whole multiples: dividing and multiplying again gives the number back.
LEMMA WholeMultiple ==
    ASSUME NEW b \in Nat, NEW u \in Nat \ {0}, b % u = 0
    PROVE  b \div u \in Nat /\ (b \div u) * u = b
<1>1. b \div u \in Nat /\ b = u * (b \div u) + (b % u)
  BY SMT
<1>2. QED BY <1>1, SMT

\* A size that is written and read again is the same size (VolumeSize::as_str,
\* FromStr): the command rounds, and nemrd allocates exactly that.
THEOREM DisplayedIsParsed ==
    ASSUME NEW b \in Nat, b < Wide
    PROVE  Parse(Display(b)) = b
<1>1. CASE b >= GB /\ b % GB = 0
  <2>1. b \div GB \in Nat /\ (b \div GB) * GB = b
    BY <1>1, UnitsAssumption, WholeMultiple
  <2>2. Display(b) = [digits |-> b \div GB, unit |-> "GB"]
    BY <1>1 DEF Display
  <2>3. b \div GB <= b
    BY <2>1, UnitsAssumption, SMT
  <2>4. QED BY <2>1, <2>2, <2>3, BoundsAssumption, SMT DEF Parse, Unit
<1>2. CASE ~(b >= GB /\ b % GB = 0) /\ b >= MB /\ b % MB = 0
  <2>1. b \div MB \in Nat /\ (b \div MB) * MB = b
    BY <1>2, UnitsAssumption, WholeMultiple
  <2>2. Display(b) = [digits |-> b \div MB, unit |-> "MB"]
    BY <1>2 DEF Display
  <2>3. b \div MB <= b
    BY <2>1, UnitsAssumption, SMT
  <2>4. QED BY <2>1, <2>2, <2>3, BoundsAssumption, SMT DEF Parse, Unit
<1>3. CASE ~(b >= GB /\ b % GB = 0) /\ ~(b >= MB /\ b % MB = 0)
  <2>1. Display(b) = [digits |-> b, unit |-> "B"]
    BY <1>3 DEF Display
  <2>2. QED BY <2>1, BoundsAssumption, SMT DEF Parse, Unit
<1>4. QED BY <1>1, <1>2, <1>3

\* Rounding down to whole blocks never crosses a bound that is whole blocks.
LEMMA RoundKeepsBound ==
    ASSUME NEW b \in Nat, NEW low \in Nat, low % Block = 0, low <= b
    PROVE  Round(b) \in Nat /\ low <= Round(b) /\ Round(b) <= b
<1> DEFINE q == b \div Block
           m == low \div Block
<1>1. q \in Nat /\ b % Block \in 0..(Block - 1) /\ b = Block * q + (b % Block)
  BY BlockAssumption, SMT
<1>2. m \in Nat /\ low = m * Block
  BY BlockAssumption, WholeMultiple
<1>3. Round(b) = Block * q
  BY <1>1, BlockAssumption, SMT DEF Round
<1>4. m <= q
  <2>1. SUFFICES ASSUME q + 1 <= m PROVE FALSE
    BY <1>1, <1>2, SMT
  <2>2. (q + 1) * Block <= m * Block
    BY <2>1, <1>1, <1>2, BlockAssumption, SMT
  <2>3. (q + 1) * Block = Block * q + Block
    BY <1>1, BlockAssumption, SMT
  <2>4. QED BY <2>2, <2>3, <1>1, <1>2, BlockAssumption, SMT
<1>5. m * Block <= q * Block
  BY <1>4, <1>1, <1>2, BlockAssumption, SMT
<1>6. QED BY <1>1, <1>2, <1>3, <1>5, BlockAssumption, SMT

\* What the command does not refuse is mounted: the rounded size reaches the
\* helper as the length of the file, inside the helper's bounds, wherever the
\* smallest volume is a whole number of blocks (64 MiB and any ext4 or xfs).
THEOREM AcceptedIsMounted ==
    ASSUME NEW b \in Nat, NEW free \in Nat, Smallest % Block = 0,
           Resolve(b, free) # Refused
    PROVE  /\ Resolve(b, free) = Normalizes(b)
           /\ Mounts(Display(Resolve(b, free)))
           /\ Allocated(Display(Resolve(b, free))) <= free
<1>1. ~Refuses(b, free) /\ Resolve(b, free) = Round(b)
  BY DEF Resolve
<1>2. Smallest <= b /\ b <= Largest /\ b <= free
  BY <1>1, BoundsAssumption, SMT DEF Refuses
<1>3. Round(b) \in Nat /\ Smallest <= Round(b) /\ Round(b) <= b
  BY <1>2, BoundsAssumption, RoundKeepsBound
<1>4. Round(b) < Wide
  BY <1>2, <1>3, BoundsAssumption, SMT
<1>5. Parse(Display(Round(b))) = Round(b)
  BY <1>3, <1>4, DisplayedIsParsed
<1>6. Normalizes(b) = Round(b)
  BY <1>3, BoundsAssumption, SMT DEF Normalizes, Round
<1>7. Mounts(Display(Round(b)))
  BY <1>2, <1>3, <1>4, <1>5, BoundsAssumption, SMT
     DEF Mounts, Allocated, HelperAccepts, Refused
<1>8. Allocated(Display(Round(b))) <= free
  BY <1>2, <1>3, <1>5, SMT DEF Allocated
<1>9. QED BY <1>1, <1>6, <1>7, <1>8

-------------------------------------------------------------------------------
(* Bundles: the invariant *)

Exports == {"eIdentity", "ePackages", "ePlan", "eRead", "eCreate", "eWrite", "eChunks"}
Restores == {"iCheck", "iManifest", "iChunks", "iVerify", "iExtract"}
Transfers == Exports \cup Restores \cup {"aCopy"}

\* A request there leaves every project that exists alone.
Harmless == Exports \cup {"idle", "iCreate", "aCreate"}

Stores ==
    /\ rootfs \in [Project -> Chain \cup {NoChain}]
    /\ running \subseteq {n \in Project : rootfs[n] # NoChain}
    /\ volume \in [Project -> Content]

\* A manifest says what the project held, and of no credential.
Honest(m) ==
    /\ m \in Manifest /\ (m.calm => m.was = m.members)
    /\ \A f \in Credential : m.members[f] = 0

BundleInv1 ==
    /\ bundle \in [m : Manifest \cup {NoManifest}, chunks : Content]
    /\ bundle.m # NoManifest => Honest(bundle.m)
    /\ \A f \in Credential : bundle.chunks[f] = 0

\* What has been written of a restore are critical members, or all of those are.
InOrder(r) ==
    /\ r.todo \subseteq There(r.m.members)
    /\ r.todo \subseteq Backup \/ (There(r.m.members) \ r.todo) \cap Backup = {}

Carries(r) ==
    /\ r.pc \in {"ePackages", "ePlan", "eCreate", "eWrite", "eChunks", "iChunks", "iVerify", "iExtract"}
         => Honest(r.m)
    /\ r.pc = "eRead" => r.m \in Manifest /\ r.todo \cap Credential = {}
    /\ r.pc = "iExtract" => InOrder(r) /\ \A f \in There(r.m.members) : r.chunks[f] = r.m.members[f]

Requests == rpc \in [Slot -> Rpc] /\ \A s \in Slot : Carries(rpc[s])

\* Nobody else writes the project of s, and it does not run.
Private(s) ==
    LET n == rpc[s].name IN
    /\ Exists(n) /\ n \notin running
    /\ \A t \in Slot \ {s} : rpc[t].name = n => rpc[t].pc \in Harmless

\* Its volume is what s found or made of it.
Kept(s) ==
    LET r == rpc[s]
        held == volume[r.name] IN
    /\ r.pc = "eRead" => r.m.was = Only(held, r.todo)
    /\ r.pc \in Restores \ {"iExtract"} => held = Empty
    /\ r.pc = "iExtract" => held = Only(r.m.members, There(r.m.members) \ r.todo)

Unshared(s) == rpc[s].calm /\ rpc[s].pc \in Transfers => Private(s) /\ Kept(s)

BundleInv == Stores /\ BundleInv1 /\ Requests /\ \A s \in Slot : Unshared(s)

LEMMA AnyProjectIs == AnyProject \in Project
  BY BundleConstants DEF AnyProject

LEMMA PcsAre ==
    /\ Transfers \subseteq Pcs /\ Harmless \subseteq Pcs
    /\ "cleanup" \notin Transfers \cup Harmless
    /\ \A pc \in Transfers \cap Harmless : pc \in Exports
  BY DEF Transfers, Harmless, Exports, Restores, Pcs

LEMMA EmptyIs == Empty \in Content /\ There(Empty) = {} /\ \A f \in File : Empty[f] = 0
  BY BundleConstants DEF Empty, Content, There

LEMMA OnlyIs ==
    ASSUME NEW c \in Content, NEW fs
    PROVE  /\ Only(c, fs) \in Content
           /\ \A f \in File : Only(c, fs)[f] = IF f \in fs THEN c[f] ELSE 0
  BY BundleConstants DEF Only, Content

\* A request, written out.
Req(pc, n, all, todo, m, chunks, calm) ==
    [pc |-> pc, name |-> n, all |-> all, todo |-> todo, m |-> m, chunks |-> chunks, calm |-> calm]

LEMMA RpcIs ==
    ASSUME NEW r \in Rpc
    PROVE  /\ r = Req(r.pc, r.name, r.all, r.todo, r.m, r.chunks, r.calm)
           /\ r.pc \in Pcs /\ r.name \in Project /\ r.all \in BOOLEAN /\ r.todo \subseteq File
           /\ r.m \in Manifest \cup {NoManifest} /\ r.chunks \in Content /\ r.calm \in BOOLEAN
  BY DEF Rpc, Req

LEMMA NoRpcIs ==
    ASSUME NEW n \in Project
    PROVE  /\ NoRpc(n) \in Rpc /\ NoRpc(n).pc = "idle" /\ NoRpc(n).name = n
           /\ NoRpc(n) = Req("idle", n, FALSE, {}, NoManifest, Empty, TRUE)
  BY EmptyIs DEF NoRpc, Rpc, Req, Pcs

-------------------------------------------------------------------------------
(* Bundles: what a step of one request comes to *)

\* r takes the place of the request in s.
Becomes(s, r) == r \in Rpc /\ rpc' = [rpc EXCEPT ![s] = r]

\* A step of s leaves a project alone that others may have to themselves.
Spares(s) ==
    \A n \in Project :
      Exists(n) /\ (rpc[s].name = n => rpc[s].pc \in Harmless) =>
        /\ rootfs'[n] = rootfs[n] /\ volume'[n] = volume[n]
        /\ rpc'[s].name = n => rpc'[s].pc \in Harmless

Does(s) ==
    /\ \E r : Becomes(s, r) /\ Carries(r)
    /\ Stores' /\ BundleInv1' /\ running' \subseteq running
    /\ Spares(s) /\ Unshared(s)'

LEMMA DoesIs ==
    ASSUME Requests, NEW s \in Slot, NEW r, Becomes(s, r)
    PROVE  /\ rpc' \in [Slot -> Rpc] /\ rpc'[s] = r
           /\ \A t \in Slot \ {s} : rpc'[t] = rpc[t]
  BY DEF Becomes, Requests

\* What has its project to itself keeps it while somebody else's changes.
LEMMA PrivateStays ==
    ASSUME NEW t \in Slot, Unshared(t), rpc'[t] = rpc[t], rpc[t].name \in Project,
           rootfs'[rpc[t].name] = rootfs[rpc[t].name], volume'[rpc[t].name] = volume[rpc[t].name],
           rpc[t].name \notin running',
           \A u \in Slot \ {t} : rpc'[u].name = rpc[t].name => rpc'[u].pc \in Harmless
    PROVE  Unshared(t)'
<1>1. PICK r, n : r = rpc[t] /\ n = r.name
  OBVIOUS
<1>2. rpc'[t] = r /\ rootfs'[n] = rootfs[n] /\ volume'[n] = volume[n]
  BY <1>1
<1>3. SUFFICES ASSUME r.calm, r.pc \in Transfers
               PROVE  Private(t)' /\ Kept(t)'
  BY <1>2 DEF Unshared
<1>4. Private(t) /\ Kept(t)
  BY <1>1, <1>3 DEF Unshared
<1>5. Private(t)'
  BY <1>1, <1>2, <1>4 DEF Private, Exists
<1>6. Kept(t)'
  BY <1>1, <1>2, <1>4 DEF Kept
<1>7. QED
  BY <1>5, <1>6

LEMMA DoesKeeps ==
    ASSUME BundleInv, NEW s \in Slot, Does(s)
    PROVE  BundleInv'
<1>1. PICK r : Becomes(s, r) /\ Carries(r)
  BY DEF Does
<1>2. /\ rpc' \in [Slot -> Rpc] /\ rpc'[s] = r
      /\ \A t \in Slot \ {s} : rpc'[t] = rpc[t]
  BY <1>1, DoesIs DEF BundleInv
<1>3. Requests'
  <2>1. ASSUME NEW t \in Slot PROVE Carries(rpc'[t])
    BY <1>1, <1>2 DEF BundleInv, Requests
  <2>2. \A t \in Slot : Carries(rpc[t])'
    BY <2>1 DEF Carries, Honest, InOrder, There
  <2>3. QED
    BY <1>2, <2>2 DEF Requests
<1>4. ASSUME NEW t \in Slot PROVE Unshared(t)'
  <2>1. CASE t = s
    BY <2>1 DEF Does
  <2>2. CASE t # s /\ rpc[t].calm /\ rpc[t].pc \in Transfers
    <3>1. PICK n : n = rpc[t].name
      OBVIOUS
    <3>2. n \in Project /\ rpc'[t] = rpc[t]
      BY <1>2, <2>2, <3>1, RpcIs DEF BundleInv, Requests
    <3>3. Unshared(t) /\ Private(t)
      BY <2>2 DEF BundleInv, Unshared
    <3>4. Exists(n) /\ n \notin running /\ \A u \in Slot \ {t} : rpc[u].name = n => rpc[u].pc \in Harmless
      BY <3>1, <3>3 DEF Private
    <3>5. /\ rootfs'[n] = rootfs[n] /\ volume'[n] = volume[n]
          /\ rpc'[s].name = n => rpc'[s].pc \in Harmless
      BY <2>2, <3>2, <3>4 DEF Does, Spares
    <3>6. n \notin running'
      BY <3>4 DEF Does
    <3>7. \A u \in Slot \ {t} : rpc'[u].name = n => rpc'[u].pc \in Harmless
      BY <1>2, <3>4, <3>5
    <3>8. QED
      BY <3>1, <3>2, <3>3, <3>5, <3>6, <3>7, PrivateStays
  <2>3. CASE t # s /\ ~(rpc[t].calm /\ rpc[t].pc \in Transfers)
    BY <1>2, <2>3 DEF Unshared
  <2>4. QED
    BY <2>1, <2>2, <2>3
<1>5. QED
  BY <1>3, <1>4 DEF Does, BundleInv

\* A step to where a request has nothing to itself.
LEMMA LeavesDoes ==
    ASSUME BundleInv, NEW s \in Slot, NEW r, Becomes(s, r), Carries(r), r.pc \notin Transfers,
           r.pc = "cleanup" => rpc[s].pc \notin Harmless /\ r.name = rpc[s].name,
           UNCHANGED <<rootfs, running, volume>>, BundleInv1'
    PROVE  Does(s)
<1>1. rpc'[s] = r /\ r \in Rpc
  BY DoesIs DEF BundleInv, Becomes
<1>2. Stores' /\ running' \subseteq running
  BY DEF BundleInv, Stores
<1>3. r.pc \in Harmless \cup {"cleanup"}
  BY <1>1, RpcIs DEF Pcs, Transfers, Exports, Restores, Harmless
<1>4. Spares(s)
  BY <1>1, <1>3 DEF Spares
<1>5. Unshared(s)'
  BY <1>1 DEF Unshared
<1>6. QED
  BY <1>2, <1>4, <1>5 DEF Does

\* A step of a transfer that goes on.
LEMMA GoesOnDoes ==
    ASSUME BundleInv, NEW s \in Slot, NEW r, Becomes(s, r), Carries(r), BundleInv1',
           rpc[s].pc \in Transfers, r.pc \in Transfers, r.name = rpc[s].name,
           rpc[s].pc \in Exports => r.pc \in Exports /\ volume' = volume,
           r.calm => rpc[s].calm, r.calm /\ Private(s) => Kept(s)',
           UNCHANGED <<rootfs, running>>, volume' \in [Project -> Content],
           \A n \in Project \ {rpc[s].name} : volume'[n] = volume[n]
    PROVE  Does(s)
<1>1. rpc'[s] = r /\ r \in Rpc /\ \A t \in Slot \ {s} : rpc'[t] = rpc[t]
  BY DoesIs DEF BundleInv, Becomes
<1>2. Stores' /\ running' \subseteq running
  BY DEF BundleInv, Stores
<1>3. Spares(s)
  <2>1. rpc[s].pc \in Harmless => rpc[s].pc \in Exports
    BY PcsAre
  <2>2. r.pc \in Exports => r.pc \in Harmless
    BY DEF Harmless
  <2>3. QED
    BY <1>1, <2>1, <2>2 DEF Spares
<1>4. Unshared(s)'
  <2>1. SUFFICES ASSUME r.calm PROVE Private(s)' /\ Kept(s)'
    BY <1>1 DEF Unshared
  <2>2. Private(s)
    BY <2>1 DEF BundleInv, Unshared
  <2>3. PICK n : n = rpc[s].name
    OBVIOUS
  <2>4. rpc'[s].name = n
    BY <1>1, <2>3
  <2>5. Private(s)'
    BY <1>1, <2>2, <2>3, <2>4 DEF Private, Exists
  <2>6. QED
    BY <2>1, <2>2, <2>5
<1>5. QED
  BY <1>2, <1>3, <1>4 DEF Does

\* The same request, further on.
LEMMA TurnsTo ==
    ASSUME Requests, NEW s \in Slot, NEW pc \in Pcs, Turns(s, pc)
    PROVE  \E r : /\ Becomes(s, r) /\ r.pc = pc /\ r.name = rpc[s].name /\ r.todo = rpc[s].todo
                  /\ r.m = rpc[s].m /\ r.chunks = rpc[s].chunks /\ r.calm = rpc[s].calm
<1>1. PICK r0 \in Rpc : r0 = rpc[s]
  BY DEF Requests
<1>2. PICK r : r = [r0 EXCEPT !.pc = pc]
  OBVIOUS
<1>3. r = Req(pc, r0.name, r0.all, r0.todo, r0.m, r0.chunks, r0.calm)
  BY <1>2 DEF Req, Rpc
<1>4. r \in Rpc
  BY <1>3, RpcIs DEF Req, Rpc
<1>5. rpc' = [rpc EXCEPT ![s] = r]
  BY <1>1, <1>2 DEF Turns
<1>6. Becomes(s, r)
  BY <1>4, <1>5 DEF Becomes
<1>7. r.pc = pc /\ r.name = r0.name /\ r.todo = r0.todo /\ r.m = r0.m /\ r.chunks = r0.chunks
      /\ r.calm = r0.calm
  BY <1>3 DEF Req
<1>8. QED
  BY <1>1, <1>6, <1>7

LEMMA FailsTo ==
    ASSUME Requests, NEW s \in Slot, Fails(s)
    PROVE  \E r : Becomes(s, r) /\ r.pc = "cleanup" /\ r.name = rpc[s].name
<1>1. PICK n \in Project : n = rpc[s].name
  BY RpcIs DEF Requests
<1>2. PICK r : r = [NoRpc(n) EXCEPT !.pc = "cleanup"]
  OBVIOUS
<1>3. r = Req("cleanup", n, FALSE, {}, NoManifest, Empty, TRUE)
  BY <1>2 DEF Req, NoRpc
<1>4. r \in Rpc
  BY <1>3, EmptyIs DEF Req, Rpc, Pcs
<1>5. rpc' = [rpc EXCEPT ![s] = r]
  BY <1>1, <1>2 DEF Fails
<1>6. Becomes(s, r) /\ r.pc = "cleanup" /\ r.name = n
  BY <1>3, <1>4, <1>5 DEF Becomes, Req
<1>7. QED
  BY <1>1, <1>6

LEMMA BundleKept ==
    ASSUME BundleInv, UNCHANGED bundle
    PROVE  BundleInv1'
  BY DEF BundleInv, BundleInv1, Honest

LEMMA EndsDoes ==
    ASSUME BundleInv, NEW s \in Slot, Ends(s), UNCHANGED <<rootfs, running, volume, bundle>>
    PROVE  Does(s)
<1>1. PICK r : r = NoRpc(AnyProject)
  OBVIOUS
<1>2. Becomes(s, r) /\ r.pc = "idle"
  BY <1>1, AnyProjectIs, NoRpcIs DEF Ends, Becomes
<1>3. Carries(r) /\ r.pc \notin Transfers
  BY <1>2 DEF Carries, Transfers, Exports, Restores
<1>4. QED
  BY <1>2, <1>3, LeavesDoes, BundleKept

LEMMA FailsDoes ==
    ASSUME BundleInv, NEW s \in Slot, Fails(s), rpc[s].pc \in Restores \cup {"aCopy"},
           UNCHANGED <<rootfs, running, volume, bundle>>
    PROVE  Does(s)
<1>1. PICK r : Becomes(s, r) /\ r.pc = "cleanup" /\ r.name = rpc[s].name
  BY FailsTo DEF BundleInv
<1>2. Carries(r) /\ r.pc \notin Transfers /\ rpc[s].pc \notin Harmless
  BY <1>1 DEF Carries, Transfers, Exports, Restores, Harmless
<1>3. QED
  BY <1>1, <1>2, LeavesDoes, BundleKept

LEMMA BeginOthersDoes ==
    ASSUME BundleInv, NEW s \in Slot, NEW n \in Project,
           BeginImport(s, n) \/ \E repository \in BOOLEAN : BeginAdopt(s, n, repository)
    PROVE  Does(s)
<1>1. CASE BeginImport(s, n)
  <2>1. PICK r : r = [NoRpc(n) EXCEPT !.pc = "iCreate"]
    OBVIOUS
  <2>2. r = Req("iCreate", n, FALSE, {}, NoManifest, Empty, TRUE)
    BY <2>1 DEF Req, NoRpc
  <2>3. r \in Rpc /\ r.pc = "iCreate"
    BY <2>2, EmptyIs DEF Req, Rpc, Pcs
  <2>4. Becomes(s, r) /\ Carries(r) /\ r.pc \notin Transfers
    BY <1>1, <2>1, <2>3 DEF BeginImport, Becomes, Carries, Transfers, Exports, Restores
  <2>5. QED
    BY <1>1, <2>3, <2>4, LeavesDoes, BundleKept DEF BeginImport
<1>2. ASSUME NEW repository \in BOOLEAN, BeginAdopt(s, n, repository)
      PROVE  Does(s)
  <2>1. PICK fs : fs = CopySet(repository)
    OBVIOUS
  <2>2. fs \subseteq File
    BY <2>1, BundleConstants DEF CopySet
  <2>3. PICK r : r = [NoRpc(n) EXCEPT !.pc = "aCreate", !.todo = fs]
    OBVIOUS
  <2>4. r = Req("aCreate", n, FALSE, fs, NoManifest, Empty, TRUE)
    BY <2>3 DEF Req, NoRpc
  <2>5. r \in Rpc /\ r.pc = "aCreate"
    BY <2>2, <2>4, EmptyIs DEF Req, Rpc, Pcs
  <2>6. Becomes(s, r) /\ Carries(r) /\ r.pc \notin Transfers
    BY <1>2, <2>1, <2>3, <2>5 DEF BeginAdopt, Becomes, Carries, Transfers, Exports, Restores
  <2>7. QED
    BY <1>2, <2>5, <2>6, LeavesDoes, BundleKept DEF BeginAdopt
<1>3. QED
  BY <1>1, <1>2

-------------------------------------------------------------------------------
(* Bundles: the steps of an export *)

LEMMA ExportsAre ==
    /\ Exports \subseteq Transfers /\ Exports \subseteq Harmless
    /\ Restores \cap Exports = {} /\ Restores \cap Harmless = {} /\ Restores \subseteq Transfers
    /\ "aCopy" \in Transfers \ Harmless
  BY DEF Transfers, Harmless, Exports, Restores

\* An export that goes on with what it has read so far.
LEMMA ExportGoesOn ==
    ASSUME BundleInv, NEW s \in Slot, NEW r, Becomes(s, r), Carries(r), BundleInv1',
           rpc[s].pc \in Exports, r.pc \in Exports \ {"eRead"}, r.name = rpc[s].name,
           r.calm = rpc[s].calm, UNCHANGED <<rootfs, running, volume>>
    PROVE  Does(s)
<1>1. rpc'[s] = r
  BY DoesIs DEF BundleInv
<1>2. Kept(s)'
  BY <1>1, ExportsAre DEF Kept, Restores, Exports
<1>3. QED
  BY <1>2, ExportsAre, GoesOnDoes DEF BundleInv, Stores

LEMMA IdentityIs ==
    ASSUME NEW c \in Chain \cup {NoChain}
    PROVE  Honest(Identity(c))
<1>1. Identity(c) \in Manifest
  BY EmptyIs, BundleConstants DEF Identity, Manifest
<1>2. QED
  BY <1>1, EmptyIs, BundleConstants DEF Honest, Identity

LEMMA ExportIdentityDoes ==
    ASSUME BundleInv, NEW s \in Slot, ExportIdentity(s)
    PROVE  Does(s)
<1>1. PICK r0 \in Rpc : r0 = rpc[s]
  BY DEF BundleInv, Requests
<1>2. CASE Exists(r0.name)
  <2>1. PICK m : m = Identity(rootfs[r0.name])
    OBVIOUS
  <2>2. Honest(m)
    BY <2>1, RpcIs, IdentityIs DEF BundleInv, Stores
  <2>3. PICK r : r = [r0 EXCEPT !.pc = "ePackages", !.m = m]
    OBVIOUS
  <2>4. r = Req("ePackages", r0.name, r0.all, r0.todo, m, r0.chunks, r0.calm)
    BY <2>3 DEF Req, Rpc
  <2>5. r \in Rpc /\ r.pc = "ePackages" /\ r.name = r0.name /\ r.m = m /\ r.calm = r0.calm
    BY <2>2, <2>4, RpcIs DEF Req, Rpc, Pcs, Honest
  <2>6. rpc' = [rpc EXCEPT ![s] = r]
    BY <1>1, <1>2, <2>1, <2>3 DEF ExportIdentity
  <2>7. Becomes(s, r) /\ Carries(r)
    BY <2>2, <2>5, <2>6 DEF Becomes, Carries
  <2>8. rpc[s].pc \in Exports /\ r.pc \in Exports \ {"eRead"}
    BY <2>5 DEF ExportIdentity, Is, Exports
  <2>9. QED
    BY <1>1, <2>5, <2>7, <2>8, ExportGoesOn, BundleKept DEF ExportIdentity
<1>3. CASE ~Exists(r0.name)
  BY <1>1, <1>3, EndsDoes DEF ExportIdentity
<1>4. QED
  BY <1>2, <1>3

LEMMA ExportCreateDoes ==
    ASSUME BundleInv, NEW s \in Slot, ExportCreate(s)
    PROVE  Does(s)
<1>1. Turns(s, "eWrite") /\ "eWrite" \in Pcs /\ rpc[s].pc = "eCreate"
  BY DEF ExportCreate, Turns, Pcs, Is
<1>2. PICK r : /\ Becomes(s, r) /\ r.pc = "eWrite" /\ r.name = rpc[s].name /\ r.todo = rpc[s].todo
               /\ r.m = rpc[s].m /\ r.chunks = rpc[s].chunks /\ r.calm = rpc[s].calm
  BY <1>1, TurnsTo DEF BundleInv
<1>3. Carries(r)
  BY <1>1, <1>2 DEF Carries, BundleInv, Requests
<1>4. BundleInv1'
  BY EmptyIs, BundleConstants DEF ExportCreate, BundleInv1, Blank
<1>5. QED
  BY <1>1, <1>2, <1>3, <1>4, ExportGoesOn DEF ExportCreate, Exports

LEMMA ExportManifestDoes ==
    ASSUME BundleInv, NEW s \in Slot, ExportManifest(s)
    PROVE  Does(s)
<1>1. Turns(s, "eChunks") /\ "eChunks" \in Pcs /\ rpc[s].pc = "eWrite"
  BY DEF ExportManifest, Pcs, Is
<1>2. PICK r : /\ Becomes(s, r) /\ r.pc = "eChunks" /\ r.name = rpc[s].name /\ r.todo = rpc[s].todo
               /\ r.m = rpc[s].m /\ r.chunks = rpc[s].chunks /\ r.calm = rpc[s].calm
  BY <1>1, TurnsTo DEF BundleInv
<1>3. Carries(r) /\ Honest(rpc[s].m)
  BY <1>1, <1>2 DEF Carries, BundleInv, Requests
<1>4. bundle' = [m |-> rpc[s].m, chunks |-> bundle.chunks]
  BY DEF ExportManifest, BundleInv, BundleInv1
<1>5. BundleInv1'
  BY <1>3, <1>4 DEF BundleInv1, BundleInv, Honest
<1>6. QED
  BY <1>1, <1>2, <1>3, <1>5, ExportGoesOn DEF ExportManifest, Exports

LEMMA ExportChunkDoes ==
    ASSUME BundleInv, NEW s \in Slot, ExportChunk(s)
    PROVE  Does(s)
<1>1. PICK r0 \in Rpc : r0 = rpc[s] /\ Carries(r0)
  BY DEF BundleInv, Requests
<1>2. r0.pc = "eChunks" /\ r0.todo # {} /\ Honest(r0.m) /\ r0.m.members \in Content
  BY <1>1 DEF ExportChunk, Is, Carries, Honest, Manifest
<1>3. PICK f \in File : f = First(r0.todo)
  BY <1>2, RpcIs DEF First
<1>4. PICK v : v = r0.m.members[f]
  OBVIOUS
<1>5. v \in 0..MaxVersion /\ (f \in Credential => v = 0)
  BY <1>2, <1>4 DEF Content, Honest
<1>6. BundleInv1'
  <2>1. PICK cs : cs = [bundle.chunks EXCEPT ![f] = v]
    OBVIOUS
  <2>2. bundle' = [m |-> bundle.m, chunks |-> cs]
    BY <1>1, <1>3, <1>4, <2>1 DEF ExportChunk, BundleInv, BundleInv1
  <2>3. cs \in Content /\ \A g \in Credential : cs[g] = 0
    BY <1>5, <2>1, BundleConstants DEF BundleInv, BundleInv1, Content
  <2>4. QED
    BY <2>2, <2>3 DEF BundleInv, BundleInv1, Honest
<1>7. PICK r : r = [r0 EXCEPT !.todo = r0.todo \ {f}]
  OBVIOUS
<1>8. r = Req(r0.pc, r0.name, r0.all, r0.todo \ {f}, r0.m, r0.chunks, r0.calm)
  BY <1>7 DEF Req, Rpc
<1>9. r \in Rpc /\ r.pc = "eChunks" /\ r.name = r0.name /\ r.m = r0.m /\ r.calm = r0.calm
  BY <1>2, <1>8, RpcIs DEF Req, Rpc
<1>10. rpc' = [rpc EXCEPT ![s] = r]
  BY <1>1, <1>3, <1>7 DEF ExportChunk
<1>11. Becomes(s, r) /\ Carries(r)
  BY <1>2, <1>9, <1>10 DEF Becomes, Carries
<1>12. QED
  BY <1>1, <1>2, <1>6, <1>9, <1>11, ExportGoesOn DEF ExportChunk, Exports

LEMMA ExportPlanDoes ==
    ASSUME BundleInv, NEW s \in Slot, ExportPlan(s)
    PROVE  Does(s)
<1>1. PICK r0 \in Rpc : r0 = rpc[s] /\ Carries(r0)
  BY DEF BundleInv, Requests
<1>2. r0.pc = "ePlan" /\ Honest(r0.m) /\ r0.m \in Manifest
  BY <1>1 DEF ExportPlan, Is, Carries, Honest
<1>3. PICK held \in Content : held = volume[r0.name]
  BY RpcIs DEF BundleInv, Stores
<1>4. PICK fs : fs = Planned(held, r0.all)
  OBVIOUS
<1>5. fs \subseteq File /\ fs \cap Credential = {}
  BY <1>4 DEF Planned, There, Included
<1>6. PICK w \in Content : w = Only(held, fs)
  BY OnlyIs
<1>7. PICK m : m = [r0.m EXCEPT !.was = w]
  OBVIOUS
<1>8. m \in Manifest /\ m.was = w
  BY <1>2, <1>7 DEF Manifest
<1>9. PICK r : r = Req("eRead", r0.name, FALSE, fs, m, r0.chunks, r0.calm)
  OBVIOUS
<1>10. /\ r \in Rpc /\ r.pc = "eRead" /\ r.name = r0.name /\ r.todo = fs /\ r.m = m
       /\ r.calm = r0.calm
  BY <1>5, <1>8, <1>9, RpcIs DEF Req, Rpc, Pcs
<1>11. rpc' = [rpc EXCEPT ![s] = r]
  <2>1. PICK r1 : r1 = [r0 EXCEPT !.pc = "eRead", !.todo = fs, !.all = FALSE, !.m.was = w]
    OBVIOUS
  <2>2. rpc' = [rpc EXCEPT ![s] = r1]
    BY <1>1, <1>3, <1>4, <1>6, <2>1 DEF ExportPlan
  <2>3. PICK r2 : r2 = [r0 EXCEPT !.pc = "eRead"]
    OBVIOUS
  <2>4. r2 = Req("eRead", r0.name, r0.all, r0.todo, r0.m, r0.chunks, r0.calm)
    BY <2>3 DEF Req, Rpc
  <2>5. PICK r3 : r3 = [r2 EXCEPT !.todo = fs]
    OBVIOUS
  <2>6. r3 = Req("eRead", r0.name, r0.all, fs, r0.m, r0.chunks, r0.calm)
    BY <2>4, <2>5 DEF Req
  <2>7. PICK r4 : r4 = [r3 EXCEPT !.all = FALSE]
    OBVIOUS
  <2>8. r4 = Req("eRead", r0.name, FALSE, fs, r0.m, r0.chunks, r0.calm)
    BY <2>6, <2>7 DEF Req
  <2>9. [r4 EXCEPT !.m = m] = r
    <3>1. PICK all \in BOOLEAN : all = FALSE
      OBVIOUS
    <3>2. r4 = Req("eRead", r0.name, all, fs, r0.m, r0.chunks, r0.calm)
      BY <2>8, <3>1
    <3>3. r = Req("eRead", r0.name, all, fs, m, r0.chunks, r0.calm)
      BY <1>9, <3>1
    <3>4. QED
      BY <3>2, <3>3 DEF Req
  <2>10. r1 = [r4 EXCEPT !.m = m]
    <3>1. r1 = [r4 EXCEPT !.m.was = w]
      BY <2>1, <2>3, <2>5, <2>7
    <3>2. r4.m = r0.m
      BY <2>8 DEF Req
    <3>3. QED
      BY <1>7, <3>1, <3>2
  <2>11. QED
    BY <2>2, <2>9, <2>10
<1>12. Becomes(s, r) /\ Carries(r)
  BY <1>5, <1>8, <1>10, <1>11 DEF Becomes, Carries
<1>13. Kept(s)'
  <2>1. rpc'[s] = r /\ volume'[r.name] = held
    BY <1>3, <1>10, <1>12, DoesIs DEF BundleInv, ExportPlan
  <2>2. QED
    BY <1>6, <1>8, <1>10, <2>1 DEF Kept, Restores
<1>14. QED
  BY <1>1, <1>2, <1>10, <1>12, <1>13, GoesOnDoes, BundleKept, ExportsAre
     DEF ExportPlan, Exports, BundleInv, Stores

LEMMA ExportReadDoes ==
    ASSUME BundleInv, NEW s \in Slot, ExportRead(s)
    PROVE  Does(s)
<1>1. PICK r0 \in Rpc : r0 = rpc[s] /\ Carries(r0)
  BY DEF BundleInv, Requests
<1>2. r0.pc = "eRead" /\ r0.m \in Manifest /\ r0.todo \cap Credential = {}
  BY <1>1 DEF ExportRead, Is, Carries
<1>3. PICK held \in Content : held = volume[r0.name]
  BY RpcIs DEF BundleInv, Stores
<1>4. CASE r0.todo \subseteq There(held)
  <2>1. PICK w \in Content : w = Only(held, r0.todo)
    BY OnlyIs
  <2>2. \A f \in Credential : w[f] = 0
    BY <1>2, <2>1, OnlyIs, BundleConstants
  <2>3. r0.calm => r0.m.was = w
    BY <1>1, <1>2, <1>3, <2>1 DEF BundleInv, Unshared, Kept, Transfers, Exports
  <2>4. PICK was \in Content : was = IF r0.calm THEN r0.m.was ELSE w
    BY <1>2 DEF Manifest
  <2>5. PICK m : m = [schema |-> r0.m.schema, chain |-> r0.m.chain, digest |-> r0.m.digest,
                      members |-> w, was |-> was, calm |-> r0.calm]
    OBVIOUS
  <2>6. Honest(m)
    <3>1. m \in Manifest
      BY <1>2, <2>5, RpcIs DEF Manifest
    <3>2. QED
      BY <2>2, <2>3, <2>4, <2>5, <3>1 DEF Honest
  <2>7. PICK r : r = Req("eCreate", r0.name, r0.all, r0.todo, m, r0.chunks, r0.calm)
    OBVIOUS
  <2>8. r \in Rpc /\ r.pc = "eCreate" /\ r.name = r0.name /\ r.m = m /\ r.calm = r0.calm
    BY <2>6, <2>7, RpcIs DEF Req, Rpc, Pcs, Honest
  <2>9. rpc' = [rpc EXCEPT ![s] = r]
    <3>1. PICK m0 : m0 = Stamped(r0, w)
      OBVIOUS
    <3>2. PICK m1 : m1 = [r0.m EXCEPT !.members = w]
      OBVIOUS
    <3>3. m1 = [schema |-> r0.m.schema, chain |-> r0.m.chain, digest |-> r0.m.digest,
                members |-> w, was |-> r0.m.was, calm |-> r0.m.calm]
      BY <1>2, <3>2 DEF Manifest
    <3>4. PICK m2 : m2 = [m1 EXCEPT !.calm = r0.calm]
      OBVIOUS
    <3>5. m2 = [schema |-> r0.m.schema, chain |-> r0.m.chain, digest |-> r0.m.digest,
                members |-> w, was |-> r0.m.was, calm |-> r0.calm]
      BY <3>3, <3>4
    <3>6. m0 = [m2 EXCEPT !.was = IF r0.calm THEN @ ELSE w]
      BY <3>1, <3>2, <3>4 DEF Stamped
    <3>7. m2.was = r0.m.was
      BY <3>5
    <3>8. m0 = [m2 EXCEPT !.was = was]
      BY <2>4, <3>6, <3>7
    <3>9. m0 = m
      BY <2>5, <3>5, <3>8
    <3>10. rpc' = [rpc EXCEPT ![s].pc = "eCreate", ![s].m = m]
      BY <1>1, <1>3, <1>4, <2>1, <3>1, <3>9 DEF ExportRead
    <3>11. PICK r1 : r1 = [r0 EXCEPT !.pc = "eCreate"]
      OBVIOUS
    <3>12. r1 = Req("eCreate", r0.name, r0.all, r0.todo, r0.m, r0.chunks, r0.calm)
      BY <3>11 DEF Req, Rpc
    <3>13. [r1 EXCEPT !.m = m] = r
      BY <2>7, <3>12 DEF Req
    <3>14. [[r0 EXCEPT !.pc = "eCreate"] EXCEPT !.m = m] = r
      BY <3>11, <3>13
    <3>15. QED
      BY <1>1, <3>10, <3>14 DEF BundleInv, Requests
  <2>10. Becomes(s, r) /\ Carries(r)
    BY <2>6, <2>8, <2>9 DEF Becomes, Carries
  <2>11. QED
    BY <1>1, <1>2, <2>8, <2>10, ExportGoesOn, BundleKept DEF ExportRead, Exports
<1>5. CASE ~(r0.todo \subseteq There(held))
  BY <1>1, <1>3, <1>5, EndsDoes DEF ExportRead
<1>6. QED
  BY <1>4, <1>5


LEMMA ExportEndsDoes ==
    ASSUME BundleInv, NEW s \in Slot, ExportEnds(s) \/ Cancel(s) \/ ImportDone(s)
    PROVE  Does(s)
  BY EndsDoes DEF ExportEnds, Cancel, ImportDone

\* What Alone says to the one that asks.
LEMMA AloneIs ==
    ASSUME NEW s \in Slot, NEW n
    PROVE  /\ Alone(s, n) \in BOOLEAN
           /\ Alone(s, n) => \A t \in Slot \ {s} : rpc[t].name = n => rpc[t].pc \in Harmless
<1>1. Alone(s, n) \in BOOLEAN
  BY DEF Alone
<1>2. ASSUME Alone(s, n), NEW t \in Slot \ {s}, rpc[t].name = n
      PROVE  rpc[t].pc \in Harmless
  BY <1>2 DEF Alone, InTransfer, Harmless, Exports
<1>3. QED
  BY <1>1, <1>2

LEMMA BeginExportDoes ==
    ASSUME BundleInv, NEW s \in Slot, NEW n \in Project, NEW all \in BOOLEAN, BeginExport(s, n, all)
    PROVE  Does(s)
<1>1. PICK al \in BOOLEAN : al = Alone(s, n)
  BY AloneIs
<1>2. PICK r : r = Req("eIdentity", n, all, {}, NoManifest, Empty, al)
  OBVIOUS
<1>3. r \in Rpc /\ r.pc = "eIdentity" /\ r.name = n /\ r.calm = al
  BY <1>2, EmptyIs DEF Req, Rpc, Pcs
<1>4. rpc' = [rpc EXCEPT ![s] = r]
  <2>1. rpc' = [rpc EXCEPT ![s] = [NoRpc(n) EXCEPT !.pc = "eIdentity", !.all = all, !.calm = al]]
    BY <1>1 DEF BeginExport
  <2>2. PICK r1 : r1 = [NoRpc(n) EXCEPT !.pc = "eIdentity"]
    OBVIOUS
  <2>3. r1 = Req("eIdentity", n, FALSE, {}, NoManifest, Empty, TRUE)
    BY <2>2 DEF Req, NoRpc
  <2>4. PICK r2 : r2 = [r1 EXCEPT !.all = all]
    OBVIOUS
  <2>5. r2 = Req("eIdentity", n, all, {}, NoManifest, Empty, TRUE)
    BY <2>3, <2>4 DEF Req
  <2>6. [r2 EXCEPT !.calm = al] = r
    BY <1>2, <2>5 DEF Req
  <2>7. QED
    BY <2>1, <2>2, <2>4, <2>6
<1>5. Becomes(s, r) /\ Carries(r) /\ rpc'[s] = r /\ \A t \in Slot \ {s} : rpc'[t] = rpc[t]
  BY <1>3, <1>4, DoesIs DEF Becomes, Carries, BundleInv
<1>6. Stores' /\ BundleInv1' /\ running' \subseteq running
  BY BundleKept DEF BundleInv, Stores, BeginExport
<1>7. Spares(s)
  BY <1>3, <1>5 DEF Spares, BeginExport, Harmless, Exports
<1>8. Unshared(s)'
  <2>1. SUFFICES ASSUME al PROVE Private(s)' /\ Kept(s)'
    BY <1>3, <1>5 DEF Unshared
  <2>2. \A t \in Slot \ {s} : rpc'[t].name = n => rpc'[t].pc \in Harmless
    BY <1>1, <1>5, <2>1, AloneIs
  <2>3. rootfs'[n] # NoChain /\ n \notin running' /\ rpc'[s].name = n
    BY <1>3, <1>5 DEF BeginExport, Exists
  <2>4. Private(s)'
    BY <2>2, <2>3 DEF Private, Exists
  <2>5. Kept(s)'
    BY <1>3, <1>5 DEF Kept, Restores
  <2>6. QED
    BY <2>4, <2>5
<1>9. QED
  BY <1>5, <1>6, <1>7, <1>8 DEF Does

-------------------------------------------------------------------------------
(* Bundles: the steps of an import and of an adoption *)

LEMMA CreateDoes ==
    ASSUME BundleInv, NEW s \in Slot, NEW pc \in {"iCheck", "aCopy"}, ~Exists(rpc[s].name),
           Creates(rpc[s].name), UNCHANGED <<running, bundle>>,
           rpc' = [rpc EXCEPT ![s].pc = pc, ![s].calm = Alone(s, rpc[s].name)]
    PROVE  Does(s)
<1>1. PICK r0 \in Rpc : r0 = rpc[s]
  BY DEF BundleInv, Requests
<1>2. PICK n \in Project : n = r0.name
  BY RpcIs
<1>3. PICK al \in BOOLEAN : al = Alone(s, n)
  BY AloneIs
<1>4. PICK r : r = Req(pc, n, r0.all, r0.todo, r0.m, r0.chunks, al)
  OBVIOUS
<1>5. r \in Rpc /\ r.pc = pc /\ r.name = n /\ r.calm = al
  BY <1>4, RpcIs DEF Req, Rpc, Pcs
<1>6. rpc' = [rpc EXCEPT ![s] = r]
  <2>1. PICK r1 : r1 = [r0 EXCEPT !.pc = pc]
    OBVIOUS
  <2>2. r1 = Req(pc, n, r0.all, r0.todo, r0.m, r0.chunks, r0.calm)
    BY <1>2, <2>1 DEF Req, Rpc
  <2>3. [r1 EXCEPT !.calm = al] = r
    BY <1>4, <2>2 DEF Req
  <2>4. [[r0 EXCEPT !.pc = pc] EXCEPT !.calm = al] = r
    BY <2>1, <2>3
  <2>5. rpc' = [rpc EXCEPT ![s].pc = pc, ![s].calm = al]
    BY <1>1, <1>2, <1>3
  <2>6. QED
    BY <1>1, <2>4, <2>5 DEF BundleInv, Requests
<1>7. Becomes(s, r) /\ Carries(r) /\ rpc'[s] = r /\ \A t \in Slot \ {s} : rpc'[t] = rpc[t]
  BY <1>5, <1>6, DoesIs DEF Becomes, Carries, BundleInv
<1>8. /\ rootfs' = [rootfs EXCEPT ![n] = BaseChain] /\ volume' = [volume EXCEPT ![n] = Empty]
      /\ rootfs[n] = NoChain /\ n \notin running
  BY <1>1, <1>2 DEF Creates, Exists, BundleInv, Stores
<1>9. Stores' /\ BundleInv1' /\ running' \subseteq running
  <2>1. Stores'
    BY <1>8, EmptyIs, BundleConstants DEF BundleInv, Stores
  <2>2. QED
    BY <2>1, BundleKept
<1>10. Spares(s)
  BY <1>5, <1>7, <1>8 DEF Spares, Exists, BundleInv, Stores
<1>11. Unshared(s)'
  <2>1. SUFFICES ASSUME al PROVE Private(s)' /\ Kept(s)'
    BY <1>5, <1>7 DEF Unshared
  <2>2. \A t \in Slot \ {s} : rpc'[t].name = n => rpc'[t].pc \in Harmless
    BY <1>3, <1>7, <2>1, AloneIs
  <2>3. rootfs'[n] # NoChain /\ n \notin running' /\ volume'[n] = Empty
    BY <1>8, BundleConstants DEF BundleInv, Stores
  <2>4. Private(s)'
    BY <1>5, <1>7, <2>2, <2>3 DEF Private, Exists
  <2>5. Kept(s)'
    BY <1>5, <1>7, <2>3 DEF Kept, Restores
  <2>6. QED
    BY <2>4, <2>5
<1>12. QED
  BY <1>7, <1>9, <1>10, <1>11 DEF Does

LEMMA ImportCreateDoes ==
    ASSUME BundleInv, NEW s \in Slot, ImportCreate(s) \/ AdoptCreate(s)
    PROVE  Does(s)
  BY CreateDoes, EndsDoes DEF ImportCreate, AdoptCreate

LEMMA ImportCheckDoes ==
    ASSUME BundleInv, NEW s \in Slot, ImportCheck(s)
    PROVE  Does(s)
<1>1. rpc[s].pc = "iCheck" /\ UNCHANGED <<rootfs, running, volume, bundle>>
  BY DEF ImportCheck, Is
<1>2. CASE Turns(s, "iManifest")
  <2>1. PICK r : /\ Becomes(s, r) /\ r.pc = "iManifest" /\ r.name = rpc[s].name /\ r.todo = rpc[s].todo
                 /\ r.m = rpc[s].m /\ r.chunks = rpc[s].chunks /\ r.calm = rpc[s].calm
    BY <1>2, TurnsTo DEF BundleInv, Pcs
  <2>2. Carries(r)
    BY <2>1 DEF Carries
  <2>3. ASSUME r.calm PROVE Kept(s)'
    <3>1. volume[rpc[s].name] = Empty
      BY <1>1, <2>1, <2>3 DEF BundleInv, Unshared, Kept, Transfers, Restores
    <3>2. QED
      BY <1>1, <2>1, <3>1, DoesIs DEF Kept, BundleInv
  <2>4. QED
    BY <1>1, <2>1, <2>2, <2>3, GoesOnDoes, BundleKept, ExportsAre
       DEF Restores, Exports, BundleInv, Stores
<1>3. CASE Fails(s)
  BY <1>1, <1>3, FailsDoes DEF Restores
<1>4. QED
  BY <1>2, <1>3 DEF ImportCheck

LEMMA ImportManifestDoes ==
    ASSUME BundleInv, NEW s \in Slot, ImportManifest(s)
    PROVE  Does(s)
<1>1. rpc[s].pc = "iManifest" /\ UNCHANGED <<rootfs, running, volume, bundle>>
  BY DEF ImportManifest, Is
<1>2. CASE Readable(bundle.m)
  <2>1. PICK r0 \in Rpc : r0 = rpc[s]
    BY DEF BundleInv, Requests
  <2>2. PICK m : m = bundle.m
    OBVIOUS
  <2>3. Honest(m)
    BY <1>2, <2>2 DEF BundleInv, BundleInv1, Readable
  <2>4. PICK fs : fs = There(m.members)
    OBVIOUS
  <2>5. fs \subseteq File
    BY <2>4 DEF There
  <2>6. PICK r : r = Req("iChunks", r0.name, r0.all, fs, m, r0.chunks, r0.calm)
    OBVIOUS
  <2>7. /\ r \in Rpc /\ r.pc = "iChunks" /\ r.name = r0.name /\ r.m = m /\ r.calm = r0.calm
        /\ r.todo = fs
    BY <2>3, <2>5, <2>6, RpcIs DEF Req, Rpc, Pcs, Honest
  <2>8. rpc' = [rpc EXCEPT ![s] = r]
    <3>1. PICK r1 : r1 = [r0 EXCEPT !.pc = "iChunks"]
      OBVIOUS
    <3>2. r1 = Req("iChunks", r0.name, r0.all, r0.todo, r0.m, r0.chunks, r0.calm)
      BY <3>1 DEF Req, Rpc
    <3>3. PICK r2 : r2 = [r1 EXCEPT !.m = m]
      OBVIOUS
    <3>4. r2 = Req("iChunks", r0.name, r0.all, r0.todo, m, r0.chunks, r0.calm)
      BY <3>2, <3>3 DEF Req
    <3>5. [r2 EXCEPT !.todo = fs] = r
      BY <2>6, <3>4 DEF Req
    <3>6. [[[r0 EXCEPT !.pc = "iChunks"] EXCEPT !.m = m] EXCEPT !.todo = fs] = r
      BY <3>1, <3>3, <3>5
    <3>7. rpc' = [rpc EXCEPT ![s].pc = "iChunks", ![s].m = m, ![s].todo = fs]
      BY <1>2, <2>2, <2>4 DEF ImportManifest
    <3>8. QED
      BY <2>1, <3>6, <3>7 DEF BundleInv, Requests
  <2>9. Becomes(s, r) /\ Carries(r)
    BY <2>3, <2>7, <2>8 DEF Becomes, Carries
  <2>10. ASSUME r.calm PROVE Kept(s)'
    <3>1. volume[rpc[s].name] = Empty
      BY <1>1, <2>1, <2>7, <2>10 DEF BundleInv, Unshared, Kept, Transfers, Restores
    <3>2. QED
      BY <1>1, <2>1, <2>7, <2>9, <3>1, DoesIs DEF Kept, BundleInv
  <2>11. QED
    BY <1>1, <2>1, <2>7, <2>9, <2>10, GoesOnDoes, BundleKept, ExportsAre
       DEF Restores, Exports, BundleInv, Stores
<1>3. CASE ~Readable(bundle.m)
  BY <1>1, <1>3, FailsDoes DEF ImportManifest, Restores
<1>4. QED
  BY <1>2, <1>3

LEMMA ImportChunkDoes ==
    ASSUME BundleInv, NEW s \in Slot, ImportChunk(s)
    PROVE  Does(s)
<1>1. rpc[s].pc = "iChunks" /\ UNCHANGED <<rootfs, running, volume, bundle>>
  BY DEF ImportChunk, Is
<1>2. PICK r0 \in Rpc : r0 = rpc[s] /\ Carries(r0)
  BY DEF BundleInv, Requests
<1>3. Honest(r0.m)
  BY <1>1, <1>2 DEF Carries
<1>4. ASSUME NEW r, Becomes(s, r), r.pc \in {"iChunks", "iVerify"}, r.name = r0.name, r.m = r0.m,
             r.calm = r0.calm
      PROVE  Does(s)
  <2>1. Carries(r)
    BY <1>3, <1>4 DEF Carries
  <2>2. ASSUME r.calm PROVE Kept(s)'
    <3>1. volume[rpc[s].name] = Empty
      BY <1>1, <1>2, <1>4, <2>2 DEF BundleInv, Unshared, Kept, Transfers, Restores
    <3>2. QED
      BY <1>1, <1>2, <1>4, <3>1, DoesIs DEF Kept, BundleInv
  <2>3. QED
    BY <1>1, <1>2, <1>4, <2>1, <2>2, GoesOnDoes, BundleKept, ExportsAre
       DEF Restores, Exports, BundleInv, Stores
<1>5. CASE r0.todo = {}
  <2>1. Turns(s, "iVerify")
    BY <1>2, <1>5 DEF ImportChunk
  <2>2. PICK r : /\ Becomes(s, r) /\ r.pc = "iVerify" /\ r.name = rpc[s].name /\ r.todo = rpc[s].todo
                 /\ r.m = rpc[s].m /\ r.chunks = rpc[s].chunks /\ r.calm = rpc[s].calm
    BY <2>1, TurnsTo DEF BundleInv, Pcs
  <2>3. QED
    BY <1>2, <1>4, <2>2
<1>6. CASE r0.todo # {}
  <2>1. PICK f \in File : f = First(r0.todo)
    BY <1>6, RpcIs DEF First
  <2>2. CASE bundle.chunks[f] = 0
    BY <1>1, <1>2, <1>6, <2>1, <2>2, FailsDoes DEF ImportChunk, Restores
  <2>3. CASE bundle.chunks[f] # 0
    <3>1. PICK v : v = bundle.chunks[f]
      OBVIOUS
    <3>2. v \in 0..MaxVersion
      BY <3>1 DEF BundleInv, BundleInv1, Content
    <3>3. PICK cs : cs = [r0.chunks EXCEPT ![f] = v]
      OBVIOUS
    <3>4. cs \in Content
      BY <3>2, <3>3, RpcIs DEF Content
    <3>5. PICK fs : fs = r0.todo \ {f}
      OBVIOUS
    <3>6. PICK r : r = Req("iChunks", r0.name, r0.all, fs, r0.m, cs, r0.calm)
      OBVIOUS
    <3>7. r \in Rpc /\ r.pc = "iChunks" /\ r.name = r0.name /\ r.m = r0.m /\ r.calm = r0.calm
      BY <3>4, <3>5, <3>6, RpcIs DEF Req, Rpc, Pcs
    <3>8. rpc' = [rpc EXCEPT ![s] = r]
      <4>1. r0 = Req("iChunks", r0.name, r0.all, r0.todo, r0.m, r0.chunks, r0.calm)
        BY <1>1, <1>2, RpcIs
      <4>2. PICK r1 : r1 = [r0 EXCEPT !.todo = fs]
        OBVIOUS
      <4>3. r1 = Req("iChunks", r0.name, r0.all, fs, r0.m, r0.chunks, r0.calm)
        BY <4>1, <4>2 DEF Req
      <4>4. [r1 EXCEPT !.chunks = cs] = r
        BY <3>6, <4>3 DEF Req
      <4>5. r1.chunks = r0.chunks
        BY <4>3 DEF Req
      <4>6. [r1 EXCEPT !.chunks[f] = v] = r
        BY <3>3, <4>4, <4>5
      <4>7. [[r0 EXCEPT !.todo = fs] EXCEPT !.chunks[f] = v] = r
        BY <4>2, <4>6
      <4>8. rpc' = [rpc EXCEPT ![s].todo = @ \ {f}, ![s].chunks[f] = v]
        BY <1>2, <1>6, <2>1, <2>3, <3>1 DEF ImportChunk
      <4>9. rpc' = [rpc EXCEPT ![s].todo = fs, ![s].chunks[f] = v]
        BY <1>2, <3>5, <4>8
      <4>10. QED
        BY <1>2, <4>7, <4>9 DEF BundleInv, Requests
    <3>9. QED
      BY <1>4, <3>7, <3>8 DEF Becomes
  <2>4. QED
    BY <2>2, <2>3
<1>7. QED
  BY <1>5, <1>6

LEMMA ImportVerifyDoes ==
    ASSUME BundleInv, NEW s \in Slot, ImportVerify(s)
    PROVE  Does(s)
<1>1. rpc[s].pc = "iVerify" /\ UNCHANGED <<rootfs, running, volume, bundle>>
  BY DEF ImportVerify, Is
<1>2. PICK r0 \in Rpc : r0 = rpc[s] /\ Carries(r0)
  BY DEF BundleInv, Requests
<1>3. Honest(r0.m) /\ r0.m.members \in Content
  BY <1>1, <1>2 DEF Carries, Honest, Manifest
<1>4. CASE Fails(s)
  BY <1>1, <1>4, FailsDoes DEF Restores
<1>5. CASE Verified(r0.m, r0.chunks) /\ rpc' = [rpc EXCEPT ![s].pc = "iExtract", ![s].todo = There(r0.m.members)]
  <2>1. PICK fs : fs = There(r0.m.members)
    OBVIOUS
  <2>2. fs \subseteq File
    BY <2>1 DEF There
  <2>3. PICK r : r = Req("iExtract", r0.name, r0.all, fs, r0.m, r0.chunks, r0.calm)
    OBVIOUS
  <2>4. /\ r \in Rpc /\ r.pc = "iExtract" /\ r.name = r0.name /\ r.m = r0.m /\ r.calm = r0.calm
        /\ r.todo = fs /\ r.chunks = r0.chunks
    BY <2>2, <2>3, RpcIs DEF Req, Rpc, Pcs
  <2>5. rpc' = [rpc EXCEPT ![s] = r]
    <3>1. PICK r1 : r1 = [r0 EXCEPT !.pc = "iExtract"]
      OBVIOUS
    <3>2. r1 = Req("iExtract", r0.name, r0.all, r0.todo, r0.m, r0.chunks, r0.calm)
      BY <3>1 DEF Req, Rpc
    <3>3. [r1 EXCEPT !.todo = fs] = r
      BY <2>3, <3>2 DEF Req
    <3>4. [[r0 EXCEPT !.pc = "iExtract"] EXCEPT !.todo = fs] = r
      BY <3>1, <3>3
    <3>5. QED
      BY <1>2, <1>5, <2>1, <3>4 DEF BundleInv, Requests
  <2>6. InOrder(r) /\ \A f \in There(r.m.members) : r.chunks[f] = r.m.members[f]
    BY <1>5, <2>1, <2>4 DEF InOrder, Verified
  <2>7. Becomes(s, r) /\ Carries(r)
    BY <1>3, <2>4, <2>5, <2>6 DEF Becomes, Carries
  <2>8. ASSUME r.calm PROVE Kept(s)'
    <3>1. volume[rpc[s].name] = Empty
      BY <1>1, <1>2, <2>4, <2>8 DEF BundleInv, Unshared, Kept, Transfers, Restores
    <3>2. Empty = Only(r.m.members, There(r.m.members) \ r.todo)
      BY <2>1, <2>4 DEF Only, Empty
    <3>3. QED
      BY <1>1, <1>2, <2>4, <2>7, <3>1, <3>2, DoesIs DEF Kept, BundleInv, Restores
  <2>9. QED
    BY <1>1, <1>2, <2>4, <2>7, <2>8, GoesOnDoes, BundleKept, ExportsAre
       DEF Restores, Exports, BundleInv, Stores
<1>6. QED
  BY <1>2, <1>4, <1>5 DEF ImportVerify, Checked

\* The member that is written next: a critical one as long as there is one.
LEMMA NextIs ==
    ASSUME NEW fs \in SUBSET File, fs # {}
    PROVE  \E f \in fs : /\ f = First(NextMembers(fs))
                         /\ ~(fs \subseteq Backup) => f \notin Backup
<1>1. NextMembers(fs) # {} /\ NextMembers(fs) \subseteq fs
  BY DEF NextMembers
<1>2. PICK f \in NextMembers(fs) : f = First(NextMembers(fs))
  BY <1>1 DEF First
<1>3. ~(fs \subseteq Backup) => f \notin Backup
  BY <1>2 DEF NextMembers, Critical
<1>4. QED
  BY <1>1, <1>2, <1>3

LEMMA ImportExtractDoes ==
    ASSUME BundleInv, NEW s \in Slot, ImportExtract(s)
    PROVE  Does(s)
<1>1. rpc[s].pc = "iExtract" /\ rpc[s].todo # {} /\ UNCHANGED <<rootfs, running, bundle>>
  BY DEF ImportExtract, Is
<1>2. PICK r0 \in Rpc : r0 = rpc[s] /\ Carries(r0)
  BY DEF BundleInv, Requests
<1>3. PICK n \in Project : n = r0.name
  BY RpcIs
<1>4. /\ Honest(r0.m) /\ r0.m.members \in Content /\ InOrder(r0)
      /\ \A f \in There(r0.m.members) : r0.chunks[f] = r0.m.members[f]
  BY <1>1, <1>2 DEF Carries, Honest, Manifest
<1>5. PICK f \in r0.todo : /\ f = First(NextMembers(r0.todo))
                           /\ ~(r0.todo \subseteq Backup) => f \notin Backup
  BY <1>1, <1>2, RpcIs, NextIs
<1>6. CASE Fails(s) /\ UNCHANGED volume
  BY <1>1, <1>6, FailsDoes DEF Restores
<1>7. CASE /\ rpc' = [rpc EXCEPT ![s].todo = @ \ {f}]
           /\ volume' = IF Exists(n) THEN [volume EXCEPT ![n][f] = r0.chunks[f]] ELSE volume
  <2>1. PICK fs : fs = r0.todo \ {f}
    OBVIOUS
  <2>2. PICK r : r = Req("iExtract", n, r0.all, fs, r0.m, r0.chunks, r0.calm)
    OBVIOUS
  <2>3. /\ r \in Rpc /\ r.pc = "iExtract" /\ r.name = n /\ r.m = r0.m /\ r.calm = r0.calm
        /\ r.todo = fs /\ r.chunks = r0.chunks
    BY <2>1, <2>2, RpcIs DEF Req, Rpc, Pcs
  <2>4. rpc' = [rpc EXCEPT ![s] = r]
    <3>1. r0 = Req("iExtract", n, r0.all, r0.todo, r0.m, r0.chunks, r0.calm)
      BY <1>1, <1>2, <1>3, RpcIs
    <3>2. [r0 EXCEPT !.todo = fs] = r
      BY <2>2, <3>1 DEF Req
    <3>3. QED
      BY <1>2, <1>7, <2>1, <3>2
  <2>5. InOrder(r)
    BY <1>4, <1>5, <2>1, <2>3 DEF InOrder
  <2>6. Becomes(s, r) /\ Carries(r)
    BY <1>4, <2>3, <2>4, <2>5 DEF Becomes, Carries
  <2>7. PICK v : v = r0.chunks[f]
    OBVIOUS
  <2>8. v \in 0..MaxVersion /\ v = r0.m.members[f] /\ f \in File
    BY <1>4, <1>5, <2>7, RpcIs DEF InOrder, Content, There
  <2>9. volume' \in [Project -> Content] /\ \A p \in Project \ {n} : volume'[p] = volume[p]
    BY <1>7, <2>7, <2>8 DEF BundleInv, Stores, Content
  <2>10. ASSUME r.calm, Private(s) PROVE Kept(s)'
    <3>1. PICK held \in Content : held = volume[n]
      BY DEF BundleInv, Stores
    <3>2. held = Only(r0.m.members, There(r0.m.members) \ r0.todo)
      BY <1>1, <1>2, <1>3, <2>3, <2>10, <3>1 DEF BundleInv, Unshared, Kept, Transfers, Restores
    <3>3. volume'[n] = [held EXCEPT ![f] = v]
      BY <1>2, <1>3, <1>7, <2>7, <2>10, <3>1 DEF Private, BundleInv, Stores
    <3>4. [held EXCEPT ![f] = v] = Only(r0.m.members, There(r0.m.members) \ fs)
      <4>1. f \in There(r0.m.members)
        BY <1>4, <1>5 DEF InOrder
      <4>2. QED
        BY <2>1, <2>8, <3>2, <4>1 DEF Only
    <3>5. QED
      <4>1. rpc'[s] = r /\ volume'[r.name] = Only(r.m.members, There(r.m.members) \ r.todo)
        BY <2>3, <2>6, <3>3, <3>4, DoesIs DEF BundleInv
      <4>2. QED
        BY <2>3, <4>1 DEF Kept, Restores
  <2>11. QED
    BY <1>1, <1>2, <1>3, <2>3, <2>6, <2>9, <2>10, GoesOnDoes, BundleKept, ExportsAre
       DEF Restores, Exports
<1>8. QED
  BY <1>2, <1>3, <1>5, <1>6, <1>7 DEF ImportExtract

LEMMA AdoptCopyDoes ==
    ASSUME BundleInv, NEW s \in Slot, AdoptCopy(s)
    PROVE  Does(s)
<1>1. rpc[s].pc = "aCopy" /\ rpc[s].todo # {} /\ UNCHANGED <<rootfs, running, bundle>>
  BY DEF AdoptCopy, Is
<1>2. PICK r0 \in Rpc : r0 = rpc[s]
  BY DEF BundleInv, Requests
<1>3. PICK n \in Project : n = r0.name
  BY RpcIs
<1>4. PICK f \in File : f = First(r0.todo)
  BY <1>1, <1>2, RpcIs DEF First
<1>5. PICK fs : fs = r0.todo \ {f}
  OBVIOUS
<1>6. PICK r : r = Req("aCopy", n, r0.all, fs, r0.m, r0.chunks, r0.calm)
  OBVIOUS
<1>7. r \in Rpc /\ r.pc = "aCopy" /\ r.name = n /\ r.calm = r0.calm
  BY <1>5, <1>6, RpcIs DEF Req, Rpc, Pcs
<1>8. rpc' = [rpc EXCEPT ![s] = r]
  <2>1. r0 = Req("aCopy", n, r0.all, r0.todo, r0.m, r0.chunks, r0.calm)
    BY <1>1, <1>2, <1>3, RpcIs
  <2>2. [r0 EXCEPT !.todo = fs] = r
    BY <1>6, <2>1 DEF Req
  <2>3. rpc' = [rpc EXCEPT ![s].todo = @ \ {f}]
    BY <1>2, <1>4 DEF AdoptCopy
  <2>4. QED
    BY <1>2, <1>5, <2>2, <2>3
<1>9. Becomes(s, r) /\ Carries(r)
  BY <1>7, <1>8 DEF Becomes, Carries
<1>10. CopiesFile(n, f)
  BY <1>2, <1>3, <1>4 DEF AdoptCopy
<1>11. volume' \in [Project -> Content] /\ \A p \in Project \ {n} : volume'[p] = volume[p]
  <2>1. CASE volume' = volume
    BY <2>1 DEF BundleInv, Stores
  <2>2. CASE volume' = [volume EXCEPT ![n][f] = 1]
    <3>1. PICK held \in Content : held = volume[n]
      BY DEF BundleInv, Stores
    <3>2. PICK h : h = [held EXCEPT ![f] = 1]
      OBVIOUS
    <3>3. h \in Content
      BY <3>2, BundleConstants DEF Content
    <3>4. volume' = [volume EXCEPT ![n] = h]
      BY <2>2, <3>1, <3>2
    <3>5. QED
      BY <3>3, <3>4 DEF BundleInv, Stores
  <2>3. QED
    BY <1>10, <2>1, <2>2 DEF CopiesFile
<1>12. Kept(s)'
  BY <1>7, <1>9, DoesIs DEF Kept, BundleInv, Restores
<1>13. QED
  BY <1>1, <1>2, <1>3, <1>7, <1>9, <1>11, <1>12, GoesOnDoes, BundleKept, ExportsAre
     DEF Exports

LEMMA AdoptEndsDoes ==
    ASSUME BundleInv, NEW s \in Slot, AdoptEnds(s)
    PROVE  Does(s)
  BY EndsDoes, FailsDoes DEF AdoptEnds, Is

LEMMA CleanupDoes ==
    ASSUME BundleInv, NEW s \in Slot, Cleanup(s)
    PROVE  Does(s)
<1>1. rpc[s].pc = "cleanup" /\ Ends(s) /\ UNCHANGED bundle
  BY DEF Cleanup, Is
<1>2. PICK n \in Project : n = rpc[s].name
  BY RpcIs DEF BundleInv, Requests
<1>3. CASE UNCHANGED <<rootfs, running, volume>>
  BY <1>1, <1>3, EndsDoes
<1>4. CASE Deletes(n)
  <2>1. PICK r : r = NoRpc(AnyProject)
    OBVIOUS
  <2>2. Becomes(s, r) /\ r.pc = "idle"
    BY <1>1, <2>1, AnyProjectIs, NoRpcIs DEF Ends, Becomes
  <2>3. Carries(r) /\ rpc'[s] = r
    BY <2>2, DoesIs DEF Carries, BundleInv
  <2>4. Stores' /\ running' \subseteq running
    BY <1>4, EmptyIs DEF Deletes, BundleInv, Stores
  <2>5. Spares(s)
    BY <1>1, <1>2, <1>4, <2>2, <2>3 DEF Spares, Deletes, Harmless, Exports, BundleInv, Stores
  <2>6. Unshared(s)'
    BY <2>2, <2>3 DEF Unshared, Transfers, Exports, Restores
  <2>7. QED
    BY <1>1, <2>2, <2>3, <2>4, <2>5, <2>6, BundleKept DEF Does
<1>5. QED
  BY <1>2, <1>3, <1>4 DEF Cleanup

-------------------------------------------------------------------------------
(* Bundles: what else happens to a project, and the invariant *)

LEMMA DisturbedIs ==
    ASSUME Requests, NEW n, NEW ss, NEW D, D = Disturbed(n, ss)
    PROVE  /\ D \in [Slot -> Rpc]
           /\ \A t \in Slot :
                /\ D[t].pc = rpc[t].pc /\ D[t].name = rpc[t].name /\ D[t].todo = rpc[t].todo
                /\ D[t].m = rpc[t].m /\ D[t].chunks = rpc[t].chunks
                /\ D[t] = rpc[t] \/ ~D[t].calm
                /\ t \notin ss /\ rpc[t].name = n /\ rpc[t].pc # "idle" => ~D[t].calm
                /\ t \in ss => D[t] = rpc[t]
<1>1. ASSUME NEW t \in Slot
      PROVE  /\ D[t] \in Rpc
             /\ D[t].pc = rpc[t].pc /\ D[t].name = rpc[t].name /\ D[t].todo = rpc[t].todo
             /\ D[t].m = rpc[t].m /\ D[t].chunks = rpc[t].chunks
             /\ D[t] = rpc[t] \/ ~D[t].calm
             /\ t \notin ss /\ rpc[t].name = n /\ rpc[t].pc # "idle" => ~D[t].calm
             /\ t \in ss => D[t] = rpc[t]
  <2>1. PICK r0 \in Rpc : r0 = rpc[t]
    BY DEF Requests
  <2>2. CASE InTransfer(t, n) /\ t \notin ss
    <3>1. PICK b \in BOOLEAN : ~b /\ b = FALSE
      OBVIOUS
    <3>2. D[t] = [r0 EXCEPT !.calm = b]
      BY <2>1, <2>2, <3>1 DEF Disturbed
    <3>3. D[t] = Req(r0.pc, r0.name, r0.all, r0.todo, r0.m, r0.chunks, b)
      BY <3>2 DEF Req, Rpc
    <3>4. D[t] \in Rpc /\ ~D[t].calm
      BY <3>1, <3>3, RpcIs DEF Req, Rpc
    <3>5. /\ D[t].pc = r0.pc /\ D[t].name = r0.name /\ D[t].todo = r0.todo
          /\ D[t].m = r0.m /\ D[t].chunks = r0.chunks
      BY <3>3 DEF Req
    <3>6. QED
      BY <2>1, <2>2, <3>4, <3>5
  <2>3. CASE ~(InTransfer(t, n) /\ t \notin ss)
    <3>1. D[t] = rpc[t]
      BY <2>3 DEF Disturbed
    <3>2. QED
      BY <2>1, <2>3, <3>1 DEF InTransfer
  <2>4. QED
    BY <2>2, <2>3
<1>2. D = [t \in Slot |-> D[t]]
  BY DEF Disturbed
<1>3. D \in [Slot -> Rpc]
  BY <1>1, <1>2
<1>4. QED
  BY <1>1, <1>3

\* Whatever happens to n, who is on another project keeps it.
LEMMA OthersKeep ==
    ASSUME BundleInv, NEW n, NEW t \in Slot,
           ~rpc'[t].calm \/ (rpc'[t] = rpc[t] /\ (rpc[t].name # n \/ rpc[t].pc = "idle")),
           \A u \in Slot : /\ rpc'[u].name = rpc[u].name
                           /\ rpc[u].pc \in Harmless => rpc'[u].pc \in Harmless,
           \A p \in Project \ {n} : /\ rootfs'[p] = rootfs[p] /\ volume'[p] = volume[p]
                                    /\ p \in running' => p \in running
    PROVE  Unshared(t)'
<1>1. CASE ~rpc'[t].calm
  BY <1>1 DEF Unshared
<1>2. CASE rpc'[t] = rpc[t] /\ ~(rpc[t].calm /\ rpc[t].pc \in Transfers)
  BY <1>2 DEF Unshared
<1>3. CASE rpc'[t] = rpc[t] /\ rpc[t].name # n /\ rpc[t].calm /\ rpc[t].pc \in Transfers
  <2>1. PICK p \in Project \ {n} : p = rpc[t].name
    BY <1>3, RpcIs DEF BundleInv, Requests
  <2>2. Unshared(t) /\ Private(t)
    BY <1>3 DEF BundleInv, Unshared
  <2>3. rootfs'[p] = rootfs[p] /\ volume'[p] = volume[p] /\ p \notin running'
    BY <2>1, <2>2 DEF Private
  <2>4. \A u \in Slot \ {t} : rpc'[u].name = p => rpc'[u].pc \in Harmless
    BY <2>1, <2>2 DEF Private
  <2>5. QED
    BY <1>3, <2>1, <2>2, <2>3, <2>4, PrivateStays
<1>4. rpc[t].pc = "idle" => rpc[t].pc \notin Transfers
  BY DEF Transfers, Exports, Restores
<1>5. QED
  BY <1>1, <1>2, <1>3, <1>4

LEMMA CarriesStays ==
    ASSUME NEW r1, NEW r2, Carries(r1), r2.pc = r1.pc, r2.todo = r1.todo, r2.m = r1.m, r2.chunks = r1.chunks
    PROVE  Carries(r2)
  BY DEF Carries, InOrder

\* Carries says nothing of the state but of the request.
LEMMA RequestsAre ==
    ASSUME rpc' \in [Slot -> Rpc], \A t \in Slot : Carries(rpc'[t])
    PROVE  Requests'
<1>1. \A t \in Slot : Carries(rpc[t])'
  BY DEF Carries, Honest, InOrder, There
<1>2. QED
  BY <1>1 DEF Requests

LEMMA DisturbsKeeps ==
    ASSUME BundleInv, NEW n, Disturbs(n), Stores', UNCHANGED bundle,
           \A p \in Project \ {n} : /\ rootfs'[p] = rootfs[p] /\ volume'[p] = volume[p]
                                    /\ p \in running' => p \in running
    PROVE  BundleInv'
<1>1. PICK D : D = Disturbed(n, {})
  OBVIOUS
<1>2. rpc' = D
  BY <1>1 DEF Disturbs
<1>3. /\ rpc' \in [Slot -> Rpc]
      /\ \A t \in Slot :
           /\ rpc'[t].pc = rpc[t].pc /\ rpc'[t].name = rpc[t].name /\ rpc'[t].todo = rpc[t].todo
           /\ rpc'[t].m = rpc[t].m /\ rpc'[t].chunks = rpc[t].chunks
           /\ rpc'[t] = rpc[t] \/ ~rpc'[t].calm
           /\ rpc[t].name = n /\ rpc[t].pc # "idle" => ~rpc'[t].calm
  BY <1>1, <1>2, DisturbedIs DEF BundleInv
<1>4. Requests'
  BY <1>3, CarriesStays, RequestsAre DEF BundleInv, Requests
<1>5. ASSUME NEW t \in Slot PROVE Unshared(t)'
  BY <1>3, OthersKeep
<1>6. QED
  BY <1>4, <1>5, BundleKept DEF BundleInv

LEMMA ExportPackagesKeeps ==
    ASSUME BundleInv, NEW s \in Slot, ExportPackages(s)
    PROVE  BundleInv'
<1>1. rpc[s].pc = "ePackages" /\ UNCHANGED <<rootfs, running, bundle>>
  BY DEF ExportPackages, Is
<1>2. CASE Turns(s, "ePlan") /\ UNCHANGED volume
  <2>1. PICK r : /\ Becomes(s, r) /\ r.pc = "ePlan" /\ r.name = rpc[s].name /\ r.todo = rpc[s].todo
                 /\ r.m = rpc[s].m /\ r.chunks = rpc[s].chunks /\ r.calm = rpc[s].calm
    BY <1>2, TurnsTo DEF BundleInv, Pcs
  <2>2. Carries(r)
    BY <1>1, <2>1 DEF Carries, BundleInv, Requests
  <2>3. QED
    BY <1>1, <1>2, <2>1, <2>2, ExportGoesOn, BundleKept, DoesKeeps DEF Exports
<1>3. ASSUME NEW n, n = rpc[s].name, Exists(n), volume' = [volume EXCEPT ![n][Packages] = Declared(n)],
             rpc' = [Disturbed(n, {s}) EXCEPT ![s].pc = "ePlan"]
      PROVE  BundleInv'
  <2>1. PICK D : D = Disturbed(n, {s})
    OBVIOUS
  <2>2. PICK r0 \in Rpc : r0 = rpc[s] /\ Carries(r0) /\ n \in Project
    BY <1>3, RpcIs DEF BundleInv, Requests
  <2>3. D \in [Slot -> Rpc] /\ D[s] = r0
    BY <2>1, <2>2, DisturbedIs DEF BundleInv
  <2>4. PICK r : r = Req("ePlan", n, r0.all, r0.todo, r0.m, r0.chunks, r0.calm)
    OBVIOUS
  <2>5. /\ r \in Rpc /\ r.pc = "ePlan" /\ r.name = n /\ r.m = r0.m /\ r.calm = r0.calm
    BY <2>2, <2>4, RpcIs DEF Req, Rpc, Pcs
  <2>6. rpc' = [D EXCEPT ![s] = r]
    <3>1. [r0 EXCEPT !.pc = "ePlan"] = r
      BY <1>3, <2>2, <2>4 DEF Req, Rpc
    <3>2. QED
      BY <1>3, <2>1, <2>3, <3>1
  <2>7. /\ rpc' \in [Slot -> Rpc] /\ rpc'[s] = r
        /\ \A t \in Slot \ {s} : rpc'[t] = D[t]
    BY <2>3, <2>5, <2>6
  <2>8. \A t \in Slot \ {s} :
          /\ rpc'[t].pc = rpc[t].pc /\ rpc'[t].name = rpc[t].name /\ rpc'[t].todo = rpc[t].todo
          /\ rpc'[t].m = rpc[t].m /\ rpc'[t].chunks = rpc[t].chunks
          /\ rpc'[t] = rpc[t] \/ ~rpc'[t].calm
          /\ rpc[t].name = n /\ rpc[t].pc # "idle" => ~rpc'[t].calm
    <3>1. \A t \in Slot \ {s} : t \notin {s}
      OBVIOUS
    <3>2. QED
      BY <2>1, <2>7, <3>1, DisturbedIs DEF BundleInv
  <2>9. Carries(r)
    BY <1>1, <2>2, <2>5 DEF Carries
  <2>10. Requests'
    <3>1. ASSUME NEW t \in Slot PROVE Carries(rpc'[t])
      <4>1. CASE t = s
        BY <2>7, <2>9, <4>1
      <4>2. CASE t # s
        BY <2>8, <4>2, CarriesStays DEF BundleInv, Requests
      <4>3. QED
        BY <4>1, <4>2
    <3>2. QED
      BY <2>7, <3>1, RequestsAre
  <2>11. volume' \in [Project -> Content] /\ \A p \in Project \ {n} : volume'[p] = volume[p]
    <3>1. Declared(n) \in 0..MaxVersion
      BY BundleConstants DEF Declared
    <3>2. PICK d : d = Declared(n)
      OBVIOUS
    <3>3. volume' = [volume EXCEPT ![n][Packages] = d] /\ d \in 0..MaxVersion
      BY <1>3, <3>1, <3>2
    <3>4. QED
      BY <2>2, <3>3 DEF BundleInv, Stores, Content
  <2>12. Stores'
    BY <1>1, <2>11 DEF BundleInv, Stores
  <2>13. \A u \in Slot : /\ rpc'[u].name = rpc[u].name
                         /\ rpc[u].pc \in Harmless => rpc'[u].pc \in Harmless
    BY <1>3, <2>5, <2>7, <2>8 DEF Harmless, Exports
  <2>14. ASSUME NEW t \in Slot PROVE Unshared(t)'
    <3>1. CASE t = s
      <4>1. SUFFICES ASSUME r.calm PROVE Private(s)' /\ Kept(s)'
        BY <2>7, <3>1 DEF Unshared
      <4>2. Private(s)
        BY <1>1, <2>2, <2>5, <4>1 DEF BundleInv, Unshared, Transfers, Exports
      <4>3. Exists(n) /\ n \notin running /\ \A u \in Slot \ {s} : rpc[u].name = n => rpc[u].pc \in Harmless
        BY <1>3, <4>2 DEF Private
      <4>4. /\ rpc'[s].name = n /\ rootfs'[n] = rootfs[n] /\ n \notin running'
            /\ \A u \in Slot \ {s} : rpc'[u].name = n => rpc'[u].pc \in Harmless
        BY <1>1, <2>5, <2>7, <2>13, <4>3
      <4>5. Private(s)'
        BY <4>3, <4>4 DEF Private, Exists
      <4>6. Kept(s)'
        BY <2>5, <2>7 DEF Kept, Restores
      <4>7. QED
        BY <4>5, <4>6
    <3>2. CASE t # s
      BY <1>1, <2>8, <2>11, <2>13, <3>2, OthersKeep
    <3>3. QED
      BY <3>1, <3>2
  <2>15. QED
    BY <1>1, <2>10, <2>12, <2>14, BundleKept DEF BundleInv
<1>4. QED
  BY <1>2, <1>3 DEF ExportPackages

LEMMA ElsewhereKeeps ==
    ASSUME BundleInv, NEW n \in Project, Start(n) \/ Stop(n) \/ Delete(n)
    PROVE  BundleInv'
<1>1. CASE Start(n)
  <2>1. Stores'
    BY <1>1 DEF Start, Exists, BundleInv, Stores
  <2>2. QED
    BY <1>1, <2>1, DisturbsKeeps DEF Start
<1>2. CASE Stop(n)
  <2>1. Stores'
    BY <1>2 DEF Stop, BundleInv, Stores
  <2>2. Requests'
    BY <1>2, RequestsAre DEF Stop, BundleInv, Requests
  <2>3. ASSUME NEW t \in Slot PROVE Unshared(t)'
    BY <1>2 DEF Stop, BundleInv, Unshared, Private, Kept, Exists
  <2>4. QED
    BY <1>2, <2>1, <2>2, <2>3, BundleKept DEF Stop, BundleInv
<1>3. CASE Delete(n)
  <2>1. Stores'
    BY <1>3, EmptyIs DEF Delete, Deletes, BundleInv, Stores
  <2>2. QED
    BY <1>3, <2>1, DisturbsKeeps DEF Delete, Deletes, BundleInv, Stores
<1>4. QED
  BY <1>1, <1>2, <1>3

LEMMA SessionWritesKeeps ==
    ASSUME BundleInv, NEW n \in Project, NEW f \in File, SessionWrites(n, f)
    PROVE  BundleInv'
<1>1. /\ UNCHANGED <<rootfs, running, bundle, rpc>> /\ n \in running
      /\ volume' = [volume EXCEPT ![n][f] = volume[n][f] + 1] /\ volume[n][f] < MaxVersion
  BY DEF SessionWrites
<1>2. PICK v : v = volume[n][f] + 1
  OBVIOUS
<1>3. v \in 0..MaxVersion
  BY <1>1, <1>2, BundleConstants DEF BundleInv, Stores, Content
<1>4. Stores' /\ \A p \in Project \ {n} : volume'[p] = volume[p]
  BY <1>1, <1>2, <1>3 DEF BundleInv, Stores, Content
<1>5. Requests'
  BY <1>1, RequestsAre DEF BundleInv, Requests
<1>6. ASSUME NEW t \in Slot PROVE Unshared(t)'
  <2>1. CASE ~(rpc[t].calm /\ rpc[t].pc \in Transfers)
    BY <1>1, <2>1 DEF Unshared
  <2>2. CASE rpc[t].calm /\ rpc[t].pc \in Transfers
    <3>1. Private(t)
      BY <2>2 DEF BundleInv, Unshared
    <3>2. rpc[t].name # n
      BY <1>1, <3>1 DEF Private
    <3>3. QED
      BY <1>1, <1>4, <3>2, OthersKeep
  <2>3. QED
    BY <2>1, <2>2
<1>7. QED
  BY <1>1, <1>4, <1>5, <1>6, BundleKept DEF BundleInv

LEMMA BundleDamagedKeeps ==
    ASSUME BundleInv, NEW f \in File, NEW v \in {0, MaxVersion}, BundleDamaged(f, v)
    PROVE  BundleInv'
<1>1. UNCHANGED <<rootfs, running, volume, rpc>>
  BY DEF BundleDamaged
<1>2. PICK cs : cs = [bundle.chunks EXCEPT ![f] = v]
  OBVIOUS
<1>3. bundle' = [m |-> bundle.m, chunks |-> cs]
  BY <1>2 DEF BundleDamaged, BundleInv, BundleInv1
<1>4. f \notin Credential
  BY DEF BundleDamaged, BundleInv, BundleInv1
<1>5. cs \in Content /\ \A g \in Credential : cs[g] = 0
  BY <1>2, <1>4, BundleConstants DEF BundleInv, BundleInv1, Content
<1>6. BundleInv1'
  BY <1>3, <1>5 DEF BundleInv, BundleInv1, Honest
<1>7. Stores' /\ \A t \in Slot : Unshared(t)'
  BY <1>1 DEF BundleInv, Stores, Unshared, Private, Kept, Exists
<1>8. Requests'
  BY <1>1, RequestsAre DEF BundleInv, Requests
<1>9. QED
  BY <1>6, <1>7, <1>8 DEF BundleInv

\* Nobody has anything in hand.
LEMMA AllIdle ==
    ASSUME Stores', BundleInv1', rpc' = [s \in Slot |-> NoRpc(AnyProject)]
    PROVE  BundleInv'
<1>1. \A s \in Slot : rpc'[s] \in Rpc /\ rpc'[s].pc = "idle"
  BY AnyProjectIs, NoRpcIs
<1>2. rpc' \in [Slot -> Rpc]
  BY AnyProjectIs, NoRpcIs
<1>3. Requests'
  BY <1>1, <1>2, RequestsAre DEF Carries
<1>4. \A s \in Slot : Unshared(s)'
  BY <1>1 DEF Unshared, Transfers, Exports, Restores
<1>5. QED
  BY <1>3, <1>4 DEF BundleInv

LEMMA BundleInitHolds ==
    ASSUME BundleInit
    PROVE  BundleInv
<1>1. Stores
  <2>1. \A n \in Project, f \in File : (IF n = AnyProject /\ f \in Held THEN 1 ELSE 0) \in 0..MaxVersion
    BY BundleConstants
  <2>2. volume \in [Project -> Content]
    BY <2>1 DEF BundleInit, Content
  <2>3. QED
    BY <2>2, BundleConstants DEF BundleInit, Stores
<1>2. BundleInv1
  <2>1. PICK v \in {1, 2} :
          bundle = [m |-> [schema |-> v, chain |-> NoChain, digest |-> BaseChain,
                           members |-> Empty, was |-> Empty, calm |-> TRUE], chunks |-> Empty]
    BY DEF BundleInit
  <2>2. PICK m : m = [schema |-> v, chain |-> NoChain, digest |-> BaseChain,
                      members |-> Empty, was |-> Empty, calm |-> TRUE]
    OBVIOUS
  <2>3. m \in Manifest
    BY <2>2, EmptyIs, BundleConstants DEF Manifest
  <2>4. Honest(m)
    BY <2>2, <2>3, EmptyIs, BundleConstants DEF Honest
  <2>5. bundle = [m |-> m, chunks |-> Empty]
    BY <2>1, <2>2
  <2>6. QED
    BY <2>3, <2>4, <2>5, EmptyIs, BundleConstants DEF BundleInv1
<1>3. \A s \in Slot : rpc[s] = NoRpc(AnyProject) /\ rpc[s].pc = "idle"
  BY AnyProjectIs, NoRpcIs DEF BundleInit
<1>4. Requests
  <2>1. rpc \in [Slot -> Rpc]
    BY AnyProjectIs, NoRpcIs DEF BundleInit
  <2>2. \A s \in Slot : Carries(rpc[s])
    BY <1>3 DEF Carries
  <2>3. QED
    BY <2>1, <2>2 DEF Requests
<1>5. \A s \in Slot : Unshared(s)
  BY <1>3 DEF Unshared, Transfers, Exports, Restores
<1>6. QED
  BY <1>1, <1>2, <1>4, <1>5 DEF BundleInv

LEMMA BundleNextHolds ==
    ASSUME BundleInv, [BundleNext]_bundleVars
    PROVE  BundleInv'
<1>1. CASE UNCHANGED bundleVars
  <2>1. Stores' /\ \A t \in Slot : Unshared(t)'
    BY <1>1 DEF bundleVars, BundleInv, Stores, Unshared, Private, Kept, Exists
  <2>2. Requests'
    BY <1>1, RequestsAre DEF bundleVars, BundleInv, Requests
  <2>3. QED
    BY <1>1, <2>1, <2>2, BundleKept DEF bundleVars, BundleInv
<1>2. ASSUME NEW s \in Slot, NEW n \in Origin, NEW all \in BOOLEAN, BeginExport(s, n, all)
      PROVE  BundleInv'
  BY <1>2, BundleConstants, BeginExportDoes, DoesKeeps
<1>3. ASSUME NEW s \in Slot, NEW n \in Target,
             BeginImport(s, n) \/ \E repository \in BOOLEAN : BeginAdopt(s, n, repository)
      PROVE  BundleInv'
  BY <1>3, BundleConstants, BeginOthersDoes, DoesKeeps
<1>4. ASSUME NEW s \in Slot, Handler(s)
      PROVE  BundleInv'
  <2>1. CASE ExportPackages(s)
    BY <2>1, ExportPackagesKeeps
  <2>2. CASE ExportIdentity(s) \/ ExportPlan(s) \/ ExportRead(s) \/ ExportCreate(s)
             \/ ExportManifest(s) \/ ExportChunk(s) \/ ExportEnds(s)
    BY <2>2, ExportIdentityDoes, ExportPlanDoes, ExportReadDoes, ExportCreateDoes, ExportManifestDoes,
       ExportChunkDoes, ExportEndsDoes, DoesKeeps
  <2>3. CASE ImportCreate(s) \/ ImportCheck(s) \/ ImportManifest(s) \/ ImportChunk(s)
             \/ ImportVerify(s) \/ ImportExtract(s) \/ ImportDone(s)
    BY <2>3, ImportCreateDoes, ImportCheckDoes, ImportManifestDoes, ImportChunkDoes, ImportVerifyDoes,
       ImportExtractDoes, ExportEndsDoes, DoesKeeps
  <2>4. CASE Cleanup(s) \/ AdoptCreate(s) \/ AdoptCopy(s) \/ AdoptEnds(s)
    BY <2>4, CleanupDoes, ImportCreateDoes, AdoptCopyDoes, AdoptEndsDoes, DoesKeeps
  <2>5. QED
    BY <1>4, <2>1, <2>2, <2>3, <2>4 DEF Handler
<1>5. ASSUME NEW s \in Slot, Cancel(s)
      PROVE  BundleInv'
  BY <1>5, ExportEndsDoes, DoesKeeps
<1>6. ASSUME NEW n \in Project, Start(n) \/ Stop(n) \/ Delete(n)
      PROVE  BundleInv'
  BY <1>6, ElsewhereKeeps
<1>7. ASSUME NEW n \in Origin, NEW f \in Written, SessionWrites(n, f)
      PROVE  BundleInv'
  BY <1>7, BundleConstants, SessionWritesKeeps
<1>8. ASSUME NEW f \in File, NEW v \in {0, MaxVersion}, BundleDamaged(f, v)
      PROVE  BundleInv'
  BY <1>8, BundleDamagedKeeps
<1>9. ASSUME DaemonRestarts
      PROVE  BundleInv'
  BY <1>9, AllIdle, BundleKept DEF DaemonRestarts, BundleInv, Stores
<1>10. QED
  BY <1>1, <1>2, <1>3, <1>4, <1>5, <1>6, <1>7, <1>8, <1>9, BundleConstants DEF BundleNext

LEMMA BundleInvariant == BundleSpec => []BundleInv
<1>1. BundleInit => BundleInv
  BY BundleInitHolds
<1>2. BundleInv /\ [BundleNext]_bundleVars => BundleInv'
  BY BundleNextHolds
<1>3. QED
  BY <1>1, <1>2, PTL DEF BundleSpec

\* The state stays well-formed: a project that runs has a record, a volume holds a
\* version of every path, and a request is at one of the handlers' steps (project.rs,
\* bundle/export.rs, bundle/import.rs).
THEOREM BundleTypes == BundleSpec => []BundleTypeOK
<1>1. BundleInv => BundleTypeOK
  BY DEF BundleInv, Stores, BundleInv1, Requests, BundleTypeOK
<1>2. QED
  BY <1>1, BundleInvariant, PTL

\* What a restore has put on its volume when it ends is what the exported project held
\* when its files were listed, for any number of projects, files, versions and requests,
\* and whatever else wrote the bundle's path, damaged it or wrote other projects
\* meanwhile (export.rs, import.rs 1-15).
THEOREM RestoresAsPacked == BundleSpec => []RestoredAsPacked
<1>1. ASSUME BundleInv, NEW s \in Slot, Is(s, "iExtract"), rpc[s].todo = {}, rpc[s].calm, rpc[s].m.calm
      PROVE  volume[rpc[s].name] = rpc[s].m.was
  <2>1. PICK r \in Rpc : r = rpc[s] /\ Carries(r) /\ r.pc = "iExtract" /\ r.todo = {}
    BY <1>1 DEF BundleInv, Requests, Is
  <2>2. volume[r.name] = Only(r.m.members, There(r.m.members) \ r.todo)
    BY <1>1, <2>1 DEF BundleInv, Unshared, Kept, Transfers, Restores
  <2>3. r.m.was = r.m.members /\ r.m.members \in Content
    BY <1>1, <2>1 DEF Carries, Honest, Manifest
  <2>4. Only(r.m.members, There(r.m.members)) = r.m.members
    BY <2>3 DEF Only, There, Content
  <2>5. QED
    BY <2>1, <2>2, <2>3, <2>4
<1>2. BundleInv => RestoredAsPacked
  BY <1>1 DEF RestoredAsPacked
<1>3. QED
  BY <1>2, BundleInvariant, PTL

\* However early a restore stops, the volume has no file of .nemr-state/backups while a
\* member outside them is missing (extract, import.rs 230).
THEOREM WritesSessionFirst == BundleSpec => []SessionBeforeCaches
<1>1. ASSUME BundleInv, NEW s \in Slot, Is(s, "iExtract"), rpc[s].calm
      PROVE  \/ There(volume[rpc[s].name]) \cap Backup = {}
             \/ \A f \in There(rpc[s].m.members) \ Backup : volume[rpc[s].name][f] = rpc[s].m.members[f]
  <2>1. PICK r \in Rpc : r = rpc[s] /\ Carries(r) /\ r.pc = "iExtract"
    BY <1>1 DEF BundleInv, Requests, Is
  <2>2. volume[r.name] = Only(r.m.members, There(r.m.members) \ r.todo)
    BY <1>1, <2>1 DEF BundleInv, Unshared, Kept, Transfers, Restores
  <2>3. InOrder(r) /\ r.m.members \in Content
    BY <2>1 DEF Carries, Honest, Manifest
  <2>4. \A f \in File : volume[r.name][f] = IF f \in There(r.m.members) \ r.todo THEN r.m.members[f] ELSE 0
    BY <2>2, <2>3, OnlyIs
  <2>5. CASE r.todo \subseteq Backup
    BY <2>1, <2>4, <2>5 DEF There
  <2>6. CASE (There(r.m.members) \ r.todo) \cap Backup = {}
    BY <2>1, <2>4, <2>6 DEF There
  <2>7. QED
    BY <2>3, <2>5, <2>6 DEF InOrder
<1>2. BundleInv => SessionBeforeCaches
  BY <1>1 DEF SessionBeforeCaches
<1>3. QED
  BY <1>2, BundleInvariant, PTL

\* No bundle has a credential of a volume among its members or its chunks, with the
\* option that overrides the other rules or without it (policy.rs 116-130).
THEOREM CarriesNoSecret == BundleSpec => []SecretsStay
<1>1. BundleInv => SecretsStay
  BY DEF BundleInv, BundleInv1, Honest, SecretsStay
<1>2. QED
  BY <1>1, BundleInvariant, PTL

-------------------------------------------------------------------------------
(* The helper *)

USE CountsAssumption, NamesAssumption

-------------------------------------------------------------------------------
(* Types *)

EngineTypes ==
    /\ record \in [Name -> BOOLEAN] /\ file \in [Name -> Ino \cup {None}]
    /\ madeFor \in Seq(Name) /\ Len(madeFor) <= MaxIno
    /\ mountDir \in [Name -> BOOLEAN]
KernelTypes ==
    /\ mounts \in [Name -> Seq(Loop)] /\ backing \in [Loop -> Ino \cup {None}]
    /\ clear \subseteq MountedDevices
LockTypes == lock \in [Ino -> Proc \cup {None}]
ReqTypes == req \in [Proc -> Request]
CountTypes == faults \in 0..MaxFault /\ pulled \in BOOLEAN

LEMMA TypeParts ==
    /\ TypeOK <=> EngineTypes /\ KernelTypes /\ LockTypes /\ ReqTypes /\ CountTypes
    /\ TypeOK' <=> EngineTypes' /\ KernelTypes' /\ LockTypes' /\ ReqTypes' /\ CountTypes'
  BY DEF TypeOK, EngineTypes, KernelTypes, LockTypes, ReqTypes, CountTypes

LEMMA KeptTypes ==
    /\ EngineTypes /\ UNCHANGED <<record, disk, mountDir>> => EngineTypes'
    /\ KernelTypes /\ UNCHANGED kernel => KernelTypes'
    /\ LockTypes /\ UNCHANGED lock => LockTypes'
    /\ ReqTypes /\ UNCHANGED req => ReqTypes'
    /\ CountTypes /\ UNCHANGED <<faults, pulled>> => CountTypes'
  BY DEF EngineTypes, KernelTypes, LockTypes, ReqTypes, CountTypes, disk, kernel,
         MountedDevices, InUse

LEMMA AnyNameIsName == AnyName \in Name
  BY DEF AnyName

AllPc == EnginePc \cup MountPc \cup UnmountPc

LEMMA AtTypes ==
    \A op \in Op, n \in Name, pc \in AllPc :
       /\ At(op, n, pc) \in Request
       /\ At(op, n, pc).pc = pc /\ At(op, n, pc).name = n /\ At(op, n, pc).op = op
       /\ At(op, n, pc).fd = None /\ At(op, n, pc).dev = None
  BY DEF At, Request, AllPc

LEMMA IdleTypes == Idle \in Request /\ Idle.pc = "idle" /\ Idle.fd = None /\ Idle.dev = None
  BY AtTypes, AnyNameIsName DEF Idle, Op, AllPc, EnginePc

LEMMA NameOf ==
    ASSUME ReqTypes, NEW p \in Proc
    PROVE  /\ req[p] \in Request
           /\ N(p) \in Name /\ req[p].op \in Op /\ req[p].pc \in AllPc
           /\ req[p].fd \in Ino \cup {None} /\ req[p].dev \in Loop \cup {None}
           /\ req[p].pin \in BOOLEAN /\ req[p].seen \in BOOLEAN
  BY DEF ReqTypes, Request, N, AllPc

LEMMA Sets ==
    ASSUME ReqTypes, NEW p \in Proc, NEW new \in Request, req' = [req EXCEPT ![p] = new]
    PROVE  /\ ReqTypes' /\ req'[p] = new
           /\ \A q \in Proc : q # p => req'[q] = req[q]
  BY DEF ReqTypes

\* A request that is back in the engine, or about to call the helper.
Fresh(p) == req[p].fd = None /\ req[p].pc \in EnginePc \cup {"mOpen", "uOpen"}

\* What a step of p leaves of every other request: the way it stands, and the
\* lock it holds.
Others(p) ==
    /\ ReqTypes'
    /\ \A q \in Proc : q # p => /\ req'[q].pc = req[q].pc /\ req'[q].name = req[q].name
                                /\ req'[q].fd = req[q].fd /\ req'[q].dev = req[q].dev
    /\ LockTypes'
    /\ \A q \in Proc, i \in Ino : q # p /\ lock[i] = q => lock'[i] = q

LEMMA GotoMoves ==
    ASSUME ReqTypes, LockTypes, NEW p \in Proc, NEW pc \in AllPc, Goto(p, pc)
    PROVE  /\ UNCHANGED lock => Others(p)
           /\ ReqTypes' /\ \A q \in Proc : q # p => req'[q] = req[q]
           /\ req'[p].pc = pc /\ req'[p].name = req[p].name /\ req'[p].op = req[p].op
           /\ req'[p].fd = req[p].fd /\ req'[p].dev = req[p].dev
<1> DEFINE new == [req[p] EXCEPT !.pc = pc]
<1>1. new \in Request /\ new.pc = pc /\ new.name = req[p].name /\ new.op = req[p].op
      /\ new.fd = req[p].fd /\ new.dev = req[p].dev
  BY NameOf DEF Request, AllPc
<1>2. req' = [req EXCEPT ![p] = new]
  BY DEF Goto
<1> HIDE DEF new
<1>3. ReqTypes' /\ req'[p] = new /\ \A q \in Proc : q # p => req'[q] = req[q]
  BY <1>1, <1>2, Sets
<1>4. QED
  BY <1>1, <1>3, KeptTypes DEF Others

LEMMA CallMoves ==
    ASSUME ReqTypes, LockTypes, NEW p \in Proc, NEW pc \in EnginePc \cup {"mOpen", "uOpen"},
           Call(p, pc)
    PROVE  /\ UNCHANGED lock => Others(p)
           /\ ReqTypes' /\ \A q \in Proc : q # p => req'[q] = req[q]
           /\ Fresh(p)' /\ req'[p].pc = pc
<1>1. pc \in AllPc
  BY DEF AllPc, MountPc, UnmountPc
<1>2. At(req[p].op, N(p), pc) \in Request
  BY <1>1, AtTypes, NameOf
<1>3. ReqTypes' /\ req'[p] = At(req[p].op, N(p), pc)
      /\ \A q \in Proc : q # p => req'[q] = req[q]
  BY <1>2, Sets DEF Call
<1>4. req'[p].pc = pc /\ req'[p].fd = None
  BY <1>1, <1>3, AtTypes, NameOf
<1>5. QED
  BY <1>3, <1>4, KeptTypes DEF Others, Fresh

LEMMA AnswerMoves ==
    ASSUME ReqTypes, LockTypes, NEW p \in Proc, Answer(p)
    PROVE  /\ UNCHANGED lock => Others(p)
           /\ ReqTypes' /\ \A q \in Proc : q # p => req'[q] = req[q]
           /\ Fresh(p)'
<1>1. ReqTypes' /\ req'[p] = Idle /\ \A q \in Proc : q # p => req'[q] = req[q]
  BY IdleTypes, Sets DEF Answer
<1>2. QED
  BY <1>1, IdleTypes, KeptTypes DEF Others, Fresh, EnginePc

LEMMA Returns ==
    ASSUME ReqTypes, LockTypes, NEW p \in Proc, NEW ok \in BOOLEAN,
           MountReturns(p, ok) \/ UnmountReturns(p, ok)
    PROVE  Others(p) /\ Fresh(p)'
<1>1. Answer(p) \/ Call(p, "commit") \/ Call(p, "uOpen") \/ Call(p, "undoFile") \/ Call(p, "remove")
  <2>1. MountReturns(p, ok) => Call(p, "commit") \/ Call(p, "uOpen") \/ Answer(p)
    BY DEF MountReturns, AfterMount
  <2>2. UnmountReturns(p, ok) => Call(p, "undoFile") \/ Call(p, "remove") \/ Answer(p)
    BY DEF UnmountReturns, AfterUnmount
  <2>3. QED
    BY <2>1, <2>2
<1>2. lock' = Unlocked(p)
  BY DEF MountReturns, UnmountReturns
<1>3. LockTypes' /\ \A q \in Proc, i \in Ino : q # p /\ lock[i] = q => lock'[i] = q
  BY <1>2 DEF LockTypes, Unlocked
<1>4. ReqTypes' /\ Fresh(p)' /\ \A q \in Proc : q # p => req'[q] = req[q]
  BY <1>1, AnswerMoves, CallMoves DEF EnginePc
<1>5. QED
  BY <1>3, <1>4 DEF Others

LEMMA LocksMoves ==
    ASSUME ReqTypes, LockTypes, NEW p \in Proc, NEW pc \in AllPc, Goto(p, pc),
           req[p].fd \in Ino, Locks(p, req[p].fd)
    PROVE  Others(p) /\ lock'[req[p].fd] = p
<1>1. LockTypes' /\ lock'[req[p].fd] = p
      /\ \A q \in Proc, i \in Ino : q # p /\ lock[i] = q => lock'[i] = q
  BY DEF Locks, LockTypes
<1>2. QED
  BY <1>1, GotoMoves DEF Others

-------------------------------------------------------------------------------
(* Files and locks *)

\* A backing file and the one behind a device is one that was allocated, under
\* that name; what is mounted has one behind it.
Files ==
    /\ \A n \in Name : file[n] # None => file[n] \in 1..Len(madeFor) /\ madeFor[file[n]] = n
    /\ \A k \in Loop : backing[k] # None => backing[k] \in 1..Len(madeFor)
    /\ \A k \in MountedDevices : backing[k] # None

Locked == {"mCheck", "mConfigure", "mMount", "mChown", "mDetach"}

\* The helper's descriptor is of a file of its project, and a mount call holds
\* that file's lock from the first look to the last undo.
Good(p) ==
    /\ req[p].fd # None => req[p].fd \in 1..Len(madeFor) /\ madeFor[req[p].fd] = N(p)
    /\ req[p].pc \in Locked => req[p].fd # None /\ lock[req[p].fd] = p
    /\ req[p].pc \in {"mLock", "uLock"} => req[p].fd # None
    /\ req[p].pc \in {"mConfigure", "mMount", "mChown", "mDetach", "uDetach"}
          => req[p].dev \in Loop

MadeKept == \A i \in 1..Len(madeFor) : i \in 1..Len(madeFor') /\ madeFor'[i] = madeFor[i]

LEMMA FreshIsGood == \A p \in Proc : Fresh(p)' => Good(p)'
  BY DEF Fresh, Good, EnginePc, Locked

LEMMA OthersGood ==
    ASSUME TypeOK, NEW p \in Proc, NEW q \in Proc, q # p, Good(q), Others(p), MadeKept
    PROVE  Good(q)'
  BY TypeParts, NameOf DEF Others, MadeKept, Good, N

\* What a step of the request p does to everything but the kernel.
Acts(p) ==
    /\ Others(p) /\ Good(p)' /\ MadeKept
    /\ EngineTypes' /\ CountTypes'
    /\ pulled => pulled'

Below == {ss \in Nat \X Nat : ss[1] < ss[2]}

LEMMA LeastOf ==
    ASSUME NEW S, S \subseteq Nat, S # {}
    PROVE  \E k \in S : \A j \in S : k <= j
<1>1. IsWellFoundedOn(Below, Nat)
  BY NatLessThanWellFounded DEF OpToRel, Below
<1>2. PICK k \in S : \A j \in S : ~(<<j, k>> \in Below)
  BY <1>1, WFMin
<1>3. ASSUME NEW j \in S PROVE k <= j
  <2>1. j \in Nat /\ k \in Nat /\ <<j, k>> \in Nat \X Nat
    OBVIOUS
  <2>2. <<j, k>>[1] = j /\ <<j, k>>[2] = k
    OBVIOUS
  <2>3. ~(j < k)
    BY <1>2, <2>1, <2>2 DEF Below
  <2>4. QED
    BY <2>1, <2>3
<1>4. QED
  BY <1>3

LEMMA ReservesGood ==
    ASSUME TypeOK, NEW p \in Proc, Good(p), Reserves(p), madeFor' = madeFor,
           req[p].pc \in {"mCheck", "mConfigure"}
    PROVE  /\ Others(p) /\ Good(p)'
           /\ \/ Fresh(p)'
              \/ /\ req'[p].pc = "mConfigure" /\ req'[p].fd = req[p].fd
                 /\ UNCHANGED lock
<1>0. ReqTypes /\ LockTypes /\ KernelTypes
  BY TypeParts
<1>1. CASE Free = {}
  BY <1>0, <1>1, Returns, FreshIsGood DEF Reserves
<1>2. CASE Free # {}
  <2> DEFINE new == [req[p] EXCEPT !.dev = Lowest(Free), !.pc = "mConfigure",
                                   !.pin = @ \/ On(p, "mCheck")]
  <2>1. Lowest(Free) \in Loop
    <3>1. \E k \in Free : \A j \in Free : k <= j
      <4>1. Free \subseteq Nat
        BY DEF Free, Loop
      <4>2. QED
        BY <1>2, <4>1, LeastOf
    <3>2. QED
      BY <3>1 DEF Lowest, Free
  <2>2. new \in Request /\ new.pc = "mConfigure" /\ new.fd = req[p].fd
        /\ new.name = req[p].name /\ new.dev \in Loop
    BY <1>0, <2>1, NameOf DEF Request, MountPc, On
  <2>3. req' = [req EXCEPT ![p] = new] /\ UNCHANGED lock
    BY <1>2 DEF Reserves
  <2> HIDE DEF new
  <2>4. ReqTypes' /\ req'[p] = new /\ \A q \in Proc : q # p => req'[q] = req[q]
    BY <1>0, <2>2, <2>3, Sets
  <2>5. Good(p)'
    BY <2>2, <2>3, <2>4 DEF Good, Locked, N
  <2>6. QED
    BY <1>0, <2>2, <2>3, <2>4, <2>5, KeptTypes DEF Others
<1>3. QED
  BY <1>1, <1>2

LEMMA UnchangedEngine ==
    ASSUME TypeOK, UNCHANGED <<record, disk, mountDir>>
    PROVE  MadeKept /\ EngineTypes' /\ madeFor' = madeFor
  BY TypeParts, KeptTypes DEF MadeKept, disk

LEMMA CountsKept ==
    ASSUME TypeOK, pulled' = pulled \/ pulled' = TRUE, Sound \/ Faulty
    PROVE  CountTypes' /\ (pulled => pulled')
<1>1. faults' \in 0..MaxFault
  BY DEF TypeOK, Sound, Faulty
<1>2. pulled' \in BOOLEAN /\ (pulled => pulled')
  BY DEF TypeOK
<1>3. QED
  BY <1>1, <1>2 DEF CountTypes

LEMMA ClearsPulled ==
    ASSUME TypeOK, NEW k, Clears(k)
    PROVE  pulled' = pulled \/ pulled' = TRUE
<1> DEFINE P == \E q \in Proc : On(q, "mMount") /\ req[q].dev = k
<1>1. pulled' = (pulled \/ P)
  BY DEF Clears
<1>2. pulled \in BOOLEAN
  BY DEF TypeOK
<1> HIDE DEF P
<1>3. QED
  BY <1>1, <1>2

LEMMA MountActs ==
    ASSUME TypeOK, Files, NEW p \in Proc, Good(p), MountStep(p) \/ MountLock(p)
    PROVE  Acts(p)
<1>0. ReqTypes /\ LockTypes /\ KernelTypes /\ EngineTypes
  BY TypeParts
<1>1. UNCHANGED <<record, disk, mountDir>> /\ (Sound \/ Faulty)
  BY DEF MountStep, MountLock, MountOpen, MountCheck, MountConfigure, MountMount, MountChown,
         MountDetach, Sound
<1>2. pulled' = pulled \/ pulled' = TRUE
  <2>1. MountDetach(p) => pulled' = pulled \/ pulled' = TRUE
    BY ClearsPulled DEF MountDetach
  <2>2. MountDetach(p) \/ pulled' = pulled
    BY DEF MountStep, MountOpen, MountLock, MountCheck, MountConfigure, MountMount, MountChown
  <2>3. QED
    BY <2>1, <2>2
<1>3. MadeKept /\ EngineTypes' /\ madeFor' = madeFor /\ CountTypes' /\ (pulled => pulled')
  BY <1>1, <1>2, UnchangedEngine, CountsKept
<1> SUFFICES Others(p) /\ Good(p)'
  BY <1>3 DEF Acts
<1>4. CASE MountOpen(p)
  <2>1. CASE file[N(p)] = None
    BY <1>0, <1>4, <2>1, Returns, FreshIsGood DEF MountOpen
  <2>2. CASE file[N(p)] # None
    <3> DEFINE new == [req[p] EXCEPT !.fd = file[N(p)], !.pc = "mLock"]
    <3>1. file[N(p)] \in Ino /\ N(p) \in Name
      BY <1>0, <2>2, NameOf DEF EngineTypes
    <3>2. new \in Request /\ new.pc = "mLock" /\ new.fd = file[N(p)] /\ new.name = N(p)
      BY <1>0, <3>1, NameOf DEF Request, MountPc, N
    <3>3. req' = [req EXCEPT ![p] = new] /\ UNCHANGED lock
      BY <1>4, <2>2 DEF MountOpen
    <3> HIDE DEF new
    <3>4. ReqTypes' /\ req'[p] = new /\ \A q \in Proc : q # p => req'[q] = req[q]
      BY <1>0, <3>2, <3>3, Sets
    <3>5. Good(p)'
      BY <1>3, <2>2, <3>1, <3>2, <3>4 DEF Good, Locked, N, Files
    <3>6. QED
      BY <1>0, <3>3, <3>4, <3>5, KeptTypes DEF Others
  <2>3. QED
    BY <2>1, <2>2
<1>5. CASE MountLock(p)
  <2>1. Locks(p, req[p].fd) /\ Goto(p, "mCheck") /\ req[p].pc = "mLock"
    BY <1>5 DEF MountLock, On
  <2>2. req[p].fd \in Ino
    BY <1>0, <2>1, NameOf DEF Good
  <2>3. "mCheck" \in AllPc
    BY DEF AllPc, MountPc
  <2>4. Others(p) /\ lock'[req[p].fd] = p
    BY <1>0, <2>1, <2>2, <2>3, LocksMoves
  <2>5. req'[p].pc = "mCheck" /\ req'[p].name = req[p].name /\ req'[p].fd = req[p].fd
    BY <1>0, <2>1, <2>3, GotoMoves
  <2>6. QED
    BY <1>3, <2>1, <2>4, <2>5 DEF Good, Locked, N
<1>6. CASE MountCheck(p)
  BY <1>0, <1>3, <1>6, ReservesGood, Returns, FreshIsGood DEF MountCheck, IsMounted, On
<1>7. CASE MountConfigure(p)
  <2>1. CASE Reserves(p)
    BY <1>3, <1>7, <2>1, ReservesGood DEF MountConfigure, On
  <2>2. CASE Goto(p, "mMount") /\ UNCHANGED lock
    <3>1. "mMount" \in AllPc /\ On(p, "mConfigure")
      BY <1>7 DEF AllPc, MountPc, MountConfigure
    <3>2. Others(p) /\ req'[p].pc = "mMount" /\ req'[p].name = req[p].name
          /\ req'[p].fd = req[p].fd /\ req'[p].dev = req[p].dev
      BY <1>0, <2>2, <3>1, GotoMoves
    <3>3. QED
      BY <1>3, <2>2, <3>1, <3>2 DEF Good, Locked, N, On
  <2>3. QED
    BY <1>7, <2>1, <2>2 DEF MountConfigure, Configures
<1>8. CASE MountMount(p)
  <2>1. PICK pc \in {"mChown", "mDetach"} : req' = [req EXCEPT ![p].pc = pc, ![p].pin = FALSE]
    BY <1>8 DEF MountMount
  <2>2. UNCHANGED lock /\ On(p, "mMount")
    BY <1>8 DEF MountMount
  <2> DEFINE new == [req[p] EXCEPT !.pc = pc, !.pin = FALSE]
  <2>3. new \in Request /\ new.pc = pc /\ new.fd = req[p].fd /\ new.name = req[p].name
        /\ new.dev = req[p].dev
    BY <1>0, NameOf DEF Request, MountPc
  <2>4. req' = [req EXCEPT ![p] = new]
    BY <2>1
  <2> HIDE DEF new
  <2>5. ReqTypes' /\ req'[p] = new /\ \A q \in Proc : q # p => req'[q] = req[q]
    BY <1>0, <2>3, <2>4, Sets
  <2>6. Good(p)'
    BY <1>3, <2>2, <2>3, <2>5 DEF Good, Locked, N, On
  <2>7. QED
    BY <1>0, <2>2, <2>5, <2>6, KeptTypes DEF Others
<1>9. CASE MountChown(p)
  <2>1. CASE MountReturns(p, TRUE)
    BY <1>0, <2>1, Returns, FreshIsGood
  <2>2. CASE Goto(p, "mDetach") /\ UNCHANGED lock
    <3>1. "mDetach" \in AllPc /\ On(p, "mChown")
      BY <1>9 DEF AllPc, MountPc, MountChown
    <3>2. Others(p) /\ req'[p].pc = "mDetach" /\ req'[p].name = req[p].name
          /\ req'[p].fd = req[p].fd /\ req'[p].dev = req[p].dev
      BY <1>0, <2>2, <3>1, GotoMoves
    <3>3. QED
      BY <1>3, <2>2, <3>1, <3>2 DEF Good, Locked, N, On
  <2>3. QED
    BY <1>9, <2>1, <2>2 DEF MountChown
<1>10. CASE MountDetach(p)
  BY <1>0, <1>10, Returns, FreshIsGood DEF MountDetach
<1>11. QED
  BY <1>4, <1>5, <1>6, <1>7, <1>8, <1>9, <1>10 DEF MountStep

LEMMA UnmountActs ==
    ASSUME TypeOK, Files, NEW p \in Proc, Good(p), UnmountStep(p) \/ UnmountLock(p)
    PROVE  Acts(p)
<1>0. ReqTypes /\ LockTypes /\ KernelTypes /\ EngineTypes
  BY TypeParts
<1>1. UNCHANGED <<record, disk, mountDir>> /\ (Sound \/ Faulty)
  BY DEF UnmountStep, UnmountLock, UnmountOpen, UnmountLook, UnmountUmount, UnmountFind,
         UnmountDetach, Sound
<1>2. pulled' = pulled \/ pulled' = TRUE
  <2>1. UnmountDetach(p) => pulled' = pulled \/ pulled' = TRUE
    BY ClearsPulled DEF UnmountDetach
  <2>2. UnmountDetach(p) \/ pulled' = pulled
    BY DEF UnmountStep, UnmountOpen, UnmountLock, UnmountLook, UnmountUmount, UnmountFind
  <2>3. QED
    BY <2>1, <2>2
<1>3. MadeKept /\ EngineTypes' /\ madeFor' = madeFor /\ CountTypes' /\ (pulled => pulled')
  BY <1>1, <1>2, UnchangedEngine, CountsKept
<1> SUFFICES Others(p) /\ Good(p)'
  BY <1>3 DEF Acts
\* The way of every step that stays in the call and takes no lock.
<1>4. ASSUME NEW new \in Request, req' = [req EXCEPT ![p] = new], UNCHANGED lock,
             new.name = req[p].name, new.fd \in {req[p].fd, file[N(p)]},
             new.pc \in {"uLock", "uLook", "uUmount", "uFind", "uDetach"},
             new.pc = "uLock" => new.fd # None, new.pc = "uDetach" => new.dev \in Loop
      PROVE  Others(p) /\ Good(p)'
  <2>1. ReqTypes' /\ req'[p] = new /\ \A q \in Proc : q # p => req'[q] = req[q]
    BY <1>0, <1>4, Sets
  <2>2. file[N(p)] # None => file[N(p)] \in 1..Len(madeFor) /\ madeFor[file[N(p)]] = N(p)
    BY <1>0, NameOf DEF Files
  <2>3. Good(p)'
    BY <1>3, <1>4, <2>1, <2>2 DEF Good, Locked, N
  <2>4. QED
    BY <1>0, <1>4, <2>1, <2>3, KeptTypes DEF Others
<1>5. CASE UnmountOpen(p)
  <2> DEFINE new == [req[p] EXCEPT !.fd = file[N(p)],
                                   !.pc = IF file[N(p)] = None THEN "uLook" ELSE "uLock"]
  <2>1. file[N(p)] \in Ino \cup {None}
    BY <1>0, NameOf DEF EngineTypes
  <2>2. new \in Request /\ new.fd = file[N(p)] /\ new.name = req[p].name
        /\ new.pc = IF file[N(p)] = None THEN "uLook" ELSE "uLock"
    BY <1>0, <2>1, NameOf DEF Request, UnmountPc
  <2>3. req' = [req EXCEPT ![p] = new] /\ UNCHANGED lock
    BY <1>5 DEF UnmountOpen
  <2> HIDE DEF new
  <2>4. QED
    BY <1>4, <2>2, <2>3
<1>6. CASE UnmountLock(p)
  <2>1. Locks(p, req[p].fd) /\ Goto(p, "uLook") /\ req[p].pc = "uLock"
    BY <1>6 DEF UnmountLock, On
  <2>2. req[p].fd \in Ino
    BY <1>0, <2>1, NameOf DEF Good
  <2>3. "uLook" \in AllPc
    BY DEF AllPc, UnmountPc
  <2>4. Others(p)
    BY <1>0, <2>1, <2>2, <2>3, LocksMoves
  <2>5. req'[p].pc = "uLook" /\ req'[p].name = req[p].name /\ req'[p].fd = req[p].fd
    BY <1>0, <2>1, <2>3, GotoMoves
  <2>6. QED
    BY <1>3, <2>1, <2>4, <2>5 DEF Good, Locked, N
<1>7. CASE UnmountLook(p)
  <2> DEFINE m == mounts[N(p)]
             dev == IF m # <<>> /\ req[p].fd = None THEN m[1] ELSE None
             new == [req[p] EXCEPT !.dev = dev, !.seen = (m # <<>>), !.pc = "uUmount"]
  <2>1. dev \in Loop \cup {None}
    <3>1. m \in Seq(Loop)
      BY <1>0, NameOf DEF KernelTypes
    <3>2. m # <<>> => m[1] \in Loop
      BY <3>1
    <3>3. QED
      BY <3>2
  <2>2. req' = [req EXCEPT ![p] = new] /\ UNCHANGED lock
    BY <1>7 DEF UnmountLook, IsMounted
  <2> HIDE DEF dev
  <2>3. new \in Request /\ new.fd = req[p].fd /\ new.name = req[p].name /\ new.pc = "uUmount"
    BY <1>0, <2>1, NameOf DEF Request, UnmountPc
  <2> HIDE DEF new
  <2>4. QED
    BY <1>4, <2>2, <2>3
<1>8. CASE UnmountUmount(p)
  <2>1. CASE Goto(p, "uFind") /\ UNCHANGED lock
    <3>1. "uFind" \in AllPc
      BY DEF AllPc, UnmountPc
    <3>2. Others(p) /\ req'[p].pc = "uFind" /\ req'[p].name = req[p].name
          /\ req'[p].fd = req[p].fd
      BY <1>0, <2>1, <3>1, GotoMoves
    <3>3. QED
      BY <1>3, <3>2 DEF Good, Locked, N
  <2>2. CASE req' = [req EXCEPT ![p].pc = "uFind", ![p].seen = FALSE] /\ UNCHANGED lock
    <3> DEFINE new == [req[p] EXCEPT !.pc = "uFind", !.seen = FALSE]
    <3>1. new \in Request /\ new.fd = req[p].fd /\ new.name = req[p].name /\ new.pc = "uFind"
      BY <1>0, NameOf DEF Request, UnmountPc
    <3>2. req' = [req EXCEPT ![p] = new]
      BY <2>2
    <3> HIDE DEF new
    <3>3. QED
      BY <1>4, <2>2, <3>1, <3>2
  <2>3. CASE UnmountReturns(p, FALSE)
    BY <1>0, <2>3, Returns, FreshIsGood
  <2>4. QED
    BY <1>8, <2>1, <2>2, <2>3 DEF UnmountUmount
<1>9. CASE UnmountFind(p)
  <2>1. CASE UnmountReturns(p, TRUE)
    BY <1>0, <2>1, Returns, FreshIsGood
  <2>2. ASSUME NEW k \in Found(p), req' = [req EXCEPT ![p].dev = k, ![p].pc = "uDetach"],
               UNCHANGED lock
        PROVE  Others(p) /\ Good(p)'
    <3> DEFINE new == [req[p] EXCEPT !.dev = k, !.pc = "uDetach"]
    <3>1. k \in Loop
      BY <1>0, NameOf DEF Found, DevicesOf
    <3>2. new \in Request /\ new.fd = req[p].fd /\ new.name = req[p].name
          /\ new.pc = "uDetach" /\ new.dev = k
      BY <1>0, <3>1, NameOf DEF Request, UnmountPc
    <3>3. req' = [req EXCEPT ![p] = new]
      BY <2>2
    <3> HIDE DEF new
    <3>4. QED
      BY <1>4, <2>2, <3>1, <3>2, <3>3
  <2>3. QED
    BY <1>9, <2>1, <2>2 DEF UnmountFind
<1>10. CASE UnmountDetach(p)
  BY <1>0, <1>10, Returns, FreshIsGood DEF UnmountDetach
<1>11. QED
  BY <1>5, <1>6, <1>7, <1>8, <1>9, <1>10 DEF UnmountStep

EngineActs(p) ==
    \/ \E op, n, pc : op \in Op /\ n \in Name /\ pc \in {"allocate", "ensure", "uOpen"}
                      /\ Begin(p, op, n, pc)
    \/ EngineStep(p) \/ CallRefused(p) \/ HelperDies(p) \/ EngineDies(p)

LEMMA FilesKept ==
    ASSUME Files, UNCHANGED <<disk, kernel>>
    PROVE  Files'
  BY DEF Files, MountedDevices, InUse, disk, kernel

LEMMA RequestsAct ==
    ASSUME TypeOK, Files, NEW p \in Proc, Good(p), EngineActs(p)
    PROVE  Acts(p) /\ Files' /\ req'[p].pc \notin {"mConfigure", "mMount"}
<1>0. ReqTypes /\ LockTypes /\ KernelTypes /\ EngineTypes
  BY TypeParts
<1>1. UNCHANGED <<kernel, pulled>> /\ (Sound \/ Faulty)
  BY DEF EngineActs, Begin, EngineStep, CreateAllocate, CreateCommit, CreateUndoFile,
         StartEnsure, DeleteRemove, DeleteForget, CallRefused, HelperDies, EngineDies, Sound
<1>2. CountTypes' /\ (pulled => pulled')
  BY <1>1, CountsKept
<1> DEFINE Away == req'[p].pc \notin {"mConfigure", "mMount"}
<1> SUFFICES Others(p) /\ Good(p)' /\ Away /\ MadeKept /\ EngineTypes' /\ Files'
  BY <1>2 DEF Acts
<1>a. Fresh(p)' => Good(p)' /\ Away
  BY FreshIsGood DEF Fresh, EnginePc
<1> HIDE DEF Away
<1>3. N(p) \in Name
  BY <1>0, NameOf
<1>4. UNCHANGED <<record, disk, mountDir>> => MadeKept /\ EngineTypes' /\ Files'
  BY <1>1, UnchangedEngine, FilesKept DEF disk
<1>5. ASSUME NEW op \in Op, NEW n \in Name, NEW pc \in {"allocate", "ensure", "uOpen"},
             Begin(p, op, n, pc)
      PROVE  Others(p) /\ Good(p)' /\ Away /\ MadeKept /\ EngineTypes' /\ Files'
  <2>1. pc \in AllPc
    BY DEF AllPc, EnginePc, UnmountPc
  <2>2. At(op, n, pc) \in Request /\ At(op, n, pc).pc = pc /\ At(op, n, pc).fd = None
    BY <2>1, AtTypes
  <2>3. ReqTypes' /\ req'[p] = At(op, n, pc) /\ \A q \in Proc : q # p => req'[q] = req[q]
    BY <1>0, <1>5, <2>2, Sets DEF Begin
  <2>4. UNCHANGED lock
    BY <1>5 DEF Begin
  <2>5. Others(p)
    BY <1>0, <2>3, <2>4, KeptTypes DEF Others
  <2>6. Fresh(p)'
    BY <2>2, <2>3 DEF Fresh, EnginePc
  <2>7. QED
    BY <1>4, <1>5, <2>5, <2>6, <1>a DEF Begin
<1>6. CASE CreateAllocate(p)
  <2>1. CASE Answer(p) /\ UNCHANGED <<disk, mountDir>>
    BY <1>0, <1>4, <1>6, <2>1, AnswerMoves, <1>a DEF CreateAllocate
  <2>2. CASE /\ Len(madeFor) # MaxIno
             /\ madeFor' = Append(madeFor, N(p))
             /\ file' = [file EXCEPT ![N(p)] = Len(madeFor')]
             /\ \/ mountDir' = [mountDir EXCEPT ![N(p)] = TRUE] /\ Call(p, "mOpen")
                \/ Call(p, "undoFile") /\ UNCHANGED mountDir
    <3>1. UNCHANGED <<record, kernel, lock>>
      BY <1>6 DEF CreateAllocate
    <3>2. Others(p) /\ Good(p)' /\ Away
      BY <1>0, <2>2, <3>1, CallMoves, <1>a DEF EnginePc
    <3>3. /\ madeFor' \in Seq(Name) /\ Len(madeFor') = Len(madeFor) + 1
          /\ Len(madeFor) \in Nat /\ Len(madeFor') \in 1..MaxIno
          /\ \A i \in 1..Len(madeFor) : madeFor'[i] = madeFor[i]
          /\ madeFor'[Len(madeFor')] = N(p)
      BY <1>0, <1>3, <2>2 DEF EngineTypes
    <3>4. MadeKept
      BY <3>3 DEF MadeKept
    <3>5. file' \in [Name -> Ino \cup {None}] /\ mountDir' \in [Name -> BOOLEAN]
      BY <1>0, <2>2, <3>3 DEF EngineTypes, Ino
    <3>6. EngineTypes'
      BY <1>0, <3>1, <3>3, <3>5 DEF EngineTypes
    <3>7. Files'
      <4>1. \A n \in Name : file'[n] # None
               => file'[n] \in 1..Len(madeFor') /\ madeFor'[file'[n]] = n
        BY <1>0, <2>2, <3>3 DEF Files, EngineTypes
      <4>2. MountedDevices' = MountedDevices /\ backing' = backing
        BY <1>1 DEF MountedDevices, InUse, kernel
      <4>3. QED
        BY <3>3, <4>1, <4>2 DEF Files
    <3>8. QED
      BY <3>2, <3>4, <3>6, <3>7
  <2>3. QED
    BY <1>6, <2>1, <2>2 DEF CreateAllocate
<1>7. CASE CreateCommit(p)
  <2>1. Others(p) /\ Fresh(p)'
    BY <1>0, <1>7, AnswerMoves, CallMoves DEF CreateCommit
  <2>2. EngineTypes'
    BY <1>0, <1>7 DEF CreateCommit, EngineTypes, disk
  <2>3. MadeKept /\ Files'
    BY <1>1, <1>7, FilesKept DEF CreateCommit, MadeKept, disk
  <2>4. QED
    BY <2>1, <2>2, <2>3, <1>a
<1>8. CASE CreateUndoFile(p)
  <2>1. Others(p) /\ Fresh(p)'
    BY <1>0, <1>8, AnswerMoves DEF CreateUndoFile
  <2>2. EngineTypes' /\ MadeKept
    BY <1>0, <1>8 DEF CreateUndoFile, EngineTypes, MadeKept
  <2>3. Files'
    BY <1>0, <1>8 DEF CreateUndoFile, Files, EngineTypes, MountedDevices, InUse, kernel
  <2>4. QED
    BY <2>1, <2>2, <2>3, <1>a
<1>9. CASE StartEnsure(p)
  <2>1. Others(p) /\ Fresh(p)'
    BY <1>0, <1>9, AnswerMoves, CallMoves DEF StartEnsure, IsMounted
  <2>2. EngineTypes' /\ MadeKept
    BY <1>0, <1>9 DEF StartEnsure, EngineTypes, MadeKept, disk
  <2>3. Files'
    BY <1>1, <1>9, FilesKept DEF StartEnsure
  <2>4. QED
    BY <2>1, <2>2, <2>3, <1>a
<1>10. CASE DeleteRemove(p)
  <2>1. /\ req'[p] = [req[p] EXCEPT !.pc = "forget"]
        /\ \A q \in Proc : q # p => \E b \in BOOLEAN : req'[q] = [req[q] EXCEPT !.pin = b]
    <3> DEFINE free == mounts[N(p)] = <<>>
    <3>1. req' = [q \in Proc |-> IF q = p THEN [req[p] EXCEPT !.pc = "forget"]
                                 ELSE [req[q] EXCEPT !.pin = @ /\ (N(q) # N(p) \/ ~free)]]
      BY <1>10 DEF DeleteRemove, IsMounted
    <3>2. \A q \in Proc : (req[q].pin /\ (N(q) # N(p) \/ ~free)) \in BOOLEAN
      OBVIOUS
    <3> HIDE DEF free
    <3>3. QED
      BY <3>1, <3>2
  <2>2. DOMAIN req' = Proc /\ req' = [q \in Proc |-> req'[q]]
    BY <1>10 DEF DeleteRemove, IsMounted
  <2>3. \A q \in Proc : req'[q] \in Request /\ req'[q].name = req[q].name
           /\ req'[q].fd = req[q].fd /\ req'[q].dev = req[q].dev
           /\ (q # p => req'[q].pc = req[q].pc) /\ req'[p].pc = "forget"
    <3>1. ASSUME NEW q \in Proc, q # p
          PROVE  req'[q] \in Request /\ req'[q].name = req[q].name
                 /\ req'[q].fd = req[q].fd /\ req'[q].dev = req[q].dev
                 /\ req'[q].pc = req[q].pc
      <4>1. PICK b \in BOOLEAN : req'[q] = [req[q] EXCEPT !.pin = b]
        BY <2>1, <3>1
      <4>2. req[q] \in Request
        BY <1>0, NameOf
      <4>3. QED
        BY <4>1, <4>2 DEF Request
    <3>2. req'[p] \in Request /\ req'[p].name = req[p].name
          /\ req'[p].fd = req[p].fd /\ req'[p].dev = req[p].dev /\ req'[p].pc = "forget"
      <4>1. req'[p] = [req[p] EXCEPT !.pc = "forget"] /\ req[p] \in Request
        BY <1>0, <2>1, NameOf
      <4>2. QED
        BY <4>1 DEF Request, EnginePc
    <3>3. QED
      BY <3>1, <3>2
  <2>4. ReqTypes'
    BY <2>2, <2>3 DEF ReqTypes
  <2>5. UNCHANGED <<record, madeFor, lock>> /\ file' = [file EXCEPT ![N(p)] = None]
        /\ mountDir' = [mountDir EXCEPT ![N(p)] = @ /\ ~(mounts[N(p)] = <<>>)]
    BY <1>10 DEF DeleteRemove, IsMounted
  <2>6. Others(p)
    BY <1>0, <2>3, <2>4, <2>5, KeptTypes DEF Others
  <2>7. Good(p)' /\ Away
    BY <2>3, <2>5 DEF Good, Locked, N, Away
  <2>8. EngineTypes' /\ MadeKept
    BY <1>0, <2>5 DEF EngineTypes, MadeKept
  <2>9. Files'
    BY <1>0, <1>1, <2>5 DEF Files, EngineTypes, MountedDevices, InUse, kernel
  <2>10. QED
    BY <2>6, <2>7, <2>8, <2>9
<1>11. CASE DeleteForget(p)
  <2>1. Others(p) /\ Fresh(p)'
    BY <1>0, <1>11, AnswerMoves DEF DeleteForget
  <2>2. EngineTypes' /\ MadeKept
    BY <1>0, <1>11 DEF DeleteForget, EngineTypes, MadeKept, disk
  <2>3. Files'
    BY <1>1, <1>11, FilesKept DEF DeleteForget
  <2>4. QED
    BY <2>1, <2>2, <2>3, <1>a
<1>12. CASE HelperDies(p)
  BY <1>0, <1>4, <1>12, Returns, <1>a DEF HelperDies
<1>13. CASE EngineDies(p)
  BY <1>0, <1>4, <1>13, AnswerMoves, <1>a DEF EngineDies
<1>14. CASE CallRefused(p)
  BY <1>0, <1>4, <1>14, Returns, <1>a DEF CallRefused
<1>15. QED
  BY <1>5, <1>6, <1>7, <1>8, <1>9, <1>10, <1>11, <1>12, <1>13, <1>14 DEF EngineActs, EngineStep

-------------------------------------------------------------------------------
(* Devices and mounts *)

\* What is mounted was mounted, on the same backing file.
Shrinks ==
    /\ \A n \in Name : \A i \in DOMAIN mounts'[n] :
          i \in DOMAIN mounts[n] /\ mounts'[n][i] = mounts[n][i]
    /\ \A k \in MountedDevices' : k \in MountedDevices /\ backing'[k] = backing[k]

LEMMA StaysMounted ==
    ASSUME \A n \in Name : \A i \in DOMAIN mounts'[n] :
              i \in DOMAIN mounts[n] /\ mounts'[n][i] = mounts[n][i]
    PROVE  MountedDevices' \subseteq MountedDevices
  BY DEF MountedDevices, InUse

LEMMA ClearsShrinks ==
    ASSUME KernelTypes, Files, NEW k \in Loop, Clears(k)
    PROVE  /\ KernelTypes' /\ Shrinks
           /\ \A j \in Loop : backing'[j] = backing[j] \/ (j = k /\ backing'[j] = None)
<1>1. mounts' = mounts /\ MountedDevices' = MountedDevices
  BY DEF Clears, MountedDevices, InUse
<1>2. CASE InUse(k, mounts) /\ backing[k] # None
  <2>1. clear' = clear \cup {k} /\ UNCHANGED backing
    BY <1>2 DEF Clears
  <2>2. k \in MountedDevices
    BY <1>2 DEF MountedDevices
  <2>3. QED
    BY <1>1, <2>1, <2>2 DEF KernelTypes, Shrinks
<1>3. CASE ~(InUse(k, mounts) /\ backing[k] # None)
  <2>1. backing' = [backing EXCEPT ![k] = None] /\ UNCHANGED clear
    BY <1>3 DEF Clears
  <2>2. k \notin MountedDevices
    BY <1>3 DEF Files, MountedDevices
  <2>3. QED
    BY <1>1, <2>1, <2>2 DEF KernelTypes, Shrinks
<1>4. QED
  BY <1>2, <1>3

LEMMA UnmountsShrinks ==
    ASSUME KernelTypes, NEW n \in Name, mounts[n] # <<>>, Unmounts(n)
    PROVE  /\ KernelTypes' /\ Shrinks
           /\ \A j \in Loop : \/ backing'[j] = backing[j]
                              \/ j \in MountedDevices /\ backing'[j] = None
<1> DEFINE k == mounts[n][Len(mounts[n])]
           rest == SubSeq(mounts[n], 1, Len(mounts[n]) - 1)
           m == [mounts EXCEPT ![n] = rest]
           gone == k \in clear /\ ~InUse(k, m)
<1>1. mounts[n] \in Seq(Loop) /\ Len(mounts[n]) \in Nat \ {0}
  BY DEF KernelTypes
<1>2. k \in Loop /\ k \in MountedDevices
  BY <1>1 DEF MountedDevices, InUse
<1>3. rest \in Seq(Loop) /\ DOMAIN rest \subseteq DOMAIN mounts[n]
      /\ \A i \in DOMAIN rest : rest[i] = mounts[n][i]
  BY <1>1, SubSeqProperties
<1>4. m \in [Name -> Seq(Loop)] /\ m[n] = rest /\ \A o \in Name : o # n => m[o] = mounts[o]
  BY <1>3 DEF KernelTypes
<1>5. /\ mounts' = m
      /\ backing' = IF gone THEN [backing EXCEPT ![k] = None] ELSE backing
      /\ clear' = IF gone THEN clear \ {k} ELSE clear
  BY DEF Unmounts
<1> HIDE DEF rest, m
<1>6. \A o \in Name : \A i \in DOMAIN mounts'[o] :
         i \in DOMAIN mounts[o] /\ mounts'[o][i] = mounts[o][i]
  BY <1>3, <1>4, <1>5
<1>7. MountedDevices' \subseteq MountedDevices
  BY <1>6, StaysMounted
<1>8. InUse(k, m) <=> k \in MountedDevices'
  BY <1>2, <1>5 DEF MountedDevices
<1> HIDE DEF k
<1>9. \A j \in MountedDevices' : backing'[j] = backing[j]
  BY <1>5, <1>8 DEF KernelTypes, MountedDevices
<1>10. \A j \in MountedDevices : j = k \/ j \in MountedDevices'
  <2>1. ASSUME NEW j \in MountedDevices, j # k
        PROVE  j \in MountedDevices'
    <3>1. PICK o \in Name : \E i \in DOMAIN mounts[o] : mounts[o][i] = j
      BY DEF MountedDevices, InUse
    <3>2. PICK i \in DOMAIN mounts[o] : mounts[o][i] = j
      BY <3>1
    <3>3. CASE o # n
      BY <1>4, <1>5, <3>2, <3>3 DEF MountedDevices, InUse
    <3>4. CASE o = n
      <4>1. i # Len(mounts[n]) /\ i \in 1..Len(mounts[n])
        BY <1>1, <2>1, <3>2, <3>4 DEF k
      <4>2. i \in DOMAIN rest /\ rest[i] = j
        BY <1>1, <3>2, <3>4, <4>1, SubSeqProperties DEF rest
      <4>3. QED
        BY <1>4, <1>5, <4>2 DEF MountedDevices, InUse
    <3>5. QED
      BY <3>3, <3>4
  <2>2. QED
    BY <2>1
<1>11. clear' \subseteq MountedDevices'
  BY <1>5, <1>8, <1>10 DEF KernelTypes
<1>12. backing' \in [Loop -> Ino \cup {None}]
  BY <1>5 DEF KernelTypes
<1>13. QED
  BY <1>2, <1>4, <1>5, <1>6, <1>7, <1>9, <1>11, <1>12 DEF KernelTypes, Shrinks

-------------------------------------------------------------------------------
(* One device for an image *)

\* Nothing has pulled a device from a mount call: what a call is about to mount
\* is its own file, on a device nothing else mounts, and no other mount shows
\* that file since it looked.
Mine(p) ==
    /\ On(p, "mMount") => backing[req[p].dev] = req[p].fd /\ req[p].dev \notin MountedDevices
    /\ req[p].pc \in {"mConfigure", "mMount"}
          => \A k \in MountedDevices : backing[k] # req[p].fd

OneDevice == \A j, k \in MountedDevices : backing[j] = backing[k] => j = k
OwnImages ==
    \A n \in Name : \A i \in DOMAIN mounts[n] :
       backing[mounts[n][i]] # None /\ madeFor[backing[mounts[n][i]]] = n

Sharing == OneDevice /\ OwnImages /\ \A p \in Proc : Mine(p)

LEMMA MountedIsLoop ==
    ASSUME KernelTypes
    PROVE  /\ MountedDevices \subseteq Loop
           /\ \A n \in Name : \A i \in DOMAIN mounts[n] : mounts[n][i] \in MountedDevices
           /\ \A k \in MountedDevices : \E n \in Name : \E i \in DOMAIN mounts[n] : mounts[n][i] = k
  BY DEF KernelTypes, MountedDevices, InUse

\* A step that mounts nothing keeps one device for an image, and each request
\* keeps what is its own unless its device is pulled.
LEMMA ShrinkShares ==
    ASSUME TypeOK, Files, OneDevice, OwnImages, NEW p \in Proc, Acts(p), Shrinks, KernelTypes'
    PROVE  /\ OneDevice' /\ OwnImages'
           /\ \A q \in Proc : /\ q # p /\ Mine(q)
                              /\ On(q, "mMount") => backing'[req[q].dev] = backing[req[q].dev]
                              => Mine(q)'
<1>0. KernelTypes
  BY TypeParts
<1>1. OneDevice'
  BY DEF OneDevice, Shrinks
<1>2. OwnImages'
  <2>1. ASSUME NEW n \in Name, NEW i \in DOMAIN mounts'[n]
        PROVE  backing'[mounts'[n][i]] # None /\ madeFor'[backing'[mounts'[n][i]]] = n
    <3>1. mounts'[n][i] \in MountedDevices'
      BY <2>1 DEF MountedDevices, InUse, KernelTypes
    <3>2. i \in DOMAIN mounts[n] /\ mounts'[n][i] = mounts[n][i]
          /\ backing'[mounts'[n][i]] = backing[mounts[n][i]]
      BY <2>1, <3>1 DEF Shrinks
    <3>3. backing[mounts[n][i]] # None /\ madeFor[backing[mounts[n][i]]] = n
      BY <3>2 DEF OwnImages
    <3>4. backing[mounts[n][i]] \in 1..Len(madeFor)
      BY <1>0, <3>2, <3>3, MountedIsLoop DEF Files
    <3>5. QED
      BY <3>2, <3>3, <3>4 DEF Acts, MadeKept
  <2>2. QED
    BY <2>1 DEF OwnImages
<1>3. ASSUME NEW q \in Proc, q # p, Mine(q),
             On(q, "mMount") => backing'[req[q].dev] = backing[req[q].dev]
      PROVE  Mine(q)'
  BY <1>3 DEF Mine, Shrinks, Acts, Others, On
<1>4. QED
  BY <1>1, <1>2, <1>3

\* The devices a step may take the file from: none that a mount call relies on.
LEMMA Undisturbed ==
    ASSUME TypeOK, \A q \in Proc : Mine(q), NEW q \in Proc, On(q, "mMount"),
           \/ UNCHANGED backing
           \/ \A j \in Loop : \/ backing'[j] = backing[j]
                              \/ j \in MountedDevices /\ backing'[j] = None
    PROVE  req[q].dev \in Loop => backing'[req[q].dev] = backing[req[q].dev]
  BY DEF Mine

LEMMA UnmovedKernel ==
    ASSUME UNCHANGED kernel
    PROVE  Shrinks /\ MountedDevices' = MountedDevices /\ backing' = backing
  BY DEF kernel, Shrinks, MountedDevices, InUse

LEMMA MountHolder ==
    ASSUME NEW p \in Proc, NEW q \in Proc, q # p, Good(p), Good(q),
           req[p].pc \in Locked, req[q].pc \in Locked
    PROVE  req[p].fd # req[q].fd
  BY DEF Good

\* Only the look and the attach leave a mount call between them and the mount.
LEMMA AwayFromMount ==
    ASSUME TypeOK, NEW p \in Proc,
           \/ MountOpen(p) \/ MountLock(p) \/ MountMount(p) \/ MountChown(p) \/ MountDetach(p)
           \/ UnmountStep(p) \/ UnmountLock(p)
    PROVE  req'[p].pc \notin {"mConfigure", "mMount"}
<1>0. ReqTypes /\ LockTypes
  BY TypeParts
<1>1. Fresh(p)' => req'[p].pc \notin {"mConfigure", "mMount"}
  BY DEF Fresh, EnginePc
<1>2. ASSUME NEW pc \in {"mLock", "mCheck", "mChown", "mDetach"} \cup UnmountPc,
             req'[p].pc = pc
      PROVE  req'[p].pc \notin {"mConfigure", "mMount"}
  BY <1>2 DEF UnmountPc
<1>3. \A pc \in AllPc : Goto(p, pc) => req'[p].pc = pc
  BY <1>0, GotoMoves
<1>4. {"mLock", "mCheck", "mChown", "mDetach"} \cup UnmountPc \subseteq AllPc
  BY DEF AllPc, MountPc
<1>5. CASE MountOpen(p)
  <2>1. MountReturns(p, FALSE) \/ req'[p].pc = "mLock"
    BY <1>0, <1>5 DEF MountOpen, ReqTypes, Request
  <2>2. QED
    BY <1>0, <1>1, <1>2, <2>1, Returns
<1>6. CASE MountLock(p) \/ UnmountLock(p)
  BY <1>2, <1>3, <1>4, <1>6 DEF MountLock, UnmountLock, UnmountPc
<1>7. CASE MountMount(p)
  <2>1. req'[p].pc \in {"mChown", "mDetach"}
    BY <1>0, <1>7 DEF MountMount, ReqTypes, Request
  <2>2. QED
    BY <1>2, <2>1
<1>8. CASE MountChown(p) \/ MountDetach(p)
  <2>1. MountReturns(p, TRUE) \/ MountReturns(p, FALSE) \/ Goto(p, "mDetach")
    BY <1>8 DEF MountChown, MountDetach
  <2>2. QED
    BY <1>0, <1>1, <1>2, <1>3, <1>4, <2>1, Returns
<1>9. CASE UnmountOpen(p) \/ UnmountLook(p)
  <2>1. req'[p].pc \in {"uLook", "uLock", "uUmount"}
    BY <1>0, <1>9 DEF UnmountOpen, UnmountLook, ReqTypes, Request
  <2>2. QED
    BY <2>1
<1>10. CASE UnmountUmount(p)
  <2>1. UnmountReturns(p, FALSE) \/ Goto(p, "uFind") \/ req'[p].pc = "uFind"
    <3>1. \/ UnmountReturns(p, FALSE) \/ Goto(p, "uFind")
          \/ req' = [req EXCEPT ![p].pc = "uFind", ![p].seen = FALSE]
      BY <1>10 DEF UnmountUmount
    <3>2. QED
      BY <1>0, <3>1 DEF ReqTypes, Request
  <2>2. QED
    BY <1>0, <1>1, <1>2, <1>3, <1>4, <2>1, Returns DEF UnmountPc
<1>11. CASE UnmountFind(p) \/ UnmountDetach(p)
  <2>1. UnmountReturns(p, TRUE) \/ req'[p].pc = "uDetach"
    BY <1>0, <1>11 DEF UnmountFind, UnmountDetach, ReqTypes, Request
  <2>2. QED
    BY <1>0, <1>1, <1>2, <2>1, Returns DEF UnmountPc
<1>12. QED
  BY <1>5, <1>6, <1>7, <1>8, <1>9, <1>10, <1>11 DEF UnmountStep

\* A step that mounts nothing, and what it takes from no mount call.
Gentle(p) ==
    /\ Shrinks /\ KernelTypes' /\ Files'
    /\ ~pulled' => \A q \in Proc : q # p /\ On(q, "mMount")
                                   => backing'[req[q].dev] = backing[req[q].dev]

LEMMA GentleFiles ==
    ASSUME TypeOK, Files, Shrinks, UNCHANGED disk,
           \A k \in Loop : backing'[k] # None => backing'[k] \in 1..Len(madeFor)
    PROVE  Files'
  BY DEF Files, Shrinks, disk

LEMMA HelperGentle ==
    ASSUME TypeOK, Files, NEW p \in Proc, Good(p), ~pulled' => \A q \in Proc : Good(q) /\ Mine(q),
           (MountStep(p) /\ ~MountMount(p)) \/ MountLock(p) \/ UnmountStep(p) \/ UnmountLock(p)
    PROVE  Gentle(p)
<1>0. ReqTypes /\ LockTypes /\ KernelTypes
  BY TypeParts
<1>1. UNCHANGED disk
  BY DEF MountStep, MountLock, MountOpen, MountCheck, MountConfigure, MountChown, MountDetach,
         UnmountStep, UnmountLock, UnmountOpen, UnmountLook, UnmountUmount, UnmountFind,
         UnmountDetach
<1>2. CASE UNCHANGED kernel
  BY <1>0, <1>1, <1>2, UnmovedKernel, KeptTypes, FilesKept DEF Gentle
<1>3. CASE Clears(req[p].dev) /\ req[p].dev \in Loop
  <2>1. KernelTypes' /\ Shrinks
        /\ \A j \in Loop : backing'[j] = backing[j] \/ (j = req[p].dev /\ backing'[j] = None)
    BY <1>0, <1>3, ClearsShrinks
  <2>2. Files'
    BY <1>1, <2>1, GentleFiles DEF Files
  <2>3. ASSUME ~pulled', NEW q \in Proc, On(q, "mMount")
        PROVE  backing'[req[q].dev] = backing[req[q].dev]
    <3>1. req[q].dev # req[p].dev
      BY <1>3, <2>3 DEF Clears
    <3>2. req[q].dev \in Loop
      BY <2>3 DEF Good, On
    <3>3. QED
      BY <2>1, <3>1, <3>2
  <2>4. QED
    BY <2>1, <2>2, <2>3 DEF Gentle
<1>4. CASE mounts[N(p)] # <<>> /\ Unmounts(N(p))
  <2>1. KernelTypes' /\ Shrinks
        /\ \A j \in Loop : \/ backing'[j] = backing[j]
                           \/ j \in MountedDevices /\ backing'[j] = None
    BY <1>0, <1>4, UnmountsShrinks, NameOf
  <2>2. Files'
    BY <1>1, <2>1, GentleFiles DEF Files
  <2>3. ASSUME ~pulled', NEW q \in Proc, On(q, "mMount")
        PROVE  backing'[req[q].dev] = backing[req[q].dev]
    BY <2>1, <2>3 DEF Good, Mine, On
  <2>4. QED
    BY <2>1, <2>2, <2>3 DEF Gentle
<1>5. CASE On(p, "mConfigure") /\ backing[req[p].dev] = None
           /\ backing' = [backing EXCEPT ![req[p].dev] = req[p].fd] /\ UNCHANGED <<mounts, clear>>
  <2>1. req[p].dev \in Loop /\ req[p].dev \notin MountedDevices
        /\ req[p].fd \in Ino /\ req[p].fd \in 1..Len(madeFor)
    BY <1>0, <1>5, NameOf DEF Good, Files, On, Locked
  <2>2. MountedDevices' = MountedDevices
    BY <1>5 DEF MountedDevices, InUse
  <2>3. KernelTypes' /\ Shrinks
    BY <1>0, <1>5, <2>1, <2>2 DEF KernelTypes, Shrinks
  <2>4. Files'
    BY <1>0, <1>1, <1>5, <2>1, <2>3, GentleFiles DEF Files, KernelTypes
  <2>5. ASSUME ~pulled', NEW q \in Proc, q # p, On(q, "mMount")
        PROVE  backing'[req[q].dev] = backing[req[q].dev]
    <3>1. req[q].dev # req[p].dev
      BY <1>5, <2>5 DEF Good, Mine, On, Locked
    <3>2. QED
      BY <1>0, <1>5, <2>5, <3>1 DEF Good, On, KernelTypes
  <2>6. QED
    BY <2>3, <2>4, <2>5 DEF Gentle
<1>6. CASE (MountStep(p) /\ ~MountMount(p)) \/ MountLock(p)
  <2>1. MountConfigure(p) => UNCHANGED kernel \/
           (On(p, "mConfigure") /\ backing[req[p].dev] = None
            /\ backing' = [backing EXCEPT ![req[p].dev] = req[p].fd] /\ UNCHANGED <<mounts, clear>>)
    BY DEF MountConfigure, Configures, kernel
  <2>2. MountChown(p) => UNCHANGED kernel \/ (mounts[N(p)] # <<>> /\ Unmounts(N(p)))
    BY DEF MountChown
  <2>3. MountDetach(p) => Clears(req[p].dev) /\ req[p].dev \in Loop
    BY DEF MountDetach, Good, On
  <2>4. MountOpen(p) \/ MountCheck(p) \/ MountLock(p) => UNCHANGED kernel
    BY DEF MountOpen, MountCheck, MountLock
  <2>5. QED
    BY <1>2, <1>3, <1>4, <1>5, <1>6, <2>1, <2>2, <2>3, <2>4 DEF MountStep
<1>7. CASE UnmountStep(p) \/ UnmountLock(p)
  <2>1. UnmountUmount(p) => UNCHANGED kernel \/ (mounts[N(p)] # <<>> /\ Unmounts(N(p)))
    BY DEF UnmountUmount
  <2>2. UnmountDetach(p) => Clears(req[p].dev) /\ req[p].dev \in Loop
    BY DEF UnmountDetach, Good, On
  <2>3. UnmountOpen(p) \/ UnmountLook(p) \/ UnmountFind(p) \/ UnmountLock(p) => UNCHANGED kernel
    BY DEF UnmountOpen, UnmountLook, UnmountFind, UnmountLock
  <2>4. QED
    BY <1>2, <1>3, <1>4, <1>7, <2>1, <2>2, <2>3 DEF UnmountStep
<1>8. QED
  BY <1>6, <1>7

LEMMA MountMountShares ==
    ASSUME TypeOK, Files, NEW p \in Proc, MountMount(p), \A q \in Proc : Good(q)
    PROVE  /\ KernelTypes' /\ Files'
           /\ ~pulled' /\ Sharing => Sharing'
<1>0. ReqTypes /\ LockTypes /\ KernelTypes /\ N(p) \in Name
  BY TypeParts, NameOf
<1>1. Acts(p) /\ req'[p].pc \notin {"mConfigure", "mMount"}
  BY MountActs, AwayFromMount DEF MountStep
<1>2. UNCHANGED <<disk, backing, clear>> /\ pulled' = pulled /\ On(p, "mMount")
  BY DEF MountMount
<1>3. CASE UNCHANGED mounts
  <2>1. UNCHANGED kernel
    BY <1>2, <1>3 DEF kernel
  <2>2. KernelTypes' /\ Files'
    BY <1>0, <1>2, <2>1, KeptTypes, FilesKept
  <2>3. Shrinks /\ backing' = backing
    BY <2>1, UnmovedKernel
  <2>4. Mine(p)'
    BY <1>1 DEF Mine, On
  <2>5. QED
    BY <1>1, <2>2, <2>3, <2>4, ShrinkShares DEF Sharing
<1>4. CASE backing[req[p].dev] # None /\ mounts' = [mounts EXCEPT ![N(p)] = Append(@, req[p].dev)]
  <2> DEFINE d == req[p].dev
             m == mounts[N(p)]
  <2>1. d \in Loop /\ backing[d] # None
    BY <1>2, <1>4 DEF Good, On
  <2>2. m \in Seq(Loop) /\ Len(m) \in Nat
    BY <1>0 DEF KernelTypes
  <2>3. /\ mounts' \in [Name -> Seq(Loop)]
        /\ \A n \in Name : n # N(p) => mounts'[n] = mounts[n]
        /\ DOMAIN mounts'[N(p)] = 1..(Len(m) + 1)
        /\ \A i \in 1..Len(m) : mounts'[N(p)][i] = m[i]
        /\ mounts'[N(p)][Len(m) + 1] = d
        /\ DOMAIN m = 1..Len(m)
    BY <1>0, <1>4, <2>1, <2>2 DEF KernelTypes
  <2> HIDE DEF d
  <2>4. MountedDevices' = MountedDevices \cup {d}
    <3>1. ASSUME NEW k \in MountedDevices' PROVE k \in MountedDevices \cup {d}
      <4>1. PICK n \in Name : \E i \in DOMAIN mounts'[n] : mounts'[n][i] = k
        BY <3>1 DEF MountedDevices, InUse
      <4>2. PICK i \in DOMAIN mounts'[n] : mounts'[n][i] = k
        BY <4>1
      <4>3. CASE n # N(p)
        BY <2>3, <3>1, <4>2, <4>3 DEF MountedDevices, InUse
      <4>4. CASE n = N(p) /\ i # Len(m) + 1
        <5>1. i \in 1..Len(m) /\ m[i] = k
          BY <2>2, <2>3, <4>2, <4>4
        <5>2. QED
          BY <1>0, <2>3, <3>1, <5>1 DEF MountedDevices, InUse
      <4>5. CASE n = N(p) /\ i = Len(m) + 1
        BY <2>3, <4>2, <4>5
      <4>6. QED
        BY <4>3, <4>4, <4>5
    <3>2. d \in MountedDevices'
      <4>1. Len(m) + 1 \in DOMAIN mounts'[N(p)] /\ mounts'[N(p)][Len(m) + 1] = d
        BY <2>2, <2>3
      <4>2. QED
        BY <1>0, <2>1, <4>1 DEF MountedDevices, InUse
    <3>3. ASSUME NEW k \in MountedDevices PROVE k \in MountedDevices'
      <4>1. PICK n \in Name : \E i \in DOMAIN mounts[n] : mounts[n][i] = k
        BY <3>3 DEF MountedDevices, InUse
      <4>2. PICK i \in DOMAIN mounts[n] : mounts[n][i] = k
        BY <4>1
      <4>3. CASE n # N(p)
        <5>1. i \in DOMAIN mounts'[n] /\ mounts'[n][i] = k
          BY <2>3, <4>2, <4>3
        <5>2. QED
          BY <3>3, <5>1 DEF MountedDevices, InUse
      <4>4. CASE n = N(p)
        <5>1. i \in 1..Len(m) /\ m[i] = k
          BY <2>2, <4>2, <4>4
        <5>2. i \in DOMAIN mounts'[n] /\ mounts'[n][i] = k
          BY <2>2, <2>3, <4>4, <5>1
        <5>3. QED
          BY <3>3, <5>2 DEF MountedDevices, InUse
      <4>5. QED
        BY <4>3, <4>4
    <3>4. QED
      BY <3>1, <3>2, <3>3
  <2>5. KernelTypes' /\ Files'
    BY <1>0, <1>2, <2>1, <2>3, <2>4 DEF KernelTypes, Files, disk
  <2>6. ASSUME ~pulled', Sharing
        PROVE  Sharing'
    <3>1. backing[d] = req[p].fd /\ \A k \in MountedDevices : backing[k] # backing[d]
      BY <1>2, <2>6 DEF Sharing, Mine, On, d
    <3>2. OneDevice'
      BY <1>2, <2>4, <2>6, <3>1 DEF Sharing, OneDevice
    <3>3. madeFor' = madeFor /\ madeFor[backing[d]] = N(p)
      BY <1>2, <2>1, <3>1 DEF disk, Good
    <3>4. OwnImages'
      <4>1. ASSUME NEW n \in Name, NEW i \in DOMAIN mounts'[n]
            PROVE  backing[mounts'[n][i]] # None /\ madeFor[backing[mounts'[n][i]]] = n
        <5>1. CASE n # N(p) \/ i # Len(m) + 1
          <6>1. i \in DOMAIN mounts[n] /\ mounts'[n][i] = mounts[n][i]
            BY <2>2, <2>3, <4>1, <5>1
          <6>2. QED
            BY <2>6, <6>1 DEF Sharing, OwnImages
        <5>2. CASE n = N(p) /\ i = Len(m) + 1
          BY <2>1, <2>3, <3>3, <5>2
        <5>3. QED
          BY <5>1, <5>2
      <4>2. QED
        BY <1>2, <3>3, <4>1 DEF OwnImages
    <3>5. ASSUME NEW q \in Proc PROVE Mine(q)'
      <4>1. CASE q = p
        BY <1>1, <4>1 DEF Mine, On
      <4>2. CASE q # p /\ req[q].pc \in {"mConfigure", "mMount"}
        <5>1. req[q].fd # backing[d]
          BY <1>2, <3>1, <4>2, MountHolder DEF Locked, On
        <5>2. Mine(q) /\ req'[q].pc = req[q].pc /\ req'[q].fd = req[q].fd
              /\ req'[q].dev = req[q].dev
          BY <1>1, <2>6, <4>2 DEF Sharing, Acts, Others
        <5>3. QED
          BY <1>2, <2>4, <5>1, <5>2 DEF Mine, On
      <4>3. CASE q # p /\ req[q].pc \notin {"mConfigure", "mMount"}
        <5>1. req'[q].pc = req[q].pc
          BY <1>1, <4>3 DEF Acts, Others
        <5>2. QED
          BY <4>3, <5>1 DEF Mine, On
      <4>4. QED
        BY <4>1, <4>2, <4>3
    <3>6. QED
      BY <3>2, <3>4, <3>5 DEF Sharing
  <2>7. QED
    BY <2>5, <2>6
<1>5. QED
  BY <1>3, <1>4 DEF MountMount

LEMMA MountLooksShare ==
    ASSUME TypeOK, Files, NEW p \in Proc, \A q \in Proc : Good(q), Sharing,
           MountCheck(p) \/ MountConfigure(p)
    PROVE  Mine(p)'
<1>0. ReqTypes /\ LockTypes /\ KernelTypes
  BY TypeParts
<1>1. Fresh(p)' => Mine(p)'
  BY DEF Fresh, EnginePc, Mine, On
<1>2. CASE MountCheck(p)
  <2>1. UNCHANGED kernel /\ madeFor' = madeFor /\ On(p, "mCheck")
    BY <1>2 DEF MountCheck, disk
  <2>2. CASE mounts[N(p)] = <<>> /\ Reserves(p)
    <3>1. \A k \in MountedDevices : backing[k] # req[p].fd
      <4>1. ASSUME NEW k \in MountedDevices, backing[k] = req[p].fd
            PROVE  FALSE
        <5>1. madeFor[backing[k]] = N(p)
          BY <2>1, <4>1 DEF Good, Locked, On
        <5>2. PICK n \in Name : \E i \in DOMAIN mounts[n] : mounts[n][i] = k
          BY <4>1 DEF MountedDevices, InUse
        <5>3. n = N(p)
          BY <5>1, <5>2 DEF Sharing, OwnImages
        <5>4. QED
          BY <2>2, <5>2, <5>3
      <4>2. QED
        BY <4>1
    <3>2. Fresh(p)' \/ (req'[p].pc = "mConfigure" /\ req'[p].fd = req[p].fd)
      BY <2>1, <2>2, ReservesGood DEF On
    <3>3. MountedDevices' = MountedDevices /\ backing' = backing
      BY <2>1, UnmovedKernel
    <3>4. QED
      BY <1>1, <3>1, <3>2, <3>3 DEF Mine, On
  <2>3. CASE MountReturns(p, FALSE)
    BY <1>0, <1>1, <2>3, Returns
  <2>4. QED
    BY <1>2, <2>2, <2>3 DEF MountCheck, IsMounted
<1>3. CASE MountConfigure(p)
  <2>1. UNCHANGED <<disk, mounts, clear>> /\ On(p, "mConfigure") /\ Mine(p) /\ Good(p)
    BY <1>3 DEF MountConfigure, Sharing
  <2>2. MountedDevices' = MountedDevices
    BY <2>1 DEF MountedDevices, InUse
  <2>3. CASE Reserves(p) /\ UNCHANGED backing
    <3>1. Fresh(p)' \/ (req'[p].pc = "mConfigure" /\ req'[p].fd = req[p].fd)
      BY <2>1, <2>3, ReservesGood DEF On, disk
    <3>2. QED
      BY <1>1, <2>1, <2>2, <2>3, <3>1 DEF Mine, On
  <2>4. CASE backing[req[p].dev] = None /\ Goto(p, "mMount")
             /\ backing' = [backing EXCEPT ![req[p].dev] = req[p].fd]
    <3>1. "mMount" \in AllPc
      BY DEF AllPc, MountPc
    <3>2. req'[p].pc = "mMount" /\ req'[p].fd = req[p].fd /\ req'[p].dev = req[p].dev
      BY <1>0, <2>4, <3>1, GotoMoves
    <3>3. req[p].dev \in Loop /\ req[p].dev \notin MountedDevices
      BY <2>1, <2>4 DEF Good, On, Files
    <3>4. backing'[req[p].dev] = req[p].fd /\ \A k \in MountedDevices : backing'[k] = backing[k]
      BY <1>0, <2>4, <3>3 DEF KernelTypes, MountedDevices
    <3>5. QED
      BY <2>1, <2>2, <3>2, <3>3, <3>4 DEF Mine, On
  <2>5. QED
    BY <1>3, <2>3, <2>4 DEF MountConfigure, Configures
<1>4. QED
  BY <1>2, <1>3

HelperInv ==
    /\ TypeOK /\ Files
    /\ \A p \in Proc : Good(p)
    /\ pulled \/ Sharing

LEMMA GentleStep ==
    ASSUME TypeOK, Files, \A q \in Proc : Good(q), pulled \/ Sharing, NEW p \in Proc,
           Acts(p), Gentle(p), ~pulled' /\ Sharing => Mine(p)'
    PROVE  HelperInv'
<1>1. TypeOK'
  BY TypeParts DEF Acts, Others, Gentle
<1>2. \A q \in Proc : Good(q)'
  BY OthersGood DEF Acts
<1>3. ASSUME ~pulled' PROVE Sharing'
  <2>1. ~pulled /\ Sharing
    BY <1>3 DEF Acts
  <2>2. OneDevice' /\ OwnImages'
    BY <2>1, ShrinkShares DEF Gentle, Sharing
  <2>3. \A q \in Proc : q # p => Mine(q)'
    BY <1>3, <2>1, ShrinkShares DEF Gentle, Sharing
  <2>4. QED
    BY <1>3, <2>1, <2>2, <2>3 DEF Sharing
<1>4. QED
  BY <1>1, <1>2, <1>3 DEF HelperInv, Gentle

LEMMA HelperStep == HelperInv /\ [Next]_vars => HelperInv'
<1> SUFFICES ASSUME HelperInv, [Next]_vars PROVE HelperInv'
  OBVIOUS
<1>0. TypeOK /\ Files /\ (\A q \in Proc : Good(q)) /\ (pulled \/ Sharing)
  BY DEF HelperInv
<1>1. ASSUME NEW p \in Proc, EngineActs(p)
      PROVE  HelperInv'
  <2>1. Acts(p) /\ Files' /\ req'[p].pc \notin {"mConfigure", "mMount"}
    BY <1>0, <1>1, RequestsAct
  <2>2. UNCHANGED kernel
    BY <1>1 DEF EngineActs, Begin, EngineStep, CreateAllocate, CreateCommit, CreateUndoFile,
                StartEnsure, DeleteRemove, DeleteForget, CallRefused, HelperDies, EngineDies
  <2>3. Gentle(p)
    BY <1>0, <2>1, <2>2, TypeParts, KeptTypes, UnmovedKernel DEF Gentle
  <2>4. Mine(p)'
    BY <2>1 DEF Mine, On
  <2>5. QED
    BY <1>0, <2>1, <2>3, <2>4, GentleStep
<1>2. ASSUME NEW p \in Proc, (MountStep(p) /\ ~MountMount(p)) \/ MountLock(p) \/ UnmountStep(p)
                             \/ UnmountLock(p)
      PROVE  HelperInv'
  <2>1. Acts(p)
    BY <1>0, <1>2, MountActs, UnmountActs
  <2>2. ~pulled' => Sharing
    BY <1>0, <2>1 DEF Acts
  <2>3. Gentle(p)
    BY <1>0, <1>2, <2>2, HelperGentle DEF Sharing
  <2>4. Sharing => Mine(p)'
    <3>1. CASE MountCheck(p) \/ MountConfigure(p)
      BY <1>0, <3>1, MountLooksShare
    <3>2. CASE ~(MountCheck(p) \/ MountConfigure(p))
      <4>1. req'[p].pc \notin {"mConfigure", "mMount"}
        BY <1>0, <1>2, <3>2, AwayFromMount DEF MountStep
      <4>2. QED
        BY <4>1 DEF Mine, On
    <3>3. QED
      BY <3>1, <3>2
  <2>5. QED
    BY <1>0, <2>1, <2>3, <2>4, GentleStep
<1>3. ASSUME NEW p \in Proc, MountMount(p)
      PROVE  HelperInv'
  <2>1. Acts(p)
    BY <1>0, <1>3, MountActs DEF MountStep
  <2>2. KernelTypes' /\ Files' /\ (~pulled' /\ Sharing => Sharing')
    BY <1>0, <1>3, MountMountShares
  <2>3. TypeOK'
    BY <2>1, <2>2, TypeParts DEF Acts, Others
  <2>4. \A q \in Proc : Good(q)'
    BY <1>0, <2>1, OthersGood DEF Acts
  <2>5. QED
    BY <1>0, <2>1, <2>2, <2>3, <2>4 DEF HelperInv, Acts
<1>4. CASE Reboot
  <2>1. \A n \in Name : mounts'[n] = <<>>
    BY <1>4 DEF Reboot
  <2>2. MountedDevices' = {}
    BY <2>1 DEF MountedDevices, InUse
  <2>3. KernelTypes'
    BY <1>4, <2>2 DEF Reboot, KernelTypes
  <2>4. EngineTypes' /\ CountTypes'
    BY <1>0, <1>4, UnchangedEngine, CountsKept DEF Reboot
  <2>5. LockTypes' /\ ReqTypes'
    BY <1>4, IdleTypes DEF Reboot, LockTypes, ReqTypes
  <2>6. \A p \in Proc : req'[p] = Idle
    BY <1>4 DEF Reboot
  <2>7. \A p \in Proc : Good(p)' /\ Mine(p)'
    BY <2>6, IdleTypes DEF Good, Mine, Locked, On
  <2>8. Files'
    BY <1>0, <1>4, <2>2 DEF Reboot, Files, disk
  <2>9. OneDevice' /\ OwnImages'
    BY <2>1, <2>2 DEF OneDevice, OwnImages
  <2>10. QED
    BY <2>3, <2>4, <2>5, <2>7, <2>8, <2>9, TypeParts DEF HelperInv, Sharing
<1>5. CASE UNCHANGED vars
  <2>1. TypeOK'
    BY <1>0, <1>5, TypeParts, KeptTypes DEF vars
  <2>2. Files' /\ Shrinks /\ MountedDevices' = MountedDevices /\ backing' = backing
    BY <1>0, <1>5, FilesKept, UnmovedKernel DEF vars
  <2>3. \A p \in Proc : (Good(p) => Good(p)') /\ (Mine(p) => Mine(p)')
    BY <1>5, <2>2 DEF vars, Good, Mine, On, N, disk
  <2>4. Sharing => Sharing'
    BY <1>5, <2>2, <2>3 DEF vars, Sharing, OneDevice, OwnImages, disk, kernel
  <2>5. QED
    BY <1>0, <1>5, <2>1, <2>2, <2>3, <2>4 DEF HelperInv, vars
<1>6. QED
  <2>1. \A p \in Proc, n \in Name :
           BeginCreate(p, n) \/ BeginStart(p, n) \/ BeginDelete(p, n) \/ BeginReconcile(p, n)
           => EngineActs(p)
    BY DEF BeginCreate, BeginStart, BeginDelete, BeginReconcile, EngineActs, Op
  <2>2. QED
    BY <1>1, <1>2, <1>3, <1>4, <1>5, <2>1 DEF Next, EngineActs, LockStep, Reconciles

LEMMA HelperInit == Init => HelperInv
<1> SUFFICES ASSUME Init PROVE HelperInv
  OBVIOUS
<1>1. \A n \in Name : mounts[n] = <<>>
  BY DEF Init
<1>2. MountedDevices = {}
  BY <1>1 DEF MountedDevices, InUse
<1>3. EngineTypes /\ CountTypes
  <2>1. <<>> \in Seq(Name) /\ Len(<<>>) = 0
    OBVIOUS
  <2>2. madeFor \in Seq(Name) /\ Len(madeFor) <= MaxIno
    BY <2>1 DEF Init
  <2>3. faults \in 0..MaxFault /\ pulled \in BOOLEAN
    <3>1. faults = 0 /\ pulled = FALSE
      BY DEF Init
    <3>2. 0 \in 0..MaxFault
      OBVIOUS
    <3>3. QED
      BY <3>1, <3>2
  <2>4. record \in [Name -> BOOLEAN] /\ mountDir \in [Name -> BOOLEAN]
    BY DEF Init
  <2>5. file \in [Name -> Ino \cup {None}]
    BY DEF Init
  <2>6. QED
    BY <2>2, <2>3, <2>4, <2>5 DEF EngineTypes, CountTypes
<1>4. KernelTypes
  BY <1>2 DEF Init, KernelTypes
<1>5. LockTypes /\ ReqTypes
  BY IdleTypes DEF Init, LockTypes, ReqTypes
<1>6. \A p \in Proc : Good(p) /\ Mine(p)
  BY IdleTypes DEF Init, Good, Mine, Locked, On
<1>7. Files
  BY <1>2 DEF Init, Files
<1>8. OneDevice /\ OwnImages
  BY <1>1, <1>2 DEF OneDevice, OwnImages
<1>9. QED
  BY <1>3, <1>4, <1>5, <1>6, <1>7, <1>8, TypeParts DEF HelperInv, Sharing

LEMMA HelperAlways == Spec => []HelperInv
  BY HelperInit, HelperStep, PTL DEF Spec

\* Every variable keeps its type, and a device that detaches itself is mounted.
THEOREM HelperTypeCorrect == Spec => []TypeOK
<1>1. HelperInv => TypeOK
  BY DEF HelperInv
<1>2. QED
  BY <1>1, HelperAlways, PTL

\* safe.rs, FileLock: whatever calls run at once, die, fail and are repeated, an
\* image is never mounted through two loop devices, unless an unmount without
\* the lock has pulled a device from a mount call.
THEOREM OneMountPerImage == Spec => []NoTwoDevices
<1>1. HelperInv => NoTwoDevices
  BY DEF HelperInv, Sharing, OneDevice, NoTwoDevices
<1>2. QED
  BY <1>1, HelperAlways, PTL

\* F-28: what is mounted at a project's mount point is that project's image,
\* however device numbers were given back and taken again.
THEOREM MountsAreOwn == Spec => []OwnVolume
<1>1. HelperInv => OwnVolume
  BY DEF HelperInv, Sharing, OwnImages, OwnVolume
<1>2. QED
  BY <1>1, HelperAlways, PTL
=============================================================================
