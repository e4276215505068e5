------------------------------- MODULE Bundle -------------------------------
(***************************************************************************)
(* A project's content on its way into a bundle, out of one, and in from a *)
(* host directory: export, import and adopt of src/engine/project.rs, the  *)
(* archive of src/bundle/{export,import,manifest,policy}.rs, and the       *)
(* package list of src/engine/packages.rs.                                 *)
(*                                                                         *)
(* Abstraction.  A file's content is a version, 0 being "not there".  The  *)
(* member stream is cut at members, one chunk each: what matters is that a *)
(* chunk's digest is of its plaintext, so that a digest says which version *)
(* the payload is.  Create, delete, start and stop are single steps here   *)
(* (EngineProject has their insides).                                      *)
(* Faults: a call fails, a client hangs up, nemrd dies, the bundle file is *)
(* damaged or cut short, and everybody may use one path at once.           *)
(***************************************************************************)
EXTENDS Naturals, FiniteSets

CONSTANTS
    Project,       \* projects
    Origin,        \* those exported and worked in, in this instance
    Target,        \* the names imports and adoptions use
    Slot,          \* requests nemrd has in hand
    Reader,        \* those that may make a project, in this instance
    File,          \* paths on a volume
    Packages,      \* .nemr-state/packages.json
    Credential,    \* paths below or at a .credentials.json
    Nested,        \* paths that end in .nemr
    Artifact,      \* paths below target, node_modules, .git/objects, ...
    Backup,        \* paths below .nemr-state/backups
    Ignored,       \* what a repository's .gitignore names
    Written,       \* what sessions write in this instance
    Held,          \* what the first project holds at the start
    Installed,     \* projects whose owner installed packages
    Source,        \* what the directory to adopt holds
    Chain,         \* root file systems, by chain id
    Image,         \* those a local image builds
    BaseChain,     \* the one config::BASE_IMAGE builds
    NoChain,       \* a bundle from before the field existed
    NoManifest,
    MaxVersion

ASSUME BundleConstants ==
    /\ Project # {} /\ Origin \cup Target \subseteq Project /\ Reader \subseteq Slot
    /\ Packages \in File \ (Credential \cup Nested \cup Artifact)
    /\ Credential \cup Nested \cup Artifact \cup Backup \cup Ignored \cup Written \cup Held \cup Source \subseteq File
    /\ BaseChain \in Image /\ Image \subseteq Chain /\ NoChain \notin Chain
    /\ MaxVersion \in Nat \ {0}

VARIABLES
    rootfs,      \* Project -> chain of the record's snapshot, NoChain: no record
    running,     \* projects with a task
    volume,      \* Project -> content
    bundle,      \* the file at the one destination path
    rpc          \* Slot -> request

bundleVars == <<rootfs, running, volume, bundle, rpc>>

Content == [File -> 0..MaxVersion]
Empty == [f \in File |-> 0]
There(c) == {f \in File : c[f] > 0}

\* was and calm are ghosts: what the project held when its files were listed, and
\* whether nobody started or deleted it, or corrected its package list, since the export began.
Manifest == [schema : {1, 2}, chain : Chain \cup {NoChain}, digest : Chain \cup {NoChain},
             members : Content, was : Content, calm : BOOLEAN]
Blank == [m |-> NoManifest, chunks |-> Empty]

Pcs == {"idle", "eIdentity", "ePackages", "ePlan", "eRead", "eCreate", "eWrite", "eChunks",
        "iCreate", "iCheck", "iManifest", "iChunks", "iVerify", "iExtract",
        "aCreate", "aCopy", "cleanup"}

NoRpc(n) == [pc |-> "idle", name |-> n, all |-> FALSE, todo |-> {}, m |-> NoManifest,
             chunks |-> Empty, calm |-> TRUE]
Rpc == [pc : Pcs, name : Project, all : BOOLEAN, todo : SUBSET File,
        m : Manifest \cup {NoManifest}, chunks : Content,
        calm : BOOLEAN]   \* calm, a ghost: nobody disturbed the project meanwhile
AnyProject == CHOOSE n \in Project : TRUE

BundleTypeOK ==
    /\ rootfs \in [Project -> Chain \cup {NoChain}]
    /\ running \subseteq {n \in Project : rootfs[n] # NoChain}
    /\ volume \in [Project -> Content]
    /\ bundle \in [m : Manifest \cup {NoManifest}, chunks : Content]
    /\ rpc \in [Slot -> Rpc]

Exists(n) == rootfs[n] # NoChain

----------------------------------------------------------------------------
(* What travels (policy.rs).                                               *)

\* Mutant: the override is asked first, and lets everything through.
IncludedOverridden(f, all) == all \/ f \notin Credential \cup Nested \cup Artifact
\* The rules in their order: secrets, nested bundles, then the overridable defaults.
Included(f, all) == f \notin Credential \cup Nested /\ (all \/ f \notin Artifact)
Critical(f) == f \notin Backup

\* plan_members: everything on the volume the policy lets through.
Planned(c, all) == {f \in There(c) : Included(f, all)}
Only(c, fs) == [f \in File |-> IF f \in fs THEN c[f] ELSE 0]

\* adopt_copy_set: derived directories never, and in a repository what git lists.
CopySet(repository) ==
    {f \in Source : f \notin Artifact /\ (repository => f \notin Ignored)}

----------------------------------------------------------------------------
Is(s, pc) == rpc[s].pc = pc
Turns(s, pc) == rpc' = [rpc EXCEPT ![s].pc = pc]
Ends(s) == rpc' = [rpc EXCEPT ![s] = NoRpc(AnyProject)]
\* The project this request made is to be deleted.
Fails(s) == rpc' = [rpc EXCEPT ![s] = [NoRpc(@.name) EXCEPT !.pc = "cleanup"]]

\* Requests that read or fill n's volume between two of their awaits.
InTransfer(s, n) == rpc[s].name = n /\ rpc[s].pc # "idle"
\* No other request writes n: none that restores it, none that outlived a delete of it.
Alone(s, n) ==
    \A t \in Slot \ {s} :
      InTransfer(t, n) => rpc[t].calm /\ rpc[t].pc \in {"eIdentity", "ePackages", "ePlan", "eRead",
                                                       "eCreate", "eWrite", "eChunks"}

\* For the ghosts: the transfers of n, but for those of ss, do not have it to themselves.
Disturbed(n, ss) ==
    [t \in Slot |-> IF InTransfer(t, n) /\ t \notin ss THEN [rpc[t] EXCEPT !.calm = FALSE]
                    ELSE rpc[t]]

BundleInit ==
    /\ \E c \in Chain : rootfs = [n \in Project |-> IF n = AnyProject THEN c ELSE NoChain]
    /\ running = {}
    /\ volume = [n \in Project |-> [f \in File |-> IF n = AnyProject /\ f \in Held THEN 1 ELSE 0]]
    /\ \E v \in {1, 2} :
         bundle = [m |-> [schema |-> v, chain |-> NoChain, digest |-> BaseChain,
                          members |-> Empty, was |-> Empty, calm |-> TRUE], chunks |-> Empty]
    /\ rpc = [s \in Slot |-> NoRpc(AnyProject)]

\* create_with_auth: a volume of its own, and always this engine's image.
Creates(n) ==
    /\ rootfs' = [rootfs EXCEPT ![n] = BaseChain]
    /\ volume' = [volume EXCEPT ![n] = Empty]

\* delete: the task is stopped, the volume and the snapshot go.
Deletes(n) ==
    /\ rootfs' = [rootfs EXCEPT ![n] = NoChain]
    /\ running' = running \ {n}
    /\ volume' = [volume EXCEPT ![n] = Empty]

----------------------------------------------------------------------------
(* Export.                                                                 *)

\* The record must exist and its task must not run.
BeginExport(s, n, all) ==
    /\ Is(s, "idle") /\ Exists(n) /\ n \notin running
    /\ rpc' = [rpc EXCEPT ![s] = [NoRpc(n) EXCEPT !.pc = "eIdentity", !.all = all,
                                    !.calm = Alone(s, n)]]
    /\ UNCHANGED <<rootfs, running, volume, bundle>>

\* base_image_identity: the snapshot's parent is the truth; the digest only if an
\* image here builds it.
Identity(c) == [schema |-> 1, chain |-> c, digest |-> IF c \in Image THEN c ELSE NoChain,
                members |-> Empty, was |-> Empty, calm |-> TRUE]

ExportIdentity(s) ==
    /\ Is(s, "eIdentity")
    /\ IF Exists(rpc[s].name)
       THEN rpc' = [rpc EXCEPT ![s].pc = "ePackages", ![s].m = Identity(rootfs[rpc[s].name])]
       ELSE Ends(s)
    /\ UNCHANGED <<rootfs, running, volume, bundle>>

\* What dpkg and apt say of the snapshot, less what the image had.
Declared(n) == IF n \in Installed THEN 1 ELSE 0

\* refresh_declared_packages: what the snapshot shows is written, a list it does not
\* bear out is removed; a failure is a warning.
ExportPackages(s) ==
    LET n == rpc[s].name IN
    /\ Is(s, "ePackages")
    /\ \/ Turns(s, "ePlan") /\ UNCHANGED volume
       \/ /\ Exists(n) /\ volume[n][Packages] # Declared(n)
          /\ volume' = [volume EXCEPT ![n][Packages] = Declared(n)]
          /\ rpc' = [Disturbed(n, {s}) EXCEPT ![s].pc = "ePlan"]
    /\ UNCHANGED <<rootfs, running, bundle>>

ExportPlan(s) ==
    LET held == volume[rpc[s].name] IN
    /\ Is(s, "ePlan")
    /\ rpc' = [rpc EXCEPT ![s] = [@ EXCEPT !.pc = "eRead", !.todo = Planned(held, rpc[s].all),
                                            !.all = FALSE,
                                            !.m.was = Only(held, Planned(held, rpc[s].all))]]
    /\ UNCHANGED <<rootfs, running, volume, bundle>>

\* The manifest of the members c.
Stamped(r, c) == [r.m EXCEPT !.members = c, !.calm = r.calm, !.was = IF r.calm THEN @ ELSE c]

\* A member is what its file holds when it is read; one that vanished fails the export.
ExportRead(s) ==
    LET held == volume[rpc[s].name] IN
    /\ Is(s, "eRead")
    /\ IF rpc[s].todo \subseteq There(held)
       THEN rpc' = [rpc EXCEPT ![s].pc = "eCreate", ![s].m = Stamped(rpc[s], Only(held, rpc[s].todo))]
       ELSE Ends(s)
    /\ UNCHANGED <<rootfs, running, volume, bundle>>

\* File::create truncates the destination itself: no temporary name, no rename.
ExportCreate(s) ==
    /\ Is(s, "eCreate")
    /\ bundle' = Blank
    /\ rpc' = [rpc EXCEPT ![s].pc = "eWrite"]
    /\ UNCHANGED <<rootfs, running, volume>>

\* The manifest, then the chunks; the last one completes the file.
ExportManifest(s) ==
    /\ Is(s, "eWrite")
    /\ bundle' = [bundle EXCEPT !.m = rpc[s].m]
    /\ Turns(s, "eChunks")
    /\ UNCHANGED <<rootfs, running, volume>>

\* Chunks are in the order of the plan; any order would do, as long as it is one.
First(fs) == CHOOSE f \in fs : TRUE

ExportChunk(s) ==
    /\ Is(s, "eChunks") /\ rpc[s].todo # {}
    /\ LET f == First(rpc[s].todo) IN
         /\ bundle' = [bundle EXCEPT !.chunks[f] = rpc[s].m.members[f]]
         /\ rpc' = [rpc EXCEPT ![s].todo = @ \ {f}]
    /\ UNCHANGED <<rootfs, running, volume>>

\* Any of the calls of an export may fail, the disk being full: what was written stays.
ExportEnds(s) ==
    /\ rpc[s].pc \in {"eIdentity", "eRead", "eCreate", "eWrite", "eChunks"}
    /\ Ends(s)
    /\ UNCHANGED <<rootfs, running, volume, bundle>>

----------------------------------------------------------------------------
(* Import: open, create, check, open again, resolve, verify, extract.      *)

Complete(m, chunks) == There(m.members) \subseteq There(chunks)
Readable(m) == m # NoManifest /\ m.schema = 1

\* The first open serves name, agent and size only; an existing name is refused.
BeginImport(s, n) ==
    /\ Is(s, "idle") /\ ~Exists(n)
    /\ Readable(bundle.m) /\ Complete(bundle.m, bundle.chunks)
    /\ rpc' = [rpc EXCEPT ![s] = [NoRpc(n) EXCEPT !.pc = "iCreate"]]
    /\ UNCHANGED <<rootfs, running, volume, bundle>>

ImportCreate(s) ==
    LET n == rpc[s].name IN
    /\ Is(s, "iCreate")
    /\ \/ /\ ~Exists(n) /\ Creates(n)
          /\ rpc' = [rpc EXCEPT ![s].pc = "iCheck", ![s].calm = Alone(s, n)]
       \/ Ends(s) /\ UNCHANGED <<rootfs, volume>>
    /\ UNCHANGED <<running, bundle>>

ImportCheck(s) ==
    /\ Is(s, "iCheck")
    /\ IF Exists(rpc[s].name) /\ rpc[s].name \notin running
       THEN Turns(s, "iManifest") ELSE Fails(s)
    /\ UNCHANGED <<rootfs, running, volume, bundle>>

\* The second open: the file may be another one by now, or change while it is read.
ImportManifest(s) ==
    /\ Is(s, "iManifest")
    /\ IF Readable(bundle.m)
       THEN rpc' = [rpc EXCEPT ![s].pc = "iChunks", ![s].m = bundle.m,
                               ![s].todo = There(bundle.m.members)]
       ELSE Fails(s)
    /\ UNCHANGED <<rootfs, running, volume, bundle>>

ImportChunk(s) ==
    /\ Is(s, "iChunks")
    /\ IF rpc[s].todo = {} THEN Turns(s, "iVerify")
       ELSE LET f == First(rpc[s].todo) IN
            IF bundle.chunks[f] = 0 THEN Fails(s)
            ELSE rpc' = [rpc EXCEPT ![s].todo = @ \ {f}, ![s].chunks[f] = bundle.chunks[f]]
    /\ UNCHANGED <<rootfs, running, volume, bundle>>

\* resolve_base_image: the chain id is the whole answer where there is one.
ByChain(c) == c \in Image
ByDigest(d) == d \in Image
Resolved(m) == IF m.chain # NoChain THEN ByChain(m.chain) ELSE ByDigest(m.digest)

\* check: the base image, then whether the content fits the volume.
Checked(m, fits) == Resolved(m) /\ fits

\* Mutant: members are counted, and their digests believed.
VerifiedLater(m, chunks) == Complete(m, chunks)
\* plaintext: every chunk's digest, before anything is written.
Verified(m, chunks) == \A f \in There(m.members) : chunks[f] = m.members[f]

ImportVerify(s) ==
    /\ Is(s, "iVerify")
    /\ \E fits \in BOOLEAN :
         IF Checked(rpc[s].m, fits) /\ Verified(rpc[s].m, rpc[s].chunks)
         THEN rpc' = [rpc EXCEPT ![s].pc = "iExtract", ![s].todo = There(rpc[s].m.members)]
         ELSE Fails(s)
    /\ UNCHANGED <<rootfs, running, volume, bundle>>

\* Mutant: the small files first.
CachesFirst(todo) == IF todo \subseteq {f \in File : Critical(f)} THEN todo ELSE {f \in todo : ~Critical(f)}
\* extract: session-critical members first.
NextMembers(todo) == IF \E f \in todo : Critical(f) THEN {f \in todo : Critical(f)} ELSE todo

ImportExtract(s) ==
    LET n == rpc[s].name IN
    /\ Is(s, "iExtract")
    /\ \/ /\ rpc[s].todo # {}
          /\ LET f == First(NextMembers(rpc[s].todo)) IN
            /\ rpc' = [rpc EXCEPT ![s].todo = @ \ {f}]
            /\ volume' = IF Exists(n) THEN [volume EXCEPT ![n][f] = rpc[s].chunks[f]] ELSE volume
       \/ rpc[s].todo # {} /\ Fails(s) /\ UNCHANGED volume
    /\ UNCHANGED <<rootfs, running, bundle>>

ImportDone(s) ==
    /\ Is(s, "iExtract") /\ rpc[s].todo = {}
    /\ Ends(s)
    /\ UNCHANGED <<rootfs, running, volume, bundle>>

\* A failed import or adopt deletes the project it made, by name; that may fail too.
Cleanup(s) ==
    /\ Is(s, "cleanup")
    /\ Ends(s)
    /\ \/ Exists(rpc[s].name) /\ Deletes(rpc[s].name)
       \/ UNCHANGED <<rootfs, running, volume>>
    /\ UNCHANGED bundle

----------------------------------------------------------------------------
(* Adopt a host directory.                                                 *)

\* The source is read for its set and its size before anything is made.
BeginAdopt(s, n, repository) ==
    /\ Is(s, "idle")
    /\ rpc' = [rpc EXCEPT ![s] = [NoRpc(n) EXCEPT !.pc = "aCreate", !.todo = CopySet(repository)]]
    /\ UNCHANGED <<rootfs, running, volume, bundle>>

AdoptCreate(s) ==
    LET n == rpc[s].name IN
    /\ Is(s, "aCreate")
    /\ \/ /\ ~Exists(n) /\ Creates(n)
          /\ rpc' = [rpc EXCEPT ![s].pc = "aCopy", ![s].calm = Alone(s, n)]
       \/ Ends(s) /\ UNCHANGED <<rootfs, volume>>
    /\ UNCHANGED <<running, bundle>>

\* A file that vanished since the plan is skipped.
CopiesFile(n, f) == volume' \in {volume, IF Exists(n) THEN [volume EXCEPT ![n][f] = 1] ELSE volume}

\* copy_into_session.
AdoptCopy(s) ==
    /\ Is(s, "aCopy") /\ rpc[s].todo # {}
    /\ LET f == First(rpc[s].todo) IN
         CopiesFile(rpc[s].name, f) /\ rpc' = [rpc EXCEPT ![s].todo = @ \ {f}]
    /\ UNCHANGED <<rootfs, running, bundle>>

\* All is there, or a file could not be copied.
AdoptEnds(s) ==
    /\ Is(s, "aCopy")
    /\ IF rpc[s].todo = {} THEN Ends(s) ELSE Fails(s)
    /\ UNCHANGED <<rootfs, running, volume, bundle>>

----------------------------------------------------------------------------
(* Everything else that touches a project meanwhile.                       *)

Disturbs(n) == rpc' = Disturbed(n, {})

Start(n) ==
    /\ Exists(n)
    /\ running' = running \cup {n}
    /\ Disturbs(n)
    /\ UNCHANGED <<rootfs, volume, bundle>>

Stop(n) ==
    /\ running' = running \ {n}
    /\ UNCHANGED <<rootfs, volume, bundle, rpc>>

Delete(n) ==
    /\ Exists(n) /\ Deletes(n)
    /\ Disturbs(n)
    /\ UNCHANGED bundle

\* The session, and the shell in it.
SessionWrites(n, f) ==
    /\ n \in running /\ volume[n][f] < MaxVersion
    /\ volume' = [volume EXCEPT ![n][f] = @ + 1]
    /\ UNCHANGED <<rootfs, running, bundle, rpc>>

\* The file is cut short, or a payload is damaged: once a file, in this instance.
BundleDamaged(f, v) ==
    /\ bundle.chunks[f] \notin {0, v} /\ bundle.m # NoManifest
    /\ \A g \in File : bundle.chunks[g] \in {0, bundle.m.members[g]}
    /\ bundle' = [bundle EXCEPT !.chunks[f] = v]
    /\ UNCHANGED <<rootfs, running, volume, rpc>>

\* A hang-up drops the handler at an await: between these there is none.
Awaits == {"eIdentity", "ePackages", "iCreate", "iCheck", "aCreate"}
Cancel(s) ==
    /\ rpc[s].pc \in Awaits
    /\ Ends(s)
    /\ UNCHANGED <<rootfs, running, volume, bundle>>

\* nemrd dies; tasks go on.
DaemonRestarts ==
    /\ rpc' = [s \in Slot |-> NoRpc(AnyProject)]
    /\ rpc' # rpc
    /\ UNCHANGED <<rootfs, running, volume, bundle>>

Handler(s) ==
    \/ ExportIdentity(s) \/ ExportPackages(s) \/ ExportPlan(s)
    \/ ExportRead(s) \/ ExportCreate(s) \/ ExportManifest(s) \/ ExportChunk(s)
    \/ ExportEnds(s)
    \/ ImportCreate(s) \/ ImportCheck(s) \/ ImportManifest(s)
    \/ ImportChunk(s) \/ ImportVerify(s) \/ ImportExtract(s) \/ ImportDone(s)
    \/ Cleanup(s) \/ AdoptCreate(s) \/ AdoptCopy(s) \/ AdoptEnds(s)

BundleNext ==
    \/ \E s \in Slot :
         \/ \E n \in Origin, all \in BOOLEAN : BeginExport(s, n, all)
         \/ \E n \in Target :
              /\ s \in Reader
              /\ BeginImport(s, n) \/ \E repository \in BOOLEAN : BeginAdopt(s, n, repository)
         \/ Handler(s) \/ Cancel(s)
    \/ \E n \in Project : Delete(n)
    \/ \E n \in Origin : Start(n) \/ Stop(n) \/ \E f \in Written : SessionWrites(n, f)
    \/ \E f \in File, v \in {0, MaxVersion} : BundleDamaged(f, v)
    \/ DaemonRestarts

BundleSpec == BundleInit /\ [][BundleNext]_bundleVars

----------------------------------------------------------------------------
(* Properties.                                                             *)

\* A restore that gets to its end has put on the new volume exactly what some stopped
\* project held when it was exported, whatever happened to the bundle file in between:
\* an export into it at the same time, one that died in it, a cut or a damaged payload
\* (bundle-format.md section 5; import.rs 1-15).  The condition is on the two projects
\* alone: nobody started or deleted them, or corrected their package list, meanwhile.
RestoredAsPacked ==
    \A s \in Slot :
      Is(s, "iExtract") /\ rpc[s].todo = {} /\ rpc[s].calm /\ rpc[s].m.calm =>
        volume[rpc[s].name] = rpc[s].m.was

\* A restore that stops anywhere in its writing, at a failed write or with nemrd, leaves
\* no reconstructible file beside a session-critical one that is missing (import.rs 230).
SessionBeforeCaches ==
    \A s \in Slot :
      Is(s, "iExtract") /\ rpc[s].calm =>
        LET now == volume[rpc[s].name] IN
          \/ There(now) \cap Backup = {}
          \/ \A f \in There(rpc[s].m.members) \ Backup : now[f] = rpc[s].m.members[f]

\* D-02: a credential that got onto a volume, by an adoption or from a session, is in
\* no bundle, whatever options the export was called with (policy.rs 116-130).
SecretsStay ==
    \A f \in Credential : bundle.chunks[f] = 0 /\ (bundle.m # NoManifest => bundle.m.members[f] = 0)

\* F-115: a restored project runs on the root file system its bundle records
\* (manifest.rs 81-83, CONFORMANCE.md 204).
RestoredOnItsRootfs ==
    \A s \in Slot :
      Is(s, "iExtract") /\ rpc[s].todo = {} /\ rpc[s].calm =>
        rpc[s].m.chain \in {NoChain, rootfs[rpc[s].name]}
============================================================================
