# A TLA+ model of nemr-engine

nemr runs coding sessions in rootless containers. A project is a container record,
an image file holding its volume and a rootfs snapshot; a session is the project's
running task. `nemrd` does the work for the `nemr` command; `nemr-cloud` moves a
project between machines through `nemr-sync`, which keeps one bundle per session
and a lease that says which machine may publish the next.

This directory holds TLA+ modules translated from that code, TLC configurations
that check them on small instances, and TLAPS proofs of the theorems that matter
most. `PROJECT.json` maps each definition to the lines it stands for.

    tlc -workers 2 -config SyncServer.cfg MCSyncServer
    tlapm SyncServer_proofs.tla

## 1. Inventory

### Sync server: index, leases, bundles (`crates/nemr-sync/src/{index,lease,bundles}.rs`)
*State*: `sessions` rows (name, storage key, digest), `leases` rows (holder, fence,
expiry), one object per session in the object store. *Operations*: upsert, acquire,
takeover, heartbeat, release, upload, download, delete. *Interactions*: each handler
resolves the session's name to an id, then runs one or more SQL statements and store
calls, each awaited. *Hard*: requests of two machines interleave at every await; a
client may go away at any of them; leases expire while a request is in flight.
*Correct when*: fences only grow and are unique; a superseded holder changes nothing;
a live lease is taken only explicitly; a deleted session stays deleted; a recorded
bundle has its object.

### Sync server: accounts (`identity.rs`, `auth.rs`), with their clients
*State*: a row per e-mail with a status, tokens, failed-login rows; on the client the
account file and, in the web page's process, one pending registration. *Operations*:
register, confirm recovery, login (rate limited), logout, the token check. *Hard*:
check-then-act over awaits on the server; the page takes its pending registration out,
awaits, and puts it back; two processes write one account file through one temporary
name. *Correct when*: an account that is active can be opened with the code its owner
was shown; a stored account file is whole and opens; the failure limit holds.

### Sync server: process and settings (`main.rs`, `settings.rs`, `store.rs`)
*State*: environment over file, key by key. *Operations*: `--check`, start-up, the run
until a signal. *Correct when*: what the check reports is what the server needs.

### Object storage (`crates/nemr-storage`)
*State*: a directory of files named after keys, or a bucket with unfinished uploads.
*Operations*: put_file, get_stream, delete as the server uses them. *Hard*: a put writes
in chunks and publishes at the end, requests of one key overlap, any of them may fail,
be dropped or die between two chunks. *Correct when*: a reader gets one whole put.

### Cloud client (`crates/nemr-cloud/src/{core,commands,api,state,engine_cli}.rs`)
*State*: the machine's lease record in a JSON file (status, fence, holder pid), the
local project, one heartbeat process per held session. *Operations*: push, pull,
release, delete, status, the heartbeat loop. *Interactions*: HTTP to the server, the
`nemr` command for export and import, SIGTERM to the holder. *Hard*: no heartbeat runs
between the grant and the end of the transfer; processes write one state file without
a lock; a command may die between any two calls. *Correct when*: a push replaces
nothing but what it was based on, and a heartbeat process ends or holds the lease.

### Local web interface (`crates/nemr-cloud/src/{serve,daemon}.rs`)
*State*: the exchange token, the browser session, attach tickets, jobs, one pending
registration. *Hard*: single-use secrets with two tabs racing; the registration slot is
taken out, awaited over and put back; a socket bridged to an attach stream.

### Server management (`crates/nemr-cloud/src/{server,configure}.rs`)
*State*: a record file with a pid and its start time, the settings file. *Operations*:
`nemr server start | stop | status | configure`. *Hard*: start becomes the server;
a preflight by an old binary is a server; pids are used again; commands overlap.
*Correct when*: the record finds the server, a stop hits nothing else.

### Engine: project lifecycle (`src/engine/{project,volume}.rs`)
*State*: container record and rootfs snapshot (containerd), task, image file, loop
device, mount, the directories at the mount point. *Operations*: create, import, start,
stop, delete, export, adopt, reconcile. *Interactions*: containerd over gRPC, the
privileged `nemr-volume` helper, the files below `~/.nemr`. *Hard*: nemrd holds no lock
per project; a hang-up cancels a handler at an await; daemon crashes and host reboots
leave any prefix of the steps behind. *Correct when*: a session never runs on the
host's filesystem (VOL-05); delete can be repeated wherever it stopped; reconcile
finds what an interrupted operation left; what create reports created can be started.

### Privileged volume helper (`deploy/nemr-volume`)
*State*: loop devices, mounts, the lock on the image's inode. *Operations*: mount,
unmount, detach, release; size limits. *Hard*: one process per call, killed or failing
between two system calls; the lock follows an inode, the mount point a name and the
device a number. *Correct when*: no image has two devices, no project another's volume,
and a size accepted is a size that mounts.

### Engine: session networks (`src/engine/netns.rs`, `project.rs` 3267-3480)
*State*: an index on each record's labels, the process-wide `NETWORK_ALLOCATION` lock,
one link per index. *Operations*: allocate at create and at an older project's first
start, connect, disconnect, label edits. *Correct when*: no two projects carry an
index, no operation takes another project's link, and waiters for the lock get it.

### Engine: port forwards (`src/engine/ports.rs`, `project.rs` 3628-3827)
*State*: the declared ports on a record's label, rootlesskit's table of forwards,
which is shared with the user's own. *Operations*: port add and rm, application at
start, withdrawal at stop and delete, reconcile. *Correct when*: forwards are derived
from labels, a port is declared once, reconcile drops nobody else's forward (F-97).

### Engine: the host credential (`src/auth.rs`, `engine/credential_bind.rs`, `daemon/credential_watch.rs`)
*State*: `~/.claude/.credentials.json`, the file each session sees, an inotify watch
on directory and file, the watcher's queue and its record of the last rewrite.
*Operations*: ensure at start, scrub after an attach, reset, re-bind into running
sessions. *Hard*: writers replace the file by rename or write in place; events are
coalesced; a rename and the watch on the new file are two steps.

### Engine: attach sessions (`daemon/attach.rs`, `engine/tty.rs`, exec in containerd's client)
*State*: an exec, its FIFO directory, a pump thread, a bounded response channel, the
select loop of `run_session`. *Hard*: client, program, pump, loop and containerd go on
independently; each of them may stop taking what it is given, or go. *Correct when*:
the exit comes after all output, threads end, an end of input reaches the shell.

### Bundles (`src/bundle/`, `engine/packages.rs`)
*State*: a manifest with digests, a policy over the walked tree, a chunked archive.
*Operations*: export, import, adopt. *Hard*: the tree is walked first and read later;
members are verified and written one at a time; the project may start, stop or go
meanwhile. *Correct when*: what is restored is what was packed, the session's own files
come first, and no credential is in it.

### nemrd, nemr, containerd client, cryptography, the rest
nemrd (`daemon/mod.rs`) is a thin concurrent gateway; `nemr` is one call per command.
The containerd client and cryptography are used by the parts above. Styles and host
scripts run in order, by one process.

## 2. The modules

| module | models | how state and actions correspond |
|---|---|---|
| `FencedSessions` | what the server promises of a session | abstract: opened once, closed once, holds with growing epochs, value changed under a hold |
| `SyncServer` | index, lease, bundles | tables as functions by row id; one record per request in flight; one action per SQL statement or store call; `Drop` is a hang-up at any await; `Tick` the database's clock |
| `ObjectStore` | the store's two backends | a name leads to an inode, an inode has chunks, a request has one open; one action per chunk, rename, part; `Cancel` and `ServerDies` leave what they find |
| `CloudSession` | push, pull, release, delete, the heartbeat process | the server is `INSTANCE FencedSessions`; a command is its pc and fence; the session list is `Rows`, an operator; processes are `asleep`, about to save `held` or `lost`, or gone; `Fails` ends a command after any step |
| `Accounts` | one e-mail: row, tokens, failures; page and commands as clients | a registration's keys and code are its number; the account file is a name, an inode and what it holds; one action per statement, request, file call |
| `ServerSettings` | settings, the server's needs, `--check` and its one-line messages, configure's additions | operators on functions from keys to values, and on messages as sequences of characters |
| `ServerHost` | `nemr server`'s commands, the process table, the record file | extends `ServerSettings`; a process is its number, start time, kind and pc |
| `EngineProject` | create, start, stop, delete, import/export as users of the volume, reconcile | each host resource is a function of the name; a request is a pc; a step is what runs between two awaits or one helper call |
| `VolumeSizes` | a size from argument or prompt to mount | pure operators, 64-bit overflow included |
| `VolumeHelper` | the helper inside EngineProject's one step, and the two readers of the mount table | one action per system call; `lock` by inode, `mounts` by name, `backing` by device; `CallRefused` is a call that ends before the helper's own first step; the table's escapes are operators on bytes |
| `SessionNetwork` | allocation and use of network indices; the host's routes | `label`, `link`, `lock`; the lock is taken and released where the guard is acquired and dropped; a route is the upper half of its prefix and its length |
| `PortForwards` | port add, rm, start, stop, delete, reconcile | `declared` is the label, `bound` is who a port leads to; listed forwards are the ports in `seen` and `todo`, forgotten when the id goes |
| `HostCredential` | the credential file and its watcher | inodes with contents; `pin` is what a session's bind holds; `queue` is inotify's, `events` the watcher task's |
| `Attach` | one attach from page or terminal to the exec | chunks are counted where they are: FIFO, shim, pump, channel, client; each actor has its pc |
| `Terminal` | the attach client's scanner of terminal modes, and what it writes after an attach | pure operators on bytes; the tracker is a record of the struct's fields |
| `Bundle` | export, import, adopt, packages.json | a file's content is a version; an archive is its members in order with the digests' versions |
| `*_proofs` | | theorems of the module before the underscore; `SessionNetwork_proofs` also of `MCSessionNetwork`, `VolumeHelper_proofs` of `VolumeSizes` and `Bundle`, `Accounts_proofs` of `ServerSettings` and `ServerHost`, `ObjectStore_proofs` of `CloudSession`, `HostCredential_proofs` of `Attach` |
| `MC*` | | instances, symmetry, and in `MCSessionNetwork` the choice between requests one at a time with two indices and two at once with one |

`CloudSession` composes the client with the server by what the server promises;
that `SyncServer` keeps that promise is its property `ImplementsSessions`. `ObjectStore`
is what `SyncServer`'s put and read of an object are made of, `VolumeHelper` what
`EngineProject`'s mount and unmount are. The engine modules share nemrd's rules
(requests in slots, `Begin`, `Cancel`, `DaemonRestarts`) and divide its state: no
variable of one is written by another, except that each has as much of a task and of a
record as it needs.

What all of them abstract: payloads (model values or versions), wording, logging,
retries inside one library call, and time other than lease expiry.

## 3. The runs

| run | question | bounds |
|---|---|---|
| `sync_server` | do leases fence, through every interleaving of two requests with expiry, takeover and deletion; does the server implement `FencedSessions` | 1 name, 2 machines, 1 body, 2 requests, TTL 1, 2 row ids, 2 fences, 3 instants |
| `object_store` | is what is stored and sent whole; are parts reclaimed | 2 keys, 2 requests, 3 puts of at most 2 chunks, 6 inodes; either backend |
| `cloud_session` | does a push or pull ever work on the wrong version; do heartbeat processes settle | 2 machines, 2 clients, 2 commands, 2 processes, 2 ids, 3 fences, 2 versions |
| `accounts` | can an active account be opened; is the account file whole; does the limit hold; does a wrong code lose the registration | 2 clients, 2 registrations, 2 tokens, limit 1 |
| `server_host` | does the record find the server, a stop hit only it, a check leave nothing, configure only add | 3 processes ever over 3 numbers, 2 addresses, 1 change of host or file |
| `engine_projects` | is every project served one request at a time startable; does a reconcile left alone clean up any mess | 1 name, 2 requests |
| `volume_helper` | has an image one device, a mount point its own image | 2 names, 2 requests with a helper each, 3 devices, 2 images, 1 fault |
| `session_network` | is an index ever allocated twice; does a waiter get the lock; one request at a time, does a link lead to the record with its index | 2 projects (one from before there were indices), 2 requests with 1 index, so that one of them finds none left, or 1 request with 2 |
| `port_forwards` | are forwards derived from labels, whose forwards does reconcile drop | 2 projects, 1 port, 2 requests |
| `host_credential` | does the record say what the file is; do running sessions catch up | 1 session, 1 request beside the watcher, 4 inodes, 2 outside writes |
| `attach` | does output come before the exit; do the pumps end; is an exit seen; does an end of input end the shell | 2 chunks in, 3 out, FIFO and channel of 1, nemrd started twice |
| `bundle` | is what is restored what was packed, in order, without secrets | 2 projects, 2 requests, 3 paths (session history, the package list, a credential), 2 versions |

*Assumptions TLC evaluates.* The pure parts are checked against a reference definition
over bounded inputs, as assumptions of the MC module of the run:

| assumption (module) | says |
|---|---|
| `CheckAgrees` (`MCServerHost`) | `--check` passes exactly where the server starts and can write, for every file and host |
| `ReportIsOneLine`, `LoneBackslashIsItself` (`MCServerHost`) | a fact of the report is one line, and its reader has the message back: every message of up to five characters of five kinds |
| `EverySessionOnce` (`MCCloudSession`) | the session list has every session once, in order, where it is, with the size and holder that apply: every two lists of up to two of three names |
| `MountTableIsRead` (`MCVolumeHelper`) | either reader of the mount table finds a mount point whatever is in its name, its first device, and whether it is shared |
| `PromptIsRight` (`MCVolumeHelper`) | the range and the filled-in answer of the size prompt are accepted by what is asked next |
| `RangeIsChecked` (`MCSessionNetwork`) | a host route that claims any address of 10.99/16 refuses the allocation, a default route does not: six first octets, every second one, every length |
| `TerminalIsRestored` (`MCAttach`) | what is written after an attach switches off what the program's output left on, and nothing else, wherever the output is cut: up to three of 14 fragments |

The sizes of `VolumeSizes` are assumptions of `MCVolumeHelper` in the same way.

Each property of a run has a mutant in `PROJECT.json`: a plausible bug in a mapped
definition that makes TLC find the property violated on the same instance.

*Counterexample configurations.* Ten further configurations check one property each
that a document or comment of the repository states and the code does not keep. They are
not runs; each can be reproduced with TLC:

| configuration (module) | property | what the trace shows |
|---|---|---|
| `SyncServerRefused` (`MCSyncServer`) | `RefusedUploadLeavesBundle` | an upload superseded during its transfer is refused after it has replaced the rightful object (bundles.rs 127); tests/lease.rs:288-289 says it publishes nothing |
| `EngineHost` (`MCEngineProject`) | `NeverOnHost` | a reconcile that listed before a project existed unmounts between start's check (project.rs 1122) and its task, which runs on the host's directory; project.rs:1115-1121 says the check closes that |
| `NetworkEdited` (`MCSessionNetwork`, under its `Spec`) | `IndicesUnique` | a label edit writes back the labels it read and with them an index given out meanwhile |
| `CloudLost` (`MCCloudSession`) | `AlreadyLostIsTrue` | release says the lease "was already gone" on any refusal (commands.rs 356-361); after a failed delete or pull the machine still holds it on a newer fence |
| `CloudReissued` (`MCCloudSession`) | `StaleStaysStale` | after a delete and a new push the fences of the name begin again at 1, and an upload that was under way under fence 1 of the deleted session passes for one of the new; lease.rs:205-209 keeps released rows so that no stale credential ever matches again |
| `HostCredentialPinned` (`MCHostCredential`) | `LoginsLand` | after a login in a session every running session is bound to the file again, which F-14 removed (credential_watch.rs 284; project.rs:187-188) |
| `BundleRootfs` (`MCBundle`) | `RestoredOnItsRootfs` | import makes the project on the engine's own base image and drops the one it resolved (project.rs 2995); manifest.rs:81-83 says it refuses rather than substitute |
| `VolumeHelperReclaim` (`MCVolumeHelper`) | `ReclaimsAll` | a device attached to an unlinked image stays when a later image has its name (main.rs 662); project.rs:2123-2125 says reconcile reclaims every orphan |
| `AttachHangUp` (`MCAttach`) | `HangUpIsCleanedUp` | after the client has gone the select loop is ready at once in every round and never learns that the exec ended (attach.rs 132); attach.rs:178-179 says it keeps waiting |
| `AccountsReplaced` (`MCAccounts`) | `ReplacedCodeConfirmsNothing` | a registration replaced between confirm's two statements is made active by the old code (identity.rs 211); SPEC.md:145 says it confirms nothing |

*Why the bounds are enough.* A race needs two actors and the thing they race for: two requests (or machines,
or projects) and one session, port or index. Sessions are keyed by id and never read each other's rows, so one
name suffices, with two ids so that it can be deleted and created again under an old request. Two fences let a
hold be superseded once; a lease of term 1 given at the first of three instants is live at the second and has
expired by the clock at the third. In `CloudSession` two commands are what it takes for one to act on what the
other left. Engine operations on different names meet only in reconcile's list (modelled as the set `known`),
in indices and ports, and in device numbers, all of which have two projects. One outside write of the
credential can arrive during the handling of another: two writes and four inodes. In `ObjectStore` a third put
meets what two have left; two chunks are the fewest between which something can happen, and six inodes are one
more than two objects, a temporary file and two open files need. One fault at a time is what the helper's
recovery is written for. FIFO and channel of one chunk are full at once, which is the case that matters. In
`Bundle` each path is of one class the policy tells apart.

*Stopping.* `CloudSession`, `HostCredential`, `VolumeHelper`, `ServerHost` and `Attach`
bound commands, writes, faults, births or chunks, so their instances end; these runs
switch the deadlock check off. The others have it on.

*Fairness.* `SessionNetwork`: containerd and host commands answer, so every step that is
not waiting for the lock is weakly fair; tokio's mutex is first come, first served, so
whoever waits gets it if it is free again and again: strong fairness of acquiring.
`CloudSession`: the heartbeat process is a loop of a sleep and a request with a deadline
(`commands.rs` 386-425), so its steps are weakly fair; nothing is assumed of commands,
which the user may kill. `HostCredential`: the notification thread polls and the handler
awaits only calls that return, so `Notice` and `Watcher` are weakly fair; nothing is
assumed of requests or of writers. `Attach`: each step nemrd, the shim or the pump's
thread can take is weakly fair, and so is a client that reads (`ClientReads` is disabled
while it is stalled) and a shell that reads its input; nothing is assumed of typing, of
what a program writes or of containerd's failures, which are choices of the steps.
`VolumeHelper` has fairness for its counterexample configuration only: helpers and
reconcile go on, and a contended lock is got in the end. The safety runs assume none.

## 4. What is proved

For every value of the constants, by TLAPS:

**`SyncServer_proofs`** (assumes `ConstAssumption` and `NoOpAssumption`). `TypeCorrect`,
`NewestGrant`, `UniqueGrants`, `DeletedStaysDeleted`, `NoDanglingBundle` and `Fencing`.
The invariants are not inductive one by one: that a grant's fence is new needs the row
to carry the newest one; that a bundle's object is there needs what an upload between
its two writes knows. `IInv` is their conjunction with `IdsInOrder` (every id in use is
below the next one, so a new row's id is in no grant and in no request) and
`StepsAccountedFor` (an upload about to record has stored unless the session is gone;
a deletion about to remove the object has removed the row). Each action has a lemma for
its effect on the lease and one for its effect on rows and objects. `Fencing` is an action
property: under `IInv`, a step whose `Held` or `Matches` guard passes has the row's fence,
which is the newest.

`LiveLeaseStays` is the action property `LiveLeaseIsKept`. `Implements` is the refinement:
every step of the server is a step of `FencedSessions` or a stutter, with any number of
clients and requests in between their statements. It has one lemma per abstract step.
`LapseStep` covers whatever leaves rows, fences and holders alone and revives no lapsed
hold (reads, answers, a heartbeat that renews a hold that is live, the clock).
`OpenStep`, `HoldStep`, `RecordStep` and `CloseStep` cover the others: a grant is on a
row that exists and was given an id, from `IdsInOrder`, and a recorded upload has its
object, from `StepsAccountedFor`.

**`ObjectStore_proofs`** (assumes `Constants`). `StoredWhole` and `DownloadedWhole` from
`StoreInv`, in four parts besides types. `NamesApart`: no inode has two names, because a
put opens a fresh inode or the one its own temporary name has, and the rename moves a
name. `KeysApart`: an inode that is open belongs to one key, and a reader's has lost the
temporary name. `WritersAlone`: the one put of a key in a directory has the file of that
name and has written exactly its beginning. `ReadersWhole`: what a reader has open is all
of the bundle it began with and stays so, because only the holder of the temporary name
writes. A lemma, `Aside`, covers every step after which a request has nothing open;
the others have one lemma each. The excluded case, two overlapping puts of one key, is the
weakness of section 5. `PartsReclaimed` needs only types.

**`ObjectStore_proofs`, cloud client** (assumes `CloudConstants`). `CloudTypes`;
`PushReplacesOwn` (`PublishedUnderLease`) and `PullIsCurrent` (`PulledIsCurrent`), from
`CloudInv`. The client never asks whether what it exported is still what it may replace: it
relies on its fence. `Sound` says why it can: every fence in a command, a record or a
heartbeat process was granted to its machine. `GrantsPast` and `UntouchedNew` make a
grant's fence new to its row, so whoever matches a lease after a step matched it before,
with the bundle unchanged or published by its own machine, or has its fence from another
row (`Relied`; one lemma per way the server moves). `Pass` carries that from the export, or
the download, to the upload, or the import, over the steps of everybody else (`PassKept`).
The proof is how `Reissued` was found: two commands, the bound of the run, are too few
for it.

**`SessionNetwork_proofs`** (assumes `Constants`). `NetworkTypes` and `UniqueIndices`:
`AllocatedOnce` with `Choosers` (who is between choosing and publishing has the lock)
and `ChosenIsFree` (the index chosen is on no record, unless a label edit put it back).
The last is why the property has its exception. `LinksLeadHome` (`AloneLinkLeadsHome`) and
`LinksOfOthersStay` (`AloneOthersKeepTheirLink`) are about the instance's choice of one
request at a time, `MCSpec`, for any index and any number of projects. `UpToDate` is the
strengthening: what the request has read of its label is still so when it acts on it; with
`UniqueIndices` the link of its index is then its own or nobody's. `LinksLive`, that a link
has a task, holds with overlapping requests too.

**`PortForwards_proofs`** (assumes `Constants`). `PortTypes`; `SparesOthers`, from
`SparedInv`: what a reconcile has listed and not yet dropped is still a project's, because
ids are not given twice and only `Binds`, on a free port, changes a port's owner without
removing a forward; `DeclaredByOne`, from `AloneInv`: as long as requests were served
one at a time at most one is busy, what it read of the labels is still so when it writes
them, and nobody else declares the port it adds. `Derived` (`ForwardsAreDerived`) from
`CleanInv`: as long as one request is served at a time and nothing failed, every port of
every project is forwarded as its label and task say (`Settled`), except the ports the one
request has still to see to, which `SettledBut` names for each step of each handler. With
`DeclaredByOne` no port it binds is another project's, and a reconcile that follows finds
nothing to reclaim. `ReclaimsForwards` (`ReconcileReclaims`), from `QuietInv`: in an
undisturbed reconcile a forward of a project has yet to be decided, is about to be removed,
or is on a port that a running project declares (`Covers`); it does not matter what was
interrupted before, or how many requests overlapped.

**`Accounts_proofs`** (assumes `Constants`). The five properties of the run, from one
`IInv`. `CodesProved` and `NewestAlone` follow a registration from the page's slot through
a confirmation back into it. `FailuresCounted` counts also the logins that passed the limit
and have not recorded their failure yet; they are at most the number of runners.
`OfTheRow`: whatever a login verified and whatever a file holds is of the active row, which
nothing replaces once it is active. `InOnePlace`: a token is with one login or in one
file, so a logout revokes the token of the file it deletes (`RevokedGoes`). `FilesFilled`:
a truncated file has a writer. `FreeInode`: some inode is always unnamed and unopened,
by counting, so the bound on inodes never blocks a save.

**`HostCredential_proofs`** (assumes `Constants`). `StatusTellsTheFile`
(`RecordTellsTheFile`). The record may lag behind the file while something is under way, so
the invariant says what: `Pending` is a request in the middle of a write of the file the
path names, an event in inotify's queue that will not be dropped, one sent on, or the
handler between taking it and recording. `Watched` is why events are not lost: whenever the
file watch is not on the file the path names, a replacement is still in the queue; so the
inotify thread drops only events of files the path has left.

**`HostCredential_proofs`, attach** (assumes `AttachConstants`). `AttachTypes`; `TailComes`
(`TailIsDelivered`), from `EndInv`, which follows the teardown in its order: the exec is
deleted and its output copied (`CopiedAll`) before the pump may stop; a pump that polls has
sent what it read (`PollsEmpty`), so one that stops on an empty FIFO has sent everything
(`SentAll`); the exit code is sent by a task that has joined the pump (`Joined`), so the last
chunk is received before it (`GotAll`). That an attach is spawned once (`SpawnedOnce`)
keeps a deleted exec deleted.

**`EngineProject_proofs`** (assumes `NameAssumption`: there is a name). `ProjectsStartable`
(`Startable`) holds as long as requests come one at a time, whatever was cancelled, crashed
or rebooted in between. `Ready` strengthens it from the records that exist to what is on
disk; `Made` says, step by step, what the one request under way relies on: there is no
record while it creates one or has just deleted one, its state directories are on the
volume it mounted, its snapshot is there before its record is. `Solitary` and `DiskInv`
(a mount has its mount point, a device on an image has the image) are what they rest on.
`ReconcileLeavesNothing` (`ReconcileReclaims`), from `QuietInv`: what each phase of an
undisturbed reconcile has dealt with so far (`Reclaimed`), so that at its end nothing is
left to deal with.

**`VolumeHelper_proofs`** (assumes `CountsAssumption`, `NamesAssumption` and the three
assumptions of `VolumeSizes`). `OneMountPerImage` (`NoTwoDevices`) and `MountsAreOwn`
(`OwnVolume`), from `HelperInv`. `Files`: an inode is allocated under one name and keeps it,
which is why the lock may follow the inode. `Good`: the helper's descriptor is of a file of
its own project, and a mount has that file's lock from its first look to its last undo.
`Mine`: unless an unlocked unmount has pulled a device from a mount call (`pulled`), the
device a call is about to mount shows its file and no other mount, and no mount shows that
file since the call looked. `pulled` is the exception both properties state; section 5 has
the run of the code that leads there. `DisplayedIsParsed`: a size survives being written and
read for every 64-bit value, since the unit written divides it. `AcceptedIsMounted`: an
accepted size rounds to a multiple of the block that is still within the helper's bounds, so
the helper does not refuse what nemrd allocated.

**`VolumeHelper_proofs`, bundles** (assumes `BundleConstants`). `BundleTypes`;
`RestoresAsPacked` (`RestoredAsPacked`), `WritesSessionFirst` (`SessionBeforeCaches`) and
`CarriesNoSecret` (`SecretsStay`), from `BundleInv`. `Private`: as long as nobody started or
deleted the project of a transfer, it exists, does not run, and every other request that
names it is one that leaves existing projects alone (`Harmless`: exports, and creations that
have still to find the name free). So nobody else's step changes that volume, and `Kept`
says what is on it: what the export listed; nothing, until a restore extracts; then exactly
the members written so far. `Honest` follows a manifest from the export that makes it into
the file and into an import that reads it, whoever replaced the file in between; the chunks
are not trusted, an import has compared each with its digest before it writes. `InOrder`:
what is still to be written is all in the backups, or nothing of them has been written. A
request's step has one lemma (`Does`), whatever it does to other people's projects
(`DoesKeeps`), and a start, a delete or a changed package list another (`OthersKeep`). The
proof is how an inaccuracy of the ghost `calm` was found: an export that corrects the package
list writes to the volume, so another export of the project is no longer undisturbed.

**`Accounts_proofs`, server host** (assumes `AddrAssumption`, `PidAssumption`,
`SourcesAssumption` and `BoundsOfHost`). `CheckIsWhatServerNeeds`: `--check` passes exactly
when the server would reach its bind and could write its bundles, case by case over the
gates. `ServersAreFound` (`RecordFindsServer`), `StopsOnlyServers` (`StopAimsAtServer`),
`ChecksAreReaped` (`ChecksLeaveNothing`), from `ProcessInv` and `Orderly`. `Named`: no two
processes have both pid and start time in common, however often a pid is used again.
`RecordMade`: whatever has the pid and the start time of the record, and is a server, was
begun by `nemr server start`. `ChildNamed`: the child a command waits for is its own check
for as long as it runs. `Orderly`: as long as commands have not overlapped, a server of
`start` is the one the record names, and there is none at the steps that remove or write
the record. `InstallsComplete` (`InstallOnlyCompletes`), from `Completing`: what a
configure found and drafted is about the file as it still is. `Over` and `Sets` are written
out instead of `@@` and `:>`, which the prover does not know.

`TypeOK` is proved wherever a proof module exists for a state machine, and with it unique
grants, deletion and single declaration; they are therefore no run's property. `TypeOK`
elsewhere states the types and can be added to a configuration.

Only model-checked: liveness (`HoldersSettle`, `WaitersAreServed`, `SessionsCatchUp`,
`PumpsEnd`, `ExitIsSeen`, `EndOfInputEndsTheShell`), which is out of the prover's reach.

## 5. What the model shows of the code beyond the runs

These behaviours are reachable in the modules, or were read off the code while modelling
it; the properties are stated around them (for requests served one at a time, or up to
the first failure).

*Ports.* Two overlapping `port add` on two projects declare one port
(`project.rs` 3648). A start's application that runs after a complete stop leaves a
forward for a stopped project. stop, delete and `port rm` withdraw by host port alone,
also a user's own forward. A hang-up between the bind and the label write leaves a forward
that no label declares. reconcile takes an unreadable task state for stopped
(`project.rs` 2285), and decides about a project on a state that may be old when it drops.

*Projects.* reconcile removes the snapshot of a project created after its list
(2256). A start that overlaps a delete remounts the volume, and the record then goes
while an unlinked image is mounted (2807). export checks that the project is stopped and
reads it later (2838). A stop or delete whose task is wedged takes the network or the
image of a task that still runs (1337, 2784). A cancelled create leaves its image, which
reconcile reports and keeps.

*Networks.* A second delete disconnects the link of the index's new owner (2787); a
start whose task died before it was wired deletes a link by name (`netns.rs` 391); a start
whose wiring fails stops whatever task the project has by then (1236).

*Sync and cloud.* Nothing beats between the grant and the end of a transfer. Requests name
the session and its fences begin again when it is deleted and pushed anew, so a push begun
on the old one can replace what another machine published on the new one, if its machine
has since held the same fence there (`Reissued`; four commands, of which one deletes). A holder's
"lost" is written over a newer lease of the machine. Objects whose row is gone are left
behind when a request dies between the two, or an upload stores after the deletion.

*Credential.* ensure reads, judges and truncates in separate steps (`auth.rs` 282-294): a
login in between is lost. A scrub can put an older token over a refreshed one.

*Object store.* Two overlapping puts of one key in a directory share `<key>.partial`: the first rename
publishes a half-written or mixed file, the other finds no file and reports a failure while its bytes are
served (`local.rs` 135-136 says never half-written; the server lets two uploads of one session overlap). tokio
runs a file's write and rename in a blocking task: one that was under way when a put was cut off may land
later, under the next put of the key, which is an overlap too (the model's `Cancel` has no later effect). A
failed put's `.partial`, and that of a deleted session, stays. Nothing is synced before the rename. In a
bucket, a hang-up or crash leaves parts (`s3.rs` 305 covers failures); a completion whose answer is lost
replaces the object and reports an error.

*Bundles.* import opens the file twice; a failed import or adoption deletes by name; a
half-restored project can be exported; an extraction goes on below an unmounted mount
point if the project is deleted meanwhile; a member's mode is not restored; an export is
written in place, so a cut one has the bundle's name; an import followed by an export
without provisioning drops packages.json (`project.rs` 3505-3545); adopt's plan leaves out
history.

*Attach.* A write into a full stdin FIFO blocks an async worker for as long as the program
does not read (CONFORMANCE.md:202 says F-88 ended that). A slow client's full channel at
the stop loses trailing output. After the client has gone the pumps end and a program that
writes blocks. A failed or cancelled attach leaves its exec and directory. An error of the
wait is reported as exit code -1. Directories named capture- are never swept. The pump looks
at `stop` only when its poll finds nothing to read (`attach.rs` 279): output is finite in
the model, but a program left running by a failed wait and a failed delete, and writing
without a pause, keeps the pump's thread. An attach that ends with an error leaves the
terminal's modes as the program had them (`Rendered`; `nemr.rs` 732-750).

*Accounts.* Putting an older pending registration back overwrites a newer one; a second
confirmation during the first's check is told nothing is waiting; a right code whose
request fails loses the pending registration. A logout removes a newer login's file without
revoking its token; a second login leaves the first's token valid. n logins at once exceed
the failure limit by n - 1. Two savers of the account file can publish an empty one. The
page's jobs are never pruned, and a panicking worker's is never done. A start from another
tab makes a push fail after its stop.

*Volume helper.* Two mounts can be stacked on one mount point, as the lock follows the
inode; create may report success with nothing mounted; an unlocked unmount can detach a
device number another project has by then; a second delete can unlink a new project's
image. The message of a failed format says the image is left, and create removes it.
nemrd's create does not apply the size limits the command applies.

*Hazards the properties go around.* Some of `PROJECT.json`'s hazards are true of the code, so
the properties that name them hold with an exception or for requests that do not overlap,
and say so: a registration replaced inside a confirmation, and a check of a code that
another overlaps; overlapping puts of one key, and hang-ups and crashes of an upload in
parts; overlapping `server` commands; a reconcile that overlaps a create or start; label
edits beside an allocation; overlapping deletes; overlapping port adds, and a port add cut
off after its bind; a login between judge and truncate; a program that takes no input; a start during
an export. Their hazards carry a note, and the configurations of section 3 or the paragraphs
above show what happens.

*Server host.* Overlapping commands lose a live server's record (the record is written before the exec; a
sweep reads, then removes: `server.rs` 287; a stop removes after its wait). A stop gives up on a draining
server. configure overwrites what was edited meanwhile; an unreadable file makes it say that it has
everything. An exported empty variable hides the file's value. A directory without write permission passes the
server's start and fails `--check`. A `server` command that is killed alone (Ctrl-C reaches its whole group)
leaves the child of its check behind; the model has no such kill. start checks environment over file,
configure the file alone.

## 6. What is not modelled, and the plan

Not modelled because there is nothing to interleave: cryptography, styles, parsing, the
generated API and its socket, the text of the command line, image lookups, agent scripts,
host set-up. Of partly modelled components, `PROJECT.json` says what is left out: reads
that only print, routes that forward one call, migrations, dpkg's text.

Simplifications to know of: the server's clock is one (the code takes `expires_at` from
the API host's and compares it with the database's); PostgreSQL statements are atomic (their
re-check under READ COMMITTED is not modelled); forwards' ids are not reused over a
rootlesskit restart; `EngineProject` leaves network, ports, credential and packages to the
other modules; in `Bundle` create, delete, start and stop are single steps; in `ServerHost`
a pid does not change hands between a look and the signal right after it, so the signal of
a preflight's kill, 200 ms later in the code, is too well aimed; in `Attach` stderr and
resizes are left out; in `VolumeHelper` a helper's end frees the image's lock at once,
while in the code a process it started can hold the flock a little longer, so the model
lets more happen; in `ObjectStore` a disk never loses what was written.

Next, in this order:
1. `SyncServer` over `ObjectStore`: what the fenced record says of the bytes that a refused
   upload leaves.
2. provision and the agents, as far as they write what an export reads.
