------------------------------ MODULE Accounts ------------------------------
(***************************************************************************)
(* One e-mail address: its row on the server (identity.rs and auth.rs of   *)
(* nemr-sync) and the client processes of one machine that register it,    *)
(* confirm its recovery code, log in and log out (core.rs, keys.rs and     *)
(* state.rs of nemr-cloud), driven from the page (serve.rs) or from the    *)
(* command line (commands.rs), which keeps the registration it waits for   *)
(* in its own memory where the page's is shared by all requests.           *)
(*                                                                         *)
(* Abstraction.  The material of a registration, that is its salts,        *)
(* verifier, envelopes, master key and recovery code, is the number of the *)
(* registration: what one registration sealed opens with no other's keys.  *)
(* Faults: a request or its answer is lost, a client is killed at any step,*)
(* tokens expire, failed logins age out of the window.                     *)
(***************************************************************************)
EXTENDS Integers, FiniteSets

CONSTANTS
    Runner,    \* requests of the page and commands that may be in flight
    MaxReg,    \* registrations, in this instance
    MaxTok,    \* tokens minted, in this instance
    MaxFail    \* failed logins in a window after which the server refuses

ASSUME Constants == {MaxReg, MaxTok, MaxFail} \subseteq Nat \ {0} /\ IsFiniteSet(Runner)

Reg == 1..MaxReg
Tok == 1..MaxTok
Inode == 1..(Cardinality(Runner) + 2)

VARIABLES
    user,     \* the row: [reg, status], status "none" while there is no row
    tokens,   \* tokens the server accepts
    failures, \* failed logins in the window
    slot,     \* pending_registration of the page's process, 0: none
    run,      \* run[r]: what runner r is doing
    tmp,      \* the inode account.tmp names, 0: none
    cur,      \* the inode account.json names, 0: none
    data,     \* what the inodes hold
    made,     \* registrations made so far
    minted,   \* tokens minted so far
    typed,    \* ghost: registrations whose recovery code was typed back
    ghost     \* [raced, died, expired, newest, overlap]

vars == <<user, tokens, failures, slot, run, tmp, cur, data, made, minted, typed, ghost>>

server == <<user, tokens, failures>>
disk == <<tmp, cur, data>>
count == <<made, minted>>

Empty == [reg |-> 0, tok |-> 0]
Idle == [pc |-> "idle", reg |-> 0, tok |-> 0, fd |-> 0]
Step == {"idle", "post", "reply", "show", "check", "select", "update", "count", "record", "insert",
         "open", "write", "rename", "revoke", "unlink"}

TypeOK ==
    /\ user \in [reg : 0..MaxReg, status : {"none", "pending", "active"}]
    /\ (user.reg = 0) = (user.status = "none")
    /\ tokens \subseteq 1..minted /\ failures \in Nat
    /\ slot \in 0..made
    /\ run \in [Runner -> [pc : Step, reg : 0..MaxReg, tok : 0..MaxTok, fd : 0..Cardinality(Inode)]]
    /\ tmp \in 0..Cardinality(Inode) /\ cur \in 0..Cardinality(Inode)
    /\ data \in [Inode -> [reg : 0..MaxReg, tok : 0..MaxTok]]
    /\ made \in 0..MaxReg /\ minted \in 0..MaxTok /\ typed \subseteq Reg
    /\ ghost \in [raced : BOOLEAN, died : BOOLEAN, expired : SUBSET Tok, newest : 0..MaxReg,
                  overlap : BOOLEAN]

Init ==
    /\ user = [reg |-> 0, status |-> "none"] /\ tokens = {} /\ failures = 0
    /\ slot = 0 /\ run = [r \in Runner |-> Idle]
    /\ tmp = 0 /\ cur = 0 /\ data = [i \in Inode |-> Empty]
    /\ made = 0 /\ minted = 0 /\ typed = {}
    /\ ghost = [raced |-> FALSE, died |-> FALSE, expired |-> {}, newest |-> 0, overlap |-> FALSE]

At(r, pc) == run[r].pc = pc
Goes(r, pc) == run' = [run EXCEPT ![r].pc = pc]
Ends(r) == run' = [run EXCEPT ![r] = Idle]
Becomes(r, pc, reg) == run' = [run EXCEPT ![r] = [Idle EXCEPT !.pc = pc, !.reg = reg]]

\* Argon2id and HKDF: the keys of a registration come from its password and its salt.
Derived(right, salt) == IF right THEN salt ELSE 0

\* What a registration sealed opens with its own keys.
Opens(key, sealed) == key = sealed

----------------------------------------------------------------------------
(* register_begin, and the register handler it calls.                      *)

\* Fresh salts, master key and recovery code.
BeginRegister(r) ==
    /\ At(r, "idle") /\ made < MaxReg
    /\ made' = made + 1 /\ Becomes(r, "post", made + 1)
    /\ UNCHANGED <<server, slot, disk, minted, typed, ghost>>

\* An account that was never confirmed holds nothing and is replaced.
Replaceable == user.status # "active"

\* One INSERT ... ON CONFLICT DO UPDATE: all of the new material, or a conflict.
Register(r) ==
    /\ At(r, "post")
    /\ IF Replaceable
       THEN /\ user' = [reg |-> run[r].reg, status |-> "pending"] /\ Goes(r, "reply")
            /\ ghost' = [ghost EXCEPT !.raced = @ \/ \E q \in Runner : At(q, "update")]
       ELSE Ends(r) /\ UNCHANGED <<user, ghost>>
    /\ UNCHANGED <<tokens, failures, slot, disk, count, typed>>

\* The code is shown, once: by a command, which waits, or on the page.
CommandShows(r) ==
    /\ At(r, "reply") /\ Goes(r, "show")
    /\ UNCHANGED <<server, slot, disk, count, typed, ghost>>

PageShows(r) ==
    /\ At(r, "reply")
    /\ slot' = run[r].reg /\ Ends(r)
    /\ ghost' = [ghost EXCEPT !.newest = run[r].reg, !.overlap = \E q \in Runner : At(q, "check")]
    /\ UNCHANGED <<server, disk, count, typed>>

----------------------------------------------------------------------------
(* The recovery code typed back.                                           *)

\* A command asks up to five times: the right code, or it gives up.
CommandTypes(r) ==
    /\ At(r, "show")
    /\ \/ Goes(r, "select") /\ typed' = typed \cup {run[r].reg}
       \/ Ends(r) /\ UNCHANGED typed
    /\ UNCHANGED <<server, slot, disk, count, ghost>>

\* The page's request takes the registration out of the slot.
Take(r) ==
    /\ At(r, "idle") /\ slot # 0
    /\ Becomes(r, "check", slot) /\ slot' = 0
    /\ UNCHANGED <<server, disk, count, typed, ghost>>

\* register_check_code: the typed code recovers the master key, or does not.
RightCode(r) ==
    /\ At(r, "check")
    /\ \E code \in 1..made : Opens(code, run[r].reg)
    /\ Goes(r, "select") /\ typed' = typed \cup {run[r].reg}
    /\ UNCHANGED <<server, slot, disk, count, ghost>>

\* Mutant: it is not put back.
Dropped(g) == slot
\* Put back, over what may have come meanwhile.
PutBack(g) == g

WrongCode(r) ==
    /\ At(r, "check")
    /\ \E code \in 0..made : ~Opens(code, run[r].reg)
    /\ slot' = PutBack(run[r].reg) /\ Ends(r)
    /\ UNCHANGED <<server, disk, count, typed, ghost>>

----------------------------------------------------------------------------
(* confirm_recovery: two statements.                                       *)

\* Mutant: any acknowledgement will do.
AckOfAnyone(g) == user.reg # 0
\* SHA-256 of the master key of the registration the row holds.
AckMatches(g) == user.reg = g

ConfirmSelects(r) ==
    /\ At(r, "select")
    /\ IF ~AckMatches(run[r].reg) THEN Ends(r)
       ELSE Goes(r, IF user.status = "active" THEN "count" ELSE "update")
    /\ UNCHANGED <<server, slot, disk, count, typed, ghost>>

\* UPDATE ... WHERE id: whatever the row holds by now.  The client logs in next.
ConfirmUpdates(r) ==
    /\ At(r, "update")
    /\ user' = [user EXCEPT !.status = "active"]
    /\ Goes(r, "count")
    /\ UNCHANGED <<tokens, failures, slot, disk, count, typed, ghost>>

----------------------------------------------------------------------------
(* login.                                                                  *)

\* kdf_params, and the key derived: the row's with its password and a cost above the
\* floor, no one's with another password or the salt of an address that is not there.
BeginLogin(r) ==
    /\ At(r, "idle")
    /\ \E right \in BOOLEAN : Becomes(r, "count", Derived(right, user.reg))
    /\ UNCHANGED <<server, slot, disk, count, typed, ghost>>

\* Mutant: one more.
WithinLimitOrAt == failures <= MaxFail
WithinLimit == failures < MaxFail

\* The derived key opens the verifier of the row.
Verified(g) == g # 0 /\ user.reg = g

\* The failures are counted and the row is read; then the slow verification.
Attempt(r) ==
    /\ At(r, "count")
    /\ IF ~WithinLimit \/ (Verified(run[r].reg) /\ user.status # "active") THEN Ends(r)
       ELSE Goes(r, IF Verified(run[r].reg) THEN "insert" ELSE "record")
    /\ UNCHANGED <<server, slot, disk, count, typed, ghost>>

RecordFailure(r) ==
    /\ At(r, "record")
    /\ failures' = failures + 1 /\ Ends(r)
    /\ UNCHANGED <<user, tokens, slot, disk, count, typed, ghost>>

\* mint_token, the INSERT, and record_attempt of a success.
InsertToken(r) ==
    /\ At(r, "insert") /\ minted < MaxTok
    /\ minted' = minted + 1 /\ tokens' = tokens \cup {minted + 1}
    /\ run' = [run EXCEPT ![r].pc = "open", ![r].tok = minted + 1]
    /\ UNCHANGED <<user, failures, slot, disk, made, typed, ghost>>

----------------------------------------------------------------------------
(* save_account, by write_private: one temporary name for every writer.    *)

Unused == {i \in Inode : i \notin {tmp, cur} /\ \A r \in Runner : run[r].fd # i}
Free == CHOOSE i \in Unused : TRUE

\* Mutant: renamed before it is written.
SaveOpensAndRenames(r) ==
    /\ At(r, "open")
    /\ LET i == IF tmp # 0 THEN tmp ELSE Free
       IN  /\ tmp' = i /\ data' = [data EXCEPT ![i] = Empty]
           /\ run' = [run EXCEPT ![r].pc = "rename", ![r].fd = i]
    /\ UNCHANGED <<server, slot, cur, count, typed, ghost>>
\* create, truncate: the file another writer has open, or a new one.
SaveOpens(r) ==
    /\ At(r, "open")
    /\ LET i == IF tmp # 0 THEN tmp ELSE Free
       IN  /\ tmp' = i /\ data' = [data EXCEPT ![i] = Empty]
           /\ run' = [run EXCEPT ![r].pc = "write", ![r].fd = i]
    /\ UNCHANGED <<server, slot, cur, count, typed, ghost>>

SaveWrites(r) ==
    /\ At(r, "write")
    /\ data' = [data EXCEPT ![run[r].fd] = [reg |-> run[r].reg, tok |-> run[r].tok]]
    /\ Goes(r, "rename")
    /\ UNCHANGED <<server, slot, tmp, cur, count, typed, ghost>>

\* Whatever has the name now; nothing, when another writer renamed it.
SaveRenames(r) ==
    /\ At(r, "rename")
    /\ IF tmp # 0 THEN cur' = tmp /\ tmp' = 0 ELSE UNCHANGED <<cur, tmp>>
    /\ Ends(r)
    /\ UNCHANGED <<server, slot, data, count, typed, ghost>>

Saves(r) == SaveOpens(r) \/ SaveWrites(r) \/ SaveRenames(r)

----------------------------------------------------------------------------
(* logout.                                                                 *)

Account == IF cur = 0 THEN Empty ELSE data[cur]
LoggedIn == Account # Empty

\* Without an account, or with one that does not parse, there is nothing to do.
BeginLogout(r) ==
    /\ At(r, "idle") /\ LoggedIn
    /\ run' = [run EXCEPT ![r] = [Idle EXCEPT !.pc = "revoke", !.tok = Account.tok]]
    /\ UNCHANGED <<server, slot, disk, count, typed, ghost>>

\* Mutant: all the user's tokens.
RevokedAll(t) == Tok
RevokedBy(t) == {t}

\* Told, or not: an unreachable server must not trap the user.
Revoke(r) ==
    /\ At(r, "revoke")
    /\ \/ tokens' = tokens \ RevokedBy(run[r].tok)
       \/ UNCHANGED tokens
    /\ Goes(r, "unlink")
    /\ UNCHANGED <<user, failures, slot, disk, count, typed, ghost>>

Unlink(r) ==
    /\ At(r, "unlink")
    /\ cur' = 0 /\ Ends(r)
    /\ UNCHANGED <<server, slot, tmp, data, count, typed, ghost>>

----------------------------------------------------------------------------
(* Faults and time.                                                        *)

Dangling(r) == run[r].pc \in {"write", "unlink"}

\* A call fails, an answer is lost, the client is killed.
Fails(r) ==
    /\ ~At(r, "idle") /\ Ends(r)
    /\ ghost' = [ghost EXCEPT !.died = @ \/ Dangling(r), !.overlap = @ \/ At(r, "check")]
    /\ UNCHANGED <<server, slot, disk, count, typed>>

\* The page's process is killed: its slot, and its requests R, are gone.
PageRestarts ==
    /\ \E R \in SUBSET {r \in Runner : ~At(r, "show")} :
         /\ {r \in Runner : run[r].pc \in {"post", "reply", "check"}} \subseteq R
         /\ run' = [r \in Runner |-> IF r \in R THEN Idle ELSE run[r]]
         /\ ghost' = [ghost EXCEPT !.died = @ \/ \E r \in R : Dangling(r), !.newest = 0]
    /\ slot # 0 /\ slot' = 0
    /\ UNCHANGED <<server, disk, count, typed>>

TokenExpires(t) ==
    /\ t \in tokens /\ tokens' = tokens \ {t}
    /\ ghost' = [ghost EXCEPT !.expired = @ \cup {t}]
    /\ UNCHANGED <<user, failures, slot, run, disk, count, typed>>

WindowPasses ==
    /\ failures > 0 /\ failures' = 0
    /\ UNCHANGED <<user, tokens, slot, run, disk, count, typed, ghost>>

----------------------------------------------------------------------------
Registration(r) ==
    BeginRegister(r) \/ Register(r) \/ CommandShows(r) \/ PageShows(r) \/ CommandTypes(r) \/ Take(r)
    \/ RightCode(r) \/ WrongCode(r) \/ ConfirmSelects(r) \/ ConfirmUpdates(r)
Login(r) == BeginLogin(r) \/ Attempt(r) \/ RecordFailure(r) \/ InsertToken(r)
Logout(r) == BeginLogout(r) \/ Revoke(r) \/ Unlink(r)

Next ==
    \/ \E r \in Runner : Registration(r) \/ Login(r) \/ Saves(r) \/ Logout(r) \/ Fails(r)
    \/ PageRestarts \/ WindowPasses
    \/ \E t \in Tok : TokenExpires(t)

Spec == Init /\ [][Next]_vars

----------------------------------------------------------------------------
(* Properties.                                                             *)

\* An account that can be used is one whose recovery code its owner has proved to hold
\* (CRY-05), unless a registration came between the two statements of confirm_recovery.
Recoverable == user.status = "active" /\ ~ghost.raced => user.reg \in typed

\* The code of a replaced registration confirms nothing (SPEC 1.111).
ReplacedCodeConfirmsNothing == user.status = "active" => user.reg \in typed

\* The stored account is the server's: its envelope opens with the master key the row's
\* envelopes hold, and its token is good until it expires or a logout is under way.
StoredAccountIsGood ==
    LoggedIn =>
      /\ user.status = "active" /\ Account.reg = user.reg
      /\ \/ Account.tok \in tokens \cup ghost.expired
         \/ ghost.died
         \/ \E r \in Runner : At(r, "unlink") /\ run[r].tok = Account.tok

\* Two writers share one temporary file: the stored account is whole again when both are
\* through, unless one was killed.
StoredAccountIsWhole ==
    cur # 0 /\ data[cur] = Empty => ghost.died \/ \E r \in Runner : At(r, "write") /\ run[r].fd = cur

\* Logins that run at the same time may exceed the limit, each of them once.
FailuresBounded == failures < MaxFail + Cardinality(Runner)

\* F-92: a wrong code loses nothing.  The registration shown last waits on the page until
\* its own code is typed, unless a check of another was under way when it came.
WrongCodeLosesNothing ==
    ghost.newest # 0 /\ ~ghost.overlap =>
      \/ slot = ghost.newest
      \/ ghost.newest \in typed
      \/ \E r \in Runner : At(r, "check") /\ run[r].reg = ghost.newest
============================================================================
