---------------------------- MODULE Accounts_proofs ----------------------------
(***************************************************************************)
(* Proofs about Accounts, for any number of clients, registrations, tokens *)
(* and any limit of failed logins; and about ServerSettings and ServerHost,*)
(* the process that keeps the accounts: its settings, its record file and  *)
(* the commands that start, stop and configure it, for any number of       *)
(* processes, settings files and hosts.                                    *)
(***************************************************************************)
EXTENDS Accounts, ServerHost, FiniteSetTheorems, TLAPS

-------------------------------------------------------------------------------
(* The inductive invariant *)

Active == user.status = "active"

\* What a runner carries at each step.
Carried ==
    \A r \in Runner :
      /\ run[r].pc \in {"post", "reply", "show", "check", "select", "update"} => run[r].reg \in 1..made
      /\ run[r].pc \in {"open", "write", "revoke", "unlink"} => run[r].tok \in 1..minted
      /\ run[r].pc \in {"write", "rename"} <=> run[r].fd # 0
      /\ run[r].pc = "update" => user.reg # 0

\* Who confirms has typed the code back; the row is the one it selected, or was raced.
CodesProved ==
    /\ Active /\ ~ghost.raced => user.reg \in typed
    /\ \A r \in Runner :
         /\ run[r].pc \in {"select", "update"} => run[r].reg \in typed
         /\ At(r, "update") => ghost.raced \/ user.reg = run[r].reg

\* Attempts that have passed the limit and not yet been recorded count as well.
Recorders == {r \in Runner : At(r, "record")}
FailuresCounted == failures + Cardinality(Recorders) < MaxFail + Cardinality(Runner)

\* As long as nothing overlapped, the slot and every check are about the newest.
NewestAlone ==
    ~ghost.overlap =>
      /\ slot \in {0, ghost.newest}
      /\ \A r \in Runner : At(r, "check") => run[r].reg = ghost.newest

\* A truncated file has a writer, whatever name it has.
Truncated(i) == data[i] = Empty => ghost.died \/ \E r \in Runner : At(r, "write") /\ run[r].fd = i
NamesApart == tmp # 0 => tmp # cur
FilesFilled == /\ tmp # 0 => Truncated(tmp)
               /\ cur # 0 => Truncated(cur)

\* A login that was verified, and every file written, is of the active row.
OfTheRow ==
    /\ \A r \in Runner : run[r].pc \in {"insert", "open", "write"} => Active /\ run[r].reg = user.reg
    /\ \A i \in Inode : data[i] # Empty => Active /\ data[i].reg = user.reg

\* A token is with one login or in one file; one that is being revoked has been read
\* from account.json, so it is not in the file that will be renamed.
Good(t) == t \in tokens \cup ghost.expired
Saving(r) == run[r].pc \in {"open", "write"}
LeavingWith(r, t) == run[r].pc \in {"revoke", "unlink"} /\ run[r].tok = t
FilesTyped == \A i \in Inode : data[i].tok \in 0..minted /\ (data[i].tok = 0 => data[i] = Empty)
InOnePlace ==
    /\ \A i, j \in Inode : data[i].tok = data[j].tok => i = j \/ data[i].tok = 0
    /\ \A r \in Runner : Saving(r) =>
         /\ Good(run[r].tok)
         /\ \A i \in Inode : data[i].tok # run[r].tok
         /\ \A q \in Runner : Saving(q) /\ run[q].tok = run[r].tok => q = r
         /\ \A q \in Runner : ~LeavingWith(q, run[r].tok)
RevokedGoes ==
    /\ tmp # 0 /\ data[tmp].tok # 0 =>
         /\ Good(data[tmp].tok)
         /\ \A q \in Runner : ~LeavingWith(q, data[tmp].tok)
    /\ cur # 0 /\ data[cur].tok # 0 =>
         \/ Good(data[cur].tok)
         \/ ghost.died
         \/ \E q \in Runner : At(q, "unlink") /\ run[q].tok = data[cur].tok

IInv == /\ TypeOK /\ Carried /\ CodesProved /\ FailuresCounted /\ NewestAlone
        /\ NamesApart /\ FilesTyped /\ FilesFilled /\ OfTheRow /\ InOnePlace /\ RevokedGoes
        /\ WrongCodeLosesNothing

RunRecord == [pc : Step, reg : 0..MaxReg, tok : 0..MaxTok, fd : 0..Cardinality(Inode)]

\* Where a runner gets to; the others are where they were.
Moved(r, pc, reg, tok, fd) ==
    /\ run' \in [Runner -> RunRecord]
    /\ run'[r].pc = pc /\ run'[r].reg = reg /\ run'[r].tok = tok /\ run'[r].fd = fd
    /\ \A q \in Runner : q # r => run'[q] = run[q]

-------------------------------------------------------------------------------
(* Inodes *)

LEMMA Numbers ==
    /\ Cardinality(Runner) \in Nat
    /\ Inode = 1..(Cardinality(Runner) + 2)
    /\ Cardinality(Inode) = Cardinality(Runner) + 2
    /\ MaxReg \in Nat /\ MaxTok \in Nat /\ MaxFail \in Nat /\ MaxFail > 0
<1>1. Cardinality(Runner) \in Nat
  BY Constants, FS_CardinalityType
<1>2. Cardinality(1..(Cardinality(Runner) + 2)) = Cardinality(Runner) + 2
  BY <1>1, FS_Interval
<1>3. QED
  BY <1>1, <1>2, Constants DEF Inode

\* There is always an inode that no name and no runner has: each of the other runners
\* has one at most, and two names are left.
LEMMA FreeInode ==
    ASSUME TypeOK, Carried, NEW r \in Runner, At(r, "open")
    PROVE  Free \in Inode /\ Free # tmp /\ Free # cur
<1> DEFINE N == Cardinality(Runner)
           H == {run[q].fd : q \in Runner \ {r}}
           U == (H \cup {tmp}) \cup {cur}
<1>1. IsFiniteSet(Runner \ {r}) /\ Cardinality(Runner \ {r}) = N - 1
  BY Constants, FS_RemoveElement
<1>2. IsFiniteSet(H) /\ Cardinality(H) <= N - 1
  <2> DEFINE f == [q \in Runner \ {r} |-> run[q].fd]
  <2>1. f \in Surjection(Runner \ {r}, H)
    BY Zenon DEF Surjection
  <2>2. QED
    BY <1>1, <2>1, FS_Surjection
<1>3. /\ IsFiniteSet(H \cup {tmp}) /\ Cardinality(H \cup {tmp}) <= N
      /\ IsFiniteSet(U) /\ Cardinality(U) <= N + 1
  <2>1. N \in Nat
    BY Numbers
  <2>2. Cardinality(H) \in Nat
    BY <1>2, FS_CardinalityType
  <2>3. /\ IsFiniteSet(H \cup {tmp})
        /\ Cardinality(H \cup {tmp}) = Cardinality(H) \/ Cardinality(H \cup {tmp}) = Cardinality(H) + 1
    BY <1>2, FS_AddElement
  <2>4. /\ IsFiniteSet(U)
        /\ Cardinality(U) = Cardinality(H \cup {tmp}) \/ Cardinality(U) = Cardinality(H \cup {tmp}) + 1
    BY <2>3, FS_AddElement
  <2>5. QED
    BY <1>2, <2>1, <2>2, <2>3, <2>4
<1>4. PICK i \in Inode : i \notin U
  <2>1. CASE Inode \subseteq U
    <3>1. Cardinality(Inode) <= Cardinality(U)
      BY <1>3, <2>1, FS_Subset
    <3>2. Cardinality(U) \in Nat
      BY <1>3, FS_CardinalityType
    <3>3. QED
      BY <1>3, <3>1, <3>2, Numbers
  <2>2. QED
    BY <2>1
<1>5. run[r].fd = 0 /\ i # 0
  BY <1>4, Numbers DEF Carried, At
<1>6. i \in Unused
  <2>1. ASSUME NEW q \in Runner PROVE run[q].fd # i
    <3>1. CASE q = r
      BY <1>5, <3>1
    <3>2. CASE q # r
      BY <1>4, <3>2
    <3>3. QED
      BY <3>1, <3>2
  <2>2. QED
    BY <1>4, <2>1 DEF Unused
<1>7. Free \in Unused
  BY <1>6 DEF Free
<1>8. QED
  BY <1>7 DEF Unused

-------------------------------------------------------------------------------
(* Types, and what the runners carry *)

Typed == TypeOK /\ Carried /\ NamesApart /\ FilesTyped

LEMMA IdleRuns == Idle \in RunRecord /\ Idle.pc = "idle" /\ Idle.reg = 0 /\ Idle.tok = 0 /\ Idle.fd = 0
  BY Numbers DEF Idle, RunRecord, Step

LEMMA Updated ==
    ASSUME TypeOK, NEW r \in Runner, NEW new \in RunRecord, run' = [run EXCEPT ![r] = new]
    PROVE  Moved(r, new.pc, new.reg, new.tok, new.fd)
<1>1. run \in [Runner -> RunRecord]
  BY DEF TypeOK, RunRecord
<1>2. run' \in [Runner -> RunRecord] /\ run'[r] = new /\ \A q \in Runner : q # r => run'[q] = run[q]
  BY <1>1
<1>3. QED
  BY <1>2 DEF Moved

LEMMA Gone ==
    ASSUME TypeOK, NEW r \in Runner, NEW pc \in Step, Goes(r, pc)
    PROVE  Moved(r, pc, run[r].reg, run[r].tok, run[r].fd)
<1> DEFINE new == [run[r] EXCEPT !.pc = pc]
<1>1. run[r] \in RunRecord
  BY DEF TypeOK, RunRecord
<1>2. new \in RunRecord /\ new.pc = pc /\ new.reg = run[r].reg /\ new.tok = run[r].tok /\ new.fd = run[r].fd
  BY <1>1 DEF RunRecord
<1>3. run' = [run EXCEPT ![r] = new]
  BY DEF Goes
<1> HIDE DEF new
<1>4. Moved(r, new.pc, new.reg, new.tok, new.fd)
  BY <1>2, <1>3, Updated
<1>5. QED
  BY <1>2, <1>4

LEMMA Became ==
    ASSUME TypeOK, NEW r \in Runner, NEW pc \in Step, NEW reg \in 0..MaxReg, Becomes(r, pc, reg)
    PROVE  Moved(r, pc, reg, 0, 0)
<1> DEFINE new == [Idle EXCEPT !.pc = pc, !.reg = reg]
<1>1. new \in RunRecord /\ new.pc = pc /\ new.reg = reg /\ new.tok = 0 /\ new.fd = 0
  BY IdleRuns DEF RunRecord
<1>2. run' = [run EXCEPT ![r] = new]
  BY DEF Becomes
<1> HIDE DEF new
<1>3. Moved(r, new.pc, new.reg, new.tok, new.fd)
  BY <1>1, <1>2, Updated
<1>4. QED
  BY <1>1, <1>3

LEMMA Ended ==
    ASSUME TypeOK, NEW r \in Runner, Ends(r)
    PROVE  Moved(r, "idle", 0, 0, 0)
  BY IdleRuns, Updated DEF Ends

ServerTypes == /\ user \in [reg : 0..MaxReg, status : {"none", "pending", "active"}]
               /\ (user.reg = 0) = (user.status = "none")
               /\ failures \in Nat
DiskTypes == /\ tmp \in 0..Cardinality(Inode) /\ cur \in 0..Cardinality(Inode)
             /\ data \in [Inode -> [reg : 0..MaxReg, tok : 0..MaxTok]]
CountTypes == /\ made \in 0..MaxReg /\ minted \in 0..MaxTok
              /\ tokens \subseteq 1..minted /\ slot \in 0..made /\ typed \subseteq Reg
GhostTypes == ghost \in [raced : BOOLEAN, died : BOOLEAN, expired : SUBSET Tok, newest : 0..MaxReg,
                         overlap : BOOLEAN]

LEMMA Parts ==
    /\ TypeOK <=> ServerTypes /\ DiskTypes /\ CountTypes /\ GhostTypes /\ run \in [Runner -> RunRecord]
    /\ TypeOK' <=> ServerTypes' /\ DiskTypes' /\ CountTypes' /\ GhostTypes' /\ run' \in [Runner -> RunRecord]
    /\ UNCHANGED <<user, failures>> => (ServerTypes <=> ServerTypes')
    /\ UNCHANGED <<tmp, cur, data>> => (DiskTypes <=> DiskTypes')
    /\ UNCHANGED <<made, minted, tokens, slot, typed>> => (CountTypes <=> CountTypes')
    /\ UNCHANGED ghost => (GhostTypes <=> GhostTypes')
  BY DEF TypeOK, ServerTypes, DiskTypes, CountTypes, GhostTypes, RunRecord

LEMMA TypedParts ==
    ASSUME Typed
    PROVE  /\ ServerTypes /\ DiskTypes /\ CountTypes /\ GhostTypes
           /\ made \in Nat /\ minted \in Nat
  BY Parts, Numbers DEF Typed, CountTypes

LEMMA CarriedBy ==
    ASSUME Typed, NEW r \in Runner
    PROVE  /\ run[r] \in RunRecord
           /\ run[r].pc \in {"post", "reply", "show", "check", "select", "update"} => run[r].reg \in 1..made
           /\ run[r].pc \in {"open", "write", "revoke", "unlink"} => run[r].tok \in 1..minted
           /\ run[r].pc \in {"write", "rename"} <=> run[r].fd # 0
           /\ run[r].pc = "update" => user.reg # 0
  BY DEF Typed, TypeOK, Carried, RunRecord

LEMMA CarriedOn ==
    ASSUME Typed, NEW r \in Runner, NEW pc, NEW reg, NEW tok, NEW fd, Moved(r, pc, reg, tok, fd),
           made' \in {made, made + 1}, minted' \in {minted, minted + 1},
           pc \in {"post", "reply", "show", "check", "select", "update"} => reg \in 1..made',
           pc \in {"open", "write", "revoke", "unlink"} => tok \in 1..minted',
           pc \in {"write", "rename"} <=> fd # 0,
           user.reg # 0 \/ pc = "update" => user'.reg # 0
    PROVE  Carried' /\ run' \in [Runner -> RunRecord]
<1>1. made \in Nat /\ minted \in Nat /\ 1..made \subseteq 1..made' /\ 1..minted \subseteq 1..minted'
  BY Numbers DEF Typed, TypeOK
<1>2. ASSUME NEW q \in Runner
      PROVE  /\ run'[q].pc \in {"post", "reply", "show", "check", "select", "update"} => run'[q].reg \in 1..made'
             /\ run'[q].pc \in {"open", "write", "revoke", "unlink"} => run'[q].tok \in 1..minted'
             /\ run'[q].pc \in {"write", "rename"} <=> run'[q].fd # 0
             /\ run'[q].pc = "update" => user'.reg # 0
  <2>1. CASE q = r
    BY <2>1 DEF Moved
  <2>2. CASE q # r
    BY <1>1, <2>2 DEF Moved, Typed, Carried
  <2>3. QED
    BY <2>1, <2>2
<1>3. QED
  BY <1>2 DEF Moved, Carried

LEMMA SameFiles ==
    ASSUME Typed, UNCHANGED data, minted' \in {minted, minted + 1}
    PROVE  FilesTyped'
  BY TypedParts DEF FilesTyped, Typed

LEMMA BeginRegisterMoves ==
    ASSUME Typed, NEW r \in Runner, BeginRegister(r)
    PROVE  Moved(r, "post", made + 1, 0, 0)
  BY Became, Numbers DEF Typed, TypeOK, BeginRegister, Step

LEMMA BeginRegisterTypes ==
    ASSUME Typed, NEW r \in Runner, BeginRegister(r)
    PROVE  Typed'
<1>2. Carried' /\ run' \in [Runner -> RunRecord]
  BY SMTT(60), CarriedBy, TypedParts, BeginRegisterMoves, CarriedOn, Numbers DEF ServerTypes, CountTypes, BeginRegister, At, server, count
<1>3. CountTypes'
  BY TypedParts, Numbers, CarriedBy DEF CountTypes, server, disk, count, BeginRegister, Reg, Tok, At, RunRecord
<1>4. TypeOK' /\ NamesApart' /\ FilesTyped'
  BY <1>2, <1>3, Parts, SameFiles DEF Typed, NamesApart, BeginRegister, server, disk, count
<1>5. QED
  BY <1>2, <1>4 DEF Typed

LEMMA RegisterMoves ==
    ASSUME Typed, NEW r \in Runner, Register(r)
    PROVE  \/ Moved(r, "reply", run[r].reg, run[r].tok, run[r].fd)
           \/ Moved(r, "idle", 0, 0, 0)
  BY Ended, Gone, Numbers DEF Typed, TypeOK, Register, Replaceable, Step

LEMMA RegisterTypes ==
    ASSUME Typed, NEW r \in Runner, Register(r)
    PROVE  Typed'
<1>2. Carried' /\ run' \in [Runner -> RunRecord]
  BY SMTT(60), CarriedBy, TypedParts, RegisterMoves, CarriedOn, Numbers DEF ServerTypes, CountTypes, Register, Replaceable, At, server, count
<1>3. ServerTypes'
  BY SMTT(60), TypedParts, CarriedBy, Numbers DEF ServerTypes, CountTypes, server, disk, count, Register, Replaceable, Empty, At, RunRecord
<1>4. GhostTypes'
  BY TypedParts, Numbers DEF GhostTypes, server, disk, count, Register, Replaceable
<1>5. TypeOK' /\ NamesApart' /\ FilesTyped'
  BY <1>2, <1>3, <1>4, Parts, SameFiles DEF Typed, NamesApart, Register, Replaceable, server, disk, count
<1>6. QED
  BY <1>2, <1>5 DEF Typed

LEMMA CommandShowsMoves ==
    ASSUME Typed, NEW r \in Runner, CommandShows(r)
    PROVE  Moved(r, "show", run[r].reg, run[r].tok, run[r].fd)
  BY Gone, Numbers DEF Typed, TypeOK, CommandShows, Step

LEMMA CommandShowsTypes ==
    ASSUME Typed, NEW r \in Runner, CommandShows(r)
    PROVE  Typed'
<1>2. Carried' /\ run' \in [Runner -> RunRecord]
  BY CarriedBy, TypedParts, CommandShowsMoves, CarriedOn, Numbers DEF ServerTypes, CountTypes, CommandShows, At, server, count
<1>3. TypeOK' /\ NamesApart' /\ FilesTyped'
  BY <1>2, Parts, SameFiles DEF Typed, NamesApart, CommandShows, server, disk, count
<1>4. QED
  BY <1>2, <1>3 DEF Typed

LEMMA PageShowsMoves ==
    ASSUME Typed, NEW r \in Runner, PageShows(r)
    PROVE  Moved(r, "idle", 0, 0, 0)
  BY SMTT(60), Ended, Numbers DEF Typed, TypeOK, PageShows, Step

LEMMA PageShowsTypes ==
    ASSUME Typed, NEW r \in Runner, PageShows(r)
    PROVE  Typed'
<1>2. Carried' /\ run' \in [Runner -> RunRecord]
  BY CarriedBy, TypedParts, PageShowsMoves, CarriedOn, Numbers DEF ServerTypes, CountTypes, PageShows, At, server, count
<1>3. CountTypes'
  BY TypedParts, Numbers, CarriedBy DEF CountTypes, server, disk, count, PageShows, Reg, Tok, At, RunRecord
<1>4. GhostTypes'
  BY TypedParts, CarriedBy, Numbers DEF GhostTypes, server, disk, count, PageShows, At, RunRecord
<1>5. TypeOK' /\ NamesApart' /\ FilesTyped'
  BY <1>2, <1>3, <1>4, Parts, SameFiles DEF Typed, NamesApart, PageShows, server, disk, count
<1>6. QED
  BY <1>2, <1>5 DEF Typed

LEMMA CommandTypesMoves ==
    ASSUME Typed, NEW r \in Runner, CommandTypes(r)
    PROVE  \/ Moved(r, "select", run[r].reg, run[r].tok, run[r].fd)
           \/ Moved(r, "idle", 0, 0, 0)
  BY Ended, Gone, Numbers DEF Typed, TypeOK, CommandTypes, Step

LEMMA CommandTypesTypes ==
    ASSUME Typed, NEW r \in Runner, CommandTypes(r)
    PROVE  Typed'
<1>2. Carried' /\ run' \in [Runner -> RunRecord]
  BY CarriedBy, TypedParts, CommandTypesMoves, CarriedOn, Numbers DEF ServerTypes, CountTypes, CommandTypes, At, server, count
<1>3. CountTypes'
  BY TypedParts, Numbers, CarriedBy DEF CountTypes, server, disk, count, CommandTypes, Reg, Tok, At, RunRecord
<1>4. TypeOK' /\ NamesApart' /\ FilesTyped'
  BY <1>2, <1>3, Parts, SameFiles DEF Typed, NamesApart, CommandTypes, server, disk, count
<1>5. QED
  BY <1>2, <1>4 DEF Typed

LEMMA TakeMoves ==
    ASSUME Typed, NEW r \in Runner, Take(r)
    PROVE  Moved(r, "check", slot, 0, 0)
  BY SMTT(60), Became, Numbers DEF Typed, TypeOK, Take, Step

LEMMA TakeTypes ==
    ASSUME Typed, NEW r \in Runner, Take(r)
    PROVE  Typed'
<1>2. Carried' /\ run' \in [Runner -> RunRecord]
  BY CarriedBy, TypedParts, TakeMoves, CarriedOn, Numbers DEF ServerTypes, CountTypes, Take, At, server, count
<1>3. CountTypes'
  BY TypedParts, Numbers, CarriedBy DEF CountTypes, server, disk, count, Take, Reg, Tok, At, RunRecord
<1>4. TypeOK' /\ NamesApart' /\ FilesTyped'
  BY <1>2, <1>3, Parts, SameFiles DEF Typed, NamesApart, Take, server, disk, count
<1>5. QED
  BY <1>2, <1>4 DEF Typed

LEMMA RightCodeMoves ==
    ASSUME Typed, NEW r \in Runner, RightCode(r)
    PROVE  Moved(r, "select", run[r].reg, run[r].tok, run[r].fd)
  BY Gone, Numbers DEF Typed, TypeOK, RightCode, Step

LEMMA RightCodeTypes ==
    ASSUME Typed, NEW r \in Runner, RightCode(r)
    PROVE  Typed'
<1>2. Carried' /\ run' \in [Runner -> RunRecord]
  BY SMTT(60), CarriedBy, TypedParts, RightCodeMoves, CarriedOn, Numbers DEF ServerTypes, CountTypes, RightCode, At, server, count
<1>3. CountTypes'
  BY SMTT(60), TypedParts, Numbers, CarriedBy DEF CountTypes, server, disk, count, RightCode, Reg, Tok, At, RunRecord
<1>4. TypeOK' /\ NamesApart' /\ FilesTyped'
  BY <1>2, <1>3, Parts, SameFiles DEF Typed, NamesApart, RightCode, server, disk, count
<1>5. QED
  BY <1>2, <1>4 DEF Typed

LEMMA WrongCodeMoves ==
    ASSUME Typed, NEW r \in Runner, WrongCode(r)
    PROVE  Moved(r, "idle", 0, 0, 0)
  BY Ended, Numbers DEF Typed, TypeOK, WrongCode, PutBack, Step

LEMMA WrongCodeTypes ==
    ASSUME Typed, NEW r \in Runner, WrongCode(r)
    PROVE  Typed'
<1>2. Carried' /\ run' \in [Runner -> RunRecord]
  BY CarriedBy, TypedParts, WrongCodeMoves, CarriedOn, Numbers DEF ServerTypes, CountTypes, WrongCode, PutBack, At, server, count
<1>3. CountTypes'
  BY TypedParts, Numbers, CarriedBy DEF CountTypes, server, disk, count, WrongCode, PutBack, Reg, Tok, At, RunRecord
<1>4. TypeOK' /\ NamesApart' /\ FilesTyped'
  BY <1>2, <1>3, Parts, SameFiles DEF Typed, NamesApart, WrongCode, PutBack, server, disk, count
<1>5. QED
  BY <1>2, <1>4 DEF Typed

LEMMA ConfirmSelectsMoves ==
    ASSUME Typed, NEW r \in Runner, ConfirmSelects(r)
    PROVE  \/ Moved(r, "idle", 0, 0, 0)
           \/ Moved(r, "count", run[r].reg, run[r].tok, run[r].fd)
           \/ Moved(r, "update", run[r].reg, run[r].tok, run[r].fd)
  BY Ended, Gone, Numbers DEF Typed, TypeOK, ConfirmSelects, AckMatches, Step

LEMMA ConfirmSelectsTypes ==
    ASSUME Typed, NEW r \in Runner, ConfirmSelects(r)
    PROVE  Typed'
<1>1. user.reg # 0 \/ ~AckMatches(run[r].reg)
  BY TypedParts, CarriedBy DEF ConfirmSelects, CountTypes, AckMatches, At
<1>2. Carried' /\ run' \in [Runner -> RunRecord]
  <2>1. CASE Moved(r, "idle", 0, 0, 0)
    BY <2>1, TypedParts, CarriedOn DEF ConfirmSelects, server, count
  <2>2. CASE Moved(r, "count", run[r].reg, run[r].tok, run[r].fd)
    BY <2>2, TypedParts, CarriedBy, CarriedOn DEF ConfirmSelects, At, server, count
  <2>3. CASE Moved(r, "update", run[r].reg, run[r].tok, run[r].fd)
    <3>1. user.reg # 0
      BY <1>1, <2>3, CarriedBy DEF ConfirmSelects, Ends, Moved, At, Idle, Typed, TypeOK
    <3>2. QED
      BY <2>3, <3>1, TypedParts, CarriedBy, CarriedOn DEF ConfirmSelects, At, server, count
  <2>4. QED
    BY <2>1, <2>2, <2>3, ConfirmSelectsMoves
<1>3. TypeOK' /\ NamesApart' /\ FilesTyped'
  BY <1>2, Parts, SameFiles DEF Typed, NamesApart, ConfirmSelects, AckMatches, server, disk, count
<1>4. QED
  BY <1>2, <1>3 DEF Typed

LEMMA ConfirmUpdatesMoves ==
    ASSUME Typed, NEW r \in Runner, ConfirmUpdates(r)
    PROVE  Moved(r, "count", run[r].reg, run[r].tok, run[r].fd)
  BY Gone, Numbers DEF Typed, TypeOK, ConfirmUpdates, Step

LEMMA ConfirmUpdatesTypes ==
    ASSUME Typed, NEW r \in Runner, ConfirmUpdates(r)
    PROVE  Typed'
<1>2. Carried' /\ run' \in [Runner -> RunRecord]
  BY SMTT(60), CarriedBy, TypedParts, ConfirmUpdatesMoves, CarriedOn, Numbers DEF ServerTypes, CountTypes, ConfirmUpdates, At, server, count
<1>3. ServerTypes'
  BY TypedParts, CarriedBy, Numbers DEF ServerTypes, CountTypes, server, disk, count, ConfirmUpdates, Empty, At, RunRecord
<1>4. TypeOK' /\ NamesApart' /\ FilesTyped'
  BY <1>2, <1>3, Parts, SameFiles DEF Typed, NamesApart, ConfirmUpdates, server, disk, count
<1>5. QED
  BY <1>2, <1>4 DEF Typed

LEMMA BeginLoginMoves ==
    ASSUME Typed, NEW r \in Runner, BeginLogin(r)
    PROVE  \/ Moved(r, "count", 0, 0, 0)
           \/ Moved(r, "count", user.reg, 0, 0)
  BY SMTT(60), Became, Numbers DEF Typed, TypeOK, BeginLogin, Derived, Step

LEMMA BeginLoginTypes ==
    ASSUME Typed, NEW r \in Runner, BeginLogin(r)
    PROVE  Typed'
<1>2. Carried' /\ run' \in [Runner -> RunRecord]
  BY CarriedBy, TypedParts, BeginLoginMoves, CarriedOn, Numbers DEF ServerTypes, CountTypes, BeginLogin, Derived, At, server, count
<1>3. TypeOK' /\ NamesApart' /\ FilesTyped'
  BY <1>2, Parts, SameFiles DEF Typed, NamesApart, BeginLogin, Derived, server, disk, count
<1>4. QED
  BY <1>2, <1>3 DEF Typed

LEMMA AttemptMoves ==
    ASSUME Typed, NEW r \in Runner, Attempt(r)
    PROVE  \/ Moved(r, "idle", 0, 0, 0)
           \/ Moved(r, "insert", run[r].reg, run[r].tok, run[r].fd)
           \/ Moved(r, "record", run[r].reg, run[r].tok, run[r].fd)
  BY Ended, Gone, Numbers DEF Typed, TypeOK, Attempt, Verified, WithinLimit, Step

LEMMA AttemptTypes ==
    ASSUME Typed, NEW r \in Runner, Attempt(r)
    PROVE  Typed'
<1>2. Carried' /\ run' \in [Runner -> RunRecord]
  BY SMTT(60), CarriedBy, TypedParts, AttemptMoves, CarriedOn, Numbers DEF ServerTypes, CountTypes, Attempt, Verified, WithinLimit, At, server, count
<1>3. TypeOK' /\ NamesApart' /\ FilesTyped'
  BY <1>2, Parts, SameFiles DEF Typed, NamesApart, Attempt, Verified, WithinLimit, server, disk, count
<1>4. QED
  BY <1>2, <1>3 DEF Typed

LEMMA RecordFailureMoves ==
    ASSUME Typed, NEW r \in Runner, RecordFailure(r)
    PROVE  Moved(r, "idle", 0, 0, 0)
  BY Ended, Numbers DEF Typed, TypeOK, RecordFailure, Step

LEMMA RecordFailureTypes ==
    ASSUME Typed, NEW r \in Runner, RecordFailure(r)
    PROVE  Typed'
<1>2. Carried' /\ run' \in [Runner -> RunRecord]
  BY CarriedBy, TypedParts, RecordFailureMoves, CarriedOn, Numbers DEF ServerTypes, CountTypes, RecordFailure, At, server, count
<1>3. ServerTypes'
  BY TypedParts, Numbers DEF ServerTypes, server, disk, count, RecordFailure, Empty
<1>4. TypeOK' /\ NamesApart' /\ FilesTyped'
  BY <1>2, <1>3, Parts, SameFiles DEF Typed, NamesApart, RecordFailure, server, disk, count
<1>5. QED
  BY <1>2, <1>4 DEF Typed

LEMMA InsertTokenMoves ==
    ASSUME Typed, NEW r \in Runner, InsertToken(r)
    PROVE  Moved(r, "open", run[r].reg, minted + 1, run[r].fd)
<1> DEFINE new == [run[r] EXCEPT !.pc = "open", !.tok = minted + 1]
<1>0. minted + 1 \in 0..MaxTok /\ run[r] \in RunRecord
  BY CarriedBy, TypedParts, Numbers DEF InsertToken
<1>1. new \in RunRecord /\ new.pc = "open" /\ new.reg = run[r].reg /\ new.tok = minted + 1 /\ new.fd = run[r].fd
  BY <1>0 DEF Step, RunRecord
<1>2. run' = [run EXCEPT ![r] = new]
  BY DEF InsertToken, Typed, TypeOK
<1> HIDE DEF new
<1>3. Moved(r, new.pc, new.reg, new.tok, new.fd)
  BY <1>1, <1>2, Updated DEF Typed
<1>4. QED
  BY <1>1, <1>3

LEMMA InsertTokenTypes ==
    ASSUME Typed, NEW r \in Runner, InsertToken(r)
    PROVE  Typed'
<1>1. minted + 1 \in 1..minted' /\ run[r].fd = 0
  BY TypedParts, CarriedBy DEF InsertToken, At
<1>2. Carried' /\ run' \in [Runner -> RunRecord]
  BY <1>1, TypedParts, InsertTokenMoves, CarriedOn DEF InsertToken
<1>3. CountTypes'
  BY SMTT(60), TypedParts, Numbers, CarriedBy DEF CountTypes, server, disk, count, InsertToken, Reg, Tok, At, RunRecord
<1>4. TypeOK' /\ NamesApart' /\ FilesTyped'
  BY <1>2, <1>3, Parts, SameFiles DEF Typed, NamesApart, InsertToken, server, disk, count
<1>5. QED
  BY <1>2, <1>4 DEF Typed

LEMMA SaveOpensMoves ==
    ASSUME Typed, NEW r \in Runner, SaveOpens(r)
    PROVE  Moved(r, "write", run[r].reg, run[r].tok, tmp')
<1> DEFINE new == [run[r] EXCEPT !.pc = "write", !.fd = tmp']
<1>0. tmp' \in 0..Cardinality(Inode) /\ run[r] \in RunRecord
  BY CarriedBy, TypedParts, FreeInode, Numbers DEF SaveOpens, DiskTypes, Typed
<1>1. new \in RunRecord /\ new.pc = "write" /\ new.reg = run[r].reg /\ new.tok = run[r].tok /\ new.fd = tmp'
  BY <1>0 DEF Step, RunRecord
<1>2. run' = [run EXCEPT ![r] = new]
  BY DEF SaveOpens, Typed, TypeOK
<1> HIDE DEF new
<1>3. Moved(r, new.pc, new.reg, new.tok, new.fd)
  BY <1>1, <1>2, Updated DEF Typed
<1>4. QED
  BY <1>1, <1>3

LEMMA SaveOpensTypes ==
    ASSUME Typed, NEW r \in Runner, SaveOpens(r)
    PROVE  Typed'
<1>1. /\ tmp' \in Inode /\ tmp' # 0 /\ tmp' # cur
      /\ data' = [data EXCEPT ![tmp'] = Empty]
  BY TypedParts, FreeInode, Numbers DEF SaveOpens, DiskTypes, Typed, NamesApart, Inode
<1>2. Carried' /\ run' \in [Runner -> RunRecord]
  BY <1>1, CarriedBy, TypedParts, SaveOpensMoves, CarriedOn DEF SaveOpens, At, server, count
<1>3. DiskTypes'
  BY <1>1, TypedParts, Numbers DEF DiskTypes, SaveOpens, Empty
<1>4. TypeOK' /\ NamesApart' /\ FilesTyped'
  <2>1. FilesTyped'
    BY <1>1, TypedParts DEF SaveOpens, Typed, FilesTyped, Empty, DiskTypes, count
  <2>2. QED
    BY <1>1, <1>2, <1>3, <2>1, Parts DEF Typed, NamesApart, SaveOpens, server, count
<1>5. QED
  BY <1>2, <1>4 DEF Typed

LEMMA SaveWritesMoves ==
    ASSUME Typed, NEW r \in Runner, SaveWrites(r)
    PROVE  Moved(r, "rename", run[r].reg, run[r].tok, run[r].fd)
  BY Gone, Numbers DEF Typed, TypeOK, SaveWrites, Step

LEMMA SaveWritesTypes ==
    ASSUME Typed, NEW r \in Runner, SaveWrites(r)
    PROVE  Typed'
<1>2. Carried' /\ run' \in [Runner -> RunRecord]
  BY CarriedBy, TypedParts, SaveWritesMoves, CarriedOn DEF SaveWrites, At, server, count
<1>3. DiskTypes'
  BY TypedParts, Numbers, CarriedBy DEF DiskTypes, server, disk, count, SaveWrites, Empty, RunRecord, At
<1>4. TypeOK' /\ NamesApart' /\ FilesTyped'
  <2>1. FilesTyped'
    <3>1. run[r].tok \in 1..minted
      BY CarriedBy DEF SaveWrites, At
    <3>2. QED
      BY <3>1, TypedParts DEF SaveWrites, Typed, FilesTyped, Empty, DiskTypes, count
  <2>2. QED
    BY <1>2, <1>3, <2>1, Parts DEF Typed, NamesApart, SaveWrites, server, count
<1>5. QED
  BY <1>2, <1>4 DEF Typed

LEMMA SaveRenamesMoves ==
    ASSUME Typed, NEW r \in Runner, SaveRenames(r)
    PROVE  Moved(r, "idle", 0, 0, 0)
  BY Ended, Numbers DEF Typed, TypeOK, SaveRenames, Step

LEMMA SaveRenamesTypes ==
    ASSUME Typed, NEW r \in Runner, SaveRenames(r)
    PROVE  Typed'
<1>2. Carried' /\ run' \in [Runner -> RunRecord]
  BY CarriedBy, TypedParts, SaveRenamesMoves, CarriedOn, Numbers DEF ServerTypes, CountTypes, SaveRenames, At, server, count
<1>3. DiskTypes'
  BY SMTT(60), TypedParts, Numbers, CarriedBy DEF DiskTypes, server, disk, count, SaveRenames, Empty, RunRecord, At
<1>4. TypeOK' /\ NamesApart' /\ FilesTyped'
  BY <1>2, <1>3, Parts, SameFiles DEF Typed, NamesApart, SaveRenames, server, disk, count
<1>5. QED
  BY <1>2, <1>4 DEF Typed

LEMMA BeginLogoutMoves ==
    ASSUME Typed, NEW r \in Runner, BeginLogout(r)
    PROVE  Moved(r, "revoke", 0, data[cur].tok, 0)
<1>0. data[cur].tok \in 0..MaxTok
  BY TypedParts, Numbers DEF BeginLogout, LoggedIn, Account, DiskTypes, Inode
<1> DEFINE new == [Idle EXCEPT !.pc = "revoke", !.tok = data[cur].tok]
<1>1. new \in RunRecord /\ new.pc = "revoke" /\ new.reg = 0 /\ new.tok = data[cur].tok /\ new.fd = 0
  BY IdleRuns, <1>0 DEF RunRecord, Step
<1>2. run' = [run EXCEPT ![r] = new]
  BY DEF BeginLogout, LoggedIn, Account
<1> HIDE DEF new
<1>3. Moved(r, new.pc, new.reg, new.tok, new.fd)
  BY <1>1, <1>2, Updated DEF Typed
<1>4. QED
  BY <1>1, <1>3

LEMMA BeginLogoutTypes ==
    ASSUME Typed, NEW r \in Runner, BeginLogout(r)
    PROVE  Typed'
<1>1. data[cur].tok \in 1..minted
  BY TypedParts, Numbers DEF BeginLogout, LoggedIn, Account, DiskTypes, Inode, Typed, FilesTyped
<1>2. Carried' /\ run' \in [Runner -> RunRecord]
  BY <1>1, TypedParts, BeginLogoutMoves, CarriedOn DEF BeginLogout, server, count
<1>3. TypeOK' /\ NamesApart' /\ FilesTyped'
  BY <1>2, Parts, SameFiles DEF Typed, NamesApart, BeginLogout, LoggedIn, Account, server, disk, count
<1>4. QED
  BY <1>2, <1>3 DEF Typed

LEMMA RevokeMoves ==
    ASSUME Typed, NEW r \in Runner, Revoke(r)
    PROVE  Moved(r, "unlink", run[r].reg, run[r].tok, run[r].fd)
  BY Gone, Numbers DEF Typed, TypeOK, Revoke, RevokedBy, Step

LEMMA RevokeTypes ==
    ASSUME Typed, NEW r \in Runner, Revoke(r)
    PROVE  Typed'
<1>2. Carried' /\ run' \in [Runner -> RunRecord]
  BY SMTT(60), CarriedBy, TypedParts, RevokeMoves, CarriedOn, Numbers DEF ServerTypes, CountTypes, Revoke, RevokedBy, At, server, count
<1>3. CountTypes'
  BY TypedParts, Numbers, CarriedBy DEF CountTypes, server, disk, count, Revoke, RevokedBy, Reg, Tok, At, RunRecord
<1>4. TypeOK' /\ NamesApart' /\ FilesTyped'
  BY <1>2, <1>3, Parts, SameFiles DEF Typed, NamesApart, Revoke, RevokedBy, server, disk, count
<1>5. QED
  BY <1>2, <1>4 DEF Typed

LEMMA UnlinkMoves ==
    ASSUME Typed, NEW r \in Runner, Unlink(r)
    PROVE  Moved(r, "idle", 0, 0, 0)
  BY Ended, Numbers DEF Typed, TypeOK, Unlink, Step

LEMMA UnlinkTypes ==
    ASSUME Typed, NEW r \in Runner, Unlink(r)
    PROVE  Typed'
<1>2. Carried' /\ run' \in [Runner -> RunRecord]
  BY CarriedBy, TypedParts, UnlinkMoves, CarriedOn, Numbers DEF ServerTypes, CountTypes, Unlink, At, server, count
<1>3. DiskTypes'
  BY TypedParts, Numbers, CarriedBy DEF DiskTypes, server, disk, count, Unlink, Empty, RunRecord, At
<1>4. TypeOK' /\ NamesApart' /\ FilesTyped'
  BY <1>2, <1>3, Parts, SameFiles DEF Typed, NamesApart, Unlink, server, disk, count
<1>5. QED
  BY <1>2, <1>4 DEF Typed

LEMMA FailsMoves ==
    ASSUME Typed, NEW r \in Runner, Fails(r)
    PROVE  Moved(r, "idle", 0, 0, 0)
  BY Ended, Numbers DEF Typed, TypeOK, Fails, Dangling, Step

LEMMA FailsTypes ==
    ASSUME Typed, NEW r \in Runner, Fails(r)
    PROVE  Typed'
<1>2. Carried' /\ run' \in [Runner -> RunRecord]
  BY CarriedBy, TypedParts, FailsMoves, CarriedOn, Numbers DEF ServerTypes, CountTypes, Fails, Dangling, At, server, count
<1>3. GhostTypes'
  BY TypedParts, Numbers DEF GhostTypes, server, disk, count, Fails, Dangling
<1>4. TypeOK' /\ NamesApart' /\ FilesTyped'
  BY <1>2, <1>3, Parts, SameFiles DEF Typed, NamesApart, Fails, Dangling, server, disk, count
<1>5. QED
  BY <1>2, <1>4 DEF Typed

LEMMA TimeTypes ==
    ASSUME Typed, WindowPasses \/ \E t \in Tok : TokenExpires(t)
    PROVE  Typed' /\ UNCHANGED <<run, disk, slot, typed, minted, made>>
<1>1. CASE WindowPasses
  BY <1>1, Parts DEF Typed, ServerTypes, WindowPasses, Carried, NamesApart, FilesTyped, disk, count
<1>2. ASSUME NEW t \in Tok, TokenExpires(t)
      PROVE  Typed' /\ UNCHANGED <<run, disk, slot, typed, minted, made>>
  <2>1. CountTypes' /\ GhostTypes'
    BY <1>2, TypedParts DEF CountTypes, GhostTypes, TokenExpires, count
  <2>2. QED
    BY <1>2, <2>1, Parts DEF Typed, TokenExpires, Carried, NamesApart, FilesTyped, disk, count
<1>3. QED
  BY <1>1, <1>2

\* What a restart of the page leaves of the runners.
LEMMA RestartMoves ==
    ASSUME Typed, PageRestarts
    PROVE  /\ run' \in [Runner -> RunRecord]
           /\ \A q \in Runner :
                \/ run'[q] = run[q] /\ run[q].pc \notin {"post", "reply", "check"}
                \/ run'[q] = Idle /\ (Dangling(q) => ghost'.died)
           /\ ghost'.raced = ghost.raced /\ ghost'.expired = ghost.expired
           /\ ghost'.newest = 0 /\ ghost'.overlap = ghost.overlap
           /\ ghost.died => ghost'.died
           /\ GhostTypes'
<1>1. PICK R \in SUBSET {r \in Runner : ~At(r, "show")} :
        /\ {r \in Runner : run[r].pc \in {"post", "reply", "check"}} \subseteq R
        /\ run' = [r \in Runner |-> IF r \in R THEN Idle ELSE run[r]]
        /\ ghost' = [ghost EXCEPT !.died = @ \/ \E r \in R : Dangling(r), !.newest = 0]
  BY DEF PageRestarts
<1>2. ghost \in [raced : BOOLEAN, died : BOOLEAN, expired : SUBSET Tok, newest : 0..MaxReg, overlap : BOOLEAN]
  BY TypedParts DEF GhostTypes
<1>3. /\ ghost'.raced = ghost.raced /\ ghost'.expired = ghost.expired
      /\ ghost'.newest = 0 /\ ghost'.overlap = ghost.overlap
      /\ ghost'.died <=> ghost.died \/ \E r \in R : Dangling(r)
  BY <1>1, <1>2
<1>4. ASSUME NEW q \in Runner
      PROVE  \/ run'[q] = run[q] /\ run[q].pc \notin {"post", "reply", "check"}
             \/ run'[q] = Idle /\ (Dangling(q) => ghost'.died)
  BY <1>1, <1>3
<1>5. run' \in [Runner -> RunRecord]
  BY <1>1, IdleRuns, CarriedBy
<1>6. GhostTypes'
  <2> DEFINE b == ghost.died \/ \E r \in R : Dangling(r)
  <2>1. b \in BOOLEAN
    OBVIOUS
  <2>2. ghost' = [ghost EXCEPT !.died = b, !.newest = 0]
    BY <1>1
  <2> HIDE DEF b
  <2>3. ghost' = [raced |-> ghost.raced, died |-> b, expired |-> ghost.expired, newest |-> 0,
                  overlap |-> ghost.overlap]
    BY <1>2, <2>2
  <2>4. QED
    BY <1>2, <2>1, <2>3, Numbers DEF GhostTypes
<1>7. QED
  BY SMTT(60), <1>3, <1>4, <1>5, <1>6

LEMMA RestartTypes ==
    ASSUME Typed, PageRestarts
    PROVE  Typed'
<1>1. GhostTypes'
  BY RestartMoves
<1>2. CountTypes'
  BY SMTT(60), TypedParts DEF CountTypes, PageRestarts, server, count
<1>3. Carried'
  BY ZenonT(60), RestartMoves, IdleRuns DEF Typed, Carried, PageRestarts, server, count
<1>4. QED
  BY <1>1, <1>2, <1>3, RestartMoves, Parts DEF Typed, PageRestarts, NamesApart, FilesTyped, server, disk, count

LEMMA TypesKept ==
    ASSUME Typed, [Next]_vars
    PROVE  Typed'
<1>1. CASE UNCHANGED vars
  BY <1>1, Parts DEF vars, Typed, Carried, NamesApart, FilesTyped, TypeOK
<1>2. ASSUME NEW r \in Runner, Registration(r)
      PROVE  Typed'
  BY <1>2, BeginRegisterTypes, RegisterTypes, CommandShowsTypes, PageShowsTypes, CommandTypesTypes,
     TakeTypes, RightCodeTypes, WrongCodeTypes, ConfirmSelectsTypes, ConfirmUpdatesTypes DEF Registration
<1>3. ASSUME NEW r \in Runner, Login(r)
      PROVE  Typed'
  BY <1>3, BeginLoginTypes, AttemptTypes, RecordFailureTypes, InsertTokenTypes DEF Login
<1>4. ASSUME NEW r \in Runner, Saves(r) \/ Logout(r) \/ Fails(r)
      PROVE  Typed'
  BY <1>4, SaveOpensTypes, SaveWritesTypes, SaveRenamesTypes, BeginLogoutTypes, RevokeTypes, UnlinkTypes,
     FailsTypes DEF Saves, Logout
<1>5. QED
  BY <1>1, <1>2, <1>3, <1>4, TimeTypes, RestartTypes DEF Next

-------------------------------------------------------------------------------
(* Registrations: what is proved, and what waits *)

Registered == CodesProved /\ NewestAlone /\ WrongCodeLosesNothing

\* A step that is no part of a confirmation.
LEMMA Elsewhere ==
    ASSUME Typed, Registered, NEW r \in Runner, NEW pc, NEW reg, NEW tok, NEW fd,
           Moved(r, pc, reg, tok, fd), pc \notin {"check", "select", "update"},
           UNCHANGED <<user, slot, typed>>,
           ghost'.raced = ghost.raced, ghost'.newest = ghost.newest,
           ghost.overlap \/ At(r, "check") => ghost'.overlap
    PROVE  Registered'
<1>1. CodesProved'
  BY DEF Registered, CodesProved, Active, Moved, At
<1>2. NewestAlone'
  BY DEF Registered, NewestAlone, Moved, At
<1>3. WrongCodeLosesNothing'
  BY DEF Registered, WrongCodeLosesNothing, Moved, At
<1>4. QED
  BY <1>1, <1>2, <1>3 DEF Registered

LEMMA FailsGhost ==
    ASSUME Typed, NEW r \in Runner, Fails(r)
    PROVE  /\ ghost'.raced = ghost.raced /\ ghost'.expired = ghost.expired /\ ghost'.newest = ghost.newest
           /\ ghost'.died <=> ghost.died \/ Dangling(r)
           /\ ghost'.overlap <=> ghost.overlap \/ At(r, "check")
  BY TypedParts DEF Fails, GhostTypes

LEMMA OthersRegistered ==
    ASSUME Typed, Registered, NEW r \in Runner, BeginRegister(r) \/ CommandShows(r) \/ Login(r) \/ Saves(r) \/ Logout(r)
    PROVE  Registered'
<1>1. CASE BeginRegister(r)
  BY <1>1, BeginRegisterMoves, Elsewhere DEF BeginRegister, At, server
<1>2. CASE CommandShows(r)
  BY <1>2, CommandShowsMoves, Elsewhere DEF CommandShows, At, server
<1>3. CASE BeginLogin(r)
  BY <1>3, BeginLoginMoves, Elsewhere DEF BeginLogin, At, server
<1>4. CASE Attempt(r)
  BY <1>4, AttemptMoves, Elsewhere DEF Attempt, At, server
<1>5. CASE RecordFailure(r)
  BY <1>5, RecordFailureMoves, Elsewhere DEF RecordFailure, At
<1>6. CASE InsertToken(r)
  <2>1. UNCHANGED <<user, slot, typed, ghost>> /\ ~At(r, "check")
    BY <1>6 DEF InsertToken, At
  <2>2. QED
    BY <1>6, <2>1, InsertTokenMoves, Elsewhere
<1>7. CASE SaveOpens(r)
  BY <1>7, SaveOpensMoves, Elsewhere DEF SaveOpens, At, server
<1>8. CASE SaveWrites(r)
  <2>1. UNCHANGED <<user, slot, typed, ghost>> /\ ~At(r, "check")
    BY <1>8 DEF SaveWrites, At, server
  <2>2. QED
    BY <1>8, <2>1, SaveWritesMoves, Elsewhere
<1>9. CASE SaveRenames(r)
  BY <1>9, SaveRenamesMoves, Elsewhere DEF SaveRenames, At, server
<1>10. CASE BeginLogout(r)
  BY <1>10, BeginLogoutMoves, Elsewhere DEF BeginLogout, At, server
<1>11. CASE Revoke(r)
  BY <1>11, RevokeMoves, Elsewhere DEF Revoke, At
<1>12. CASE Unlink(r)
  BY <1>12, UnlinkMoves, Elsewhere DEF Unlink, At, server
<1>13. QED
  BY <1>1, <1>2, <1>3, <1>4, <1>5, <1>6, <1>7, <1>8, <1>9, <1>10, <1>11, <1>12 DEF Login, Saves, Logout

\* A new registration of the address is what races a confirmation.
LEMMA RegisterRegistered ==
    ASSUME Typed, Registered, NEW r \in Runner, Register(r)
    PROVE  Registered'
<1>1. CASE ~Replaceable
  BY <1>1, RegisterMoves, Elsewhere, Ended DEF Register, At, Typed
<1>2. CASE Replaceable
  <2>1. /\ ghost'.newest = ghost.newest /\ ghost'.overlap = ghost.overlap
        /\ ghost'.raced <=> ghost.raced \/ \E q \in Runner : At(q, "update")
    BY <1>2, TypedParts DEF Register, GhostTypes
  <2>2. Moved(r, "reply", run[r].reg, run[r].tok, run[r].fd) /\ At(r, "post")
    BY <1>2, Gone DEF Register, Typed, Step
  <2>3. ~Active' /\ UNCHANGED <<slot, typed>>
    BY <1>2 DEF Register, Active
  <2>4. CodesProved'
    BY <2>1, <2>2, <2>3 DEF Registered, CodesProved, Moved, At
  <2>5. NewestAlone' /\ WrongCodeLosesNothing'
    BY <2>1, <2>2, <2>3 DEF Registered, NewestAlone, WrongCodeLosesNothing, Moved, At
  <2>6. QED
    BY <2>4, <2>5 DEF Registered
<1>3. QED
  BY <1>1, <1>2

\* The page takes the newest, which nothing overlaps but a check under way.
LEMMA PageShowsRegistered ==
    ASSUME Typed, Registered, NEW r \in Runner, PageShows(r)
    PROVE  Registered'
<1>1. /\ ghost'.newest = run[r].reg /\ ghost'.raced = ghost.raced
      /\ ghost'.overlap <=> \E q \in Runner : At(q, "check")
  BY TypedParts DEF PageShows, GhostTypes
<1>2. CodesProved'
  BY ZenonT(60), <1>1, PageShowsMoves DEF PageShows, Registered, CodesProved, Active, Moved, At, server
<1>3. NewestAlone' /\ WrongCodeLosesNothing'
  BY <1>1, PageShowsMoves DEF PageShows, NewestAlone, WrongCodeLosesNothing, Moved, At
<1>4. QED
  BY <1>2, <1>3 DEF Registered

LEMMA CodeTypedRegistered ==
    ASSUME Typed, Registered, NEW r \in Runner, CommandTypes(r) \/ RightCode(r)
    PROVE  Registered'
<1>1. CASE CommandTypes(r) /\ UNCHANGED typed /\ Ends(r)
  BY <1>1, Ended, Elsewhere DEF CommandTypes, At, Typed, server
<1>2. CASE At(r, "show") \/ At(r, "check")
  <2>1. CASE /\ Goes(r, "select") /\ typed' = typed \cup {run[r].reg}
             /\ UNCHANGED <<user, slot, ghost>>
    <3>1. Moved(r, "select", run[r].reg, run[r].tok, run[r].fd)
      BY <2>1, Gone DEF Typed, Step
    <3>2. CodesProved'
      BY <2>1, <3>1 DEF Registered, CodesProved, Active, Moved, At
    <3>3. NewestAlone' /\ WrongCodeLosesNothing'
      BY <1>2, <2>1, <3>1 DEF Registered, NewestAlone, WrongCodeLosesNothing, Moved, At
    <3>4. QED
      BY <3>2, <3>3 DEF Registered
  <2>2. QED
    BY <1>1, <2>1 DEF CommandTypes, RightCode, server
<1>3. QED
  BY <1>2 DEF CommandTypes, RightCode

LEMMA TakeRegistered ==
    ASSUME Typed, Registered, NEW r \in Runner, Take(r)
    PROVE  Registered'
<1>1. CodesProved'
  BY TakeMoves DEF Take, Registered, CodesProved, Active, Moved, At, server
<1>2. NewestAlone'
  BY TakeMoves DEF Take, Registered, NewestAlone, Moved, At
<1>3. WrongCodeLosesNothing'
  BY TakeMoves DEF Take, Registered, WrongCodeLosesNothing, Moved, At
<1>4. QED
  BY <1>1, <1>2, <1>3 DEF Registered

LEMMA WrongCodeRegistered ==
    ASSUME Typed, Registered, NEW r \in Runner, WrongCode(r)
    PROVE  Registered'
<1>1. CodesProved'
  BY WrongCodeMoves DEF WrongCode, Registered, CodesProved, Active, Moved, At, server
<1>2. NewestAlone' /\ WrongCodeLosesNothing'
  BY WrongCodeMoves DEF WrongCode, PutBack, Registered, NewestAlone, WrongCodeLosesNothing, Moved, At
<1>3. QED
  BY <1>1, <1>2 DEF Registered

LEMMA ConfirmsRegistered ==
    ASSUME Typed, Registered, NEW r \in Runner, ConfirmSelects(r) \/ ConfirmUpdates(r)
    PROVE  Registered'
<1>1. CASE ConfirmSelects(r)
  <2>1. CASE ~(AckMatches(run[r].reg) /\ Goes(r, "update"))
    <3>1. Ends(r) \/ Goes(r, "count")
      BY <1>1, <2>1 DEF ConfirmSelects
    <3>2. QED
      BY <1>1, <3>1, Ended, Gone, Elsewhere DEF ConfirmSelects, At, Typed, Step, server
  <2>2. CASE AckMatches(run[r].reg) /\ Goes(r, "update")
    <3>1. Moved(r, "update", run[r].reg, run[r].tok, run[r].fd)
      BY <2>2, Gone DEF Typed, Step
    <3>2. CodesProved'
      BY <1>1, <2>2, <3>1 DEF ConfirmSelects, AckMatches, Registered, CodesProved, Active, Moved, At, server
    <3>3. NewestAlone' /\ WrongCodeLosesNothing'
      BY <1>1, <3>1 DEF ConfirmSelects, Registered, NewestAlone, WrongCodeLosesNothing, Moved, At
    <3>4. QED
      BY <3>2, <3>3 DEF Registered
  <2>3. QED
    BY <2>1, <2>2
<1>2. CASE ConfirmUpdates(r)
  <2>1. user'.reg = user.reg
    BY <1>2, TypedParts DEF ConfirmUpdates, ServerTypes
  <2>2. CodesProved'
    BY <1>2, <2>1, ConfirmUpdatesMoves DEF ConfirmUpdates, Registered, CodesProved, Moved, At
  <2>3. NewestAlone' /\ WrongCodeLosesNothing'
    BY <1>2, ConfirmUpdatesMoves DEF ConfirmUpdates, Registered, NewestAlone, WrongCodeLosesNothing, Moved, At
  <2>4. QED
    BY <2>2, <2>3 DEF Registered
<1>3. QED
  BY <1>1, <1>2

LEMMA FaultsRegistered ==
    ASSUME Typed, Registered, (\E r \in Runner : Fails(r)) \/ PageRestarts \/ WindowPasses \/ \E t \in Tok : TokenExpires(t)
    PROVE  Registered'
<1>1. ASSUME NEW r \in Runner, Fails(r)
      PROVE  Registered'
  BY <1>1, FailsMoves, FailsGhost, Elsewhere DEF Fails, server
<1>2. CASE PageRestarts
  <2>1. CodesProved'
    BY ZenonT(60), <1>2, RestartMoves, IdleRuns DEF PageRestarts, Registered, CodesProved, Active, At, server
  <2>2. NewestAlone'
    BY <1>2, RestartMoves, IdleRuns DEF PageRestarts, NewestAlone, At
  <2>3. WrongCodeLosesNothing'
    BY <1>2, RestartMoves DEF WrongCodeLosesNothing
  <2>4. QED
    BY SMTT(60), <2>1, <2>2, <2>3 DEF Registered
<1>3. CASE WindowPasses
  BY <1>3 DEF WindowPasses, Registered, CodesProved, NewestAlone, WrongCodeLosesNothing, Active, At
<1>4. ASSUME NEW t \in Tok, TokenExpires(t)
      PROVE  Registered'
  <2>1. ghost'.raced = ghost.raced /\ ghost'.newest = ghost.newest /\ ghost'.overlap = ghost.overlap
    BY <1>4, TypedParts DEF TokenExpires, GhostTypes
  <2>2. QED
    BY <1>4, <2>1 DEF TokenExpires, Registered, CodesProved, NewestAlone, WrongCodeLosesNothing, Active, At
<1>5. QED
  BY <1>1, <1>2, <1>3, <1>4

LEMMA RegisteredKept ==
    ASSUME Typed, Registered, [Next]_vars
    PROVE  Registered'
<1>1. CASE UNCHANGED vars
  BY <1>1 DEF vars, Registered, CodesProved, NewestAlone, WrongCodeLosesNothing, Active, At
<1>2. ASSUME NEW r \in Runner, Registration(r)
      PROVE  Registered'
  BY <1>2, OthersRegistered, RegisterRegistered, PageShowsRegistered, CodeTypedRegistered, TakeRegistered,
     WrongCodeRegistered, ConfirmsRegistered DEF Registration
<1>3. QED
  BY <1>1, <1>2, OthersRegistered, FaultsRegistered DEF Next

-------------------------------------------------------------------------------
(* Failures *)

LEMMA RecordersFinite ==
    /\ IsFiniteSet(Recorders) /\ Cardinality(Recorders) \in Nat
    /\ Cardinality(Recorders) <= Cardinality(Runner)
<1>1. Recorders \subseteq Runner
  BY DEF Recorders
<1>2. QED
  BY <1>1, Constants, FS_Subset, FS_CardinalityType

LEMMA NoMoreRecorders ==
    ASSUME Typed, FailuresCounted, Recorders' \subseteq Recorders, failures' \in Nat, failures' <= failures
    PROVE  FailuresCounted'
<1>1. Cardinality(Recorders') <= Cardinality(Recorders) /\ Cardinality(Recorders') \in Nat
  BY RecordersFinite, FS_Subset, FS_CardinalityType
<1>2. failures \in Nat
  BY TypedParts DEF ServerTypes
<1>3. QED
  BY <1>1, <1>2, RecordersFinite, Numbers DEF FailuresCounted

LEMMA NoFailure ==
    ASSUME Typed, FailuresCounted, NEW r \in Runner, NEW pc, NEW reg, NEW tok, NEW fd,
           Moved(r, pc, reg, tok, fd), pc # "record", UNCHANGED failures
    PROVE  FailuresCounted'
<1>1. Recorders' \subseteq Recorders
  BY DEF Recorders, Moved, At
<1>2. failures' \in Nat /\ failures' <= failures
  BY TypedParts DEF ServerTypes
<1>3. QED
  BY <1>1, <1>2, NoMoreRecorders

\* Whoever is within the limit may fail: there are at most as many as runners.
LEMMA AttemptFailures ==
    ASSUME Typed, FailuresCounted, NEW r \in Runner, Attempt(r)
    PROVE  FailuresCounted'
<1>1. UNCHANGED failures
  BY DEF Attempt, server
<1>2. CASE WithinLimit
  <2>1. IsFiniteSet(Recorders') /\ Cardinality(Recorders') <= Cardinality(Runner)
    <3>1. Recorders' \subseteq Runner
      BY DEF Recorders
    <3>2. QED
      BY <3>1, Constants, FS_Subset
  <2>2. Cardinality(Recorders') \in Nat /\ failures \in Nat
    BY <2>1, FS_CardinalityType, TypedParts DEF ServerTypes
  <2>3. QED
    BY <1>1, <1>2, <2>1, <2>2, Numbers DEF WithinLimit, FailuresCounted
<1>3. CASE ~WithinLimit
  BY <1>1, <1>3, Ended, NoFailure DEF Attempt, Typed
<1>4. QED
  BY <1>2, <1>3

LEMMA RecordFailureFailures ==
    ASSUME Typed, FailuresCounted, NEW r \in Runner, RecordFailure(r)
    PROVE  FailuresCounted'
<1>1. Recorders' = Recorders \ {r} /\ r \in Recorders
  BY RecordFailureMoves DEF RecordFailure, Recorders, Moved, At
<1>2. Cardinality(Recorders') = Cardinality(Recorders) - 1
  BY <1>1, RecordersFinite, FS_RemoveElement
<1>3. failures' = failures + 1 /\ failures \in Nat
  BY TypedParts DEF RecordFailure, ServerTypes
<1>4. QED
  BY <1>2, <1>3, RecordersFinite, Numbers DEF FailuresCounted

LEMMA FailuresKept ==
    ASSUME Typed, FailuresCounted, [Next]_vars
    PROVE  FailuresCounted'
<1>1. CASE UNCHANGED vars
  BY <1>1 DEF vars, FailuresCounted, Recorders, At
<1>2. ASSUME NEW r \in Runner, Registration(r)
      PROVE  FailuresCounted'
  <2>1. UNCHANGED failures
    BY <1>2 DEF Registration, BeginRegister, Register, CommandShows, PageShows, CommandTypes, Take,
       RightCode, WrongCode, ConfirmSelects, ConfirmUpdates, server
  <2>2. PICK pc, reg, tok, fd : Moved(r, pc, reg, tok, fd) /\ pc # "record"
    BY <1>2, BeginRegisterMoves, RegisterMoves, CommandShowsMoves, PageShowsMoves, CommandTypesMoves,
       TakeMoves, RightCodeMoves, WrongCodeMoves, ConfirmSelectsMoves, ConfirmUpdatesMoves DEF Registration
  <2>3. QED
    BY <2>1, <2>2, NoFailure
<1>3. ASSUME NEW r \in Runner, BeginLogin(r) \/ InsertToken(r) \/ Saves(r) \/ Logout(r) \/ Fails(r)
      PROVE  FailuresCounted'
  <2>1. UNCHANGED failures
    BY <1>3 DEF BeginLogin, InsertToken, Saves, SaveOpens, SaveWrites, SaveRenames, Logout, BeginLogout,
       Revoke, Unlink, Fails, server
  <2>2. PICK pc, reg, tok, fd : Moved(r, pc, reg, tok, fd) /\ pc # "record"
    BY <1>3, BeginLoginMoves, InsertTokenMoves, SaveOpensMoves, SaveWritesMoves, SaveRenamesMoves,
       BeginLogoutMoves, RevokeMoves, UnlinkMoves, FailsMoves DEF Saves, Logout
  <2>3. QED
    BY <2>1, <2>2, NoFailure
<1>4. CASE PageRestarts
  <2>1. Recorders' \subseteq Recorders
    BY <1>4, RestartMoves, IdleRuns DEF Recorders, At
  <2>2. UNCHANGED failures /\ failures \in Nat
    BY <1>4, TypedParts DEF PageRestarts, server, ServerTypes
  <2>3. QED
    BY <2>1, <2>2, NoMoreRecorders
<1>5. CASE WindowPasses \/ \E t \in Tok : TokenExpires(t)
  <2>1. Recorders' \subseteq Recorders
    BY <1>5 DEF WindowPasses, TokenExpires, Recorders, At
  <2>2. failures' \in Nat /\ failures' <= failures
    BY <1>5, TypedParts DEF WindowPasses, TokenExpires, ServerTypes
  <2>3. QED
    BY <2>1, <2>2, NoMoreRecorders
<1>6. QED
  BY <1>1, <1>2, <1>3, <1>4, <1>5, AttemptFailures, RecordFailureFailures DEF Next, Login

-------------------------------------------------------------------------------
(* The account file and the tokens *)

Filed == FilesFilled /\ OfTheRow /\ InOnePlace /\ RevokedGoes

\* A step that writes no file and mints, reads or revokes no token.
LEMMA Aside ==
    ASSUME Typed, Filed, NEW r \in Runner, NEW pc, NEW reg, NEW tok, NEW fd,
           Moved(r, pc, reg, tok, fd), pc \notin {"open", "write", "revoke", "unlink"},
           UNCHANGED <<tokens, tmp, cur, data>>, ghost'.expired = ghost.expired,
           ghost.died \/ Dangling(r) => ghost'.died,
           pc = "insert" => Active' /\ reg = user'.reg,
           Active => Active' /\ user'.reg = user.reg
    PROVE  Filed'
<1>1. FilesFilled'
  BY DEF Filed, FilesFilled, Truncated, Moved, At, Dangling
<1>2. OfTheRow'
  BY DEF Filed, OfTheRow, Moved
<1>3. InOnePlace'
  BY DEF Filed, InOnePlace, Saving, Good, LeavingWith, Moved
<1>4. RevokedGoes'
  BY DEF Filed, RevokedGoes, Good, LeavingWith, Moved, At, Dangling
<1>5. QED
  BY <1>1, <1>2, <1>3, <1>4 DEF Filed

LEMMA RegistrationFiled ==
    ASSUME Typed, Filed, NEW r \in Runner, Registration(r)
    PROVE  Filed'
<1>1. CASE BeginRegister(r)
  BY <1>1, BeginRegisterMoves, Aside DEF BeginRegister, At, server, disk, Dangling, Active
<1>2. CASE Register(r)
  <2>1. ghost'.expired = ghost.expired /\ ghost'.died = ghost.died
    BY <1>2, TypedParts DEF Register, GhostTypes
  <2>2. Active => UNCHANGED user
    BY <1>2 DEF Register, Replaceable, Active
  <2>3. QED
    BY <1>2, <2>1, <2>2, RegisterMoves, Aside DEF Register, At, disk, Dangling, Active
<1>3. CASE CommandShows(r)
  BY SMTT(60), <1>3, CommandShowsMoves, Aside DEF CommandShows, At, server, disk, Dangling, Active
<1>4. CASE PageShows(r)
  <2>1. ghost'.expired = ghost.expired /\ ghost'.died = ghost.died
    BY <1>4, TypedParts DEF PageShows, GhostTypes
  <2>2. QED
    BY <1>4, <2>1, PageShowsMoves, Aside DEF PageShows, At, server, disk, Dangling, Active
<1>5. CASE CommandTypes(r)
  BY <1>5, CommandTypesMoves, Aside DEF CommandTypes, At, server, disk, Dangling, Active
<1>6. CASE Take(r)
  BY <1>6, TakeMoves, Aside DEF Take, At, server, disk, Dangling, Active
<1>7. CASE RightCode(r)
  BY <1>7, RightCodeMoves, Aside DEF RightCode, At, server, disk, Dangling, Active
<1>8. CASE WrongCode(r)
  BY <1>8, WrongCodeMoves, Aside DEF WrongCode, At, server, disk, Dangling, Active
<1>9. CASE ConfirmSelects(r)
  BY <1>9, ConfirmSelectsMoves, Aside DEF ConfirmSelects, At, server, disk, Dangling, Active
<1>10. CASE ConfirmUpdates(r)
  <2>1. Active' /\ user'.reg = user.reg
    BY <1>10, TypedParts DEF ConfirmUpdates, ServerTypes, Active
  <2>2. QED
    BY <1>10, <2>1, ConfirmUpdatesMoves, Aside DEF ConfirmUpdates, At, disk, Dangling
<1>11. QED
  BY <1>1, <1>2, <1>3, <1>4, <1>5, <1>6, <1>7, <1>8, <1>9, <1>10 DEF Registration

\* A login that is verified is one with the keys of the active row, which nothing
\* replaces any more.
LEMMA LoginFiled ==
    ASSUME Typed, Filed, NEW r \in Runner, BeginLogin(r) \/ Attempt(r) \/ RecordFailure(r) \/ Fails(r)
    PROVE  Filed'
<1>1. CASE BeginLogin(r)
  BY <1>1, BeginLoginMoves, Aside DEF BeginLogin, At, server, disk, Dangling, Active
<1>2. CASE Attempt(r)
  <2>1. CASE Goes(r, "insert") /\ Verified(run[r].reg) /\ Active
    <3>1. Moved(r, "insert", run[r].reg, run[r].tok, run[r].fd)
      BY <2>1, Gone DEF Typed, Step
    <3>2. QED
      BY <1>2, <2>1, <3>1, Aside DEF Attempt, Verified, At, server, disk, Dangling, Active
  <2>2. CASE Ends(r) \/ Goes(r, "record")
    <3>1. Moved(r, "idle", 0, 0, 0) \/ Moved(r, "record", run[r].reg, run[r].tok, run[r].fd)
      BY <2>2, Gone, Ended DEF Typed, Step
    <3>2. QED
      BY <1>2, <3>1, Aside DEF Attempt, At, server, disk, Dangling, Active
  <2>3. QED
    BY <1>2, <2>1, <2>2 DEF Attempt, Active
<1>3. CASE RecordFailure(r)
  BY <1>3, RecordFailureMoves, Aside DEF RecordFailure, At, disk, Dangling, Active
<1>4. CASE Fails(r)
  BY <1>4, FailsMoves, FailsGhost, Aside DEF Fails, server, disk, Active
<1>5. QED
  BY <1>1, <1>2, <1>3, <1>4

\* A new token is in no file, with no other login, and in no logout.
LEMMA InsertTokenFiled ==
    ASSUME Typed, Filed, NEW r \in Runner, InsertToken(r)
    PROVE  Filed'
<1>1. /\ Moved(r, "open", run[r].reg, minted + 1, run[r].fd) /\ At(r, "insert")
      /\ UNCHANGED <<user, tmp, cur, data, ghost>> /\ tokens' = tokens \cup {minted + 1}
  BY InsertTokenMoves DEF InsertToken, disk
<1>2. /\ \A i \in Inode : data[i].tok # minted + 1
      /\ \A q \in Runner : run[q].pc \in {"open", "write", "revoke", "unlink"} => run[q].tok # minted + 1
  BY TypedParts DEF Typed, FilesTyped, Carried
<1>3. FilesFilled'
  BY <1>1 DEF Filed, FilesFilled, Truncated, Moved, At
<1>4. OfTheRow'
  BY <1>1 DEF Filed, OfTheRow, Moved, At, Active
<1>5. InOnePlace'
  BY <1>1, <1>2 DEF Filed, InOnePlace, Saving, Good, LeavingWith, Moved
<1>6. RevokedGoes'
  BY <1>1 DEF Filed, RevokedGoes, Good, LeavingWith, Moved, At
<1>7. QED
  BY <1>3, <1>4, <1>5, <1>6 DEF Filed

\* Opening truncates, the file of another writer too; this one is to fill it.
LEMMA SaveOpensFiled ==
    ASSUME Typed, Filed, NEW r \in Runner, SaveOpens(r)
    PROVE  Filed'
<1>1. /\ tmp' \in Inode /\ tmp' # cur /\ data' = [data EXCEPT ![tmp'] = Empty]
      /\ UNCHANGED <<user, tokens, cur, ghost>>
      /\ Moved(r, "write", run[r].reg, run[r].tok, tmp') /\ At(r, "open")
  <2>1. tmp' \in Inode /\ tmp' # cur /\ data' = [data EXCEPT ![tmp'] = Empty]
    BY TypedParts, FreeInode, Numbers DEF SaveOpens, DiskTypes, Typed, NamesApart, Inode
  <2>2. UNCHANGED <<user, tokens, cur, ghost>> /\ At(r, "open")
    BY DEF SaveOpens, server
  <2>3. QED
    BY <2>1, <2>2, SaveOpensMoves
<1>2. /\ \A i \in Inode : data'[i] = IF i = tmp' THEN Empty ELSE data[i]
      /\ Empty.tok = 0
      /\ cur # 0 => cur \in Inode
      /\ \A q \in Runner : Saving(q) => run[q].tok # 0
  BY SMTT(60), <1>1, TypedParts, Numbers DEF DiskTypes, Empty, Inode, Saving, Typed, Carried
<1>3. FilesFilled'
  BY <1>1, <1>2 DEF Filed, FilesFilled, Truncated, Moved, At
<1>4. OfTheRow'
  BY <1>1, <1>2 DEF Filed, OfTheRow, Moved, At, Active
<1>5. InOnePlace'
  BY <1>1, <1>2 DEF Filed, InOnePlace, Saving, Good, LeavingWith, Moved, At
<1>6. RevokedGoes'
  BY <1>1, <1>2 DEF Filed, RevokedGoes, Good, LeavingWith, Moved, At
<1>7. QED
  BY <1>3, <1>4, <1>5, <1>6 DEF Filed

LEMMA SaveWritesFiled ==
    ASSUME Typed, Filed, NEW r \in Runner, SaveWrites(r)
    PROVE  Filed'
<1> DEFINE f == run[r].fd
           new == [reg |-> run[r].reg, tok |-> run[r].tok]
<1>1. f \in Inode /\ run[r].tok \in 1..minted /\ At(r, "write")
  BY CarriedBy, Numbers DEF SaveWrites, At, RunRecord, Inode
<1>2. /\ \A i \in Inode : data'[i] = IF i = f THEN new ELSE data[i]
      /\ new # Empty /\ new.tok = run[r].tok /\ new.reg = run[r].reg
      /\ UNCHANGED <<user, tokens, tmp, cur, ghost>>
      /\ Moved(r, "rename", run[r].reg, run[r].tok, run[r].fd)
  <2>1. new # Empty /\ new.tok = run[r].tok /\ new.reg = run[r].reg
    BY <1>1 DEF Empty
  <2>2. data' = [data EXCEPT ![f] = new] /\ UNCHANGED <<user, tokens, tmp, cur, ghost>>
    BY DEF SaveWrites, server
  <2>3. \A i \in Inode : data'[i] = IF i = f THEN new ELSE data[i]
    BY <2>2, TypedParts DEF DiskTypes
  <2>4. QED
    BY <2>1, <2>2, <2>3, SaveWritesMoves
<1>3. (tmp # 0 => tmp \in Inode) /\ (cur # 0 => cur \in Inode)
  BY TypedParts, Numbers DEF DiskTypes, Inode
<1> HIDE DEF new, f
<1>4. FilesFilled'
  BY <1>1, <1>2, <1>3 DEF Filed, FilesFilled, Truncated, Moved, At, f
<1>5. OfTheRow'
  BY <1>1, <1>2 DEF Filed, OfTheRow, Moved, At, Active
<1>6. InOnePlace'
  BY <1>1, <1>2 DEF Filed, InOnePlace, Saving, Good, LeavingWith, Moved, At
<1>7. RevokedGoes'
  BY <1>1, <1>2, <1>3 DEF Filed, RevokedGoes, InOnePlace, Saving, Good, LeavingWith, Moved, At
<1>8. QED
  BY <1>4, <1>5, <1>6, <1>7 DEF Filed

\* What is renamed is whatever has the temporary name: a good token's, or an empty file
\* that its writer still fills.
LEMMA SaveRenamesFiled ==
    ASSUME Typed, Filed, NEW r \in Runner, SaveRenames(r)
    PROVE  Filed'
<1>1. /\ Moved(r, "idle", 0, 0, 0) /\ At(r, "rename") /\ UNCHANGED <<user, tokens, data, ghost>>
      /\ \/ tmp # 0 /\ cur' = tmp /\ tmp' = 0
         \/ tmp = 0 /\ UNCHANGED <<cur, tmp>>
  BY SaveRenamesMoves DEF SaveRenames, server
<1>2. FilesFilled'
  BY <1>1 DEF Filed, FilesFilled, Truncated, Moved, At
<1>3. OfTheRow'
  BY <1>1 DEF Filed, OfTheRow, Moved, At, Active
<1>4. InOnePlace'
  BY <1>1 DEF Filed, InOnePlace, Saving, Good, LeavingWith, Moved, At
<1>5. RevokedGoes'
  BY <1>1 DEF Filed, RevokedGoes, Good, LeavingWith, Moved, At
<1>6. QED
  BY <1>2, <1>3, <1>4, <1>5 DEF Filed

\* The token of a logout is read from account.json, whose inode no rename will publish
\* again.
LEMMA BeginLogoutFiled ==
    ASSUME Typed, Filed, NEW r \in Runner, BeginLogout(r)
    PROVE  Filed'
<1>1. /\ Moved(r, "revoke", 0, data[cur].tok, 0) /\ At(r, "idle")
      /\ UNCHANGED <<user, tokens, tmp, cur, data, ghost>> /\ cur \in Inode
  <2>1. cur # 0 /\ At(r, "idle") /\ UNCHANGED <<user, tokens, tmp, cur, data, ghost>>
    BY DEF BeginLogout, LoggedIn, Account, server, disk
  <2>2. cur \in Inode
    BY <2>1, TypedParts, Numbers DEF DiskTypes, Inode
  <2>3. QED
    BY <2>1, <2>2, BeginLogoutMoves
<1>2. data[cur].tok \in 1..minted
  BY <1>1, TypedParts DEF Typed, FilesTyped, BeginLogout, LoggedIn, Account
<1>3. tmp # 0 => tmp \in Inode /\ tmp # cur
  BY TypedParts, Numbers DEF DiskTypes, Inode, Typed, NamesApart
<1>4. FilesFilled'
  BY <1>1 DEF Filed, FilesFilled, Truncated, Moved, At
<1>5. OfTheRow'
  BY <1>1 DEF Filed, OfTheRow, Moved, At, Active
<1>6. InOnePlace'
  BY <1>1 DEF Filed, InOnePlace, Saving, Good, LeavingWith, Moved, At
<1>7. RevokedGoes'
  BY <1>1, <1>2, <1>3 DEF Filed, InOnePlace, RevokedGoes, Good, LeavingWith, Moved, At
<1>8. QED
  BY <1>4, <1>5, <1>6, <1>7 DEF Filed

LEMMA RevokeFiled ==
    ASSUME Typed, Filed, NEW r \in Runner, Revoke(r)
    PROVE  Filed'
<1>1. /\ Moved(r, "unlink", run[r].reg, run[r].tok, run[r].fd) /\ At(r, "revoke")
      /\ UNCHANGED <<user, tmp, cur, data, ghost>>
      /\ tokens' = tokens \ {run[r].tok} \/ tokens' = tokens
  BY RevokeMoves DEF Revoke, RevokedBy, disk
<1>2. FilesFilled'
  BY <1>1 DEF Filed, FilesFilled, Truncated, Moved, At
<1>3. OfTheRow'
  BY <1>1 DEF Filed, OfTheRow, Moved, At, Active
<1>4. InOnePlace'
  BY <1>1 DEF Filed, InOnePlace, Saving, Good, LeavingWith, Moved, At
<1>5. RevokedGoes'
  BY <1>1 DEF Filed, RevokedGoes, Good, LeavingWith, Moved, At
<1>6. QED
  BY <1>2, <1>3, <1>4, <1>5 DEF Filed

LEMMA UnlinkFiled ==
    ASSUME Typed, Filed, NEW r \in Runner, Unlink(r)
    PROVE  Filed'
<1>1. /\ Moved(r, "idle", 0, 0, 0) /\ At(r, "unlink")
      /\ UNCHANGED <<user, tokens, tmp, data, ghost>> /\ cur' = 0
  BY UnlinkMoves DEF Unlink, server
<1>2. FilesFilled'
  BY <1>1 DEF Filed, FilesFilled, Truncated, Moved, At
<1>3. OfTheRow'
  BY <1>1 DEF Filed, OfTheRow, Moved, At, Active
<1>4. InOnePlace'
  BY <1>1 DEF Filed, InOnePlace, Saving, Good, LeavingWith, Moved, At
<1>5. RevokedGoes'
  BY <1>1 DEF Filed, RevokedGoes, Good, LeavingWith, Moved, At
<1>6. QED
  BY <1>2, <1>3, <1>4, <1>5 DEF Filed

LEMMA TimeFiled ==
    ASSUME Typed, Filed, PageRestarts \/ WindowPasses \/ \E t \in Tok : TokenExpires(t)
    PROVE  Filed'
<1>1. CASE PageRestarts
  <2>1. UNCHANGED <<user, tokens, tmp, cur, data>>
    BY <1>1 DEF PageRestarts, server, disk
  <2>2. FilesFilled'
    BY <1>1, <2>1, RestartMoves DEF Filed, FilesFilled, Truncated, At, Dangling
  <2>3. OfTheRow'
    BY <1>1, <2>1, RestartMoves, IdleRuns DEF Filed, OfTheRow, Active
  <2>4. InOnePlace'
    BY <1>1, <2>1, RestartMoves, IdleRuns DEF Filed, InOnePlace, Saving, Good, LeavingWith
  <2>5. RevokedGoes'
    BY <1>1, <2>1, RestartMoves, IdleRuns DEF Filed, RevokedGoes, Good, LeavingWith, At, Dangling
  <2>6. QED
    BY SMTT(60), <2>2, <2>3, <2>4, <2>5 DEF Filed
<1>2. CASE WindowPasses
  BY <1>2 DEF WindowPasses, Filed, FilesFilled, Truncated, OfTheRow, InOnePlace, RevokedGoes, Saving, Good,
     LeavingWith, Active, At, disk
<1>3. ASSUME NEW t \in Tok, TokenExpires(t)
      PROVE  Filed'
  <2>1. /\ ghost'.died = ghost.died
        /\ \A u : Good(u) <=> Good(u)'
    BY <1>3, TypedParts DEF TokenExpires, GhostTypes, Good
  <2>2. QED
    BY <1>3, <2>1 DEF TokenExpires, Filed, FilesFilled, Truncated, OfTheRow, InOnePlace, RevokedGoes, Saving,
       LeavingWith, Active, At, disk
<1>4. QED
  BY <1>1, <1>2, <1>3

LEMMA FiledKept ==
    ASSUME Typed, Filed, [Next]_vars
    PROVE  Filed'
<1>1. CASE UNCHANGED vars
  BY <1>1 DEF vars, Filed, FilesFilled, Truncated, OfTheRow, InOnePlace, RevokedGoes, Saving, Good,
     LeavingWith, Active, At
<1>2. ASSUME NEW r \in Runner, Login(r) \/ Saves(r) \/ Logout(r) \/ Fails(r)
      PROVE  Filed'
  BY <1>2, LoginFiled, InsertTokenFiled, SaveOpensFiled, SaveWritesFiled, SaveRenamesFiled, BeginLogoutFiled,
     RevokeFiled, UnlinkFiled DEF Login, Saves, Logout
<1>3. QED
  BY <1>1, <1>2, RegistrationFiled, TimeFiled DEF Next

-------------------------------------------------------------------------------
(* The theorems *)

LEMMA InitIInv == Init => IInv
<1> SUFFICES ASSUME Init PROVE IInv
  OBVIOUS
<1>1. run = [r \in Runner |-> Idle] /\ Idle.pc = "idle" /\ Idle.tok = 0 /\ Idle.fd = 0
  BY IdleRuns DEF Init
<1>2. TypeOK
  <2>1. run \in [Runner -> RunRecord]
    BY <1>1, IdleRuns
  <2>2. ServerTypes /\ CountTypes /\ GhostTypes
    BY Numbers DEF Init, ServerTypes, CountTypes, GhostTypes
  <2>3. DiskTypes
    BY Numbers DEF Init, DiskTypes, Empty
  <2>4. QED
    BY <2>1, <2>2, <2>3, Parts
<1>3. Carried /\ NamesApart /\ FilesTyped
  BY <1>1 DEF Init, Carried, NamesApart, FilesTyped, Empty
<1>4. CodesProved /\ NewestAlone /\ WrongCodeLosesNothing
  BY <1>1 DEF Init, CodesProved, NewestAlone, WrongCodeLosesNothing, Active, At
<1>5. FailuresCounted
  <2>1. Recorders = {}
    BY <1>1 DEF Recorders, At
  <2>2. QED
    BY <2>1, FS_EmptySet, Numbers DEF Init, FailuresCounted
<1>6. FilesFilled /\ OfTheRow /\ InOnePlace /\ RevokedGoes
  BY <1>1 DEF Init, FilesFilled, OfTheRow, InOnePlace, RevokedGoes, Saving, LeavingWith, Empty
<1>7. QED
  BY <1>2, <1>3, <1>4, <1>5, <1>6 DEF IInv

LEMMA NextIInv == IInv /\ [Next]_vars => IInv'
<1> SUFFICES ASSUME IInv, [Next]_vars PROVE IInv'
  OBVIOUS
<1>1. Typed /\ Registered /\ FailuresCounted /\ Filed
  BY DEF IInv, Typed, Registered, Filed
<1>2. Typed' /\ Registered' /\ FailuresCounted' /\ Filed'
  BY <1>1, TypesKept, RegisteredKept, FailuresKept, FiledKept
<1>3. QED
  BY <1>2 DEF IInv, Typed, Registered, Filed

LEMMA Invariance == Spec => []IInv
  BY InitIInv, NextIInv, PTL DEF Spec

\* Every reachable state is well typed.
THEOREM AccountTypes == Spec => []TypeOK
<1>1. IInv => TypeOK
  BY DEF IInv
<1>2. QED
  BY <1>1, Invariance, PTL

\* An active account is one whose recovery code was typed back, whoever else registers the
\* address, unless between the two statements of the confirmation (identity.rs).
THEOREM CodeProved == Spec => []Recoverable
<1>1. IInv => Recoverable
  BY DEF IInv, CodesProved, Active, Recoverable
<1>2. QED
  BY <1>1, Invariance, PTL

\* The stored account is the active row's, and its token is good until a logout has
\* revoked it and is about to delete the file (state.rs, core.rs).
THEOREM StoredGood == Spec => []StoredAccountIsGood
<1>1. IInv => StoredAccountIsGood
  <2> SUFFICES ASSUME IInv, LoggedIn
               PROVE  /\ Active /\ Account.reg = user.reg
                      /\ \/ Account.tok \in tokens \cup ghost.expired
                         \/ ghost.died
                         \/ \E r \in Runner : At(r, "unlink") /\ run[r].tok = Account.tok
    BY DEF StoredAccountIsGood, Active
  <2>1. cur \in Inode /\ Account = data[cur] /\ data[cur] # Empty
    BY Numbers DEF IInv, TypeOK, LoggedIn, Account, Inode
  <2>2. Active /\ Account.reg = user.reg
    BY <2>1 DEF IInv, OfTheRow
  <2>3. cur # 0 /\ data[cur].tok # 0
    BY <2>1, Numbers DEF IInv, FilesTyped, Inode
  <2>4. QED
    BY <2>1, <2>2, <2>3 DEF IInv, RevokedGoes, Good
<1>2. QED
  BY <1>1, Invariance, PTL

\* An account file is empty only while a writer that truncated it is about to fill it
\* (write_private of state.rs).
THEOREM StoredWholly == Spec => []StoredAccountIsWhole
<1>1. IInv => StoredAccountIsWhole
  BY DEF IInv, FilesFilled, Truncated, StoredAccountIsWhole
<1>2. QED
  BY <1>1, Invariance, PTL

\* n logins at once exceed the limit by n - 1 at most (login of identity.rs).
THEOREM FailuresLimited == Spec => []FailuresBounded
<1>1. IInv => FailuresBounded
  BY RecordersFinite, Numbers DEF IInv, TypeOK, FailuresCounted, FailuresBounded
<1>2. QED
  BY <1>1, Invariance, PTL

\* A wrong recovery code leaves the newest registration waiting (serve.rs).
THEOREM NothingLost == Spec => []WrongCodeLosesNothing
<1>1. IInv => WrongCodeLosesNothing
  BY DEF IInv
<1>2. QED
  BY <1>1, Invariance, PTL

-------------------------------------------------------------------------------
(* The server's settings: what `nemr-sync --check` answers is what a run of *)
(* nemr-sync needs, for every environment, settings file and host *)

\* A directory that can be listed and not written to.
ReadOnly(v, h) == Has(v, "dir") /\ h.dir[v["dir"]] = "readonly"

\* main.rs, check: the backend is "ok" exactly when the server would select it,
\* it answers a list, and it is not a directory that cannot be written to.
LEMMA BackendOk ==
    ASSUME NEW v, NEW h
    PROVE  BackendState(v, h) = "ok"
              <=> Selects(v, h) /\ Lists(v, h) /\ ~ReadOnly(v, h)
BY DEF BackendState, ReadOnly

LEMMA DatabaseOk ==
    ASSUME NEW v, NEW h, h.db \in BOOLEAN
    PROVE  DatabaseState(v, h) = "ok" <=> Has(v, "db") /\ h.db
BY DEF DatabaseState

\* server.rs: the list of what a server needs cannot drift between the thing
\* that checks and the thing that runs.  start goes on from a report exactly when
\* a server with this environment, file and host would get as far as binding and
\* could write its bundles.
THEOREM CheckIsWhatServerNeeds ==
    ASSUME NEW env, NEW f, NEW h, h.db \in BOOLEAN
    PROVE  Passes(Check(env, f, h))
              <=> Starts(env, f, h) /\ ~ReadOnly(Load(env, f), h)
<1> DEFINE v == Load(env, f)
<1> DEFINE report == Check(env, f, h)
<1>1. CASE f.state = "broken"
  <2>1. report.settings = "error"
    BY <1>1 DEF Check
  <2>2. ~Passes(report)
    BY <2>1 DEF Passes
  <2>3. ~Starts(env, f, h)
    BY <1>1 DEF Starts
  <2>4. QED BY <2>2, <2>3
<1>2. CASE f.state # "broken"
  <2>1. /\ report.settings = "ok"
        /\ report.pepper = "missing" <=> ~Has(v, "pepper")
        /\ report.backend = BackendState(v, h)
        /\ report.database = DatabaseState(v, h)
    BY <1>2 DEF Check, Pepper
  <2>2. Passes(report) <=> /\ Has(v, "pepper")
                           /\ BackendState(v, h) = "ok"
                           /\ DatabaseState(v, h) = "ok"
    BY <2>1 DEF Passes
  <2>3. Passes(report) <=> /\ Has(v, "pepper")
                           /\ Selects(v, h) /\ Lists(v, h) /\ ~ReadOnly(v, h)
                           /\ Has(v, "db") /\ h.db
    BY <2>2, BackendOk, DatabaseOk
  <2>4. Starts(env, f, h) <=> /\ Has(v, "db") /\ Has(v, "pepper")
                                    /\ Selects(v, h) /\ Lists(v, h) /\ h.db
    BY <1>2 DEF Starts, Pepper
  <2>5. QED BY <2>3, <2>4
<1>3. QED BY <1>1, <1>2

-------------------------------------------------------------------------------
(* Sources and what configure makes of them *)

\* A source is a function from some keys to values of theirs.
LEMMA SourceIs ==
    ASSUME NEW v
    PROVE  v \in Source <=> /\ v = [k \in DOMAIN v |-> v[k]] /\ DOMAIN v \subseteq Key
                            /\ \A k \in DOMAIN v : v[k] \in Value(k)
<1>1. ASSUME v \in Source
      PROVE  /\ v = [k \in DOMAIN v |-> v[k]] /\ DOMAIN v \subseteq Key
             /\ \A k \in DOMAIN v : v[k] \in Value(k)
  <2>1. PICK K \in SUBSET Key : v \in [K -> UNION {Value(k) : k \in Key}]
    BY <1>1 DEF Source
  <2> QED  BY <1>1, <2>1 DEF Source
<1>2. ASSUME v = [k \in DOMAIN v |-> v[k]], DOMAIN v \subseteq Key, \A k \in DOMAIN v : v[k] \in Value(k)
      PROVE  v \in Source
  <2>1. v \in [DOMAIN v -> UNION {Value(k) : k \in Key}]
    BY <1>2
  <2> QED  BY <1>2, <2>1 DEF Source
<1> QED  BY <1>1, <1>2

LEMMA Nothing == DOMAIN <<>> = {} /\ <<>> = [k \in {} |-> <<>>[k]]
OBVIOUS

LEMMA EmptySource == <<>> \in Source
<1>1. DOMAIN <<>> = {}
  OBVIOUS
<1>2. <<>> = [k \in DOMAIN <<>> |-> <<>>[k]]
  BY <1>1
<1> QED  BY <1>1, <1>2, SourceIs

LEMMA MergedSource ==
    ASSUME NEW v \in Source, NEW w \in Source
    PROVE  /\ Over(v, w) \in Source /\ DOMAIN Over(v, w) = DOMAIN v \cup DOMAIN w
           /\ \A k \in DOMAIN Over(v, w) : Over(v, w)[k] = IF k \in DOMAIN v THEN v[k] ELSE w[k]
<1>1. /\ DOMAIN Over(v, w) = DOMAIN v \cup DOMAIN w
      /\ \A k \in DOMAIN Over(v, w) : Over(v, w)[k] = IF k \in DOMAIN v THEN v[k] ELSE w[k]
      /\ Over(v, w) = [k \in DOMAIN Over(v, w) |-> Over(v, w)[k]]
  BY DEF Over
<1> QED  BY <1>1, SourceIs

LEMMA SingleSource ==
    ASSUME NEW k \in Key, NEW x \in Value(k)
    PROVE  /\ Sets(k, x) \in Source /\ DOMAIN Sets(k, x) = {k} /\ Sets(k, x)[k] = x
<1>1. /\ Sets(k, x) = [i \in DOMAIN Sets(k, x) |-> Sets(k, x)[i]] /\ DOMAIN Sets(k, x) = {k} /\ Sets(k, x)[k] = x
  BY DEF Sets
<1> QED  BY <1>1, SourceIs

LEMMA DefaultAddr == Default \in Addr
BY AddrAssumption DEF Default

LEMMA NoFileType == NoFile \in Settings
BY DEF NoFile, Settings

LEMMA FileType ==
    ASSUME NEW keys \in Source
    PROVE  File(keys) \in Settings
BY DEF File, Settings

LEMMA KeysOf ==
    ASSUME NEW f \in Settings
    PROVE  f.keys \in Source /\ (f.state = "absent" => f.keys = <<>>)
BY EmptySource DEF Settings, NoFile

LEMMA LoadType ==
    ASSUME NEW env \in Source, NEW f \in Settings
    PROVE  Load(env, f) \in Source
BY KeysOf, MergedSource DEF Load

\* Alone, a file is what it says.
LEMMA LoadAlone ==
    ASSUME NEW f \in Settings
    PROVE  \A k : /\ k \in DOMAIN Load(<<>>, f) <=> k \in DOMAIN f.keys
                  /\ k \in DOMAIN f.keys => Load(<<>>, f)[k] = f.keys[k]
<1>1. f.keys \in Source /\ DOMAIN <<>> = {}
  BY KeysOf, Nothing
<1>2. Load(<<>>, f) = Over(<<>>, f.keys)
  BY DEF Load
<1> QED  BY <1>1, <1>2 DEF Over

LEMMA AddrType ==
    ASSUME NEW v \in Source
    PROVE  AddrOf(v) \in Addr
<1>1. CASE Has(v, "addr")
  <2>1. v["addr"] \in Value("addr") /\ v["addr"] # ""
    BY <1>1, SourceIs DEF Has
  <2>2. Value("addr") = {""} \cup Addr
    BY DEF Value
  <2> QED  BY <1>1, <2>1, <2>2 DEF AddrOf
<1>2. CASE ~Has(v, "addr")
  BY <1>2, DefaultAddr DEF AddrOf
<1> QED  BY <1>1, <1>2

LEMMA CheckAddr ==
    ASSUME NEW env \in Source, NEW f \in Settings, NEW h
    PROVE  Check(env, f, h).addr \in Addr
BY LoadType, AddrType, DefaultAddr DEF Check

LEMMA MissingType ==
    ASSUME NEW report
    PROVE  Missing(report) \in SUBSET {"storage", "db", "pepper"}
BY DEF Missing

LEMMA AnswerIs ==
    ASSUME NEW storage \in StorageAnswers
    PROVE  /\ storage \in Source
           /\ \/ DOMAIN storage = {"dir"} /\ storage["dir"] \in Dir
              \/ DOMAIN storage = {"s3"} /\ storage["s3"] \in {"whole", "odd"}
<1>1. /\ "dir" \in Key /\ "s3" \in Key /\ Dir \subseteq Value("dir")
      /\ {"whole", "odd"} \subseteq Value("s3")
  BY DEF Key, Value
<1>2. CASE \E d \in Dir : storage = Sets("dir", d)
  BY <1>1, <1>2, SingleSource
<1>3. CASE \E x \in {"whole", "odd"} : storage = Sets("s3", x)
  <2>1. PICK x \in {"whole", "odd"} : storage = Sets("s3", x)
    BY <1>3
  <2>2. x \in Value("s3") /\ "s3" \in Key
    BY <1>1
  <2> QED  BY <2>1, <2>2, SingleSource
<1> QED  BY <1>2, <1>3 DEF StorageAnswers

LEMMA ComposedType ==
    ASSUME NEW addr \in Addr, NEW storage \in StorageAnswers
    PROVE  /\ Composed(addr, storage) \in Source
           /\ "pepper" \in DOMAIN Composed(addr, storage)
           /\ Composed(addr, storage)["pepper"] = "secret"
<1> DEFINE r == [addr |-> addr, db |-> "url", pepper |-> "secret"]
<1>1. r = [k \in DOMAIN r |-> r[k]] /\ DOMAIN r = {"addr", "db", "pepper"}
  OBVIOUS
<1>2. r["addr"] \in Value("addr") /\ r["db"] \in Value("db") /\ r["pepper"] \in Value("pepper")
  BY DEF Value
<1>3. r \in Source
  BY <1>1, <1>2, SourceIs DEF Key
<1>4. r["pepper"] = "secret"
  OBVIOUS
<1> HIDE DEF r
<1>5. storage \in Source /\ "pepper" \notin DOMAIN storage
  BY AnswerIs
<1>6. Composed(addr, storage) = Over(storage, r)
  BY DEF Composed, r
<1>7. storage \in Source /\ r \in Source
  BY <1>3, <1>5
<1> HIDE DEF r
<1>8. Over(storage, r) \in Source /\ DOMAIN Over(storage, r) = DOMAIN storage \cup DOMAIN r
  BY <1>7, MergedSource
<1>9. \A k \in DOMAIN Over(storage, r) : Over(storage, r)[k] = IF k \in DOMAIN storage THEN storage[k] ELSE r[k]
  BY <1>7, MergedSource
<1> QED  BY <1>1, <1>4, <1>5, <1>6, <1>8, <1>9

LEMMA AdditionType ==
    ASSUME NEW missing, NEW storage \in StorageAnswers
    PROVE  /\ Addition(missing, storage) \in Source
           /\ \A k : k \in DOMAIN Addition(missing, storage) <=>
                \/ k = "db" /\ "db" \in missing
                \/ k \in DOMAIN storage /\ "storage" \in missing
                \/ k = "pepper" /\ "pepper" \in missing
           /\ "pepper" \in missing => Addition(missing, storage)["pepper"] = "secret"
           /\ \A k \in {"dir", "s3"} :
                k \in DOMAIN Addition(missing, storage) => Addition(missing, storage)[k] = storage[k]
<1> DEFINE d == IF "db" \in missing THEN Sets("db", "url") ELSE <<>>
           s == IF "storage" \in missing THEN storage ELSE <<>>
           w == IF "pepper" \in missing THEN Sets("pepper", "secret") ELSE <<>>
<1>0. "db" \in Key /\ "pepper" \in Key /\ "url" \in Value("db") /\ "secret" \in Value("pepper")
  BY DEF Key, Value
<1>1. d \in Source /\ DOMAIN d = IF "db" \in missing THEN {"db"} ELSE {}
  BY <1>0, SingleSource, EmptySource, Nothing
<1>2. s \in Source /\ DOMAIN s = IF "storage" \in missing THEN DOMAIN storage ELSE {}
  BY AnswerIs, EmptySource, Nothing
<1>3. /\ w \in Source /\ DOMAIN w = IF "pepper" \in missing THEN {"pepper"} ELSE {}
      /\ "pepper" \in missing => w["pepper"] = "secret"
  BY <1>0, SingleSource, EmptySource, Nothing
<1>4. "storage" \in missing => s = storage
  OBVIOUS
<1>5. Addition(missing, storage) = Over(Over(d, s), w)
  BY DEF Addition, AddedStores
<1> HIDE DEF d, s, w
<1> DEFINE ds == Over(d, s)
<1>6. /\ ds \in Source /\ DOMAIN ds = DOMAIN d \cup DOMAIN s
      /\ \A k \in DOMAIN ds : ds[k] = IF k \in DOMAIN d THEN d[k] ELSE s[k]
  BY <1>1, <1>2, MergedSource
<1> HIDE DEF ds
<1>7. /\ Over(ds, w) \in Source /\ DOMAIN Over(ds, w) = DOMAIN ds \cup DOMAIN w
      /\ \A k \in DOMAIN Over(ds, w) : Over(ds, w)[k] = IF k \in DOMAIN ds THEN ds[k] ELSE w[k]
  <2>1. ds \in Source /\ w \in Source
    BY <1>6, <1>3
  <2> QED  BY <2>1, MergedSource
<1>8. Addition(missing, storage) = Over(ds, w)
  BY <1>5 DEF ds
<1>9. "pepper" \notin DOMAIN storage
  BY AnswerIs
<1> QED  BY <1>1, <1>2, <1>3, <1>4, <1>6, <1>7, <1>8, <1>9

LEMMA AppendedIs ==
    ASSUME NEW f \in Settings, NEW w \in Source, f.state # "absent"
    PROVE  /\ Appended(f, w) \in Settings
           /\ Appended(f, w).state = f.state /\ Appended(f, w).keys = Over(w, f.keys)
<1>1. Over(w, f.keys) \in Source
  BY KeysOf, MergedSource
<1>2. Appended(f, w) = [f EXCEPT !.keys = Over(w, f.keys)]
  BY DEF Appended
<1> QED  BY <1>1, <1>2 DEF Settings, NoFile

-------------------------------------------------------------------------------
(* The process table *)

HostProcs == proc \in [Pid -> Process]
HostRest ==
    /\ births \in 0..MaxBirth /\ record \in Ref
    /\ file \in Settings /\ host \in Host
    /\ turns \in 0..MaxTurn /\ overlapped \in BOOLEAN

\* A pid that is free says nothing; one that is not has a start time of its own.
Named ==
    /\ \A p \in Pid : IF proc[p].kind = "free" THEN proc[p] = NoProcess
                      ELSE proc[p].born \in 1..births /\ proc[p].since \in 0..turns
    /\ \A p, q \in Pid : proc[p].born = proc[q].born => p = q \/ proc[p].kind = "free"

LEMMA NoProcessType ==
    /\ NoProcess \in Process
    /\ NoProcess.kind = "free" /\ NoProcess.born = 0 /\ NoProcess.by = "hand"
    /\ NoProcess.pc = "running" /\ NoProcess.since = 0
<1>1. 0 \in 0..MaxBirth /\ 0 \in 0..MaxTurn
  BY BoundsOfHost
<1>2. [pid |-> None, born |-> 0] \in Ref
  BY <1>1 DEF Ref
<1>3. NoProcess \in Process
  BY <1>1, <1>2, EmptySource, NoFileType, DefaultAddr DEF NoProcess, Process, Command, Pc
<1> QED  BY <1>3 DEF NoProcess

LEMMA HostParts ==
    /\ HostProcs /\ HostRest /\ Named => HostTypeOK
    /\ HostTypeOK => HostProcs /\ HostRest
    /\ HostProcs' /\ HostRest' /\ Named' => HostTypeOK'
<1>1. ASSUME HostProcs, HostRest, Named PROVE HostTypeOK
  <2>1. \A p \in Pid : proc[p].born <= births
    BY <1>1, NoProcessType DEF Named, HostRest
  <2> QED  BY <1>1, <2>1 DEF HostTypeOK, HostProcs, HostRest, Named
<1>2. ASSUME HostProcs', HostRest', Named' PROVE HostTypeOK'
  <2>1. \A p \in Pid : proc'[p].born <= births'
    BY <1>2, NoProcessType DEF Named, HostRest
  <2> QED  BY <1>2, <2>1 DEF HostTypeOK, HostProcs, HostRest, Named
<1> QED  BY <1>1, <1>2 DEF HostTypeOK, HostProcs, HostRest

\* What a step does to one process, the others left alone.
OthersStay(p) == proc' \in [Pid -> Process] /\ \A q \in Pid \ {p} : proc'[q] = proc[q]
Quit(p) == OthersStay(p) /\ proc'[p] = NoProcess /\ proc[p].kind # "free" /\ UNCHANGED births
Walk(p) ==
    /\ OthersStay(p) /\ UNCHANGED births
    /\ proc[p].kind # "free" /\ proc'[p].kind = proc[p].kind
    /\ proc'[p].born = proc[p].born /\ proc'[p].by = proc[p].by
    /\ proc'[p].since \in {proc[p].since, turns}
    /\ ~On(p, "hung") /\ ~On(p, "hung")'
    /\ proc[p].pc = "draining" => proc'[p].pc = "draining"
Appears(p) ==
    /\ OthersStay(p) /\ proc[p].kind = "free" /\ births' = births + 1 /\ births < MaxBirth
    /\ proc'[p].kind # "free" /\ proc'[p].born = births + 1 /\ proc'[p].by = "hand"
    /\ proc'[p].since = 0 /\ ~On(p, "hung")'
Execs(p) ==
    /\ OthersStay(p) /\ UNCHANGED births
    /\ On(p, "exec") /\ proc'[p].kind = "nemr-sync" /\ proc'[p].born = proc[p].born
    /\ proc'[p].by = "start" /\ proc'[p].pc = "load" /\ proc'[p].since = 0

LEMMA ExitsEffect ==
    ASSUME HostProcs, NEW p \in Pid, Exits(p)
    PROVE  OthersStay(p) /\ proc'[p] = NoProcess
BY NoProcessType DEF HostProcs, OthersStay, Exits

LEMMA GotoEffect ==
    ASSUME HostProcs, NEW p \in Pid, NEW pc \in Pc, Goto(p, pc)
    PROVE  OthersStay(p) /\ proc'[p] = [proc[p] EXCEPT !.pc = pc] /\ proc'[p].pc = pc
<1> DEFINE new == [proc[p] EXCEPT !.pc = pc]
<1>1. new \in Process /\ new.pc = pc
  BY DEF HostProcs, Process
<1>2. proc' = [proc EXCEPT ![p] = new]
  BY DEF Goto
<1> HIDE DEF new
<1>3. OthersStay(p) /\ proc'[p] = new
  BY <1>1, <1>2 DEF HostProcs, OthersStay
<1> QED  BY <1>1, <1>3 DEF new

\* A step that moves p to pc and leaves what names it alone.
LEMMA GotoGoes ==
    ASSUME HostProcs, NEW p \in Pid, NEW pc \in Pc, Goto(p, pc), UNCHANGED births,
           proc[p].kind # "free", ~On(p, "hung"), pc # "hung", proc[p].pc # "draining"
    PROVE  Walk(p) /\ proc'[p] = [proc[p] EXCEPT !.pc = pc]
<1>1. OthersStay(p) /\ proc'[p] = [proc[p] EXCEPT !.pc = pc]
  BY GotoEffect
<1>2. proc[p] \in Process
  BY DEF HostProcs
<1>3. /\ proc'[p].kind = proc[p].kind /\ proc'[p].born = proc[p].born /\ proc'[p].by = proc[p].by
      /\ proc'[p].since = proc[p].since /\ proc'[p].pc = pc
  BY <1>1, <1>2 DEF Process
<1> QED  BY <1>1, <1>3 DEF Walk, On

LEMMA SignalledEffect ==
    ASSUME HostProcs, NEW q \in Pid
    PROVE  /\ Signalled(proc, q) \in [Pid -> Process]
           /\ \A x \in Pid \ {q} : Signalled(proc, q)[x] = proc[x]
           /\ \/ Signalled(proc, q)[q] = NoProcess
              \/ /\ proc[q].kind = "nemr-sync"
                 /\ Signalled(proc, q)[q] = [proc[q] EXCEPT !.pc = "draining"]
<1> DEFINE new == IF proc[q].kind = "nemr-sync" /\ proc[q].pc \in {"serving", "draining"}
                  THEN [proc[q] EXCEPT !.pc = "draining"] ELSE NoProcess
<1>1. Signalled(proc, q) = [proc EXCEPT ![q] = new]
  BY DEF Signalled, HostProcs
<1>2. new \in Process
  BY NoProcessType DEF HostProcs, Process, Pc
<1>3. new = NoProcess \/ (proc[q].kind = "nemr-sync" /\ new = [proc[q] EXCEPT !.pc = "draining"])
  OBVIOUS
<1> HIDE DEF new
<1> QED  BY <1>1, <1>2, <1>3 DEF HostProcs

\* The steps of one command or server, one by one.
LEMMA BeginAppears ==
    ASSUME HostProcs, HostRest, NEW p \in Pid, NEW does \in Command, NEW env \in Env, Begin(p, does, env)
    PROVE  Appears(p) /\ proc'[p].kind = "nemr" /\ proc'[p].pc \in {"check", "read", "sweep"}
<1> DEFINE new == [[NoProcess EXCEPT !.kind = "nemr", !.does = does, !.env = env, !.pc = FirstPc(does)]
                     EXCEPT !.born = births + 1]
<1>1. births + 1 \in 0..MaxBirth /\ env \in Source /\ proc[p].kind = "free" /\ births < MaxBirth
      /\ births' = births + 1
  BY SourcesAssumption, BoundsOfHost DEF Begin, Forks, HostRest
<1>2. FirstPc(does) \in {"check", "read", "sweep"}
  BY DEF FirstPc
<1>3. /\ new \in Process /\ new.kind = "nemr" /\ new.born = births + 1 /\ new.by = "hand"
      /\ new.since = 0 /\ new.pc = FirstPc(does)
  BY <1>1, <1>2, NoProcessType DEF Process, Pc
<1>4. proc' = [proc EXCEPT ![p] = new]
  BY DEF Begin, Fork
<1> HIDE DEF new
<1>5. OthersStay(p) /\ proc'[p] = new
  BY <1>3, <1>4 DEF HostProcs, OthersStay
<1> QED  BY <1>1, <1>2, <1>3, <1>5 DEF Appears, On

LEMMA ByHandAppears ==
    ASSUME HostProcs, HostRest, NEW p \in Pid, NEW env \in Env, ByHand(p, env)
    PROVE  Appears(p) /\ proc'[p].kind = "nemr-sync"
<1> DEFINE new == [[NoProcess EXCEPT !.kind = "nemr-sync", !.pc = "load", !.env = env]
                     EXCEPT !.born = births + 1]
<1>1. births + 1 \in 0..MaxBirth /\ env \in Source /\ proc[p].kind = "free" /\ births < MaxBirth
      /\ births' = births + 1
  BY SourcesAssumption, BoundsOfHost DEF ByHand, Forks, HostRest
<1>3. /\ new \in Process /\ new.kind = "nemr-sync" /\ new.born = births + 1 /\ new.by = "hand"
      /\ new.since = 0
  BY <1>1, NoProcessType DEF Process, Pc
<1>4. proc' = [proc EXCEPT ![p] = new]
  BY DEF ByHand, Fork
<1> HIDE DEF new
<1>5. OthersStay(p) /\ proc'[p] = new
  BY <1>3, <1>4 DEF HostProcs, OthersStay
<1> QED  BY <1>1, <1>3, <1>5 DEF Appears, On

LEMMA ExitsEnds ==
    ASSUME HostProcs, NEW p \in Pid, Exits(p), UNCHANGED births, proc[p].kind # "free"
    PROVE  Quit(p)
BY ExitsEffect DEF Quit

\* p is given a new state.
LEMMA PutGoes ==
    ASSUME HostProcs, NEW p \in Pid, NEW new \in Process, proc' = [proc EXCEPT ![p] = new],
           UNCHANGED births, proc[p].kind # "free", new.kind = proc[p].kind,
           new.born = proc[p].born, new.by = proc[p].by, new.since \in {proc[p].since, turns},
           ~On(p, "hung"), new.pc # "hung", proc[p].pc # "draining"
    PROVE  Walk(p) /\ proc'[p] = new
<1>1. OthersStay(p) /\ proc'[p] = new
  BY DEF HostProcs, OthersStay
<1> QED  BY <1>1 DEF Walk, On

LEMMA SweepGoes ==
    ASSUME HostProcs, NEW p \in Pid, Sweep(p)
    PROVE  /\ Walk(p)
           /\ \E pc \in Pc :
                /\ proc'[p] = [proc[p] EXCEPT !.pc = pc]
                /\ pc = AfterSweep(p) \/ (pc = "unlink" /\ record # NoRecord /\ ~RunningPid(record))
<1>1. AfterSweep(p) \in Pc \ {"hung"}
  BY DEF AfterSweep, Pc
<1>2. PICK pc \in Pc \ {"hung"} :
        /\ Goto(p, pc)
        /\ pc = AfterSweep(p) \/ (pc = "unlink" /\ record # NoRecord /\ ~RunningPid(record))
  <2>1. CASE record # NoRecord /\ ~RunningPid(record)
    <3>1. Goto(p, "unlink") /\ "unlink" \in Pc \ {"hung"}
      BY <2>1 DEF Sweep, SweepThen, Pc
    <3> QED  BY <2>1, <3>1
  <2>2. CASE ~(record # NoRecord /\ ~RunningPid(record))
    <3>1. Goto(p, AfterSweep(p))
      BY <2>2 DEF Sweep, SweepThen
    <3> QED  BY <1>1, <3>1
  <2> QED  BY <2>1, <2>2
<1> QED  BY <1>2, GotoGoes DEF Sweep, On

LEMMA SweepUnlinkGoes ==
    ASSUME HostProcs, NEW p \in Pid, SweepUnlink(p)
    PROVE  Walk(p) /\ proc'[p] = [proc[p] EXCEPT !.pc = AfterSweep(p)]
<1>1. AfterSweep(p) \in Pc \ {"hung"}
  BY DEF AfterSweep, Pc
<1> QED  BY <1>1, GotoGoes DEF SweepUnlink, On

LEMMA CheckAnswersGoes ==
    ASSUME HostProcs, HostRest, NEW p \in Pid, CheckAnswers(p)
    PROVE  Quit(p) \/ (Walk(p) /\ proc'[p].pc = "sweep")
<1> DEFINE report == Check(proc[p].env, file, host)
<1>0. On(p, "check") /\ UNCHANGED births
  BY DEF CheckAnswers
<1>1. CASE Exits(p)
  BY <1>0, <1>1, ExitsEnds DEF On
<1>2. CASE proc' = [proc EXCEPT ![p].pc = "sweep", ![p].addr = report.addr]
  <2>1. report.addr \in Addr /\ proc[p] \in Process
    BY CheckAddr DEF HostProcs, HostRest, Process
  <2> DEFINE a == report.addr
             new == [proc[p] EXCEPT !.pc = "sweep", !.addr = a]
  <2>2. proc' = [proc EXCEPT ![p] = new]
    BY <1>2
  <2> HIDE DEF a
  <2>3. /\ new \in Process /\ new.kind = proc[p].kind /\ new.born = proc[p].born
        /\ new.by = proc[p].by /\ new.since = proc[p].since /\ new.pc = "sweep"
    BY <2>1 DEF Process, Pc, a
  <2> HIDE DEF new
  <2> QED  BY <1>0, <2>2, <2>3, PutGoes DEF On
<1> QED  BY <1>1, <1>2 DEF CheckAnswers

LEMMA StartLookGoes ==
    ASSUME HostProcs, NEW p \in Pid, StartLook(p)
    PROVE  Quit(p) \/ /\ Walk(p) /\ proc'[p] = [proc[p] EXCEPT !.pc = "record"]
                      /\ ~RunningPid(record)
<1>1. "record" \in Pc
  BY DEF Pc
<1> QED  BY <1>1, GotoGoes, ExitsEnds DEF StartLook, Runs, On

LEMMA StartRecordGoes ==
    ASSUME HostProcs, NEW p \in Pid, StartRecord(p)
    PROVE  Walk(p) /\ proc'[p] = [proc[p] EXCEPT !.pc = "exec"]
<1>1. "exec" \in Pc
  BY DEF Pc
<1> QED  BY <1>1, GotoGoes DEF StartRecord, On

LEMMA StartExecTurns ==
    ASSUME HostProcs, NEW p \in Pid, StartExec(p)
    PROVE  \/ Execs(p) /\ UNCHANGED record
           \/ Quit(p) /\ record' = NoRecord
<1>0. On(p, "exec") /\ UNCHANGED births
  BY DEF StartExec
<1>1. CASE Exits(p) /\ record' = NoRecord
  BY <1>0, <1>1, ExitsEnds DEF On
<1> DEFINE new == [NoProcess EXCEPT !.kind = "nemr-sync", !.pc = "load", !.born = proc[p].born,
                                    !.env = proc[p].env, !.by = "start"]
<1>2. CASE proc' = [proc EXCEPT ![p] = new] /\ UNCHANGED record
  <2>1. proc[p] \in Process
    BY DEF HostProcs
  <2>2. /\ new \in Process /\ new.kind = "nemr-sync" /\ new.born = proc[p].born
        /\ new.by = "start" /\ new.since = 0 /\ new.pc = "load"
    BY <2>1, NoProcessType DEF Process, Pc
  <2> HIDE DEF new
  <2>3. OthersStay(p) /\ proc'[p] = new
    BY <1>2, <2>2 DEF HostProcs, OthersStay
  <2> QED  BY <1>0, <1>2, <2>2, <2>3 DEF Execs
<1> QED  BY <1>1, <1>2 DEF StartExec

LEMMA StopWaitGoes ==
    ASSUME HostProcs, NEW p \in Pid, StopWait(p)
    PROVE  Quit(p) \/ /\ Walk(p) /\ proc'[p] = [proc[p] EXCEPT !.pc = "unlink"]
                      /\ ~RunningPid(record)
<1>1. "unlink" \in Pc
  BY DEF Pc
<1> QED  BY <1>1, GotoGoes, ExitsEnds DEF StopWait, On

LEMMA ConfigureReadGoes ==
    ASSUME HostProcs, HostRest, NEW p \in Pid, ConfigureRead(p), proc[p].since \in 0..turns
    PROVE  \/ Quit(p)
           \/ /\ Walk(p) /\ proc'[p].pc = "ask" /\ proc'[p].since = turns
              /\ IF file.state = "absent" THEN proc'[p].missing = proc[p].missing
                 ELSE /\ proc'[p].missing = Missing(Check(<<>>, file, host))
                      /\ proc'[p].missing # {}
<1> DEFINE missing == Missing(Check(<<>>, file, host))
<1>0. On(p, "read") /\ UNCHANGED births /\ proc[p] \in Process /\ "ask" \in Pc /\ turns \in 0..MaxTurn
  BY DEF ConfigureRead, HostProcs, HostRest, Pc
<1>1. CASE Exits(p)
  BY <1>0, <1>1, ExitsEnds DEF On
<1>2. CASE /\ file.state = "absent"
           /\ proc' = [proc EXCEPT ![p].pc = "ask", ![p].since = turns]
  <2> DEFINE new == [proc[p] EXCEPT !.pc = "ask", !.since = turns]
  <2>2. proc' = [proc EXCEPT ![p] = new]
    BY <1>2
  <2>3. /\ new \in Process /\ new.kind = proc[p].kind /\ new.born = proc[p].born
        /\ new.by = proc[p].by /\ new.since = turns /\ new.pc = "ask" /\ new.missing = proc[p].missing
    BY <1>0 DEF Process
  <2> HIDE DEF new
  <2> QED  BY <1>0, <1>2, <2>2, <2>3, PutGoes DEF On
<1>3. CASE /\ file.state # "absent" /\ missing # {}
           /\ proc' = [proc EXCEPT ![p].pc = "ask", ![p].since = turns, ![p].missing = missing]
  <2>1. missing \in SUBSET {"storage", "db", "pepper"}
    BY MissingType
  <2> HIDE DEF missing
  <2> DEFINE new == [proc[p] EXCEPT !.pc = "ask", !.since = turns, !.missing = missing]
  <2>2. proc' = [proc EXCEPT ![p] = new]
    BY <1>3
  <2>3. /\ new \in Process /\ new.kind = proc[p].kind /\ new.born = proc[p].born
        /\ new.by = proc[p].by /\ new.since = turns /\ new.pc = "ask" /\ new.missing = missing
    BY <1>0, <2>1 DEF Process
  <2> HIDE DEF new
  <2>4. Walk(p) /\ proc'[p] = new
    BY <1>0, <1>3, <2>2, <2>3, PutGoes DEF On
  <2> QED  BY <1>3, <2>3, <2>4 DEF missing
<1> QED  BY <1>1, <1>2, <1>3 DEF ConfigureRead

LEMMA ConfigureProbeGoes ==
    ASSUME HostProcs, NEW p \in Pid, ConfigureProbe(p)
    PROVE  Quit(p) \/ /\ Walk(p) /\ proc'[p] = [proc[p] EXCEPT !.pc = "install"]
                      /\ ReportOk(Check(<<>>, proc[p].draft, host))
<1>1. "install" \in Pc
  BY DEF Pc
<1> QED  BY <1>1, GotoGoes, ExitsEnds DEF ConfigureProbe, On

LEMMA DraftType ==
    ASSUME HostRest, NEW missing, NEW addr \in Addr, NEW storage \in StorageAnswers,
           missing = {} \/ file.state # "absent"
    PROVE  Draft(missing, addr, storage) \in Settings
BY ComposedType, FileType, AdditionType, AppendedIs DEF Draft, HostRest

LEMMA ConfigureAskGoes ==
    ASSUME HostProcs, HostRest, NEW p \in Pid, NEW addr \in Addr, NEW storage \in StorageAnswers,
           ConfigureAsk(p, addr, storage)
    PROVE  /\ host' \in Host
           /\ \/ Quit(p)
              \/ /\ Walk(p) /\ proc'[p].pc = "probe" /\ proc'[p].since = proc[p].since
                 /\ proc'[p].draft = Draft(proc[p].missing, addr, storage)
                 /\ proc[p].missing = {} \/ file.state # "absent"
<1>1. host' \in Host
  <2>1. CASE Has(storage, "dir") /\ host' = [host EXCEPT !.dir[storage["dir"]] = "writable"]
    <3>1. storage["dir"] \in Dir
      <4>1. "dir" \in DOMAIN storage
        BY <2>1 DEF Has
      <4>2. \/ DOMAIN storage = {"dir"} /\ storage["dir"] \in Dir
            \/ DOMAIN storage = {"s3"}
        BY AnswerIs
      <4> QED  BY <4>1, <4>2
    <3> QED  BY <2>1, <3>1 DEF HostRest, Host
  <2>2. CASE host' = host
    BY <2>2 DEF HostRest
  <2> QED  BY <2>1, <2>2 DEF ConfigureAsk
<1>0. On(p, "ask") /\ UNCHANGED births /\ proc[p] \in Process /\ "probe" \in Pc
  BY DEF ConfigureAsk, HostProcs, Pc
<1> DEFINE missing == proc[p].missing
           draft == Draft(missing, addr, storage)
<1>2. CASE Exits(p)
  BY <1>0, <1>1, <1>2, ExitsEnds DEF On
<1>3. CASE /\ missing = {} \/ file.state # "absent"
           /\ proc' = [proc EXCEPT ![p].pc = "probe", ![p].missing = {}, ![p].draft = draft]
  <2>1. draft \in Settings
    BY <1>3, DraftType
  <2> HIDE DEF draft
  <2> DEFINE new == [proc[p] EXCEPT !.pc = "probe", !.missing = {}, !.draft = draft]
  <2>2. proc' = [proc EXCEPT ![p] = new]
    BY <1>3
  <2>3. /\ new \in Process /\ new.kind = proc[p].kind /\ new.born = proc[p].born
        /\ new.by = proc[p].by /\ new.since = proc[p].since /\ new.pc = "probe" /\ new.draft = draft
    BY <1>0, <2>1 DEF Process
  <2> HIDE DEF new
  <2>4. Walk(p) /\ proc'[p] = new
    BY <1>0, <2>2, <2>3, PutGoes DEF On
  <2> QED  BY <1>1, <1>3, <2>3, <2>4 DEF draft
<1> QED  BY <1>2, <1>3 DEF ConfigureAsk

LEMMA ServerLoadsGoes ==
    ASSUME HostProcs, HostRest, NEW p \in Pid, ServerLoads(p)
    PROVE  Quit(p) \/ Walk(p)
<1>0. /\ proc[p].kind = "nemr-sync" /\ proc[p].pc = "load" /\ UNCHANGED births
      /\ proc[p] \in Process /\ "bind" \in Pc
  BY DEF ServerLoads, HostProcs, Pc
<1> DEFINE source == IF proc[p].draft.state = "absent" THEN file ELSE proc[p].draft
           addr == AddrOf(Load(proc[p].env, source))
<1>1. CASE Exits(p)
  BY <1>0, <1>1, ExitsEnds
<1>2. CASE proc' = [proc EXCEPT ![p].pc = "bind", ![p].draft = NoFile, ![p].env = <<>>, ![p].addr = addr]
  <2>1. source \in Settings /\ proc[p].env \in Source
    BY <1>0 DEF HostRest, Process
  <2>2. addr \in Addr
    BY <2>1, LoadType, AddrType
  <2> HIDE DEF addr, source
  <2> DEFINE new == [proc[p] EXCEPT !.pc = "bind", !.draft = NoFile, !.env = <<>>, !.addr = addr]
  <2>3. proc' = [proc EXCEPT ![p] = new]
    BY <1>2
  <2>4. /\ new \in Process /\ new.kind = proc[p].kind /\ new.born = proc[p].born
        /\ new.by = proc[p].by /\ new.since = proc[p].since /\ new.pc = "bind"
    BY <1>0, <2>2, NoFileType, EmptySource DEF Process
  <2> HIDE DEF new
  <2> QED  BY <1>0, <2>3, <2>4, PutGoes DEF On
<1> QED  BY <1>1, <1>2 DEF ServerLoads

LEMMA ServerBindsGoes ==
    ASSUME HostProcs, NEW p \in Pid, ServerBinds(p)
    PROVE  Quit(p) \/ Walk(p)
<1>1. "serving" \in Pc
  BY DEF Pc
<1> QED  BY <1>1, GotoGoes, ExitsEnds DEF ServerBinds, On

-------------------------------------------------------------------------------
(* What the record and a command that waits for its check know *)

\* The record names a process that was started, and a server only if start made it.
RecordMade ==
    record # NoRecord =>
      /\ record.pid \in Pid /\ record.born \in 1..births
      /\ RunningPid(record) => proc[record.pid].by = "start"

\* The child of a command that waits: while it runs it is the check's.
ChildNamed ==
    \A p \in Pid : On(p, "hung") =>
      /\ proc[p].target.pid \in Pid /\ proc[p].target.born \in 1..births
      /\ ChildRuns(p) => /\ proc[proc[p].target.pid].kind = "nemr-sync"
                         /\ proc[proc[p].target.pid].by = "check"

ProcessInv == Named /\ RecordMade /\ ChildNamed /\ ChecksLeaveNothing
HostInv == HostProcs /\ HostRest /\ ProcessInv

LEMMA HostCounts ==
    ASSUME HostRest
    PROVE  /\ births \in Nat /\ turns \in Nat /\ MaxBirth \in Nat /\ MaxTurn \in Nat
           /\ births <= MaxBirth /\ turns <= MaxTurn
BY BoundsOfHost DEF HostRest

\* A step of one process.
OneStep(p) ==
    /\ Quit(p) \/ Walk(p) \/ Appears(p) \/ Execs(p)
    /\ Quit(p) => ~On(p, "hung") \/ ~ChildRuns(p)

LEMMA OneBorn ==
    ASSUME HostProcs, HostRest, Named, NEW p \in Pid, OneStep(p)
    PROVE  /\ births' \in {births, births + 1}
           /\ proc'[p] = NoProcess \/ proc'[p].kind # "free"
           /\ \/ proc'[p].born = 0
              \/ proc'[p].born = proc[p].born /\ proc[p].kind # "free" /\ UNCHANGED births
              \/ proc'[p].born = births' /\ births' = births + 1
BY NoProcessType DEF OneStep, Quit, Walk, Appears, Execs, On

LEMMA OneStepNamed ==
    ASSUME HostProcs, HostRest, Named, NEW p \in Pid, OneStep(p), UNCHANGED turns
    PROVE  Named'
<1>1. /\ births' \in {births, births + 1} /\ births \in Nat /\ turns \in Nat
      /\ \A q \in Pid \ {p} : proc'[q] = proc[q]
  BY OneBorn, HostCounts DEF OneStep, Quit, Walk, Appears, Execs, OthersStay
<1>2. ASSUME NEW q \in Pid
      PROVE  IF proc'[q].kind = "free" THEN proc'[q] = NoProcess
             ELSE proc'[q].born \in 1..births' /\ proc'[q].since \in 0..turns'
  <2>1. CASE q # p
    BY <1>1, <2>1 DEF Named
  <2>2. CASE q = p /\ Quit(p)
    BY <2>2, NoProcessType DEF Quit
  <2>3. CASE q = p /\ Walk(p)
    BY <1>1, <2>3 DEF Walk, Named
  <2>4. CASE q = p /\ Appears(p)
    BY <1>1, <2>4 DEF Appears
  <2>5. CASE q = p /\ Execs(p)
    BY <1>1, <2>5 DEF Execs, Named, On
  <2> QED  BY <2>1, <2>2, <2>3, <2>4, <2>5 DEF OneStep
<1>3. ASSUME NEW q \in Pid, NEW x \in Pid, proc'[q].born = proc'[x].born
      PROVE  q = x \/ proc'[q].kind = "free"
  <2>1. \A y \in Pid \ {p} : IF proc[y].kind = "free" THEN proc'[y].born = 0
                             ELSE proc'[y].born \in 1..births /\ proc'[y].born = proc[y].born
    BY <1>1, NoProcessType DEF Named
  <2>2. proc'[q].kind # "free" /\ q # x => proc'[q].born \in 1..births' /\ proc'[x].kind # "free"
    <3>1. proc'[q].kind # "free" => proc'[q].born \in 1..births'
      BY <1>2
    <3>2. proc'[x].kind = "free" => proc'[x].born = 0
      BY <1>2, NoProcessType
    <3> QED  BY <1>1, <1>3, <3>1, <3>2
  <2>3. CASE q # p /\ x # p
    BY <1>1, <1>3, <2>3 DEF Named
  <2>4. CASE q = p /\ x # p
    BY <1>1, <1>3, <2>1, <2>2, <2>4, OneBorn DEF Named
  <2>5. CASE q # p /\ x = p
    BY <1>1, <1>3, <2>1, <2>2, <2>5, OneBorn DEF Named
  <2> QED  BY <2>3, <2>4, <2>5
<1> QED  BY <1>2, <1>3 DEF Named

LEMMA OneStepRecord ==
    ASSUME HostProcs, HostRest, Named, RecordMade, NEW p \in Pid, OneStep(p),
           \/ record' = record
           \/ record' = NoRecord
           \/ record' = [pid |-> p, born |-> proc[p].born] /\ Walk(p) /\ proc[p].kind = "nemr"
    PROVE  RecordMade'
<1>1. /\ births' \in {births, births + 1} /\ births \in Nat
      /\ \A q \in Pid \ {p} : proc'[q] = proc[q]
  BY OneBorn, HostCounts DEF OneStep, Quit, Walk, Appears, Execs, OthersStay
<1>2. CASE record' = NoRecord
  BY <1>2 DEF RecordMade, NoRecord
<1>3. CASE record' = [pid |-> p, born |-> proc[p].born] /\ Walk(p) /\ proc[p].kind = "nemr"
  BY <1>1, <1>3 DEF Named, RecordMade, RunningPid, Walk
<1>4. CASE record' = record /\ record # NoRecord
  <2>1. record.pid \in Pid /\ record.born \in 1..births /\ record.born \in 1..births'
    BY <1>1, <1>4 DEF RecordMade
  <2>2. CASE record.pid # p
    BY <1>1, <1>4, <2>1, <2>2 DEF RecordMade, RunningPid
  <2>3. CASE record.pid = p /\ Quit(p)
    BY <1>4, <2>1, <2>3, NoProcessType DEF RecordMade, RunningPid, Quit
  <2>4. CASE record.pid = p /\ Walk(p)
    BY <1>4, <2>1, <2>4 DEF RecordMade, RunningPid, Walk
  <2>5. CASE record.pid = p /\ Appears(p)
    BY <1>1, <1>4, <2>1, <2>5 DEF RecordMade, RunningPid, Appears
  <2>6. CASE record.pid = p /\ Execs(p)
    BY <1>4, <2>1, <2>6 DEF RecordMade, RunningPid, Execs
  <2> QED  BY <2>2, <2>3, <2>4, <2>5, <2>6 DEF OneStep
<1> QED  BY <1>2, <1>3, <1>4 DEF RecordMade

LEMMA OneStepChild ==
    ASSUME HostProcs, HostRest, Named, ChildNamed, NEW p \in Pid, OneStep(p)
    PROVE  ChildNamed'
<1>1. /\ births' \in {births, births + 1} /\ births \in Nat
      /\ \A q \in Pid \ {p} : proc'[q] = proc[q]
  BY OneBorn, HostCounts DEF OneStep, Quit, Walk, Appears, Execs, OthersStay
<1>2. ~On(p, "hung")'
  BY NoProcessType DEF OneStep, Quit, Walk, Appears, Execs, On
<1>3. ASSUME NEW q \in Pid, On(q, "hung")'
      PROVE  /\ proc'[q].target.pid \in Pid /\ proc'[q].target.born \in 1..births'
             /\ ChildRuns(q)' => /\ proc'[proc'[q].target.pid].kind = "nemr-sync"
                                 /\ proc'[proc'[q].target.pid].by = "check"
  <2>1. q # p /\ proc'[q] = proc[q] /\ On(q, "hung")
    BY <1>1, <1>2, <1>3 DEF On
  <2> DEFINE c == proc[q].target.pid
             b == proc[q].target.born
  <2>2. /\ c \in Pid /\ b \in 1..births
        /\ proc[c].born = b => proc[c].kind = "nemr-sync" /\ proc[c].by = "check"
    BY <2>1 DEF ChildNamed, ChildRuns
  <2>3. proc'[c].born = b => proc'[c].kind = "nemr-sync" /\ proc'[c].by = "check"
    <3> HIDE DEF c, b
    <3>1. CASE c # p
      BY <1>1, <2>2, <3>1
    <3>2. CASE c = p /\ Quit(p)
      BY <2>2, <3>2, NoProcessType DEF Quit
    <3>3. CASE c = p /\ Walk(p)
      BY <2>2, <3>3 DEF Walk
    <3>4. CASE c = p /\ Appears(p)
      BY <1>1, <2>2, <3>4 DEF Appears
    <3>5. CASE c = p /\ Execs(p)
      BY <2>2, <3>5 DEF Execs, On
    <3> QED  BY <3>1, <3>2, <3>3, <3>4, <3>5 DEF OneStep
  <2> QED  BY <1>1, <2>1, <2>2, <2>3 DEF ChildRuns
<1> QED  BY <1>3 DEF ChildNamed

LEMMA OneStepChecks ==
    ASSUME HostProcs, HostRest, Named, ChecksLeaveNothing, NEW p \in Pid, OneStep(p)
    PROVE  ChecksLeaveNothing'
<1>1. \A q \in Pid \ {p} : proc'[q] = proc[q]
  BY DEF OneStep, Quit, Walk, Appears, Execs, OthersStay
<1>2. ASSUME NEW q \in Pid, proc'[q].kind = "nemr-sync", proc'[q].by = "check"
      PROVE  \/ proc'[q].pc = "draining"
             \/ \E x \in Pid : On(x, "hung")' /\ proc'[x].target = [pid |-> q, born |-> proc'[q].born]
  <2>1. /\ proc[q].kind = "nemr-sync" /\ proc[q].by = "check" /\ proc'[q].born = proc[q].born
        /\ proc[q].pc = "draining" => proc'[q].pc = "draining"
    <3>1. CASE q # p
      BY <1>1, <1>2, <3>1
    <3>2. CASE q = p /\ Walk(p)
      BY <1>2, <3>2 DEF Walk
    <3>3. CASE q = p /\ ~Walk(p)
      BY <1>2, <3>3, NoProcessType DEF OneStep, Quit, Appears, Execs
    <3> QED  BY <3>1, <3>2, <3>3
  <2>2. CASE proc[q].pc = "draining"
    BY <2>1, <2>2
  <2>3. CASE \E x \in Pid : On(x, "hung") /\ proc[x].target = [pid |-> q, born |-> proc[q].born]
    <3>1. PICK x \in Pid : On(x, "hung") /\ proc[x].target = [pid |-> q, born |-> proc[q].born]
      BY <2>3
    <3>2. ChildRuns(x)
      BY <3>1 DEF ChildRuns
    <3>3. x # p
      BY <3>1, <3>2 DEF OneStep, Walk, Appears, Execs, On
    <3>4. On(x, "hung")' /\ proc'[x].target = proc[x].target
      BY <1>1, <3>1, <3>3 DEF On
    <3> QED  BY <2>1, <3>1, <3>4
  <2> QED  BY <2>1, <2>2, <2>3 DEF ChecksLeaveNothing
<1> QED  BY <1>2 DEF ChecksLeaveNothing

LEMMA OneStepInv ==
    ASSUME HostProcs, HostRest, ProcessInv, NEW p \in Pid, OneStep(p), UNCHANGED turns,
           \/ record' = record
           \/ record' = NoRecord
           \/ record' = [pid |-> p, born |-> proc[p].born] /\ Walk(p) /\ proc[p].kind = "nemr"
    PROVE  HostProcs' /\ ProcessInv'
<1>1. HostProcs'
  BY DEF OneStep, Quit, Walk, Appears, Execs, OthersStay, HostProcs
<1> QED  BY <1>1, OneStepNamed, OneStepRecord, OneStepChild, OneStepChecks DEF ProcessInv

-------------------------------------------------------------------------------
(* The steps of two processes *)

LEMMA CheckHangsEffect ==
    ASSUME HostProcs, HostRest, NEW p \in Pid, NEW q \in Pid, CheckHangs(p, q)
    PROVE  /\ HostProcs' /\ births' = births + 1 /\ births < MaxBirth /\ p # q
           /\ \A x \in Pid \ {p, q} : proc'[x] = proc[x]
           /\ proc[p].kind = "nemr" /\ proc[p].pc \in {"check", "probe", "read"}
           /\ proc'[p].kind = "nemr" /\ proc'[p].pc = "hung" /\ proc'[p].born = proc[p].born
           /\ proc'[p].since = proc[p].since
           /\ proc'[p].target = [pid |-> q, born |-> births + 1]
           /\ proc[q].kind = "free" /\ proc'[q].kind = "nemr-sync" /\ proc'[q].by = "check"
           /\ proc'[q].born = births + 1 /\ proc'[q].since = 0 /\ proc'[q].pc = "load"
<1>1. /\ proc[p] \in Process /\ births + 1 \in 0..MaxBirth /\ births' = births + 1 /\ births < MaxBirth
      /\ p # q /\ proc[q].kind = "free"
      /\ proc[p].kind = "nemr" /\ proc[p].pc \in {"check", "probe", "read"}
  BY BoundsOfHost DEF CheckHangs, Forks, Preflights, On, HostProcs, HostRest
<1> DEFINE child == [[NoProcess EXCEPT !.kind = "nemr-sync", !.pc = "load", !.by = "check",
                                       !.env = proc[p].env, !.draft = proc[p].draft]
                       EXCEPT !.born = births + 1]
           ref == [pid |-> q, born |-> births + 1]
           parent == [proc[p] EXCEPT !.pc = "hung", !.target = ref]
<1>2. /\ child \in Process /\ child.kind = "nemr-sync" /\ child.by = "check"
      /\ child.born = births + 1 /\ child.since = 0 /\ child.pc = "load"
  BY <1>1, NoProcessType DEF Process, Pc
<1>3. ref \in Ref
  BY <1>1 DEF Ref
<1>4. proc' = [[proc EXCEPT ![q] = child] EXCEPT ![p].pc = "hung", ![p].target = ref]
  BY DEF CheckHangs, Fork
<1> HIDE DEF child
<1>5. [proc EXCEPT ![q] = child][p] = proc[p]
  BY <1>1 DEF HostProcs
<1>6. proc' = [[proc EXCEPT ![q] = child] EXCEPT ![p] = parent]
  BY <1>4, <1>5
<1> HIDE DEF ref
<1>7. /\ parent \in Process /\ parent.kind = "nemr" /\ parent.pc = "hung" /\ parent.born = proc[p].born
      /\ parent.since = proc[p].since /\ parent.target = ref
  BY <1>1, <1>3 DEF Process, Pc
<1> HIDE DEF parent
<1>8. /\ proc' \in [Pid -> Process] /\ proc'[p] = parent /\ proc'[q] = child
      /\ \A x \in Pid \ {p, q} : proc'[x] = proc[x]
  BY <1>1, <1>2, <1>6, <1>7 DEF HostProcs
<1> QED  BY <1>1, <1>2, <1>7, <1>8 DEF HostProcs, ref

LEMMA CheckHangsInv ==
    ASSUME HostProcs, HostRest, ProcessInv, NEW p \in Pid, NEW q \in Pid, CheckHangs(p, q)
    PROVE  HostProcs' /\ ProcessInv'
<1>1. /\ births' = births + 1 /\ births \in Nat /\ p # q
      /\ \A x \in Pid \ {p, q} : proc'[x] = proc[x]
      /\ proc[p].kind = "nemr" /\ proc[p].pc \in {"check", "probe", "read"}
      /\ proc'[p].kind = "nemr" /\ proc'[p].pc = "hung" /\ proc'[p].born = proc[p].born
      /\ proc'[p].since = proc[p].since
      /\ proc'[p].target = [pid |-> q, born |-> births + 1]
      /\ proc[q].kind = "free" /\ proc'[q].kind = "nemr-sync" /\ proc'[q].by = "check"
      /\ proc'[q].born = births + 1 /\ proc'[q].since = 0
  BY CheckHangsEffect, HostCounts
<1>2. UNCHANGED <<record, turns>>
  BY DEF CheckHangs, Settled
<1>3. Named'
  <2>1. ASSUME NEW x \in Pid
        PROVE  IF proc'[x].kind = "free" THEN proc'[x] = NoProcess
               ELSE proc'[x].born \in 1..births' /\ proc'[x].since \in 0..turns'
    <3>1. CASE x \notin {p, q}
      BY <1>1, <1>2, <3>1 DEF ProcessInv, Named
    <3>2. CASE x = p
      BY <1>1, <1>2, <3>2 DEF ProcessInv, Named
    <3>3. CASE x = q
      BY <1>1, <1>2, <3>3, HostCounts
    <3> QED  BY <3>1, <3>2, <3>3
  <2>2. \A x \in Pid \ {q} : /\ proc'[x].born = proc[x].born /\ proc'[x].kind = proc[x].kind
                             /\ proc[x].born # births + 1
    BY <1>1, NoProcessType DEF ProcessInv, Named
  <2>3. \A x, y \in Pid : proc'[x].born = proc'[y].born => x = y \/ proc'[x].kind = "free"
    BY <1>1, <2>2 DEF ProcessInv, Named
  <2> QED  BY <2>1, <2>3 DEF Named
<1>4. RecordMade'
  <2>1. ASSUME record # NoRecord
        PROVE  /\ record.pid \in Pid /\ record.born \in 1..births'
               /\ RunningPid(record)' => proc'[record.pid].by = "start"
    <3>1. record.pid \in Pid /\ record.born \in 1..births
      BY <2>1 DEF ProcessInv, RecordMade
    <3>2. CASE record.pid \in {p, q}
      BY <1>1, <1>2, <3>1, <3>2 DEF RunningPid
    <3>3. CASE record.pid \notin {p, q}
      BY <1>1, <1>2, <2>1, <3>1, <3>3 DEF RunningPid, ProcessInv, RecordMade
    <3> QED  BY <3>2, <3>3
  <2> QED  BY <1>2, <2>1 DEF RecordMade
<1>5. ChildNamed'
  <2>1. ASSUME NEW x \in Pid, On(x, "hung")'
        PROVE  /\ proc'[x].target.pid \in Pid /\ proc'[x].target.born \in 1..births'
               /\ ChildRuns(x)' => /\ proc'[proc'[x].target.pid].kind = "nemr-sync"
                                   /\ proc'[proc'[x].target.pid].by = "check"
    <3>1. CASE x = p
      BY <1>1, <3>1
    <3>2. CASE x = q
      BY <1>1, <2>1, <3>2 DEF On
    <3>3. CASE x \notin {p, q}
      <4>1. proc'[x] = proc[x] /\ On(x, "hung")
        BY <1>1, <2>1, <3>3 DEF On
      <4> DEFINE c == proc[x].target.pid
                 b == proc[x].target.born
      <4>2. /\ c \in Pid /\ b \in 1..births
            /\ proc[c].born = b => proc[c].kind = "nemr-sync" /\ proc[c].by = "check"
        BY <4>1 DEF ProcessInv, ChildNamed, ChildRuns
      <4>3. proc'[c].born = b => proc'[c].kind = "nemr-sync" /\ proc'[c].by = "check"
        <5> HIDE DEF c, b
        <5> QED  BY <1>1, <4>2
      <4> QED  BY <1>1, <4>1, <4>2, <4>3 DEF ChildRuns
    <3> QED  BY <3>1, <3>2, <3>3
  <2> QED  BY <2>1 DEF ChildNamed
<1>6. ChecksLeaveNothing'
  <2>1. ASSUME NEW x \in Pid, proc'[x].kind = "nemr-sync", proc'[x].by = "check"
        PROVE  \/ proc'[x].pc = "draining"
               \/ \E y \in Pid : On(y, "hung")' /\ proc'[y].target = [pid |-> x, born |-> proc'[x].born]
    <3>1. CASE x = q
      <4>1. On(p, "hung")' /\ proc'[p].target = [pid |-> x, born |-> proc'[x].born]
        BY <1>1, <3>1 DEF On
      <4> QED  BY <4>1
    <3>2. CASE x # q
      <4>1. x # p /\ proc'[x] = proc[x]
        BY <1>1, <2>1, <3>2
      <4>2. CASE proc[x].pc = "draining"
        BY <4>1, <4>2
      <4>3. CASE \E y \in Pid : On(y, "hung") /\ proc[y].target = [pid |-> x, born |-> proc[x].born]
        <5>1. PICK y \in Pid : On(y, "hung") /\ proc[y].target = [pid |-> x, born |-> proc[x].born]
          BY <4>3
        <5>2. y \notin {p, q}
          BY <1>1, <5>1 DEF On
        <5>3. On(y, "hung")' /\ proc'[y] = proc[y]
          BY <1>1, <5>1, <5>2 DEF On
        <5> QED  BY <4>1, <5>1, <5>3
      <4> QED  BY <2>1, <4>1, <4>2, <4>3 DEF ProcessInv, ChecksLeaveNothing
    <3> QED  BY <3>1, <3>2
  <2> QED  BY <2>1 DEF ChecksLeaveNothing
<1> QED  BY <1>3, <1>4, <1>5, <1>6, CheckHangsEffect DEF ProcessInv

\* A step that may stop the process q, or tell it to drain, and ends or moves p.
Stops(p, q) ==
    /\ proc' \in [Pid -> Process] /\ UNCHANGED <<births, record, turns>>
    /\ p # q /\ proc[p].kind = "nemr" /\ proc[q].kind = "nemr-sync"
    /\ \A x \in Pid \ {p, q} : proc'[x] = proc[x]
    /\ \/ proc'[q] = NoProcess
       \/ /\ proc'[q].kind = proc[q].kind /\ proc'[q].born = proc[q].born /\ proc'[q].by = proc[q].by
          /\ proc'[q].since = proc[q].since /\ proc'[q].pc = "draining"
    /\ \/ proc'[p] = NoProcess
       \/ /\ proc'[p].kind = proc[p].kind /\ proc'[p].born = proc[p].born /\ proc'[p].by = proc[p].by
          /\ proc'[p].since = proc[p].since /\ ~On(p, "hung") /\ ~On(p, "hung")'
    /\ On(p, "hung") => q = proc[p].target.pid

LEMMA CheckTimesOutStops ==
    ASSUME HostProcs, HostRest, ProcessInv, NEW p \in Pid, CheckTimesOut(p)
    PROVE  Stops(p, proc[p].target.pid) /\ proc[p].target.pid \in Pid /\ On(p, "hung") /\ proc'[p] = NoProcess
<1> DEFINE q == proc[p].target.pid
<1>1. On(p, "hung") /\ ChildRuns(p)
  BY DEF CheckTimesOut, Deadline
<1>2. q \in Pid /\ proc[q].kind = "nemr-sync"
  BY <1>1 DEF ProcessInv, ChildNamed
<1>3. proc' = [proc EXCEPT ![q] = NoProcess, ![p] = NoProcess]
  BY DEF CheckTimesOut, Deadline
<1> HIDE DEF q
<1>4. /\ proc' \in [Pid -> Process] /\ proc'[q] = NoProcess /\ proc'[p] = NoProcess
      /\ \A x \in Pid \ {p, q} : proc'[x] = proc[x]
  BY <1>2, <1>3, NoProcessType DEF HostProcs
<1>5. UNCHANGED <<births, record, turns>> /\ p # q /\ proc[p].kind = "nemr"
  BY <1>1, <1>2 DEF CheckTimesOut, Settled, On
<1> QED  BY <1>1, <1>2, <1>4, <1>5 DEF Stops, q

LEMMA StopSignalStops ==
    ASSUME HostProcs, HostRest, ProcessInv, NEW p \in Pid, StopSignal(p)
    PROVE  \/ Quit(p)
           \/ /\ Stops(p, record.pid) /\ record.pid \in Pid /\ RunningPid(record)
              /\ proc[record.pid].by = "start"
              /\ proc'[p].pc = "wait"
<1>0. /\ On(p, "find") /\ UNCHANGED <<births, record, turns>> /\ proc[p].kind = "nemr"
      /\ proc[p].pc = "find" /\ proc[p] \in Process
  BY DEF StopSignal, Runs, Settled, On, HostProcs
<1>1. CASE Exits(p)
  BY <1>0, <1>1, ExitsEnds DEF On
<1> DEFINE q == record.pid
           ref == [pid |-> record.pid, born |-> record.born]
<1>2. CASE /\ RunningPid(record)
           /\ proc' = [Signalled(proc, q) EXCEPT ![p].pc = "wait", ![p].target = ref]
  <2>1. /\ q \in Pid /\ proc[q].kind = "nemr-sync" /\ proc[q].by = "start" /\ p # q /\ ref \in Ref
    BY <1>0, <1>2 DEF ProcessInv, RecordMade, RunningPid, HostRest, Ref
  <2> HIDE DEF q, ref
  <2>2. /\ Signalled(proc, q) \in [Pid -> Process]
        /\ \A x \in Pid \ {q} : Signalled(proc, q)[x] = proc[x]
        /\ \/ Signalled(proc, q)[q] = NoProcess
           \/ Signalled(proc, q)[q] = [proc[q] EXCEPT !.pc = "draining"]
    BY <2>1, SignalledEffect
  <2> DEFINE table == Signalled(proc, q)
             new == [proc[p] EXCEPT !.pc = "wait", !.target = ref]
  <2>3. proc' = [table EXCEPT ![p] = new]
    BY <1>2, <2>1, <2>2
  <2> HIDE DEF table
  <2>4. /\ new \in Process /\ new.kind = proc[p].kind /\ new.born = proc[p].born
        /\ new.by = proc[p].by /\ new.since = proc[p].since /\ new.pc = "wait"
    BY <1>0, <2>1 DEF Process, Pc
  <2> HIDE DEF new
  <2>5. /\ proc' \in [Pid -> Process] /\ proc'[p] = new /\ proc'[q] = table[q]
        /\ \A x \in Pid \ {p, q} : proc'[x] = proc[x]
    BY <2>1, <2>2, <2>3, <2>4 DEF table
  <2>6. \/ proc'[q] = NoProcess
        \/ /\ proc'[q].kind = proc[q].kind /\ proc'[q].born = proc[q].born /\ proc'[q].by = proc[q].by
           /\ proc'[q].since = proc[q].since /\ proc'[q].pc = "draining"
    <3>1. proc[q] \in Process
      BY <2>1 DEF HostProcs
    <3> QED  BY <2>2, <2>5, <3>1 DEF table, Process
  <2>7. Stops(p, q) /\ proc'[p].pc = "wait"
    BY <1>0, <2>1, <2>4, <2>5, <2>6 DEF Stops, On
  <2> QED  BY <1>2, <2>1, <2>7 DEF q
<1> QED  BY <1>1, <1>2 DEF StopSignal

LEMMA CtrlCStops ==
    ASSUME HostProcs, HostRest, ProcessInv, NEW p \in Pid, CtrlC(p)
    PROVE  \/ Quit(p) /\ (~On(p, "hung") \/ ~ChildRuns(p))
           \/ /\ Stops(p, proc[p].target.pid) /\ proc[p].target.pid \in Pid /\ On(p, "hung")
              /\ proc'[p] = NoProcess
<1>0. UNCHANGED <<births, record, turns>> /\ proc[p].kind = "nemr"
  BY DEF CtrlC, Settled
<1>1. CASE ~(On(p, "hung") /\ ChildRuns(p))
  <2>1. Exits(p)
    BY <1>0, <1>1 DEF CtrlC, On, Exits
  <2> QED  BY <1>0, <1>1, <2>1, ExitsEnds
<1> DEFINE q == proc[p].target.pid
<1>2. CASE On(p, "hung") /\ ChildRuns(p)
  <2>1. q \in Pid /\ proc[q].kind = "nemr-sync" /\ p # q
    BY <1>0, <1>2 DEF ProcessInv, ChildNamed
  <2>2. proc' = [Signalled(proc, q) EXCEPT ![p] = NoProcess]
    BY <1>2 DEF CtrlC, On
  <2> HIDE DEF q
  <2>3. /\ Signalled(proc, q) \in [Pid -> Process]
        /\ \A x \in Pid \ {q} : Signalled(proc, q)[x] = proc[x]
        /\ \/ Signalled(proc, q)[q] = NoProcess
           \/ Signalled(proc, q)[q] = [proc[q] EXCEPT !.pc = "draining"]
    BY <2>1, SignalledEffect
  <2> DEFINE table == Signalled(proc, q)
  <2> HIDE DEF table
  <2>4. proc' = [table EXCEPT ![p] = NoProcess]
    BY <2>2 DEF table
  <2>5. /\ proc' \in [Pid -> Process] /\ proc'[p] = NoProcess /\ proc'[q] = table[q]
        /\ \A x \in Pid \ {p, q} : proc'[x] = proc[x]
    BY <2>1, <2>3, <2>4, NoProcessType DEF table
  <2>6. \/ proc'[q] = NoProcess
        \/ /\ proc'[q].kind = proc[q].kind /\ proc'[q].born = proc[q].born /\ proc'[q].by = proc[q].by
           /\ proc'[q].since = proc[q].since /\ proc'[q].pc = "draining"
    <3>1. proc[q] \in Process
      BY <2>1 DEF HostProcs
    <3> QED  BY <2>3, <2>5, <3>1 DEF table, Process
  <2>7. Stops(p, q)
    BY <1>0, <2>1, <2>5, <2>6 DEF Stops, q
  <2> QED  BY <1>2, <2>1, <2>5, <2>7 DEF q
<1> QED  BY <1>1, <1>2

LEMMA StopsInv ==
    ASSUME HostProcs, HostRest, ProcessInv, NEW p \in Pid, NEW q \in Pid, Stops(p, q)
    PROVE  HostProcs' /\ ProcessInv'
<1>1. /\ UNCHANGED <<births, record, turns>> /\ p # q
      /\ \A x \in Pid \ {p, q} : proc'[x] = proc[x]
      /\ births \in Nat /\ turns \in Nat
  BY HostCounts DEF Stops
<1>2. \A x \in Pid : \/ proc'[x] = NoProcess
                     \/ /\ proc'[x].kind = proc[x].kind /\ proc'[x].born = proc[x].born
                        /\ proc'[x].by = proc[x].by /\ proc'[x].since = proc[x].since
                        /\ proc[x].pc = "draining" => proc'[x].kind = "nemr" \/ proc'[x].pc = "draining"
                        /\ On(x, "hung") <=> On(x, "hung")'
                        /\ On(x, "hung") => proc'[x] = proc[x]
  BY <1>1 DEF Stops, On
<1>3. Named'
  <2>1. ASSUME NEW x \in Pid
        PROVE  IF proc'[x].kind = "free" THEN proc'[x] = NoProcess
               ELSE proc'[x].born \in 1..births' /\ proc'[x].since \in 0..turns'
    <3>1. CASE proc'[x] = NoProcess
      BY <3>1, NoProcessType
    <3>2. CASE x \in Pid \ {p, q}
      BY <1>1, <3>2 DEF ProcessInv, Named
    <3>3. CASE x \in {p, q} /\ proc'[x] # NoProcess
      <4>1. proc'[x].kind # "free" /\ proc[x].kind = proc'[x].kind
        BY <1>2, <3>3 DEF Stops
      <4> QED  BY <1>1, <1>2, <3>3, <4>1 DEF ProcessInv, Named
    <3> QED  BY <3>1, <3>2, <3>3
  <2>2. \A x, y \in Pid : proc'[x].born = proc'[y].born => x = y \/ proc'[x].kind = "free"
    <3>1. \A x \in Pid : /\ proc'[x].kind # "free" => /\ proc'[x].born = proc[x].born
                                                       /\ proc[x].kind # "free" /\ proc[x].born >= 1
                         /\ proc'[x].kind = "free" => proc'[x].born = 0
      BY <1>1, <1>2, <2>1, NoProcessType DEF ProcessInv, Named
    <3> QED  BY <3>1 DEF ProcessInv, Named
  <2> QED  BY <2>1, <2>2 DEF Named
<1>4. RecordMade'
  BY <1>1, <1>2, NoProcessType DEF ProcessInv, RecordMade, RunningPid
<1>5. ChildNamed'
  <2>1. ASSUME NEW x \in Pid, On(x, "hung")'
        PROVE  /\ proc'[x].target.pid \in Pid /\ proc'[x].target.born \in 1..births'
               /\ ChildRuns(x)' => /\ proc'[proc'[x].target.pid].kind = "nemr-sync"
                                   /\ proc'[proc'[x].target.pid].by = "check"
    <3>1. On(x, "hung") /\ proc'[x] = proc[x]
      BY <1>2, <2>1, NoProcessType DEF On
    <3> DEFINE c == proc[x].target.pid
               b == proc[x].target.born
    <3>2. /\ c \in Pid /\ b \in 1..births
          /\ proc[c].born = b => proc[c].kind = "nemr-sync" /\ proc[c].by = "check"
      BY <3>1 DEF ProcessInv, ChildNamed, ChildRuns
    <3>3. proc'[c].born = b => proc'[c].kind = "nemr-sync" /\ proc'[c].by = "check"
      <4> HIDE DEF c, b
      <4> QED  BY <1>2, <3>2, NoProcessType
    <3> QED  BY <1>1, <3>1, <3>2, <3>3 DEF ChildRuns
  <2> QED  BY <2>1 DEF ChildNamed
<1>6. ChecksLeaveNothing'
  <2>1. ASSUME NEW x \in Pid, proc'[x].kind = "nemr-sync", proc'[x].by = "check"
        PROVE  \/ proc'[x].pc = "draining"
               \/ \E y \in Pid : On(y, "hung")' /\ proc'[y].target = [pid |-> x, born |-> proc'[x].born]
    <3>1. proc[x].kind = "nemr-sync" /\ proc[x].by = "check" /\ proc'[x].born = proc[x].born
      BY <1>2, <2>1, NoProcessType
    <3>2. CASE x = q
      BY <2>1, <3>2, NoProcessType DEF Stops
    <3>3. CASE x # q /\ proc[x].pc = "draining"
      BY <1>1, <3>1, <3>3, <2>1, <1>2, NoProcessType
    <3>4. CASE x # q /\ \E y \in Pid : On(y, "hung") /\ proc[y].target = [pid |-> x, born |-> proc[x].born]
      <4>1. PICK y \in Pid : On(y, "hung") /\ proc[y].target = [pid |-> x, born |-> proc[x].born]
        BY <3>4
      <4>2. y # p /\ y # q
        BY <3>4, <4>1 DEF Stops, On
      <4>3. On(y, "hung")' /\ proc'[y] = proc[y]
        BY <1>1, <4>1, <4>2 DEF On
      <4> QED  BY <3>1, <4>1, <4>3
    <3> QED  BY <3>1, <3>2, <3>3, <3>4 DEF ProcessInv, ChecksLeaveNothing
  <2> QED  BY <2>1 DEF ChecksLeaveNothing
<1> QED  BY <1>3, <1>4, <1>5, <1>6 DEF ProcessInv, Stops, HostProcs

\* A step of p that leaves the settings file and the host alone, or makes a folder.
Steps(p) ==
    /\ OneStep(p) /\ UNCHANGED <<turns>> /\ overlapped' \in BOOLEAN
    /\ \/ record' = record
       \/ record' = NoRecord
       \/ record' = [pid |-> p, born |-> proc[p].born] /\ Walk(p) /\ proc[p].kind = "nemr"
    /\ file' \in Settings /\ host' \in Host

LEMMA StepsInv ==
    ASSUME HostInv, NEW p \in Pid, Steps(p)
    PROVE  HostInv'
<1>1. HostProcs /\ HostRest /\ ProcessInv
  BY DEF HostInv
<1>2. HostProcs' /\ ProcessInv'
  BY <1>1, OneStepInv DEF Steps
<1>3. births' \in 0..MaxBirth
  BY <1>1, HostCounts DEF Steps, OneStep, Quit, Walk, Appears, Execs, HostRest
<1>4. NoRecord \in Ref /\ [pid |-> p, born |-> proc[p].born] \in Ref
  <2>1. 0 \in 0..MaxBirth /\ proc[p].born \in 0..MaxBirth
    BY <1>1, HostCounts DEF HostProcs, Process
  <2> QED  BY <2>1 DEF NoRecord, Ref
<1> QED  BY <1>1, <1>2, <1>3, <1>4 DEF HostInv, HostRest, Steps

LEMMA SettledSteps ==
    ASSUME HostRest, NEW p \in Pid, OneStep(p), Settled,
           \/ record' = record
           \/ record' = NoRecord
           \/ record' = [pid |-> p, born |-> proc[p].born] /\ Walk(p) /\ proc[p].kind = "nemr"
    PROVE  Steps(p)
BY DEF HostRest, Settled, Steps

\* A step that may stop another process.
LEMMA StoppingSteps ==
    ASSUME HostInv, NEW p \in Pid, CheckTimesOut(p) \/ StopSignal(p) \/ CtrlC(p)
    PROVE  Steps(p) \/ \E q \in Pid : Stops(p, q) /\ Settled
<1> USE DEF HostInv
<1>1. CASE CheckTimesOut(p)
  BY <1>1, CheckTimesOutStops DEF CheckTimesOut
<1>2. CASE StopSignal(p)
  <2>1. CASE Quit(p)
    <3>1. OneStep(p)
      BY <1>2, <2>1 DEF OneStep, StopSignal, Runs, On
    <3> QED  BY <1>2, <3>1, SettledSteps DEF StopSignal
  <2> QED  BY <1>2, <2>1, StopSignalStops DEF StopSignal
<1>3. CASE CtrlC(p)
  <2>1. CASE Quit(p) /\ (~On(p, "hung") \/ ~ChildRuns(p))
    <3>1. OneStep(p)
      BY <2>1 DEF OneStep
    <3> QED  BY <1>3, <3>1, SettledSteps DEF CtrlC
  <2> QED  BY <1>3, <2>1, CtrlCStops DEF CtrlC
<1> QED  BY <1>1, <1>2, <1>3

\* Every step is one process's, may stop another one, or begins a check that hangs.
LEMMA HostSteps ==
    ASSUME HostInv, HostNext
    PROVE  \/ \E p \in Pid : Steps(p)
           \/ \E p \in Pid : CheckTimesOut(p) \/ StopSignal(p) \/ CtrlC(p)
           \/ \E p \in Pid, q \in Pid : CheckHangs(p, q)
           \/ Turn
<1> USE DEF HostInv
<1>1. ASSUME NEW p \in Pid, NEW does \in Command, NEW env \in Env, Begin(p, does, env)
      PROVE  Steps(p)
  <2>1. OneStep(p)
    BY <1>1, BeginAppears DEF OneStep, Quit, Appears
  <2> QED  BY <1>1, <2>1 DEF Begin, Steps, HostRest
<1>2. ASSUME NEW p \in Pid, Sweep(p) PROVE Steps(p)
  <2>1. OneStep(p)
    BY <1>2, SweepGoes DEF OneStep, Walk
  <2> QED  BY <1>2, <2>1, SettledSteps DEF Sweep
<1>3. ASSUME NEW p \in Pid, SweepUnlink(p) PROVE Steps(p)
  <2>1. OneStep(p)
    BY <1>3, SweepUnlinkGoes DEF OneStep, Walk
  <2> QED  BY <1>3, <2>1, SettledSteps DEF SweepUnlink
<1>4. ASSUME NEW p \in Pid, CheckAnswers(p) PROVE Steps(p)
  <2>1. OneStep(p)
    BY <1>4, CheckAnswersGoes DEF OneStep, Walk, CheckAnswers, On
  <2> QED  BY <1>4, <2>1, SettledSteps DEF CheckAnswers
<1>6. ASSUME NEW p \in Pid, CheckRefused(p) PROVE Steps(p)
  <2>1. OneStep(p)
    BY <1>6, ExitsEnds DEF OneStep, CheckRefused, On
  <2> QED  BY <1>6, <2>1, SettledSteps DEF CheckRefused
<1>7. ASSUME NEW p \in Pid, StartLook(p) PROVE Steps(p)
  <2>1. OneStep(p)
    BY <1>7, StartLookGoes DEF OneStep, Walk, StartLook, Runs, On
  <2> QED  BY <1>7, <2>1, SettledSteps DEF StartLook
<1>8. ASSUME NEW p \in Pid, StartRecord(p) PROVE Steps(p)
  <2>1. OneStep(p) /\ Walk(p) /\ proc[p].kind = "nemr"
    BY <1>8, StartRecordGoes DEF OneStep, Walk, StartRecord, On
  <2> QED  BY <1>8, <2>1, SettledSteps DEF StartRecord
<1>9. ASSUME NEW p \in Pid, StartExec(p) PROVE Steps(p)
  <2>1. OneStep(p) /\ (record' = record \/ record' = NoRecord)
    BY <1>9, StartExecTurns DEF OneStep, StartExec, On
  <2> QED  BY <1>9, <2>1, SettledSteps DEF StartExec
<1>11. ASSUME NEW p \in Pid, StopWait(p) PROVE Steps(p)
  <2>1. OneStep(p)
    BY <1>11, StopWaitGoes DEF OneStep, Walk, StopWait, On
  <2> QED  BY <1>11, <2>1, SettledSteps DEF StopWait
<1>12. ASSUME NEW p \in Pid, StopUnlink(p) PROVE Steps(p)
  <2>1. OneStep(p)
    BY <1>12, ExitsEnds DEF OneStep, StopUnlink, Runs, On
  <2> QED  BY <1>12, <2>1, SettledSteps DEF StopUnlink
<1>13. ASSUME NEW p \in Pid, ConfigureRead(p) PROVE Steps(p)
  <2>0. proc[p].since \in 0..turns
    <3>1. proc[p].kind = "nemr"
      BY <1>13 DEF ConfigureRead, On
    <3> QED  BY <3>1 DEF ProcessInv, Named
  <2>1. OneStep(p)
    BY <1>13, <2>0, ConfigureReadGoes DEF OneStep, Walk, ConfigureRead, On
  <2> QED  BY <1>13, <2>1, SettledSteps DEF ConfigureRead
<1>14. ASSUME NEW p \in Pid, ConfigureProbe(p) PROVE Steps(p)
  <2>1. OneStep(p)
    BY <1>14, ConfigureProbeGoes DEF OneStep, Walk, ConfigureProbe, On
  <2> QED  BY <1>14, <2>1, SettledSteps DEF ConfigureProbe
<1>15. ASSUME NEW p \in Pid, ConfigureInstall(p) PROVE Steps(p)
  <2>1. OneStep(p)
    BY <1>15, ExitsEnds DEF OneStep, ConfigureInstall, On
  <2>2. proc[p].draft \in Settings
    BY DEF HostProcs, Process
  <2> QED  BY <1>15, <2>1, <2>2 DEF ConfigureInstall, Steps, HostRest
<1>16. ASSUME NEW p \in Pid, NEW addr \in Addr, NEW storage \in StorageAnswers,
              ConfigureAsk(p, addr, storage)
       PROVE  Steps(p)
  <2>1. OneStep(p) /\ host' \in Host
    <3>1. On(p, "ask") /\ ~On(p, "hung")
      BY <1>16 DEF ConfigureAsk, On
    <3> QED  BY <1>16, <3>1, ConfigureAskGoes DEF OneStep
  <2> QED  BY <1>16, <2>1 DEF ConfigureAsk, Steps, HostRest
<1>17. ASSUME NEW p \in Pid, ServerLoads(p) PROVE Steps(p)
  <2>1. OneStep(p)
    BY <1>17, ServerLoadsGoes DEF OneStep, Walk, ServerLoads, On
  <2> QED  BY <1>17, <2>1, SettledSteps DEF ServerLoads
<1>18. ASSUME NEW p \in Pid, ServerBinds(p) PROVE Steps(p)
  <2>1. OneStep(p)
    BY <1>18, ServerBindsGoes DEF OneStep, Walk, ServerBinds, On
  <2> QED  BY <1>18, <2>1, SettledSteps DEF ServerBinds
<1>19. ASSUME NEW p \in Pid, ServerEnds(p) \/ Dies(p) PROVE Steps(p)
  <2>1. OneStep(p)
    BY <1>19, ExitsEnds DEF OneStep, ServerEnds, Dies, On
  <2> QED  BY <1>19, <2>1, SettledSteps DEF ServerEnds, Dies
<1>20. ASSUME NEW p \in Pid, NEW env \in Env, ByHand(p, env) PROVE Steps(p)
  <2>1. OneStep(p)
    BY <1>20, ByHandAppears DEF OneStep, Quit, Appears
  <2> QED  BY <1>20, <2>1, SettledSteps DEF ByHand
<1> HIDE DEF HostInv
<1> QED  BY <1>1, <1>2, <1>3, <1>4, <1>6, <1>7, <1>8, <1>9, <1>11, <1>12, <1>13, <1>14,
            <1>15, <1>16, <1>17, <1>18, <1>19, <1>20 DEF HostNext

LEMMA TurnInv ==
    ASSUME HostInv, Turn
    PROVE  HostInv'
<1>1. /\ UNCHANGED <<proc, births, record, overlapped>> /\ turns' = turns + 1 /\ turns < MaxTurn
      /\ HostRest /\ HostProcs /\ ProcessInv
  BY DEF Turn, HostInv
<1>2. turns' \in 0..MaxTurn /\ 0..turns \subseteq 0..turns'
  BY <1>1, HostCounts
<1>3. file' \in Settings /\ host' \in Host
  <2>1. host \in Host /\ file \in Settings /\ Files \subseteq Settings
    BY <1>1, SourcesAssumption DEF HostRest
  <2>2. ASSUME NEW d \in Dir, NEW s \in {"gone", "readonly", "writable"}, host' = [host EXCEPT !.dir[d] = s]
        PROVE  host' \in Host
    BY <2>1, <2>2 DEF Host
  <2>3. ASSUME host' = [host EXCEPT !.db = ~@] \/ host' = [host EXCEPT !.s3 = ~@]
        PROVE  host' \in Host
    <3>1. PICK b \in BOOLEAN : host' = [host EXCEPT !.db = b] \/ host' = [host EXCEPT !.s3 = b]
      BY <2>3
    <3> QED  BY <2>1, <3>1 DEF Host
  <2> QED  BY <2>1, <2>2, <2>3 DEF Turn
<1>4. HostRest'
  BY <1>1, <1>2, <1>3 DEF HostRest
<1>5. Named'
  BY <1>1, <1>2 DEF ProcessInv, Named
<1>6. RecordMade' /\ ChildNamed' /\ ChecksLeaveNothing'
  BY <1>1 DEF ProcessInv, RecordMade, RunningPid, ChildNamed, ChildRuns, ChecksLeaveNothing, On
<1>7. HostProcs'
  BY <1>1 DEF HostProcs
<1> QED  BY <1>4, <1>5, <1>6, <1>7 DEF HostInv, ProcessInv

LEMMA HostInvInit == HostInit => HostInv
<1> SUFFICES ASSUME HostInit PROVE HostInv
  OBVIOUS
<1>1. \A p \in Pid : proc[p] = NoProcess
  BY DEF HostInit
<1>2. HostProcs
  BY NoProcessType DEF HostInit, HostProcs
<1>3. 0 \in 0..MaxBirth /\ 0 \in 0..MaxTurn
  BY BoundsOfHost
<1>4. host \in Host
  BY DEF HostInit, Host
<1>5. HostRest
  BY <1>3, <1>4, SourcesAssumption DEF HostInit, HostRest, NoRecord, Ref
<1>6. ProcessInv
  BY <1>1, NoProcessType DEF HostInit, ProcessInv, Named, RecordMade, ChildNamed, ChecksLeaveNothing, On
<1> QED  BY <1>2, <1>5, <1>6 DEF HostInv

LEMMA HostInvNext == HostInv /\ [HostNext]_hostVars => HostInv'
<1> SUFFICES ASSUME HostInv, [HostNext]_hostVars PROVE HostInv'
  OBVIOUS
<1>1. CASE HostNext
  <2>1. ASSUME NEW p \in Pid, NEW q \in Pid, Stops(p, q), Settled PROVE HostInv'
    <3>1. HostProcs' /\ ProcessInv'
      BY <2>1, StopsInv DEF HostInv
    <3>2. HostRest'
      BY <2>1 DEF HostInv, HostRest, Stops, Settled
    <3> QED  BY <3>1, <3>2 DEF HostInv
  <2>2. ASSUME NEW p \in Pid, NEW q \in Pid, CheckHangs(p, q) PROVE HostInv'
    <3>1. HostProcs' /\ ProcessInv'
      BY <2>2, CheckHangsInv DEF HostInv
    <3>2. HostRest /\ births' = births + 1 /\ births < MaxBirth
      BY <2>2, CheckHangsEffect DEF HostInv
    <3>3. HostRest'
      BY <2>2, <3>2, HostCounts DEF HostRest, CheckHangs, Settled
    <3> QED  BY <3>1, <3>3 DEF HostInv
  <2>3. ASSUME NEW p \in Pid, CheckTimesOut(p) \/ StopSignal(p) \/ CtrlC(p) PROVE HostInv'
    BY <2>1, <2>3, StoppingSteps, StepsInv
  <2> QED  BY <1>1, <2>2, <2>3, HostSteps, StepsInv, TurnInv
<1>2. CASE UNCHANGED hostVars
  BY <1>2 DEF hostVars, HostInv, HostProcs, HostRest, ProcessInv, Named, RecordMade, RunningPid,
              ChildNamed, ChildRuns, ChecksLeaveNothing, On
<1> QED  BY <1>1, <1>2

LEMMA HostInvariant == HostSpec => []HostInv
<1> QED  BY HostInvInit, HostInvNext, PTL DEF HostSpec

\* Every variable keeps its type; and two processes never have one start time, so
\* that the record file (server.rs, a pid and a start time) names one process.
THEOREM HostTypes == HostSpec => []HostTypeOK
<1>1. HostInv => HostTypeOK
  BY HostParts DEF HostInv, ProcessInv
<1> QED  BY <1>1, HostInvariant, PTL

\* server.rs: a read-only command cannot start a server: what an old nemr-sync makes
\* of --check runs only while the command that asked waits for it, or drains.
THEOREM ChecksAreReaped == HostSpec => []ChecksLeaveNothing
<1>1. HostInv => ChecksLeaveNothing
  BY DEF HostInv, ProcessInv
<1> QED  BY <1>1, HostInvariant, PTL

-------------------------------------------------------------------------------
(* Whom stop signals *)

\* server.rs: whoever else has the pid by now, a stop changes only itself and a
\* server that start made.
THEOREM StopsOnlyServers == HostSpec => StopAimsAtServer
<1> DEFINE Aims == \A p, q \in Pid :
              Runs(p, "stop", "find") /\ proc'[p] # proc[p] /\ p # q /\ proc'[q] # proc[q] =>
                 proc[q].kind = "nemr-sync" /\ proc[q].by = "start"
<1>1. HostInv /\ [HostNext]_hostVars => Aims
  <2> SUFFICES ASSUME HostInv, [HostNext]_hostVars,
                      NEW p \in Pid, NEW q \in Pid, Runs(p, "stop", "find"),
                      proc'[p] # proc[p], p # q, proc'[q] # proc[q]
               PROVE  proc[q].kind = "nemr-sync" /\ proc[q].by = "start"
    OBVIOUS
  <2>1. proc[p].kind = "nemr" /\ proc[p].pc = "find" /\ HostProcs /\ HostRest /\ ProcessInv
    BY DEF Runs, On, HostInv
  <2>2. \A x \in Pid : ~Steps(x)
    BY DEF Steps, OneStep, Quit, Walk, Appears, Execs, OthersStay
  <2>3. ~Turn
    BY DEF Turn
  <2>4. \A x \in Pid, y \in Pid : ~CheckHangs(x, y)
    <3>1. ASSUME NEW x \in Pid, NEW y \in Pid, CheckHangs(x, y) PROVE FALSE
      <4>1. /\ \A z \in Pid \ {x, y} : proc'[z] = proc[z]
            /\ proc[x].pc \in {"check", "probe", "read"} /\ proc[y].kind = "free"
        BY <2>1, <3>1, CheckHangsEffect
      <4>2. p = x \/ p = y
        BY <4>1
      <4> QED  BY <2>1, <4>1, <4>2
    <3> QED  BY <3>1
  <2>5. ASSUME NEW x \in Pid, NEW y \in Pid, Stops(x, y) PROVE x = p /\ y = q
    BY <2>1, <2>5 DEF Stops
  <2>6. StopSignal(p) /\ Stops(p, record.pid) /\ record.pid \in Pid /\ proc[record.pid].by = "start"
    <3>1. HostNext
      BY <2>3 DEF hostVars
    <3>2. CASE StopSignal(p)
      BY <2>1, <3>2, StopSignalStops DEF Quit, OthersStay
    <3>3. CASE ~StopSignal(p)
      <4>1. \A x \in Pid : ~Quit(x)
        BY DEF Quit, OthersStay
      <4>2. ASSUME NEW x \in Pid, CheckTimesOut(x) PROVE FALSE
        <5>1. x = p /\ On(x, "hung")
          BY <2>1, <2>5, <4>2, CheckTimesOutStops
        <5> QED  BY <2>1, <5>1 DEF On
      <4>3. ASSUME NEW x \in Pid, CtrlC(x) PROVE FALSE
        <5>1. x = p /\ On(x, "hung")
          BY <2>1, <2>5, <4>1, <4>3, CtrlCStops
        <5> QED  BY <2>1, <5>1 DEF On
      <4>4. ASSUME NEW x \in Pid, StopSignal(x) PROVE FALSE
        <5>1. x = p
          BY <2>1, <2>5, <4>1, <4>4, StopSignalStops
        <5> QED  BY <3>3, <4>4, <5>1
      <4> QED  BY <3>1, <2>2, <2>3, <2>4, <4>2, <4>3, <4>4, HostSteps
    <3> QED  BY <3>2, <3>3
  <2> QED  BY <2>5, <2>6 DEF Stops
<1>2. HostInv /\ [HostNext]_hostVars => [Aims]_hostVars
  BY <1>1
<1>3. [][Aims]_hostVars => StopAimsAtServer
  BY DEF StopAimsAtServer
<1> QED  BY <1>2, <1>3, HostInvariant, PTL DEF HostSpec

-------------------------------------------------------------------------------
(* One command at a time *)

Started(p) == proc[p].kind = "nemr-sync" /\ proc[p].by = "start"

\* As long as no two commands ran at once, what start made is what the record
\* names, also before it serves; and a command that is about to write or remove
\* the record has seen that there is no such server.
Ordered ==
    /\ \A p, q \in Pid : proc[p].kind = "nemr" /\ proc[q].kind = "nemr" => p = q
    /\ \A p \in Pid : Started(p) => record = [pid |-> p, born |-> proc[p].born]
    /\ \A p, q \in Pid : On(p, "unlink") \/ On(p, "record") \/ On(p, "exec") => ~Started(q)
    /\ \A p \in Pid : On(p, "exec") => record = [pid |-> p, born |-> proc[p].born]
Orderly == overlapped \/ Ordered

\* What a step leaves of a process that matters to the record.
Subsides(x) ==
    /\ proc'[x].kind = "nemr" => proc[x].kind = "nemr"
    /\ Started(x)' => Started(x) /\ proc'[x].born = proc[x].born
    /\ \A pc \in {"unlink", "record", "exec"} :
          On(x, pc)' => On(x, pc) /\ proc'[x].born = proc[x].born

LEMMA OrderedKept ==
    ASSUME Ordered, UNCHANGED record, \A x \in Pid : Subsides(x)
    PROVE  Ordered'
<1>1. \A p, q \in Pid : proc'[p].kind = "nemr" /\ proc'[q].kind = "nemr" => p = q
  BY DEF Ordered, Subsides
<1>2. \A p \in Pid : Started(p)' => record' = [pid |-> p, born |-> proc'[p].born]
  BY DEF Ordered, Subsides
<1>3. \A p, q \in Pid : On(p, "unlink")' \/ On(p, "record")' \/ On(p, "exec")' => ~Started(q)'
  BY DEF Ordered, Subsides
<1>4. \A p \in Pid : On(p, "exec")' => record' = [pid |-> p, born |-> proc'[p].born]
  BY DEF Ordered, Subsides
<1> QED  BY <1>1, <1>2, <1>3, <1>4 DEF Ordered

\* No server of start's runs when the record's does not.
LEMMA NoneStarted ==
    ASSUME Ordered, ~RunningPid(record), NEW q \in Pid
    PROVE  ~Started(q)
<1> SUFFICES ASSUME Started(q) PROVE FALSE
  OBVIOUS
<1>1. record = [pid |-> q, born |-> proc[q].born] /\ proc[q].kind = "nemr-sync"
  BY DEF Ordered, Started
<1>2. record # NoRecord
  BY <1>1, PidAssumption DEF NoRecord
<1> QED  BY <1>1, <1>2 DEF RunningPid

\* p goes on, alone, and no server of start's runs.
LEMMA OrderedAlone ==
    ASSUME HostInv, Ordered, NEW p \in Pid, Walk(p), proc[p].kind = "nemr",
           \A q \in Pid : ~Started(q),
           On(p, "exec")' => record' = [pid |-> p, born |-> proc[p].born]
    PROVE  Ordered'
<1>1. \A q \in Pid : ~Started(q)' /\ (proc'[q].kind = proc[q].kind)
  BY DEF Walk, OthersStay, Started
<1>2. \A q \in Pid : proc'[q].kind = "nemr" => q = p
  BY <1>1 DEF Ordered
<1>3. \A q \in Pid : On(q, "exec")' => record' = [pid |-> q, born |-> proc'[q].born]
  BY <1>2 DEF On, Walk
<1> QED  BY <1>1, <1>2, <1>3 DEF Ordered

\* The only command is gone, and so is every server of start's.
LEMMA OrderedGone ==
    ASSUME HostInv, Ordered, NEW p \in Pid, Quit(p), proc[p].kind = "nemr",
           \A q \in Pid : ~Started(q)
    PROVE  Ordered'
<1>1. \A q \in Pid : ~Started(q)' /\ proc'[q].kind # "nemr"
  BY NoProcessType DEF Quit, OthersStay, Started, Ordered
<1> QED  BY <1>1 DEF Ordered, On

LEMMA EndsSubsides ==
    ASSUME NEW p \in Pid, Quit(p), NEW x \in Pid
    PROVE  Subsides(x)
BY NoProcessType DEF Quit, OthersStay, Subsides, Started, On

LEMMA GoesSubsides ==
    ASSUME NEW p \in Pid, Walk(p), proc[p].kind = "nemr" => proc'[p].pc \notin {"unlink", "record", "exec"}, NEW x \in Pid
    PROVE  Subsides(x)
BY DEF Walk, OthersStay, Subsides, Started, On

LEMMA StopsSubsides ==
    ASSUME NEW p \in Pid, NEW q \in Pid, Stops(p, q), NEW x \in Pid,
           proc'[p] = NoProcess \/ proc'[p].pc = "wait"
    PROVE  Subsides(x)
BY NoProcessType DEF Stops, Subsides, Started, On

\* One step, when no two commands ran at once, before and after it.
LEMMA OrderedNext ==
    ASSUME HostInv, Ordered, HostNext, ~overlapped, ~overlapped'
    PROVE  Ordered'
<1> USE DEF HostInv
<1>1. ASSUME NEW p \in Pid, NEW does \in Command, NEW env \in Env, Begin(p, does, env)
      PROVE  Ordered'
  <2>1. \A q \in Pid : proc[q].kind # "nemr"
    BY <1>1 DEF Begin
  <2>2. Appears(p) /\ proc'[p].kind = "nemr" /\ proc'[p].pc \in {"check", "read", "sweep"} /\ UNCHANGED record
    BY <1>1, BeginAppears DEF Begin
  <2>3. \A q \in Pid \ {p} : proc'[q] = proc[q]
    BY <2>2 DEF Appears, OthersStay
  <2>4. \A q \in Pid : Started(q)' => Started(q) /\ proc'[q].born = proc[q].born
    BY <2>2, <2>3 DEF Started
  <2>5. \A q \in Pid : ~On(q, "unlink")' /\ ~On(q, "record")' /\ ~On(q, "exec")'
    BY <2>1, <2>2, <2>3 DEF On
  <2>6. \A x, q \in Pid : proc'[x].kind = "nemr" /\ proc'[q].kind = "nemr" => x = q
    BY <2>1, <2>3
  <2> QED  BY <2>2, <2>4, <2>5, <2>6 DEF Ordered
<1>2. ASSUME NEW p \in Pid, Sweep(p) PROVE Ordered'
  <2>1. UNCHANGED record /\ Walk(p) /\ proc[p].kind = "nemr"
    BY <1>2, SweepGoes DEF Sweep, On
  <2>2. PICK pc \in Pc : /\ proc'[p] = [proc[p] EXCEPT !.pc = pc]
                         /\ pc = AfterSweep(p) \/ (pc = "unlink" /\ record # NoRecord /\ ~RunningPid(record))
    BY <1>2, SweepGoes
  <2>3. proc'[p].pc = pc
    BY <2>2 DEF HostProcs, Process
  <2>4. CASE pc = AfterSweep(p)
    <3>1. proc'[p].pc \notin {"unlink", "record", "exec"}
      BY <2>3, <2>4 DEF AfterSweep
    <3> QED  BY <2>1, <3>1, GoesSubsides, OrderedKept
  <2>5. CASE pc = "unlink" /\ ~RunningPid(record)
    <3>1. ~On(p, "exec")' /\ \A q \in Pid : ~Started(q)
      BY <2>3, <2>5, NoneStarted DEF On
    <3> QED  BY <2>1, <3>1, OrderedAlone
  <2> QED  BY <2>2, <2>4, <2>5
<1>3. ASSUME NEW p \in Pid, SweepUnlink(p) PROVE Ordered'
  <2>1. Walk(p) /\ proc[p].kind = "nemr" /\ \A q \in Pid : ~Started(q)
    BY <1>3, SweepUnlinkGoes DEF SweepUnlink, On, Ordered
  <2>2. proc'[p] = [proc[p] EXCEPT !.pc = AfterSweep(p)] /\ AfterSweep(p) # "exec"
    BY <1>3, SweepUnlinkGoes DEF AfterSweep
  <2>3. ~On(p, "exec")'
    BY <2>2 DEF On, HostProcs, Process
  <2> QED  BY <2>1, <2>3, OrderedAlone
<1>4. ASSUME NEW p \in Pid, CheckAnswers(p) PROVE Ordered'
  <2>1. Quit(p) \/ (Walk(p) /\ proc'[p].pc = "sweep")
    BY <1>4, CheckAnswersGoes
  <2>2. UNCHANGED record
    BY <1>4 DEF CheckAnswers
  <2> QED  BY <2>1, <2>2, EndsSubsides, GoesSubsides, OrderedKept
<1>5. ASSUME NEW p \in Pid, CheckTimesOut(p) PROVE Ordered'
  <2>1. UNCHANGED record
    BY <1>5 DEF CheckTimesOut
  <2> QED  BY <1>5, <2>1, CheckTimesOutStops, StopsSubsides, OrderedKept
<1>6. ASSUME NEW p \in Pid, CheckRefused(p) \/ ServerEnds(p) \/ Dies(p) PROVE Ordered'
  <2>1. Quit(p) /\ UNCHANGED record
    BY <1>6, ExitsEnds DEF CheckRefused, ServerEnds, Dies, On
  <2> QED  BY <2>1, EndsSubsides, OrderedKept
<1>7. ASSUME NEW p \in Pid, StartLook(p) PROVE Ordered'
  <2>1. UNCHANGED record /\ proc[p].kind = "nemr"
    BY <1>7 DEF StartLook, Runs, On
  <2>2. CASE Quit(p)
    BY <2>1, <2>2, EndsSubsides, OrderedKept
  <2>3. CASE Walk(p) /\ proc'[p] = [proc[p] EXCEPT !.pc = "record"] /\ ~RunningPid(record)
    <3>1. ~On(p, "exec")'
      BY <2>3 DEF On, HostProcs, Process
    <3> QED  BY <2>1, <2>3, <3>1, NoneStarted, OrderedAlone
  <2> QED  BY <1>7, <2>2, <2>3, StartLookGoes
<1>8. ASSUME NEW p \in Pid, StartRecord(p) PROVE Ordered'
  <2>1. /\ Walk(p) /\ proc[p].kind = "nemr" /\ record' = [pid |-> p, born |-> proc[p].born]
        /\ \A q \in Pid : ~Started(q)
    BY <1>8, StartRecordGoes DEF StartRecord, On, Ordered
  <2> QED  BY <2>1, OrderedAlone
<1>9. ASSUME NEW p \in Pid, StartExec(p) PROVE Ordered'
  <2>1. /\ On(p, "exec") /\ proc[p].kind = "nemr" /\ \A q \in Pid : ~Started(q)
        /\ record = [pid |-> p, born |-> proc[p].born]
    BY <1>9 DEF StartExec, On, Ordered
  <2>2. CASE Quit(p)
    BY <2>1, <2>2, OrderedGone
  <2>3. CASE Execs(p) /\ UNCHANGED record
    <3>1. \A q \in Pid : proc'[q].kind # "nemr"
      BY <2>1, <2>3 DEF Execs, OthersStay, Ordered
    <3>2. \A q \in Pid : Started(q)' => q = p
      BY <2>1, <2>3 DEF Execs, OthersStay, Started
    <3>3. record' = [pid |-> p, born |-> proc'[p].born]
      BY <2>1, <2>3 DEF Execs
    <3> QED  BY <3>1, <3>2, <3>3 DEF Ordered, On
  <2> QED  BY <1>9, <2>2, <2>3, StartExecTurns
<1>10. ASSUME NEW p \in Pid, StopSignal(p) PROVE Ordered'
  <2>1. UNCHANGED record
    BY <1>10 DEF StopSignal
  <2>2. CASE Quit(p)
    BY <2>1, <2>2, EndsSubsides, OrderedKept
  <2>3. CASE Stops(p, record.pid) /\ record.pid \in Pid /\ proc'[p].pc = "wait"
    BY <2>1, <2>3, StopsSubsides, OrderedKept
  <2> QED  BY <1>10, <2>2, <2>3, StopSignalStops
<1>11. ASSUME NEW p \in Pid, StopWait(p) PROVE Ordered'
  <2>1. UNCHANGED record /\ proc[p].kind = "nemr"
    BY <1>11 DEF StopWait, On
  <2>2. CASE Quit(p)
    BY <2>1, <2>2, EndsSubsides, OrderedKept
  <2>3. CASE Walk(p) /\ proc'[p] = [proc[p] EXCEPT !.pc = "unlink"] /\ ~RunningPid(record)
    <3>1. ~On(p, "exec")'
      BY <2>3 DEF On, HostProcs, Process
    <3> QED  BY <2>1, <2>3, <3>1, NoneStarted, OrderedAlone
  <2> QED  BY <1>11, <2>2, <2>3, StopWaitGoes
<1>12. ASSUME NEW p \in Pid, StopUnlink(p) PROVE Ordered'
  <2>1. Quit(p) /\ proc[p].kind = "nemr" /\ \A q \in Pid : ~Started(q)
    BY <1>12, ExitsEnds DEF StopUnlink, Runs, On, Ordered
  <2> QED  BY <2>1, OrderedGone
<1>13. ASSUME NEW p \in Pid, ConfigureRead(p) PROVE Ordered'
  <2>0. proc[p].since \in 0..turns /\ UNCHANGED record
    BY <1>13 DEF ConfigureRead, On, ProcessInv, Named
  <2>1. Quit(p) \/ (Walk(p) /\ proc'[p].pc = "ask")
    BY <1>13, <2>0, ConfigureReadGoes
  <2> QED  BY <2>0, <2>1, EndsSubsides, GoesSubsides, OrderedKept
<1>14. ASSUME NEW p \in Pid, ConfigureProbe(p) PROVE Ordered'
  <2>0. UNCHANGED record
    BY <1>14 DEF ConfigureProbe
  <2>1. Quit(p) \/ (Walk(p) /\ proc'[p].pc = "install")
    <3>1. [proc[p] EXCEPT !.pc = "install"].pc = "install"
      BY DEF HostProcs, Process
    <3> QED  BY <1>14, <3>1, ConfigureProbeGoes
  <2> QED  BY <2>0, <2>1, EndsSubsides, GoesSubsides, OrderedKept
<1>15. ASSUME NEW p \in Pid, ConfigureInstall(p) PROVE Ordered'
  <2>1. Quit(p) /\ UNCHANGED record
    BY <1>15, ExitsEnds DEF ConfigureInstall, On
  <2> QED  BY <2>1, EndsSubsides, OrderedKept
<1>16. ASSUME NEW p \in Pid, NEW addr \in Addr, NEW storage \in StorageAnswers,
              ConfigureAsk(p, addr, storage)
       PROVE  Ordered'
  <2>0. UNCHANGED record
    BY <1>16 DEF ConfigureAsk
  <2>1. Quit(p) \/ (Walk(p) /\ proc'[p].pc = "probe")
    BY <1>16, ConfigureAskGoes
  <2> QED  BY <2>0, <2>1, EndsSubsides, GoesSubsides, OrderedKept
<1>17. ASSUME NEW p \in Pid, ServerLoads(p) \/ ServerBinds(p) PROVE Ordered'
  <2>0. UNCHANGED record /\ proc[p].kind # "nemr"
    BY <1>17 DEF ServerLoads, ServerBinds
  <2>1. Quit(p) \/ Walk(p)
    BY <1>17, ServerLoadsGoes, ServerBindsGoes
  <2> QED  BY <2>0, <2>1, EndsSubsides, GoesSubsides, OrderedKept
<1>18. ASSUME NEW p \in Pid, NEW env \in Env, ByHand(p, env) PROVE Ordered'
  <2>1. Appears(p) /\ proc'[p].kind = "nemr-sync" /\ UNCHANGED record
    BY <1>18, ByHandAppears DEF ByHand
  <2>2. \A x \in Pid : Subsides(x)
    BY <2>1 DEF Appears, OthersStay, Subsides, Started, On
  <2> QED  BY <2>1, <2>2, OrderedKept
<1>19. ASSUME NEW p \in Pid, CtrlC(p) PROVE Ordered'
  <2>1. UNCHANGED record
    BY <1>19 DEF CtrlC
  <2> QED  BY <1>19, <2>1, CtrlCStops, EndsSubsides, StopsSubsides, OrderedKept
<1>20. ASSUME NEW p \in Pid, NEW q \in Pid, CheckHangs(p, q) PROVE Ordered'
  <2>1. \A x \in Pid : Subsides(x)
    <3>1. /\ \A x \in Pid \ {p, q} : proc'[x] = proc[x]
          /\ proc[p].kind = "nemr" /\ proc'[p].kind = "nemr" /\ proc'[p].pc = "hung"
          /\ proc'[q].kind = "nemr-sync" /\ proc'[q].by = "check"
      BY <1>20, CheckHangsEffect
    <3> QED  BY <3>1 DEF Subsides, Started, On
  <2>2. UNCHANGED record
    BY <1>20 DEF CheckHangs
  <2> QED  BY <2>1, <2>2, OrderedKept
<1>21. ASSUME Turn PROVE Ordered'
  BY <1>21 DEF Turn, Ordered, On, Started
<1> HIDE DEF HostInv
<1> QED  BY <1>1, <1>2, <1>3, <1>4, <1>5, <1>6, <1>7, <1>8, <1>9, <1>10, <1>11, <1>12, <1>13, <1>14,
            <1>15, <1>16, <1>17, <1>18, <1>19, <1>20, <1>21 DEF HostNext

\* What is remembered of an overlap stays remembered.
LEMMA OverlapStays ==
    ASSUME HostNext, overlapped
    PROVE  overlapped'
BY DEF HostNext, Settled, Begin, Sweep, SweepUnlink, CheckAnswers, CheckTimesOut, CheckRefused,
       CheckHangs, StartLook, StartRecord, StartExec, StopSignal, StopWait, StopUnlink, ConfigureRead,
       ConfigureProbe, ConfigureInstall, ConfigureAsk, ServerLoads, ServerBinds, ServerEnds, ByHand,
       Dies, CtrlC, Turn

LEMMA OrderlyInvariant == HostSpec => []Orderly
<1>1. HostInit => Orderly
  BY NoProcessType DEF HostInit, Orderly, Ordered, On, Started
<1>2. HostInv /\ Orderly /\ [HostNext]_hostVars => Orderly'
  <2> SUFFICES ASSUME HostInv, Orderly, [HostNext]_hostVars PROVE Orderly'
    OBVIOUS
  <2>1. CASE HostNext
    <3>1. CASE overlapped'
      BY <3>1 DEF Orderly
    <3>2. CASE ~overlapped'
      BY <2>1, <3>2, OverlapStays, OrderedNext DEF Orderly
    <3> QED  BY <3>1, <3>2
  <2>2. CASE UNCHANGED hostVars
    BY <2>2 DEF hostVars, Orderly, Ordered, On, Started
  <2> QED  BY <2>1, <2>2
<1> QED  BY <1>1, <1>2, HostInvariant, PTL DEF HostSpec

\* server.rs: as long as no two commands overlap, the record names every server
\* that start made, so stop and status find it.
THEOREM ServersAreFound == HostSpec => []RecordFindsServer
<1>1. Orderly => RecordFindsServer
  BY DEF Orderly, Ordered, RecordFindsServer, Started
<1> QED  BY <1>1, OrderlyInvariant, PTL

-------------------------------------------------------------------------------
(* What configure puts in place *)

\* Of old keys these new ones keep what counts, on a host.
Retains(keys, old, on) ==
    \A k \in DOMAIN old :
       \/ k \in DOMAIN keys /\ keys[k] = old[k]
       \/ ~Has(old, k)
       \/ k \in {"dir", "s3"} /\ ~Selects(old, on)

Whole(keys) == Has(keys, "db") /\ Has(keys, "dir") # Has(keys, "s3")

\* What a configure has found and written down is about the file as it is now.
Current(p) ==
    ~overlapped /\ proc[p].since = turns =>
      /\ On(p, "ask") =>
            IF file.state = "absent" THEN proc[p].missing = {}
            ELSE proc[p].missing = Missing(Check(<<>>, file, host)) /\ proc[p].missing # {}
      /\ On(p, "probe") \/ On(p, "install") =>
            Has(proc[p].draft.keys, "pepper") /\ Retains(proc[p].draft.keys, file.keys, host)
      /\ On(p, "install") => Whole(proc[p].draft.keys)

Completing ==
    \A p \in Pid : (On(p, "read") => proc[p].missing = {}) /\ Current(p)

LEMMA MissingMeans ==
    ASSUME NEW f \in Settings, NEW h, NEW m, m = Missing(Check(<<>>, f, h))
    PROVE  /\ f.state = "broken" => m = {}
           /\ f.state # "broken" =>
                /\ "pepper" \in m <=> ~Has(f.keys, "pepper")
                /\ "db" \in m <=> ~Has(f.keys, "db")
                /\ "storage" \in m <=> ~Selects(f.keys, h)
<1> DEFINE v == Load(<<>>, f)
           report == Check(<<>>, f, h)
<1>1. CASE f.state = "broken"
  <2>1. report.backend = "unknown" /\ report.database = "unknown" /\ report.pepper = "unknown"
    BY <1>1 DEF Check
  <2> HIDE DEF report
  <2> QED  BY <1>1, <2>1 DEF Missing, report
<1>2. CASE f.state # "broken"
  <2>1. /\ report.backend = BackendState(v, h) /\ report.database = DatabaseState(v, h)
        /\ report.pepper = "missing" <=> ~Has(v, "pepper")
    BY <1>2 DEF Check, Pepper
  <2>2. report.backend = "unconfigured" <=> ~Selects(v, h)
    BY <2>1 DEF BackendState
  <2>3. report.database = "unconfigured" <=> ~Has(v, "db")
    BY <2>1 DEF DatabaseState
  <2> HIDE DEF report
  <2>4. /\ "pepper" \in m <=> ~Has(v, "pepper")
        /\ "db" \in m <=> ~Has(v, "db")
        /\ "storage" \in m <=> ~Selects(v, h)
    BY <2>1, <2>2, <2>3 DEF Missing, report
  <2>5. /\ \A k : Has(v, k) <=> Has(f.keys, k)
        /\ Has(f.keys, "dir") => v["dir"] = f.keys["dir"]
        /\ Has(f.keys, "s3") => v["s3"] = f.keys["s3"]
    BY LoadAlone DEF Has
  <2>6. Selects(v, h) <=> Selects(f.keys, h)
    BY <2>5 DEF Selects
  <2> QED  BY <1>2, <2>4, <2>5, <2>6
<1> QED  BY <1>1, <1>2

\* What configure asks of a report: there is a database, and one backend.
LEMMA ReportWhole ==
    ASSUME NEW f \in Settings, NEW h, ReportOk(Check(<<>>, f, h))
    PROVE  Whole(f.keys)
<1> DEFINE v == Load(<<>>, f)
           report == Check(<<>>, f, h)
<1>1. f.state # "broken"
  <2> SUFFICES ASSUME f.state = "broken" PROVE FALSE
    OBVIOUS
  <2>1. report.database = "unknown"
    BY DEF Check
  <2> QED  BY <2>1 DEF ReportOk
<1>2. report.backend = BackendState(v, h) /\ report.database = DatabaseState(v, h)
  BY <1>1 DEF Check
<1>3. Selects(v, h) /\ Has(v, "db")
  BY <1>2 DEF ReportOk, BackendState, DatabaseState
<1>4. \A k : Has(v, k) <=> Has(f.keys, k)
  BY LoadAlone DEF Has
<1>5. Has(v, "dir") # Has(v, "s3")
  BY <1>3 DEF Selects, Has
<1> QED  BY <1>3, <1>4, <1>5 DEF Whole, Has

\* The draft keeps what the file had, on the host as the answers leave it.
LEMMA DraftRetains ==
    ASSUME HostInv, NEW p \in Pid, NEW addr \in Addr, NEW storage \in StorageAnswers,
           ConfigureAsk(p, addr, storage),
           proc[p].missing = {} \/ file.state # "absent",
           IF file.state = "absent" THEN proc[p].missing = {}
           ELSE proc[p].missing = Missing(Check(<<>>, file, host)) /\ proc[p].missing # {}
    PROVE  LET keys == Draft(proc[p].missing, addr, storage).keys
           IN  Has(keys, "pepper") /\ Retains(keys, file.keys, host')
<1> DEFINE missing == proc[p].missing
           keys == Draft(missing, addr, storage).keys
<1>0. file \in Settings /\ host \in Host /\ file' = file
  BY DEF HostInv, HostRest, ConfigureAsk
<1>1. CASE missing = {}
  <2>1. file.keys = <<>> /\ DOMAIN file.keys = {}
    BY <1>0, <1>1, KeysOf, Nothing
  <2>2. keys = Composed(addr, storage)
    BY <1>1 DEF Draft, File
  <2>3. Has(keys, "pepper")
    BY <2>2, ComposedType DEF Has
  <2>4. Retains(keys, file.keys, host')
    BY <1>0, <2>1 DEF Retains
  <2> QED  BY <2>3, <2>4
<1>2. CASE missing # {}
  <2> DEFINE w == Addition(missing, storage)
             old == file.keys
  <2>1. missing = Missing(Check(<<>>, file, host)) /\ file.state # "absent"
    BY <1>2
  <2>2. /\ file.state # "broken"
        /\ "pepper" \in missing <=> ~Has(old, "pepper")
        /\ "db" \in missing <=> ~Has(old, "db")
        /\ "storage" \in missing <=> ~Selects(old, host)
    BY <1>0, <1>2, <2>1, MissingMeans
  <2>3. w \in Source /\ old \in Source
    BY <1>0, AdditionType, KeysOf
  <2>4. keys = Over(w, old)
    BY <1>0, <1>2, <2>1, <2>3, AppendedIs DEF Draft
  <2>5. /\ DOMAIN keys = DOMAIN w \cup DOMAIN old
        /\ \A k \in DOMAIN keys : keys[k] = IF k \in DOMAIN w THEN w[k] ELSE old[k]
    <3> HIDE DEF w, keys, old
    <3>1. /\ DOMAIN Over(w, old) = DOMAIN w \cup DOMAIN old
          /\ \A k \in DOMAIN Over(w, old) : Over(w, old)[k] = IF k \in DOMAIN w THEN w[k] ELSE old[k]
      BY <2>3, MergedSource
    <3> QED  BY <2>4, <3>1
  <2>6. /\ \A k : k \in DOMAIN w <=>
              \/ k = "db" /\ "db" \in missing
              \/ k \in DOMAIN storage /\ "storage" \in missing
              \/ k = "pepper" /\ "pepper" \in missing
        /\ "pepper" \in missing => w["pepper"] = "secret"
        /\ \A k \in {"dir", "s3"} : k \in DOMAIN w => w[k] = storage[k]
    BY AdditionType
  <2>7. \/ DOMAIN storage = {"dir"} /\ storage["dir"] \in Dir
        \/ DOMAIN storage = {"s3"} /\ storage["s3"] \in {"whole", "odd"}
    BY AnswerIs
  <2>8. \/ host' = host
        \/ /\ "storage" \in missing /\ Has(storage, "dir")
           /\ host' = [host EXCEPT !.dir[storage["dir"]] = "writable"]
    BY <1>2 DEF ConfigureAsk
  <2> HIDE DEF w, keys, old, missing
  <2>9. Has(keys, "pepper")
    BY <2>2, <2>5, <2>6, <2>7 DEF Has
  <2>10. ASSUME NEW k \in DOMAIN old, Has(old, k), k \notin DOMAIN w \/ keys[k] # old[k]
         PROVE  \/ k \in DOMAIN keys /\ keys[k] = old[k]
                \/ k \in {"dir", "s3"} /\ ~Selects(old, host')
    <3>1. CASE k \notin DOMAIN w
      BY <2>5, <3>1
    <3>2. CASE k \in DOMAIN w
      <4>1. k \in {"dir", "s3"} /\ k \in DOMAIN storage /\ "storage" \in missing
        BY <2>2, <2>6, <2>7, <2>10, <3>2
      <4>2. keys[k] = storage[k] /\ storage[k] # old[k]
        BY <2>5, <2>6, <2>10, <3>2, <4>1
      <4>3. ~Selects(old, host)
        BY <2>2, <4>1
      <4>4. CASE host' = host
        BY <4>1, <4>3, <4>4
      <4>5. CASE Has(storage, "dir") /\ host' = [host EXCEPT !.dir[storage["dir"]] = "writable"]
        <5>0. "dir" \in DOMAIN storage
          BY <4>5 DEF Has
        <5>1. k = "dir" /\ storage["dir"] \in Dir
          BY <2>7, <4>1, <5>0
        <5>2. old["dir"] \in Value("dir") /\ old["dir"] # ""
          BY <2>3, <2>10, <5>1, SourceIs DEF Has
        <5>3. old["dir"] \in Dir /\ old["dir"] # storage["dir"]
          BY <4>2, <5>1, <5>2 DEF Value
        <5>4. host'.dir[old["dir"]] = host.dir[old["dir"]]
          BY <1>0, <4>5, <5>1, <5>3 DEF Host
        <5>5. Selects(old, host') <=> Selects(old, host)
          BY <2>10, <5>1, <5>4 DEF Selects
        <5> QED  BY <4>1, <4>3, <5>5
      <4> QED  BY <2>8, <4>4, <4>5
    <3> QED  BY <3>1, <3>2
  <2>11. Retains(keys, file.keys, host')
    <3>1. \A k \in DOMAIN old : \/ k \in DOMAIN keys /\ keys[k] = old[k]
                                \/ ~Has(old, k)
                                \/ k \in {"dir", "s3"} /\ ~Selects(old, host')
      BY <2>5, <2>10
    <3> QED  BY <3>1 DEF Retains, old
  <2> QED  BY <2>9, <2>11 DEF keys, missing
<1> QED  BY <1>1, <1>2

Filling == {"read", "ask", "probe", "install"}

\* Nobody else fills in a file, and the file and the host are as they were.
LEMMA CompletingKept ==
    ASSUME Completing, UNCHANGED <<file, host, turns>>, overlapped => overlapped',
           \A x \in Pid : proc'[x] = proc[x] \/ \A pc \in Filling : ~On(x, pc)'
    PROVE  Completing'
<1> SUFFICES ASSUME NEW x \in Pid PROVE (On(x, "read")' => proc'[x].missing = {}) /\ Current(x)'
  BY DEF Completing
<1>1. CASE proc'[x] = proc[x]
  BY <1>1 DEF Completing, Current, On
<1>2. CASE \A pc \in Filling : ~On(x, pc)'
  BY <1>2 DEF Current, Filling
<1> QED  BY <1>1, <1>2

\* p, which is the only command or the only one that moves, goes on filling in.
LEMMA CompletingGoes ==
    ASSUME HostInv, Completing, NEW p \in Pid, OthersStay(p),
           UNCHANGED turns, overlapped => overlapped',
           (On(p, "read")' => proc'[p].missing = {}) /\ Current(p)',
           \/ UNCHANGED <<file, host>>
           \/ Ordered /\ proc[p].kind = "nemr"
           \/ overlapped
    PROVE  Completing'
<1> SUFFICES ASSUME NEW x \in Pid PROVE (On(x, "read")' => proc'[x].missing = {}) /\ Current(x)'
  BY DEF Completing
<1>1. CASE x = p
  BY <1>1
<1>2. CASE x # p
  <2>1. proc'[x] = proc[x]
    BY <1>2 DEF OthersStay
  <2>2. On(x, "read")' => proc'[x].missing = {}
    BY <2>1 DEF Completing, On
  <2>3. CASE UNCHANGED <<file, host>>
    BY <2>1, <2>3 DEF Completing, Current, On
  <2>4. CASE Ordered /\ proc[p].kind = "nemr"
    BY <1>2, <2>1, <2>4 DEF Ordered, Current, On
  <2>5. CASE overlapped
    <3>1. overlapped'
      BY <2>5
    <3> QED  BY <2>2, <3>1 DEF Current
  <2> QED  BY <2>2, <2>3, <2>4, <2>5
<1> QED  BY <1>1, <1>2

LEMMA EndsFilling ==
    ASSUME NEW p \in Pid, Quit(p), NEW x \in Pid
    PROVE  proc'[x] = proc[x] \/ \A pc \in Filling : ~On(x, pc)'
BY NoProcessType DEF Quit, OthersStay, On

LEMMA GoesFilling ==
    ASSUME NEW p \in Pid, Walk(p), proc[p].kind # "nemr" \/ proc'[p].pc \notin Filling, NEW x \in Pid
    PROVE  proc'[x] = proc[x] \/ \A pc \in Filling : ~On(x, pc)'
BY DEF Walk, OthersStay, On

LEMMA StopsFilling ==
    ASSUME NEW p \in Pid, NEW q \in Pid, Stops(p, q),
           proc'[p] = NoProcess \/ proc'[p].pc = "wait", NEW x \in Pid
    PROVE  proc'[x] = proc[x] \/ \A pc \in Filling : ~On(x, pc)'
BY NoProcessType DEF Stops, On, Filling

LEMMA BeginMissing ==
    ASSUME HostProcs, HostRest, NEW p \in Pid, NEW does \in Command, NEW env \in Env, Begin(p, does, env)
    PROVE  proc'[p].missing = {}
<1> DEFINE new == [[NoProcess EXCEPT !.kind = "nemr", !.does = does, !.env = env, !.pc = FirstPc(does)]
                     EXCEPT !.born = births + 1]
<1>1. proc' = [proc EXCEPT ![p] = new] /\ proc'[p] = new
  BY DEF Begin, Fork, HostProcs
<1>2. new.missing = {}
  BY DEF NoProcess
<1> QED  BY <1>1, <1>2

LEMMA CompletingNext ==
    ASSUME HostInv, Orderly, Completing, HostNext
    PROVE  Completing'
<1> USE DEF HostInv
<1>0. overlapped => overlapped'
  BY OverlapStays
<1>1. ASSUME NEW p \in Pid, NEW does \in Command, NEW env \in Env, Begin(p, does, env)
      PROVE  Completing'
  <2>1. Appears(p) /\ proc'[p].pc \in {"check", "read", "sweep"} /\ proc'[p].missing = {}
    BY <1>1, BeginAppears, BeginMissing
  <2>2. UNCHANGED <<file, host, turns>> /\ OthersStay(p)
    BY <1>1, <2>1 DEF Begin, Appears
  <2>3. Current(p)'
    BY <2>1 DEF Current, On
  <2> QED  BY <1>0, <2>1, <2>2, <2>3, CompletingGoes
<1>2. ASSUME NEW p \in Pid, Sweep(p) \/ SweepUnlink(p) PROVE Completing'
  <2>1. Walk(p) /\ UNCHANGED <<file, host, turns>>
    BY <1>2, SweepGoes, SweepUnlinkGoes DEF Sweep, SweepUnlink, Settled
  <2>2. PICK pc \in {AfterSweep(p), "unlink"} : proc'[p] = [proc[p] EXCEPT !.pc = pc]
    BY <1>2, SweepGoes, SweepUnlinkGoes
  <2>3. proc'[p].pc = pc /\ pc \notin Filling
    BY <2>2 DEF HostProcs, Process, AfterSweep, Filling
  <2> QED  BY <1>0, <2>1, <2>3, GoesFilling, CompletingKept
<1>4. ASSUME NEW p \in Pid, CheckAnswers(p) PROVE Completing'
  <2>1. Quit(p) \/ (Walk(p) /\ proc'[p].pc = "sweep")
    BY <1>4, CheckAnswersGoes
  <2>2. UNCHANGED <<file, host, turns>> /\ "sweep" \notin Filling
    BY <1>4 DEF CheckAnswers, Settled, Filling
  <2> QED  BY <1>0, <2>1, <2>2, EndsFilling, GoesFilling, CompletingKept
<1>5. ASSUME NEW p \in Pid, CheckTimesOut(p) PROVE Completing'
  <2>1. UNCHANGED <<file, host, turns>>
    BY <1>5 DEF CheckTimesOut, Settled
  <2> QED  BY <1>0, <1>5, <2>1, CheckTimesOutStops, StopsFilling, CompletingKept
<1>6. ASSUME NEW p \in Pid, CheckRefused(p) \/ ServerEnds(p) \/ Dies(p) \/ StopUnlink(p) PROVE Completing'
  <2>1. Quit(p) /\ UNCHANGED <<file, host, turns>>
    BY <1>6, ExitsEnds DEF CheckRefused, ServerEnds, Dies, StopUnlink, Settled, Runs, On
  <2> QED  BY <1>0, <2>1, EndsFilling, CompletingKept
<1>7. ASSUME NEW p \in Pid, StartLook(p) \/ StartRecord(p) \/ StopWait(p) PROVE Completing'
  <2>1. UNCHANGED <<file, host, turns>>
    BY <1>7 DEF StartLook, StartRecord, StopWait, Settled
  <2>2. Quit(p) \/ \E pc \in {"record", "exec", "unlink"} : Walk(p) /\ proc'[p] = [proc[p] EXCEPT !.pc = pc]
    BY <1>7, StartLookGoes, StartRecordGoes, StopWaitGoes
  <2>3. Quit(p) \/ (Walk(p) /\ proc'[p].pc \notin Filling)
    BY <2>2 DEF HostProcs, Process, Filling
  <2> QED  BY <1>0, <2>1, <2>3, EndsFilling, GoesFilling, CompletingKept
<1>9. ASSUME NEW p \in Pid, StartExec(p) PROVE Completing'
  <2>1. UNCHANGED <<file, host, turns>>
    BY <1>9 DEF StartExec, Settled
  <2>2. Execs(p) => \A x \in Pid : proc'[x] = proc[x] \/ \A pc \in Filling : ~On(x, pc)'
    BY DEF Execs, OthersStay, On
  <2> QED  BY <1>0, <1>9, <2>1, <2>2, StartExecTurns, EndsFilling, CompletingKept
<1>10. ASSUME NEW p \in Pid, StopSignal(p) PROVE Completing'
  <2>1. UNCHANGED <<file, host, turns>>
    BY <1>10 DEF StopSignal, Settled
  <2> QED  BY <1>0, <1>10, <2>1, StopSignalStops, EndsFilling, StopsFilling, CompletingKept
<1>13. ASSUME NEW p \in Pid, ConfigureRead(p) PROVE Completing'
  <2>0. proc[p].since \in 0..turns /\ UNCHANGED <<file, host, turns>> /\ proc[p].missing = {}
    BY <1>13 DEF ConfigureRead, On, ProcessInv, Named, Settled, Completing
  <2>1. CASE Quit(p)
    BY <1>0, <2>0, <2>1, EndsFilling, CompletingKept
  <2>2. CASE /\ Walk(p) /\ proc'[p].pc = "ask" /\ proc'[p].since = turns
             /\ IF file.state = "absent" THEN proc'[p].missing = proc[p].missing
                ELSE /\ proc'[p].missing = Missing(Check(<<>>, file, host))
                     /\ proc'[p].missing # {}
    <3>1. Current(p)' /\ ~On(p, "read")' /\ OthersStay(p)
      BY <2>0, <2>2 DEF Current, On, Walk
    <3> QED  BY <1>0, <2>0, <3>1, CompletingGoes
  <2> QED  BY <1>13, <2>0, <2>1, <2>2, ConfigureReadGoes
<1>14. ASSUME NEW p \in Pid, ConfigureProbe(p) PROVE Completing'
  <2>0. UNCHANGED <<file, host, turns>> /\ On(p, "probe") /\ proc[p].kind = "nemr"
    BY <1>14 DEF ConfigureProbe, Settled, On
  <2>1. CASE Quit(p)
    BY <1>0, <2>0, <2>1, EndsFilling, CompletingKept
  <2>2. CASE /\ Walk(p) /\ proc'[p] = [proc[p] EXCEPT !.pc = "install"]
             /\ ReportOk(Check(<<>>, proc[p].draft, host))
    <3>1. /\ proc'[p].pc = "install" /\ proc'[p].since = proc[p].since
          /\ proc'[p].draft = proc[p].draft /\ OthersStay(p) /\ proc[p].draft \in Settings
      BY <2>2 DEF HostProcs, Process, Walk
    <3>2. Whole(proc[p].draft.keys)
      BY <2>2, <3>1, ReportWhole
    <3>3. Current(p)' /\ ~On(p, "read")'
      BY <1>0, <2>0, <3>1, <3>2 DEF Current, Completing, On
    <3> QED  BY <1>0, <2>0, <3>1, <3>3, CompletingGoes
  <2> QED  BY <1>14, <2>1, <2>2, ConfigureProbeGoes
<1>15. ASSUME NEW p \in Pid, ConfigureInstall(p) PROVE Completing'
  <2>1. Quit(p) /\ UNCHANGED turns /\ proc[p].kind = "nemr"
    BY <1>15, ExitsEnds DEF ConfigureInstall, On
  <2>2. OthersStay(p) /\ ~On(p, "read")' /\ Current(p)'
    BY <2>1, NoProcessType DEF Quit, On, Current
  <2> QED  BY <1>0, <2>1, <2>2, CompletingGoes DEF Orderly
<1>16. ASSUME NEW p \in Pid, NEW addr \in Addr, NEW storage \in StorageAnswers,
              ConfigureAsk(p, addr, storage)
       PROVE  Completing'
  <2>0. UNCHANGED <<file, turns, overlapped>> /\ On(p, "ask") /\ proc[p].kind = "nemr"
    BY <1>16 DEF ConfigureAsk, On
  <2>1. CASE Quit(p)
    <3>1. OthersStay(p) /\ ~On(p, "read")' /\ Current(p)'
      BY <2>1, NoProcessType DEF Quit, On, Current
    <3> QED  BY <1>0, <2>0, <3>1, CompletingGoes DEF Orderly
  <2>2. CASE /\ Walk(p) /\ proc'[p].pc = "probe" /\ proc'[p].since = proc[p].since
             /\ proc'[p].draft = Draft(proc[p].missing, addr, storage)
             /\ proc[p].missing = {} \/ file.state # "absent"
    <3>1. ASSUME ~overlapped, proc[p].since = turns
          PROVE  /\ Has(proc'[p].draft.keys, "pepper")
                 /\ Retains(proc'[p].draft.keys, file.keys, host')
      <4>1. IF file.state = "absent" THEN proc[p].missing = {}
            ELSE proc[p].missing = Missing(Check(<<>>, file, host)) /\ proc[p].missing # {}
        BY <2>0, <3>1 DEF Completing, Current
      <4>2. LET keys == Draft(proc[p].missing, addr, storage).keys
            IN  Has(keys, "pepper") /\ Retains(keys, file.keys, host')
        BY <1>16, <2>2, <4>1, DraftRetains
      <4> QED  BY <2>2, <4>2
    <3>2. Current(p)' /\ ~On(p, "read")' /\ OthersStay(p)
      BY <2>0, <2>2, <3>1 DEF Current, On, Walk
    <3> QED  BY <1>0, <2>0, <3>2, CompletingGoes DEF Orderly
  <2> QED  BY <1>16, <2>1, <2>2, ConfigureAskGoes
<1>17. ASSUME NEW p \in Pid, ServerLoads(p) \/ ServerBinds(p) PROVE Completing'
  <2>0. UNCHANGED <<file, host, turns>> /\ proc[p].kind # "nemr"
    BY <1>17 DEF ServerLoads, ServerBinds, Settled
  <2>1. Quit(p) \/ Walk(p)
    BY <1>17, ServerLoadsGoes, ServerBindsGoes
  <2> QED  BY <1>0, <2>0, <2>1, EndsFilling, GoesFilling, CompletingKept
<1>18. ASSUME NEW p \in Pid, NEW env \in Env, ByHand(p, env) PROVE Completing'
  <2>1. Appears(p) /\ proc'[p].kind = "nemr-sync" /\ UNCHANGED <<file, host, turns>>
    BY <1>18, ByHandAppears DEF ByHand, Settled
  <2>2. \A x \in Pid : proc'[x] = proc[x] \/ \A pc \in Filling : ~On(x, pc)'
    BY <2>1 DEF Appears, OthersStay, On
  <2> QED  BY <1>0, <2>1, <2>2, CompletingKept
<1>19. ASSUME NEW p \in Pid, CtrlC(p) PROVE Completing'
  <2>1. UNCHANGED <<file, host, turns>>
    BY <1>19 DEF CtrlC, Settled
  <2> QED  BY <1>0, <1>19, <2>1, CtrlCStops, EndsFilling, StopsFilling, CompletingKept
<1>20. ASSUME NEW p \in Pid, NEW q \in Pid, CheckHangs(p, q) PROVE Completing'
  <2>1. \A x \in Pid : proc'[x] = proc[x] \/ \A pc \in Filling : ~On(x, pc)'
    <3>1. /\ \A x \in Pid \ {p, q} : proc'[x] = proc[x]
          /\ proc'[p].pc = "hung" /\ proc'[q].kind = "nemr-sync"
      BY <1>20, CheckHangsEffect
    <3> QED  BY <3>1 DEF On, Filling
  <2>2. UNCHANGED <<file, host, turns>>
    BY <1>20 DEF CheckHangs, Settled
  <2> QED  BY <1>0, <2>1, <2>2, CompletingKept
<1>21. ASSUME Turn PROVE Completing'
  <2>1. turns' = turns + 1 /\ proc' = proc /\ turns \in Nat
    BY <1>21, HostCounts DEF Turn
  <2>2. \A x \in Pid : proc[x].since # turns' \/ proc[x] = NoProcess
    BY <2>1, NoProcessType DEF ProcessInv, Named
  <2> QED  BY <2>1, <2>2, NoProcessType DEF Completing, Current, On
<1> HIDE DEF HostInv
<1> QED  BY <1>1, <1>2, <1>4, <1>5, <1>6, <1>7, <1>9, <1>10, <1>13, <1>14,
            <1>15, <1>16, <1>17, <1>18, <1>19, <1>20, <1>21 DEF HostNext

LEMMA CompletingInvariant == HostSpec => []Completing
<1>1. HostInit => Completing
  BY NoProcessType DEF HostInit, Completing, Current, On
<1>2. HostInv /\ Orderly /\ Completing /\ [HostNext]_hostVars => Completing'
  <2>1. ASSUME Completing, UNCHANGED hostVars PROVE Completing'
    BY <2>1 DEF hostVars, Completing, Current, On
  <2> QED  BY <2>1, CompletingNext
<1> QED  BY <1>1, <1>2, HostInvariant, OrderlyInvariant, PTL DEF HostSpec

\* configure.rs: a file that configure puts in place lacks nothing, and keeps every
\* value of the file that was there, for every file and every answer.
THEOREM InstallsComplete == HostSpec => InstallOnlyCompletes
<1> DEFINE Completes == \A p \in Pid :
              On(p, "install") /\ ~On(p, "install")' /\ file' # file
              /\ ~overlapped /\ proc[p].since = turns =>
                 /\ \A k \in {"db", "pepper"} : Has(file'.keys, k)
                 /\ Has(file'.keys, "dir") # Has(file'.keys, "s3")
                 /\ \A k \in DOMAIN file.keys :
                       \/ file'.keys[k] = file.keys[k]
                       \/ ~Has(file.keys, k)
                       \/ k \in {"dir", "s3"} /\ ~Selects(file.keys, host)
<1>1. HostInv /\ Completing /\ [HostNext]_hostVars => Completes
  <2> SUFFICES ASSUME HostInv, Completing, HostNext, NEW p \in Pid,
                      On(p, "install"), ~On(p, "install")', file' # file,
                      ~overlapped, proc[p].since = turns
               PROVE  /\ \A k \in {"db", "pepper"} : Has(file'.keys, k)
                      /\ Has(file'.keys, "dir") # Has(file'.keys, "s3")
                      /\ \A k \in DOMAIN file.keys :
                            \/ file'.keys[k] = file.keys[k]
                            \/ ~Has(file.keys, k)
                            \/ k \in {"dir", "s3"} /\ ~Selects(file.keys, host)
    BY SMTT(60) DEF hostVars
  <2>1. PICK q \in Pid : ConfigureInstall(q)
    <3>1. ~Turn
      BY DEF Turn, On
    <3> QED  BY <3>1 DEF HostNext, Settled, Begin, Sweep, SweepUnlink, CheckAnswers, CheckTimesOut,
                CheckRefused, CheckHangs, StartLook, StartRecord, StartExec, StopSignal, StopWait,
                StopUnlink, ConfigureRead, ConfigureProbe, ConfigureAsk, ServerLoads, ServerBinds,
                ServerEnds, ByHand, Dies, CtrlC
  <2>2. q = p
    <3>1. q # p => proc'[p] = proc[p]
      BY <2>1, ExitsEffect DEF ConfigureInstall, HostInv, OthersStay
    <3> QED  BY <3>1 DEF On
  <2>3. file' = proc[p].draft
    BY <2>1, <2>2 DEF ConfigureInstall
  <2>4. /\ Has(proc[p].draft.keys, "pepper") /\ Retains(proc[p].draft.keys, file.keys, host)
        /\ Whole(proc[p].draft.keys)
    BY DEF Completing, Current
  <2> QED  BY <2>3, <2>4 DEF Whole, Retains
<1>2. [][Completes]_hostVars => InstallOnlyCompletes
  BY DEF InstallOnlyCompletes
<1> QED  BY <1>1, <1>2, HostInvariant, CompletingInvariant, PTL DEF HostSpec

===============================================================================
