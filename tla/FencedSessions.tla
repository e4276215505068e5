---------------------------- MODULE FencedSessions ----------------------------
(***************************************************************************)
(* What the sync server promises about a session, with no request, clock   *)
(* or statement in sight (D-03, lease.rs:1-10).  A session is opened once  *)
(* and closed once.  While it is open, each hold has an epoch of its own,  *)
(* larger than every earlier one, and any machine may start one at any     *)
(* time (a takeover); the bundle on record changes only while a hold       *)
(* stands; while one stands only its owner may close the session, and a    *)
(* closed session has no hold and no bundle ever again.                    *)
(***************************************************************************)
EXTENDS Integers

CONSTANTS Id, Machine, Body, NoBody

VARIABLES
    status,  \* id -> "new", "open" or "closed"
    epoch,   \* id -> the epoch of the newest hold; 0 before the first
    owner,   \* id -> the machine of the newest hold
    held,    \* id -> whether that hold still stands
    value    \* id -> the bundle on record

sessionVars == <<status, epoch, owner, held, value>>

Init ==
    /\ status = [i \in Id |-> "new"]
    /\ epoch = [i \in Id |-> 0]
    /\ owner \in [Id -> Machine]
    /\ held = [i \in Id |-> FALSE]
    /\ value = [i \in Id |-> NoBody]

Open(i) ==
    /\ status[i] = "new"
    /\ status' = [status EXCEPT ![i] = "open"]
    /\ UNCHANGED <<epoch, owner, held, value>>

\* A new hold; slow enough a grant, and it has lapsed when it is written.
Hold(i, m) ==
    /\ status[i] = "open"
    /\ epoch' = [epoch EXCEPT ![i] = @ + 1]
    /\ owner' = [owner EXCEPT ![i] = m]
    /\ \E h \in BOOLEAN : held' = [held EXCEPT ![i] = h]
    /\ UNCHANGED <<status, value>>

\* Holds lapse: time passed, or the holder let go.
Lapse(S) ==
    /\ held' = [i \in Id |-> held[i] /\ i \notin S]
    /\ UNCHANGED <<status, epoch, owner, value>>

Record(i, b) ==
    /\ held[i]
    /\ value' = [value EXCEPT ![i] = b]
    /\ UNCHANGED <<status, epoch, owner, held>>

Close(i, m) ==
    /\ status[i] = "open"
    /\ held[i] => owner[i] = m
    /\ status' = [status EXCEPT ![i] = "closed"]
    /\ epoch' = [epoch EXCEPT ![i] = 0]
    /\ held' = [held EXCEPT ![i] = FALSE]
    /\ value' = [value EXCEPT ![i] = NoBody]
    /\ UNCHANGED owner

Next ==
    \/ \E i \in Id : Open(i)
    \/ \E i \in Id, m \in Machine : Hold(i, m) \/ Close(i, m)
    \/ \E S \in SUBSET Id : Lapse(S)
    \/ \E i \in Id, b \in Body : Record(i, b)

Spec == Init /\ [][Next]_sessionVars

===============================================================================
