---- MODULE MCSessionNetwork ----
(* One instance, two regimes, chosen at the start and kept.  Alone: requests come
   one at a time, no task is wedged, and two indices can be given out.  Together:
   every slot works at once, a task may wedge, and there is one index to fight
   over: where the code would give out a second, it answers that none is free. *)
EXTENDS SessionNetwork, TLC

\* The slots are interchangeable; the names are not (Legacy, Idle).  For
\* NetworkEdited.cfg: liveness is checked without it.
SlotSymmetry == Permutations(Slot)

VARIABLE alone

MCInit == Init /\ alone \in BOOLEAN

OneAtATime == \A r, s \in Slot : rpc'[r].pc # "idle" /\ rpc'[s].pc # "idle" => r = s
NoneWedged == \A r \in Slot : On(r, "stopTask") /\ rpc'[r].pc \in {"disconnect", "afterStop"}
                              => task'[N(r)] = Nobody
OneIndex == \A r \in Slot : rpc'[r].index # 1

MCNext ==
    /\ Next
    /\ IF alone THEN OneAtATime /\ NoneWedged ELSE OneIndex
    /\ UNCHANGED alone

\* Both regimes leave every request a way on: a step that OneIndex or NoneWedged
\* forbids has another outcome that they allow.
MCSpec == MCInit /\ [][MCNext]_<<vars, alone>> /\ Fairness

\* netns.rs: a range some host route claims is never allocated from, whatever stands
\* before the route and however it is summarised; a default route claims nothing.  The
\* reference is the interval of addresses a prefix stands for.
Claims(high, len) ==
    LET size == IF len < OursLen THEN 2 ^ (OursLen - len) ELSE 1
        first == high - (high % size)
    IN  len \in 1 .. 32 /\ first <= OursHigh /\ OursHigh < first + size
Word(word) == [NoPrefix EXCEPT !.word = word]

ASSUME RangeIsChecked ==
    /\ ~RangeIsFree(FALSE, <<>>) /\ RangeIsFree(TRUE, <<>>)
    /\ RangeIsFree(TRUE, <<<<Word("default"), Word("via"), Prefix(OursHigh, 16)>>>>)
    /\ \A a \in {0, 9, 10, 11, 138, 255}, b \in 0 .. 255, len \in 0 .. 33 :
          LET route == Prefix(256 * a + b, len)
              other == <<Prefix(11 * 256, 8), Word("dev")>>
          IN  \A line \in {<<route>>, <<route, Word("dev")>>, <<Word("blackhole"), route>>} :
                 RangeIsFree(TRUE, <<other, line>>) <=> ~Claims(256 * a + b, len)

\* A request at a time, a wired session is wired on the index its own record
\* carries (LinkLeadsHome): netns.rs derives addresses and link name from it, and
\* the forwards lead there.  Two requests that overlap on one name may break it.
AloneLinkLeadsHome == alone => LinkLeadsHome

\* A request at a time, connect and disconnect delete the link by its name, and
\* the link they delete is never that of another project's session.
AloneOthersKeepTheirLink ==
    [][alone => \A r \in Slot :
         (StartConnect(r) \/ Disconnect(r)) /\ I(r) \in Index
         => link[I(r)] \in {N(r), Nobody}]_<<vars, alone>>
===============================================================================
