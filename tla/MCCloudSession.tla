---- MODULE MCCloudSession ----
EXTENDS CloudSession

Holder == 7
Remotes == [name : 1 .. 3, stored : {Unknown, 5}, size : {0, 3}, holder : {Unknown, Holder}]
Locals == [name : 1 .. 3, running : BOOLEAN, known : BOOLEAN, used : {9}]
Lists(S) == {<<>>} \cup {<<e>> : e \in S} \cup {l \in S \X S : l[1].name # l[2].name}

\* core.rs: a session is listed once whatever has it, in the order of the names, as where
\* it really is; its size is what it uses here before anything a push left on the server
\* (F-17), and who holds it shows wherever it is.
ASSUME EverySessionOnce ==
    \A remote \in Lists(Remotes), local \in Lists(Locals) :
        LET rows == Rows(remote, local)
            In(list, name) == \E i \in DOMAIN list : list[i].name = name
        IN  /\ \A i, j \in DOMAIN rows : i < j => rows[i].name < rows[j].name
            /\ \A name \in 1 .. 3 : In(rows, name) <=> In(remote, name) \/ In(local, name)
            /\ \A i \in DOMAIN rows :
                  /\ rows[i].location \in {"local", "both"} <=> In(local, rows[i].name)
                  /\ rows[i].location \in {"remote", "both"} <=> In(remote, rows[i].name)
                  /\ rows[i].running <=>
                        \E k \in DOMAIN local : local[k].name = rows[i].name /\ local[k].running
                  /\ rows[i].holder = Holder <=>
                        \E k \in DOMAIN remote :
                           remote[k].name = rows[i].name /\ remote[k].holder = Holder
                  /\ rows[i].size = 9 <=>
                        \E k \in DOMAIN local : local[k].name = rows[i].name /\ local[k].known
                  /\ rows[i].size = Unknown =>
                        \A k \in DOMAIN remote : remote[k].name = rows[i].name =>
                           remote[k].stored = Unknown /\ remote[k].size = 0
                  /\ rows[i].size = 3 =>
                        \A k \in DOMAIN remote : remote[k].name = rows[i].name =>
                           remote[k].stored = Unknown
====
