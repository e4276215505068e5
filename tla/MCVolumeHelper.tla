---- MODULE MCVolumeHelper ----
EXTENDS VolumeHelper, VolumeSizes

\* The way of a size, for every size below Wide and every amount of free space:
\* what is shown is read back, and what the command accepts is mounted.
ASSUME SizesArrive ==
    \A b \in 0..(Wide - 1) :
       /\ Parse(Display(b)) = b
       /\ \A free \in 0..(Wide - 1) :
             Resolve(b, free) # Refused =>
                /\ Resolve(b, free) = Normalizes(b)
                /\ Mounts(Display(Resolve(b, free)))
                /\ Allocated(Display(Resolve(b, free))) <= free

\* Of the amounts the prompt names none is refused, and of all others each is; what it
\* fills in is one of those it names, where it names any.
ASSUME PromptIsRight ==
    \A unit \in {MB, GB}, avail \in 0..(Wide \div Block) :
       LET free == FreeBytes(avail)
           named == Least(unit)..Most(unit, free)
       IN  /\ \A amount \in 0..(Wide - 1) : (Asked(amount, unit, free) # Refused) = (amount \in named)
           /\ named # {} => \A default \in 0..(Wide - 1) : FilledIn(default, unit, free) \in named

\* Whatever bytes the paths have, the mount table answers for the path that was asked
\* for and no other: whether something is mounted there, what was mounted first, and
\* whether that carries on.
Path == UNION {[1..n -> {32, 92, 48, 52, 97}] : n \in 1..3} \cup {<<92, 48, 52, 48>>, <<9, 10, 97, 98>>}
Line(path, device) == [target |-> Escaped(path), device |-> device, tags |-> {"shared"}]
ASSUME MountTableIsRead ==
    \A p, q \in Path :
       LET table == <<Line(p, 1), Line(q, 2), Line(p, 3)>>
       IN  /\ Targets(table) = {p, q} /\ HasTarget(table, p)
           /\ HasTarget(<<Line(p, 1)>>, q) = (p = q)
           /\ DeviceFor(table, p) = 1
           /\ DeviceFor(table, q) = (IF p = q THEN 1 ELSE 2)
           /\ Propagation(<<[Line(p, 1) EXCEPT !.tags = {"master"}], Line(q, 2)>>, p) = "Private"
           /\ Propagation(<<Line(q, 1)>>, p) = (IF p = q THEN "Shared" ELSE "Unknown")
====
