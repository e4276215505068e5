---- MODULE MCSyncServer ----
EXTENDS SyncServer, TLC
\* Nobody is one of the machines and fills columns nothing reads, so what the system
\* does next is the same when the machines change names.
Symmetry == Permutations(Machine) \cup Permutations(Body) \cup Permutations(Req)
====
