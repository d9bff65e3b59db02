------------------------------ MODULE MCMemory ------------------------------
(* Exploration stops at an unusual event, after which little is promised.  *)
(* States that differ by a permutation of the physical pages are the same: *)
(* the view counts pages, and keeps what is mapped and who shares it.      *)
EXTENDS Memory
Explore == mem.odd = {}
SbrkDeltas == {5, -5, -8}
Shape(p) ==
    LET s == mem.space[proc[p].pgdir] IN
    IF p \notin UsersOf(proc[p].pgdir) THEN <<>>
    ELSE <<{v \in VPage : s.pte[v] # 0}, {t \in Table : s.utab[t] # 0}, UsersOf(proc[p].pgdir)>>
View ==
    <<Cardinality(mem.free), Cardinality(mem.lost), mem.odd, mem.panic, PagesOwned, SizeIsExtent,
      [p \in Proc |-> <<Shape(p), [proc[p] EXCEPT !.pgdir = 0, !.kstack = @ # 0]>>]>>
=============================================================================
