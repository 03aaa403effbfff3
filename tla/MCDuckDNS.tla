------------------------------ MODULE MCDuckDNS ------------------------------
(* Small instances of DuckDNS.                                             *)
EXTENDS DuckDNS, TLC

CONSTANTS k1, k2, l1, l2, l3, l4, d1, d2, u1, t1, n1, n2, m1, addr, cloud

\* u1 is d1 with white space around it, m1 the name that comes of it.
TrimEach == [x \in Domain \cup Token \cup {None} |-> IF x = u1 THEN d1 ELSE x]
FullEach == [x \in Domain \cup {None} |->
               CASE x = d1 -> n1 [] x = d2 -> n2 [] x = u1 -> m1 [] OTHER -> None]

\* One account owns both domains.
OneAccount == {d1, d2} \X {t1}

\* An appliance that was configured with a spelling of its domain, untested.
Configured == {[host |-> n1, cred |-> <<u1, t1>>]}

\* The same domain, and another.
AskedFor == {<<u1, t1>>, <<d2, t1>>}
Symmetry == Permutations(Poster) \cup Permutations(Loop)
=============================================================================
