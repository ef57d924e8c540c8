----------------------------- MODULE MCTunnelBook -----------------------------
(* The instance of TunnelRegistry that is checked against TunnelBook, with *)
(* a check of the helper both describe deletions by.                       *)
EXTENDS TunnelRegistry

\* On lists without repetition Without is the filter of DelProxy's loop.
Lists == {s \in UNION {[1..n -> Tunnel] : n \in 0..Cardinality(Tunnel)} :
             \A i, j \in DOMAIN s : s[i] = s[j] => i = j}
ASSUME WithoutIsFilter ==
    \A s \in Lists, t \in Tunnel :
      Without(s, t) = SelectSeq(s, LAMBDA u : u # t)
===============================================================================
