------------------------------ MODULE TunnelBook ------------------------------
(***************************************************************************)
(* What the server's list of tunnels promises to its readers, whatever     *)
(* handlers run concurrently: a tunnel is listed once, at the end; every   *)
(* other change leaves some of the tunnels listed so far, in the order in  *)
(* which they were listed.  It does not promise that an entry stays until  *)
(* it is deleted, nor that a deleted entry stays away: proxy_release.go    *)
(* stores filtered copies of lists that may be out of date.                *)
(***************************************************************************)
EXTENDS Naturals, Sequences

CONSTANT Tunnel

VARIABLES book,      \* the list
          clock,     \* how many tunnels were listed so far
          listedAt   \* when a tunnel was listed; 0: never

vars == <<book, clock, listedAt>>

Ordered(s) ==
    /\ \A i \in DOMAIN s : listedAt[s[i]] > 0
    /\ \A i, j \in DOMAIN s : i < j => listedAt[s[i]] < listedAt[s[j]]

Init ==
    /\ book = <<>>
    /\ clock = 0
    /\ listedAt = [t \in Tunnel |-> 0]

List(t) ==
    /\ listedAt[t] = 0
    /\ book' = Append(book, t)
    /\ clock' = clock + 1
    /\ listedAt' = [listedAt EXCEPT ![t] = clock']

Rewrite ==
    /\ Ordered(book')
    /\ UNCHANGED <<clock, listedAt>>

Next == (\E t \in Tunnel : List(t)) \/ Rewrite

Spec == Init /\ [][Next]_vars
===============================================================================
