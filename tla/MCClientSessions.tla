--------------------------- MODULE MCClientSessions ---------------------------
(* ClientSessions for TLC: requests are alike, and so are the others.  The *)
(* properties of the run are invariants, for which this is sound.          *)
EXTENDS ClientSessions, TLC

Alike == Permutations(Request) \cup Permutations(Other)

\* The search is cut where a third session is made after two requests met in
\* GetSession.  A request that meets two dead sessions, of others too, and
\* builds one takes three; ClientSessionsProofs has no such bound.
TwoIfCrowded == crowded => made <= 2
===============================================================================
