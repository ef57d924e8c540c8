------------------------------- MODULE Exchange -------------------------------
(***************************************************************************)
(* What a proxied connection promises, whatever its two goroutines, the    *)
(* application and the network do: there is one stream at most, and both   *)
(* ends hold it until they end.  The request is on it before the server    *)
(* acts on it, the host is connected before the server confirms it, and an *)
(* answer is there before the client relays.  A SOCKS application is told  *)
(* of a confirmation only.  Each of these happens once, and nothing        *)
(* happens at an end that has ended.  It does not promise that a relaying  *)
(* client has a server that still relays, nor that the application of a    *)
(* relay was told: a first read that is not the whole confirmation goes    *)
(* into the relay (OnBodyDo in clientcontroll/controll.go).                *)
(***************************************************************************)

VARIABLES kind,      \* "socks" and "http" want a connection, "dns" a reply
          client,    \* "idle", then "open", "asked", "relay"; "ended"
          server,    \* "none", then "serving", "dialed", "relay"; "ended"
          asked,     \* the request is on the stream
          answer,    \* so is a "confirm" or a "reply"; "none"
          told       \* a SOCKS application knows of a confirmation

vars == <<kind, client, server, asked, answer, told>>

Init ==
    /\ kind \in {"socks", "http", "dns"}
    /\ client = "idle" /\ server = "none"
    /\ asked = FALSE /\ answer = "none" /\ told = FALSE

Open ==
    /\ client = "idle" /\ server = "none"
    /\ client' = "open" /\ server' = "serving"
    /\ UNCHANGED <<kind, asked, answer, told>>

Ask ==
    /\ client = "open"
    /\ client' = "asked" /\ asked' = TRUE
    /\ UNCHANGED <<kind, server, answer, told>>

Dial ==
    /\ server = "serving" /\ asked
    /\ server' = "dialed"
    /\ UNCHANGED <<kind, client, asked, answer, told>>

Confirm ==
    /\ server = "dialed" /\ answer = "none"
    /\ server' = "relay" /\ answer' = "confirm"
    /\ UNCHANGED <<kind, client, asked, told>>

\* The host was a query: no connection is made.
Lookup ==
    /\ kind # "http" /\ server = "serving" /\ asked /\ answer = "none"
    /\ server' = "ended" /\ answer' = "reply"
    /\ UNCHANGED <<kind, client, asked, told>>

Relay ==
    /\ kind # "dns" /\ client = "asked" /\ answer # "none"
    /\ client' = "relay"
    /\ told' => kind = "socks" /\ answer = "confirm"
    /\ told' \in BOOLEAN
    /\ UNCHANGED <<kind, server, asked, answer>>

ClientEnds ==
    /\ client # "ended"
    /\ client' = "ended"
    /\ UNCHANGED <<kind, server, asked, answer, told>>

ServerEnds ==
    /\ server \in {"serving", "dialed", "relay"}
    /\ server' = "ended"
    /\ UNCHANGED <<kind, client, asked, answer, told>>

Next ==
    \/ Open \/ Ask \/ Dial \/ Confirm \/ Lookup \/ Relay
    \/ ClientEnds \/ ServerEnds

Spec == Init /\ [][Next]_vars
===============================================================================
