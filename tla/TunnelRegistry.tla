---------------------------- MODULE TunnelRegistry ----------------------------
(***************************************************************************)
(* The server's list of tunnels (servercontroll/server.go, Tunnels), the   *)
(* HTTP handlers that read and rewrite it (all_servers.go) through         *)
(* GetProxy, AddProxy, DelProxy and NewProxyByErrCount                     *)
(* (proxy_release.go), and the life of the server goroutine that           *)
(* ProxyTunnel.Start forks for a tunnel (connections/base/proxytunnel.go). *)
(*                                                                         *)
(* A step is what a goroutine does between two accesses to state that      *)
(* other goroutines write.  A LockArea is one step, because nothing in it  *)
(* blocks; the reads of Tunnels, ErrTypeCount and On made outside a        *)
(* LockArea are steps of their own, as the code leaves them unlocked.      *)
(***************************************************************************)
EXTENDS Integers, Sequences, FiniteSets

CONSTANTS
    Request,   \* goroutines of net/http (or the nightly timer), one per request
    Server,    \* goroutines that Start forks; bounds the starts of an instance
    Tunnel,    \* the tunnels NewProxy can make
    Port,      \* the ports GiveAPort can draw
    Kinds,     \* the requests the instance receives
    Wanted,    \* the type strings that clients send
    None       \* no tunnel, no type, no port

Types == {"tls", "kcp", "quic"}                      \* the keys of ErrTypeCount
AllKinds == {"get", "typed", "err", "new", "del", "all", "update"}

Goroutine == Request \cup Server

ASSUME RegistryAssumption ==
    /\ Request \cap Server = {}
    /\ Kinds \subseteq AllKinds
    /\ None \notin Tunnel \cup Port \cup Types \cup Wanted \cup AllKinds

VARIABLES
    registry,  \* Tunnels
    lastUse,   \* lastUse
    errCount,  \* ErrTypeCount
    stuck,     \* lock is held by a goroutine that panicked in a LockArea
    typ, port, \* config of the tunnels made so far
    on,        \* ProxyTunnel.On
    bound,     \* the tunnels whose socket is bound
    ufw,       \* the ports the firewall allows
    pc, kind,  \* where a goroutine stands, and the request it serves
    want,      \* its argument: the type of tunnel asked for
    tun,       \* its tunnel: tu in a handler, pt in a server goroutine
    todo,      \* the IDs it still has to pass to DelProxy
    snap,      \* the slice DelProxy ranges over
    num,       \* DelProxy's num
    tries      \* GetProxy's loop counter

\* History, read by no action: the calls of AddProxy so far, which of them
\* listed a tunnel (0: none), whether the list ever got shorter, how often
\* DelProxy counted a tunnel of a type as failed, and the tunnels whose port
\* DelProxy shut in the firewall.
VARIABLES adds, addedAt, shrunk, removals, shut

tunnelVars == <<typ, port, on, bound, ufw>>
listVars   == <<registry, lastUse, errCount, stuck>>
localVars  == <<kind, want, tun, todo, snap, num, tries>>
history    == <<adds, addedAt, shrunk, removals, shut>>
vars       == <<tunnelVars, listVars, pc, localVars, history>>

Elems(s) == {s[i] : i \in DOMAIN s}
Goto(g, l) == pc' = [pc EXCEPT ![g] = l]

-----------------------------------------------------------------------------
Init ==
    /\ registry = <<>>
    /\ lastUse = 0
    /\ errCount = [ty \in Types |-> 0]
    /\ stuck = FALSE
    /\ typ = [t \in Tunnel |-> None]
    /\ port = [t \in Tunnel |-> None]
    /\ on = [t \in Tunnel |-> FALSE]
    /\ bound = {}
    /\ ufw = {}
    /\ pc = [g \in Goroutine |-> "idle"]
    /\ kind = [g \in Goroutine |-> None]
    /\ want = [g \in Goroutine |-> None]
    /\ tun = [g \in Goroutine |-> None]
    /\ todo = [g \in Goroutine |-> <<>>]
    /\ snap = [g \in Goroutine |-> <<>>]
    /\ num = [g \in Goroutine |-> 0]
    /\ tries = [g \in Goroutine |-> 0]
    /\ adds = 0
    /\ addedAt = [t \in Tunnel |-> 0]
    /\ shrunk = FALSE
    /\ removals = [ty \in Types |-> 0]
    /\ shut = {}

-----------------------------------------------------------------------------
(* A request arrives.  Only a tunnel that was made has an ID to name; an   *)
(* ID that is in no list is one of a tunnel already removed or, for        *)
(* /proxy-new, never listed.                                               *)

Made == {t \in Tunnel : typ[t] # None}

Arrive(r, k, l, ids, w) ==
    /\ pc[r] = "idle"
    /\ k \in Kinds
    /\ Goto(r, l)
    /\ kind' = [kind EXCEPT ![r] = k]
    /\ todo' = [todo EXCEPT ![r] = ids]
    /\ want' = [want EXCEPT ![r] = w]
    /\ UNCHANGED <<tunnelVars, listVars, tun, snap, num, tries, history>>

ProxyGet(r)   == Arrive(r, "get", "count", <<>>, "quic")
ProxyTyped(r) == \E w \in Wanted : Arrive(r, "typed", "scan", <<>>, w)
ProxyNew(r)   == Arrive(r, "new", "create", <<>>, "tls")

\* The handlers assert the types of what they find in the body without a
\* check.  A /proxy-del whose "msg" is no string, or whose body was not read,
\* and a /proxy-err whose "ID" or a member of whose "Host" is none, end in a
\* panic that net/http recovers; no LockArea is under way.
BadBody(r, k) == Arrive(r, k, "panicked", <<>>, None)

ProxyDel(r) ==
    \/ \E t \in Made : Arrive(r, "del", "del", <<t>>, None)
    \/ BadBody(r, "del")

\* The server reached the host the client complained of: it only answers.
ProxyErrRefused(r) == Arrive(r, "err", "done", <<>>, None)
ProxyErr(r) ==
    \/ Arrive(r, "err", "del", <<>>, None)
    \/ \E t \in Made : Arrive(r, "err", "del", <<t>>, None)
    \/ BadBody(r, "err")

\* /__close-all and the nightly refresh copy the IDs in a LockArea.
CloseAll(r)  == ~stuck /\ Arrive(r, "all", "del", registry, None)
\* /z11-update copies them without the lock.
UpdateAll(r) == Arrive(r, "update", "del", registry, None)

-----------------------------------------------------------------------------
(* GetProxy with no type: three LockAreas.                                 *)

\* Fault: the empty list is not told from others.
CountAreaBlind(r) ==
    /\ pc[r] = "count" /\ ~stuck
    /\ Goto(r, "rotate")
    /\ UNCHANGED <<tunnelVars, listVars, localVars, history>>

CountArea(r) ==
    /\ pc[r] = "count" /\ ~stuck
    /\ Goto(r, IF registry = <<>> THEN "create" ELSE "rotate")
    /\ UNCHANGED <<tunnelVars, listVars, localVars, history>>

\* A panic inside a LockArea: net/http recovers the goroutine, no deferred
\* call unlocks, and lock stays held.
PanicInArea(r) ==
    /\ stuck' = TRUE
    /\ Goto(r, "panicked")
    /\ UNCHANGED <<tunnelVars, registry, errCount, localVars, history>>

\* lastUse % Tunnels.Count() divides by zero when the list got empty.
RotateArea(r) ==
    /\ pc[r] = "rotate" /\ ~stuck
    /\ LET n == Len(registry) IN
       \/ /\ n = 0
          /\ UNCHANGED lastUse
          /\ PanicInArea(r)
       \/ /\ n > 0
          /\ lastUse' = ((lastUse % n) + 1) % n
          /\ tries' = [tries EXCEPT ![r] = 0]
          /\ Goto(r, "pick")
          /\ UNCHANGED <<tunnelVars, registry, errCount, stuck, kind, want,
                         tun, todo, snap, num, history>>

\* One round of the loop.  busier is the comparison of the two tunnels'
\* GetClientNum(), which their connections change at any time.
PickArea(r) ==
    /\ pc[r] = "pick" /\ ~stuck
    /\ LET n == Len(registry) IN
       \/ /\ n > 0 /\ lastUse < n
          /\ lastUse' = (lastUse + 1) % n
          /\ LET other  == registry[lastUse + 1]
                 chosen == registry[lastUse' + 1] IN
             /\ tun' = [tun EXCEPT ![r] = chosen]
             /\ \E busier \in BOOLEAN :
                  IF (typ[chosen] = typ[other] \/ busier) /\ tries[r] < 3
                  THEN /\ tries' = [tries EXCEPT ![r] = @ + 1]
                       /\ UNCHANGED pc
                  ELSE /\ tries' = [tries EXCEPT ![r] = 0]
                       /\ Goto(r, "check")
          /\ UNCHANGED <<tunnelVars, registry, errCount, stuck, kind, want,
                         todo, snap, num, history>>
       \* Nth out of range gives nil: GetConfig on it panics after the unlock
       \/ /\ n > 0 /\ lastUse >= n
          /\ lastUse' = (lastUse + 1) % n
          /\ Goto(r, "panicked")
          /\ UNCHANGED <<tunnelVars, registry, errCount, stuck, localVars, history>>
       \* Nth out of range panics at once
       \/ /\ n > 0 /\ lastUse >= n
          /\ UNCHANGED lastUse
          /\ PanicInArea(r)
       \/ /\ n = 0
          /\ lastUse' \in {lastUse, lastUse + 1}
          /\ PanicInArea(r)

\* GetProxy with a type: reads Tunnels unlocked and keeps the last match of
\* the list sorted by client count, which can be any of the matches.
ScanTyped(r) ==
    /\ pc[r] = "scan"
    /\ LET match == {t \in Elems(registry) : typ[t] = want[r]} IN
       \/ /\ match = {}
          /\ Goto(r, "create")
          /\ UNCHANGED tun
       \/ \E t \in match :
          /\ tun' = [tun EXCEPT ![r] = t]
          /\ Goto(r, "check")
    /\ UNCHANGED <<tunnelVars, listVars, kind, want, todo, snap, num, tries, history>>

-----------------------------------------------------------------------------
(* NewProxy and AddProxy.                                                  *)

Transport(ty) == IF ty = "tls" THEN "tcp" ELSE "udp"
\* Fault: any string is taken for a type.
NewTypeAny(w) == w
NewType(w) == IF w \in Types THEN w ELSE "tls"

\* GiveAPort keeps a port on which a TCP listen succeeds.
TcpFree(p) == \A t \in bound : ~ (port[t] = p /\ Transport(typ[t]) = "tcp")

\* Fault: the port is not opened in the firewall.
NewProxyShut(r) ==
    /\ pc[r] = "create"
    /\ \E t \in Tunnel \ Made, p \in {q \in Port : TcpFree(q)} :
         /\ typ' = [typ EXCEPT ![t] = NewType(want[r])]
         /\ port' = [port EXCEPT ![t] = p]
         /\ tun' = [tun EXCEPT ![r] = t]
    /\ Goto(r, IF kind[r] = "new" THEN "done" ELSE "add")
    /\ UNCHANGED <<on, bound, ufw, listVars, kind, want, todo, snap, num, tries,
                   history>>

NewProxy(r) ==
    /\ pc[r] = "create"
    /\ \E t \in Tunnel \ Made, p \in {q \in Port : TcpFree(q)} :
         /\ typ' = [typ EXCEPT ![t] = NewType(want[r])]
         /\ port' = [port EXCEPT ![t] = p]
         /\ ufw' = ufw \cup {p}
         /\ tun' = [tun EXCEPT ![r] = t]
    /\ Goto(r, IF kind[r] = "new" THEN "done" ELSE "add")
    /\ UNCHANGED <<on, bound, listVars, kind, want, todo, snap, num, tries, history>>

\* Fault: the new tunnel goes to the front of the list.
AddProxyFirst(r) ==
    /\ pc[r] = "add" /\ ~stuck
    /\ registry' = <<tun[r]>> \o registry
    /\ adds' = adds + 1
    /\ addedAt' = [addedAt EXCEPT ![tun[r]] = adds']
    /\ Goto(r, IF kind[r] = "err" THEN "start" ELSE "check")
    /\ UNCHANGED <<tunnelVars, lastUse, errCount, stuck, localVars, shrunk, removals, shut>>

AddProxy(r) ==
    /\ pc[r] = "add" /\ ~stuck
    /\ registry' = Append(registry, tun[r])
    /\ adds' = adds + 1
    /\ addedAt' = [addedAt EXCEPT ![tun[r]] = adds']
    /\ Goto(r, IF kind[r] = "err" THEN "start" ELSE "check")
    /\ UNCHANGED <<tunnelVars, lastUse, errCount, stuck, localVars, shrunk, removals, shut>>

-----------------------------------------------------------------------------
(* /proxy-get starts a tunnel it finds off; /proxy-err starts its tunnel.  *)

\* Fault: the test of On is inverted.
CheckOnInverted(r) ==
    /\ pc[r] = "check"
    /\ Goto(r, IF on[tun[r]] THEN "start" ELSE "done")
    /\ UNCHANGED <<tunnelVars, listVars, localVars, history>>

CheckOn(r) ==
    /\ pc[r] = "check"
    /\ Goto(r, IF on[tun[r]] THEN "done" ELSE "start")
    /\ UNCHANGED <<tunnelVars, listVars, localVars, history>>

\* Fault: On is not raised.
StartSilent(r) ==
    /\ pc[r] = "start"
    /\ \E s \in Server :
         /\ pc[s] = "idle"
         /\ pc' = [pc EXCEPT ![r] = "done", ![s] = "listen"]
         /\ tun' = [tun EXCEPT ![s] = tun[r]]
    /\ UNCHANGED <<typ, port, on, bound, ufw, listVars, kind, want, todo, snap,
                   num, tries, history>>

Start(r) ==
    /\ pc[r] = "start"
    /\ on' = [on EXCEPT ![tun[r]] = TRUE]
    /\ \E s \in Server :
         /\ pc[s] = "idle"
         /\ pc' = [pc EXCEPT ![r] = "done", ![s] = "listen"]
         /\ tun' = [tun EXCEPT ![s] = tun[r]]
    /\ UNCHANGED <<typ, port, bound, ufw, listVars, kind, want, todo, snap,
                   num, tries, history>>

-----------------------------------------------------------------------------
(* DelProxy(Head(todo)), called by the handlers and by the server          *)
(* goroutine's after().                                                    *)

DelSnapshot(g) ==
    /\ pc[g] = "del" /\ todo[g] # <<>>
    /\ snap' = [snap EXCEPT ![g] = registry]
    /\ Goto(g, IF Head(todo[g]) \in Elems(registry) THEN "readerr" ELSE "store")
    /\ UNCHANGED <<tunnelVars, listVars, kind, want, tun, todo, num, tries, history>>

DelReadErr(g) ==
    /\ pc[g] = "readerr"
    /\ num' = [num EXCEPT ![g] = errCount[typ[Head(todo[g])]] + 1]
    /\ Goto(g, "writeerr")
    /\ UNCHANGED <<tunnelVars, listVars, kind, want, tun, todo, snap, tries, history>>

\* Fault: the new count is added to the old one.
DelWriteErrAdds(g) ==
    /\ pc[g] = "writeerr" /\ ~stuck
    /\ LET ty == typ[Head(todo[g])] IN
       /\ errCount' = [errCount EXCEPT ![ty] = @ + num[g]]
       /\ removals' = [removals EXCEPT ![ty] = @ + 1]
    /\ num' = [num EXCEPT ![g] = 0]
    /\ Goto(g, "close")
    /\ UNCHANGED <<tunnelVars, registry, lastUse, stuck, kind, want, tun, todo,
                   snap, tries, adds, addedAt, shrunk, shut>>

DelWriteErr(g) ==
    /\ pc[g] = "writeerr" /\ ~stuck
    /\ LET ty == typ[Head(todo[g])] IN
       /\ errCount' = [errCount EXCEPT ![ty] = num[g]]
       /\ removals' = [removals EXCEPT ![ty] = @ + 1]
    /\ num' = [num EXCEPT ![g] = 0]
    /\ Goto(g, "close")
    /\ UNCHANGED <<tunnelVars, registry, lastUse, stuck, kind, want, tun, todo,
                   snap, tries, adds, addedAt, shrunk, shut>>

\* SetWaitToClose only raises ZeroToDel, which no accept loop obeys: its
\* break leaves the select, not the loop.
DelClosePort(g) ==
    /\ pc[g] = "close"
    /\ ufw' = ufw \ {port[Head(todo[g])]}
    /\ shut' = shut \cup {Head(todo[g])}
    /\ Goto(g, "store")
    /\ UNCHANGED <<typ, port, on, bound, listVars, localVars, adds, addedAt, shrunk,
                   removals>>

\* The entries of s whose ID is not t's.  A list never holds a tunnel twice
\* (BookSpec), so at most one entry goes.
Without(s, t) ==
    IF t \notin Elems(s) THEN s
    ELSE LET n == CHOOSE i \in DOMAIN s : s[i] = t
         IN  [i \in 1..(Len(s) - 1) |-> IF i < n THEN s[i] ELSE s[i + 1]]

\* Fault: the ID stays in the list of those to delete.
DelStoreStays(g) ==
    /\ pc[g] = "store" /\ ~stuck
    /\ registry' = Without(snap[g], Head(todo[g]))
    /\ shrunk' = (shrunk \/ Len(registry') < Len(registry))
    /\ snap' = [snap EXCEPT ![g] = <<>>]
    /\ Goto(g, "del")
    /\ UNCHANGED <<tunnelVars, lastUse, errCount, stuck, kind, want, tun, todo,
                   num, tries, adds, addedAt, removals, shut>>

DelStore(g) ==
    /\ pc[g] = "store" /\ ~stuck
    /\ registry' = Without(snap[g], Head(todo[g]))
    /\ shrunk' = (shrunk \/ Len(registry') < Len(registry))
    /\ todo' = [todo EXCEPT ![g] = Tail(@)]
    /\ snap' = [snap EXCEPT ![g] = <<>>]
    /\ Goto(g, "del")
    /\ UNCHANGED <<tunnelVars, lastUse, errCount, stuck, kind, want, tun, num,
                   tries, adds, addedAt, removals, shut>>

\* Every ID was passed to DelProxy: /proxy-err goes on to NewProxyByErrCount.
DelReturn(g) ==
    /\ pc[g] = "del" /\ todo[g] = <<>>
    /\ Goto(g, IF kind[g] = "err" THEN "choose" ELSE "done")
    /\ UNCHANGED <<tunnelVars, listVars, localVars, history>>

\* NewProxyByErrCount prefers the type that failed less often than tls.
ChooseType(r) ==
    /\ pc[r] = "choose"
    /\ want' = [want EXCEPT ![r] =
         IF errCount["quic"] < errCount["tls"] THEN "quic"
         ELSE IF errCount["kcp"] < errCount["tls"] THEN "kcp" ELSE "tls"]
    /\ Goto(r, "create")
    /\ UNCHANGED <<tunnelVars, listVars, kind, tun, todo, snap, num, tries, history>>

-----------------------------------------------------------------------------
(* ProxyTunnel.Server on the goroutine that Start forked.                  *)

PortTaken(t) ==
    \E u \in bound : port[u] = port[t] /\ Transport(typ[u]) = Transport(typ[t])

Listen(s) ==
    /\ pc[s] = "listen"
    /\ IF PortTaken(tun[s])
       THEN Goto(s, "ending") /\ UNCHANGED bound
       ELSE Goto(s, "serving") /\ bound' = bound \cup {tun[s]}
    /\ UNCHANGED <<typ, port, on, ufw, listVars, localVars, history>>

\* Accept fails: tls and kcp close the listener, quic returns without it.
AcceptFails(s) ==
    /\ pc[s] = "serving"
    /\ bound' = IF typ[tun[s]] = "quic" THEN bound ELSE bound \ {tun[s]}
    /\ Goto(s, "ending")
    /\ UNCHANGED <<typ, port, on, ufw, listVars, localVars, history>>

\* Fault: after() is not called.
ServerEndsListed(s) ==
    /\ pc[s] = "ending"
    /\ on' = [on EXCEPT ![tun[s]] = FALSE]
    /\ ufw' = ufw \ {port[tun[s]]}
    /\ Goto(s, "done")
    /\ UNCHANGED <<typ, port, bound, listVars, kind, want, tun, todo, snap, num,
                   tries, history>>

\* Server's deferred function, up to the call of after().
ServerEnds(s) ==
    /\ pc[s] = "ending"
    /\ on' = [on EXCEPT ![tun[s]] = FALSE]
    /\ ufw' = ufw \ {port[tun[s]]}
    /\ todo' = [todo EXCEPT ![s] = <<tun[s]>>]
    /\ Goto(s, "del")
    /\ UNCHANGED <<typ, port, bound, listVars, kind, want, tun, snap, num, tries, history>>

-----------------------------------------------------------------------------
DelProxy(g) ==
    \/ DelSnapshot(g) \/ DelReadErr(g) \/ DelWriteErr(g)
    \/ DelClosePort(g) \/ DelStore(g) \/ DelReturn(g)

Receive(r) ==
    \/ ProxyGet(r) \/ ProxyTyped(r) \/ ProxyNew(r) \/ ProxyDel(r)
    \/ ProxyErr(r) \/ ProxyErrRefused(r) \/ CloseAll(r) \/ UpdateAll(r)

Handle(r) ==
    \/ CountArea(r) \/ RotateArea(r) \/ PickArea(r) \/ ScanTyped(r)
    \/ NewProxy(r) \/ AddProxy(r) \/ CheckOn(r) \/ Start(r)
    \/ ChooseType(r) \/ DelProxy(r)

Serve(s) == Listen(s) \/ ServerEnds(s) \/ DelProxy(s)

Next ==
    \/ \E r \in Request : Receive(r) \/ Handle(r)
    \/ \E s \in Server : Serve(s) \/ AcceptFails(s)

Spec == Init /\ [][Next]_vars

\* A goroutine that can run does run; whether requests arrive and whether an
\* accept ever fails is not promised.
FairSpec ==
    /\ Spec
    /\ \A r \in Request : WF_vars(Handle(r))
    /\ \A s \in Server : WF_vars(Serve(s))

-----------------------------------------------------------------------------
(* Properties.                                                             *)

Labels == {"idle", "count", "rotate", "pick", "scan", "create", "add", "check",
           "start", "del", "readerr", "writeerr", "close", "store", "choose",
           "listen", "serving", "ending", "done", "panicked"}

ListType ==
    /\ registry \in Seq(Tunnel)
    /\ lastUse \in Nat
    /\ errCount \in [Types -> Nat]
    /\ stuck \in BOOLEAN

TunnelType ==
    /\ typ \in [Tunnel -> Types \cup {None}]
    /\ port \in [Tunnel -> Port \cup {None}]
    /\ on \in [Tunnel -> BOOLEAN]
    /\ bound \subseteq Tunnel
    /\ ufw \subseteq Port

LocalType ==
    /\ pc \in [Goroutine -> Labels]
    /\ kind \in [Goroutine -> AllKinds \cup {None}]
    /\ want \in [Goroutine -> Types \cup Wanted \cup {None}]
    /\ tun \in [Goroutine -> Tunnel \cup {None}]
    /\ todo \in [Goroutine -> Seq(Tunnel)]
    /\ snap \in [Goroutine -> Seq(Tunnel)]
    /\ num \in [Goroutine -> Nat]
    /\ tries \in [Goroutine -> 0..3]

HistoryType ==
    /\ adds \in Nat
    /\ addedAt \in [Tunnel -> Nat]
    /\ shrunk \in BOOLEAN
    /\ removals \in [Types -> Nat]
    /\ shut \subseteq Tunnel

\* Every variable has its type.
TypeOK == ListType /\ TunnelType /\ LocalType /\ HistoryType

\* The list as its readers see it.  Concurrent DelProxy calls store filtered
\* copies of lists that are out of date, so a removed tunnel can come back and
\* a new one can vanish; but AddProxy appends a tunnel that was never listed
\* before, and whatever else happens to the list neither invents an entry nor
\* reorders or repeats one.
Book == INSTANCE TunnelBook WITH
            book <- registry, clock <- adds, listedAt <- addedAt
BookSpec == Book!Spec

\* GetProxy computes lastUse % Tunnels.Count() with no check in two LockAreas
\* and indexes with lastUse in a third.  No /proxy-get panics, and no request
\* of any kind loses the lock, as long as no deletion has made the list
\* shorter.  (/proxy-del and /proxy-err also panic on a body they do not
\* expect, outside the lock.)
PanicNeedsDeletion ==
    \/ stuck
    \/ \E r \in Request : pc[r] = "panicked" /\ kind[r] \in {"get", "typed"}
    => shrunk

\* DelProxy reads ErrTypeCount before its LockArea and writes what it read
\* plus one: updates get lost and a count can fall, but it never exceeds the
\* number of tunnels of the type that DelProxy found.
CountsAtMostRemovals == \A ty \in Types : errCount[ty] <= removals[ty]

ServersOf(t) == {s \in Server : tun[s] = t}

\* A tunnel whose server goroutine serves is On, except when a second start
\* lost the race for the port and its deferred function lowered the flag.
OffWhileServingNeedsTwoStarts ==
    \A s \in Server :
      pc[s] = "serving" /\ ~on[tun[s]] => ServersOf(tun[s]) # {s}

\* The port of a tunnel that serves is open in the firewall, except when
\* DelProxy shut it for a tunnel with that port, which goes on serving because
\* no accept loop obeys TryClose, or when another server goroutine for that
\* port ended: a second start of the tunnel, or the start of a second tunnel
\* that drew the same port.  (The handlers /z-ufw and /z-ufw-close, which edit
\* the firewall for the operator, are left out.)
ServingIsReachable ==
    \A s \in Server :
      pc[s] = "serving" /\ port[tun[s]] \notin ufw =>
        \/ \E t \in shut : port[t] = port[tun[s]]
        \/ \E u \in Server \ {s} :
             /\ pc[u] \in {"del", "readerr", "writeerr", "close", "store", "done"}
             /\ port[tun[u]] = port[tun[s]]

\* The configuration that /proxy-get or /proxy-err answers is of a tunnel for
\* which a server goroutine was forked, by this handler or another.
AnsweredWasStarted ==
    \A r \in Request :
      pc[r] = "done" /\ tun[r] # None /\ kind[r] # "new" => ServersOf(tun[r]) # {}

\* Each admitted request is answered or panics, unless the lock was lost.
RequestsEnd ==
    \A r \in Request :
      pc[r] # "idle" ~> pc[r] \in {"done", "panicked"} \/ stuck

\* A server goroutine that ends takes its tunnel off the list, at least for a
\* moment, unless the lock was lost.
EndedIsUnlisted ==
    \A s \in Server :
      pc[s] = "ending" ~> (tun[s] \notin Elems(registry)) \/ stuck

=============================================================================
