------------------------------ MODULE ClientRoute ------------------------------
(***************************************************************************)
(* The route life cycle of the client: Socks5Listen and its accept loop,   *)
(* TryClose, ChangeRoute, ChangeNextRoute and Init of                      *)
(* src/clientcontroll/controll.go, and the handlers of                     *)
(* src/deploy/httpcontroll.go that call them.                              *)
(*                                                                         *)
(* None of the flags has a lock.  A goroutine is the starter, which runs   *)
(* the first Socks5Listen, a /z-login or switch request with the           *)
(* ChangeRoute it forks, or a ChangeRoute forked by an accept loop whose   *)
(* errors mounted.  pc names the access of a shared flag that comes next.  *)
(*                                                                         *)
(* Left out: the sessions and profiles that are built and cleared on the   *)
(* way (InitializationTunnels succeeds or fails as a whole), the DNS and   *)
(* HTTP listeners, and what an accepted connection carries.  The error     *)
(* counts rise and fall at any time, so the loop's look at them is a free  *)
(* choice.  A route stands for the goroutine that asked for it: hosts are  *)
(* taken to be different.  Listen fails in one way, a port in use: on any  *)
(* other error the program exits, and there is nothing left to model.      *)
(* Nothing closes the listener of a loop that ended: the garbage           *)
(* collector does, once the loop no longer uses it.                        *)
(***************************************************************************)

CONSTANTS
    Starter,    \* the goroutine of the first Socks5Listen
    Logins,     \* /z-login requests: TryClose whatever the state
    Switches,   \* "switch" requests: refused unless IsRunning
    Nexts,      \* ChangeRoute goroutines an accept loop may fork
    None        \* no goroutine

Requests == Logins \cup Switches
Goroutine == {Starter} \cup Requests \cup Nexts

ASSUME KindsDisjoint ==
    /\ Starter \notin Requests \cup Nexts
    /\ Requests \cap Nexts = {} /\ Logins \cap Switches = {}
    /\ None \notin Goroutine

VARIABLES
    pc,         \* per goroutine: the access of a shared flag that comes next
    closed, closeFlag, isRunning, isBreak,  \* fields of ClientControl
    Addr,       \* its route: who asked for it, None at first
    canNext,    \* GetNewRoute was set
    first,      \* which request created the client
    retried,    \* the starter's first Socks5Listen found the route broken
    owner,      \* the goroutine whose listener has the port
    backlog,    \* a connection of a TryClose waits to be accepted
    wakers,     \* goroutines whose TryClose still has to dial
    want,       \* who asked for a route last
    crowded,    \* a change was asked for while another was under way
    gaveUp      \* errors mounted when no GetNewRoute was set

flags == <<closed, closeFlag, isRunning, isBreak, Addr>>
port == <<owner, backlog, wakers>>
config == <<canNext, first, retried>>
history == <<want, crowded, gaveUp>>
vars == <<pc, flags, port, config, history>>

Changing == {"change", "wait", "clear", "init", "reset"}
Starting == {"open", "build", "break", "bind", "lower", "unclose", "run"}
Serving == {"loop", "check", "accept"}
Underway == Changing \cup Starting \cup {"close", "retry"}

Pending(g) == pc[g] \in Underway
Quiet == \A g \in Goroutine : ~Pending(g)

TypeOK ==
    /\ pc \in [Goroutine -> Underway \cup Serving \cup {"idle", "leave", "done"}]
    /\ closed \in BOOLEAN /\ closeFlag \in BOOLEAN
    /\ isRunning \in BOOLEAN /\ isBreak \in BOOLEAN
    /\ Addr \in Goroutine \cup {None} /\ want \in Goroutine \cup {None}
    /\ canNext \in BOOLEAN /\ retried \in BOOLEAN
    /\ first \in {"login", "host", "next"}
    /\ owner \in Goroutine \cup {None}
    /\ backlog \in BOOLEAN /\ (backlog => owner # None)
    /\ wakers \subseteq Goroutine
    /\ crowded \in BOOLEAN /\ gaveUp \in BOOLEAN

\* NewClientControll; only the login sets GetNewRoute before it starts.
Init ==
    /\ pc = [g \in Goroutine |-> IF g = Starter THEN "open" ELSE "idle"]
    /\ Addr = None /\ want = None
    /\ closed = FALSE /\ closeFlag = FALSE
    /\ isRunning = FALSE /\ isBreak = FALSE
    /\ first \in {"login", "host", "next"} /\ canNext = (first = "login")
    /\ retried = FALSE
    /\ owner = None /\ backlog = FALSE /\ wakers = {}
    /\ crowded = FALSE /\ gaveUp = FALSE

Goto(g, l) == pc' = [pc EXCEPT ![g] = l]

Crowds(g) == crowded' = (crowded \/ \E h \in Goroutine \ {g} : Pending(h))

-----------------------------------------------------------------------------
(* Requests and TryClose.                                                  *)

\* The guard of "switch"; /z-login has none.
Admit(g) ==
    /\ pc[g] = "idle" /\ g \in Requests
    /\ g \in Switches => isRunning
    /\ Goto(g, "close") /\ Crowds(g)
    /\ UNCHANGED <<flags, port, config, want, gaveUp>>

\* Fault: nothing wakes Accept.
TryCloseSilent(g) ==
    /\ closeFlag' = TRUE
    /\ want' = g
    /\ Goto(g, "change")
    /\ UNCHANGED <<closed, isRunning, isBreak, Addr, port, crowded, gaveUp>>

\* TryClose raises closeFlag and forks the dial that wakes Accept.
TryClose(g) ==
    /\ closeFlag' = TRUE
    /\ wakers' = wakers \cup {g}
    /\ want' = g
    /\ Goto(g, "change")
    /\ UNCHANGED <<closed, isRunning, isBreak, Addr, owner, backlog, crowded, gaveUp>>

Close(g) == pc[g] = "close" /\ TryClose(g) /\ UNCHANGED config

\* The starter found its route broken: GetNewRoute, TryClose, ChangeRoute.
Retry(g) ==
    /\ pc[g] = "retry" /\ TryClose(g)
    /\ retried' = TRUE /\ UNCHANGED <<canNext, first>>

Dial(g) ==
    /\ g \in wakers /\ wakers' = wakers \ {g}
    /\ backlog' = (backlog \/ owner # None)
    /\ UNCHANGED <<pc, flags, owner, config, history>>

-----------------------------------------------------------------------------
(* ChangeRoute and Init.                                                   *)

Announce(g) ==
    /\ pc[g] = "change" /\ Goto(g, "wait")
    /\ Addr' = IF closeFlag THEN g ELSE Addr
    /\ UNCHANGED <<closed, closeFlag, isRunning, isBreak, port, config, history>>

\* Fault: one look at closed, whatever it says.
WaitClosedOnce(g) ==
    /\ pc[g] = "wait" /\ Goto(g, "clear")
    /\ UNCHANGED <<flags, port, config, history>>

\* Polls closed, and nothing but closed.
WaitClosed(g) ==
    /\ pc[g] = "wait" /\ closed /\ Goto(g, "clear")
    /\ UNCHANGED <<flags, port, config, history>>

\* Fault: the address that was announced is taken to be set.
SetAddrNot(g) ==
    /\ pc[g] = "clear" /\ Goto(g, "init")
    /\ UNCHANGED <<flags, port, config, history>>

SetAddr(g) ==
    /\ pc[g] = "clear" /\ Goto(g, "init")
    /\ Addr' = g
    /\ UNCHANGED <<closed, closeFlag, isRunning, isBreak, port, config, history>>

InitRunning(g) ==
    /\ pc[g] = "init" /\ Goto(g, "reset")
    /\ isRunning' = FALSE
    /\ UNCHANGED <<closed, closeFlag, isBreak, Addr, port, config, history>>

InitBreak(g) ==
    /\ pc[g] = "reset" /\ Goto(g, "open")
    /\ isBreak' = FALSE
    /\ UNCHANGED <<closed, closeFlag, isRunning, Addr, port, config, history>>

-----------------------------------------------------------------------------
(* Socks5Listen.                                                           *)

Open(g) ==
    /\ pc[g] = "open" /\ Goto(g, "build")
    /\ closed' = TRUE
    /\ UNCHANGED <<closeFlag, isRunning, isBreak, Addr, port, config, history>>

\* InitializationTunnels: more than five broken channels or not.
Built(g) ==
    /\ pc[g] = "build" /\ Goto(g, "bind")
    /\ UNCHANGED <<flags, port, config, history>>

BuildFails(g) ==
    /\ pc[g] = "build" /\ Goto(g, "break")
    /\ isRunning' = FALSE
    /\ UNCHANGED <<closed, closeFlag, isBreak, Addr, port, config, history>>

\* The starter tries one more route, or, started by a "switch" without a
\* host, goes on for ever; nobody else acts on what Socks5Listen returns.
Tries(g, broken) ==
    g = Starter /\ (IF retried THEN first = "next" ELSE broken)

Return(g, broken) ==
    IF Tries(g, broken) THEN Goto(g, "retry") /\ Crowds(g)
                        ELSE Goto(g, "done") /\ UNCHANGED crowded

Break(g) ==
    /\ pc[g] = "break" /\ Return(g, TRUE)
    /\ isBreak' = TRUE
    /\ UNCHANGED <<closed, closeFlag, isRunning, Addr, port, config, want, gaveUp>>

\* Fault: a port in use is not tried again.
BindOnce(g) ==
    /\ pc[g] = "bind"
    /\ owner' = IF owner = None THEN g ELSE owner
    /\ Goto(g, IF owner = None THEN "lower" ELSE "done")
    /\ UNCHANGED <<flags, backlog, wakers, config, history>>

\* "address already in use" is tried again each second.  Any other error of
\* Listen ends the program, log.Fatal: that end is left out.
Bind(g) ==
    /\ pc[g] = "bind" /\ owner = None
    /\ owner' = g /\ Goto(g, "lower")
    /\ UNCHANGED <<flags, backlog, wakers, config, history>>

LowerFlag(g) ==
    /\ pc[g] = "lower" /\ Goto(g, "unclose")
    /\ closeFlag' = FALSE
    /\ UNCHANGED <<closed, isRunning, isBreak, Addr, port, config, history>>

LowerClosed(g) ==
    /\ pc[g] = "unclose" /\ Goto(g, "run")
    /\ closed' = FALSE
    /\ UNCHANGED <<closeFlag, isRunning, isBreak, Addr, port, config, history>>

Run(g) ==
    /\ pc[g] = "run" /\ Goto(g, "loop")
    /\ isRunning' = TRUE
    /\ UNCHANGED <<closed, closeFlag, isBreak, Addr, port, config, history>>

\* Fault: closeFlag is lowered on every turn of the loop.
FewErrorsLowers(g) ==
    /\ pc[g] = "loop" /\ Goto(g, "check")
    /\ closeFlag' = FALSE
    /\ UNCHANGED <<closed, isRunning, isBreak, Addr, port, config, history>>

FewErrors(g) ==
    /\ pc[g] = "loop" /\ Goto(g, "check")
    /\ UNCHANGED <<flags, port, config, history>>

\* ChangeNextRoute forks a ChangeRoute, and the loop ends.
ManyErrors(g) ==
    /\ pc[g] = "loop" /\ canNext
    /\ \E n \in Nexts :
         /\ pc[n] = "idle"
         /\ pc' = [pc EXCEPT ![g] = "leave", ![n] = "change"]
         /\ want' = n /\ Crowds(n)
    /\ UNCHANGED <<flags, port, config, gaveUp>>

\* ChangeNextRoute without a GetNewRoute: the loop ends all the same.
GiveUp(g) ==
    /\ pc[g] = "loop" /\ ~canNext /\ Goto(g, "leave")
    /\ gaveUp' = TRUE
    /\ UNCHANGED <<flags, port, config, want, crowded>>

CheckFlag(g) ==
    /\ pc[g] = "check"
    /\ Goto(g, IF closeFlag THEN "leave" ELSE "accept")
    /\ UNCHANGED <<flags, port, config, history>>

Accept(g) ==
    /\ pc[g] = "accept" /\ backlog /\ Goto(g, "loop")
    /\ backlog' = FALSE
    /\ UNCHANGED <<flags, owner, wakers, config, history>>

\* An application's connection, or an error and a pause.
AcceptOther(g) ==
    /\ pc[g] = "accept" /\ Goto(g, "loop")
    /\ UNCHANGED <<flags, port, config, history>>

\* Fault: a loop that ends lowers IsRunning.
LeaveStopped(g) ==
    /\ pc[g] = "leave" /\ Return(g, FALSE)
    /\ closed' = TRUE /\ isRunning' = FALSE
    /\ UNCHANGED <<closeFlag, isBreak, Addr, port, config, want, gaveUp>>

Leave(g) ==
    /\ pc[g] = "leave" /\ Return(g, FALSE)
    /\ closed' = TRUE
    /\ UNCHANGED <<closeFlag, isRunning, isBreak, Addr, port, config, want, gaveUp>>

-----------------------------------------------------------------------------
(* The environment.                                                        *)

\* The ten-minute ticker calls SetChangeRoute.
SetChangeRoute ==
    /\ canNext' = TRUE
    /\ UNCHANGED <<pc, flags, port, first, retried, history>>

\* Fault: what waited for the listener outlives it.
CollectKeeps ==
    /\ owner # None /\ pc[owner] \notin Serving \cup {"lower", "unclose", "run"}
    /\ owner' = None
    /\ UNCHANGED <<pc, flags, backlog, wakers, config, history>>

\* The finalizer of a listener its loop no longer uses closes it.
Collect ==
    /\ owner # None /\ pc[owner] \notin Serving \cup {"lower", "unclose", "run"}
    /\ owner' = None /\ backlog' = FALSE
    /\ UNCHANGED <<pc, flags, wakers, config, history>>

ChangeRoute(g) ==
    Announce(g) \/ WaitClosed(g) \/ SetAddr(g) \/ InitRunning(g) \/ InitBreak(g)

Start(g) ==
    \/ Open(g) \/ Built(g) \/ BuildFails(g) \/ Break(g)
    \/ Bind(g) \/ LowerFlag(g) \/ LowerClosed(g) \/ Run(g)

Loop(g) ==
    FewErrors(g) \/ ManyErrors(g) \/ GiveUp(g) \/ CheckFlag(g) \/ Accept(g) \/ Leave(g)

Step(g) == Close(g) \/ Retry(g) \/ ChangeRoute(g) \/ Start(g) \/ Loop(g)

Next ==
    \/ \E g \in Goroutine : Admit(g) \/ Step(g) \/ Dial(g) \/ AcceptOther(g)
    \/ SetChangeRoute \/ Collect

Spec == Init /\ [][Next]_vars

FairSpec ==
    /\ Spec /\ WF_vars(Collect)
    /\ \A g \in Goroutine : WF_vars(Step(g)) /\ WF_vars(Dial(g))

-----------------------------------------------------------------------------
(* Properties.                                                             *)

\* While a loop takes connections, closed is lowered: ChangeRoute, which
\* polls nothing else, then cannot start a second Socks5Listen on top of it.
\* Only changes asked for while another was under way break this.
ServingIsOpen ==
    closed /\ (\E g \in Goroutine : pc[g] \in Serving) => crowded

\* When all is quiet, the client's route is the one asked for last, by the
\* user or by ChangeNextRoute, unless changes were crowded.
RouteIsLastAsked ==
    Quiet => Addr = want \/ crowded

\* A ChangeRoute that polls closed, which is lowered, still has a loop that
\* will find closeFlag raised, or is just leaving.
FlagIsHeard ==
    \A g \in Goroutine : pc[g] \in {"change", "wait"} =>
      closed \/ closeFlag \/ crowded \/ \E h \in Goroutine : pc[h] = "leave"

\* A loop that sleeps in Accept while closeFlag is raised will be woken: a
\* TryClose has yet to dial, or its connection waits at this listener.
AcceptIsWoken ==
    \A g \in Goroutine : pc[g] = "accept" /\ closeFlag => wakers # {} \/ backlog

\* The lost TryClose: the loop that should end lowers closeFlag before it
\* reads it, or misses the dial that should wake it.  The first takes a change
\* that was asked for while another was under way; the second never happens,
\* however changes overlap.
CloseIsHeard == FlagIsHeard /\ AcceptIsWoken

\* "switch" answers "wait ..." while IsRunning is lowered.  Once nothing is
\* under way there is nothing to wait for but a broken route, however the
\* changes overlapped.
RefusedOnlyIfBroken ==
    Quiet /\ ~isRunning => isBreak

\* When all is quiet a loop serves, or the route is broken, or the errors
\* mounted before a GetNewRoute was set: no overlap of changes leaves the
\* client without a loop.
SomebodyServes ==
    Quiet => isBreak \/ gaveUp \/ \E g \in Goroutine : pc[g] \in Serving

NotCrowded == ~crowded

\* As long as changes do not crowd each other, each ends: it serves, or finds
\* its route broken.
ChangesEnd ==
    []NotCrowded =>
      \A g \in Goroutine : pc[g] = "change" ~> pc[g] \in Serving \cup {"done", "retry"}

\* The message "this is break, try next !!!" asks the user to switch: a
\* switch is then admitted.
NextCanBeTried ==
    Quiet /\ isBreak => isRunning

=============================================================================
