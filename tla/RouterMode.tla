------------------------------ MODULE RouterMode ------------------------------
(***************************************************************************)
(* Router mode (src/router/r.go, src/deploy/httpcontroll.go): on a router  *)
(* the client redirects the TCP of its network to redsocks by rules in the *)
(* nat table.  Starting and stopping are scripts of shell commands on      *)
(* state that the whole device shares, the file of rules, the rules that   *)
(* are loaded and the process redsocks, without any lock: the handlers of  *)
(* /z-route and /z-login, and the goroutine of localSetupHandler, which    *)
(* starts the mode and then looks every 30 s whether it works, interleave  *)
(* between any two commands.                                               *)
(*                                                                         *)
(* A script that loads or flushes rules is a step: rules are loaded        *)
(* altogether or not at all, so that IsStartRouteMode and                  *)
(* IsRouteRedirectOk see the same, though they are called one by one.      *)
(* External: the init script of the firewall, which on OpenWrt flushes the *)
(* table and loads the file; redsocks, which may die; the service that     *)
(* starts the client again.                                                *)
(***************************************************************************)
EXTENDS Naturals

CONSTANTS
    Asker,     \* goroutines of the web server
    Keeper,    \* the goroutine of localSetupHandler
    Nobody,    \* no goroutine
    MaxAsks,   \* bounds the requests
    MaxFaults  \* bounds the faults

ASSUME RouterAssumption ==
    /\ Keeper \notin Asker /\ Nobody \notin Asker \cup {Keeper}
    /\ MaxAsks \in Nat /\ MaxFaults \in Nat

Actor == Asker \cup {Keeper}

VARIABLES
    device,    \* openwrt: the init script is OpenWrt's.  port1091: LOCAL_PORT is 1091
    file,      \* /etc/firewall.user has rules
    nat,       \* they are loaded
    redsocks,  \* redsocks2 runs
    known,     \* proxy-z.host.conf, or a login, names the hosts of the routes
    logined,   \* globalClient.Routes is not empty
    address,   \* LAST_USE_LOCAL_ADDR is not empty
    ST,        \* ST
    op,        \* what a goroutine does
    pc,        \* the command it is about to run
    asks,      \* requests so far
    faults     \* faults so far

\* History.  alone: the goroutine whose operation no other has overlapped.
\* mode: "on" or "off" when the last operation that starts or stops the mode
\* was alone from its begin to its end, no other was asked for since, and
\* nothing died; the looks of CheckStatus and of the keeper change nothing.
VARIABLES alone, mode

system == <<file, nat, redsocks>>
process == <<known, logined, address, ST>>
bound == <<asks, faults>>
history == <<alone, mode>>
vars == <<device, system, process, op, pc, bound, history>>

Ops == {"none", "boot", "tick", "tock", "check",
        "start", "stop", "open", "close", "login"}
Commands == {"idle", "wipe", "restart", "grep", "flush", "again", "kill",
             "exec", "write", "load", "cat", "sh",
             "mode?", "redsocks?", "redirect?", "file?", "mode2?", "clear"}

TypeOK ==
    /\ device \in [openwrt : BOOLEAN, port1091 : BOOLEAN]
    /\ file \in BOOLEAN /\ nat \in BOOLEAN /\ redsocks \in BOOLEAN
    /\ known \in BOOLEAN /\ logined \in BOOLEAN
    /\ address \in BOOLEAN /\ ST \in BOOLEAN
    /\ op \in [Actor -> Ops] /\ pc \in [Actor -> Commands]
    /\ asks \in 0..MaxAsks /\ faults \in 0..MaxFaults
    /\ alone \in Actor \cup {Nobody} /\ mode \in {"on", "off", "mixed"}
    /\ \A a \in Actor : op[a] = "none" <=> pc[a] = "idle"

Idle(a) == pc[a] = "idle"

\* StartFireWall and StopFirewall look for 1091 whatever LOCAL_PORT is.
Lists1091 == nat /\ device.port1091

\* The device lets StopFirewall unload the rules.
Clears == device.openwrt \/ device.port1091

\* Exec("/etc/init.d/firewall restart")
InitScript == nat' = IF device.openwrt THEN file ELSE nat

-----------------------------------------------------------------------------
(* The steps of the scripts.                                               *)

Goto(a, c) == pc' = [pc EXCEPT ![a] = c]

\* An operation begins; mode is no longer known if it is one that changes it.
Begin(a, o, c) ==
    /\ op' = [op EXCEPT ![a] = o]
    /\ Goto(a, c)
    /\ alone' = IF \A b \in Actor : Idle(b) THEN a ELSE Nobody
    /\ mode' = IF o \in {"tick", "check"} THEN mode ELSE "mixed"

\* Fault: what ends stays noted.
FinishSilent(a) ==
    /\ Goto(a, "idle")
    /\ alone' = Nobody
    /\ UNCHANGED op

Finish(a) ==
    /\ op' = [op EXCEPT ![a] = "none"]
    /\ Goto(a, "idle")
    /\ alone' = Nobody

\* RestartRouterMode: StopFirewall, then StartFireWall on the same address.
Restart(a) ==
    IF address THEN Goto(a, "wipe") /\ UNCHANGED <<op, alone>> ELSE Finish(a)

(* StopFirewall *)

Wipe(a) ==
    /\ pc[a] = "wipe"
    /\ file' = FALSE
    /\ Goto(a, "restart")
    /\ UNCHANGED <<device, nat, redsocks, process, op, bound, history>>

StopRestarts(a) ==
    /\ pc[a] = "restart"
    /\ InitScript
    /\ Goto(a, "grep")
    /\ UNCHANGED <<device, file, redsocks, process, op, bound, history>>

StopGreps(a) ==
    /\ pc[a] = "grep"
    /\ Goto(a, IF Lists1091 THEN "flush" ELSE "kill")
    /\ UNCHANGED <<device, system, process, op, bound, history>>

Flush(a) ==
    /\ pc[a] = "flush"
    /\ nat' = FALSE
    /\ Goto(a, "again")
    /\ UNCHANGED <<device, file, redsocks, process, op, bound, history>>

StopRestartsAgain(a) ==
    /\ pc[a] = "again"
    /\ InitScript
    /\ Goto(a, "kill")
    /\ UNCHANGED <<device, file, redsocks, process, op, bound, history>>

\* The last command of StopFirewall, and what its caller does then.
Kill(a) ==
    /\ pc[a] = "kill"
    /\ redsocks' = FALSE
    /\ \/ /\ op[a] \in {"stop", "close"}
          /\ Finish(a)
          /\ ST' = (op[a] # "close" /\ ST)
          /\ mode' = IF alone = a THEN "off" ELSE mode
       \/ /\ op[a] \notin {"stop", "close"}
          /\ Goto(a, "exec")
          /\ UNCHANGED <<ST, op, history>>
    /\ UNCHANGED <<device, file, nat, known, logined, address, bound>>

(* StartFireWall *)

\* Fault: the address is not noted.
Redsocks2Forgets(a) ==
    /\ pc[a] = "exec"
    /\ redsocks' = TRUE
    /\ Goto(a, "write")
    /\ UNCHANGED <<device, file, nat, process, op, bound, history>>

Redsocks2(a) ==
    /\ pc[a] = "exec"
    /\ address' = TRUE
    /\ redsocks' = TRUE
    /\ Goto(a, "write")
    /\ UNCHANGED <<device, file, nat, known, logined, ST, op, bound, history>>

\* IPTahbleRouteSet asks this very client, or reads the file it left.
WriteRules(a) ==
    /\ pc[a] = "write"
    /\ file' = known
    /\ Goto(a, "load")
    /\ UNCHANGED <<device, nat, redsocks, process, op, bound, history>>

StartRestarts(a) ==
    /\ pc[a] = "load"
    /\ InitScript
    /\ Goto(a, "cat")
    /\ UNCHANGED <<device, file, redsocks, process, op, bound, history>>

\* StartFireWall returns; what its caller does then.
Started(a) ==
    \/ /\ op[a] = "tick"
       /\ Goto(a, "redirect?")
       /\ mode' = IF alone = a THEN "on" ELSE mode
       /\ UNCHANGED <<ST, op, alone>>
    \/ /\ op[a] # "tick"
       /\ Finish(a)
       /\ ST' = (op[a] \in {"boot", "open"} \/ ST)
       /\ mode' = IF alone = a THEN "on" ELSE mode

StartGreps(a) ==
    /\ pc[a] = "cat"
    /\ \/ ~Lists1091 /\ Goto(a, "sh") /\ UNCHANGED <<ST, op, history>>
       \/ Lists1091 /\ Started(a)
    /\ UNCHANGED <<device, system, known, logined, address, bound>>

LoadRules(a) ==
    /\ pc[a] = "sh"
    /\ nat' = (nat \/ file)
    /\ Started(a)
    /\ UNCHANGED <<device, file, redsocks, known, logined, address, bound>>

-----------------------------------------------------------------------------
(* CheckStatus *)

ReadFile(a) ==
    /\ pc[a] = "file?"
    /\ Goto(a, IF file THEN "mode2?" ELSE "clear")
    /\ UNCHANGED <<device, system, process, op, bound, history>>

ClearRedsocks(a) ==
    /\ pc[a] = "clear"
    /\ redsocks' = FALSE
    /\ Finish(a)
    /\ UNCHANGED <<device, file, nat, process, bound, mode>>

\* IsRouteRedirectOk and IsStartRouteMode; the process redsocks is only told.
ReadRules(a) ==
    /\ pc[a] = "mode2?"
    /\ \/ nat /\ Finish(a)
       \/ ~nat /\ Restart(a)
    /\ UNCHANGED <<device, system, process, bound, mode>>

(* The goroutine of localSetupHandler, once it has started the mode. *)

Tick ==
    /\ Idle(Keeper)
    /\ Begin(Keeper, "tick", "mode?")
    /\ UNCHANGED <<device, system, process, bound>>

\* Fault: a mode that is stopped is looked at too.
KeeperLooksOn(a) ==
    /\ pc[a] = "mode?"
    /\ Goto(a, "redsocks?")
    /\ UNCHANGED <<device, system, process, bound, mode, op, alone>>

KeeperReadsMode(a) ==
    /\ pc[a] = "mode?"
    /\ \/ nat /\ Goto(a, "redsocks?") /\ UNCHANGED <<op, alone>>
       \/ ~nat /\ Finish(a)
    /\ UNCHANGED <<device, system, process, bound, mode>>

KeeperReadsRedsocks(a) ==
    /\ pc[a] = "redsocks?"
    /\ \/ redsocks /\ Goto(a, "redirect?") /\ UNCHANGED <<op, alone>>
       \/ ~redsocks /\ Restart(a)
    /\ UNCHANGED <<device, system, process, bound, mode>>

\* A second RestartRouterMode ends the tick.
KeeperReadsRedirect(a) ==
    /\ pc[a] = "redirect?"
    /\ \/ /\ nat \/ ~address
          /\ Finish(a)
       \/ /\ ~nat /\ address
          /\ op' = [op EXCEPT ![a] = "tock"]
          /\ Goto(a, "wipe")
          /\ UNCHANGED alone
    /\ UNCHANGED <<device, system, process, bound, mode>>

-----------------------------------------------------------------------------
(* Requests.  /z-route sends a client without routes to the login.         *)

Ask(a) ==
    /\ Idle(a) /\ op[Keeper] # "boot"
    /\ asks < MaxAsks /\ asks' = asks + 1
    /\ UNCHANGED <<device, system, address, ST, faults>>

\* Each names its operation and the first command of it.
ZRoute(a) ==
    /\ Ask(a) /\ logined
    /\ \/ Begin(a, "start", "exec")
       \/ Begin(a, "stop", "wipe")
       \/ ST /\ Begin(a, "close", "wipe")
       \/ ~ST /\ Begin(a, "open", "exec")
       \/ Begin(a, "check", "file?")
    /\ UNCHANGED <<known, logined>>

\* A login whose "proxy" is not "ok" leaves the mode alone.
ZLogin(a) ==
    /\ Ask(a)
    /\ known' = TRUE /\ logined' = TRUE
    /\ Begin(a, "login", "wipe") \/ UNCHANGED <<op, pc, history>>

-----------------------------------------------------------------------------
(* Faults.                                                                 *)

Fault == faults < MaxFaults /\ faults' = faults + 1

RedsocksDies ==
    /\ Fault /\ redsocks
    /\ redsocks' = FALSE
    /\ alone' = Nobody /\ mode' = "mixed"
    /\ UNCHANGED <<device, file, nat, process, op, pc, asks>>

\* auto-z-proxy starts the client again, which always starts the mode.
Reborn ==
    /\ op' = [a \in Actor |-> IF a = Keeper THEN "boot" ELSE "none"]
    /\ pc' = [a \in Actor |-> IF a = Keeper THEN "exec" ELSE "idle"]
    /\ alone' = Keeper /\ mode' = "mixed"
    /\ address' = FALSE /\ ST' = FALSE /\ logined' = FALSE

ClientDies ==
    /\ Fault
    /\ Reborn
    /\ UNCHANGED <<device, system, known, asks>>

DeviceRestarts ==
    /\ Fault
    /\ Reborn
    /\ nat' = (device.openwrt /\ file)
    /\ redsocks' = FALSE
    /\ UNCHANGED <<device, file, known, asks>>

-----------------------------------------------------------------------------
Command(a) ==
    \/ Wipe(a) \/ StopRestarts(a) \/ StopGreps(a) \/ Flush(a)
    \/ StopRestartsAgain(a) \/ Kill(a)
    \/ Redsocks2(a) \/ WriteRules(a) \/ StartRestarts(a) \/ StartGreps(a)
    \/ LoadRules(a)
    \/ ReadFile(a) \/ ClearRedsocks(a) \/ ReadRules(a)
    \/ KeeperReadsMode(a) \/ KeeperReadsRedsocks(a) \/ KeeperReadsRedirect(a)

Request(a) == ZRoute(a) \/ ZLogin(a)

Init ==
    /\ device \in [openwrt : BOOLEAN, port1091 : BOOLEAN]
    /\ known \in BOOLEAN
    /\ file \in BOOLEAN /\ (file => known)
    /\ nat = (device.openwrt /\ file)
    /\ redsocks = FALSE
    /\ logined = FALSE /\ address = FALSE /\ ST = FALSE
    /\ op = [a \in Actor |-> IF a = Keeper THEN "boot" ELSE "none"]
    /\ pc = [a \in Actor |-> IF a = Keeper THEN "exec" ELSE "idle"]
    /\ asks = 0 /\ faults = 0
    /\ alone = Keeper /\ mode = "mixed"

Next ==
    \/ \E a \in Actor : Command(a)
    \/ Tick
    \/ \E a \in Asker : Request(a)
    \/ RedsocksDies \/ ClientDies \/ DeviceRestarts

Spec == Init /\ [][Next]_vars

\* The loop of localSetupHandler never ends, and every command of a script
\* returns.  Nobody has to ask anything, and nothing has to die.
FairSpec ==
    /\ Spec
    /\ WF_vars(Tick)
    /\ \A a \in Actor : WF_vars(Command(a))

-----------------------------------------------------------------------------
\* An operation that no other overlapped holds until the next one: after a stop no
\* rule is loaded or kept and redsocks is dead, after a start the rules that were
\* written are loaded and redsocks takes what they redirect, and no look of
\* CheckStatus or of localSetupHandler's goroutine undoes either (r.go:178-325,
\* httpcontroll.go:121-133).  Of a device with neither OpenWrt's script nor port
\* 1091 the rules cannot be unloaded, and nothing is claimed after a stop.
ModeHolds ==
    /\ mode = "off" /\ Clears => ~file /\ ~nat /\ ~redsocks
    /\ mode = "on" => nat = file /\ (nat => redsocks)

\* Whatever overlapped and whatever died, once requests and faults cease the
\* network is not cut off: rules never stay loaded that redirect everything to a
\* redsocks that does not run, since localSetupHandler's goroutine starts the mode
\* again (httpcontroll.go:121-133).
NotCutOff == <>[](nat => redsocks)
=============================================================================
