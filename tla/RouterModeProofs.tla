---------------------------- MODULE RouterModeProofs ----------------------------
(***************************************************************************)
(* ModeHolds for any number of requests and faults.  An operation that is  *)
(* alone brings the device where it should be command by command (Lone);   *)
(* once the mode is known, nobody is past a look that found it wrong       *)
(* (Settled).  Both need that rules never come from nowhere (Sourced).     *)
(***************************************************************************)
EXTENDS RouterMode, TLAPS

\* Rules are of hosts the client knows, and the keeper restarts rules it saw.
Sourced ==
    /\ file \/ nat => known
    /\ \A a \in Actor : op[a] = "tick" /\ pc[a] # "mode?" => known

\* What a command finds that only the commands before it have changed.
Reached(c) ==
    /\ c \in {"restart", "grep", "flush", "again", "kill"} => ~file
    /\ c \in {"grep", "flush"} /\ device.openwrt => ~nat
    /\ c = "again" => ~nat
    /\ c = "kill" /\ Clears => ~nat
    /\ c \in {"write", "load", "cat", "sh"} => redsocks
    /\ c \in {"load", "cat", "sh"} => (nat => file)
    /\ c = "cat" /\ device.openwrt => nat = file

Lone ==
    \A a \in Actor : alone = a =>
        /\ ~Idle(a)
        /\ \A b \in Actor \ {a} : Idle(b)
        /\ Reached(pc[a])
        /\ op[a] = "tick" /\ pc[a] \in {"load", "cat", "sh"} => file

Looks == {"idle", "mode?", "redsocks?", "redirect?", "file?", "mode2?", "clear"}
Found == {"redsocks?", "redirect?", "mode2?"}

Settled ==
    mode = "on" \/ (mode = "off" /\ Clears) =>
        \A a \in Actor :
            /\ pc[a] \in Looks
            /\ pc[a] \in Found => nat
            /\ pc[a] = "clear" => ~file

ModeInv == TypeOK /\ Sourced /\ Lone /\ Settled /\ ModeHolds

-----------------------------------------------------------------------------
(* One lemma per invariant part; one step per action.                       *)

LEMMA TypeInit == Init => TypeOK
<1> SUFFICES ASSUME Init PROVE TypeOK
  OBVIOUS
<1>1. op \in [Actor -> Ops] /\ pc \in [Actor -> Commands]
  BY DEF Init, Ops, Commands
<1>2. \A a \in Actor : op[a] = "none" <=> pc[a] = "idle"
  BY DEF Init
<1>3. nat \in BOOLEAN /\ file \in BOOLEAN
  BY DEF Init
<1>4. asks \in 0..MaxAsks /\ faults \in 0..MaxFaults
  BY RouterAssumption DEF Init
<1>5. alone \in Actor \cup {Nobody}
  BY DEF Init, Actor
<1>6. QED
  BY <1>1, <1>2, <1>3, <1>4, <1>5 DEF Init, TypeOK

\* Types are kept by every step.
LEMMA TypeStep == TypeOK /\ [Next]_vars => TypeOK'
<1> SUFFICES ASSUME TypeOK, [Next]_vars PROVE TypeOK'
  OBVIOUS
<1> USE RouterAssumption DEF TypeOK, Actor, Ops, Commands, Goto, Finish, InitScript,
        system, process, bound, history, Idle
<1>1. CASE UNCHANGED vars
  BY <1>1 DEF vars
<1>2. ASSUME NEW a \in Actor, Command(a) PROVE TypeOK'
  <2>0. ASSUME Started(a), pc[a] # "idle"
        PROVE /\ op' \in [Actor -> Ops] /\ pc' \in [Actor -> Commands]
              /\ \A b \in Actor : op'[b] = "none" <=> pc'[b] = "idle"
              /\ ST' \in BOOLEAN
              /\ alone' \in Actor \cup {Nobody}
              /\ mode' \in {"on", "off", "mixed"}
    <3>1. ST' \in BOOLEAN
      BY <2>0 DEF Started
    <3>2. mode' \in {"on", "off", "mixed"} /\ alone' \in Actor \cup {Nobody}
      BY <2>0 DEF Started
    <3>3. op' \in [Actor -> Ops] /\ pc' \in [Actor -> Commands]
      BY <2>0 DEF Started
    <3>4. \A b \in Actor : op'[b] = "none" <=> pc'[b] = "idle"
      BY <2>0 DEF Started
    <3>5. QED
      BY <3>1, <3>2, <3>3, <3>4
  <2>1. CASE Wipe(a)
    <3>1. file' \in BOOLEAN
      BY <2>1, Zenon DEF Wipe
    <3>2. QED
      BY <2>1, <3>1 DEF Wipe
  <2>2. CASE StopRestarts(a) BY <2>2 DEF StopRestarts
  <2>3. CASE StopGreps(a) BY <2>3 DEF StopGreps
  <2>4. CASE Flush(a)
    <3>1. nat' \in BOOLEAN
      BY <2>4, Zenon DEF Flush
    <3>2. QED
      BY <2>4, <3>1 DEF Flush
  <2>5. CASE StopRestartsAgain(a) BY <2>5 DEF StopRestartsAgain
  <2>6. CASE Kill(a)
    <3>1. ST' \in BOOLEAN
      BY <2>6 DEF Kill
    <3>2. mode' \in {"on", "off", "mixed"} /\ alone' \in Actor \cup {Nobody}
      BY <2>6 DEF Kill
    <3>3. op' \in [Actor -> Ops] /\ pc' \in [Actor -> Commands]
      BY <2>6 DEF Kill
    <3>4. \A b \in Actor : op'[b] = "none" <=> pc'[b] = "idle"
      BY <2>6 DEF Kill
    <3>5. QED
      BY <2>6, <3>1, <3>2, <3>3, <3>4 DEF Kill
  <2>7. CASE Redsocks2(a) BY <2>7 DEF Redsocks2
  <2>8. CASE WriteRules(a) BY <2>8 DEF WriteRules
  <2>9. CASE StartRestarts(a) BY <2>9 DEF StartRestarts
  <2>10. CASE StartGreps(a) BY <2>10, <2>0 DEF StartGreps
  <2>11. CASE LoadRules(a)
    <3>1. nat' \in BOOLEAN
      BY <2>11 DEF LoadRules
    <3>2. QED
      BY <2>11, <2>0, <3>1 DEF LoadRules
  <2>12. CASE ReadFile(a) BY <2>12 DEF ReadFile
  <2>13. CASE ClearRedsocks(a) BY <2>13 DEF ClearRedsocks
  <2>14. CASE ReadRules(a) BY <2>14 DEF ReadRules, Restart
  <2>15. CASE KeeperReadsMode(a) BY <2>15 DEF KeeperReadsMode
  <2>16. CASE KeeperReadsRedsocks(a) BY <2>16 DEF KeeperReadsRedsocks, Restart
  <2>17. CASE KeeperReadsRedirect(a) BY <2>17 DEF KeeperReadsRedirect
  <2>18. QED
    BY <1>2, <2>1, <2>2, <2>3, <2>4, <2>5, <2>6, <2>7, <2>8, <2>9, <2>10, <2>11,
       <2>12, <2>13, <2>14, <2>15, <2>16, <2>17 DEF Command
<1>3. CASE Tick
  BY <1>3 DEF Tick, Begin
<1>4. ASSUME NEW a \in Asker, Request(a) PROVE TypeOK'
  <2>1. CASE ZRoute(a) BY <2>1 DEF ZRoute, Ask, Begin
  <2>2. CASE ZLogin(a) BY <2>2 DEF ZLogin, Ask, Begin
  <2>3. QED BY <1>4, <2>1, <2>2 DEF Request
<1>5. CASE RedsocksDies
  <2>1. faults' \in 0..MaxFaults
    BY <1>5 DEF RedsocksDies, Fault
  <2>2. QED
    BY <1>5, <2>1 DEF RedsocksDies
<1>6. ASSUME Reborn PROVE /\ op' \in [Actor -> Ops] /\ pc' \in [Actor -> Commands]
                          /\ \A a \in Actor : op'[a] = "none" <=> pc'[a] = "idle"
                          /\ alone' \in Actor \cup {Nobody}
                          /\ mode' \in {"on", "off", "mixed"}
                          /\ address' \in BOOLEAN /\ ST' \in BOOLEAN
                          /\ logined' \in BOOLEAN
  BY <1>6 DEF Reborn
<1>7. CASE ClientDies
  <2>1. faults' \in 0..MaxFaults
    BY <1>7 DEF ClientDies, Fault
  <2>2. QED
    BY <1>6, <1>7, <2>1 DEF ClientDies
<1>8. CASE DeviceRestarts
  <2>1. faults' \in 0..MaxFaults
    BY <1>8 DEF DeviceRestarts, Fault
  <2>2. nat' \in BOOLEAN
    BY <1>8 DEF DeviceRestarts
  <2>3. QED
    BY <1>6, <1>8, <2>1, <2>2 DEF DeviceRestarts
<1>9. QED
  BY <1>1, <1>2, <1>3, <1>4, <1>5, <1>7, <1>8 DEF Next

\* Type correctness: the program point of a goroutine and what it is doing agree.
THEOREM TypeCorrect == Spec => []TypeOK
<1>1. QED BY TypeInit, TypeStep, PTL DEF Spec

-----------------------------------------------------------------------------
\* Rules stay those of known hosts.
LEMMA SourcedStep == TypeOK /\ TypeOK' /\ Sourced /\ [Next]_vars => Sourced'
<1> SUFFICES ASSUME TypeOK, TypeOK', Sourced, [Next]_vars PROVE Sourced'
  OBVIOUS
<1> USE RouterAssumption DEF TypeOK, Actor, Goto, Finish, InitScript, Idle,
        system, process, bound, history, Sourced
<1>1. CASE UNCHANGED vars
  BY <1>1 DEF vars
<1>2. ASSUME NEW a \in Actor, Command(a) PROVE Sourced'
  <2>1. CASE Wipe(a) BY <2>1 DEF Wipe
  <2>2. CASE StopRestarts(a) BY <2>2 DEF StopRestarts
  <2>3. CASE StopGreps(a) BY <2>3 DEF StopGreps
  <2>4. CASE Flush(a) BY <2>4 DEF Flush
  <2>5. CASE StopRestartsAgain(a) BY <2>5 DEF StopRestartsAgain
  <2>6. CASE Kill(a) BY <2>6 DEF Kill
  <2>7. CASE Redsocks2(a) BY <2>7 DEF Redsocks2
  <2>8. CASE WriteRules(a) BY <2>8 DEF WriteRules
  <2>9. CASE StartRestarts(a) BY <2>9 DEF StartRestarts
  <2>10. CASE StartGreps(a) BY <2>10 DEF StartGreps, Started
  <2>11. CASE LoadRules(a) BY <2>11 DEF LoadRules, Started
  <2>12. CASE ReadFile(a) BY <2>12 DEF ReadFile
  <2>13. CASE ClearRedsocks(a) BY <2>13 DEF ClearRedsocks
  <2>14. CASE ReadRules(a) BY <2>14 DEF ReadRules, Restart
  <2>15. CASE KeeperReadsMode(a) BY <2>15 DEF KeeperReadsMode
  <2>16. CASE KeeperReadsRedsocks(a) BY <2>16 DEF KeeperReadsRedsocks, Restart
  <2>17. CASE KeeperReadsRedirect(a) BY <2>17 DEF KeeperReadsRedirect
  <2>18. QED
    BY <1>2, <2>1, <2>2, <2>3, <2>4, <2>5, <2>6, <2>7, <2>8, <2>9, <2>10, <2>11, <2>12, <2>13, <2>14, <2>15, <2>16, <2>17 DEF Command
<1>3. CASE Tick
  BY <1>3 DEF Tick, Begin
<1>4. ASSUME NEW a \in Asker, Request(a) PROVE Sourced'
  <2>1. CASE ZRoute(a) BY <2>1 DEF ZRoute, Ask, Begin
  <2>2. CASE ZLogin(a) BY <2>2 DEF ZLogin, Ask, Begin
  <2>3. QED BY <1>4, <2>1, <2>2 DEF Request
<1>5. CASE RedsocksDies
  BY <1>5 DEF RedsocksDies
<1>6. CASE ClientDies
  BY <1>6 DEF ClientDies, Reborn
<1>7. CASE DeviceRestarts
  BY <1>7 DEF DeviceRestarts, Reborn
<1>8. QED
  BY <1>1, <1>2, <1>3, <1>4, <1>5, <1>6, <1>7 DEF Next

\* Whoever is alone finds what its last commands left.
LEMMA LoneStep ==
    TypeOK /\ TypeOK' /\ Sourced /\ Lone /\ [Next]_vars => Lone'
<1> SUFFICES ASSUME TypeOK, TypeOK', Sourced, Lone, [Next]_vars PROVE Lone'
  OBVIOUS
<1> USE RouterAssumption DEF TypeOK, Actor, Goto, Finish, InitScript, Idle,
        system, process, bound, history,
        Sourced, Lone, Reached, Lists1091, Clears
<1>1. CASE UNCHANGED vars
  BY <1>1 DEF vars
<1>2. ASSUME NEW a \in Actor, Command(a) PROVE Lone'
  <2>1. CASE Wipe(a) BY <2>1 DEF Wipe
  <2>2. CASE StopRestarts(a) BY <2>2 DEF StopRestarts
  <2>3. CASE StopGreps(a) BY <2>3 DEF StopGreps
  <2>4. CASE Flush(a) BY <2>4 DEF Flush
  <2>5. CASE StopRestartsAgain(a) BY <2>5 DEF StopRestartsAgain
  <2>6. CASE Kill(a) BY <2>6 DEF Kill
  <2>7. CASE Redsocks2(a) BY <2>7 DEF Redsocks2
  <2>8. CASE WriteRules(a) BY <2>8 DEF WriteRules
  <2>9. CASE StartRestarts(a) BY <2>9 DEF StartRestarts
  <2>10. CASE StartGreps(a) BY <2>10 DEF StartGreps, Started
  <2>11. CASE LoadRules(a) BY <2>11 DEF LoadRules, Started
  <2>12. CASE ReadFile(a) BY <2>12 DEF ReadFile
  <2>13. CASE ClearRedsocks(a) BY <2>13 DEF ClearRedsocks
  <2>14. CASE ReadRules(a) BY <2>14 DEF ReadRules, Restart
  <2>15. CASE KeeperReadsMode(a) BY <2>15 DEF KeeperReadsMode
  <2>16. CASE KeeperReadsRedsocks(a) BY <2>16 DEF KeeperReadsRedsocks, Restart
  <2>17. CASE KeeperReadsRedirect(a) BY <2>17 DEF KeeperReadsRedirect
  <2>18. QED
    BY <1>2, <2>1, <2>2, <2>3, <2>4, <2>5, <2>6, <2>7, <2>8, <2>9, <2>10, <2>11, <2>12, <2>13, <2>14, <2>15, <2>16, <2>17 DEF Command
<1>3. CASE Tick
  BY <1>3 DEF Tick, Begin
<1>4. ASSUME NEW a \in Asker, Request(a) PROVE Lone'
  <2>1. CASE ZRoute(a) BY <2>1 DEF ZRoute, Ask, Begin
  <2>2. CASE ZLogin(a) BY <2>2 DEF ZLogin, Ask, Begin
  <2>3. QED BY <1>4, <2>1, <2>2 DEF Request
<1>5. CASE RedsocksDies
  BY <1>5 DEF RedsocksDies
<1>6. CASE ClientDies
  BY <1>6 DEF ClientDies, Reborn
<1>7. CASE DeviceRestarts
  BY <1>7 DEF DeviceRestarts, Reborn
<1>8. QED
  BY <1>1, <1>2, <1>3, <1>4, <1>5, <1>6, <1>7 DEF Next

\* A known mode stays as it is, whoever looks.
LEMMA SettledStep ==
    TypeOK /\ TypeOK' /\ Sourced /\ Lone /\ Settled /\ ModeHolds /\ [Next]_vars
        => (Settled /\ ModeHolds)'
<1> SUFFICES ASSUME TypeOK, TypeOK', Sourced, Lone, Settled, ModeHolds, [Next]_vars
             PROVE (Settled /\ ModeHolds)'
  OBVIOUS
<1> USE RouterAssumption DEF TypeOK, Actor, Goto, Finish, InitScript, Idle,
        system, process, bound, history,
        Sourced, Lone, Reached, Lists1091, Clears, Settled, ModeHolds, Looks, Found
<1>1. CASE UNCHANGED vars
  BY <1>1 DEF vars
<1>2. ASSUME NEW a \in Actor, Command(a) PROVE (Settled /\ ModeHolds)'
  <2>1. CASE Wipe(a) BY <2>1 DEF Wipe
  <2>2. CASE StopRestarts(a) BY <2>2 DEF StopRestarts
  <2>3. CASE StopGreps(a) BY <2>3 DEF StopGreps
  <2>4. CASE Flush(a) BY <2>4 DEF Flush
  <2>5. CASE StopRestartsAgain(a) BY <2>5 DEF StopRestartsAgain
  <2>6. CASE Kill(a) BY <2>6 DEF Kill
  <2>7. CASE Redsocks2(a) BY <2>7 DEF Redsocks2
  <2>8. CASE WriteRules(a) BY <2>8 DEF WriteRules
  <2>9. CASE StartRestarts(a) BY <2>9 DEF StartRestarts
  <2>10. CASE StartGreps(a) BY <2>10 DEF StartGreps, Started
  <2>11. CASE LoadRules(a) BY <2>11 DEF LoadRules, Started
  <2>12. CASE ReadFile(a) BY <2>12 DEF ReadFile
  <2>13. CASE ClearRedsocks(a) BY <2>13 DEF ClearRedsocks
  <2>14. CASE ReadRules(a) BY <2>14 DEF ReadRules, Restart
  <2>15. CASE KeeperReadsMode(a) BY <2>15 DEF KeeperReadsMode
  <2>16. CASE KeeperReadsRedsocks(a) BY <2>16 DEF KeeperReadsRedsocks, Restart
  <2>17. CASE KeeperReadsRedirect(a) BY <2>17 DEF KeeperReadsRedirect
  <2>18. QED
    BY <1>2, <2>1, <2>2, <2>3, <2>4, <2>5, <2>6, <2>7, <2>8, <2>9, <2>10, <2>11, <2>12, <2>13, <2>14, <2>15, <2>16, <2>17 DEF Command
<1>3. CASE Tick
  BY <1>3 DEF Tick, Begin
<1>4. ASSUME NEW a \in Asker, Request(a) PROVE (Settled /\ ModeHolds)'
  <2>1. CASE ZRoute(a) BY <2>1 DEF ZRoute, Ask, Begin
  <2>2. CASE ZLogin(a) BY <2>2 DEF ZLogin, Ask, Begin
  <2>3. QED BY <1>4, <2>1, <2>2 DEF Request
<1>5. CASE RedsocksDies
  BY <1>5 DEF RedsocksDies
<1>6. CASE ClientDies
  BY <1>6 DEF ClientDies, Reborn
<1>7. CASE DeviceRestarts
  BY <1>7 DEF DeviceRestarts, Reborn
<1>8. QED
  BY <1>1, <1>2, <1>3, <1>4, <1>5, <1>6, <1>7 DEF Next

LEMMA ModeInit == Init => Sourced /\ Lone /\ Settled /\ ModeHolds
BY RouterAssumption DEF Init, Sourced, Lone, Reached, Settled, ModeHolds, Actor, Idle

\* After an operation that nothing overlapped the device is in the mode it asked
\* for, however many requests and looks went before it.
THEOREM ModeKept == Spec => []ModeHolds
<1>1. Init => ModeInv
  BY TypeInit, ModeInit DEF ModeInv
<1>2. ModeInv /\ [Next]_vars => ModeInv'
  BY TypeStep, SourcedStep, LoneStep, SettledStep DEF ModeInv
<1>3. ModeInv => ModeHolds
  BY DEF ModeInv
<1>4. QED
  BY <1>1, <1>2, <1>3, PTL DEF Spec

-----------------------------------------------------------------------------
(* That the keeper's looks can help: what RestartRouterMode needs.         *)

\* LAST_USE_LOCAL_ADDR, without which RestartRouterMode stops nothing and starts
\* nothing, is empty only until the first command of the boot, when nobody but
\* the keeper runs; a client that died and came back boots again
\* (r.go:178-179, 513-518, httpcontroll.go:121-133).
RestartsHaveAddress ==
    \/ address
    \/ /\ op[Keeper] = "boot" /\ pc[Keeper] = "exec"
       /\ \A a \in Asker : Idle(a)

\* A client that starts is about to run its first command.
LEMMA AddressInit == Init => RestartsHaveAddress
BY RouterAssumption DEF Init, RestartsHaveAddress, Actor, Idle

\* No step of anybody takes the address away but a boot.
LEMMA AddressStep ==
    TypeOK /\ RestartsHaveAddress /\ [Next]_vars => RestartsHaveAddress'
<1> SUFFICES ASSUME TypeOK, RestartsHaveAddress, [Next]_vars
             PROVE RestartsHaveAddress'
  OBVIOUS
<1>1. CASE ClientDies \/ DeviceRestarts
  BY <1>1, RouterAssumption
     DEF ClientDies, DeviceRestarts, Reborn, RestartsHaveAddress, Actor, Idle
<1>2. CASE address /\ ~(ClientDies \/ DeviceRestarts)
  <2>1. address'
    BY <1>2 DEF Next, Command, Wipe, StopRestarts, StopGreps, Flush,
       StopRestartsAgain, Kill, Redsocks2, WriteRules, StartRestarts, StartGreps,
       LoadRules, ReadFile, ClearRedsocks, ReadRules, KeeperReadsMode,
       KeeperReadsRedsocks, KeeperReadsRedirect, Tick, Request, ZRoute, ZLogin,
       Ask, RedsocksDies, vars, process
  <2>. QED  BY <2>1 DEF RestartsHaveAddress
\* Before there is one, only the keeper can run, and it sets one.
<1>3. CASE ~address /\ ~(ClientDies \/ DeviceRestarts)
  <2>0. /\ op[Keeper] = "boot" /\ pc[Keeper] = "exec"
        /\ \A a \in Asker : Idle(a)
    BY <1>3 DEF RestartsHaveAddress
  <2>1. CASE UNCHANGED vars \/ RedsocksDies
    BY <2>0, <2>1 DEF vars, process, RedsocksDies, RestartsHaveAddress, Idle
  <2>2. ASSUME NEW a \in Actor, Command(a) PROVE RestartsHaveAddress'
    <3>1. ~Idle(a)
      BY <2>2 DEF Command, Wipe, StopRestarts, StopGreps, Flush,
         StopRestartsAgain, Kill, Redsocks2, WriteRules, StartRestarts,
         StartGreps, LoadRules, ReadFile, ClearRedsocks, ReadRules,
         KeeperReadsMode, KeeperReadsRedsocks, KeeperReadsRedirect, Idle
    <3>2. a = Keeper
      BY <2>0, <3>1 DEF Actor
    <3>3. Redsocks2(a)
      BY <2>0, <2>2, <3>2 DEF Command, Wipe, StopRestarts, StopGreps, Flush,
         StopRestartsAgain, Kill, WriteRules, StartRestarts, StartGreps,
         LoadRules, ReadFile, ClearRedsocks, ReadRules, KeeperReadsMode,
         KeeperReadsRedsocks, KeeperReadsRedirect
    <3>. QED  BY <3>3 DEF Redsocks2, RestartsHaveAddress
  <2>3. ~Tick /\ \A a \in Asker : ~Request(a)
    BY <2>0 DEF Tick, Idle, Request, ZRoute, ZLogin, Ask
  <2>. QED  BY <1>3, <2>1, <2>2, <2>3 DEF Next
<1>. QED  BY <1>1, <1>2, <1>3

\* Whatever died and whatever overlapped, a look that finds the mode broken can
\* start it again: the part of NotCutOff that needs no fairness.
THEOREM RestartsCan == Spec => []RestartsHaveAddress
<1>1. QED
  BY AddressInit, AddressStep, TypeInit, TypeStep, PTL DEF Spec
=============================================================================
