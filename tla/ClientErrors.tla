------------------------------ MODULE ClientErrors ------------------------------
(***************************************************************************)
(* The error accounting of the client (src/clientcontroll/controll.go):    *)
(* errorid counts the errors of each profile by its ID, ErrCount those of  *)
(* all, RouteErrCount those of the route.  Socks5Listen's loop compares    *)
(* them with its thresholds before each Accept; it starts a                *)
(* ReportErrorProxy, which has the server replace the worst profiles, or   *)
(* leaves the route.  AutoSwitchProfile replaces a profile of its own      *)
(* choice.                                                                 *)
(*                                                                         *)
(* Any number of these goroutines run at once; each LockArea is a step, as *)
(* is each read without the lock.  A hunt, which takes profiles from the   *)
(* channel and puts back those it does not want, is the step that meets a  *)
(* wanted one: that the channel may be full is in ProfilePool, the         *)
(* sessions that ReportErrorProxy closes in the end are in ClientSessions. *)
(* Go's fatal error on a map read that meets a write is left out.          *)
(*                                                                         *)
(* An ID is the number of the tunnel the server made.  /proxy-get goes     *)
(* round the server's tunnels, so the channel may hold several profiles of *)
(* one ID; /proxy-err always makes a new tunnel.  Errors may come under    *)
(* the ID of a tunnel that was replaced, from a connection that outlives   *)
(* it.  0 is the empty ID, under which all errors of smux sessions come.   *)
(***************************************************************************)
EXTENDS Integers, FiniteSets

CONSTANTS
    Reporter,    \* goroutines that run ReportErrorProxy
    Switcher,    \* goroutines that run AutoSwitchProfile
    Tell,        \* more errors of one ID than this are reported (4)
    Alarm,       \* more errors than this start a report (12)
    Leave,       \* more errors than this end the route (70)
    RouteLeave,  \* more errors of the route than this end it (10)
    MaxId,       \* bounds the tunnels the servers make
    MaxCopies,   \* bounds the profiles of one tunnel in the channel
    MaxErrors,   \* bounds the errors recorded
    MaxRoute     \* bounds the changes of route

ASSUME ErrorsAssumption ==
    /\ Reporter \cap Switcher = {}
    /\ Tell \in Nat /\ Alarm \in Nat /\ Leave \in Nat /\ RouteLeave \in Nat
    /\ MaxId \in Nat /\ MaxCopies \in Nat /\ MaxErrors \in Nat /\ MaxRoute \in Nat

NoId == 0
Id == 0..MaxId
Hunter == Reporter \cup Switcher

VARIABLES
    pool,           \* how many profiles of each ID are in proxyProfiles
    issued,         \* tunnels made so far; their IDs are 1..issued
    errorid,        \* errorid; an ID without an entry counts 0
    ErrCount,       \* ErrCount
    RouteErrCount,  \* RouteErrCount; RouteLeave + 1 stands for any more
    ReportingMark,  \* the IDs that are marked
    running,        \* Socks5Listen's loop: "yes", "no", or "init" while Init resets
    pc,             \* where a goroutine stands
    ids,            \* ids, or maxid
    left,           \* left
    got,            \* the ID of the profile it has taken
    errnum,         \* errnum, as it was read
    recorded,       \* errors recorded so far
    route           \* routes left so far

\* History.  todo: of its ids, those a goroutine has not taken yet.  seen:
\* those of them that were in the channel when it set out, as long as nothing
\* is robbed.  robbed: a profile some goroutine hunts was taken by an
\* AutoSwitchProfile, was dropped, alone or with all others, or was the second
\* of one ID for a report.
\* failed: the IDs whose report brought no profile.  charged: the IDs whose
\* errors a report has read to subtract them, up to a drift.  drift: an error is subtracted
\* that ErrCount does not have: one of a charged ID, one that errorid does
\* not have either, or one that the reset of ErrCount took away.
VARIABLES todo, seen, robbed, failed, charged, drift

counts == <<errorid, ErrCount, RouteErrCount>>
local == <<pc, ids, left, got, errnum, todo>>
bound == <<recorded, route>>
history == <<seen, robbed, failed, charged, drift>>
vars == <<pool, issued, counts, ReportingMark, running, local, bound, history>>

TypeOK ==
    /\ issued \in 0..MaxId
    /\ pool \in [Id -> 0..MaxCopies] /\ \A i \in Id : pool[i] > 0 => i \in 1..issued
    /\ errorid \in [Id -> Nat]
    /\ ErrCount \in Int
    /\ RouteErrCount \in 0..(RouteLeave + 1)
    /\ ReportingMark \subseteq Id
    /\ running \in {"yes", "no", "init"}
    /\ pc \in [Hunter -> {"idle", "mark", "hunt", "charge", "post", "renew"}]
    /\ ids \in [Hunter -> SUBSET Id] /\ left \in [Hunter -> 0..(MaxId + 1)]
    /\ got \in [Hunter -> Id]
    /\ errnum \in [Hunter -> Nat]
    /\ recorded \in 0..MaxErrors /\ route \in 0..MaxRoute
    /\ todo \in [Hunter -> SUBSET Id] /\ seen \in [Hunter -> SUBSET Id]
    /\ failed \subseteq Id /\ charged \subseteq Id
    /\ robbed \in BOOLEAN /\ drift \in BOOLEAN

\* Init, of the first route.
Init ==
    /\ pool = [i \in Id |-> 0] /\ issued = 0
    /\ errorid = [i \in Id |-> 0] /\ ErrCount = 0 /\ RouteErrCount = 0
    /\ ReportingMark = {}
    /\ running = "yes"
    /\ pc = [g \in Hunter |-> "idle"]
    /\ ids = [g \in Hunter |-> {}] /\ left = [g \in Hunter |-> 0]
    /\ got = [g \in Hunter |-> NoId]
    /\ errnum = [g \in Hunter |-> 0]
    /\ recorded = 0 /\ route = 0
    /\ todo = [g \in Hunter |-> {}] /\ seen = [g \in Hunter |-> {}]
    /\ failed = {} /\ charged = {}
    /\ robbed = FALSE /\ drift = FALSE

Goto(g, l) == pc' = [pc EXCEPT ![g] = l]
Less(n) == IF n > 0 THEN n - 1 ELSE n
Praise ==
    \/ RouteErrCount' = Less(RouteErrCount)
    \/ RouteErrCount > RouteLeave /\ UNCHANGED RouteErrCount
Blame(n) ==
    RouteErrCount' = IF RouteErrCount + n > RouteLeave THEN RouteLeave + 1 ELSE RouteErrCount + n

Rob(c, s) ==
    /\ robbed' = (robbed \/ c)
    /\ seen' = IF robbed' THEN [g \in Hunter |-> {}] ELSE s
Drift(c, s) ==
    /\ drift' = (drift \/ c)
    /\ charged' = IF drift' THEN {} ELSE s

\* A profile of tunnel i is received, or sent.
Receive(i) == pool[i] > 0 /\ pool' = [pool EXCEPT ![i] = @ - 1]
Send(i) == pool[i] < MaxCopies /\ pool' = [pool EXCEPT ![i] = @ + 1]

\* The errors of i are forgotten, ErrCount keeps them.
Clear(i) == errorid' = [errorid EXCEPT ![i] = 0] /\ charged' = charged \ {i}

\* The channel is emptied, but for profiles that a rebuild has taken and puts
\* back, and so is errorid.
Forget ==
    /\ pool' \in [Id -> 0..MaxCopies] /\ \A i \in Id : pool'[i] <= pool[i]
    /\ errorid' = [i \in Id |-> 0] /\ charged' = {}
    /\ Rob(\E g \in Hunter : todo[g] # {}, seen)

-----------------------------------------------------------------------------
(* What connections and DNS queries report of the session they used.       *)

ErrRecord(eid, i) ==
    /\ recorded + i <= MaxErrors
    /\ recorded' = recorded + i
    /\ errorid' = [errorid EXCEPT ![eid] = @ + i]
    /\ ErrCount' = ErrCount + i
    /\ IF i > 1 THEN Blame(1) ELSE UNCHANGED RouteErrCount
    /\ UNCHANGED <<pool, issued, ReportingMark, running, local, route, history>>

\* Fault: a count of no errors is lowered.
ErrVanishBelow(eid) ==
    /\ errorid' = [errorid EXCEPT ![eid] = @ - 1]
    /\ ErrCount' = Less(ErrCount)
    /\ Praise
    /\ UNCHANGED <<pool, issued, ReportingMark, running, local, bound, history>>

ErrVanish(eid) ==
    /\ errorid' = [errorid EXCEPT ![eid] = Less(@)]
    /\ ErrCount' = Less(ErrCount)
    /\ Praise
    /\ Drift(errorid[eid] = 0 \/ eid \in charged, charged)
    /\ UNCHANGED <<pool, issued, ReportingMark, running, local, bound, seen, robbed, failed>>

\* A connection's first write, a control request, or a fetch of a profile
\* fails.
RouteError ==
    /\ Blame(1)
    /\ UNCHANGED <<pool, issued, errorid, ErrCount, ReportingMark, running, local, bound,
                   history>>

\* GetAviableProxy brings a profile of a tunnel that the client has met before
\* or not.
Obtain(i) ==
    /\ i \in 1..MaxId /\ i <= issued + 1
    /\ issued' = IF i > issued THEN i ELSE issued
    /\ Clear(i)

\* It is sent.
Fetch == \E i \in 1..MaxId : Obtain(i) /\ Send(i)

\* RebuildSmux puts the profile it got into the channel.
NewProfile ==
    /\ Fetch
    /\ UNCHANGED <<ErrCount, RouteErrCount, ReportingMark, running, local, bound, seen, robbed,
                   failed, drift>>

-----------------------------------------------------------------------------
(* Socks5Listen's loop, at its head.                                       *)

TooMany == RouteErrCount > RouteLeave \/ ErrCount > Leave

StartReport(g) ==
    /\ running = "yes" /\ ~TooMany /\ ErrCount > Alarm
    /\ g \in Reporter /\ pc[g] = "idle"
    /\ Goto(g, "mark")
    /\ UNCHANGED <<pool, issued, counts, ReportingMark, running, ids, left, got, errnum, todo,
                   bound, history>>

\* After an Accept, once the last AutoSwitchProfile is 30 seconds past.
StartSwitch(g) ==
    /\ running = "yes" /\ ~TooMany
    /\ g \in Switcher /\ pc[g] = "idle"
    /\ Goto(g, "mark")
    /\ UNCHANGED <<pool, issued, counts, ReportingMark, running, ids, left, got, errnum, todo,
                   bound, history>>

\* ChangeNextRoute: the loop ends, ChangeRoute follows.
LeaveRoute ==
    /\ running = "yes" /\ TooMany
    /\ running' = "no"
    /\ UNCHANGED <<pool, issued, counts, ReportingMark, local, bound, history>>

\* ChangeRoute calls Init, which takes no lock; it empties the channel and
\* errorid, and leaves the marks.
ChangeRoute ==
    /\ running = "no" /\ route < MaxRoute
    /\ route' = route + 1
    /\ running' = "init"
    /\ Forget
    /\ UNCHANGED <<issued, ErrCount, RouteErrCount, ReportingMark, local, recorded, failed, drift>>

\* Then it resets the sums: an error recorded in between stays in errorid.
InitCounts ==
    /\ running = "init"
    /\ running' = "yes"
    /\ ErrCount' = 0 /\ RouteErrCount' = 0
    /\ Drift((\E i \in Id : errorid[i] > 0) \/ (\E g \in Hunter : pc[g] = "charge"), charged)
    /\ UNCHANGED <<pool, issued, errorid, ReportingMark, local, bound, seen, robbed, failed>>

\* ChangeProxyType, of a control request or the web interface; it leaves ErrCount.
ChangeProxyType ==
    /\ Forget
    /\ UNCHANGED <<issued, ErrCount, RouteErrCount, ReportingMark, running, local, bound, failed,
                   drift>>

\* Then it calls GetAviableProxy confNum times and drops what that brings: a
\* profile of the server's, or, as others fetch at the same time, one of the
\* channel; a call that brings none is a RouteError.  Any number of requests
\* may have begun, before the first profile came too, so such a call may come
\* at any time.
DropProfile ==
    /\ \/ /\ \E i \in 1..MaxId : Obtain(i)
          /\ UNCHANGED <<pool, robbed, seen>>
       \/ /\ \E i \in Id : Receive(i) /\ Rob(\E g \in Hunter : i \in todo[g], seen)
          /\ UNCHANGED <<issued, errorid, charged>>
    /\ UNCHANGED <<ErrCount, RouteErrCount, ReportingMark, running, local, bound, failed, drift>>

-----------------------------------------------------------------------------
(* ReportErrorProxy and ErrSoGetNew.                                       *)

\* It sets out for the IDs of n.
SetOut(g, n) ==
    /\ ids' = [ids EXCEPT ![g] = n] /\ todo' = [todo EXCEPT ![g] = n]
    /\ left' = [left EXCEPT ![g] = Cardinality(n)]
    /\ Rob(FALSE, [seen EXCEPT ![g] = {i \in n : pool[i] > 0}])

\* Fault: an ID that is being reported is reported again.
MarkAgain(g) ==
    /\ g \in Reporter /\ pc[g] = "mark"
    /\ LET n == {i \in Id : errorid[i] > Tell}
       IN  /\ SetOut(g, n)
           /\ ReportingMark' = ReportingMark \cup n
           /\ Goto(g, IF n = {} THEN "idle" ELSE "hunt")
    /\ UNCHANGED <<pool, issued, counts, running, got, errnum, bound, failed, charged, drift>>

Mark(g) ==
    /\ g \in Reporter /\ pc[g] = "mark"
    /\ LET n == {i \in Id : errorid[i] > Tell} \ ReportingMark
       IN  /\ SetOut(g, n)
           /\ ReportingMark' = ReportingMark \cup n
           /\ Goto(g, IF n = {} THEN "idle" ELSE "hunt")
    /\ UNCHANGED <<pool, issued, counts, running, got, errnum, bound, failed, charged, drift>>

\* A profile of one of ids is received, whether or not that ID was reported
\* already, and its errors are read without the lock.
Take(g) ==
    /\ g \in Reporter /\ pc[g] = "hunt"
    /\ \E i \in ids[g] :
         /\ Receive(i)
         /\ got' = [got EXCEPT ![g] = i]
         /\ errnum' = [errnum EXCEPT ![g] = errorid[i]]
         /\ todo' = [todo EXCEPT ![g] = @ \ {i}]
         /\ Rob(i \notin todo[g], [seen EXCEPT ![g] = @ \ {i}])
         /\ Drift(i \in charged, charged \cup {i})
    /\ Goto(g, "charge")
    /\ UNCHANGED <<issued, counts, ReportingMark, running, ids, left, bound, failed>>

\* Fault: one error too many is subtracted.
ChargeMore(g) ==
    /\ pc[g] = "charge"
    /\ ErrCount' = ErrCount - errnum[g] - 1
    /\ Goto(g, "post")
    /\ UNCHANGED <<pool, issued, errorid, RouteErrCount, ReportingMark, running, ids, left, got,
                   errnum, todo, bound, history>>

\* The errors of one ID are subtracted with every profile of it.
Charge(g) ==
    /\ pc[g] = "charge"
    /\ ErrCount' = ErrCount - errnum[g]
    /\ Goto(g, "post")
    /\ UNCHANGED <<pool, issued, errorid, RouteErrCount, ReportingMark, running, ids, left, got,
                   errnum, todo, bound, history>>

\* The IDs that the last of left leaves without a report.
Missed(g) == IF left[g] = 1 THEN todo[g] ELSE {}

\* One more of left is done; the last ends the report, up to the closing of
\* the sessions.
NextOf(g) ==
    /\ left' = [left EXCEPT ![g] = @ - 1]
    /\ Goto(g, IF left[g] = 1 THEN "idle" ELSE "hunt")
    /\ todo' = [todo EXCEPT ![g] = @ \ Missed(g)] /\ seen' = [seen EXCEPT ![g] = @ \ Missed(g)]
    /\ ids' = [ids EXCEPT ![g] = IF left[g] = 1 THEN {} ELSE @]
    /\ got' = [got EXCEPT ![g] = NoId] /\ errnum' = [errnum EXCEPT ![g] = 0]

\* POST /proxy-err fails, up to twice an error of the route, or what it
\* brings is not a profile: the mark stays and the profile is gone.
PostFails(g) ==
    /\ g \in Reporter /\ pc[g] = "post"
    /\ \E n \in 0..2 : Blame(n)
    /\ NextOf(g)
    /\ failed' = failed \cup {got[g]} \cup Missed(g)
    /\ UNCHANGED <<pool, issued, errorid, ErrCount, ReportingMark, running, bound, robbed,
                   charged, drift>>

\* The new profile is counted from 0, the old one's count is left as it is.
Replace(g) ==
    /\ g \in Reporter /\ pc[g] = "post" /\ issued < MaxId
    /\ issued' = issued + 1
    /\ Send(issued + 1) /\ Clear(issued + 1) /\ Praise
    /\ NextOf(g)
    /\ failed' = failed \cup Missed(g)

\* Fault: the mark is left.
PostSucceedsMarked(g) ==
    /\ Replace(g)
    /\ UNCHANGED <<ErrCount, ReportingMark, running, bound, robbed, drift>>

PostSucceeds(g) ==
    /\ Replace(g)
    /\ ReportingMark' = ReportingMark \ {got[g]}
    /\ UNCHANGED <<ErrCount, running, bound, robbed, drift>>

-----------------------------------------------------------------------------
(* AutoSwitchProfile.                                                      *)

\* The last ID with an error that the map's order brings: maxnum stays 0.
\* Its errors stay in ErrCount.
Pick(g) ==
    /\ g \in Switcher /\ pc[g] = "mark"
    /\ \/ /\ errorid[NoId] > 0 \/ \A i \in Id : errorid[i] = 0
          /\ Goto(g, "idle")
          /\ UNCHANGED <<errorid, charged, ids, todo>>
       \/ \E i \in Id \ {NoId} :
            /\ errorid[i] > 0
            /\ Clear(i)
            /\ ids' = [ids EXCEPT ![g] = {i}] /\ todo' = [todo EXCEPT ![g] = {i}]
            /\ Goto(g, "hunt")
    /\ UNCHANGED <<pool, issued, ErrCount, RouteErrCount, ReportingMark, running, left, got,
                   errnum, bound, seen, robbed, failed, drift>>

TakeOut(g) ==
    /\ g \in Switcher /\ pc[g] = "hunt"
    /\ \E i \in ids[g] :
         /\ Receive(i)
         /\ Rob(\E h \in Reporter : i \in todo[h], seen)
    /\ ids' = [ids EXCEPT ![g] = {}] /\ todo' = [todo EXCEPT ![g] = {}]
    /\ Goto(g, "renew")
    /\ UNCHANGED <<issued, counts, ReportingMark, running, left, got, errnum, bound, failed,
                   charged, drift>>

\* GetAviableProxy brings a profile of the server's, or one of the channel,
\* which goes back with its errors forgotten, or none.
Renew(g) ==
    /\ pc[g] = "renew"
    /\ \/ Fetch /\ UNCHANGED RouteErrCount
       \/ \E i \in Id : pool[i] > 0 /\ Clear(i) /\ UNCHANGED <<issued, pool, RouteErrCount>>
       \/ Blame(1) /\ UNCHANGED <<issued, pool, errorid, charged>>
    /\ Goto(g, "idle")
    /\ UNCHANGED <<ErrCount, ReportingMark, running, ids, left, got, errnum, todo, bound, seen,
                   robbed, failed, drift>>

-----------------------------------------------------------------------------
HunterStep(g) ==
    \/ StartReport(g) \/ StartSwitch(g) \/ Mark(g) \/ Take(g) \/ Charge(g)
    \/ PostFails(g) \/ PostSucceeds(g)
    \/ Pick(g) \/ TakeOut(g) \/ Renew(g)

Next ==
    \/ \E eid \in 0..issued : ErrRecord(eid, 1) \/ ErrRecord(eid, 2) \/ ErrVanish(eid)
    \/ RouteError \/ NewProfile
    \/ LeaveRoute \/ ChangeRoute \/ InitCounts \/ ChangeProxyType \/ DropProfile
    \/ \E g \in Hunter : HunterStep(g)

Spec == Init /\ [][Next]_vars

-----------------------------------------------------------------------------
\* A report that set out for a profile of the channel finds it there until it
\* takes it, whatever other reports do: no two hunt for one ID.  Only
\* AutoSwitchProfile, which asks for no mark, a change of route, a change of the
\* kind of proxy, which empties the channel and then drops what it fetches, and
\* a report that takes two profiles of one ID take a hunted profile away, and
\* then ReportErrorProxy's loop never ends.
HuntFinds == \A g \in Reporter : \A i \in seen[g] : pool[i] > 0

\* A mark stands for a report that is under way, unless one failed: an ID whose
\* report failed, or was left out for a second profile of another ID, is
\* never reported again.
MarkNeedsReport ==
    \A i \in ReportingMark \ failed :
      \E g \in Reporter :
        \/ i \in todo[g]
        \/ pc[g] \in {"charge", "post"} /\ got[g] = i

\* ErrCount falls below zero, where it hides the errors of the next profiles
\* from the thresholds, only if an error is subtracted twice: with each of two
\* profiles of one ID, with a success under an ID that was reported or has no
\* errors, or when it came between the two resets of Init.
NegativeNeedsDrift == ErrCount < 0 => drift
=============================================================================
