----------------------------- MODULE ProfilePool ------------------------------
(***************************************************************************)
(* The client's pool of proxy profiles (clientcontroll/controll.go): the   *)
(* buffered channel proxyProfiles, the counter initProfiles that decides   *)
(* whether GetAviableProxy fetches a new profile or waits for one, and the *)
(* goroutines that take profiles and put them back: RebuildSmux, started   *)
(* by BuildChannel and GetSession; ReportErrorProxy; AutoSwitchProfile;    *)
(* ChangeProxyType.  The module covers the pool between two calls of Init. *)
(*                                                                         *)
(* A profile is not told from another: what matters is how many there are. *)
(* The search of ReportErrorProxy and AutoSwitchProfile for a profile with *)
(* a given ID finds it, or not, at each profile received.  The counts of   *)
(* errors kept beside the pool are left out.                               *)
(***************************************************************************)
EXTENDS Integers, FiniteSets

CONSTANTS
    Goroutine,  \* goroutines of the client that use the pool
    ConfNum,    \* confNum: capacity of the channel, profiles wanted
    Ops,        \* the operations the instance runs
    Recur,      \* whether a goroutine that is done starts another operation
    None        \* nobody holds the lock

AllOps == {"rebuild", "report", "auto", "chtype"}

ASSUME PoolAssumption ==
    /\ IsFiniteSet(Goroutine)
    /\ ConfNum \in Nat \ {0}
    /\ Ops \subseteq AllOps
    /\ Recur \in BOOLEAN
    /\ None \notin Goroutine

VARIABLES
    pool,          \* profiles in the channel
    initProfiles,  \* initProfiles
    holder,        \* who holds lock over a blocking channel send
    pc, op,        \* where a goroutine stands, and in which operation
    left           \* ChangeProxyType's calls of GetAviableProxy still to make

\* History, read by no action: profiles counted in initProfiles that were
\* dropped, and profiles under way when ChangeProxyType set it to 0.
VARIABLES gone, stray

vars == <<pool, initProfiles, holder, pc, op, left, gone, stray>>

Free == holder = None
Goto(g, l) == pc' = [pc EXCEPT ![g] = l]
At(L) == {g \in Goroutine : pc[g] \in L}

-----------------------------------------------------------------------------
Init ==
    /\ pool = 0
    /\ initProfiles = 0
    /\ holder = None
    /\ pc = [g \in Goroutine |-> "idle"]
    /\ op = [g \in Goroutine |-> "rebuild"]
    /\ left = [g \in Goroutine |-> 0]
    /\ gone = 0
    /\ stray = 0

Begin(g) ==
    /\ pc[g] = "idle"
    /\ \E o \in Ops :
         /\ op' = [op EXCEPT ![g] = o]
         /\ Goto(g, CASE o = "rebuild" -> "check"
                      [] o = "chtype"  -> "drain"
                      [] OTHER         -> "take")
    /\ UNCHANGED <<pool, initProfiles, holder, left, gone, stray>>

Again(g) ==
    /\ Recur /\ pc[g] = "done"
    /\ Goto(g, "idle")
    /\ UNCHANGED <<pool, initProfiles, holder, op, left, gone, stray>>

-----------------------------------------------------------------------------
(* GetAviableProxy.  The test and the increment are two LockAreas.         *)

\* Faults: one profile too many is fetched, or one too few.
CheckAreaLoose(g) ==
    /\ pc[g] = "check" /\ Free
    /\ Goto(g, IF initProfiles > ConfNum THEN "wait" ELSE "count")
    /\ UNCHANGED <<pool, initProfiles, holder, op, left, gone, stray>>
CheckAreaTight(g) ==
    /\ pc[g] = "check" /\ Free
    /\ Goto(g, IF initProfiles + 1 >= ConfNum THEN "wait" ELSE "count")
    /\ UNCHANGED <<pool, initProfiles, holder, op, left, gone, stray>>

CheckArea(g) ==
    /\ pc[g] = "check" /\ Free
    /\ Goto(g, IF initProfiles >= ConfNum THEN "wait" ELSE "count")
    /\ UNCHANGED <<pool, initProfiles, holder, op, left, gone, stray>>

\* Fault: a profile taken from the channel is uncounted.
WaitTakesUncounts(g) ==
    /\ pc[g] = "wait" /\ pool > 0
    /\ pool' = pool - 1
    /\ initProfiles' = initProfiles - 1
    /\ Goto(g, "got")
    /\ UNCHANGED <<holder, op, left, gone, stray>>

\* The loop L polls the channel and never looks at initProfiles again.
WaitTakes(g) ==
    /\ pc[g] = "wait" /\ pool > 0
    /\ pool' = pool - 1
    /\ Goto(g, "got")
    /\ UNCHANGED <<initProfiles, holder, op, left, gone, stray>>

CountArea(g) ==
    /\ pc[g] = "count" /\ Free
    /\ initProfiles' = initProfiles + 1
    /\ Goto(g, "fetch")
    /\ UNCHANGED <<pool, holder, op, left, gone, stray>>

\* POST /proxy-get, twice at most: a profile, or an error or a bad reply.
Fetch(g) ==
    /\ pc[g] = "fetch"
    /\ Goto(g, "note") \/ Goto(g, "uncount")
    /\ UNCHANGED <<pool, initProfiles, holder, op, left, gone, stray>>

NoteArea(g) ==
    /\ pc[g] = "note" /\ Free
    /\ Goto(g, "got")
    /\ UNCHANGED <<pool, initProfiles, holder, op, left, gone, stray>>

\* Fault: a failed fetch stays counted.
UncountAreaMissing(g) ==
    /\ pc[g] = "uncount" /\ Free
    /\ Goto(g, "nil")
    /\ UNCHANGED <<pool, initProfiles, holder, op, left, gone, stray>>

UncountArea(g) ==
    /\ pc[g] = "uncount" /\ Free
    /\ initProfiles' = initProfiles - 1
    /\ Goto(g, "nil")
    /\ UNCHANGED <<pool, holder, op, left, gone, stray>>

-----------------------------------------------------------------------------
(* RebuildSmux puts the profile back before it connects with it, by a send *)
(* that blocks on a full channel while the lock is held.  ErrSoGetNew does *)
(* the same with its new profile.                                          *)

LockToSend(g) ==
    /\ \/ pc[g] = "got" /\ op[g] \in {"rebuild", "report"}
       \/ pc[g] = "fresh"
    /\ Free
    /\ holder' = g
    /\ Goto(g, "send")
    /\ UNCHANGED <<pool, initProfiles, op, left, gone, stray>>

\* ReportErrorProxy goes on to FixBuildSmux, which rebuilds some tunnels, or
\* to the next ID it has to replace.
Onward(g) ==
    \E l \in (IF op[g] = "report" THEN {"check", "take", "done"} ELSE {"done"}) :
      Goto(g, l)

LockedSend(g) ==
    /\ pc[g] = "send" /\ pool < ConfNum
    /\ pool' = pool + 1
    /\ holder' = None
    /\ Onward(g)
    /\ UNCHANGED <<initProfiles, op, left, gone, stray>>

NoProfile(g) ==
    /\ pc[g] = "nil" /\ op[g] # "chtype"
    /\ Onward(g)
    /\ UNCHANGED <<pool, initProfiles, holder, op, left, gone, stray>>

-----------------------------------------------------------------------------
(* ReportErrorProxy and AutoSwitchProfile take profiles until one has the  *)
(* ID they look for, and put the others back, without the lock.            *)

Take(g) ==
    /\ pc[g] = "take" /\ pool > 0
    /\ pool' = pool - 1
    /\ \/ Goto(g, "putback")
       \/ Goto(g, IF op[g] = "auto" THEN "drop" ELSE "post")
    /\ UNCHANGED <<initProfiles, holder, op, left, gone, stray>>

PutBack(g) ==
    /\ pc[g] = "putback" /\ pool < ConfNum
    /\ pool' = pool + 1
    /\ Goto(g, "take")
    /\ UNCHANGED <<initProfiles, holder, op, left, gone, stray>>

\* ErrSoGetNew: POST /proxy-err.  On an error the profile taken is dropped,
\* and initProfiles goes on counting it.
ErrSoGetNew(g) ==
    /\ pc[g] = "post"
    /\ \/ Goto(g, "fresh") /\ UNCHANGED gone
       \/ /\ gone' = gone + 1
          /\ \E l \in {"take", "done"} : Goto(g, l)
    /\ UNCHANGED <<pool, initProfiles, holder, op, left, stray>>

\* AutoSwitchProfile uncounts the profile it took out and gets another.
DropArea(g) ==
    /\ pc[g] = "drop" /\ Free
    /\ initProfiles' = initProfiles - 1
    /\ Goto(g, "check")
    /\ UNCHANGED <<pool, holder, op, left, gone, stray>>

AutoSend(g) ==
    /\ pc[g] = "got" /\ op[g] = "auto" /\ pool < ConfNum
    /\ pool' = pool + 1
    /\ Goto(g, "autonote")
    /\ UNCHANGED <<initProfiles, holder, op, left, gone, stray>>

AutoNoteArea(g) ==
    /\ pc[g] = "autonote" /\ Free
    /\ Goto(g, "done")
    /\ UNCHANGED <<pool, initProfiles, holder, op, left, gone, stray>>

-----------------------------------------------------------------------------
(* ChangeProxyType empties the channel and the counter in a LockArea, then *)
(* calls GetAviableProxy confNum times and keeps none of the results; its  *)
(* InitializationTunnels are rebuilds by other goroutines.                 *)

\* Where a goroutine has a profile that is counted and outside the channel.
BusyLabels == {"fetch", "note", "uncount", "got", "fresh", "send", "putback",
               "post", "drop"}
Busy == At(BusyLabels)

DrainArea(g) ==
    /\ pc[g] = "drain" /\ Free
    /\ pool' = 0
    /\ initProfiles' = 0
    /\ gone' = 0
    /\ stray' = Cardinality(Busy)
    /\ left' = [left EXCEPT ![g] = ConfNum]
    /\ Goto(g, "check")
    /\ UNCHANGED <<holder, op>>

\* Fault: ChangeProxyType's loop runs once too often.
DiscardOneMore(g) ==
    /\ op[g] = "chtype"
    /\ \/ pc[g] = "got" /\ gone' = gone + 1
       \/ pc[g] = "nil" /\ UNCHANGED gone
    /\ left' = [left EXCEPT ![g] = @ - 1]
    /\ Goto(g, IF left[g] = 0 THEN "done" ELSE "check")
    /\ UNCHANGED <<pool, initProfiles, holder, op, stray>>

Discard(g) ==
    /\ op[g] = "chtype"
    /\ \/ pc[g] = "got" /\ gone' = gone + 1
       \/ pc[g] = "nil" /\ UNCHANGED gone
    /\ left' = [left EXCEPT ![g] = @ - 1]
    /\ Goto(g, IF left[g] = 1 THEN "done" ELSE "check")
    /\ UNCHANGED <<pool, initProfiles, holder, op, stray>>

-----------------------------------------------------------------------------
Step(g) ==
    \/ CheckArea(g) \/ WaitTakes(g) \/ CountArea(g) \/ Fetch(g)
    \/ NoteArea(g) \/ UncountArea(g) \/ LockToSend(g) \/ LockedSend(g)
    \/ NoProfile(g) \/ Take(g) \/ PutBack(g) \/ ErrSoGetNew(g)
    \/ DropArea(g) \/ AutoSend(g) \/ AutoNoteArea(g)
    \/ DrainArea(g) \/ Discard(g)

Next == \E g \in Goroutine : Begin(g) \/ Again(g) \/ Step(g)

Spec == Init /\ [][Next]_vars

\* Goroutines that can run do; the lock is granted to whoever waits for it.
FairSpec == Spec /\ \A g \in Goroutine : SF_vars(Step(g))

-----------------------------------------------------------------------------
(* Properties.                                                             *)

Labels == {"idle", "check", "wait", "count", "fetch", "note", "uncount", "got",
           "nil", "fresh", "send", "take", "putback", "post", "drop",
           "autonote", "drain", "done"}

\* Every variable has its type; the channel never holds more than it can.
TypeOK ==
    /\ pool \in 0..ConfNum
    /\ initProfiles \in Int
    /\ holder \in Goroutine \cup {None}
    /\ pc \in [Goroutine -> Labels]
    /\ op \in [Goroutine -> AllOps]
    /\ left \in [Goroutine -> 0..ConfNum]
    /\ gone \in Nat
    /\ stray \in Nat

\* Every path through the operations, the failing ones included, keeps the
\* books: what initProfiles counts is in the channel, with a goroutine, or was
\* dropped by ErrSoGetNew or ChangeProxyType; only the profiles under way when
\* ChangeProxyType reset the counter are not counted.
ProfilesAccounted ==
    initProfiles + stray = pool + Cardinality(Busy) + gone

\* The goroutine that holds the lock blocks on a full channel, and with it
\* every LockArea of the client, only if the two LockAreas of GetAviableProxy
\* let more profiles be counted than the channel holds, or a reset made the
\* counter forget some.
BlockedLockNeedsOvershoot ==
    holder # None /\ pool = ConfNum => initProfiles + stray > ConfNum

\* The overshoot is less than the number of goroutines.
OvershootBounded == initProfiles <= ConfNum + Cardinality(Goroutine) - 1

\* When as many goroutines as profiles each rebuild once (the start of the
\* client, InitializationTunnels), every rebuild ends: no wait, no full
\* channel.
RebuildsEnd == \A g \in Goroutine : pc[g] = "check" ~> pc[g] = "done"
===============================================================================
