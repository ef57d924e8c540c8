----------------------------- MODULE ClientSessions -----------------------------
(***************************************************************************)
(* The sessions of the client: SmuxClients, GetSession, RebuildSmux,       *)
(* ConnectRemote and the two loops that clear the list (ReportErrorProxy,  *)
(* ChangeRoute) of src/clientcontroll/controll.go, on the sessions of      *)
(* src/connections/prosmux/smux.go and proquic/quic_client.go.             *)
(*                                                                         *)
(* Only stores of a session into the list and the round robin have the     *)
(* lock; every read of either, every Close and the clearing of             *)
(* ReportErrorProxy go without.  A step is what a goroutine does between   *)
(* two accesses of state that others write; a LockArea of two stores is    *)
(* two steps, as readers without the lock see what lies between them.      *)
(*                                                                         *)
(* The pool of profiles is the set of routes it holds profiles of (see     *)
(* ProfilePool for its counts), the change of route what it does to the    *)
(* list and the pool (see ClientRoute for its flags).  Any dial may fail.  *)
(* A panic ends the client: no goroutine here recovers.  The value of an   *)
(* entry is read as a whole; the torn reads that Go allows are left out.   *)
(***************************************************************************)
EXTENDS Integers, FiniteSets

CONSTANTS
    Request,     \* connections of applications: they call ConnectRemote
    Other,       \* goroutines that rebuild, clear, or change the route
    ClientNum,   \* the length of SmuxClients
    MaxStarts,   \* bounds the goroutines that start
    MaxSession,  \* bounds the sessions made; further dials fail
    MaxRoute     \* bounds the changes of route

ASSUME SessionsAssumption ==
    /\ Request \cap Other = {}
    /\ ClientNum \in Nat \ {0} /\ MaxStarts \in Nat /\ MaxSession \in Nat /\ MaxRoute \in Nat

Goroutine == Request \cup Other
Index == 0..(ClientNum - 1)
Session == 1..MaxSession
Nil == 0                            \* an empty entry, no session
Profile == [kind : {"smux", "quic"}, route : 0..MaxRoute]
NoProfile == [kind |-> "smux", route |-> 0]

VARIABLES
    slot,     \* SmuxClients
    lastUse,  \* lastUse
    holder,   \* who is inside a LockArea of several steps; {} for nobody
    addr,     \* Addr
    pool,     \* the routes of the profiles in proxyProfiles
    made,     \* sessions made so far; they are 1..made
    about,    \* the profile a session was made from
    closed,   \* the sessions whose IsClosed is true
    gone,     \* the sessions whose connection is dead
    crashed,  \* the panic that ended the client, or "no"
    pc,       \* where a goroutine stands
    no,       \* the index it works on
    e,        \* GetSession's e
    prof,     \* RebuildSmux's conf
    fresh,    \* the session it has built and not stored yet
    round,    \* GetSession: which rebuild of an empty entry; 0: of a closed one
    try       \* ConnectRemote: which GetSession

\* History.
VARIABLES
    crowded,    \* two requests were in GetSession at once
    overlapped, \* two goroutines replaced the same entry at once
    straddled,  \* a rebuild was under way while the route was cleared
    dialFailed, \* the requests one of whose dials failed
    rivalled,   \* the requests during which another goroutine was under way
    met         \* the dead sessions a request without a rival gave up on

list    == <<slot, lastUse, holder, addr, pool>>
session == <<made, about, closed, gone>>
rebuild == <<no, prof, fresh>>
local   == <<rebuild, e, round, try>>
history == <<crowded, overlapped, straddled, rivalled, met>>
vars == <<list, session, crashed, pc, local, history, dialFailed>>

InRequest == {"bump", "peek", "test", "connect", "open", "reopen", "reread",
              "rereadErr", "retry", "arg"}
Building  == {"back", "check", "close", "qdial", "put", "put2"}
Clearing  == {"sweep", "sweepstore", "lock", "wipe", "wipeclose", "wipestore", "init"}
Replacing == {"close", "qdial", "put", "put2", "sweepstore", "wipeclose", "wipestore"}
Wiping    == {"wipe", "wipeclose", "wipestore", "init"}
Ended     == {"connected", "failed", "done"}
Labels    == {"idle", "profile"} \cup InRequest \cup Building \cup Clearing \cup Ended

TypeOK ==
    /\ slot \in [Index -> 0..MaxSession]
    /\ lastUse \in -1..ClientNum
    /\ holder \subseteq Goroutine
    /\ addr \in 0..MaxRoute /\ pool \subseteq 0..MaxRoute
    /\ made \in 0..MaxSession
    /\ about \in [Session -> Profile]
    /\ closed \subseteq Session /\ gone \subseteq Session
    /\ crashed \in {"no", "index", "nil", "reclient"}
    /\ pc \in [Goroutine -> Labels]
    /\ no \in [Goroutine -> 0..ClientNum]
    /\ e \in [Goroutine -> 0..MaxSession]
    /\ prof \in [Goroutine -> Profile]
    /\ fresh \in [Goroutine -> 0..MaxSession]
    /\ round \in [Goroutine -> 0..2]
    /\ try \in [Goroutine -> 1..2]
    /\ crowded \in BOOLEAN /\ overlapped \in BOOLEAN
    /\ straddled \in BOOLEAN
    /\ dialFailed \subseteq Request /\ rivalled \subseteq Request
    /\ met \in [Request -> SUBSET Session]

\* NewClientControll.
Init ==
    /\ slot = [i \in Index |-> Nil] /\ lastUse = -1 /\ holder = {}
    /\ addr = 0 /\ pool = {}
    /\ made = 0 /\ about = [s \in Session |-> NoProfile]
    /\ closed = {} /\ gone = {}
    /\ crashed = "no"
    /\ pc = [g \in Goroutine |-> "idle"]
    /\ no = [g \in Goroutine |-> 0] /\ e = [g \in Goroutine |-> Nil]
    /\ prof = [g \in Goroutine |-> NoProfile]
    /\ fresh = [g \in Goroutine |-> Nil]
    /\ round = [g \in Goroutine |-> 0] /\ try = [g \in Goroutine |-> 1]
    /\ crowded = FALSE /\ overlapped = FALSE /\ straddled = FALSE
    /\ dialFailed = {} /\ rivalled = {} /\ met = [r \in Request |-> {}]

MayStart == Cardinality({g \in Goroutine : pc[g] # "idle"}) < MaxStarts

Goto(g, l) == pc' = [pc EXCEPT ![g] = l]
Panic(why) == crashed' = why /\ UNCHANGED pc

-----------------------------------------------------------------------------
(* GetSession.  The error returns of the first call lead to the second.    *)

\* Fault: ConnectRemote asks until it succeeds.
FailAgain(r) ==
    /\ e' = [e EXCEPT ![r] = Nil] /\ round' = [round EXCEPT ![r] = 0]
    /\ Goto(r, "retry") /\ try' = [try EXCEPT ![r] = @ + 1]

\* Fault: ConnectRemote asks once.
FailOnce(r) ==
    /\ e' = [e EXCEPT ![r] = Nil] /\ round' = [round EXCEPT ![r] = 0]
    /\ Goto(r, "failed") /\ UNCHANGED try

Fail(r) ==
    /\ e' = [e EXCEPT ![r] = Nil] /\ round' = [round EXCEPT ![r] = 0]
    /\ IF try[r] = 1
       THEN Goto(r, "retry") /\ try' = [try EXCEPT ![r] = 2]
       ELSE Goto(r, "failed") /\ UNCHANGED try

Connected(r) ==
    /\ e' = [e EXCEPT ![r] = Nil] /\ round' = [round EXCEPT ![r] = 0]
    /\ Goto(r, "connected")
    /\ UNCHANGED try

\* The two stores of the round robin; ConnectRemote calls GetSession twice.
Bump(r, from) ==
    /\ pc[r] = from /\ holder = {}
    /\ lastUse' = lastUse + 1
    /\ holder' = {r}
    /\ Goto(r, "bump")
    /\ UNCHANGED <<slot, addr, pool, session, crashed, local, dialFailed>>

\* Fault: no remainder is taken.
WrapNot(r) ==
    /\ pc[r] = "bump"
    /\ holder' = {}
    /\ Goto(r, "peek")
    /\ UNCHANGED <<slot, lastUse, addr, pool, session, crashed, local, dialFailed>>

WrapAround(r) ==
    /\ pc[r] = "bump"
    /\ lastUse' = lastUse % ClientNum
    /\ holder' = {}
    /\ Goto(r, "peek")
    /\ UNCHANGED <<slot, addr, pool, session, crashed, local, dialFailed>>

\* e := SmuxClients[lastUse], lastUse read again and without the lock.
Peek(r) ==
    /\ pc[r] = "peek"
    /\ IF lastUse = ClientNum
       THEN Panic("index") /\ UNCHANGED <<e, round>>
       ELSE /\ e' = [e EXCEPT ![r] = slot[lastUse]]
            /\ round' = [round EXCEPT ![r] = 1]
            /\ Goto(r, IF slot[lastUse] = Nil THEN "arg" ELSE "test")
            /\ UNCHANGED crashed
    /\ UNCHANGED <<list, session, no, prof, fresh, try, dialFailed>>

\* The argument of RebuildSmux: lastUse, read once more.
Argument(r) ==
    /\ pc[r] = "arg"
    /\ no' = [no EXCEPT ![r] = lastUse]
    /\ Goto(r, "profile")
    /\ UNCHANGED <<list, session, crashed, e, prof, fresh, round, try, dialFailed>>

\* An empty entry was rebuilt: e is read anew, where lastUse points by now.
Reread(r) ==
    /\ pc[r] = "reread"
    /\ IF lastUse = ClientNum
       THEN Panic("index") /\ UNCHANGED <<e, round, try>>
       ELSE /\ UNCHANGED crashed
            /\ IF slot[lastUse] = Nil
               THEN Fail(r)                              \* "no session create!!"
               ELSE /\ e' = [e EXCEPT ![r] = slot[lastUse]]
                    /\ Goto(r, "test")
                    /\ UNCHANGED <<round, try>>
    /\ UNCHANGED <<list, session, rebuild, dialFailed>>

\* The rebuild failed: the entry is read all the same, then there is a second
\* round, which reads it again.
RereadErr(r) ==
    /\ pc[r] = "rereadErr"
    /\ IF lastUse = ClientNum
       THEN Panic("index") /\ UNCHANGED <<e, round, try>>
       ELSE /\ UNCHANGED crashed
            /\ IF round[r] = 1
               THEN /\ Goto(r, "arg")
                    /\ round' = [round EXCEPT ![r] = 2]
                    /\ UNCHANGED <<e, try>>
               ELSE Fail(r)
    /\ UNCHANGED <<list, session, rebuild, dialFailed>>

\* e.IsClosed()
TestClosed(r) ==
    /\ pc[r] = "test"
    /\ IF e[r] \in closed
       THEN Goto(r, "arg") /\ round' = [round EXCEPT ![r] = 0]
       ELSE Goto(r, "connect") /\ UNCHANGED round
    /\ UNCHANGED <<list, session, crashed, no, e, prof, fresh, try, dialFailed>>

-----------------------------------------------------------------------------
(* NewConnnect of a session.                                               *)

NewConnnect(r) ==
    /\ pc[r] = "connect"
    /\ IF e[r] \in closed
       THEN Fail(r)
       ELSE Goto(r, "open") /\ UNCHANGED <<e, round, try>>
    /\ UNCHANGED <<list, session, crashed, rebuild, dialFailed>>

OpenStream(r) ==
    /\ pc[r] = "open" /\ e[r] \notin gone
    /\ Connected(r)
    /\ UNCHANGED <<list, session, crashed, rebuild, dialFailed>>

\* smux makes a new session on the dead connection ...
Reclient(r) ==
    /\ pc[r] = "open" /\ e[r] \in gone /\ about[e[r]].kind = "smux"
    /\ closed' = closed \ {e[r]}
    /\ Goto(r, "reopen")
    /\ UNCHANGED <<list, made, about, gone, crashed, local, dialFailed>>

\* ... whose stream fails; if somebody closed it by now, the message of the
\* error is built from an error that is nil.
Reopen(r) ==
    /\ pc[r] = "reopen"
    /\ IF e[r] \in closed
       THEN Panic("reclient") /\ UNCHANGED <<e, round, try>>
       ELSE Fail(r) /\ UNCHANGED crashed
    /\ UNCHANGED <<list, session, rebuild, dialFailed>>

\* quic dials again; a session somebody closed meanwhile stays closed, and
\* keeps the new connection.
Redial(r) ==
    /\ pc[r] = "open" /\ e[r] \in gone /\ about[e[r]].kind = "quic"
    /\ \/ /\ gone' = gone \ {e[r]}
          /\ Connected(r)
          /\ UNCHANGED <<closed, dialFailed>>
       \/ /\ closed' = closed \cup {e[r]}
          /\ dialFailed' = dialFailed \cup {r}
          /\ Fail(r)
          /\ UNCHANGED gone
    /\ UNCHANGED <<list, made, about, crashed, rebuild>>

-----------------------------------------------------------------------------
(* RebuildSmux, called by GetSession, BuildChannel or FixBuildSmux.        *)

\* Where the caller goes on.
Return(g, ok) ==
    /\ no' = [no EXCEPT ![g] = 0] /\ prof' = [prof EXCEPT ![g] = NoProfile]
    /\ fresh' = [fresh EXCEPT ![g] = Nil]
    /\ IF g \in Other
       THEN Goto(g, "done") /\ UNCHANGED <<e, round, try>>
       ELSE IF round[g] > 0
       THEN Goto(g, IF ok THEN "reread" ELSE "rereadErr") /\ UNCHANGED <<e, round, try>>
       ELSE IF ok
       THEN Goto(g, "connect") /\ UNCHANGED <<e, round, try>>    \* with the old e
       ELSE Fail(g)

\* BuildChannel(i), or FixBuildSmux at i.
Build(o) ==
    /\ pc[o] = "idle" /\ o \in Other
    /\ \E i \in Index : no' = [no EXCEPT ![o] = i]
    /\ Goto(o, "profile")
    /\ UNCHANGED <<list, session, crashed, e, prof, fresh, round, try, dialFailed>>

\* GetAviableProxy: a profile of the pool or one that Addr's server sends.
GetProfile(g) ==
    /\ pc[g] = "profile"
    /\ \E k \in {"smux", "quic"}, rt \in pool \cup {addr} :
         prof' = [prof EXCEPT ![g] = [kind |-> k, route |-> rt]]
    /\ Goto(g, "back")
    /\ UNCHANGED <<list, session, crashed, no, e, fresh, round, try, dialFailed>>

GetNothing(g) ==
    /\ pc[g] = "profile"
    /\ dialFailed' = dialFailed \cup ({g} \cap Request)
    /\ Return(g, FALSE)
    /\ UNCHANGED <<list, session, crashed>>

Make(g) ==
    /\ made < MaxSession
    /\ made' = made + 1
    /\ about' = [about EXCEPT ![made + 1] = prof[g]]
    /\ fresh' = [fresh EXCEPT ![g] = made + 1]

\* The profile goes back to the pool; tls and kcp connect before the entry is
\* looked at, quic after.
PutBack(g) ==
    /\ pc[g] = "back" /\ holder = {}
    /\ pool' = pool \cup {prof[g].route}
    /\ \/ /\ prof[g].kind = "smux"
          /\ Make(g)
          /\ Goto(g, "check")
          /\ UNCHANGED <<no, e, prof, round, try, dialFailed>>
       \/ /\ prof[g].kind = "smux"
          /\ dialFailed' = dialFailed \cup ({g} \cap Request)
          /\ Return(g, FALSE)
          /\ UNCHANGED <<made, about>>
       \/ /\ prof[g].kind = "quic"
          /\ Goto(g, "check")
          /\ UNCHANGED <<made, about, local, dialFailed>>
    /\ UNCHANGED <<slot, lastUse, holder, addr, closed, gone, crashed>>

QuicDial(g) ==
    /\ pc[g] = "qdial"
    /\ \/ /\ Make(g)
          /\ Goto(g, "put")
          /\ UNCHANGED <<no, e, prof, round, try, dialFailed>>
       \/ /\ dialFailed' = dialFailed \cup ({g} \cap Request)
          /\ Return(g, FALSE)
          /\ UNCHANGED <<made, about>>
    /\ UNCHANGED <<list, closed, gone, crashed>>

Built(g) == IF prof[g].kind = "smux" THEN "put" ELSE "qdial"

\* if c.SmuxClients[no] != nil
Check(g) ==
    /\ pc[g] = "check"
    /\ IF no[g] = ClientNum
       THEN Panic("index")
       ELSE Goto(g, IF slot[no[g]] = Nil THEN Built(g) ELSE "close") /\ UNCHANGED crashed
    /\ UNCHANGED <<list, session, local, dialFailed>>

CloseSession(s) ==
    /\ closed' = closed \cup {s}
    /\ gone' = gone \cup {s}

\* Fault: the old session is dropped without Close.
CloseOldNot(g) ==
    /\ pc[g] = "close"
    /\ Goto(g, Built(g))
    /\ UNCHANGED <<list, session, crashed, local, dialFailed>>

\* c.SmuxClients[no].Close(), the entry read again.
CloseOld(g) ==
    /\ pc[g] = "close"
    /\ IF slot[no[g]] = Nil
       THEN Panic("nil") /\ UNCHANGED <<closed, gone>>
       ELSE CloseSession(slot[no[g]]) /\ Goto(g, Built(g)) /\ UNCHANGED crashed
    /\ UNCHANGED <<list, made, about, local, dialFailed>>

\* The two stores of the LockArea.
PutNil(g) ==
    /\ pc[g] = "put" /\ holder = {}
    /\ slot' = [slot EXCEPT ![no[g]] = Nil]
    /\ holder' = {g}
    /\ Goto(g, "put2")
    /\ UNCHANGED <<lastUse, addr, pool, session, crashed, local, dialFailed>>

PutFresh(g) ==
    /\ pc[g] = "put2"
    /\ slot' = [slot EXCEPT ![no[g]] = fresh[g]]
    /\ holder' = {}
    /\ Return(g, TRUE)
    /\ UNCHANGED <<lastUse, addr, pool, session, crashed, dialFailed>>

-----------------------------------------------------------------------------
(* The end of ReportErrorProxy: every entry is closed and emptied, without *)
(* the lock.                                                               *)

Report(o) ==
    /\ pc[o] = "idle" /\ o \in Other
    /\ no' = [no EXCEPT ![o] = 0]
    /\ Goto(o, "sweep")
    /\ UNCHANGED <<list, session, crashed, e, prof, fresh, round, try, dialFailed>>

\* The next index of a loop over the entries, or what follows the loop.
NextIndex(o, loop, after) ==
    IF no[o] + 1 \in Index
    THEN no' = [no EXCEPT ![o] = @ + 1] /\ Goto(o, loop)
    ELSE no' = [no EXCEPT ![o] = 0] /\ Goto(o, after)

Sweep(o) ==
    /\ pc[o] = "sweep"
    /\ IF slot[no[o]] = Nil
       THEN NextIndex(o, "sweep", "done") /\ UNCHANGED <<closed, gone>>
       ELSE CloseSession(slot[no[o]]) /\ Goto(o, "sweepstore") /\ UNCHANGED no
    /\ UNCHANGED <<list, made, about, crashed, e, prof, fresh, round, try, dialFailed>>

SweepStore(o) ==
    /\ pc[o] = "sweepstore"
    /\ slot' = [slot EXCEPT ![no[o]] = Nil]
    /\ NextIndex(o, "sweep", "done")
    /\ UNCHANGED <<lastUse, holder, addr, pool, session, crashed, e, prof, fresh,
                   round, try, dialFailed>>

-----------------------------------------------------------------------------
(* ChangeRoute: Addr first, once the accept loop has ended the entries,    *)
(* in one LockArea, then Init without the lock.                            *)

SetAddr(o) ==
    /\ pc[o] = "idle" /\ o \in Other /\ addr < MaxRoute
    /\ addr' = addr + 1
    /\ Goto(o, "lock")
    /\ UNCHANGED <<slot, lastUse, holder, pool, session, crashed, local, dialFailed>>

LockAll(o) ==
    /\ pc[o] = "lock" /\ holder = {}
    /\ holder' = {o}
    /\ no' = [no EXCEPT ![o] = 0]
    /\ Goto(o, "wipe")
    /\ UNCHANGED <<slot, lastUse, addr, pool, session, crashed, e, prof, fresh,
                   round, try, dialFailed>>

NextWipe(o) ==
    /\ NextIndex(o, "wipe", "init")
    /\ holder' = IF no[o] + 1 \in Index THEN holder ELSE {}

Wipe(o) ==
    /\ pc[o] = "wipe"
    /\ IF slot[no[o]] = Nil
       THEN NextWipe(o)
       ELSE Goto(o, "wipeclose") /\ UNCHANGED <<no, holder>>
    /\ UNCHANGED <<slot, lastUse, addr, pool, session, crashed, e, prof, fresh,
                   round, try, dialFailed>>

WipeClose(o) ==
    /\ pc[o] = "wipeclose"
    /\ IF slot[no[o]] = Nil
       THEN Panic("nil") /\ UNCHANGED <<closed, gone>>
       ELSE CloseSession(slot[no[o]]) /\ Goto(o, "wipestore") /\ UNCHANGED crashed
    /\ UNCHANGED <<list, made, about, local, dialFailed>>

WipeStore(o) ==
    /\ pc[o] = "wipestore"
    /\ slot' = [slot EXCEPT ![no[o]] = Nil]
    /\ NextWipe(o)
    /\ UNCHANGED <<lastUse, addr, pool, session, crashed, e, prof, fresh, round,
                   try, dialFailed>>

\* Fault: the profiles of the old route stay in the pool.
ReinitKeeps(o) ==
    /\ pc[o] = "init"
    /\ lastUse' = 0
    /\ Goto(o, "done")
    /\ UNCHANGED <<slot, holder, addr, pool, session, crashed, local, dialFailed>>

Reinit(o) ==
    /\ pc[o] = "init"
    /\ lastUse' = 0
    /\ pool' = {}
    /\ Goto(o, "done")
    /\ UNCHANGED <<slot, holder, addr, session, crashed, local, dialFailed>>

-----------------------------------------------------------------------------
(* A connection dies.  smux notices by its keep-alive, quic's session      *)
(* never says that it is closed unless Close or a failed redial did it.    *)

Break(s) ==
    /\ s \in 1..made /\ s \notin gone
    /\ gone' = gone \cup {s}
    /\ UNCHANGED <<list, made, about, closed, crashed, pc, local, dialFailed>>

Notice(s) ==
    /\ s \in gone /\ about[s].kind = "smux" /\ s \notin closed
    /\ closed' = closed \cup {s}
    /\ UNCHANGED <<list, made, about, gone, crashed, pc, local, dialFailed>>

-----------------------------------------------------------------------------
Crowd ==
    \E q, r \in Request : q # r /\ {pc[q], pc[r]} \cap ({"idle"} \cup Ended) = {}
Overlap ==
    \E g, h \in Goroutine :
      g # h /\ no[g] = no[h] /\ {pc[g], pc[h]} \subseteq Replacing
Straddle ==
    \E g, h \in Goroutine : pc[g] \in Building /\ pc[h] \in Wiping
Resting(g) == pc[g] \in {"idle"} \cup Ended
Rivalled(r) == ~Resting(r) /\ \E g \in Goroutine \ {r} : ~Resting(g)
GivesUp(r) == pc[r] \notin {"retry", "failed"} /\ pc'[r] \in {"retry", "failed"}

RequestStep(r) ==
    \/ Bump(r, "retry") \/ WrapAround(r) \/ Peek(r) \/ Argument(r) \/ Reread(r) \/ RereadErr(r)
    \/ TestClosed(r) \/ NewConnnect(r) \/ OpenStream(r) \/ Reclient(r)
    \/ Reopen(r) \/ Redial(r)
RebuildStep(g) ==
    \/ GetProfile(g) \/ GetNothing(g) \/ PutBack(g) \/ QuicDial(g)
    \/ Check(g) \/ CloseOld(g) \/ PutNil(g) \/ PutFresh(g)
ClearStep(o) ==
    \/ Sweep(o) \/ SweepStore(o) \/ LockAll(o) \/ Wipe(o) \/ WipeClose(o)
    \/ WipeStore(o) \/ Reinit(o)

Step ==
    \/ \E r \in Request : MayStart /\ Bump(r, "idle")
    \/ \E r \in Request : RequestStep(r)
    \/ \E g \in Goroutine : RebuildStep(g)
    \/ \E o \in Other : MayStart /\ (Build(o) \/ Report(o) \/ SetAddr(o))
    \/ \E o \in Other : ClearStep(o)
    \/ \E s \in Session : Break(s) \/ Notice(s)

Next ==
    /\ crashed = "no"
    /\ Step
    /\ crowded' = (crowded \/ Crowd')
    /\ overlapped' = (overlapped \/ Overlap')
    /\ straddled' = (straddled \/ Straddle')
    /\ rivalled' = rivalled \cup {r \in Request : Rivalled(r)'}
    /\ met' = [r \in Request |->
                 IF r \in rivalled' THEN {}
                 ELSE IF GivesUp(r) THEN met[r] \cup ({e[r]} \cap (closed \cup gone))
                 ELSE met[r]]

Spec == Init /\ [][Next]_vars

-----------------------------------------------------------------------------
\* A session that is neither listed nor about to be has no open connection,
\* unless two goroutines replaced one entry at once, or it is a quic session
\* that was closed while a request had begun to open a stream on it:
\* NewConnnect dials again, and nobody will close that connection.
DroppedIsClosed ==
    overlapped \/
    \A s \in 1..made :
      \/ s \in gone
      \/ s \in closed /\ about[s].kind = "quic"
      \/ \E i \in Index : slot[i] = s
      \/ \E g \in Goroutine : fresh[g] = s

\* The nil entry that is closed takes two goroutines at one entry, the index
\* past the end two requests in GetSession.  The third panic takes no second
\* goroutine, but a dead connection: smux was made anew on it, and is closed
\* again, by a Close or by smux, before NewConnnect looks at it.
CrashNeedsRace ==
    /\ crashed = "nil" => overlapped
    /\ crashed = "index" => crowded
    /\ crashed = "reclient" =>
         \E r \in Request : pc[r] = "reopen" /\ e[r] \in closed \cap gone

\* While no route is being changed, each listed session is one of the present
\* route, unless a rebuild was under way when the entries were cleared: its
\* profile of the old route goes into the list, or back into the pool.
ListedIsOfRoute ==
    (\A o \in Other : pc[o] \notin Wiping \cup {"lock"}) =>
      \A i \in Index :
        slot[i] # Nil => about[slot[i]].route = addr \/ straddled

\* A request that fails although every dial of its own succeeded, and although
\* no other goroutine was under way while it was, gave up on a dead session
\* twice, and on two of them if the list has two entries: GetSession opens its
\* stream on the dead session it found, not on the one it has just built, and
\* only the second GetSession helps.  What others did before it does not
\* matter.
FailNeedsTwoDead ==
    \A r \in Request :
      pc[r] = "failed" /\ r \notin rivalled \cup dialFailed
      => Cardinality(met[r]) >= IF ClientNum > 1 THEN 2 ELSE 1
=============================================================================
