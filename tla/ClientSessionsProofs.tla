-------------------------- MODULE ClientSessionsProofs --------------------------
(* Proofs about ClientSessions, for any numbers of goroutines, entries,    *)
(* sessions and changes of route.                                          *)
EXTENDS ClientSessions, FiniteSetTheorems, TLAPS

Locked == {"bump", "put2", "wipe", "wipeclose", "wipestore"}

\* Who is inside a LockArea holds the lock, and the round robin points past
\* the end only while its two stores are under way.
LockHeld ==
    /\ \A g \in Goroutine : pc[g] \in Locked => holder = {g}
    /\ lastUse = ClientNum => \E r \in Request : pc[r] = "bump"
    /\ \A r \in Request : pc[r] # "idle" => lastUse >= 0

\* Past its check an index is one of an entry, and a request that goes on with
\* a session has one.
LocalsSet ==
    /\ \A g \in Goroutine :
         pc[g] \in Replacing \cup {"sweep", "wipe"} => no[g] \in Index
    /\ \A r \in Request :
         \/ pc[r] \in {"test", "connect", "open", "reopen"}
         \/ pc[r] \in {"arg", "profile"} \cup Building /\ round[r] = 0
         => e[r] \in Session

\* What a step leaves to show of TypeOK: Next sets the history on its own.
TypesKept ==
    /\ slot' \in [Index -> 0..MaxSession]
    /\ lastUse' \in -1..ClientNum
    /\ holder' \subseteq Goroutine
    /\ addr' \in 0..MaxRoute /\ pool' \subseteq 0..MaxRoute
    /\ made' \in 0..MaxSession
    /\ about' \in [Session -> Profile]
    /\ closed' \subseteq Session /\ gone' \subseteq Session
    /\ crashed' \in {"no", "index", "nil", "reclient"}
    /\ pc' \in [Goroutine -> Labels]
    /\ no' \in [Goroutine -> 0..ClientNum]
    /\ e' \in [Goroutine -> 0..MaxSession]
    /\ prof' \in [Goroutine -> Profile]
    /\ fresh' \in [Goroutine -> 0..MaxSession]
    /\ round' \in [Goroutine -> 0..2]
    /\ try' \in [Goroutine -> 1..2]
    /\ dialFailed' \subseteq Request

\* The part of it that a rebuild's dial changes.
BuiltTypes ==
    /\ made' \in 0..MaxSession
    /\ about' \in [Session -> Profile]
    /\ pc' \in [Goroutine -> Labels]
    /\ no' \in [Goroutine -> 0..ClientNum]
    /\ e' \in [Goroutine -> 0..MaxSession]
    /\ prof' \in [Goroutine -> Profile]
    /\ fresh' \in [Goroutine -> 0..MaxSession]
    /\ round' \in [Goroutine -> 0..2]
    /\ try' \in [Goroutine -> 1..2]
    /\ dialFailed' \subseteq Request

Shape == TypeOK /\ LockHeld /\ LocalsSet

\* What the constants are.
LEMMA ConstantFacts ==
    /\ ClientNum \in Nat /\ ClientNum > 0 /\ MaxSession \in Nat /\ MaxRoute \in Nat
    /\ \A r \in Request : r \in Goroutine /\ r \notin Other
    /\ \A o \in Other : o \in Goroutine
    /\ \A g \in Goroutine : g \in Other \/ g \in Request
  BY SessionsAssumption DEF Goroutine

\* The indices of the list, the first of them and what is past the last.
LEMMA IndexRange ==
    /\ 0 \in Index /\ ClientNum \notin Index
    /\ \A i \in Index : i \in 0..ClientNum /\ i \in Int
  BY ConstantFacts DEF Index

\* Where a goroutine may stand.
LEMMA LabelFacts ==
    {"idle", "profile", "bump", "peek", "test", "connect", "open", "reopen", "reread",
     "rereadErr", "retry", "arg", "back", "check", "close", "qdial", "put", "put2",
     "sweep", "sweepstore", "lock", "wipe", "wipeclose", "wipestore", "init",
     "connected", "failed", "done"} \subseteq Labels
  BY DEF Labels, InRequest, Building, Clearing, Ended

\* A request reads the entry the round robin points to, unless that is past
\* the end.
LEMMA EntryRead ==
  ASSUME Shape, NEW r \in Request, pc[r] # "idle", lastUse # ClientNum
  PROVE  lastUse \in Index /\ slot[lastUse] \in 0..MaxSession
  <1>1. lastUse >= 0
    BY DEF Shape, LockHeld
  <1>2. lastUse \in -1..ClientNum
    BY DEF Shape, TypeOK
  <1>3. lastUse \in Index
    BY <1>1, <1>2, ConstantFacts DEF Index
  <1> QED
    BY <1>3 DEF Shape, TypeOK

\* Where a GetSession that fails leads.
LEMMA FailFacts ==
  ASSUME TypeOK, NEW r \in Goroutine, Fail(r)
  PROVE  /\ pc' = [pc EXCEPT ![r] = pc'[r]] /\ pc'[r] \in {"retry", "failed"}
         /\ e' \in [Goroutine -> 0..MaxSession]
         /\ round' \in [Goroutine -> 0..2] /\ try' \in [Goroutine -> 1..2]
         /\ \A h \in Goroutine \ {r} : e'[h] = e[h] /\ round'[h] = round[h] /\ try'[h] = try[h]
  <1> USE ConstantFacts DEF TypeOK, Nil, Goto
  <1>1. e' \in [Goroutine -> 0..MaxSession] /\ round' \in [Goroutine -> 0..2]
    BY DEF Fail
  <1>2. \A h \in Goroutine \ {r} : e'[h] = e[h] /\ round'[h] = round[h] /\ try'[h] = try[h]
    BY DEF Fail
  <1>3. pc' = [pc EXCEPT ![r] = pc'[r]] /\ pc'[r] \in {"retry", "failed"}
    BY DEF Fail
  <1>4. try' \in [Goroutine -> 1..2]
    BY DEF Fail
  <1> QED
    BY <1>1, <1>2, <1>3, <1>4

\* Where a RebuildSmux that returns leads.
LEMMA ReturnFacts ==
  ASSUME TypeOK, NEW g \in Goroutine, NEW ok \in BOOLEAN, Return(g, ok)
  PROVE  /\ pc' = [pc EXCEPT ![g] = pc'[g]]
         /\ pc'[g] \in {"done", "reread", "rereadErr", "connect", "retry", "failed"}
         /\ pc'[g] = "connect" => e'[g] = e[g] /\ round[g] = 0
         /\ no' = [no EXCEPT ![g] = 0] /\ prof' = [prof EXCEPT ![g] = NoProfile]
         /\ fresh' = [fresh EXCEPT ![g] = Nil]
         /\ no' \in [Goroutine -> 0..ClientNum] /\ prof' \in [Goroutine -> Profile]
         /\ fresh' \in [Goroutine -> 0..MaxSession]
         /\ e' \in [Goroutine -> 0..MaxSession]
         /\ round' \in [Goroutine -> 0..2] /\ try' \in [Goroutine -> 1..2]
         /\ \A h \in Goroutine \ {g} : e'[h] = e[h] /\ round'[h] = round[h] /\ try'[h] = try[h]
  <1> USE ConstantFacts
  <1>1. /\ no' = [no EXCEPT ![g] = 0] /\ prof' = [prof EXCEPT ![g] = NoProfile]
        /\ fresh' = [fresh EXCEPT ![g] = Nil]
    BY DEF Return
  <1>2. NoProfile \in Profile
    BY DEF NoProfile, Profile
  <1>3. /\ no' \in [Goroutine -> 0..ClientNum] /\ prof' \in [Goroutine -> Profile]
        /\ fresh' \in [Goroutine -> 0..MaxSession]
    BY <1>1, <1>2 DEF TypeOK, Nil
  <1>4. CASE Fail(g)
    BY <1>1, <1>3, <1>4, FailFacts
  <1>5. CASE ~Fail(g)
    BY <1>1, <1>3, <1>5 DEF Return, TypeOK, Goto
  <1> QED
    BY <1>4, <1>5

\* What a session that is made adds.
LEMMA MakeFacts ==
  ASSUME TypeOK, NEW g \in Goroutine, Make(g)
  PROVE  /\ made + 1 \in Session /\ made' = made + 1
         /\ about' \in [Session -> Profile] /\ about'[made + 1] = prof[g]
         /\ \A s \in Session \ {made + 1} : about'[s] = about[s]
         /\ fresh' \in [Goroutine -> 0..MaxSession] /\ fresh'[g] = made + 1
         /\ \A h \in Goroutine \ {g} : fresh'[h] = fresh[h]
  BY ConstantFacts DEF TypeOK, Make, Session

\* The step of a loop over the entries.
LEMMA IndexFacts ==
  ASSUME TypeOK, NEW o \in Goroutine, NEW loop, NEW after, NextIndex(o, loop, after),
         loop \in Labels, after \in Labels
  PROVE  /\ pc' = [pc EXCEPT ![o] = pc'[o]] /\ pc' \in [Goroutine -> Labels]
         /\ \/ pc'[o] = loop /\ no[o] + 1 \in Index /\ no' = [no EXCEPT ![o] = no[o] + 1]
            \/ pc'[o] = after /\ no[o] + 1 \notin Index /\ no' = [no EXCEPT ![o] = 0]
         /\ no' \in [Goroutine -> 0..ClientNum]
  <1>1. /\ pc' = [pc EXCEPT ![o] = pc'[o]] /\ pc' \in [Goroutine -> Labels]
        /\ \/ pc'[o] = loop /\ no[o] + 1 \in Index /\ no' = [no EXCEPT ![o] = no[o] + 1]
           \/ pc'[o] = after /\ no[o] + 1 \notin Index /\ no' = [no EXCEPT ![o] = 0]
    BY DEF TypeOK, NextIndex, Goto
  <1>2. no' \in [Goroutine -> 0..ClientNum]
    BY <1>1, IndexRange, ConstantFacts DEF TypeOK
  <1> QED
    BY <1>1, <1>2

\* At the start nobody has begun.
LEMMA ShapeInit == Init => Shape
  <1> SUFFICES ASSUME Init PROVE Shape
    OBVIOUS
  <1> USE ConstantFacts DEF Init
  <1>0. NoProfile \in Profile
    BY DEF Profile, NoProfile
  <1>1. \A g \in Goroutine : pc[g] = "idle"
    OBVIOUS
  <1>2. LockHeld
    <2>1. lastUse = -1 /\ lastUse # ClientNum
      OBVIOUS
    <2> QED
      BY <1>1, <2>1 DEF LockHeld, Locked
  <1>4. /\ slot \in [Index -> 0..MaxSession] /\ lastUse \in -1..ClientNum
        /\ holder \subseteq Goroutine /\ addr \in 0..MaxRoute /\ pool \subseteq 0..MaxRoute
        /\ made \in 0..MaxSession
    BY DEF Nil
  <1>5. /\ about \in [Session -> Profile] /\ prof \in [Goroutine -> Profile]
        /\ closed \subseteq Session /\ gone \subseteq Session
    BY <1>0
  <1>6. pc \in [Goroutine -> Labels]
    BY LabelFacts
  <1>7. /\ no \in [Goroutine -> 0..ClientNum] /\ e \in [Goroutine -> 0..MaxSession]
        /\ fresh \in [Goroutine -> 0..MaxSession]
        /\ round \in [Goroutine -> 0..2] /\ try \in [Goroutine -> 1..2]
    BY DEF Nil
  <1>9. /\ crowded \in BOOLEAN /\ overlapped \in BOOLEAN /\ straddled \in BOOLEAN
        /\ dialFailed \subseteq Request /\ rivalled \subseteq Request
        /\ met \in [Request -> SUBSET Session]
    OBVIOUS
  <1>8. TypeOK
    BY <1>4, <1>5, <1>6, <1>7, <1>9 DEF TypeOK
  <1>3. LocalsSet
    BY <1>1 DEF LocalsSet, Replacing, Building
  <1> QED
    BY <1>2, <1>3, <1>8 DEF Shape

\* A store into the list.
LEMMA StoreTyped ==
  ASSUME NEW f \in [Index -> 0..MaxSession], NEW i, NEW s \in 0..MaxSession
  PROVE  [f EXCEPT ![i] = s] \in [Index -> 0..MaxSession]
  OBVIOUS

\* Each step leaves each variable but the history in its type.
LEMMA TypeStep ==
  ASSUME Shape, Step PROVE TypesKept
  <1> USE ConstantFacts, LabelFacts
      DEF list, session, local, rebuild, Goto, Nil, Shape, TypeOK, TypesKept
  <1>1. ASSUME NEW r \in Request, NEW from \in {"idle", "retry"}, Bump(r, from) PROVE TypesKept
    BY <1>1 DEF Bump, LockHeld, Locked
  <1>2. ASSUME NEW r \in Request, WrapAround(r) PROVE TypesKept
    BY <1>2 DEF WrapAround
  <1>3. ASSUME NEW r \in Request, Peek(r) PROVE TypesKept
    BY <1>3, EntryRead DEF Peek, Panic
  <1>4. ASSUME NEW r \in Request, Argument(r) PROVE TypesKept
    <2>1. lastUse \in 0..ClientNum
      BY <1>4 DEF Argument, LockHeld
    <2> QED
      BY <1>4, <2>1 DEF Argument
  <1>5. ASSUME NEW r \in Request, Reread(r) PROVE TypesKept
    BY <1>5, EntryRead, FailFacts DEF Reread, Panic
  <1>6. ASSUME NEW r \in Request, RereadErr(r) PROVE TypesKept
    BY <1>6, FailFacts DEF RereadErr, Panic
  <1>7. ASSUME NEW r \in Request, TestClosed(r) PROVE TypesKept
    BY <1>7 DEF TestClosed
  <1>8. ASSUME NEW r \in Request, NewConnnect(r) PROVE TypesKept
    BY <1>8, FailFacts DEF NewConnnect
  <1>9. ASSUME NEW r \in Request, OpenStream(r) PROVE TypesKept
    BY <1>9 DEF OpenStream, Connected
  <1>10. ASSUME NEW r \in Request, Reclient(r) PROVE TypesKept
    BY <1>10 DEF Reclient
  <1>11. ASSUME NEW r \in Request, Reopen(r) PROVE TypesKept
    BY <1>11, FailFacts DEF Reopen, Panic
  <1>12. ASSUME NEW r \in Request, Redial(r) PROVE TypesKept
    <2>1. e[r] \in Session
      BY <1>12 DEF Redial, LocalsSet
    <2>2. /\ closed' \subseteq Session /\ gone' \subseteq Session /\ dialFailed' \subseteq Request
      BY <1>12, <2>1 DEF Redial
    <2>3. /\ pc' \in [Goroutine -> Labels] /\ e' \in [Goroutine -> 0..MaxSession]
          /\ round' \in [Goroutine -> 0..2] /\ try' \in [Goroutine -> 1..2]
      <3>1. CASE Connected(r)
        BY <3>1 DEF Connected
      <3>2. CASE Fail(r)
        BY <3>2, FailFacts
      <3> QED
        BY <1>12, <3>1, <3>2 DEF Redial
    <2> QED
      BY <1>12, <2>2, <2>3 DEF Redial
  <1>13. ASSUME NEW g \in Goroutine, GetProfile(g) PROVE TypesKept
    BY <1>13 DEF GetProfile, Profile
  <1>14. ASSUME NEW g \in Goroutine, GetNothing(g) PROVE TypesKept
    <2>1. PICK ok \in BOOLEAN : Return(g, ok)
      BY <1>14 DEF GetNothing
    <2> QED
      BY <1>14, <2>1, ReturnFacts DEF GetNothing
  <1>15. ASSUME NEW g \in Goroutine, PutBack(g) PROVE TypesKept
    <2>1. /\ slot' = slot /\ lastUse' = lastUse /\ holder' = holder /\ addr' = addr
          /\ closed' = closed /\ gone' = gone /\ crashed' = crashed
      BY <1>15 DEF PutBack
    <2>2. prof[g].route \in 0..MaxRoute
      BY DEF Profile
    <2>3. pool' \subseteq 0..MaxRoute
      BY <1>15, <2>2 DEF PutBack
    <2>4. BuiltTypes
      <3>1. CASE /\ Make(g) /\ Goto(g, "check")
                 /\ UNCHANGED <<no, e, prof, round, try, dialFailed>>
        BY <3>1, MakeFacts DEF BuiltTypes, Session
      <3>2. CASE /\ Return(g, FALSE) /\ dialFailed' = dialFailed \cup ({g} \cap Request)
                 /\ UNCHANGED <<made, about>>
        <4>1. PICK ok \in BOOLEAN : Return(g, ok)
          BY <3>2
        <4>2. dialFailed' \subseteq Request /\ made' = made /\ about' = about
          BY <3>2
        <4> QED
          BY <4>1, <4>2, ReturnFacts DEF BuiltTypes
      <3>3. CASE Goto(g, "check") /\ UNCHANGED <<made, about, local, dialFailed>>
        BY <3>3 DEF BuiltTypes
      <3> QED
        BY <1>15, <3>1, <3>2, <3>3 DEF PutBack
    <2> QED
      BY <2>1, <2>3, <2>4 DEF BuiltTypes
  <1>16. ASSUME NEW g \in Goroutine, QuicDial(g) PROVE TypesKept
    <2>1. UNCHANGED <<list, closed, gone, crashed>>
      BY <1>16 DEF QuicDial
    <2>2. BuiltTypes
      <3>1. CASE /\ Make(g) /\ Goto(g, "put")
                 /\ UNCHANGED <<no, e, prof, round, try, dialFailed>>
        BY <3>1, MakeFacts DEF BuiltTypes, Session
      <3>2. CASE /\ Return(g, FALSE) /\ dialFailed' = dialFailed \cup ({g} \cap Request)
                 /\ UNCHANGED <<made, about>>
        <4>1. PICK ok \in BOOLEAN : Return(g, ok)
          BY <3>2
        <4>2. dialFailed' \subseteq Request /\ made' = made /\ about' = about
          BY <3>2
        <4> QED
          BY <4>1, <4>2, ReturnFacts DEF BuiltTypes
      <3> QED
        BY <1>16, <3>1, <3>2 DEF QuicDial
    <2> QED
      BY <2>1, <2>2 DEF BuiltTypes
  <1>17. ASSUME NEW g \in Goroutine, Check(g) PROVE TypesKept
    BY <1>17 DEF Check, Panic, Built
  <1>18. ASSUME NEW g \in Goroutine, CloseOld(g) PROVE TypesKept
    <2>1. slot[no[g]] \in 0..MaxSession
      BY <1>18, IndexRange DEF CloseOld, LocalsSet, Replacing
    <2>2. CASE slot[no[g]] = Nil
      BY <1>18, <2>2 DEF CloseOld, Panic, Built
    <2>3. CASE slot[no[g]] # Nil
      <3>1. slot[no[g]] \in Session
        BY <2>1, <2>3, ConstantFacts DEF Session
      <3> QED
        BY <1>18, <2>3, <3>1 DEF CloseOld, CloseSession, Built
    <2> QED
      BY <2>2, <2>3
  <1>19. ASSUME NEW g \in Goroutine, PutNil(g) PROVE TypesKept
    <2>1. slot' \in [Index -> 0..MaxSession]
      BY <1>19, StoreTyped, 0 \in 0..MaxSession DEF PutNil
    <2> QED
      BY <1>19, <2>1 DEF PutNil
  <1>20. ASSUME NEW g \in Goroutine, PutFresh(g) PROVE TypesKept
    <2>1. PICK ok \in BOOLEAN : Return(g, ok)
      BY <1>20 DEF PutFresh
    <2>2. fresh[g] \in 0..MaxSession
      OBVIOUS
    <2>3. slot' \in [Index -> 0..MaxSession]
      BY <1>20, <2>2, StoreTyped DEF PutFresh
    <2> QED
      BY <1>20, <2>1, <2>3, ReturnFacts DEF PutFresh
  <1>21. ASSUME NEW o \in Other, Build(o) PROVE TypesKept
    BY <1>21, IndexRange DEF Build
  <1>22. ASSUME NEW o \in Other, Report(o) PROVE TypesKept
    BY <1>22, IndexRange DEF Report
  <1>23. ASSUME NEW o \in Other, SetAddr(o) PROVE TypesKept
    BY <1>23 DEF SetAddr
  <1>24. ASSUME NEW o \in Other, Sweep(o) PROVE TypesKept
    <2>1. slot[no[o]] \in 0..MaxSession
      BY <1>24, IndexRange DEF Sweep, LocalsSet, Replacing
    <2>2. CASE slot[no[o]] = Nil
      BY <1>24, <2>2, IndexFacts DEF Sweep, Panic
    <2>3. CASE slot[no[o]] # Nil
      <3>1. slot[no[o]] \in Session
        BY <2>1, <2>3, ConstantFacts DEF Session
      <3> QED
        BY <1>24, <2>3, <3>1 DEF Sweep, CloseSession
    <2> QED
      BY <2>2, <2>3
  <1>25. ASSUME NEW o \in Other, SweepStore(o) PROVE TypesKept
    <2>1. slot' \in [Index -> 0..MaxSession]
      BY <1>25, StoreTyped, 0 \in 0..MaxSession DEF SweepStore
    <2> QED
      BY <1>25, <2>1, IndexFacts DEF SweepStore
  <1>26. ASSUME NEW o \in Other, LockAll(o) PROVE TypesKept
    BY <1>26, IndexRange DEF LockAll
  <1>27. ASSUME NEW o \in Other, Wipe(o) PROVE TypesKept
    BY <1>27, IndexFacts DEF Wipe, NextWipe
  <1>28. ASSUME NEW o \in Other, WipeClose(o) PROVE TypesKept
    <2>1. slot[no[o]] \in 0..MaxSession
      BY <1>28, IndexRange DEF WipeClose, LocalsSet, Replacing
    <2>2. CASE slot[no[o]] = Nil
      BY <1>28, <2>2 DEF WipeClose, Panic
    <2>3. CASE slot[no[o]] # Nil
      <3>1. slot[no[o]] \in Session
        BY <2>1, <2>3, ConstantFacts DEF Session
      <3> QED
        BY <1>28, <2>3, <3>1 DEF WipeClose, CloseSession
    <2> QED
      BY <2>2, <2>3
  <1>29. ASSUME NEW o \in Other, WipeStore(o) PROVE TypesKept
    <2>1. slot' \in [Index -> 0..MaxSession]
      BY <1>29, StoreTyped, 0 \in 0..MaxSession DEF WipeStore
    <2> QED
      BY <1>29, <2>1, IndexFacts DEF WipeStore, NextWipe
  <1>30. ASSUME NEW o \in Other, Reinit(o) PROVE TypesKept
    BY <1>30 DEF Reinit
  <1>31. ASSUME NEW s \in Session, Break(s) PROVE TypesKept
    BY <1>31 DEF Break
  <1>32. ASSUME NEW s \in Session, Notice(s) PROVE TypesKept
    BY <1>32 DEF Notice
  <1>33. QED
    BY <1>1, <1>2, <1>3, <1>4, <1>5, <1>6, <1>7, <1>8, <1>9, <1>10, <1>11, <1>12, <1>13,
       <1>14, <1>15, <1>16, <1>17, <1>18, <1>19, <1>20, <1>21, <1>22, <1>23, <1>24,
       <1>25, <1>26, <1>27, <1>28, <1>29, <1>30, <1>31, <1>32
    DEF Step, RequestStep, RebuildStep, ClearStep


\* Who moves outside the LockAreas disturbs nobody.
LEMMA MovedOutside ==
  ASSUME Shape, NEW g \in Goroutine, pc' = [pc EXCEPT ![g] = pc'[g]], pc'[g] \notin Locked,
         pc[g] # "bump", pc[g] # "idle" \/ g \in Other,
         holder' = holder, lastUse' = lastUse
  PROVE  LockHeld'
  <1>1. \A h \in Goroutine : h # g => pc'[h] = pc[h]
    BY DEF Shape, TypeOK
  <1> QED
    BY <1>1, ConstantFacts DEF Shape, LockHeld

\* Who moves on inside its LockArea keeps the lock.
LEMMA MovedInside ==
  ASSUME Shape, NEW g \in Goroutine, pc' = [pc EXCEPT ![g] = pc'[g]], pc[g] \in Locked,
         pc[g] # "bump", pc'[g] # "bump", holder' = holder, lastUse' = lastUse
  PROVE  LockHeld'
  <1>1. \A h \in Goroutine : h # g => pc'[h] = pc[h]
    BY DEF Shape, TypeOK
  <1> QED
    BY <1>1, ConstantFacts DEF Shape, LockHeld, Locked

\* Who enters a LockArea finds nobody inside.
LEMMA Acquired ==
  ASSUME Shape, NEW g \in Goroutine, pc' = [pc EXCEPT ![g] = pc'[g]], pc[g] # "idle",
         holder = {}, holder' = {g}, lastUse' = lastUse
  PROVE  LockHeld'
  <1>1. \A h \in Goroutine : h # g => pc'[h] = pc[h]
    BY DEF Shape, TypeOK
  <1> QED
    BY <1>1, ConstantFacts DEF Shape, LockHeld, Locked

\* Who leaves its LockArea leaves nobody inside.
LEMMA Released ==
  ASSUME Shape, NEW g \in Goroutine, pc' = [pc EXCEPT ![g] = pc'[g]], pc[g] \in Locked,
         pc'[g] \notin Locked, pc[g] # "bump", holder' = {}, lastUse' = lastUse
  PROVE  LockHeld'
  <1>1. \A h \in Goroutine : h # g => pc'[h] = pc[h]
    BY DEF Shape, TypeOK
  <1>2. \A h \in Goroutine : h # g => pc[h] \notin Locked
    BY DEF Shape, LockHeld
  <1> QED
    BY <1>1, <1>2, ConstantFacts, IndexRange DEF Shape, LockHeld, Locked, Index

\* Each step leaves the lock with who is inside.
LEMMA LockStep ==
  ASSUME Shape, Step PROVE LockHeld'
  <1> USE ConstantFacts, LabelFacts DEF list, session, local, rebuild, Goto, Shape, TypeOK, Locked
  <1>1. ASSUME NEW r \in Request, NEW from \in {"idle", "retry"}, Bump(r, from) PROVE LockHeld'
    <2>1. pc'[r] = "bump" /\ \A h \in Goroutine : h # r => pc'[h] = pc[h]
      BY <1>1 DEF Bump
    <2>2. \A h \in Goroutine : pc[h] \notin Locked
      BY <1>1 DEF Bump, LockHeld
    <2>3. holder' = {r} /\ lastUse' >= 0
      BY <1>1 DEF Bump
    <2> QED
      BY <2>1, <2>2, <2>3 DEF LockHeld
  <1>2. ASSUME NEW r \in Request, WrapAround(r) PROVE LockHeld'
    <2>1. lastUse \in 0..ClientNum
      BY <1>2 DEF WrapAround, LockHeld
    <2>2. lastUse % ClientNum \in Index
      BY <2>1 DEF Index
    <2>3. /\ pc' = [pc EXCEPT ![r] = pc'[r]] /\ pc[r] \in Locked /\ pc'[r] \notin Locked
          /\ holder' = {} /\ lastUse' \in Index
      BY <1>2, <2>2 DEF WrapAround
    <2>4. \A h \in Goroutine : h # r => pc[h] \notin Locked /\ pc'[h] = pc[h]
      <3>1. holder = {r}
        BY <2>3 DEF LockHeld
      <3>2. \A h \in Goroutine : h # r => pc[h] \notin Locked
        BY <3>1 DEF LockHeld
      <3> QED
        BY <2>3, <3>2
    <2>5. lastUse' >= 0 /\ lastUse' # ClientNum
      BY <2>3, IndexRange DEF Index
    <2> QED
      BY <2>3, <2>4, <2>5 DEF LockHeld
  <1>3. ASSUME NEW r \in Request, Peek(r) PROVE LockHeld'
    BY <1>3, MovedOutside DEF Peek, Panic
  <1>4. ASSUME NEW r \in Request, Argument(r) PROVE LockHeld'
    BY <1>4, MovedOutside DEF Argument
  <1>5. ASSUME NEW r \in Request, Reread(r) PROVE LockHeld'
    BY <1>5, MovedOutside, FailFacts DEF Reread, Panic
  <1>6. ASSUME NEW r \in Request, RereadErr(r) PROVE LockHeld'
    BY <1>6, MovedOutside, FailFacts DEF RereadErr, Panic
  <1>7. ASSUME NEW r \in Request, TestClosed(r) PROVE LockHeld'
    BY <1>7, MovedOutside DEF TestClosed
  <1>8. ASSUME NEW r \in Request, NewConnnect(r) PROVE LockHeld'
    BY <1>8, MovedOutside, FailFacts DEF NewConnnect
  <1>9. ASSUME NEW r \in Request, OpenStream(r) PROVE LockHeld'
    BY <1>9, MovedOutside DEF OpenStream, Connected
  <1>10. ASSUME NEW r \in Request, Reclient(r) PROVE LockHeld'
    BY <1>10, MovedOutside DEF Reclient
  <1>11. ASSUME NEW r \in Request, Reopen(r) PROVE LockHeld'
    BY <1>11, MovedOutside, FailFacts DEF Reopen, Panic
  <1>12. ASSUME NEW r \in Request, Redial(r) PROVE LockHeld'
    BY <1>12, MovedOutside, FailFacts DEF Redial, Connected
  <1>13. ASSUME NEW g \in Goroutine, GetProfile(g) PROVE LockHeld'
    BY <1>13, MovedOutside DEF GetProfile
  <1>14. ASSUME NEW g \in Goroutine, GetNothing(g) PROVE LockHeld'
    BY <1>14, MovedOutside, ReturnFacts DEF GetNothing
  <1>15. ASSUME NEW g \in Goroutine, PutBack(g) PROVE LockHeld'
    <2>1. /\ holder' = holder /\ lastUse' = lastUse
          /\ pc[g] \notin {"bump", "idle"}
      BY <1>15 DEF PutBack
    <2>2. pc' = [pc EXCEPT ![g] = pc'[g]] /\ pc'[g] \notin Locked
      <3>1. CASE Return(g, FALSE)
        <4>1. PICK ok \in BOOLEAN : Return(g, ok)
          BY <3>1
        <4> QED
          BY <4>1, ReturnFacts
      <3>2. CASE ~Return(g, FALSE)
        BY <1>15, <3>2 DEF PutBack
      <3> QED
        BY <3>1, <3>2
    <2> QED
      BY <2>1, <2>2, MovedOutside
  <1>16. ASSUME NEW g \in Goroutine, QuicDial(g) PROVE LockHeld'
    <2>1. /\ holder' = holder /\ lastUse' = lastUse
          /\ pc[g] \notin {"bump", "idle"}
      BY <1>16 DEF QuicDial
    <2>2. pc' = [pc EXCEPT ![g] = pc'[g]] /\ pc'[g] \notin Locked
      <3>1. CASE Return(g, FALSE)
        <4>1. PICK ok \in BOOLEAN : Return(g, ok)
          BY <3>1
        <4> QED
          BY <4>1, ReturnFacts
      <3>2. CASE ~Return(g, FALSE)
        BY <1>16, <3>2 DEF QuicDial
      <3> QED
        BY <3>1, <3>2
    <2> QED
      BY <2>1, <2>2, MovedOutside
  <1>17. ASSUME NEW g \in Goroutine, Check(g) PROVE LockHeld'
    BY <1>17, MovedOutside DEF Check, Panic, Built
  <1>18. ASSUME NEW g \in Goroutine, CloseOld(g) PROVE LockHeld'
    BY <1>18, MovedOutside DEF CloseOld, Panic, Built
  <1>19. ASSUME NEW g \in Goroutine, PutNil(g) PROVE LockHeld'
    BY <1>19, Acquired DEF PutNil
  <1>20. ASSUME NEW g \in Goroutine, PutFresh(g) PROVE LockHeld'
    BY <1>20, Released, ReturnFacts DEF PutFresh
  <1>21. ASSUME NEW o \in Other, Build(o) PROVE LockHeld'
    BY <1>21, MovedOutside DEF Build
  <1>22. ASSUME NEW o \in Other, Report(o) PROVE LockHeld'
    BY <1>22, MovedOutside DEF Report
  <1>23. ASSUME NEW o \in Other, SetAddr(o) PROVE LockHeld'
    BY <1>23, MovedOutside DEF SetAddr
  <1>24. ASSUME NEW o \in Other, Sweep(o) PROVE LockHeld'
    BY <1>24, MovedOutside, IndexFacts DEF Sweep
  <1>25. ASSUME NEW o \in Other, SweepStore(o) PROVE LockHeld'
    BY <1>25, MovedOutside, IndexFacts DEF SweepStore
  <1>26. ASSUME NEW o \in Other, LockAll(o) PROVE LockHeld'
    BY <1>26, Acquired DEF LockAll
  <1>27. ASSUME NEW o \in Other, Wipe(o) PROVE LockHeld'
    BY <1>27, MovedInside, Released, IndexFacts DEF Wipe, NextWipe
  <1>28. ASSUME NEW o \in Other, WipeClose(o) PROVE LockHeld'
    BY <1>28, MovedInside DEF WipeClose, Panic
  <1>29. ASSUME NEW o \in Other, WipeStore(o) PROVE LockHeld'
    BY <1>29, MovedInside, Released, IndexFacts DEF WipeStore, NextWipe
  <1>30. ASSUME NEW o \in Other, Reinit(o) PROVE LockHeld'
    <2>1. \A h \in Goroutine : pc'[h] \in Locked => pc[h] \in Locked
      BY <1>30 DEF Reinit
    <2>2. holder' = holder /\ lastUse' = 0
      BY <1>30 DEF Reinit
    <2> QED
      BY <2>1, <2>2 DEF LockHeld
  <1>31. ASSUME NEW s \in Session, Break(s) PROVE LockHeld'
    BY <1>31 DEF Break, LockHeld
  <1>32. ASSUME NEW s \in Session, Notice(s) PROVE LockHeld'
    BY <1>32 DEF Notice, LockHeld
  <1>33. QED
    BY <1>1, <1>2, <1>3, <1>4, <1>5, <1>6, <1>7, <1>8, <1>9, <1>10, <1>11, <1>12, <1>13,
       <1>14, <1>15, <1>16, <1>17, <1>18, <1>19, <1>20, <1>21, <1>22, <1>23, <1>24,
       <1>25, <1>26, <1>27, <1>28, <1>29, <1>30, <1>31, <1>32
    DEF Step, RequestStep, RebuildStep, ClearStep


\* Only the locals of the goroutine that moves are to be looked at.
LEMMA OnlyMover ==
  ASSUME Shape, NEW g \in Goroutine, pc' = [pc EXCEPT ![g] = pc'[g]],
         \A h \in Goroutine \ {g} : no'[h] = no[h] /\ e'[h] = e[h] /\ round'[h] = round[h],
         pc'[g] \in Replacing \cup {"sweep", "wipe"} => no'[g] \in Index,
         \/ g \in Other
         \/ e'[g] \in Session
         \/ /\ pc'[g] \notin {"test", "connect", "open", "reopen"}
            /\ pc'[g] \notin {"arg", "profile"} \cup Building \/ round'[g] # 0
  PROVE  LocalsSet'
  <1>1. \A h \in Goroutine \ {g} : pc'[h] = pc[h]
    BY DEF Shape, TypeOK
  <1>2. \A h \in Goroutine : pc'[h] \in Replacing \cup {"sweep", "wipe"} => no'[h] \in Index
    BY <1>1 DEF Shape, LocalsSet
  <1>3. ASSUME NEW r \in Request,
               \/ pc'[r] \in {"test", "connect", "open", "reopen"}
               \/ pc'[r] \in {"arg", "profile"} \cup Building /\ round'[r] = 0
        PROVE  e'[r] \in Session
    BY <1>1, <1>3, ConstantFacts DEF Shape, LocalsSet
  <1> QED
    BY <1>2, <1>3 DEF LocalsSet

\* What a goroutine that ends its rebuilding does not know, it does not need.
LEMMA ReturnMover ==
  ASSUME Shape, NEW g \in Goroutine, NEW ok \in BOOLEAN, Return(g, ok),
         pc[g] \in {"profile", "back", "qdial", "put2"}
  PROVE  LocalsSet'
  <1>1. /\ pc' = [pc EXCEPT ![g] = pc'[g]]
        /\ pc'[g] \in {"done", "reread", "rereadErr", "connect", "retry", "failed"}
        /\ pc'[g] = "connect" => e'[g] = e[g] /\ round[g] = 0
        /\ no' = [no EXCEPT ![g] = 0]
        /\ \A h \in Goroutine \ {g} : e'[h] = e[h] /\ round'[h] = round[h]
    BY ReturnFacts DEF Shape
  <1>2. \A h \in Goroutine \ {g} : no'[h] = no[h]
    BY <1>1 DEF Shape, TypeOK
  <1>3. pc'[g] \notin Replacing \cup {"sweep", "wipe"} \cup {"arg", "profile"} \cup Building
    BY <1>1 DEF Replacing, Building
  <1>4. \/ g \in Other
        \/ e'[g] \in Session
        \/ pc'[g] \notin {"test", "connect", "open", "reopen"}
    <2>1. CASE pc'[g] = "connect" /\ g \in Request
      BY <1>1, <2>1 DEF Shape, LocalsSet, Building, Replacing
    <2> QED
      BY <1>1, <2>1 DEF Goroutine
  <1> QED
    BY <1>1, <1>2, <1>3, <1>4, OnlyMover

\* Where a loop over the entries leads, and with which index.
LEMMA LoopFacts ==
  ASSUME TypeOK, NEW o \in Goroutine, NEW loop, NEW after, NextIndex(o, loop, after)
  PROVE  /\ pc' = [pc EXCEPT ![o] = pc'[o]]
         /\ \A h \in Goroutine \ {o} : no'[h] = no[h]
         /\ \/ pc'[o] = loop /\ no'[o] \in Index
            \/ pc'[o] = after
  BY DEF TypeOK, NextIndex, Goto

\* Each step leaves each goroutine the locals it will need.
LEMMA LocalsStep ==
  ASSUME Shape, Step PROVE LocalsSet'
  <1> USE ConstantFacts
      DEF list, session, local, rebuild, Goto, Shape, TypeOK, LocalsSet, Replacing, Building
  <1>1. ASSUME NEW r \in Request, NEW from \in {"idle", "retry"}, Bump(r, from) PROVE LocalsSet'
    BY <1>1, OnlyMover DEF Bump
  <1>2. ASSUME NEW r \in Request, WrapAround(r) PROVE LocalsSet'
    BY <1>2, OnlyMover DEF WrapAround
  <1>3. ASSUME NEW r \in Request, Peek(r) PROVE LocalsSet'
    <2>1. CASE lastUse = ClientNum
      BY <1>3, <2>1 DEF Peek, Panic
    <2>2. CASE lastUse # ClientNum
      <3>1. slot[lastUse] \in 0..MaxSession
        BY <1>3, <2>2, EntryRead DEF Peek
      <3>2. slot[lastUse] = Nil \/ slot[lastUse] \in Session
        BY <3>1 DEF Session, Nil
      <3> QED
        BY <1>3, <2>2, <3>2, OnlyMover DEF Peek
    <2> QED
      BY <2>1, <2>2
  <1>4. ASSUME NEW r \in Request, Argument(r) PROVE LocalsSet'
    BY <1>4, OnlyMover DEF Argument
  <1>5. ASSUME NEW r \in Request, Reread(r) PROVE LocalsSet'
    <2>1. CASE lastUse = ClientNum
      BY <1>5, <2>1 DEF Reread, Panic
    <2>2. CASE Fail(r)
      BY <1>5, <2>2, FailFacts, OnlyMover DEF Reread
    <2>3. CASE lastUse # ClientNum /\ slot[lastUse] # Nil
      <3>1. slot[lastUse] \in Session
        BY <1>5, <2>3, EntryRead DEF Reread, Session, Nil
      <3> QED
        BY <1>5, <2>3, <3>1, OnlyMover DEF Reread
    <2> QED
      BY <1>5, <2>1, <2>2, <2>3 DEF Reread
  <1>6. ASSUME NEW r \in Request, RereadErr(r) PROVE LocalsSet'
    BY <1>6, OnlyMover, FailFacts DEF RereadErr, Panic
  <1>7. ASSUME NEW r \in Request, TestClosed(r) PROVE LocalsSet'
    BY <1>7, OnlyMover DEF TestClosed
  <1>8. ASSUME NEW r \in Request, NewConnnect(r) PROVE LocalsSet'
    BY <1>8, OnlyMover, FailFacts DEF NewConnnect
  <1>9. ASSUME NEW r \in Request, OpenStream(r) PROVE LocalsSet'
    BY <1>9, OnlyMover DEF OpenStream, Connected
  <1>10. ASSUME NEW r \in Request, Reclient(r) PROVE LocalsSet'
    BY <1>10, OnlyMover DEF Reclient
  <1>11. ASSUME NEW r \in Request, Reopen(r) PROVE LocalsSet'
    BY <1>11, OnlyMover, FailFacts DEF Reopen, Panic
  <1>12. ASSUME NEW r \in Request, Redial(r) PROVE LocalsSet'
    BY <1>12, OnlyMover, FailFacts DEF Redial, Connected
  <1>13. ASSUME NEW g \in Goroutine, GetProfile(g) PROVE LocalsSet'
    BY <1>13, OnlyMover DEF GetProfile
  <1>14. ASSUME NEW g \in Goroutine, GetNothing(g) PROVE LocalsSet'
    <2>1. Return(g, FALSE) /\ pc[g] = "profile"
      BY <1>14 DEF GetNothing
    <2>2. PICK ok \in BOOLEAN : Return(g, ok)
      BY <2>1
    <2> QED
      BY <2>1, <2>2, ReturnMover
  <1>15. ASSUME NEW g \in Goroutine, PutBack(g) PROVE LocalsSet'
    <2>1. CASE Return(g, FALSE)
      <3>1. PICK ok \in BOOLEAN : Return(g, ok)
        BY <2>1
      <3> QED
        BY <1>15, <3>1, ReturnMover DEF PutBack
    <2>2. CASE ~Return(g, FALSE)
      BY <1>15, <2>2, OnlyMover DEF PutBack
    <2> QED
      BY <2>1, <2>2
  <1>16. ASSUME NEW g \in Goroutine, QuicDial(g) PROVE LocalsSet'
    <2>1. CASE Return(g, FALSE)
      <3>1. PICK ok \in BOOLEAN : Return(g, ok)
        BY <2>1
      <3> QED
        BY <1>16, <3>1, ReturnMover DEF QuicDial
    <2>2. CASE ~Return(g, FALSE)
      BY <1>16, <2>2, OnlyMover DEF QuicDial
    <2> QED
      BY <2>1, <2>2
  <1>17. ASSUME NEW g \in Goroutine, Check(g) PROVE LocalsSet'
    <2>1. no[g] \in Index \/ no[g] = ClientNum
      BY DEF Index
    <2>2. CASE no[g] = ClientNum
      BY <1>17, <2>2 DEF Check, Panic
    <2>3. CASE no[g] # ClientNum
      BY <1>17, <2>1, <2>3, OnlyMover DEF Check, Built
    <2> QED
      BY <2>2, <2>3
  <1>18. ASSUME NEW g \in Goroutine, CloseOld(g) PROVE LocalsSet'
    BY <1>18, OnlyMover DEF CloseOld, Panic, Built
  <1>19. ASSUME NEW g \in Goroutine, PutNil(g) PROVE LocalsSet'
    BY <1>19, OnlyMover DEF PutNil
  <1>20. ASSUME NEW g \in Goroutine, PutFresh(g) PROVE LocalsSet'
    BY <1>20, ReturnMover DEF PutFresh
  <1>21. ASSUME NEW o \in Other, Build(o) PROVE LocalsSet'
    BY <1>21, OnlyMover DEF Build
  <1>22. ASSUME NEW o \in Other, Report(o) PROVE LocalsSet'
    BY <1>22, OnlyMover, IndexRange DEF Report
  <1>23. ASSUME NEW o \in Other, SetAddr(o) PROVE LocalsSet'
    BY <1>23, OnlyMover DEF SetAddr
  <1>24. ASSUME NEW o \in Other, Sweep(o) PROVE LocalsSet'
    <2>1. /\ pc' = [pc EXCEPT ![o] = pc'[o]] /\ \A h \in Goroutine \ {o} : no'[h] = no[h]
          /\ pc'[o] \in Replacing \cup {"sweep", "wipe"} => no'[o] \in Index
      <3>1. CASE NextIndex(o, "sweep", "done")
        BY <3>1, LoopFacts
      <3>2. CASE ~NextIndex(o, "sweep", "done")
        BY <1>24, <3>2 DEF Sweep
      <3> QED
        BY <3>1, <3>2
    <2> QED
      BY <1>24, <2>1, OnlyMover DEF Sweep
  <1>25. ASSUME NEW o \in Other, SweepStore(o) PROVE LocalsSet'
    <2>1. /\ pc' = [pc EXCEPT ![o] = pc'[o]] /\ \A h \in Goroutine \ {o} : no'[h] = no[h]
          /\ pc'[o] \in Replacing \cup {"sweep", "wipe"} => no'[o] \in Index
      <3>1. CASE NextIndex(o, "sweep", "done")
        BY <3>1, LoopFacts
      <3>2. CASE ~NextIndex(o, "sweep", "done")
        BY <1>25, <3>2 DEF SweepStore
      <3> QED
        BY <3>1, <3>2
    <2> QED
      BY <1>25, <2>1, OnlyMover DEF SweepStore
  <1>26. ASSUME NEW o \in Other, LockAll(o) PROVE LocalsSet'
    BY <1>26, OnlyMover, IndexRange DEF LockAll
  <1>27. ASSUME NEW o \in Other, Wipe(o) PROVE LocalsSet'
    <2>1. /\ pc' = [pc EXCEPT ![o] = pc'[o]] /\ \A h \in Goroutine \ {o} : no'[h] = no[h]
          /\ pc'[o] \in Replacing \cup {"sweep", "wipe"} => no'[o] \in Index
      <3>1. CASE NextIndex(o, "wipe", "init")
        BY <3>1, LoopFacts
      <3>2. CASE ~NextIndex(o, "wipe", "init")
        BY <1>27, <3>2 DEF Wipe, NextWipe
      <3> QED
        BY <3>1, <3>2
    <2> QED
      BY <1>27, <2>1, OnlyMover DEF Wipe, NextWipe
  <1>28. ASSUME NEW o \in Other, WipeClose(o) PROVE LocalsSet'
    BY <1>28, OnlyMover DEF WipeClose, Panic
  <1>29. ASSUME NEW o \in Other, WipeStore(o) PROVE LocalsSet'
    <2>1. /\ pc' = [pc EXCEPT ![o] = pc'[o]] /\ \A h \in Goroutine \ {o} : no'[h] = no[h]
          /\ pc'[o] \in Replacing \cup {"sweep", "wipe"} => no'[o] \in Index
      <3>1. CASE NextIndex(o, "wipe", "init")
        BY <3>1, LoopFacts
      <3>2. CASE ~NextIndex(o, "wipe", "init")
        BY <1>29, <3>2 DEF WipeStore, NextWipe
      <3> QED
        BY <3>1, <3>2
    <2> QED
      BY <1>29, <2>1, OnlyMover DEF WipeStore, NextWipe
  <1>30. ASSUME NEW o \in Other, Reinit(o) PROVE LocalsSet'
    BY <1>30, OnlyMover DEF Reinit
  <1>31. ASSUME NEW s \in Session, Break(s) PROVE LocalsSet'
    BY <1>31 DEF Break, LocalsSet
  <1>32. ASSUME NEW s \in Session, Notice(s) PROVE LocalsSet'
    BY <1>32 DEF Notice, LocalsSet
  <1>33. QED
    BY <1>1, <1>2, <1>3, <1>4, <1>5, <1>6, <1>7, <1>8, <1>9, <1>10, <1>11, <1>12, <1>13,
       <1>14, <1>15, <1>16, <1>17, <1>18, <1>19, <1>20, <1>21, <1>22, <1>23, <1>24,
       <1>25, <1>26, <1>27, <1>28, <1>29, <1>30, <1>31, <1>32
    DEF Step, RequestStep, RebuildStep, ClearStep

\* So does the whole next-state relation, with the history.
LEMMA TypeNext ==
  ASSUME Shape, Next PROVE TypeOK'
  <1>1. /\ crowded' \in BOOLEAN /\ overlapped' \in BOOLEAN /\ straddled' \in BOOLEAN
    <2>1. (crowded \/ Crowd') \in BOOLEAN /\ (overlapped \/ Overlap') \in BOOLEAN
          /\ (straddled \/ Straddle') \in BOOLEAN
      OBVIOUS
    <2> QED
      BY <2>1 DEF Next
  <1>2. TypesKept
    BY TypeStep DEF Next
  <1>3. rivalled' \subseteq Request
    BY DEF Next, Shape, TypeOK
  <1>4. met' \in [Request -> SUBSET Session]
    <2>1. ASSUME NEW r \in Request PROVE {e[r]} \cap (closed \cup gone) \in SUBSET Session
      BY DEF Shape, TypeOK
    <2>2. ASSUME NEW r \in Request
          PROVE  /\ met[r] \in SUBSET Session
                 /\ met[r] \cup ({e[r]} \cap (closed \cup gone)) \in SUBSET Session
      BY <2>1 DEF Shape, TypeOK
    <2> QED
      BY <2>2 DEF Next
  <1> QED
    BY <1>1, <1>2, <1>3, <1>4 DEF TypeOK, TypesKept

\* Shape is inductive ...
LEMMA ShapeStep ==
  ASSUME Shape, [Next]_vars PROVE Shape'
  <1>1. CASE Next
    <2>1. Step
      BY <1>1 DEF Next
    <2> QED
      BY <1>1, <2>1, TypeNext, LockStep, LocalsStep DEF Shape
  <1>2. CASE UNCHANGED vars
    BY <1>2 DEF vars, list, session, local, rebuild, history, Shape, TypeOK, LockHeld, LocalsSet
  <1> QED
    BY <1>1, <1>2

\* ... and so it holds in every state.
LEMMA ShapeAlways == Spec => []Shape
  BY ShapeInit, ShapeStep, PTL DEF Spec

\* Every state is well typed: no index, session or route leaves its range.
THEOREM TypeCorrect == Spec => []TypeOK
  <1>1. Shape => TypeOK
    BY DEF Shape
  <1> QED
    BY <1>1, ShapeAlways, PTL

-----------------------------------------------------------------------------
(* What the history variables record has happened.                         *)

Latched ==
    /\ Crowd => crowded
    /\ Overlap => overlapped
    /\ Straddle => straddled
    /\ \A r \in Request : Rivalled(r) => r \in rivalled

\* At the start nothing has happened.
LEMMA LatchedInit == Init => Latched
  <1> SUFFICES ASSUME Init PROVE Latched
    OBVIOUS
  <1>1. \A g \in Goroutine : pc[g] = "idle"
    BY DEF Init
  <1>2. ~Crowd
    BY <1>1, ConstantFacts DEF Crowd
  <1>3. ~Overlap /\ ~Straddle
    BY <1>1 DEF Overlap, Straddle, Building, Replacing
  <1>4. \A r \in Request : ~Rivalled(r)
    BY <1>1, ConstantFacts DEF Rivalled, Resting
  <1> QED
    BY <1>2, <1>3, <1>4 DEF Latched

\* What happens is recorded in the step that makes it so.
LEMMA LatchedStep ==
  ASSUME Latched, [Next]_vars PROVE Latched'
  <1>1. CASE Next
    BY <1>1 DEF Next, Latched
  <1>2. CASE UNCHANGED vars
    BY <1>2 DEF vars, local, rebuild, history, Latched, Crowd, Overlap, Straddle,
                Rivalled, Resting
  <1> QED
    BY <1>1, <1>2

-----------------------------------------------------------------------------
(* What is known of a session that is built and not stored yet.            *)

FreshInv ==
    /\ \A i \in Index : slot[i] \in 0..made
    /\ \A g \in Goroutine :
         /\ fresh[g] \in 0..made
         /\ fresh[g] # Nil => pc[g] \in {"check", "close", "put", "put2"}
         /\ pc[g] \in {"check", "close"} /\ prof[g].kind = "quic" => fresh[g] = Nil

\* A RebuildSmux that returns holds no session any more.
LEMMA ReturnFresh ==
  ASSUME Shape, FreshInv, NEW g \in Goroutine, NEW ok \in BOOLEAN, Return(g, ok), made' = made
  PROVE  \A h \in Goroutine :
           /\ fresh'[h] \in 0..made'
           /\ fresh'[h] # Nil => pc'[h] \in {"check", "close", "put", "put2"}
           /\ pc'[h] \in {"check", "close"} /\ prof'[h].kind = "quic" => fresh'[h] = Nil
  <1> USE DEF Shape, TypeOK, FreshInv
  <1>1. /\ fresh'[g] = Nil /\ pc'[g] \notin {"check", "close"} /\ 0 \in 0..made
    BY ReturnFacts
  <1>2. \A h \in Goroutine \ {g} : fresh'[h] = fresh[h] /\ pc'[h] = pc[h] /\ prof'[h] = prof[h]
    BY ReturnFacts
  <1> QED
    BY <1>1, <1>2 DEF Nil

\* Each step keeps it.
LEMMA FreshStep ==
  ASSUME Shape, FreshInv, Step PROVE FreshInv'
  <1> USE ConstantFacts DEF list, session, local, rebuild, Goto, Shape, TypeOK, FreshInv, Nil
  <1>1. ASSUME NEW r \in Request, NEW from \in {"idle", "retry"}, Bump(r, from) PROVE FreshInv'
    BY <1>1 DEF Bump
  <1>2. ASSUME NEW r \in Request, WrapAround(r) PROVE FreshInv'
    BY <1>2 DEF WrapAround
  <1>3. ASSUME NEW r \in Request, Peek(r) PROVE FreshInv'
    BY <1>3 DEF Peek, Panic
  <1>4. ASSUME NEW r \in Request, Argument(r) PROVE FreshInv'
    BY <1>4 DEF Argument
  <1>5. ASSUME NEW r \in Request, Reread(r) PROVE FreshInv'
    BY <1>5, FailFacts DEF Reread, Panic
  <1>6. ASSUME NEW r \in Request, RereadErr(r) PROVE FreshInv'
    BY <1>6, FailFacts DEF RereadErr, Panic
  <1>7. ASSUME NEW r \in Request, TestClosed(r) PROVE FreshInv'
    BY <1>7 DEF TestClosed
  <1>8. ASSUME NEW r \in Request, NewConnnect(r) PROVE FreshInv'
    BY <1>8, FailFacts DEF NewConnnect
  <1>9. ASSUME NEW r \in Request, OpenStream(r) PROVE FreshInv'
    BY <1>9 DEF OpenStream, Connected
  <1>10. ASSUME NEW r \in Request, Reclient(r) PROVE FreshInv'
    BY <1>10 DEF Reclient
  <1>11. ASSUME NEW r \in Request, Reopen(r) PROVE FreshInv'
    BY <1>11, FailFacts DEF Reopen, Panic
  <1>12. ASSUME NEW r \in Request, Redial(r) PROVE FreshInv'
    BY <1>12, FailFacts DEF Redial, Connected
  <1>13. ASSUME NEW g \in Goroutine, GetProfile(g) PROVE FreshInv'
    BY <1>13 DEF GetProfile
  <1>14. ASSUME NEW g \in Goroutine, GetNothing(g) PROVE FreshInv'
    <2>1. PICK ok \in BOOLEAN : Return(g, ok)
      BY <1>14 DEF GetNothing
    <2>2. slot' = slot /\ made' = made
      BY <1>14 DEF GetNothing, session, list
    <2> QED
      BY <1>14, <2>1, <2>2, ReturnFresh DEF GetNothing
  <1>15. ASSUME NEW g \in Goroutine, PutBack(g) PROVE FreshInv'
    <2>1. slot' = slot /\ made \in Nat
      BY <1>15 DEF PutBack
    <2>2. CASE Return(g, FALSE) /\ made' = made
      <3>1. PICK ok \in BOOLEAN : Return(g, ok)
        BY <2>2
      <3> QED
        BY <2>1, <2>2, <3>1, ReturnFresh
    <2>3. CASE Make(g) /\ Goto(g, "check") /\ prof' = prof /\ prof[g].kind = "smux"
      <3>1. made' = made + 1 /\ fresh'[g] = made + 1
            /\ \A h \in Goroutine \ {g} : fresh'[h] = fresh[h]
        BY <2>3, MakeFacts
      <3>2. \A h \in Goroutine \ {g} : pc'[h] = pc[h] /\ prof'[h] = prof[h]
        BY <2>3
      <3>3. /\ pc'[g] = "check" /\ prof'[g].kind = "smux"
        BY <2>3
      <3> QED
        BY <2>1, <3>1, <3>2, <3>3
    <2>4. CASE Goto(g, "check") /\ UNCHANGED <<made, about, local>> /\ pc[g] = "back"
      BY <2>1, <2>4
    <2> QED
      BY <1>15, <2>2, <2>3, <2>4 DEF PutBack
  <1>16. ASSUME NEW g \in Goroutine, QuicDial(g) PROVE FreshInv'
    <2>1. slot' = slot /\ made \in Nat
      BY <1>16 DEF QuicDial
    <2>2. CASE Return(g, FALSE) /\ made' = made
      <3>1. PICK ok \in BOOLEAN : Return(g, ok)
        BY <2>2
      <3> QED
        BY <2>1, <2>2, <3>1, ReturnFresh
    <2>3. CASE Make(g) /\ Goto(g, "put") /\ prof' = prof
      <3>1. made' = made + 1 /\ fresh'[g] = made + 1
            /\ \A h \in Goroutine \ {g} : fresh'[h] = fresh[h]
        BY <2>3, MakeFacts
      <3>2. \A h \in Goroutine \ {g} : pc'[h] = pc[h] /\ prof'[h] = prof[h]
        BY <2>3
      <3>3. /\ pc'[g] = "put"
        BY <2>3
      <3> QED
        BY <2>1, <3>1, <3>2, <3>3
    <2> QED
      BY <1>16, <2>2, <2>3 DEF QuicDial
  <1>17. ASSUME NEW g \in Goroutine, Check(g) PROVE FreshInv'
    <2>1. prof[g].kind \in {"smux", "quic"}
      BY DEF Profile
    <2>2. /\ slot' = slot /\ made' = made /\ fresh' = fresh /\ prof' = prof
          /\ \A h \in Goroutine \ {g} : pc'[h] = pc[h]
      BY <1>17 DEF Check, Panic
    <2>3. /\ prof[g].kind = "smux" => pc'[g] \in {"check", "close", "put"}
          /\ prof[g].kind = "quic" => pc'[g] \in {"check", "close", "qdial"}
      BY <1>17 DEF Check, Panic, Built
    <2>4. pc[g] \in {"check", "close"} /\ (pc'[g] = "check" => pc[g] = "check")
      BY <1>17 DEF Check, Panic, Built
    <2>6. ASSUME NEW h \in Goroutine
          PROVE  /\ fresh'[h] \in 0..made'
                 /\ fresh'[h] # Nil => pc'[h] \in {"check", "close", "put", "put2"}
                 /\ pc'[h] \in {"check", "close"} /\ prof'[h].kind = "quic" => fresh'[h] = Nil
      <3>1. CASE h # g
        BY <2>2, <3>1
      <3>2. CASE h = g
        BY <2>1, <2>2, <2>3, <2>4, <3>2
      <3> QED
        BY <3>1, <3>2
    <2> QED
      BY <2>2, <2>6
  <1>18. ASSUME NEW g \in Goroutine, CloseOld(g) PROVE FreshInv'
    <2>1. prof[g].kind \in {"smux", "quic"}
      BY DEF Profile
    <2>2. /\ slot' = slot /\ made' = made /\ fresh' = fresh /\ prof' = prof
          /\ \A h \in Goroutine \ {g} : pc'[h] = pc[h]
      BY <1>18 DEF CloseOld, Panic
    <2>3. /\ prof[g].kind = "smux" => pc'[g] \in {"check", "close", "put"}
          /\ prof[g].kind = "quic" => pc'[g] \in {"check", "close", "qdial"}
      BY <1>18 DEF CloseOld, Panic, Built
    <2>4. pc[g] \in {"check", "close"} /\ (pc'[g] = "check" => pc[g] = "check")
      BY <1>18 DEF CloseOld, Panic, Built
    <2>6. ASSUME NEW h \in Goroutine
          PROVE  /\ fresh'[h] \in 0..made'
                 /\ fresh'[h] # Nil => pc'[h] \in {"check", "close", "put", "put2"}
                 /\ pc'[h] \in {"check", "close"} /\ prof'[h].kind = "quic" => fresh'[h] = Nil
      <3>1. CASE h # g
        BY <2>2, <3>1
      <3>2. CASE h = g
        BY <2>1, <2>2, <2>3, <2>4, <3>2
      <3> QED
        BY <3>1, <3>2
    <2> QED
      BY <2>2, <2>6
  <1>19. ASSUME NEW g \in Goroutine, PutNil(g) PROVE FreshInv'
    BY <1>19 DEF PutNil
  <1>20. ASSUME NEW g \in Goroutine, PutFresh(g) PROVE FreshInv'
    <2>1. PICK ok \in BOOLEAN : Return(g, ok)
      BY <1>20 DEF PutFresh
    <2>2. made' = made /\ \A i \in Index : slot'[i] = slot[i] \/ slot'[i] = fresh[g]
      BY <1>20 DEF PutFresh
    <2> QED
      BY <1>20, <2>1, <2>2, ReturnFresh DEF PutFresh
  <1>21. ASSUME NEW o \in Other, Build(o) PROVE FreshInv'
    BY <1>21 DEF Build
  <1>22. ASSUME NEW o \in Other, Report(o) PROVE FreshInv'
    BY <1>22 DEF Report
  <1>23. ASSUME NEW o \in Other, SetAddr(o) PROVE FreshInv'
    BY <1>23 DEF SetAddr
  <1>24. ASSUME NEW o \in Other, Sweep(o) PROVE FreshInv'
    BY <1>24, LoopFacts DEF Sweep
  <1>25. ASSUME NEW o \in Other, SweepStore(o) PROVE FreshInv'
    BY <1>25, LoopFacts DEF SweepStore
  <1>26. ASSUME NEW o \in Other, LockAll(o) PROVE FreshInv'
    BY <1>26 DEF LockAll
  <1>27. ASSUME NEW o \in Other, Wipe(o) PROVE FreshInv'
    BY <1>27, LoopFacts DEF Wipe, NextWipe
  <1>28. ASSUME NEW o \in Other, WipeClose(o) PROVE FreshInv'
    BY <1>28 DEF WipeClose, Panic
  <1>29. ASSUME NEW o \in Other, WipeStore(o) PROVE FreshInv'
    BY <1>29, LoopFacts DEF WipeStore, NextWipe
  <1>30. ASSUME NEW o \in Other, Reinit(o) PROVE FreshInv'
    BY <1>30 DEF Reinit
  <1>31. ASSUME NEW s \in Session, Break(s) PROVE FreshInv'
    BY <1>31 DEF Break
  <1>32. ASSUME NEW s \in Session, Notice(s) PROVE FreshInv'
    BY <1>32 DEF Notice
  <1>33. QED
    BY <1>1, <1>2, <1>3, <1>4, <1>5, <1>6, <1>7, <1>8, <1>9, <1>10, <1>11, <1>12, <1>13,
       <1>14, <1>15, <1>16, <1>17, <1>18, <1>19, <1>20, <1>21, <1>22, <1>23, <1>24,
       <1>25, <1>26, <1>27, <1>28, <1>29, <1>30, <1>31, <1>32
    DEF Step, RequestStep, RebuildStep, ClearStep

-----------------------------------------------------------------------------
(* What is known of the sessions in the list.                              *)

\* A session nobody revives: smux' IsClosed can be taken back, quic's
\* connection can be redialled.
Over(s) == IF about[s].kind = "smux" THEN s \in gone ELSE s \in closed

Kept(s) ==
    \/ Over(s)
    \/ \E i \in Index : slot[i] = s
    \/ \E g \in Goroutine : fresh[g] = s

\* What a goroutine that replaces an entry knows of it.
Place(g) ==
    /\ pc[g] \in {"qdial", "put", "sweepstore", "wipestore"} =>
         slot[no[g]] = Nil \/ Over(slot[no[g]])
    /\ pc[g] = "put2" => slot[no[g]] = Nil
    /\ pc[g] \in {"close", "wipeclose"} => slot[no[g]] # Nil

HeldInv ==
    ~overlapped => (\A s \in 1..made : Kept(s)) /\ \A g \in Goroutine : Place(g)

OverStays == \A s \in 1..made : Over(s) => Over(s)'

\* What was made before keeps what it is about.
LEMMA MadeAbout ==
  ASSUME TypeOK, NEW g \in Goroutine, Make(g)
  PROVE  \A s \in 1..made : about'[s] = about[s]
  <1>1. made \in 0..MaxSession /\ about' = [about EXCEPT ![made + 1] = prof[g]]
        /\ about \in [Session -> Profile]
    BY DEF TypeOK, Make
  <1> QED
    BY <1>1, ConstantFacts DEF Session

\* What is over stays over.
LEMMA OverStep ==
  ASSUME Shape, Step PROVE OverStays
  <1> USE DEF list, session, local, Shape, TypeOK, OverStays, Over
  <1>1. ASSUME NEW r \in Request, NEW from \in {"idle", "retry"}, Bump(r, from) PROVE OverStays
    BY <1>1 DEF Bump
  <1>2. ASSUME NEW r \in Request, WrapAround(r) PROVE OverStays
    BY <1>2 DEF WrapAround
  <1>3. ASSUME NEW r \in Request, Peek(r) PROVE OverStays
    BY <1>3 DEF Peek, Panic
  <1>4. ASSUME NEW r \in Request, Argument(r) PROVE OverStays
    BY <1>4 DEF Argument
  <1>5. ASSUME NEW r \in Request, Reread(r) PROVE OverStays
    BY <1>5 DEF Reread, Panic
  <1>6. ASSUME NEW r \in Request, RereadErr(r) PROVE OverStays
    BY <1>6 DEF RereadErr, Panic
  <1>7. ASSUME NEW r \in Request, TestClosed(r) PROVE OverStays
    BY <1>7 DEF TestClosed
  <1>8. ASSUME NEW r \in Request, NewConnnect(r) PROVE OverStays
    BY <1>8 DEF NewConnnect
  <1>9. ASSUME NEW r \in Request, OpenStream(r) PROVE OverStays
    BY <1>9 DEF OpenStream, Connected
  <1>10. ASSUME NEW r \in Request, Reclient(r) PROVE OverStays
    BY <1>10 DEF Reclient
  <1>11. ASSUME NEW r \in Request, Reopen(r) PROVE OverStays
    BY <1>11 DEF Reopen, Panic
  <1>12. ASSUME NEW r \in Request, Redial(r) PROVE OverStays
    BY <1>12 DEF Redial
  <1>13. ASSUME NEW g \in Goroutine, GetProfile(g) PROVE OverStays
    BY <1>13 DEF GetProfile
  <1>14. ASSUME NEW g \in Goroutine, GetNothing(g) PROVE OverStays
    BY <1>14 DEF GetNothing
  <1>15. ASSUME NEW g \in Goroutine, PutBack(g) PROVE OverStays
    <2>1. CASE Make(g)
      <3>1. \A s \in 1..made : about'[s] = about[s]
        BY <2>1, MadeAbout
      <3>2. closed' = closed /\ gone' = gone
        BY <1>15 DEF PutBack
      <3> QED
        BY <3>1, <3>2, Zenon
    <2>2. CASE about' = about
      BY <1>15, <2>2 DEF PutBack
    <2> QED
      BY <1>15, <2>1, <2>2 DEF PutBack
  <1>16. ASSUME NEW g \in Goroutine, QuicDial(g) PROVE OverStays
    <2>1. CASE Make(g)
      <3>1. \A s \in 1..made : about'[s] = about[s]
        BY <2>1, MadeAbout
      <3>2. closed' = closed /\ gone' = gone
        BY <1>16 DEF QuicDial
      <3> QED
        BY <3>1, <3>2, Zenon
    <2>2. CASE about' = about
      BY <1>16, <2>2 DEF QuicDial
    <2> QED
      BY <1>16, <2>1, <2>2 DEF QuicDial
  <1>17. ASSUME NEW g \in Goroutine, Check(g) PROVE OverStays
    BY <1>17 DEF Check, Panic, Built
  <1>18. ASSUME NEW g \in Goroutine, CloseOld(g) PROVE OverStays
    BY <1>18 DEF CloseOld, Panic, Built, CloseSession
  <1>19. ASSUME NEW g \in Goroutine, PutNil(g) PROVE OverStays
    BY <1>19 DEF PutNil
  <1>20. ASSUME NEW g \in Goroutine, PutFresh(g) PROVE OverStays
    BY <1>20 DEF PutFresh
  <1>21. ASSUME NEW o \in Other, Build(o) PROVE OverStays
    BY <1>21 DEF Build
  <1>22. ASSUME NEW o \in Other, Report(o) PROVE OverStays
    BY <1>22 DEF Report
  <1>23. ASSUME NEW o \in Other, SetAddr(o) PROVE OverStays
    BY <1>23 DEF SetAddr
  <1>24. ASSUME NEW o \in Other, Sweep(o) PROVE OverStays
    BY <1>24 DEF Sweep, CloseSession
  <1>25. ASSUME NEW o \in Other, SweepStore(o) PROVE OverStays
    BY <1>25 DEF SweepStore
  <1>26. ASSUME NEW o \in Other, LockAll(o) PROVE OverStays
    BY <1>26 DEF LockAll
  <1>27. ASSUME NEW o \in Other, Wipe(o) PROVE OverStays
    BY <1>27 DEF Wipe, NextWipe
  <1>28. ASSUME NEW o \in Other, WipeClose(o) PROVE OverStays
    BY <1>28 DEF WipeClose, Panic, CloseSession
  <1>29. ASSUME NEW o \in Other, WipeStore(o) PROVE OverStays
    BY <1>29 DEF WipeStore, NextWipe
  <1>30. ASSUME NEW o \in Other, Reinit(o) PROVE OverStays
    BY <1>30 DEF Reinit
  <1>31. ASSUME NEW s \in Session, Break(s) PROVE OverStays
    BY <1>31 DEF Break
  <1>32. ASSUME NEW s \in Session, Notice(s) PROVE OverStays
    BY <1>32 DEF Notice
  <1>33. QED
    BY <1>1, <1>2, <1>3, <1>4, <1>5, <1>6, <1>7, <1>8, <1>9, <1>10, <1>11, <1>12, <1>13,
       <1>14, <1>15, <1>16, <1>17, <1>18, <1>19, <1>20, <1>21, <1>22, <1>23, <1>24,
       <1>25, <1>26, <1>27, <1>28, <1>29, <1>30, <1>31, <1>32
    DEF Step, RequestStep, RebuildStep, ClearStep

\* Two goroutines that replace entries replace different ones.
LEMMA Alone ==
  ASSUME Latched, ~overlapped, NEW g \in Goroutine, NEW h \in Goroutine, g # h,
         pc[g] \in Replacing, pc[h] \in Replacing
  PROVE  no[g] # no[h]
  BY DEF Latched, Overlap

\* What others know of their entries stays true.
LEMMA PlaceStays ==
  ASSUME Shape, FreshInv, OverStays, NEW h \in Goroutine, Place(h),
         pc'[h] = pc[h], no'[h] = no[h],
         pc[h] \in Replacing => slot'[no[h]] = slot[no[h]]
  PROVE  Place(h)'
  <1>1. CASE pc[h] \in Replacing
    <2>1. slot[no[h]] \in 0..made
      BY <1>1 DEF Shape, LocalsSet, FreshInv
    <2>2. slot[no[h]] = Nil \/ slot[no[h]] \in 1..made
      BY <2>1 DEF Nil, Shape, TypeOK
    <2> QED
      BY <1>1, <2>2 DEF Place, OverStays
  <1>2. CASE pc[h] \notin Replacing
    BY <1>2 DEF Place, Replacing
  <1> QED
    BY <1>1, <1>2

\* A step that leaves the list and the sessions that are not listed alone.
LEMMA HeldMove ==
  ASSUME Shape, FreshInv, OverStays, HeldInv, NEW g \in Goroutine,
         overlapped => overlapped', slot' = slot, made' = made, fresh' = fresh,
         \A h \in Goroutine \ {g} : pc'[h] = pc[h] /\ no'[h] = no[h],
         overlapped' \/ Place(g)'
  PROVE  HeldInv'
  <1> SUFFICES ASSUME ~overlapped'
               PROVE  (\A s \in 1..made : Kept(s)') /\ \A h \in Goroutine : Place(h)'
    BY DEF HeldInv
  <1>1. \A s \in 1..made : Kept(s)'
    BY DEF HeldInv, Kept, OverStays
  <1>2. \A h \in Goroutine \ {g} : Place(h)'
    BY PlaceStays DEF HeldInv
  <1> QED
    BY <1>1, <1>2

\* A session that was just made is a fresh one.
LEMMA HeldMake ==
  ASSUME Shape, FreshInv, OverStays, HeldInv, NEW g \in Goroutine,
         overlapped => overlapped', slot' = slot, Make(g), no' = no, fresh[g] = Nil,
         \A h \in Goroutine \ {g} : pc'[h] = pc[h],
         overlapped' \/ Place(g)'
  PROVE  HeldInv'
  <1> SUFFICES ASSUME ~overlapped'
               PROVE  (\A s \in 1..made : Kept(s))' /\ \A h \in Goroutine : Place(h)'
    BY DEF HeldInv
  <1> USE DEF Shape, TypeOK
  <1>1. /\ made' = made + 1 /\ fresh'[g] = made + 1
        /\ \A h \in Goroutine \ {g} : fresh'[h] = fresh[h]
    BY MakeFacts
  <1>2. \A s \in 1..made : Kept(s)'
    <2> SUFFICES ASSUME NEW s \in 1..made PROVE Kept(s)'
      OBVIOUS
    <2>1. Kept(s) /\ s # Nil
      BY DEF HeldInv, Nil
    <2>2. CASE Over(s)
      BY <2>2 DEF Kept, OverStays
    <2>3. CASE \E i \in Index : slot[i] = s
      BY <2>3 DEF Kept
    <2>4. CASE \E h \in Goroutine : fresh[h] = s
      BY <1>1, <2>1, <2>4 DEF Kept
    <2> QED
      BY <2>1, <2>2, <2>3, <2>4 DEF Kept
  <1>3. ASSUME NEW s, s = made + 1 PROVE Kept(s)'
    BY <1>1, <1>3 DEF Kept
  <1>4. \A s \in 1..made' : s \in 1..made \/ s = made + 1
    BY <1>1
  <1>5. \A h \in Goroutine \ {g} : Place(h)'
    BY PlaceStays DEF HeldInv
  <1> QED
    BY <1>2, <1>3, <1>4, <1>5

\* Only a session that is over is dropped from the list.
LEMMA HeldStore ==
  ASSUME Shape, FreshInv, Latched, OverStays, HeldInv,
         NEW g \in Goroutine, NEW s \in {Nil, fresh[g]},
         overlapped => overlapped', slot' = [slot EXCEPT ![no[g]] = s], made' = made,
         pc[g] \in {"put", "put2", "sweepstore", "wipestore"},
         \A h \in Goroutine \ {g} : pc'[h] = pc[h] /\ no'[h] = no[h] /\ fresh'[h] = fresh[h],
         fresh'[g] \in {Nil, fresh[g]}, fresh'[g] = Nil => s = fresh[g],
         overlapped' \/ Place(g)'
  PROVE  HeldInv'
  <1> SUFFICES ASSUME ~overlapped'
               PROVE  (\A t \in 1..made : Kept(t))' /\ \A h \in Goroutine : Place(h)'
    BY DEF HeldInv
  <1> USE DEF Shape, TypeOK
  <1>1. ~overlapped
    OBVIOUS
  <1>2. no[g] \in Index
    BY DEF LocalsSet, Replacing
  <1>3. slot[no[g]] = Nil \/ Over(slot[no[g]])
    BY <1>1 DEF HeldInv, Place
  <1>4. \A t \in 1..made : Kept(t)'
    <2> SUFFICES ASSUME NEW t \in 1..made PROVE Kept(t)'
      OBVIOUS
    <2>1. Kept(t) /\ t # Nil
      BY <1>1 DEF HeldInv, Nil
    <2>2. CASE Over(t)
      BY <2>2 DEF Kept, OverStays
    <2>3. CASE \E i \in Index : slot[i] = t
      <3>1. PICK i \in Index : slot[i] = t
        BY <2>3
      <3>2. CASE i = no[g]
        BY <1>3, <2>1, <2>2, <3>1, <3>2
      <3>3. CASE i # no[g]
        BY <3>1, <3>3 DEF Kept
      <3> QED
        BY <3>2, <3>3
    <2>4. CASE \E h \in Goroutine : fresh[h] = t
      <3>1. PICK h \in Goroutine : fresh[h] = t
        BY <2>4
      <3>2. CASE fresh'[h] = t
        BY <3>2 DEF Kept
      <3>3. CASE fresh'[h] # t
        <4>1. h = g /\ fresh'[g] = Nil
          BY <3>1, <3>3
        <4>2. slot'[no[g]] = t
          BY <1>2, <3>1, <4>1
        <4> QED
          BY <1>2, <4>2 DEF Kept
      <3> QED
        BY <3>2, <3>3
    <2> QED
      BY <2>1, <2>2, <2>3, <2>4 DEF Kept
  <1>5. ASSUME NEW h \in Goroutine \ {g} PROVE Place(h)'
    <2>1. pc[h] \in Replacing => slot'[no[h]] = slot[no[h]]
      <3>1. pc[h] \in Replacing => no[h] # no[g]
        BY <1>1, Alone DEF Replacing
      <3> QED
        BY <3>1
    <2>2. Place(h)
      BY <1>1 DEF HeldInv
    <2> QED
      BY <2>1, <2>2, PlaceStays
  <1> QED
    BY <1>4, <1>5

\* Each step keeps what is known of the sessions in the list.
LEMMA HeldStep ==
  ASSUME Shape, FreshInv, Latched, HeldInv, Next PROVE HeldInv'
  <1>0. Step /\ OverStays /\ (overlapped => overlapped')
    BY OverStep DEF Next
  <1> USE <1>0, ConstantFacts DEF list, session, local, rebuild, Goto, Shape, TypeOK
  <1>1. ASSUME NEW r \in Request, NEW from \in {"idle", "retry"}, Bump(r, from) PROVE HeldInv'
    BY <1>1, HeldMove DEF Bump, Place
  <1>2. ASSUME NEW r \in Request, WrapAround(r) PROVE HeldInv'
    BY <1>2, HeldMove DEF WrapAround, Place
  <1>3. ASSUME NEW r \in Request, Peek(r) PROVE HeldInv'
    BY <1>3, HeldMove DEF Peek, Panic, Place
  <1>4. ASSUME NEW r \in Request, Argument(r) PROVE HeldInv'
    BY <1>4, HeldMove DEF Argument, Place
  <1>5. ASSUME NEW r \in Request, Reread(r) PROVE HeldInv'
    BY <1>5, HeldMove, FailFacts DEF Reread, Panic, Place
  <1>6. ASSUME NEW r \in Request, RereadErr(r) PROVE HeldInv'
    BY <1>6, HeldMove, FailFacts DEF RereadErr, Panic, Place
  <1>7. ASSUME NEW r \in Request, TestClosed(r) PROVE HeldInv'
    BY <1>7, HeldMove DEF TestClosed, Place
  <1>8. ASSUME NEW r \in Request, NewConnnect(r) PROVE HeldInv'
    BY <1>8, HeldMove, FailFacts DEF NewConnnect, Place
  <1>9. ASSUME NEW r \in Request, OpenStream(r) PROVE HeldInv'
    BY <1>9, HeldMove DEF OpenStream, Connected, Place
  <1>10. ASSUME NEW r \in Request, Reclient(r) PROVE HeldInv'
    BY <1>10, HeldMove DEF Reclient, Place
  <1>11. ASSUME NEW r \in Request, Reopen(r) PROVE HeldInv'
    BY <1>11, HeldMove, FailFacts DEF Reopen, Panic, Place
  <1>12. ASSUME NEW r \in Request, Redial(r) PROVE HeldInv'
    <2>1. /\ pc' = [pc EXCEPT ![r] = pc'[r]]
          /\ pc'[r] \in {"connected", "retry", "failed"}
      BY <1>12, FailFacts DEF Redial, Connected
    <2>2. UNCHANGED <<slot, made, fresh, no>>
      BY <1>12 DEF Redial
    <2>3. Place(r)'
      BY <2>1 DEF Place
    <2> QED
      BY <2>1, <2>2, <2>3, HeldMove
  <1>13. ASSUME NEW g \in Goroutine, GetProfile(g) PROVE HeldInv'
    BY <1>13, HeldMove DEF GetProfile, Place
  <1>14. ASSUME NEW g \in Goroutine, GetNothing(g) PROVE HeldInv'
    <2>1. PICK ok \in BOOLEAN : Return(g, ok)
      BY <1>14 DEF GetNothing
    <2>2. fresh' = fresh
      BY <1>14, <2>1, ReturnFacts DEF FreshInv, GetNothing
    <2>3. Place(g)'
      BY <2>1, ReturnFacts DEF Place
    <2>4. \A h \in Goroutine \ {g} : pc'[h] = pc[h] /\ no'[h] = no[h]
      BY <2>1, ReturnFacts
    <2> QED
      BY <1>14, <2>2, <2>3, <2>4, HeldMove DEF GetNothing
  <1>15. ASSUME NEW g \in Goroutine, PutBack(g) PROVE HeldInv'
    <2>1. fresh[g] = Nil /\ slot' = slot
      BY <1>15 DEF FreshInv, PutBack
    <2>2. CASE Make(g) /\ Goto(g, "check") /\ no' = no
      <3>1. Place(g)'
        BY <2>2 DEF Place
      <3>2. \A h \in Goroutine \ {g} : pc'[h] = pc[h]
        BY <2>2
      <3> QED
        BY <2>1, <2>2, <3>1, <3>2, HeldMake
    <2>3. CASE Return(g, FALSE) /\ made' = made
      <3>1. PICK ok \in BOOLEAN : Return(g, ok)
        BY <2>3
      <3>2. fresh' = fresh /\ Place(g)'
        BY <2>1, <3>1, ReturnFacts DEF Place
      <3>3. \A h \in Goroutine \ {g} : pc'[h] = pc[h] /\ no'[h] = no[h]
        BY <3>1, ReturnFacts
      <3> QED
        BY <2>1, <2>3, <3>2, <3>3, HeldMove
    <2>4. CASE Goto(g, "check") /\ UNCHANGED <<made, local>>
      <3>1. Place(g)' /\ \A h \in Goroutine \ {g} : pc'[h] = pc[h] /\ no'[h] = no[h]
        BY <2>4 DEF Place
      <3> QED
        BY <2>1, <2>4, <3>1, HeldMove
    <2> QED
      BY <1>15, <2>2, <2>3, <2>4 DEF PutBack
  <1>16. ASSUME NEW g \in Goroutine, QuicDial(g) PROVE HeldInv'
    <2>1. fresh[g] = Nil /\ slot' = slot
      BY <1>16 DEF FreshInv, QuicDial
    <2>2. CASE Make(g) /\ Goto(g, "put") /\ no' = no
      <3>1. \A h \in Goroutine \ {g} : pc'[h] = pc[h]
        BY <2>2
      <3>2. ASSUME ~overlapped' PROVE Place(g)'
        <4>1. slot[no[g]] = Nil \/ Over(slot[no[g]])
          BY <1>16, <3>2 DEF HeldInv, Place, QuicDial
        <4>2. slot[no[g]] = Nil \/ slot[no[g]] \in 1..made
          BY <1>16 DEF LocalsSet, Replacing, QuicDial, FreshInv, Nil
        <4>3. slot'[no'[g]] = Nil \/ Over(slot[no[g]])'
          BY <2>1, <2>2, <4>1, <4>2 DEF OverStays
        <4> QED
          BY <2>1, <2>2, <4>3 DEF Place
      <3> QED
        BY <2>1, <2>2, <3>1, <3>2, HeldMake
    <2>3. CASE Return(g, FALSE) /\ made' = made
      <3>1. PICK ok \in BOOLEAN : Return(g, ok)
        BY <2>3
      <3>2. fresh' = fresh /\ Place(g)'
        BY <2>1, <3>1, ReturnFacts DEF Place
      <3>3. \A h \in Goroutine \ {g} : pc'[h] = pc[h] /\ no'[h] = no[h]
        BY <3>1, ReturnFacts
      <3> QED
        BY <2>1, <2>3, <3>2, <3>3, HeldMove
    <2> QED
      BY <1>16, <2>2, <2>3 DEF QuicDial
  <1>17. ASSUME NEW g \in Goroutine, Check(g) PROVE HeldInv'
    <2>1. \A h \in Goroutine \ {g} : pc'[h] = pc[h] /\ no'[h] = no[h]
      BY <1>17 DEF Check, Panic
    <2>2. slot' = slot /\ made' = made /\ fresh' = fresh
      BY <1>17 DEF Check
    <2>3. Place(g)'
      BY <1>17 DEF Check, Panic, Built, Place
    <2> QED
      BY <2>1, <2>2, <2>3, HeldMove
  <1>18. ASSUME NEW g \in Goroutine, CloseOld(g) PROVE HeldInv'
    <2>1. \A h \in Goroutine \ {g} : pc'[h] = pc[h] /\ no'[h] = no[h]
      BY <1>18, LoopFacts DEF CloseOld, Panic
    <2>2. slot' = slot /\ made' = made /\ fresh' = fresh
      BY <1>18 DEF CloseOld
    <2>3. ASSUME ~overlapped' PROVE Place(g)'
      <3>1. CASE slot[no[g]] = Nil
        BY <1>18, <2>3, <3>1, LoopFacts DEF CloseOld, Panic, Place, HeldInv
      <3>2. CASE slot[no[g]] # Nil
        <4>1. Over(slot[no[g]])' /\ no' = no
          BY <1>18, <3>2 DEF CloseOld, CloseSession, Over
        <4> QED
          BY <1>18, <2>2, <3>2, <4>1 DEF CloseOld, Place, Built
      <3> QED
        BY <3>1, <3>2
    <2> QED
      BY <2>1, <2>2, <2>3, HeldMove
  <1>19. ASSUME NEW g \in Goroutine, PutNil(g) PROVE HeldInv'
    <2>1. Place(g)'
      <3>1. no[g] \in Index
        BY <1>19 DEF LocalsSet, Replacing, PutNil
      <3> QED
        BY <1>19, <3>1 DEF Place, PutNil
    <2>2. \A h \in Goroutine \ {g} : pc'[h] = pc[h] /\ no'[h] = no[h] /\ fresh'[h] = fresh[h]
      BY <1>19 DEF PutNil
    <2>3. fresh'[g] = fresh[g] /\ made' = made /\ Nil \in {Nil, fresh[g]} /\ pc[g] = "put"
          /\ slot' = [slot EXCEPT ![no[g]] = Nil]
      BY <1>19 DEF PutNil
    <2> QED
      BY <2>1, <2>2, <2>3, HeldStore
  <1>20. ASSUME NEW g \in Goroutine, PutFresh(g) PROVE HeldInv'
    <2>1. PICK ok \in BOOLEAN : Return(g, ok)
      BY <1>20 DEF PutFresh
    <2>2. Place(g)'
      BY <2>1, ReturnFacts DEF Place
    <2>3. \A h \in Goroutine \ {g} : pc'[h] = pc[h] /\ no'[h] = no[h] /\ fresh'[h] = fresh[h]
      BY <2>1, ReturnFacts
    <2>4. fresh'[g] = Nil /\ made' = made /\ fresh[g] \in {Nil, fresh[g]} /\ pc[g] = "put2"
          /\ slot' = [slot EXCEPT ![no[g]] = fresh[g]]
      BY <1>20, <2>1, ReturnFacts DEF PutFresh
    <2> QED
      BY <2>2, <2>3, <2>4, HeldStore
  <1>21. ASSUME NEW o \in Other, Build(o) PROVE HeldInv'
    BY <1>21, HeldMove DEF Build, Place
  <1>22. ASSUME NEW o \in Other, Report(o) PROVE HeldInv'
    BY <1>22, HeldMove DEF Report, Place
  <1>23. ASSUME NEW o \in Other, SetAddr(o) PROVE HeldInv'
    BY <1>23, HeldMove DEF SetAddr, Place
  <1>24. ASSUME NEW o \in Other, Sweep(o) PROVE HeldInv'
    <2>1. \A h \in Goroutine \ {o} : pc'[h] = pc[h] /\ no'[h] = no[h]
      BY <1>24, LoopFacts DEF Sweep, Panic
    <2>2. slot' = slot /\ made' = made /\ fresh' = fresh
      BY <1>24 DEF Sweep
    <2>3. ASSUME ~overlapped' PROVE Place(o)'
      <3>1. CASE slot[no[o]] = Nil
        BY <1>24, <2>3, <3>1, LoopFacts DEF Sweep, Panic, Place, HeldInv
      <3>2. CASE slot[no[o]] # Nil
        <4>1. Over(slot[no[o]])' /\ no' = no
          BY <1>24, <3>2 DEF Sweep, CloseSession, Over
        <4> QED
          BY <1>24, <2>2, <3>2, <4>1 DEF Sweep, Place, Built
      <3> QED
        BY <3>1, <3>2
    <2> QED
      BY <2>1, <2>2, <2>3, HeldMove
  <1>25. ASSUME NEW o \in Other, SweepStore(o) PROVE HeldInv'
    <2>1. NextIndex(o, "sweep", "done")
      BY <1>25 DEF SweepStore
    <2>2. Place(o)' /\ \A h \in Goroutine \ {o} : pc'[h] = pc[h] /\ no'[h] = no[h]
      BY <2>1, LoopFacts DEF Place
    <2>3. fresh' = fresh /\ made' = made /\ Nil \in {Nil, fresh[o]} /\ pc[o] \in {"sweepstore", "wipestore"}
          /\ slot' = [slot EXCEPT ![no[o]] = Nil]
      BY <1>25 DEF SweepStore
    <2> QED
      BY <2>2, <2>3, HeldStore
  <1>26. ASSUME NEW o \in Other, LockAll(o) PROVE HeldInv'
    BY <1>26, HeldMove DEF LockAll, Place
  <1>27. ASSUME NEW o \in Other, Wipe(o) PROVE HeldInv'
    BY <1>27, HeldMove, LoopFacts DEF Wipe, NextWipe, Place
  <1>28. ASSUME NEW o \in Other, WipeClose(o) PROVE HeldInv'
    <2>1. \A h \in Goroutine \ {o} : pc'[h] = pc[h] /\ no'[h] = no[h]
      BY <1>28, LoopFacts DEF WipeClose, Panic
    <2>2. slot' = slot /\ made' = made /\ fresh' = fresh
      BY <1>28 DEF WipeClose
    <2>3. ASSUME ~overlapped' PROVE Place(o)'
      <3>1. CASE slot[no[o]] = Nil
        BY <1>28, <2>3, <3>1, LoopFacts DEF WipeClose, Panic, Place, HeldInv
      <3>2. CASE slot[no[o]] # Nil
        <4>1. Over(slot[no[o]])' /\ no' = no
          BY <1>28, <3>2 DEF WipeClose, CloseSession, Over
        <4> QED
          BY <1>28, <2>2, <3>2, <4>1 DEF WipeClose, Place, Built
      <3> QED
        BY <3>1, <3>2
    <2> QED
      BY <2>1, <2>2, <2>3, HeldMove
  <1>29. ASSUME NEW o \in Other, WipeStore(o) PROVE HeldInv'
    <2>1. NextIndex(o, "wipe", "init")
      BY <1>29 DEF WipeStore, NextWipe
    <2>2. Place(o)' /\ \A h \in Goroutine \ {o} : pc'[h] = pc[h] /\ no'[h] = no[h]
      BY <2>1, LoopFacts DEF Place
    <2>3. fresh' = fresh /\ made' = made /\ Nil \in {Nil, fresh[o]} /\ pc[o] \in {"sweepstore", "wipestore"}
          /\ slot' = [slot EXCEPT ![no[o]] = Nil]
      BY <1>29 DEF WipeStore
    <2> QED
      BY <2>2, <2>3, HeldStore
  <1>30. ASSUME NEW o \in Other, Reinit(o) PROVE HeldInv'
    BY <1>30, HeldMove DEF Reinit, Place
  <1>31. ASSUME NEW s \in Session, Break(s) PROVE HeldInv'
    <2>1. UNCHANGED <<slot, made, fresh, pc, no>>
      BY <1>31 DEF Break
    <2>2. \A g \in Goroutine : pc[g] \in Replacing => slot[no[g]] \in 0..made
      BY DEF LocalsSet, FreshInv
    <2>3. \A t \in 1..made : Kept(t) => Kept(t)'
      BY <2>1 DEF Kept, OverStays
    <2>4. \A g \in Goroutine : Place(g) => Place(g)'
      BY <2>1, PlaceStays
    <2> QED
      BY <2>1, <2>3, <2>4 DEF HeldInv
  <1>32. ASSUME NEW s \in Session, Notice(s) PROVE HeldInv'
    <2>1. UNCHANGED <<slot, made, fresh, pc, no>>
      BY <1>32 DEF Notice
    <2>2. \A g \in Goroutine : pc[g] \in Replacing => slot[no[g]] \in 0..made
      BY DEF LocalsSet, FreshInv
    <2>3. \A t \in 1..made : Kept(t) => Kept(t)'
      BY <2>1 DEF Kept, OverStays
    <2>4. \A g \in Goroutine : Place(g) => Place(g)'
      BY <2>1, PlaceStays
    <2> QED
      BY <2>1, <2>3, <2>4 DEF HeldInv
  <1>33. QED
    BY <1>1, <1>2, <1>3, <1>4, <1>5, <1>6, <1>7, <1>8, <1>9, <1>10, <1>11, <1>12, <1>13,
       <1>14, <1>15, <1>16, <1>17, <1>18, <1>19, <1>20, <1>21, <1>22, <1>23, <1>24,
       <1>25, <1>26, <1>27, <1>28, <1>29, <1>30, <1>31, <1>32
    DEF Step, RequestStep, RebuildStep, ClearStep

-----------------------------------------------------------------------------
(* What becomes of a session.                                              *)

\* Only sessions that were made close, die or are met, and of smux only dead
\* ones are closed.
Dying ==
    /\ closed \subseteq 1..made /\ gone \subseteq 1..made
    /\ \A s \in closed : about[s].kind = "smux" => s \in gone

MetMade == \A r \in Request : met[r] \subseteq 1..made

\* A session is in one place only: an entry, or the hands of who built it.
Distinct ==
    /\ \A i, j \in Index : slot[i] = slot[j] /\ slot[i] # Nil => i = j
    /\ \A g, h \in Goroutine : fresh[g] = fresh[h] /\ fresh[g] # Nil => g = h
    /\ \A i \in Index, g \in Goroutine : slot[i] = fresh[g] => slot[i] = Nil

\* smux is made anew on a dead connection, which stays dead.
ReopenInv ==
    \A r \in Request :
      pc[r] = "reopen" => e[r] \in gone /\ about[e[r]].kind = "smux"

\* What a step may do to the sessions.
ClosesEntry(g) ==
    /\ pc[g] \in Replacing \cup {"sweep", "wipe"} /\ slot[no[g]] # Nil
    /\ CloseSession(slot[no[g]]) /\ UNCHANGED <<made, about>>
SessionsMove ==
    \/ UNCHANGED session
    \/ \E r \in Request : Reclient(r) \/ Redial(r)
    \/ \E g \in Goroutine : Make(g) /\ UNCHANGED <<closed, gone>>
    \/ \E g \in Goroutine : ClosesEntry(g)
    \/ \E s \in Session : Break(s) \/ Notice(s)

\* What a step may do to the entries and the sessions that wait for one.
ListMoves ==
    \/ slot' = slot /\ \A h \in Goroutine : fresh'[h] \in {Nil, fresh[h]}
    \/ fresh' = fresh /\ \E i : slot' = [slot EXCEPT ![i] = Nil]
    \/ slot' = slot /\ \E g \in Goroutine : Make(g)
    \/ \E g \in Goroutine : /\ slot' = [slot EXCEPT ![no[g]] = fresh[g]]
                            /\ fresh' = [fresh EXCEPT ![g] = Nil]

\* Only Reclient leads to the label "reopen".
Reopened ==
    \A r \in Request :
      pc'[r] = "reopen" => Reclient(r) \/ (pc[r] = "reopen" /\ e'[r] = e[r])

\* There is nothing else.
LEMMA SessionsStep ==
  ASSUME Step PROVE SessionsMove
  <1>1. ASSUME NEW r \in Request, Bump(r, "idle") \/ RequestStep(r) PROVE SessionsMove
    BY <1>1 DEF SessionsMove, session, RequestStep, Bump, WrapAround, Peek, Argument, Reread,
                RereadErr, TestClosed, NewConnnect, OpenStream, Reopen
  <1>2. ASSUME NEW g \in Goroutine, RebuildStep(g) PROVE SessionsMove
    <2>1. CASE CloseOld(g)
      BY <2>1 DEF SessionsMove, ClosesEntry, CloseOld, session, Replacing
    <2>2. CASE PutBack(g) \/ QuicDial(g)
      BY <2>2 DEF SessionsMove, PutBack, QuicDial, session
    <2>3. CASE GetProfile(g) \/ GetNothing(g) \/ Check(g) \/ PutNil(g) \/ PutFresh(g)
      BY <2>3 DEF SessionsMove, GetProfile, GetNothing, Check, PutNil, PutFresh
    <2> QED
      BY <1>2, <2>1, <2>2, <2>3 DEF RebuildStep
  <1>3. ASSUME NEW o \in Other, Build(o) \/ Report(o) \/ SetAddr(o) PROVE SessionsMove
    BY <1>3 DEF SessionsMove, Build, Report, SetAddr
  <1>4. ASSUME NEW o \in Other, ClearStep(o) PROVE SessionsMove
    <2>1. CASE Sweep(o) \/ WipeClose(o)
      BY <2>1, ConstantFacts DEF SessionsMove, ClosesEntry, Sweep, WipeClose, session, Replacing
    <2>2. CASE SweepStore(o) \/ LockAll(o) \/ Wipe(o) \/ WipeStore(o) \/ Reinit(o)
      BY <2>2 DEF SessionsMove, SweepStore, LockAll, Wipe, WipeStore, Reinit
    <2> QED
      BY <1>4, <2>1, <2>2 DEF ClearStep
  <1> QED
    BY <1>1, <1>2, <1>3, <1>4 DEF Step, SessionsMove

\* Each step keeps what is known of closed and dead sessions.
LEMMA DyingStep ==
  ASSUME Shape, FreshInv, Dying, Step
  PROVE  /\ Dying' /\ made \in Nat /\ made' \in Nat /\ made <= made'
         /\ \A s \in 1..made : about'[s] = about[s]
         /\ \A s \in gone : about[s].kind = "smux" => s \in gone'
  <1>0. made \in Nat /\ SessionsMove /\ closed \subseteq Session /\ gone \subseteq Session
    BY SessionsStep DEF Shape, TypeOK
  <1>1. CASE UNCHANGED session
    BY <1>0, <1>1 DEF session, Dying
  <1>2. ASSUME NEW r \in Request, Reclient(r) \/ Redial(r)
        PROVE  /\ UNCHANGED <<made, about>> /\ Dying'
               /\ \A s \in gone : about[s].kind = "smux" => s \in gone'
    BY <1>2 DEF Reclient, Redial, Dying
  <1>3. ASSUME NEW g \in Goroutine, Make(g), UNCHANGED <<closed, gone>>
        PROVE  /\ made' = made + 1 /\ \A s \in 1..made : about'[s] = about[s]
               /\ Dying'
    <2>1. made' = made + 1 /\ \A s \in 1..made : about'[s] = about[s]
      BY <1>3, MakeFacts, MadeAbout DEF Shape
    <2>2. 1..made \subseteq 1..made'
      BY <1>0, <2>1
    <2>3. closed' \subseteq 1..made' /\ gone' \subseteq 1..made'
      BY <1>3, <2>2 DEF Dying
    <2>4. \A s \in closed' : about'[s].kind = "smux" => s \in gone'
      BY <1>3, <2>1 DEF Dying
    <2> QED
      BY <2>1, <2>3, <2>4 DEF Dying
  <1>4. ASSUME NEW g \in Goroutine, ClosesEntry(g)
        PROVE  /\ UNCHANGED <<made, about>> /\ Dying' /\ gone \subseteq gone'
    <2>1. slot[no[g]] \in 1..made
      <3>1. no[g] \in Index
        BY <1>4 DEF ClosesEntry, Shape, LocalsSet
      <3>2. slot[no[g]] \in 0..made /\ slot[no[g]] # 0
        BY <1>4, <3>1 DEF ClosesEntry, FreshInv, Nil
      <3> QED
        BY <1>0, <3>2
    <2> QED
      BY <1>4, <2>1 DEF ClosesEntry, CloseSession, Dying
  <1>5. ASSUME NEW s \in Session, Break(s) \/ Notice(s)
        PROVE  /\ UNCHANGED <<made, about>> /\ Dying' /\ gone \subseteq gone'
    BY <1>5 DEF Break, Notice, Dying
  <1>6. CASE \E r \in Request : Reclient(r) \/ Redial(r)
    BY <1>0, <1>2, <1>6
  <1>7. CASE \E g \in Goroutine : Make(g) /\ UNCHANGED <<closed, gone>>
    BY <1>0, <1>3, <1>7
  <1>8. CASE \E g \in Goroutine : ClosesEntry(g)
    BY <1>0, <1>4, <1>8
  <1>9. CASE \E s \in Session : Break(s) \/ Notice(s)
    BY <1>0, <1>5, <1>9
  <1> QED
    BY <1>0, <1>1, <1>6, <1>7, <1>8, <1>9 DEF SessionsMove

\* Who met a session met one that was made.
LEMMA MetStep ==
  ASSUME Shape, FreshInv, Dying, MetMade, Next PROVE MetMade'
  <1>1. made \in Nat /\ made' \in Nat /\ made <= made' /\ closed \cup gone \subseteq 1..made
    BY DyingStep DEF Next, Dying
  <1>2. \A r \in Request : met'[r] \subseteq met[r] \cup (closed \cup gone)
    BY DEF Next
  <1> QED
    BY <1>1, <1>2 DEF MetMade

\* Each step does one of these things to the list.
LEMMA ListStep ==
  ASSUME TypeOK, Step PROVE ListMoves
  <1>1. ASSUME NEW r \in Request, Bump(r, "idle") \/ RequestStep(r) PROVE ListMoves
    BY <1>1 DEF ListMoves, list, local, rebuild, RequestStep, Bump, WrapAround, Peek, Argument,
                Reread, RereadErr, TestClosed, NewConnnect, OpenStream, Reclient, Reopen, Redial
  <1>2. ASSUME NEW g \in Goroutine, RebuildStep(g) PROVE ListMoves
    <2>1. ASSUME Return(g, TRUE) \/ Return(g, FALSE) PROVE fresh' = [fresh EXCEPT ![g] = Nil]
      BY <2>1 DEF Return
    <2>2. CASE PutFresh(g)
      BY <2>1, <2>2 DEF ListMoves, PutFresh
    <2>3. CASE PutNil(g)
      BY <2>3 DEF ListMoves, PutNil, local, rebuild
    <2>4. CASE PutBack(g) \/ QuicDial(g)
      <3>1. slot' = slot
        BY <2>4 DEF PutBack, QuicDial, list
      <3>2. Make(g) \/ Return(g, FALSE) \/ fresh' = fresh
        BY <2>4 DEF PutBack, QuicDial, local, rebuild
      <3>3. ASSUME fresh' = [fresh EXCEPT ![g] = Nil] \/ fresh' = fresh
            PROVE  \A h \in Goroutine : fresh'[h] \in {Nil, fresh[h]}
        BY <3>3 DEF TypeOK
      <3> QED
        BY <2>1, <3>1, <3>2, <3>3 DEF ListMoves
    <2>5. CASE GetNothing(g)
      <3>1. slot' = slot /\ fresh' = [fresh EXCEPT ![g] = Nil]
        BY <2>1, <2>5 DEF GetNothing, list
      <3> QED
        BY <3>1 DEF ListMoves, TypeOK
    <2>6. CASE GetProfile(g) \/ Check(g) \/ CloseOld(g)
      BY <2>6 DEF ListMoves, GetProfile, Check, CloseOld, list, local, rebuild
    <2> QED
      BY <1>2, <2>2, <2>3, <2>4, <2>5, <2>6 DEF RebuildStep
  <1>3. ASSUME NEW o \in Other, Build(o) \/ Report(o) \/ SetAddr(o) PROVE ListMoves
    BY <1>3 DEF ListMoves, Build, Report, SetAddr, list, local, rebuild
  <1>4. ASSUME NEW o \in Other, ClearStep(o) PROVE ListMoves
    <2>1. CASE SweepStore(o) \/ WipeStore(o)
      BY <2>1 DEF ListMoves, SweepStore, WipeStore
    <2>2. CASE Sweep(o) \/ WipeClose(o) \/ LockAll(o) \/ Wipe(o) \/ Reinit(o)
      BY <2>2 DEF ListMoves, Sweep, WipeClose, LockAll, Wipe, Reinit, list, local, rebuild
    <2> QED
      BY <1>4, <2>1, <2>2 DEF ClearStep
  <1>5. ASSUME NEW s \in Session, Break(s) \/ Notice(s) PROVE ListMoves
    BY <1>5 DEF ListMoves, Break, Notice, list, local, rebuild
  <1> QED
    BY <1>1, <1>2, <1>3, <1>4, <1>5 DEF Step, RequestStep

\* So no session gets into two places.
LEMMA DistinctStep ==
  ASSUME Shape, FreshInv, Distinct, Step PROVE Distinct'
  <1>0. /\ ListMoves /\ slot \in [Index -> 0..MaxSession] /\ made \in Nat
        /\ fresh \in [Goroutine -> 0..MaxSession]
    BY ListStep DEF Shape, TypeOK
  <1> USE <1>0 DEF Nil
  <1>1. CASE slot' = slot /\ \A h \in Goroutine : fresh'[h] \in {Nil, fresh[h]}
    BY <1>1 DEF Distinct
  <1>2. ASSUME fresh' = fresh, NEW i, slot' = [slot EXCEPT ![i] = Nil] PROVE Distinct'
    <2>1. \A j \in Index : slot'[j] \in {Nil, slot[j]}
      BY <1>2
    <2> QED
      BY <1>2, <2>1 DEF Distinct
  <1>3. ASSUME slot' = slot, NEW g \in Goroutine, Make(g) PROVE Distinct'
    <2>1. /\ fresh'[g] = made + 1 /\ \A h \in Goroutine \ {g} : fresh'[h] = fresh[h]
      BY <1>3, MakeFacts DEF Shape
    <2>2. /\ \A i \in Index : slot[i] # made + 1
          /\ \A h \in Goroutine : fresh[h] # made + 1
      BY DEF FreshInv
    <2> QED
      BY <1>3, <2>1, <2>2 DEF Distinct
  <1>4. ASSUME NEW g \in Goroutine, slot' = [slot EXCEPT ![no[g]] = fresh[g]],
               fresh' = [fresh EXCEPT ![g] = Nil]
        PROVE  Distinct'
    <2>1. \A i \in Index : slot'[i] = IF i = no[g] THEN fresh[g] ELSE slot[i]
      BY <1>4
    <2>2. \A h \in Goroutine : fresh'[h] = IF h = g THEN Nil ELSE fresh[h]
      BY <1>4
    <2> QED
      BY <2>1, <2>2 DEF Distinct
  <1> QED
    BY <1>1, <1>2, <1>3, <1>4 DEF ListMoves

\* The label "reopen" is reached in one way.
LEMMA ReopenedStep ==
  ASSUME TypeOK, Step PROVE Reopened
  <1> USE DEF TypeOK
  <1>1. ASSUME NEW g \in Goroutine, pc' = [pc EXCEPT ![g] = pc'[g]], pc'[g] # "reopen",
               \A h \in Goroutine \ {g} : e'[h] = e[h]
        PROVE  Reopened
    BY <1>1, ConstantFacts DEF Reopened
  <1>2. ASSUME pc' = pc, e' = e PROVE Reopened
    BY <1>2 DEF Reopened
  <1>3. ASSUME NEW r \in Request, Bump(r, "idle") \/ RequestStep(r) PROVE Reopened
    <2>1. CASE Reclient(r)
      <3>1. \A q \in Request : q = r \/ (pc'[q] = pc[q] /\ e'[q] = e[q])
        BY <2>1 DEF Reclient, Goto, local
      <3> QED
        BY <2>1, <3>1 DEF Reopened
    <2>2. CASE Fail(r)
      BY <1>1, <2>2, FailFacts, ConstantFacts
    <2>3. CASE ~Reclient(r) /\ ~Fail(r)
      <3>1. \/ pc' = pc /\ e' = e
            \/ /\ pc' = [pc EXCEPT ![r] = pc'[r]] /\ pc'[r] # "reopen"
               /\ \A h \in Goroutine \ {r} : e'[h] = e[h]
        <4>1. CASE Bump(r, "idle") \/ Bump(r, "retry") \/ WrapAround(r) \/ Argument(r) \/ TestClosed(r)
          BY <4>1, ConstantFacts DEF Bump, WrapAround, Argument, TestClosed, Goto, local
        <4>2. CASE Peek(r) \/ Reread(r) \/ RereadErr(r)
          BY <2>3, <4>2, ConstantFacts DEF Peek, Reread, RereadErr, Goto, Panic
        <4>3. CASE NewConnnect(r) \/ OpenStream(r) \/ Reopen(r) \/ Redial(r)
          BY <2>3, <4>3, ConstantFacts DEF NewConnnect, OpenStream, Connected, Reopen, Redial,
                                           Goto, Panic
        <4> QED
          BY <1>3, <2>3, <4>1, <4>2, <4>3 DEF RequestStep
      <3> QED
        BY <1>1, <1>2, <3>1, ConstantFacts
    <2> QED
      BY <2>1, <2>2, <2>3
  <1>4. ASSUME NEW g \in Goroutine, RebuildStep(g) PROVE Reopened
    <2>1. CASE Return(g, TRUE) \/ Return(g, FALSE)
      <3>1. PICK ok \in BOOLEAN : Return(g, ok)
        BY <2>1
      <3> QED
        BY <1>1, <3>1, ReturnFacts
    <2>2. CASE ~Return(g, TRUE) /\ ~Return(g, FALSE)
      <3>1. CASE GetProfile(g) \/ GetNothing(g) \/ PutBack(g) \/ QuicDial(g)
        BY <1>1, <2>2, <3>1 DEF GetProfile, GetNothing, PutBack, QuicDial, Goto, local
      <3>2. CASE Check(g) \/ CloseOld(g) \/ PutNil(g) \/ PutFresh(g)
        BY <1>1, <1>2, <2>2, <3>2 DEF Check, CloseOld, PutNil, PutFresh, Built, Panic, Goto, local
      <3> QED
        BY <1>4, <3>1, <3>2 DEF RebuildStep
    <2> QED
      BY <2>1, <2>2
  <1>5. ASSUME NEW o \in Other, Build(o) \/ Report(o) \/ SetAddr(o) PROVE Reopened
    BY <1>1, <1>5, ConstantFacts DEF Build, Report, SetAddr, Goto, local
  <1>6. ASSUME NEW o \in Other, ClearStep(o) PROVE Reopened
    <2>1. CASE Sweep(o) \/ SweepStore(o) \/ LockAll(o)
      BY <1>1, <2>1, ConstantFacts DEF Sweep, SweepStore, LockAll, NextIndex, Goto, local
    <2>2. CASE Wipe(o) \/ WipeClose(o) \/ WipeStore(o) \/ Reinit(o)
      BY <1>1, <1>2, <2>2, ConstantFacts
      DEF Wipe, WipeClose, WipeStore, NextWipe, NextIndex, Reinit, Panic, Goto, local
    <2> QED
      BY <1>6, <2>1, <2>2 DEF ClearStep
  <1>7. ASSUME NEW s \in Session, Break(s) \/ Notice(s) PROVE Reopened
    BY <1>2, <1>7 DEF Break, Notice, local
  <1> QED
    BY <1>3, <1>4, <1>5, <1>6, <1>7 DEF Step, RequestStep

\* Nobody revives the connection under a session that is made anew.
LEMMA ReopenStep ==
  ASSUME Shape, FreshInv, Dying, ReopenInv, Step PROVE ReopenInv'
  <1> SUFFICES ASSUME NEW r \in Request, pc'[r] = "reopen"
               PROVE  e'[r] \in gone' /\ about'[e'[r]].kind = "smux"
    BY DEF ReopenInv
  <1>1. CASE Reclient(r)
    BY <1>1 DEF Reclient, local
  <1>2. CASE pc[r] = "reopen" /\ e'[r] = e[r]
    <2>1. e[r] \in gone /\ about[e[r]].kind = "smux" /\ e[r] \in 1..made
      BY <1>2 DEF ReopenInv, Dying
    <2> QED
      BY <1>2, <2>1, DyingStep
  <1> QED
    BY <1>1, <1>2, ReopenedStep DEF Reopened, Shape

-----------------------------------------------------------------------------
(* What crashes the client.                                                *)

CrashInv ==
    /\ crashed = "nil" => overlapped
    /\ crashed = "index" => crowded
    /\ crashed = "reclient" =>
         \E r \in Request : pc[r] = "reopen" /\ e[r] \in closed \cap gone
    /\ \A g \in Goroutine : no[g] = ClientNum => crowded

\* A request that finds the round robin past the end has a rival there.
LEMMA PastEnd ==
  ASSUME Shape, Latched, NEW r \in Request, pc[r] \in {"peek", "arg", "reread", "rereadErr"},
         lastUse = ClientNum
  PROVE  crowded
  <1>1. PICK q \in Request : pc[q] = "bump"
    BY DEF Shape, LockHeld
  <1>2. q # r /\ {pc[q], pc[r]} \cap ({"idle"} \cup Ended) = {}
    BY <1>1 DEF Ended
  <1> QED
    BY <1>2 DEF Latched, Crowd

\* Only a rival empties the entry that somebody is about to close.
LEMMA EmptyAtClose ==
  ASSUME HeldInv, NEW g \in Goroutine, pc[g] \in {"close", "wipeclose"}, slot[no[g]] = Nil
  PROVE  overlapped
  BY DEF HeldInv, Place

\* A RebuildSmux that returns has no index any more.
LEMMA ReturnNo ==
  ASSUME TypeOK, NEW g \in Goroutine, Return(g, TRUE) \/ Return(g, FALSE)
  PROVE  no' = [no EXCEPT ![g] = 0]
  BY DEF Return

\* A loop over the entries ends before it is past them.
LEMMA LoopNo ==
  ASSUME TypeOK, NEW o \in Goroutine, NEW loop, NEW after, NextIndex(o, loop, after)
  PROVE  \A h \in Goroutine : no'[h] = ClientNum => no[h] = ClientNum
  BY IndexRange, ConstantFacts DEF TypeOK, NextIndex

\* Each step that crashes the client is one of a race.
LEMMA CrashStep ==
  ASSUME Shape, Latched, HeldInv, ReopenInv, CrashInv, Next PROVE CrashInv'
  <1>0. Step /\ crashed = "no" /\ (crowded => crowded') /\ (overlapped => overlapped')
    BY DEF Next
  <1> USE <1>0, ConstantFacts DEF list, session, local, rebuild, Shape, TypeOK, CrashInv
  <1>1. ASSUME NEW r \in Request, NEW from \in {"idle", "retry"}, Bump(r, from) PROVE CrashInv'
    BY <1>1 DEF Bump
  <1>2. ASSUME NEW r \in Request, WrapAround(r) PROVE CrashInv'
    BY <1>2 DEF WrapAround
  <1>3. ASSUME NEW r \in Request, Peek(r) PROVE CrashInv'
    BY <1>3, PastEnd DEF Peek, Panic
  <1>4. ASSUME NEW r \in Request, Argument(r) PROVE CrashInv'
    BY <1>4, PastEnd DEF Argument
  <1>5. ASSUME NEW r \in Request, Reread(r) PROVE CrashInv'
    BY <1>5, PastEnd DEF Reread, Panic
  <1>6. ASSUME NEW r \in Request, RereadErr(r) PROVE CrashInv'
    BY <1>6, PastEnd DEF RereadErr, Panic
  <1>7. ASSUME NEW r \in Request, TestClosed(r) PROVE CrashInv'
    BY <1>7 DEF TestClosed
  <1>8. ASSUME NEW r \in Request, NewConnnect(r) PROVE CrashInv'
    BY <1>8 DEF NewConnnect
  <1>9. ASSUME NEW r \in Request, OpenStream(r) PROVE CrashInv'
    BY <1>9 DEF OpenStream, Connected
  <1>10. ASSUME NEW r \in Request, Reclient(r) PROVE CrashInv'
    BY <1>10 DEF Reclient
  <1>11. ASSUME NEW r \in Request, Reopen(r) PROVE CrashInv'
    BY <1>11 DEF Reopen, Panic, ReopenInv
  <1>12. ASSUME NEW r \in Request, Redial(r) PROVE CrashInv'
    BY <1>12 DEF Redial
  <1>13. ASSUME NEW g \in Goroutine, GetProfile(g) PROVE CrashInv'
    BY <1>13 DEF GetProfile
  <1>14. ASSUME NEW g \in Goroutine, GetNothing(g) PROVE CrashInv'
    <2>1. no' = [no EXCEPT ![g] = 0] /\ crashed' = crashed
      BY <1>14, ReturnNo DEF GetNothing
    <2> QED
      BY <2>1
  <1>15. ASSUME NEW g \in Goroutine, PutBack(g) PROVE CrashInv'
    <2>1. (no' = [no EXCEPT ![g] = 0] \/ no' = no) /\ crashed' = crashed
      BY <1>15, ReturnNo DEF PutBack
    <2> QED
      BY <2>1
  <1>16. ASSUME NEW g \in Goroutine, QuicDial(g) PROVE CrashInv'
    <2>1. (no' = [no EXCEPT ![g] = 0] \/ no' = no) /\ crashed' = crashed
      BY <1>16, ReturnNo DEF QuicDial
    <2> QED
      BY <2>1
  <1>17. ASSUME NEW g \in Goroutine, Check(g) PROVE CrashInv'
    BY <1>17 DEF Check, Panic
  <1>18. ASSUME NEW g \in Goroutine, CloseOld(g) PROVE CrashInv'
    BY <1>18, EmptyAtClose DEF CloseOld, Panic
  <1>19. ASSUME NEW g \in Goroutine, PutNil(g) PROVE CrashInv'
    BY <1>19 DEF PutNil
  <1>20. ASSUME NEW g \in Goroutine, PutFresh(g) PROVE CrashInv'
    <2>1. (no' = [no EXCEPT ![g] = 0] \/ no' = no) /\ crashed' = crashed
      BY <1>20, ReturnNo DEF PutFresh
    <2> QED
      BY <2>1
  <1>21. ASSUME NEW o \in Other, Build(o) PROVE CrashInv'
    BY <1>21 DEF Build, Index
  <1>22. ASSUME NEW o \in Other, Report(o) PROVE CrashInv'
    BY <1>22 DEF Report
  <1>23. ASSUME NEW o \in Other, SetAddr(o) PROVE CrashInv'
    BY <1>23 DEF SetAddr
  <1>24. ASSUME NEW o \in Other, Sweep(o) PROVE CrashInv'
    <2>1. crashed' = crashed
      BY <1>24 DEF Sweep
    <2>2. CASE NextIndex(o, "sweep", "done")
      BY <2>1, <2>2, LoopNo
    <2>3. CASE no' = no
      BY <2>1, <2>3
    <2> QED
      BY <1>24, <2>2, <2>3 DEF Sweep
  <1>25. ASSUME NEW o \in Other, SweepStore(o) PROVE CrashInv'
    <2>1. crashed' = crashed
      BY <1>25 DEF SweepStore
    <2>2. CASE NextIndex(o, "sweep", "done")
      BY <2>1, <2>2, LoopNo
    <2>3. CASE no' = no
      BY <2>1, <2>3
    <2> QED
      BY <1>25, <2>2, <2>3 DEF SweepStore
  <1>26. ASSUME NEW o \in Other, LockAll(o) PROVE CrashInv'
    BY <1>26 DEF LockAll
  <1>27. ASSUME NEW o \in Other, Wipe(o) PROVE CrashInv'
    <2>1. crashed' = crashed
      BY <1>27 DEF Wipe
    <2>2. CASE NextIndex(o, "wipe", "init")
      BY <2>1, <2>2, LoopNo
    <2>3. CASE no' = no
      BY <2>1, <2>3
    <2> QED
      BY <1>27, <2>2, <2>3 DEF Wipe, NextWipe
  <1>28. ASSUME NEW o \in Other, WipeClose(o) PROVE CrashInv'
    BY <1>28, EmptyAtClose DEF WipeClose, Panic
  <1>29. ASSUME NEW o \in Other, WipeStore(o) PROVE CrashInv'
    <2>1. crashed' = crashed
      BY <1>29 DEF WipeStore
    <2>2. CASE NextIndex(o, "wipe", "init")
      BY <2>1, <2>2, LoopNo
    <2>3. CASE no' = no
      BY <2>1, <2>3
    <2> QED
      BY <1>29, <2>2, <2>3 DEF WipeStore, NextWipe
  <1>30. ASSUME NEW o \in Other, Reinit(o) PROVE CrashInv'
    BY <1>30 DEF Reinit
  <1>31. ASSUME NEW s \in Session, Break(s) PROVE CrashInv'
    BY <1>31 DEF Break
  <1>32. ASSUME NEW s \in Session, Notice(s) PROVE CrashInv'
    BY <1>32 DEF Notice
  <1>33. QED
    BY <1>1, <1>2, <1>3, <1>4, <1>5, <1>6, <1>7, <1>8, <1>9, <1>10, <1>11, <1>12, <1>13,
       <1>14, <1>15, <1>16, <1>17, <1>18, <1>19, <1>20, <1>21, <1>22, <1>23, <1>24,
       <1>25, <1>26, <1>27, <1>28, <1>29, <1>30, <1>31, <1>32
    DEF Step, RequestStep, RebuildStep, ClearStep

SafeInv ==
    /\ Shape /\ Latched /\ FreshInv /\ HeldInv
    /\ Dying /\ MetMade /\ Distinct /\ ReopenInv /\ CrashInv

\* The invariant holds at the start ...
LEMMA SafeInit == Init => SafeInv
  <1> SUFFICES ASSUME Init PROVE SafeInv
    OBVIOUS
  <1>1. Shape /\ Latched
    BY ShapeInit, LatchedInit
  <1>2. FreshInv
    BY DEF Init, FreshInv, Nil
  <1>3. HeldInv
    <2>1. made = 0 /\ \A g \in Goroutine : pc[g] = "idle"
      BY DEF Init
    <2> QED
      BY <2>1 DEF HeldInv, Place
  <1>4. CrashInv
    BY ConstantFacts DEF Init, CrashInv
  <1>5. Dying /\ MetMade /\ Distinct
    BY DEF Init, Dying, MetMade, Distinct, Nil
  <1>6. ReopenInv
    BY ConstantFacts DEF Init, ReopenInv
  <1> QED
    BY <1>1, <1>2, <1>3, <1>4, <1>5, <1>6 DEF SafeInv

\* ... each step keeps it ...
LEMMA SafeStep ==
  ASSUME SafeInv, [Next]_vars PROVE SafeInv'
  <1>1. Shape' /\ Latched'
    BY ShapeStep, LatchedStep DEF SafeInv
  <1>2. CASE Next
    <2>1. Step
      BY <1>2 DEF Next
    <2> QED
      BY <1>1, <1>2, <2>1, FreshStep, HeldStep, DyingStep, MetStep, DistinctStep, ReopenStep,
         CrashStep
      DEF SafeInv
  <1>3. CASE UNCHANGED vars
    <2>1. /\ UNCHANGED <<slot, made, about, closed, gone, crashed, pc, no, e, prof, fresh>>
          /\ UNCHANGED <<crowded, overlapped, met>>
      BY <1>3 DEF vars, list, session, local, rebuild, history
    <2>2. FreshInv' /\ CrashInv'
      BY <2>1 DEF SafeInv, FreshInv, CrashInv
    <2>3. HeldInv'
      BY <2>1 DEF SafeInv, HeldInv, Kept, Place, Over
    <2>4. Dying' /\ MetMade' /\ Distinct' /\ ReopenInv'
      BY <2>1 DEF SafeInv, Dying, MetMade, Distinct, ReopenInv
    <2> QED
      BY <1>1, <2>2, <2>3, <2>4 DEF SafeInv
  <1> QED
    BY <1>2, <1>3

\* ... and so it holds in every state.
LEMMA SafeAlways == Spec => []SafeInv
  BY SafeInit, SafeStep, PTL DEF Spec

\* A session that was dropped has no open connection, unless two goroutines
\* replaced one entry at once, or it is a quic session that was closed and a
\* request dialled again.
THEOREM NoSessionLost == Spec => []DroppedIsClosed
  <1>1. SafeInv => DroppedIsClosed
    <2> SUFFICES ASSUME SafeInv, ~overlapped, NEW s \in 1..made
                 PROVE  \/ s \in gone
                        \/ s \in closed /\ about[s].kind = "quic"
                        \/ \E i \in Index : slot[i] = s
                        \/ \E g \in Goroutine : fresh[g] = s
      BY DEF DroppedIsClosed
    <2>1. Kept(s)
      BY DEF SafeInv, HeldInv
    <2>2. s \in Session
      BY ConstantFacts DEF SafeInv, Shape, TypeOK, Session
    <2>3. about[s].kind \in {"smux", "quic"}
      BY <2>2 DEF SafeInv, Shape, TypeOK, Profile
    <2> QED
      BY <2>1, <2>3 DEF Kept, Over
  <1> QED
    BY <1>1, SafeAlways, PTL

\* The client panics on a nil entry or an index past the end only after a race
\* for an entry or for GetSession, and on the error that is nil only where a
\* connection died and its session, made anew, was closed again.
THEOREM NoCrashAlone == Spec => []CrashNeedsRace
  <1>1. SafeInv => CrashNeedsRace
    BY DEF SafeInv, CrashInv, CrashNeedsRace
  <1> QED
    BY <1>1, SafeAlways, PTL

-----------------------------------------------------------------------------
(* What the change of the route leaves.                                    *)

\* A change of route that nobody's rebuild straddles leaves the entries behind
\* it empty.
WipedInv ==
    ~straddled =>
      \A o \in Other : pc[o] \in Wiping =>
        \A j \in Index : j < no[o] \/ pc[o] = "init" => slot[j] = Nil

Settled == \A o \in Other : pc[o] \notin Wiping \cup {"lock"}

\* While no route is being changed, everything is of the present one.
RouteInv ==
    ~straddled /\ Settled =>
      /\ pool \subseteq {addr}
      /\ \A g \in Goroutine :
           /\ pc[g] \in Building => prof[g].route = addr
           /\ fresh[g] # Nil => about[fresh[g]].route = addr
      /\ \A i \in Index : slot[i] # Nil => about[slot[i]].route = addr

\* A step that puts nothing into the list and starts or ends no sweep of it.
LEMMA WipedMove ==
  ASSUME Shape, WipedInv, NEW g \in Goroutine, straddled => straddled',
         \A i \in Index : slot'[i] \in {slot[i], Nil},
         \A h \in Goroutine \ {g} : pc'[h] = pc[h] /\ no'[h] = no[h],
         \/ pc'[g] \notin Wiping
         \/ no'[g] = 0 /\ pc'[g] # "init"
         \/ pc[g] \in Wiping /\ pc'[g] # "init" /\ no'[g] = no[g]
  PROVE  WipedInv'
  <1> SUFFICES ASSUME ~straddled', NEW o \in Other, pc'[o] \in Wiping, NEW j \in Index,
                      j < no'[o] \/ pc'[o] = "init"
               PROVE  slot'[j] = Nil
    BY DEF WipedInv
  <1>1. ~straddled /\ (slot[j] = Nil => slot'[j] = Nil)
    OBVIOUS
  <1>2. CASE o # g
    <2>1. pc'[o] = pc[o] /\ no'[o] = no[o]
      BY <1>2, ConstantFacts
    <2> QED
      BY <1>1, <2>1 DEF WipedInv
  <1>3. CASE o = g
    <2>1. j \in Nat
      BY ConstantFacts DEF Index
    <2>2. pc[g] \in Wiping /\ j < no[g]
      BY <1>3, <2>1
    <2> QED
      BY <1>1, <1>3, <2>2 DEF WipedInv
  <1> QED
    BY <1>2, <1>3

\* The loop of a change of route goes on past an entry that is empty.
LEMMA WipedOn ==
  ASSUME Shape, WipedInv, NEW o \in Other, straddled => straddled', NextIndex(o, "wipe", "init"),
         \A i \in Index : slot'[i] \in {slot[i], Nil}, slot'[no[o]] = Nil, pc[o] \in Wiping
  PROVE  WipedInv'
  <1> SUFFICES ASSUME ~straddled', NEW q \in Other, pc'[q] \in Wiping, NEW j \in Index,
                      j < no'[q] \/ pc'[q] = "init"
               PROVE  slot'[j] = Nil
    BY DEF WipedInv
  <1> USE DEF Shape, TypeOK
  <1>1. CASE q # o
    <2>1. pc'[q] = pc[q] /\ no'[q] = no[q]
      BY <1>1, ConstantFacts DEF NextIndex, Goto
    <2> QED
      BY <2>1 DEF WipedInv
  <1>2. CASE q = o
    <2>1. o \in Goroutine /\ no[o] \in 0..ClientNum /\ j \in 0..(ClientNum - 1)
      BY ConstantFacts DEF Index
    <2>2. CASE j < no[o]
      BY <2>2 DEF WipedInv
    <2>3. CASE ~(j < no[o])
      <3>1. \/ no'[o] = no[o] + 1 /\ j < no'[o]
            \/ no[o] + 1 \notin Index
        BY <1>2, <2>1 DEF NextIndex, Goto
      <3>2. j < no[o] + 1
        <4>1. no[o] + 1 \notin Index => no[o] + 1 >= ClientNum
          BY <2>1, ConstantFacts DEF Index
        <4> QED
          BY <2>1, <3>1, <4>1, ConstantFacts
      <3>3. j = no[o]
        BY <2>1, <2>3, <3>2
      <3> QED
        BY <3>3
    <2> QED
      BY <2>2, <2>3
  <1> QED
    BY <1>1, <1>2

\* A step that brings no profile and no session.
LEMMA RouteMove ==
  ASSUME Shape, RouteInv, NEW g \in Goroutine, straddled => straddled',
         addr' = addr, pool' = pool, about' = about,
         \A i \in Index : slot'[i] \in {slot[i], Nil},
         \A h \in Goroutine : fresh'[h] \in {fresh[h], Nil},
         \A h \in Goroutine \ {g} : pc'[h] = pc[h] /\ prof'[h] = prof[h],
         pc'[g] \in Building => pc[g] \in Building /\ prof'[g] = prof[g],
         g \in Other /\ pc[g] \in Wiping \cup {"lock"} => pc'[g] \in Wiping \cup {"lock"}
  PROVE  RouteInv'
  <1> SUFFICES ASSUME ~straddled', Settled'
               PROVE  /\ pool' \subseteq {addr'}
                      /\ \A h \in Goroutine :
                           /\ pc'[h] \in Building => prof'[h].route = addr'
                           /\ fresh'[h] # Nil => about'[fresh'[h]].route = addr'
                      /\ \A i \in Index : slot'[i] # Nil => about'[slot'[i]].route = addr'
    BY DEF RouteInv
  <1>1. Settled
    <2> SUFFICES ASSUME NEW o \in Other PROVE pc[o] \notin Wiping \cup {"lock"}
      BY DEF Settled
    <2>1. CASE o = g
      BY <2>1 DEF Settled
    <2>2. CASE o # g
      BY <2>2, ConstantFacts DEF Settled
    <2> QED
      BY <2>1, <2>2
  <1> QED
    BY <1>1 DEF RouteInv

\* Each step keeps the entries behind a change of route empty.
LEMMA WipedStep ==
  ASSUME Shape, Latched, WipedInv, Next PROVE WipedInv'
  <1>0. Step /\ (straddled => straddled')
    BY DEF Next
  <1> USE <1>0, ConstantFacts DEF list, session, local, rebuild, Goto, Shape, TypeOK, Wiping
  <1>1. ASSUME NEW r \in Request, NEW from \in {"idle", "retry"}, Bump(r, from) PROVE WipedInv'
    BY <1>1, WipedMove DEF Bump
  <1>2. ASSUME NEW r \in Request, WrapAround(r) PROVE WipedInv'
    BY <1>2, WipedMove DEF WrapAround
  <1>3. ASSUME NEW r \in Request, Peek(r) PROVE WipedInv'
    BY <1>3, WipedMove DEF Peek, Panic
  <1>4. ASSUME NEW r \in Request, Argument(r) PROVE WipedInv'
    <2>1. \A i \in Index : slot'[i] \in {slot[i], Nil}
      BY <1>4 DEF Argument
    <2>2. /\ pc'[r] \notin Wiping
          /\ \A h \in Goroutine \ {r} : pc'[h] = pc[h] /\ no'[h] = no[h]
      BY <1>4 DEF Argument
    <2> QED
      BY <2>1, <2>2, WipedMove
  <1>5. ASSUME NEW r \in Request, Reread(r) PROVE WipedInv'
    BY <1>5, WipedMove, FailFacts DEF Reread, Panic
  <1>6. ASSUME NEW r \in Request, RereadErr(r) PROVE WipedInv'
    BY <1>6, WipedMove, FailFacts DEF RereadErr, Panic
  <1>7. ASSUME NEW r \in Request, TestClosed(r) PROVE WipedInv'
    BY <1>7, WipedMove DEF TestClosed
  <1>8. ASSUME NEW r \in Request, NewConnnect(r) PROVE WipedInv'
    BY <1>8, WipedMove, FailFacts DEF NewConnnect
  <1>9. ASSUME NEW r \in Request, OpenStream(r) PROVE WipedInv'
    BY <1>9, WipedMove DEF OpenStream, Connected
  <1>10. ASSUME NEW r \in Request, Reclient(r) PROVE WipedInv'
    BY <1>10, WipedMove DEF Reclient
  <1>11. ASSUME NEW r \in Request, Reopen(r) PROVE WipedInv'
    BY <1>11, WipedMove, FailFacts DEF Reopen, Panic
  <1>12. ASSUME NEW r \in Request, Redial(r) PROVE WipedInv'
    BY <1>12, WipedMove, FailFacts DEF Redial, Connected
  <1>13. ASSUME NEW g \in Goroutine, GetProfile(g) PROVE WipedInv'
    BY <1>13, WipedMove DEF GetProfile
  <1>14. ASSUME NEW g \in Goroutine, GetNothing(g) PROVE WipedInv'
    <2>1. PICK ok \in BOOLEAN : Return(g, ok)
      BY <1>14 DEF GetNothing
    <2>2. /\ pc'[g] \notin Wiping /\ slot' = slot
          /\ \A h \in Goroutine \ {g} : pc'[h] = pc[h] /\ no'[h] = no[h]
      BY <1>14, <2>1, ReturnFacts DEF GetNothing
    <2> QED
      BY <2>2, WipedMove
  <1>15. ASSUME NEW g \in Goroutine, PutBack(g) PROVE WipedInv'
    <2>1. slot' = slot
      BY <1>15 DEF PutBack
    <2>2. /\ pc'[g] \notin Wiping
          /\ \A h \in Goroutine \ {g} : pc'[h] = pc[h] /\ no'[h] = no[h]
      <3>1. CASE Return(g, FALSE)
        <4>1. PICK ok \in BOOLEAN : Return(g, ok)
          BY <3>1
        <4> QED
          BY <4>1, ReturnFacts
      <3>2. CASE ~Return(g, FALSE)
        BY <1>15, <3>2 DEF PutBack
      <3> QED
        BY <3>1, <3>2
    <2> QED
      BY <2>1, <2>2, WipedMove
  <1>16. ASSUME NEW g \in Goroutine, QuicDial(g) PROVE WipedInv'
    <2>1. slot' = slot
      BY <1>16 DEF QuicDial
    <2>2. /\ pc'[g] \notin Wiping
          /\ \A h \in Goroutine \ {g} : pc'[h] = pc[h] /\ no'[h] = no[h]
      <3>1. CASE Return(g, FALSE)
        <4>1. PICK ok \in BOOLEAN : Return(g, ok)
          BY <3>1
        <4> QED
          BY <4>1, ReturnFacts
      <3>2. CASE ~Return(g, FALSE)
        BY <1>16, <3>2 DEF QuicDial
      <3> QED
        BY <3>1, <3>2
    <2> QED
      BY <2>1, <2>2, WipedMove
  <1>17. ASSUME NEW g \in Goroutine, Check(g) PROVE WipedInv'
    BY <1>17, WipedMove DEF Check, Panic, Built
  <1>18. ASSUME NEW g \in Goroutine, CloseOld(g) PROVE WipedInv'
    BY <1>18, WipedMove DEF CloseOld, Panic, Built
  <1>19. ASSUME NEW g \in Goroutine, PutNil(g) PROVE WipedInv'
    BY <1>19, WipedMove DEF PutNil
  <1>20. ASSUME NEW g \in Goroutine, PutFresh(g) PROVE WipedInv'
    <2>1. PICK ok \in BOOLEAN : Return(g, ok)
      BY <1>20 DEF PutFresh
    <2>2. \A o \in Other : pc[o] \notin Wiping \/ straddled
      BY <1>20 DEF Latched, Straddle, Building, PutFresh
    <2>3. \A o \in Other : pc'[o] \in Wiping => pc[o] \in Wiping
      BY <2>1, ReturnFacts
    <2> QED
      BY <2>2, <2>3 DEF WipedInv
  <1>21. ASSUME NEW o \in Other, Build(o) PROVE WipedInv'
    <2>1. \A i \in Index : slot'[i] \in {slot[i], Nil}
      BY <1>21 DEF Build
    <2>2. /\ pc'[o] \notin Wiping
          /\ \A h \in Goroutine \ {o} : pc'[h] = pc[h] /\ no'[h] = no[h]
      BY <1>21 DEF Build
    <2> QED
      BY <2>1, <2>2, WipedMove
  <1>22. ASSUME NEW o \in Other, Report(o) PROVE WipedInv'
    <2>1. \A i \in Index : slot'[i] \in {slot[i], Nil}
      BY <1>22 DEF Report
    <2>2. /\ pc'[o] \notin Wiping
          /\ \A h \in Goroutine \ {o} : pc'[h] = pc[h] /\ no'[h] = no[h]
      BY <1>22 DEF Report
    <2> QED
      BY <2>1, <2>2, WipedMove
  <1>23. ASSUME NEW o \in Other, SetAddr(o) PROVE WipedInv'
    BY <1>23, WipedMove DEF SetAddr
  <1>24. ASSUME NEW o \in Other, Sweep(o) PROVE WipedInv'
    <2>1. \A i \in Index : slot'[i] \in {slot[i], Nil}
      BY <1>24 DEF Sweep
    <2>2. /\ pc'[o] \notin Wiping
          /\ \A h \in Goroutine \ {o} : pc'[h] = pc[h] /\ no'[h] = no[h]
      BY <1>24, LoopFacts DEF Sweep
    <2> QED
      BY <2>1, <2>2, WipedMove
  <1>25. ASSUME NEW o \in Other, SweepStore(o) PROVE WipedInv'
    <2>1. \A i \in Index : slot'[i] \in {slot[i], Nil}
      BY <1>25 DEF SweepStore
    <2>2. /\ pc'[o] \notin Wiping
          /\ \A h \in Goroutine \ {o} : pc'[h] = pc[h] /\ no'[h] = no[h]
      BY <1>25, LoopFacts DEF SweepStore
    <2> QED
      BY <2>1, <2>2, WipedMove
  <1>26. ASSUME NEW o \in Other, LockAll(o) PROVE WipedInv'
    <2>1. /\ slot' = slot /\ no'[o] = 0 /\ pc'[o] = "wipe"
          /\ \A h \in Goroutine \ {o} : pc'[h] = pc[h] /\ no'[h] = no[h]
      BY <1>26 DEF LockAll
    <2> QED
      BY <2>1, WipedMove
  <1>27. ASSUME NEW o \in Other, Wipe(o) PROVE WipedInv'
    <2>1. CASE slot[no[o]] = Nil
      BY <1>27, <2>1, WipedOn DEF Wipe, NextWipe
    <2>2. CASE slot[no[o]] # Nil
      BY <1>27, <2>2, WipedMove DEF Wipe
    <2> QED
      BY <2>1, <2>2
  <1>28. ASSUME NEW o \in Other, WipeClose(o) PROVE WipedInv'
    BY <1>28, WipedMove DEF WipeClose, Panic
  <1>29. ASSUME NEW o \in Other, WipeStore(o) PROVE WipedInv'
    <2>1. no[o] \in Index
      BY <1>29 DEF WipeStore, LocalsSet, Replacing
    <2>2. slot'[no[o]] = Nil /\ \A i \in Index : slot'[i] \in {slot[i], Nil}
      BY <1>29, <2>1 DEF WipeStore
    <2> QED
      BY <1>29, <2>2, WipedOn DEF WipeStore, NextWipe
  <1>30. ASSUME NEW o \in Other, Reinit(o) PROVE WipedInv'
    BY <1>30, WipedMove DEF Reinit
  <1>31. ASSUME NEW s \in Session, Break(s) PROVE WipedInv'
    BY <1>31 DEF Break, WipedInv
  <1>32. ASSUME NEW s \in Session, Notice(s) PROVE WipedInv'
    BY <1>32 DEF Notice, WipedInv
  <1>33. QED
    BY <1>1, <1>2, <1>3, <1>4, <1>5, <1>6, <1>7, <1>8, <1>9, <1>10, <1>11, <1>12, <1>13,
       <1>14, <1>15, <1>16, <1>17, <1>18, <1>19, <1>20, <1>21, <1>22, <1>23, <1>24,
       <1>25, <1>26, <1>27, <1>28, <1>29, <1>30, <1>31, <1>32
    DEF Step, RequestStep, RebuildStep, ClearStep

\* A RebuildSmux that returns moves nobody else.
LEMMA ReturnMoves ==
  ASSUME TypeOK, NEW g \in Goroutine, Return(g, TRUE) \/ Return(g, FALSE)
  PROVE  \A h \in Goroutine : h # g => pc'[h] = pc[h]
  <1>1. PICK ok \in BOOLEAN : Return(g, ok)
    OBVIOUS
  <1> QED
    BY <1>1, ReturnFacts DEF TypeOK

\* Each step keeps everything of the present route.
LEMMA RouteStep ==
  ASSUME Shape, Latched, FreshInv, WipedInv, RouteInv, Next PROVE RouteInv'
  <1>0. Step /\ (straddled => straddled')
    BY DEF Next
  <1> USE <1>0, ConstantFacts DEF list, session, local, rebuild, Goto, Shape, TypeOK
  <1>1. ASSUME NEW r \in Request, NEW from \in {"idle", "retry"}, Bump(r, from) PROVE RouteInv'
    <2>1. addr' = addr /\ pool' = pool /\ about' = about
      BY <1>1 DEF Bump
    <2>2. /\ \A i \in Index : slot'[i] \in {slot[i], Nil}
          /\ \A h \in Goroutine : fresh'[h] \in {fresh[h], Nil}
      BY <1>1 DEF Bump
    <2>3. /\ \A h \in Goroutine \ {r} : pc'[h] = pc[h] /\ prof'[h] = prof[h]
          /\ pc'[r] \in Building => pc[r] \in Building /\ prof'[r] = prof[r]
          /\ r \in Other /\ pc[r] \in Wiping \cup {"lock"} => pc'[r] \in Wiping \cup {"lock"}
      BY <1>1 DEF Bump, Building, Wiping
    <2> QED
      BY <2>1, <2>2, <2>3, RouteMove
  <1>2. ASSUME NEW r \in Request, WrapAround(r) PROVE RouteInv'
    <2>1. addr' = addr /\ pool' = pool /\ about' = about
      BY <1>2 DEF WrapAround
    <2>2. /\ \A i \in Index : slot'[i] \in {slot[i], Nil}
          /\ \A h \in Goroutine : fresh'[h] \in {fresh[h], Nil}
      BY <1>2 DEF WrapAround
    <2>3. /\ \A h \in Goroutine \ {r} : pc'[h] = pc[h] /\ prof'[h] = prof[h]
          /\ pc'[r] \in Building => pc[r] \in Building /\ prof'[r] = prof[r]
          /\ r \in Other /\ pc[r] \in Wiping \cup {"lock"} => pc'[r] \in Wiping \cup {"lock"}
      BY <1>2 DEF WrapAround, Building, Wiping
    <2> QED
      BY <2>1, <2>2, <2>3, RouteMove
  <1>3. ASSUME NEW r \in Request, Peek(r) PROVE RouteInv'
    <2>1. addr' = addr /\ pool' = pool /\ about' = about
      BY <1>3 DEF Peek
    <2>2. /\ \A i \in Index : slot'[i] \in {slot[i], Nil}
          /\ \A h \in Goroutine : fresh'[h] \in {fresh[h], Nil}
      BY <1>3 DEF Peek
    <2>3. /\ \A h \in Goroutine \ {r} : pc'[h] = pc[h] /\ prof'[h] = prof[h]
          /\ pc'[r] \in Building => pc[r] \in Building /\ prof'[r] = prof[r]
          /\ r \in Other /\ pc[r] \in Wiping \cup {"lock"} => pc'[r] \in Wiping \cup {"lock"}
      BY <1>3 DEF Peek, Panic, Building, Wiping
    <2> QED
      BY <2>1, <2>2, <2>3, RouteMove
  <1>4. ASSUME NEW r \in Request, Argument(r) PROVE RouteInv'
    <2>1. addr' = addr /\ pool' = pool /\ about' = about
      BY <1>4 DEF Argument
    <2>2. /\ \A i \in Index : slot'[i] \in {slot[i], Nil}
          /\ \A h \in Goroutine : fresh'[h] \in {fresh[h], Nil}
      BY <1>4 DEF Argument
    <2>3. /\ \A h \in Goroutine \ {r} : pc'[h] = pc[h] /\ prof'[h] = prof[h]
          /\ pc'[r] \in Building => pc[r] \in Building /\ prof'[r] = prof[r]
          /\ r \in Other /\ pc[r] \in Wiping \cup {"lock"} => pc'[r] \in Wiping \cup {"lock"}
      BY <1>4 DEF Argument, Building, Wiping
    <2> QED
      BY <2>1, <2>2, <2>3, RouteMove
  <1>5. ASSUME NEW r \in Request, Reread(r) PROVE RouteInv'
    <2>1. addr' = addr /\ pool' = pool /\ about' = about
      BY <1>5 DEF Reread
    <2>2. /\ \A i \in Index : slot'[i] \in {slot[i], Nil}
          /\ \A h \in Goroutine : fresh'[h] \in {fresh[h], Nil}
      BY <1>5 DEF Reread
    <2>3. /\ \A h \in Goroutine \ {r} : pc'[h] = pc[h] /\ prof'[h] = prof[h]
          /\ pc'[r] \in Building => pc[r] \in Building /\ prof'[r] = prof[r]
          /\ r \in Other /\ pc[r] \in Wiping \cup {"lock"} => pc'[r] \in Wiping \cup {"lock"}
      BY <1>5, FailFacts DEF Reread, Panic, Building, Wiping
    <2> QED
      BY <2>1, <2>2, <2>3, RouteMove
  <1>6. ASSUME NEW r \in Request, RereadErr(r) PROVE RouteInv'
    <2>1. addr' = addr /\ pool' = pool /\ about' = about
      BY <1>6 DEF RereadErr
    <2>2. /\ \A i \in Index : slot'[i] \in {slot[i], Nil}
          /\ \A h \in Goroutine : fresh'[h] \in {fresh[h], Nil}
      BY <1>6 DEF RereadErr
    <2>3. /\ \A h \in Goroutine \ {r} : pc'[h] = pc[h] /\ prof'[h] = prof[h]
          /\ pc'[r] \in Building => pc[r] \in Building /\ prof'[r] = prof[r]
          /\ r \in Other /\ pc[r] \in Wiping \cup {"lock"} => pc'[r] \in Wiping \cup {"lock"}
      BY <1>6, FailFacts DEF RereadErr, Panic, Building, Wiping
    <2> QED
      BY <2>1, <2>2, <2>3, RouteMove
  <1>7. ASSUME NEW r \in Request, TestClosed(r) PROVE RouteInv'
    <2>1. addr' = addr /\ pool' = pool /\ about' = about
      BY <1>7 DEF TestClosed
    <2>2. /\ \A i \in Index : slot'[i] \in {slot[i], Nil}
          /\ \A h \in Goroutine : fresh'[h] \in {fresh[h], Nil}
      BY <1>7 DEF TestClosed
    <2>3. /\ \A h \in Goroutine \ {r} : pc'[h] = pc[h] /\ prof'[h] = prof[h]
          /\ pc'[r] \in Building => pc[r] \in Building /\ prof'[r] = prof[r]
          /\ r \in Other /\ pc[r] \in Wiping \cup {"lock"} => pc'[r] \in Wiping \cup {"lock"}
      BY <1>7 DEF TestClosed, Building, Wiping
    <2> QED
      BY <2>1, <2>2, <2>3, RouteMove
  <1>8. ASSUME NEW r \in Request, NewConnnect(r) PROVE RouteInv'
    <2>1. addr' = addr /\ pool' = pool /\ about' = about
      BY <1>8 DEF NewConnnect
    <2>2. /\ \A i \in Index : slot'[i] \in {slot[i], Nil}
          /\ \A h \in Goroutine : fresh'[h] \in {fresh[h], Nil}
      BY <1>8 DEF NewConnnect
    <2>3. /\ \A h \in Goroutine \ {r} : pc'[h] = pc[h] /\ prof'[h] = prof[h]
          /\ pc'[r] \in Building => pc[r] \in Building /\ prof'[r] = prof[r]
          /\ r \in Other /\ pc[r] \in Wiping \cup {"lock"} => pc'[r] \in Wiping \cup {"lock"}
      BY <1>8, FailFacts DEF NewConnnect, Building, Wiping
    <2> QED
      BY <2>1, <2>2, <2>3, RouteMove
  <1>9. ASSUME NEW r \in Request, OpenStream(r) PROVE RouteInv'
    <2>1. addr' = addr /\ pool' = pool /\ about' = about
      BY <1>9 DEF OpenStream
    <2>2. /\ \A i \in Index : slot'[i] \in {slot[i], Nil}
          /\ \A h \in Goroutine : fresh'[h] \in {fresh[h], Nil}
      BY <1>9 DEF OpenStream
    <2>3. /\ \A h \in Goroutine \ {r} : pc'[h] = pc[h] /\ prof'[h] = prof[h]
          /\ pc'[r] \in Building => pc[r] \in Building /\ prof'[r] = prof[r]
          /\ r \in Other /\ pc[r] \in Wiping \cup {"lock"} => pc'[r] \in Wiping \cup {"lock"}
      BY <1>9 DEF OpenStream, Connected, Building, Wiping
    <2> QED
      BY <2>1, <2>2, <2>3, RouteMove
  <1>10. ASSUME NEW r \in Request, Reclient(r) PROVE RouteInv'
    <2>1. addr' = addr /\ pool' = pool /\ about' = about
      BY <1>10 DEF Reclient
    <2>2. /\ \A i \in Index : slot'[i] \in {slot[i], Nil}
          /\ \A h \in Goroutine : fresh'[h] \in {fresh[h], Nil}
      BY <1>10 DEF Reclient
    <2>3. /\ \A h \in Goroutine \ {r} : pc'[h] = pc[h] /\ prof'[h] = prof[h]
          /\ pc'[r] \in Building => pc[r] \in Building /\ prof'[r] = prof[r]
          /\ r \in Other /\ pc[r] \in Wiping \cup {"lock"} => pc'[r] \in Wiping \cup {"lock"}
      BY <1>10 DEF Reclient, Building, Wiping
    <2> QED
      BY <2>1, <2>2, <2>3, RouteMove
  <1>11. ASSUME NEW r \in Request, Reopen(r) PROVE RouteInv'
    <2>1. addr' = addr /\ pool' = pool /\ about' = about
      BY <1>11 DEF Reopen
    <2>2. /\ \A i \in Index : slot'[i] \in {slot[i], Nil}
          /\ \A h \in Goroutine : fresh'[h] \in {fresh[h], Nil}
      BY <1>11 DEF Reopen
    <2>3. /\ \A h \in Goroutine \ {r} : pc'[h] = pc[h] /\ prof'[h] = prof[h]
          /\ pc'[r] \in Building => pc[r] \in Building /\ prof'[r] = prof[r]
          /\ r \in Other /\ pc[r] \in Wiping \cup {"lock"} => pc'[r] \in Wiping \cup {"lock"}
      BY <1>11, FailFacts DEF Reopen, Panic, Building, Wiping
    <2> QED
      BY <2>1, <2>2, <2>3, RouteMove
  <1>12. ASSUME NEW r \in Request, Redial(r) PROVE RouteInv'
    <2>1. addr' = addr /\ pool' = pool /\ about' = about
      BY <1>12 DEF Redial
    <2>2. /\ \A i \in Index : slot'[i] \in {slot[i], Nil}
          /\ \A h \in Goroutine : fresh'[h] \in {fresh[h], Nil}
      BY <1>12 DEF Redial
    <2>3. /\ \A h \in Goroutine \ {r} : pc'[h] = pc[h] /\ prof'[h] = prof[h]
          /\ pc'[r] \in Building => pc[r] \in Building /\ prof'[r] = prof[r]
          /\ r \in Other /\ pc[r] \in Wiping \cup {"lock"} => pc'[r] \in Wiping \cup {"lock"}
      BY <1>12, FailFacts DEF Redial, Connected, Building, Wiping
    <2> QED
      BY <2>1, <2>2, <2>3, RouteMove
  <1>13. ASSUME NEW g \in Goroutine, GetProfile(g) PROVE RouteInv'
    <2> SUFFICES ASSUME ~straddled', Settled'
                 PROVE  /\ pool' \subseteq {addr'}
                        /\ \A h \in Goroutine :
                             /\ pc'[h] \in Building => prof'[h].route = addr'
                             /\ fresh'[h] # Nil => about'[fresh'[h]].route = addr'
                        /\ \A i \in Index : slot'[i] # Nil => about'[slot'[i]].route = addr'
      BY DEF RouteInv
    <2>1. Settled
      <3>1. \A o \in Other : pc'[o] = pc[o] \/ o = g
        BY <1>13, ReturnMoves DEF GetProfile
      <3>2. pc[g] \notin Wiping \cup {"lock"}
        BY <1>13 DEF GetProfile, Wiping
      <3> QED
        BY <3>1, <3>2 DEF Settled
    <2>2. prof'[g].route = addr
      BY <1>13, <2>1 DEF GetProfile, RouteInv
    <2>3. UNCHANGED <<pool, addr, about, fresh, slot>>
      BY <1>13 DEF GetProfile
    <2>4. \A h \in Goroutine \ {g} : pc'[h] = pc[h] /\ prof'[h] = prof[h]
      BY <1>13 DEF GetProfile
    <2> QED
      BY <2>1, <2>2, <2>3, <2>4 DEF RouteInv
  <1>14. ASSUME NEW g \in Goroutine, GetNothing(g) PROVE RouteInv'
    <2>0. PICK ok \in BOOLEAN : Return(g, ok)
      BY <1>14 DEF GetNothing
    <2>1. addr' = addr /\ pool' = pool /\ about' = about
      BY <1>14 DEF GetNothing
    <2>2. /\ \A i \in Index : slot'[i] \in {slot[i], Nil}
          /\ \A h \in Goroutine : fresh'[h] \in {fresh[h], Nil}
      BY <1>14, <2>0, ReturnFacts DEF GetNothing
    <2>3. /\ \A h \in Goroutine \ {g} : pc'[h] = pc[h] /\ prof'[h] = prof[h]
          /\ pc'[g] \in Building => pc[g] \in Building /\ prof'[g] = prof[g]
          /\ g \in Other /\ pc[g] \in Wiping \cup {"lock"} => pc'[g] \in Wiping \cup {"lock"}
      BY <1>14, <2>0, ReturnFacts DEF GetNothing, Building, Wiping
    <2> QED
      BY <2>1, <2>2, <2>3, RouteMove
  <1>15. ASSUME NEW g \in Goroutine, PutBack(g) PROVE RouteInv'
    <2> SUFFICES ASSUME ~straddled', Settled'
                 PROVE  /\ pool' \subseteq {addr'}
                        /\ \A h \in Goroutine :
                             /\ pc'[h] \in Building => prof'[h].route = addr'
                             /\ fresh'[h] # Nil => about'[fresh'[h]].route = addr'
                        /\ \A i \in Index : slot'[i] # Nil => about'[slot'[i]].route = addr'
      BY DEF RouteInv
    <2>1. Settled
      <3>1. \A o \in Other : pc'[o] = pc[o] \/ o = g
        BY <1>15, ReturnMoves DEF PutBack
      <3>2. pc[g] \notin Wiping \cup {"lock"}
        BY <1>15 DEF PutBack, Wiping
      <3> QED
        BY <3>1, <3>2 DEF Settled
    <2>2. pool' \subseteq {addr} /\ addr' = addr /\ slot' = slot /\ prof[g].route = addr
      BY <1>15, <2>1 DEF PutBack, RouteInv, Building
    <2>3. CASE Return(g, FALSE) /\ about' = about
      <3>1. PICK ok \in BOOLEAN : Return(g, ok)
        BY <2>3
      <3>2. /\ \A h \in Goroutine \ {g} : pc'[h] = pc[h] /\ prof'[h] = prof[h] /\ fresh'[h] = fresh[h]
            /\ pc'[g] \notin Building /\ fresh'[g] = Nil
        BY <3>1, ReturnFacts DEF Building
      <3> QED
        BY <2>1, <2>2, <2>3, <3>2 DEF RouteInv
    <2>4. CASE Make(g) /\ prof' = prof /\ \A h \in Goroutine \ {g} : pc'[h] = pc[h]
      <3>1. /\ fresh'[g] = made + 1 /\ about'[made + 1] = prof[g] /\ made \in Nat
            /\ \A s \in Session \ {made + 1} : about'[s] = about[s]
            /\ \A h \in Goroutine \ {g} : fresh'[h] = fresh[h]
        BY <2>4, MakeFacts
      <3>2. \A s \in 1..made : about'[s] = about[s]
        BY <3>1 DEF Session
      <3>3. /\ \A i \in Index : slot[i] # Nil => slot[i] \in 1..made
            /\ \A h \in Goroutine : fresh[h] # Nil => fresh[h] \in 1..made
        BY <3>1 DEF FreshInv, Nil
      <3> QED
        BY <2>1, <2>2, <2>4, <3>1, <3>2, <3>3 DEF RouteInv
    <2>5. CASE /\ UNCHANGED <<about, fresh, prof>> /\ pc[g] \in Building
               /\ \A h \in Goroutine \ {g} : pc'[h] = pc[h]
      BY <2>1, <2>2, <2>5 DEF RouteInv
    <2> QED
      BY <1>15, <2>3, <2>4, <2>5 DEF PutBack, Building
  <1>16. ASSUME NEW g \in Goroutine, QuicDial(g) PROVE RouteInv'
    <2> SUFFICES ASSUME ~straddled', Settled'
                 PROVE  /\ pool' \subseteq {addr'}
                        /\ \A h \in Goroutine :
                             /\ pc'[h] \in Building => prof'[h].route = addr'
                             /\ fresh'[h] # Nil => about'[fresh'[h]].route = addr'
                        /\ \A i \in Index : slot'[i] # Nil => about'[slot'[i]].route = addr'
      BY DEF RouteInv
    <2>1. Settled
      <3>1. \A o \in Other : pc'[o] = pc[o] \/ o = g
        BY <1>16, ReturnMoves DEF QuicDial
      <3>2. pc[g] \notin Wiping \cup {"lock"}
        BY <1>16 DEF QuicDial, Wiping
      <3> QED
        BY <3>1, <3>2 DEF Settled
    <2>2. pool' \subseteq {addr} /\ addr' = addr /\ slot' = slot /\ prof[g].route = addr
      BY <1>16, <2>1 DEF QuicDial, RouteInv, Building
    <2>3. CASE Return(g, FALSE) /\ about' = about
      <3>1. PICK ok \in BOOLEAN : Return(g, ok)
        BY <2>3
      <3>2. /\ \A h \in Goroutine \ {g} : pc'[h] = pc[h] /\ prof'[h] = prof[h] /\ fresh'[h] = fresh[h]
            /\ pc'[g] \notin Building /\ fresh'[g] = Nil
        BY <3>1, ReturnFacts DEF Building
      <3> QED
        BY <2>1, <2>2, <2>3, <3>2 DEF RouteInv
    <2>4. CASE Make(g) /\ prof' = prof /\ \A h \in Goroutine \ {g} : pc'[h] = pc[h]
      <3>1. /\ fresh'[g] = made + 1 /\ about'[made + 1] = prof[g] /\ made \in Nat
            /\ \A s \in Session \ {made + 1} : about'[s] = about[s]
            /\ \A h \in Goroutine \ {g} : fresh'[h] = fresh[h]
        BY <2>4, MakeFacts
      <3>2. \A s \in 1..made : about'[s] = about[s]
        BY <3>1 DEF Session
      <3>3. /\ \A i \in Index : slot[i] # Nil => slot[i] \in 1..made
            /\ \A h \in Goroutine : fresh[h] # Nil => fresh[h] \in 1..made
        BY <3>1 DEF FreshInv, Nil
      <3> QED
        BY <2>1, <2>2, <2>4, <3>1, <3>2, <3>3 DEF RouteInv
    <2>5. CASE /\ UNCHANGED <<about, fresh, prof>> /\ pc[g] \in Building
               /\ \A h \in Goroutine \ {g} : pc'[h] = pc[h]
      BY <2>1, <2>2, <2>5 DEF RouteInv
    <2> QED
      BY <1>16, <2>3, <2>4, <2>5 DEF QuicDial, Building
  <1>17. ASSUME NEW g \in Goroutine, Check(g) PROVE RouteInv'
    <2>1. addr' = addr /\ pool' = pool /\ about' = about
      BY <1>17 DEF Check
    <2>2. /\ \A i \in Index : slot'[i] \in {slot[i], Nil}
          /\ \A h \in Goroutine : fresh'[h] \in {fresh[h], Nil}
      BY <1>17 DEF Check
    <2>3. /\ \A h \in Goroutine \ {g} : pc'[h] = pc[h] /\ prof'[h] = prof[h]
          /\ pc'[g] \in Building => pc[g] \in Building /\ prof'[g] = prof[g]
          /\ g \in Other /\ pc[g] \in Wiping \cup {"lock"} => pc'[g] \in Wiping \cup {"lock"}
      BY <1>17 DEF Check, Panic, Built, Building, Wiping
    <2> QED
      BY <2>1, <2>2, <2>3, RouteMove
  <1>18. ASSUME NEW g \in Goroutine, CloseOld(g) PROVE RouteInv'
    <2>1. addr' = addr /\ pool' = pool /\ about' = about
      BY <1>18 DEF CloseOld
    <2>2. /\ \A i \in Index : slot'[i] \in {slot[i], Nil}
          /\ \A h \in Goroutine : fresh'[h] \in {fresh[h], Nil}
      BY <1>18 DEF CloseOld
    <2>3. /\ \A h \in Goroutine \ {g} : pc'[h] = pc[h] /\ prof'[h] = prof[h]
          /\ pc'[g] \in Building => pc[g] \in Building /\ prof'[g] = prof[g]
          /\ g \in Other /\ pc[g] \in Wiping \cup {"lock"} => pc'[g] \in Wiping \cup {"lock"}
      BY <1>18 DEF CloseOld, Panic, Built, Building, Wiping
    <2> QED
      BY <2>1, <2>2, <2>3, RouteMove
  <1>19. ASSUME NEW g \in Goroutine, PutNil(g) PROVE RouteInv'
    <2>1. addr' = addr /\ pool' = pool /\ about' = about
      BY <1>19 DEF PutNil
    <2>2. /\ \A i \in Index : slot'[i] \in {slot[i], Nil}
          /\ \A h \in Goroutine : fresh'[h] \in {fresh[h], Nil}
      BY <1>19 DEF PutNil
    <2>3. /\ \A h \in Goroutine \ {g} : pc'[h] = pc[h] /\ prof'[h] = prof[h]
          /\ pc'[g] \in Building => pc[g] \in Building /\ prof'[g] = prof[g]
          /\ g \in Other /\ pc[g] \in Wiping \cup {"lock"} => pc'[g] \in Wiping \cup {"lock"}
      BY <1>19 DEF PutNil, Building, Wiping
    <2> QED
      BY <2>1, <2>2, <2>3, RouteMove
  <1>20. ASSUME NEW g \in Goroutine, PutFresh(g) PROVE RouteInv'
    <2> SUFFICES ASSUME ~straddled', Settled'
                 PROVE  /\ pool' \subseteq {addr'}
                        /\ \A h \in Goroutine :
                             /\ pc'[h] \in Building => prof'[h].route = addr'
                             /\ fresh'[h] # Nil => about'[fresh'[h]].route = addr'
                        /\ \A i \in Index : slot'[i] # Nil => about'[slot'[i]].route = addr'
      BY DEF RouteInv
    <2>1. Settled
      <3>1. \A o \in Other : pc'[o] = pc[o] \/ o = g
        BY <1>20, ReturnMoves DEF PutFresh
      <3>2. pc[g] \notin Wiping \cup {"lock"}
        BY <1>20 DEF PutFresh, Wiping
      <3> QED
        BY <3>1, <3>2 DEF Settled
    <2>2. PICK ok \in BOOLEAN : Return(g, ok)
      BY <1>20 DEF PutFresh
    <2>3. UNCHANGED <<pool, addr, about>> /\ \A i \in Index : slot'[i] \in {slot[i], fresh[g]}
      BY <1>20 DEF PutFresh
    <2>4. /\ \A h \in Goroutine \ {g} : pc'[h] = pc[h] /\ prof'[h] = prof[h] /\ fresh'[h] = fresh[h]
          /\ pc'[g] \notin Building /\ fresh'[g] = Nil
      BY <2>2, ReturnFacts DEF Building
    <2> QED
      BY <2>1, <2>3, <2>4 DEF RouteInv
  <1>21. ASSUME NEW o \in Other, Build(o) PROVE RouteInv'
    <2>1. addr' = addr /\ pool' = pool /\ about' = about
      BY <1>21 DEF Build
    <2>2. /\ \A i \in Index : slot'[i] \in {slot[i], Nil}
          /\ \A h \in Goroutine : fresh'[h] \in {fresh[h], Nil}
      BY <1>21 DEF Build
    <2>3. /\ \A h \in Goroutine \ {o} : pc'[h] = pc[h] /\ prof'[h] = prof[h]
          /\ pc'[o] \in Building => pc[o] \in Building /\ prof'[o] = prof[o]
          /\ o \in Other /\ pc[o] \in Wiping \cup {"lock"} => pc'[o] \in Wiping \cup {"lock"}
      BY <1>21 DEF Build, Building, Wiping
    <2> QED
      BY <2>1, <2>2, <2>3, RouteMove
  <1>22. ASSUME NEW o \in Other, Report(o) PROVE RouteInv'
    <2>1. addr' = addr /\ pool' = pool /\ about' = about
      BY <1>22 DEF Report
    <2>2. /\ \A i \in Index : slot'[i] \in {slot[i], Nil}
          /\ \A h \in Goroutine : fresh'[h] \in {fresh[h], Nil}
      BY <1>22 DEF Report
    <2>3. /\ \A h \in Goroutine \ {o} : pc'[h] = pc[h] /\ prof'[h] = prof[h]
          /\ pc'[o] \in Building => pc[o] \in Building /\ prof'[o] = prof[o]
          /\ o \in Other /\ pc[o] \in Wiping \cup {"lock"} => pc'[o] \in Wiping \cup {"lock"}
      BY <1>22 DEF Report, Building, Wiping
    <2> QED
      BY <2>1, <2>2, <2>3, RouteMove
  <1>23. ASSUME NEW o \in Other, SetAddr(o) PROVE RouteInv'
    <2>1. pc'[o] = "lock"
      BY <1>23 DEF SetAddr
    <2> QED
      BY <2>1 DEF RouteInv, Settled
  <1>24. ASSUME NEW o \in Other, Sweep(o) PROVE RouteInv'
    <2>1. addr' = addr /\ pool' = pool /\ about' = about
      BY <1>24 DEF Sweep
    <2>2. /\ \A i \in Index : slot'[i] \in {slot[i], Nil}
          /\ \A h \in Goroutine : fresh'[h] \in {fresh[h], Nil}
      BY <1>24 DEF Sweep
    <2>3. /\ \A h \in Goroutine \ {o} : pc'[h] = pc[h] /\ prof'[h] = prof[h]
          /\ pc'[o] \in Building => pc[o] \in Building /\ prof'[o] = prof[o]
          /\ o \in Other /\ pc[o] \in Wiping \cup {"lock"} => pc'[o] \in Wiping \cup {"lock"}
      BY <1>24, LoopFacts DEF Sweep, Building, Wiping
    <2> QED
      BY <2>1, <2>2, <2>3, RouteMove
  <1>25. ASSUME NEW o \in Other, SweepStore(o) PROVE RouteInv'
    <2>1. addr' = addr /\ pool' = pool /\ about' = about
      BY <1>25 DEF SweepStore
    <2>2. /\ \A i \in Index : slot'[i] \in {slot[i], Nil}
          /\ \A h \in Goroutine : fresh'[h] \in {fresh[h], Nil}
      BY <1>25 DEF SweepStore
    <2>3. /\ \A h \in Goroutine \ {o} : pc'[h] = pc[h] /\ prof'[h] = prof[h]
          /\ pc'[o] \in Building => pc[o] \in Building /\ prof'[o] = prof[o]
          /\ o \in Other /\ pc[o] \in Wiping \cup {"lock"} => pc'[o] \in Wiping \cup {"lock"}
      BY <1>25, LoopFacts DEF SweepStore, Building, Wiping
    <2> QED
      BY <2>1, <2>2, <2>3, RouteMove
  <1>26. ASSUME NEW o \in Other, LockAll(o) PROVE RouteInv'
    <2>1. addr' = addr /\ pool' = pool /\ about' = about
      BY <1>26 DEF LockAll
    <2>2. /\ \A i \in Index : slot'[i] \in {slot[i], Nil}
          /\ \A h \in Goroutine : fresh'[h] \in {fresh[h], Nil}
      BY <1>26 DEF LockAll
    <2>3. /\ \A h \in Goroutine \ {o} : pc'[h] = pc[h] /\ prof'[h] = prof[h]
          /\ pc'[o] \in Building => pc[o] \in Building /\ prof'[o] = prof[o]
          /\ o \in Other /\ pc[o] \in Wiping \cup {"lock"} => pc'[o] \in Wiping \cup {"lock"}
      BY <1>26 DEF LockAll, Building, Wiping
    <2> QED
      BY <2>1, <2>2, <2>3, RouteMove
  <1>27. ASSUME NEW o \in Other, Wipe(o) PROVE RouteInv'
    <2>1. addr' = addr /\ pool' = pool /\ about' = about
      BY <1>27 DEF Wipe
    <2>2. /\ \A i \in Index : slot'[i] \in {slot[i], Nil}
          /\ \A h \in Goroutine : fresh'[h] \in {fresh[h], Nil}
      BY <1>27 DEF Wipe
    <2>3. /\ \A h \in Goroutine \ {o} : pc'[h] = pc[h] /\ prof'[h] = prof[h]
          /\ pc'[o] \in Building => pc[o] \in Building /\ prof'[o] = prof[o]
          /\ o \in Other /\ pc[o] \in Wiping \cup {"lock"} => pc'[o] \in Wiping \cup {"lock"}
      BY <1>27, LoopFacts DEF Wipe, NextWipe, Building, Wiping
    <2> QED
      BY <2>1, <2>2, <2>3, RouteMove
  <1>28. ASSUME NEW o \in Other, WipeClose(o) PROVE RouteInv'
    <2>1. addr' = addr /\ pool' = pool /\ about' = about
      BY <1>28 DEF WipeClose
    <2>2. /\ \A i \in Index : slot'[i] \in {slot[i], Nil}
          /\ \A h \in Goroutine : fresh'[h] \in {fresh[h], Nil}
      BY <1>28 DEF WipeClose
    <2>3. /\ \A h \in Goroutine \ {o} : pc'[h] = pc[h] /\ prof'[h] = prof[h]
          /\ pc'[o] \in Building => pc[o] \in Building /\ prof'[o] = prof[o]
          /\ o \in Other /\ pc[o] \in Wiping \cup {"lock"} => pc'[o] \in Wiping \cup {"lock"}
      BY <1>28 DEF WipeClose, Panic, Building, Wiping
    <2> QED
      BY <2>1, <2>2, <2>3, RouteMove
  <1>29. ASSUME NEW o \in Other, WipeStore(o) PROVE RouteInv'
    <2>1. addr' = addr /\ pool' = pool /\ about' = about
      BY <1>29 DEF WipeStore
    <2>2. /\ \A i \in Index : slot'[i] \in {slot[i], Nil}
          /\ \A h \in Goroutine : fresh'[h] \in {fresh[h], Nil}
      BY <1>29 DEF WipeStore
    <2>3. /\ \A h \in Goroutine \ {o} : pc'[h] = pc[h] /\ prof'[h] = prof[h]
          /\ pc'[o] \in Building => pc[o] \in Building /\ prof'[o] = prof[o]
          /\ o \in Other /\ pc[o] \in Wiping \cup {"lock"} => pc'[o] \in Wiping \cup {"lock"}
      BY <1>29, LoopFacts DEF WipeStore, NextWipe, Building, Wiping
    <2> QED
      BY <2>1, <2>2, <2>3, RouteMove
  <1>30. ASSUME NEW o \in Other, Reinit(o) PROVE RouteInv'
    <2> SUFFICES ASSUME ~straddled', Settled'
                 PROVE  /\ pool' \subseteq {addr'}
                        /\ \A h \in Goroutine : pc'[h] \notin Building /\ fresh'[h] = Nil
                        /\ \A i \in Index : slot'[i] = Nil
      BY DEF RouteInv
    <2>1. pc[o] \in Wiping /\ pc[o] = "init"
      BY <1>30 DEF Reinit, Wiping
    <2>2. \A h \in Goroutine : pc[h] \notin Building
      BY <2>1 DEF Latched, Straddle
    <2>3. \A h \in Goroutine : pc'[h] \notin Building
      BY <1>30, <2>2 DEF Reinit, Building
    <2>4. \A h \in Goroutine : fresh[h] = Nil
      BY <2>2 DEF FreshInv, Building
    <2>5. \A i \in Index : slot[i] = Nil
      BY <2>1 DEF WipedInv
    <2> QED
      BY <1>30, <2>3, <2>4, <2>5 DEF Reinit
  <1>31. ASSUME NEW s \in Session, Break(s) PROVE RouteInv'
    <2>1. UNCHANGED <<addr, pool, about, slot, fresh, pc, prof>>
      BY <1>31 DEF Break
    <2> QED
      BY <2>1 DEF RouteInv, Settled
  <1>32. ASSUME NEW s \in Session, Notice(s) PROVE RouteInv'
    <2>1. UNCHANGED <<addr, pool, about, slot, fresh, pc, prof>>
      BY <1>32 DEF Notice
    <2> QED
      BY <2>1 DEF RouteInv, Settled
  <1>33. QED
    BY <1>1, <1>2, <1>3, <1>4, <1>5, <1>6, <1>7, <1>8, <1>9, <1>10, <1>11, <1>12, <1>13,
       <1>14, <1>15, <1>16, <1>17, <1>18, <1>19, <1>20, <1>21, <1>22, <1>23, <1>24,
       <1>25, <1>26, <1>27, <1>28, <1>29, <1>30, <1>31, <1>32
    DEF Step, RequestStep, RebuildStep, ClearStep

ChangeInv == SafeInv /\ WipedInv /\ RouteInv

\* The invariant holds at the start ...
LEMMA ChangeInit == Init => ChangeInv
  <1> SUFFICES ASSUME Init PROVE ChangeInv
    OBVIOUS
  <1>1. \A g \in Goroutine : pc[g] = "idle" /\ fresh[g] = Nil
    BY DEF Init
  <1>2. WipedInv
    BY <1>1, ConstantFacts DEF WipedInv, Wiping
  <1>3. RouteInv
    BY <1>1 DEF Init, RouteInv, Building
  <1> QED
    BY <1>2, <1>3, SafeInit DEF ChangeInv

\* ... and each step keeps it.
LEMMA ChangeStep ==
  ASSUME ChangeInv, [Next]_vars PROVE ChangeInv'
  <1>1. SafeInv'
    BY SafeStep DEF ChangeInv
  <1>2. CASE Next
    BY <1>1, <1>2, WipedStep, RouteStep DEF ChangeInv, SafeInv
  <1>3. CASE UNCHANGED vars
    <2>1. UNCHANGED <<slot, addr, pool, about, pc, no, prof, fresh, straddled>>
      BY <1>3 DEF vars, list, session, local, rebuild, history
    <2> QED
      BY <1>1, <2>1 DEF ChangeInv, WipedInv, RouteInv, Settled
  <1> QED
    BY <1>2, <1>3

\* Only a rebuild that straddles the change of the route lists a session of an
\* earlier one.
THEOREM NoStaleSession == Spec => []ListedIsOfRoute
  <1>1. Spec => []ChangeInv
    BY ChangeInit, ChangeStep, PTL DEF Spec
  <1>2. ChangeInv => ListedIsOfRoute
    BY DEF ChangeInv, RouteInv, Settled, ListedIsOfRoute
  <1> QED
    BY <1>1, <1>2, PTL

-----------------------------------------------------------------------------
(* A request without a rival.  What it knows is kept while none of its     *)
(* dials fails and nobody else is under way while it is.                   *)

Lone(r) == r \notin rivalled \cup dialFailed

\* Where a request that asks for the second time is past the session s, which
\* the round robin pointed to when it asked first.
Behind(r, s) ==
    /\ pc[r] = "retry" => \A j \in Index \ {lastUse} : slot[j] # s
    /\ pc[r] = "bump" => \A j \in Index \ {lastUse - 1} : slot[j] # s
    /\ pc[r] \notin {"retry", "bump"} /\ ClientNum > 1 =>
         slot[lastUse] # s /\ e[r] # s /\ fresh[r] # s

MetOne(r) == ~Resting(r) /\ try[r] = 2 => \E s \in met[r] : Behind(r, s)

MetEnough(r) == \E s, t \in met[r] : ClientNum > 1 => s # t

\* What a request has in hand, where it stands.
Hand(r) ==
    /\ e[r] \in 0..made
    /\ Resting(r) \/ pc[r] \in {"bump", "peek", "retry"} => e[r] = Nil
    /\ e[r] # Nil => \A j \in Index \ {lastUse} : slot[j] # e[r]
    /\ pc[r] \in {"profile"} \cup Building => no[r] = lastUse
    /\ pc[r] \in {"put", "put2"} => fresh[r] # Nil
    /\ pc[r] \in {"check", "close"} /\ prof[r].kind = "smux" => fresh[r] # Nil
    /\ pc[r] = "reread" => slot[lastUse] # Nil
    /\ pc[r] # "rereadErr"
    /\ pc[r] = "idle" => try[r] = 1
    /\ pc[r] = "retry" => try[r] = 2

Walk(r) == Hand(r) /\ MetOne(r) /\ (pc[r] = "failed" => MetEnough(r))

CalmInv == \A r \in Request : Lone(r) => Walk(r)

\* What a step writes down of what the request r met.
Recorded(r) ==
    /\ met[r] \subseteq met'[r]
    /\ GivesUp(r) /\ e[r] \in closed \cup gone => e[r] \in met'[r]

\* A step of g leaves the others alone, and g is under way before or after it.
Moves(g) ==
    /\ \A h \in Goroutine \ {g} : pc'[h] = pc[h] /\ e'[h] = e[h] /\ try'[h] = try[h]
    /\ ~Resting(g) \/ ~Resting(g)'
    /\ dialFailed \subseteq dialFailed'

\* The steps of GetSession and NewConnnect are such steps.
LEMMA RequestMoves ==
  ASSUME TypeOK, NEW r \in Request, Bump(r, "idle") \/ RequestStep(r) PROVE Moves(r)
  <1> USE ConstantFacts DEF TypeOK, Resting, Ended, Goto
  <1>0. dialFailed \subseteq dialFailed'
    BY DEF RequestStep, Bump, WrapAround, Peek, Argument, Reread, RereadErr, TestClosed,
           NewConnnect, OpenStream, Reclient, Reopen, Redial
  <1>1. CASE Bump(r, "idle")
    BY <1>1 DEF Bump, Moves, local
  <1>2. CASE RequestStep(r)
    <2>1. ~Resting(r)
      BY <1>2 DEF RequestStep, Bump, WrapAround, Peek, Argument, Reread, RereadErr, TestClosed,
                  NewConnnect, OpenStream, Reclient, Reopen, Redial
    <2>2. \A h \in Goroutine \ {r} : pc'[h] = pc[h] /\ e'[h] = e[h] /\ try'[h] = try[h]
      <3>1. CASE Bump(r, "retry") \/ WrapAround(r) \/ Argument(r) \/ TestClosed(r) \/ Reclient(r)
        BY <3>1 DEF Bump, WrapAround, Argument, TestClosed, Reclient, local
      <3>2. CASE Fail(r)
        BY <3>2, FailFacts
      <3>3. CASE ~Fail(r) /\ (Peek(r) \/ Reread(r) \/ RereadErr(r))
        BY <3>3 DEF Peek, Reread, RereadErr, Panic
      <3>4. CASE ~Fail(r) /\ (NewConnnect(r) \/ OpenStream(r) \/ Reopen(r) \/ Redial(r))
        BY <3>4 DEF NewConnnect, OpenStream, Connected, Reopen, Redial, Panic
      <3> QED
        BY <1>2, <3>1, <3>2, <3>3, <3>4 DEF RequestStep
    <2> QED
      BY <1>0, <2>1, <2>2 DEF Moves
  <1> QED
    BY <1>1, <1>2

\* So are those of a rebuild.
LEMMA RebuildMoves ==
  ASSUME TypeOK, NEW g \in Goroutine, RebuildStep(g) PROVE Moves(g)
  <1> USE ConstantFacts DEF TypeOK, Goto
  <1>1. dialFailed \subseteq dialFailed'
    BY DEF RebuildStep, GetProfile, GetNothing, PutBack, QuicDial, Check, CloseOld, PutNil, PutFresh
  <1>2. ~Resting(g)
    BY DEF RebuildStep, GetProfile, GetNothing, PutBack, QuicDial, Check, CloseOld, PutNil,
           PutFresh, Resting, Ended
  <1>3. \A h \in Goroutine \ {g} : pc'[h] = pc[h] /\ e'[h] = e[h] /\ try'[h] = try[h]
    <2>1. CASE Return(g, TRUE) \/ Return(g, FALSE)
      <3>1. PICK ok \in BOOLEAN : Return(g, ok)
        BY <2>1
      <3> QED
        BY <3>1, ReturnFacts
    <2>2. CASE ~Return(g, TRUE) /\ ~Return(g, FALSE)
      <3>1. CASE GetProfile(g) \/ GetNothing(g) \/ PutBack(g) \/ QuicDial(g)
        BY <2>2, <3>1 DEF GetProfile, GetNothing, PutBack, QuicDial, local
      <3>2. CASE Check(g) \/ CloseOld(g) \/ PutNil(g) \/ PutFresh(g)
        BY <2>2, <3>2 DEF Check, CloseOld, PutNil, PutFresh, Panic, local
      <3> QED
        BY <3>1, <3>2 DEF RebuildStep
    <2> QED
      BY <2>1, <2>2
  <1> QED
    BY <1>1, <1>2, <1>3 DEF Moves

\* And those that clear the list.
LEMMA ClearMoves ==
  ASSUME TypeOK, NEW o \in Other, Build(o) \/ Report(o) \/ SetAddr(o) \/ ClearStep(o)
  PROVE  Moves(o)
  <1> USE ConstantFacts DEF TypeOK, Goto, Resting, Ended
  <1>1. CASE Build(o) \/ Report(o) \/ SetAddr(o)
    BY <1>1 DEF Build, Report, SetAddr, Moves, local
  <1>2. CASE ClearStep(o)
    <2>1. ~Resting(o) /\ dialFailed' = dialFailed
      BY <1>2 DEF ClearStep, Sweep, SweepStore, LockAll, Wipe, WipeClose, WipeStore, Reinit
    <2>2. \A h \in Goroutine \ {o} : pc'[h] = pc[h] /\ e'[h] = e[h] /\ try'[h] = try[h]
      <3>1. CASE Sweep(o) \/ SweepStore(o) \/ LockAll(o)
        BY <3>1 DEF Sweep, SweepStore, LockAll, NextIndex
      <3>2. CASE Wipe(o) \/ WipeClose(o) \/ WipeStore(o) \/ Reinit(o)
        BY <3>2 DEF Wipe, WipeClose, WipeStore, NextWipe, NextIndex, Reinit, Panic, local
      <3> QED
        BY <1>2, <3>1, <3>2 DEF ClearStep
    <2> QED
      BY <2>1, <2>2 DEF Moves
  <1> QED
    BY <1>1, <1>2

\* The entry that the round robin points to, for a request under way.
LEMMA CalmAt ==
  ASSUME Shape, FreshInv, NEW r \in Request, ~Rivalled(r), ~Resting(r), pc[r] # "bump"
  PROVE  lastUse \in Index /\ slot[lastUse] \in 0..made
  <1>1. \A q \in Request : q # r => Resting(q)
    BY ConstantFacts DEF Rivalled
  <1>2. lastUse # ClientNum
    BY <1>1 DEF Shape, LockHeld, Resting, Ended
  <1>3. pc[r] # "idle"
    BY DEF Resting
  <1> QED
    BY <1>2, <1>3, EntryRead DEF FreshInv

\* A request that rests knows nothing that others could change.
LEMMA RestStays ==
  ASSUME FreshInv, FreshInv', NEW q \in Request, Recorded(q), made \in Nat, made' \in Nat,
         Walk(q), Resting(q), pc'[q] = pc[q], e'[q] = e[q], try'[q] = try[q]
  PROVE  Walk(q)'
  <1>1. q \in Goroutine /\ Resting(q)' /\ e'[q] = Nil
    BY ConstantFacts DEF Resting, Walk, Hand
  <1>2. fresh'[q] = Nil
    BY <1>1 DEF FreshInv, Resting, Ended
  <1>3. pc'[q] = "failed" => MetEnough(q)'
    BY DEF Walk, MetEnough, Recorded
  <1>4. Hand(q)'
    BY <1>1, <1>2 DEF Walk, Hand, Resting, Ended, Building, Nil
  <1> QED
    BY <1>1, <1>3, <1>4 DEF Walk, MetOne

\* A session it has met stays behind it while it works on the entry the round
\* robin points to.
LEMMA MetStays ==
  ASSUME MetMade, NEW r \in Request, Recorded(r), MetOne(r), made \in Nat,
         UNCHANGED lastUse, ~Resting(r), pc[r] \notin {"retry", "bump"},
         pc'[r] \notin {"retry", "bump"}, try'[r] = try[r],
         slot'[lastUse] \in {Nil, slot[lastUse], fresh[r]},
         e'[r] \in {Nil, e[r], slot[lastUse]}, fresh'[r] \in {Nil, fresh[r], made + 1}
  PROVE  MetOne(r)'
  <1> SUFFICES ASSUME try[r] = 2
               PROVE  \E s \in met'[r] : Behind(r, s)'
    BY DEF MetOne
  <1>1. PICK s \in met[r] : Behind(r, s)
    BY DEF MetOne
  <1>2. s \in met'[r] /\ s # Nil /\ s # made + 1
    BY <1>1 DEF Recorded, MetMade, Nil
  <1>3. Behind(r, s)'
    BY <1>1, <1>2 DEF Behind
  <1> QED
    BY <1>2, <1>3

\* A request that fails on the dead session in its hand has met one more.
LEMMA FailMet ==
  ASSUME Shape, NEW r \in Request, Recorded(r), Walk(r), ~Resting(r),
         pc[r] \notin {"bump", "retry"}, UNCHANGED <<slot, lastUse, made, fresh>>,
         e[r] \in closed \cup gone, e[r] # Nil, Fail(r), fresh[r] = Nil
  PROVE  Walk(r)'
  <1>1. /\ e'[r] = Nil /\ made \in Nat /\ r \in Goroutine /\ fresh'[r] = Nil /\ try[r] \in 1..2
        /\ pc'[r] \in {"retry", "failed"}
    BY ConstantFacts DEF Fail, Goto, Shape, TypeOK
  <1>2. PICK d \in met'[r] : d = e[r]
    BY <1>1 DEF Recorded, GivesUp, Resting, Ended
  <1>3. CASE try[r] = 1
    <2>1. pc'[r] = "retry" /\ try'[r] = 2
      BY <1>1, <1>3 DEF Fail, Goto, Shape, TypeOK
    <2>2. Behind(r, d)'
      BY <1>2, <2>1 DEF Behind, Walk, Hand
    <2>3. MetOne(r)'
      BY <1>2, <2>2 DEF MetOne
    <2>4. Hand(r)'
      BY <1>1, <2>1 DEF Hand, Resting, Ended, Building, Nil
    <2> QED
      BY <2>1, <2>3, <2>4 DEF Walk
  <1>4. CASE try[r] = 2
    <2>1. pc'[r] = "failed"
      BY <1>1, <1>4 DEF Fail, Goto, Shape, TypeOK
    <2>2. PICK s \in met[r] : Behind(r, s)
      BY <1>4 DEF Walk, MetOne
    <2>3. s \in met'[r] /\ (ClientNum > 1 => s # d)
      BY <1>2, <2>2 DEF Behind, Recorded
    <2>4. MetEnough(r)'
      BY <1>2, <2>3 DEF MetEnough
    <2>5. Resting(r)'
      BY <2>1 DEF Resting, Ended
    <2>6. Hand(r)'
      BY <1>1, <2>1 DEF Hand, Resting, Ended, Building, Nil
    <2> QED
      BY <2>4, <2>5, <2>6 DEF Walk, MetOne
  <1> QED
    BY <1>1, <1>3, <1>4

\* The steps of GetSession and NewConnnect.
LEMMA CalmRequest ==
  ASSUME SafeInv, NEW r \in Request, Walk(r), Recorded(r), ~Rivalled(r), r \notin dialFailed',
         Bump(r, "idle") \/ RequestStep(r)
  PROVE  Walk(r)'
  <1> USE DEF SafeInv
  <1>0. /\ r \in Goroutine /\ made \in Nat /\ ClientNum \in Nat /\ ClientNum > 0
        /\ Hand(r) /\ MetOne(r)
    BY ConstantFacts DEF Shape, TypeOK, Walk
  <1> USE <1>0
  <1>1. /\ pc \in [Goroutine -> Labels] /\ no \in [Goroutine -> 0..ClientNum]
        /\ e \in [Goroutine -> 0..MaxSession] /\ prof \in [Goroutine -> Profile]
        /\ fresh \in [Goroutine -> 0..MaxSession] /\ round \in [Goroutine -> 0..2]
        /\ try \in [Goroutine -> 1..2] /\ about \in [Session -> Profile]
        /\ slot \in [Index -> 0..MaxSession] /\ lastUse \in -1..ClientNum
    BY DEF Shape, TypeOK
  <1>2. pc[r] \notin {"check", "close", "put", "put2"} => fresh[r] = Nil
    BY DEF FreshInv
  <1>3. ASSUME NEW from \in {"idle", "retry"}, Bump(r, from) PROVE Walk(r)'
    <2>1. /\ pc' = [pc EXCEPT ![r] = "bump"] /\ lastUse' = lastUse + 1 /\ pc[r] = from
          /\ UNCHANGED <<slot, made, no, e, prof, fresh, try>>
      BY <1>3 DEF Bump, Goto, session, local, rebuild
    <2>2. Hand(r)'
      BY <1>1, <2>1 DEF Hand, Resting, Building, Ended, Nil
    <2>3. MetOne(r)'
      <3>1. CASE from = "idle"
        BY <2>1, <3>1 DEF MetOne, Hand
      <3>2. CASE from = "retry"
        <4>1. try[r] = 2 /\ ~Resting(r)
          BY <2>1, <3>2 DEF Hand, Resting, Ended
        <4>2. PICK s \in met[r] : Behind(r, s)
          BY <4>1 DEF MetOne
        <4>3. lastUse' - 1 = lastUse
          BY <1>1, <2>1
        <4>4. Behind(r, s)' /\ s \in met'[r]
          BY <1>1, <2>1, <3>2, <4>2, <4>3 DEF Behind, Recorded
        <4> QED
          BY <4>4 DEF MetOne
      <3> QED
        BY <3>1, <3>2
    <2> QED
      BY <1>1, <2>1, <2>2, <2>3 DEF Walk
  <1>4. CASE WrapAround(r)
    <2>1. /\ pc' = [pc EXCEPT ![r] = "peek"] /\ lastUse' = lastUse % ClientNum
          /\ pc[r] = "bump" /\ UNCHANGED <<slot, made, no, e, prof, fresh, try>>
      BY <1>4 DEF WrapAround, Goto, session, local, rebuild
    <2>2. ~Resting(r)
      BY <2>1 DEF Resting, Ended
    <2>3. Hand(r)'
      BY <1>1, <2>1 DEF Hand, Resting, Building, Ended, Nil
    <2>4. MetOne(r)'
      <3> SUFFICES ASSUME try[r] = 2
                   PROVE  \E s \in met'[r] : Behind(r, s)'
        BY <2>1 DEF MetOne
      <3>1. PICK s \in met[r] : Behind(r, s)
        BY <2>2 DEF MetOne
      <3>2. \A j \in Index \ {lastUse - 1} : slot[j] # s
        BY <2>1, <3>1 DEF Behind
      <3>3. lastUse >= 0
        BY <2>1 DEF Shape, LockHeld
      <3>4. lastUse' \in Index /\ (ClientNum > 1 => lastUse' # lastUse - 1)
        <4>1. CASE lastUse = ClientNum
          BY <2>1, <4>1 DEF Index
        <4>2. CASE lastUse < ClientNum
          <5>1. lastUse \in Nat /\ lastUse % ClientNum = lastUse
            BY <1>1, <3>3, <4>2
          <5> QED
            BY <2>1, <4>2, <5>1 DEF Index
        <4> QED
          BY <1>1, <4>1, <4>2
      <3>5. e'[r] = Nil /\ fresh'[r] = Nil /\ s # Nil
        BY <1>2, <2>1, <3>1 DEF Hand, Nil, MetMade
      <3>6. Behind(r, s)'
        BY <1>1, <2>1, <3>2, <3>4, <3>5 DEF Behind
      <3> QED
        BY <3>1, <3>6 DEF Recorded
    <2> QED
      BY <1>1, <2>1, <2>3, <2>4 DEF Walk
  <1> DEFINE Still == UNCHANGED <<slot, lastUse, made, no, prof, fresh>>
             Moved == pc' = [pc EXCEPT ![r] = pc'[r]] /\ try' = try
             Underway == ~Resting(r) /\ pc[r] \notin {"bump", "retry"}
  <1>5. ASSUME Still, Moved, Underway, pc'[r] \notin {"bump", "retry", "idle", "failed"},
               e'[r] \in {Nil, e[r], slot[lastUse]}, Hand(r)'
        PROVE  Walk(r)'
    <2>1. MetOne(r)'
      BY <1>5, MetStays
    <2> QED
      BY <1>5, <2>1 DEF Walk
  <1>6. Underway => lastUse \in Index /\ slot[lastUse] \in 0..made
    BY CalmAt
  <1>7. ASSUME Fail(r), Still, Underway, e[r] \in closed \cup gone, fresh[r] = Nil
        PROVE  Walk(r)'
    <2>1. e[r] # Nil
      BY <1>7 DEF Dying, Nil
    <2> QED
      BY <1>7, <2>1, FailMet
  <1>8. CASE Peek(r)
    <2>1. pc[r] = "peek" /\ Underway /\ fresh[r] = Nil /\ e[r] = Nil
      BY <1>2, <1>8 DEF Peek, Resting, Ended, Hand
    <2>2. lastUse # ClientNum /\ Still
      BY <1>6, <1>8, <2>1, IndexRange DEF Peek, list, session
    <2>3. /\ e' = [e EXCEPT ![r] = slot[lastUse]] /\ Moved
          /\ pc'[r] = IF slot[lastUse] = Nil THEN "arg" ELSE "test"
      BY <1>1, <1>8, <2>2 DEF Peek, Goto
    <2>4. e'[r] = slot[lastUse]
      BY <1>1, <2>3
    <2>5. Hand(r)'
      BY <1>1, <1>6, <2>1, <2>2, <2>3, <2>4 DEF Hand, Resting, Ended, Building, Distinct, Nil
    <2> QED
      BY <1>5, <2>1, <2>2, <2>3, <2>4, <2>5
  <1>9. CASE Argument(r)
    <2>1. pc[r] = "arg" /\ Underway /\ fresh[r] = Nil
      BY <1>2, <1>9 DEF Argument, Resting, Ended
    <2>2. /\ UNCHANGED <<slot, lastUse, made, e, prof, fresh>> /\ Moved
          /\ pc'[r] = "profile" /\ no' = [no EXCEPT ![r] = lastUse]
      BY <1>1, <1>9 DEF Argument, Goto, list, session
    <2>3. Hand(r)'
      BY <1>1, <1>6, <2>1, <2>2 DEF Hand, Resting, Ended, Building, Nil
    <2>4. MetOne(r)'
      BY <2>1, <2>2, MetStays
    <2> QED
      BY <2>2, <2>3, <2>4 DEF Walk
  <1>10. CASE Reread(r)
    <2>1. pc[r] = "reread" /\ Underway /\ fresh[r] = Nil /\ slot[lastUse] # Nil
      BY <1>2, <1>10 DEF Reread, Resting, Ended, Hand
    <2>2. lastUse # ClientNum /\ Still
      BY <1>6, <1>10, <2>1, IndexRange DEF Reread, list, session, rebuild
    <2>3. e' = [e EXCEPT ![r] = slot[lastUse]] /\ Moved /\ pc'[r] = "test"
      BY <1>1, <1>10, <2>1, <2>2 DEF Reread, Goto
    <2>4. e'[r] = slot[lastUse]
      BY <1>1, <2>3
    <2>5. Hand(r)'
      BY <1>1, <1>6, <2>1, <2>2, <2>3, <2>4 DEF Hand, Resting, Ended, Building, Distinct, Nil
    <2> QED
      BY <1>5, <2>1, <2>2, <2>3, <2>4, <2>5
  <1>11. CASE RereadErr(r)
    BY <1>11 DEF RereadErr, Hand
  <1>12. CASE TestClosed(r)
    <2>1. pc[r] = "test" /\ Underway /\ fresh[r] = Nil
      BY <1>2, <1>12 DEF TestClosed, Resting, Ended
    <2>2. Still /\ Moved /\ e' = e /\ pc'[r] \in {"arg", "connect"}
      BY <1>1, <1>12 DEF TestClosed, Goto, list, session
    <2>3. Hand(r)'
      BY <1>1, <2>1, <2>2 DEF Hand, Resting, Ended, Building, Nil
    <2> QED
      BY <1>5, <2>1, <2>2, <2>3
  <1>13. CASE NewConnnect(r)
    <2>1. pc[r] = "connect" /\ Underway /\ fresh[r] = Nil
      BY <1>2, <1>13 DEF NewConnnect, Resting, Ended
    <2>2. Still
      BY <1>13 DEF NewConnnect, list, session, rebuild
    <2>3. CASE e[r] \in closed
      BY <1>7, <1>13, <2>1, <2>2, <2>3 DEF NewConnnect
    <2>4. CASE e[r] \notin closed
      <3>1. Moved /\ e' = e /\ pc'[r] = "open"
        BY <1>1, <1>13, <2>4 DEF NewConnnect, Goto
      <3>2. Hand(r)'
        BY <1>1, <2>1, <2>2, <3>1 DEF Hand, Resting, Ended, Building, Nil
      <3> QED
        BY <1>5, <2>1, <2>2, <3>1, <3>2
    <2> QED
      BY <2>3, <2>4
  <1>14. ASSUME Connected(r), Still, pc[r] = "open" PROVE Walk(r)'
    <2>1. Underway /\ fresh[r] = Nil
      BY <1>2, <1>14 DEF Resting, Ended
    <2>2. e'[r] = Nil /\ pc'[r] = "connected" /\ try' = try
      BY <1>1, <1>14 DEF Connected, Goto
    <2>3. Hand(r)'
      BY <1>1, <1>14, <2>1, <2>2 DEF Hand, Resting, Ended, Building, Nil
    <2> QED
      BY <2>2, <2>3 DEF Walk, MetOne, Resting, Ended
  <1>15. CASE OpenStream(r)
    BY <1>14, <1>15 DEF OpenStream, list, session, rebuild
  <1>16. CASE Reclient(r)
    <2>1. pc[r] = "open" /\ Underway /\ fresh[r] = Nil
      BY <1>2, <1>16 DEF Reclient, Resting, Ended
    <2>2. Still /\ Moved /\ e' = e /\ pc'[r] = "reopen"
      BY <1>1, <1>16 DEF Reclient, Goto, list, local, rebuild
    <2>3. Hand(r)'
      BY <1>1, <2>1, <2>2 DEF Hand, Resting, Ended, Building, Nil
    <2> QED
      BY <1>5, <2>1, <2>2, <2>3
  <1>17. CASE Reopen(r)
    <2>1. pc[r] = "reopen" /\ Underway /\ fresh[r] = Nil /\ e[r] \in gone
      BY <1>2, <1>17 DEF Reopen, Resting, Ended, ReopenInv
    <2>2. Still
      BY <1>17 DEF Reopen, list, session, rebuild
    <2>3. CASE e[r] \in closed
      <3>1. UNCHANGED <<pc, e, try>>
        BY <1>17, <2>3 DEF Reopen, Panic
      <3>2. Hand(r)'
        BY <2>1, <2>2, <3>1 DEF Hand, Resting, Ended, Building
      <3> QED
        BY <1>1, <1>5, <2>1, <2>2, <3>1, <3>2
    <2>4. CASE e[r] \notin closed
      BY <1>7, <1>17, <2>1, <2>2, <2>4 DEF Reopen
    <2> QED
      BY <2>3, <2>4
  <1>18. CASE Redial(r)
    <2>1. pc[r] = "open" /\ Connected(r) /\ Still
      BY <1>18 DEF Redial, list, rebuild
    <2> QED
      BY <1>14, <2>1
  <1> QED
    BY <1>3, <1>4, <1>8, <1>9, <1>10, <1>11, <1>12, <1>13, <1>15, <1>16, <1>17, <1>18
    DEF RequestStep

\* The steps of a request's RebuildSmux.
LEMMA CalmRebuild ==
  ASSUME SafeInv, NEW r \in Request, Walk(r), Recorded(r), ~Rivalled(r), r \notin dialFailed',
         RebuildStep(r)
  PROVE  Walk(r)'
  <1> USE DEF SafeInv
  <1>0. /\ r \in Goroutine /\ r \notin Other /\ made \in Nat
        /\ ClientNum \in Nat /\ ClientNum > 0 /\ Hand(r) /\ MetOne(r)
    BY ConstantFacts DEF Shape, TypeOK, Walk
  <1> USE <1>0
  <1>1. /\ pc \in [Goroutine -> Labels] /\ no \in [Goroutine -> 0..ClientNum]
        /\ e \in [Goroutine -> 0..MaxSession] /\ prof \in [Goroutine -> Profile]
        /\ fresh \in [Goroutine -> 0..MaxSession] /\ round \in [Goroutine -> 0..2]
        /\ try \in [Goroutine -> 1..2] /\ about \in [Session -> Profile]
        /\ slot \in [Index -> 0..MaxSession] /\ lastUse \in -1..ClientNum
        /\ prof[r].kind \in {"smux", "quic"}
    BY DEF Shape, TypeOK, Profile
  <1>2. pc[r] \notin {"check", "close", "put", "put2"} => fresh[r] = Nil
    BY DEF FreshInv
  <1> DEFINE Underway == ~Resting(r) /\ pc[r] \notin {"bump", "retry"}
  <1>3. Underway => lastUse \in Index /\ slot[lastUse] \in 0..made
    BY CalmAt
  <1>4. ASSUME Underway, pc'[r] \in Building, Hand(r)', UNCHANGED <<lastUse, e, try>>,
               slot'[lastUse] \in {Nil, slot[lastUse]}, fresh'[r] \in {fresh[r], made + 1}
        PROVE  Walk(r)'
    <2>1. MetOne(r)'
      BY <1>4, MetStays DEF Building
    <2> QED
      BY <1>4, <2>1 DEF Walk, Building
  <1>5. CASE GetProfile(r)
    <2>1. pc[r] = "profile" /\ Underway /\ fresh[r] = Nil
      BY <1>2, <1>5 DEF GetProfile, Resting, Ended
    <2>2. UNCHANGED <<slot, lastUse, made, no, e, fresh, try>> /\ pc' = [pc EXCEPT ![r] = "back"]
      BY <1>5 DEF GetProfile, Goto, list, session
    <2>3. Hand(r)'
      BY <1>1, <2>1, <2>2 DEF Hand, Resting, Ended, Building
    <2> QED
      BY <1>1, <1>4, <2>1, <2>2, <2>3 DEF Building
  <1>6. CASE GetNothing(r)
    BY <1>6 DEF GetNothing
  <1>7. ASSUME Make(r), pc[r] \in {"back", "qdial"}, pc'[r] \in {"check", "put"},
               UNCHANGED <<slot, lastUse, no, e, try>>
        PROVE  Walk(r)'
    <2>1. Underway
      BY <1>7 DEF Resting, Ended
    <2>2. made' = made + 1 /\ fresh'[r] = made + 1
      BY <1>7, MakeFacts DEF Shape
    <2>3. Hand(r)'
      BY <1>7, <2>1, <2>2 DEF Hand, Resting, Ended, Building, Nil
    <2> QED
      BY <1>4, <1>7, <2>1, <2>2, <2>3 DEF Building
  <1>8. CASE PutBack(r)
    <2>1. /\ pc[r] = "back" /\ Underway /\ fresh[r] = Nil /\ UNCHANGED <<slot, lastUse>>
      BY <1>2, <1>8 DEF PutBack, Resting, Ended
    <2>2. CASE Make(r) /\ Goto(r, "check") /\ UNCHANGED <<no, e, prof, round, try>>
      BY <1>1, <1>7, <2>1, <2>2 DEF Goto
    <2>3. CASE prof[r].kind = "quic" /\ Goto(r, "check") /\ UNCHANGED <<made, about, local>>
      <3>1. pc' = [pc EXCEPT ![r] = "check"] /\ UNCHANGED <<made, no, e, prof, fresh, try>>
        BY <2>3 DEF Goto, local, rebuild
      <3>2. Hand(r)'
        BY <1>1, <2>1, <2>3, <3>1 DEF Hand, Resting, Ended, Building
      <3> QED
        BY <1>1, <1>4, <2>1, <3>1, <3>2 DEF Building
    <2> QED
      BY <1>8, <2>2, <2>3 DEF PutBack
  <1>9. CASE QuicDial(r)
    <2>1. pc[r] = "qdial" /\ UNCHANGED <<slot, lastUse>>
      BY <1>9 DEF QuicDial, list
    <2>2. Make(r) /\ Goto(r, "put") /\ UNCHANGED <<no, e, prof, round, try>>
      BY <1>9 DEF QuicDial
    <2> QED
      BY <1>1, <1>7, <2>1, <2>2 DEF Goto
  <1>10. ASSUME pc[r] \in {"check", "close"}, pc'[r] \in {"check", "close", "put", "qdial"},
                pc'[r] = "put" => prof[r].kind = "smux",
                UNCHANGED <<slot, lastUse, made, no, e, prof, fresh, try>>
         PROVE  Walk(r)'
    <2>1. Underway
      BY <1>10 DEF Resting, Ended
    <2>2. Hand(r)'
      BY <1>10, <2>1 DEF Hand, Resting, Ended, Building
    <2> QED
      BY <1>4, <1>10, <2>1, <2>2 DEF Building
  <1>11. CASE Check(r)
    <2>1. UNCHANGED <<slot, lastUse, made, no, e, prof, fresh, try>> /\ pc[r] = "check"
      BY <1>11 DEF Check, list, session, local, rebuild
    <2>2. /\ pc'[r] \in {"check", "close", "put", "qdial"}
          /\ pc'[r] = "put" => prof[r].kind = "smux"
      BY <1>1, <1>11 DEF Check, Panic, Built, Goto
    <2> QED
      BY <1>10, <2>1, <2>2
  <1>12. CASE CloseOld(r)
    <2>1. UNCHANGED <<slot, lastUse, made, no, e, prof, fresh, try>> /\ pc[r] = "close"
      BY <1>12 DEF CloseOld, list, local, rebuild
    <2>2. /\ pc'[r] \in {"check", "close", "put", "qdial"}
          /\ pc'[r] = "put" => prof[r].kind = "smux"
      BY <1>1, <1>12 DEF CloseOld, Panic, Built, Goto
    <2> QED
      BY <1>10, <2>1, <2>2
  <1>13. CASE PutNil(r)
    <2>1. /\ slot' = [slot EXCEPT ![no[r]] = Nil] /\ pc[r] = "put"
          /\ pc' = [pc EXCEPT ![r] = "put2"]
          /\ UNCHANGED <<lastUse, made, no, e, prof, fresh, try>>
      BY <1>13 DEF PutNil, Goto, session, local, rebuild
    <2>2. Underway /\ pc'[r] = "put2" /\ no[r] = lastUse
      BY <1>1, <2>1 DEF Resting, Ended, Hand, Building
    <2>3. slot'[lastUse] = Nil /\ \A i \in Index : slot'[i] \in {Nil, slot[i]}
      BY <1>1, <1>3, <2>1, <2>2
    <2>4. Hand(r)'
      BY <2>1, <2>2, <2>3 DEF Hand, Resting, Ended, Building, Nil
    <2> QED
      BY <1>4, <2>1, <2>2, <2>3, <2>4 DEF Building
  <1>14. CASE PutFresh(r)
    <2>1. /\ slot' = [slot EXCEPT ![no[r]] = fresh[r]] /\ pc[r] = "put2"
          /\ Return(r, TRUE) /\ UNCHANGED <<lastUse, made>>
      BY <1>14 DEF PutFresh, session
    <2>2. /\ fresh' = [fresh EXCEPT ![r] = Nil] /\ UNCHANGED <<e, try>>
          /\ pc' = [pc EXCEPT ![r] = pc'[r]] /\ pc'[r] \in {"reread", "connect"}
      BY <1>1, <2>1 DEF Return, Goto
    <2>3. Underway /\ no[r] = lastUse /\ fresh[r] # Nil /\ fresh'[r] = Nil
      BY <1>1, <2>1, <2>2 DEF Resting, Ended, Hand, Building
    <2>4. slot'[lastUse] = fresh[r] /\ \A i \in Index \ {lastUse} : slot'[i] = slot[i]
      BY <1>1, <1>3, <2>1, <2>3
    <2>5. Hand(r)'
      BY <2>1, <2>2, <2>3, <2>4 DEF Hand, Resting, Ended, Building
    <2>6. MetOne(r)'
      BY <2>1, <2>2, <2>3, <2>4, MetStays
    <2> QED
      BY <2>2, <2>5, <2>6 DEF Walk
  <1> QED
    BY <1>5, <1>6, <1>8, <1>9, <1>11, <1>12, <1>13, <1>14 DEF RebuildStep

\* A connection dies, or smux notices it.
LEMMA CalmDeath ==
  ASSUME NEW r \in Request, Walk(r), Recorded(r), NEW s \in Session, Break(s) \/ Notice(s)
  PROVE  Walk(r)'
  <1>1. UNCHANGED <<slot, lastUse, made, pc, no, e, prof, fresh, try>>
    BY DEF Break, Notice, list, local, rebuild
  <1>2. MetOne(r)'
    <2> SUFFICES ASSUME ~Resting(r), try[r] = 2
                 PROVE  \E t \in met'[r] : Behind(r, t)'
      BY <1>1 DEF MetOne, Resting
    <2>1. PICK t \in met[r] : Behind(r, t)
      BY DEF Walk, MetOne
    <2>2. t \in met'[r] /\ Behind(r, t)'
      BY <1>1, <2>1 DEF Recorded, Behind
    <2> QED
      BY <2>2
  <1>3. pc[r] = "failed" => MetEnough(r)'
    BY DEF Walk, MetEnough, Recorded
  <1>4. Hand(r)'
    BY <1>1 DEF Walk, Hand, Resting
  <1> QED
    BY <1>1, <1>2, <1>3, <1>4 DEF Walk

\* Somebody else moves.
LEMMA CalmBystander ==
  ASSUME SafeInv, SafeInv', NEW r \in Request, Walk(r), Recorded(r), ~Rivalled(r), ~Rivalled(r)',
         NEW g \in Goroutine, g # r, Moves(g)
  PROVE  Walk(r)'
  <1>1. pc'[r] = pc[r] /\ e'[r] = e[r] /\ try'[r] = try[r]
    BY ConstantFacts DEF Moves
  <1>2. Resting(r)
    BY <1>1 DEF Moves, Rivalled, Resting
  <1>3. made \in Nat /\ made' \in Nat
    BY DEF SafeInv, Shape, TypeOK
  <1> QED
    BY <1>1, <1>2, <1>3, RestStays DEF SafeInv

\* Each step keeps what a request without a rival knows.
LEMMA CalmStep ==
  ASSUME SafeInv, SafeInv', CalmInv, Next PROVE CalmInv'
  <1> SUFFICES ASSUME NEW r \in Request, Lone(r)' PROVE Walk(r)'
    BY DEF CalmInv
  <1>1. Step /\ TypeOK /\ rivalled \subseteq rivalled'
    BY DEF Next, SafeInv, Shape
  <1>2. r \notin rivalled /\ r \notin rivalled' /\ r \notin dialFailed'
    BY <1>1 DEF Lone
  <1>3. ~Rivalled(r) /\ ~Rivalled(r)'
    BY <1>2 DEF SafeInv, Latched
  <1>4. Recorded(r)
    <2>1. met'[r] = IF GivesUp(r) THEN met[r] \cup ({e[r]} \cap (closed \cup gone)) ELSE met[r]
      BY <1>2 DEF Next
    <2> QED
      BY <2>1 DEF Recorded
  <1>5. ASSUME dialFailed \subseteq dialFailed' PROVE Walk(r)
    BY <1>2, <1>5 DEF CalmInv, Lone
  <1>6. ASSUME NEW g \in Goroutine, g # r, Moves(g) PROVE Walk(r)'
    BY <1>3, <1>4, <1>5, <1>6, CalmBystander DEF Moves
  <1>7. ASSUME NEW q \in Request, Bump(q, "idle") \/ RequestStep(q) PROVE Walk(r)'
    <2>1. Moves(q)
      BY <1>1, <1>7, RequestMoves
    <2>2. CASE q = r
      BY <1>2, <1>3, <1>4, <1>5, <1>7, <2>1, <2>2, CalmRequest DEF Moves
    <2> QED
      BY <1>6, <2>1, <2>2, ConstantFacts
  <1>8. ASSUME NEW g \in Goroutine, RebuildStep(g) PROVE Walk(r)'
    <2>1. Moves(g)
      BY <1>1, <1>8, RebuildMoves
    <2>2. CASE g = r
      BY <1>2, <1>3, <1>4, <1>5, <1>8, <2>1, <2>2, CalmRebuild DEF Moves
    <2> QED
      BY <1>6, <2>1, <2>2
  <1>9. ASSUME NEW o \in Other, Build(o) \/ Report(o) \/ SetAddr(o) \/ ClearStep(o) PROVE Walk(r)'
    <2>1. Moves(o)
      BY <1>1, <1>9, ClearMoves
    <2> QED
      BY <1>6, <2>1, ConstantFacts
  <1>10. ASSUME NEW s \in Session, Break(s) \/ Notice(s) PROVE Walk(r)'
    <2>1. dialFailed' = dialFailed
      BY <1>10 DEF Break, Notice
    <2> QED
      BY <1>4, <1>5, <1>10, <2>1, CalmDeath
  <1> QED
    BY <1>1, <1>7, <1>8, <1>9, <1>10 DEF Step

\* A request that fails although every dial of its own succeeded and nobody
\* else was under way while it was, gave up on two dead sessions if the list is
\* longer than one: the first GetSession leaves behind the one it met, and
\* builds a session it does not use.
THEOREM TwoDeadForFailure == Spec => []FailNeedsTwoDead
  <1>1. Init => CalmInv
    <2> SUFFICES ASSUME Init, NEW r \in Request PROVE Walk(r)
      BY DEF CalmInv
    <2>1. pc[r] = "idle" /\ e[r] = Nil /\ fresh[r] = Nil /\ try[r] = 1 /\ made = 0
      BY ConstantFacts DEF Init
    <2> QED
      BY <2>1 DEF Walk, Hand, MetOne, Resting, Ended, Building, Nil
  <1>2. SafeInv /\ SafeInv' /\ CalmInv /\ [Next]_vars => CalmInv'
    <2>1. ASSUME SafeInv, CalmInv, UNCHANGED vars PROVE CalmInv'
      <3>1. /\ UNCHANGED <<slot, lastUse, made, pc, no, e, prof, fresh, try>>
            /\ UNCHANGED <<dialFailed, rivalled, met>>
        BY <2>1 DEF vars, list, session, local, rebuild, history
      <3> QED
        BY <2>1, <3>1 DEF CalmInv, Lone, Walk, Hand, MetOne, MetEnough, Behind, Resting
    <2> QED
      BY <2>1, CalmStep
  <1>3. Spec => [](SafeInv /\ CalmInv)
    BY <1>1, <1>2, SafeAlways, PTL DEF Spec
  <1>4. SafeInv /\ CalmInv => FailNeedsTwoDead
    <2> SUFFICES ASSUME SafeInv, CalmInv, NEW r \in Request, pc[r] = "failed",
                        r \notin rivalled \cup dialFailed
                 PROVE  Cardinality(met[r]) >= IF ClientNum > 1 THEN 2 ELSE 1
      BY DEF FailNeedsTwoDead
    <2>1. PICK s, t \in met[r] : ClientNum > 1 => s # t
      BY DEF CalmInv, Lone, Walk, MetEnough
    <2>2. {s, t} \subseteq met[r]
      BY <2>1
    <2>3. IsFiniteSet(met[r])
      <3>1. IsFiniteSet(1..made)
        BY FS_Interval DEF SafeInv, Shape, TypeOK
      <3>2. met[r] \subseteq 1..made
        BY DEF SafeInv, MetMade
      <3> QED
        BY <3>1, <3>2, FS_Subset
    <2>4. Cardinality({s, t}) = IF s = t THEN 1 ELSE 2
      <3>1. IsFiniteSet({s}) /\ Cardinality({s}) = 1
        BY FS_Singleton
      <3>2. CASE s = t
        <4>1. {s, t} = {s}
          BY <3>2
        <4> QED
          BY <3>1, <3>2, <4>1
      <3>3. CASE s # t
        <4>1. {s, t} = {s} \cup {t} /\ t \notin {s}
          BY <3>3
        <4>2. Cardinality({s} \cup {t}) = Cardinality({s}) + 1
          BY <3>1, <4>1, FS_AddElement
        <4> QED
          BY <3>1, <3>3, <4>1, <4>2
      <3> QED
        BY <3>2, <3>3
    <2>5. Cardinality({s, t}) <= Cardinality(met[r])
      BY <2>2, <2>3, FS_Subset
    <2>6. Cardinality(met[r]) \in Nat
      BY <2>3, FS_CardinalityType
    <2> QED
      BY <2>1, <2>4, <2>5, <2>6
  <1> QED
    BY <1>3, <1>4, PTL

=============================================================================
