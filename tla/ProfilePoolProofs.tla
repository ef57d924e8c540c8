-------------------------- MODULE ProfilePoolProofs ---------------------------
(***************************************************************************)
(* Proofs about ProfilePool, for every number of goroutines and profiles.  *)
(*                                                                         *)
(* TypeInv says where a goroutine can stand in which operation, and that   *)
(* the holder of the lock is the goroutine at the locked send.  On top of  *)
(* it ProfilesAccounted is inductive as it stands: every step moves a      *)
(* profile between the channel, the goroutines (Busy) and gone.  For       *)
(* OvershootBounded the goroutines between the two LockAreas of            *)
(* GetAviableProxy have to be counted too.                                 *)
(***************************************************************************)
EXTENDS ProfilePool, FiniteSetTheorems, TLAPS

LockHeldBySender ==
    \A g \in Goroutine : pc[g] = "send" <=> holder = g

\* Where ChangeProxyType never stands.
NotForChange == {"take", "putback", "post", "drop", "fresh", "send", "autonote"}
Getting == {"check", "wait", "count", "fetch", "note", "uncount", "got", "nil"}

Roles ==
    \A g \in Goroutine : op[g] = "chtype" =>
      /\ pc[g] \notin NotForChange
      /\ pc[g] \in Getting => left[g] > 0

TypeInv == TypeOK /\ Roles /\ LockHeldBySender

Between == At({"count"})
BetweenBounded ==
    initProfiles + Cardinality(Between) <= ConfNum + Cardinality(Goroutine) - 1

-----------------------------------------------------------------------------
(* How a step of one goroutine changes a count of goroutines.              *)

Bit(b) == IF b THEN 1 ELSE 0

\* The goroutines at the labels L are finitely many.
LEMMA AtFinite ==
    ASSUME NEW L
    PROVE  /\ IsFiniteSet(At(L))
           /\ Cardinality(At(L)) \in Nat
           /\ Cardinality(At(L)) <= Cardinality(Goroutine)
  <1>1. At(L) \subseteq Goroutine  BY DEF At
  <1>. QED  BY <1>1, FS_Subset, FS_CardinalityType, PoolAssumption

\* When g goes from its label to l, the goroutines at L gain g, lose it, or
\* stay the same.
LEMMA AtStep ==
    ASSUME NEW L, NEW g \in Goroutine, NEW l, pc \in [Goroutine -> Labels], Goto(g, l)
    PROVE  Cardinality(At(L)') = Cardinality(At(L)) + Bit(l \in L) - Bit(pc[g] \in L)
  <1>1. \A h \in Goroutine : pc'[h] = IF h = g THEN l ELSE pc[h]  BY DEF Goto
  <1>2. IsFiniteSet(At(L)) /\ Cardinality(At(L)) \in Nat  BY AtFinite
  <1>3. CASE l \in L /\ pc[g] \notin L
    <2>1. At(L)' = At(L) \cup {g} /\ g \notin At(L)  BY <1>1, <1>3 DEF At
    <2>2. Cardinality(At(L) \cup {g}) = Cardinality(At(L)) + 1
      BY <1>2, <2>1, FS_AddElement
    <2>. QED  BY <1>2, <1>3, <2>1, <2>2 DEF Bit
  <1>4. CASE l \notin L /\ pc[g] \in L
    <2>1. At(L)' = At(L) \ {g} /\ g \in At(L)  BY <1>1, <1>4 DEF At
    <2>2. Cardinality(At(L) \ {g}) = Cardinality(At(L)) - 1
      BY <1>2, <2>1, FS_RemoveElement
    <2>. QED  BY <1>2, <1>4, <2>1, <2>2 DEF Bit
  <1>5. CASE (l \in L) <=> (pc[g] \in L)
    <2>1. At(L)' = At(L)  BY <1>1, <1>5 DEF At
    <2>. QED  BY <1>2, <1>5, <2>1 DEF Bit
  <1>. QED  BY <1>3, <1>4, <1>5

-----------------------------------------------------------------------------
(* Types, roles and the holder of the lock.                                *)

\* The first state satisfies TypeInv.
LEMMA TypeInit == Init => TypeInv
  BY PoolAssumption DEF Init, TypeInv, TypeOK, Roles, LockHeldBySender, Labels,
     AllOps, NotForChange, Getting

\* Every step preserves TypeInv.
LEMMA TypeStep == TypeInv /\ [Next]_vars => TypeInv'
  <1>. SUFFICES ASSUME TypeInv, [Next]_vars PROVE TypeInv'  OBVIOUS
  <1>. USE PoolAssumption DEF TypeInv, TypeOK
  <1>1. CASE UNCHANGED vars
    BY <1>1 DEF vars, Roles, LockHeldBySender
  <1>2. CASE Next
    <2>. PICK g \in Goroutine : Begin(g) \/ Again(g) \/ Step(g)  BY <1>2 DEF Next
    <2>. USE DEF Goto, Free, Labels, AllOps, Roles, LockHeldBySender, NotForChange, Getting
    <2>1. CASE Begin(g)  BY <2>1 DEF Begin
    <2>2. CASE Again(g)  BY <2>2 DEF Again
    <2>3. CASE CheckArea(g)  BY <2>3 DEF CheckArea
    <2>4. CASE WaitTakes(g)  BY <2>4 DEF WaitTakes
    <2>5. CASE CountArea(g)  BY <2>5 DEF CountArea
    <2>6. CASE Fetch(g)  BY <2>6 DEF Fetch
    <2>7. CASE NoteArea(g)  BY <2>7 DEF NoteArea
    <2>8. CASE UncountArea(g)  BY <2>8 DEF UncountArea
    <2>9. CASE LockToSend(g)  BY <2>9 DEF LockToSend
    <2>10. CASE LockedSend(g)  BY <2>10 DEF LockedSend, Onward
    <2>11. CASE NoProfile(g)  BY <2>11 DEF NoProfile, Onward
    <2>12. CASE Take(g)  BY <2>12 DEF Take
    <2>13. CASE PutBack(g)  BY <2>13 DEF PutBack
    <2>14. CASE ErrSoGetNew(g)  BY <2>14 DEF ErrSoGetNew
    <2>15. CASE DropArea(g)  BY <2>15 DEF DropArea
    <2>16. CASE AutoSend(g)  BY <2>16 DEF AutoSend
    <2>17. CASE AutoNoteArea(g)  BY <2>17 DEF AutoNoteArea
    <2>18. CASE DrainArea(g)
      <3>1. Cardinality(Busy) \in Nat  BY AtFinite DEF Busy
      <3>. QED  BY <2>18, <3>1 DEF DrainArea
    <2>19. CASE Discard(g)  BY <2>19 DEF Discard
    <2>. QED  BY <2>1, <2>2, <2>3, <2>4, <2>5, <2>6, <2>7, <2>8, <2>9, <2>10,
                 <2>11, <2>12, <2>13, <2>14, <2>15, <2>16, <2>17, <2>18, <2>19
                 DEF Step
  <1>. QED  BY <1>1, <1>2

\* Every variable of the pool keeps its type: the channel never holds more
\* than confNum profiles, ChangeProxyType never calls GetAviableProxy more
\* often than that.
THEOREM TypeCorrect == Spec => []TypeOK
  <1>1. Spec => []TypeInv  BY TypeInit, TypeStep, PTL DEF Spec
  <1>. QED  BY <1>1, PTL DEF TypeInv

-----------------------------------------------------------------------------
(* The books.                                                              *)

\* No step loses a profile or counts one twice.
LEMMA AccountStep ==
    TypeInv /\ ProfilesAccounted /\ [Next]_vars => ProfilesAccounted'
  <1>. SUFFICES ASSUME TypeInv, ProfilesAccounted, [Next]_vars
                PROVE  ProfilesAccounted'
    OBVIOUS
  <1>. USE DEF TypeInv, TypeOK, ProfilesAccounted, Busy
  <1>0. Cardinality(At(BusyLabels)) \in Nat  BY AtFinite
  <1>1. CASE UNCHANGED vars  BY <1>1 DEF vars, At
  <1>2. CASE Next
    <2>. PICK g \in Goroutine : Begin(g) \/ Again(g) \/ Step(g)  BY <1>2 DEF Next
    <2>0. \A l : Goto(g, l) =>
            Cardinality(At(BusyLabels)') =
              Cardinality(At(BusyLabels)) + Bit(l \in BusyLabels) - Bit(pc[g] \in BusyLabels)
      BY AtStep
    <2>. USE <1>0, <2>0 DEF Bit, BusyLabels
    <2>1. CASE Begin(g)  BY <2>1 DEF Begin
    <2>2. CASE Again(g)  BY <2>2 DEF Again
    <2>3. CASE CheckArea(g)  BY <2>3 DEF CheckArea
    <2>4. CASE WaitTakes(g)  BY <2>4 DEF WaitTakes
    <2>5. CASE CountArea(g)  BY <2>5 DEF CountArea
    <2>6. CASE Fetch(g)  BY <2>6 DEF Fetch
    <2>7. CASE NoteArea(g)  BY <2>7 DEF NoteArea
    <2>8. CASE UncountArea(g)  BY <2>8 DEF UncountArea
    <2>9. CASE LockToSend(g)  BY <2>9 DEF LockToSend
    <2>10. CASE LockedSend(g)  BY <2>10 DEF LockedSend, Onward
    <2>11. CASE NoProfile(g)  BY <2>11 DEF NoProfile, Onward
    <2>12. CASE Take(g)  BY <2>12 DEF Take
    <2>13. CASE PutBack(g)  BY <2>13 DEF PutBack
    <2>14. CASE ErrSoGetNew(g)  BY <2>14 DEF ErrSoGetNew
    <2>15. CASE DropArea(g)  BY <2>15 DEF DropArea
    <2>16. CASE AutoSend(g)  BY <2>16 DEF AutoSend
    <2>17. CASE AutoNoteArea(g)  BY <2>17 DEF AutoNoteArea
    <2>18. CASE DrainArea(g)  BY <2>18 DEF DrainArea
    <2>19. CASE Discard(g)  BY <2>19 DEF Discard
    <2>. QED  BY <2>1, <2>2, <2>3, <2>4, <2>5, <2>6, <2>7, <2>8, <2>9, <2>10,
                 <2>11, <2>12, <2>13, <2>14, <2>15, <2>16, <2>17, <2>18, <2>19
                 DEF Step
  <1>. QED  BY <1>1, <1>2

\* No profile is under way in the first state.
LEMMA AccountInit == Init => ProfilesAccounted
  <1>. SUFFICES ASSUME Init PROVE ProfilesAccounted  OBVIOUS
  <1>1. Busy = {}  BY DEF Init, Busy, At, BusyLabels
  <1>2. Cardinality(Busy) = 0  BY <1>1, FS_EmptySet
  <1>. QED  BY <1>2 DEF Init, ProfilesAccounted

\* The profiles that initProfiles counts are in the channel, with a goroutine
\* or dropped, whatever fails and however the operations interleave.
THEOREM BooksKept == Spec => []ProfilesAccounted
  <1>. QED  BY TypeInit, TypeStep, AccountInit, AccountStep, PTL DEF Spec

\* The locked send of RebuildSmux and ErrSoGetNew blocks on a full channel
\* only if more profiles were counted, or forgotten by a reset, than it holds.
THEOREM BlockedLock == Spec => []BlockedLockNeedsOvershoot
  <1>1. TypeInv /\ ProfilesAccounted => BlockedLockNeedsOvershoot
    <2>. SUFFICES ASSUME TypeInv, ProfilesAccounted, holder # None, pool = ConfNum
                  PROVE  initProfiles + stray > ConfNum
      BY DEF BlockedLockNeedsOvershoot
    <2>1. PICK g \in Goroutine : pc[g] = "send"
      BY DEF TypeInv, TypeOK, LockHeldBySender
    <2>2. g \in Busy  BY <2>1 DEF Busy, At, BusyLabels
    <2>3. IsFiniteSet(Busy) /\ Cardinality(Busy) \in Nat  BY AtFinite DEF Busy
    <2>4. Cardinality(Busy) # 0  BY <2>2, <2>3, FS_EmptySet
    <2>. QED  BY <2>3, <2>4, PoolAssumption DEF TypeInv, TypeOK, ProfilesAccounted
  <1>2. Spec => []TypeInv  BY TypeInit, TypeStep, PTL DEF Spec
  <1>. QED  BY <1>1, <1>2, BooksKept, PTL

-----------------------------------------------------------------------------
(* The overshoot.                                                          *)

\* Nobody stands between the two LockAreas in the first state.
LEMMA BetweenInit == Init => BetweenBounded
  <1>. SUFFICES ASSUME Init PROVE BetweenBounded  OBVIOUS
  <1>1. Between = {}  BY DEF Init, Between, At
  <1>2. Cardinality(Between) = 0  BY <1>1, FS_EmptySet
  <1>3. Cardinality(Goroutine) \in Nat  BY FS_CardinalityType, PoolAssumption
  <1>. QED  BY <1>2, <1>3, PoolAssumption DEF Init, BetweenBounded

\* A goroutine enters only while initProfiles is below confNum, and together
\* with it at most all of them are there; later each of them counts once.
LEMMA BetweenStep ==
    TypeInv /\ BetweenBounded /\ [Next]_vars => BetweenBounded'
  <1>. SUFFICES ASSUME TypeInv, BetweenBounded, [Next]_vars
                PROVE  BetweenBounded'
    OBVIOUS
  <1>. USE PoolAssumption DEF TypeInv, TypeOK, BetweenBounded, Between
  <1>0. /\ Cardinality(At({"count"})) \in Nat
        /\ Cardinality(At({"count"})') \in Nat
        /\ Cardinality(At({"count"})') <= Cardinality(Goroutine)
        /\ Cardinality(Goroutine) \in Nat
    <2>1. At({"count"})' \subseteq Goroutine  BY DEF At
    <2>. QED  BY <2>1, AtFinite, FS_Subset, FS_CardinalityType
  <1>1. CASE UNCHANGED vars  BY <1>1 DEF vars, At
  <1>2. CASE Next
    <2>. PICK g \in Goroutine : Begin(g) \/ Again(g) \/ Step(g)  BY <1>2 DEF Next
    <2>0. \A l : Goto(g, l) =>
            Cardinality(At({"count"})') =
              Cardinality(At({"count"})) + Bit(l \in {"count"}) - Bit(pc[g] \in {"count"})
      BY AtStep
    <2>. USE <1>0, <2>0 DEF Bit
    <2>1. CASE Begin(g)  BY <2>1 DEF Begin
    <2>2. CASE Again(g)  BY <2>2 DEF Again
    <2>3. CASE CheckArea(g)  BY <2>3 DEF CheckArea
    <2>4. CASE WaitTakes(g)  BY <2>4 DEF WaitTakes
    <2>5. CASE CountArea(g)  BY <2>5 DEF CountArea
    <2>6. CASE Fetch(g)  BY <2>6 DEF Fetch
    <2>7. CASE NoteArea(g)  BY <2>7 DEF NoteArea
    <2>8. CASE UncountArea(g)  BY <2>8 DEF UncountArea
    <2>9. CASE LockToSend(g)  BY <2>9 DEF LockToSend
    <2>10. CASE LockedSend(g)  BY <2>10 DEF LockedSend, Onward
    <2>11. CASE NoProfile(g)  BY <2>11 DEF NoProfile, Onward
    <2>12. CASE Take(g)  BY <2>12 DEF Take
    <2>13. CASE PutBack(g)  BY <2>13 DEF PutBack
    <2>14. CASE ErrSoGetNew(g)  BY <2>14 DEF ErrSoGetNew
    <2>15. CASE DropArea(g)  BY <2>15 DEF DropArea
    <2>16. CASE AutoSend(g)  BY <2>16 DEF AutoSend
    <2>17. CASE AutoNoteArea(g)  BY <2>17 DEF AutoNoteArea
    <2>18. CASE DrainArea(g)  BY <2>18 DEF DrainArea
    <2>19. CASE Discard(g)  BY <2>19 DEF Discard
    <2>. QED  BY <2>1, <2>2, <2>3, <2>4, <2>5, <2>6, <2>7, <2>8, <2>9, <2>10,
                 <2>11, <2>12, <2>13, <2>14, <2>15, <2>16, <2>17, <2>18, <2>19
                 DEF Step
  <1>. QED  BY <1>1, <1>2

\* The counter exceeds confNum by less than the number of goroutines.
THEOREM Overshoot == Spec => []OvershootBounded
  <1>1. TypeInv /\ BetweenBounded => OvershootBounded
    <2>1. Cardinality(Goroutine) \in Nat /\ Cardinality(Between) \in Nat
      BY AtFinite, FS_CardinalityType, PoolAssumption DEF Between
    <2>. QED  BY <2>1, PoolAssumption DEF TypeInv, TypeOK, BetweenBounded, OvershootBounded
  <1>2. Spec => []TypeInv  BY TypeInit, TypeStep, PTL DEF Spec
  <1>3. Spec => []BetweenBounded
    BY TypeInit, TypeStep, BetweenInit, BetweenStep, PTL DEF Spec
  <1>. QED  BY <1>1, <1>2, <1>3, PTL

\* A reset forgets at most one profile of each goroutine but its own.
StrayBounded == stray <= Cardinality(Goroutine) - 1

LEMMA StrayStep == TypeInv /\ StrayBounded /\ [Next]_vars => StrayBounded'
  <1>. SUFFICES ASSUME TypeInv, StrayBounded, [Next]_vars PROVE StrayBounded'
    OBVIOUS
  <1>1. CASE stray' = stray  BY <1>1 DEF StrayBounded
  <1>2. ASSUME NEW g \in Goroutine, DrainArea(g) PROVE StrayBounded'
    <2>1. Busy \subseteq Goroutine \ {g}
      BY <1>2 DEF DrainArea, Busy, At, BusyLabels
    <2>2. /\ IsFiniteSet(Goroutine \ {g}) /\ Cardinality(Goroutine) \in Nat
          /\ Cardinality(Goroutine \ {g}) = Cardinality(Goroutine) - 1
      BY PoolAssumption, FS_RemoveElement, FS_CardinalityType
    <2>3. Cardinality(Busy) <= Cardinality(Goroutine \ {g})
      BY <2>1, <2>2, FS_Subset
    <2>4. stray' = Cardinality(Busy)  BY <1>2 DEF DrainArea
    <2>. QED  BY <2>2, <2>3, <2>4 DEF StrayBounded
  <1>3. stray' = stray \/ \E g \in Goroutine : DrainArea(g)
    BY DEF Next, Step, vars, Begin, Again, CheckArea, WaitTakes, CountArea, Fetch,
       NoteArea, UncountArea, LockToSend, LockedSend, NoProfile, Take, PutBack,
       ErrSoGetNew, DropArea, AutoSend, AutoNoteArea, Discard
  <1>. QED  BY <1>1, <1>2, <1>3

\* However resets, failures and overshoots come together, the counter is never
\* further below zero than the number of goroutines that a reset can have
\* surprised, and no more profiles are fetched than confNum, one overshoot and
\* one reset account for.
CounterBounds ==
    /\ initProfiles >= 1 - Cardinality(Goroutine)
    /\ pool + Cardinality(Busy) + gone <= ConfNum + 2 * (Cardinality(Goroutine) - 1)

\* The client holds, or has dropped uncounted, a bounded number of profiles.
THEOREM FetchesBounded == Goroutine # {} => (Spec => []CounterBounds)
  <1>. SUFFICES ASSUME Goroutine # {} PROVE Spec => []CounterBounds
    OBVIOUS
  <1>1. Cardinality(Goroutine) \in Nat \ {0}
    BY PoolAssumption, FS_CardinalityType, FS_EmptySet
  <1>2. Init => StrayBounded
    BY <1>1 DEF Init, StrayBounded
  <1>3. TypeInv /\ ProfilesAccounted /\ OvershootBounded /\ StrayBounded => CounterBounds
    <2>1. Cardinality(Busy) \in Nat  BY AtFinite DEF Busy
    <2>. QED
      BY <1>1, <2>1, PoolAssumption DEF TypeInv, TypeOK, ProfilesAccounted,
         OvershootBounded, StrayBounded, CounterBounds
  <1>4. Spec => []TypeInv  BY TypeInit, TypeStep, PTL DEF Spec
  <1>5. Spec => []StrayBounded  BY <1>2, <1>4, StrayStep, PTL DEF Spec
  <1>. QED  BY <1>3, <1>4, <1>5, BooksKept, Overshoot, PTL

-----------------------------------------------------------------------------
(* The start of the client: the part of RebuildsEnd that needs no fairness.*)

\* The goroutines of InitializationTunnels, no more than there are profiles,
\* each rebuild once.
StartOnly ==
    Ops = {"rebuild"} /\ ~Recur /\ Cardinality(Goroutine) <= ConfNum

\* Where a goroutine is once it has counted its profile.
Counted == {"fetch", "note", "uncount", "got", "nil", "send", "done"}

StartInv ==
    /\ \A g \in Goroutine :
         op[g] = "rebuild" /\ pc[g] \in {"idle", "check", "count"} \cup Counted
    /\ stray = 0 /\ gone = 0
    /\ initProfiles <= Cardinality(At(Counted))

LEMMA StartInit == Init => StartInv
  <1>. SUFFICES ASSUME Init PROVE StartInv  OBVIOUS
  <1>1. At(Counted) = {}  BY DEF Init, At, Counted
  <1>2. Cardinality(At(Counted)) = 0  BY <1>1, FS_EmptySet
  <1>. QED  BY <1>2 DEF Init, StartInv

\* A goroutine moves, and initProfiles rises only if it is now one that counted.
LEMMA StartMove ==
    ASSUME TypeInv, StartInv, NEW g \in Goroutine, NEW l, Goto(g, l),
           l \in {"idle", "check", "count"} \cup Counted,
           op'[g] = "rebuild", \A h \in Goroutine \ {g} : op'[h] = op[h],
           stray' = stray, gone' = gone,
           initProfiles' <= initProfiles + Bit(l \in Counted) - Bit(pc[g] \in Counted),
           initProfiles' \in Int
    PROVE  StartInv'
  <1>1. pc \in [Goroutine -> Labels] /\ initProfiles \in Int
    BY DEF TypeInv, TypeOK
  <1>2. Cardinality(At(Counted)') =
          Cardinality(At(Counted)) + Bit(l \in Counted) - Bit(pc[g] \in Counted)
    BY <1>1, AtStep
  <1>3. Cardinality(At(Counted)) \in Nat  BY AtFinite
  <1>4. initProfiles' <= Cardinality(At(Counted)')
    BY <1>1, <1>2, <1>3 DEF Bit, StartInv
  <1>5. pc'[g] = l /\ \A h \in Goroutine \ {g} : pc'[h] = pc[h]
    BY <1>1 DEF Goto
  <1>6. \A h \in Goroutine :
          op'[h] = "rebuild" /\ pc'[h] \in {"idle", "check", "count"} \cup Counted
    BY <1>5 DEF StartInv
  <1>. QED  BY <1>4, <1>6 DEF StartInv

\* Whoever looks at the counter has not counted itself: it finds room.
LEMMA StartStep ==
    ASSUME StartOnly
    PROVE  TypeInv /\ StartInv /\ [Next]_vars => StartInv'
  <1>. SUFFICES ASSUME TypeInv, StartInv, [Next]_vars PROVE StartInv'
    OBVIOUS
  <1>0. /\ initProfiles \in Int /\ op \in [Goroutine -> AllOps]
        /\ stray = 0 /\ gone = 0
        /\ \A h \in Goroutine : op[h] = "rebuild"
    BY DEF TypeInv, TypeOK, StartInv
  <1>1. CASE UNCHANGED vars  BY <1>1 DEF vars, At, StartInv
  <1>2. CASE Next
    <2>. PICK g \in Goroutine : Begin(g) \/ Again(g) \/ Step(g)  BY <1>2 DEF Next
    <2>0. op[g] = "rebuild" /\ pc[g] \in {"idle", "check", "count"} \cup Counted
      BY DEF StartInv
    <2>. DEFINE Moved == \E l \in {"idle", "check", "count"} \cup Counted :
           /\ Goto(g, l) /\ op' = op /\ stray' = stray /\ gone' = gone
           /\ initProfiles' <= initProfiles + Bit(l \in Counted) - Bit(pc[g] \in Counted)
           /\ initProfiles' \in Int
    <2>1. ASSUME Moved PROVE StartInv'
      <3>. PICK l \in {"idle", "check", "count"} \cup Counted :
             /\ Goto(g, l) /\ op' = op /\ stray' = stray /\ gone' = gone
             /\ initProfiles' <= initProfiles + Bit(l \in Counted) - Bit(pc[g] \in Counted)
             /\ initProfiles' \in Int
        BY <2>1
      <3>1. op'[g] = "rebuild" /\ \A h \in Goroutine \ {g} : op'[h] = op[h]
        BY <1>0
      <3>. QED  BY <3>1, StartMove
    <2>2. CASE Begin(g)
      <3>1. op' = op  BY <1>0, <2>2 DEF Begin, StartOnly
      <3>. QED  BY <1>0, <2>1, <2>2, <3>1 DEF Begin, StartOnly, Bit, Counted
    <2>3. CASE CheckArea(g)
      <3>1. pc[g] = "check"  BY <2>3 DEF CheckArea
      <3>2. initProfiles < ConfNum
        <4>1. At(Counted) \subseteq Goroutine \ {g}  BY <3>1 DEF At, Counted
        <4>2. /\ IsFiniteSet(Goroutine \ {g}) /\ Cardinality(Goroutine) \in Nat
              /\ Cardinality(Goroutine \ {g}) = Cardinality(Goroutine) - 1
          BY PoolAssumption, FS_RemoveElement, FS_CardinalityType
        <4>3. Cardinality(At(Counted)) <= Cardinality(Goroutine \ {g})
          BY <4>1, <4>2, FS_Subset
        <4>4. Cardinality(At(Counted)) \in Nat  BY AtFinite
        <4>. QED
          BY <1>0, <4>2, <4>3, <4>4, PoolAssumption DEF StartOnly, StartInv
      <3>3. Goto(g, "count")
        BY <1>0, <2>3, <3>2, PoolAssumption DEF CheckArea
      <3>4. op' = op /\ stray' = stray /\ gone' = gone /\ initProfiles' = initProfiles
        BY <2>3 DEF CheckArea
      <3>. QED  BY <1>0, <2>1, <3>1, <3>3, <3>4 DEF Bit, Counted
    <2>4. CASE CountArea(g)  BY <1>0, <2>1, <2>4 DEF CountArea, Bit, Counted
    <2>5. CASE Fetch(g)  BY <1>0, <2>1, <2>5 DEF Fetch, Bit, Counted
    <2>6. CASE NoteArea(g)  BY <1>0, <2>1, <2>6 DEF NoteArea, Bit, Counted
    <2>7. CASE UncountArea(g)  BY <1>0, <2>1, <2>7 DEF UncountArea, Bit, Counted
    <2>8. CASE LockToSend(g)  BY <1>0, <2>0, <2>1, <2>8 DEF LockToSend, Bit, Counted
    <2>9. CASE LockedSend(g) \/ NoProfile(g)
      <3>1. Goto(g, "done") /\ pc[g] \in Counted
        BY <2>0, <2>9 DEF LockedSend, NoProfile, Onward, Counted
      <3>2. op' = op /\ stray' = stray /\ gone' = gone /\ initProfiles' = initProfiles
        BY <2>9 DEF LockedSend, NoProfile
      <3>. QED  BY <1>0, <2>1, <3>1, <3>2 DEF Bit, Counted
    <2>10. CASE \/ WaitTakes(g) \/ Take(g) \/ PutBack(g) \/ ErrSoGetNew(g) \/ DropArea(g)
                \/ AutoSend(g) \/ AutoNoteArea(g) \/ DrainArea(g) \/ Discard(g) \/ Again(g)
      BY <2>0, <2>10 DEF WaitTakes, Take, PutBack, ErrSoGetNew, DropArea, AutoSend,
         AutoNoteArea, DrainArea, Discard, Again, Counted, StartOnly
    <2>. QED  BY <2>2, <2>3, <2>4, <2>5, <2>6, <2>7, <2>8, <2>9, <2>10 DEF Step
  <1>. QED  BY <1>1, <1>2

\* No goroutine polls the channel in vain, and none that holds the lock sends
\* to a full one.
NobodyBlocks ==
    \A g \in Goroutine : pc[g] # "wait" /\ (pc[g] = "send" => pool < ConfNum)

\* When no more goroutines than profiles rebuild once, as at the start of the
\* client, GetAviableProxy never polls and the locked send never blocks: only
\* the lock, which its holder can then always give back, is waited for.
THEOREM StartNeverBlocks ==
    ASSUME StartOnly
    PROVE  Spec => []NobodyBlocks
  <1>1. TypeInv /\ StartInv /\ ProfilesAccounted => NobodyBlocks
    <2>. SUFFICES ASSUME TypeInv, StartInv, ProfilesAccounted, NEW g \in Goroutine
                  PROVE  pc[g] # "wait" /\ (pc[g] = "send" => pool < ConfNum)
      BY DEF NobodyBlocks
    <2>1. pc[g] # "wait"  BY DEF StartInv, Counted
    <2>2. ASSUME pc[g] = "send" PROVE pool < ConfNum
      <3>1. IsFiniteSet(Busy) /\ Cardinality(Busy) \in Nat /\ g \in Busy
        BY <2>2, AtFinite DEF Busy, At, BusyLabels
      <3>2. Cardinality(Busy) >= 1  BY <3>1, FS_EmptySet
      <3>3. /\ Cardinality(At(Counted)) \in Nat /\ Cardinality(Goroutine) \in Nat
            /\ Cardinality(At(Counted)) <= Cardinality(Goroutine)
        BY AtFinite, FS_CardinalityType, PoolAssumption
      <3>. QED
        BY <3>1, <3>2, <3>3, PoolAssumption
        DEF StartOnly, StartInv, TypeInv, TypeOK, ProfilesAccounted
    <2>. QED  BY <2>1, <2>2
  <1>2. TypeInv /\ StartInv /\ [Next]_vars => StartInv'  BY StartStep
  <1>3. Spec => []TypeInv  BY TypeInit, TypeStep, PTL DEF Spec
  <1>4. Spec => []StartInv  BY <1>2, <1>3, StartInit, PTL DEF Spec
  <1>. QED  BY <1>1, <1>3, <1>4, BooksKept, PTL
===============================================================================
