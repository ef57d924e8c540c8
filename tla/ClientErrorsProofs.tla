--------------------------- MODULE ClientErrorsProofs ---------------------------
(***************************************************************************)
(* Proofs about ClientErrors, for any numbers of reports, switches,        *)
(* tunnels and errors.                                                     *)
(*                                                                         *)
(* The invariant of the first two properties is the claim: the IDs a       *)
(* report has not taken yet, with the one it has taken and not yet posted. *)
(* Every mark that is not of a failed report is of an ID some report       *)
(* claims; and as long as nothing is robbed no two reports claim one ID,   *)
(* because each of them marks what it claims and claims only what was not  *)
(* marked.                                                                 *)
(*                                                                         *)
(* ErrCount has a balance: as long as no error is subtracted twice it is   *)
(* at least the errors that are still to be subtracted from it, those that *)
(* are counted and not read and those that a report has read.  That their  *)
(* sum is at most ErrCount is said by laying them side by side in          *)
(* 0..ErrCount, as no induction over the IDs and goroutines is at hand.    *)
(***************************************************************************)
EXTENDS ClientErrors, FiniteSetTheorems, TLAPS

Posting(g) == pc[g] \in {"charge", "post"}
Claim(g) == todo[g] \cup IF Posting(g) THEN {got[g]} ELSE {}

\* Where a goroutine stands agrees with what it hunts for.
Stands ==
    \A g \in Reporter :
      /\ seen[g] \subseteq todo[g]
      /\ pc[g] \in {"hunt", "charge", "post"} => left[g] > 0
      /\ pc[g] \in {"idle", "mark"} => todo[g] = {}
      /\ pc[g] # "renew"
      /\ Posting(g) => got[g] \notin todo[g]

TypeInv == TypeOK /\ Stands

\* Until something is robbed, reports claim different IDs, all of them marked.
ClaimsApart ==
    /\ robbed => \A g \in Hunter : seen[g] = {}
    /\ ~robbed =>
         /\ \A g \in Reporter : Claim(g) \subseteq ReportingMark
         /\ \A g, h \in Reporter : g # h => Claim(g) \cap Claim(h) = {}

-----------------------------------------------------------------------------
(* What the parts of the actions keep.                                     *)

\* A set of IDs has at most as many members as there are IDs, and at least
\* one unless it is empty.
LEMMA IdsCounted ==
    ASSUME NEW n \in SUBSET Id
    PROVE  /\ Cardinality(n) \in 0..(MaxId + 1)
           /\ n # {} => Cardinality(n) > 0
  <1>1. IsFiniteSet(Id) /\ Cardinality(Id) = MaxId + 1
    BY ErrorsAssumption, FS_Interval DEF Id
  <1>2. IsFiniteSet(n) /\ Cardinality(n) <= Cardinality(Id)
    BY <1>1, FS_Subset
  <1>3. Cardinality(n) \in Nat
    BY <1>2, FS_CardinalityType
  <1>. QED  BY <1>1, <1>2, <1>3, FS_EmptySet, ErrorsAssumption

\* RouteErrCount stays in its range when it is lowered.
LEMMA PraiseTypes ==
    ASSUME RouteErrCount \in 0..(RouteLeave + 1), Praise
    PROVE  RouteErrCount' \in 0..(RouteLeave + 1)
  BY ErrorsAssumption DEF Praise, Less

\* RouteErrCount stays in its range when it is raised.
LEMMA BlameTypes ==
    ASSUME RouteErrCount \in 0..(RouteLeave + 1), NEW n \in Nat, Blame(n)
    PROVE  RouteErrCount' \in 0..(RouteLeave + 1)
  BY ErrorsAssumption DEF Blame

\* What pool must be.
PoolOK == pool \in [Id -> 0..MaxCopies] /\ \A i \in Id : pool[i] > 0 => i \in 1..issued

\* A profile that is received leaves one less.
LEMMA ReceiveTypes ==
    ASSUME PoolOK, issued \in 0..MaxId, NEW i \in Id, Receive(i), issued' = issued
    PROVE  PoolOK' /\ \A j \in Id : j # i => pool'[j] = pool[j]
  BY ErrorsAssumption DEF PoolOK, Receive

\* A profile that is sent is of a tunnel that was made.
LEMMA SendTypes ==
    ASSUME PoolOK, issued \in 0..MaxId, NEW i \in 1..MaxId, Send(i),
           issued' \in 0..MaxId, issued' >= issued, i <= issued'
    PROVE  PoolOK' /\ \A j \in Id : pool'[j] >= pool[j]
  BY ErrorsAssumption DEF PoolOK, Send, Id

\* A fetched profile.
LEMMA FetchTypes ==
    ASSUME TypeOK, Fetch
    PROVE  /\ issued' \in 0..MaxId /\ PoolOK' /\ \A j \in Id : pool'[j] >= pool[j]
           /\ errorid' \in [Id -> Nat] /\ charged' \subseteq Id
  <1>1. PICK i \in 1..MaxId :
          /\ i <= issued + 1
          /\ issued' = IF i > issued THEN i ELSE issued
          /\ Send(i) /\ Clear(i)
    BY DEF Fetch, Obtain
  <1>2. issued' \in 0..MaxId /\ issued' >= issued /\ i <= issued'
    BY <1>1, ErrorsAssumption DEF TypeOK
  <1>3. PoolOK' /\ \A j \in Id : pool'[j] >= pool[j]
    BY <1>1, <1>2, SendTypes DEF TypeOK, PoolOK
  <1>4. errorid' \in [Id -> Nat] /\ charged' \subseteq Id
    BY <1>1 DEF Clear, TypeOK
  <1>. QED  BY <1>2, <1>3, <1>4

\* A profile that is dropped was fetched, or received: one that is hunted is
\* robbed.
LEMMA DropTypes ==
    ASSUME TypeOK, DropProfile
    PROVE  \/ /\ issued' \in 0..MaxId /\ issued' >= issued
              /\ \E i \in Id : Clear(i)
              /\ UNCHANGED <<pool, robbed, seen>>
           \/ /\ PoolOK' /\ robbed' \in BOOLEAN /\ seen' \in [Hunter -> SUBSET Id]
              /\ UNCHANGED <<issued, errorid, charged>>
              /\ \E i \in Id : /\ Rob(\E g \in Hunter : i \in todo[g], seen)
                               /\ \A j \in Id : j # i => pool'[j] = pool[j]
  <1>1. ASSUME NEW i \in 1..MaxId, Obtain(i)
        PROVE  i \in Id /\ Clear(i) /\ issued' \in 0..MaxId /\ issued' >= issued
    BY <1>1, ErrorsAssumption DEF Obtain, Id, TypeOK
  <1>2. ASSUME NEW i \in Id, Receive(i), Rob(\E g \in Hunter : i \in todo[g], seen),
               UNCHANGED issued
        PROVE  /\ PoolOK' /\ robbed' \in BOOLEAN /\ seen' \in [Hunter -> SUBSET Id]
               /\ \A j \in Id : j # i => pool'[j] = pool[j]
    <2>1. PoolOK' /\ \A j \in Id : j # i => pool'[j] = pool[j]
      BY <1>2, ReceiveTypes DEF TypeOK, PoolOK
    <2>2. robbed' \in BOOLEAN /\ seen' \in [Hunter -> SUBSET Id]
      BY <1>2 DEF Rob, TypeOK
    <2>. QED  BY <2>1, <2>2
  <1>3. CASE (\E i \in 1..MaxId : Obtain(i)) /\ UNCHANGED <<pool, robbed, seen>>
    BY <1>1, <1>3
  <1>4. CASE /\ \E i \in Id : Receive(i) /\ Rob(\E g \in Hunter : i \in todo[g], seen)
             /\ UNCHANGED <<issued, errorid, charged>>
    BY <1>2, <1>4
  <1>. QED  BY <1>3, <1>4 DEF DropProfile

\* What is emptied.
LEMMA ForgetTypes ==
    ASSUME TypeOK, Forget, issued' = issued
    PROVE  /\ PoolOK' /\ errorid' \in [Id -> Nat] /\ charged' = {}
           /\ robbed' \in BOOLEAN /\ seen' \in [Hunter -> SUBSET Id]
  <1>1. PoolOK'
    BY ErrorsAssumption DEF Forget, TypeOK, PoolOK
  <1>2. robbed' \in BOOLEAN /\ seen' \in [Hunter -> SUBSET Id]
    BY DEF Forget, Rob, TypeOK
  <1>. QED  BY <1>1, <1>2 DEF Forget

-----------------------------------------------------------------------------
(* Types, and where the goroutines stand.                                  *)

\* The first state satisfies TypeInv.
LEMMA TypeInit == Init => TypeInv
  <1>. SUFFICES ASSUME Init PROVE TypeInv  OBVIOUS
  <1>1. NoId \in Id /\ 0 \in 0..MaxId /\ 0 \in 0..MaxCopies /\ 0 \in 0..(MaxId + 1)
    BY ErrorsAssumption DEF Id, NoId
  <1>2. 0 \in 0..(RouteLeave + 1) /\ 0 \in 0..MaxErrors /\ 0 \in 0..MaxRoute /\ 0 \in Int
    BY ErrorsAssumption
  <1>3. pool \in [Id -> 0..MaxCopies] /\ \A i \in Id : pool[i] > 0 => i \in 1..issued
    BY <1>1 DEF Init
  <1>4. TypeOK
    BY <1>1, <1>2, <1>3 DEF Init, TypeOK
  <1>5. Stands
    BY DEF Init, Stands, Posting, Hunter
  <1>. QED  BY <1>4, <1>5 DEF TypeInv

\* The steps of connections, of Socks5Listen's loop and of the resets.
LEMMA TypeShared ==
    ASSUME TypeInv,
           \/ \E eid \in 0..issued : ErrRecord(eid, 1) \/ ErrRecord(eid, 2) \/ ErrVanish(eid)
           \/ RouteError \/ NewProfile
           \/ LeaveRoute \/ ChangeRoute \/ InitCounts \/ ChangeProxyType \/ DropProfile
    PROVE  TypeInv'
  <1>. USE DEF TypeInv
  <1>1. ASSUME NEW eid \in 0..issued, NEW i \in {1, 2}, ErrRecord(eid, i) PROVE TypeInv'
    <2>1. RouteErrCount' \in 0..(RouteLeave + 1)
      BY <1>1, BlameTypes DEF ErrRecord, TypeOK
    <2>2. errorid' \in [Id -> Nat] /\ ErrCount' \in Int /\ recorded' \in 0..MaxErrors
      BY <1>1, ErrorsAssumption DEF ErrRecord, TypeOK, Id
    <2>. QED  BY <1>1, <2>1, <2>2 DEF ErrRecord, TypeOK, Stands, Posting, local, history
  <1>2. ASSUME NEW eid \in 0..issued, ErrVanish(eid) PROVE TypeInv'
    <2>1. RouteErrCount' \in 0..(RouteLeave + 1)
      BY <1>2, PraiseTypes DEF ErrVanish, TypeOK
    <2>2. Less(errorid[eid]) \in Nat /\ Less(ErrCount) \in Int
      <3>1. errorid[eid] \in Nat
        BY ErrorsAssumption DEF TypeOK, Id
      <3>. QED  BY <3>1 DEF TypeOK, Less
    <2>3. errorid' \in [Id -> Nat] /\ ErrCount' \in Int
      BY <1>2, <2>2 DEF ErrVanish, TypeOK
    <2>4. drift' \in BOOLEAN /\ charged' \subseteq Id
      BY <1>2 DEF ErrVanish, Drift, TypeOK
    <2>. QED  BY <1>2, <2>1, <2>3, <2>4 DEF ErrVanish, TypeOK, Stands, Posting, local, bound
  <1>3. CASE RouteError
    BY <1>3, BlameTypes DEF RouteError, TypeOK, Stands, Posting, local, bound, history
  <1>4. CASE NewProfile
    <2>1. /\ issued' \in 0..MaxId /\ PoolOK'
          /\ errorid' \in [Id -> Nat] /\ charged' \subseteq Id
      BY <1>4, FetchTypes DEF NewProfile
    <2>. QED  BY <1>4, <2>1 DEF NewProfile, PoolOK, TypeOK, Stands, Posting, local, bound
  <1>5. CASE LeaveRoute
    BY <1>5 DEF LeaveRoute, TypeOK, Stands, Posting, counts, local, bound, history
  <1>6. CASE ChangeRoute
    <2>1. /\ PoolOK' /\ errorid' \in [Id -> Nat] /\ charged' = {}
          /\ robbed' \in BOOLEAN /\ seen' \in [Hunter -> SUBSET Id]
      BY <1>6, ForgetTypes DEF ChangeRoute
    <2>2. route' \in 0..MaxRoute
      BY <1>6, ErrorsAssumption DEF ChangeRoute, TypeOK
    <2>3. \A g \in Reporter : seen'[g] \subseteq todo[g]
      BY <1>6 DEF ChangeRoute, Forget, Rob, Stands, Hunter
    <2>. QED  BY <1>6, <2>1, <2>2, <2>3 DEF ChangeRoute, PoolOK, TypeOK, Stands, Posting, local
  <1>7. CASE InitCounts
    <2>1. drift' \in BOOLEAN /\ charged' \subseteq Id
      BY <1>7 DEF InitCounts, Drift, TypeOK
    <2>. QED
      BY <1>7, <2>1, ErrorsAssumption DEF InitCounts, TypeOK, Stands, Posting, local, bound
  <1>8. CASE ChangeProxyType
    <2>1. /\ PoolOK' /\ errorid' \in [Id -> Nat] /\ charged' = {}
          /\ robbed' \in BOOLEAN /\ seen' \in [Hunter -> SUBSET Id]
      BY <1>8, ForgetTypes DEF ChangeProxyType
    <2>2. \A g \in Reporter : seen'[g] \subseteq todo[g]
      BY <1>8 DEF ChangeProxyType, Forget, Rob, Stands, Hunter
    <2>. QED
      BY <1>8, <2>1, <2>2 DEF ChangeProxyType, PoolOK, TypeOK, Stands, Posting, local, bound
  <1>9. CASE DropProfile
    <2>1. /\ issued' \in 0..MaxId /\ PoolOK'
          /\ errorid' \in [Id -> Nat] /\ charged' \subseteq Id
          /\ robbed' \in BOOLEAN /\ seen' \in [Hunter -> SUBSET Id]
      <3>1. CASE /\ issued' \in 0..MaxId /\ issued' >= issued
                 /\ \E i \in Id : Clear(i)
                 /\ UNCHANGED <<pool, robbed, seen>>
        BY <3>1 DEF TypeOK, PoolOK, Clear
      <3>2. CASE /\ PoolOK' /\ robbed' \in BOOLEAN /\ seen' \in [Hunter -> SUBSET Id]
                 /\ UNCHANGED <<issued, errorid, charged>>
        BY <3>2 DEF TypeOK
      <3>. QED  BY <1>9, <3>1, <3>2, DropTypes
    <2>2. \A g \in Reporter : seen'[g] \subseteq todo[g]
      BY <1>9, DropTypes DEF Rob, Stands, Hunter
    <2>. QED
      BY <1>9, <2>1, <2>2 DEF DropProfile, PoolOK, TypeOK, Stands, Posting, local, bound
  <1>. QED  BY <1>1, <1>2, <1>3, <1>4, <1>5, <1>6, <1>7, <1>8, <1>9

\* One more of left is done.
LEMMA NextOfTypes ==
    ASSUME TypeInv, NEW g \in Reporter, pc[g] = "post", NextOf(g)
    PROVE  /\ left' \in [Hunter -> 0..(MaxId + 1)]
           /\ pc' \in [Hunter -> {"idle", "mark", "hunt", "charge", "post", "renew"}]
           /\ todo' \in [Hunter -> SUBSET Id] /\ seen' \in [Hunter -> SUBSET Id]
           /\ ids' \in [Hunter -> SUBSET Id]
           /\ got' \in [Hunter -> Id] /\ errnum' \in [Hunter -> Nat]
           /\ Missed(g) \subseteq Id
           /\ Stands'
  <1>. USE DEF TypeInv
  <1>1. g \in Hunter /\ left[g] > 0 /\ left[g] \in Nat
    BY DEF Stands, Hunter, TypeOK
  <1>2. left[g] - 1 \in 0..(MaxId + 1) /\ NoId \in Id
    BY <1>1, ErrorsAssumption DEF TypeOK, Id, NoId
  <1>3. /\ left' \in [Hunter -> 0..(MaxId + 1)]
        /\ pc' \in [Hunter -> {"idle", "mark", "hunt", "charge", "post", "renew"}]
        /\ ids' \in [Hunter -> SUBSET Id]
        /\ got' \in [Hunter -> Id] /\ errnum' \in [Hunter -> Nat]
    BY <1>2 DEF NextOf, Goto, TypeOK
  <1>4. /\ todo' \in [Hunter -> SUBSET Id] /\ seen' \in [Hunter -> SUBSET Id]
        /\ Missed(g) \subseteq Id
    BY <1>1 DEF NextOf, Missed, TypeOK
  <1>5. Stands'
    <2>. SUFFICES ASSUME NEW h \in Reporter
                  PROVE  /\ seen'[h] \subseteq todo'[h]
                         /\ pc'[h] \in {"hunt", "charge", "post"} => left'[h] > 0
                         /\ pc'[h] \in {"idle", "mark"} => todo'[h] = {}
                         /\ pc'[h] # "renew"
                         /\ Posting(h)' => got'[h] \notin todo'[h]
      BY DEF Stands
    <2>1. CASE h # g
      BY <2>1 DEF Stands, Posting, NextOf, Goto, TypeOK, Hunter
    <2>2. CASE h = g /\ left[g] = 1
      BY <1>1, <2>2 DEF Stands, Posting, NextOf, Goto, TypeOK, Missed
    <2>3. CASE h = g /\ left[g] # 1
      BY <1>1, <2>3 DEF Stands, Posting, NextOf, Goto, TypeOK, Missed
    <2>. QED  BY <2>1, <2>2, <2>3
  <1>. QED  BY <1>3, <1>4, <1>5

\* The steps of reports.
LEMMA TypeReport ==
    ASSUME TypeInv, NEW g \in Hunter,
           \/ StartReport(g) \/ Mark(g) \/ Take(g) \/ Charge(g) \/ PostFails(g) \/ PostSucceeds(g)
    PROVE  TypeInv'
  <1>. USE DEF TypeInv
  <1>1. CASE StartReport(g)
    BY <1>1 DEF StartReport, Goto, TypeOK, Stands, Posting, counts, bound, history
  <1>2. CASE Mark(g)
    <2>. DEFINE n == {i \in Id : errorid[i] > Tell} \ ReportingMark
    <2>1. n \subseteq Id /\ Cardinality(n) \in 0..(MaxId + 1) /\ (n # {} => Cardinality(n) > 0)
      BY IdsCounted
    <2>2. /\ ids' = [ids EXCEPT ![g] = n] /\ todo' = [todo EXCEPT ![g] = n]
          /\ left' = [left EXCEPT ![g] = Cardinality(n)]
          /\ pc' = [pc EXCEPT ![g] = IF n = {} THEN "idle" ELSE "hunt"]
          /\ ReportingMark' = ReportingMark \cup n
          /\ seen' = IF robbed THEN [h \in Hunter |-> {}]
                               ELSE [seen EXCEPT ![g] = {i \in n : pool[i] > 0}]
          /\ robbed' = robbed /\ g \in Reporter
          /\ UNCHANGED <<pool, issued, counts, running, got, errnum, bound, failed, charged,
                         drift>>
      BY <1>2 DEF Mark, SetOut, Goto, Rob, TypeOK
    <2>. HIDE DEF n
    <2>3. TypeOK'
      BY <2>1, <2>2 DEF TypeOK, counts, bound
    <2>4. Stands'
      BY <2>1, <2>2 DEF TypeOK, Stands, Posting, Hunter
    <2>. QED  BY <2>3, <2>4
  <1>3. CASE Take(g)
    <2>1. PICK i \in ids[g] :
            /\ Receive(i)
            /\ got' = [got EXCEPT ![g] = i]
            /\ errnum' = [errnum EXCEPT ![g] = errorid[i]]
            /\ todo' = [todo EXCEPT ![g] = @ \ {i}]
            /\ Rob(i \notin todo[g], [seen EXCEPT ![g] = @ \ {i}])
            /\ Drift(i \in charged, charged \cup {i})
      BY <1>3 DEF Take
    <2>2. i \in Id /\ g \in Reporter /\ pc[g] = "hunt" /\ pc' = [pc EXCEPT ![g] = "charge"]
      BY <1>3 DEF TypeOK, Take, Goto
    <2>3. PoolOK'
      BY <1>3, <2>1, <2>2, ReceiveTypes DEF PoolOK, TypeOK, Take
    <2>4. robbed' \in BOOLEAN /\ seen' \in [Hunter -> SUBSET Id]
      BY <2>1 DEF Rob, TypeOK
    <2>5. drift' \in BOOLEAN /\ charged' \subseteq Id
      BY <2>1, <2>2 DEF Drift, TypeOK
    <2>6. TypeOK'
      BY <1>3, <2>1, <2>2, <2>3, <2>4, <2>5 DEF Take, TypeOK, PoolOK, counts, bound
    <2>7. \A h \in Reporter : seen'[h] \subseteq todo'[h]
      BY <2>1 DEF Rob, Stands, TypeOK, Hunter
    <2>8. Stands'
      BY <1>3, <2>1, <2>2, <2>7 DEF Take, TypeOK, Stands, Posting, Hunter
    <2>. QED  BY <2>6, <2>8
  <1>4. CASE Charge(g)
    BY <1>4 DEF Charge, Goto, TypeOK, Stands, Posting, bound, history, Hunter
  <1>5. CASE PostFails(g)
    <2>1. RouteErrCount' \in 0..(RouteLeave + 1)
      BY <1>5, BlameTypes DEF PostFails, TypeOK
    <2>2. g \in Reporter /\ pc[g] = "post" /\ NextOf(g)
      BY <1>5 DEF PostFails
    <2>. QED  BY <1>5, <2>1, <2>2, NextOfTypes DEF PostFails, TypeOK, bound
  <1>6. CASE PostSucceeds(g)
    <2>1. g \in Reporter /\ pc[g] = "post" /\ NextOf(g)
      BY <1>6 DEF PostSucceeds, Replace
    <2>2. RouteErrCount' \in 0..(RouteLeave + 1)
      BY <1>6, PraiseTypes DEF PostSucceeds, Replace, TypeOK
    <2>3. /\ issued + 1 \in 1..MaxId /\ issued' = issued + 1
          /\ Send(issued + 1) /\ Clear(issued + 1)
      BY <1>6, ErrorsAssumption DEF PostSucceeds, Replace, TypeOK
    <2>4. issued' \in 0..MaxId /\ PoolOK'
      BY <2>3, SendTypes DEF PoolOK, TypeOK
    <2>5. errorid' \in [Id -> Nat] /\ charged' \subseteq Id
      BY <2>3 DEF Clear, TypeOK
    <2>6. failed' \subseteq Id /\ ReportingMark' \subseteq Id
      BY <1>6, <2>1, NextOfTypes DEF PostSucceeds, Replace, TypeOK
    <2>. QED
      BY <1>6, <2>1, <2>2, <2>4, <2>5, <2>6, NextOfTypes DEF PostSucceeds, PoolOK, TypeOK, bound
  <1>. QED  BY <1>1, <1>2, <1>3, <1>4, <1>5, <1>6

\* The steps of AutoSwitchProfile.
LEMMA TypeSwitch ==
    ASSUME TypeInv, NEW g \in Hunter,
           StartSwitch(g) \/ Pick(g) \/ TakeOut(g) \/ Renew(g)
    PROVE  TypeInv'
  <1>. USE DEF TypeInv
  <1>1. ASSUME g \in Switcher PROVE g \notin Reporter
    BY <1>1, ErrorsAssumption
  <1>2. CASE StartSwitch(g)
    BY <1>1, <1>2 DEF StartSwitch, Goto, TypeOK, Stands, Posting, counts, bound, history, Hunter
  <1>3. CASE Pick(g)
    <2>1. g \in Switcher
      BY <1>3 DEF Pick
    <2>2. /\ errorid' \in [Id -> Nat] /\ charged' \subseteq Id
          /\ ids' \in [Hunter -> SUBSET Id] /\ todo' \in [Hunter -> SUBSET Id]
          /\ pc' \in [Hunter -> {"idle", "mark", "hunt", "charge", "post", "renew"}]
      BY <1>3 DEF Pick, Clear, Goto, TypeOK
    <2>3. \A h \in Reporter : todo'[h] = todo[h] /\ pc'[h] = pc[h]
      BY <1>1, <1>3, <2>1 DEF Pick, Goto, TypeOK, Hunter
    <2>. QED  BY <1>3, <2>2, <2>3 DEF Pick, TypeOK, Stands, Posting, bound
  <1>4. CASE TakeOut(g)
    <2>1. PICK i \in ids[g] : Receive(i) /\ Rob(\E h \in Reporter : i \in todo[h], seen)
      BY <1>4 DEF TakeOut
    <2>2. PoolOK'
      BY <1>4, <2>1, ReceiveTypes DEF PoolOK, TypeOK, TakeOut
    <2>3. robbed' \in BOOLEAN /\ seen' \in [Hunter -> SUBSET Id]
      BY <2>1 DEF Rob, TypeOK
    <2>4. \A h \in Reporter : seen'[h] \subseteq todo[h]
      BY <2>1 DEF Rob, Stands, Hunter
    <2>5. \A h \in Reporter : todo'[h] = todo[h] /\ pc'[h] = pc[h]
      BY <1>1, <1>4 DEF TakeOut, Goto, TypeOK, Hunter
    <2>6. /\ ids' \in [Hunter -> SUBSET Id] /\ todo' \in [Hunter -> SUBSET Id]
          /\ pc' \in [Hunter -> {"idle", "mark", "hunt", "charge", "post", "renew"}]
      BY <1>4 DEF TakeOut, Goto, TypeOK
    <2>. QED
      BY <1>4, <2>2, <2>3, <2>4, <2>5, <2>6 DEF TakeOut, PoolOK, TypeOK, Stands, Posting, counts,
         bound
  <1>5. CASE Renew(g)
    <2>1. g \notin Reporter
      BY <1>5 DEF Renew, Stands
    <2>2. /\ issued' \in 0..MaxId /\ PoolOK' /\ RouteErrCount' \in 0..(RouteLeave + 1)
          /\ errorid' \in [Id -> Nat] /\ charged' \subseteq Id
      <3>1. CASE Fetch /\ UNCHANGED RouteErrCount
        BY <3>1, FetchTypes DEF TypeOK
      <3>2. CASE \E i \in Id : pool[i] > 0 /\ Clear(i) /\ UNCHANGED <<issued, pool, RouteErrCount>>
        BY <3>2 DEF Clear, TypeOK, PoolOK
      <3>3. CASE Blame(1) /\ UNCHANGED <<issued, pool, errorid, charged>>
        BY <3>3, BlameTypes DEF TypeOK, PoolOK
      <3>. QED  BY <1>5, <3>1, <3>2, <3>3 DEF Renew
    <2>3. /\ pc' \in [Hunter -> {"idle", "mark", "hunt", "charge", "post", "renew"}]
          /\ \A h \in Reporter : pc'[h] = pc[h]
      BY <1>5, <2>1 DEF Renew, Goto, TypeOK, Hunter
    <2>. QED  BY <1>5, <2>2, <2>3 DEF Renew, PoolOK, TypeOK, Stands, Posting, bound
  <1>. QED  BY <1>2, <1>3, <1>4, <1>5

\* Every step preserves TypeInv.
LEMMA TypeStep == TypeInv /\ [Next]_vars => TypeInv'
  <1>. SUFFICES ASSUME TypeInv, [Next]_vars PROVE TypeInv'  OBVIOUS
  <1>1. CASE UNCHANGED vars
    BY <1>1 DEF vars, counts, local, bound, history, TypeInv, TypeOK, Stands, Posting
  <1>2. CASE Next
    BY <1>2, TypeShared, TypeReport, TypeSwitch DEF Next, HunterStep
  <1>. QED  BY <1>1, <1>2

\* Every variable of the error accounting keeps its type.
THEOREM TypeCorrect == Spec => []TypeOK
  <1>1. Spec => []TypeInv
    BY TypeInit, TypeStep, PTL DEF Spec
  <1>2. TypeInv => TypeOK
    BY DEF TypeInv
  <1>. QED  BY <1>1, <1>2, PTL

-----------------------------------------------------------------------------
(* A mark stands for a report.                                             *)

\* A step that leaves reports and marks alone.
LEMMA MarksUntouched ==
    ASSUME MarkNeedsReport, UNCHANGED <<ReportingMark, failed>>,
           \A g \in Reporter : todo'[g] = todo[g] /\ pc'[g] = pc[g] /\ got'[g] = got[g]
    PROVE  MarkNeedsReport'
  BY DEF MarkNeedsReport

\* A posted profile, with or without an answer, is claimed no more: its ID is
\* not marked, or its report failed.
LEMMA MarksPosted ==
    ASSUME TypeInv, MarkNeedsReport, NEW g \in Reporter, pc[g] = "post", NextOf(g),
           ReportingMark' \subseteq ReportingMark, failed \cup Missed(g) \subseteq failed',
           got[g] \notin ReportingMark' \ failed'
    PROVE  MarkNeedsReport'
  <1>. SUFFICES ASSUME NEW i \in ReportingMark' \ failed'
                PROVE  \E h \in Reporter :
                         \/ i \in todo'[h]
                         \/ pc'[h] \in {"charge", "post"} /\ got'[h] = i
    BY DEF MarkNeedsReport
  <1>1. i \in ReportingMark \ failed /\ i # got[g] /\ i \notin Missed(g)
    OBVIOUS
  <1>2. PICK h \in Reporter : i \in todo[h] \/ (pc[h] \in {"charge", "post"} /\ got[h] = i)
    BY <1>1 DEF MarkNeedsReport
  <1>3. i \in todo'[h] \/ (pc'[h] \in {"charge", "post"} /\ got'[h] = i)
    BY <1>1, <1>2 DEF NextOf, Goto, TypeInv, TypeOK, Hunter
  <1>. QED  BY <1>3

\* Every step preserves MarkNeedsReport.
LEMMA MarksStep == TypeInv /\ MarkNeedsReport /\ [Next]_vars => MarkNeedsReport'
  <1>. SUFFICES ASSUME TypeInv, MarkNeedsReport, [Next]_vars PROVE MarkNeedsReport'  OBVIOUS
  <1>. USE DEF TypeInv
  <1>1. CASE UNCHANGED vars
    BY <1>1 DEF vars, local, history, MarkNeedsReport
  <1>2. ASSUME \/ \E eid \in 0..issued : ErrRecord(eid, 1) \/ ErrRecord(eid, 2) \/ ErrVanish(eid)
               \/ RouteError \/ NewProfile
               \/ LeaveRoute \/ ChangeRoute \/ InitCounts \/ ChangeProxyType \/ DropProfile
        PROVE  MarkNeedsReport'
    <2>1. UNCHANGED <<ReportingMark, failed, todo, pc, got>>
      BY <1>2 DEF ErrRecord, ErrVanish, RouteError, NewProfile, LeaveRoute, ChangeRoute,
         InitCounts, ChangeProxyType, DropProfile, local, history
    <2>. QED  BY <2>1, MarksUntouched
  <1>3. ASSUME NEW g \in Hunter, StartReport(g) PROVE MarkNeedsReport'
    BY <1>3 DEF StartReport, Goto, TypeOK, MarkNeedsReport, history
  <1>4. ASSUME NEW g \in Hunter, Mark(g) PROVE MarkNeedsReport'
    <2>. DEFINE n == {i \in Id : errorid[i] > Tell} \ ReportingMark
    <2>1. /\ ReportingMark' = ReportingMark \cup n /\ UNCHANGED <<failed, got>>
          /\ todo' = [todo EXCEPT ![g] = n] /\ g \in Reporter /\ pc[g] = "mark"
          /\ pc' = [pc EXCEPT ![g] = IF n = {} THEN "idle" ELSE "hunt"]
      BY <1>4 DEF Mark, SetOut, Goto
    <2>. HIDE DEF n
    <2>2. todo[g] = {}
      BY <2>1 DEF Stands
    <2>. QED  BY <2>1, <2>2 DEF MarkNeedsReport, TypeOK, Hunter
  <1>5. ASSUME NEW g \in Hunter, Take(g) PROVE MarkNeedsReport'
    <2>1. PICK i \in ids[g] : got' = [got EXCEPT ![g] = i] /\ todo' = [todo EXCEPT ![g] = @ \ {i}]
      BY <1>5 DEF Take
    <2>2. /\ g \in Reporter /\ pc[g] = "hunt" /\ pc' = [pc EXCEPT ![g] = "charge"]
          /\ UNCHANGED <<ReportingMark, failed>>
      BY <1>5 DEF Take, Goto
    <2>. QED  BY <2>1, <2>2 DEF MarkNeedsReport, TypeOK, Hunter
  <1>6. ASSUME NEW g \in Hunter, Charge(g) PROVE MarkNeedsReport'
    BY <1>6 DEF Charge, Goto, TypeOK, MarkNeedsReport, history
  <1>7. ASSUME NEW g \in Hunter, PostFails(g) PROVE MarkNeedsReport'
    BY <1>7, MarksPosted DEF PostFails
  <1>8. ASSUME NEW g \in Hunter, PostSucceeds(g) PROVE MarkNeedsReport'
    BY <1>8, MarksPosted DEF PostSucceeds, Replace
  <1>9. ASSUME NEW g \in Hunter, StartSwitch(g) \/ Pick(g) \/ TakeOut(g) \/ Renew(g)
        PROVE  MarkNeedsReport'
    <2>1. g \notin Reporter
      BY <1>9, ErrorsAssumption DEF StartSwitch, Pick, TakeOut, Renew, Stands
    <2>2. /\ UNCHANGED <<ReportingMark, failed, got>>
          /\ \A h \in Reporter : todo'[h] = todo[h] /\ pc'[h] = pc[h]
      BY <1>9, <2>1 DEF StartSwitch, Pick, TakeOut, Renew, Goto, TypeOK, Hunter, history
    <2>. QED  BY <2>2, MarksUntouched
  <1>. QED
    BY <1>1, <1>2, <1>3, <1>4, <1>5, <1>6, <1>7, <1>8, <1>9 DEF Next, HunterStep

\* A marked ID whose report did not fail is the ID of a report under way.
THEOREM MarksKept == Spec => []MarkNeedsReport
  <1>1. Init => MarkNeedsReport
    BY DEF Init, MarkNeedsReport
  <1>. QED  BY <1>1, TypeInit, TypeStep, MarksStep, PTL DEF Spec

-----------------------------------------------------------------------------
(* A report finds what it hunts.                                           *)

HuntInv == ClaimsApart /\ HuntFinds

\* A step of none of the reports that takes nothing from the channel.
LEMMA HuntUntouched ==
    ASSUME TypeInv, TypeOK', HuntInv, UNCHANGED <<ReportingMark, seen, robbed>>,
           \A g \in Reporter : todo'[g] = todo[g] /\ Posting(g)' = Posting(g) /\ got'[g] = got[g],
           \A i \in Id : pool'[i] >= pool[i]
    PROVE  HuntInv'
  <1>1. \A g \in Reporter : Claim(g)' = Claim(g)
    BY DEF Claim
  <1>2. ClaimsApart'
    BY <1>1 DEF HuntInv, ClaimsApart
  <1>3. \A i \in Id : pool[i] \in Int /\ pool'[i] \in Int
    BY ErrorsAssumption DEF TypeInv, TypeOK
  <1>4. \A g \in Reporter : seen[g] \subseteq Id
    BY DEF TypeInv, TypeOK, Hunter
  <1>5. HuntFinds'
    BY <1>3, <1>4 DEF HuntInv, HuntFinds
  <1>. QED  BY <1>2, <1>5 DEF HuntInv

\* A step of none of the reports that takes profiles from the channel: one of
\* those that a report hunts is robbed.
LEMMA HuntRobbed ==
    ASSUME TypeInv, HuntInv, NEW c \in BOOLEAN, Rob(c, seen), UNCHANGED ReportingMark,
           \A g \in Reporter : todo'[g] = todo[g] /\ Posting(g)' = Posting(g) /\ got'[g] = got[g],
           ~c => \A g \in Reporter : \A i \in todo[g] : pool'[i] = pool[i]
    PROVE  HuntInv'
  <1>1. \A g \in Reporter : Claim(g)' = Claim(g)
    BY DEF Claim
  <1>2. ClaimsApart'
    BY <1>1 DEF HuntInv, ClaimsApart, Rob
  <1>3. HuntFinds'
    <2>1. CASE robbed'
      BY <2>1 DEF HuntFinds, Rob, Hunter
    <2>2. CASE ~robbed'
      <3>1. seen' = seen /\ ~c
        BY <2>2 DEF Rob
      <3>. QED  BY <3>1 DEF HuntInv, HuntFinds, TypeInv, Stands
    <2>. QED  BY <2>1, <2>2
  <1>. QED  BY <1>2, <1>3 DEF HuntInv

\* A posted profile gives up one claim, the rest of a report that ends too.
LEMMA HuntPosted ==
    ASSUME TypeInv, TypeOK', HuntInv, NEW g \in Reporter, pc[g] = "post", NextOf(g),
           UNCHANGED robbed, ReportingMark \ {got[g]} \subseteq ReportingMark',
           \A i \in Id : pool'[i] >= pool[i]
    PROVE  HuntInv'
  <1>1. \A h \in Reporter : Claim(h)' \subseteq Claim(h)
    BY DEF NextOf, Goto, Claim, Posting, TypeInv, TypeOK, Hunter
  <1>2. got[g] \in Claim(g) /\ got[g] \notin Claim(g)'
    BY DEF NextOf, Goto, Claim, Posting, TypeInv, TypeOK, Stands, Hunter
  <1>3. \A h \in Hunter : seen'[h] \subseteq seen[h]
    BY DEF NextOf, TypeInv, TypeOK
  <1>4. ClaimsApart'
    <2>1. CASE robbed
      BY <1>3, <2>1 DEF HuntInv, ClaimsApart
    <2>2. CASE ~robbed
      <3>1. \A h \in Reporter : got[g] \notin Claim(h)'
        BY <1>1, <1>2, <2>2 DEF HuntInv, ClaimsApart
      <3>2. \A h \in Reporter : Claim(h)' \subseteq ReportingMark'
        BY <1>1, <2>2, <3>1 DEF HuntInv, ClaimsApart
      <3>3. \A h, k \in Reporter : h # k => Claim(h)' \cap Claim(k)' = {}
        BY <1>1, <2>2 DEF HuntInv, ClaimsApart
      <3>. QED  BY <2>2, <3>2, <3>3 DEF ClaimsApart
    <2>. QED  BY <2>1, <2>2
  <1>5. \A i \in Id : pool[i] \in Int /\ pool'[i] \in Int
    BY ErrorsAssumption DEF TypeInv, TypeOK
  <1>6. \A h \in Reporter : seen[h] \subseteq Id
    BY DEF TypeInv, TypeOK, Hunter
  <1>7. HuntFinds'
    BY <1>3, <1>5, <1>6 DEF HuntInv, HuntFinds, Hunter
  <1>. QED  BY <1>4, <1>7 DEF HuntInv

\* A report marks what nobody claims, and claims it.
LEMMA HuntMarked ==
    ASSUME TypeInv, HuntInv, NEW g \in Hunter, Mark(g)
    PROVE  HuntInv'
  <1>. DEFINE n == {i \in Id : errorid[i] > Tell} \ ReportingMark
  <1>1. /\ ReportingMark' = ReportingMark \cup n /\ UNCHANGED <<pool, got, robbed>>
        /\ todo' = [todo EXCEPT ![g] = n] /\ g \in Reporter /\ pc[g] = "mark"
        /\ pc' = [pc EXCEPT ![g] = IF n = {} THEN "idle" ELSE "hunt"]
        /\ seen' = IF robbed THEN [h \in Hunter |-> {}]
                             ELSE [seen EXCEPT ![g] = {i \in n : pool[i] > 0}]
        /\ n \cap ReportingMark = {} /\ n \subseteq Id
    BY DEF Mark, SetOut, Goto, Rob, TypeInv, TypeOK
  <1>. HIDE DEF n
  <1>2. Claim(g)' = n
    BY <1>1 DEF Claim, Posting, TypeInv, TypeOK
  <1>3. \A h \in Reporter \ {g} : Claim(h)' = Claim(h)
    BY <1>1 DEF Claim, Posting, TypeInv, TypeOK, Hunter
  <1>4. ClaimsApart'
    BY <1>1, <1>2, <1>3 DEF HuntInv, ClaimsApart
  <1>5. HuntFinds'
    BY <1>1 DEF HuntInv, HuntFinds, TypeInv, TypeOK, Hunter
  <1>. QED  BY <1>4, <1>5 DEF HuntInv

\* A report takes a profile of an ID it claims, which nobody else does, or robs
\* itself or another.
LEMMA HuntTaken ==
    ASSUME TypeInv, HuntInv, NEW g \in Hunter, Take(g)
    PROVE  HuntInv'
  <1>1. PICK i \in ids[g] :
          /\ Receive(i)
          /\ got' = [got EXCEPT ![g] = i]
          /\ todo' = [todo EXCEPT ![g] = @ \ {i}]
          /\ Rob(i \notin todo[g], [seen EXCEPT ![g] = @ \ {i}])
    BY DEF Take
  <1>2. /\ g \in Reporter /\ pc[g] = "hunt" /\ pc' = [pc EXCEPT ![g] = "charge"]
        /\ UNCHANGED ReportingMark
    BY DEF Take, Goto
  <1>3. CASE robbed'
    <2>1. \A h \in Hunter : seen'[h] = {}
      BY <1>1, <1>3 DEF Rob
    <2>. QED  BY <1>3, <2>1 DEF HuntInv, ClaimsApart, HuntFinds, Hunter
  <1>4. CASE ~robbed'
    <2>1. i \in todo[g] /\ ~robbed /\ seen' = [seen EXCEPT ![g] = @ \ {i}]
      BY <1>1, <1>4 DEF Rob
    <2>2. Claim(g)' = Claim(g) /\ i \in Claim(g)
      BY <1>1, <1>2, <2>1 DEF Claim, Posting, TypeInv, TypeOK, Hunter
    <2>3. \A h \in Reporter \ {g} : Claim(h)' = Claim(h)
      BY <1>1, <1>2 DEF Claim, Posting, TypeInv, TypeOK, Hunter
    <2>4. ClaimsApart'
      BY <1>2, <1>4, <2>1, <2>2, <2>3 DEF HuntInv, ClaimsApart
    <2>5. \A h \in Reporter : seen'[h] \subseteq seen[h] /\ i \notin seen'[h]
      <3>1. \A h \in Reporter \ {g} : i \notin todo[h]
        BY <1>2, <2>1, <2>2 DEF HuntInv, ClaimsApart, Claim
      <3>. QED  BY <2>1, <3>1 DEF TypeInv, TypeOK, Stands, Hunter
    <2>6. \A j \in Id : j # i => pool'[j] = pool[j]
      BY <1>1 DEF Receive, TypeInv, TypeOK
    <2>7. \A h \in Reporter : seen[h] \subseteq Id
      BY DEF TypeInv, TypeOK, Hunter
    <2>8. HuntFinds'
      BY <2>5, <2>6, <2>7 DEF HuntInv, HuntFinds
    <2>. QED  BY <2>4, <2>8 DEF HuntInv
  <1>. QED  BY <1>3, <1>4

\* Every step preserves HuntInv.
LEMMA HuntStep == TypeInv /\ HuntInv /\ [Next]_vars => HuntInv'
  <1>. SUFFICES ASSUME TypeInv, HuntInv, [Next]_vars PROVE HuntInv'  OBVIOUS
  <1>0. TypeOK'
    BY TypeStep DEF TypeInv
  <1>. DEFINE PoolKept == \A i \in Id : pool'[i] >= pool[i]
  <1>1. ASSUME UNCHANGED pool PROVE PoolKept
    BY <1>1, ErrorsAssumption DEF TypeInv, TypeOK
  <1>. HIDE DEF PoolKept
  <1>2. CASE UNCHANGED vars
    BY <1>2 DEF vars, local, history, HuntInv, ClaimsApart, Claim, Posting, HuntFinds
  <1>3. ASSUME \/ \E eid \in 0..issued : ErrRecord(eid, 1) \/ ErrRecord(eid, 2) \/ ErrVanish(eid)
               \/ RouteError \/ NewProfile \/ LeaveRoute \/ InitCounts
        PROVE  HuntInv'
    <2>1. UNCHANGED <<ReportingMark, seen, robbed, todo, pc, got>>
      BY <1>3 DEF ErrRecord, ErrVanish, RouteError, NewProfile, LeaveRoute, InitCounts,
         local, history
    <2>2. PoolKept
      <3>1. CASE NewProfile
        BY <3>1, FetchTypes DEF NewProfile, PoolKept, TypeInv
      <3>2. CASE UNCHANGED pool
        BY <3>2, <1>1
      <3>. QED
        BY <1>3, <3>1, <3>2 DEF ErrRecord, ErrVanish, RouteError, LeaveRoute, InitCounts
    <2>. QED  BY <1>0, <2>1, <2>2, HuntUntouched DEF PoolKept, Posting
  <1>4. ASSUME ChangeRoute \/ ChangeProxyType PROVE HuntInv'
    <2>1. Forget /\ UNCHANGED <<ReportingMark, todo, pc, got>>
      BY <1>4 DEF ChangeRoute, ChangeProxyType, local
    <2>. DEFINE c == \E g \in Hunter : todo[g] # {}
    <2>2. Rob(c, seen)
      BY <2>1 DEF Forget
    <2>3. ~c => \A g \in Reporter : \A i \in todo[g] : pool'[i] = pool[i]
      BY DEF Hunter
    <2>. QED  BY <2>1, <2>2, <2>3, HuntRobbed DEF Posting
  <1>5. ASSUME NEW g \in Hunter, StartReport(g) \/ Charge(g) PROVE HuntInv'
    <2>1. /\ UNCHANGED <<ReportingMark, seen, robbed, todo, got, pool>>
          /\ \A h \in Reporter : Posting(h)' = Posting(h)
      BY <1>5 DEF StartReport, Charge, Goto, Posting, TypeInv, TypeOK, Hunter, history
    <2>. QED  BY <1>0, <1>1, <2>1, HuntUntouched DEF PoolKept
  <1>6. ASSUME NEW g \in Hunter, Mark(g) PROVE HuntInv'
    BY <1>6, HuntMarked
  <1>7. ASSUME NEW g \in Hunter, Take(g) PROVE HuntInv'
    BY <1>7, HuntTaken
  <1>8. ASSUME NEW g \in Hunter, PostFails(g) PROVE HuntInv'
    BY <1>0, <1>1, <1>8, HuntPosted DEF PostFails, PoolKept
  <1>9. ASSUME NEW g \in Hunter, PostSucceeds(g) PROVE HuntInv'
    <2>1. issued + 1 \in 1..MaxId /\ issued' = issued + 1 /\ Send(issued + 1)
      BY <1>9, ErrorsAssumption DEF PostSucceeds, Replace, TypeInv, TypeOK
    <2>2. PoolKept
      BY <2>1, SendTypes DEF PoolOK, TypeInv, TypeOK, PoolKept
    <2>. QED  BY <1>0, <1>9, <2>2, HuntPosted DEF PostSucceeds, Replace, PoolKept
  <1>10. ASSUME NEW g \in Hunter, StartSwitch(g) \/ Pick(g) \/ Renew(g) PROVE HuntInv'
    <2>1. g \notin Reporter
      BY <1>10, ErrorsAssumption DEF StartSwitch, Pick, Renew, TypeInv, Stands
    <2>2. /\ UNCHANGED <<ReportingMark, seen, robbed, got>>
          /\ \A h \in Reporter : todo'[h] = todo[h] /\ pc'[h] = pc[h]
      BY <1>10, <2>1 DEF StartSwitch, Pick, Renew, Goto, TypeInv, TypeOK, Hunter, history
    <2>3. PoolKept
      BY <1>1, <1>10, FetchTypes DEF StartSwitch, Pick, Renew, TypeInv, PoolKept
    <2>. QED  BY <1>0, <2>2, <2>3, HuntUntouched DEF PoolKept, Posting
  <1>11. ASSUME NEW g \in Hunter, TakeOut(g) PROVE HuntInv'
    <2>1. PICK i \in ids[g] : Receive(i) /\ Rob(\E h \in Reporter : i \in todo[h], seen)
      BY <1>11 DEF TakeOut
    <2>. DEFINE c == \E h \in Reporter : i \in todo[h]
    <2>2. g \notin Reporter
      BY <1>11, ErrorsAssumption DEF TakeOut
    <2>3. /\ UNCHANGED <<ReportingMark, got>>
          /\ \A h \in Reporter : todo'[h] = todo[h] /\ pc'[h] = pc[h]
      BY <1>11, <2>2 DEF TakeOut, Goto, TypeInv, TypeOK, Hunter
    <2>4. \A j \in Id : j # i => pool'[j] = pool[j]
      BY <2>1 DEF Receive, TypeInv, TypeOK
    <2>5. ~c => \A h \in Reporter : \A j \in todo[h] : pool'[j] = pool[j]
      BY <2>4 DEF TypeInv, TypeOK, Hunter
    <2>. QED  BY <2>1, <2>3, <2>5, HuntRobbed DEF Posting
  <1>12. CASE DropProfile
    <2>1. UNCHANGED <<ReportingMark, todo, pc, got>>
      BY <1>12 DEF DropProfile, local
    <2>2. CASE UNCHANGED <<pool, robbed, seen>>
      BY <1>0, <1>1, <2>1, <2>2, HuntUntouched DEF PoolKept, Posting
    <2>3. ASSUME NEW i \in Id, Rob(\E g \in Hunter : i \in todo[g], seen),
                 \A j \in Id : j # i => pool'[j] = pool[j]
          PROVE  HuntInv'
      <3>. DEFINE c == \E g \in Hunter : i \in todo[g]
      <3>1. ~c => \A g \in Reporter : \A j \in todo[g] : pool'[j] = pool[j]
        BY <2>3 DEF TypeInv, TypeOK, Hunter
      <3>2. c \in BOOLEAN /\ Rob(c, seen)
        BY <2>3
      <3>. HIDE DEF c
      <3>. QED  BY <2>1, <3>1, <3>2, HuntRobbed DEF Posting
    <2>. QED  BY <1>12, <2>2, <2>3, DropTypes DEF TypeInv
  <1>. QED
    BY <1>2, <1>3, <1>4, <1>5, <1>6, <1>7, <1>8, <1>9, <1>10, <1>11, <1>12 DEF Next, HunterStep

\* Whatever other reports do, a report finds the profiles it set out for.
THEOREM HuntsFind == Spec => []HuntFinds
  <1>1. Init => HuntInv
    BY DEF Init, HuntInv, ClaimsApart, Claim, Posting, HuntFinds, Hunter
  <1>2. Spec => []HuntInv
    BY <1>1, TypeInit, TypeStep, HuntStep, PTL DEF Spec
  <1>3. HuntInv => HuntFinds
    BY DEF HuntInv
  <1>. QED  BY <1>2, <1>3, PTL

\* The mark of ReportErrorProxy is the lock on an ID: no two reports that have
\* taken their profiles post the same ID to /proxy-err, which would have the
\* server replace one tunnel twice, unless a hunted profile was robbed.
PostsApart ==
    ~robbed =>
      \A g, h \in Reporter : g # h /\ Posting(g) /\ Posting(h) => got[g] # got[h]

\* Whatever the reports read without the lock, their posts are of different
\* tunnels.
THEOREM ReportsApart == Spec => []PostsApart
  <1>1. Init => HuntInv
    BY DEF Init, HuntInv, ClaimsApart, Claim, Posting, HuntFinds, Hunter
  <1>2. Spec => []HuntInv
    BY <1>1, TypeInit, TypeStep, HuntStep, PTL DEF Spec
  <1>3. HuntInv => PostsApart
    BY DEF HuntInv, ClaimsApart, Claim, PostsApart
  <1>. QED  BY <1>2, <1>3, PTL

-----------------------------------------------------------------------------
(* What ErrCount still owes: the errors that no report has read yet, and   *)
(* those that one has read and not subtracted.                             *)

Slot == ({"counted"} \X Id) \cup ({"read"} \X Hunter)
Counted(i) == <<"counted", i>>
Read(g) == <<"read", g>>

Owed ==
    [s \in Slot |->
       IF s[1] = "counted"
       THEN IF s[2] \in charged THEN 0 ELSE errorid[s[2]]
       ELSE IF pc[s[2]] = "charge" THEN errnum[s[2]] ELSE 0]

\* at lays intervals of the lengths w into 0..n, no two of which overlap.
Laid(S, w, n, at) ==
    /\ at \in [S -> Nat]
    /\ \A s \in S : at[s] + w[s] <= n
    /\ \A s, t \in S : s # t => at[s] + w[s] <= at[t] \/ at[t] + w[t] <= at[s]

\* The sum of w is at most n, without a sum: S may be infinite, and what a
\* sum computes takes an induction.
Fits(S, w, n) == \E at \in [S -> Nat] : Laid(S, w, n, at)

\* As long as no error is subtracted twice, ErrCount covers what it owes.
Balanced == ~drift => Fits(Slot, Owed, ErrCount)

\* One length changes by at most as much as the whole: what lies above it
\* moves.
LEMMA FitsChange ==
    ASSUME NEW S, NEW w \in [S -> Nat], NEW v \in [S -> Nat], NEW k \in S,
           NEW n \in Int, NEW m \in Int, Fits(S, w, n),
           \A s \in S : s # k => v[s] = w[s],
           m - n >= v[k] - w[k]
    PROVE  Fits(S, v, m)
  <1>. DEFINE d == v[k] - w[k]
  <1>1. PICK at \in [S -> Nat] : Laid(S, w, n, at)
    BY DEF Fits
  <1>. DEFINE Above(s) == s # k /\ at[s] >= at[k] + w[k]
              up == [s \in S |-> IF Above(s) THEN at[s] + d ELSE at[s]]
  <1>2. d \in Int /\ \A s \in S : at[s] \in Nat /\ w[s] \in Nat /\ v[s] \in Nat
    OBVIOUS
  <1>3. \A s \in S : Above(s) => at[s] + d \in Nat
    BY <1>2
  <1>4. up \in [S -> Nat]
    BY <1>2, <1>3
  <1>5. ASSUME NEW s \in S PROVE up[s] + v[s] <= m
    <2>1. at[s] + w[s] <= n /\ at[k] + w[k] <= n
      BY <1>1 DEF Laid
    <2>2. s # k => at[s] + w[s] <= at[k] \/ at[k] + w[k] <= at[s]
      BY <1>1 DEF Laid
    <2>3. CASE s = k
      BY <1>2, <2>1, <2>3
    <2>4. CASE Above(s)
      BY <1>2, <2>1, <2>4
    <2>5. CASE s # k /\ ~Above(s)
      <3>1. at[s] + w[s] <= at[k] /\ v[s] = w[s] /\ up[s] = at[s]
        BY <1>2, <2>2, <2>5
      <3>2. at[k] <= n /\ at[k] <= m
        BY <1>2, <2>1
      <3>. QED  BY <1>2, <3>1, <3>2
    <2>. QED  BY <2>3, <2>4, <2>5
  <1>6. ASSUME NEW s \in S, NEW t \in S, s # t
        PROVE  up[s] + v[s] <= up[t] \/ up[t] + v[t] <= up[s]
    <2>1. /\ at[s] + w[s] <= at[t] \/ at[t] + w[t] <= at[s]
          /\ s # k => at[s] + w[s] <= at[k] \/ at[k] + w[k] <= at[s]
          /\ t # k => at[t] + w[t] <= at[k] \/ at[k] + w[k] <= at[t]
      BY <1>1, <1>6 DEF Laid
    <2>2. CASE s = k
      BY <1>2, <1>6, <2>1, <2>2
    <2>3. CASE t = k
      BY <1>2, <1>6, <2>1, <2>3
    <2>4. CASE s # k /\ t # k
      <3>1. v[s] = w[s] /\ v[t] = w[t]
        BY <2>4
      <3>2. CASE Above(s) /\ Above(t)
        BY <1>2, <2>1, <3>1, <3>2
      <3>3. CASE ~Above(s) /\ ~Above(t)
        BY <1>2, <2>1, <3>1, <3>3
      <3>4. CASE Above(s) /\ ~Above(t)
        BY <1>2, <2>1, <2>4, <3>1, <3>4
      <3>5. CASE ~Above(s) /\ Above(t)
        BY <1>2, <2>1, <2>4, <3>1, <3>5
      <3>. QED  BY <3>2, <3>3, <3>4, <3>5
    <2>. QED  BY <2>2, <2>3, <2>4
  <1>7. Laid(S, v, m, up)
    BY <1>4, <1>5, <1>6 DEF Laid
  <1>. QED  BY <1>4, <1>7 DEF Fits

\* Shorter lengths fit into a longer interval.
LEMMA FitsLess ==
    ASSUME NEW S, NEW w \in [S -> Nat], NEW v \in [S -> Nat],
           NEW n \in Int, NEW m \in Int, Fits(S, w, n),
           \A s \in S : v[s] <= w[s], n <= m
    PROVE  Fits(S, v, m)
  <1>1. PICK at \in [S -> Nat] : Laid(S, w, n, at)
    BY DEF Fits
  <1>2. \A s \in S : at[s] \in Nat /\ w[s] \in Nat /\ v[s] \in Nat
    OBVIOUS
  <1>3. \A s \in S : at[s] + v[s] <= at[s] + w[s]
    BY <1>2
  <1>4. Laid(S, v, m, at)
    BY <1>1, <1>2, <1>3 DEF Laid
  <1>. QED  BY <1>4 DEF Fits

\* One length moves to another that is zero.
LEMMA FitsMove ==
    ASSUME NEW S, NEW w \in [S -> Nat], NEW v \in [S -> Nat],
           NEW k \in S, NEW l \in S, k # l, NEW n \in Int, Fits(S, w, n),
           \A s \in S : s \notin {k, l} => v[s] = w[s],
           v[k] = 0, w[l] = 0, v[l] = w[k]
    PROVE  Fits(S, v, n)
  <1>. DEFINE u == [w EXCEPT ![k] = 0]
  <1>1. u \in [S -> Nat] /\ w[k] \in Nat /\ n - w[k] \in Int
    OBVIOUS
  <1>2. u[k] = 0 /\ u[l] = 0 /\ \A s \in S : s # k => u[s] = w[s]
    OBVIOUS
  <1>. HIDE DEF u
  <1>3. (n - w[k]) - n >= u[k] - w[k]
    BY <1>1, <1>2
  <1>4. Fits(S, u, n - w[k])
    <2>. DEFINE m == n - w[k]
    <2>1. m \in Int /\ m - n >= u[k] - w[k]
      BY <1>1, <1>3
    <2>. HIDE DEF m
    <2>2. Fits(S, u, m)
      BY <1>1, <1>2, <2>1, FitsChange
    <2>. QED  BY <2>2 DEF m
  <1>5. \A s \in S : s # l => v[s] = u[s]
    BY <1>2
  <1>6. n - (n - w[k]) >= v[l] - u[l]
    BY <1>1, <1>2
  <1>. QED  BY <1>1, <1>4, <1>5, <1>6, FitsChange

\* Nothing fits into 0.
LEMMA NothingFits ==
    ASSUME NEW S, NEW w, \A s \in S : w[s] = 0
    PROVE  Fits(S, w, 0)
  <1>. DEFINE at == [s \in S |-> 0]
  <1>1. Laid(S, w, 0, at) /\ at \in [S -> Nat]
    BY DEF Laid
  <1>. HIDE DEF at
  <1>. QED  BY <1>1 DEF Fits

\* What is owed, slot by slot.
OwedIs ==
    /\ Owed \in [Slot -> Nat]
    /\ \A i \in Id : Owed[Counted(i)] = IF i \in charged THEN 0 ELSE errorid[i]
    /\ \A g \in Hunter : Owed[Read(g)] = IF pc[g] = "charge" THEN errnum[g] ELSE 0

\* The slots are apart, one for each ID and one for each goroutine.
LEMMA SlotFacts ==
    /\ \A i \in Id : Counted(i) \in Slot /\ Counted(i)[1] = "counted" /\ Counted(i)[2] = i
    /\ \A g \in Hunter : Read(g) \in Slot /\ Read(g)[1] = "read" /\ Read(g)[2] = g
    /\ \A s \in Slot : \/ \E i \in Id : s = Counted(i)
                       \/ \E g \in Hunter : s = Read(g)
    /\ \A i \in Id, g \in Hunter : Counted(i) # Read(g)
  BY DEF Slot, Counted, Read

\* Owed is what it is meant to be.
LEMMA OwedTyped == TypeOK => OwedIs
  <1>. SUFFICES ASSUME TypeOK PROVE OwedIs  OBVIOUS
  <1>1. \A i \in Id : Owed[Counted(i)] = IF i \in charged THEN 0 ELSE errorid[i]
    BY SlotFacts DEF Owed
  <1>2. \A g \in Hunter : Owed[Read(g)] = IF pc[g] = "charge" THEN errnum[g] ELSE 0
    BY SlotFacts DEF Owed
  <1>3. \A s \in Slot : Owed[s] \in Nat
    <2>1. \A i \in Id : Owed[Counted(i)] \in Nat
      BY <1>1 DEF TypeOK
    <2>2. \A g \in Hunter : Owed[Read(g)] \in Nat
      BY <1>2 DEF TypeOK
    <2>. QED  BY <2>1, <2>2, SlotFacts
  <1>4. Owed \in [Slot -> Nat]
    BY <1>3 DEF Owed
  <1>. QED  BY <1>1, <1>2, <1>4 DEF OwedIs

\* The same before and after a step.
LEMMA OwedFacts == TypeOK /\ TypeOK' => OwedIs /\ OwedIs'
  <1>1. TypeOK' => OwedIs'
    BY OwedTyped, PTL
  <1>. QED  BY <1>1, OwedTyped

\* Nothing more is owed: errors are forgotten, and ErrCount is not lowered.
LEMMA BalanceLess ==
    ASSUME TypeOK, TypeOK', Balanced, drift' = drift,
           \A i \in Id : (IF i \in charged' THEN 0 ELSE errorid'[i])
                           <= (IF i \in charged THEN 0 ELSE errorid[i]),
           \A g \in Hunter : pc'[g] = "charge" => pc[g] = "charge" /\ errnum'[g] = errnum[g],
           ErrCount' >= ErrCount
    PROVE  Balanced'
  <1>1. OwedIs /\ OwedIs'
    BY OwedFacts
  <1>2. ErrCount \in Int /\ ErrCount' \in Int /\ \A g \in Hunter : errnum[g] \in Nat
    BY DEF TypeOK
  <1>3. \A i \in Id : Owed'[Counted(i)] <= Owed[Counted(i)]
    BY <1>1 DEF OwedIs, Counted
  <1>4. \A g \in Hunter : Owed'[Read(g)] <= Owed[Read(g)]
    <2>. SUFFICES ASSUME NEW g \in Hunter PROVE Owed'[Read(g)] <= Owed[Read(g)]
      OBVIOUS
    <2>1. /\ Owed[Read(g)] = IF pc[g] = "charge" THEN errnum[g] ELSE 0
          /\ Owed'[Read(g)] = IF pc'[g] = "charge" THEN errnum'[g] ELSE 0
          /\ pc'[g] = "charge" => pc[g] = "charge" /\ errnum'[g] = errnum[g]
      BY <1>1 DEF OwedIs, Read
    <2>. QED  BY <1>2, <2>1
  <1>5. \A s \in Slot : Owed'[s] <= Owed[s]
    BY <1>3, <1>4, SlotFacts
  <1>6. Owed \in [Slot -> Nat] /\ Owed' \in [Slot -> Nat]
    BY <1>1 DEF OwedIs, Slot
  <1>7. ~drift' => Fits(Slot, Owed, ErrCount)
    BY DEF Balanced
  <1>8. ~drift' => Fits(Slot, Owed', ErrCount')
    BY <1>2, <1>5, <1>6, <1>7, FitsLess
  <1>. QED  BY <1>8 DEF Balanced, Slot

\* The errors of one ID change by as much as ErrCount, or by less.
LEMMA BalanceCount ==
    ASSUME TypeOK, TypeOK', Balanced, ~drift, NEW eid \in Id,
           UNCHANGED <<charged, pc, errnum>>,
           \A i \in Id : i # eid => errorid'[i] = errorid[i],
           ErrCount' - ErrCount >= IF eid \in charged THEN 0 ELSE errorid'[eid] - errorid[eid]
    PROVE  Balanced'
  <1>. DEFINE k == Counted(eid)
  <1>1. OwedIs /\ OwedIs'
    BY OwedFacts
  <1>2. \A i \in Id : i # eid => Owed'[Counted(i)] = Owed[Counted(i)]
    BY <1>1 DEF OwedIs, Counted
  <1>3. \A g \in Hunter : Owed'[Read(g)] = Owed[Read(g)]
    BY <1>1 DEF OwedIs, Read
  <1>4. \A s \in Slot : s # k => Owed'[s] = Owed[s]
    BY <1>2, <1>3, SlotFacts
  <1>5. ErrCount' - ErrCount >= Owed'[k] - Owed[k]
    BY <1>1 DEF OwedIs, TypeOK, Counted
  <1>6. Owed \in [Slot -> Nat] /\ Owed' \in [Slot -> Nat] /\ k \in Slot
    BY <1>1, SlotFacts DEF OwedIs, Slot
  <1>7. Fits(Slot, Owed, ErrCount) /\ ErrCount \in Int /\ ErrCount' \in Int
    BY DEF Balanced, TypeOK
  <1>. HIDE DEF k
  <1>8. Fits(Slot, Owed', ErrCount')
    BY <1>4, <1>5, <1>6, <1>7, FitsChange
  <1>. QED  BY <1>8 DEF Balanced, Slot

\* A report reads the errors of a profile: what was counted is read.
LEMMA BalanceTake ==
    ASSUME TypeOK, TypeOK', Balanced, NEW g \in Hunter, Take(g)
    PROVE  Balanced'
  <1>. SUFFICES ASSUME ~drift' PROVE Fits(Slot, Owed', ErrCount')
    BY DEF Balanced, Slot
  <1>1. PICK i \in ids[g] :
          /\ errnum' = [errnum EXCEPT ![g] = errorid[i]]
          /\ Drift(i \in charged, charged \cup {i})
    BY DEF Take
  <1>2. i \in Id /\ ~drift /\ i \notin charged /\ charged' = charged \cup {i}
    BY <1>1 DEF Drift, TypeOK
  <1>3. /\ pc[g] = "hunt" /\ pc' = [pc EXCEPT ![g] = "charge"]
        /\ UNCHANGED <<errorid, ErrCount>>
    BY DEF Take, Goto, counts
  <1>4. pc'[g] = "charge" /\ errnum'[g] = errorid[i]
    BY <1>1, <1>3 DEF TypeOK
  <1>5. OwedIs /\ OwedIs'
    BY OwedFacts
  <1>. DEFINE k == Counted(i)
              l == Read(g)
  <1>6. k \in Slot /\ l \in Slot /\ k # l
    BY <1>2, SlotFacts
  <1>7. \A j \in Id : j # i => Owed'[Counted(j)] = Owed[Counted(j)]
    BY <1>2, <1>3, <1>5 DEF OwedIs, Counted
  <1>8. \A h \in Hunter : h # g => Owed'[Read(h)] = Owed[Read(h)]
    BY <1>1, <1>3, <1>5 DEF OwedIs, TypeOK, Read
  <1>9. \A s \in Slot : s \notin {k, l} => Owed'[s] = Owed[s]
    BY <1>7, <1>8, SlotFacts
  <1>10. Owed'[k] = 0 /\ Owed[l] = 0 /\ Owed'[l] = Owed[k]
    BY <1>2, <1>3, <1>4, <1>5 DEF OwedIs, Counted, Read
  <1>11. Owed \in [Slot -> Nat] /\ Owed' \in [Slot -> Nat]
    BY <1>5 DEF OwedIs, Slot
  <1>12. Fits(Slot, Owed, ErrCount) /\ ErrCount \in Int
    BY <1>2 DEF Balanced, TypeOK
  <1>. HIDE DEF k, l
  <1>13. Fits(Slot, Owed', ErrCount)
    BY <1>6, <1>9, <1>10, <1>11, <1>12, FitsMove
  <1>. QED  BY <1>3, <1>13

\* A report subtracts what it has read.
LEMMA BalanceCharge ==
    ASSUME TypeOK, TypeOK', Balanced, NEW g \in Hunter, Charge(g)
    PROVE  Balanced'
  <1>1. /\ pc[g] = "charge" /\ pc' = [pc EXCEPT ![g] = "post"]
        /\ UNCHANGED <<errorid, errnum, charged, drift>>
        /\ ErrCount' = ErrCount - errnum[g]
    BY DEF Charge, Goto, history
  <1>. SUFFICES ASSUME ~drift' PROVE Fits(Slot, Owed', ErrCount')
    BY DEF Balanced, Slot
  <1>2. OwedIs /\ OwedIs'
    BY OwedFacts
  <1>. DEFINE k == Read(g)
  <1>3. \A j \in Id : Owed'[Counted(j)] = Owed[Counted(j)]
    BY <1>1, <1>2 DEF OwedIs, Counted
  <1>4. \A h \in Hunter : h # g => Owed'[Read(h)] = Owed[Read(h)]
    BY <1>1, <1>2 DEF OwedIs, TypeOK, Read
  <1>5. \A s \in Slot : s # k => Owed'[s] = Owed[s]
    BY <1>3, <1>4, SlotFacts
  <1>6. pc'[g] # "charge" /\ errnum[g] \in Nat
    BY <1>1 DEF TypeOK
  <1>7. Owed'[k] = 0 /\ Owed[k] = errnum[g]
    BY <1>1, <1>2, <1>6 DEF OwedIs, Read
  <1>8. /\ Owed \in [Slot -> Nat] /\ Owed' \in [Slot -> Nat] /\ k \in Slot
        /\ ErrCount \in Int /\ ErrCount' \in Int
    BY <1>2, SlotFacts DEF OwedIs, Slot, TypeOK
  <1>9. ErrCount' - ErrCount >= Owed'[k] - Owed[k]
    BY <1>1, <1>6, <1>7, <1>8
  <1>10. Fits(Slot, Owed, ErrCount)
    BY <1>1 DEF Balanced
  <1>. HIDE DEF k
  <1>. QED  BY <1>5, <1>8, <1>9, <1>10, FitsChange

\* Every step keeps the balance.
LEMMA BalanceStep == TypeInv /\ TypeInv' /\ Balanced /\ [Next]_vars => Balanced'
  <1>. SUFFICES ASSUME TypeOK, TypeOK', Balanced, [Next]_vars PROVE Balanced'
    BY DEF TypeInv
  <1>0. /\ errorid \in [Id -> Nat] /\ ErrCount \in Int /\ errorid' \in [Id -> Nat]
        /\ ErrCount' \in Int /\ charged \subseteq Id
    BY DEF TypeOK
  <1>. DEFINE Same == UNCHANGED <<errorid, ErrCount, charged, drift, errnum>>
              NoCharge == \A g \in Hunter : pc'[g] = "charge" => pc[g] = "charge"
  <1>1. ASSUME Same, NoCharge PROVE Balanced'
    BY <1>0, <1>1, BalanceLess
  <1>2. ASSUME NEW i \in Id, Clear(i), UNCHANGED <<ErrCount, drift, errnum>>, NoCharge
        PROVE Balanced'
    <2>1. \A j \in Id : (IF j \in charged' THEN 0 ELSE errorid'[j])
                          <= (IF j \in charged THEN 0 ELSE errorid[j])
      BY <1>0, <1>2 DEF Clear
    <2>. QED  BY <1>0, <1>2, <2>1, BalanceLess
  <1>3. ASSUME NEW eid \in 0..issued, NEW i \in {1, 2}, ErrRecord(eid, i) PROVE Balanced'
    <2>1. eid \in Id
      BY ErrorsAssumption DEF Id, TypeOK
    <2>2. /\ errorid' = [errorid EXCEPT ![eid] = @ + i] /\ ErrCount' = ErrCount + i
          /\ UNCHANGED <<charged, drift, pc, errnum>>
      BY <1>3 DEF ErrRecord, local, history
    <2>3. ErrCount' - ErrCount >= IF eid \in charged THEN 0 ELSE errorid'[eid] - errorid[eid]
      BY <1>0, <2>1, <2>2
    <2>4. CASE drift
      BY <2>2, <2>4 DEF Balanced
    <2>5. CASE ~drift
      BY <1>0, <2>1, <2>2, <2>3, <2>5, BalanceCount
    <2>. QED  BY <2>4, <2>5
  <1>4. ASSUME NEW eid \in 0..issued, ErrVanish(eid) PROVE Balanced'
    <2>1. eid \in Id
      BY ErrorsAssumption DEF Id, TypeOK
    <2>2. /\ errorid' = [errorid EXCEPT ![eid] = Less(@)] /\ ErrCount' = Less(ErrCount)
          /\ Drift(errorid[eid] = 0 \/ eid \in charged, charged)
          /\ UNCHANGED <<pc, errnum>>
      BY <1>4 DEF ErrVanish, local
    <2>. SUFFICES ASSUME ~drift' PROVE Balanced'
      BY DEF Balanced
    <2>3. ~drift /\ errorid[eid] # 0 /\ eid \notin charged /\ charged' = charged
      BY <2>2 DEF Drift
    <2>4. errorid'[eid] = errorid[eid] - 1
      BY <1>0, <2>1, <2>2, <2>3 DEF Less
    <2>5. ErrCount' - ErrCount >= -1
      BY <1>0, <2>2 DEF Less
    <2>6. ErrCount' - ErrCount >= IF eid \in charged THEN 0 ELSE errorid'[eid] - errorid[eid]
      <3>1. errorid[eid] \in Int /\ errorid'[eid] - errorid[eid] = -1
        BY <1>0, <2>1, <2>4
      <3>. QED  BY <2>3, <2>5, <3>1
    <2>. QED  BY <1>0, <2>1, <2>2, <2>3, <2>6, BalanceCount
  <1>5. CASE RouteError
    BY <1>1, <1>5 DEF RouteError, local, history
  <1>6. CASE NewProfile
    <2>1. PICK i \in 1..MaxId : Clear(i)
      BY <1>6 DEF NewProfile, Fetch, Obtain
    <2>. QED  BY <1>2, <1>6, <2>1 DEF NewProfile, local, Id
  <1>7. CASE LeaveRoute
    BY <1>1, <1>7 DEF LeaveRoute, counts, local, history
  <1>8. ASSUME Forget, UNCHANGED <<ErrCount, drift, pc, errnum>> PROVE Balanced'
    <2>1. \A i \in Id : errorid'[i] = 0 /\ i \notin charged'
      BY <1>8 DEF Forget
    <2>2. \A j \in Id : (IF j \in charged' THEN 0 ELSE errorid'[j])
                          <= (IF j \in charged THEN 0 ELSE errorid[j])
      BY <1>0, <2>1
    <2>. QED  BY <1>0, <1>8, <2>2, BalanceLess
  <1>9. CASE ChangeRoute
    BY <1>8, <1>9 DEF ChangeRoute, local
  <1>10. CASE ChangeProxyType
    BY <1>8, <1>10 DEF ChangeProxyType, local
  <1>11. CASE InitCounts
    <2>1. /\ ErrCount' = 0 /\ UNCHANGED <<errorid, pc>>
          /\ Drift((\E i \in Id : errorid[i] > 0) \/ (\E g \in Hunter : pc[g] = "charge"), charged)
      BY <1>11 DEF InitCounts, local
    <2>. SUFFICES ASSUME ~drift' PROVE Balanced'
      BY DEF Balanced
    <2>2. (\A i \in Id : errorid'[i] = 0) /\ (\A g \in Hunter : pc'[g] # "charge")
      <3>1. ~\E i \in Id : errorid[i] > 0
        BY <2>1 DEF Drift
      <3>2. ~\E g \in Hunter : pc[g] = "charge"
        BY <2>1 DEF Drift
      <3>. QED  BY <1>0, <2>1, <3>1, <3>2
    <2>3. Fits(Slot, Owed', ErrCount')
      <3>1. OwedIs'
        BY OwedFacts
      <3>2. \A s \in Slot : Owed'[s] = 0
        BY <2>2, <3>1, SlotFacts DEF OwedIs, Counted, Read
      <3>. QED  BY <2>1, <3>2, NothingFits
    <2>. QED  BY <2>3 DEF Balanced, Slot
  <1>12. ASSUME NEW g \in Hunter, HunterStep(g) PROVE Balanced'
    <2>1. CASE StartReport(g) \/ StartSwitch(g)
      BY <1>1, <2>1 DEF StartReport, StartSwitch, Goto, counts, history, TypeOK
    <2>2. CASE Mark(g)
      <3>1. Same
        BY <2>2 DEF Mark, counts
      <3>2. NoCharge
        BY <2>2 DEF Mark, Goto, TypeOK
      <3>. QED  BY <1>1, <3>1, <3>2
    <2>3. CASE Take(g)
      BY <2>3, BalanceTake
    <2>4. CASE Charge(g)
      BY <2>4, BalanceCharge
    <2>5. ASSUME NextOf(g), pc[g] = "post"
          PROVE  /\ NoCharge /\ pc'[g] # "charge"
                 /\ \A h \in Hunter : h # g => errnum'[h] = errnum[h]
      BY <2>5 DEF NextOf, Goto, TypeOK
    <2>6. CASE PostFails(g)
      <3>1. /\ UNCHANGED <<errorid, ErrCount, charged, drift>> /\ NextOf(g) /\ pc[g] = "post"
        BY <2>6 DEF PostFails
      <3>2. \A h \in Hunter : pc'[h] = "charge" => pc[h] = "charge" /\ errnum'[h] = errnum[h]
        BY <2>5, <3>1
      <3>. QED  BY <1>0, <3>1, <3>2, BalanceLess
    <2>7. CASE PostSucceeds(g)
      <3>1. /\ UNCHANGED <<ErrCount, drift>> /\ NextOf(g) /\ pc[g] = "post"
            /\ Clear(issued + 1) /\ issued < MaxId
        BY <2>7 DEF PostSucceeds, Replace
      <3>2. \A h \in Hunter : pc'[h] = "charge" => pc[h] = "charge" /\ errnum'[h] = errnum[h]
        BY <2>5, <3>1
      <3>3. \A j \in Id : (IF j \in charged' THEN 0 ELSE errorid'[j])
                            <= (IF j \in charged THEN 0 ELSE errorid[j])
        BY <1>0, <3>1 DEF Clear
      <3>. QED  BY <1>0, <3>1, <3>2, <3>3, BalanceLess
    <2>8. CASE Pick(g)
      <3>1. NoCharge /\ UNCHANGED <<ErrCount, drift, errnum>>
        BY <2>8 DEF Pick, Goto, TypeOK
      <3>2. UNCHANGED <<errorid, charged>> \/ \E i \in Id : Clear(i)
        BY <2>8 DEF Pick
      <3>. QED  BY <1>1, <1>2, <3>1, <3>2
    <2>9. CASE TakeOut(g)
      BY <1>1, <2>9 DEF TakeOut, Goto, counts, TypeOK
    <2>10. CASE Renew(g)
      <3>1. NoCharge /\ UNCHANGED <<ErrCount, drift, errnum>>
        BY <2>10 DEF Renew, Goto, TypeOK
      <3>2. UNCHANGED <<errorid, charged>> \/ \E i \in Id : Clear(i)
        BY <2>10 DEF Renew, Fetch, Obtain, Id
      <3>. QED  BY <1>1, <1>2, <3>1, <3>2
    <2>. QED  BY <1>12, <2>1, <2>2, <2>3, <2>4, <2>6, <2>7, <2>8, <2>9, <2>10 DEF HunterStep
  <1>13. CASE DropProfile
    <2>1. NoCharge /\ UNCHANGED <<ErrCount, drift, errnum>>
      BY <1>13 DEF DropProfile, local
    <2>2. UNCHANGED <<errorid, charged>> \/ \E i \in Id : Clear(i)
      BY <1>13, DropTypes
    <2>. QED  BY <1>1, <1>2, <2>1, <2>2
  <1>14. CASE UNCHANGED vars
    BY <1>1, <1>14 DEF vars, counts, local, history
  <1>. QED  BY <1>3, <1>4, <1>5, <1>6, <1>7, <1>9, <1>10, <1>11, <1>12, <1>13, <1>14 DEF Next

\* ErrCount falls below zero only if an error was subtracted that it did not
\* have, however many reports, errors and changes of route there are.
THEOREM NegativeDrifts == Spec => []NegativeNeedsDrift
  <1>1. Init => Balanced
    <2>. SUFFICES ASSUME Init PROVE Balanced  OBVIOUS
    <2>1. ErrCount = 0 /\ (\A i \in Id : errorid[i] = 0) /\ \A g \in Hunter : pc[g] # "charge"
      BY DEF Init
    <2>2. TypeOK
      BY TypeInit DEF TypeInv
    <2>3. \A s \in Slot : Owed[s] = 0
      BY <2>1, <2>2, OwedTyped, SlotFacts DEF OwedIs, Counted, Read
    <2>. QED  BY <2>1, <2>3, NothingFits DEF Balanced
  <1>2. TypeInv /\ Balanced => NegativeNeedsDrift
    <2>. SUFFICES ASSUME TypeOK, Balanced, ~drift PROVE ErrCount >= 0
      BY DEF TypeInv, TypeOK, NegativeNeedsDrift
    <2>1. PICK at \in [Slot -> Nat] : Laid(Slot, Owed, ErrCount, at)
      BY DEF Balanced, Fits
    <2>2. NoId \in Id
      BY ErrorsAssumption DEF Id, NoId
    <2>3. Counted(NoId) \in Slot /\ Owed[Counted(NoId)] \in Nat
      BY <2>2, SlotFacts, OwedTyped DEF OwedIs
    <2>4. at[Counted(NoId)] + Owed[Counted(NoId)] <= ErrCount
      BY <2>1, <2>3 DEF Laid
    <2>. QED  BY <2>1, <2>3, <2>4 DEF TypeOK
  <1>3. Spec => [](TypeInv /\ Balanced)
    BY <1>1, TypeInit, TypeStep, BalanceStep, PTL DEF Spec
  <1>. QED  BY <1>2, <1>3, PTL

=============================================================================
