------------------------- MODULE TunnelRegistryProofs -------------------------
(***************************************************************************)
(* Proofs about TunnelRegistry for every set of requests, server           *)
(* goroutines, tunnels and ports.                                          *)
(***************************************************************************)
EXTENDS TunnelRegistry, SequenceTheorems, TLAPS

\* A list in the order of the calls of AddProxy, and so without repetition.
InOrder(s) ==
    /\ \A i \in DOMAIN s : addedAt[s[i]] > 0
    /\ \A i, j \in DOMAIN s : i < j => addedAt[s[i]] < addedAt[s[j]]

\* Everything a list or a goroutine refers to was made by NewProxy.
AllMade(s) == \A i \in DOMAIN s : typ[s[i]] # None

MadeInv ==
    /\ AllMade(registry)
    /\ \A g \in Goroutine : AllMade(snap[g]) /\ AllMade(todo[g])
    /\ \A t \in bound : typ[t] # None

\* What the local variables hold at the labels that use them.
LocalInv ==
    \A g \in Goroutine :
      /\ pc[g] \in {"add", "check", "start", "listen", "serving", "ending"} =>
           tun[g] \in Tunnel /\ typ[tun[g]] # None
      /\ pc[g] \in {"readerr", "writeerr", "close", "store"} => todo[g] # <<>>

TypeInv == TypeOK /\ MadeInv /\ LocalInv

LEMMA NoneIsNew == None \notin Tunnel /\ None \notin Port /\ None \notin Types
  BY RegistryAssumption

LEMMA HeadTailType ==
  ASSUME NEW S, NEW s \in Seq(S), s # <<>>
  PROVE  /\ Head(s) \in S
         /\ Tail(s) \in Seq(S)
         /\ Head(s) = s[1]
         /\ 1 \in DOMAIN s
         /\ \A i \in DOMAIN Tail(s) : i + 1 \in DOMAIN s /\ Tail(s)[i] = s[i + 1]
  OBVIOUS

\* Without keeps the type, invents nothing and keeps the order of the entries:
\* its i-th entry stands at place i or i + 1 of the list.
LEMMA WithoutType ==
  ASSUME NEW s \in Seq(Tunnel), NEW t \in Tunnel
  PROVE  /\ Without(s, t) \in Seq(Tunnel)
         /\ \A i \in DOMAIN Without(s, t) :
              \E k \in DOMAIN s : Without(s, t)[i] = s[k]
  <1>1. CASE t \notin Elems(s)
    BY <1>1 DEF Without
  <1>2. CASE t \in Elems(s)
    <2> DEFINE n == CHOOSE i \in DOMAIN s : s[i] = t
    <2>1. n \in DOMAIN s
      BY <1>2 DEF Elems
    <2>2. Without(s, t) = [i \in 1..(Len(s) - 1) |-> IF i < n THEN s[i] ELSE s[i + 1]]
      BY <1>2 DEF Without
    <2> HIDE DEF n
    <2>3. Len(s) \in Nat /\ DOMAIN s = 1..Len(s) /\ \A i \in 1..Len(s) : s[i] \in Tunnel
      OBVIOUS
    <2>4. \A i \in 1..(Len(s) - 1) : i \in 1..Len(s) /\ i + 1 \in 1..Len(s)
      BY <2>3
    <2>5. Len(s) - 1 \in Nat
      BY <2>1, <2>3
    <2>6. Without(s, t) \in [1..(Len(s) - 1) -> Tunnel]
      BY <2>2, <2>3, <2>4
    <2>7. Without(s, t) \in Seq(Tunnel)
      BY <2>5, <2>6, IsASeq
    <2> QED
      BY <2>2, <2>3, <2>4, <2>7
  <1> QED
    BY <1>1, <1>2

LEMMA ModRange ==
  ASSUME NEW a \in Nat, NEW n \in Nat, n > 0
  PROVE  a % n \in Nat /\ a % n < n
  OBVIOUS

\* The victim of a DelProxy under way was made, so it has one of the types.
LEMMA VictimMade ==
  ASSUME TypeInv, NEW g \in Goroutine, todo[g] # <<>>
  PROVE  /\ Head(todo[g]) \in Tunnel
         /\ typ[Head(todo[g])] \in Types
         /\ Tail(todo[g]) \in Seq(Tunnel)
         /\ AllMade(Tail(todo[g]))
  <1>1. todo[g] \in Seq(Tunnel)
    BY DEF TypeInv, TypeOK, LocalType
  <1>2. AllMade(todo[g])
    BY DEF TypeInv, MadeInv
  <1>3. typ \in [Tunnel -> Types \cup {None}]
    BY DEF TypeInv, TypeOK, TunnelType
  <1> QED
    BY <1>1, <1>2, <1>3, HeadTailType DEF AllMade

LEMMA WithoutInOrder ==
  ASSUME TypeOK, NEW s \in Seq(Tunnel), NEW t \in Tunnel, InOrder(s)
  PROVE  InOrder(Without(s, t))
  <1>1. CASE t \notin Elems(s)
    BY <1>1 DEF Without
  <1>2. CASE t \in Elems(s)
    <2> DEFINE n == CHOOSE i \in DOMAIN s : s[i] = t
               w == Without(s, t)
               at(i) == IF i < n THEN i ELSE i + 1
    <2>1. n \in DOMAIN s
      BY <1>2 DEF Elems
    <2>2. w = [i \in 1..(Len(s) - 1) |-> IF i < n THEN s[i] ELSE s[i + 1]]
      BY <1>2 DEF Without
    <2>3. Len(s) \in Nat /\ DOMAIN s = 1..Len(s) /\ n \in Nat
      BY <2>1
    <2> HIDE DEF n
    <2>4. DOMAIN w = 1..(Len(s) - 1)
      BY <2>2
    <2> HIDE DEF w
    <2>5. ASSUME NEW i \in DOMAIN w PROVE at(i) \in DOMAIN s /\ w[i] = s[at(i)]
      BY <2>2, <2>3, <2>4
    <2>6. ASSUME NEW i \in DOMAIN w, NEW j \in DOMAIN w, i < j
          PROVE  at(i) < at(j)
      BY <2>3, <2>4, <2>6
    <2> HIDE DEF at
    <2>7. InOrder(w)
      BY <2>5, <2>6 DEF InOrder
    <2> QED
      BY <2>7 DEF w
  <1> QED
    BY <1>1, <1>2

LEMMA TypeInvInit == Init => TypeInv
  <1> SUFFICES ASSUME Init PROVE TypeInv
    OBVIOUS
  <1>1. ListType
    <2>1. registry \in Seq(Tunnel)
      BY DEF Init
    <2>2. lastUse \in Nat /\ errCount \in [Types -> Nat]
      BY DEF Init
    <2>3. stuck \in BOOLEAN
      BY DEF Init
    <2> QED
      BY <2>1, <2>2, <2>3 DEF ListType
  <1>2. TunnelType
    BY DEF Init, TunnelType
  <1>3. LocalType
    <2>1. pc \in [Goroutine -> Labels]
      BY DEF Init, Labels
    <2>2. todo \in [Goroutine -> Seq(Tunnel)] /\ snap \in [Goroutine -> Seq(Tunnel)]
      BY DEF Init
    <2> QED
      BY <2>1, <2>2 DEF Init, LocalType
  <1>4. HistoryType
    BY DEF Init, HistoryType
  <1>5. MadeInv
    BY DEF Init, MadeInv, AllMade
  <1>6. LocalInv
    BY DEF Init, LocalInv
  <1> QED
    BY <1>1, <1>2, <1>3, <1>4, <1>5, <1>6 DEF TypeInv, TypeOK

LEMMA CountAreaType ==
  ASSUME TypeInv, NEW r \in Request, CountArea(r)
  PROVE  TypeInv'
  <1> USE DEF TypeInv, TypeOK, Goroutine
  <1>1. ListType'
    BY DEF CountArea, PanicInArea, ListType, listVars
  <1>2. TunnelType'
    BY DEF CountArea, PanicInArea, TunnelType, tunnelVars
  <1>3. LocalType'
    BY DEF CountArea, PanicInArea, LocalType, localVars, Goto, Labels
  <1>4. HistoryType'
    BY DEF CountArea, PanicInArea, HistoryType, history
  <1>5. MadeInv'
    BY DEF CountArea, PanicInArea, MadeInv, AllMade, TunnelType, LocalType, ListType, listVars, tunnelVars, localVars
  <1>6. LocalInv'
    BY DEF CountArea, PanicInArea, LocalInv, MadeInv, AllMade, TunnelType, LocalType, ListType, listVars, tunnelVars, localVars, Goto, Labels
  <1> QED
    BY <1>1, <1>2, <1>3, <1>4, <1>5, <1>6

LEMMA RotateAreaType ==
  ASSUME TypeInv, NEW r \in Request, RotateArea(r)
  PROVE  TypeInv'
  <1> USE DEF TypeInv, TypeOK, Goroutine
  <1>1. ListType'
    <2>1. CASE Len(registry) = 0
      BY <2>1 DEF RotateArea, PanicInArea, ListType
    <2>2. CASE Len(registry) > 0
      <3>1. Len(registry) \in Nat /\ lastUse \in Nat
        BY DEF ListType
      <3>2. (lastUse % Len(registry)) + 1 \in Nat
        BY <2>2, <3>1, ModRange
      <3>3. ((lastUse % Len(registry)) + 1) % Len(registry) \in Nat
        BY <2>2, <3>1, <3>2, ModRange
      <3>4. lastUse' = ((lastUse % Len(registry)) + 1) % Len(registry)
        BY <2>2, <3>1 DEF RotateArea
      <3> QED
        BY <2>2, <3>3, <3>4 DEF RotateArea, ListType
    <2> QED
      BY <2>1, <2>2 DEF ListType
  <1>2. TunnelType'
    BY DEF RotateArea, PanicInArea, TunnelType, tunnelVars
  <1>3. LocalType'
    <2>1. pc' \in [Goroutine -> Labels]
      BY DEF RotateArea, PanicInArea, LocalType, Goto, Labels
    <2>2. tries' = tries \/ tries' = [tries EXCEPT ![r] = 0]
      BY DEF RotateArea, PanicInArea, localVars
    <2>3. 0 \in 0..3
      OBVIOUS
    <2>4. tries' \in [Goroutine -> 0..3]
      BY <2>2, <2>3 DEF LocalType
    <2> QED
      BY <2>1, <2>4 DEF RotateArea, PanicInArea, LocalType, localVars
  <1>4. HistoryType'
    BY DEF RotateArea, PanicInArea, HistoryType, history
  <1>5. MadeInv'
    BY DEF RotateArea, PanicInArea, MadeInv, AllMade, TunnelType, LocalType, ListType, listVars, tunnelVars, localVars
  <1>6. LocalInv'
    BY DEF RotateArea, PanicInArea, LocalInv, MadeInv, AllMade, TunnelType, LocalType, ListType, listVars, tunnelVars, localVars, Goto, Labels
  <1> QED
    BY <1>1, <1>2, <1>3, <1>4, <1>5, <1>6

LEMMA PickAreaType ==
  ASSUME TypeInv, NEW r \in Request, PickArea(r)
  PROVE  TypeInv'
  <1> USE DEF TypeInv, TypeOK, Goroutine
  <1>1. ListType'
    <2>1. Len(registry) \in Nat /\ lastUse \in Nat /\ lastUse + 1 \in Nat
      BY DEF ListType
    <2>2. Len(registry) > 0 => (lastUse + 1) % Len(registry) \in Nat
      BY <2>1, ModRange
    <2>3. lastUse' \in Nat
      BY <2>1, <2>2 DEF PickArea
    <2>4. stuck' \in BOOLEAN
      BY DEF PickArea, PanicInArea, ListType
    <2> QED
      BY <2>3, <2>4 DEF PickArea, PanicInArea, ListType
  <1>2. TunnelType'
    BY DEF PickArea, PanicInArea, TunnelType, tunnelVars
  <1>3. LocalType'
    <2>1. pc' \in [Goroutine -> Labels]
      BY DEF PickArea, PanicInArea, LocalType, Goto, Labels
    <2>2. tries' \in [Goroutine -> 0..3]
      <3>1. \/ tries' = tries
            \/ tries' = [tries EXCEPT ![r] = 0]
            \/ tries[r] < 3 /\ tries' = [tries EXCEPT ![r] = @ + 1]
        BY DEF PickArea, PanicInArea, localVars
      <3>2. tries \in [Goroutine -> 0..3]
        BY DEF LocalType
      <3>3. tries[r] < 3 => tries[r] + 1 \in 0..3
        BY <3>2
      <3>4. 0 \in 0..3
        OBVIOUS
      <3> QED
        BY <3>1, <3>2, <3>3, <3>4
    <2>3. tun' \in [Goroutine -> Tunnel \cup {None}]
      <3>1. CASE UNCHANGED tun
        BY <3>1 DEF LocalType
      <3>2. CASE Len(registry) > 0 /\ lastUse' = (lastUse + 1) % Len(registry)
                 /\ tun' = [tun EXCEPT ![r] = registry[lastUse' + 1]]
        <4>1. lastUse + 1 \in Nat /\ Len(registry) \in Nat
          BY DEF ListType
        <4>2. lastUse' \in Nat /\ lastUse' < Len(registry)
          BY <3>2, <4>1, ModRange
        <4>3. registry[lastUse' + 1] \in Tunnel
          BY <4>1, <4>2 DEF ListType
        <4> QED
          BY <3>2, <4>3 DEF LocalType
      <3> QED
        BY <3>1, <3>2 DEF PickArea, PanicInArea, localVars
    <2> QED
      BY <2>1, <2>2, <2>3 DEF PickArea, PanicInArea, LocalType, localVars
  <1>4. HistoryType'
    BY DEF PickArea, PanicInArea, HistoryType, history
  <1>5. MadeInv'
    BY DEF PickArea, PanicInArea, MadeInv, AllMade, TunnelType, LocalType, ListType, listVars, tunnelVars, localVars
  <1>6. LocalInv'
    BY DEF PickArea, PanicInArea, LocalInv, MadeInv, AllMade, TunnelType, LocalType, ListType, listVars, tunnelVars, localVars, Goto, Labels
  <1> QED
    BY <1>1, <1>2, <1>3, <1>4, <1>5, <1>6

LEMMA ScanTypedType ==
  ASSUME TypeInv, NEW r \in Request, ScanTyped(r)
  PROVE  TypeInv'
  <1> USE DEF TypeInv, TypeOK, Goroutine
  <1>1. ListType'
    BY DEF ScanTyped, PanicInArea, ListType, listVars
  <1>2. TunnelType'
    BY DEF ScanTyped, PanicInArea, TunnelType, tunnelVars
  <1>3. LocalType'
    <2>1. Elems(registry) \subseteq Tunnel
      BY DEF ListType, Elems
    <2>2. tun' \in [Goroutine -> Tunnel \cup {None}]
      BY <2>1 DEF ScanTyped, LocalType
    <2>3. pc' \in [Goroutine -> Labels]
      BY DEF ScanTyped, LocalType, Goto, Labels
    <2> QED
      BY <2>2, <2>3 DEF ScanTyped, LocalType
  <1>4. HistoryType'
    BY DEF ScanTyped, PanicInArea, HistoryType, history
  <1>5. MadeInv'
    BY DEF ScanTyped, PanicInArea, MadeInv, AllMade, TunnelType, LocalType, ListType, listVars, tunnelVars, localVars
  <1>6. LocalInv'
    <2>1. \A t \in Elems(registry) : t \in Tunnel /\ typ[t] # None
      BY DEF ListType, Elems, MadeInv, AllMade
    <2> QED
      BY <2>1 DEF ScanTyped, LocalInv, LocalType, listVars, tunnelVars, Goto, Labels
  <1> QED
    BY <1>1, <1>2, <1>3, <1>4, <1>5, <1>6

LEMMA NewProxyType ==
  ASSUME TypeInv, NEW r \in Request, NewProxy(r)
  PROVE  TypeInv'
  <1> USE DEF TypeInv, TypeOK, Goroutine
  <1>1. ListType'
    BY DEF NewProxy, PanicInArea, ListType, listVars
  <1>2. TunnelType'
    <2>1. NewType(want[r]) \in Types
      BY DEF NewType, Types
    <2> QED
      BY <2>1 DEF NewProxy, TunnelType, Made
  <1>3. LocalType'
    BY DEF NewProxy, PanicInArea, LocalType, localVars, Goto, Labels
  <1>4. HistoryType'
    BY DEF NewProxy, PanicInArea, HistoryType, history
  <1>5. MadeInv'
    <2>1. NewType(want[r]) # None
      <3>1. NewType(want[r]) \in Types
        BY DEF NewType, Types
      <3> QED
        BY <3>1, NoneIsNew
    <2>2. \A t \in Tunnel : typ[t] # None => typ'[t] # None
      BY <2>1 DEF NewProxy, TunnelType
    <2>3. ASSUME NEW q \in Seq(Tunnel), AllMade(q)
          PROVE  AllMade(q)'
      BY <2>2, <2>3 DEF AllMade
    <2>4. \A t \in bound' : typ'[t] # None
      BY <2>2 DEF NewProxy, MadeInv, TunnelType
    <2> QED
      BY <2>2, <2>4 DEF NewProxy, MadeInv, AllMade, ListType, LocalType, listVars
  <1>6. LocalInv'
    <2>1. NewType(want[r]) # None
      <3>1. NewType(want[r]) \in Types
        BY DEF NewType, Types
      <3> QED
        BY <3>1, NoneIsNew
    <2>2. \A t \in Tunnel : typ[t] # None => typ'[t] # None
      BY <2>1 DEF NewProxy, TunnelType
    <2>3. tun'[r] \in Tunnel /\ typ'[tun'[r]] # None
      BY <2>1 DEF NewProxy, TunnelType, LocalType, Made
    <2>4. \A g \in Goroutine \ {r} : tun'[g] = tun[g] /\ pc'[g] = pc[g]
      BY DEF NewProxy, LocalType, Goto
    <2>5. pc'[r] \in {"done", "add"}
      BY DEF NewProxy, LocalType, Goto
    <2>6. todo' = todo
      BY DEF NewProxy
    <2> QED
      BY <2>2, <2>3, <2>4, <2>5, <2>6 DEF LocalInv, LocalType
  <1> QED
    BY <1>1, <1>2, <1>3, <1>4, <1>5, <1>6

LEMMA AddProxyType ==
  ASSUME TypeInv, NEW r \in Request, AddProxy(r)
  PROVE  TypeInv'
  <1> USE DEF TypeInv, TypeOK, Goroutine
  <1>1. ListType'
    <2>1. tun[r] \in Tunnel
      BY DEF AddProxy, LocalInv
    <2>2. registry' \in Seq(Tunnel)
      BY <2>1 DEF AddProxy, ListType
    <2> QED
      BY <2>2 DEF AddProxy, ListType
  <1>2. TunnelType'
    BY DEF AddProxy, PanicInArea, TunnelType, tunnelVars
  <1>3. LocalType'
    BY DEF AddProxy, PanicInArea, LocalType, localVars, Goto, Labels
  <1>4. HistoryType'
    <2>1. adds' \in Nat
      BY DEF AddProxy, HistoryType
    <2>2. addedAt' \in [Tunnel -> Nat]
      BY <2>1 DEF AddProxy, HistoryType
    <2> QED
      BY <2>1, <2>2 DEF AddProxy, HistoryType
  <1>5. MadeInv'
    <2>1. tun[r] \in Tunnel /\ typ[tun[r]] # None
      BY DEF AddProxy, LocalInv
    <2>2. AllMade(registry)'
      BY <2>1 DEF AddProxy, MadeInv, AllMade, ListType, tunnelVars
    <2> QED
      BY <2>2 DEF AddProxy, MadeInv, AllMade, tunnelVars, localVars
  <1>6. LocalInv'
    BY DEF AddProxy, PanicInArea, LocalInv, MadeInv, AllMade, TunnelType, LocalType, ListType, listVars, tunnelVars, localVars, Goto, Labels
  <1> QED
    BY <1>1, <1>2, <1>3, <1>4, <1>5, <1>6

LEMMA CheckOnType ==
  ASSUME TypeInv, NEW r \in Request, CheckOn(r)
  PROVE  TypeInv'
  <1> USE DEF TypeInv, TypeOK, Goroutine
  <1>1. ListType'
    BY DEF CheckOn, PanicInArea, ListType, listVars
  <1>2. TunnelType'
    BY DEF CheckOn, PanicInArea, TunnelType, tunnelVars
  <1>3. LocalType'
    BY DEF CheckOn, PanicInArea, LocalType, localVars, Goto, Labels
  <1>4. HistoryType'
    BY DEF CheckOn, PanicInArea, HistoryType, history
  <1>5. MadeInv'
    BY DEF CheckOn, PanicInArea, MadeInv, AllMade, TunnelType, LocalType, ListType, listVars, tunnelVars, localVars
  <1>6. LocalInv'
    BY DEF CheckOn, PanicInArea, LocalInv, MadeInv, AllMade, TunnelType, LocalType, ListType, listVars, tunnelVars, localVars, Goto, Labels
  <1> QED
    BY <1>1, <1>2, <1>3, <1>4, <1>5, <1>6

LEMMA StartType ==
  ASSUME TypeInv, NEW r \in Request, Start(r)
  PROVE  TypeInv'
  <1> USE DEF TypeInv, TypeOK, Goroutine
  <1>1. ListType'
    BY DEF Start, PanicInArea, ListType, listVars
  <1>2. TunnelType'
    BY DEF Start, PanicInArea, TunnelType, tunnelVars
  <1>3. LocalType'
    BY DEF Start, PanicInArea, LocalType, localVars, Goto, Labels
  <1>4. HistoryType'
    BY DEF Start, PanicInArea, HistoryType, history
  <1>5. MadeInv'
    BY DEF Start, PanicInArea, MadeInv, AllMade, TunnelType, LocalType, ListType, listVars, tunnelVars, localVars
  <1>6. LocalInv'
    <2>1. PICK s \in Server : /\ pc[s] = "idle"
                              /\ pc' = [pc EXCEPT ![r] = "done", ![s] = "listen"]
                              /\ tun' = [tun EXCEPT ![s] = tun[r]]
      BY DEF Start
    <2>2. tun[r] \in Tunnel /\ typ[tun[r]] # None
      BY DEF Start, LocalInv
    <2>3. tun'[s] = tun[r] /\ pc'[s] = "listen" /\ pc'[r] = "done" /\ r # s
      BY <2>1 DEF Start, LocalType
    <2>4. \A g \in Goroutine \ {r, s} : tun'[g] = tun[g] /\ pc'[g] = pc[g]
      BY <2>1 DEF LocalType
    <2>5. UNCHANGED <<todo, typ>>
      BY DEF Start
    <2> QED
      BY <2>2, <2>3, <2>4, <2>5 DEF LocalInv
  <1> QED
    BY <1>1, <1>2, <1>3, <1>4, <1>5, <1>6

LEMMA ChooseTypeType ==
  ASSUME TypeInv, NEW r \in Request, ChooseType(r)
  PROVE  TypeInv'
  <1> USE DEF TypeInv, TypeOK, Goroutine
  <1>1. ListType'
    BY DEF ChooseType, PanicInArea, ListType, listVars
  <1>2. TunnelType'
    BY DEF ChooseType, PanicInArea, TunnelType, tunnelVars
  <1>3. LocalType'
    <2>1. PICK w \in Types : want' = [want EXCEPT ![r] = w]
      BY DEF ChooseType, Types
    <2>2. want' \in [Goroutine -> Types \cup Wanted \cup {None}]
      BY <2>1 DEF LocalType
    <2>3. pc' \in [Goroutine -> Labels]
      BY DEF ChooseType, LocalType, Goto, Labels
    <2> QED
      BY <2>2, <2>3 DEF ChooseType, LocalType
  <1>4. HistoryType'
    BY DEF ChooseType, PanicInArea, HistoryType, history
  <1>5. MadeInv'
    BY DEF ChooseType, PanicInArea, MadeInv, AllMade, TunnelType, LocalType, ListType, listVars, tunnelVars, localVars
  <1>6. LocalInv'
    BY DEF ChooseType, PanicInArea, LocalInv, MadeInv, AllMade, TunnelType, LocalType, ListType, listVars, tunnelVars, localVars, Goto, Labels
  <1> QED
    BY <1>1, <1>2, <1>3, <1>4, <1>5, <1>6

LEMMA DelSnapshotType ==
  ASSUME TypeInv, NEW g \in Goroutine, DelSnapshot(g)
  PROVE  TypeInv'
  <1> USE DEF TypeInv, TypeOK, Goroutine
  <1>1. ListType'
    BY DEF DelSnapshot, PanicInArea, ListType, listVars
  <1>2. TunnelType'
    BY DEF DelSnapshot, PanicInArea, TunnelType, tunnelVars
  <1>3. LocalType'
    <2>1. snap' \in [Goroutine -> Seq(Tunnel)]
      BY DEF DelSnapshot, LocalType, ListType
    <2>2. pc' \in [Goroutine -> Labels]
      BY DEF DelSnapshot, LocalType, Goto, Labels
    <2> QED
      BY <2>1, <2>2 DEF DelSnapshot, LocalType
  <1>4. HistoryType'
    BY DEF DelSnapshot, PanicInArea, HistoryType, history
  <1>5. MadeInv'
    BY DEF DelSnapshot, PanicInArea, MadeInv, AllMade, TunnelType, LocalType, ListType, listVars, tunnelVars, localVars
  <1>6. LocalInv'
    BY DEF DelSnapshot, PanicInArea, LocalInv, MadeInv, AllMade, TunnelType, LocalType, ListType, listVars, tunnelVars, localVars, Goto, Labels
  <1> QED
    BY <1>1, <1>2, <1>3, <1>4, <1>5, <1>6

LEMMA DelReadErrType ==
  ASSUME TypeInv, NEW g \in Goroutine, DelReadErr(g)
  PROVE  TypeInv'
  <1> USE DEF TypeInv, TypeOK, Goroutine
  <1>1. ListType'
    BY DEF DelReadErr, PanicInArea, ListType, listVars
  <1>2. TunnelType'
    BY DEF DelReadErr, PanicInArea, TunnelType, tunnelVars
  <1>3. LocalType'
    <2>1. todo[g] # <<>>
      BY DEF DelReadErr, LocalInv
    <2>2. errCount[typ[Head(todo[g])]] + 1 \in Nat
      BY <2>1, VictimMade DEF ListType
    <2>3. pc' \in [Goroutine -> Labels]
      BY DEF DelReadErr, LocalType, Goto, Labels
    <2> QED
      BY <2>2, <2>3 DEF DelReadErr, LocalType
  <1>4. HistoryType'
    BY DEF DelReadErr, PanicInArea, HistoryType, history
  <1>5. MadeInv'
    BY DEF DelReadErr, PanicInArea, MadeInv, AllMade, TunnelType, LocalType, ListType, listVars, tunnelVars, localVars
  <1>6. LocalInv'
    BY DEF DelReadErr, PanicInArea, LocalInv, MadeInv, AllMade, TunnelType, LocalType, ListType, listVars, tunnelVars, localVars, Goto, Labels
  <1> QED
    BY <1>1, <1>2, <1>3, <1>4, <1>5, <1>6

LEMMA DelWriteErrType ==
  ASSUME TypeInv, NEW g \in Goroutine, DelWriteErr(g)
  PROVE  TypeInv'
  <1> USE DEF TypeInv, TypeOK, Goroutine
  <1>1. ListType'
    <2>1. num[g] \in Nat
      BY DEF LocalType
    <2> QED
      BY <2>1 DEF DelWriteErr, ListType
  <1>2. TunnelType'
    BY DEF DelWriteErr, PanicInArea, TunnelType, tunnelVars
  <1>3. LocalType'
    BY DEF DelWriteErr, PanicInArea, LocalType, localVars, Goto, Labels
  <1>4. HistoryType'
    <2>1. todo[g] # <<>>
      BY DEF DelWriteErr, LocalInv
    <2>2. removals' \in [Types -> Nat]
      BY <2>1, VictimMade DEF DelWriteErr, HistoryType
    <2> QED
      BY <2>2 DEF DelWriteErr, HistoryType
  <1>5. MadeInv'
    BY DEF DelWriteErr, PanicInArea, MadeInv, AllMade, TunnelType, LocalType, ListType, listVars, tunnelVars, localVars
  <1>6. LocalInv'
    BY DEF DelWriteErr, PanicInArea, LocalInv, MadeInv, AllMade, TunnelType, LocalType, ListType, listVars, tunnelVars, localVars, Goto, Labels
  <1> QED
    BY <1>1, <1>2, <1>3, <1>4, <1>5, <1>6

LEMMA DelClosePortType ==
  ASSUME TypeInv, NEW g \in Goroutine, DelClosePort(g)
  PROVE  TypeInv'
  <1> USE DEF TypeInv, TypeOK, Goroutine
  <1>1. ListType'
    BY DEF DelClosePort, PanicInArea, ListType, listVars
  <1>2. TunnelType'
    BY DEF DelClosePort, PanicInArea, TunnelType, tunnelVars
  <1>3. LocalType'
    BY DEF DelClosePort, PanicInArea, LocalType, localVars, Goto, Labels
  <1>4. HistoryType'
    <2>1. todo[g] # <<>>
      BY DEF DelClosePort, LocalInv
    <2>2. Head(todo[g]) \in Tunnel
      BY <2>1, VictimMade
    <2> QED
      BY <2>2 DEF DelClosePort, HistoryType
  <1>5. MadeInv'
    BY DEF DelClosePort, PanicInArea, MadeInv, AllMade, TunnelType, LocalType, ListType, listVars, tunnelVars, localVars
  <1>6. LocalInv'
    BY DEF DelClosePort, PanicInArea, LocalInv, MadeInv, AllMade, TunnelType, LocalType, ListType, listVars, tunnelVars, localVars, Goto, Labels
  <1> QED
    BY <1>1, <1>2, <1>3, <1>4, <1>5, <1>6

LEMMA DelStoreType ==
  ASSUME TypeInv, NEW g \in Goroutine, DelStore(g)
  PROVE  TypeInv'
  <1> USE DEF TypeInv, TypeOK, Goroutine
  <1>1. ListType'
    <2>1. todo[g] # <<>>
      BY DEF DelStore, LocalInv
    <2>2. registry' \in Seq(Tunnel)
      BY <2>1, VictimMade, WithoutType DEF DelStore, LocalType
    <2> QED
      BY <2>2 DEF DelStore, ListType
  <1>2. TunnelType'
    BY DEF DelStore, PanicInArea, TunnelType, tunnelVars
  <1>3. LocalType'
    <2>1. todo[g] # <<>>
      BY DEF DelStore, LocalInv
    <2>2. todo' \in [Goroutine -> Seq(Tunnel)]
      BY <2>1, VictimMade DEF DelStore, LocalType
    <2>3. snap' \in [Goroutine -> Seq(Tunnel)]
      BY DEF DelStore, LocalType
    <2>4. pc' \in [Goroutine -> Labels]
      BY DEF DelStore, LocalType, Goto, Labels
    <2> QED
      BY <2>2, <2>3, <2>4 DEF DelStore, LocalType
  <1>4. HistoryType'
    BY DEF DelStore, PanicInArea, HistoryType, history
  <1>5. MadeInv'
    <2>1. todo[g] # <<>>
      BY DEF DelStore, LocalInv
    <2>2. AllMade(Tail(todo[g])) /\ Head(todo[g]) \in Tunnel
      BY <2>1, VictimMade
    <2>3. AllMade(Without(snap[g], Head(todo[g])))
      <3>1. snap[g] \in Seq(Tunnel) /\ AllMade(snap[g])
        BY DEF MadeInv, LocalType
      <3>2. ASSUME NEW i \in DOMAIN Without(snap[g], Head(todo[g]))
            PROVE  typ[Without(snap[g], Head(todo[g]))[i]] # None
        <4>1. PICK k \in DOMAIN snap[g] :
                Without(snap[g], Head(todo[g]))[i] = snap[g][k]
          BY <2>2, <3>1, <3>2, WithoutType
        <4> QED
          BY <3>1, <4>1 DEF AllMade
      <3> QED
        BY <3>2 DEF AllMade
    <2>4. typ' = typ /\ bound' = bound
      BY DEF DelStore, tunnelVars
    <2>5. AllMade(registry)'
      BY <2>3, <2>4 DEF DelStore, AllMade
    <2>6. \A h \in Goroutine : AllMade(todo[h])' /\ AllMade(snap[h])'
      <3> TAKE h \in Goroutine
      <3>1. CASE h = g
        <4>1. todo'[h] = Tail(todo[g]) /\ snap'[h] = <<>>
          BY <3>1 DEF DelStore, LocalType
        <4> QED
          BY <4>1, <2>2, <2>4 DEF AllMade
      <3>2. CASE h # g
        <4>1. todo'[h] = todo[h] /\ snap'[h] = snap[h]
          BY <3>2 DEF DelStore, LocalType
        <4> QED
          BY <4>1, <2>4 DEF MadeInv, AllMade
      <3> QED
        BY <3>1, <3>2
    <2> QED
      BY <2>4, <2>5, <2>6 DEF MadeInv
  <1>6. LocalInv'
    BY DEF DelStore, PanicInArea, LocalInv, MadeInv, AllMade, TunnelType, LocalType, ListType, listVars, tunnelVars, localVars, Goto, Labels
  <1> QED
    BY <1>1, <1>2, <1>3, <1>4, <1>5, <1>6

LEMMA DelReturnType ==
  ASSUME TypeInv, NEW g \in Goroutine, DelReturn(g)
  PROVE  TypeInv'
  <1> USE DEF TypeInv, TypeOK, Goroutine
  <1>1. ListType'
    BY DEF DelReturn, PanicInArea, ListType, listVars
  <1>2. TunnelType'
    BY DEF DelReturn, PanicInArea, TunnelType, tunnelVars
  <1>3. LocalType'
    BY DEF DelReturn, PanicInArea, LocalType, localVars, Goto, Labels
  <1>4. HistoryType'
    BY DEF DelReturn, PanicInArea, HistoryType, history
  <1>5. MadeInv'
    BY DEF DelReturn, PanicInArea, MadeInv, AllMade, TunnelType, LocalType, ListType, listVars, tunnelVars, localVars
  <1>6. LocalInv'
    BY DEF DelReturn, PanicInArea, LocalInv, MadeInv, AllMade, TunnelType, LocalType, ListType, listVars, tunnelVars, localVars, Goto, Labels
  <1> QED
    BY <1>1, <1>2, <1>3, <1>4, <1>5, <1>6

LEMMA ListenType ==
  ASSUME TypeInv, NEW s \in Server, Listen(s)
  PROVE  TypeInv'
  <1> USE DEF TypeInv, TypeOK, Goroutine
  <1>1. ListType'
    BY DEF Listen, PanicInArea, ListType, listVars
  <1>2. TunnelType'
    <2>1. tun[s] \in Tunnel
      BY DEF Listen, LocalInv
    <2> QED
      BY <2>1 DEF Listen, TunnelType
  <1>3. LocalType'
    BY DEF Listen, PanicInArea, LocalType, localVars, Goto, Labels
  <1>4. HistoryType'
    BY DEF Listen, PanicInArea, HistoryType, history
  <1>5. MadeInv'
    <2>1. typ[tun[s]] # None
      BY DEF Listen, LocalInv
    <2>2. bound' \subseteq bound \cup {tun[s]} /\ UNCHANGED <<typ, registry, todo, snap>>
      BY DEF Listen, listVars, localVars
    <2> QED
      BY <2>1, <2>2 DEF MadeInv, AllMade
  <1>6. LocalInv'
    BY DEF Listen, PanicInArea, LocalInv, MadeInv, AllMade, TunnelType, LocalType, ListType, listVars, tunnelVars, localVars, Goto, Labels
  <1> QED
    BY <1>1, <1>2, <1>3, <1>4, <1>5, <1>6

LEMMA AcceptFailsType ==
  ASSUME TypeInv, NEW s \in Server, AcceptFails(s)
  PROVE  TypeInv'
  <1> USE DEF TypeInv, TypeOK, Goroutine
  <1>1. ListType'
    BY DEF AcceptFails, PanicInArea, ListType, listVars
  <1>2. TunnelType'
    BY DEF AcceptFails, PanicInArea, TunnelType, tunnelVars
  <1>3. LocalType'
    BY DEF AcceptFails, PanicInArea, LocalType, localVars, Goto, Labels
  <1>4. HistoryType'
    BY DEF AcceptFails, PanicInArea, HistoryType, history
  <1>5. MadeInv'
    BY DEF AcceptFails, PanicInArea, MadeInv, AllMade, TunnelType, LocalType, ListType, listVars, tunnelVars, localVars
  <1>6. LocalInv'
    BY DEF AcceptFails, PanicInArea, LocalInv, MadeInv, AllMade, TunnelType, LocalType, ListType, listVars, tunnelVars, localVars, Goto, Labels
  <1> QED
    BY <1>1, <1>2, <1>3, <1>4, <1>5, <1>6

LEMMA ServerEndsType ==
  ASSUME TypeInv, NEW s \in Server, ServerEnds(s)
  PROVE  TypeInv'
  <1> USE DEF TypeInv, TypeOK, Goroutine
  <1>1. ListType'
    BY DEF ServerEnds, PanicInArea, ListType, listVars
  <1>2. TunnelType'
    BY DEF ServerEnds, PanicInArea, TunnelType, tunnelVars
  <1>3. LocalType'
    <2>1. <<tun[s]>> \in Seq(Tunnel)
      BY DEF ServerEnds, LocalInv
    <2>2. todo' \in [Goroutine -> Seq(Tunnel)]
      BY <2>1 DEF ServerEnds, LocalType
    <2>3. pc' \in [Goroutine -> Labels]
      BY DEF ServerEnds, LocalType, Goto, Labels
    <2> QED
      BY <2>2, <2>3 DEF ServerEnds, LocalType
  <1>4. HistoryType'
    BY DEF ServerEnds, PanicInArea, HistoryType, history
  <1>5. MadeInv'
    <2>1. typ[tun[s]] # None
      BY DEF ServerEnds, LocalInv
    <2>2. AllMade(<<tun[s]>>)
      BY <2>1 DEF AllMade
    <2>3. UNCHANGED <<typ, bound, registry, snap>>
      BY DEF ServerEnds, listVars
    <2>4. \A g \in Goroutine : todo'[g] = todo[g] \/ todo'[g] = <<tun[s]>>
      BY DEF ServerEnds, LocalType
    <2> QED
      BY <2>2, <2>3, <2>4 DEF MadeInv, AllMade
  <1>6. LocalInv'
    BY DEF ServerEnds, PanicInArea, LocalInv, MadeInv, AllMade, TunnelType, LocalType, ListType, listVars, tunnelVars, localVars, Goto, Labels
  <1> QED
    BY <1>1, <1>2, <1>3, <1>4, <1>5, <1>6

\* The frame of an arriving request.
LEMMA ArriveType ==
  ASSUME TypeInv, NEW r \in Request, NEW k \in Kinds,
         NEW l \in {"count", "scan", "create", "del", "done", "panicked"},
         NEW ids \in Seq(Tunnel), AllMade(ids),
         NEW w \in Types \cup Wanted \cup {None},
         Arrive(r, k, l, ids, w)
  PROVE  TypeInv'
  <1> USE DEF TypeInv, TypeOK, Goroutine
  <1>1. ListType' /\ TunnelType' /\ HistoryType'
    BY DEF Arrive, ListType, TunnelType, HistoryType, listVars, tunnelVars, history
  <1>2. LocalType'
    <2>1. pc' \in [Goroutine -> Labels]
      BY DEF Arrive, LocalType, Goto, Labels
    <2>2. todo' \in [Goroutine -> Seq(Tunnel)]
      BY DEF Arrive, LocalType
    <2>3. kind' \in [Goroutine -> AllKinds \cup {None}]
      BY RegistryAssumption DEF Arrive, LocalType
    <2>4. want' \in [Goroutine -> Types \cup Wanted \cup {None}]
      BY DEF Arrive, LocalType
    <2> QED
      BY <2>1, <2>2, <2>3, <2>4 DEF Arrive, LocalType
  <1>3. MadeInv'
    <2>1. UNCHANGED <<typ, bound, registry, snap>>
      BY DEF Arrive, listVars, tunnelVars
    <2>2. \A g \in Goroutine : todo'[g] = todo[g] \/ todo'[g] = ids
      BY DEF Arrive, LocalType
    <2> QED
      BY <2>1, <2>2 DEF MadeInv, AllMade
  <1>4. LocalInv'
    <2>1. \A g \in Goroutine \ {r} : pc'[g] = pc[g] /\ todo'[g] = todo[g]
      BY DEF Arrive, LocalType, Goto
    <2>2. pc'[r] = l /\ UNCHANGED <<tun, typ>>
      BY DEF Arrive, LocalType, Goto, tunnelVars
    <2> QED
      BY <2>1, <2>2 DEF LocalInv
  <1> QED
    BY <1>1, <1>2, <1>3, <1>4

LEMMA ReceiveType ==
  ASSUME TypeInv, NEW r \in Request, Receive(r)
  PROVE  TypeInv'
  <1>1. <<>> \in Seq(Tunnel) /\ AllMade(<<>>)
    BY DEF AllMade
  <1>2. ASSUME NEW t \in Made
        PROVE  <<t>> \in Seq(Tunnel) /\ AllMade(<<t>>)
    BY <1>2 DEF Made, AllMade
  <1>3. registry \in Seq(Tunnel) /\ AllMade(registry)
    BY DEF TypeInv, TypeOK, ListType, MadeInv
  <1>4. CASE ProxyGet(r)
    <2>1. "quic" \in Types \cup Wanted \cup {None}
      BY DEF Types
    <2> QED
      BY <1>1, <1>4, <2>1, ArriveType DEF ProxyGet, Arrive
  <1>5. CASE ProxyTyped(r)
    BY <1>1, <1>5, ArriveType, RegistryAssumption DEF ProxyTyped, Arrive
  <1>6. CASE ProxyNew(r)
    <2>1. "tls" \in Types \cup Wanted \cup {None}
      BY DEF Types
    <2> QED
      BY <1>1, <1>6, <2>1, ArriveType DEF ProxyNew, Arrive
  <1>7. CASE ProxyDel(r)
    <2>1. CASE BadBody(r, "del")
      BY <1>1, <2>1, ArriveType DEF BadBody, Arrive
    <2>2. CASE \E t \in Made : Arrive(r, "del", "del", <<t>>, None)
      <3>1. PICK t \in Made : Arrive(r, "del", "del", <<t>>, None)
        BY <2>2
      <3>2. <<t>> \in Seq(Tunnel) /\ AllMade(<<t>>)
        BY <1>2
      <3> QED
        BY <3>1, <3>2, ArriveType DEF Arrive
    <2> QED
      BY <1>7, <2>1, <2>2 DEF ProxyDel
  <1>8. CASE ProxyErr(r)
    <2>1. CASE Arrive(r, "err", "del", <<>>, None)
      BY <1>1, <2>1, ArriveType DEF Arrive
    <2>2. CASE \E t \in Made : Arrive(r, "err", "del", <<t>>, None)
      <3>1. PICK t \in Made : Arrive(r, "err", "del", <<t>>, None)
        BY <2>2
      <3>2. <<t>> \in Seq(Tunnel) /\ AllMade(<<t>>)
        BY <1>2
      <3> QED
        BY <3>1, <3>2, ArriveType DEF Arrive
    <2>3. CASE BadBody(r, "err")
      BY <1>1, <2>3, ArriveType DEF BadBody, Arrive
    <2> QED
      BY <1>8, <2>1, <2>2, <2>3 DEF ProxyErr
  <1>9. CASE ProxyErrRefused(r)
    BY <1>1, <1>9, ArriveType DEF ProxyErrRefused, Arrive
  <1>10. CASE CloseAll(r)
    BY <1>3, <1>10, ArriveType DEF CloseAll, Arrive
  <1>11. CASE UpdateAll(r)
    BY <1>3, <1>11, ArriveType DEF UpdateAll, Arrive
  <1> QED
    BY <1>4, <1>5, <1>6, <1>7, <1>8, <1>9, <1>10, <1>11 DEF Receive

LEMMA TypeInvStutter == TypeInv /\ UNCHANGED vars => TypeInv'
  <1> SUFFICES ASSUME TypeInv, UNCHANGED vars
               PROVE  TypeInv'
    OBVIOUS
  <1>1. TypeOK'
    BY DEF TypeInv, TypeOK, ListType, TunnelType, LocalType, HistoryType,
           vars, listVars, tunnelVars, localVars, history
  <1>2. MadeInv' /\ LocalInv'
    BY DEF TypeInv, MadeInv, LocalInv, AllMade, vars, listVars, tunnelVars, localVars
  <1> QED
    BY <1>1, <1>2 DEF TypeInv

LEMMA DelProxyType ==
  ASSUME TypeInv, NEW g \in Goroutine, DelProxy(g)
  PROVE  TypeInv'
  BY DelSnapshotType, DelReadErrType, DelWriteErrType, DelClosePortType,
     DelStoreType, DelReturnType DEF DelProxy

LEMMA TypeInvNext == TypeInv /\ [Next]_vars => TypeInv'
  <1> SUFFICES ASSUME TypeInv, Next PROVE TypeInv'
    BY TypeInvStutter
  <1>1. ASSUME NEW r \in Request, Receive(r) PROVE TypeInv'
    BY <1>1, ReceiveType
  <1>2. ASSUME NEW r \in Request, Handle(r) PROVE TypeInv'
    BY <1>2, CountAreaType, RotateAreaType, PickAreaType, ScanTypedType,
       NewProxyType, AddProxyType, CheckOnType, StartType, ChooseTypeType,
       DelProxyType DEF Handle, Goroutine
  <1>3. ASSUME NEW s \in Server, Serve(s) \/ AcceptFails(s) PROVE TypeInv'
    BY <1>3, ListenType, ServerEndsType, AcceptFailsType, DelProxyType
       DEF Serve, Goroutine
  <1> QED
    BY <1>1, <1>2, <1>3 DEF Next

\* Every variable of the registry keeps its type under any requests: in
\* particular a type of tunnel is always a key of ErrTypeCount, and GetProxy's
\* loop never runs more than four rounds.
THEOREM TypeCorrect == Spec => []TypeOK
  <1>1. Spec => []TypeInv
    BY TypeInvInit, TypeInvNext, PTL DEF Spec
  <1>2. TypeInv => TypeOK
    BY DEF TypeInv
  <1> QED
    BY <1>1, <1>2, PTL

-----------------------------------------------------------------------------
(* The order of the list is not inductive by itself: DelStore stores        *)
(* a copy that a goroutine took earlier, so the copies have to be ordered  *)
(* too, and a tunnel about to be appended must be in none of them.         *)

OrderInv ==
    /\ InOrder(registry)
    /\ \A g \in Goroutine : InOrder(snap[g])
    /\ \A t \in Tunnel : addedAt[t] <= adds /\ (typ[t] = None => addedAt[t] = 0)
    /\ \A g \in Goroutine : pc[g] = "add" => addedAt[tun[g]] = 0
    /\ \A g, h \in Goroutine :
         pc[g] = "add" /\ pc[h] = "add" /\ g # h => tun[g] # tun[h]

LEMMA OrderInit == Init => OrderInv
  BY DEF Init, OrderInv, InOrder

\* A step that leaves the lists and their history alone and hands no tunnel
\* to AddProxy.
LEMMA OrderFrame ==
  ASSUME OrderInv, UNCHANGED <<registry, snap, typ, adds, addedAt>>,
         \A g \in Goroutine : pc'[g] = "add" => pc[g] = "add" /\ tun'[g] = tun[g]
  PROVE  OrderInv'
  BY DEF OrderInv, InOrder

LEMMA OrderNewProxy ==
  ASSUME TypeInv, OrderInv, NEW r \in Request, NewProxy(r)
  PROVE  OrderInv'
  <1> USE DEF TypeInv, TypeOK, Goroutine
  <1>1. PICK t \in Tunnel :
          /\ typ[t] = None
          /\ typ' = [typ EXCEPT ![t] = NewType(want[r])]
          /\ tun' = [tun EXCEPT ![r] = t]
    BY DEF NewProxy, Made
  <1>2. UNCHANGED <<registry, snap, adds, addedAt>>
    BY DEF NewProxy, listVars, history
  <1>3. tun'[r] = t /\ addedAt[t] = 0
    BY <1>1 DEF OrderInv, LocalType
  <1>4. \A g \in Goroutine \ {r} : tun'[g] = tun[g] /\ pc'[g] = pc[g]
    BY <1>1 DEF NewProxy, LocalType, Goto
  <1>5. \A g \in Goroutine : pc[g] = "add" => tun[g] # t
    BY <1>1 DEF LocalInv
  <1>6. InOrder(registry)' /\ \A g \in Goroutine : InOrder(snap[g])'
    BY <1>2 DEF OrderInv, InOrder
  <1>7. \A u \in Tunnel : addedAt'[u] <= adds' /\ (typ'[u] = None => addedAt'[u] = 0)
    BY <1>1, <1>2, <1>3 DEF OrderInv, TunnelType
  <1>8. \A g \in Goroutine : pc'[g] = "add" => addedAt'[tun'[g]] = 0
    BY <1>2, <1>3, <1>4 DEF OrderInv
  <1>9. \A g, h \in Goroutine :
          pc'[g] = "add" /\ pc'[h] = "add" /\ g # h => tun'[g] # tun'[h]
    BY <1>3, <1>4, <1>5 DEF OrderInv
  <1> QED
    BY <1>6, <1>7, <1>8, <1>9 DEF OrderInv

\* AddProxy: the appended tunnel is newer than every entry of every list.
LEMMA OrderAddProxy ==
  ASSUME TypeInv, OrderInv, NEW r \in Request, AddProxy(r)
  PROVE  OrderInv'
  <1> USE DEF TypeInv, TypeOK, Goroutine
  <1>1. tun[r] \in Tunnel /\ typ[tun[r]] # None /\ addedAt[tun[r]] = 0
    BY DEF AddProxy, LocalInv, OrderInv
  <1>2. /\ adds \in Nat /\ adds' = adds + 1
        /\ addedAt' = [addedAt EXCEPT ![tun[r]] = adds + 1]
        /\ addedAt \in [Tunnel -> Nat]
    BY DEF AddProxy, HistoryType
  <1>3. UNCHANGED <<snap, typ, tun>>
    BY DEF AddProxy, tunnelVars, localVars
  <1>4. pc'[r] # "add" /\ \A g \in Goroutine \ {r} : pc'[g] = pc[g]
    BY DEF AddProxy, Goto, LocalType
  <1>5. ASSUME NEW q \in Seq(Tunnel), InOrder(q)
        PROVE  /\ \A i \in DOMAIN q : addedAt'[q[i]] = addedAt[q[i]] /\ addedAt[q[i]] <= adds
               /\ InOrder(q)'
    <2>1. \A i \in DOMAIN q : q[i] \in Tunnel /\ q[i] # tun[r]
      BY <1>1, <1>5 DEF InOrder
    <2>2. \A i \in DOMAIN q : addedAt'[q[i]] = addedAt[q[i]]
      BY <1>2, <2>1
    <2> QED
      BY <1>5, <2>1, <2>2 DEF InOrder, OrderInv
  <1>6. InOrder(registry)'
    <2>1. registry \in Seq(Tunnel) /\ registry' = Append(registry, tun[r])
      BY DEF AddProxy, ListType
    <2>2. /\ \A i \in DOMAIN registry :
               addedAt'[registry[i]] = addedAt[registry[i]] /\ addedAt[registry[i]] <= adds
      BY <1>5, <2>1 DEF OrderInv
    <2>3. Len(registry) \in Nat /\ DOMAIN registry = 1..Len(registry)
      BY <2>1
    <2>4. /\ DOMAIN registry' = 1..(Len(registry) + 1)
          /\ \A i \in DOMAIN registry : registry'[i] = registry[i]
          /\ registry'[Len(registry) + 1] = tun[r]
      BY <1>1, <2>1, <2>3
    <2>5. addedAt'[tun[r]] = adds + 1
      BY <1>1, <1>2
    <2>6. ASSUME NEW i \in DOMAIN registry'
          PROVE  addedAt'[registry'[i]] > 0
      <3>1. CASE i \in DOMAIN registry
        BY <3>1, <2>2, <2>4 DEF OrderInv, InOrder
      <3>2. CASE i = Len(registry) + 1
        BY <3>2, <2>4, <2>5, <1>2
      <3> QED
        BY <3>1, <3>2, <2>3, <2>4
    <2>7. ASSUME NEW i \in DOMAIN registry', NEW j \in DOMAIN registry', i < j
          PROVE  addedAt'[registry'[i]] < addedAt'[registry'[j]]
      <3>1. i \in DOMAIN registry
        BY <2>3, <2>4, <2>7
      <3>2. CASE j \in DOMAIN registry
        <4>1. addedAt[registry[i]] < addedAt[registry[j]]
          BY <2>7, <3>1, <3>2 DEF OrderInv, InOrder
        <4> QED
          BY <3>1, <3>2, <4>1, <2>2, <2>4
      <3>3. CASE j = Len(registry) + 1
        <4>1. addedAt[registry[i]] \in Nat
          BY <1>2, <2>1, <3>1
        <4>2. addedAt'[registry'[i]] <= adds /\ addedAt'[registry'[i]] \in Nat
          BY <3>1, <4>1, <2>2, <2>4
        <4> QED
          BY <3>3, <4>2, <2>4, <2>5, <1>2
      <3> QED
        BY <3>2, <3>3, <2>3, <2>4
    <2> QED
      BY <2>6, <2>7 DEF InOrder
  <1>7. \A g \in Goroutine : InOrder(snap[g])'
    <2> TAKE g \in Goroutine
    <2>1. snap[g] \in Seq(Tunnel) /\ InOrder(snap[g])
      BY DEF OrderInv, LocalType
    <2> QED
      BY <1>3, <1>5, <2>1 DEF InOrder
  <1>8. \A t \in Tunnel : addedAt'[t] <= adds' /\ (typ'[t] = None => addedAt'[t] = 0)
    BY <1>1, <1>2, <1>3 DEF OrderInv
  <1>9. \A g \in Goroutine : pc'[g] = "add" => addedAt'[tun'[g]] = 0
    <2> SUFFICES ASSUME NEW g \in Goroutine, pc'[g] = "add"
                 PROVE  addedAt'[tun'[g]] = 0
      OBVIOUS
    <2>1. g # r /\ pc[g] = "add" /\ pc[r] = "add"
      BY <1>4 DEF AddProxy
    <2>2. tun[g] # tun[r] /\ addedAt[tun[g]] = 0 /\ tun[g] \in Tunnel
      BY <2>1 DEF OrderInv, LocalInv
    <2> QED
      BY <1>2, <1>3, <2>2
  <1>10. \A g, h \in Goroutine :
           pc'[g] = "add" /\ pc'[h] = "add" /\ g # h => tun'[g] # tun'[h]
    BY <1>3, <1>4 DEF OrderInv
  <1> QED
    BY <1>6, <1>7, <1>8, <1>9, <1>10 DEF OrderInv

LEMMA OrderDelSnapshot ==
  ASSUME TypeInv, OrderInv, NEW g \in Goroutine, DelSnapshot(g)
  PROVE  OrderInv'
  <1> USE DEF TypeInv, TypeOK
  <1>1. UNCHANGED <<registry, typ, adds, addedAt, tun>>
    BY DEF DelSnapshot, listVars, tunnelVars, history
  <1>2. \A h \in Goroutine : snap'[h] = snap[h] \/ snap'[h] = registry
    BY DEF DelSnapshot, LocalType
  <1>3. \A h \in Goroutine : pc'[h] = "add" => pc[h] = "add"
    BY DEF DelSnapshot, LocalType, Goto
  <1>4. \A h \in Goroutine : InOrder(snap[h])'
    BY <1>1, <1>2 DEF OrderInv, InOrder
  <1> QED
    BY <1>1, <1>3, <1>4 DEF OrderInv, InOrder

LEMMA OrderDelStore ==
  ASSUME TypeInv, OrderInv, NEW g \in Goroutine, DelStore(g)
  PROVE  OrderInv'
  <1> USE DEF TypeInv, TypeOK
  <1>1. todo[g] # <<>>
    BY DEF DelStore, LocalInv
  <1>2. Head(todo[g]) \in Tunnel
    BY <1>1, VictimMade
  <1>3. snap[g] \in Seq(Tunnel) /\ InOrder(snap[g])
    BY DEF OrderInv, LocalType
  <1>4. InOrder(Without(snap[g], Head(todo[g])))
    BY <1>2, <1>3, WithoutInOrder
  <1>5. UNCHANGED <<typ, adds, addedAt, tun>>
    BY DEF DelStore, tunnelVars
  <1>6. InOrder(registry)'
    BY <1>4, <1>5 DEF DelStore, InOrder
  <1>7. \A h \in Goroutine : InOrder(snap[h])'
    <2>1. \A h \in Goroutine : snap'[h] = snap[h] \/ snap'[h] = <<>>
      BY DEF DelStore, LocalType
    <2> QED
      BY <2>1, <1>5 DEF OrderInv, InOrder
  <1>8. \A h \in Goroutine : pc'[h] = "add" => pc[h] = "add"
    BY DEF DelStore, LocalType, Goto
  <1> QED
    BY <1>5, <1>6, <1>7, <1>8 DEF OrderInv

\* The actions that OrderFrame covers, those of a handler and of any goroutine.
Bystander(r) ==
    \/ CountArea(r) \/ RotateArea(r) \/ PickArea(r) \/ ScanTyped(r)
    \/ CheckOn(r) \/ Start(r) \/ ChooseType(r) \/ Receive(r)

LEMMA OrderBystander ==
  ASSUME TypeInv, OrderInv, NEW r \in Request, Bystander(r)
  PROVE  OrderInv'
  <1> USE DEF TypeInv, TypeOK, LocalType, Goroutine, Goto
  <1>1. CASE CountArea(r) \/ CheckOn(r) \/ ChooseType(r)
    BY <1>1, OrderFrame DEF CountArea, CheckOn, ChooseType, listVars, tunnelVars, localVars, history
  <1>2. CASE RotateArea(r)
    BY <1>2, OrderFrame DEF RotateArea, PanicInArea, tunnelVars, localVars, history
  <1>3. CASE PickArea(r)
    <2>1. UNCHANGED <<registry, snap, typ, adds, addedAt>>
      BY <1>3 DEF PickArea, PanicInArea, tunnelVars, localVars, history
    <2>2. pc'[r] # "add" /\ \A g \in Goroutine \ {r} : pc'[g] = pc[g] /\ tun'[g] = tun[g]
      BY <1>3 DEF PickArea, PanicInArea, localVars
    <2> QED
      BY <2>1, <2>2, OrderFrame
  <1>4. CASE ScanTyped(r)
    BY <1>4, OrderFrame DEF ScanTyped, listVars, tunnelVars, history
  <1>5. CASE Start(r)
    BY <1>5, OrderFrame DEF Start, listVars, history
  <1>6. CASE Receive(r)
    <2>1. \E k \in Kinds, l \in {"count", "scan", "create", "del", "done", "panicked"} :
            \E ids, w : Arrive(r, k, l, ids, w)
      BY <1>6 DEF Receive, ProxyGet, ProxyTyped, ProxyNew, ProxyDel, BadBody, ProxyErr,
                  ProxyErrRefused, CloseAll, UpdateAll, Arrive
    <2> QED
      BY <2>1, OrderFrame DEF Arrive, listVars, tunnelVars, history
  <1> QED
    BY <1>1, <1>2, <1>3, <1>4, <1>5, <1>6 DEF Bystander

LEMMA OrderDelProxy ==
  ASSUME TypeInv, OrderInv, NEW g \in Goroutine, DelProxy(g)
  PROVE  OrderInv'
  <1> USE DEF TypeInv, TypeOK, LocalType, Goto
  <1>1. CASE DelReadErr(g) \/ DelWriteErr(g) \/ DelClosePort(g) \/ DelReturn(g)
    <2>1. UNCHANGED <<registry, snap, typ, adds, addedAt, tun>>
      BY <1>1 DEF DelReadErr, DelWriteErr, DelClosePort, DelReturn,
                  listVars, tunnelVars, localVars, history
    <2>2. \A h \in Goroutine : pc'[h] = "add" => pc[h] = "add"
      BY <1>1 DEF DelReadErr, DelWriteErr, DelClosePort, DelReturn
    <2> QED
      BY <2>1, <2>2, OrderFrame
  <1> QED
    BY <1>1, OrderDelSnapshot, OrderDelStore DEF DelProxy

LEMMA OrderServer ==
  ASSUME TypeInv, OrderInv, NEW s \in Server,
         Listen(s) \/ ServerEnds(s) \/ AcceptFails(s)
  PROVE  OrderInv'
  BY OrderFrame DEF Listen, ServerEnds, AcceptFails, listVars, localVars, history,
     TypeInv, TypeOK, LocalType, Goto, Goroutine

LEMMA OrderNext == TypeInv /\ OrderInv /\ [Next]_vars => OrderInv'
  <1> SUFFICES ASSUME TypeInv, OrderInv, [Next]_vars
               PROVE  OrderInv'
    OBVIOUS
  <1>1. CASE UNCHANGED vars
    BY <1>1, OrderFrame DEF vars, listVars, tunnelVars, localVars, history
  <1>2. ASSUME NEW r \in Request, Receive(r) \/ Handle(r) PROVE OrderInv'
    BY <1>2, OrderBystander, OrderNewProxy, OrderAddProxy, OrderDelProxy
       DEF Handle, Bystander, Goroutine
  <1>3. ASSUME NEW s \in Server, Serve(s) \/ AcceptFails(s) PROVE OrderInv'
    BY <1>3, OrderServer, OrderDelProxy DEF Serve, Goroutine
  <1> QED
    BY <1>1, <1>2, <1>3 DEF Next

-----------------------------------------------------------------------------
(* The registry implements TunnelBook: AddProxy is List, DelStore is        *)
(* Rewrite, everything else is a stutter.                                   *)

LEMMA BookInit == Init => Book!Init
  BY DEF Init, Book!Init

LEMMA BookStep ==
  TypeInv /\ OrderInv /\ OrderInv' /\ [Next]_vars => [Book!Next]_(Book!vars)
  <1> SUFFICES ASSUME TypeInv, OrderInv, OrderInv', [Next]_vars
               PROVE  [Book!Next]_(Book!vars)
    OBVIOUS
  <1> USE DEF TypeInv, TypeOK, Goroutine
  <1>1. ASSUME NEW r \in Request, AddProxy(r) PROVE Book!List(tun[r]) /\ tun[r] \in Tunnel
    BY <1>1 DEF AddProxy, Book!List, OrderInv, LocalInv
  <1>2. ASSUME NEW g \in Goroutine, DelStore(g) PROVE Book!Rewrite
    <2>1. UNCHANGED <<adds, addedAt>> /\ InOrder(registry)'
      BY <1>2 DEF DelStore, OrderInv
    <2> QED
      BY <2>1 DEF Book!Rewrite, Book!Ordered, InOrder
  <1>3. ASSUME NEW g \in Goroutine, DelProxy(g) PROVE [Book!Next]_(Book!vars)
    <2>1. CASE DelStore(g)
      BY <1>2, <2>1 DEF Book!Next
    <2>2. CASE ~DelStore(g)
      BY <1>3, <2>2 DEF DelProxy, DelSnapshot, DelReadErr, DelWriteErr,
         DelClosePort, DelReturn, listVars, history, Book!vars
    <2> QED
      BY <2>1, <2>2
  <1>4. ASSUME NEW r \in Request, Handle(r) PROVE [Book!Next]_(Book!vars)
    <2>1. CASE AddProxy(r)
      BY <1>1, <2>1 DEF Book!Next
    <2>2. CASE DelProxy(r)
      BY <1>3, <2>2
    <2>3. CASE ~AddProxy(r) /\ ~DelProxy(r)
      <3>1. UNCHANGED <<registry, adds, addedAt>>
        BY <1>4, <2>3 DEF Handle, CountArea, RotateArea, PickArea, PanicInArea,
           ScanTyped, NewProxy, CheckOn, Start, ChooseType, listVars, history
      <3> QED
        BY <3>1 DEF Book!vars
    <2> QED
      BY <2>1, <2>2, <2>3
  <1>5. ASSUME NEW r \in Request, Receive(r) PROVE [Book!Next]_(Book!vars)
    BY <1>5 DEF Receive, ProxyGet, ProxyTyped, ProxyNew, ProxyDel, BadBody, ProxyErr,
       ProxyErrRefused, CloseAll, UpdateAll, Arrive, listVars, history, Book!vars
  <1>6. ASSUME NEW s \in Server, Serve(s) \/ AcceptFails(s)
        PROVE  [Book!Next]_(Book!vars)
    <2>1. CASE DelProxy(s)
      BY <1>3, <2>1
    <2>2. CASE Listen(s) \/ ServerEnds(s) \/ AcceptFails(s)
      BY <2>2 DEF Listen, ServerEnds, AcceptFails, listVars, history, Book!vars
    <2> QED
      BY <1>6, <2>1, <2>2 DEF Serve
  <1>7. CASE UNCHANGED vars
    BY <1>7 DEF vars, listVars, history, Book!vars
  <1> QED
    BY <1>4, <1>5, <1>6, <1>7 DEF Next

\* Readers of Tunnels can rely on TunnelBook.
THEOREM ImplementsBook == Spec => BookSpec
  <1>1. Spec => [](TypeInv /\ OrderInv)
    BY TypeInvInit, OrderInit, TypeInvNext, OrderNext, PTL DEF Spec
  <1> QED
    BY <1>1, BookInit, BookStep, PTL DEF Spec, BookSpec, Book!Spec

-----------------------------------------------------------------------------
(* The division in GetProxy.  Without a shrinking list, lastUse stays a     *)
(* valid index and a handler past its first LockArea finds the list filled. *)

CursorInv ==
    ~shrunk =>
      /\ ~stuck
      /\ \A g \in Goroutine :
           /\ pc[g] = "panicked" => kind[g] \notin {"get", "typed"}
           /\ pc[g] \in {"rotate", "pick"} => Len(registry) > 0
      /\ lastUse = 0 \/ lastUse < Len(registry)

LEMMA CursorInit == Init => CursorInv
  BY DEF Init, CursorInv

\* A step that leaves the list and the cursor alone and sends no goroutine
\* into the LockAreas of GetProxy.
LEMMA CursorFrame ==
  ASSUME CursorInv, UNCHANGED <<registry, lastUse, stuck, shrunk>>,
         \A g \in Goroutine :
           /\ pc'[g] \in {"rotate", "pick"} => pc[g] = pc'[g]
           /\ pc'[g] = "panicked" =>
                \/ pc[g] = "panicked" /\ kind'[g] = kind[g]
                \/ kind'[g] \notin {"get", "typed"}
  PROVE  CursorInv'
  BY DEF CursorInv

LEMMA CursorGetProxy ==
  ASSUME TypeInv, CursorInv, NEW r \in Request,
         CountArea(r) \/ RotateArea(r) \/ PickArea(r)
  PROVE  CursorInv'
  <1> USE DEF TypeInv, TypeOK, LocalType, ListType, Goroutine, Goto
  <1> SUFFICES ASSUME ~shrunk PROVE CursorInv'
    BY DEF CursorInv, CountArea, RotateArea, PickArea, PanicInArea, history
  <1>1. Len(registry) \in Nat /\ lastUse \in Nat /\ lastUse + 1 \in Nat
    OBVIOUS
  <1>2. CASE CountArea(r)
    <2>1. registry # <<>> => Len(registry) > 0
      OBVIOUS
    <2>2. UNCHANGED <<registry, lastUse, stuck, shrunk, kind>>
      BY <1>2 DEF CountArea, listVars, localVars, history
    <2>3. pc' = [pc EXCEPT ![r] = IF registry = <<>> THEN "create" ELSE "rotate"]
      BY <1>2 DEF CountArea
    <2> QED
      BY <2>1, <2>2, <2>3 DEF CursorInv
  <1>3. CASE RotateArea(r)
    <2>1. Len(registry) > 0
      BY <1>3 DEF RotateArea, CursorInv
    <2>2. (lastUse % Len(registry)) + 1 \in Nat
      BY <1>1, <2>1, ModRange
    <2>3. lastUse' = ((lastUse % Len(registry)) + 1) % Len(registry)
      BY <1>1, <1>3, <2>1 DEF RotateArea
    <2>4. lastUse' < Len(registry)
      BY <1>1, <2>1, <2>2, <2>3, ModRange
    <2>5. UNCHANGED <<registry, stuck, shrunk, kind>> /\ pc' = [pc EXCEPT ![r] = "pick"]
      BY <1>1, <1>3, <2>1 DEF RotateArea, history
    <2> QED
      BY <2>1, <2>4, <2>5 DEF CursorInv
  <1>4. CASE PickArea(r)
    <2>1. Len(registry) > 0 /\ lastUse < Len(registry)
      BY <1>4 DEF PickArea, CursorInv
    <2>2. lastUse' = (lastUse + 1) % Len(registry)
      BY <1>1, <1>4, <2>1 DEF PickArea
    <2>3. lastUse' < Len(registry)
      BY <1>1, <2>1, <2>2, ModRange
    <2>4. /\ UNCHANGED <<registry, stuck, shrunk, kind>>
          /\ pc' = pc \/ pc' = [pc EXCEPT ![r] = "check"]
      BY <1>1, <1>4, <2>1 DEF PickArea, history
    <2> QED
      BY <2>1, <2>3, <2>4 DEF CursorInv
  <1> QED
    BY <1>2, <1>3, <1>4

LEMMA CursorAddProxy ==
  ASSUME TypeInv, CursorInv, NEW r \in Request, AddProxy(r)
  PROVE  CursorInv'
  <1> USE DEF TypeInv, TypeOK, LocalType, ListType, Goroutine, Goto
  <1>1. tun[r] \in Tunnel
    BY DEF AddProxy, LocalInv
  <1>2. Len(registry') = Len(registry) + 1 /\ Len(registry) \in Nat
    BY <1>1 DEF AddProxy
  <1> QED
    BY <1>2 DEF AddProxy, CursorInv, localVars

LEMMA CursorDelStore ==
  ASSUME TypeInv, CursorInv, NEW g \in Goroutine, DelStore(g)
  PROVE  CursorInv'
  <1> USE DEF TypeInv, TypeOK, LocalType, ListType, Goto
  <1>1. todo[g] # <<>>
    BY DEF DelStore, LocalInv
  <1>2. registry' \in Seq(Tunnel)
    BY <1>1, VictimMade, WithoutType DEF DelStore
  <1>3. Len(registry') \in Nat /\ Len(registry) \in Nat
    BY <1>2
  <1>4. shrunk' = (shrunk \/ Len(registry') < Len(registry))
    BY DEF DelStore
  <1>5. ~shrunk' => ~shrunk /\ ~(Len(registry') < Len(registry))
    BY <1>4, Zenon
  <1>6. /\ UNCHANGED <<lastUse, stuck, kind>>
        /\ \A h \in Goroutine : h # g => pc'[h] = pc[h]
        /\ pc'[g] = "del"
    BY DEF DelStore
  <1> QED
    BY <1>3, <1>5, <1>6 DEF CursorInv

LEMMA CursorNext == TypeInv /\ CursorInv /\ [Next]_vars => CursorInv'
  <1> SUFFICES ASSUME TypeInv, CursorInv, [Next]_vars
               PROVE  CursorInv'
    OBVIOUS
  <1> USE DEF TypeInv, TypeOK, LocalType, Goroutine, Goto
  <1>1. CASE UNCHANGED vars
    BY <1>1, CursorFrame DEF vars, listVars, localVars, history
  <1>2. ASSUME NEW g \in Goroutine, DelProxy(g) PROVE CursorInv'
    <2>1. CASE DelSnapshot(g) \/ DelReadErr(g) \/ DelWriteErr(g) \/ DelClosePort(g)
               \/ DelReturn(g)
      BY <2>1, CursorFrame DEF DelSnapshot, DelReadErr, DelWriteErr, DelClosePort,
         DelReturn, listVars, localVars, history
    <2> QED
      BY <1>2, <2>1, CursorDelStore DEF DelProxy
  <1>3. ASSUME NEW r \in Request, Handle(r) PROVE CursorInv'
    <2>1. CASE ScanTyped(r) \/ NewProxy(r) \/ CheckOn(r) \/ ChooseType(r)
      BY <2>1, CursorFrame DEF ScanTyped, NewProxy, CheckOn, ChooseType, listVars, localVars, history
    <2>2. CASE Start(r)
      BY <2>2, CursorFrame DEF Start, listVars, localVars, history
    <2> QED
      BY <1>2, <1>3, <2>1, <2>2, CursorGetProxy, CursorAddProxy DEF Handle
  <1>4. ASSUME NEW r \in Request, Receive(r) PROVE CursorInv'
    <2>1. \E k \in Kinds, l \in {"count", "scan", "create", "del", "done", "panicked"} :
            /\ \E ids, w : Arrive(r, k, l, ids, w)
            /\ l = "panicked" => k \notin {"get", "typed"}
      BY <1>4 DEF Receive, ProxyGet, ProxyTyped, ProxyNew, ProxyDel, BadBody, ProxyErr,
                  ProxyErrRefused, CloseAll, UpdateAll, Arrive
    <2> QED
      BY <2>1, CursorFrame DEF Arrive, listVars, localVars, history
  <1>5. ASSUME NEW s \in Server, Serve(s) \/ AcceptFails(s) PROVE CursorInv'
    <2>1. CASE Listen(s) \/ ServerEnds(s) \/ AcceptFails(s)
      BY <2>1, CursorFrame DEF Listen, ServerEnds, AcceptFails, listVars, localVars, history
    <2> QED
      BY <1>2, <1>5, <2>1 DEF Serve
  <1> QED
    BY <1>1, <1>3, <1>4, <1>5 DEF Next

\* No /proxy-get panics and no request loses the lock before a deletion
\* shortens the list of tunnels.
THEOREM NoPanicBeforeDeletion == Spec => []PanicNeedsDeletion
  <1>1. Spec => [](TypeInv /\ CursorInv)
    BY TypeInvInit, CursorInit, TypeInvNext, CursorNext, PTL DEF Spec
  <1>2. CursorInv => PanicNeedsDeletion
    BY DEF CursorInv, PanicNeedsDeletion, Goroutine
  <1> QED
    BY <1>1, <1>2, PTL

-----------------------------------------------------------------------------
(* ErrTypeCount.  A goroutine between its read and its write carries a      *)
(* number that is at most one more than the removals counted so far.        *)

CountInv ==
    /\ \A ty \in Types : errCount[ty] <= removals[ty]
    /\ \A g \in Goroutine :
         pc[g] = "writeerr" => num[g] <= removals[typ[Head(todo[g])]] + 1

LEMMA CountInit == Init => CountInv
  BY DEF Init, CountInv

LEMMA CountFrame ==
  ASSUME TypeInv, CountInv, UNCHANGED <<errCount, removals>>,
         \A t \in Tunnel : typ[t] # None => typ'[t] = typ[t],
         \A g \in Goroutine : pc'[g] = "writeerr" =>
            pc[g] = "writeerr" /\ num'[g] = num[g] /\ todo'[g] = todo[g]
  PROVE  CountInv'
  <1>1. ASSUME NEW g \in Goroutine, pc'[g] = "writeerr"
        PROVE  num'[g] <= removals'[typ'[Head(todo'[g])]] + 1
    <2>1. pc[g] = "writeerr" /\ todo[g] # <<>>
      BY <1>1 DEF TypeInv, LocalInv
    <2>2. Head(todo[g]) \in Tunnel /\ typ[Head(todo[g])] # None
      BY <2>1, VictimMade, NoneIsNew
    <2>3. typ'[Head(todo[g])] = typ[Head(todo[g])]
      BY <2>2
    <2> QED
      BY <1>1, <2>1, <2>3 DEF CountInv
  <1> QED
    BY <1>1 DEF CountInv

LEMMA CountDelReadErr ==
  ASSUME TypeInv, CountInv, NEW g \in Goroutine, DelReadErr(g)
  PROVE  CountInv'
  <1> USE DEF TypeInv, TypeOK, LocalType, Goto
  <1>1. todo[g] # <<>>
    BY DEF DelReadErr, LocalInv
  <1>2. typ[Head(todo[g])] \in Types
    BY <1>1, VictimMade
  <1>3. /\ UNCHANGED <<errCount, removals, typ, todo>>
        /\ num'[g] = errCount[typ[Head(todo[g])]] + 1
        /\ \A h \in Goroutine \ {g} : pc'[h] = pc[h] /\ num'[h] = num[h]
    BY DEF DelReadErr, listVars, tunnelVars, history
  <1>4. errCount[typ[Head(todo[g])]] <= removals[typ[Head(todo[g])]]
    BY <1>2 DEF CountInv
  <1>5. num'[g] <= removals[typ[Head(todo[g])]] + 1
    BY <1>2, <1>3, <1>4 DEF ListType, HistoryType
  <1> QED
    BY <1>3, <1>5 DEF CountInv

LEMMA CountDelWriteErr ==
  ASSUME TypeInv, CountInv, NEW g \in Goroutine, DelWriteErr(g)
  PROVE  CountInv'
  <1> USE DEF TypeInv, TypeOK, LocalType, ListType, HistoryType, Goto
  <1> DEFINE ty == typ[Head(todo[g])]
  <1>1. todo[g] # <<>>
    BY DEF DelWriteErr, LocalInv
  <1>2. ty \in Types
    BY <1>1, VictimMade
  <1>3. /\ errCount' = [errCount EXCEPT ![ty] = num[g]]
        /\ removals' = [removals EXCEPT ![ty] = removals[ty] + 1]
        /\ UNCHANGED <<typ, todo>>
        /\ pc'[g] = "close"
        /\ \A h \in Goroutine \ {g} : pc'[h] = pc[h] /\ num'[h] = num[h]
    BY DEF DelWriteErr, tunnelVars
  <1>4. num[g] <= removals[ty] + 1
    BY DEF DelWriteErr, CountInv
  <1>5. \A u \in Types : errCount'[u] <= removals'[u]
    <2> TAKE u \in Types
    <2>1. CASE u = ty
      BY <1>2, <1>3, <1>4, <2>1
    <2>2. CASE u # ty
      BY <1>2, <1>3, <2>2 DEF CountInv
    <2> QED
      BY <2>1, <2>2
  <1>6. \A u \in Types : removals[u] <= removals'[u]
    BY <1>2, <1>3
  <1>7. ASSUME NEW h \in Goroutine, pc'[h] = "writeerr"
        PROVE  num'[h] <= removals'[typ'[Head(todo'[h])]] + 1
    <2>1. h # g /\ pc[h] = "writeerr"
      BY <1>3, <1>7
    <2>2. todo[h] # <<>>
      BY <2>1 DEF LocalInv
    <2>3. typ[Head(todo[h])] \in Types
      BY <2>2, VictimMade
    <2>4. num[h] <= removals[typ[Head(todo[h])]] + 1
      BY <2>1 DEF CountInv
    <2>5. removals'[typ[Head(todo[h])]] \in Nat /\ removals[typ[Head(todo[h])]] \in Nat
      <3>1. removals' \in [Types -> Nat]
        BY <1>2, <1>3
      <3> QED
        BY <2>3, <3>1
    <2>6. num[h] <= removals'[typ[Head(todo[h])]] + 1
      <3>1. removals[typ[Head(todo[h])]] <= removals'[typ[Head(todo[h])]]
        BY <1>6, <2>3, Zenon
      <3>2. num[h] \in Nat
        BY DEF TypeInv, TypeOK
      <3> HIDE DEF TypeInv, TypeOK
      <3> QED
        BY <2>4, <2>5, <3>1, <3>2, SMT
    <2> QED
      BY <1>3, <2>1, <2>6
  <1> QED
    BY <1>5, <1>7 DEF CountInv

LEMMA CountNext == TypeInv /\ CountInv /\ [Next]_vars => CountInv'
  <1> SUFFICES ASSUME TypeInv, CountInv, [Next]_vars
               PROVE  CountInv'
    OBVIOUS
  <1> USE DEF TypeInv, TypeOK, LocalType, Goroutine, Goto
  <1>1. CASE UNCHANGED vars
    BY <1>1, CountFrame DEF vars, listVars, tunnelVars, localVars, history
  <1>2. ASSUME NEW g \in Goroutine, DelProxy(g) PROVE CountInv'
    <2>1. CASE DelSnapshot(g) \/ DelClosePort(g) \/ DelReturn(g)
      BY <2>1, CountFrame DEF DelSnapshot, DelClosePort, DelReturn, listVars,
         tunnelVars, localVars, history
    <2>2. CASE DelStore(g)
      BY <2>2, CountFrame DEF DelStore, tunnelVars
    <2> QED
      BY <1>2, <2>1, <2>2, CountDelReadErr, CountDelWriteErr DEF DelProxy
  <1>3. ASSUME NEW r \in Request, Handle(r) PROVE CountInv'
    <2>1. CASE CountArea(r) \/ ScanTyped(r) \/ CheckOn(r) \/ ChooseType(r)
      BY <2>1, CountFrame DEF CountArea, ScanTyped, CheckOn, ChooseType, listVars,
         tunnelVars, localVars, history
    <2>2. CASE RotateArea(r) \/ PickArea(r)
      <3>1. UNCHANGED <<errCount, removals, typ, num, todo>>
        BY <2>2 DEF RotateArea, PickArea, PanicInArea, tunnelVars, localVars, history
      <3>2. \A g \in Goroutine : pc'[g] = "writeerr" => pc[g] = "writeerr"
        BY <2>2 DEF RotateArea, PickArea, PanicInArea
      <3> QED
        BY <3>1, <3>2, CountFrame
    <2>3. CASE NewProxy(r)
      <3>1. \A t \in Tunnel : typ[t] # None => typ'[t] = typ[t]
        BY <2>3 DEF NewProxy, Made, TunnelType
      <3> QED
        BY <2>3, <3>1, CountFrame DEF NewProxy, listVars, history
    <2>4. CASE AddProxy(r)
      BY <2>4, CountFrame DEF AddProxy, tunnelVars, localVars
    <2>5. CASE Start(r)
      BY <2>5, CountFrame DEF Start, listVars, history
    <2> QED
      BY <1>2, <1>3, <2>1, <2>2, <2>3, <2>4, <2>5 DEF Handle
  <1>4. ASSUME NEW r \in Request, Receive(r) PROVE CountInv'
    <2>1. \E k \in Kinds, l \in {"count", "scan", "create", "del", "done", "panicked"} :
            \E ids, w : Arrive(r, k, l, ids, w)
      BY <1>4 DEF Receive, ProxyGet, ProxyTyped, ProxyNew, ProxyDel, BadBody, ProxyErr,
                  ProxyErrRefused, CloseAll, UpdateAll, Arrive
    <2> QED
      BY <2>1, CountFrame DEF Arrive, listVars, tunnelVars, history
  <1>5. ASSUME NEW s \in Server, Serve(s) \/ AcceptFails(s) PROVE CountInv'
    <2>1. CASE Listen(s) \/ ServerEnds(s) \/ AcceptFails(s)
      BY <2>1, CountFrame DEF Listen, ServerEnds, AcceptFails, listVars, localVars, history
    <2> QED
      BY <1>2, <1>5, <2>1 DEF Serve
  <1> QED
    BY <1>1, <1>3, <1>4, <1>5 DEF Next

\* ErrTypeCount never counts more failures of a type than DelProxy found
\* tunnels of it, although its updates are not atomic.
THEOREM CountsBounded == Spec => []CountsAtMostRemovals
  <1>1. Spec => [](TypeInv /\ CountInv)
    BY TypeInvInit, CountInit, TypeInvNext, CountNext, PTL DEF Spec
  <1>2. CountInv => CountsAtMostRemovals
    BY DEF CountInv, CountsAtMostRemovals
  <1> QED
    BY <1>1, <1>2, PTL

-----------------------------------------------------------------------------
(* Who was started.  A server goroutine keeps its tunnel for good, so that  *)
(* a flag On once raised has a goroutine behind it, and a tunnel with one   *)
(* goroutine that has not ended has its flag up.                            *)

EarlyLabels == {"idle", "del", "readerr", "writeerr", "close", "store"}

StartedInv ==
    /\ \A s \in Server : pc[s] = "idle" => tun[s] = None
    /\ \A r \in Request : pc[r] \in EarlyLabels => tun[r] = None
    /\ \A t \in Tunnel : on[t] => ServersOf(t) # {}
    /\ \A s \in Server :
         pc[s] \in {"listen", "serving"} /\ ServersOf(tun[s]) = {s} => on[tun[s]]
    /\ AnsweredWasStarted

LEMMA StartedInit == Init => StartedInv
  BY DEF Init, StartedInv, AnsweredWasStarted, Goroutine, EarlyLabels

\* A step that starts and ends no tunnel.
LEMMA StartedFrame ==
  ASSUME StartedInv, UNCHANGED on,
         \A s \in Server :
           /\ tun'[s] = tun[s]
           /\ pc'[s] = "idle" => pc[s] = "idle"
           /\ pc'[s] \in {"listen", "serving"} => pc[s] \in {"listen", "serving"},
         \A r \in Request :
           /\ pc'[r] \in EarlyLabels => tun'[r] = None
           /\ pc'[r] = "done" /\ tun'[r] # None /\ kind'[r] # "new" =>
                ServersOf(tun'[r]) # {}
  PROVE  StartedInv'
  <1>1. ASSUME NEW t PROVE ServersOf(t)' = ServersOf(t)
    BY DEF ServersOf
  <1>2. \A s \in Server : ServersOf(tun[s])' = {s} => ServersOf(tun[s]) = {s}
    BY DEF ServersOf
  <1>3. \A r \in Request : (ServersOf(tun[r]))' = ServersOf(tun'[r])
    BY DEF ServersOf
  <1>4. \A s \in Server : (ServersOf(tun[s]))' = ServersOf(tun[s])
    BY DEF ServersOf
  <1>5. \A t \in Tunnel : ServersOf(t)' = ServersOf(t)
    BY <1>1
  <1> QED
    BY <1>3, <1>4, <1>5 DEF StartedInv, AnsweredWasStarted

\* Goroutines of DelProxy have no tunnel of their own that is answered.
LEMMA StartedDelProxy ==
  ASSUME TypeInv, StartedInv, NEW g \in Goroutine, DelProxy(g)
  PROVE  StartedInv'
  <1> USE DEF TypeInv, TypeOK, LocalType, Goto
  <1>1. UNCHANGED <<on, tun, kind>>
    BY DEF DelProxy, DelSnapshot, DelReadErr, DelWriteErr, DelClosePort, DelStore,
           DelReturn, tunnelVars, localVars
  <1>2. pc[g] \in {"del", "readerr", "writeerr", "close", "store"}
    BY DEF DelProxy, DelSnapshot, DelReadErr, DelWriteErr, DelClosePort, DelStore,
           DelReturn
  <1>3. \E l \in {"del", "readerr", "writeerr", "close", "store", "done", "choose"} :
          pc' = [pc EXCEPT ![g] = l]
    BY DEF DelProxy, DelSnapshot, DelReadErr, DelWriteErr, DelClosePort, DelStore,
           DelReturn
  <1>4. ASSUME NEW s \in Server
        PROVE  /\ pc'[s] = "idle" => pc[s] = "idle"
               /\ pc'[s] \in {"listen", "serving"} => pc[s] \in {"listen", "serving"}
    BY <1>3 DEF Goroutine
  <1>5. ASSUME NEW r \in Request
        PROVE  /\ pc'[r] \in EarlyLabels => tun'[r] = None
               /\ pc'[r] = "done" /\ tun'[r] # None /\ kind'[r] # "new" =>
                    ServersOf(tun'[r]) # {}
    <2>1. CASE r = g
      BY <1>1, <1>2, <2>1 DEF StartedInv, EarlyLabels
    <2>2. CASE r # g
      <3>1. pc'[r] = pc[r] /\ tun'[r] = tun[r] /\ kind'[r] = kind[r]
        BY <1>1, <1>3, <2>2 DEF Goroutine
      <3> QED
        BY <3>1 DEF StartedInv, AnsweredWasStarted
    <2> QED
      BY <2>1, <2>2
  <1> QED
    BY <1>1, <1>4, <1>5, StartedFrame

\* A step of a request other than Start and DelProxy: it may take a tunnel,
\* and ends as answered only if it found the tunnel on, or it serves /proxy-new.
LEMMA StartedOwn ==
  ASSUME TypeInv, StartedInv, NEW r \in Request,
         UNCHANGED on,
         \A g \in Goroutine \ {r} :
           pc'[g] = pc[g] /\ tun'[g] = tun[g] /\ kind'[g] = kind[g],
         pc'[r] \in EarlyLabels => tun'[r] = None,
         pc'[r] = "done" /\ tun'[r] # None =>
           \/ kind'[r] = "new"
           \/ tun'[r] \in Tunnel /\ on[tun'[r]]
  PROVE  StartedInv'
  <1>1. ASSUME NEW q \in Request
        PROVE  /\ pc'[q] \in EarlyLabels => tun'[q] = None
               /\ pc'[q] = "done" /\ tun'[q] # None /\ kind'[q] # "new" =>
                    ServersOf(tun'[q]) # {}
    <2>1. CASE q = r
      BY <2>1 DEF StartedInv
    <2>2. CASE q # r
      BY <2>2 DEF StartedInv, AnsweredWasStarted, Goroutine
    <2> QED
      BY <2>1, <2>2
  <1>2. \A s \in Server : s \in Goroutine \ {r}
    BY RegistryAssumption DEF Goroutine
  <1> QED
    BY <1>1, <1>2, StartedFrame

LEMMA StartedStart ==
  ASSUME TypeInv, StartedInv, NEW r \in Request, Start(r)
  PROVE  StartedInv'
  <1> USE DEF TypeInv, TypeOK, LocalType, TunnelType, Goroutine
  <1>1. PICK s \in Server :
          /\ pc[s] = "idle"
          /\ pc' = [pc EXCEPT ![r] = "done", ![s] = "listen"]
          /\ tun' = [tun EXCEPT ![s] = tun[r]]
    BY DEF Start
  <1>2. /\ on' = [on EXCEPT ![tun[r]] = TRUE]
        /\ kind' = kind
        /\ tun[r] \in Tunnel
    BY DEF Start, LocalInv
  <1>3. r # s /\ tun[s] = None
    BY <1>1, RegistryAssumption DEF StartedInv
  <1>4. /\ tun'[s] = tun[r] /\ tun'[r] = tun[r]
        /\ pc'[s] = "listen" /\ pc'[r] = "done"
        /\ \A g \in Goroutine \ {s} : tun'[g] = tun[g]
        /\ \A g \in Goroutine \ {r, s} : pc'[g] = pc[g]
    BY <1>1, <1>3
  <1>5. ASSUME NEW t \in Tunnel
        PROVE  ServersOf(t) \subseteq ServersOf(t)' /\ (t = tun[r] => s \in ServersOf(t)')
    BY <1>3, <1>4, NoneIsNew DEF ServersOf
  <1>6. \A t \in Tunnel : on'[t] => ServersOf(t)' # {}
    BY <1>2, <1>5 DEF StartedInv
  <1>7. ASSUME NEW u \in Server, pc'[u] \in {"listen", "serving"},
               (ServersOf(tun[u]) = {u})'
        PROVE  on'[tun'[u]]
    <2>1. CASE tun'[u] = tun[r]
      BY <1>2, <2>1
    <2>2. CASE tun'[u] # tun[r]
      <3>1. u # s
        BY <1>4, <2>2
      <3>2. pc'[u] = pc[u] /\ tun'[u] = tun[u]
        BY <1>4, <3>1, RegistryAssumption
      <3>3. tun[u] \in Tunnel
        BY <1>7, <3>2 DEF LocalInv, StartedInv, LocalInv
      <3>4. ServersOf(tun[u]) = {u}
        BY <1>4, <1>5, <1>7, <3>2, <3>3 DEF ServersOf
      <3>5. on[tun[u]]
        BY <1>7, <3>2, <3>4 DEF StartedInv
      <3> QED
        BY <1>2, <3>2, <3>3, <3>5
    <2> QED
      BY <2>1, <2>2
  <1>8. ASSUME NEW q \in Request, pc'[q] = "done", tun'[q] # None, kind'[q] # "new"
        PROVE  (ServersOf(tun[q]))' # {}
    <2>1. q # s /\ tun'[q] = tun[q]
      BY <1>4, RegistryAssumption
    <2>2. CASE q = r
      BY <1>2, <1>4, <2>2 DEF ServersOf
    <2>3. CASE q # r
      <3>1. ServersOf(tun[q]) # {}
        BY <1>2, <1>4, <1>8, <2>1, <2>3 DEF StartedInv, AnsweredWasStarted
      <3>2. tun[q] \in Tunnel
        BY <1>8, <2>1
      <3> QED
        BY <1>5, <2>1, <3>1, <3>2 DEF ServersOf
    <2> QED
      BY <2>2, <2>3
  <1>9. /\ \A u \in Server : pc'[u] = "idle" => tun'[u] = None
        /\ \A q \in Request : pc'[q] \in EarlyLabels => tun'[q] = None
    BY <1>3, <1>4, RegistryAssumption DEF StartedInv, EarlyLabels
  <1> QED
    BY <1>6, <1>7, <1>8, <1>9 DEF StartedInv, AnsweredWasStarted

\* A server goroutine that ends lowers On of its tunnel, but any other that
\* serves the tunnel is then not alone with it.
LEMMA StartedServerEnds ==
  ASSUME TypeInv, StartedInv, NEW s \in Server, ServerEnds(s)
  PROVE  StartedInv'
  <1> USE DEF TypeInv, TypeOK, LocalType, TunnelType, Goroutine, Goto
  <1>1. /\ pc' = [pc EXCEPT ![s] = "del"]
        /\ on' = [on EXCEPT ![tun[s]] = FALSE]
        /\ UNCHANGED <<tun, kind>>
        /\ tun[s] \in Tunnel
    BY DEF ServerEnds, LocalInv
  <1>2. \A t : ServersOf(t)' = ServersOf(t)
    BY <1>1 DEF ServersOf
  <1>3. \A g \in Goroutine : (ServersOf(tun[g]))' = ServersOf(tun[g])
    BY <1>1 DEF ServersOf
  <1>4. ASSUME NEW u \in Server, pc'[u] \in {"listen", "serving"},
               ServersOf(tun[u]) = {u}
        PROVE  on'[tun'[u]]
    <2>1. u # s /\ pc'[u] = pc[u]
      BY <1>1, <1>4
    <2>2. tun[u] # tun[s]
      BY <1>4, <2>1 DEF ServersOf
    <2>3. on[tun[u]] /\ tun[u] \in Tunnel
      BY <1>4, <2>1 DEF StartedInv, LocalInv
    <2> QED
      BY <1>1, <2>2, <2>3
  <1>5. \A t \in Tunnel : on'[t] => on[t]
    BY <1>1
  <1>6. \A r \in Request : pc'[r] = pc[r]
    BY <1>1, RegistryAssumption
  <1>7. \A u \in Server : pc'[u] = "idle" => pc[u] = "idle"
    BY <1>1
  <1>8. \A t \in Tunnel : ServersOf(t)' = ServersOf(t)
    BY <1>2
  <1>9. (\A u \in Server : pc[u] = "idle" => tun[u] = None)'
    BY <1>1, <1>7 DEF StartedInv
  <1>10. (\A r \in Request : pc[r] \in EarlyLabels => tun[r] = None)'
    BY <1>1, <1>6 DEF StartedInv
  <1>11. (\A t \in Tunnel : on[t] => ServersOf(t) # {})'
    BY <1>5, <1>8 DEF StartedInv
  <1>12. (\A u \in Server :
            pc[u] \in {"listen", "serving"} /\ ServersOf(tun[u]) = {u} => on[tun[u]])'
    BY <1>3, <1>4
  <1>13. AnsweredWasStarted'
    BY <1>1, <1>3, <1>6 DEF StartedInv, AnsweredWasStarted
  <1> HIDE DEF AnsweredWasStarted
  <1> QED
    BY <1>9, <1>10, <1>11, <1>12, <1>13 DEF StartedInv

LEMMA StartedNext == TypeInv /\ StartedInv /\ [Next]_vars => StartedInv'
  <1> SUFFICES ASSUME TypeInv, StartedInv, [Next]_vars
               PROVE  StartedInv'
    OBVIOUS
  <1> USE DEF TypeInv, TypeOK, LocalType, Goroutine, Goto
  <1>1. CASE UNCHANGED vars
    <2>1. UNCHANGED <<on, pc, tun, kind>>
      BY <1>1 DEF vars, tunnelVars, localVars
    <2> QED
      BY <2>1, StartedFrame DEF StartedInv, AnsweredWasStarted
  <1>2. ASSUME NEW r \in Request, Handle(r) PROVE StartedInv'
    <2>1. CASE CountArea(r) \/ RotateArea(r)
      BY <2>1, StartedOwn DEF CountArea, RotateArea, PanicInArea, tunnelVars,
         localVars, EarlyLabels
    <2>2. CASE PickArea(r)
      <3>1. UNCHANGED <<on, kind>>
        BY <2>2 DEF PickArea, PanicInArea, tunnelVars, localVars
      <3>2. /\ pc'[r] \in {"pick", "check", "panicked"}
            /\ \A g \in Goroutine \ {r} : pc'[g] = pc[g] /\ tun'[g] = tun[g]
        BY <2>2 DEF PickArea, PanicInArea, localVars
      <3> QED
        BY <3>1, <3>2, StartedOwn DEF EarlyLabels
    <2>3. CASE ScanTyped(r) \/ AddProxy(r) \/ ChooseType(r)
      BY <2>3, StartedOwn DEF ScanTyped, AddProxy, ChooseType, tunnelVars, localVars,
         EarlyLabels
    <2>4. CASE NewProxy(r)
      BY <2>4, StartedOwn DEF NewProxy, EarlyLabels
    <2>5. CASE CheckOn(r)
      <3>1. tun[r] \in Tunnel
        BY <2>5 DEF CheckOn, LocalInv
      <3> QED
        BY <2>5, <3>1, StartedOwn DEF CheckOn, tunnelVars, localVars, EarlyLabels
    <2> QED
      BY <1>2, <2>1, <2>2, <2>3, <2>4, <2>5, StartedStart, StartedDelProxy DEF Handle
  <1>3. ASSUME NEW r \in Request, Receive(r) PROVE StartedInv'
    <2>1. /\ UNCHANGED <<on, tun>>
          /\ pc[r] = "idle"
          /\ pc'[r] \in {"count", "scan", "create", "del", "done", "panicked"}
          /\ \A g \in Goroutine \ {r} : pc'[g] = pc[g] /\ kind'[g] = kind[g]
      BY <1>3 DEF Receive, ProxyGet, ProxyTyped, ProxyNew, ProxyDel, BadBody, ProxyErr,
                  ProxyErrRefused, CloseAll, UpdateAll, Arrive, tunnelVars
    <2>2. tun'[r] = None
      BY <2>1 DEF StartedInv, EarlyLabels
    <2> QED
      BY <2>1, <2>2, StartedOwn
  <1>4. ASSUME NEW s \in Server, Serve(s) \/ AcceptFails(s) PROVE StartedInv'
    <2>1. CASE Listen(s) \/ AcceptFails(s)
      <3>1. /\ UNCHANGED <<on, tun, kind>>
            /\ pc[s] \in {"listen", "serving"}
            /\ pc'[s] \in {"ending", "serving"}
            /\ \A g \in Goroutine \ {s} : pc'[g] = pc[g]
        BY <2>1 DEF Listen, AcceptFails, localVars
      <3>2. \A r \in Request : r # s
        BY RegistryAssumption
      <3> QED
        BY <3>1, <3>2, StartedFrame DEF StartedInv, AnsweredWasStarted
    <2> QED
      BY <1>4, <2>1, StartedServerEnds, StartedDelProxy DEF Serve
  <1> QED
    BY <1>1, <1>2, <1>3, <1>4 DEF Next

\* Two handlers that both start a tunnel are the only way to have a tunnel
\* that serves and is marked off.
THEOREM OffNeedsTwoStarts == Spec => []OffWhileServingNeedsTwoStarts
  <1>1. Spec => [](TypeInv /\ StartedInv)
    BY TypeInvInit, StartedInit, TypeInvNext, StartedNext, PTL DEF Spec
  <1>2. StartedInv => OffWhileServingNeedsTwoStarts
    BY DEF StartedInv, OffWhileServingNeedsTwoStarts
  <1> QED
    BY <1>1, <1>2, PTL

\* No client is given the configuration of a tunnel nobody ever started.
THEOREM AnswersAreStarted == Spec => []AnsweredWasStarted
  <1>1. Spec => [](TypeInv /\ StartedInv)
    BY TypeInvInit, StartedInit, TypeInvNext, StartedNext, PTL DEF Spec
  <1>2. StartedInv => AnsweredWasStarted
    BY DEF StartedInv
  <1> QED
    BY <1>1, <1>2, PTL

-----------------------------------------------------------------------------
(* The firewall.  The port of every tunnel made is open, unless one of the  *)
(* two kinds of step that shut a port was taken for that port.              *)

EndedLabels == {"del", "readerr", "writeerr", "close", "store", "done"}

\* DelProxy, or the end of a server goroutine, shut the port of t.
PortWasShut(t) ==
    \/ \E v \in shut : port[v] = port[t]
    \/ \E u \in Server : pc[u] \in EndedLabels /\ port[tun[u]] = port[t]

ReachInv ==
    /\ shut \subseteq Made
    /\ \A s \in Server : pc[s] # "idle" => tun[s] \in Made
    /\ \A s \in Server : kind[s] = None
    /\ \A t \in Made : port[t] \in ufw \/ PortWasShut(t)

LEMMA ReachInit == Init => ReachInv
  BY DEF Init, ReachInv, Made, Goroutine

\* A step that makes no tunnel and shuts no port.
LEMMA ReachFrame ==
  ASSUME ReachInv, UNCHANGED <<typ, port, ufw, shut>>,
         \A s \in Server :
           /\ pc'[s] # "idle" => tun'[s] \in Made
           /\ kind'[s] = kind[s]
           /\ pc[s] \in EndedLabels => pc'[s] \in EndedLabels /\ tun'[s] = tun[s]
  PROVE  ReachInv'
  <1>1. Made' = Made
    BY DEF Made
  <1>2. ASSUME NEW t \in Made, PortWasShut(t) PROVE PortWasShut(t)'
    BY <1>2 DEF PortWasShut
  <1> QED
    BY <1>1, <1>2 DEF ReachInv

\* A handler that makes and deletes no tunnel.
LEMMA ReachHandler ==
  ASSUME TypeInv, ReachInv, NEW r \in Request, UNCHANGED tunnelVars, UNCHANGED shut,
         \A g \in Goroutine \ {r} : UNCHANGED <<pc[g], tun[g], kind[g]>>
  PROVE  ReachInv'
  <1>1. \A s \in Server : s \in Goroutine \ {r}
    BY RegistryAssumption DEF Goroutine
  <1> QED
    BY <1>1, ReachFrame DEF ReachInv, tunnelVars

LEMMA ReachNewProxy ==
  ASSUME TypeInv, ReachInv, NEW r \in Request, NewProxy(r)
  PROVE  ReachInv'
  <1>0. /\ pc \in [Goroutine -> Labels] /\ tun \in [Goroutine -> Tunnel \cup {None}]
        /\ typ \in [Tunnel -> Types \cup {None}] /\ port \in [Tunnel -> Port \cup {None}]
        /\ r \in Goroutine
    BY DEF TypeInv, TypeOK, LocalType, TunnelType, Goroutine
  <1>1. PICK t \in Tunnel \ Made, p \in Port :
          /\ typ' = [typ EXCEPT ![t] = NewType(want[r])]
          /\ port' = [port EXCEPT ![t] = p]
          /\ ufw' = ufw \cup {p}
          /\ tun' = [tun EXCEPT ![r] = t]
    BY DEF NewProxy
  <1>2. NewType(want[r]) # None
    <2>1. NewType(want[r]) \in Types
      BY DEF NewType, Types
    <2> QED
      BY <2>1, NoneIsNew
  <1>3. Made' = Made \cup {t} /\ \A v \in Made : v # t /\ port'[v] = port[v]
    BY <1>0, <1>1, <1>2 DEF Made
  <1>4. \A s \in Server : pc'[s] = pc[s] /\ tun'[s] = tun[s] /\ kind'[s] = kind[s]
    BY <1>0, <1>1, RegistryAssumption DEF NewProxy, Goto, Goroutine
  <1>5. shut' = shut /\ shut \subseteq Made
    BY DEF NewProxy, history, ReachInv
  <1>6. port'[t] \in ufw'
    BY <1>0, <1>1
  <1>7. ASSUME NEW v \in Made PROVE port'[v] \in ufw' \/ PortWasShut(v)'
    <2>1. CASE port[v] \in ufw
      BY <1>1, <1>3, <2>1
    <2>2. CASE \E x \in shut : port[x] = port[v]
      BY <1>3, <1>5, <2>2 DEF PortWasShut
    <2>3. CASE \E u \in Server : pc[u] \in EndedLabels /\ port[tun[u]] = port[v]
      <3>1. PICK u \in Server : pc[u] \in EndedLabels /\ port[tun[u]] = port[v]
        BY <2>3
      <3>2. tun[u] \in Made
        BY <3>1 DEF ReachInv, EndedLabels
      <3> QED
        BY <1>3, <1>4, <3>1, <3>2 DEF PortWasShut
    <2> QED
      BY <2>1, <2>2, <2>3 DEF ReachInv, PortWasShut
  <1> QED
    BY <1>3, <1>4, <1>5, <1>6, <1>7 DEF ReachInv

LEMMA ReachDelProxy ==
  ASSUME TypeInv, ReachInv, NEW g \in Goroutine, DelProxy(g)
  PROVE  ReachInv'
  <1>0. pc \in [Goroutine -> Labels] /\ \A s \in Server : s \in Goroutine
    BY DEF TypeInv, TypeOK, LocalType, Goroutine
  <1>1. /\ UNCHANGED <<typ, port, tun, kind>>
        /\ pc[g] \in EndedLabels
        /\ pc'[g] \in EndedLabels \/ (kind[g] = "err" /\ pc'[g] = "choose")
        /\ \A h \in Goroutine \ {g} : pc'[h] = pc[h]
    BY <1>0 DEF DelProxy, DelSnapshot, DelReadErr, DelWriteErr, DelClosePort, DelStore,
       DelReturn, tunnelVars, localVars, Goto, EndedLabels
  <1>2. "err" # None
    BY RegistryAssumption DEF AllKinds
  <1>3. \A s \in Server :
          /\ pc'[s] # "idle" => tun'[s] \in Made
          /\ pc[s] \in EndedLabels => pc'[s] \in EndedLabels
          /\ pc'[s] \in EndedLabels => pc[s] \in EndedLabels
    BY <1>0, <1>1, <1>2 DEF ReachInv, EndedLabels
  <1>4. CASE ~DelClosePort(g)
    <2>1. UNCHANGED <<ufw, shut>>
      BY <1>4 DEF DelProxy, DelSnapshot, DelReadErr, DelWriteErr, DelStore, DelReturn,
         tunnelVars, history
    <2> QED
      BY <1>1, <1>3, <2>1, ReachFrame
  <1>5. CASE DelClosePort(g)
    <2>0. todo[g] # <<>>
      BY <1>5 DEF DelClosePort, TypeInv, LocalInv
    <2>1. Head(todo[g]) \in Made
      <3>1. Head(todo[g]) \in Tunnel /\ typ[Head(todo[g])] \in Types
        BY <2>0, VictimMade
      <3> QED
        BY <3>1, NoneIsNew DEF Made
    <2>2. /\ ufw' = ufw \ {port[Head(todo[g])]}
          /\ shut' = shut \cup {Head(todo[g])}
      BY <1>5 DEF DelClosePort
    <2>3. Made' = Made
      BY <1>1 DEF Made
    <2>4. ASSUME NEW t \in Made PROVE port'[t] \in ufw' \/ PortWasShut(t)'
      <3>1. CASE port[t] = port[Head(todo[g])]
        BY <1>1, <2>2, <3>1 DEF PortWasShut
      <3>2. CASE port[t] # port[Head(todo[g])]
        BY <1>1, <1>3, <2>2, <3>2 DEF ReachInv, PortWasShut
      <3> QED
        BY <3>1, <3>2
    <2> QED
      BY <1>1, <1>3, <2>1, <2>2, <2>3, <2>4 DEF ReachInv
  <1> QED
    BY <1>4, <1>5

LEMMA ReachServerEnds ==
  ASSUME TypeInv, ReachInv, NEW s \in Server, ServerEnds(s)
  PROVE  ReachInv'
  <1>0. pc \in [Goroutine -> Labels] /\ s \in Goroutine /\ \A u \in Server : u \in Goroutine
    BY DEF TypeInv, TypeOK, LocalType, Goroutine
  <1>1. /\ UNCHANGED <<typ, port, tun, kind, shut>>
        /\ ufw' = ufw \ {port[tun[s]]}
        /\ pc[s] = "ending" /\ pc'[s] = "del"
        /\ \A u \in Server \ {s} : pc'[u] = pc[u]
    BY <1>0 DEF ServerEnds, history, Goto
  <1>2. Made' = Made
    BY <1>1 DEF Made
  <1>3. ASSUME NEW t \in Made PROVE port'[t] \in ufw' \/ PortWasShut(t)'
    <2>1. CASE port[t] = port[tun[s]]
      BY <1>1, <2>1 DEF PortWasShut, EndedLabels
    <2>2. CASE port[t] # port[tun[s]]
      BY <1>1, <2>2 DEF ReachInv, PortWasShut, EndedLabels
    <2> QED
      BY <2>1, <2>2
  <1> QED
    BY <1>1, <1>2, <1>3 DEF ReachInv

LEMMA ReachStart ==
  ASSUME TypeInv, ReachInv, NEW r \in Request, Start(r)
  PROVE  ReachInv'
  <1>0. /\ pc \in [Goroutine -> Labels] /\ tun \in [Goroutine -> Tunnel \cup {None}]
        /\ \A s \in Server : s \in Goroutine /\ s # r
    BY RegistryAssumption DEF TypeInv, TypeOK, LocalType, Goroutine
  <1>1. tun[r] \in Made
    BY DEF Start, TypeInv, LocalInv, Made, Goroutine
  <1>2. PICK s \in Server :
          /\ pc[s] = "idle"
          /\ pc' = [pc EXCEPT ![r] = "done", ![s] = "listen"]
          /\ tun' = [tun EXCEPT ![s] = tun[r]]
    BY DEF Start
  <1>3. UNCHANGED <<typ, port, ufw, shut, kind>>
    BY DEF Start, history
  <1>4. \A u \in Server : u # s => pc'[u] = pc[u] /\ tun'[u] = tun[u]
    BY <1>0, <1>2
  <1>5. pc'[s] = "listen" /\ tun'[s] = tun[r]
    BY <1>0, <1>2
  <1>6. \A u \in Server :
          /\ pc'[u] # "idle" => tun'[u] \in Made
          /\ pc[u] \in EndedLabels => pc'[u] \in EndedLabels /\ tun'[u] = tun[u]
    BY <1>1, <1>2, <1>4, <1>5 DEF ReachInv, EndedLabels
  <1> QED
    BY <1>3, <1>6, ReachFrame

LEMMA ReachNext == TypeInv /\ ReachInv /\ [Next]_vars => ReachInv'
  <1> SUFFICES ASSUME TypeInv, ReachInv, [Next]_vars
               PROVE  ReachInv'
    OBVIOUS
  <1> USE DEF TypeInv, TypeOK, LocalType, Goroutine, Goto
  <1>1. CASE UNCHANGED vars
    <2>1. UNCHANGED <<typ, port, ufw, shut, pc, tun, kind>>
      BY <1>1 DEF vars, tunnelVars, localVars, history
    <2> QED
      BY <2>1, ReachFrame DEF ReachInv
  <1>2. ASSUME NEW r \in Request, Handle(r) PROVE ReachInv'
    <2>1. CASE CountArea(r) \/ RotateArea(r) \/ CheckOn(r) \/ ScanTyped(r) \/ AddProxy(r)
                 \/ ChooseType(r)
      BY <2>1, ReachHandler DEF CountArea, RotateArea, PanicInArea, CheckOn, ScanTyped,
         AddProxy, ChooseType, localVars, history
    <2>2. CASE PickArea(r)
      <3>1. /\ UNCHANGED tunnelVars /\ UNCHANGED <<shut, kind>>
            /\ \A g \in Goroutine \ {r} : pc'[g] = pc[g] /\ tun'[g] = tun[g]
        BY <2>2 DEF PickArea, PanicInArea, localVars, history
      <3> QED
        BY <3>1, ReachHandler
    <2> QED
      BY <1>2, <2>1, <2>2, ReachNewProxy, ReachStart, ReachDelProxy DEF Handle
  <1>3. ASSUME NEW r \in Request, Receive(r) PROVE ReachInv'
    <2>1. \E k, l, ids, w : Arrive(r, k, l, ids, w)
      BY <1>3 DEF Receive, ProxyGet, ProxyTyped, ProxyNew, ProxyDel, BadBody, ProxyErr,
                  ProxyErrRefused, CloseAll, UpdateAll
    <2> QED
      BY <2>1, ReachHandler DEF Arrive, history
  <1>4. ASSUME NEW s \in Server, Serve(s) \/ AcceptFails(s) PROVE ReachInv'
    <2>1. CASE Listen(s) \/ AcceptFails(s)
      <3>1. /\ UNCHANGED <<typ, port, ufw, shut, tun, kind>>
            /\ pc[s] \in {"listen", "serving"}
            /\ \A g \in Goroutine \ {s} : pc'[g] = pc[g]
        BY <2>1 DEF Listen, AcceptFails, localVars, history
      <3> QED
        BY <3>1, ReachFrame DEF ReachInv, EndedLabels
    <2> QED
      BY <1>4, <2>1, ReachServerEnds, ReachDelProxy DEF Serve
  <1> QED
    BY <1>1, <1>2, <1>3, <1>4 DEF Next

\* A tunnel that serves behind a firewall that does not let its port through
\* was deleted, or shares the port with a server goroutine that ended.
THEOREM ServingReachable == Spec => []ServingIsReachable
  <1>1. Spec => [](TypeInv /\ ReachInv)
    BY TypeInvInit, ReachInit, TypeInvNext, ReachNext, PTL DEF Spec
  <1>2. TypeInv /\ ReachInv => ServingIsReachable
    BY DEF ReachInv, PortWasShut, EndedLabels, ServingIsReachable
  <1> QED
    BY <1>1, <1>2, PTL

-----------------------------------------------------------------------------
(* What one call of DelProxy does to the list, and what it can undo.       *)

\* Whatever happened to the list since its snapshot, DelProxy stores the
\* snapshot without its victim: of the entries that come back or vanish with
\* this step, exactly those differ between snapshot and list.
StoresFilter ==
    [][\A g \in Goroutine :
         DelStore(g) => Elems(registry') = Elems(snap[g]) \ {Head(todo[g])}]_vars

\* The DelProxy of a server goroutine's after() stores a list without the
\* goroutine's own tunnel, whatever the other goroutines did meanwhile.
EndUnlists ==
    [][\A s \in Server :
         pc[s] = "store" /\ pc'[s] # "store" => tun[s] \notin Elems(registry')]_vars

\* On a list in order Without drops the one entry and nothing else.
LEMMA WithoutElems ==
  ASSUME TypeOK, NEW s \in Seq(Tunnel), NEW t \in Tunnel, InOrder(s)
  PROVE  Elems(Without(s, t)) = Elems(s) \ {t}
  <1>1. CASE t \notin Elems(s)
    BY <1>1 DEF Without
  <1>2. CASE t \in Elems(s)
    <2> DEFINE n == CHOOSE i \in DOMAIN s : s[i] = t
               w == Without(s, t)
    <2>1. n \in DOMAIN s /\ s[n] = t
      BY <1>2 DEF Elems
    <2>2. w = [i \in 1..(Len(s) - 1) |-> IF i < n THEN s[i] ELSE s[i + 1]]
      BY <1>2 DEF Without
    <2> HIDE DEF n, w
    <2>3. Len(s) \in Nat /\ DOMAIN s = 1..Len(s) /\ n \in 1..Len(s)
      BY <2>1
    <2>4. ASSUME NEW i \in DOMAIN s, i # n PROVE s[i] # t
      <3>1. addedAt[s[i]] \in Nat /\ addedAt[s[n]] \in Nat
        BY <2>1 DEF TypeOK, HistoryType
      <3>2. addedAt[s[i]] # addedAt[s[n]]
        BY <2>3, <2>4, <3>1 DEF InOrder
      <3> QED
        BY <2>1, <3>2
    <2>5. ASSUME NEW i \in DOMAIN w PROVE w[i] \in Elems(s) \ {t}
      <3>1. CASE i < n
        <4>1. i \in DOMAIN s /\ i # n /\ w[i] = s[i]
          BY <2>2, <2>3, <3>1
        <4> QED
          BY <2>4, <4>1 DEF Elems
      <3>2. CASE ~(i < n)
        <4>1. i + 1 \in DOMAIN s /\ i + 1 # n /\ w[i] = s[i + 1]
          BY <2>2, <2>3, <3>2
        <4> QED
          BY <2>4, <4>1 DEF Elems
      <3> QED
        BY <3>1, <3>2
    <2>6. ASSUME NEW k \in DOMAIN s, s[k] # t PROVE \E i \in DOMAIN w : w[i] = s[k]
      <3>1. k # n
        BY <2>1, <2>6
      <3>2. CASE k < n
        <4>1. k \in DOMAIN w /\ w[k] = s[k]
          BY <2>2, <2>3, <3>2
        <4> QED
          BY <4>1
      <3>3. CASE k > n
        <4>1. k - 1 \in DOMAIN w /\ w[k - 1] = s[k]
          BY <2>2, <2>3, <3>3
        <4> QED
          BY <4>1
      <3> QED
        BY <2>3, <3>1, <3>2, <3>3
    <2>7. Elems(w) = Elems(s) \ {t}
      BY <2>5, <2>6 DEF Elems
    <2> QED
      BY <2>7 DEF w
  <1> QED
    BY <1>1, <1>2

\* What a DelStore stores.
LEMMA StoredList ==
  ASSUME TypeInv, OrderInv, NEW g \in Goroutine, DelStore(g)
  PROVE  Elems(registry') = Elems(snap[g]) \ {Head(todo[g])}
  <1>1. todo[g] # <<>>
    BY DEF DelStore, TypeInv, LocalInv
  <1>2. Head(todo[g]) \in Tunnel
    BY <1>1, VictimMade
  <1>3. snap[g] \in Seq(Tunnel) /\ InOrder(snap[g])
    BY DEF OrderInv, TypeInv, TypeOK, LocalType
  <1>4. registry' = Without(snap[g], Head(todo[g]))
    BY DEF DelStore
  <1> QED
    BY <1>2, <1>3, <1>4, WithoutElems DEF TypeInv

\* Whatever DelProxy overwrites, it stores its snapshot without its victim.
THEOREM StoresTheFilter == Spec => StoresFilter
  <1>1. Spec => [](TypeInv /\ OrderInv)
    BY TypeInvInit, OrderInit, TypeInvNext, OrderNext, PTL DEF Spec
  <1>2. TypeInv /\ OrderInv =>
          \A g \in Goroutine :
            DelStore(g) => Elems(registry') = Elems(snap[g]) \ {Head(todo[g])}
    BY StoredList
  <1> QED
    BY <1>1, <1>2, PTL DEF StoresFilter

DelLabels == {"del", "readerr", "writeerr", "close", "store"}

\* A server goroutine passes its own tunnel to DelProxy, and only once.
OwnInv == \A s \in Server : pc[s] \in DelLabels => todo[s] \in {<<>>, <<tun[s]>>}

\* A step that leaves alone what a server goroutine has to delete.
LEMMA OwnFrame ==
  ASSUME OwnInv, NEW s \in Server,
         pc'[s] \in DelLabels => pc[s] \in DelLabels,
         UNCHANGED <<todo[s], tun[s]>>
  PROVE  pc'[s] \in DelLabels => todo'[s] \in {<<>>, <<tun'[s]>>}
  BY DEF OwnInv

\* No step makes a server goroutine delete another tunnel.
LEMMA OwnNext == TypeInv /\ OwnInv /\ [Next]_vars => OwnInv'
  <1> SUFFICES ASSUME TypeInv, OwnInv, [Next]_vars, NEW s \in Server
               PROVE  pc'[s] \in DelLabels => todo'[s] \in {<<>>, <<tun'[s]>>}
    BY DEF OwnInv
  <1>0. /\ pc \in [Goroutine -> Labels] /\ todo \in [Goroutine -> Seq(Tunnel)]
        /\ tun \in [Goroutine -> Tunnel \cup {None}]
        /\ s \in Goroutine /\ s \notin Request
    BY RegistryAssumption DEF TypeInv, TypeOK, LocalType, Goroutine
  <1>1. CASE UNCHANGED vars
    BY <1>1, OwnFrame DEF vars, localVars
  <1>2. ASSUME NEW g \in Goroutine, DelProxy(g)
        PROVE  pc'[s] \in DelLabels => todo'[s] \in {<<>>, <<tun'[s]>>}
    <2>0. pc[g] \in DelLabels
      BY <1>2 DEF DelProxy, DelSnapshot, DelReadErr, DelWriteErr, DelClosePort,
         DelStore, DelReturn, DelLabels
    <2>1. /\ tun' = tun
          /\ \A h \in Goroutine \ {g} : pc'[h] = pc[h]
      BY <1>0, <1>2 DEF DelProxy, DelSnapshot, DelReadErr, DelWriteErr, DelClosePort,
         DelStore, DelReturn, localVars, Goto
    <2>2. CASE ~DelStore(g)
      <3>1. todo' = todo
        BY <1>2, <2>2 DEF DelProxy, DelSnapshot, DelReadErr, DelWriteErr, DelClosePort,
           DelReturn, localVars
      <3> QED
        BY <1>0, <2>0, <2>1, <3>1, OwnFrame
    <2>3. CASE DelStore(g)
      <3>0. todo' = [todo EXCEPT ![g] = Tail(@)]
        BY <2>3 DEF DelStore
      <3>1. CASE g # s
        BY <1>0, <2>1, <3>0, <3>1, OwnFrame
      <3>2. CASE g = s
        <4>1. todo[s] = <<tun[s]>>
          BY <1>0, <2>0, <2>3, <3>2 DEF OwnInv, DelStore, TypeInv, LocalInv
        <4>2. todo'[s] = Tail(<<tun[s]>>)
          BY <1>0, <3>0, <3>2, <4>1
        <4> QED
          BY <4>2
      <3> QED
        BY <3>1, <3>2
    <2> QED
      BY <2>2, <2>3
  <1>3. ASSUME NEW r \in Request, Receive(r)
        PROVE  pc'[s] \in DelLabels => todo'[s] \in {<<>>, <<tun'[s]>>}
    <2>1. \E k, l, ids, w : Arrive(r, k, l, ids, w)
      BY <1>3 DEF Receive, ProxyGet, ProxyTyped, ProxyNew, ProxyDel, BadBody, ProxyErr,
                  ProxyErrRefused, CloseAll, UpdateAll
    <2>2. UNCHANGED <<pc[s], todo[s], tun[s]>>
      BY <1>0, <2>1 DEF Arrive, Goto
    <2> QED
      BY <2>2, OwnFrame
  <1>4. ASSUME NEW r \in Request, Handle(r), ~DelProxy(r)
        PROVE  pc'[s] \in DelLabels => todo'[s] \in {<<>>, <<tun'[s]>>}
    <2>1. CASE Start(r)
      <3>1. pc'[s] = "listen" \/ (pc'[s] = pc[s] /\ tun'[s] = tun[s])
        BY <1>0, <2>1 DEF Start
      <3>2. todo' = todo
        BY <2>1 DEF Start
      <3> QED
        BY <3>1, <3>2, OwnFrame DEF DelLabels
    <2>2. CASE ~Start(r)
      <3>1. CountArea(r) \/ RotateArea(r) \/ PickArea(r) \/ ScanTyped(r)
              \/ NewProxy(r) \/ AddProxy(r) \/ CheckOn(r) \/ ChooseType(r)
        BY <1>4, <2>2 DEF Handle
      <3>2. todo' = todo
        BY <3>1 DEF CountArea, RotateArea, PickArea, PanicInArea, ScanTyped, NewProxy,
           AddProxy, CheckOn, ChooseType, localVars
      <3>3. pc'[s] = pc[s]
        BY <1>0, <3>1 DEF CountArea, RotateArea, PickArea, PanicInArea, ScanTyped,
           NewProxy, AddProxy, CheckOn, ChooseType, Goto
      <3>4. tun'[s] = tun[s]
        BY <1>0, <3>1 DEF CountArea, RotateArea, PickArea, PanicInArea, ScanTyped,
           NewProxy, AddProxy, CheckOn, ChooseType, localVars
      <3> QED
        BY <3>2, <3>3, <3>4, OwnFrame
    <2> QED
      BY <2>1, <2>2
  <1>5. ASSUME NEW u \in Server, Listen(u) \/ AcceptFails(u) \/ ServerEnds(u)
        PROVE  pc'[s] \in DelLabels => todo'[s] \in {<<>>, <<tun'[s]>>}
    <2>1. u \in Goroutine
      BY DEF Goroutine
    <2>2. CASE u # s
      <3>1. UNCHANGED <<pc[s], todo[s], tun[s]>>
        BY <1>0, <1>5, <2>1, <2>2 DEF Listen, AcceptFails, ServerEnds, localVars, Goto
      <3> QED
        BY <3>1, OwnFrame
    <2>3. CASE u = s /\ ServerEnds(s)
      BY <1>0, <2>3 DEF ServerEnds
    <2>4. CASE u = s /\ (Listen(s) \/ AcceptFails(s))
      <3>1. pc'[s] \in {"ending", "serving"}
        BY <1>0, <2>4 DEF Listen, AcceptFails, Goto
      <3> QED
        BY <3>1 DEF DelLabels
    <2> QED
      BY <1>5, <2>2, <2>3, <2>4
  <1> QED
    BY <1>1, <1>2, <1>3, <1>4, <1>5 DEF Next, Serve, Goroutine

\* A server goroutine's last act on the list takes its own tunnel off it.
THEOREM EndTakesOffTheList == Spec => EndUnlists
  <1>1. Init => OwnInv
    BY DEF Init, OwnInv, DelLabels, Goroutine
  <1>2. Spec => [](TypeInv /\ OrderInv /\ OwnInv)
    BY TypeInvInit, OrderInit, <1>1, TypeInvNext, OrderNext, OwnNext, PTL DEF Spec
  <1>3. ASSUME TypeInv, OrderInv, OwnInv, [Next]_vars, NEW s \in Server,
               pc[s] = "store", pc'[s] # "store"
        PROVE  tun[s] \notin Elems(registry')
    <2>0. /\ pc \in [Goroutine -> Labels] /\ s \in Goroutine /\ s \notin Request
      BY <1>3, RegistryAssumption DEF TypeInv, TypeOK, LocalType, Goroutine
    <2>1. DelStore(s)
      <3>1. ~UNCHANGED vars
        BY <1>3 DEF vars
      <3>2. ASSUME NEW g \in Goroutine, DelProxy(g) PROVE DelStore(s)
        BY <1>3, <2>0, <3>2 DEF DelProxy, DelSnapshot, DelReadErr, DelWriteErr,
           DelClosePort, DelStore, DelReturn, Goto
      <3>3. ASSUME NEW r \in Request, Receive(r) PROVE FALSE
        <4>1. \E k, l, ids, w : Arrive(r, k, l, ids, w)
          BY <3>3 DEF Receive, ProxyGet, ProxyTyped, ProxyNew, ProxyDel, BadBody, ProxyErr,
                      ProxyErrRefused, CloseAll, UpdateAll
        <4> QED
          BY <1>3, <2>0, <4>1 DEF Arrive, Goto
      <3>4. ASSUME NEW r \in Request, Handle(r), ~DelProxy(r) PROVE FALSE
        BY <1>3, <2>0, <3>4 DEF Handle, CountArea, RotateArea, PickArea, PanicInArea,
           ScanTyped, NewProxy, AddProxy, CheckOn, Start, ChooseType, Goto
      <3>5. ASSUME NEW u \in Server, Listen(u) \/ AcceptFails(u) \/ ServerEnds(u)
            PROVE  FALSE
        BY <1>3, <2>0, <3>5 DEF Listen, AcceptFails, ServerEnds, Goto
      <3> QED
        BY <1>3, <3>1, <3>2, <3>3, <3>4, <3>5 DEF Next, Serve, Goroutine
    <2>2. todo[s] = <<tun[s]>>
      BY <1>3, <2>0 DEF OwnInv, DelLabels, TypeInv, LocalInv
    <2>3. Elems(registry') = Elems(snap[s]) \ {Head(todo[s])}
      BY <1>3, <2>0, <2>1, StoredList
    <2>4. Head(<<tun[s]>>) = tun[s]
      OBVIOUS
    <2> QED
      BY <2>2, <2>3, <2>4
  <1>4. TypeInv /\ OrderInv /\ OwnInv /\ [Next]_vars =>
          \A s \in Server :
            pc[s] = "store" /\ pc'[s] # "store" => tun[s] \notin Elems(registry')
    BY <1>3
  <1> QED
    BY <1>2, <1>4, PTL DEF EndUnlists, Spec

-----------------------------------------------------------------------------
(* Every request is served in a bounded number of steps: what is left to   *)
(* RequestsEnd is that each of them can be taken.                          *)

\* The steps a goroutine has before it at most, at label l with so many IDs
\* to delete and so many rounds of GetProxy's loop behind it.
StepsLeft(l, ids, rounds) ==
    CASE l = "listen"   -> 14
      [] l = "serving"  -> 13
      [] l = "ending"   -> 12
      [] l = "count"    -> 11
      [] l = "rotate"   -> 10
      [] l = "pick"     -> 9 - rounds
      [] l = "del"      -> 6 + 5 * ids
      [] l = "readerr"  -> 5 + 5 * ids
      [] l = "writeerr" -> 4 + 5 * ids
      [] l = "close"    -> 3 + 5 * ids
      [] l = "store"    -> 2 + 5 * ids
      [] l = "choose"   -> 5
      [] l = "scan"     -> 5
      [] l = "create"   -> 4
      [] l = "add"      -> 3
      [] l = "check"    -> 2
      [] l = "start"    -> 1
      [] OTHER          -> 0

Left(g) == StepsLeft(pc[g], Len(todo[g]), tries[g])

\* Whatever the others do to the list meanwhile, each step of a goroutine
\* brings it nearer to its end, and no step of another takes it away: no
\* loop over the list or over IDs goes on for ever.
StepsAreBounded ==
    [][/\ \A r \in Request : Handle(r) => Left(r)' < Left(r)
       /\ \A s \in Server : Serve(s) \/ AcceptFails(s) => Left(s)' < Left(s)
       /\ \A g \in Goroutine : pc[g] # "idle" => Left(g)' <= Left(g)]_vars

\* A goroutine always has a number of steps before it.
LEMMA LeftType ==
  ASSUME TypeInv, NEW g \in Goroutine
  PROVE  Left(g) \in Nat /\ Len(todo[g]) \in Nat /\ tries[g] \in 0..3
  <1>1. todo[g] \in Seq(Tunnel) /\ tries[g] \in 0..3
    BY DEF TypeInv, TypeOK, LocalType
  <1>2. Len(todo[g]) \in Nat
    BY <1>1
  <1> QED
    BY <1>1, <1>2 DEF Left, StepsLeft

Countable == \A g \in Goroutine : Left(g) \in Nat

\* A goroutine at rest has as many steps before it as before.
LEMMA LeftFrame ==
  ASSUME NEW g \in Goroutine, UNCHANGED <<pc[g], todo[g], tries[g]>>
  PROVE  Left(g)' = Left(g)
  BY DEF Left

\* Each step of DelProxy counts.
LEMMA DelProxyAdvances ==
  ASSUME TypeInv, NEW g \in Goroutine, DelProxy(g)
  PROVE  /\ Left(g)' < Left(g)
         /\ \A h \in Goroutine \ {g} : UNCHANGED <<pc[h], todo[h], tries[h]>>
  <1>0. /\ pc \in [Goroutine -> Labels] /\ todo \in [Goroutine -> Seq(Tunnel)]
        /\ Len(todo[g]) \in Nat
    BY LeftType DEF TypeInv, TypeOK, LocalType
  <1>1. tries' = tries
    BY DEF DelProxy, DelSnapshot, DelReadErr, DelWriteErr, DelClosePort, DelStore,
       DelReturn, localVars
  <1>2. CASE DelStore(g)
    <2>1. todo[g] # <<>>
      BY <1>2 DEF DelStore, TypeInv, LocalInv
    <2>2. /\ pc[g] = "store" /\ pc' = [pc EXCEPT ![g] = "del"]
          /\ todo' = [todo EXCEPT ![g] = Tail(@)]
      BY <1>2 DEF DelStore, Goto
    <2>3. pc'[g] = "del" /\ todo'[g] = Tail(todo[g])
      BY <1>0, <2>2
    <2>4. Len(todo'[g]) = Len(todo[g]) - 1
      BY <1>0, <2>1, <2>3
    <2>5. Left(g)' = 6 + 5 * (Len(todo[g]) - 1)
      BY <2>3, <2>4 DEF Left, StepsLeft
    <2>6. Left(g) = 2 + 5 * Len(todo[g])
      BY <2>2 DEF Left, StepsLeft
    <2>7. \A h \in Goroutine \ {g} : UNCHANGED <<pc[h], todo[h], tries[h]>>
      BY <1>0, <1>1, <2>2
    <2> QED
      BY <1>0, <2>5, <2>6, <2>7
  <1>3. CASE ~DelStore(g)
    <2>1. todo' = todo
      BY <1>3 DEF DelProxy, DelSnapshot, DelReadErr, DelWriteErr, DelClosePort,
         DelReturn, localVars
    <2>2. /\ \/ pc[g] = "del" /\ pc'[g] \in {"readerr", "store", "choose", "done"}
             \/ pc[g] = "readerr" /\ pc'[g] = "writeerr"
             \/ pc[g] = "writeerr" /\ pc'[g] = "close"
             \/ pc[g] = "close" /\ pc'[g] = "store"
          /\ \A h \in Goroutine \ {g} : pc'[h] = pc[h]
      BY <1>0, <1>3 DEF DelProxy, DelSnapshot, DelReadErr, DelWriteErr, DelClosePort,
         DelReturn, Goto
    <2>3. Left(g)' < Left(g)
      BY <1>0, <2>1, <2>2 DEF Left, StepsLeft
    <2> QED
      BY <1>1, <2>1, <2>2, <2>3
  <1> QED
    BY <1>2, <1>3

\* Each step of a handler counts; Start begins one goroutine, which was idle.
LEMMA HandleAdvances ==
  ASSUME TypeInv, NEW r \in Request, Handle(r)
  PROVE  /\ Left(r)' < Left(r)
         /\ \A h \in Goroutine \ {r} :
              pc[h] # "idle" => UNCHANGED <<pc[h], todo[h], tries[h]>>
  <1>0. /\ pc \in [Goroutine -> Labels] /\ r \in Goroutine
        /\ tries \in [Goroutine -> 0..3] /\ tries[r] \in 0..3
    BY LeftType DEF TypeInv, TypeOK, LocalType, Goroutine
  <1>1. CASE DelProxy(r)
    BY <1>0, <1>1, DelProxyAdvances
  <1>2. CASE PickArea(r)
    <2>1. /\ todo' = todo /\ pc[r] = "pick"
          /\ \/ pc' = pc /\ tries[r] < 3 /\ tries' = [tries EXCEPT ![r] = @ + 1]
             \/ pc' = [pc EXCEPT ![r] = "check"] /\ tries' = [tries EXCEPT ![r] = 0]
             \/ pc' = [pc EXCEPT ![r] = "panicked"] /\ tries' = tries
      BY <1>2 DEF PickArea, PanicInArea, localVars, Goto
    <2>2. CASE pc' = pc /\ tries[r] < 3 /\ tries' = [tries EXCEPT ![r] = @ + 1]
      <3>1. pc'[r] = "pick" /\ tries'[r] = tries[r] + 1
        BY <1>0, <2>1, <2>2
      <3>2. Left(r)' = 9 - (tries[r] + 1) /\ Left(r) = 9 - tries[r]
        BY <2>1, <3>1 DEF Left, StepsLeft
      <3> QED
        BY <1>0, <2>1, <2>2, <3>2
    <2>3. CASE pc'[r] \in {"check", "panicked"}
      <3>1. Left(r)' \in {0, 2} /\ Left(r) = 9 - tries[r]
        BY <2>1, <2>3 DEF Left, StepsLeft
      <3>2. Left(r)' < Left(r)
        BY <1>0, <3>1
      <3>3. pc' # pc
        BY <1>0, <2>1, <2>3
      <3>4. \A h \in Goroutine \ {r} : UNCHANGED <<pc[h], todo[h], tries[h]>>
        BY <1>0, <2>1, <3>3
      <3> QED
        BY <3>2, <3>4
    <2>4. pc' = [pc EXCEPT ![r] = "check"] \/ pc' = [pc EXCEPT ![r] = "panicked"]
            => pc'[r] \in {"check", "panicked"}
      BY <1>0
    <2> QED
      BY <2>1, <2>2, <2>3, <2>4
  <1>3. CASE RotateArea(r)
    <2>1. /\ todo' = todo /\ pc[r] = "rotate"
          /\ \/ /\ pc' = [pc EXCEPT ![r] = "pick"]
                /\ tries' = [tries EXCEPT ![r] = 0]
             \/ pc' = [pc EXCEPT ![r] = "panicked"] /\ tries' = tries
      BY <1>3 DEF RotateArea, PanicInArea, localVars, Goto
    <2>2. /\ (pc'[r] = "pick" /\ tries'[r] = 0) \/ pc'[r] = "panicked"
          /\ \A h \in Goroutine \ {r} : UNCHANGED <<pc[h], todo[h], tries[h]>>
      BY <1>0, <2>1
    <2>3. Left(r)' \in {0, 9} /\ Left(r) = 10
      BY <2>1, <2>2 DEF Left, StepsLeft
    <2>4. Left(r)' < Left(r)
      BY <2>3
    <2> QED
      BY <2>2, <2>4
  <1>4. CASE Start(r)
    <2>1. /\ todo' = todo /\ tries' = tries /\ pc[r] = "start"
          /\ \E s \in Server : pc[s] = "idle"
                              /\ pc' = [pc EXCEPT ![r] = "done", ![s] = "listen"]
      BY <1>4 DEF Start
    <2>2. PICK s \in Server : pc[s] = "idle"
                              /\ pc' = [pc EXCEPT ![r] = "done", ![s] = "listen"]
      BY <2>1
    <2>3. r # s
      BY RegistryAssumption
    <2>4. /\ pc'[r] = "done"
          /\ \A h \in Goroutine \ {r} : pc[h] # "idle" => pc'[h] = pc[h]
      BY <1>0, <2>2, <2>3
    <2>5. Left(r)' = 0 /\ Left(r) = 1
      BY <2>1, <2>4 DEF Left, StepsLeft
    <2>6. Left(r)' < Left(r)
      BY <2>5
    <2>7. \A h \in Goroutine \ {r} :
            pc[h] # "idle" => UNCHANGED <<pc[h], todo[h], tries[h]>>
      BY <2>1, <2>4
    <2> QED
      BY <2>6, <2>7
  <1>5. CASE CountArea(r) \/ ScanTyped(r) \/ NewProxy(r) \/ AddProxy(r)
               \/ CheckOn(r) \/ ChooseType(r)
    <2>1. todo' = todo /\ tries' = tries
      BY <1>5 DEF CountArea, ScanTyped, NewProxy, AddProxy, CheckOn, ChooseType,
         localVars
    <2>2. /\ \/ pc[r] = "count" /\ pc'[r] \in {"create", "rotate"}
             \/ pc[r] = "scan" /\ pc'[r] \in {"create", "check"}
             \/ pc[r] = "create" /\ pc'[r] \in {"done", "add"}
             \/ pc[r] = "add" /\ pc'[r] \in {"start", "check"}
             \/ pc[r] = "check" /\ pc'[r] \in {"start", "done"}
             \/ pc[r] = "choose" /\ pc'[r] = "create"
          /\ \A h \in Goroutine \ {r} : pc'[h] = pc[h]
      BY <1>0, <1>5 DEF CountArea, ScanTyped, NewProxy, AddProxy, CheckOn, ChooseType,
         Goto
    <2>3. Left(r)' < Left(r)
      BY <2>2 DEF Left, StepsLeft
    <2> QED
      BY <2>1, <2>2, <2>3
  <1> QED
    BY <1>1, <1>2, <1>3, <1>4, <1>5 DEF Handle

\* Each step of a server goroutine counts.
LEMMA ServeAdvances ==
  ASSUME TypeInv, NEW s \in Server, Serve(s) \/ AcceptFails(s)
  PROVE  /\ Left(s)' < Left(s)
         /\ \A h \in Goroutine \ {s} : UNCHANGED <<pc[h], todo[h], tries[h]>>
  <1>0. /\ pc \in [Goroutine -> Labels] /\ todo \in [Goroutine -> Seq(Tunnel)]
        /\ s \in Goroutine
    BY DEF TypeInv, TypeOK, LocalType, Goroutine
  <1>1. CASE DelProxy(s)
    BY <1>0, <1>1, DelProxyAdvances
  <1>2. CASE Listen(s) \/ AcceptFails(s)
    <2>1. /\ todo' = todo /\ tries' = tries
          /\ \/ pc[s] = "listen" /\ pc'[s] \in {"ending", "serving"}
             \/ pc[s] = "serving" /\ pc'[s] = "ending"
          /\ \A h \in Goroutine \ {s} : pc'[h] = pc[h]
      BY <1>0, <1>2 DEF Listen, AcceptFails, Goto, localVars
    <2>2. Left(s)' < Left(s)
      BY <2>1 DEF Left, StepsLeft
    <2> QED
      BY <2>1, <2>2
  <1>3. CASE ServerEnds(s)
    <2>1. /\ pc[s] = "ending" /\ pc' = [pc EXCEPT ![s] = "del"] /\ tries' = tries
          /\ todo' = [todo EXCEPT ![s] = <<tun[s]>>]
      BY <1>3 DEF ServerEnds, Goto
    <2>2. pc'[s] = "del" /\ todo'[s] = <<tun[s]>>
      BY <1>0, <2>1
    <2>3. Len(todo'[s]) = 1
      <3>1. Len(<<tun[s]>>) = 1
        OBVIOUS
      <3> QED
        BY <2>2, <3>1, Zenon
    <2>4. StepsLeft("del", 1, tries[s]) = 11 /\ Left(s) = 12
      BY <2>1 DEF Left, StepsLeft
    <2>5. Left(s)' < Left(s)
      <3>1. Left(s)' = StepsLeft("del", 1, tries[s])
        BY <2>1, <2>2, <2>3, Zenon DEF Left
      <3> QED
        BY <2>4, <3>1
    <2>6. \A h \in Goroutine \ {s} : pc'[h] = pc[h]
      BY <1>0, <2>1
    <2>7. \A h \in Goroutine \ {s} : todo'[h] = todo[h]
      BY <1>0, <2>1
    <2> QED
      BY <2>1, <2>5, <2>6, <2>7
  <1> QED
    BY <1>1, <1>2, <1>3 DEF Serve

\* A handler ends after 11 steps, or 6 and 5 for each ID it deletes, and a
\* server goroutine after 14, whatever the other goroutines do: no reader of
\* the list is kept going by those who change it.
THEOREM EveryStepCounts == Spec => StepsAreBounded
  <1>1. Spec => []TypeInv
    BY TypeInvInit, TypeInvNext, PTL DEF Spec
  <1>2. TypeInv => Countable
    BY LeftType DEF Countable
  <1>3. TypeInv' => Countable'
    BY <1>2, PTL
  <1>4. ASSUME TypeInv, [Next]_vars, NEW g \in Goroutine, pc[g] # "idle"
        PROVE  Left(g)' <= Left(g)
    <2>0. Left(g) \in Nat /\ Left(g)' \in Nat
      BY <1>2, <1>3, <1>4, TypeInvNext DEF Countable
    <2>. SUFFICES Left(g)' < Left(g) \/ UNCHANGED <<pc[g], todo[g], tries[g]>>
      BY <2>0, LeftFrame
    <2>1. CASE UNCHANGED vars
      BY <2>1 DEF vars, localVars
    <2>2. ASSUME NEW r \in Request, Receive(r)
          PROVE  UNCHANGED <<pc[g], todo[g], tries[g]>>
      <3>1. \E k, l, ids, w : Arrive(r, k, l, ids, w)
        BY <2>2 DEF Receive, ProxyGet, ProxyTyped, ProxyNew, ProxyDel, BadBody, ProxyErr,
                    ProxyErrRefused, CloseAll, UpdateAll
      <3> QED
        BY <1>4, <3>1 DEF Arrive, Goto, TypeInv, TypeOK, LocalType
    <2>3. ASSUME NEW r \in Request, Handle(r)
          PROVE  Left(g)' < Left(g) \/ UNCHANGED <<pc[g], todo[g], tries[g]>>
      BY <1>4, <2>3, HandleAdvances
    <2>4. ASSUME NEW s \in Server, Serve(s) \/ AcceptFails(s)
          PROVE  Left(g)' < Left(g) \/ UNCHANGED <<pc[g], todo[g], tries[g]>>
      BY <1>4, <2>4, ServeAdvances
    <2> QED
      BY <1>4, <2>1, <2>2, <2>3, <2>4 DEF Next
  <1>5. TypeInv /\ [Next]_vars =>
          /\ \A r \in Request : Handle(r) => Left(r)' < Left(r)
          /\ \A s \in Server : Serve(s) \/ AcceptFails(s) => Left(s)' < Left(s)
          /\ \A g \in Goroutine : pc[g] # "idle" => Left(g)' <= Left(g)
    BY <1>4, HandleAdvances, ServeAdvances
  <1> QED
    BY <1>1, <1>5, PTL DEF StepsAreBounded, Spec
===============================================================================
