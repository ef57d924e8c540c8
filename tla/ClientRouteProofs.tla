--------------------------- MODULE ClientRouteProofs ---------------------------
(* Proofs about ClientRoute, for any sets of requests and goroutines.      *)
EXTENDS ClientRoute, TLAPS

Labels == Underway \cup Serving \cup {"idle", "leave", "done"}

\* Past the wait for closed: until it serves or breaks, a change owns the flags.
Past == {"clear", "init", "reset"} \cup Starting

\* The goroutine that holds the port is the one that serves or is about to.
Owned ==
    \A g \in Goroutine :
      pc[g] \in Serving \cup {"lower", "unclose", "run"} => owner = g

LEMMA ConstantFacts ==
    /\ Starter \in Goroutine /\ None \notin Goroutine
    /\ \A n \in Nexts : n \in Goroutine
    /\ \A n \in Requests : n \in Goroutine
  BY KindsDisjoint DEF Goroutine

\* Where a goroutine goes when its Socks5Listen returns.
LEMMA ReturnFacts ==
  ASSUME TypeOK, NEW g \in Goroutine, Break(g) \/ Leave(g)
  PROVE  /\ \/ /\ pc' = [pc EXCEPT ![g] = "retry"]
               /\ crowded' \/ \A h \in Goroutine \ {g} : ~Pending(h)
            \/ pc' = [pc EXCEPT ![g] = "done"]
         /\ crowded' \in BOOLEAN /\ (crowded => crowded')
         /\ closeFlag' = closeFlag /\ Addr' = Addr /\ UNCHANGED <<port, config>>
         /\ want' = want /\ gaveUp' = gaveUp
         /\ Break(g) => pc[g] = "break" /\ isBreak' = TRUE /\ closed' = closed
         /\ Leave(g) => pc[g] = "leave" /\ isBreak' = isBreak /\ closed' = TRUE
         /\ isRunning' = isRunning
         /\ pc'[g] \in {"retry", "done"} /\ \A h \in Goroutine \ {g} : pc'[h] = pc[h]
  <1>1. PICK b \in BOOLEAN : Return(g, b)
    BY Zenon DEF Break, Leave
  <1>2. (Goto(g, "retry") /\ Crowds(g)) \/ (Goto(g, "done") /\ UNCHANGED crowded)
    BY <1>1, Zenon DEF Return
  <1>3. crowded' \in BOOLEAN /\ (crowded => crowded')
    BY <1>2, Zenon DEF Crowds, TypeOK
  <1>4. \/ /\ pc' = [pc EXCEPT ![g] = "retry"]
           /\ crowded' \/ \A h \in Goroutine \ {g} : ~Pending(h)
        \/ pc' = [pc EXCEPT ![g] = "done"]
    BY <1>2, Zenon DEF Goto, Crowds
  <1>5. /\ closeFlag' = closeFlag /\ Addr' = Addr /\ UNCHANGED <<port, config>>
        /\ want' = want /\ gaveUp' = gaveUp
        /\ Break(g) => pc[g] = "break" /\ isBreak' = TRUE
        /\ Leave(g) => pc[g] = "leave" /\ isBreak' = isBreak /\ closed' = TRUE
    BY DEF Break, Leave
  <1>6. (Break(g) => closed' = closed) /\ isRunning' = isRunning
    BY DEF Break, Leave
  <1>7. pc'[g] \in {"retry", "done"} /\ \A h \in Goroutine \ {g} : pc'[h] = pc[h]
    BY <1>4 DEF TypeOK
  <1> QED
    BY <1>3, <1>4, <1>5, <1>6, <1>7, Zenon

LEMMA TypeInit == Init => TypeOK /\ Owned
  BY ConstantFacts DEF Init, TypeOK, Owned, Underway, Changing, Starting, Serving

\* The places of a goroutine that has the port.
Holding == Serving \cup {"lower", "unclose", "run"}

\* One goroutine moves and no listener changes hands.
LEMMA MoveTyped ==
  ASSUME TypeOK, Owned, NEW g \in Goroutine, NEW l \in Labels, Goto(g, l),
         owner' = owner, l \in Holding => pc[g] \in Holding
  PROVE  pc' \in [Goroutine -> Labels] /\ Owned'
  <1>1. pc \in [Goroutine -> Labels] /\ pc' = [pc EXCEPT ![g] = l]
    BY DEF TypeOK, Labels, Goto
  <1>2. pc' \in [Goroutine -> Labels]
    BY <1>1
  <1>3. ASSUME NEW h \in Goroutine, pc'[h] \in Holding PROVE owner' = h
    BY <1>1, <1>3 DEF Owned, Holding
  <1> QED
    BY <1>2, <1>3 DEF Owned, Holding

\* A Socks5Listen returns: its goroutine no longer has the port.
LEMMA ReturnTyped ==
  ASSUME TypeOK, Owned, NEW g \in Goroutine, Break(g) \/ Leave(g)
  PROVE  TypeOK' /\ Owned'
  <1>1. PICK l \in {"retry", "done"} : Goto(g, l)
    <2>1. pc' = [pc EXCEPT ![g] = "retry"] \/ pc' = [pc EXCEPT ![g] = "done"]
      BY ReturnFacts, Zenon
    <2> QED
      BY <2>1, Zenon DEF Goto
  <1>2. l \in Labels /\ l \notin Holding
    BY DEF Labels, Underway, Holding, Serving
  <1>3. owner' = owner /\ backlog' = backlog /\ wakers' = wakers
        /\ canNext' = canNext /\ retried' = retried /\ first' = first
    BY DEF Break, Leave, port, config
  <1>4. pc' \in [Goroutine -> Labels] /\ Owned'
    BY <1>1, <1>2, <1>3, MoveTyped
  <1>5. /\ closeFlag' = closeFlag /\ Addr' = Addr /\ want' = want /\ gaveUp' = gaveUp
        /\ isRunning' = isRunning /\ crowded' \in BOOLEAN
        /\ closed' \in {closed, TRUE} /\ isBreak' \in {isBreak, TRUE}
    BY ReturnFacts, Zenon
  <1>6. /\ closed' \in BOOLEAN /\ closeFlag' \in BOOLEAN
        /\ isRunning' \in BOOLEAN /\ isBreak' \in BOOLEAN
    BY <1>5, Zenon DEF TypeOK
  <1>7. /\ Addr' \in Goroutine \cup {None} /\ want' \in Goroutine \cup {None}
        /\ crowded' \in BOOLEAN /\ gaveUp' \in BOOLEAN
    BY <1>5, Zenon DEF TypeOK
  <1>8. /\ canNext' \in BOOLEAN /\ retried' \in BOOLEAN
        /\ first' \in {"login", "host", "next"}
        /\ owner' \in Goroutine \cup {None}
        /\ backlog' \in BOOLEAN /\ (backlog' => owner' # None)
        /\ wakers' \subseteq Goroutine
    BY <1>3, Zenon DEF TypeOK
  <1> QED
    BY <1>4, <1>6, <1>7, <1>8, Zenon DEF TypeOK, Labels

LEMMA TypeStep == TypeOK /\ Owned /\ [Next]_vars => TypeOK' /\ Owned'
  <1> SUFFICES ASSUME TypeOK, Owned, [Next]_vars PROVE TypeOK' /\ Owned'
    OBVIOUS
  <1> USE ConstantFacts
  <1> USE DEF flags, port, config, history
  <1>1. ASSUME NEW g \in Goroutine, Admit(g) PROVE TypeOK' /\ Owned'
    <2>1. Goto(g, "close") /\ "close" \in Labels /\ owner' = owner
      BY <1>1 DEF Admit, Crowds, Labels, Underway, Changing, Starting, Serving
    <2>2. "close" \in Holding => pc[g] \in Holding
      BY <1>1 DEF Admit, Holding, Serving
    <2>3. pc' \in [Goroutine -> Labels] /\ Owned'
      BY <2>1, <2>2, MoveTyped
    <2> QED
      BY <1>1, <2>3 DEF Admit, Crowds, TypeOK, Labels
  <1>2. ASSUME NEW g \in Goroutine, Close(g) PROVE TypeOK' /\ Owned'
    <2>1. Goto(g, "change") /\ "change" \in Labels /\ owner' = owner
      BY <1>2 DEF Close, TryClose, Labels, Underway, Changing, Starting, Serving
    <2>2. "change" \in Holding => pc[g] \in Holding
      BY <1>2 DEF Close, Holding, Serving
    <2>3. pc' \in [Goroutine -> Labels] /\ Owned'
      BY <2>1, <2>2, MoveTyped
    <2> QED
      BY <1>2, <2>3 DEF Close, TryClose, TypeOK, Labels
  <1>3. ASSUME NEW g \in Goroutine, Retry(g) PROVE TypeOK' /\ Owned'
    <2>1. Goto(g, "change") /\ "change" \in Labels /\ owner' = owner
      BY <1>3 DEF Retry, TryClose, Labels, Underway, Changing, Starting, Serving
    <2>2. "change" \in Holding => pc[g] \in Holding
      BY <1>3 DEF Retry, Holding, Serving
    <2>3. pc' \in [Goroutine -> Labels] /\ Owned'
      BY <2>1, <2>2, MoveTyped
    <2> QED
      BY <1>3, <2>3 DEF Retry, TryClose, TypeOK, Labels
  <1>4. ASSUME NEW g \in Goroutine, Dial(g) PROVE TypeOK' /\ Owned'
    BY <1>4 DEF Dial, TypeOK, Owned
  <1>5. ASSUME NEW g \in Goroutine, Announce(g) PROVE TypeOK' /\ Owned'
    <2>1. Goto(g, "wait") /\ "wait" \in Labels /\ owner' = owner
      BY <1>5 DEF Announce, Labels, Underway, Changing, Starting, Serving
    <2>2. "wait" \in Holding => pc[g] \in Holding
      BY <1>5 DEF Announce, Holding, Serving
    <2>3. pc' \in [Goroutine -> Labels] /\ Owned'
      BY <2>1, <2>2, MoveTyped
    <2> QED
      BY <1>5, <2>3 DEF Announce, TypeOK, Labels
  <1>6. ASSUME NEW g \in Goroutine, WaitClosed(g) PROVE TypeOK' /\ Owned'
    <2>1. Goto(g, "clear") /\ "clear" \in Labels /\ owner' = owner
      BY <1>6 DEF WaitClosed, Labels, Underway, Changing, Starting, Serving
    <2>2. "clear" \in Holding => pc[g] \in Holding
      BY <1>6 DEF WaitClosed, Holding, Serving
    <2>3. pc' \in [Goroutine -> Labels] /\ Owned'
      BY <2>1, <2>2, MoveTyped
    <2> QED
      BY <1>6, <2>3 DEF WaitClosed, TypeOK, Labels
  <1>7. ASSUME NEW g \in Goroutine, SetAddr(g) PROVE TypeOK' /\ Owned'
    <2>1. Goto(g, "init") /\ "init" \in Labels /\ owner' = owner
      BY <1>7 DEF SetAddr, Labels, Underway, Changing, Starting, Serving
    <2>2. "init" \in Holding => pc[g] \in Holding
      BY <1>7 DEF SetAddr, Holding, Serving
    <2>3. pc' \in [Goroutine -> Labels] /\ Owned'
      BY <2>1, <2>2, MoveTyped
    <2> QED
      BY <1>7, <2>3 DEF SetAddr, TypeOK, Labels
  <1>8. ASSUME NEW g \in Goroutine, InitRunning(g) PROVE TypeOK' /\ Owned'
    <2>1. Goto(g, "reset") /\ "reset" \in Labels /\ owner' = owner
      BY <1>8 DEF InitRunning, Labels, Underway, Changing, Starting, Serving
    <2>2. "reset" \in Holding => pc[g] \in Holding
      BY <1>8 DEF InitRunning, Holding, Serving
    <2>3. pc' \in [Goroutine -> Labels] /\ Owned'
      BY <2>1, <2>2, MoveTyped
    <2>4. isRunning' \in BOOLEAN
      BY <1>8, Zenon DEF InitRunning
    <2> QED
      BY <1>8, <2>3, <2>4 DEF InitRunning, TypeOK, Labels
  <1>9. ASSUME NEW g \in Goroutine, InitBreak(g) PROVE TypeOK' /\ Owned'
    <2>1. Goto(g, "open") /\ "open" \in Labels /\ owner' = owner
      BY <1>9 DEF InitBreak, Labels, Underway, Changing, Starting, Serving
    <2>2. "open" \in Holding => pc[g] \in Holding
      BY <1>9 DEF InitBreak, Holding, Serving
    <2>3. pc' \in [Goroutine -> Labels] /\ Owned'
      BY <2>1, <2>2, MoveTyped
    <2>4. isBreak' \in BOOLEAN
      BY <1>9, Zenon DEF InitBreak
    <2> QED
      BY <1>9, <2>3, <2>4 DEF InitBreak, TypeOK, Labels
  <1>10. ASSUME NEW g \in Goroutine, Open(g) PROVE TypeOK' /\ Owned'
    <2>1. Goto(g, "build") /\ "build" \in Labels /\ owner' = owner
      BY <1>10 DEF Open, Labels, Underway, Changing, Starting, Serving
    <2>2. "build" \in Holding => pc[g] \in Holding
      BY <1>10 DEF Open, Holding, Serving
    <2>3. pc' \in [Goroutine -> Labels] /\ Owned'
      BY <2>1, <2>2, MoveTyped
    <2> QED
      BY <1>10, <2>3 DEF Open, TypeOK, Labels
  <1>11. ASSUME NEW g \in Goroutine, Built(g) PROVE TypeOK' /\ Owned'
    <2>1. Goto(g, "bind") /\ "bind" \in Labels /\ owner' = owner
      BY <1>11 DEF Built, Labels, Underway, Changing, Starting, Serving
    <2>2. "bind" \in Holding => pc[g] \in Holding
      BY <1>11 DEF Built, Holding, Serving
    <2>3. pc' \in [Goroutine -> Labels] /\ Owned'
      BY <2>1, <2>2, MoveTyped
    <2> QED
      BY <1>11, <2>3 DEF Built, TypeOK, Labels
  <1>12. ASSUME NEW g \in Goroutine, BuildFails(g) PROVE TypeOK' /\ Owned'
    <2>1. Goto(g, "break") /\ "break" \in Labels /\ owner' = owner
      BY <1>12 DEF BuildFails, Labels, Underway, Changing, Starting, Serving
    <2>2. "break" \in Holding => pc[g] \in Holding
      BY <1>12 DEF BuildFails, Holding, Serving
    <2>3. pc' \in [Goroutine -> Labels] /\ Owned'
      BY <2>1, <2>2, MoveTyped
    <2>4. isRunning' \in BOOLEAN
      BY <1>12, Zenon DEF BuildFails
    <2> QED
      BY <1>12, <2>3, <2>4 DEF BuildFails, TypeOK, Labels
  <1>13. ASSUME NEW g \in Goroutine, Break(g) PROVE TypeOK' /\ Owned'
    BY <1>13, ReturnTyped, Zenon
  <1>14. ASSUME NEW g \in Goroutine, Bind(g) PROVE TypeOK' /\ Owned'
    <2>1. pc' = [pc EXCEPT ![g] = "lower"] /\ owner = None /\ owner' = g
      BY <1>14 DEF Bind, Goto
    <2>2. pc' \in [Goroutine -> Labels]
      <3>1. pc \in [Goroutine -> Labels] /\ "lower" \in Labels
        BY DEF TypeOK, Labels, Underway, Starting
      <3> QED
        BY <2>1, <3>1
    <2>3. ASSUME NEW h \in Goroutine, pc'[h] \in Holding PROVE owner' = h
      BY <2>1, <2>3 DEF TypeOK, Owned, Holding
    <2>4. Owned'
      BY <2>3 DEF Owned, Holding
    <2> QED
      BY <1>14, <2>1, <2>2, <2>4 DEF Bind, TypeOK, Labels
  <1>15. ASSUME NEW g \in Goroutine, LowerFlag(g) PROVE TypeOK' /\ Owned'
    <2>1. Goto(g, "unclose") /\ "unclose" \in Labels /\ owner' = owner
      BY <1>15 DEF LowerFlag, Labels, Underway, Changing, Starting, Serving
    <2>2. "unclose" \in Holding => pc[g] \in Holding
      BY <1>15 DEF LowerFlag, Holding, Serving
    <2>3. pc' \in [Goroutine -> Labels] /\ Owned'
      BY <2>1, <2>2, MoveTyped
    <2>4. closeFlag' \in BOOLEAN
      BY <1>15, Zenon DEF LowerFlag
    <2> QED
      BY <1>15, <2>3, <2>4 DEF LowerFlag, TypeOK, Labels
  <1>16. ASSUME NEW g \in Goroutine, LowerClosed(g) PROVE TypeOK' /\ Owned'
    <2>1. Goto(g, "run") /\ "run" \in Labels /\ owner' = owner
      BY <1>16 DEF LowerClosed, Labels, Underway, Changing, Starting, Serving
    <2>2. "run" \in Holding => pc[g] \in Holding
      BY <1>16 DEF LowerClosed, Holding, Serving
    <2>3. pc' \in [Goroutine -> Labels] /\ Owned'
      BY <2>1, <2>2, MoveTyped
    <2>4. closed' \in BOOLEAN
      BY <1>16, Zenon DEF LowerClosed
    <2> QED
      BY <1>16, <2>3, <2>4 DEF LowerClosed, TypeOK, Labels
  <1>17. ASSUME NEW g \in Goroutine, Run(g) PROVE TypeOK' /\ Owned'
    <2>1. Goto(g, "loop") /\ "loop" \in Labels /\ owner' = owner
      BY <1>17 DEF Run, Labels, Underway, Changing, Starting, Serving
    <2>2. "loop" \in Holding => pc[g] \in Holding
      BY <1>17 DEF Run, Holding, Serving
    <2>3. pc' \in [Goroutine -> Labels] /\ Owned'
      BY <2>1, <2>2, MoveTyped
    <2> QED
      BY <1>17, <2>3 DEF Run, TypeOK, Labels
  <1>18. ASSUME NEW g \in Goroutine, FewErrors(g) PROVE TypeOK' /\ Owned'
    <2>1. Goto(g, "check") /\ "check" \in Labels /\ owner' = owner
      BY <1>18 DEF FewErrors, Labels, Underway, Changing, Starting, Serving
    <2>2. "check" \in Holding => pc[g] \in Holding
      BY <1>18 DEF FewErrors, Holding, Serving
    <2>3. pc' \in [Goroutine -> Labels] /\ Owned'
      BY <2>1, <2>2, MoveTyped
    <2> QED
      BY <1>18, <2>3 DEF FewErrors, TypeOK, Labels
  <1>19. ASSUME NEW g \in Goroutine, ManyErrors(g) PROVE TypeOK' /\ Owned'
    <2>1. PICK n \in Nexts : /\ pc[n] = "idle" /\ want' = n /\ Crowds(n)
                            /\ pc' = [pc EXCEPT ![g] = "leave", ![n] = "change"]
      BY <1>19 DEF ManyErrors
    <2>2. owner' = owner
      BY <1>19 DEF ManyErrors
    <2>3. pc' \in [Goroutine -> Labels]
      BY <2>1 DEF TypeOK, Labels, Underway, Changing
    <2>4. ASSUME NEW h \in Goroutine, pc'[h] \in Holding PROVE owner' = h
      <3>1. pc'[h] = pc[h]
        BY <2>1, <2>4 DEF TypeOK, Holding, Serving
      <3> QED
        BY <2>2, <2>4, <3>1 DEF Owned, Holding
    <2>5. Owned'
      BY <2>4 DEF Owned, Holding
    <2>6. crowded' \in BOOLEAN /\ want' \in Goroutine
      BY <2>1 DEF Crowds, TypeOK
    <2> QED
      BY <1>19, <2>3, <2>5, <2>6 DEF ManyErrors, TypeOK, Labels
  <1>20. ASSUME NEW g \in Goroutine, GiveUp(g) PROVE TypeOK' /\ Owned'
    <2>1. Goto(g, "leave") /\ "leave" \in Labels /\ owner' = owner
      BY <1>20 DEF GiveUp, Labels, Underway, Changing, Starting, Serving
    <2>2. "leave" \in Holding => pc[g] \in Holding
      BY <1>20 DEF GiveUp, Holding, Serving
    <2>3. pc' \in [Goroutine -> Labels] /\ Owned'
      BY <2>1, <2>2, MoveTyped
    <2> QED
      BY <1>20, <2>3 DEF GiveUp, TypeOK, Labels
  <1>21. ASSUME NEW g \in Goroutine, CheckFlag(g) PROVE TypeOK' /\ Owned'
    <2>1. PICK l \in {"leave", "accept"} : Goto(g, l)
      BY <1>21 DEF CheckFlag
    <2>2. pc[g] \in Holding /\ l \in Labels /\ owner' = owner
      BY <1>21 DEF CheckFlag, Holding, Labels, Serving
    <2>3. pc' \in [Goroutine -> Labels] /\ Owned'
      BY <2>1, <2>2, MoveTyped
    <2> QED
      BY <1>21, <2>3 DEF CheckFlag, TypeOK, Labels
  <1>22. ASSUME NEW g \in Goroutine, Accept(g) PROVE TypeOK' /\ Owned'
    <2>1. Goto(g, "loop") /\ "loop" \in Labels /\ owner' = owner
      BY <1>22 DEF Accept, Labels, Underway, Changing, Starting, Serving
    <2>2. "loop" \in Holding => pc[g] \in Holding
      BY <1>22 DEF Accept, Holding, Serving
    <2>3. pc' \in [Goroutine -> Labels] /\ Owned'
      BY <2>1, <2>2, MoveTyped
    <2>4. backlog' \in BOOLEAN
      BY <1>22, Zenon DEF Accept
    <2> QED
      BY <1>22, <2>3, <2>4 DEF Accept, TypeOK, Labels
  <1>23. ASSUME NEW g \in Goroutine, AcceptOther(g) PROVE TypeOK' /\ Owned'
    <2>1. Goto(g, "loop") /\ "loop" \in Labels /\ owner' = owner
      BY <1>23 DEF AcceptOther, Labels, Underway, Changing, Starting, Serving
    <2>2. "loop" \in Holding => pc[g] \in Holding
      BY <1>23 DEF AcceptOther, Holding, Serving
    <2>3. pc' \in [Goroutine -> Labels] /\ Owned'
      BY <2>1, <2>2, MoveTyped
    <2> QED
      BY <1>23, <2>3 DEF AcceptOther, TypeOK, Labels
  <1>24. ASSUME NEW g \in Goroutine, Leave(g) PROVE TypeOK' /\ Owned'
    BY <1>24, ReturnTyped, Zenon
  <1>25. CASE SetChangeRoute
    BY <1>25 DEF SetChangeRoute, TypeOK, Owned
  <1>26. CASE Collect
    <2>1. /\ owner' = None /\ backlog' = FALSE /\ pc' = pc
          /\ ~(pc[owner] \in Holding)
      BY <1>26 DEF Collect, Holding
    <2>2. ASSUME NEW h \in Goroutine PROVE pc[h] \notin Holding
      BY <2>1 DEF Owned, Holding
    <2>3. Owned'
      BY <2>1, <2>2 DEF Owned, Holding
    <2>4. backlog' \in BOOLEAN
      BY <1>26, Zenon DEF Collect
    <2> QED
      BY <1>26, <2>1, <2>3, <2>4 DEF Collect, TypeOK
  <1>27. CASE UNCHANGED vars
    BY <1>27 DEF vars, TypeOK, Owned
  <1> QED
    BY <1>1, <1>2, <1>3, <1>4, <1>5, <1>6, <1>7, <1>8, <1>9, <1>10, <1>11,
       <1>12, <1>13, <1>14, <1>15, <1>16, <1>17, <1>18, <1>19, <1>20, <1>21,
       <1>22, <1>23, <1>24, <1>25, <1>26, <1>27, Zenon DEF Next, Step, ChangeRoute,
       Start, Loop

\* Every variable of the route life cycle keeps its type, and a connection
\* only ever waits at a listener.
THEOREM TypeCorrect == Spec => []TypeOK
  <1>1. Spec => [](TypeOK /\ Owned)
    BY TypeInit, TypeStep, PTL DEF Spec
  <1> QED
    BY <1>1, PTL

-----------------------------------------------------------------------------
(* A switch that is refused.                                               *)

\* IsRunning and IsBreak are both lowered only by Init, and its goroutine
\* then raises one of them.
Undecided ==
    ~isRunning /\ ~isBreak =>
      \E h \in Goroutine : pc[h] \in Starting \cup {"reset"}

LEMMA UndecidedInit == Init => Undecided
  BY ConstantFacts DEF Init, Undecided, Starting

LEMMA UndecidedStep == TypeOK /\ Undecided /\ [Next]_vars => Undecided'
  <1> SUFFICES ASSUME TypeOK, Undecided, [Next]_vars, ~isRunning', ~isBreak'
               PROVE  \E h \in Goroutine : pc'[h] \in Starting \cup {"reset"}
    BY DEF Undecided
  <1> USE ConstantFacts
  <1> USE DEF TypeOK, Undecided, Starting, Goto, flags
  <1> DEFINE Ready == \E h \in Goroutine : pc'[h] \in Starting \cup {"reset"}
  <1>1. ASSUME NEW g \in Goroutine,
        InitRunning(g) \/ InitBreak(g) \/ Open(g) \/ Built(g) \/
        BuildFails(g) \/ Bind(g) \/ LowerFlag(g) \/ LowerClosed(g)
      PROVE Ready
    BY <1>1 DEF InitRunning, InitBreak, Open, Built, BuildFails, Bind,
       LowerFlag, LowerClosed
  <1>2. ASSUME NEW g \in Goroutine, Break(g) PROVE Ready
    BY <1>2, ReturnFacts
  <1>3. ASSUME NEW g \in Goroutine, Run(g) PROVE Ready
    BY <1>3 DEF Run
  <1>4. ASSUME NEW g \in Goroutine, Admit(g) PROVE Ready
    BY <1>4 DEF Admit, Crowds
  <1>5. ASSUME NEW g \in Goroutine, Close(g) \/ Retry(g) PROVE Ready
    BY <1>5 DEF Close, TryClose, Retry
  <1>6. ASSUME NEW g \in Goroutine, Dial(g) PROVE Ready
    BY <1>6 DEF Dial
  <1>7. ASSUME NEW g \in Goroutine,
        Announce(g) \/ WaitClosed(g) \/ SetAddr(g)
      PROVE Ready
    BY <1>7 DEF Announce, WaitClosed, SetAddr
  <1>8. ASSUME NEW g \in Goroutine,
        FewErrors(g) \/ GiveUp(g) \/ Accept(g) \/ AcceptOther(g)
      PROVE Ready
    BY <1>8 DEF FewErrors, GiveUp, Accept, AcceptOther
  <1>9. ASSUME NEW g \in Goroutine, ManyErrors(g) PROVE Ready
    BY <1>9 DEF ManyErrors, Crowds
  <1>10. ASSUME NEW g \in Goroutine, CheckFlag(g) PROVE Ready
    BY <1>10 DEF CheckFlag
  <1>11. ASSUME NEW g \in Goroutine, Leave(g) PROVE Ready
    <2>1. ~isRunning /\ ~isBreak
      BY <1>11, ReturnFacts, Zenon
    <2>2. PICK h \in Goroutine : pc[h] \in Starting \cup {"reset"}
      BY <2>1 DEF Undecided
    <2>3. h # g
      BY <1>11, <2>2 DEF Leave, Starting
    <2>4. pc'[h] = pc[h]
      BY <1>11, <2>3, ReturnFacts
    <2> QED
      BY <2>2, <2>4
  <1>12. CASE SetChangeRoute
    BY <1>12 DEF SetChangeRoute
  <1>13. CASE Collect
    BY <1>13 DEF Collect
  <1>14. CASE UNCHANGED vars
    BY <1>14 DEF vars
  <1> QED
    BY <1>1, <1>2, <1>3, <1>4, <1>5, <1>6, <1>7, <1>8, <1>9, <1>10, <1>11,
       <1>12, <1>13, <1>14 DEF Next, Step, ChangeRoute, Start, Loop

\* A switch is refused only while a change is under way or after the route
\* broke, however the changes interleave.
THEOREM RefusalExplained == Spec => []RefusedOnlyIfBroken
  <1>1. Undecided => RefusedOnlyIfBroken
    BY DEF Undecided, RefusedOnlyIfBroken, Quiet, Pending, Underway, Changing
  <1>2. Spec => [](TypeOK /\ Owned)
    BY TypeInit, TypeStep, PTL DEF Spec
  <1>3. Spec => []Undecided
    BY <1>2, UndecidedInit, UndecidedStep, PTL DEF Spec
  <1> QED
    BY <1>1, <1>3, PTL

-----------------------------------------------------------------------------
(* The client keeps a loop.                                                *)

\* A loop serves, or somebody is on the way to one, or the client gave up.
Held ==
    gaveUp \/ isBreak \/ \E h \in Goroutine : pc[h] \in Underway \cup Serving

\* Who raised closeFlag against a loop is still on the way, or broke.
Closer ==
    closeFlag =>
      \A k \in Goroutine : pc[k] \in Serving \cup {"unclose", "run"} =>
        gaveUp \/ isBreak \/ \E h \in Goroutine \ {k} : pc[h] \in Underway

LEMMA HeldInit == Init => Held /\ Closer
  BY ConstantFacts DEF Init, Held, Closer, Underway, Starting, Serving

LEMMA HeldStep == TypeOK /\ Held /\ Closer /\ [Next]_vars => Held'
  <1> SUFFICES ASSUME TypeOK, Held, Closer, [Next]_vars, ~gaveUp', ~isBreak'
               PROVE  \E h \in Goroutine : pc'[h] \in Underway \cup Serving
    BY DEF Held
  <1> USE ConstantFacts
  <1> USE DEF TypeOK, Held, Underway, Changing, Starting, Serving, Goto, flags, history
  <1> DEFINE Ready == \E h \in Goroutine : pc'[h] \in Underway \cup Serving
  <1>1. ASSUME NEW g \in Goroutine,
        Admit(g) \/ Close(g) \/ Retry(g)
      PROVE Ready
    BY <1>1 DEF Admit, Crowds, Close, TryClose, Retry
  <1>2. ASSUME NEW g \in Goroutine, Dial(g) PROVE Ready
    BY <1>2 DEF Dial
  <1>3. ASSUME NEW g \in Goroutine,
        Announce(g) \/ WaitClosed(g) \/ SetAddr(g) \/ InitRunning(g) \/
        InitBreak(g)
      PROVE Ready
    BY <1>3 DEF Announce, WaitClosed, SetAddr, InitRunning, InitBreak
  <1>4. ASSUME NEW g \in Goroutine,
        Open(g) \/ Built(g) \/ BuildFails(g) \/ Bind(g)
      PROVE Ready
    BY <1>4 DEF Open, Built, BuildFails, Bind
  <1>5. ASSUME NEW g \in Goroutine, Break(g) PROVE Ready
    BY <1>5, ReturnFacts
  <1>6. ASSUME NEW g \in Goroutine,
        LowerFlag(g) \/ LowerClosed(g) \/ Run(g)
      PROVE Ready
    BY <1>6 DEF LowerFlag, LowerClosed, Run
  <1>7. ASSUME NEW g \in Goroutine,
        FewErrors(g) \/ Accept(g) \/ AcceptOther(g)
      PROVE Ready
    BY <1>7 DEF FewErrors, Accept, AcceptOther
  <1>8. ASSUME NEW g \in Goroutine, ManyErrors(g) PROVE Ready
    BY <1>8 DEF ManyErrors, Crowds
  <1>9. ASSUME NEW g \in Goroutine, GiveUp(g) PROVE Ready
    BY <1>9 DEF GiveUp
  <1>10. ASSUME NEW g \in Goroutine, CheckFlag(g) PROVE Ready
    <2>1. CASE closeFlag
      <3>1. ~gaveUp /\ ~isBreak
        BY <1>10 DEF CheckFlag
      <3>2. PICK h \in Goroutine \ {g} : pc[h] \in Underway
        BY <1>10, <2>1, <3>1 DEF CheckFlag, Closer
      <3> QED
        BY <1>10, <3>2 DEF CheckFlag
    <2>2. CASE ~closeFlag
      BY <1>10, <2>2 DEF CheckFlag
    <2> QED
      BY <2>1, <2>2
  <1>11. ASSUME NEW g \in Goroutine, Leave(g) PROVE Ready
    <2>1. ~gaveUp /\ ~isBreak
      BY <1>11, ReturnFacts, Zenon
    <2>2. PICK h \in Goroutine : pc[h] \in Underway \cup Serving
      BY <2>1 DEF Held
    <2>3. h # g
      BY <1>11, <2>2 DEF Leave
    <2> QED
      BY <1>11, <2>2, <2>3, ReturnFacts
  <1>12. CASE SetChangeRoute
    BY <1>12 DEF SetChangeRoute
  <1>13. CASE Collect
    BY <1>13 DEF Collect
  <1>14. CASE UNCHANGED vars
    BY <1>14 DEF vars
  <1> QED
    BY <1>1, <1>2, <1>3, <1>4, <1>5, <1>6, <1>7, <1>8, <1>9, <1>10, <1>11,
       <1>12, <1>13, <1>14 DEF Next, Step, ChangeRoute, Start, Loop

LEMMA CloserStep == TypeOK /\ Owned /\ Closer /\ [Next]_vars => Closer'
  <1> SUFFICES ASSUME TypeOK, Owned, Closer, [Next]_vars,
                      closeFlag', ~gaveUp', ~isBreak',
                      NEW k \in Goroutine, pc'[k] \in Serving \cup {"unclose", "run"}
               PROVE  \E h \in Goroutine \ {k} : pc'[h] \in Underway
    BY DEF Closer
  <1> USE ConstantFacts
  <1> USE DEF TypeOK, Underway, Changing, Starting, Serving, Goto, flags, history
  <1> DEFINE Ready == \E h \in Goroutine \ {k} : pc'[h] \in Underway
  <1>1. ASSUME NEW g \in Goroutine,
        Admit(g) \/ Close(g) \/ Retry(g)
      PROVE Ready
    BY <1>1 DEF Admit, Crowds, Close, TryClose, Retry
  <1>2. ASSUME NEW g \in Goroutine, Dial(g) PROVE Ready
    <2>1. closeFlag /\ ~gaveUp /\ ~isBreak
      BY <1>2 DEF Dial
    <2>2. pc[k] \in Serving \cup {"unclose", "run"}
      BY <1>2 DEF Dial
    <2>3. PICK h \in Goroutine \ {k} : pc[h] \in Underway
      BY <2>1, <2>2 DEF Closer
    <2> QED
      BY <1>2, <2>3 DEF Dial
  <1>3. ASSUME NEW g \in Goroutine,
        Announce(g) \/ WaitClosed(g) \/ SetAddr(g) \/ InitRunning(g) \/
        InitBreak(g)
      PROVE Ready
    BY <1>3 DEF Announce, WaitClosed, SetAddr, InitRunning, InitBreak
  <1>4. ASSUME NEW g \in Goroutine,
        Open(g) \/ Built(g) \/ BuildFails(g) \/ Bind(g)
      PROVE Ready
    BY <1>4 DEF Open, Built, BuildFails, Bind
  <1>5. ASSUME NEW g \in Goroutine, Break(g) PROVE Ready
    BY <1>5, ReturnFacts
  <1>6. ASSUME NEW g \in Goroutine, LowerFlag(g) PROVE Ready
    BY <1>6 DEF LowerFlag
  <1>7. ASSUME NEW g \in Goroutine, LowerClosed(g) \/ Run(g) PROVE Ready
    <2>1. closeFlag /\ ~gaveUp /\ ~isBreak
      BY <1>7 DEF LowerClosed, Run
    <2>2. pc[k] \in Serving \cup {"unclose", "run"}
      BY <1>7, <2>1 DEF LowerClosed, Run, Owned
    <2>3. PICK h \in Goroutine \ {k} : pc[h] \in Underway
      BY <2>1, <2>2 DEF Closer
    <2> QED
      BY <1>7, <2>3, <2>2 DEF LowerClosed, Run, Owned
  <1>8. ASSUME NEW g \in Goroutine,
        FewErrors(g) \/ Accept(g) \/ AcceptOther(g)
      PROVE Ready
    <2>1. closeFlag /\ ~gaveUp /\ ~isBreak
      BY <1>8 DEF FewErrors, Accept, AcceptOther
    <2>2. pc[k] \in Serving \cup {"unclose", "run"}
      BY <1>8 DEF FewErrors, Accept, AcceptOther
    <2>3. PICK h \in Goroutine \ {k} : pc[h] \in Underway
      BY <2>1, <2>2 DEF Closer
    <2> QED
      BY <1>8, <2>3 DEF FewErrors, Accept, AcceptOther
  <1>9. ASSUME NEW g \in Goroutine, ManyErrors(g) PROVE Ready
    BY <1>9 DEF ManyErrors, Crowds
  <1>10. ASSUME NEW g \in Goroutine, GiveUp(g) PROVE Ready
    BY <1>10 DEF GiveUp
  <1>11. ASSUME NEW g \in Goroutine, CheckFlag(g) PROVE Ready
    <2>1. closeFlag /\ ~gaveUp /\ ~isBreak
      BY <1>11 DEF CheckFlag
    <2>2. pc[k] \in Serving \cup {"unclose", "run"}
      BY <1>11 DEF CheckFlag
    <2>3. PICK h \in Goroutine \ {k} : pc[h] \in Underway
      BY <2>1, <2>2 DEF Closer
    <2> QED
      BY <1>11, <2>3 DEF CheckFlag
  <1>12. ASSUME NEW g \in Goroutine, Leave(g) PROVE Ready
    <2>1. closeFlag /\ ~gaveUp /\ ~isBreak
      BY <1>12, ReturnFacts, Zenon
    <2>2. pc[k] \in Serving \cup {"unclose", "run"}
      BY <1>12, ReturnFacts DEF Leave
    <2>3. PICK h \in Goroutine \ {k} : pc[h] \in Underway
      BY <2>1, <2>2 DEF Closer
    <2> QED
      BY <1>12, <2>3, ReturnFacts DEF Leave
  <1>13. CASE SetChangeRoute
    <2>1. closeFlag /\ ~gaveUp /\ ~isBreak
      BY <1>13 DEF SetChangeRoute
    <2>2. pc[k] \in Serving \cup {"unclose", "run"}
      BY <1>13 DEF SetChangeRoute
    <2>3. PICK h \in Goroutine \ {k} : pc[h] \in Underway
      BY <2>1, <2>2 DEF Closer
    <2> QED
      BY <1>13, <2>3 DEF SetChangeRoute
  <1>14. CASE Collect
    <2>1. closeFlag /\ ~gaveUp /\ ~isBreak
      BY <1>14 DEF Collect
    <2>2. pc[k] \in Serving \cup {"unclose", "run"}
      BY <1>14 DEF Collect
    <2>3. PICK h \in Goroutine \ {k} : pc[h] \in Underway
      BY <2>1, <2>2 DEF Closer
    <2> QED
      BY <1>14, <2>3 DEF Collect
  <1>15. CASE UNCHANGED vars
    <2>1. closeFlag /\ ~gaveUp /\ ~isBreak
      BY <1>15 DEF vars
    <2>2. pc[k] \in Serving \cup {"unclose", "run"}
      BY <1>15 DEF vars
    <2>3. PICK h \in Goroutine \ {k} : pc[h] \in Underway
      BY <2>1, <2>2 DEF Closer
    <2> QED
      BY <1>15, <2>3 DEF vars
  <1> QED
    BY <1>1, <1>2, <1>3, <1>4, <1>5, <1>6, <1>7, <1>8, <1>9, <1>10, <1>11,
       <1>12, <1>13, <1>14, <1>15 DEF Next, Step, ChangeRoute, Start, Loop

\* Whatever overlaps, the client is not left without a loop: at rest it
\* serves, unless its route broke or no next route could be asked for.
THEOREM LoopKept == Spec => []SomebodyServes
  <1>1. Held => SomebodyServes
    BY DEF Held, SomebodyServes, Quiet, Pending
  <1>2. Spec => [](TypeOK /\ Owned)
    BY TypeInit, TypeStep, PTL DEF Spec
  <1>3. Spec => [](Held /\ Closer)
    BY <1>2, HeldInit, HeldStep, CloserStep, PTL DEF Spec
  <1> QED
    BY <1>1, <1>3, PTL

-----------------------------------------------------------------------------
(* Changes that do not crowd each other.                                   *)

\* One change is under way at a time.
Alone ==
    ~crowded =>
      \A g, h \in Goroutine : pc[g] \in Underway /\ pc[h] \in Underway => g = h

\* A change past its wait has no loop beside it, and a loop beside it no
\* lowered closed.
Exclusive ==
    ~crowded =>
      /\ \A g \in Goroutine : pc[g] \in Serving \cup {"run", "leave"} => ~closed
      /\ \A g, h \in Goroutine :
           pc[g] \in Serving \cup {"leave"} /\ pc[h] \in Past \cup Serving \cup {"leave"}
             => g = h

Asked == {"change", "wait", "clear"}

\* The route is the one asked for last, or its change is still to set it.
Latest ==
    ~crowded =>
      /\ \A g \in Goroutine : pc[g] \in Asked => want = g
      /\ Addr = want \/ \E g \in Goroutine : pc[g] \in Asked

LEMMA CalmInit == Init => Alone /\ Exclusive /\ Latest /\ FlagIsHeard
  BY ConstantFacts DEF Init, Alone, Exclusive, Latest, FlagIsHeard, Asked, Past,
     Underway, Changing, Starting, Serving

\* When a Socks5Listen returns, at most one goroutine is left under way.
LEMMA ReturnMoves ==
  ASSUME TypeOK, Alone, NEW g \in Goroutine, Break(g) \/ Leave(g), ~crowded',
         NEW a \in Goroutine, NEW b \in Goroutine,
         pc'[a] \in Underway, pc'[b] \in Underway
  PROVE  a = b
  <1>1. ~crowded /\ \A h \in Goroutine \ {g} : pc'[h] = pc[h]
    BY ReturnFacts, Zenon
  <1>2. CASE pc' = [pc EXCEPT ![g] = "retry"]
    <2>1. pc' # [pc EXCEPT ![g] = "done"]
      BY <1>2 DEF TypeOK
    <2>2. \A h \in Goroutine \ {g} : ~Pending(h)
      BY <2>1, ReturnFacts, Zenon
    <2> QED
      BY <1>1, <2>2, Zenon DEF Pending
  <1>3. CASE pc' = [pc EXCEPT ![g] = "done"]
    <2>1. a # g /\ b # g
      BY <1>3 DEF TypeOK, Underway, Changing, Starting
    <2> QED
      BY <1>1, <2>1, Zenon DEF Alone, Pending
  <1> QED
    BY <1>2, <1>3, ReturnFacts, Zenon

LEMMA AloneStep == TypeOK /\ Alone /\ [Next]_vars => Alone'
  <1> SUFFICES ASSUME TypeOK, Alone, [Next]_vars, ~crowded',
                      NEW a \in Goroutine, NEW b \in Goroutine,
                      pc'[a] \in Underway, pc'[b] \in Underway
               PROVE  a = b
    BY DEF Alone
  <1> USE ConstantFacts
  <1> USE DEF TypeOK, Alone, Pending, Underway, Changing, Starting, Serving, Goto, history
  <1>1. ASSUME NEW g \in Goroutine, Admit(g) PROVE a = b
    BY <1>1 DEF Admit, Crowds
  <1>2. ASSUME NEW g \in Goroutine, Close(g) \/ Retry(g) PROVE a = b
    BY <1>2 DEF Close, TryClose, Retry
  <1>3. ASSUME NEW g \in Goroutine, Dial(g) PROVE a = b
    BY <1>3 DEF Dial
  <1>4. ASSUME NEW g \in Goroutine,
        Announce(g) \/ WaitClosed(g) \/ SetAddr(g) \/ InitRunning(g) \/
        InitBreak(g)
      PROVE a = b
    BY <1>4 DEF Announce, WaitClosed, SetAddr, InitRunning, InitBreak
  <1>5. ASSUME NEW g \in Goroutine,
        Open(g) \/ Built(g) \/ BuildFails(g) \/ Bind(g) \/ LowerFlag(g)
        \/ LowerClosed(g) \/ Run(g)
      PROVE a = b
    BY <1>5 DEF Open, Built, BuildFails, Bind, LowerFlag, LowerClosed, Run
  <1>6. ASSUME NEW g \in Goroutine, Break(g) PROVE a = b
    BY <1>6, ReturnMoves, Zenon
  <1>7. ASSUME NEW g \in Goroutine,
        FewErrors(g) \/ Accept(g) \/ AcceptOther(g) \/ GiveUp(g)
      PROVE a = b
    BY <1>7 DEF FewErrors, Accept, AcceptOther, GiveUp
  <1>8. ASSUME NEW g \in Goroutine, ManyErrors(g) PROVE a = b
    <2>1. PICK n \in Nexts : pc' = [pc EXCEPT ![g] = "leave", ![n] = "change"] /\ Crowds(n)
      BY <1>8, Zenon DEF ManyErrors
    <2>2. \A h \in Goroutine \ {n} : ~Pending(h)
      BY <2>1, Zenon DEF Crowds
    <2>3. \A h \in Goroutine \ {n} : pc'[h] \notin Underway
      BY <2>1, <2>2
    <2> QED
      BY <2>3
  <1>9. ASSUME NEW g \in Goroutine, CheckFlag(g) PROVE a = b
    BY <1>9 DEF CheckFlag
  <1>10. ASSUME NEW g \in Goroutine, Leave(g) PROVE a = b
    BY <1>10, ReturnMoves, Zenon
  <1>11. CASE SetChangeRoute
    BY <1>11 DEF SetChangeRoute
  <1>12. CASE Collect
    BY <1>12 DEF Collect
  <1>13. CASE UNCHANGED vars
    BY <1>13 DEF vars
  <1> QED
    BY <1>1, <1>2, <1>3, <1>4, <1>5, <1>6, <1>7, <1>8, <1>9, <1>10, <1>11,
       <1>12, <1>13 DEF Next, Step, ChangeRoute, Start, Loop

LEMMA ExclusiveStep == TypeOK /\ Alone /\ Exclusive /\ [Next]_vars => Exclusive'
  <1> SUFFICES ASSUME TypeOK, Alone, Exclusive, [Next]_vars, ~crowded'
               PROVE  Exclusive'
    BY DEF Exclusive
  <1> USE ConstantFacts
  <1> USE DEF TypeOK, Alone, Exclusive, Past, Pending, Underway, Changing, Starting,
              Serving, Goto, flags, history
  <1>1. ASSUME NEW g \in Goroutine, Admit(g) PROVE Exclusive'
    BY <1>1 DEF Admit, Crowds
  <1>2. ASSUME NEW g \in Goroutine, Close(g) \/ Retry(g) PROVE Exclusive'
    BY <1>2 DEF Close, TryClose, Retry
  <1>3. ASSUME NEW g \in Goroutine, Dial(g) PROVE Exclusive'
    BY <1>3 DEF Dial
  <1>4. ASSUME NEW g \in Goroutine, Announce(g) PROVE Exclusive'
    BY <1>4 DEF Announce
  <1>5. ASSUME NEW g \in Goroutine, WaitClosed(g) PROVE Exclusive'
    BY <1>5 DEF WaitClosed
  <1>6. ASSUME NEW g \in Goroutine,
        SetAddr(g) \/ InitRunning(g) \/ InitBreak(g)
      PROVE Exclusive'
    BY <1>6 DEF SetAddr, InitRunning, InitBreak
  <1>7. ASSUME NEW g \in Goroutine, Open(g) PROVE Exclusive'
    BY <1>7 DEF Open
  <1>8. ASSUME NEW g \in Goroutine,
        Built(g) \/ BuildFails(g) \/ Bind(g) \/ LowerFlag(g)
      PROVE Exclusive'
    BY <1>8 DEF Built, BuildFails, Bind, LowerFlag
  <1>9. ASSUME NEW g \in Goroutine, LowerClosed(g) PROVE Exclusive'
    BY <1>9 DEF LowerClosed
  <1>10. ASSUME NEW g \in Goroutine, Run(g) PROVE Exclusive'
    BY <1>10 DEF Run
  <1>11. ASSUME NEW g \in Goroutine, Break(g) PROVE Exclusive'
    <2>1. ~crowded
      BY <1>11, ReturnFacts, Zenon
    <2>2. pc'[g] \in {"retry", "done"} /\ \A h \in Goroutine \ {g} : pc'[h] = pc[h]
      BY <1>11, ReturnFacts, Zenon
    <2>3. \A h \in Goroutine : pc[h] \in Serving \cup {"run", "leave"} => ~closed'
      BY <1>11, <2>1, ReturnFacts, Zenon DEF Exclusive
    <2>4. \A h \in Goroutine : pc'[h] \in Serving \cup {"run", "leave"} => ~closed'
      BY <2>2, <2>3
    <2>5. \A h, k \in Goroutine :
            pc'[h] \in Serving \cup {"leave"} /\ pc'[k] \in Past \cup Serving \cup {"leave"}
              => h = k
      BY <2>1, <2>2
    <2> QED
      BY <2>4, <2>5, Zenon DEF Exclusive
  <1>12. ASSUME NEW g \in Goroutine,
        FewErrors(g) \/ Accept(g) \/ AcceptOther(g)
      PROVE Exclusive'
    BY <1>12 DEF FewErrors, Accept, AcceptOther
  <1>13. ASSUME NEW g \in Goroutine, GiveUp(g) PROVE Exclusive'
    BY <1>13 DEF GiveUp
  <1>14. ASSUME NEW g \in Goroutine, ManyErrors(g) PROVE Exclusive'
    BY <1>14 DEF ManyErrors, Crowds
  <1>15. ASSUME NEW g \in Goroutine, CheckFlag(g) PROVE Exclusive'
    BY <1>15 DEF CheckFlag
  <1>16. ASSUME NEW g \in Goroutine, Leave(g) PROVE Exclusive'
    <2>1. ~crowded
      BY <1>16, ReturnFacts, Zenon
    <2>2. pc'[g] \in {"retry", "done"} /\ \A h \in Goroutine \ {g} : pc'[h] = pc[h]
      BY <1>16, ReturnFacts, Zenon
    <2>3. pc[g] = "leave"
      BY <1>16, ReturnFacts, Zenon
    <2>4. \A h \in Goroutine : pc'[h] \notin Past \cup Serving \cup {"leave"}
      BY <2>1, <2>2, <2>3
    <2> QED
      BY <2>4
  <1>17. CASE SetChangeRoute
    BY <1>17 DEF SetChangeRoute
  <1>18. CASE Collect
    BY <1>18 DEF Collect
  <1>19. CASE UNCHANGED vars
    BY <1>19 DEF vars
  <1> QED
    BY <1>1, <1>2, <1>3, <1>4, <1>5, <1>6, <1>7, <1>8, <1>9, <1>10, <1>11,
       <1>12, <1>13, <1>14, <1>15, <1>16, <1>17, <1>18, <1>19 DEF Next, Step,
       ChangeRoute, Start, Loop

LEMMA LatestStep == TypeOK /\ Alone /\ Latest /\ [Next]_vars => Latest'
  <1> SUFFICES ASSUME TypeOK, Alone, Latest, [Next]_vars, ~crowded'
               PROVE  Latest'
    BY DEF Latest
  <1> USE ConstantFacts
  <1> USE DEF TypeOK, Alone, Latest, Asked, Pending, Underway, Changing, Starting,
              Serving, Goto, flags, history
  <1>1. ASSUME NEW g \in Goroutine, Admit(g) PROVE Latest'
    BY <1>1 DEF Admit, Crowds
  <1>2. ASSUME NEW g \in Goroutine, Close(g) \/ Retry(g) PROVE Latest'
    BY <1>2 DEF Close, TryClose, Retry
  <1>3. ASSUME NEW g \in Goroutine, Dial(g) PROVE Latest'
    BY <1>3 DEF Dial
  <1>4. ASSUME NEW g \in Goroutine, Announce(g) PROVE Latest'
    BY <1>4 DEF Announce
  <1>5. ASSUME NEW g \in Goroutine, WaitClosed(g) PROVE Latest'
    BY <1>5 DEF WaitClosed
  <1>6. ASSUME NEW g \in Goroutine, SetAddr(g) PROVE Latest'
    BY <1>6 DEF SetAddr
  <1>7. ASSUME NEW g \in Goroutine,
        InitRunning(g) \/ InitBreak(g)
      PROVE Latest'
    BY <1>7 DEF InitRunning, InitBreak
  <1>8. ASSUME NEW g \in Goroutine,
        Open(g) \/ Built(g) \/ BuildFails(g) \/ Bind(g) \/ LowerFlag(g)
        \/ LowerClosed(g) \/ Run(g)
      PROVE Latest'
    BY <1>8 DEF Open, Built, BuildFails, Bind, LowerFlag, LowerClosed, Run
  <1>9. ASSUME NEW g \in Goroutine, Break(g) PROVE Latest'
    <2>1. ~crowded
      BY <1>9, ReturnFacts, Zenon
    <2>2. CASE pc' = [pc EXCEPT ![g] = "retry"]
      BY <1>9, <2>1, <2>2, ReturnFacts
    <2>3. CASE pc' = [pc EXCEPT ![g] = "done"]
      BY <1>9, <2>1, <2>3, ReturnFacts
    <2> QED
      BY <1>9, <2>2, <2>3, ReturnFacts, Zenon
  <1>10. ASSUME NEW g \in Goroutine,
        FewErrors(g) \/ Accept(g) \/ AcceptOther(g) \/ GiveUp(g)
      PROVE Latest'
    BY <1>10 DEF FewErrors, Accept, AcceptOther, GiveUp
  <1>11. ASSUME NEW g \in Goroutine, ManyErrors(g) PROVE Latest'
    <2>1. PICK n \in Nexts : /\ pc' = [pc EXCEPT ![g] = "leave", ![n] = "change"]
                            /\ want' = n /\ Crowds(n)
      BY <1>11, Zenon DEF ManyErrors
    <2>2. \A h \in Goroutine \ {n} : ~Pending(h)
      BY <2>1, Zenon DEF Crowds
    <2>3. \A h \in Goroutine : pc'[h] \in Asked => want' = h
      BY <2>1, <2>2
    <2>4. n \in Goroutine /\ pc'[n] \in Asked
      BY <2>1
    <2> QED
      BY <2>3, <2>4, Zenon
  <1>12. ASSUME NEW g \in Goroutine, CheckFlag(g) PROVE Latest'
    BY <1>12 DEF CheckFlag
  <1>13. ASSUME NEW g \in Goroutine, Leave(g) PROVE Latest'
    <2>1. ~crowded
      BY <1>13, ReturnFacts, Zenon
    <2>2. CASE pc' = [pc EXCEPT ![g] = "retry"]
      BY <1>13, <2>1, <2>2, ReturnFacts
    <2>3. CASE pc' = [pc EXCEPT ![g] = "done"]
      BY <1>13, <2>1, <2>3, ReturnFacts
    <2> QED
      BY <1>13, <2>2, <2>3, ReturnFacts, Zenon
  <1>14. CASE SetChangeRoute
    BY <1>14 DEF SetChangeRoute
  <1>15. CASE Collect
    BY <1>15 DEF Collect
  <1>16. CASE UNCHANGED vars
    BY <1>16 DEF vars
  <1> QED
    BY <1>1, <1>2, <1>3, <1>4, <1>5, <1>6, <1>7, <1>8, <1>9, <1>10, <1>11,
       <1>12, <1>13, <1>14, <1>15, <1>16 DEF Next, Step, ChangeRoute, Start,
       Loop

LEMMA HeardStep == TypeOK /\ Alone /\ FlagIsHeard /\ [Next]_vars => FlagIsHeard'
  <1> SUFFICES ASSUME TypeOK, Alone, FlagIsHeard, [Next]_vars, ~crowded'
               PROVE  FlagIsHeard'
    BY DEF FlagIsHeard
  <1> USE ConstantFacts
  <1> USE DEF TypeOK, Alone, FlagIsHeard, Pending, Underway, Changing, Starting,
              Serving, Goto, flags, history
  <1>1. ASSUME NEW g \in Goroutine, Admit(g) PROVE FlagIsHeard'
    BY <1>1 DEF Admit, Crowds
  <1>2. ASSUME NEW g \in Goroutine, Close(g) \/ Retry(g) PROVE FlagIsHeard'
    BY <1>2 DEF Close, TryClose, Retry
  <1>3. ASSUME NEW g \in Goroutine, Dial(g) PROVE FlagIsHeard'
    BY <1>3 DEF Dial
  <1>4. ASSUME NEW g \in Goroutine,
        Announce(g) \/ WaitClosed(g) \/ SetAddr(g) \/ InitRunning(g) \/
        InitBreak(g)
      PROVE FlagIsHeard'
    BY <1>4 DEF Announce, WaitClosed, SetAddr, InitRunning, InitBreak
  <1>5. ASSUME NEW g \in Goroutine, Open(g) PROVE FlagIsHeard'
    BY <1>5 DEF Open
  <1>6. ASSUME NEW g \in Goroutine,
        Built(g) \/ BuildFails(g) \/ Bind(g)
      PROVE FlagIsHeard'
    BY <1>6 DEF Built, BuildFails, Bind
  <1>7. ASSUME NEW g \in Goroutine, LowerFlag(g) PROVE FlagIsHeard'
    BY <1>7 DEF LowerFlag
  <1>8. ASSUME NEW g \in Goroutine, LowerClosed(g) PROVE FlagIsHeard'
    BY <1>8 DEF LowerClosed
  <1>9. ASSUME NEW g \in Goroutine, Run(g) PROVE FlagIsHeard'
    BY <1>9 DEF Run
  <1>10. ASSUME NEW g \in Goroutine, Break(g) PROVE FlagIsHeard'
    BY <1>10, ReturnFacts
  <1>11. ASSUME NEW g \in Goroutine,
        FewErrors(g) \/ Accept(g) \/ AcceptOther(g) \/ GiveUp(g)
      PROVE FlagIsHeard'
    BY <1>11 DEF FewErrors, Accept, AcceptOther, GiveUp
  <1>12. ASSUME NEW g \in Goroutine, ManyErrors(g) PROVE FlagIsHeard'
    BY <1>12 DEF ManyErrors, Crowds
  <1>13. ASSUME NEW g \in Goroutine, CheckFlag(g) PROVE FlagIsHeard'
    BY <1>13 DEF CheckFlag
  <1>14. ASSUME NEW g \in Goroutine, Leave(g) PROVE FlagIsHeard'
    BY <1>14, ReturnFacts
  <1>15. CASE SetChangeRoute
    BY <1>15 DEF SetChangeRoute
  <1>16. CASE Collect
    BY <1>16 DEF Collect
  <1>17. CASE UNCHANGED vars
    BY <1>17 DEF vars
  <1> QED
    BY <1>1, <1>2, <1>3, <1>4, <1>5, <1>6, <1>7, <1>8, <1>9, <1>10, <1>11,
       <1>12, <1>13, <1>14, <1>15, <1>16, <1>17 DEF Next, Step, ChangeRoute,
       Start, Loop

LEMMA CalmAlways == Spec => [](Alone /\ Exclusive /\ Latest /\ FlagIsHeard)
  <1>1. Spec => [](TypeOK /\ Owned)
    BY TypeInit, TypeStep, PTL DEF Spec
  <1> QED
    BY <1>1, CalmInit, AloneStep, ExclusiveStep, LatestStep, HeardStep, PTL DEF Spec

\* A loop that takes connections has closed lowered, so that no ChangeRoute
\* starts another on top of it, as long as changes do not crowd each other.
THEOREM LoopGuarded == Spec => []ServingIsOpen
  <1>1. Exclusive => ServingIsOpen
    BY DEF Exclusive, ServingIsOpen
  <1> QED
    BY <1>1, CalmAlways, PTL

\* At rest the client is on the route asked for last, as long as changes do
\* not crowd each other.
THEOREM RouteFollows == Spec => []RouteIsLastAsked
  <1>1. Latest => RouteIsLastAsked
    BY DEF Latest, RouteIsLastAsked, Quiet, Pending, Asked, Underway, Changing
  <1> QED
    BY <1>1, CalmAlways, PTL

-----------------------------------------------------------------------------
(* The wake-up of a loop that sleeps in Accept, for changes that overlap   *)
(* in any way: only one loop has the port, only TryClose raises closeFlag, *)
(* and it leaves a dial behind, which only this loop can take.             *)

\* At first nobody sleeps.
LEMMA WokenInit == Init => AcceptIsWoken
  BY DEF Init, AcceptIsWoken

\* No step leaves a loop asleep that was told to end.
LEMMA WokenStep == TypeOK /\ Owned /\ AcceptIsWoken /\ [Next]_vars => AcceptIsWoken'
  <1> SUFFICES ASSUME TypeOK, Owned, AcceptIsWoken, [Next]_vars,
                      NEW k \in Goroutine, pc'[k] = "accept", closeFlag'
               PROVE  wakers' # {} \/ backlog'
    BY DEF AcceptIsWoken
  <1> USE ConstantFacts
  <1>1. ASSUME NEW g \in Goroutine, Close(g) \/ Retry(g)
        PROVE  wakers' # {} \/ backlog'
    BY <1>1 DEF Close, Retry, TryClose
  <1>2. ASSUME NEW g \in Goroutine, Dial(g) PROVE wakers' # {} \/ backlog'
    <2>1. pc[k] = "accept"  BY <1>2 DEF Dial
    <2>2. owner = k  BY <2>1 DEF Owned, Serving
    <2>3. backlog' = TRUE  BY <1>2, <2>2 DEF Dial
    <2>. QED  BY <2>3
  <1>3. ASSUME NEW g \in Goroutine, CheckFlag(g) PROVE wakers' # {} \/ backlog'
    <2>1. pc[g] = "check" /\ UNCHANGED <<closeFlag, wakers, backlog>>
          /\ pc' = [pc EXCEPT ![g] = IF closeFlag THEN "leave" ELSE "accept"]
      BY <1>3 DEF CheckFlag, Goto, flags, port
    <2>2. pc[k] = "accept"  BY <2>1 DEF TypeOK
    <2>. QED  BY <2>1, <2>2 DEF AcceptIsWoken
  <1>4. ASSUME NEW g \in Goroutine, Accept(g) PROVE wakers' # {} \/ backlog'
    <2>1. pc[g] = "accept" /\ pc' = [pc EXCEPT ![g] = "loop"]
      BY <1>4 DEF Accept, Goto
    <2>2. g # k /\ pc[k] = "accept"  BY <2>1 DEF TypeOK
    <2>3. owner = g /\ owner = k  BY <2>1, <2>2 DEF Owned, Serving
    <2>. QED  BY <2>2, <2>3
  <1>5. CASE Collect
    <2>1. pc[k] = "accept" /\ owner # None /\ pc[owner] \notin Serving
      BY <1>5 DEF Collect
    <2>2. owner = k  BY <2>1 DEF Owned, Serving
    <2>. QED  BY <2>1, <2>2 DEF Serving
  \* Every other step only lowers closeFlag or leaves it, and puts nobody to sleep.
  <1>6. ASSUME UNCHANGED <<wakers, backlog>>, closeFlag' => closeFlag,
               pc'[k] = "accept" => pc[k] = "accept"
        PROVE  wakers' # {} \/ backlog'
    BY <1>6 DEF AcceptIsWoken
  <1>7. ASSUME NEW g \in Goroutine,
               Admit(g) \/ ChangeRoute(g) \/ Start(g) \/ FewErrors(g) \/ GiveUp(g)
                 \/ AcceptOther(g) \/ Leave(g)
        PROVE  wakers' # {} \/ backlog'
    <2>1. CASE Break(g) \/ Leave(g)
      <3>1. /\ UNCHANGED <<wakers, backlog>> /\ closeFlag' = closeFlag
            /\ pc'[g] \in {"retry", "done"}
            /\ \A h \in Goroutine \ {g} : pc'[h] = pc[h]
        BY <2>1, ReturnFacts DEF port
      <3>. QED  BY <1>6, <3>1
    <2>2. CASE ~(Break(g) \/ Leave(g))
      <3>1. UNCHANGED <<wakers, backlog>> /\ (closeFlag' => closeFlag)
        BY <1>7, <2>2 DEF Admit, ChangeRoute, Announce, WaitClosed, SetAddr,
           InitRunning, InitBreak, Start, Open, Built, BuildFails, Bind, LowerFlag,
           LowerClosed, Run, FewErrors, GiveUp, AcceptOther, flags, port
      <3>2. PICK l \in Underway \cup {"loop", "check", "leave"} :
              pc' = [pc EXCEPT ![g] = l]
        BY <1>7, <2>2 DEF Admit, ChangeRoute, Announce, WaitClosed, SetAddr,
           InitRunning, InitBreak, Start, Open, Built, BuildFails, Bind, LowerFlag,
           LowerClosed, Run, FewErrors, GiveUp, AcceptOther, Goto, Underway,
           Changing, Starting
      <3>3. pc'[k] = "accept" => pc[k] = "accept"
        BY <3>2 DEF TypeOK, Underway, Changing, Starting
      <3>. QED  BY <1>6, <3>1, <3>3
    <2>. QED  BY <2>1, <2>2
  <1>8. ASSUME NEW g \in Goroutine, ManyErrors(g) PROVE wakers' # {} \/ backlog'
    <2>1. UNCHANGED <<wakers, backlog, closeFlag>>
      BY <1>8 DEF ManyErrors, flags, port
    <2>2. pc'[k] = "accept" => pc[k] = "accept"
      BY <1>8 DEF ManyErrors, TypeOK
    <2>. QED  BY <1>6, <2>1, <2>2
  <1>9. CASE SetChangeRoute \/ UNCHANGED vars
    <2>1. UNCHANGED <<pc, closeFlag, wakers, backlog>>
      BY <1>9 DEF SetChangeRoute, vars, flags, port
    <2>. QED  BY <1>6, <2>1
  <1>. QED
    BY <1>1, <1>2, <1>3, <1>4, <1>5, <1>7, <1>8, <1>9 DEF Next, Step, Loop

\* A change that waits for closed waits for a loop that was told to end, as
\* long as changes do not crowd each other, and no loop sleeps through a
\* TryClose, however they do.
THEOREM CloseHeard == Spec => []CloseIsHeard
  <1>1. Spec => [](TypeOK /\ Owned)
    BY TypeInit, TypeStep, PTL DEF Spec
  <1>2. Spec => []AcceptIsWoken
    BY <1>1, WokenInit, WokenStep, PTL DEF Spec
  <1>3. FlagIsHeard /\ AcceptIsWoken => CloseIsHeard
    BY DEF CloseIsHeard
  <1>. QED  BY CalmAlways, <1>2, <1>3, PTL

-----------------------------------------------------------------------------
(* What a change waits for: the part of ChangesEnd that needs no fairness. *)

\* Either closed is raised or somebody is there who will raise it.
Alive ==
    ~closed =>
      \E h \in Goroutine : pc[h] \in {"open", "run", "leave"} \cup Serving

LEMMA AliveInit == Init => Alive
  BY ConstantFacts DEF Init, Alive

LEMMA AliveStep == TypeOK /\ Alive /\ [Next]_vars => Alive'
  <1> DEFINE Up == {"open", "run", "leave"} \cup Serving
  <1> SUFFICES ASSUME TypeOK, Alive, [Next]_vars, ~closed'
               PROVE  \E h \in Goroutine : pc'[h] \in Up
    BY DEF Alive
  <1> USE ConstantFacts
  \* Whoever is up stays up, or raises closed.
  <1>1. ASSUME closed' = closed, \A h \in Goroutine : pc[h] \in Up => pc'[h] \in Up
        PROVE  \E h \in Goroutine : pc'[h] \in Up
    BY <1>1 DEF Alive
  <1>2. ASSUME NEW g \in Goroutine,
               Admit(g) \/ Close(g) \/ Retry(g) \/ ChangeRoute(g) \/ Built(g)
                 \/ BuildFails(g) \/ Bind(g) \/ LowerFlag(g)
        PROVE  \E h \in Goroutine : pc'[h] \in Up
    <2>1. closed' = closed
      BY <1>2 DEF Admit, Close, Retry, TryClose, ChangeRoute, Announce, WaitClosed,
         SetAddr, InitRunning, InitBreak, Built, BuildFails, Bind, LowerFlag, flags
    <2>2. pc[g] \notin Up
      BY <1>2 DEF Admit, Close, Retry, ChangeRoute, Announce, WaitClosed, SetAddr,
         InitRunning, InitBreak, Built, BuildFails, Bind, LowerFlag, Serving
    <2>3. PICK l \in Labels : pc' = [pc EXCEPT ![g] = l]
      BY <1>2 DEF Admit, Close, Retry, TryClose, ChangeRoute, Announce, WaitClosed,
         SetAddr, InitRunning, InitBreak, Built, BuildFails, Bind, LowerFlag, Goto,
         Labels, Underway, Changing, Starting
    <2>4. \A h \in Goroutine : pc[h] \in Up => pc'[h] \in Up
      <3>1. \A h \in Goroutine \ {g} : pc'[h] = pc[h]
        BY <2>3 DEF TypeOK
      <3> QED
        BY <2>2, <3>1
    <2> QED
      BY <1>1, <2>1, <2>4
  <1>3. ASSUME NEW g \in Goroutine, Break(g) PROVE \E h \in Goroutine : pc'[h] \in Up
    <2>1. closed' = closed /\ pc[g] = "break" /\ \A h \in Goroutine \ {g} : pc'[h] = pc[h]
      BY <1>3, ReturnFacts, Zenon
    <2>2. \A h \in Goroutine : pc[h] \in Up => pc'[h] \in Up
      BY <2>1 DEF Serving
    <2> QED
      BY <1>1, <2>1, <2>2
  <1>4. ASSUME NEW g \in Goroutine, Open(g) \/ Leave(g)
        PROVE  \E h \in Goroutine : pc'[h] \in Up
    BY <1>4 DEF Open, Leave
  <1>5. ASSUME NEW g \in Goroutine, LowerClosed(g) \/ Run(g)
        PROVE  \E h \in Goroutine : pc'[h] \in Up
    <2>1. pc' = [pc EXCEPT ![g] = "run"] \/ pc' = [pc EXCEPT ![g] = "loop"]
      BY <1>5 DEF LowerClosed, Run, Goto
    <2>2. pc'[g] \in Up
      BY <2>1 DEF TypeOK, Serving
    <2> QED
      BY <2>2
  <1>6. ASSUME NEW g \in Goroutine,
               FewErrors(g) \/ GiveUp(g) \/ CheckFlag(g) \/ Accept(g) \/ AcceptOther(g)
        PROVE  \E h \in Goroutine : pc'[h] \in Up
    <2>1. closed' = closed
      BY <1>6 DEF FewErrors, GiveUp, CheckFlag, Accept, AcceptOther, flags
    <2>2. PICK l \in {"check", "leave", "accept", "loop"} : pc' = [pc EXCEPT ![g] = l]
      BY <1>6 DEF FewErrors, GiveUp, CheckFlag, Accept, AcceptOther, Goto
    <2>3. \A h \in Goroutine : pc[h] \in Up => pc'[h] \in Up
      <3>1. pc'[g] = l /\ \A h \in Goroutine \ {g} : pc'[h] = pc[h]
        BY <2>2 DEF TypeOK
      <3>2. l \in Up
        BY DEF Serving
      <3> QED
        BY <3>1, <3>2
    <2> QED
      BY <1>1, <2>1, <2>3
  <1>7. ASSUME NEW g \in Goroutine, ManyErrors(g) PROVE \E h \in Goroutine : pc'[h] \in Up
    <2>1. PICK n \in Nexts : /\ pc[n] = "idle" /\ pc[g] = "loop"
                            /\ pc' = [pc EXCEPT ![g] = "leave", ![n] = "change"]
      BY <1>7 DEF ManyErrors
    <2>2. pc'[g] = "leave"
      BY <2>1 DEF TypeOK
    <2> QED
      BY <2>2
  <1>8. ASSUME UNCHANGED <<pc, closed>> PROVE \E h \in Goroutine : pc'[h] \in Up
    BY <1>1, <1>8
  <1>9. CASE (\E g \in Goroutine : Dial(g)) \/ SetChangeRoute \/ Collect \/ UNCHANGED vars
    BY <1>8, <1>9 DEF Dial, SetChangeRoute, Collect, vars, flags
  <1> HIDE DEF Up
  <1> QED
    BY <1>2, <1>3, <1>4, <1>5, <1>6, <1>7, <1>9, Zenon DEF Next, Step, Start, Loop

\* A change is held up at two places only: before closed is raised, and while
\* the port is taken.  In the first case another goroutine has a loop that is
\* about to leave, or that was told to and is not asleep; in the second nobody
\* uses the listener any more, so that it is there to be collected.
WaitsForTheLeaving ==
    ~crowded => \A g \in Goroutine :
      /\ pc[g] = "wait" /\ ~closed =>
           \E h \in Goroutine \ {g} :
             \/ pc[h] = "leave"
             \/ /\ pc[h] \in Serving /\ closeFlag
                /\ pc[h] = "accept" => backlog \/ wakers # {}
      /\ pc[g] = "bind" /\ owner # None => pc[owner] \notin Holding

\* No change waits for something that nobody is going to do, as long as
\* changes do not crowd each other: ChangeRoute's polling of closed and the
\* second-by-second retries of Listen have somebody to wait for.
THEOREM NoChangeIsStuck == Spec => []WaitsForTheLeaving
  <1>1. TypeOK /\ Owned /\ Alone /\ Exclusive /\ FlagIsHeard /\ AcceptIsWoken /\ Alive
          => WaitsForTheLeaving
    <2> SUFFICES ASSUME TypeOK, Owned, Alone, Exclusive, FlagIsHeard, AcceptIsWoken,
                        Alive, ~crowded, NEW g \in Goroutine
                 PROVE  /\ pc[g] = "wait" /\ ~closed =>
                             \E h \in Goroutine \ {g} :
                               \/ pc[h] = "leave"
                               \/ /\ pc[h] \in Serving /\ closeFlag
                                  /\ pc[h] = "accept" => backlog \/ wakers # {}
                        /\ pc[g] = "bind" /\ owner # None => pc[owner] \notin Holding
      BY DEF WaitsForTheLeaving
    <2>1. ASSUME pc[g] = "wait", ~closed
          PROVE  \E h \in Goroutine \ {g} :
                   \/ pc[h] = "leave"
                   \/ /\ pc[h] \in Serving /\ closeFlag
                      /\ pc[h] = "accept" => backlog \/ wakers # {}
      <3>1. PICK h \in Goroutine : pc[h] \in {"open", "run", "leave"} \cup Serving
        BY <2>1 DEF Alive
      <3>2. h # g
        BY <2>1, <3>1 DEF Serving
      <3>3. pc[h] \notin {"open", "run"}
        BY <2>1, <3>2 DEF Alone, Underway, Changing, Starting
      <3>4. closeFlag \/ \E k \in Goroutine : pc[k] = "leave"
        BY <2>1 DEF FlagIsHeard
      <3>5. CASE \E k \in Goroutine : pc[k] = "leave"
        BY <2>1, <3>5
      <3>6. CASE closeFlag
        <4>1. pc[h] = "accept" => backlog \/ wakers # {}
          BY <3>6 DEF AcceptIsWoken
        <4> QED
          BY <3>1, <3>2, <3>3, <3>6, <4>1
      <3> QED
        BY <3>4, <3>5, <3>6
    <2>2. ASSUME pc[g] = "bind", owner # None, pc[owner] \in Holding PROVE FALSE
      <3>1. owner \in Goroutine /\ owner # g
        BY <2>2 DEF TypeOK, Holding, Serving
      <3>2. CASE pc[owner] \in Serving
        BY <2>2, <3>1, <3>2 DEF Exclusive, Past, Starting
      <3>3. CASE pc[owner] \in {"lower", "unclose", "run"}
        BY <2>2, <3>1, <3>3 DEF Alone, Underway, Starting
      <3> QED
        BY <2>2, <3>2, <3>3 DEF Holding
    <2> QED
      BY <2>1, <2>2
  <1>2. Spec => [](TypeOK /\ Owned)
    BY TypeInit, TypeStep, PTL DEF Spec
  <1>3. Spec => []AcceptIsWoken
    BY <1>2, WokenInit, WokenStep, PTL DEF Spec
  <1>4. Spec => []Alive
    BY <1>2, AliveInit, AliveStep, PTL DEF Spec
  <1> QED
    BY <1>1, <1>2, <1>3, <1>4, CalmAlways, PTL

-----------------------------------------------------------------------------
(* The finding on the message "this is break, try next !!!", in general.   *)

\* IsRunning and IsBreak exclude each other: Init lowers both, and its
\* goroutine raises one; it lowers IsRunning before it raises IsBreak.
Stopped ==
    ~crowded =>
      /\ isBreak => ~isRunning
      /\ \A g \in Goroutine : pc[g] = "break" => ~isRunning
      /\ \A g \in Goroutine : pc[g] \in Starting \ {"break"} => ~isBreak

LEMMA StoppedInit == Init => Stopped
  BY DEF Init, Stopped, Starting

LEMMA StoppedStep == TypeOK /\ Alone /\ Stopped /\ [Next]_vars => Stopped'
  <1> SUFFICES ASSUME TypeOK, Alone, Stopped, [Next]_vars, ~crowded'
               PROVE  Stopped'
    BY DEF Stopped
  <1> USE ConstantFacts
  \* Steps that leave the two flags alone and bring nobody to a new place
  \* that Stopped speaks of.
  <1>1. ASSUME ~crowded, isRunning' = isRunning, isBreak' = isBreak,
               \A h \in Goroutine :
                 /\ pc'[h] = "break" => pc[h] = "break"
                 /\ pc'[h] \in Starting \ {"break"} => pc[h] \in Starting \ {"break"}
        PROVE  Stopped'
    BY <1>1 DEF Stopped
  <1>2. ASSUME NEW g \in Goroutine,
               \/ Admit(g) \/ Close(g) \/ Retry(g) \/ Announce(g) \/ WaitClosed(g)
               \/ SetAddr(g) \/ FewErrors(g) \/ GiveUp(g) \/ CheckFlag(g) \/ Accept(g)
               \/ AcceptOther(g)
        PROVE  Stopped'
    <2>1. isRunning' = isRunning /\ isBreak' = isBreak
      BY <1>2 DEF Admit, Close, Retry, TryClose, Announce, WaitClosed, SetAddr,
         FewErrors, GiveUp, CheckFlag, Accept, AcceptOther, flags
    <2>2. PICK l \in Changing \cup Serving \cup {"close", "leave"} :
            pc' = [pc EXCEPT ![g] = l]
      BY <1>2 DEF Admit, Close, Retry, TryClose, Announce, WaitClosed, SetAddr,
         FewErrors, GiveUp, CheckFlag, Accept, AcceptOther, Goto, Changing, Serving
    <2>3. ~crowded
      <3>1. crowded => crowded'
        BY <1>2, Zenon DEF Admit, Crowds, Close, Retry, TryClose, Announce, WaitClosed,
           SetAddr, FewErrors, GiveUp, CheckFlag, Accept, AcceptOther, history
      <3> QED
        BY <3>1
    <2>4. l \notin Starting
      BY <2>2 DEF Changing, Serving, Starting
    <2>5. pc'[g] = l /\ \A h \in Goroutine \ {g} : pc'[h] = pc[h]
      BY <2>2 DEF TypeOK
    <2>6. l # "break"
      BY <2>4 DEF Starting
    <2> QED
      BY <1>1, <2>1, <2>3, <2>4, <2>5, <2>6
  <1>3. ASSUME NEW g \in Goroutine, Leave(g) PROVE Stopped'
    <2>1. /\ isRunning' = isRunning /\ isBreak' = isBreak /\ (crowded => crowded')
          /\ pc'[g] \in {"retry", "done"} /\ \A h \in Goroutine \ {g} : pc'[h] = pc[h]
      BY <1>3, ReturnFacts, Zenon
    <2> QED
      BY <1>1, <2>1 DEF Starting
  <1>4. ASSUME NEW g \in Goroutine, Break(g) PROVE Stopped'
    <2>1. /\ isRunning' = isRunning /\ (crowded => crowded') /\ pc[g] = "break"
          /\ pc'[g] \in {"retry", "done"} /\ \A h \in Goroutine \ {g} : pc'[h] = pc[h]
      BY <1>4, ReturnFacts, Zenon
    <2>2. ~isRunning
      BY <2>1 DEF Stopped
    <2>3. ASSUME NEW h \in Goroutine PROVE pc'[h] \notin Starting
      BY <2>1 DEF Alone, Underway, Starting
    <2> QED
      BY <2>1, <2>2, <2>3 DEF Stopped
  <1>5. ASSUME NEW g \in Goroutine, InitRunning(g) \/ BuildFails(g) PROVE Stopped'
    <2>1. ~isRunning' /\ isBreak' = isBreak /\ crowded' = crowded
      BY <1>5, Zenon DEF InitRunning, BuildFails, history
    <2>2. pc' = [pc EXCEPT ![g] = "reset"] \/ pc' = [pc EXCEPT ![g] = "break"]
      BY <1>5 DEF InitRunning, BuildFails, Goto
    <2>3. \A h \in Goroutine :
            pc'[h] \in Starting \ {"break"} => pc[h] \in Starting \ {"break"}
      BY <2>2 DEF TypeOK, Starting
    <2> QED
      BY <2>1, <2>3 DEF Stopped
  <1>6. ASSUME NEW g \in Goroutine, InitBreak(g) PROVE Stopped'
    <2>1. isRunning' = isRunning /\ ~isBreak' /\ crowded' = crowded
      BY <1>6, Zenon DEF InitBreak, history
    <2>2. pc' = [pc EXCEPT ![g] = "open"]
      BY <1>6 DEF InitBreak, Goto
    <2>3. \A h \in Goroutine : pc'[h] = "break" => pc[h] = "break"
      BY <2>2 DEF TypeOK
    <2> QED
      BY <2>1, <2>3 DEF Stopped
  <1>7. ASSUME NEW g \in Goroutine,
               Open(g) \/ Built(g) \/ Bind(g) \/ LowerFlag(g) \/ LowerClosed(g)
        PROVE  Stopped'
    <2>1. isRunning' = isRunning /\ isBreak' = isBreak /\ crowded' = crowded
      BY <1>7 DEF Open, Built, Bind, LowerFlag, LowerClosed, flags, history
    <2>2. /\ pc[g] \in Starting \ {"break"}
          /\ \E l \in Starting \ {"break"} : pc' = [pc EXCEPT ![g] = l]
      BY <1>7 DEF Open, Built, Bind, LowerFlag, LowerClosed, Goto, Starting
    <2>3. \A h \in Goroutine :
            /\ pc'[h] = "break" => pc[h] = "break"
            /\ pc'[h] \in Starting \ {"break"} => pc[h] \in Starting \ {"break"}
      BY <2>2 DEF TypeOK
    <2> QED
      BY <1>1, <2>1, <2>3
  <1>8. ASSUME NEW g \in Goroutine, Run(g) PROVE Stopped'
    <2>1. /\ isBreak' = isBreak /\ crowded' = crowded
          /\ pc[g] = "run" /\ pc' = [pc EXCEPT ![g] = "loop"]
      BY <1>8 DEF Run, Goto, history
    <2>2. ~isBreak
      BY <2>1 DEF Stopped, Starting
    <2>3. ASSUME NEW h \in Goroutine PROVE pc'[h] \notin Starting
      BY <2>1 DEF TypeOK, Alone, Underway, Starting
    <2>4. \A h \in Goroutine : pc'[h] # "break"
      BY <2>3 DEF Starting
    <2> QED
      BY <2>1, <2>2, <2>3, <2>4 DEF Stopped
  <1>9. ASSUME NEW g \in Goroutine, ManyErrors(g) PROVE Stopped'
    <2>1. PICK n \in Nexts :
            pc' = [pc EXCEPT ![g] = "leave", ![n] = "change"] /\ Crowds(n)
      BY <1>9, Zenon DEF ManyErrors
    <2>2. isRunning' = isRunning /\ isBreak' = isBreak
      BY <1>9 DEF ManyErrors, flags
    <2>3. ~crowded
      BY <2>1, Zenon DEF Crowds
    <2>4. \A h \in Goroutine : pc'[h] \in {"leave", "change", pc[h]}
      BY <2>1 DEF TypeOK
    <2> QED
      BY <1>1, <2>2, <2>3, <2>4 DEF Starting
  <1>10. CASE (\E g \in Goroutine : Dial(g)) \/ SetChangeRoute \/ Collect \/ UNCHANGED vars
    <2>1. isRunning' = isRunning /\ isBreak' = isBreak /\ crowded' = crowded /\ pc' = pc
      BY <1>10 DEF Dial, SetChangeRoute, Collect, vars, flags, history
    <2> QED
      BY <1>1, <2>1
  <1> QED
    BY <1>2, <1>3, <1>4, <1>5, <1>6, <1>7, <1>8, <1>9, <1>10, Zenon DEF Next, Step,
       ChangeRoute, Start, Loop

\* A client whose route broke, and whose status line asks the user to try the
\* next one, admits no switch: the handler answers "wait ...".  This holds as
\* long as no two changes have ever overlapped.  crowded stays raised: after an
\* overlap, even one long over, a start that broke and one that ran can leave
\* both IsBreak and IsRunning raised, and a switch is admitted.
NoSwitchFromBroken == [][\A g \in Switches : isBreak /\ Admit(g) => crowded']_vars

\* So the finding on NextCanBeTried is no accident of the instance that TLC
\* explores: no client whose changes never overlapped gets out of a broken
\* route by a switch.
THEOREM BrokenIsStopped == Spec => NoSwitchFromBroken
  <1>1. Stopped /\ [Next]_vars => [\A g \in Switches : isBreak /\ Admit(g) => crowded']_vars
    <2> SUFFICES ASSUME Stopped, NEW g \in Switches, isBreak, Admit(g), ~crowded'
                 PROVE  FALSE
      OBVIOUS
    <2>1. isRunning
      BY Zenon DEF Admit
    <2>2. ~crowded
      BY Zenon DEF Admit, Crowds
    <2> QED
      BY <2>1, <2>2 DEF Stopped
  <1>2. Spec => [](TypeOK /\ Owned)
    BY TypeInit, TypeStep, PTL DEF Spec
  <1>3. Spec => []Stopped
    BY <1>2, CalmAlways, StoppedInit, StoppedStep, PTL DEF Spec
  <1> QED
    BY <1>1, <1>3, PTL DEF Spec, NoSwitchFromBroken

================================================================================
