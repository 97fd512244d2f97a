--------------------------- MODULE TCPServerProofs ---------------------------
(***************************************************************************)
(* Proofs about TCPServer for any set of workers and connections.  IInv,   *)
(* the inductive invariant, is the conjunction of nine parts; there is one *)
(* lemma for each part, with one step for each action that touches the     *)
(* variables of the part and a last one for all the others.  The theorems  *)
(* the runs illustrate follow from it, and so does the refinement of       *)
(* RequestService.                                                         *)
(***************************************************************************)
EXTENDS TCPServer, SequenceTheorems, FiniteSetTheorems, TLAPS

\* queue_add: exactly one element more, distinct if it was new.
LEMMA AppendRange ==
    ASSUME NEW S, NEW s \in Seq(S), NEW x \in S
    PROVE  /\ Append(s, x) \in Seq(S)
           /\ Append(s, x) # <<>>
           /\ Range(Append(s, x)) = Range(s) \cup {x}
           /\ IsInjective(s) /\ x \notin Range(s) => IsInjective(Append(s, x))
  <1>1. /\ Append(s, x) \in Seq(S)
        /\ Len(Append(s, x)) = Len(s) + 1
        /\ DOMAIN Append(s, x) = 1 .. Len(s) + 1
        /\ DOMAIN s = 1 .. Len(s) /\ Len(s) \in Nat
        /\ \A i \in 1 .. Len(s) : Append(s, x)[i] = s[i]
        /\ Append(s, x)[Len(s) + 1] = x
    OBVIOUS
  <1>2. Append(s, x) # <<>>
    BY <1>1
  <1>3. Range(Append(s, x)) = Range(s) \cup {x}
    BY <1>1 DEF Range
  <1>4. IsInjective(s) /\ x \notin Range(s) => IsInjective(Append(s, x))
    BY <1>1 DEF IsInjective, Range
  <1> QED
    BY <1>1, <1>2, <1>3, <1>4

\* queue_pop: the head goes, everything else stays and stays distinct.
LEMMA HeadTailRange ==
    ASSUME NEW S, NEW s \in Seq(S), s # <<>>
    PROVE  /\ Head(s) \in S /\ Head(s) \in Range(s)
           /\ Tail(s) \in Seq(S)
           /\ Range(Tail(s)) \subseteq Range(s)
           /\ Range(s) = Range(Tail(s)) \cup {Head(s)}
           /\ IsInjective(s) => IsInjective(Tail(s)) /\ Head(s) \notin Range(Tail(s))
  <1>1. /\ Tail(s) \in Seq(S) /\ Head(s) = s[1] /\ s[1] \in S
        /\ Len(s) \in Nat /\ Len(s) >= 1
        /\ DOMAIN s = 1 .. Len(s)
        /\ DOMAIN Tail(s) = 1 .. Len(s) - 1
        /\ \A i \in 1 .. Len(s) - 1 : Tail(s)[i] = s[i + 1]
    OBVIOUS
  <1>2. Head(s) \in Range(s) /\ Range(Tail(s)) \subseteq Range(s)
    BY <1>1 DEF Range
  <1>3. Range(s) \subseteq Range(Tail(s)) \cup {Head(s)}
    <2> SUFFICES ASSUME NEW i \in 1 .. Len(s)
                 PROVE  s[i] \in Range(Tail(s)) \cup {Head(s)}
      BY <1>1 DEF Range
    <2>1. CASE i = 1
      BY <2>1, <1>1
    <2>2. CASE i # 1
      <3>1. i - 1 \in 1 .. Len(s) - 1 /\ Tail(s)[i - 1] = s[i]
        BY <2>2, <1>1
      <3> QED
        BY <3>1, <1>1 DEF Range
    <2> QED
      BY <2>1, <2>2
  <1>4. IsInjective(s) => IsInjective(Tail(s)) /\ Head(s) \notin Range(Tail(s))
    BY <1>1 DEF IsInjective, Range
  <1> QED
    BY <1>1, <1>2, <1>3, <1>4

\* An empty queue holds nothing, once.
LEMMA EmptyRange == Range(<<>>) = {} /\ IsInjective(<<>>)
  BY DEF Range, IsInjective

\* Every step of a thread keeps the variables in their types.
LEMMA TypeStep ==
    ASSUME IInv, [Next]_vars
    PROVE  TypeOK'
  <1> USE DEF IInv, TypeOK, Thread, WorkerPC, AcceptorPC, MainPC,
             server, sync, net, worker, accepting, main, clients, WorkerAt, AcceptorAt, MainAt
  <1>1. ASSUME NEW w \in Worker, WorkerTest(w)
       PROVE  TypeOK'
    BY <1>1 DEF WorkerTest
  <1>2. ASSUME NEW w \in Worker, WorkerLock(w)
       PROVE  TypeOK'
    BY <1>2 DEF WorkerLock
  <1>3. ASSUME NEW w \in Worker, WorkerPeek(w)
       PROVE  TypeOK'
    BY <1>3 DEF WorkerPeek
  <1>4. ASSUME NEW w \in Worker, WorkerRelock(w)
       PROVE  TypeOK'
    BY <1>4 DEF WorkerRelock
  <1>5. ASSUME NEW w \in Worker, WorkerUnlock(w)
       PROVE  TypeOK'
    BY <1>5 DEF WorkerUnlock
  <1>6. ASSUME NEW w \in Worker, WorkerPop(w)
       PROVE  TypeOK'
    <2>1. request_queue # <<>> /\ request_queue \in Seq(Client)
      BY <1>6 DEF WorkerPop, HandsInv
    <2> QED
      BY <2>1, <1>6, HeadTailRange DEF WorkerPop
  <1>7. ASSUME NEW w \in Worker, WorkerRead(w)
       PROVE  TypeOK'
    BY <1>7 DEF WorkerRead
  <1>8. ASSUME NEW w \in Worker, WorkerEnsure(w)
       PROVE  TypeOK'
    BY <1>8 DEF WorkerEnsure
  <1>9. ASSUME NEW w \in Worker, CallbackMissing(w)
       PROVE  TypeOK'
    BY <1>9 DEF CallbackMissing
  <1>10. ASSUME NEW w \in Worker, CallbackEntered(w)
       PROVE  TypeOK'
    BY <1>10 DEF CallbackEntered
  <1>11. ASSUME NEW w \in Worker, CallbackResumes(w)
       PROVE  TypeOK'
    BY <1>11 DEF CallbackResumes
  <1>12. ASSUME NEW w \in Worker, CallbackReturns(w)
       PROVE  TypeOK'
    BY <1>12 DEF CallbackReturns
  <1>13. ASSUME NEW w \in Worker, WorkerReply(w)
       PROVE  TypeOK'
    <2>1. reply' \in [Client -> {"none", "message", "zeros"}]
      BY <1>13 DEF WorkerReply
    <2> QED
      BY <2>1, <1>13 DEF WorkerReply
  <1>14. ASSUME NEW w \in Worker, WorkerClose(w)
       PROVE  TypeOK'
    <2>1. conn' \in [Client -> {"new", "backlog", "open", "closed", "reset"}]
      BY <1>14 DEF WorkerClose
    <2> QED
      BY <2>1, <1>14 DEF WorkerClose
  <1>15. ASSUME NEW w \in Worker, SpuriousWakeup(w)
       PROVE  TypeOK'
    BY <1>15 DEF SpuriousWakeup
  <1>16. ASSUME NEW w \in Worker, CallbackYields(w)
       PROVE  TypeOK'
    BY <1>16 DEF CallbackYields
  <1>17. ASSUME AcceptorEnter
       PROVE  TypeOK'
    BY <1>17 DEF AcceptorEnter
  <1>18. ASSUME AcceptorTest
       PROVE  TypeOK'
    BY <1>18 DEF AcceptorTest
  <1>19. ASSUME Accept
       PROVE  TypeOK'
    BY <1>19, HeadTailRange DEF Accept
  <1>20. ASSUME AcceptFails
       PROVE  TypeOK'
    BY <1>20 DEF AcceptFails
  <1>21. ASSUME AcceptorLock
       PROVE  TypeOK'
    BY <1>21 DEF AcceptorLock
  <1>22. ASSUME AcceptorAdd
       PROVE  TypeOK'
    <2>1. client_sock \in Client /\ request_queue \in Seq(Client)
      BY <1>22, ThreadsAssumption DEF AcceptorAdd, HandsInv, LockDiscipline
    <2> QED
      BY <2>1, <1>22, AppendRange DEF AcceptorAdd
  <1>23. ASSUME AcceptorNotify
       PROVE  TypeOK'
    BY <1>23 DEF AcceptorNotify
  <1>24. ASSUME AcceptorExit
       PROVE  TypeOK'
    <2>1. bound' \in BOOLEAN
      BY <1>24 DEF AcceptorExit
    <2>2. is_alive' \in BOOLEAN
      BY <1>24 DEF AcceptorExit
    <2> QED
      BY <2>1, <2>2, <1>24 DEF AcceptorExit
  <1>25. ASSUME StartSocket
       PROVE  TypeOK'
    <2>1. bound' \in BOOLEAN
      BY <1>25 DEF StartSocket
    <2> QED
      BY <2>1, <1>25 DEF StartSocket
  <1>26. ASSUME StartRunThread
       PROVE  TypeOK'
    BY <1>26 DEF StartRunThread
  <1>27. ASSUME StopLock
       PROVE  TypeOK'
    BY <1>27 DEF StopLock
  <1>28. ASSUME StopClear
       PROVE  TypeOK'
    <2>1. keep_alive' \in BOOLEAN
      BY <1>28 DEF StopClear
    <2> QED
      BY <2>1, <1>28 DEF StopClear
  <1>29. ASSUME StopSignal
       PROVE  TypeOK'
    BY <1>29 DEF StopSignal
  <1>30. ASSUME StopJoinWorkers
       PROVE  TypeOK'
    BY <1>30 DEF StopJoinWorkers
  <1>31. ASSUME StopShutdown
       PROVE  TypeOK'
    BY <1>31 DEF StopShutdown
  <1>32. ASSUME StopReturns
       PROVE  TypeOK'
    BY <1>32 DEF StopReturns
  <1>33. ASSUME StartWorkers
       PROVE  TypeOK'
    BY <1>33 DEF StartWorkers
  <1>34. ASSUME StopCalled
       PROVE  TypeOK'
    BY <1>34 DEF StopCalled
  <1>35. ASSUME SetCallback
       PROVE  TypeOK'
    BY <1>35 DEF SetCallback
  <1>36. ASSUME Dealloc
       PROVE  TypeOK'
    <2>1. CASE is_alive
      <3>1. mpc' = "stop" /\ gil' = Main /\ request_queue' = request_queue
        BY <1>36, <2>1 DEF Dealloc
      <3> QED
        BY <3>1, <1>36 DEF Dealloc
    <2>2. CASE ~is_alive
      <3>1. mpc' = "freed" /\ gil' = gil /\ request_queue' = <<>>
        BY <1>36, <2>2 DEF Dealloc
      <3> QED
        BY <3>1, <1>36 DEF Dealloc
    <2> QED
      BY <2>1, <2>2
  <1>37. ASSUME NEW c \in Client, Connect(c)
       PROVE  TypeOK'
    BY <1>37, AppendRange DEF Connect
  <1>38. ASSUME NEW c \in Client, Send(c)
       PROVE  TypeOK'
    BY <1>38 DEF Send
  <1>39. ASSUME UNCHANGED vars
       PROVE  TypeOK'
    BY <1>39 DEF vars
  <1> QED
    BY <1>1, <1>2, <1>3, <1>4, <1>5, <1>6, <1>7, <1>8, <1>9, <1>10, <1>11, <1>12, <1>13,
       <1>14, <1>15, <1>16, <1>17, <1>18, <1>19, <1>20, <1>21, <1>22, <1>23, <1>24,
       <1>25, <1>26, <1>27, <1>28, <1>29, <1>30, <1>31, <1>32, <1>33, <1>34, <1>35,
       <1>36, <1>37, <1>38, <1>39
    DEF Next, vars, WorkerStep, AcceptorStep, MethodStep, MethodCall

\* Lock and unlock come in pairs on every path through the code (89-98, 271-274, 312-314).
LEMMA LockStep ==
    ASSUME IInv, [Next]_vars
    PROVE  LockDiscipline'
  <1> USE DEF IInv, TypeOK, LockDiscipline, WorkerPC,
             server, sync, net, worker, accepting, main, clients, WorkerAt, AcceptorAt, MainAt
  <1>1. ASSUME NEW w \in Worker, WorkerTest(w)
       PROVE  LockDiscipline'
    BY <1>1, ThreadsAssumption DEF WorkerTest
  <1>2. ASSUME NEW w \in Worker, WorkerLock(w)
       PROVE  LockDiscipline'
    BY <1>2, ThreadsAssumption DEF WorkerLock
  <1>3. ASSUME NEW w \in Worker, WorkerPeek(w)
       PROVE  LockDiscipline'
    BY <1>3, ThreadsAssumption DEF WorkerPeek
  <1>4. ASSUME NEW w \in Worker, WorkerRelock(w)
       PROVE  LockDiscipline'
    BY <1>4, ThreadsAssumption DEF WorkerRelock
  <1>5. ASSUME NEW w \in Worker, WorkerUnlock(w)
       PROVE  LockDiscipline'
    BY <1>5, ThreadsAssumption DEF WorkerUnlock
  <1>6. ASSUME NEW w \in Worker, WorkerPop(w)
       PROVE  LockDiscipline'
    BY <1>6, ThreadsAssumption DEF WorkerPop
  <1>7. ASSUME NEW w \in Worker, WorkerRead(w)
       PROVE  LockDiscipline'
    BY <1>7, ThreadsAssumption DEF WorkerRead
  <1>8. ASSUME NEW w \in Worker, WorkerEnsure(w)
       PROVE  LockDiscipline'
    BY <1>8, ThreadsAssumption DEF WorkerEnsure
  <1>9. ASSUME NEW w \in Worker, CallbackMissing(w)
       PROVE  LockDiscipline'
    BY <1>9, ThreadsAssumption DEF CallbackMissing
  <1>10. ASSUME NEW w \in Worker, CallbackEntered(w)
       PROVE  LockDiscipline'
    BY <1>10, ThreadsAssumption DEF CallbackEntered
  <1>11. ASSUME NEW w \in Worker, CallbackReturns(w)
       PROVE  LockDiscipline'
    BY <1>11, ThreadsAssumption DEF CallbackReturns
  <1>12. ASSUME NEW w \in Worker, WorkerReply(w)
       PROVE  LockDiscipline'
    BY <1>12, ThreadsAssumption DEF WorkerReply
  <1>13. ASSUME NEW w \in Worker, WorkerClose(w)
       PROVE  LockDiscipline'
    BY <1>13, ThreadsAssumption DEF WorkerClose
  <1>14. ASSUME AcceptorEnter
       PROVE  LockDiscipline'
    BY <1>14, ThreadsAssumption DEF AcceptorEnter
  <1>15. ASSUME AcceptorTest
       PROVE  LockDiscipline'
    BY <1>15, ThreadsAssumption DEF AcceptorTest
  <1>16. ASSUME Accept
       PROVE  LockDiscipline'
    BY <1>16, ThreadsAssumption DEF Accept
  <1>17. ASSUME AcceptFails
       PROVE  LockDiscipline'
    BY <1>17, ThreadsAssumption DEF AcceptFails
  <1>18. ASSUME AcceptorLock
       PROVE  LockDiscipline'
    BY <1>18, ThreadsAssumption DEF AcceptorLock
  <1>19. ASSUME AcceptorAdd
       PROVE  LockDiscipline'
    BY <1>19, ThreadsAssumption DEF AcceptorAdd
  <1>20. ASSUME AcceptorNotify
       PROVE  LockDiscipline'
    BY <1>20, ThreadsAssumption DEF AcceptorNotify
  <1>21. ASSUME AcceptorExit
       PROVE  LockDiscipline'
    BY <1>21, ThreadsAssumption DEF AcceptorExit
  <1>22. ASSUME StartSocket
       PROVE  LockDiscipline'
    BY <1>22, ThreadsAssumption DEF StartSocket
  <1>23. ASSUME StartRunThread
       PROVE  LockDiscipline'
    BY <1>23, ThreadsAssumption DEF StartRunThread, PhaseInv
  <1>24. ASSUME StopLock
       PROVE  LockDiscipline'
    BY <1>24, ThreadsAssumption DEF StopLock
  <1>25. ASSUME StopClear
       PROVE  LockDiscipline'
    BY <1>25, ThreadsAssumption DEF StopClear
  <1>26. ASSUME StopSignal
       PROVE  LockDiscipline'
    BY <1>26, ThreadsAssumption DEF StopSignal
  <1>27. ASSUME StopJoinWorkers
       PROVE  LockDiscipline'
    BY <1>27, ThreadsAssumption DEF StopJoinWorkers
  <1>28. ASSUME StopShutdown
       PROVE  LockDiscipline'
    BY <1>28, ThreadsAssumption DEF StopShutdown
  <1>29. ASSUME StopReturns
       PROVE  LockDiscipline'
    BY <1>29, ThreadsAssumption DEF StopReturns
  <1>30. ASSUME StartWorkers
       PROVE  LockDiscipline'
    BY <1>30, ThreadsAssumption DEF StartWorkers, PhaseInv
  <1>31. ASSUME StopCalled
       PROVE  LockDiscipline'
    BY <1>31, ThreadsAssumption DEF StopCalled
  <1>32. ASSUME Dealloc
       PROVE  LockDiscipline'
    BY <1>32, ThreadsAssumption DEF Dealloc
  <1>33. ASSUME UNCHANGED <<lock, wpc, apc, mpc>>
       PROVE  LockDiscipline'
    BY <1>33
  <1> QED
    BY <1>1, <1>2, <1>3, <1>4, <1>5, <1>6, <1>7, <1>8, <1>9, <1>10, <1>11, <1>12, <1>13,
       <1>14, <1>15, <1>16, <1>17, <1>18, <1>19, <1>20, <1>21, <1>22, <1>23, <1>24,
       <1>25, <1>26, <1>27, <1>28, <1>29, <1>30, <1>31, <1>32, <1>33
    DEF Next, vars, WorkerStep, AcceptorStep, MethodStep, MethodCall, CallbackResumes,
        SpuriousWakeup, CallbackYields, SetCallback, Connect, Send

\* The GIL is taken and given back in pairs (116-143, and by every method call).
LEMMA GilStep ==
    ASSUME IInv, [Next]_vars
    PROVE  GilDiscipline'
  <1> USE DEF IInv, TypeOK, GilDiscipline, WorkerPC,
             server, sync, net, worker, accepting, main, clients, WorkerAt, AcceptorAt, MainAt
  <1>1. ASSUME NEW w \in Worker, WorkerTest(w)
       PROVE  GilDiscipline'
    BY <1>1, ThreadsAssumption DEF WorkerTest
  <1>2. ASSUME NEW w \in Worker, WorkerLock(w)
       PROVE  GilDiscipline'
    BY <1>2, ThreadsAssumption DEF WorkerLock
  <1>3. ASSUME NEW w \in Worker, WorkerPeek(w)
       PROVE  GilDiscipline'
    BY <1>3, ThreadsAssumption DEF WorkerPeek
  <1>4. ASSUME NEW w \in Worker, WorkerRelock(w)
       PROVE  GilDiscipline'
    BY <1>4, ThreadsAssumption DEF WorkerRelock
  <1>5. ASSUME NEW w \in Worker, WorkerUnlock(w)
       PROVE  GilDiscipline'
    BY <1>5, ThreadsAssumption DEF WorkerUnlock
  <1>6. ASSUME NEW w \in Worker, WorkerPop(w)
       PROVE  GilDiscipline'
    BY <1>6, ThreadsAssumption DEF WorkerPop
  <1>7. ASSUME NEW w \in Worker, WorkerRead(w)
       PROVE  GilDiscipline'
    BY <1>7, ThreadsAssumption DEF WorkerRead
  <1>8. ASSUME NEW w \in Worker, WorkerEnsure(w)
       PROVE  GilDiscipline'
    BY <1>8, ThreadsAssumption DEF WorkerEnsure
  <1>9. ASSUME NEW w \in Worker, CallbackMissing(w)
       PROVE  GilDiscipline'
    BY <1>9, ThreadsAssumption DEF CallbackMissing
  <1>10. ASSUME NEW w \in Worker, CallbackEntered(w)
       PROVE  GilDiscipline'
    BY <1>10, ThreadsAssumption DEF CallbackEntered
  <1>11. ASSUME NEW w \in Worker, CallbackResumes(w)
       PROVE  GilDiscipline'
    BY <1>11, ThreadsAssumption DEF CallbackResumes
  <1>12. ASSUME NEW w \in Worker, CallbackReturns(w)
       PROVE  GilDiscipline'
    BY <1>12, ThreadsAssumption DEF CallbackReturns
  <1>13. ASSUME NEW w \in Worker, WorkerReply(w)
       PROVE  GilDiscipline'
    BY <1>13, ThreadsAssumption DEF WorkerReply
  <1>14. ASSUME NEW w \in Worker, WorkerClose(w)
       PROVE  GilDiscipline'
    BY <1>14, ThreadsAssumption DEF WorkerClose
  <1>15. ASSUME NEW w \in Worker, CallbackYields(w)
       PROVE  GilDiscipline'
    BY <1>15, ThreadsAssumption DEF CallbackYields
  <1>16. ASSUME StartSocket
       PROVE  GilDiscipline'
    BY <1>16, ThreadsAssumption DEF StartSocket
  <1>17. ASSUME StartRunThread
       PROVE  GilDiscipline'
    BY <1>17, ThreadsAssumption DEF StartRunThread
  <1>18. ASSUME StopLock
       PROVE  GilDiscipline'
    BY <1>18, ThreadsAssumption DEF StopLock
  <1>19. ASSUME StopClear
       PROVE  GilDiscipline'
    BY <1>19, ThreadsAssumption DEF StopClear
  <1>20. ASSUME StopSignal
       PROVE  GilDiscipline'
    BY <1>20, ThreadsAssumption DEF StopSignal
  <1>21. ASSUME StopJoinWorkers
       PROVE  GilDiscipline'
    BY <1>21, ThreadsAssumption DEF StopJoinWorkers
  <1>22. ASSUME StopShutdown
       PROVE  GilDiscipline'
    BY <1>22, ThreadsAssumption DEF StopShutdown
  <1>23. ASSUME StopReturns
       PROVE  GilDiscipline'
    BY <1>23, ThreadsAssumption DEF StopReturns
  <1>24. ASSUME StartWorkers
       PROVE  GilDiscipline'
    BY <1>24, ThreadsAssumption DEF StartWorkers
  <1>25. ASSUME StopCalled
       PROVE  GilDiscipline'
    BY <1>25, ThreadsAssumption DEF StopCalled
  <1>26. ASSUME Dealloc
       PROVE  GilDiscipline'
    BY <1>26, ThreadsAssumption DEF Dealloc
  <1>27. ASSUME UNCHANGED <<gil, wpc, mpc>>
       PROVE  GilDiscipline'
    BY <1>27
  <1> QED
    BY <1>1, <1>2, <1>3, <1>4, <1>5, <1>6, <1>7, <1>8, <1>9, <1>10, <1>11, <1>12, <1>13,
       <1>14, <1>15, <1>16, <1>17, <1>18, <1>19, <1>20, <1>21, <1>22, <1>23, <1>24,
       <1>25, <1>26, <1>27
    DEF Next, vars, WorkerStep, AcceptorStep, MethodStep, MethodCall, SpuriousWakeup,
        AcceptorEnter, AcceptorTest, Accept, AcceptFails, AcceptorLock, AcceptorAdd,
        AcceptorNotify, AcceptorExit, SetCallback, Connect, Send

\* A thread has a request in hand exactly between taking it and letting it go,
\* and a worker that saw a request in the queue still finds one when it pops.
LEMMA HandsStep ==
    ASSUME IInv, [Next]_vars
    PROVE  HandsInv'
  <1> USE DEF IInv, TypeOK, LockDiscipline, HandsInv, Serving, PhaseInv, WorkerPC,
             server, sync, net, worker, accepting, main, clients, WorkerAt, AcceptorAt, MainAt
  <1>1. ASSUME NEW w \in Worker, WorkerTest(w)
       PROVE  HandsInv'
    BY <1>1 DEF WorkerTest
  <1>2. ASSUME NEW w \in Worker, WorkerLock(w)
       PROVE  HandsInv'
    BY <1>2 DEF WorkerLock
  <1>3. ASSUME NEW w \in Worker, WorkerPeek(w)
       PROVE  HandsInv'
    BY <1>3 DEF WorkerPeek
  <1>4. ASSUME NEW w \in Worker, WorkerRelock(w)
       PROVE  HandsInv'
    BY <1>4 DEF WorkerRelock
  <1>5. ASSUME NEW w \in Worker, WorkerUnlock(w)
       PROVE  HandsInv'
    BY <1>5 DEF WorkerUnlock
  <1>6. ASSUME NEW w \in Worker, WorkerPop(w)
       PROVE  HandsInv'
    BY <1>6, HeadTailRange, ClientAssumption, ThreadsAssumption DEF WorkerPop
  <1>7. ASSUME NEW w \in Worker, WorkerRead(w)
       PROVE  HandsInv'
    BY <1>7 DEF WorkerRead
  <1>8. ASSUME NEW w \in Worker, WorkerEnsure(w)
       PROVE  HandsInv'
    BY <1>8 DEF WorkerEnsure
  <1>9. ASSUME NEW w \in Worker, CallbackMissing(w)
       PROVE  HandsInv'
    BY <1>9 DEF CallbackMissing
  <1>10. ASSUME NEW w \in Worker, CallbackEntered(w)
       PROVE  HandsInv'
    BY <1>10 DEF CallbackEntered
  <1>11. ASSUME NEW w \in Worker, CallbackReturns(w)
       PROVE  HandsInv'
    BY <1>11 DEF CallbackReturns
  <1>12. ASSUME NEW w \in Worker, WorkerReply(w)
       PROVE  HandsInv'
    BY <1>12 DEF WorkerReply
  <1>13. ASSUME NEW w \in Worker, WorkerClose(w)
       PROVE  HandsInv'
    BY <1>13 DEF WorkerClose
  <1>14. ASSUME NEW w \in Worker, SpuriousWakeup(w)
       PROVE  HandsInv'
    BY <1>14 DEF SpuriousWakeup
  <1>15. ASSUME AcceptorEnter
       PROVE  HandsInv'
    BY <1>15 DEF AcceptorEnter
  <1>16. ASSUME AcceptorTest
       PROVE  HandsInv'
    BY <1>16 DEF AcceptorTest
  <1>17. ASSUME Accept
       PROVE  HandsInv'
    BY <1>17, HeadTailRange, ClientAssumption DEF Accept
  <1>18. ASSUME AcceptFails
       PROVE  HandsInv'
    BY <1>18 DEF AcceptFails
  <1>19. ASSUME AcceptorLock
       PROVE  HandsInv'
    BY <1>19 DEF AcceptorLock
  <1>20. ASSUME AcceptorAdd
       PROVE  HandsInv'
    BY <1>20, AppendRange, ClientAssumption DEF AcceptorAdd
  <1>21. ASSUME AcceptorNotify
       PROVE  HandsInv'
    BY <1>21 DEF AcceptorNotify
  <1>22. ASSUME AcceptorExit
       PROVE  HandsInv'
    BY <1>22 DEF AcceptorExit
  <1>23. ASSUME StartSocket
       PROVE  HandsInv'
    BY <1>23 DEF StartSocket
  <1>24. ASSUME StartRunThread
       PROVE  HandsInv'
    BY <1>24 DEF StartRunThread
  <1>25. ASSUME StopLock
       PROVE  HandsInv'
    BY <1>25 DEF StopLock
  <1>26. ASSUME StopClear
       PROVE  HandsInv'
    BY <1>26 DEF StopClear
  <1>27. ASSUME StopSignal
       PROVE  HandsInv'
    BY <1>27 DEF StopSignal
  <1>28. ASSUME StopJoinWorkers
       PROVE  HandsInv'
    BY <1>28 DEF StopJoinWorkers
  <1>29. ASSUME StopShutdown
       PROVE  HandsInv'
    BY <1>29 DEF StopShutdown
  <1>30. ASSUME StopReturns
       PROVE  HandsInv'
    BY <1>30 DEF StopReturns
  <1>31. ASSUME StartWorkers
       PROVE  HandsInv'
    BY <1>31 DEF StartWorkers
  <1>32. ASSUME StopCalled
       PROVE  HandsInv'
    BY <1>32 DEF StopCalled
  <1>33. ASSUME Dealloc
       PROVE  HandsInv'
    BY <1>33 DEF Dealloc
  <1>34. ASSUME UNCHANGED <<req, wpc, request_queue, client_sock, apc, waiting, mpc>>
       PROVE  HandsInv'
    BY <1>34
  <1> QED
    BY <1>1, <1>2, <1>3, <1>4, <1>5, <1>6, <1>7, <1>8, <1>9, <1>10, <1>11, <1>12, <1>13,
       <1>14, <1>15, <1>16, <1>17, <1>18, <1>19, <1>20, <1>21, <1>22, <1>23, <1>24,
       <1>25, <1>26, <1>27, <1>28, <1>29, <1>30, <1>31, <1>32, <1>33, <1>34
    DEF Next, vars, WorkerStep, AcceptorStep, MethodStep, MethodCall, CallbackResumes,
        CallbackYields, SetCallback, Connect, Send

\* start and stop keep the flags, the threads and the socket in step.
LEMMA PhaseStep ==
    ASSUME IInv, [Next]_vars
    PROVE  PhaseInv'
  <1> USE DEF IInv, TypeOK, PhaseInv,
             server, sync, net, worker, accepting, main, clients, WorkerAt, AcceptorAt, MainAt
  <1>1. ASSUME NEW w \in Worker, WorkerTest(w)
       PROVE  PhaseInv'
    BY <1>1 DEF WorkerTest
  <1>2. ASSUME NEW w \in Worker, WorkerLock(w)
       PROVE  PhaseInv'
    BY <1>2 DEF WorkerLock
  <1>3. ASSUME NEW w \in Worker, WorkerPeek(w)
       PROVE  PhaseInv'
    BY <1>3 DEF WorkerPeek
  <1>4. ASSUME NEW w \in Worker, WorkerRelock(w)
       PROVE  PhaseInv'
    BY <1>4 DEF WorkerRelock
  <1>5. ASSUME NEW w \in Worker, WorkerUnlock(w)
       PROVE  PhaseInv'
    BY <1>5 DEF WorkerUnlock
  <1>6. ASSUME NEW w \in Worker, WorkerPop(w)
       PROVE  PhaseInv'
    BY <1>6 DEF WorkerPop
  <1>7. ASSUME NEW w \in Worker, WorkerRead(w)
       PROVE  PhaseInv'
    BY <1>7 DEF WorkerRead
  <1>8. ASSUME NEW w \in Worker, WorkerEnsure(w)
       PROVE  PhaseInv'
    BY <1>8 DEF WorkerEnsure
  <1>9. ASSUME NEW w \in Worker, CallbackMissing(w)
       PROVE  PhaseInv'
    BY <1>9 DEF CallbackMissing
  <1>10. ASSUME NEW w \in Worker, CallbackEntered(w)
       PROVE  PhaseInv'
    BY <1>10 DEF CallbackEntered
  <1>11. ASSUME NEW w \in Worker, CallbackReturns(w)
       PROVE  PhaseInv'
    BY <1>11 DEF CallbackReturns
  <1>12. ASSUME NEW w \in Worker, WorkerReply(w)
       PROVE  PhaseInv'
    BY <1>12 DEF WorkerReply
  <1>13. ASSUME NEW w \in Worker, WorkerClose(w)
       PROVE  PhaseInv'
    BY <1>13 DEF WorkerClose
  <1>14. ASSUME AcceptorEnter
       PROVE  PhaseInv'
    BY <1>14 DEF AcceptorEnter
  <1>15. ASSUME AcceptorTest
       PROVE  PhaseInv'
    BY <1>15 DEF AcceptorTest
  <1>16. ASSUME Accept
       PROVE  PhaseInv'
    BY <1>16 DEF Accept
  <1>17. ASSUME AcceptFails
       PROVE  PhaseInv'
    BY <1>17 DEF AcceptFails
  <1>18. ASSUME AcceptorLock
       PROVE  PhaseInv'
    BY <1>18 DEF AcceptorLock
  <1>19. ASSUME AcceptorAdd
       PROVE  PhaseInv'
    BY <1>19 DEF AcceptorAdd
  <1>20. ASSUME AcceptorNotify
       PROVE  PhaseInv'
    BY <1>20 DEF AcceptorNotify
  <1>21. ASSUME AcceptorExit
       PROVE  PhaseInv'
    BY <1>21 DEF AcceptorExit
  <1>22. ASSUME StartSocket
       PROVE  PhaseInv'
    BY <1>22 DEF StartSocket
  <1>23. ASSUME StartRunThread
       PROVE  PhaseInv'
    BY <1>23 DEF StartRunThread
  <1>24. ASSUME StopLock
       PROVE  PhaseInv'
    BY <1>24 DEF StopLock
  <1>25. ASSUME StopClear
       PROVE  PhaseInv'
    BY <1>25 DEF StopClear
  <1>26. ASSUME StopSignal
       PROVE  PhaseInv'
    BY <1>26 DEF StopSignal
  <1>27. ASSUME StopJoinWorkers
       PROVE  PhaseInv'
    BY <1>27 DEF StopJoinWorkers
  <1>28. ASSUME StopShutdown
       PROVE  PhaseInv'
    BY <1>28 DEF StopShutdown
  <1>29. ASSUME StopReturns
       PROVE  PhaseInv'
    BY <1>29 DEF StopReturns
  <1>30. ASSUME StartWorkers
       PROVE  PhaseInv'
    BY <1>30 DEF StartWorkers
  <1>31. ASSUME StopCalled
       PROVE  PhaseInv'
    BY <1>31 DEF StopCalled
  <1>32. ASSUME Dealloc
       PROVE  PhaseInv'
    BY <1>32 DEF Dealloc
  <1>33. ASSUME NEW c \in Client, Connect(c)
       PROVE  PhaseInv'
    BY <1>33 DEF Connect
  <1>34. ASSUME UNCHANGED <<mpc, keep_alive, is_alive, wpc, apc, socket, backlog>>
       PROVE  PhaseInv'
    BY <1>34
  <1> QED
    BY <1>1, <1>2, <1>3, <1>4, <1>5, <1>6, <1>7, <1>8, <1>9, <1>10, <1>11, <1>12, <1>13,
       <1>14, <1>15, <1>16, <1>17, <1>18, <1>19, <1>20, <1>21, <1>22, <1>23, <1>24,
       <1>25, <1>26, <1>27, <1>28, <1>29, <1>30, <1>31, <1>32, <1>33, <1>34
    DEF Next, vars, WorkerStep, AcceptorStep, MethodStep, MethodCall, CallbackResumes,
        SpuriousWakeup, CallbackYields, SetCallback, Send

\* A broadcast that follows the enqueue outside the mutex (277) still loses no wakeup.
LEMMA WakeStep ==
    ASSUME IInv, [Next]_vars
    PROVE  NoLostRequest'
  <1> USE DEF IInv, TypeOK, NoLostRequest, HandsInv, PhaseInv,
             server, sync, net, worker, accepting, main, clients, WorkerAt, AcceptorAt, MainAt
  <1>1. ASSUME NEW w \in Worker, WorkerPeek(w)
       PROVE  NoLostRequest'
    BY <1>1 DEF WorkerPeek
  <1>2. ASSUME NEW w \in Worker, WorkerPop(w)
       PROVE  NoLostRequest'
    BY <1>2 DEF WorkerPop
  <1>3. ASSUME NEW w \in Worker, SpuriousWakeup(w)
       PROVE  NoLostRequest'
    BY <1>3 DEF SpuriousWakeup
  <1>4. ASSUME AcceptorEnter
       PROVE  NoLostRequest'
    BY <1>4 DEF AcceptorEnter
  <1>5. ASSUME AcceptorTest
       PROVE  NoLostRequest'
    BY <1>5 DEF AcceptorTest
  <1>6. ASSUME Accept
       PROVE  NoLostRequest'
    BY <1>6 DEF Accept
  <1>7. ASSUME AcceptFails
       PROVE  NoLostRequest'
    BY <1>7 DEF AcceptFails
  <1>8. ASSUME AcceptorLock
       PROVE  NoLostRequest'
    BY <1>8 DEF AcceptorLock
  <1>9. ASSUME AcceptorAdd
       PROVE  NoLostRequest'
    BY <1>9 DEF AcceptorAdd
  <1>10. ASSUME AcceptorNotify
       PROVE  NoLostRequest'
    BY <1>10 DEF AcceptorNotify
  <1>11. ASSUME AcceptorExit
       PROVE  NoLostRequest'
    BY <1>11 DEF AcceptorExit
  <1>12. ASSUME StartRunThread
       PROVE  NoLostRequest'
    BY <1>12 DEF StartRunThread
  <1>13. ASSUME StopSignal
       PROVE  NoLostRequest'
    BY <1>13 DEF StopSignal
  <1>14. ASSUME StopReturns
       PROVE  NoLostRequest'
    BY <1>14 DEF StopReturns
  <1>15. ASSUME Dealloc
       PROVE  NoLostRequest'
    BY <1>15 DEF Dealloc
  <1>16. ASSUME UNCHANGED <<request_queue, apc, waiting>>
       PROVE  NoLostRequest'
    BY <1>16
  <1> QED
    BY <1>1, <1>2, <1>3, <1>4, <1>5, <1>6, <1>7, <1>8, <1>9, <1>10, <1>11, <1>12, <1>13,
       <1>14, <1>15, <1>16
    DEF Next, vars, WorkerStep, AcceptorStep, MethodStep, MethodCall, WorkerTest,
        WorkerLock, WorkerRelock, WorkerUnlock, WorkerRead, WorkerEnsure,
        CallbackMissing, CallbackEntered, CallbackResumes, CallbackReturns, WorkerReply,
        WorkerClose, CallbackYields, StartSocket, StopLock, StopClear, StopJoinWorkers,
        StopShutdown, StartWorkers, StopCalled, SetCallback, Connect, Send

\* Accepting, queueing, popping and closing hand each connection from one place to one other.
LEMMA HolderStep ==
    ASSUME IInv, [Next]_vars
    PROVE  OneHolder'
  <1> USE DEF IInv, TypeOK, OneHolder, Queued, InService, HandsInv, Serving,
             server, sync, net, worker, accepting, main, clients, WorkerAt, AcceptorAt, MainAt
  <1>1. ASSUME NEW w \in Worker, WorkerPop(w)
       PROVE  OneHolder'
    <2> DEFINE h == Head(request_queue)
    <2>1. request_queue # <<>> /\ request_queue \in Seq(Client)
      BY <1>1 DEF WorkerPop
    <2>2. /\ h \in Client /\ h \in Range(request_queue)
          /\ Range(request_queue) = Range(Tail(request_queue)) \cup {h}
          /\ IsInjective(Tail(request_queue)) /\ h \notin Range(Tail(request_queue))
      BY <2>1, HeadTailRange
    <2>3. /\ request_queue' = Tail(request_queue)
          /\ req' = [req EXCEPT ![w] = h] /\ req[w] = NoClient
          /\ UNCHANGED <<mpc, conn, client_sock>>
      BY <1>1 DEF WorkerPop
    <2>4. \A c \in Client : /\ Queued(c)' <=> Queued(c) /\ c # h
                          /\ InService(c)' <=> InService(c) \/ c = h
      BY <2>2, <2>3, ClientAssumption
    <2>5. \A u, v \in Worker : req'[u] = req'[v] /\ req'[u] # NoClient => u = v
      BY <2>2, <2>3
    <2> HIDE DEF h
    <2> QED
      BY <2>2, <2>3, <2>4, <2>5
  <1>2. ASSUME NEW w \in Worker, WorkerClose(w)
       PROVE  OneHolder'
    <2>1. /\ conn' = [conn EXCEPT ![req[w]] = "closed"] /\ req' = [req EXCEPT ![w] = NoClient]
          /\ UNCHANGED <<mpc, request_queue, client_sock>>
          /\ req[w] \in Client /\ mpc # "freed"
      BY <1>2 DEF WorkerClose
    <2>2. \A c \in Client : InService(c)' <=> InService(c) /\ c # req[w]
      BY <2>1, ClientAssumption
    <2>3. \A c \in Client : conn'[c] = "open" <=> conn[c] = "open" /\ c # req[w]
      BY <2>1
    <2>4. ~Queued(req[w]) /\ client_sock # req[w]
      BY <2>1
    <2>5. \A u, v \in Worker : req'[u] = req'[v] /\ req'[u] # NoClient => u = v
      BY <2>1
    <2> QED
      BY <2>1, <2>2, <2>3, <2>4, <2>5
  <1>3. ASSUME Accept
       PROVE  OneHolder'
    <2> DEFINE h == Head(backlog)
    <2>1. backlog # <<>> /\ backlog \in Seq(Client)
      BY <1>3 DEF Accept
    <2>2. /\ h \in Client /\ h \in Range(backlog) /\ conn[h] = "backlog"
          /\ Range(backlog) = Range(Tail(backlog)) \cup {h}
          /\ IsInjective(Tail(backlog)) /\ h \notin Range(Tail(backlog))
      BY <2>1, HeadTailRange DEF BacklogInv
    <2>3. /\ backlog' = Tail(backlog) /\ client_sock' = h /\ client_sock = NoClient
          /\ conn' = [conn EXCEPT ![h] = "open"]
          /\ UNCHANGED <<mpc, request_queue, req, reply, wpc>> /\ mpc # "freed"
      BY <1>3 DEF Accept
    <2> HIDE DEF h
    <2> QED
      BY <2>2, <2>3, ClientAssumption
  <1>4. ASSUME AcceptorAdd
       PROVE  OneHolder'
    BY <1>4, AppendRange, ClientAssumption DEF AcceptorAdd
  <1>5. ASSUME StartSocket
       PROVE  OneHolder'
    BY <1>5 DEF StartSocket
  <1>6. ASSUME StartRunThread
       PROVE  OneHolder'
    BY <1>6 DEF StartRunThread
  <1>7. ASSUME StopLock
       PROVE  OneHolder'
    BY <1>7 DEF StopLock
  <1>8. ASSUME StopClear
       PROVE  OneHolder'
    BY <1>8 DEF StopClear
  <1>9. ASSUME StopSignal
       PROVE  OneHolder'
    BY <1>9 DEF StopSignal
  <1>10. ASSUME StopJoinWorkers
       PROVE  OneHolder'
    BY <1>10 DEF StopJoinWorkers
  <1>11. ASSUME StopShutdown
       PROVE  OneHolder'
    BY <1>11 DEF StopShutdown
  <1>12. ASSUME StopReturns
       PROVE  OneHolder'
    BY <1>12, EmptyRange DEF StopReturns
  <1>13. ASSUME StartWorkers
       PROVE  OneHolder'
    BY <1>13 DEF StartWorkers
  <1>14. ASSUME StopCalled
       PROVE  OneHolder'
    BY <1>14 DEF StopCalled
  <1>15. ASSUME Dealloc
       PROVE  OneHolder'
    BY <1>15, EmptyRange DEF Dealloc
  <1>16. ASSUME NEW c \in Client, Connect(c)
       PROVE  OneHolder'
    BY <1>16 DEF Connect
  <1>17. ASSUME UNCHANGED <<request_queue, client_sock, req, conn, mpc>>
       PROVE  OneHolder'
    BY <1>17
  <1> QED
    BY <1>1, <1>2, <1>3, <1>4, <1>5, <1>6, <1>7, <1>8, <1>9, <1>10, <1>11, <1>12, <1>13,
       <1>14, <1>15, <1>16, <1>17
    DEF Next, vars, WorkerStep, AcceptorStep, MethodStep, MethodCall, WorkerTest,
        WorkerLock, WorkerPeek, WorkerRelock, WorkerUnlock, WorkerRead, WorkerEnsure,
        CallbackMissing, CallbackEntered, CallbackResumes, CallbackReturns, WorkerReply,
        SpuriousWakeup, CallbackYields, AcceptorEnter, AcceptorTest, AcceptFails,
        AcceptorLock, AcceptorNotify, AcceptorExit, SetCallback, Send

\* The kernel's backlog loses a connection only to accept() or to the reset by stop.
LEMMA BacklogStep ==
    ASSUME IInv, [Next]_vars
    PROVE  BacklogInv'
  <1> USE DEF IInv, TypeOK, BacklogInv,
             server, sync, net, worker, accepting, main, clients, WorkerAt, AcceptorAt, MainAt
  <1>1. ASSUME NEW w \in Worker, WorkerClose(w)
       PROVE  BacklogInv'
    <2>1. req[w] \in Client /\ conn[req[w]] = "open"
      BY <1>1 DEF WorkerClose, OneHolder, InService, HandsInv, Serving
    <2> QED
      BY <2>1, <1>1 DEF WorkerClose
  <1>2. ASSUME Accept
       PROVE  BacklogInv'
    BY <1>2, HeadTailRange, ClientAssumption DEF Accept
  <1>3. ASSUME StopShutdown
       PROVE  BacklogInv'
    BY <1>3, EmptyRange DEF StopShutdown
  <1>4. ASSUME NEW c \in Client, Connect(c)
       PROVE  BacklogInv'
    BY <1>4, AppendRange DEF Connect
  <1>5. ASSUME UNCHANGED <<backlog, conn>>
       PROVE  BacklogInv'
    BY <1>5
  <1> QED
    BY <1>1, <1>2, <1>3, <1>4, <1>5
    DEF Next, vars, WorkerStep, AcceptorStep, MethodStep, MethodCall, WorkerTest,
        WorkerLock, WorkerPeek, WorkerRelock, WorkerUnlock, WorkerPop, WorkerRead,
        WorkerEnsure, CallbackMissing, CallbackEntered, CallbackResumes,
        CallbackReturns, WorkerReply, SpuriousWakeup, CallbackYields, AcceptorEnter,
        AcceptorTest, AcceptFails, AcceptorLock, AcceptorAdd, AcceptorNotify,
        AcceptorExit, StartSocket, StartRunThread, StopLock, StopClear, StopSignal,
        StopJoinWorkers, StopReturns, StartWorkers, StopCalled, SetCallback, Dealloc,
        Send

\* A connection is unanswered until its worker writes the reply (145-162).
LEMMA ReplyStep ==
    ASSUME IInv, [Next]_vars
    PROVE  ReplyInv'
  <1> USE DEF IInv, TypeOK, ReplyInv, OneHolder, Queued, InService, HandsInv, Serving,
             server, sync, net, worker, accepting, main, clients, WorkerAt, AcceptorAt, MainAt
  <1>1. ASSUME NEW w \in Worker, WorkerTest(w)
       PROVE  ReplyInv'
    BY <1>1 DEF WorkerTest
  <1>2. ASSUME NEW w \in Worker, WorkerLock(w)
       PROVE  ReplyInv'
    BY <1>2 DEF WorkerLock
  <1>3. ASSUME NEW w \in Worker, WorkerPeek(w)
       PROVE  ReplyInv'
    BY <1>3 DEF WorkerPeek
  <1>4. ASSUME NEW w \in Worker, WorkerRelock(w)
       PROVE  ReplyInv'
    BY <1>4 DEF WorkerRelock
  <1>5. ASSUME NEW w \in Worker, WorkerUnlock(w)
       PROVE  ReplyInv'
    BY <1>5 DEF WorkerUnlock
  <1>6. ASSUME NEW w \in Worker, WorkerPop(w)
       PROVE  ReplyInv'
    BY <1>6, HeadTailRange, ClientAssumption DEF WorkerPop
  <1>7. ASSUME NEW w \in Worker, WorkerRead(w)
       PROVE  ReplyInv'
    BY <1>7 DEF WorkerRead
  <1>8. ASSUME NEW w \in Worker, WorkerEnsure(w)
       PROVE  ReplyInv'
    BY <1>8 DEF WorkerEnsure
  <1>9. ASSUME NEW w \in Worker, CallbackMissing(w)
       PROVE  ReplyInv'
    BY <1>9 DEF CallbackMissing
  <1>10. ASSUME NEW w \in Worker, CallbackEntered(w)
       PROVE  ReplyInv'
    BY <1>10 DEF CallbackEntered
  <1>11. ASSUME NEW w \in Worker, CallbackReturns(w)
       PROVE  ReplyInv'
    BY <1>11 DEF CallbackReturns
  <1>12. ASSUME NEW w \in Worker, WorkerReply(w)
       PROVE  ReplyInv'
    BY <1>12 DEF WorkerReply
  <1>13. ASSUME NEW w \in Worker, WorkerClose(w)
       PROVE  ReplyInv'
    BY <1>13 DEF WorkerClose
  <1>14. ASSUME Accept
       PROVE  ReplyInv'
    <2> DEFINE h == Head(backlog)
    <2>1. backlog # <<>> /\ backlog \in Seq(Client)
      BY <1>14 DEF Accept
    <2>2. /\ h \in Client /\ h \in Range(backlog) /\ conn[h] = "backlog"
          /\ Range(backlog) = Range(Tail(backlog)) \cup {h}
          /\ IsInjective(Tail(backlog)) /\ h \notin Range(Tail(backlog))
      BY <2>1, HeadTailRange DEF BacklogInv
    <2>3. /\ backlog' = Tail(backlog) /\ client_sock' = h /\ client_sock = NoClient
          /\ conn' = [conn EXCEPT ![h] = "open"]
          /\ UNCHANGED <<mpc, request_queue, req, reply, wpc>> /\ mpc # "freed"
      BY <1>14 DEF Accept
    <2> HIDE DEF h
    <2> QED
      BY <2>2, <2>3, ClientAssumption
  <1>15. ASSUME AcceptorAdd
       PROVE  ReplyInv'
    BY <1>15, AppendRange, ClientAssumption DEF AcceptorAdd
  <1>16. ASSUME StopShutdown
       PROVE  ReplyInv'
    BY <1>16 DEF StopShutdown
  <1>17. ASSUME StopReturns
       PROVE  ReplyInv'
    BY <1>17, EmptyRange DEF StopReturns
  <1>18. ASSUME StartWorkers
       PROVE  ReplyInv'
    BY <1>18 DEF StartWorkers
  <1>19. ASSUME Dealloc
       PROVE  ReplyInv'
    BY <1>19, EmptyRange DEF Dealloc
  <1>20. ASSUME NEW c \in Client, Connect(c)
       PROVE  ReplyInv'
    BY <1>20 DEF Connect
  <1>21. ASSUME UNCHANGED <<reply, conn, request_queue, client_sock, req, wpc>>
       PROVE  ReplyInv'
    BY <1>21
  <1> QED
    BY <1>1, <1>2, <1>3, <1>4, <1>5, <1>6, <1>7, <1>8, <1>9, <1>10, <1>11, <1>12, <1>13,
       <1>14, <1>15, <1>16, <1>17, <1>18, <1>19, <1>20, <1>21
    DEF Next, vars, WorkerStep, AcceptorStep, MethodStep, MethodCall, CallbackResumes,
        SpuriousWakeup, CallbackYields, AcceptorEnter, AcceptorTest, AcceptFails,
        AcceptorLock, AcceptorNotify, AcceptorExit, StartSocket, StartRunThread,
        StopLock, StopClear, StopSignal, StopJoinWorkers, StopCalled, SetCallback, Send

\* TCPServer_new and TCPServer_init establish the invariant.
LEMMA InitInv == Init => IInv
  <1> SUFFICES ASSUME Init
               PROVE  IInv
    OBVIOUS
  <1> USE DEF Init
  <1>1. TypeOK
    <2>1. <<>> \in Seq(Client)
      OBVIOUS
    <2>2. request_queue \in Seq(Client) /\ backlog \in Seq(Client)
      BY <2>1
    <2>3. /\ keep_alive \in BOOLEAN /\ is_alive \in BOOLEAN /\ callback \in BOOLEAN
          /\ bound \in BOOLEAN /\ dying \in BOOLEAN
      OBVIOUS
    <2>4. /\ send_reply \in [Worker -> BOOLEAN] /\ sent \in [Client -> BOOLEAN]
      OBVIOUS
    <2>5. /\ wpc \in [Worker -> WorkerPC] /\ req \in [Worker -> Client \cup {NoClient}]
          /\ conn \in [Client -> {"new", "backlog", "open", "closed", "reset"}]
          /\ reply \in [Client -> {"none", "message", "zeros"}]
      BY DEF WorkerPC
    <2> QED
      BY <2>2, <2>3, <2>4, <2>5 DEF TypeOK, Thread, AcceptorPC, MainPC
  <1>2. LockDiscipline /\ GilDiscipline
    BY ThreadsAssumption DEF LockDiscipline, GilDiscipline
  <1>3. HandsInv /\ PhaseInv /\ NoLostRequest
    BY DEF HandsInv, PhaseInv, NoLostRequest, Serving
  <1>4. OneHolder /\ BacklogInv
    BY EmptyRange, ClientAssumption DEF OneHolder, Queued, InService, BacklogInv
  <1>5. ReplyInv
    BY DEF ReplyInv, Serving
  <1> QED
    BY <1>1, <1>2, <1>3, <1>4, <1>5 DEF IInv

\* Every reachable state of the server, with any number of workers and
\* connections, satisfies the inductive invariant.
THEOREM Invariance == Spec => []IInv
  <1>1. IInv /\ [Next]_vars => IInv'
    BY TypeStep, LockStep, GilStep, HandsStep, PhaseStep, WakeStep, HolderStep,
       BacklogStep, ReplyStep DEF IInv
  <1> QED
    BY <1>1, InitInv, PTL DEF Spec

\* The state of the server keeps its type.
THEOREM TypeCorrect == Spec => []TypeOK
  BY Invariance, PTL DEF IInv

\* The request queue's mutex is held exactly inside its critical sections.
THEOREM MutexSafe == Spec => []LockDiscipline
  BY Invariance, PTL DEF IInv

\* The GIL is held exactly by the method call or the callback that is running.
THEOREM GilSafe == Spec => []GilDiscipline
  BY Invariance, PTL DEF IInv

\* No accepted connection is lost, duplicated or served by two workers.
THEOREM NoRequestLostOrShared == Spec => []OneHolder
  BY Invariance, PTL DEF IInv

\* No worker sleeps on a non-empty queue after the accepting thread's broadcast.
THEOREM NoWakeupLost == Spec => []NoLostRequest
  BY Invariance, PTL DEF IInv

\* Workers close no connection they have not answered.
THEOREM ClosedIsAnswered == Spec => []CloseAfterReply
  <1>1. IInv => CloseAfterReply
    BY DEF IInv, ReplyInv, CloseAfterReply
  <1> QED
    BY <1>1, Invariance, PTL

\* When stop has returned no thread, lock or socket of the server is left in use.
THEOREM StopIsQuiet == Spec => []QuietWhenStopped
  <1>1. IInv => QuietWhenStopped
    <2> SUFFICES ASSUME IInv, mpc = "idle" \/ (mpc = "freed" /\ ~keep_alive)
                 PROVE  QuietWhenStopped
      BY DEF QuietWhenStopped
    <2>1. /\ \A w \in Worker : wpc[w] = "off" /\ req[w] = NoClient
          /\ apc = "off" /\ client_sock = NoClient /\ waiting = {}
      BY DEF IInv, TypeOK, PhaseInv, HandsInv, Serving
    <2>2. lock = Nobody
      BY <2>1 DEF IInv, TypeOK, LockDiscipline, Thread
    <2>3. socket \in {"none", "closed"} /\ backlog = <<>> /\ ~is_alive
      BY <2>1 DEF IInv, PhaseInv
    <2> QED
      BY <2>1, <2>2, <2>3 DEF QuietWhenStopped
  <1> QED
    BY <1>1, Invariance, PTL

\* A connection is answered at most once, and only by the worker that holds it.
THEOREM RepliesOnce == Spec => ReplyOnce
  <1> DEFINE A == \A c \in Client : reply'[c] # reply[c] =>
                     /\ reply[c] = "none"
                     /\ \E w \in Worker : req[w] = c /\ wpc[w] = "reply"
  <1>1. IInv /\ [Next]_vars => [A]_vars
    <2> SUFFICES ASSUME IInv, Next
                 PROVE  A
      OBVIOUS
    <2>1. ASSUME NEW w \in Worker, WorkerReply(w)
          PROVE  A
      BY <2>1 DEF WorkerReply, WorkerAt, IInv, TypeOK, ReplyInv, Serving
    <2>2. ASSUME UNCHANGED reply
          PROVE  A
      BY <2>2
    <2> QED
      BY <2>1, <2>2 DEF Next, WorkerStep, AcceptorStep, MethodStep, MethodCall, clients,
         WorkerTest, WorkerLock, WorkerPeek, WorkerRelock, WorkerUnlock, WorkerPop,
         WorkerRead, WorkerEnsure, CallbackMissing, CallbackEntered, CallbackResumes,
         CallbackReturns, WorkerClose, SpuriousWakeup, CallbackYields, AcceptorEnter,
         AcceptorTest, Accept, AcceptFails, AcceptorLock, AcceptorAdd, AcceptorNotify,
         AcceptorExit, StartSocket, StartRunThread, StopLock, StopClear, StopSignal,
         StopJoinWorkers, StopShutdown, StopReturns, StartWorkers, StopCalled,
         SetCallback, Dealloc, Connect, Send
  <1> QED
    BY <1>1, Invariance, PTL DEF Spec, ReplyOnce

\* A worker that has nothing in hand leaves the service a free place.
LEMMA RoomForOne ==
    ASSUME IInv, NEW w \in Worker, req[w] = NoClient
    PROVE  Cardinality({c \in Client : InService(c)}) < Cardinality(Worker)
  <1> DEFINE Busy == {v \in Worker : req[v] # NoClient}
             Served == {c \in Client : InService(c)}
             f == [v \in Busy |-> req[v]]
  <1>1. /\ IsFiniteSet(Worker \ {w}) /\ Cardinality(Worker \ {w}) = Cardinality(Worker) - 1
        /\ Cardinality(Worker) \in Nat
    BY WorkerAssumption, FS_RemoveElement, FS_CardinalityType
  <1>2. Busy \in SUBSET (Worker \ {w})
    OBVIOUS
  <1>3. IsFiniteSet(Busy) /\ Cardinality(Busy) <= Cardinality(Worker) - 1
    BY <1>1, <1>2, FS_Subset
  <1>4. f \in Surjection(Busy, Served)
    BY ClientAssumption DEF Surjection, InService, IInv, TypeOK
  <1>5. /\ IsFiniteSet(Served) /\ Cardinality(Served) <= Cardinality(Busy)
    BY <1>3, <1>4, FS_Surjection
  <1>6. Cardinality(Served) \in Nat /\ Cardinality(Busy) \in Nat
    BY <1>3, <1>5, FS_CardinalityType
  <1> QED
    BY <1>1, <1>3, <1>5, <1>6

\* The connections the abstract service has in its places.
Active == {c \in Client : InService(c)}

\* Each step of the pool is a step of the abstract service or invisible to it.
LEMMA StepRefines ==
    ASSUME IInv, [Next]_vars
    PROVE  Service!Next \/ UNCHANGED <<mpc # "freed", request_queue, Active, reply>>
  <1> USE DEF server, sync, net, worker, accepting, main, clients, WorkerAt, AcceptorAt, MainAt
  <1> DEFINE Goal == Service!Next \/ UNCHANGED <<mpc # "freed", request_queue, Active, reply>>
  <1>1. ASSUME NEW w \in Worker, WorkerPop(w)
        PROVE  Service!Take /\ mpc # "freed"
    <2> DEFINE h == Head(request_queue)
    <2>1. request_queue # <<>> /\ request_queue \in Seq(Client)
      BY <1>1 DEF WorkerPop, IInv, TypeOK, HandsInv
    <2>2. h \in Client
      BY <2>1, HeadTailRange
    <2>3. /\ request_queue' = Tail(request_queue)
          /\ req' = [req EXCEPT ![w] = h] /\ req[w] = NoClient
          /\ UNCHANGED <<mpc, reply>> /\ mpc # "freed"
      BY <1>1 DEF WorkerPop, IInv, HandsInv, Serving
    <2>4. Active' = Active \cup {h}
      BY <2>2, <2>3, ClientAssumption DEF Active, InService, IInv, TypeOK
    <2>5. Cardinality(Active) < Cardinality(Worker)
      BY <2>3, RoomForOne DEF Active
    <2>6. Service!Cardinality(Active) = Cardinality(Active)
      BY DEF Service!Cardinality, Cardinality, Service!IsFiniteSet, IsFiniteSet
    <2> QED
      BY <2>1, <2>3, <2>4, <2>5, <2>6 DEF Service!Take, Active
  <1>2. ASSUME NEW w \in Worker, WorkerReply(w)
        PROVE  Service!Answer(req[w]) /\ req[w] \in Client /\ mpc # "freed"
    <2>1. req[w] \in Client /\ reply[req[w]] = "none" /\ mpc # "freed"
      BY <1>2 DEF WorkerReply, IInv, TypeOK, HandsInv, ReplyInv, Serving
    <2>2. InService(req[w]) /\ UNCHANGED <<mpc, request_queue, req>>
      BY <1>2 DEF WorkerReply, InService
    <2>3. Active' = Active
      BY <2>2 DEF Active, InService
    <2>4. \E a \in {"message", "zeros"} : reply' = [reply EXCEPT ![req[w]] = a]
      BY <1>2 DEF WorkerReply
    <2> QED
      BY <2>1, <2>2, <2>3, <2>4 DEF Service!Answer, Service!Answers, Active
  <1>3. ASSUME NEW w \in Worker, WorkerClose(w)
        PROVE  Service!Close(req[w]) /\ req[w] \in Client /\ mpc # "freed"
    <2>1. req[w] \in Client /\ reply[req[w]] # "none" /\ mpc # "freed"
      BY <1>3 DEF WorkerClose, IInv, TypeOK, HandsInv, ReplyInv, Serving
    <2>2. /\ InService(req[w]) /\ req' = [req EXCEPT ![w] = NoClient]
          /\ UNCHANGED <<mpc, request_queue, reply>>
      BY <1>3 DEF WorkerClose, InService
    <2>3. Active' = Active \ {req[w]}
      BY <2>1, <2>2, ClientAssumption DEF Active, InService, IInv, TypeOK, OneHolder
    <2> QED
      BY <2>1, <2>2, <2>3 DEF Service!Close, Active
  <1>4. ASSUME AcceptorAdd
        PROVE  Service!Submit(client_sock) /\ client_sock \in Client /\ mpc # "freed"
    <2>1. client_sock \in Client /\ mpc # "freed"
      BY <1>4 DEF AcceptorAdd, IInv, TypeOK, HandsInv
    <2>2. ~Queued(client_sock) /\ ~InService(client_sock) /\ reply[client_sock] = "none"
      BY <2>1 DEF IInv, OneHolder, ReplyInv
    <2>3. \A i \in DOMAIN request_queue : request_queue[i] # client_sock
      BY <2>2 DEF Queued, Range
    <2>4. /\ request_queue' = Append(request_queue, client_sock)
          /\ UNCHANGED <<mpc, req, reply>>
      BY <1>4 DEF AcceptorAdd
    <2>5. Active' = Active
      BY <2>4 DEF Active, InService
    <2> QED
      BY <2>1, <2>2, <2>3, <2>4, <2>5 DEF Service!Submit, Active
  <1>5. ASSUME StopReturns
        PROVE  Goal
    <2>1. UNCHANGED <<req, reply>> /\ mpc # "freed"
      BY <1>5 DEF StopReturns
    <2>2. Active' = Active
      BY <2>1 DEF Active, InService
    <2>3. CASE dying
      BY <2>1, <2>2, <2>3, <1>5 DEF StopReturns, Service!Next, Service!End, Active
    <2>4. CASE ~dying
      BY <2>1, <2>2, <2>4, <1>5 DEF StopReturns
    <2> QED
      BY <2>3, <2>4 DEF IInv, TypeOK
  <1>6. ASSUME Dealloc
        PROVE  Goal
    <2>1. UNCHANGED <<req, reply>> /\ mpc # "freed"
      BY <1>6 DEF Dealloc
    <2>2. Active' = Active
      BY <2>1 DEF Active, InService
    <2>3. CASE is_alive
      BY <2>1, <2>2, <2>3, <1>6 DEF Dealloc
    <2>4. CASE ~is_alive
      BY <2>1, <2>2, <2>4, <1>6 DEF Dealloc, Service!Next, Service!End, Active
    <2> QED
      BY <2>3, <2>4 DEF IInv, TypeOK
  <1>7. ASSUME UNCHANGED <<request_queue, req, reply>>, (mpc # "freed") = (mpc' # "freed")
        PROVE  Goal
    <2>1. Active' = Active
      BY <1>7 DEF Active, InService
    <2> QED
      BY <1>7, <2>1
  <1>8. CASE \E w \in Worker : WorkerPop(w) \/ WorkerReply(w) \/ WorkerClose(w)
    BY <1>8, <1>1, <1>2, <1>3 DEF Service!Next
  <1>9. CASE AcceptorAdd
    BY <1>9, <1>4 DEF Service!Next
  <1> HIDE DEF Goal
  <1> QED
    BY <1>5, <1>6, <1>7, <1>8, <1>9
    DEF Goal, Next, vars, WorkerStep, AcceptorStep, MethodStep, MethodCall,
        WorkerTest, WorkerLock, WorkerPeek, WorkerRelock, WorkerUnlock, WorkerRead,
        WorkerEnsure, CallbackMissing, CallbackEntered, CallbackResumes,
        CallbackReturns, SpuriousWakeup, CallbackYields, AcceptorEnter, AcceptorTest,
        Accept, AcceptFails, AcceptorLock, AcceptorNotify, AcceptorExit, StartSocket,
        StartRunThread, StopLock, StopClear, StopSignal, StopJoinWorkers, StopShutdown,
        StartWorkers, StopCalled, SetCallback, Connect, Send

\* The pool is a first-come-first-served service with one worker per place.
THEOREM Refinement == Spec => ImplementsService
  <1>1. Init => Service!Init
    <2> SUFFICES ASSUME Init
                 PROVE  Service!Init
      OBVIOUS
    <2>1. Active = {}
      BY ClientAssumption DEF Init, Active, InService
    <2> QED
      BY <2>1 DEF Init, Service!Init, Active
  <1>2. IInv /\ [Next]_vars => [Service!Next]_(Service!vars)
    BY StepRefines DEF Service!vars, Active
  <1> QED
    BY <1>1, <1>2, Invariance, PTL DEF Spec, ImplementsService, Service!Spec

=============================================================================
