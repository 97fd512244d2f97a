------------------------------ MODULE TCPServer ------------------------------
(***************************************************************************)
(* The request server of network/tcp_server.c: a pool of worker threads,   *)
(* one accepting thread, and the Python thread (Main) that calls start,    *)
(* stop, set_request_callback and finally drops the server.  They share    *)
(* keep_alive, the request queue with its mutex and condition variable,    *)
(* and the interpreter's lock (the GIL).                                   *)
(*                                                                         *)
(* A critical section of the code is several steps here when another       *)
(* thread could tell, and the mutex is explicit: `lock' is the thread that *)
(* holds it.  `waiting' is the set of threads blocked in                   *)
(* pthread_cond_wait, which a broadcast empties and which a thread may     *)
(* also leave spuriously, as POSIX allows.                                 *)
(***************************************************************************)
EXTENDS Integers, Sequences, FiniteSets, Functions

CONSTANTS
    Worker,     \* the worker threads, worker_threads[0 .. worker_n - 1]
    Client,     \* the connections the clients ever open
    Main,       \* the Python thread that owns the server object
    Acceptor,   \* run_thread
    Nobody,     \* the owner of a free lock
    NoClient,   \* "no request in hand"
    Unix,       \* TRUE iff type = NETWORK_TYPE_UNIX
    Backlog,    \* second argument of listen()
    MaxStarts   \* bound: how often Main calls start

ASSUME ThreadsAssumption ==
    /\ Main # Acceptor /\ Main # Nobody /\ Acceptor # Nobody
    /\ Main \notin Worker /\ Acceptor \notin Worker /\ Nobody \notin Worker
ASSUME WorkerAssumption == IsFiniteSet(Worker)
ASSUME ClientAssumption == NoClient \notin Client
ASSUME BoundsAssumption ==
    Unix \in BOOLEAN /\ Backlog \in Nat \ {0} /\ MaxStarts \in Nat

VARIABLES
    keep_alive, is_alive,   \* the two flags of TCPServer_prv
    lock, waiting,          \* the mutex's owner; the threads in cond_wait
    request_queue,          \* the connections queued for the workers
    callback,               \* TRUE iff a callback other than None is set
    gil,                    \* the thread that holds the interpreter's lock
    socket, bound, backlog, \* the listening socket, its name, connections not yet accepted
    wpc, req, send_reply,   \* workers: where each one is, its request, its local flag
    apc, client_sock,       \* the accepting thread: likewise
    mpc, dying, starts,     \* Main: where it is, dealloc in progress, calls of start
    conn, sent, reply       \* each connection: its life, the message written, the answer

server  == <<keep_alive, is_alive, callback>>
sync    == <<lock, waiting, request_queue>>
net     == <<socket, bound, backlog>>
worker  == <<wpc, req, send_reply>>
accepting == <<apc, client_sock>>
main    == <<mpc, dying, starts>>
clients == <<conn, sent, reply>>
vars == <<server, sync, gil, net, worker, accepting, main, clients>>

Thread == Worker \cup {Main, Acceptor}

WorkerPC == {"off", "test", "lock", "peek", "wait", "unlock", "pop",
             "read", "ensure", "callback", "running", "reply", "close"}
AcceptorPC == {"off", "enter", "test", "accept", "lock", "add", "notify", "exit"}
MainPC == {"idle", "socket", "run", "up", "stop", "clear", "signal", "join",
           "shutdown", "join_run", "freed"}

TypeOK ==
    /\ keep_alive \in BOOLEAN /\ is_alive \in BOOLEAN /\ callback \in BOOLEAN
    /\ lock \in Thread \cup {Nobody}
    /\ waiting \subseteq Worker
    /\ request_queue \in Seq(Client)
    /\ gil \in Worker \cup {Main, Nobody}
    /\ socket \in {"none", "failed", "listening", "closed"}
    /\ bound \in BOOLEAN
    /\ backlog \in Seq(Client)
    /\ wpc \in [Worker -> WorkerPC]
    /\ req \in [Worker -> Client \cup {NoClient}]
    /\ send_reply \in [Worker -> BOOLEAN]
    /\ apc \in AcceptorPC /\ client_sock \in Client \cup {NoClient}
    /\ mpc \in MainPC /\ dying \in BOOLEAN /\ starts \in Nat
    /\ conn \in [Client -> {"new", "backlog", "open", "closed", "reset"}]
    /\ sent \in [Client -> BOOLEAN]
    /\ reply \in [Client -> {"none", "message", "zeros"}]

\* The state TCPServer_new and TCPServer_init leave: no thread, no socket,
\* callback None, an empty queue, both flags zero.
Init ==
    /\ keep_alive = FALSE /\ is_alive = FALSE /\ callback = FALSE
    /\ lock = Nobody /\ waiting = {} /\ request_queue = <<>>
    /\ gil = Nobody
    /\ socket = "none" /\ bound = FALSE /\ backlog = <<>>
    /\ wpc = [w \in Worker |-> "off"] /\ req = [w \in Worker |-> NoClient]
    /\ send_reply = [w \in Worker |-> FALSE]
    /\ apc = "off" /\ client_sock = NoClient
    /\ mpc = "idle" /\ dying = FALSE /\ starts = 0
    /\ conn = [c \in Client |-> "new"] /\ sent = [c \in Client |-> FALSE]
    /\ reply = [c \in Client |-> "none"]

-----------------------------------------------------------------------------
(* The worker threads: TCPServer_worker_run.                               *)

\* Nothing is said of what a thread does with a server that has been freed.
WorkerAt(w, from, to) ==
    mpc # "freed" /\ wpc[w] = from /\ wpc' = [wpc EXCEPT ![w] = to]

\* while (self->keep_alive): read without the mutex.
WorkerTest(w) ==
    /\ WorkerAt(w, "test", IF keep_alive THEN "lock" ELSE "off")
    /\ UNCHANGED <<server, sync, gil, net, req, send_reply, accepting, main, clients>>

WorkerLock(w) ==
    /\ WorkerAt(w, "lock", "peek")
    /\ lock = Nobody /\ lock' = w
    /\ UNCHANGED <<server, waiting, request_queue, gil, net, req, send_reply, accepting, main, clients>>

\* queue_peek under the mutex decides between waiting and taking a request;
\* pthread_cond_wait releases the mutex and blocks in one step.
WorkerPeek(w) ==
    /\ lock = w
    /\ IF request_queue = <<>>
       THEN /\ WorkerAt(w, "peek", "wait")
            /\ waiting' = waiting \cup {w}
            /\ lock' = Nobody
       ELSE /\ WorkerAt(w, "peek", "pop")
            /\ UNCHANGED <<waiting, lock>>
    /\ UNCHANGED <<server, request_queue, gil, net, req, send_reply, accepting, main, clients>>

\* A thread leaves the wait set without a broadcast.
SpuriousWakeup(w) ==
    /\ w \in waiting /\ waiting' = waiting \ {w}
    /\ UNCHANGED <<server, lock, request_queue, gil, net, worker, accepting, main, clients>>

\* The end of pthread_cond_wait: out of the wait set, take the mutex back.
WorkerRelock(w) ==
    /\ WorkerAt(w, "wait", "unlock")
    /\ w \notin waiting
    /\ lock = Nobody /\ lock' = w
    /\ UNCHANGED <<server, waiting, request_queue, gil, net, req, send_reply, accepting, main, clients>>

\* ... release it and `continue', which tests keep_alive again.
WorkerUnlock(w) ==
    /\ WorkerAt(w, "unlock", "test")
    /\ lock = w /\ lock' = Nobody
    /\ UNCHANGED <<server, waiting, request_queue, gil, net, req, send_reply, accepting, main, clients>>

\* A slip: the request is peeked at, not popped.
WorkerPeekOnly(w) ==
    /\ WorkerAt(w, "pop", "read")
    /\ lock = w /\ lock' = Nobody
    /\ req' = [req EXCEPT ![w] = Head(request_queue)]
    /\ UNCHANGED <<server, waiting, request_queue, gil, net, send_reply, accepting, main, clients>>

\* A slip: the newest request is taken.
WorkerPopLast(w) ==
    /\ WorkerAt(w, "pop", "read")
    /\ lock = w /\ lock' = Nobody
    /\ req' = [req EXCEPT ![w] = request_queue[Len(request_queue)]]
    /\ request_queue' = SubSeq(request_queue, 1, Len(request_queue) - 1)
    /\ UNCHANGED <<server, waiting, gil, net, send_reply, accepting, main, clients>>

\* queue_pop, then the mutex is released.
WorkerPop(w) ==
    /\ WorkerAt(w, "pop", "read")
    /\ lock = w /\ lock' = Nobody
    /\ req' = [req EXCEPT ![w] = Head(request_queue)]
    /\ request_queue' = Tail(request_queue)
    /\ UNCHANGED <<server, waiting, gil, net, send_reply, accepting, main, clients>>

\* The reads block until the client has written its message; send_reply = 0.
WorkerRead(w) ==
    /\ WorkerAt(w, "read", "ensure")
    /\ sent[req[w]]
    /\ send_reply' = [send_reply EXCEPT ![w] = FALSE]
    /\ UNCHANGED <<server, sync, gil, net, req, accepting, main, clients>>

\* A slip: the callback is looked up without the GIL.
WorkerEnsureNothing(w) ==
    /\ WorkerAt(w, "ensure", "callback")
    /\ UNCHANGED <<server, sync, gil, net, req, send_reply, accepting, main, clients>>

\* PyGILState_Ensure
WorkerEnsure(w) ==
    /\ WorkerAt(w, "ensure", "callback")
    /\ gil = Nobody /\ gil' = w
    /\ UNCHANGED <<server, sync, net, req, send_reply, accepting, main, clients>>

\* A slip: without a callback the request is dropped, not answered.
CallbackMissingDrops(w) ==
    /\ WorkerAt(w, "callback", "close")
    /\ gil = w /\ ~callback /\ gil' = Nobody
    /\ UNCHANGED <<server, sync, net, req, send_reply, accepting, main, clients>>

\* callback == Py_None: an exception is set and there will be no reply.
CallbackMissing(w) ==
    /\ WorkerAt(w, "callback", "reply")
    /\ gil = w /\ ~callback /\ gil' = Nobody
    /\ UNCHANGED <<server, sync, net, req, send_reply, accepting, main, clients>>

CallbackEntered(w) ==
    /\ WorkerAt(w, "callback", "running")
    /\ gil = w /\ callback
    /\ UNCHANGED <<server, sync, gil, net, req, send_reply, accepting, main, clients>>

\* While Python code runs, the interpreter lets another thread have the GIL.
CallbackYields(w) ==
    /\ wpc[w] = "running" /\ gil = w /\ gil' = Nobody
    /\ UNCHANGED <<server, sync, net, worker, accepting, main, clients>>

CallbackResumes(w) ==
    /\ wpc[w] = "running" /\ gil = Nobody /\ gil' = w
    /\ UNCHANGED <<server, sync, net, worker, accepting, main, clients>>

\* PyObject_Call returns a message, or NULL after an exception; GIL released.
CallbackReturns(w) ==
    /\ WorkerAt(w, "running", "reply")
    /\ gil = w /\ gil' = Nobody
    /\ \E answered \in BOOLEAN : send_reply' = [send_reply EXCEPT ![w] = answered]
    /\ UNCHANGED <<server, sync, net, req, accepting, main, clients>>

\* The reply is the callback's message, or zeroes.
WorkerReply(w) ==
    /\ WorkerAt(w, "reply", "close")
    /\ reply' = [reply EXCEPT ![req[w]] = IF send_reply[w] THEN "message" ELSE "zeros"]
    /\ UNCHANGED <<server, sync, gil, net, req, send_reply, accepting, main, conn, sent>>

WorkerClose(w) ==
    /\ WorkerAt(w, "close", "test")
    /\ conn' = [conn EXCEPT ![req[w]] = "closed"]
    /\ req' = [req EXCEPT ![w] = NoClient]
    /\ UNCHANGED <<server, sync, gil, net, send_reply, accepting, main, sent, reply>>

-----------------------------------------------------------------------------
(* The accepting thread: TCPServer_run.                                    *)

AcceptorAt(from, to) == mpc # "freed" /\ apc = from /\ apc' = to

AcceptorEnter ==
    /\ AcceptorAt("enter", "test")
    /\ is_alive' = TRUE
    /\ UNCHANGED <<keep_alive, callback, sync, gil, net, worker, client_sock, main, clients>>

AcceptorTest ==
    /\ AcceptorAt("test", IF keep_alive THEN "accept" ELSE "exit")
    /\ UNCHANGED <<server, sync, gil, net, worker, client_sock, main, clients>>

Accept ==
    /\ AcceptorAt("accept", "lock")
    /\ socket = "listening" /\ backlog # <<>>
    /\ client_sock' = Head(backlog) /\ backlog' = Tail(backlog)
    /\ conn' = [conn EXCEPT ![Head(backlog)] = "open"]
    /\ UNCHANGED <<server, sync, gil, socket, bound, worker, main, sent, reply>>

\* accept returns -1 on a socket that was shut down, closed or never opened.
AcceptFails ==
    /\ AcceptorAt("accept", "test")
    /\ socket \in {"failed", "closed"}
    /\ UNCHANGED <<server, sync, gil, net, worker, client_sock, main, clients>>

AcceptorLock ==
    /\ AcceptorAt("lock", "add")
    /\ lock = Nobody /\ lock' = Acceptor
    /\ UNCHANGED <<server, waiting, request_queue, gil, net, worker, client_sock, main, clients>>

\* request_new and queue_add, then the mutex is released.
AcceptorAdd ==
    /\ AcceptorAt("add", "notify")
    /\ lock = Acceptor /\ lock' = Nobody
    /\ request_queue' = Append(request_queue, client_sock)
    /\ client_sock' = NoClient
    /\ UNCHANGED <<server, waiting, gil, net, worker, main, clients>>

\* A slip: nobody is notified.
AcceptorSilent ==
    /\ AcceptorAt("notify", "test")
    /\ UNCHANGED <<server, sync, gil, net, worker, client_sock, main, clients>>

\* The broadcast comes after the mutex is released.
AcceptorNotify ==
    /\ AcceptorAt("notify", "test")
    /\ waiting' = {}
    /\ UNCHANGED <<server, lock, request_queue, gil, net, worker, client_sock, main, clients>>

AcceptorExit ==
    /\ AcceptorAt("exit", "off")
    /\ bound' = (bound /\ ~Unix)
    /\ is_alive' = FALSE
    /\ UNCHANGED <<keep_alive, callback, sync, gil, socket, backlog, worker, client_sock, main, clients>>

-----------------------------------------------------------------------------
(* Main: the methods of the server, each called and run holding the GIL.   *)
(* Neither start nor stop looks at the flags; calling start twice in a row *)
(* or stop without start is not a use of the server the model admits.      *)

MainAt(from, to) == mpc = from /\ mpc' = to

\* TCPServer_start: keep_alive = 1 and the worker threads are created.
StartWorkers ==
    /\ MainAt("idle", "socket")
    /\ starts < MaxStarts /\ starts' = starts + 1
    /\ gil = Nobody /\ gil' = Main
    /\ keep_alive' = TRUE
    /\ wpc' = [w \in Worker |-> "test"]
    /\ UNCHANGED <<is_alive, callback, sync, net, req, send_reply, accepting, dying, clients>>

\* TCPServer_init_unix_socket or _network_socket: a failure leaves -1 in
\* self->socket and nothing looks at it.
StartSocket ==
    /\ MainAt("socket", "run")
    /\ \/ socket' = "listening" /\ bound' = TRUE
       \/ socket' = "failed" /\ bound' = FALSE
    /\ UNCHANGED <<server, sync, gil, backlog, worker, accepting, dying, starts, clients>>

StartRunThread ==
    /\ MainAt("run", "up")
    /\ apc' = "enter"
    /\ gil' = Nobody
    /\ UNCHANGED <<server, sync, net, worker, client_sock, dying, starts, clients>>

\* TCPServer_stop is called, by the user or by dealloc.
StopCalled ==
    /\ MainAt("up", "stop")
    /\ gil = Nobody /\ gil' = Main
    /\ UNCHANGED <<server, sync, net, worker, accepting, dying, starts, clients>>

StopLock ==
    /\ MainAt("stop", "clear")
    /\ lock = Nobody /\ lock' = Main
    /\ UNCHANGED <<server, waiting, request_queue, gil, net, worker, accepting, dying, starts, clients>>

\* A slip: the mutex is kept while the workers are joined.
StopClearLocked ==
    /\ MainAt("clear", "signal")
    /\ keep_alive' = FALSE
    /\ UNCHANGED <<is_alive, callback, sync, gil, net, worker, accepting, dying, starts, clients>>

StopClear ==
    /\ MainAt("clear", "signal")
    /\ keep_alive' = FALSE
    /\ lock' = Nobody
    /\ UNCHANGED <<is_alive, callback, waiting, request_queue, gil, net, worker, accepting, dying, starts, clients>>

StopSignal ==
    /\ MainAt("signal", "join")
    /\ waiting' = {}
    /\ UNCHANGED <<server, lock, request_queue, gil, net, worker, accepting, dying, starts, clients>>

\* pthread_join of every worker.
StopJoinWorkers ==
    /\ MainAt("join", "shutdown")
    /\ \A w \in Worker : wpc[w] = "off"
    /\ UNCHANGED <<server, sync, gil, net, worker, accepting, dying, starts, clients>>

\* A slip: the listening socket stays open.
StopWithoutShutdown ==
    /\ MainAt("shutdown", "join_run")
    /\ UNCHANGED <<server, sync, gil, net, worker, accepting, dying, starts, clients>>

\* shutdown and close: connections nobody accepted are reset.
StopShutdown ==
    /\ MainAt("shutdown", "join_run")
    /\ socket' = "closed"
    /\ conn' = [c \in Client |-> IF conn[c] = "backlog" THEN "reset" ELSE conn[c]]
    /\ backlog' = <<>>
    /\ UNCHANGED <<server, sync, gil, bound, worker, accepting, dying, starts, sent, reply>>

\* A slip: run_thread is not joined.
StopReturnsEarly ==
    /\ MainAt("join_run", IF dying THEN "freed" ELSE "idle")
    /\ request_queue' = IF dying THEN <<>> ELSE request_queue
    /\ gil' = Nobody
    /\ UNCHANGED <<server, lock, waiting, net, worker, accepting, dying, starts, clients>>

\* A slip: stop throws the queue away.
StopDropsQueue ==
    /\ apc = "off"
    /\ MainAt("join_run", IF dying THEN "freed" ELSE "idle")
    /\ request_queue' = <<>>
    /\ gil' = Nobody
    /\ UNCHANGED <<server, lock, waiting, net, worker, accepting, dying, starts, clients>>

\* pthread_join of run_thread, and stop returns: to the user, or to dealloc,
\* which then frees the server with whatever the queue still holds.
StopReturns ==
    /\ apc = "off"
    /\ MainAt("join_run", IF dying THEN "freed" ELSE "idle")
    /\ request_queue' = IF dying THEN <<>> ELSE request_queue
    /\ gil' = Nobody
    /\ UNCHANGED <<server, lock, waiting, net, worker, accepting, dying, starts, clients>>

\* TCPServer_set_request_callback, with a function or with None.
SetCallback ==
    /\ mpc \in {"idle", "up"} /\ gil = Nobody
    /\ callback' \in BOOLEAN
    /\ UNCHANGED <<keep_alive, is_alive, sync, gil, net, worker, accepting, main, clients>>

\* TCPServer_dealloc: stop first if run_thread says it is alive.
Dealloc ==
    /\ mpc \in {"idle", "up"} /\ gil = Nobody
    /\ dying' = TRUE
    /\ IF is_alive
       THEN mpc' = "stop" /\ gil' = Main /\ UNCHANGED request_queue
       ELSE mpc' = "freed" /\ request_queue' = <<>> /\ UNCHANGED gil
    /\ UNCHANGED <<server, lock, waiting, net, worker, accepting, starts, clients>>

-----------------------------------------------------------------------------
(* The clients: tcp_client_send_message in other threads or processes.     *)

\* connect(): the socket has a name to connect to and room in its backlog.
Connect(c) ==
    /\ conn[c] = "new" /\ socket = "listening" /\ bound
    /\ Len(backlog) < Backlog
    /\ backlog' = Append(backlog, c)
    /\ conn' = [conn EXCEPT ![c] = "backlog"]
    /\ UNCHANGED <<server, sync, gil, socket, bound, worker, accepting, main, sent, reply>>

\* The three writes; they need no reader.
Send(c) ==
    /\ conn[c] \in {"backlog", "open"} /\ ~sent[c]
    /\ sent' = [sent EXCEPT ![c] = TRUE]
    /\ UNCHANGED <<server, sync, gil, net, worker, accepting, main, conn, reply>>

-----------------------------------------------------------------------------
WorkerStep(w) ==
    \/ WorkerTest(w) \/ WorkerLock(w) \/ WorkerPeek(w)
    \/ WorkerRelock(w) \/ WorkerUnlock(w) \/ WorkerPop(w)
    \/ WorkerRead(w) \/ WorkerEnsure(w)
    \/ CallbackMissing(w) \/ CallbackEntered(w)
    \/ CallbackResumes(w) \/ CallbackReturns(w)
    \/ WorkerReply(w) \/ WorkerClose(w)

AcceptorStep ==
    \/ AcceptorEnter \/ AcceptorTest \/ Accept \/ AcceptFails
    \/ AcceptorLock \/ AcceptorAdd \/ AcceptorNotify \/ AcceptorExit

\* The rest of a method Main is already in.
MethodStep ==
    \/ StartSocket \/ StartRunThread
    \/ StopLock \/ StopClear \/ StopSignal
    \/ StopJoinWorkers \/ StopShutdown \/ StopReturns

MethodCall == StartWorkers \/ StopCalled \/ SetCallback \/ Dealloc

Next ==
    \/ \E w \in Worker : WorkerStep(w) \/ SpuriousWakeup(w) \/ CallbackYields(w)
    \/ AcceptorStep
    \/ MethodStep \/ MethodCall
    \/ \E c \in Client : Connect(c) \/ Send(c)

Spec == Init /\ [][Next]_vars

(***************************************************************************)
(* Fairness.  The kernel schedules every thread; neither the mutex nor the *)
(* GIL starves a thread that keeps asking (strong fairness); a callback    *)
(* that runs again and again returns; a client that has connected writes   *)
(* its message.  Nothing forces a method call, a new connection, a change  *)
(* of running Python thread, or a spurious wakeup.                         *)
(***************************************************************************)
Fairness ==
    /\ \A w \in Worker : SF_vars(WorkerStep(w)) /\ SF_vars(CallbackReturns(w))
    /\ SF_vars(AcceptorStep)
    /\ SF_vars(MethodStep)
    /\ \A c \in Client : WF_vars(Send(c))

FairSpec == Spec /\ Fairness

-----------------------------------------------------------------------------
(* Safety.                                                                 *)

\* The mutex is held by exactly the thread whose code is between a lock and
\* its unlock, so the queue and its nodes have one user at a time
\* (lock/unlock pairs at lines 89-98, 271-274 and 312-314).
LockDiscipline ==
    /\ \A w \in Worker : lock = w <=> wpc[w] \in {"peek", "unlock", "pop"}
    /\ lock = Acceptor <=> apc = "add"
    /\ lock = Main <=> mpc = "clear"

\* The GIL is Main's during a method call and a worker's while it looks at
\* self->callback; a worker holds it at no other time than around and in the
\* callback, so the Python objects of the server have one user at a time.
GilDiscipline ==
    /\ gil = Main <=> mpc \notin {"idle", "up", "freed"}
    /\ \A w \in Worker : /\ wpc[w] = "callback" => gil = w
                         /\ gil = w => wpc[w] \in {"callback", "running"}

\* Where connection c can be on its way through the server.
Queued(c) == c \in Range(request_queue)
InService(c) == \E w \in Worker : req[w] = c

\* An accepted connection is in exactly one place: in the accepting thread's
\* hands, at one position of the queue, or with one worker, until that worker
\* closes it.  No request is lost by the hand-over, none is served twice, and
\* no descriptor is used after close.  (A server that is freed forgets its
\* queue, descriptors included.)
OneHolder ==
    /\ \A c \in Client :
          /\ mpc # "freed" =>
                (conn[c] = "open" <=> Queued(c) \/ client_sock = c \/ InService(c))
          /\ Queued(c) => client_sock # c /\ ~InService(c)
          /\ client_sock = c => ~InService(c)
    /\ IsInjective(request_queue)
    /\ \A v, w \in Worker : req[v] = req[w] /\ req[v] # NoClient => v = w

\* No wakeup is lost between queue_add and pthread_cond_wait: once the
\* accepting thread has broadcast, nobody sleeps while a request is queued,
\* although the broadcast is sent without the mutex (line 277).
NoLostRequest ==
    request_queue # <<>> /\ apc # "notify" => waiting = {}

\* The server never closes a connection without having answered it
\* (lines 145-170), and answers only connections it accepted.
CloseAfterReply ==
    \A c \in Client : /\ conn[c] = "closed" => reply[c] # "none"
                      /\ reply[c] # "none" => conn[c] \in {"open", "closed"}

\* When stop has returned no thread of the server is left and nothing holds
\* the mutex or waits on the condition, so start may be called again; and
\* when dealloc went through stop, it frees a server nobody uses.
QuietWhenStopped ==
    mpc = "idle" \/ (mpc = "freed" /\ ~keep_alive) =>
        /\ \A w \in Worker : wpc[w] = "off" /\ req[w] = NoClient
        /\ apc = "off" /\ client_sock = NoClient
        /\ lock = Nobody /\ waiting = {} /\ backlog = <<>>
        /\ socket \in {"none", "closed"} /\ ~is_alive

-----------------------------------------------------------------------------
(* The inductive invariant behind these.                                   *)

Serving == {"read", "ensure", "callback", "running", "reply", "close"}

\* Who has a request in hand, and that a request found is a request to pop.
HandsInv ==
    /\ \A w \in Worker :
          /\ req[w] # NoClient <=> wpc[w] \in Serving
          /\ wpc[w] = "pop" /\ mpc # "freed" => request_queue # <<>>
    /\ client_sock # NoClient <=> apc \in {"lock", "add"}
    /\ \A w \in waiting : wpc[w] = "wait"

\* Which threads and which socket there are at each stage of Main's calls.
PhaseInv ==
    /\ mpc # "freed" => (keep_alive <=> mpc \in {"socket", "run", "up", "stop", "clear"})
    /\ mpc \in {"idle", "shutdown", "join_run"} \/ (mpc = "freed" /\ ~keep_alive) =>
          \A w \in Worker : wpc[w] = "off"
    /\ mpc \in {"idle", "socket", "run"} \/ (mpc = "freed" /\ ~keep_alive) => apc = "off"
    /\ mpc \in {"idle", "socket", "join_run"} \/ (mpc = "freed" /\ ~keep_alive) =>
          socket \in {"none", "closed"}
    /\ socket # "listening" => backlog = <<>>
    /\ is_alive => apc \notin {"off", "enter"}

\* The kernel's backlog holds the connections that are neither accepted nor reset.
BacklogInv ==
    /\ IsInjective(backlog)
    /\ \A c \in Client : c \in Range(backlog) <=> conn[c] = "backlog"

\* Where a connection is while it is still unanswered.
ReplyInv ==
    /\ \A c \in Client :
          /\ reply[c] # "none" => conn[c] \in {"open", "closed"} /\ ~Queued(c) /\ client_sock # c
          /\ conn[c] = "closed" => reply[c] # "none"
    /\ \A w \in Worker : wpc[w] \in Serving => (reply[req[w]] # "none" <=> wpc[w] = "close")

IInv ==
    /\ TypeOK /\ LockDiscipline /\ GilDiscipline /\ HandsInv /\ PhaseInv
    /\ OneHolder /\ BacklogInv /\ ReplyInv /\ NoLostRequest

\* Where an abstract service would see the connections: the queue is the
\* line, the workers' hands are the service.
Service == INSTANCE RequestService WITH
    Capacity <- Cardinality(Worker),
    running <- mpc # "freed",
    pending <- request_queue,
    active <- {c \in Client : InService(c)},
    answer <- reply

\* The pool implements the service: first come, first taken, one answer each.
ImplementsService == Service!Spec

-----------------------------------------------------------------------------
(* Actions.                                                                *)

\* A reply, once written, is never replaced, and is only ever written by a
\* worker that has been through the callback stage with that connection.
ReplyOnce ==
    [][\A c \in Client : reply'[c] # reply[c] =>
            /\ reply[c] = "none"
            /\ \E w \in Worker : req[w] = c /\ wpc[w] = "reply"]_vars

-----------------------------------------------------------------------------
(* Liveness.                                                               *)

\* A connection the server has accepted is answered, unless the server is
\* told to stop; one left in the queue by a stop is answered once the server
\* is started again and left running.
ServedWhileRunning ==
    \A c \in Client : conn[c] = "open" ~> (reply[c] # "none" \/ ~keep_alive \/ mpc = "freed")

\* Once the workers are out, closing the listening socket gets the accepting
\* thread out of accept(), so stop returns.
StopReturnsOnceJoined == (mpc = "shutdown") ~> (mpc \in {"idle", "freed"})

\* A stop gets all workers out or it hangs for good, and for two reasons only: a
\* worker that fell asleep after the broadcast is never woken (lines 92 and 317),
\* or one needs the GIL, which stop does not let go of (lines 116 and 322).
AsleepForGood(w) == [](mpc = "join" /\ w \in waiting)
WithoutGilForGood(w) == [](mpc = "join" /\ gil = Main /\ wpc[w] \in {"ensure", "running"})
StopHangsOnlyOn ==
    mpc = "stop" ~>
        mpc = "shutdown" \/ \E w \in Worker : AsleepForGood(w) \/ WithoutGilForGood(w)

-----------------------------------------------------------------------------
(* What the repository says and the code does not do.                      *)

\* "Stop the server" (tcp_server.c:376): a call of stop returns.
StopCompletes == (mpc = "stop") ~> (mpc \in {"idle", "freed"})
=============================================================================
