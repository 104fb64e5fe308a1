----------------------------- MODULE ClientLife -----------------------------
(***************************************************************************)
(* The calls of an application one after the other: mqtt_client_create and *)
(* mqtt_client_destroy of ClientConnect, and client_deamon_create of       *)
(* client_deamon.c, which opens a timer and an epoll descriptor, starts    *)
(* the deamon thread and closes both again at its end.  The thread uses    *)
(* the context the call has allocated; what it does there is ClientDeamon. *)
(***************************************************************************)
EXTENDS ClientConnect

VARIABLES
    dpc,       \* "idle", or where client_deamon_create is
    ctx,       \* the context: "none", "live" or "freed"
    sock_fd,   \* ctx->sock_fd
    timer_fd,  \* ctx->timer_fd
    epoll_fd,  \* ctx->epoll_fd
    dret,      \* return value of client_deamon_create: "ok" or "error"
    thread,    \* the deamon thread: "none", "running" or "ended"
    before     \* ghost: the descriptors open when the call was made

ctxVars == <<ctx, sock_fd, timer_fd, epoll_fd>>
deamonVars == <<dpc, ctxVars, dret, thread, before>>
connectVars == <<pc, socket_fd, clientVars, config, rcvtimeo, retry, got, ret, netVars,
                 connects, eof, ownerVars>>
lifeVars == <<vars, deamonVars>>

LifeInit ==
    /\ Init
    /\ dpc = "idle" /\ ctx = "none" /\ dret = "error" /\ thread = "none"
    /\ sock_fd = 0 /\ timer_fd = 0 /\ epoll_fd = 0 /\ before = {}

-----------------------------------------------------------------------------
(* client_deamon_create                                                    *)

Calm == UNCHANGED <<connectVars, proc>>

(* The kernel gives out the smallest free descriptor.                      *)
Lowest(fd) == \A other \in Free : fd <= other

(* Without memory for the context the call returns at once: no step.  The *)
(* model makes the next call when no thread of an earlier one is left.     *)
DeamonCreate ==
    /\ pc = "idle" /\ dpc = "idle" /\ thread = "none"
    /\ before' = open
    /\ ctx' = "live" /\ sock_fd' = socket_fd
    /\ dpc' = "timer"
    /\ Calm /\ UNCHANGED <<open, timer_fd, epoll_fd, dret, thread>>

(* init_global_timer, which closes the descriptor itself when it cannot    *)
(* set the timer.                                                          *)
InitTimer ==
    /\ dpc = "timer"
    /\ \/ /\ \E fd \in Free :
                Lowest(fd) /\ timer_fd' = fd /\ open' = open \cup {fd}
          /\ dpc' = "epoll"
          /\ UNCHANGED dret
       \/ /\ timer_fd' = NoDescriptor
          /\ dret' = "error" /\ dpc' = "free"
          /\ UNCHANGED open
    /\ Calm /\ UNCHANGED <<ctx, sock_fd, epoll_fd, thread, before>>

CreateEpoll ==
    /\ dpc = "epoll"
    /\ \/ /\ \E fd \in Free :
                Lowest(fd) /\ epoll_fd' = fd /\ open' = open \cup {fd}
          /\ dpc' = "add"
          /\ UNCHANGED dret
       \/ /\ epoll_fd' = NoDescriptor
          /\ dret' = "error" /\ dpc' = "close1"
          /\ UNCHANGED open
    /\ Calm /\ UNCHANGED <<ctx, sock_fd, timer_fd, thread, before>>

(* epoll_ctl refuses a descriptor that is not open, or is a file; for the  *)
(* timer it may lack memory.                                               *)
AddDescriptors ==
    /\ dpc = "add"
    /\ \/ /\ sock_fd \in open
          /\ dpc' = "spawn"
          /\ UNCHANGED dret
       \/ /\ dret' = "error" /\ dpc' = "close2"
    /\ Calm /\ UNCHANGED <<open, ctxVars, thread, before>>

Spawn ==
    /\ dpc = "spawn"
    /\ \/ /\ thread' = "running"
          /\ dret' = "ok" /\ dpc' = "join"
       \/ /\ dret' = "error" /\ dpc' = "close2"
          /\ UNCHANGED thread
    /\ Calm /\ UNCHANGED <<open, ctxVars, before>>

(* pthread_join gets the 0 pthread_create has returned, which names no     *)
(* thread: undefined, the call returns at once or the process ends.        *)
Join ==
    /\ dpc = "join"
    /\ \/ /\ dpc' = "close2" /\ UNCHANGED proc
       \/ /\ proc' = "segv" /\ UNCHANGED dpc
    /\ UNCHANGED <<connectVars, open, ctxVars, dret, thread, before>>

(* Mutation: without a thread the epoll descriptor is not closed.          *)
CloseEpollOnSuccess ==
    /\ dpc = "close2"
    /\ open' = IF dret = "ok" THEN open \ {epoll_fd} ELSE open
    /\ dpc' = "close1"
    /\ Calm /\ UNCHANGED <<ctxVars, dret, thread, before>>

CloseEpoll ==
    /\ dpc = "close2"
    /\ open' = open \ {epoll_fd}
    /\ dpc' = "close1"
    /\ Calm /\ UNCHANGED <<ctxVars, dret, thread, before>>

CloseTimer ==
    /\ dpc = "close1"
    /\ open' = open \ {timer_fd}
    /\ dpc' = "free"
    /\ Calm /\ UNCHANGED <<ctxVars, dret, thread, before>>

FreeContext ==
    /\ dpc = "free"
    /\ ctx' = IF thread = "running" THEN "freed" ELSE "none"
    /\ thread' = IF thread = "running" THEN "running" ELSE "none"
    /\ dpc' = "idle"
    /\ sock_fd' = 0 /\ timer_fd' = 0 /\ epoll_fd' = 0
    /\ dret' = "error" /\ before' = {}
    /\ Calm /\ UNCHANGED open

(* epoll_wait on a descriptor that is closed, or on what a freed context   *)
(* holds in its place: an error ends the thread, a bad address the process.*)
ThreadEnds ==
    /\ thread = "running"
    /\ \/ /\ epoll_fd \notin open \/ ctx = "freed"
          /\ thread' = "ended"
          /\ UNCHANGED proc
       \/ /\ ctx = "freed" /\ proc' = "segv"
          /\ UNCHANGED thread
    /\ UNCHANGED <<connectVars, open, dpc, ctxVars, dret, before>>

-----------------------------------------------------------------------------
DeamonCall ==
    \/ DeamonCreate \/ InitTimer \/ CreateEpoll \/ AddDescriptors \/ Spawn \/ Join
    \/ CloseEpoll \/ CloseTimer \/ FreeContext

ConnectStep ==
    /\ dpc = "idle"
    /\ Next
    /\ UNCHANGED deamonVars

LifeNext == ConnectStep \/ (proc = "running" /\ (DeamonCall \/ ThreadEnds))

LifeSpec == LifeInit /\ [][LifeNext]_lifeVars /\ Fairness

-----------------------------------------------------------------------------
(* What the call in progress has open: its socket, from socket() to the    *)
(* close at the label disconnect, or what client_deamon_create has opened. *)
Connecting == IF pc \in {"idle", "socket"} THEN {} ELSE {socket_fd}

Attached ==
    CASE dpc \in {"epoll", "close1"}                   -> {timer_fd}
      [] dpc \in {"add", "spawn", "join", "close2"}    -> {timer_fd, epoll_fd}
      [] OTHER                                         -> {}

(* At any moment every open descriptor has an owner, and nothing else is   *)
(* open: the one of the start, what the call in progress has opened, the   *)
(* socket of a create whose connect() failed, which its client still       *)
(* names, and such sockets that a later create has forgotten (the leak of  *)
(* client.c:155-161: create may be called again without a destroy).  So a  *)
(* socket outlives its call only if connect() failed; one that reached the *)
(* broker never does, not even in a client that is connected, and no exit  *)
(* of client_deamon_create closes another's, although numbers are reused.  *)
DescriptorsAccounted ==
    /\ open = UNION {std, unmet, stray, Connecting, Attached}
    /\ Connecting \cap UNION {std, unmet, stray} = {}
    /\ Attached \cap UNION {std, unmet, stray} = {}
    /\ unmet \subseteq {socket_fd}

(* Every way out of client_deamon_create closes what the call has opened,  *)
(* and nothing else: neither the client's socket nor, after an error half  *)
(* way, a descriptor that was never opened (client_deamon.c:272-330).      *)
DeamonLeavesNothing ==
    [][dpc # "idle" /\ dpc' = "idle" => open' = before]_lifeVars

(* What the comment at the join says: the call waits for the thread to end *)
(* (client_deamon.c:322).                                                  *)
CreateWaits ==
    dret = "ok" /\ dpc \in {"close2", "close1", "free"} => thread = "ended"
=============================================================================
