----------------------------- MODULE WebServer -----------------------------
(***************************************************************************)
(* The coroutine web server of bench/webserver/main.c on the calls of      *)
(* async.c: main() accepts and creates one coroutine per connection, which *)
(* reads requests and answers them.  async_accept(), async_recv() and      *)
(* async_send() make a non-blocking system call and, on EAGAIN, suspend    *)
(* the coroutine until the scheduler finds the descriptor ready.           *)
(*                                                                         *)
(* The scheduler is abstracted to what Scheduler promises: a coroutine     *)
(* that waits is put on the run list of a thread whose event loop sees an  *)
(* event of its descriptor, and may so go on on another thread than        *)
(* before.  An action is a system call with the code up to the next one;   *)
(* the threads are cooperative, so that errno is read on the thread of the *)
(* call and before anything else happens there.  Requests and responses    *)
(* have a length as in EventServer, and clients wait for a response before *)
(* they send another request.                                              *)
(***************************************************************************)
EXTENDS Integers, FiniteSets

CONSTANTS
    Threads,   \* threads of the scheduler
    Handlers,  \* coroutines that run server_handler_coro()
    Main,      \* the coroutine of main()
    Socks,     \* descriptors that accept4() may return
    Listener,  \* the listening socket
    None,      \* no thread, no coroutine
    MaxOpen,   \* bound on connections
    ReqLen,    \* units of a request
    RespLen    \* units of the headers and of the page

Coros == Handlers \cup {Main}

ASSUME WebServerAssumption ==
    /\ ReqLen \in Nat \ {0} /\ RespLen \in Nat \ {0} /\ MaxOpen \in Nat
    /\ Main \notin Handlers /\ Listener \notin Socks
    /\ None \notin Coros \cup Threads

VARIABLES
    running,  \* per thread: the coroutine it executes; None: its event loop
    list,     \* per coroutine: the thread on whose run list it is, or None
    waits,    \* coroutines inside sched_event_wait()
    revents,  \* coroutines woken with WAITERR
    pc,       \* per coroutine: the call it makes, "free" if there is none
    fd,       \* per coroutine: its descriptor
    conn,     \* per coroutine: its web_request and the kernel's socket
    queue,    \* kernel: connections not accepted yet
    open,     \* descriptors accepted and not closed
    status    \* the process: "running", "exited"

cpu == <<running, list, waits, revents>>
vars == <<cpu, pc, fd, conn, queue, open, status>>

Conns == [stage : {"read", "headers", "body"}, parsed : 0 .. ReqLen,
          keep_alive : BOOLEAN, length : {0, RespLen}, left : 0 .. RespLen,
          inbox : 0 .. ReqLen, room : BOOLEAN,
          peer : {"open", "fin", "reset", "timeout", "dead"}]

\* A new connection.  The kernel's part: units received, room for more to send,
\* and the state of the peer.
NewConn ==
    [stage |-> "read", parsed |-> 0, keep_alive |-> FALSE, length |-> 0,
     left |-> 0, inbox |-> 0, room |-> TRUE, peer |-> "open"]

\* main() before its loop.
Init ==
    /\ \E t \in Threads :
          running = [u \in Threads |-> IF u = t THEN Main ELSE None]
    /\ list = [c \in Coros |-> None]
    /\ waits = {} /\ revents = {}
    /\ pc = [c \in Coros |-> IF c = Main THEN "accept" ELSE "free"]
    /\ fd = [c \in Coros |-> Listener]
    /\ conn = [c \in Handlers |-> NewConn]
    /\ queue = 0 /\ open = {}
    /\ status = "running"

At(t, l) == status = "running" /\ running[t] # None /\ pc[running[t]] = l

Goto(c, l) == pc' = [pc EXCEPT ![c] = l]

----------------------------------------------------------------------------
(* The scheduler.                                                          *)

\* A coroutine of t's run list, or its event loop.
NextOf(t) == {c \in Coros : list[c] = t} \cup {None}

\* Thread t switches to n.
SwitchTo(t, n) ==
    /\ running' = [running EXCEPT ![t] = n]
    /\ list' = [c \in Coros |-> IF c = n THEN None ELSE list[c]]

\* sched_event_wait(), until the coroutine has left the thread.
sched_event_wait(t) ==
    LET c == running[t] IN
    /\ \E n \in NextOf(t) : SwitchTo(t, n)
    /\ waits' = waits \cup {c}
    /\ UNCHANGED <<revents, pc, fd, conn, queue, open, status>>

\* The event loop of t runs a coroutine of its run list.
sched_resched(t) ==
    /\ status = "running" /\ running[t] = None
    /\ \E n \in NextOf(t) \ {None} : SwitchTo(t, n)
    /\ UNCHANGED <<waits, revents, pc, fd, conn, queue, open, status>>

\* An event is pending that c waits for.
Pending(c) ==
    IF c = Main THEN queue > 0
    ELSE \/ conn[c].peer \notin {"open", "fin"}
         \/ conn[c].stage = "read" /\ (conn[c].inbox > 0 \/ conn[c].peer = "fin")
         \/ conn[c].stage # "read" /\ conn[c].room

Failed(c) == c # Main /\ conn[c].peer \in {"reset", "timeout"}

\* The event loop of t wakes c.
sched_poll_event(t, c) ==
    /\ status = "running" /\ running[t] = None
    /\ c \in waits /\ Pending(c)
    /\ list' = [list EXCEPT ![c] = t]
    /\ waits' = waits \ {c}
    /\ revents' = IF Failed(c) THEN revents \cup {c} ELSE revents
    /\ UNCHANGED <<running, pc, fd, conn, queue, open, status>>

----------------------------------------------------------------------------
(* async.c and the server.                                                 *)

\* The address of another thread's errno is used, whose event loop has set none.
Bug_sched_errno(t, e) ==
    IF \E u \in Threads \ {t} : running[u] = None THEN "0" ELSE e
\* What sched_errno reads on thread t after a call that failed there with e.
sched_errno(t, e) == e

\* exit_error()
Exit == status' = "exited" /\ UNCHANGED <<pc, conn>>

\* The coroutine goes on with call l.
Continue(c, l, d) ==
    /\ Goto(c, l)
    /\ conn' = [conn EXCEPT ![c] = d]
    /\ UNCHANGED status

\* server_handler_coro(): the end of its loop, or the next request.
NextRequest(c, d) ==
    Continue(c, IF d.keep_alive THEN "recv" ELSE "close",
             [d EXCEPT !.stage = "read", !.parsed = 0, !.keep_alive = FALSE,
                       !.length = 0])

\* The socket's error has been fetched and so cleared.
Cleared(c) == [conn[c] EXCEPT !.peer = "dead"]

\* read_and_parse() if async_recv() returns -1: EPIPE and ECONNRESET end the
\* connection, everything else the process.
recv_failed(t, c, e) ==
    IF sched_errno(t, e) = "reset" THEN Continue(c, "close", Cleared(c)) ELSE Exit

\* send_http_headers() and send_http_response() if send_all() returns -1.
send_failed(t, c, e) ==
    IF conn[c].stage = "body" /\ sched_errno(t, e) = "reset"
    THEN NextRequest(c, Cleared(c))
    ELSE Exit

(***************************************************************************)
(* What main() does with the result of async_accept(): it exits on an      *)
(* error (here: the limit on descriptors), or creates a coroutine for the  *)
(* socket, which sched_new_coroutine() puts on the run list of this thread *)
(* or of a new one.                                                        *)
(***************************************************************************)
main_loop ==
    \/ Exit /\ UNCHANGED <<cpu, fd, queue, open>>
    \/ /\ \E f \in Socks \ open, u \in Threads,
             h \in {c \in Handlers : pc[c] = "free"} :
             /\ queue' = queue - 1
             /\ open' = open \cup {f}
             /\ fd' = [fd EXCEPT ![h] = f]
             /\ list' = [list EXCEPT ![h] = u]
             /\ Continue(h, "recv", NewConn)
       /\ UNCHANGED <<running, waits, revents>>

\* accept4() of async_accept().
async_accept(t) ==
    /\ At(t, "accept")
    /\ \/ /\ queue = 0
          /\ IF sched_errno(t, "EAGAIN") = "EAGAIN" THEN sched_event_wait(t)
             ELSE Exit /\ UNCHANGED <<cpu, fd, queue, open>>
       \/ queue > 0 /\ main_loop

(***************************************************************************)
(* WAIT_RETURN_SOCKET_ERROR after the wait: with WAITERR the call returns  *)
(* -1 with the socket's error; without, the caller's loop goes round.      *)
(***************************************************************************)
socket_error(t) ==
    LET c == running[t]
        e == conn[c].peer
    IN
    /\ status = "running" /\ c \in revents
    /\ revents' = revents \ {c}
    /\ IF pc[c] = "recv" THEN recv_failed(t, c, e) ELSE send_failed(t, c, e)
    /\ UNCHANGED <<running, list, waits, fd, queue, open>>

\* http_parser_execute() on k units of c's request: it goes on, or is done.
Parsed(c, k) ==
    LET d == [conn[c] EXCEPT !.inbox = @ - k, !.parsed = @ + k] IN
    IF d.parsed < ReqLen THEN {d}
    ELSE {[d EXCEPT !.stage = "headers", !.left = RespLen, !.keep_alive = r.keep_alive,
                    !.length = r.length] : r \in [keep_alive : BOOLEAN, length : {0, RespLen}]}

\* read_and_parse() with k units, until the request is done or the parser fails.
read_and_parse(c, k) ==
    \/ \E d \in Parsed(c, k) :
          Continue(c, IF d.stage = "read" THEN "recv" ELSE "send", d)
    \/ Continue(c, "close", [conn[c] EXCEPT !.inbox = @ - k])

\* recv() of async_recv(): data, the end of the stream, EAGAIN, or an error.
async_recv(t) ==
    LET c == running[t]
        d == conn[c]
    IN
    /\ At(t, "recv") /\ c \notin revents
    /\ \/ /\ \E k \in 1 .. d.inbox : read_and_parse(c, k)
          /\ UNCHANGED <<cpu, fd, queue, open>>
       \/ /\ d.inbox = 0 /\ d.peer \in {"fin", "dead"}
          /\ Continue(c, "close", d)
          /\ UNCHANGED <<cpu, fd, queue, open>>
       \/ /\ d.inbox = 0 /\ d.peer = "open"
          /\ IF sched_errno(t, "EAGAIN") = "EAGAIN" THEN sched_event_wait(t)
             ELSE recv_failed(t, c, "EAGAIN") /\ UNCHANGED <<cpu, fd, queue, open>>
       \/ /\ d.inbox = 0 /\ Failed(c)
          /\ recv_failed(t, c, d.peer)
          /\ UNCHANGED <<cpu, fd, queue, open>>

\* A part is taken for the whole.
Bug_send_all(c, d) ==
    IF d.stage = "headers" /\ d.length > 0
    THEN Continue(c, "send", [d EXCEPT !.stage = "body", !.left = d.length])
    ELSE NextRequest(c, d)
\* send_all() after a send(): once more, or on to the page or the next request.
send_all(c, d) ==
    CASE d.left > 0 -> Continue(c, "send", d)
      [] d.left = 0 /\ d.stage = "headers" /\ d.length > 0 ->
            Continue(c, "send", [d EXCEPT !.stage = "body", !.left = d.length])
      [] OTHER -> NextRequest(c, d)

\* The terminating null is counted as sent.
Bug_Sent(d, k, room) == [d EXCEPT !.left = @ - (k + 1), !.room = room]
\* send() has taken k units: buf += sent, size -= sent.
Sent(d, k, room) == [d EXCEPT !.left = @ - k, !.room = room]

(***************************************************************************)
(* send() of async_send(), which may take a part only and fill the socket. *)
(***************************************************************************)
async_send(t) ==
    LET c == running[t]
        d == conn[c]
    IN
    /\ At(t, "send") /\ c \notin revents
    /\ \/ /\ d.peer \in {"open", "fin"} /\ d.room
          /\ \E k \in 1 .. d.left, room \in BOOLEAN :
                /\ k < d.left => ~room
                /\ send_all(c, Sent(d, k, room))
          /\ UNCHANGED <<cpu, fd, queue, open>>
       \/ /\ d.peer \in {"open", "fin"} /\ ~d.room
          /\ IF sched_errno(t, "EAGAIN") = "EAGAIN" THEN sched_event_wait(t)
             ELSE send_failed(t, c, "EAGAIN") /\ UNCHANGED <<cpu, fd, queue, open>>
       \/ /\ d.peer \notin {"open", "fin"}
          /\ send_failed(t, c, IF d.peer = "dead" THEN "reset" ELSE d.peer)
          /\ UNCHANGED <<cpu, fd, queue, open>>

\* The handler returns without closing.
Bug_close(t) ==
    /\ At(t, "close")
    /\ Goto(running[t], "die")
    /\ UNCHANGED <<cpu, fd, conn, queue, open, status>>
\* server_handler_coro() frees its request and closes its socket.
close(t) ==
    LET c == running[t] IN
    /\ At(t, "close")
    /\ open' = open \ {fd[c]}
    /\ Goto(c, "die")
    /\ UNCHANGED <<cpu, fd, conn, queue, status>>

\* sched_coro_die() and free_coro().
sched_coro_die(t) ==
    LET c == running[t] IN
    /\ At(t, "die")
    /\ \E n \in NextOf(t) : SwitchTo(t, n)
    /\ Goto(c, "free")
    /\ fd' = [fd EXCEPT ![c] = Listener]
    /\ conn' = [conn EXCEPT ![c] = NewConn]
    /\ UNCHANGED <<waits, revents, queue, open, status>>

----------------------------------------------------------------------------
(* The clients.                                                            *)

connect ==
    /\ status = "running"
    /\ queue + Cardinality(open) < MaxOpen
    /\ queue' = queue + 1
    /\ UNCHANGED <<cpu, pc, fd, conn, open, status>>

Client(c, d) ==
    /\ status = "running"
    /\ fd[c] \in open /\ pc[c] # "die"
    /\ conn' = [conn EXCEPT ![c] = d]
    /\ UNCHANGED <<cpu, pc, fd, queue, open, status>>

client_sends(c) ==
    LET d == conn[c] IN
    /\ d.peer = "open" /\ d.stage = "read" /\ d.inbox + d.parsed < ReqLen
    /\ Client(c, [d EXCEPT !.inbox = @ + 1])

client_reads(c) ==
    ~conn[c].room /\ Client(c, [conn[c] EXCEPT !.room = TRUE])

\* It closes its end, resets the connection, or is not heard of again.
client_leaves(c) ==
    LET d == conn[c] IN
    \E p \in {"fin", "reset", "timeout"} :
       /\ d.peer = "open" \/ (d.peer = "fin" /\ p # "fin")
       /\ Client(c, [d EXCEPT !.peer = p])

----------------------------------------------------------------------------

ThreadStep(t) ==
    \/ async_accept(t)
    \/ async_recv(t) \/ async_send(t) \/ socket_error(t)
    \/ close(t) \/ sched_coro_die(t)
    \/ sched_resched(t)
    \/ \E c \in Coros : sched_poll_event(t, c)

ClientStep ==
    \/ connect
    \/ \E c \in Handlers : client_sends(c) \/ client_reads(c) \/ client_leaves(c)

Next == (\E t \in Threads : ThreadStep(t)) \/ ClientStep

Spec == Init /\ [][Next]_vars

----------------------------------------------------------------------------

TypeOK ==
    /\ running \in [Threads -> Coros \cup {None}]
    /\ list \in [Coros -> Threads \cup {None}]
    /\ waits \subseteq Coros /\ revents \subseteq Handlers
    /\ pc \in [Coros -> {"free", "accept", "recv", "send", "close", "die"}]
    /\ fd \in [Coros -> Socks \cup {Listener}]
    /\ conn \in [Handlers -> Conns]
    /\ queue \in 0 .. MaxOpen
    /\ open \subseteq Socks
    /\ status \in {"running", "exited"}

Live(c) == pc[c] \notin {"free", "die"}

\* Scheduler lets a coroutine call sched_event_wait() only for a descriptor that no
\* other coroutine waits for, since EPOLL_CTL_ADD is asserted to succeed: here every
\* accepted descriptor has exactly one coroutine, also when accept4() hands out a
\* number that another thread has just closed.
OneHandler ==
    \A f \in Socks :
       Cardinality({c \in Handlers : Live(c) /\ fd[c] = f}) = IF f \in open THEN 1 ELSE 0

\* The wrapper sched_get_errno() is there so that a coroutine reads the errno of the
\* thread it runs on: the process exits because accept4() fails, because a connection
\* fails with another error than a reset, or because the headers meet a reset,
\* never because a call would block or another coroutine's call failed.
ExitsForCause ==
    [][status' = "exited" =>
         \E t \in Threads :
            LET c == running[t] IN
            \/ c = Main /\ queue > 0
            \/ c \in Handlers /\ conn[c].peer = "timeout"
            \/ /\ c \in Handlers /\ pc[c] = "send" /\ conn[c].stage = "headers"
               /\ conn[c].peer \in {"reset", "dead"}]_vars

\* A client that has sent its request and is still there gets all of its response:
\* send_all() goes on after a part, and neither a wait for room nor the move to
\* another thread loses the rest.
AnsweredInFull ==
    [][\A c \in Handlers :
          pc[c] = "send" /\ conn[c].peer = "open" /\ pc'[c] # "send" =>
             /\ conn'[c].left = 0
             /\ conn[c].stage = "body" \/ conn[c].length = 0]_vars

----------------------------------------------------------------------------
(* What holds between any two steps, from which the properties follow.     *)

\* A coroutine runs on one thread, is on one run list, waits, or is none at all.
Places ==
    /\ \A t, u \in Threads : running[t] # None /\ running[t] = running[u] => t = u
    /\ \A t \in Threads : running[t] # None =>
          list[running[t]] = None /\ running[t] \notin waits /\ pc[running[t]] # "free"
    /\ \A c \in Coros : list[c] # None => c \notin waits /\ pc[c] # "free"

\* Only main() accepts, and a coroutine waits inside a call that may block.  It is
\* told of an error only that its socket still has.
Calls ==
    /\ pc[Main] = "accept"
    /\ \A c \in Handlers : pc[c] # "accept"
    /\ \A c \in waits : pc[c] \in {"accept", "recv", "send"}
    /\ \A c \in revents : pc[c] \in {"recv", "send"} /\ Failed(c)

\* A request is no longer than ReqLen, and is read before it is answered.
Requests ==
    \A c \in Handlers :
       /\ conn[c].inbox + conn[c].parsed <= ReqLen
       /\ pc[c] = "send" => conn[c].stage # "read"

\* The descriptors of live handlers are open and distinct, and there are no others.
Descriptors ==
    /\ IsFiniteSet(open)
    /\ \A c \in Handlers : Live(c) => fd[c] \in open
    /\ \A c, d \in Handlers : Live(c) /\ Live(d) /\ fd[c] = fd[d] => c = d
    /\ \A f \in open : \E c \in Handlers : Live(c) /\ fd[c] = f

\* The invariant that every step of the server and of its clients preserves: a
\* descriptor, a socket's error and a request belong to one coroutine, wherever the
\* scheduler has it run.
IInv == TypeOK /\ Places /\ Calls /\ Requests /\ Descriptors
=============================================================================
