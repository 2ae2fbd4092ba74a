---------------------------- MODULE EventServer ----------------------------
(***************************************************************************)
(* The callback web server of bench/webserver/eventserv.c on the event     *)
(* library bench/webserver/eventlib.c.  All threads run async_run_loop()   *)
(* on one epoll instance; a waiter (the listening one, or the one of a     *)
(* request) is registered one-shot and belongs to whichever thread is      *)
(* given its event.  A callback is called by the library function that     *)
(* obtains its result and calls library functions in turn, so that a       *)
(* thread's chain of nested calls is a sequence of system calls; an action *)
(* is one of them, with the code that runs up to the next.                 *)
(*                                                                         *)
(* A request is ReqLen units long, the headers, and the page, of a         *)
(* response RespLen.  Clients wait for a response before they send another *)
(* request.  Operators named Bug_... are faulty variants of the definition *)
(* that follows them.                                                      *)
(***************************************************************************)
EXTENDS Integers, FiniteSets, Sequences

CONSTANTS
    Threads,   \* the main thread and the ones it creates
    Socks,     \* descriptors that accept4() may return
    Listener,  \* the listening socket and its waiter
    NoSock,    \* no waiter in hand
    MaxOpen,   \* bound: connections of clients at a time
    MaxEvents, \* MAX_EVENTS of eventlib.c
    ReqLen,    \* units of a request
    RespLen    \* units of the headers and of the page

ASSUME EventServerAssumption ==
    /\ MaxOpen \in Nat /\ MaxEvents \in Nat \ {0}
    /\ ReqLen \in Nat \ {0} /\ RespLen \in Nat \ {0}
    /\ Listener \notin Socks /\ NoSock \notin Socks \cup {Listener}

VARIABLES
    queue,   \* kernel: connections not accepted yet
    open,    \* descriptors accepted and not closed
    conn,    \* per descriptor: its web_request, and the kernel's socket
    reg,     \* kernel: waiters registered with the epoll instance
    armed,   \* kernel: those whose one-shot registration is enabled
    batch,   \* per thread: <<waiter, EPOLLERR set>> of events[], not yet handled
    pc,      \* per thread: the system call it is about to make
    cur,     \* per thread: the waiter that call is for
    via,     \* per thread: who makes it (see Callers)
    frames,  \* per thread: sockets of the on_accept() calls on its stack
    status   \* the process: "running", "exited", "undefined"

kernel == <<reg, armed>>
calls  == <<pc, cur, via, frames>>
vars == <<queue, open, conn, kernel, batch, calls, status>>

Waiters == Socks \cup {Listener}

(***************************************************************************)
(* "event": handle_accept(), handle_read(), handle_write(); "accept":      *)
(* async_recv() called by on_accept(); "call": any other async_...() call; *)
(* "error": below a callback that was given an error by handle_...(),      *)
(* which calls arm_waiter() when the callback returns.                     *)
(***************************************************************************)
Callers == {"event", "accept", "call", "error"}

(***************************************************************************)
(* stage is what the request waits for or does (wait_type and cb);         *)
(* "reset" and "timeout" are errors pending on the socket, "dead" is a     *)
(* socket whose error has been fetched.                                    *)
(***************************************************************************)
Conns == [stage : {"read", "headers", "body"}, parsed : 0 .. ReqLen,
          keep_alive : BOOLEAN, length : {0, RespLen}, written : 0 .. RespLen,
          inbox : 0 .. ReqLen, room : BOOLEAN,
          peer : {"open", "fin", "reset", "timeout", "dead"}]

\* on_accept() has just allocated it; what the client did so far varies.
NewConn(n, p) ==
    [stage |-> "read", parsed |-> 0, keep_alive |-> FALSE, length |-> RespLen,
     written |-> 0, inbox |-> n, room |-> TRUE, peer |-> p]

\* main(), up to its first call of async_accept(): the other threads run.
Init ==
    /\ queue = 0 /\ open = {}
    /\ conn = [f \in Socks |-> NewConn(0, "open")]
    /\ reg = {} /\ armed = {}
    /\ batch = [t \in Threads |-> {}]
    /\ \E main \in Threads :
          pc = [t \in Threads |-> IF t = main THEN "accept" ELSE "loop"]
    /\ cur = [t \in Threads |-> NoSock]
    /\ via = [t \in Threads |-> "call"]
    /\ frames = [t \in Threads |-> <<>>]
    /\ status = "running"

----------------------------------------------------------------------------
(* How a step ends.                                                        *)

At(t, l) == status = "running" /\ pc[t] = l

\* Thread t goes on with call l for waiter w, made by v.
Goto(t, l, w, v) ==
    /\ pc' = [pc EXCEPT ![t] = l]
    /\ cur' = [cur EXCEPT ![t] = w]
    /\ via' = [via EXCEPT ![t] = v]
    /\ UNCHANGED status

Call(t, l, w, v) == Goto(t, l, w, v) /\ UNCHANGED frames

\* exit_error() and exit_error_num().
Exit == status' = "exited" /\ UNCHANGED calls

(***************************************************************************)
(* The chain of callbacks returns.  An on_accept() below it goes on with   *)
(* the request of its own socket; otherwise handle_event() returns.        *)
(***************************************************************************)
Return(t) ==
    \/ /\ frames[t] = <<>>
       /\ Call(t, "loop", NoSock, "call")
    \/ /\ frames[t] # <<>>
       /\ Goto(t, "recv", Head(frames[t]), "accept")
       /\ frames' = [frames EXCEPT ![t] = Tail(@)]

\* request_done(w, error): which errors end the process.
request_done(t, w, error, v) ==
    IF error = "timeout" THEN Exit ELSE Call(t, "close", w, v)

\* Only "other" errors are told from success.
Bug_on_read_error(t, w, error, v) == Exit
\* on_read() with a negative num_read.
on_read_error(t, w, error, v) ==
    IF error = "reset" THEN Call(t, "close", w, v) ELSE Exit

\* on_write of the stage with a negative result: send_http_response_helper() and
\* next_request() exit, request_done() closes.
on_write_error(t, w, error, v) ==
    IF conn[w].stage = "body" /\ ~conn[w].keep_alive
    THEN request_done(t, w, error, v)
    ELSE Exit

----------------------------------------------------------------------------
(* The library and the server.                                             *)

(***************************************************************************)
(* accept4() and on_accept(), which accepts again before it turns to its   *)
(* own socket.  The call may fail for another reason than EAGAIN, such as  *)
(* a limit on descriptors; then on_accept() or its caller exits.           *)
(***************************************************************************)
on_accept(t) ==
    \/ /\ Exit
       /\ UNCHANGED <<queue, open, conn>>
    \/ /\ queue > 0
       /\ queue' = queue - 1
       /\ \E f \in Socks \ open, n \in 0 .. ReqLen, p \in {"open", "fin", "reset"} :
             /\ open' = open \cup {f}
             /\ conn' = [conn EXCEPT ![f] = NewConn(n, p)]
             /\ frames' = [frames EXCEPT ![t] = <<f>> \o @]
       /\ Goto(t, "accept", NoSock, "call")

async_accept(t) ==
    /\ At(t, "accept") /\ via[t] # "event"
    /\ \/ on_accept(t)
       \/ /\ queue = 0
          /\ Call(t, "arm", Listener, "call")
          /\ UNCHANGED <<queue, open, conn>>
    /\ UNCHANGED <<kernel, batch>>

(***************************************************************************)
(* handle_accept() means to arm the waiter on EAGAIN, too, but its         *)
(* condition is true of every errno: on_accept() is given the error.       *)
(***************************************************************************)
handle_accept(t) ==
    /\ At(t, "accept") /\ via[t] = "event"
    /\ on_accept(t)
    /\ UNCHANGED <<kernel, batch>>

(***************************************************************************)
(* arm_waiter().  After an error callback that freed the request the       *)
(* waiter is read all the same: what happens then is undefined.            *)
(***************************************************************************)
arm_waiter(t) ==
    /\ At(t, "arm")
    /\ \/ /\ cur[t] = NoSock
          /\ status' = "undefined"
          /\ UNCHANGED <<kernel, calls>>
       \/ /\ cur[t] # NoSock
          /\ reg' = reg \cup {cur[t]}
          /\ armed' = armed \cup {cur[t]}
          /\ Return(t)
    /\ UNCHANGED <<queue, open, conn, batch>>

\* close() and free() of request_done().
close(t) ==
    LET f == cur[t] IN
    /\ At(t, "close")
    /\ open' = open \ {f}
    /\ conn' = [conn EXCEPT ![f] = NewConn(0, "open")]
    /\ \/ via[t] = "error" /\ Call(t, "arm", NoSock, "call")
       \/ via[t] # "error" /\ Return(t)
    /\ UNCHANGED <<queue, kernel, batch>>

\* The error that a system call on socket f returns and clears.
Failed(f) == conn[f].peer \in {"reset", "timeout"}
FetchError(f) == conn' = [conn EXCEPT ![f].peer = "dead"]

\* A request read in parts is not read on.
Bug_keep_reading(t, f) == Return(t)
\* on_read() with data that does not complete the request.
keep_reading(t, f) == Call(t, "recv", f, "call")

\* c with its request complete: done and keep_alive are set, the method decides on
\* the response.
on_parse_done(c) ==
    {[c EXCEPT !.stage = "headers", !.keep_alive = r.keep_alive, !.length = r.length] :
        r \in [keep_alive : BOOLEAN, length : {0, RespLen}]}

(***************************************************************************)
(* on_read() with k units: http_parser_execute() finds an error, or takes  *)
(* them all and calls on_parse_done() with the last one.                   *)
(***************************************************************************)
on_read(t, f, k) ==
    LET c == [conn[f] EXCEPT !.inbox = @ - k, !.parsed = @ + k] IN
    \/ /\ conn' = [conn EXCEPT ![f].inbox = @ - k]
       /\ Call(t, "close", f, "call")
    \/ /\ c.parsed < ReqLen
       /\ conn' = [conn EXCEPT ![f] = c]
       /\ keep_reading(t, f)
    \/ /\ c.parsed = ReqLen
       /\ \E d \in on_parse_done(c) : conn' = [conn EXCEPT ![f] = d]
       /\ Call(t, "send", f, "call")

\* recv() does not fail: data, the end of the stream, or EAGAIN.
recv(t, f) ==
    \/ \E k \in 1 .. conn[f].inbox : on_read(t, f, k)
    \/ /\ conn[f].inbox = 0 /\ conn[f].peer \in {"fin", "dead"}
       /\ Call(t, "close", f, "call")
       /\ UNCHANGED conn
    \/ /\ conn[f].inbox = 0 /\ conn[f].peer = "open"
       /\ Call(t, "arm", f, "call")
       /\ UNCHANGED conn

RecvFails(f) == conn[f].inbox = 0 /\ Failed(f) /\ FetchError(f)

\* async_recv() returns an error to its caller: on_accept() exits, on_read() and
\* next_request() call request_done().
async_recv(t) ==
    LET f == cur[t] IN
    /\ At(t, "recv") /\ via[t] # "event"
    /\ \/ recv(t, f)
       \/ /\ RecvFails(f)
          /\ IF via[t] = "accept" THEN Exit
             ELSE request_done(t, f, conn[f].peer, "call")
    /\ UNCHANGED <<queue, open, kernel, batch>>

\* handle_read() gives an error to on_read() and arms the waiter afterwards.
handle_read(t) ==
    LET f == cur[t] IN
    /\ At(t, "recv") /\ via[t] = "event"
    /\ \/ recv(t, f)
       \/ RecvFails(f) /\ on_read_error(t, f, conn[f].peer, "error")
    /\ UNCHANGED <<queue, open, kernel, batch>>

\* The whole of what async_send() was given: sendf_buffer, then the page.
Length(c) == IF c.stage = "headers" THEN RespLen ELSE c.length

\* All of it, whatever has been sent before.
Bug_remaining(c, written) == Length(c)
remaining(c, written) == Length(c) - written

\* on_done is given to send_http_headers() instead of send_http_response_helper().
Bug_on_write(t, f, c) ==
    /\ conn' = [conn EXCEPT ![f] = c]
    /\ Call(t, "close", f, "call")
(***************************************************************************)
(* on_write of the stage: send_http_response_helper() sends the page;      *)
(* then next_request() reads, on a kept connection, or request_done().     *)
(***************************************************************************)
on_write(t, f, c) ==
    \/ /\ c.stage = "headers"
       /\ conn' = [conn EXCEPT ![f] = [c EXCEPT !.stage = "body", !.written = 0]]
       /\ Call(t, "send", f, "call")
    \/ /\ c.stage = "body" /\ c.keep_alive
       /\ conn' = [conn EXCEPT ![f] = [NewConn(c.inbox, c.peer) EXCEPT !.room = c.room]]
       /\ Call(t, "recv", f, "call")
    \/ /\ c.stage = "body" /\ ~c.keep_alive
       /\ conn' = [conn EXCEPT ![f] = c]
       /\ Call(t, "close", f, "call")

Writable(c, left) == c.peer \in {"open", "fin"} /\ (c.room \/ left = 0)

(***************************************************************************)
(* send() of the `left` units after the first `written`: c afterwards.     *)
(* A part of them is sent only when that fills the socket's buffer.        *)
(***************************************************************************)
Sent(c, written, left) ==
    {[c EXCEPT !.written = written + s.units, !.room = s.room] :
        s \in {x \in [units : 0 .. left, room : BOOLEAN] :
                   IF left = 0 THEN x.room = c.room
                   ELSE x.units > 0 /\ (x.units < left => ~x.room)}}

\* send() fails with EAGAIN, or for good.
SendBlocks(t, f, written) ==
    /\ conn[f].peer \in {"open", "fin"} /\ ~Writable(conn[f], remaining(conn[f], written))
    /\ conn' = [conn EXCEPT ![f].written = written]
    /\ Call(t, "arm", f, "call")
SendFails(f) == (Failed(f) \/ conn[f].peer = "dead") /\ FetchError(f)

\* async_send() calls back after the first part of it, and returns an error to
\* send_http_response() or send_http_response_helper(), which call request_done().
async_send(t) ==
    LET f == cur[t]
        left == remaining(conn[f], 0)
    IN
    /\ At(t, "send") /\ via[t] = "call"
    /\ \/ /\ Writable(conn[f], left)
          /\ \E c \in Sent(conn[f], 0, left) : on_write(t, f, c)
       \/ SendBlocks(t, f, 0)
       \/ SendFails(f) /\ request_done(t, f, conn[f].peer, "call")
    /\ UNCHANGED <<queue, open, kernel, batch>>

\* handle_write() calls back when all is written; it gives an error to the
\* callback and arms the waiter afterwards.
handle_write(t) ==
    LET f == cur[t]
        written == conn[f].written
        left == remaining(conn[f], written)
    IN
    /\ At(t, "send") /\ via[t] = "event"
    /\ \/ /\ Writable(conn[f], left)
          /\ \E c \in Sent(conn[f], written, left) :
                \/ c.written = Length(c) /\ on_write(t, f, c)
                \/ /\ c.written # Length(c)
                   /\ conn' = [conn EXCEPT ![f] = c]
                   /\ Call(t, "arm", f, "call")
       \/ SendBlocks(t, f, written)
       \/ SendFails(f) /\ on_write_error(t, f, conn[f].peer, "error")
    /\ UNCHANGED <<queue, open, kernel, batch>>

\* An event that waiter w is registered for is pending.
Pending(w) ==
    IF w = Listener THEN queue > 0
    ELSE LET c == conn[w] IN
         \/ c.peer \notin {"open", "fin"}
         \/ c.stage = "read" /\ (c.inbox > 0 \/ c.peer = "fin")
         \/ c.stage # "read" /\ c.room

\* Registered without EPOLLONESHOT.
Bug_disarm(S) == UNCHANGED armed
\* EPOLLONESHOT: a registration that reported an event is disabled.
disarm(S) == armed' = armed \ S

(***************************************************************************)
(* epoll_wait() of async_run_loop(): everything pending, or as many events *)
(* as fit.  A connection may be reported ready for input that turns out to *)
(* be none (a segment that was discarded) or for room that is gone.        *)
(***************************************************************************)
async_run_loop(t) ==
    LET pending == {w \in armed : Pending(w)} IN
    /\ At(t, "loop") /\ batch[t] = {}
    /\ \E S \in SUBSET (pending \cup (armed \ {Listener})) \ {{}} :
          /\ Cardinality(S) <= MaxEvents
          /\ pending \subseteq S \/ Cardinality(S) = MaxEvents
          /\ disarm(S)
          /\ batch' = [batch EXCEPT ![t] =
                           {<<w, w # Listener /\ Failed(w)>> : w \in S}]
    /\ UNCHANGED <<queue, open, conn, reg, calls, status>>

(***************************************************************************)
(* handle_event(): EPOLL_CTL_DEL, then by the waiter's type; with EPOLLERR *)
(* the callback is given the socket's error at once.                       *)
(***************************************************************************)
handle_event(t, w, err) ==
    /\ At(t, "loop")
    /\ <<w, err>> \in batch[t]
    /\ batch' = [batch EXCEPT ![t] = @ \ {<<w, err>>}]
    /\ reg' = reg \ {w} /\ armed' = armed \ {w}
    /\ \/ /\ w = Listener
          /\ Call(t, "accept", NoSock, "event")
          /\ UNCHANGED conn
       \/ /\ w # Listener /\ ~err
          /\ Call(t, IF conn[w].stage = "read" THEN "recv" ELSE "send", w, "event")
          /\ UNCHANGED conn
       \/ /\ w # Listener /\ err
          /\ FetchError(w)
          /\ IF conn[w].stage = "read"
             THEN on_read_error(t, w, conn[w].peer, "call")
             ELSE on_write_error(t, w, conn[w].peer, "call")
    /\ UNCHANGED <<queue, open>>

----------------------------------------------------------------------------
(* The clients.                                                            *)

connect ==
    /\ status = "running"
    /\ queue + Cardinality(open) < MaxOpen
    /\ queue' = queue + 1
    /\ UNCHANGED <<open, conn, kernel, batch, calls, status>>

Client(f, c) ==
    /\ status = "running"
    /\ f \in open
    /\ conn' = [conn EXCEPT ![f] = c]
    /\ UNCHANGED <<queue, open, kernel, batch, calls, status>>

client_sends(f) ==
    LET c == conn[f] IN
    /\ c.peer = "open" /\ c.stage = "read" /\ c.inbox + c.parsed < ReqLen
    /\ Client(f, [c EXCEPT !.inbox = @ + 1])

client_reads(f) ==
    ~conn[f].room /\ Client(f, [conn[f] EXCEPT !.room = TRUE])

\* It closes its end, resets the connection, or is not heard of again.
client_leaves(f) ==
    LET c == conn[f] IN
    \E p \in {"fin", "reset", "timeout"} :
       /\ c.peer = "open" \/ (c.peer = "fin" /\ p # "fin")
       /\ Client(f, [c EXCEPT !.peer = p])

----------------------------------------------------------------------------

ThreadStep(t) ==
    \/ async_accept(t) \/ handle_accept(t)
    \/ arm_waiter(t)
    \/ close(t)
    \/ async_recv(t) \/ handle_read(t)
    \/ async_send(t) \/ handle_write(t)
    \/ async_run_loop(t)
    \/ \E w \in Waiters, err \in BOOLEAN : handle_event(t, w, err)

ClientStep ==
    \/ connect
    \/ \E f \in Socks : client_sends(f) \/ client_reads(f) \/ client_leaves(f)

Next == (\E t \in Threads : ThreadStep(t)) \/ ClientStep

Spec == Init /\ [][Next]_vars

----------------------------------------------------------------------------

TypeOK ==
    /\ queue \in 0 .. MaxOpen
    /\ open \subseteq Socks
    /\ conn \in [Socks -> Conns]
    /\ armed \subseteq reg /\ reg \subseteq Waiters
    /\ batch \in [Threads -> SUBSET (Waiters \X BOOLEAN)]
    /\ pc \in [Threads -> {"loop", "accept", "arm", "recv", "send", "close"}]
    /\ cur \in [Threads -> Waiters \cup {NoSock}]
    /\ via \in [Threads -> Callers]
    /\ frames \in [Threads -> Seq(Socks)]
    /\ status \in {"running", "exited", "undefined"}

\* The places where something is going to act on waiter w.
Events(w) == {x \in Threads \X BOOLEAN : <<w, x[2]>> \in batch[x[1]]}
Hands(w) == {t \in Threads : cur[t] = w}
Accepted(w) ==
    UNION {{t} \X {i \in DOMAIN frames[t] : frames[t][i] = w} : t \in Threads}
Owners(w) ==
    Cardinality(Events(w)) + Cardinality(Hands(w)) + Cardinality(Accepted(w))
       + Cardinality(armed \cap {w})

\* "So it can be serviced by another thread" (on_accept()): a connection is always
\* either registered for its next event or served by one thread, and no trace of
\* it is left once request_done() has closed and freed it; neither on_accept()'s
\* recursion nor the batches of two threads lose it or serve it twice.
OneOwner ==
    status = "running" =>
       \A f \in Socks : Owners(f) = IF f \in open THEN 1 ELSE 0

\* The assertion of handle_event(): EPOLL_CTL_DEL finds the registration through
\* which the event was reported.
DelSucceeds == \A t \in Threads : \A e \in batch[t] : e[1] \in reg

\* The condition of handle_accept() that lets EAGAIN pass for an error does no
\* harm: the thread that is given the listening socket's event always finds a
\* connection, because no other thread accepts until it has armed the waiter again.
AcceptFinds ==
    \A t \in Threads : pc[t] = "accept" /\ via[t] = "event" => queue > 0

\* "Generally means we're on a keep-alive connection and the client doesn't want to
\* make another request" (on_read()): a client that resets its connection ends the
\* process only if the first recv() of on_accept() meets the error or a response is
\* under way; the other causes are a lost client and a failing accept4().
ResetsSurvived ==
    [][status' = "exited" =>
         \/ \E t \in Threads : pc[t] = "accept"
         \/ \E f \in open : conn[f].peer = "timeout"
         \/ \E f \in open : conn[f].peer = "reset" /\ conn[f].stage # "read"
         \/ \E t \in Threads :
               pc[t] = "recv" /\ via[t] = "accept" /\ conn[cur[t]].peer = "reset"]_vars

\* A client that has sent its whole request and is still there is not cut off by
\* request_done() before its page is sent, nor at all if it is to be kept.
AnsweredBeforeClose ==
    [][\A f \in open \ open' :
          conn[f].peer = "open" /\ conn[f].stage # "read" =>
             /\ conn[f].stage = "body" /\ ~conn[f].keep_alive
             /\ conn[f].length > 0 => conn[f].written > 0]_vars

\* "assert(result == 0)" (arm_waiter()): the waiter it is given exists, and its
\* socket is not registered.
ArmSucceeds ==
    \A t \in Threads : pc[t] = "arm" => cur[t] \in (open \cup {Listener}) \ reg

----------------------------------------------------------------------------
(* What holds between any two steps, from which the properties follow.     *)

\* How thread t has waiter w to itself: as an event, in a call, in a frame of on_accept().
InBatch(t, w) == \E err \in BOOLEAN : <<w, err>> \in batch[t]
InHand(t, w) == cur[t] = w \/ (w = Listener /\ pc[t] = "accept")
Stacked(t, w) == \E i \in DOMAIN frames[t] : frames[t][i] = w
Holds(t, w) == InBatch(t, w) \/ InHand(t, w) \/ Stacked(t, w)

\* It has none in two ways.
HoldsOnce(t) ==
    /\ \A w \in Waiters : /\ ~(InBatch(t, w) /\ InHand(t, w))
                          /\ ~(InBatch(t, w) /\ Stacked(t, w))
                          /\ ~(InHand(t, w) /\ Stacked(t, w))
                          /\ ~(<<w, TRUE>> \in batch[t] /\ <<w, FALSE>> \in batch[t])
    /\ \A i, j \in DOMAIN frames[t] : frames[t][i] = frames[t][j] => i = j

\* The listening waiter, too, is armed or with one thread at most.
Ownership ==
    /\ \A t \in Threads : HoldsOnce(t)
    /\ \A t, u \in Threads : \A w \in Waiters : Holds(t, w) /\ Holds(u, w) => t = u
    /\ \A t \in Threads : \A w \in armed : ~Holds(t, w)
    /\ \A f \in Socks : f \in open <=> f \in armed \/ \E t \in Threads : Holds(t, f)

\* request_done() is called for a client that is gone or cannot be understood, or whose
\* response is under way to its end.
MayClose(c) ==
    \/ c.stage = "read" \/ c.peer # "open"
    \/ c.stage = "body" /\ ~c.keep_alive /\ (c.length > 0 => c.written > 0)

\* Each call of thread t is made for a waiter of its kind and in the stage it is meant
\* for; an event is reported for a reason that lasts until the thread acts on it.
ThreadOK(t) ==
    /\ pc[t] \in {"loop", "accept"} => cur[t] = NoSock
    /\ pc[t] \in {"recv", "send", "close"} => cur[t] \in Socks
    /\ via[t] = "event" => pc[t] \in {"accept", "recv", "send"}
    /\ via[t] = "accept" => pc[t] = "recv"
    /\ via[t] = "error" => pc[t] = "close"
    /\ pc[t] = "accept" /\ via[t] = "event" => queue > 0
    /\ pc[t] = "recv" => conn[cur[t]].stage = "read"
    /\ pc[t] = "send" => conn[cur[t]].stage # "read"
    /\ pc[t] = "close" => MayClose(conn[cur[t]])
    /\ \A f \in Socks : Stacked(t, f) => conn[f].stage = "read"
    /\ \A f \in Socks : <<f, TRUE>> \in batch[t] => Failed(f)
    /\ InBatch(t, Listener) => queue > 0

\* No more is read than a request is long, nor written than there is to write.
InBounds(c) ==
    c.inbox + c.parsed <= ReqLen /\ (c.stage = "body" => c.written <= c.length)

Serving ==
    /\ Ownership
    /\ \A t \in Threads : ThreadOK(t)
    /\ \A f \in Socks : InBounds(conn[f])
    /\ \A f \in open : conn[f].peer = "dead" =>
          \E t \in Threads : pc[t] = "close" /\ cur[t] = f
    /\ IsFiniteSet(open)

\* The invariant that every step of the server and of its clients preserves: a waiter
\* is passed on from the kernel to a thread, between the thread's callbacks and back,
\* and is in one place at a time, until the process ends.
IInv ==
    /\ TypeOK /\ DelSucceeds /\ AcceptFinds
    /\ status = "running" => Serving
=============================================================================
