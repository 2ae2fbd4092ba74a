-------------------------- MODULE WebServerProofs --------------------------
(***************************************************************************)
(* The web server is safe for any number of threads, connections and       *)
(* descriptors, and for requests and responses of any length.  The steps   *)
(* fall into few kinds (the process exits, a handler goes on with its next *)
(* call, a coroutine waits, runs or ends); there is one lemma per kind.    *)
(***************************************************************************)
EXTENDS WebServer, TLAPS, FiniteSetTheorems

\* The parts of the invariant.
LEMMA Parts ==
    ASSUME IInv
    PROVE  TypeOK /\ Places /\ Calls /\ Requests /\ Descriptors
BY Zenon DEF IInv

LEMMA InitHolds == Init => IInv
<1> SUFFICES ASSUME Init PROVE IInv
  OBVIOUS
<1> USE WebServerAssumption
<1>1. NewConn \in Conns
  BY DEF NewConn, Conns
<1>2. TypeOK
  <2>1. running \in [Threads -> Coros \cup {None}]
    BY Zenon DEF Init, Coros
  <2>2. pc \in [Coros -> {"free", "accept", "recv", "send", "close", "die"}]
    BY Zenon DEF Init
  <2>3. queue \in 0 .. MaxOpen
    BY DEF Init
  <2> QED
    BY Zenon, <1>1, <2>1, <2>2, <2>3 DEF Init, TypeOK
<1>3. Places
  BY Zenon DEF Init, Places, Coros
<1>4. Calls
  BY Zenon DEF Init, Calls, Coros
<1>5. Requests
  BY DEF Init, Requests, NewConn, Coros
<1>6. Descriptors
  BY Zenon, FS_EmptySet DEF Init, Descriptors, Live, Coros
<1> QED
  BY Zenon, <1>2, <1>3, <1>4, <1>5, <1>6 DEF IInv

\* The process exits: nothing changes but revents, which loses a coroutine at most.
LEMMA Keep_Exit ==
    ASSUME IInv, Exit, revents' \subseteq revents,
           UNCHANGED <<running, list, waits, fd, queue, open>>
    PROVE  IInv'
<1>1. UNCHANGED <<running, list, waits, fd, queue, open, pc, conn>> /\ status' = "exited"
  BY Zenon DEF Exit
<1>2. TypeOK' /\ Places' /\ Requests' /\ Descriptors'
  BY <1>1, Parts DEF TypeOK, Places, Requests, Descriptors, Live
<1>3. Calls'
  BY Zenon, <1>1, Parts DEF Calls, Failed
<1> QED
  BY Zenon, <1>2, <1>3 DEF IInv

\* A state of a connection in which its handler may make call l.
Fits(d, l) ==
    /\ d \in Conns /\ d.inbox + d.parsed <= ReqLen
    /\ l \in {"recv", "send", "close"}
    /\ l = "send" => d.stage # "read"

\* A handler goes on with its next call.
LEMMA Keep_Continue ==
    ASSUME IInv, NEW t \in Threads, running[t] \in Handlers,
           pc[running[t]] \in {"recv", "send"},
           NEW l, NEW d, Fits(d, l), Continue(running[t], l, d),
           revents' = revents \ {running[t]},
           UNCHANGED <<running, list, waits, fd, queue, open>>
    PROVE  IInv'
<1> DEFINE c == running[t]
<1> USE WebServerAssumption
<1>1. /\ pc' = [pc EXCEPT ![c] = l] /\ conn' = [conn EXCEPT ![c] = d] /\ status' = status
      /\ c \in Handlers /\ c \in Coros /\ c # Main /\ c # None
  BY Zenon DEF Continue, Goto, Coros
<1>2. /\ pc'[c] = l /\ \A x \in Coros : x # c => pc'[x] = pc[x]
      /\ conn'[c] = d /\ \A x \in Handlers : x # c => conn'[x] = conn[x]
      /\ \A x \in Handlers : x \in Coros
  BY Zenon, <1>1, Parts DEF TypeOK, Coros
<1>3. l \in {"recv", "send", "close"} /\ d \in Conns
  BY Zenon DEF Fits
<1> HIDE DEF c
<1>4. TypeOK'
  <2>1. pc' \in [Coros -> {"free", "accept", "recv", "send", "close", "die"}]
    BY Zenon, <1>1, <1>3, Parts DEF TypeOK
  <2>2. conn' \in [Handlers -> Conns]
    BY Zenon, <1>1, <1>3, Parts DEF TypeOK
  <2> QED
    BY Zenon, <1>1, <2>1, <2>2, Parts DEF TypeOK
<1>5. Places'
  <2>1. \A x \in Coros : pc[x] # "free" => pc'[x] # "free"
    BY Zenon, <1>2, <1>3
  <2>2. \A u \in Threads : running[u] # None => running[u] \in Coros
    BY Zenon, Parts DEF TypeOK
  <2> QED
    BY Zenon, <2>1, <2>2, Parts DEF Places
<1>6. Calls'
  <2>1. c \notin waits
    BY Zenon, <1>1, Parts DEF Places, c
  <2>2. waits \subseteq Coros /\ revents \subseteq Handlers
    BY Zenon, Parts DEF TypeOK
  <2>3. \A x \in revents' : x # c /\ x \in Handlers /\ Failed(x)'
    BY Zenon, <1>2, <2>2, Parts DEF Calls, Failed, c
  <2> QED
    BY ZenonT(40), <1>1, <1>2, <1>3, <2>1, <2>2, <2>3, Parts DEF Calls, Coros
<1>7. Requests'
  BY Zenon, <1>2, Parts DEF Requests, Fits
<1>8. Descriptors'
  <2>1. pc[c] \notin {"free", "die"} /\ pc'[c] \notin {"free", "die"}
    BY Zenon, <1>2, <1>3 DEF c
  <2>2. \A x \in Handlers : Live(x)' <=> Live(x)
    BY Zenon, <1>2, <2>1 DEF Live
  <2> QED
    BY ZenonT(40), <2>2, Parts DEF Descriptors
<1> QED
  BY Zenon, <1>4, <1>5, <1>6, <1>7, <1>8 DEF IInv

\* Thread t has switched to n, which was on its run list and in no other place.
Switched(t, n) ==
    /\ n # None => n \in Coros /\ list[n] = t /\ n \notin waits /\ pc[n] # "free"
    /\ running' \in [Threads -> Coros \cup {None}]
    /\ list' \in [Coros -> Threads \cup {None}]
    /\ running'[t] = n /\ \A u \in Threads : u # t => running'[u] = running[u]
    /\ \A x \in Coros : x # n => list'[x] = list[x]
    /\ n # None => list'[n] = None
    /\ \A u \in Threads : running[u] # None => running[u] # n /\ running[u] \in Coros

LEMMA Switch ==
    ASSUME IInv, NEW t \in Threads, NEW n \in NextOf(t), SwitchTo(t, n)
    PROVE  Switched(t, n)
<1> USE WebServerAssumption
<1>1. n # None => n \in Coros /\ list[n] = t /\ list[n] # None
  BY Zenon DEF NextOf
<1>2. \A u \in Threads : running[u] # None => running[u] # n
  BY Zenon, <1>1, Parts DEF Places
<1>3. /\ running' = [running EXCEPT ![t] = n]
      /\ list' = [c \in Coros |-> IF c = n THEN None ELSE list[c]]
  BY Zenon DEF SwitchTo
<1>4. n \in Coros \cup {None}
  BY Zenon, <1>1
<1>5. running' \in [Threads -> Coros \cup {None}] /\ list' \in [Coros -> Threads \cup {None}]
  BY Zenon, <1>3, <1>4, Parts DEF TypeOK
<1>6. running'[t] = n /\ \A u \in Threads : u # t => running'[u] = running[u]
  BY Zenon, <1>3, Parts DEF TypeOK
<1> QED
  BY <1>1, <1>2, <1>3, <1>5, <1>6, Parts DEF Places, Switched, TypeOK

\* A coroutine waits inside its call.
LEMMA Keep_event_wait ==
    ASSUME IInv, NEW t \in Threads, running[t] # None,
           pc[running[t]] \in {"accept", "recv", "send"}, sched_event_wait(t)
    PROVE  IInv'
<1> DEFINE c == running[t]
<1>1. PICK n : Switched(t, n)
  BY Zenon, Switch DEF sched_event_wait
<1>2. waits' = waits \cup {c} /\ UNCHANGED <<revents, pc, fd, conn, queue, open, status>>
  BY Zenon DEF sched_event_wait
<1>3. c \in Coros /\ c # None /\ pc[c] \in {"accept", "recv", "send"}
  BY Zenon, Parts DEF TypeOK
<1>4. TypeOK'
  BY Zenon, <1>1, <1>2, <1>3, Parts DEF TypeOK, Switched
<1>5. Places'
  <2>1. c # n /\ list[c] = None /\ c \notin waits
    BY Zenon, <1>1, <1>3, Parts DEF Places, Switched
  <2>2. \A u \in Threads : u # t => running[u] # c
    BY Zenon, <1>3, Parts DEF Places
  <2>3. \A u \in Threads : running[u] # None => running[u] \in Coros
    BY Zenon, <1>1 DEF Switched
  <2> HIDE DEF c
  <2>4. ASSUME NEW u \in Threads, running'[u] # None
        PROVE  /\ list'[running'[u]] = None /\ running'[u] \notin waits'
               /\ pc'[running'[u]] # "free"
    <3>1. CASE u = t
      BY Zenon, <1>1, <1>2, <2>1, <2>4, <3>1 DEF Switched
    <3>2. CASE u # t
      BY <1>1, <1>2, <2>2, <2>3, <2>4, <3>2, Parts DEF Places, Switched
    <3> QED
      BY Zenon, <3>1, <3>2
  <2>5. \A u, w \in Threads : running'[u] # None /\ running'[u] = running'[w] => u = w
    BY <1>1, Parts DEF Places, Switched
  <2>6. \A x \in Coros : list'[x] # None => x \notin waits' /\ pc'[x] # "free"
    BY ZenonT(40), <1>1, <1>2, <1>3, <2>1, WebServerAssumption, Parts DEF Places, Switched
  <2> QED
    BY Zenon, <2>4, <2>5, <2>6 DEF Places
<1>6. Calls' /\ Requests' /\ Descriptors'
  BY ZenonT(40), <1>2, <1>3, Parts DEF Calls, Requests, Descriptors, Failed, Live
<1> QED
  BY Zenon, <1>4, <1>5, <1>6 DEF IInv

LEMMA Keep_resched ==
    ASSUME IInv, NEW t \in Threads, sched_resched(t)
    PROVE  IInv'
<1>1. PICK n : n # None /\ Switched(t, n)
  BY Zenon, Switch DEF sched_resched
<1>2. UNCHANGED <<waits, revents, pc, fd, conn, queue, open, status>>
  BY Zenon DEF sched_resched
<1>3. TypeOK'
  BY Zenon, <1>1, <1>2, Parts DEF TypeOK, Switched
<1>4. Places'
  <2>1. \A u \in Threads : running[u] # None => running[u] \in Coros
    BY Zenon, Parts DEF TypeOK
  <2>2. ASSUME NEW u \in Threads, running'[u] # None
        PROVE  /\ list'[running'[u]] = None /\ running'[u] \notin waits'
               /\ pc'[running'[u]] # "free"
    <3>1. CASE u = t
      BY Zenon, <1>1, <1>2, <3>1 DEF Switched
    <3>2. CASE u # t
      BY <1>1, <1>2, <2>1, <2>2, <3>2, Parts DEF Places, Switched
    <3> QED
      BY Zenon, <3>1, <3>2
  <2>3. \A u, w \in Threads : running'[u] # None /\ running'[u] = running'[w] => u = w
    BY <1>1, Parts DEF Places, Switched
  <2>4. \A x \in Coros : list'[x] # None => x \notin waits' /\ pc'[x] # "free"
    BY Zenon, <1>1, <1>2, Parts DEF Places, Switched
  <2> QED
    BY Zenon, <2>2, <2>3, <2>4 DEF Places
<1>5. Calls' /\ Requests' /\ Descriptors'
  BY ZenonT(40), <1>2, Parts DEF Calls, Requests, Descriptors, Failed, Live
<1> QED
  BY Zenon, <1>3, <1>4, <1>5 DEF IInv

LEMMA Keep_poll_event ==
    ASSUME IInv, NEW t \in Threads, NEW c \in Coros, sched_poll_event(t, c)
    PROVE  IInv'
<1> USE WebServerAssumption
<1>1. /\ c \in waits /\ waits' = waits \ {c} /\ list' = [list EXCEPT ![c] = t]
      /\ revents' = (IF Failed(c) THEN revents \cup {c} ELSE revents)
      /\ UNCHANGED <<running, pc, fd, conn, queue, open, status>>
  BY Zenon DEF sched_poll_event
<1>2. list'[c] = t /\ \A x \in Coros : x # c => list'[x] = list[x]
  BY Zenon, <1>1, Parts DEF TypeOK
<1>3. TypeOK'
  BY Zenon, <1>1, Parts DEF TypeOK, Failed, Coros
<1>4. Places'
  <2>1. \A u \in Threads : running[u] # None => running[u] \in Coros
    BY Zenon, Parts DEF TypeOK
  <2>2. \A u \in Threads : running[u] # None => running[u] # c
    BY Zenon, <1>1, Parts DEF Places
  <2>3. pc[c] # "free"
    BY Zenon, <1>1, Parts DEF Calls
  <2> QED
    BY ZenonT(40), <1>1, <1>2, <2>1, <2>2, <2>3, Parts DEF Places
<1>5. Calls'
  <2>1. Failed(c) => c # Main /\ c \in Handlers
    BY Zenon DEF Failed, Coros
  <2>2. Failed(c) => pc[c] \in {"recv", "send"}
    BY Zenon, <1>1, <2>1, Parts DEF Calls
  <2>3. \A x : Failed(x)' <=> Failed(x)
    BY Zenon, <1>1 DEF Failed
  <2> QED
    BY Zenon, <1>1, <2>2, <2>3, Parts DEF Calls
<1>6. Requests' /\ Descriptors'
  BY Zenon, <1>1, Parts DEF Requests, Descriptors, Live
<1> QED
  BY Zenon, <1>3, <1>4, <1>5, <1>6 DEF IInv

----------------------------------------------------------------------------
(* The handler between two calls.                                          *)

\* The handler of c goes on with a call that its connection is fit for, or the process
\* exits.
Goes(c) == Exit \/ \E l, d : Fits(d, l) /\ Continue(c, l, d)

LEMMA Keep_Goes ==
    ASSUME IInv, NEW t \in Threads, running[t] \in Handlers,
           pc[running[t]] \in {"recv", "send"}, Goes(running[t]),
           revents' = revents \ {running[t]},
           UNCHANGED <<running, list, waits, fd, queue, open>>
    PROVE  IInv'
<1>1. CASE Exit
  BY Zenon, <1>1, Keep_Exit
<1>2. CASE \E l, d : Fits(d, l) /\ Continue(running[t], l, d)
  BY Zenon, <1>2, Keep_Continue
<1> QED
  BY Zenon, <1>1, <1>2 DEF Goes

\* The fields of a connection.
LEMMA Fields ==
    ASSUME NEW d \in Conns
    PROVE  /\ d.stage \in {"read", "headers", "body"}
           /\ d.inbox \in 0 .. ReqLen /\ d.parsed \in 0 .. ReqLen
           /\ d.left \in 0 .. RespLen /\ d.length \in {0, RespLen}
           /\ d.peer \in {"open", "fin", "reset", "timeout", "dead"}
BY Zenon DEF Conns

\* The numbers that code stores in them.
LEMMA Bounds == 0 \in 0 .. ReqLen /\ 0 \in 0 .. RespLen /\ RespLen \in 0 .. RespLen
BY WebServerAssumption

\* What the invariant says of a handler's connection.
LEMMA ConnOf ==
    ASSUME IInv, NEW c \in Handlers
    PROVE  /\ conn[c] \in Conns /\ conn[c].inbox + conn[c].parsed <= ReqLen
           /\ pc[c] = "send" => conn[c].stage \in {"headers", "body"}
<1>1. conn[c] \in Conns /\ conn[c].inbox + conn[c].parsed <= ReqLen
  BY Zenon, Parts DEF TypeOK, Requests
<1>2. pc[c] = "send" => conn[c].stage # "read"
  BY Zenon, Parts DEF Requests
<1> QED
  BY Zenon, <1>1, <1>2, Fields

LEMMA NextRequestGoes ==
    ASSUME NEW c, NEW d \in Conns, NextRequest(c, d)
    PROVE  Goes(c)
<1> DEFINE e == [d EXCEPT !.stage = "read", !.parsed = 0, !.keep_alive = FALSE, !.length = 0]
           l == IF d.keep_alive THEN "recv" ELSE "close"
<1>1. e \in Conns /\ e.inbox + e.parsed <= ReqLen
  <2>1. e \in Conns /\ e.inbox = d.inbox /\ e.parsed = 0
    BY Zenon, Bounds DEF Conns
  <2> QED
    BY <2>1, Fields, WebServerAssumption
<1>2. Continue(c, l, e)
  BY Zenon DEF NextRequest
<1>3. l \in {"recv", "close"}
  BY Zenon
<1> QED
  BY Zenon, <1>1, <1>2, <1>3 DEF Goes, Fits

LEMMA ClearedIs ==
    ASSUME IInv, NEW c \in Handlers
    PROVE  Cleared(c) \in Conns /\ Cleared(c).inbox + Cleared(c).parsed <= ReqLen
<1>1. /\ Cleared(c) \in Conns
      /\ Cleared(c).inbox = conn[c].inbox /\ Cleared(c).parsed = conn[c].parsed
  BY ZenonT(40), ConnOf DEF Cleared, Conns
<1> QED
  BY Zenon, <1>1, ConnOf

LEMMA recv_failedGoes ==
    ASSUME IInv, NEW t, NEW c \in Handlers, NEW e, recv_failed(t, c, e)
    PROVE  Goes(c)
BY Zenon, ClearedIs DEF recv_failed, Goes, Fits

LEMMA send_failedGoes ==
    ASSUME IInv, NEW t, NEW c \in Handlers, NEW e, send_failed(t, c, e)
    PROVE  Goes(c)
BY Zenon, ClearedIs, NextRequestGoes DEF send_failed, Goes

LEMMA read_and_parseGoes ==
    ASSUME IInv, NEW c \in Handlers, NEW k \in 1 .. conn[c].inbox, read_and_parse(c, k)
    PROVE  Goes(c)
<1> USE WebServerAssumption
<1> DEFINE d == [conn[c] EXCEPT !.inbox = @ - k, !.parsed = @ + k]
<1>0. /\ conn[c].inbox - k \in 0 .. ReqLen /\ conn[c].parsed + k \in 0 .. ReqLen
      /\ (conn[c].inbox - k) + (conn[c].parsed + k) <= ReqLen
      /\ (conn[c].inbox - k) + conn[c].parsed <= ReqLen
  BY ConnOf, Fields
<1>1. d \in Conns /\ d.inbox + d.parsed <= ReqLen
  BY ZenonT(40), <1>0, ConnOf DEF Conns
<1> HIDE DEF d
<1>2. ASSUME NEW r \in [keep_alive : BOOLEAN, length : {0, RespLen}]
      PROVE  LET e == [d EXCEPT !.stage = "headers", !.left = RespLen,
                                !.keep_alive = r.keep_alive, !.length = r.length]
             IN  e \in Conns /\ e.inbox + e.parsed <= ReqLen
  BY Zenon, <1>1, <1>2, Bounds DEF Conns
<1>3. \A e \in Parsed(c, k) : e \in Conns /\ e.inbox + e.parsed <= ReqLen
  BY Zenon, <1>1, <1>2 DEF Parsed, d
<1>4. CASE \E e \in Parsed(c, k) : Continue(c, IF e.stage = "read" THEN "recv" ELSE "send", e)
  BY Zenon, <1>3, <1>4 DEF Goes, Fits
<1>5. CASE Continue(c, "close", [conn[c] EXCEPT !.inbox = @ - k])
  <2> DEFINE e == [conn[c] EXCEPT !.inbox = @ - k]
  <2>1. e \in Conns /\ e.inbox + e.parsed <= ReqLen
    BY ZenonT(40), <1>0, ConnOf DEF Conns
  <2> QED
    BY Zenon, <1>5, <2>1 DEF Goes, Fits
<1> QED
  BY Zenon, <1>4, <1>5 DEF read_and_parse

LEMMA send_allGoes ==
    ASSUME IInv, NEW c \in Handlers, pc[c] = "send",
           NEW k \in 1 .. conn[c].left, NEW room \in BOOLEAN,
           send_all(c, Sent(conn[c], k, room))
    PROVE  Goes(c)
<1> USE WebServerAssumption
<1> DEFINE d == Sent(conn[c], k, room)
           e == [d EXCEPT !.stage = "body", !.left = d.length]
<1>0. conn[c].left - k \in 0 .. RespLen
  BY ConnOf, Fields
<1>1. /\ d \in Conns /\ d.inbox + d.parsed <= ReqLen /\ d.stage = conn[c].stage
  BY ZenonT(40), <1>0, ConnOf DEF Conns, Sent
<1>2. d.stage # "read"
  BY Zenon, <1>1, ConnOf
<1> HIDE DEF d
<1>3. /\ e \in Conns /\ e.inbox + e.parsed <= ReqLen /\ e.stage = "body"
  BY ZenonT(40), <1>1, Fields, Bounds DEF Conns
<1> HIDE DEF e
<1>4. Continue(c, "send", d) \/ Continue(c, "send", e) \/ NextRequest(c, d)
  BY Zenon DEF send_all, d, e
<1> QED
  BY Zenon, <1>1, <1>2, <1>3, <1>4, NextRequestGoes DEF Goes, Fits

----------------------------------------------------------------------------
(* The calls of a handler, and the end of one.                             *)

\* All but main() runs a handler.
LEMMA HandlerAt ==
    ASSUME IInv, NEW t \in Threads, NEW l, At(t, l), l # "accept"
    PROVE  /\ running[t] \in Handlers /\ running[t] # None /\ running[t] # Main
           /\ pc[running[t]] = l
<1>1. running[t] \in Coros /\ running[t] # None /\ pc[running[t]] = l
  BY Zenon, Parts DEF At, TypeOK
<1>2. running[t] # Main
  BY Zenon, <1>1, Parts DEF Calls
<1> QED
  BY Zenon, <1>1, <1>2 DEF Coros

\* The handler on t goes on without a wait.
GoesOn(t) ==
    /\ Goes(running[t]) /\ revents' = revents \ {running[t]}
    /\ UNCHANGED <<running, list, waits, fd, queue, open>>

LEMMA Keep_GoesOn ==
    ASSUME IInv, NEW t \in Threads, running[t] \in Handlers,
           pc[running[t]] \in {"recv", "send"}, GoesOn(t)
    PROVE  IInv'
BY Zenon, Keep_Goes DEF GoesOn

LEMMA Keep_recv ==
    ASSUME IInv, NEW t \in Threads, async_recv(t)
    PROVE  IInv'
<1> DEFINE c == running[t]
           d == conn[c]
           Rest == UNCHANGED <<cpu, fd, queue, open>>
<1>1. c \in Handlers /\ c # None /\ pc[c] = "recv" /\ c \notin revents
  BY Zenon, HandlerAt DEF async_recv
<1>2. \/ \E k \in 1 .. d.inbox : read_and_parse(c, k) /\ Rest
      \/ Continue(c, "close", d) /\ Rest
      \/ sched_event_wait(t)
      \/ \E e : recv_failed(t, c, e) /\ Rest
  BY Zenon DEF async_recv, sched_errno
<1>3. Rest => /\ revents' = revents \ {c}
              /\ UNCHANGED <<running, list, waits, fd, queue, open>>
  BY Zenon, <1>1 DEF cpu
<1>4. Continue(c, "close", d) => Goes(c)
  BY Zenon, <1>1, ConnOf DEF Goes, Fits
<1>5. CASE sched_event_wait(t)
  BY Zenon, <1>1, <1>5, Keep_event_wait
<1>6. CASE Goes(c) /\ Rest
  BY Zenon, <1>1, <1>3, <1>6, Keep_GoesOn DEF GoesOn
<1> QED
  BY Zenon, <1>1, <1>2, <1>4, <1>5, <1>6, read_and_parseGoes, recv_failedGoes

LEMMA Keep_send ==
    ASSUME IInv, NEW t \in Threads, async_send(t)
    PROVE  IInv'
<1> DEFINE c == running[t]
           d == conn[c]
           Rest == UNCHANGED <<cpu, fd, queue, open>>
<1>1. c \in Handlers /\ c # None /\ pc[c] = "send" /\ c \notin revents
  BY Zenon, HandlerAt DEF async_send
<1>2. \/ \E k \in 1 .. d.left, room \in BOOLEAN : send_all(c, Sent(d, k, room)) /\ Rest
      \/ sched_event_wait(t)
      \/ \E e : send_failed(t, c, e) /\ Rest
  BY Zenon DEF async_send, sched_errno
<1>3. Rest => /\ revents' = revents \ {c}
              /\ UNCHANGED <<running, list, waits, fd, queue, open>>
  BY Zenon, <1>1 DEF cpu
<1>4. CASE sched_event_wait(t)
  BY Zenon, <1>1, <1>4, Keep_event_wait
<1>5. CASE Goes(c) /\ Rest
  BY Zenon, <1>1, <1>3, <1>5, Keep_GoesOn DEF GoesOn
<1> QED
  BY Zenon, <1>1, <1>2, <1>4, <1>5, send_allGoes, send_failedGoes

LEMMA Keep_socket_error ==
    ASSUME IInv, NEW t \in Threads, socket_error(t)
    PROVE  IInv'
<1> DEFINE c == running[t]
<1>1. c \in Handlers /\ pc[c] \in {"recv", "send"}
  BY Zenon, Parts DEF socket_error, TypeOK, Calls
<1>2. \/ recv_failed(t, c, conn[c].peer)
      \/ send_failed(t, c, conn[c].peer)
  BY Zenon DEF socket_error
<1>3. revents' = revents \ {c} /\ UNCHANGED <<running, list, waits, fd, queue, open>>
  BY Zenon DEF socket_error
<1> QED
  BY Zenon, <1>1, <1>2, <1>3, recv_failedGoes, send_failedGoes, Keep_Goes

\* close(): the descriptor goes, and with it the only handler that had it.
LEMMA Keep_close ==
    ASSUME IInv, NEW t \in Threads, close(t)
    PROVE  IInv'
<1> DEFINE c == running[t]
<1>1. c \in Handlers /\ c # None /\ c # Main /\ pc[c] = "close" /\ c \in Coros
  BY Zenon, HandlerAt DEF close, Coros
<1>2. /\ open' = open \ {fd[c]} /\ pc' = [pc EXCEPT ![c] = "die"]
      /\ UNCHANGED <<running, list, waits, revents, fd, conn, queue, status>>
  BY Zenon DEF close, Goto, cpu
<1>3. pc'[c] = "die" /\ \A x \in Coros : x # c => pc'[x] = pc[x]
  BY Zenon, <1>1, <1>2, Parts DEF TypeOK
<1>4. \A x \in Handlers : x \in Coros
  BY Zenon DEF Coros
<1>5. c \notin waits
  BY Zenon, <1>1, Parts DEF Places
<1>6. \A u \in Threads : running[u] # None => running[u] \in Coros
  BY Zenon, Parts DEF TypeOK
<1> HIDE DEF c
<1>7. TypeOK'
  BY Zenon, <1>2, Parts DEF TypeOK
<1>8. Places'
  BY ZenonT(40), <1>2, <1>3, <1>6, Parts DEF Places
<1>9. Calls'
  <2>1. \A x : Failed(x)' <=> Failed(x)
    BY Zenon, <1>2 DEF Failed
  <2>2. waits \subseteq Coros /\ revents \subseteq Handlers
    BY Zenon, Parts DEF TypeOK
  <2>3. \A x \in revents : x # c
    BY Zenon, <1>1, Parts DEF Calls
  <2> QED
    BY ZenonT(40), <1>1, <1>2, <1>3, <1>4, <1>5, <2>1, <2>2, <2>3, Parts DEF Calls, Coros
<1>10. Requests'
  BY Zenon, <1>2, <1>3, <1>4, Parts DEF Requests
<1>11. Descriptors'
  <2>1. \A x \in Handlers : Live(x)' <=> Live(x) /\ x # c
    BY Zenon, <1>1, <1>3, <1>4 DEF Live
  <2>2. Live(c)
    BY Zenon, <1>1 DEF Live
  <2>3. IsFiniteSet(open')
    BY Zenon, <1>2, FS_Subset, Parts DEF Descriptors
  <2> QED
    BY ZenonT(40), <1>1, <1>2, <2>1, <2>2, <2>3, Parts DEF Descriptors
<1> QED
  BY Zenon, <1>7, <1>8, <1>9, <1>10, <1>11 DEF IInv

LEMMA Keep_coro_die ==
    ASSUME IInv, NEW t \in Threads, sched_coro_die(t)
    PROVE  IInv'
<1> DEFINE c == running[t]
<1> USE WebServerAssumption
<1>1. c \in Handlers /\ c # None /\ c # Main /\ pc[c] = "die" /\ c \in Coros
  BY Zenon, HandlerAt DEF sched_coro_die, Coros
<1>2. PICK n : Switched(t, n)
  BY Zenon, Switch DEF sched_coro_die
<1>3. /\ pc' = [pc EXCEPT ![c] = "free"] /\ fd' = [fd EXCEPT ![c] = Listener]
      /\ conn' = [conn EXCEPT ![c] = NewConn]
      /\ UNCHANGED <<waits, revents, queue, open, status>>
  BY Zenon DEF sched_coro_die, Goto
<1>4. /\ pc'[c] = "free" /\ \A x \in Coros : x # c => pc'[x] = pc[x]
      /\ conn'[c] = NewConn /\ \A x \in Handlers : x # c => conn'[x] = conn[x]
      /\ \A x \in Coros : x # c => fd'[x] = fd[x]
  BY Zenon, <1>1, <1>3, Parts DEF TypeOK
<1>5. \A x \in Handlers : x \in Coros
  BY Zenon DEF Coros
<1>6. c \notin waits /\ list[c] = None /\ c # n
  BY Zenon, <1>1, <1>2, Parts DEF Places, Switched
<1>7. \A u \in Threads : u # t => running[u] # c
  BY Zenon, <1>1, Parts DEF Places
<1>8. NewConn \in Conns /\ NewConn.inbox = 0 /\ NewConn.parsed = 0
  BY Zenon, Bounds DEF NewConn, Conns
<1> HIDE DEF c
<1>9. TypeOK'
  BY Zenon, <1>2, <1>3, <1>8, Parts DEF TypeOK, Switched
<1>10. Places'
  <2>1. ASSUME NEW u \in Threads, running'[u] # None
        PROVE  /\ list'[running'[u]] = None /\ running'[u] \notin waits'
               /\ pc'[running'[u]] # "free"
    <3>1. CASE u = t
      BY ZenonT(40), <1>2, <1>3, <1>4, <1>6, <2>1, <3>1 DEF Switched
    <3>2. CASE u # t
      <4>1. running'[u] = running[u] /\ running[u] \in Coros /\ running[u] # n
        BY Zenon, <1>2, <2>1, <3>2 DEF Switched
      <4>2. pc'[running[u]] = pc[running[u]] /\ list'[running[u]] = list[running[u]]
        BY ZenonT(40), <1>2, <1>4, <1>7, <3>2, <4>1 DEF Switched
      <4> QED
        BY Zenon, <1>3, <2>1, <4>1, <4>2, Parts DEF Places
    <3> QED
      BY Zenon, <3>1, <3>2
  <2>2. \A u, w \in Threads : running'[u] # None /\ running'[u] = running'[w] => u = w
    BY <1>2, Parts DEF Places, Switched
  <2>3. \A x \in Coros : list'[x] # None => x \notin waits' /\ pc'[x] # "free"
    <3>1. \A x \in Coros : list'[x] # None => x # c /\ list'[x] = list[x]
      BY ZenonT(40), <1>2, <1>6 DEF Switched
    <3> QED
      BY ZenonT(40), <1>3, <1>4, <3>1, Parts DEF Places
  <2> QED
    BY Zenon, <2>1, <2>2, <2>3 DEF Places
<1>11. Calls'
  <2>1. waits \subseteq Coros /\ revents \subseteq Handlers
    BY Zenon, Parts DEF TypeOK
  <2>2. \A x \in revents : x # c
    BY Zenon, <1>1, Parts DEF Calls
  <2>3. \A x \in revents : Failed(x)'
    BY ZenonT(40), <1>4, <2>1, <2>2, Parts DEF Failed, Calls
  <2> QED
    BY <1>1, <1>3, <1>4, <1>5, <1>6, <2>1, <2>2, <2>3, Parts DEF Calls, Coros
<1>12. Requests'
  <2>1. NewConn.inbox + NewConn.parsed <= ReqLen
    BY <1>8
  <2> QED
    BY Zenon, <1>4, <1>5, <2>1, Parts DEF Requests
<1>13. Descriptors'
  <2>1. \A x \in Handlers : Live(x)' <=> Live(x)
    BY Zenon, <1>1, <1>4, <1>5 DEF Live
  <2>2. \A x \in Handlers : Live(x) => fd'[x] = fd[x]
    BY Zenon, <1>1, <1>4, <1>5 DEF Live
  <2> QED
    BY <1>3, <2>1, <2>2, Parts DEF Descriptors
<1> QED
  BY Zenon, <1>9, <1>10, <1>11, <1>12, <1>13 DEF IInv

----------------------------------------------------------------------------
(* main() and the clients.                                                 *)

\* main() makes a handler for the descriptor that accept4() has returned.
LEMMA Keep_main_loop ==
    ASSUME IInv, main_loop, queue > 0
    PROVE  IInv'
<1> USE WebServerAssumption
<1>1. CASE Exit /\ UNCHANGED <<cpu, fd, queue, open>>
  <2>1. UNCHANGED <<running, list, waits, revents, fd, queue, open>>
    BY Zenon, <1>1 DEF cpu
  <2> QED
    BY Zenon, <1>1, <2>1, Keep_Exit
<1>2. CASE ~(Exit /\ UNCHANGED <<cpu, fd, queue, open>>)
  <2>1. PICK f \in Socks \ open, u \in Threads, h \in {c \in Handlers : pc[c] = "free"} :
           /\ queue' = queue - 1 /\ open' = open \cup {f}
           /\ fd' = [fd EXCEPT ![h] = f] /\ list' = [list EXCEPT ![h] = u]
           /\ Continue(h, "recv", NewConn)
           /\ UNCHANGED <<running, waits, revents>>
    BY Zenon, <1>2 DEF main_loop
  <2>2. /\ pc' = [pc EXCEPT ![h] = "recv"] /\ conn' = [conn EXCEPT ![h] = NewConn]
        /\ status' = status
    BY Zenon, <2>1 DEF Continue, Goto
  <2>3. h \in Handlers /\ h \in Coros /\ pc[h] = "free" /\ h # Main
    BY Zenon DEF Coros
  <2>4. /\ pc'[h] = "recv" /\ \A x \in Coros : x # h => pc'[x] = pc[x]
        /\ conn'[h] = NewConn /\ \A x \in Handlers : x # h => conn'[x] = conn[x]
        /\ fd'[h] = f /\ \A x \in Coros : x # h => fd'[x] = fd[x]
        /\ list'[h] = u /\ \A x \in Coros : x # h => list'[x] = list[x]
        /\ \A x \in Handlers : x \in Coros
    BY Zenon, <2>1, <2>2, <2>3, Parts DEF TypeOK, Coros
  <2>5. h \notin waits /\ h \notin revents
    BY Zenon, <2>3, Parts DEF Calls
  <2>6. NewConn \in Conns /\ NewConn.inbox = 0 /\ NewConn.parsed = 0
    BY Zenon, Bounds DEF NewConn, Conns
  <2>7. TypeOK'
    <3>1. queue' \in 0 .. MaxOpen
      <4>1. queue \in 0 .. MaxOpen
        BY Zenon, Parts DEF TypeOK
      <4> QED
        BY <2>1, <4>1
    <3>2. pc' \in [Coros -> {"free", "accept", "recv", "send", "close", "die"}]
      BY Zenon, <2>2, Parts DEF TypeOK
    <3> QED
      BY ZenonT(40), <2>1, <2>2, <2>6, <3>1, <3>2, Parts DEF TypeOK
  <2>8. Places'
    <3>1. \A v \in Threads : running[v] # None => running[v] \in Coros /\ running[v] # h
      BY ZenonT(40), <2>3, Parts DEF TypeOK, Places
    <3> QED
      BY <2>1, <2>4, <2>5, <3>1, Parts DEF Places
  <2>9. Calls'
    <3>1. waits \subseteq Coros /\ revents \subseteq Handlers
      BY Zenon, Parts DEF TypeOK
    <3>2. \A x \in revents : Failed(x)'
      BY ZenonT(40), <2>4, <2>5, <3>1, Parts DEF Failed, Calls
    <3> QED
      BY <2>1, <2>3, <2>4, <2>5, <3>1, <3>2, Parts DEF Calls, Coros
  <2>10. Requests'
    <3>1. NewConn.inbox + NewConn.parsed <= ReqLen
      BY <2>6
    <3> QED
      BY ZenonT(40), <2>4, <3>1, Parts DEF Requests
  <2>11. Descriptors'
    <3>1. \A x \in Handlers : Live(x)' <=> Live(x) \/ x = h
      BY Zenon, <2>4 DEF Live
    <3>2. ~Live(h)
      BY Zenon, <2>3 DEF Live
    <3>3. IsFiniteSet(open')
      BY Zenon, <2>1, FS_AddElement, Parts DEF Descriptors
    <3>4. \A x \in Handlers : Live(x) => fd[x] \in open /\ fd'[x] = fd[x]
      BY ZenonT(40), <2>4, <3>2, Parts DEF Descriptors
    <3> QED
      BY <2>1, <2>3, <2>4, <3>1, <3>2, <3>3, <3>4, Parts DEF Descriptors
  <2> QED
    BY Zenon, <2>7, <2>8, <2>9, <2>10, <2>11 DEF IInv
<1> QED
  BY Zenon, <1>1, <1>2

LEMMA Keep_accept ==
    ASSUME IInv, NEW t \in Threads, async_accept(t)
    PROVE  IInv'
<1>1. running[t] # None /\ pc[running[t]] = "accept"
  BY Zenon DEF async_accept, At
<1>2. sched_event_wait(t) \/ (queue > 0 /\ main_loop)
  BY Zenon DEF async_accept, sched_errno
<1> QED
  BY Zenon, <1>1, <1>2, Keep_event_wait, Keep_main_loop

LEMMA Keep_connect == IInv /\ connect => IInv'
<1> SUFFICES ASSUME IInv, connect PROVE IInv'
  OBVIOUS
<1>1. UNCHANGED <<running, list, waits, revents, pc, fd, conn, open, status>>
  BY Zenon DEF connect, cpu
<1>2. queue' \in 0 .. MaxOpen
  <2>1. queue \in 0 .. MaxOpen /\ Cardinality(open) \in Nat
    BY Zenon, FS_CardinalityType, Parts DEF TypeOK, Descriptors
  <2> QED
    BY <2>1, WebServerAssumption DEF connect
<1>3. TypeOK' /\ Calls'
  BY Zenon, <1>1, <1>2, Parts DEF TypeOK, Calls, Failed
<1>4. Places' /\ Requests'
  BY Zenon, <1>1, Parts DEF Places, Requests
<1>5. Descriptors'
  BY Zenon, <1>1, Parts DEF Descriptors, Live
<1> QED
  BY Zenon, <1>3, <1>4, <1>5 DEF IInv

\* A client changes its own connection, and an error stays until it is fetched.
LEMMA Keep_Client ==
    ASSUME IInv, NEW c \in Handlers, NEW d \in Conns, d.inbox + d.parsed <= ReqLen,
           d.stage = conn[c].stage, Failed(c) => d.peer = conn[c].peer, Client(c, d)
    PROVE  IInv'
<1>1. /\ UNCHANGED <<running, list, waits, revents, pc, fd, queue, open, status>>
      /\ conn' = [conn EXCEPT ![c] = d]
  BY Zenon DEF Client, cpu
<1>2. conn'[c] = d /\ \A x \in Handlers : x # c => conn'[x] = conn[x]
  BY Zenon, <1>1, Parts DEF TypeOK
<1>3. TypeOK'
  BY Zenon, <1>1, Parts DEF TypeOK
<1>4. Places'
  BY Zenon, <1>1, Parts DEF Places
<1>5. Calls'
  <2>1. \A x \in Handlers : Failed(x) => Failed(x)'
    BY Zenon, <1>2 DEF Failed
  <2>2. revents \subseteq Handlers
    BY Zenon, Parts DEF TypeOK
  <2> QED
    BY Zenon, <1>1, <2>1, <2>2, Parts DEF Calls
<1>6. Requests'
  BY ZenonT(40), <1>1, <1>2, Parts DEF Requests
<1>7. Descriptors'
  BY Zenon, <1>1, Parts DEF Descriptors, Live
<1> QED
  BY ZenonT(40), <1>3, <1>4, <1>5, <1>6, <1>7 DEF IInv

LEMMA Keep_clients ==
    ASSUME IInv, NEW c \in Handlers, client_sends(c) \/ client_reads(c) \/ client_leaves(c)
    PROVE  IInv'
<1> DEFINE d == conn[c]
<1>0. d \in Conns /\ d.inbox + d.parsed <= ReqLen
  BY Zenon, ConnOf
<1> HIDE DEF d
<1>1. CASE client_sends(c)
  <2> DEFINE e == [d EXCEPT !.inbox = @ + 1]
  <2>1. d.inbox + 1 \in 0 .. ReqLen /\ (d.inbox + 1) + d.parsed <= ReqLen
    <3>1. d.inbox + d.parsed < ReqLen
      BY Zenon, <1>1 DEF client_sends, d
    <3>2. d.inbox \in 0 .. ReqLen /\ d.parsed \in 0 .. ReqLen
      BY Zenon, <1>0, Fields
    <3> QED
      BY <3>1, <3>2, WebServerAssumption
  <2>2. e \in Conns /\ e.inbox + e.parsed <= ReqLen /\ e.stage = d.stage /\ e.peer = d.peer
    BY Zenon, <1>0, <2>1 DEF Conns
  <2>3. Client(c, e)
    BY Zenon, <1>1 DEF client_sends, d
  <2> QED
    BY Zenon, <2>2, <2>3, Keep_Client DEF d
<1>2. CASE client_reads(c)
  <2> DEFINE e == [d EXCEPT !.room = TRUE]
  <2>1. e \in Conns /\ e.inbox + e.parsed <= ReqLen /\ e.stage = d.stage /\ e.peer = d.peer
    BY Zenon, <1>0 DEF Conns
  <2>2. Client(c, e)
    BY Zenon, <1>2 DEF client_reads, d
  <2> QED
    BY Zenon, <2>1, <2>2, Keep_Client DEF d
<1>3. CASE client_leaves(c)
  <2>1. PICK p \in {"fin", "reset", "timeout"} : Client(c, [d EXCEPT !.peer = p])
    BY Zenon, <1>3 DEF client_leaves, d
  <2>2. ~Failed(c)
    BY Zenon, <1>3 DEF client_leaves, Failed
  <2> DEFINE e == [d EXCEPT !.peer = p]
  <2>3. e \in Conns /\ e.inbox + e.parsed <= ReqLen /\ e.stage = d.stage
    BY Zenon, <1>0 DEF Conns
  <2> QED
    BY Zenon, <2>1, <2>2, <2>3, Keep_Client DEF d
<1> QED
  BY Zenon, <1>1, <1>2, <1>3

LEMMA Stutter == IInv /\ UNCHANGED vars => IInv'
<1> SUFFICES ASSUME IInv, UNCHANGED vars PROVE IInv'
  OBVIOUS
<1>1. UNCHANGED <<running, list, waits, revents, pc, fd, conn, queue, open, status>>
  BY Zenon DEF vars, cpu
<1>2. TypeOK' /\ Calls'
  BY Zenon, <1>1, Parts DEF TypeOK, Calls, Failed
<1>3. Places' /\ Requests'
  BY Zenon, <1>1, Parts DEF Places, Requests
<1>4. Descriptors'
  BY Zenon, <1>1, Parts DEF Descriptors, Live
<1> QED
  BY Zenon, <1>2, <1>3, <1>4 DEF IInv

LEMMA NextKeeps == IInv /\ [Next]_vars => IInv'
<1> SUFFICES ASSUME IInv, Next PROVE IInv'
  BY Zenon, Stutter
<1>1. ASSUME NEW t \in Threads, ThreadStep(t) PROVE IInv'
  BY Zenon, <1>1, Keep_accept, Keep_recv, Keep_send, Keep_socket_error, Keep_close,
     Keep_coro_die, Keep_resched, Keep_poll_event DEF ThreadStep
<1>2. CASE ClientStep
  BY Zenon, <1>2, Keep_connect, Keep_clients DEF ClientStep
<1> QED
  BY Zenon, <1>1, <1>2 DEF Next

----------------------------------------------------------------------------
(* The theorems.                                                           *)

\* A descriptor, a socket's error and a request belong to one coroutine, wherever the
\* scheduler has it run.
THEOREM Invariance == Spec => []IInv
BY InitHolds, NextKeeps, PTL DEF Spec

\* No step of the server or of a client leaves the types.
THEOREM TypeCorrect == Spec => []TypeOK
<1>1. IInv => TypeOK
  BY Zenon, Parts
<1> QED
  BY <1>1, Invariance, PTL

\* A descriptor that accept4() has returned belongs to one handler until it is closed,
\* and a closed one to none: sched_event_wait() finds no other waiter.
THEOREM OneHandlerEach == Spec => []OneHandler
<1>1. ASSUME IInv PROVE OneHandler
  <2> SUFFICES ASSUME NEW f \in Socks
               PROVE  Cardinality({c \in Handlers : Live(c) /\ fd[c] = f})
                         = IF f \in open THEN 1 ELSE 0
    BY Zenon DEF OneHandler
  <2> DEFINE S == {c \in Handlers : Live(c) /\ fd[c] = f}
  <2>1. CASE f \in open
    <3>1. PICK c \in Handlers : Live(c) /\ fd[c] = f
      BY Zenon, <1>1, <2>1, Parts DEF Descriptors
    <3>2. S = {c}
      BY Zenon, <1>1, <3>1, Parts DEF Descriptors
    <3> QED
      BY Zenon, <2>1, <3>2, FS_Singleton
  <2>2. CASE f \notin open
    <3>1. S = {}
      BY ZenonT(40), <1>1, <2>2, Parts DEF Descriptors
    <3> QED
      BY Zenon, <2>2, <3>1, FS_EmptySet
  <2> QED
    BY Zenon, <2>1, <2>2
<1> QED
  BY <1>1, Invariance, PTL

\* What a handler does next does not concern another one.
LEMMA GoesAlone ==
    ASSUME IInv, NEW x \in Handlers, Goes(x), NEW c \in Handlers, c # x
    PROVE  pc'[c] = pc[c]
BY Zenon, Parts DEF Goes, Exit, Continue, Goto, TypeOK, Coros

\* The process runs until it exits, and only calls that fail end it.
LEMMA ExitOnly ==
    ASSUME Next, status' = "exited"
    PROVE  /\ status = "running"
           /\ \E t \in Threads : async_accept(t) \/ async_recv(t) \/ async_send(t) \/ socket_error(t)
<1>1. \A t \in Threads :
         /\ ~close(t) /\ ~sched_coro_die(t) /\ ~sched_resched(t)
         /\ \A c \in Coros : ~sched_poll_event(t, c)
  BY Zenon DEF close, sched_coro_die, sched_resched, sched_poll_event, At
<1>2. ~ClientStep
  BY Zenon DEF ClientStep, connect, client_sends, client_reads, client_leaves, Client
<1>3. \E t \in Threads : async_accept(t) \/ async_recv(t) \/ async_send(t) \/ socket_error(t)
  BY Zenon, <1>1, <1>2 DEF Next, ThreadStep
<1> QED
  BY Zenon, <1>3 DEF async_accept, async_recv, async_send, socket_error, At

\* A call that fails ends the process by a timeout, or by a reset under the headers.
FailsFor(c) ==
    \/ conn[c].peer = "timeout"
    \/ /\ pc[c] = "send" /\ conn[c].stage = "headers"
       /\ conn[c].peer \in {"reset", "dead"}

LEMMA FailedCall ==
    ASSUME IInv, NEW c \in Handlers, status = "running", status' = "exited",
           NEW t, NEW e, conn[c].peer \in {e, "dead"}, e \in {"reset", "timeout"},
           conn[c].peer = "dead" => e = "reset",
           IF pc[c] = "recv" THEN recv_failed(t, c, e) ELSE send_failed(t, c, e),
           pc[c] \in {"recv", "send"}
    PROVE  FailsFor(c)
<1> USE DEF FailsFor
<1>1. \A l, d : ~Continue(c, l, d)
  BY Zenon DEF Continue
<1>2. CASE pc[c] = "recv" /\ recv_failed(t, c, e)
  BY Zenon, <1>1, <1>2 DEF recv_failed, sched_errno
<1>3. CASE pc[c] = "send" /\ send_failed(t, c, e)
  BY Zenon, <1>1, <1>3, ConnOf DEF send_failed, NextRequest, sched_errno
<1> QED
  BY Zenon, <1>2, <1>3

\* sched_get_errno(): the process exits for its own reasons only, never because a call
\* would block or because of another coroutine's error.
THEOREM ExitsAreCaused == Spec => ExitsForCause
<1> DEFINE Cause(t) ==
        LET c == running[t] IN
        \/ c = Main /\ queue > 0
        \/ c \in Handlers /\ conn[c].peer = "timeout"
        \/ /\ c \in Handlers /\ pc[c] = "send" /\ conn[c].stage = "headers"
           /\ conn[c].peer \in {"reset", "dead"}
<1>1. ASSUME IInv, Next, status' = "exited"
      PROVE  \E t \in Threads : Cause(t)
  <2>1. status = "running"
    BY Zenon, <1>1, ExitOnly
  <2>2. PICK t \in Threads :
          async_accept(t) \/ async_recv(t) \/ async_send(t) \/ socket_error(t)
    BY Zenon, <1>1, ExitOnly
  <2> DEFINE c == running[t]
  <2>3. \A x, l, d : ~Continue(x, l, d)
    BY Zenon, <1>1, <2>1 DEF Continue
  <2>4. ~sched_event_wait(t)
    BY Zenon, <1>1, <2>1 DEF sched_event_wait
  <2>5. CASE async_accept(t)
    <3>1. queue > 0
      BY Zenon, <2>4, <2>5 DEF async_accept, sched_errno
    <3>2. c \in Coros /\ pc[c] = "accept"
      BY Zenon, <1>1, <2>5, Parts DEF async_accept, At, TypeOK
    <3> QED
      BY Zenon, <1>1, <3>1, <3>2, Parts DEF Calls, Coros
  <2>6. CASE async_recv(t)
    <3>1. c \in Handlers /\ pc[c] = "recv"
      BY Zenon, <1>1, <2>6, HandlerAt DEF async_recv
    <3>2. Failed(c) /\ recv_failed(t, c, conn[c].peer)
      BY Zenon, <2>3, <2>4, <2>6 DEF async_recv, read_and_parse, sched_errno
    <3> QED
      <4>1. conn[c].peer \in {"reset", "timeout"} /\ conn[c].peer # "dead"
        BY Zenon, <3>2 DEF Failed
      <4>2. FailsFor(c)
        BY <1>1, <2>1, <3>1, <3>2, <4>1, FailedCall
      <4> QED
        BY Zenon, <3>1, <4>2 DEF FailsFor
  <2>7. CASE async_send(t)
    <3> DEFINE e == IF conn[c].peer = "dead" THEN "reset" ELSE conn[c].peer
    <3>1. c \in Handlers /\ pc[c] = "send"
      BY Zenon, <1>1, <2>7, HandlerAt DEF async_send
    <3>2. conn[c].peer \notin {"open", "fin"} /\ send_failed(t, c, e)
      BY ZenonT(40), <2>3, <2>4, <2>7 DEF async_send, send_all, NextRequest, sched_errno
    <3>3. conn[c].peer \in {"reset", "timeout", "dead"}
      BY Zenon, <1>1, <3>1, <3>2, ConnOf, Fields
    <3>4. /\ conn[c].peer \in {e, "dead"} /\ e \in {"reset", "timeout"}
          /\ conn[c].peer = "dead" => e = "reset"
      BY Zenon, <3>3
    <3> HIDE DEF e
    <3> QED
      <4>1. FailsFor(c)
        BY <1>1, <2>1, <3>1, <3>2, <3>4, FailedCall
      <4> QED
        BY Zenon, <3>1, <4>1 DEF FailsFor
  <2>8. CASE socket_error(t)
    <3>1. c \in Handlers /\ pc[c] \in {"recv", "send"} /\ Failed(c)
      BY Zenon, <1>1, <2>8, Parts DEF socket_error, Calls, TypeOK
    <3>2. IF pc[c] = "recv" THEN recv_failed(t, c, conn[c].peer)
          ELSE send_failed(t, c, conn[c].peer)
      BY Zenon, <2>8 DEF socket_error
    <3> QED
      <4>1. conn[c].peer \in {"reset", "timeout"} /\ conn[c].peer # "dead"
        BY Zenon, <3>1 DEF Failed
      <4>2. FailsFor(c)
        BY <1>1, <2>1, <3>1, <3>2, <4>1, FailedCall
      <4> QED
        BY Zenon, <3>1, <4>2 DEF FailsFor
  <2> QED
    BY Zenon, <2>2, <2>5, <2>6, <2>7, <2>8
<1>2. IInv /\ [Next]_vars => [status' = "exited" => \E t \in Threads : Cause(t)]_vars
  BY Zenon, <1>1
<1> QED
  BY <1>2, Invariance, PTL DEF Spec, ExitsForCause

\* send_all(): a response goes out whole, unless the client goes away.
THEOREM AnswersAreWhole == Spec => AnsweredInFull
<1> DEFINE Leaves(c) == pc[c] = "send" /\ conn[c].peer = "open" /\ pc'[c] # "send"
           Full(c) == /\ conn'[c].left = 0
                      /\ conn[c].stage = "body" \/ conn[c].length = 0
           Answered(c) ==
              pc[c] = "send" /\ conn[c].peer = "open" /\ pc'[c] # "send" =>
                 /\ conn'[c].left = 0
                 /\ conn[c].stage = "body" \/ conn[c].length = 0
<1>1. ASSUME IInv, Next, NEW c \in Handlers, Leaves(c)
      PROVE  Full(c)
  <2>0. /\ pc'[c] # pc[c] /\ c \in Coros
        /\ pc \in [Coros -> {"free", "accept", "recv", "send", "close", "die"}]
    BY Zenon, <1>1, Parts DEF TypeOK, Coros
  <2>1. PICK t \in Threads : ThreadStep(t)
    BY Zenon, <1>1, <2>0 DEF Next, ClientStep, connect, client_sends, client_reads,
       client_leaves, Client
  <2>2. ~sched_event_wait(t) /\ ~sched_resched(t) /\ \A x \in Coros : ~sched_poll_event(t, x)
    BY Zenon, <2>0 DEF sched_event_wait, sched_resched, sched_poll_event
  <2>3. ~close(t) /\ ~sched_coro_die(t)
    BY ZenonT(40), <1>1, <2>0, HandlerAt DEF close, sched_coro_die, Goto
  <2>4. ~async_accept(t)
    BY Zenon, <1>1, <2>0, <2>2 DEF async_accept, main_loop, Exit, Continue, Goto, sched_errno
  <2>5. \A x \in Handlers : Goes(x) => x = c
    BY Zenon, <1>1, <2>0, GoesAlone
  <2>6. ~socket_error(t)
    <3> SUFFICES ASSUME socket_error(t) PROVE FALSE
      OBVIOUS
    <3>1. running[t] \in Handlers /\ Failed(running[t])
      BY Zenon, <1>1, Parts DEF socket_error, Calls, TypeOK
    <3>2. Goes(running[t])
      BY Zenon, <1>1, <3>1, recv_failedGoes, send_failedGoes DEF socket_error
    <3> QED
      BY Zenon, <1>1, <2>5, <3>1, <3>2 DEF Failed
  <2>7. ~async_recv(t)
    <3> SUFFICES ASSUME async_recv(t) PROVE FALSE
      OBVIOUS
    <3>1. running[t] \in Handlers /\ pc[running[t]] = "recv"
      BY Zenon, <1>1, HandlerAt DEF async_recv
    <3>2. Continue(running[t], "close", conn[running[t]]) => Goes(running[t])
      BY Zenon, <1>1, <3>1, ConnOf DEF Goes, Fits
    <3>3. Goes(running[t])
      BY ZenonT(40), <1>1, <2>2, <3>1, <3>2, recv_failedGoes, read_and_parseGoes
         DEF async_recv, sched_errno
    <3> QED
      BY Zenon, <1>1, <2>5, <3>1, <3>3
  <2>8. async_send(t) /\ running[t] \in Handlers /\ pc[running[t]] = "send"
    BY ZenonT(40), <1>1, <2>1, <2>2, <2>3, <2>4, <2>6, <2>7, HandlerAt DEF ThreadStep, async_send
  <2>9. running[t] = c
    <3>1. Goes(running[t])
      BY ZenonT(40), <1>1, <2>2, <2>8, send_allGoes, send_failedGoes DEF async_send, sched_errno
    <3> QED
      BY Zenon, <2>5, <2>8, <3>1
  <2>10. PICK k \in 1 .. conn[c].left, room \in BOOLEAN : send_all(c, Sent(conn[c], k, room))
    BY Zenon, <1>1, <2>2, <2>8, <2>9 DEF async_send, sched_errno
  <2> DEFINE d == Sent(conn[c], k, room)
  <2>11. \A x : ~Continue(c, "send", x)
    BY Zenon, <1>1, <2>0 DEF Continue, Goto
  <2>12. /\ d \in Conns /\ d.left \in 0 .. RespLen /\ d.length \in {0, RespLen}
         /\ d.stage = conn[c].stage /\ d.length = conn[c].length
    <3>1. conn[c].left - k \in 0 .. RespLen /\ conn[c] \in Conns
      <4>1. conn[c] \in Conns /\ conn[c].left \in 0 .. RespLen
        BY Zenon, <1>1, ConnOf, Fields
      <4>2. k \in 1 .. conn[c].left
        BY Zenon, <2>10
      <4> QED
        BY <4>1, <4>2, WebServerAssumption
    <3>2. d \in Conns /\ d.stage = conn[c].stage /\ d.length = conn[c].length
      BY Zenon, <3>1 DEF Sent, Conns
    <3> QED
      BY Zenon, <3>2, Fields
  <2>13. send_all(c, d) /\ conn[c].stage \in {"headers", "body"}
    BY Zenon, <1>1, <2>10, ConnOf
  <2> HIDE DEF d
  <2>14. /\ NextRequest(c, d) /\ ~(d.left > 0)
         /\ ~(d.left = 0 /\ d.stage = "headers" /\ d.length > 0)
    BY <2>11, <2>13 DEF send_all
  <2>15. d.left = 0 /\ (d.stage # "headers" \/ d.length = 0)
    BY <2>12, <2>14, WebServerAssumption
  <2>16. conn'[c].left = d.left
    BY ZenonT(40), <1>1, <2>12, <2>14, Parts DEF NextRequest, Continue, TypeOK, Conns
  <2> QED
    BY Zenon, <2>12, <2>13, <2>15, <2>16
<1>2. IInv /\ [Next]_vars => [\A c \in Handlers : Answered(c)]_vars
  BY Zenon, <1>1
<1> QED
  BY <1>2, Invariance, PTL DEF Spec, AnsweredInFull
=============================================================================
