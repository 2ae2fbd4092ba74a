------------------------- MODULE EventServerProofs -------------------------
(***************************************************************************)
(* The event server is safe for any number of threads and descriptors, any *)
(* size of events[], and requests and responses of any length, until the   *)
(* use of a freed waiter in arm_waiter() makes its behaviour undefined.    *)
(* Ownership comes first: a thread passes a waiter on and no other thread  *)
(* notices.  Then there is one lemma per kind of step.                     *)
(***************************************************************************)
EXTENDS EventServer, TLAPS, FiniteSetTheorems

\* The parts of the invariant.
LEMMA Parts ==
    ASSUME IInv
    PROVE  TypeOK /\ DelSucceeds /\ AcceptFinds
BY Zenon DEF IInv

LEMMA ServingParts ==
    ASSUME IInv, status = "running"
    PROVE  /\ Ownership /\ \A t \in Threads : ThreadOK(t)
           /\ \A f \in Socks : InBounds(conn[f])
           /\ \A f \in open : conn[f].peer = "dead" =>
                 \E t \in Threads : pc[t] = "close" /\ cur[t] = f
           /\ IsFiniteSet(open)
BY Zenon DEF IInv, Serving

\* The numbers that code stores in a connection.
LEMMA Bounds == 0 \in 0 .. ReqLen /\ 0 \in 0 .. RespLen /\ RespLen \in 0 .. RespLen
BY EventServerAssumption

\* The fields of a connection.
LEMMA Fields ==
    ASSUME NEW c \in Conns
    PROVE  /\ c.stage \in {"read", "headers", "body"}
           /\ c.inbox \in 0 .. ReqLen /\ c.parsed \in 0 .. ReqLen
           /\ c.written \in 0 .. RespLen /\ c.length \in {0, RespLen}
           /\ c.keep_alive \in BOOLEAN /\ c.room \in BOOLEAN
           /\ c.peer \in {"open", "fin", "reset", "timeout", "dead"}
BY Zenon DEF Conns

\* A connection whose request is still to come.
LEMMA NewConnIs ==
    ASSUME NEW n \in 0 .. ReqLen, NEW p \in {"open", "fin", "reset", "timeout", "dead"}
    PROVE  /\ NewConn(n, p) \in Conns /\ InBounds(NewConn(n, p))
           /\ NewConn(n, p).stage = "read" /\ NewConn(n, p).peer = p
<1>1. /\ NewConn(n, p) \in Conns /\ NewConn(n, p).stage = "read" /\ NewConn(n, p).peer = p
      /\ NewConn(n, p).inbox = n /\ NewConn(n, p).parsed = 0
  BY Zenon, Bounds DEF NewConn, Conns
<1>2. n + 0 <= ReqLen
  BY EventServerAssumption
<1> QED
  BY Zenon, <1>1, <1>2 DEF InBounds

LEMMA InitHolds == Init => IInv
<1> SUFFICES ASSUME Init PROVE IInv
  OBVIOUS
<1> USE EventServerAssumption
<1>1. /\ NewConn(0, "open") \in Conns /\ InBounds(NewConn(0, "open"))
      /\ NewConn(0, "open").peer = "open"
  BY Zenon, Bounds, NewConnIs
<1>2. TypeOK
  <2>1. queue \in 0 .. MaxOpen
    BY DEF Init
  <2>2. frames \in [Threads -> Seq(Socks)]
    BY DEF Init
  <2>3. pc \in [Threads -> {"loop", "accept", "arm", "recv", "send", "close"}]
    BY Zenon DEF Init
  <2> QED
    BY Zenon, <1>1, <2>1, <2>2, <2>3 DEF Init, TypeOK, Callers
<1>3. \A t \in Threads : /\ batch[t] = {} /\ DOMAIN frames[t] = {} /\ cur[t] = NoSock
                         /\ via[t] = "call" /\ pc[t] \in {"loop", "accept"}
  BY DEF Init
<1>4. DelSucceeds /\ AcceptFinds
  BY Zenon, <1>3 DEF DelSucceeds, AcceptFinds
<1>5. \A t, u \in Threads : pc[t] = "accept" /\ pc[u] = "accept" => t = u
  <2>1. PICK main \in Threads : pc = [t \in Threads |-> IF t = main THEN "accept" ELSE "loop"]
    BY Zenon DEF Init
  <2>2. \A t \in Threads : pc[t] = "accept" => t = main
    BY <2>1
  <2> QED
    BY Zenon, <2>2
<1>6. \A t \in Threads : \A w \in Waiters : Holds(t, w) => w = Listener /\ pc[t] = "accept"
  BY Zenon, <1>3 DEF Holds, InBatch, InHand, Stacked, Waiters
<1>7. Ownership
  <2>1. \A t \in Threads : HoldsOnce(t)
    BY Zenon, <1>3 DEF HoldsOnce, InBatch, Stacked
  <2>2. \A f \in Socks : f \in Waiters /\ f # Listener
    BY Zenon DEF Waiters
  <2> QED
    BY Zenon, <1>5, <1>6, <2>1, <2>2 DEF Ownership, Init
<1>8. \A t \in Threads : ThreadOK(t)
  BY Zenon, <1>3 DEF ThreadOK, Stacked, InBatch
<1>9. /\ \A f \in Socks : InBounds(conn[f]) /\ conn[f].peer # "dead"
      /\ open = {} /\ IsFiniteSet(open)
  BY Zenon, <1>1, FS_EmptySet DEF Init
<1> QED
  BY Zenon, <1>2, <1>4, <1>7, <1>8, <1>9 DEF IInv, Serving

----------------------------------------------------------------------------
(* Ownership.                                                              *)

\* A step of thread t, or of none, leaves the locals of the others alone.
OthersStay(t) ==
    \A u \in Threads : u # t =>
       /\ batch'[u] = batch[u] /\ frames'[u] = frames[u]
       /\ pc'[u] = pc[u] /\ cur'[u] = cur[u] /\ via'[u] = via[u]

LEMMA OthersHold ==
    ASSUME NEW t, OthersStay(t), NEW u \in Threads, u # t
    PROVE  /\ \A w : InBatch(u, w)' <=> InBatch(u, w)
           /\ \A w : InHand(u, w)' <=> InHand(u, w)
           /\ \A w : Stacked(u, w)' <=> Stacked(u, w)
           /\ \A w : Holds(u, w)' <=> Holds(u, w)
           /\ HoldsOnce(u)' <=> HoldsOnce(u)
<1>1. /\ batch'[u] = batch[u] /\ frames'[u] = frames[u] /\ pc'[u] = pc[u]
      /\ cur'[u] = cur[u]
  BY Zenon DEF OthersStay
<1>2. /\ \A w : InBatch(u, w)' <=> InBatch(u, w)
      /\ \A w : InHand(u, w)' <=> InHand(u, w)
      /\ \A w : Stacked(u, w)' <=> Stacked(u, w)
  BY Zenon, <1>1 DEF InBatch, InHand, Stacked
<1>3. \A w : Holds(u, w)' <=> Holds(u, w)
  BY Zenon, <1>2 DEF Holds
<1>4. HoldsOnce(u)' <=> HoldsOnce(u)
  BY Zenon, <1>1, <1>2 DEF HoldsOnce
<1> QED
  BY Zenon, <1>2, <1>3, <1>4

\* What thread t takes was armed or is new, what is armed was so or comes from t, and
\* only t closes what it has.
PassesOn(t) ==
    /\ OthersStay(t) /\ HoldsOnce(t)'
    /\ \A w \in Waiters : Holds(t, w)' => Holds(t, w) \/ w \in armed \/ w \in Socks \ open
    /\ \A w \in armed' : w \in Waiters /\ (w \in armed \/ Holds(t, w)) /\ ~Holds(t, w)'
    /\ \A f \in Socks : (f \in armed' \/ Holds(t, f)') <=>
          f \in open' /\ (f \in armed \/ Holds(t, f) \/ f \notin open)
    /\ \A f \in Socks : f \in open /\ f \notin open' => Holds(t, f)

LEMMA OwnershipKept ==
    ASSUME Ownership, NEW t \in Threads, PassesOn(t)
    PROVE  Ownership'
<1>1. \A u \in Threads : u # t => \A w : Holds(u, w)' <=> Holds(u, w)
  <2> SUFFICES ASSUME NEW u \in Threads, u # t PROVE \A w : Holds(u, w)' <=> Holds(u, w)
    BY Zenon
  <2>1. OthersStay(t)
    BY Zenon DEF PassesOn
  <2> QED
    BY Zenon, <2>1, OthersHold
<1>2. \A u \in Threads : HoldsOnce(u)'
  <2>1. \A u \in Threads : u # t => HoldsOnce(u)'
    BY Zenon, OthersHold DEF PassesOn, Ownership
  <2> QED
    BY Zenon, <2>1 DEF PassesOn
<1>3. \A f \in Socks : f \in Waiters
  BY Zenon DEF Waiters
<1>4. \A u \in Threads : \A w \in Waiters : u # t /\ Holds(t, w)' => ~Holds(u, w)
  BY Zenon, <1>3 DEF PassesOn, Ownership
<1>5. \A u, v \in Threads : \A w \in Waiters : Holds(u, w)' /\ Holds(v, w)' => u = v
  BY ZenonT(40), <1>1, <1>4 DEF Ownership
<1>6. \A u \in Threads : \A w \in armed' : ~Holds(u, w)'
  BY ZenonT(40), <1>1 DEF PassesOn, Ownership
<1>7. ASSUME NEW f \in Socks
      PROVE  f \in open' <=> f \in armed' \/ \E u \in Threads : Holds(u, f)'
  <2>1. ASSUME f \in open' PROVE f \in armed' \/ \E u \in Threads : Holds(u, f)'
    <3>1. f \notin open \/ f \in armed \/ \E u \in Threads : Holds(u, f)
      BY Zenon DEF Ownership
    <3> QED
      BY Zenon, <1>1, <2>1, <3>1 DEF PassesOn
  <2>2. ASSUME NEW u \in Threads, Holds(u, f)' PROVE f \in open'
    <3>1. CASE u = t
      BY Zenon, <2>2, <3>1 DEF PassesOn
    <3>2. CASE u # t
      <4>1. Holds(u, f) /\ f \in open
        BY Zenon, <1>1, <2>2, <3>2 DEF Ownership
      <4>2. ~Holds(t, f)
        BY Zenon, <1>3, <3>2, <4>1 DEF Ownership
      <4> QED
        BY Zenon, <4>1, <4>2 DEF PassesOn
    <3> QED
      BY Zenon, <3>1, <3>2
  <2>3. f \in armed' => f \in open'
    BY Zenon DEF PassesOn
  <2> QED
    BY Zenon, <2>1, <2>2, <2>3
<1> QED
  BY Zenon, <1>2, <1>5, <1>6, <1>7 DEF Ownership

\* Nothing is passed on.
LEMMA OwnershipSame ==
    ASSUME IInv, status = "running", NEW t \in Threads, OthersStay(t),
           batch'[t] = batch[t], frames'[t] = frames[t],
           \A w \in Waiters : InHand(t, w)' <=> InHand(t, w), UNCHANGED <<armed, open>>
    PROVE  Ownership'
<1>1. /\ \A w : InBatch(t, w)' <=> InBatch(t, w)
      /\ \A w : Stacked(t, w)' <=> Stacked(t, w)
  BY Zenon DEF InBatch, Stacked
<1>2. \A w \in Waiters : Holds(t, w)' <=> Holds(t, w)
  BY Zenon, <1>1 DEF Holds
<1>3. HoldsOnce(t)'
  <2>1. HoldsOnce(t)
    BY Zenon, ServingParts DEF Ownership
  <2> QED
    BY Zenon, <1>1, <2>1 DEF HoldsOnce
<1>4. armed \subseteq Waiters /\ \A f \in Socks : f \in Waiters
  BY Zenon, Parts DEF TypeOK, Waiters
<1>5. PassesOn(t)
  <2>1. \A w \in armed : ~Holds(t, w)
    BY Zenon, ServingParts DEF Ownership
  <2>2. \A f \in Socks : f \in armed \/ Holds(t, f) => f \in open
    BY Zenon, ServingParts DEF Ownership
  <2> QED
    BY Zenon, <1>2, <1>3, <1>4, <2>1, <2>2 DEF PassesOn
<1> QED
  BY Zenon, <1>5, OwnershipKept, ServingParts

----------------------------------------------------------------------------
(* The data.                                                               *)

\* What a thread relies on of a connection it has to itself.
Persists(f) ==
    /\ conn'[f].stage = conn[f].stage
    /\ Failed(f) => Failed(f)'
    /\ MayClose(conn[f]) => MayClose(conn'[f])

\* A thread does not notice a step that concerns nothing it has.
LEMMA OthersOK ==
    ASSUME NEW t, OthersStay(t), NEW u \in Threads, u # t, ThreadOK(u),
           \A f \in Socks : Holds(u, f) => Persists(f),
           Holds(u, Listener) /\ queue > 0 => queue' > 0
    PROVE  ThreadOK(u)'
<1>1. /\ batch'[u] = batch[u] /\ frames'[u] = frames[u] /\ pc'[u] = pc[u]
      /\ cur'[u] = cur[u] /\ via'[u] = via[u]
  BY Zenon DEF OthersStay
<1>2. cur[u] \in Socks => Persists(cur[u])
  BY Zenon DEF Holds, InHand
<1>3. \A f \in Socks : Stacked(u, f) => Persists(f)
  BY Zenon DEF Holds
<1>4. \A f \in Socks : <<f, TRUE>> \in batch[u] => Persists(f)
  BY Zenon DEF Holds, InBatch
<1>5. /\ pc[u] = "accept" => Holds(u, Listener)
      /\ InBatch(u, Listener) => Holds(u, Listener)
  BY Zenon DEF Holds, InHand
<1>6. /\ InBatch(u, Listener)' <=> InBatch(u, Listener)
      /\ \A f : Stacked(u, f)' <=> Stacked(u, f)
  BY Zenon, <1>1 DEF InBatch, Stacked
<1>7. \A f \in Socks : /\ Stacked(u, f) => conn'[f].stage = "read"
                       /\ <<f, TRUE>> \in batch[u] => Failed(f)'
  BY Zenon, <1>3, <1>4 DEF ThreadOK, Persists
<1>8. /\ pc[u] = "recv" => conn'[cur[u]].stage = "read"
      /\ pc[u] = "send" => conn'[cur[u]].stage # "read"
      /\ pc[u] = "close" => MayClose(conn'[cur[u]])
  BY Zenon, <1>2 DEF ThreadOK, Persists
<1>9. MayClose(conn'[cur[u]]) => MayClose(conn'[cur'[u]])
  BY Zenon, <1>1
<1> QED
  BY ZenonT(40), <1>1, <1>5, <1>6, <1>7, <1>8, <1>9 DEF ThreadOK

\* Thread t serves f, or nothing if f is no socket, and leaves the rest alone.
LEMMA Served ==
    ASSUME IInv, status = "running", NEW t \in Threads, NEW f,
           OthersStay(t), Ownership', ThreadOK(t)',
           f \in Socks => (Holds(t, f) \/ f \notin open) /\ InBounds(conn'[f]),
           \A x \in Socks : x # f => conn'[x] = conn[x],
           (queue > 0 => queue' > 0) \/ Holds(t, Listener),
           open' \subseteq open \cup {f},
           pc[t] = "close" => cur[t] = f,
           f \in open' /\ conn'[f].peer = "dead" => pc'[t] = "close" /\ cur'[t] = f
    PROVE  Serving' /\ AcceptFinds'
<1>1. ASSUME NEW u \in Threads, u # t PROVE ThreadOK(u)'
  <2>1. ASSUME NEW x \in Socks, Holds(u, x) PROVE Persists(x)
    <3>1. x \in open /\ x \in Waiters
      BY Zenon, <2>1, ServingParts DEF Ownership, Waiters
    <3>2. ~Holds(t, x)
      BY Zenon, <1>1, <2>1, <3>1, ServingParts DEF Ownership
    <3>3. conn'[x] = conn[x]
      BY Zenon, <3>1, <3>2
    <3> QED
      BY Zenon, <3>3 DEF Persists, Failed
  <2>2. Holds(u, Listener) /\ queue > 0 => queue' > 0
    <3>1. Listener \in Waiters
      BY Zenon DEF Waiters
    <3> QED
      BY Zenon, <1>1, <3>1, ServingParts DEF Ownership
  <2>3. ThreadOK(u)
    BY Zenon, ServingParts
  <2> QED
    BY Zenon, <1>1, <2>1, <2>2, <2>3, OthersOK
<1>2. \A u \in Threads : ThreadOK(u)'
  BY Zenon, <1>1
<1>3. \A x \in Socks : InBounds(conn'[x])
  <2> SUFFICES ASSUME NEW x \in Socks PROVE InBounds(conn'[x])
    OBVIOUS
  <2>1. CASE x = f
    BY Zenon, <2>1
  <2>2. CASE x # f
    BY Zenon, <2>2, ServingParts
  <2> QED
    BY Zenon, <2>1, <2>2
<1>4. ASSUME NEW x \in open', conn'[x].peer = "dead"
      PROVE  \E u \in Threads : pc'[u] = "close" /\ cur'[u] = x
  <2>1. CASE x = f
    BY Zenon, <1>4, <2>1
  <2>2. CASE x # f
    <3>1. x \in open /\ x \in Socks
      BY Zenon, <2>2, Parts DEF TypeOK
    <3>2. conn[x].peer = "dead"
      BY Zenon, <1>4, <2>2, <3>1
    <3>3. PICK u \in Threads : pc[u] = "close" /\ cur[u] = x
      BY Zenon, <3>1, <3>2, ServingParts
    <3>4. u # t
      BY Zenon, <2>2, <3>3
    <3> QED
      BY Zenon, <3>3, <3>4 DEF OthersStay
  <2> QED
    BY Zenon, <2>1, <2>2
<1>5. IsFiniteSet(open')
  <2>1. IsFiniteSet(open \cup {f})
    BY Zenon, FS_AddElement, ServingParts
  <2> QED
    BY Zenon, <2>1, FS_Subset
<1>6. AcceptFinds'
  BY Zenon, <1>2 DEF AcceptFinds, ThreadOK
<1> QED
  BY Zenon, <1>2, <1>3, <1>4, <1>5, <1>6 DEF Serving

----------------------------------------------------------------------------
(* How a step ends.                                                        *)

\* Thread t has gone to call l for w, made by v.
Went(t, l, w, v) ==
    /\ pc' \in [Threads -> {"loop", "accept", "arm", "recv", "send", "close"}]
    /\ cur' \in [Threads -> Waiters \cup {NoSock}]
    /\ via' \in [Threads -> Callers]
    /\ status' = status
    /\ pc'[t] = l /\ cur'[t] = w /\ via'[t] = v
    /\ \A u \in Threads : u # t => pc'[u] = pc[u] /\ cur'[u] = cur[u] /\ via'[u] = via[u]

LEMMA GotoWent ==
    ASSUME TypeOK, NEW t \in Threads,
           NEW l \in {"loop", "accept", "arm", "recv", "send", "close"},
           NEW w \in Waiters \cup {NoSock}, NEW v \in Callers, Goto(t, l, w, v)
    PROVE  Went(t, l, w, v)
<1>1. /\ pc' = [pc EXCEPT ![t] = l] /\ cur' = [cur EXCEPT ![t] = w]
      /\ via' = [via EXCEPT ![t] = v] /\ status' = status
  BY Zenon DEF Goto
<1>2. /\ pc' \in [Threads -> {"loop", "accept", "arm", "recv", "send", "close"}]
      /\ cur' \in [Threads -> Waiters \cup {NoSock}] /\ via' \in [Threads -> Callers]
  BY Zenon, <1>1 DEF TypeOK
<1>3. pc'[t] = l /\ cur'[t] = w /\ via'[t] = v
  BY Zenon, <1>1 DEF TypeOK
<1>4. \A u \in Threads : u # t => pc'[u] = pc[u] /\ cur'[u] = cur[u] /\ via'[u] = via[u]
  BY Zenon, <1>1 DEF TypeOK
<1> QED
  BY Zenon, <1>1, <1>2, <1>3, <1>4 DEF Went

\* The process ends: only the types matter from then on, and what was true of threads
\* that do not move.
LEMMA Keep_End ==
    ASSUME IInv, status' \in {"exited", "undefined"}, UNCHANGED <<calls, queue, open>>,
           conn' \in [Socks -> Conns], armed' \subseteq reg', reg' \subseteq Waiters,
           batch' \in [Threads -> SUBSET (Waiters \X BOOLEAN)], DelSucceeds'
    PROVE  IInv'
<1>1. UNCHANGED <<pc, cur, via, frames, queue, open>>
  BY Zenon DEF calls
<1>2. TypeOK'
  BY Zenon, <1>1, Parts DEF TypeOK
<1>3. AcceptFinds'
  BY Zenon, <1>1, Parts DEF AcceptFinds
<1> QED
  BY Zenon, <1>2, <1>3 DEF IInv

\* The stack of on_accept() frames.
LEMMA Popped ==
    ASSUME NEW S, NEW s \in Seq(S), s # <<>>,
           \A i, j \in DOMAIN s : s[i] = s[j] => i = j
    PROVE  /\ Head(s) \in S /\ Tail(s) \in Seq(S)
           /\ \A w : (\E i \in DOMAIN s : s[i] = w) <=>
                        w = Head(s) \/ \E i \in DOMAIN Tail(s) : Tail(s)[i] = w
           /\ \A i \in DOMAIN Tail(s) : Tail(s)[i] # Head(s)
           /\ \A i, j \in DOMAIN Tail(s) : Tail(s)[i] = Tail(s)[j] => i = j
<1>1. /\ Len(s) \in Nat /\ Len(s) # 0 /\ DOMAIN s = 1 .. Len(s) /\ s[1] \in S /\ Head(s) = s[1]
      /\ Tail(s) \in Seq(S) /\ DOMAIN Tail(s) = 1 .. (Len(s) - 1)
      /\ \A i \in DOMAIN Tail(s) : Tail(s)[i] = s[i + 1]
  OBVIOUS
<1>2. \A i \in DOMAIN Tail(s) : i + 1 \in DOMAIN s /\ i + 1 # 1
  BY <1>1
<1>3. \A i \in DOMAIN s : i # 1 => i - 1 \in DOMAIN Tail(s) /\ (i - 1) + 1 = i
  BY <1>1
<1>4. 1 \in DOMAIN s
  BY <1>1
<1>5. \A i \in DOMAIN s : s[i] = Head(s) \/ \E j \in DOMAIN Tail(s) : Tail(s)[j] = s[i]
  BY ZenonT(40), <1>1, <1>3
<1>6. \A i, j \in DOMAIN Tail(s) : i + 1 = j + 1 => i = j
  BY <1>1
<1>7. \A i \in DOMAIN Tail(s) : Tail(s)[i] # Head(s)
  BY ZenonT(40), <1>1, <1>2, <1>4
<1>8. \A i, j \in DOMAIN Tail(s) : Tail(s)[i] = Tail(s)[j] => i = j
  BY ZenonT(40), <1>1, <1>2, <1>6
<1>9. ASSUME NEW w
      PROVE  (\E i \in DOMAIN s : s[i] = w) <=>
                w = Head(s) \/ \E i \in DOMAIN Tail(s) : Tail(s)[i] = w
  <2>1. (\E i \in DOMAIN s : s[i] = w) =>
           w = Head(s) \/ \E i \in DOMAIN Tail(s) : Tail(s)[i] = w
    BY Zenon, <1>5
  <2>2. w = Head(s) => \E i \in DOMAIN s : s[i] = w
    BY Zenon, <1>1, <1>4
  <2>3. (\E i \in DOMAIN Tail(s) : Tail(s)[i] = w) => \E i \in DOMAIN s : s[i] = w
    BY ZenonT(40), <1>1, <1>2
  <2> QED
    BY Zenon, <2>1, <2>2, <2>3
<1> QED
  BY Zenon, <1>1, <1>7, <1>8, <1>9

LEMMA Pushed ==
    ASSUME NEW S, NEW s \in Seq(S), NEW f \in S,
           \A i, j \in DOMAIN s : s[i] = s[j] => i = j, \A i \in DOMAIN s : s[i] # f
    PROVE  /\ <<f>> \o s \in Seq(S)
           /\ \A w : (\E i \in DOMAIN (<<f>> \o s) : (<<f>> \o s)[i] = w) <=>
                        w = f \/ \E i \in DOMAIN s : s[i] = w
           /\ \A i, j \in DOMAIN (<<f>> \o s) : (<<f>> \o s)[i] = (<<f>> \o s)[j] => i = j
<1> DEFINE r == <<f>> \o s
<1>1. /\ Len(s) \in Nat /\ DOMAIN s = 1 .. Len(s)
      /\ r \in Seq(S) /\ DOMAIN r = 1 .. (Len(s) + 1)
      /\ r[1] = f /\ \A i \in DOMAIN r : i # 1 => r[i] = s[i - 1]
  OBVIOUS
<1> HIDE DEF r
<1>2. \A i \in DOMAIN r : i # 1 => i - 1 \in DOMAIN s
  BY <1>1
<1>3. \A i \in DOMAIN s : i + 1 \in DOMAIN r /\ i + 1 # 1 /\ r[i + 1] = s[i]
  BY <1>1
<1>4. 1 \in DOMAIN r
  BY <1>1
<1>5. \A i, j \in DOMAIN r : i - 1 = j - 1 => i = j
  BY <1>1
<1>6. \A i, j \in DOMAIN r : r[i] = r[j] => i = j
  BY ZenonT(40), <1>1, <1>2, <1>5
<1>7. \A w : (\E i \in DOMAIN r : r[i] = w) <=> w = f \/ \E i \in DOMAIN s : s[i] = w
  <2> SUFFICES ASSUME NEW w
               PROVE  (\E i \in DOMAIN r : r[i] = w) <=> w = f \/ \E i \in DOMAIN s : s[i] = w
    BY ZenonT(40)
  <2>1. (\E i \in DOMAIN r : r[i] = w) => w = f \/ \E i \in DOMAIN s : s[i] = w
    BY ZenonT(40), <1>1, <1>2
  <2>2. w = f => \E i \in DOMAIN r : r[i] = w
    BY Zenon, <1>1, <1>4
  <2>3. (\E i \in DOMAIN s : s[i] = w) => \E i \in DOMAIN r : r[i] = w
    BY Zenon, <1>3
  <2> QED
    BY Zenon, <2>1, <2>2, <2>3
<1> QED
  BY Zenon, <1>1, <1>6, <1>7 DEF r

\* Thread t lets go of the waiter its call was for.
Released(t) ==
    /\ pc' \in [Threads -> {"loop", "accept", "arm", "recv", "send", "close"}]
    /\ cur' \in [Threads -> Waiters \cup {NoSock}]
    /\ via' \in [Threads -> Callers]
    /\ frames' \in [Threads -> Seq(Socks)]
    /\ status' = status
    /\ OthersStay(t) /\ HoldsOnce(t)' /\ ThreadOK(t)'
    /\ \A w \in Waiters : Holds(t, w)' <=> Holds(t, w) /\ w # cur[t]

LEMMA Return_releases ==
    ASSUME IInv, status = "running", NEW t \in Threads, pc[t] \in {"arm", "close"}, Return(t),
           UNCHANGED <<batch, queue>>,
           \A f \in Socks : f # cur[t] => conn'[f] = conn[f]
    PROVE  Released(t)
<1> USE EventServerAssumption
<1>0. TypeOK /\ HoldsOnce(t) /\ ThreadOK(t)
  BY Zenon, Parts, ServingParts DEF Ownership
<1>1. \A w : InBatch(t, w)' <=> InBatch(t, w)
  BY Zenon DEF InBatch
<1>2. \A w \in Waiters : InHand(t, w) <=> w = cur[t]
  BY Zenon DEF InHand
<1>3. \A f \in Socks : f \in Waiters
  BY Zenon DEF Waiters
<1>4. /\ InBatch(t, Listener) => queue > 0
      /\ \A f \in Socks : Stacked(t, f) => conn'[f].stage = "read"
      /\ \A f \in Socks : <<f, TRUE>> \in batch'[t] => Failed(f)'
  <2>1. \A f \in Socks : Stacked(t, f) \/ <<f, TRUE>> \in batch[t] => f # cur[t]
    BY Zenon, <1>0, <1>2, <1>3 DEF HoldsOnce, InBatch
  <2> QED
    BY ZenonT(40), <1>0, <2>1 DEF ThreadOK, Failed
<1>5. CASE frames[t] = <<>>
  <2>1. Goto(t, "loop", NoSock, "call") /\ UNCHANGED frames
    BY Zenon, <1>5 DEF Return, Call
  <2>2. Went(t, "loop", NoSock, "call")
    BY Zenon, <1>0, <2>1, GotoWent DEF Callers
  <2>3. OthersStay(t)
    BY Zenon, <2>1, <2>2 DEF OthersStay, Went
  <2>4. /\ \A w \in Waiters : ~InHand(t, w)'
        /\ \A w : Stacked(t, w)' <=> Stacked(t, w)
    BY Zenon, <2>1, <2>2 DEF InHand, Stacked, Waiters, Went
  <2>5. HoldsOnce(t)'
    BY ZenonT(40), <1>0, <1>1, <2>1, <2>4 DEF HoldsOnce
  <2>6. \A w \in Waiters : Holds(t, w)' <=> Holds(t, w) /\ w # cur[t]
    BY ZenonT(40), <1>0, <1>1, <1>2, <2>4 DEF HoldsOnce, Holds
  <2>7. ThreadOK(t)'
    BY ZenonT(40), <1>1, <1>4, <2>2, <2>4 DEF ThreadOK, Went
  <2> QED
    BY ZenonT(40), <1>0, <2>1, <2>2, <2>3, <2>5, <2>6, <2>7 DEF Released, Went, TypeOK
<1>6. CASE frames[t] # <<>>
  <2>0. PICK h : h = Head(frames[t])
    OBVIOUS
  <2>1. Goto(t, "recv", h, "accept") /\ frames' = [frames EXCEPT ![t] = Tail(@)]
    BY Zenon, <1>6, <2>0 DEF Return
  <2>2. frames[t] \in Seq(Socks) /\ frames'[t] = Tail(frames[t])
    BY Zenon, <1>0, <2>1 DEF TypeOK
  <2>3. \A i, j \in DOMAIN frames[t] : frames[t][i] = frames[t][j] => i = j
    BY Zenon, <1>0 DEF HoldsOnce
  <2>4. /\ h \in Socks /\ frames'[t] \in Seq(Socks)
        /\ \A w : Stacked(t, w) <=> w = h \/ Stacked(t, w)'
        /\ ~Stacked(t, h)'
        /\ \A i, j \in DOMAIN frames'[t] : frames'[t][i] = frames'[t][j] => i = j
    <3>1. /\ h \in Socks /\ Tail(frames[t]) \in Seq(Socks)
          /\ \A w : (\E i \in DOMAIN frames[t] : frames[t][i] = w) <=>
                w = h \/ \E i \in DOMAIN Tail(frames[t]) : Tail(frames[t])[i] = w
          /\ \A i \in DOMAIN Tail(frames[t]) : Tail(frames[t])[i] # h
          /\ \A i, j \in DOMAIN Tail(frames[t]) :
                Tail(frames[t])[i] = Tail(frames[t])[j] => i = j
      BY ZenonT(40), <1>6, <2>0, <2>2, <2>3, Popped
    <3> QED
      BY ZenonT(40), <2>2, <3>1 DEF Stacked
  <2>5. /\ frames' \in [Threads -> Seq(Socks)]
        /\ \A u \in Threads : u # t => frames'[u] = frames[u]
    BY ZenonT(40), <1>0, <2>1, <2>2, <2>4 DEF TypeOK
  <2>6. Went(t, "recv", h, "accept")
    BY Zenon, <1>0, <1>3, <2>1, <2>4, GotoWent DEF Callers
  <2>7. OthersStay(t)
    BY Zenon, <2>5, <2>6 DEF OthersStay, Went
  <2>8. \A w \in Waiters : InHand(t, w)' <=> w = h
    BY Zenon, <2>6 DEF InHand, Went
  <2>9. \A w \in Waiters : Stacked(t, w)' <=> Stacked(t, w) /\ ~InHand(t, w)'
    BY Zenon, <2>4, <2>8
  <2>10. HoldsOnce(t)'
    BY ZenonT(40), <1>0, <1>1, <2>4, <2>8, <2>9 DEF HoldsOnce
  <2>11. \A w \in Waiters : Holds(t, w)' <=> Holds(t, w) /\ w # cur[t]
    BY ZenonT(40), <1>0, <1>1, <1>2, <2>4, <2>8 DEF HoldsOnce, Holds
  <2>12. ThreadOK(t)'
    BY ZenonT(40), <1>1, <1>4, <2>4, <2>6 DEF ThreadOK, Went
  <2> QED
    BY ZenonT(40), <2>5, <2>6, <2>7, <2>10, <2>11, <2>12 DEF Released, Went
<1> QED
  BY Zenon, <1>5, <1>6

----------------------------------------------------------------------------
(* arm_waiter() and close().                                               *)

LEMMA Keep_arm_waiter ==
    ASSUME IInv, NEW t \in Threads, arm_waiter(t)
    PROVE  IInv'
<1> USE EventServerAssumption
<1>0. status = "running" /\ pc[t] = "arm" /\ UNCHANGED <<queue, open, conn, batch>>
  BY Zenon DEF arm_waiter, At
<1>1. CASE cur[t] = NoSock
  <2>1. status' = "undefined" /\ UNCHANGED <<reg, armed, calls>>
    BY Zenon, <1>1 DEF arm_waiter, kernel
  <2>2. DelSucceeds'
    BY Zenon, <1>0, <2>1, Parts DEF DelSucceeds
  <2>3. conn' \in [Socks -> Conns] /\ armed' \subseteq reg' /\ reg' \subseteq Waiters
        /\ batch' \in [Threads -> SUBSET (Waiters \X BOOLEAN)]
    BY Zenon, <1>0, <2>1, Parts DEF TypeOK
  <2> QED
    BY Zenon, <1>0, <2>1, <2>2, <2>3, Keep_End
<1>2. CASE cur[t] # NoSock
  <2>1. /\ reg' = reg \cup {cur[t]} /\ armed' = armed \cup {cur[t]} /\ Return(t)
    BY Zenon, <1>2 DEF arm_waiter
  <2>2. PICK w : w = cur[t]
    OBVIOUS
  <2>3. w \in Waiters /\ Holds(t, w)
    BY Zenon, <1>2, <2>2, Parts DEF TypeOK, Holds, InHand
  <2>4. Released(t)
    BY Zenon, <1>0, <2>1, Return_releases
  <2>5. TypeOK'
    BY ZenonT(40), <1>0, <2>1, <2>2, <2>3, <2>4, Parts DEF TypeOK, Released
  <2>6. DelSucceeds'
    BY Zenon, <1>0, <2>1, Parts DEF DelSucceeds
  <2>7. PassesOn(t)
    <3>1. /\ OthersStay(t) /\ HoldsOnce(t)'
          /\ \A x \in Waiters : Holds(t, x)' <=> Holds(t, x) /\ x # w
      BY Zenon, <2>2, <2>4 DEF Released
    <3>2. armed' = armed \cup {w} /\ armed \subseteq Waiters /\ open' = open
      BY Zenon, <1>0, <2>1, <2>2, Parts DEF TypeOK
    <3>3. \A x \in armed : ~Holds(t, x)
      BY Zenon, <1>0, ServingParts DEF Ownership
    <3>4. \A f \in Socks : f \in Waiters /\ (f \in armed \/ Holds(t, f) => f \in open)
      BY Zenon, <1>0, ServingParts DEF Ownership, Waiters
    <3>5. \A x \in armed' : x \in Waiters /\ (x \in armed \/ Holds(t, x)) /\ ~Holds(t, x)'
      BY Zenon, <2>3, <3>1, <3>2, <3>3
    <3>6. \A f \in Socks : (f \in armed' \/ Holds(t, f)') <=>
             f \in open' /\ (f \in armed \/ Holds(t, f) \/ f \notin open)
      BY Zenon, <2>3, <3>1, <3>2, <3>4
    <3> QED
      BY Zenon, <3>1, <3>2, <3>5, <3>6 DEF PassesOn
  <2>8. Ownership'
    BY Zenon, <1>0, <2>7, OwnershipKept, ServingParts
  <2>9. NoSock \notin Socks /\ NoSock \notin open' /\ open' \subseteq open \cup {NoSock}
    BY Zenon, <1>0, Parts DEF TypeOK
  <2>10. OthersStay(t) /\ ThreadOK(t)' /\ status' = status
    BY Zenon, <2>4 DEF Released
  <2>11. Serving' /\ AcceptFinds'
    BY ZenonT(40), <1>0, <2>8, <2>9, <2>10, Served
  <2> QED
    BY Zenon, <2>5, <2>6, <2>11 DEF IInv
<1> QED
  BY Zenon, <1>1, <1>2

\* request_done() closes: the thread lets go of the socket, which nobody else has.
LEMMA Keep_close ==
    ASSUME IInv, NEW t \in Threads, close(t)
    PROVE  IInv'
<1> USE EventServerAssumption
<1>0. status = "running" /\ pc[t] = "close" /\ UNCHANGED <<queue, reg, armed, batch>>
  BY Zenon DEF close, At, kernel
<1>1. PICK f : f = cur[t]
  OBVIOUS
<1>2. /\ open' = open \ {f} /\ conn' = [conn EXCEPT ![f] = NewConn(0, "open")]
  BY Zenon, <1>1 DEF close
<1>3. f \in Socks /\ f \in Waiters /\ Holds(t, f)
  BY Zenon, <1>0, <1>1, ServingParts DEF ThreadOK, Waiters, Holds, InHand
<1>4. /\ conn' \in [Socks -> Conns] /\ InBounds(conn'[f])
      /\ \A x \in Socks : x # f => conn'[x] = conn[x]
  BY ZenonT(40), <1>2, <1>3, Bounds, NewConnIs, Parts DEF TypeOK
<1>5. Released(t)
  <2>1. CASE Return(t)
    BY ZenonT(40), <1>0, <1>1, <1>4, <2>1, Return_releases
  <2>2. CASE Call(t, "arm", NoSock, "call")
    <3>1. Went(t, "arm", NoSock, "call") /\ UNCHANGED frames
      BY Zenon, <2>2, GotoWent, Parts DEF Call, Callers
    <3>2. OthersStay(t)
      BY Zenon, <1>0, <3>1 DEF OthersStay, Went
    <3>3. /\ \A w \in Waiters : ~InHand(t, w)'
          /\ \A w : Stacked(t, w)' <=> Stacked(t, w)
          /\ \A w : InBatch(t, w)' <=> InBatch(t, w)
      BY Zenon, <1>0, <3>1 DEF InHand, Stacked, InBatch, Waiters, Went
    <3>4. HoldsOnce(t) /\ ThreadOK(t)
      BY Zenon, <1>0, ServingParts DEF Ownership
    <3>5. \A w \in Waiters : InHand(t, w) <=> w = cur[t]
      BY Zenon, <1>0 DEF InHand
    <3>6. HoldsOnce(t)'
      BY ZenonT(40), <1>0, <3>1, <3>3, <3>4 DEF HoldsOnce
    <3>7. \A w \in Waiters : Holds(t, w)' <=> Holds(t, w) /\ w # cur[t]
      BY ZenonT(40), <3>3, <3>4, <3>5 DEF HoldsOnce, Holds
    <3>8. \A x \in Socks : Stacked(t, x) \/ <<x, TRUE>> \in batch[t] => x # f
      BY ZenonT(40), <1>1, <1>3, <3>4, <3>5 DEF HoldsOnce, InBatch, Waiters
    <3>9. /\ \A x \in Socks : Stacked(t, x) => conn'[x].stage = "read"
          /\ \A x \in Socks : <<x, TRUE>> \in batch[t] => Failed(x)'
      BY ZenonT(40), <1>4, <3>4, <3>8 DEF ThreadOK, Failed
    <3>10. ThreadOK(t)'
      BY ZenonT(40), <1>0, <3>1, <3>3, <3>4, <3>9 DEF ThreadOK, Went
    <3> QED
      BY ZenonT(40), <3>1, <3>2, <3>6, <3>7, <3>10, Parts DEF Released, Went, TypeOK
  <2> QED
    BY Zenon, <2>1, <2>2 DEF close
<1>6. TypeOK'
  BY Zenon, <1>0, <1>2, <1>4, <1>5, Parts DEF TypeOK, Released
<1>7. DelSucceeds'
  BY Zenon, <1>0, Parts DEF DelSucceeds
<1>8. PassesOn(t)
  <2>1. /\ OthersStay(t) /\ HoldsOnce(t)'
        /\ \A x \in Waiters : Holds(t, x)' <=> Holds(t, x) /\ x # f
    BY Zenon, <1>1, <1>5 DEF Released
  <2>2. \A x \in armed : x \in Waiters /\ ~Holds(t, x)
    BY Zenon, <1>0, ServingParts, Parts DEF Ownership, TypeOK
  <2>3. \A x \in Socks : x \in Waiters /\ (x \in armed \/ Holds(t, x) => x \in open)
    BY Zenon, <1>0, ServingParts DEF Ownership, Waiters
  <2>4. \A x \in Socks : (x \in armed' \/ Holds(t, x)') <=>
           x \in open' /\ (x \in armed \/ Holds(t, x) \/ x \notin open)
    BY ZenonT(40), <1>0, <1>2, <1>3, <2>1, <2>2, <2>3
  <2> QED
    BY ZenonT(40), <1>0, <1>2, <1>3, <2>1, <2>2, <2>4 DEF PassesOn
<1>9. Ownership'
  BY ZenonT(40), <1>0, <1>8, OwnershipKept, ServingParts
<1>10. OthersStay(t) /\ ThreadOK(t)' /\ status' = status
  BY Zenon, <1>5 DEF Released
<1>11. open' \subseteq open \cup {f} /\ f \notin open'
  BY Zenon, <1>2
<1>12. Serving' /\ AcceptFinds'
  BY ZenonT(40), <1>0, <1>1, <1>3, <1>4, <1>9, <1>10, <1>11, Served
<1> QED
  BY Zenon, <1>6, <1>7, <1>12 DEF IInv

----------------------------------------------------------------------------
(* async_accept() and handle_accept().                                     *)

LEMMA Keep_on_accept ==
    ASSUME IInv, NEW t \in Threads, At(t, "accept"), on_accept(t), UNCHANGED <<kernel, batch>>
    PROVE  IInv'
<1> USE EventServerAssumption
<1>0. status = "running" /\ pc[t] = "accept" /\ UNCHANGED <<reg, armed, batch>>
  BY Zenon DEF At, kernel
<1>1. DelSucceeds'
  BY Zenon, <1>0, Parts DEF DelSucceeds
<1>2. CASE Exit /\ UNCHANGED <<queue, open, conn>>
  <2>1. conn' \in [Socks -> Conns] /\ armed' \subseteq reg' /\ reg' \subseteq Waiters
        /\ batch' \in [Threads -> SUBSET (Waiters \X BOOLEAN)]
    BY Zenon, <1>0, <1>2, Parts DEF TypeOK
  <2> QED
    BY Zenon, <1>1, <1>2, <2>1, Keep_End DEF Exit
<1>3. CASE ~(Exit /\ UNCHANGED <<queue, open, conn>>)
  <2>1. queue > 0 /\ queue' = queue - 1 /\ Goto(t, "accept", NoSock, "call")
    BY Zenon, <1>3 DEF on_accept
  <2>2. PICK f \in Socks \ open, n \in 0 .. ReqLen, p \in {"open", "fin", "reset"} :
           /\ open' = open \cup {f}
           /\ conn' = [conn EXCEPT ![f] = NewConn(n, p)]
           /\ frames' = [frames EXCEPT ![t] = <<f>> \o @]
    BY Zenon, <1>3 DEF on_accept
  <2>3. f \in Socks /\ f \notin open /\ f \in Waiters /\ f # Listener
    BY Zenon DEF Waiters
  <2>4. /\ conn' \in [Socks -> Conns] /\ InBounds(conn'[f]) /\ conn'[f].peer # "dead"
        /\ conn'[f].stage = "read" /\ \A x \in Socks : x # f => conn'[x] = conn[x]
    <3>1. /\ NewConn(n, p) \in Conns /\ InBounds(NewConn(n, p))
          /\ NewConn(n, p).stage = "read" /\ NewConn(n, p).peer = p
      BY ZenonT(40), NewConnIs
    <3> QED
      BY Zenon, <2>2, <2>3, <3>1, Parts DEF TypeOK
  <2>5. Went(t, "accept", NoSock, "call")
    BY Zenon, <2>1, GotoWent, Parts DEF Callers
  <2>6. HoldsOnce(t) /\ ThreadOK(t) /\ ~Holds(t, f) /\ f \notin armed
    BY Zenon, <1>0, <2>3, ServingParts DEF Ownership
  <2>7. frames[t] \in Seq(Socks) /\ frames'[t] = <<f>> \o frames[t]
    BY Zenon, <2>2, Parts DEF TypeOK
  <2>8. /\ frames'[t] \in Seq(Socks)
        /\ \A w : Stacked(t, w)' <=> w = f \/ Stacked(t, w)
        /\ \A i, j \in DOMAIN frames'[t] : frames'[t][i] = frames'[t][j] => i = j
    <3>1. /\ \A i, j \in DOMAIN frames[t] : frames[t][i] = frames[t][j] => i = j
          /\ \A i \in DOMAIN frames[t] : frames[t][i] # f
      BY Zenon, <2>6 DEF HoldsOnce, Holds, Stacked
    <3>2. /\ <<f>> \o frames[t] \in Seq(Socks)
          /\ \A w : (\E i \in DOMAIN (<<f>> \o frames[t]) : (<<f>> \o frames[t])[i] = w) <=>
                       w = f \/ \E i \in DOMAIN frames[t] : frames[t][i] = w
          /\ \A i, j \in DOMAIN (<<f>> \o frames[t]) :
                (<<f>> \o frames[t])[i] = (<<f>> \o frames[t])[j] => i = j
      BY ZenonT(40), <2>3, <2>7, <3>1, Pushed
    <3> QED
      BY ZenonT(40), <2>7, <3>2 DEF Stacked
  <2>9. /\ frames' \in [Threads -> Seq(Socks)]
        /\ \A u \in Threads : u # t => frames'[u] = frames[u]
    BY Zenon, <2>2, <2>7, <2>8, Parts DEF TypeOK
  <2>10. OthersStay(t)
    BY Zenon, <1>0, <2>5, <2>9 DEF OthersStay, Went
  <2>11. /\ \A w : InBatch(t, w)' <=> InBatch(t, w)
         /\ \A w \in Waiters : InHand(t, w)' <=> w = Listener
         /\ \A w \in Waiters : InHand(t, w) <=> w = Listener
    <3>1. cur[t] = NoSock
      BY Zenon, <1>0, <2>6 DEF ThreadOK
    <3> QED
      BY Zenon, <1>0, <2>5, <3>1 DEF InBatch, InHand, Went, Waiters
  <2>12. HoldsOnce(t)'
    <3>1. ~InBatch(t, f)
      BY Zenon, <2>6 DEF Holds
    <3> QED
      BY ZenonT(40), <1>0, <2>3, <2>6, <2>8, <2>11, <3>1 DEF HoldsOnce
  <2>13. \A w \in Waiters : Holds(t, w)' <=> w = f \/ Holds(t, w)
    BY Zenon, <2>8, <2>11 DEF Holds
  <2>14. PassesOn(t)
    <3>1. \A x \in armed : x \in Waiters /\ ~Holds(t, x)
      BY ZenonT(40), <1>0, ServingParts, Parts DEF Ownership, TypeOK
    <3>2. \A x \in Socks : x \in Waiters /\ (x \in armed \/ Holds(t, x) => x \in open)
      BY Zenon, <1>0, ServingParts DEF Ownership, Waiters
    <3>3. \A x \in Socks : (x \in armed' \/ Holds(t, x)') <=>
             x \in open' /\ (x \in armed \/ Holds(t, x) \/ x \notin open)
      BY ZenonT(40), <1>0, <2>2, <2>13, <3>2
    <3>4. \A x \in armed' : x \in Waiters /\ x \in armed /\ ~Holds(t, x)'
      BY ZenonT(40), <1>0, <2>6, <2>13, <3>1
    <3> QED
      BY ZenonT(40), <2>2, <2>3, <2>10, <2>12, <2>13, <3>3, <3>4 DEF PassesOn
  <2>15. Ownership'
    BY ZenonT(40), <1>0, <2>14, OwnershipKept, ServingParts
  <2>16. ThreadOK(t)'
    <3>1. ~InBatch(t, Listener) /\ <<f, TRUE>> \notin batch[t]
      <4>1. Listener \in Waiters
        BY Zenon DEF Waiters
      <4> QED
        BY ZenonT(40), <2>6, <2>11, <4>1 DEF HoldsOnce, Holds, InBatch
    <3>2. \A x \in Socks : Stacked(t, x)' => conn'[x].stage = "read"
      BY ZenonT(40), <2>4, <2>6, <2>8 DEF ThreadOK
    <3>3. \A x \in Socks : <<x, TRUE>> \in batch'[t] => Failed(x)'
      BY ZenonT(40), <1>0, <2>4, <2>6, <3>1 DEF ThreadOK, Failed
    <3> QED
      BY ZenonT(40), <2>5, <2>11, <3>1, <3>2, <3>3 DEF ThreadOK, Went
  <2>17. TypeOK'
    <3>1. queue' \in 0 .. MaxOpen
      <4>1. queue \in 0 .. MaxOpen
        BY Zenon, Parts DEF TypeOK
      <4> QED
        BY <2>1, <4>1
    <3> QED
      BY ZenonT(40), <1>0, <2>2, <2>3, <2>4, <2>5, <2>9, <3>1, Parts DEF TypeOK, Went
  <2>18. Holds(t, Listener)
    BY Zenon, <1>0 DEF Holds, InHand
  <2>19. Serving' /\ AcceptFinds'
    BY ZenonT(40), <1>0, <2>2, <2>3, <2>4, <2>10, <2>15, <2>16, <2>18, Served
  <2> QED
    BY Zenon, <1>1, <2>17, <2>19 DEF IInv
<1> QED
  BY Zenon, <1>2, <1>3

LEMMA Keep_accept ==
    ASSUME IInv, NEW t \in Threads, async_accept(t) \/ handle_accept(t)
    PROVE  IInv'
<1> USE EventServerAssumption
<1>1. CASE on_accept(t)
  BY Zenon, <1>1, Keep_on_accept DEF async_accept, handle_accept
<1>2. CASE ~on_accept(t)
  <2>0. /\ status = "running" /\ pc[t] = "accept"
        /\ UNCHANGED <<queue, open, conn, reg, armed, batch>>
        /\ Call(t, "arm", Listener, "call")
    BY Zenon, <1>2 DEF async_accept, handle_accept, At, kernel
  <2>1. Went(t, "arm", Listener, "call") /\ UNCHANGED frames
    BY Zenon, <2>0, GotoWent, Parts DEF Call, Callers, Waiters
  <2>2. OthersStay(t)
    BY Zenon, <2>0, <2>1 DEF OthersStay, Went
  <2>3. TypeOK' /\ DelSucceeds'
    BY Zenon, <2>0, <2>1, Parts DEF TypeOK, DelSucceeds, Went
  <2>4. ThreadOK(t) /\ cur[t] = NoSock
    BY Zenon, <2>0, ServingParts DEF ThreadOK
  <2>5. \A w \in Waiters : InHand(t, w)' <=> InHand(t, w)
    BY Zenon, <2>0, <2>1, <2>4 DEF InHand, Went, Waiters
  <2>6. Ownership'
    BY Zenon, <2>0, <2>1, <2>2, <2>5, OwnershipSame
  <2>7. ThreadOK(t)'
    <3>1. /\ InBatch(t, Listener)' <=> InBatch(t, Listener)
          /\ \A w : Stacked(t, w)' <=> Stacked(t, w)
          /\ \A x : Failed(x)' <=> Failed(x)
      BY Zenon, <2>0, <2>1 DEF InBatch, Stacked, Failed
    <3> QED
      BY Zenon, <2>0, <2>1, <2>4, <3>1 DEF ThreadOK, Went
  <2>8. NoSock \notin Socks /\ NoSock \notin open' /\ open' \subseteq open \cup {NoSock}
    BY Zenon, <2>0, Parts DEF TypeOK
  <2>9. Serving' /\ AcceptFinds'
    BY Zenon, <2>0, <2>2, <2>6, <2>7, <2>8, Served
  <2> QED
    BY Zenon, <2>3, <2>9 DEF IInv
<1> QED
  BY Zenon, <1>1, <1>2

----------------------------------------------------------------------------
(* A callback and the calls it makes.                                      *)

\* A connection for which a thread may go on with call l, made by v.
Fits(c, l, v) ==
    /\ c \in Conns /\ InBounds(c)
    /\ l \in {"recv", "send", "close", "arm"}
    /\ l = "recv" => c.stage = "read"
    /\ l = "send" => c.stage # "read"
    /\ l = "close" => MayClose(c)
    /\ c.peer = "dead" => l = "close"
    /\ \/ v = "call"
       \/ v = "error" /\ l = "close"
       \/ v = "event" /\ l \in {"recv", "send"}

\* The callback for f ends the process, or goes on with f.
Goes(t, f) ==
    \/ Exit /\ conn' \in [Socks -> Conns]
    \/ \E c, l, v : Fits(c, l, v) /\ conn' = [conn EXCEPT ![f] = c] /\ Call(t, l, f, v)

\* What goes on with f is fit for it, and so is the thread.
LEMMA Goes_fits ==
    ASSUME IInv, status = "running", NEW t \in Threads, NEW f \in Socks,
           NEW c, NEW l, NEW v, Fits(c, l, v), conn' = [conn EXCEPT ![f] = c],
           Call(t, l, f, v)
    PROVE  /\ Went(t, l, f, v) /\ UNCHANGED frames
           /\ conn' \in [Socks -> Conns] /\ InBounds(conn'[f])
           /\ \A x \in Socks : x # f => conn'[x] = conn[x]
           /\ conn'[f].peer = "dead" => pc'[t] = "close" /\ cur'[t] = f
           /\ \A w \in Waiters : InHand(t, w)' <=> w = f
<1>1. /\ l \in {"loop", "accept", "arm", "recv", "send", "close"} /\ l # "accept"
      /\ f \in Waiters /\ v \in Callers /\ c \in Conns /\ InBounds(c)
      /\ c.peer = "dead" => l = "close"
  BY Zenon DEF Fits, Waiters, Callers
<1>2. Went(t, l, f, v) /\ UNCHANGED frames
  BY Zenon, <1>1, GotoWent, Parts DEF Call
<1>3. /\ conn' \in [Socks -> Conns] /\ conn'[f] = c
      /\ \A x \in Socks : x # f => conn'[x] = conn[x]
  BY Zenon, <1>1, Parts DEF TypeOK
<1>4. \A w \in Waiters : InHand(t, w)' <=> w = f
  BY Zenon, <1>1, <1>2 DEF InHand, Went
<1> QED
  BY Zenon, <1>1, <1>2, <1>3, <1>4 DEF Went

LEMMA Goes_thread ==
    ASSUME NEW t \in Threads, NEW f \in Socks, NEW c, NEW l, NEW v, Fits(c, l, v),
           Went(t, l, f, v), conn'[f] = c,
           \A x \in Socks : Stacked(t, x)' => conn'[x].stage = "read",
           \A x \in Socks : <<x, TRUE>> \in batch'[t] => Failed(x)',
           InBatch(t, Listener)' => queue' > 0
    PROVE  ThreadOK(t)'
<1>1. pc'[t] = l /\ cur'[t] = f /\ via'[t] = v /\ conn'[cur'[t]] = c
  BY Zenon DEF Went
<1>2. /\ l \in {"recv", "send", "close", "arm"}
      /\ l = "recv" => c.stage = "read"
      /\ l = "send" => c.stage # "read"
      /\ l = "close" => MayClose(c)
      /\ v = "event" => l \in {"recv", "send"}
      /\ v = "error" => l = "close"
      /\ v # "accept"
  BY Zenon DEF Fits
<1>3. l = "close" => MayClose(conn'[cur'[t]])
  BY Zenon, <1>1, <1>2
<1> QED
  BY ZenonT(40), <1>1, <1>2, <1>3 DEF ThreadOK

\* In the middle of a chain of calls the thread keeps its socket.
LEMMA Keep_Goes ==
    ASSUME IInv, status = "running", NEW t \in Threads, pc[t] \in {"recv", "send"},
           Goes(t, cur[t]), UNCHANGED <<queue, open, kernel, batch>>
    PROVE  IInv'
<1>0. UNCHANGED <<queue, open, reg, armed, batch>>
  BY Zenon DEF kernel
<1>1. DelSucceeds'
  BY Zenon, <1>0, Parts DEF DelSucceeds
<1>2. CASE Exit /\ conn' \in [Socks -> Conns]
  <2>1. armed' \subseteq reg' /\ reg' \subseteq Waiters
        /\ batch' \in [Threads -> SUBSET (Waiters \X BOOLEAN)]
    BY Zenon, <1>0, Parts DEF TypeOK
  <2> QED
    BY ZenonT(40), <1>0, <1>1, <1>2, <2>1, Keep_End DEF Exit
<1>3. CASE \E c, l, v : /\ Fits(c, l, v) /\ conn' = [conn EXCEPT ![cur[t]] = c]
                        /\ Call(t, l, cur[t], v)
  <2>1. PICK f : f = cur[t]
    OBVIOUS
  <2>2. PICK c, l, v : Fits(c, l, v) /\ conn' = [conn EXCEPT ![f] = c] /\ Call(t, l, f, v)
    BY Zenon, <1>3, <2>1
  <2>3. f \in Socks /\ f \in Waiters /\ ThreadOK(t) /\ HoldsOnce(t)
    BY ZenonT(40), <2>1, ServingParts DEF ThreadOK, Ownership, Waiters
  <2>4. /\ Went(t, l, f, v) /\ UNCHANGED frames
        /\ conn' \in [Socks -> Conns] /\ InBounds(conn'[f])
        /\ \A x \in Socks : x # f => conn'[x] = conn[x]
        /\ conn'[f].peer = "dead" => pc'[t] = "close" /\ cur'[t] = f
        /\ \A w \in Waiters : InHand(t, w)' <=> w = f
    BY Zenon, <2>2, <2>3, Goes_fits
  <2>5. OthersStay(t)
    BY Zenon, <1>0, <2>4 DEF OthersStay, Went
  <2>6. \A w \in Waiters : InHand(t, w) <=> w = f
    BY Zenon, <2>1 DEF InHand
  <2>7. Ownership'
    BY ZenonT(40), <1>0, <2>4, <2>5, <2>6, OwnershipSame
  <2>8. ThreadOK(t)'
    <3>1. \A x \in Socks : Stacked(t, x) \/ <<x, TRUE>> \in batch[t] => x # f
      BY Zenon, <2>3, <2>6 DEF HoldsOnce, InBatch
    <3>2. /\ \A w : Stacked(t, w)' <=> Stacked(t, w)
          /\ InBatch(t, Listener)' <=> InBatch(t, Listener)
      BY Zenon, <1>0, <2>4 DEF Stacked, InBatch
    <3>3. /\ \A x \in Socks : Stacked(t, x)' => conn'[x].stage = "read"
          /\ \A x \in Socks : <<x, TRUE>> \in batch'[t] => Failed(x)'
          /\ InBatch(t, Listener)' => queue' > 0
      BY ZenonT(40), <1>0, <2>3, <2>4, <3>1, <3>2 DEF ThreadOK, Failed
    <3>4. conn'[f] = c
      BY Zenon, <2>2, <2>3, Parts DEF TypeOK
    <3> QED
      BY ZenonT(40), <2>2, <2>3, <2>4, <3>3, <3>4, Goes_thread
  <2>9. Holds(t, f) /\ open' \subseteq open \cup {f} /\ pc[t] # "close"
    BY Zenon, <1>0, <2>1 DEF Holds, InHand
  <2>10. Serving' /\ AcceptFinds'
    BY ZenonT(40), <1>0, <2>3, <2>4, <2>5, <2>7, <2>8, <2>9, Served
  <2>11. TypeOK'
    BY ZenonT(40), <1>0, <2>4, Parts DEF TypeOK, Went
  <2> QED
    BY ZenonT(40), <1>1, <2>10, <2>11 DEF IInv
<1> QED
  BY Zenon, <1>2, <1>3 DEF Goes

\* A socket is dead only while its thread is about to close it.
LEMMA NotDead ==
    ASSUME IInv, status = "running", NEW t \in Threads, NEW f \in Socks, Holds(t, f),
           ~(pc[t] = "close" /\ cur[t] = f)
    PROVE  conn[f].peer # "dead"
<1> SUFFICES ASSUME conn[f].peer = "dead" PROVE FALSE
  OBVIOUS
<1>1. f \in open /\ f \in Waiters
  BY Zenon, ServingParts DEF Ownership, Waiters
<1>2. PICK u \in Threads : pc[u] = "close" /\ cur[u] = f
  BY Zenon, <1>1, ServingParts
<1>3. Holds(u, f)
  BY Zenon, <1>2 DEF Holds, InHand
<1>4. u = t
  BY Zenon, <1>1, <1>3, ServingParts DEF Ownership
<1> QED
  BY Zenon, <1>2, <1>4

\* A callback is given an error that has been fetched: it closes, or the process exits.
LEMMA ErrorGoes ==
    ASSUME IInv, status = "running", NEW t \in Threads, NEW f \in Socks, FetchError(f),
           NEW v \in {"call", "error"}, Exit \/ Call(t, "close", f, v)
    PROVE  Goes(t, f)
<1> DEFINE c == [conn[f] EXCEPT !.peer = "dead"]
<1>1. conn[f] \in Conns /\ conn \in [Socks -> Conns] /\ InBounds(conn[f])
  BY Zenon, Parts, ServingParts DEF TypeOK
<1>2. conn' = [conn EXCEPT ![f] = c]
  BY Zenon, <1>1 DEF FetchError
<1>3. /\ c \in Conns /\ c.peer = "dead" /\ c.inbox = conn[f].inbox
      /\ c.parsed = conn[f].parsed /\ c.stage = conn[f].stage /\ c.written = conn[f].written
      /\ c.length = conn[f].length
  BY Zenon, <1>1 DEF Conns
<1> HIDE DEF c
<1>4. InBounds(c) /\ MayClose(c)
  BY Zenon, <1>1, <1>3 DEF InBounds, MayClose
<1>5. Fits(c, "close", v)
  BY Zenon, <1>3, <1>4 DEF Fits
<1>6. conn' \in [Socks -> Conns]
  BY Zenon, <1>1, <1>2, <1>3
<1> QED
  BY Zenon, <1>2, <1>5, <1>6 DEF Goes

\* recv() and on_read() with what it returned.
LEMMA recvGoes ==
    ASSUME IInv, status = "running", NEW t \in Threads, NEW f \in Socks,
           conn[f].stage = "read", conn[f].peer # "dead", recv(t, f)
    PROVE  Goes(t, f)
<1>0. conn[f] \in Conns /\ conn \in [Socks -> Conns] /\ InBounds(conn[f])
  BY Zenon, Parts, ServingParts DEF TypeOK
<1>1. CASE conn' = conn /\ (Call(t, "close", f, "call") \/ Call(t, "arm", f, "call"))
  <2>1. conn' = [conn EXCEPT ![f] = conn[f]]
    BY Zenon, <1>0, <1>1
  <2>2. Fits(conn[f], "close", "call") /\ Fits(conn[f], "arm", "call")
    BY Zenon, <1>0 DEF Fits, MayClose
  <2> QED
    BY Zenon, <1>1, <2>1, <2>2 DEF Goes
<1>2. ASSUME NEW k \in 1 .. conn[f].inbox, on_read(t, f, k) PROVE Goes(t, f)
  <2> DEFINE b == [conn[f] EXCEPT !.inbox = @ - k]
             c == [conn[f] EXCEPT !.inbox = @ - k, !.parsed = @ + k]
  <2>1. /\ conn[f].inbox - k \in 0 .. ReqLen /\ conn[f].parsed + k \in 0 .. ReqLen
        /\ (conn[f].inbox - k) + (conn[f].parsed + k) <= ReqLen
        /\ (conn[f].inbox - k) + conn[f].parsed <= ReqLen
    <3>1. conn[f].inbox \in 0 .. ReqLen /\ conn[f].parsed \in 0 .. ReqLen
          /\ conn[f].inbox + conn[f].parsed <= ReqLen
      BY Zenon, <1>0, Fields DEF InBounds
    <3> QED
      BY <3>1, EventServerAssumption
  <2>2. /\ b \in Conns /\ b.stage = "read" /\ InBounds(b) /\ b.peer = conn[f].peer
    BY Zenon, <1>0, <2>1 DEF Conns, InBounds
  <2>3. /\ c \in Conns /\ c.stage = "read" /\ c.peer = conn[f].peer
        /\ c.inbox + c.parsed <= ReqLen
    BY Zenon, <1>0, <2>1 DEF Conns
  <2>4. InBounds(c)
    BY Zenon, <2>3 DEF InBounds
  <2>5. CASE conn' = [conn EXCEPT ![f].inbox = @ - k] /\ Call(t, "close", f, "call")
    <3>1. conn' = [conn EXCEPT ![f] = b]
      BY Zenon, <1>0, <2>5
    <3>2. Fits(b, "close", "call")
      BY Zenon, <2>2 DEF Fits, MayClose
    <3> QED
      BY Zenon, <2>5, <3>1, <3>2 DEF Goes
  <2> HIDE DEF b, c
  <2>6. CASE conn' = [conn EXCEPT ![f] = c] /\ keep_reading(t, f)
    <3>1. Fits(c, "recv", "call")
      BY Zenon, <2>3, <2>4 DEF Fits
    <3> QED
      BY Zenon, <2>6, <3>1 DEF Goes, keep_reading
  <2>7. ASSUME NEW d \in on_parse_done(c), conn' = [conn EXCEPT ![f] = d],
               Call(t, "send", f, "call")
        PROVE  Goes(t, f)
    <3>1. /\ d \in Conns /\ d.stage = "headers" /\ d.peer = c.peer
          /\ d.inbox + d.parsed <= ReqLen
      <4>1. PICK r \in [keep_alive : BOOLEAN, length : {0, RespLen}] :
               d = [c EXCEPT !.stage = "headers", !.keep_alive = r.keep_alive,
                             !.length = r.length]
        BY Zenon, <2>7 DEF on_parse_done
      <4>2. r.keep_alive \in BOOLEAN /\ r.length \in {0, RespLen}
        BY Zenon, <4>1
      <4>3. d \in Conns
        BY ZenonT(40), <2>3, <4>1, <4>2 DEF Conns
      <4>4. /\ d.stage = "headers" /\ d.peer = c.peer
            /\ d.inbox = c.inbox /\ d.parsed = c.parsed
        BY Zenon, <2>3, <4>1 DEF Conns
      <4> QED
        BY ZenonT(40), <2>3, <4>3, <4>4
    <3>2. Fits(d, "send", "call")
      BY Zenon, <2>3, <3>1 DEF Fits, InBounds
    <3> QED
      BY Zenon, <2>7, <3>2 DEF Goes
  <2> QED
    BY ZenonT(40), <1>2, <2>5, <2>6, <2>7 DEF on_read, b, c
<1> QED
  BY Zenon, <1>1, <1>2 DEF recv

LEMMA Keep_recv ==
    ASSUME IInv, NEW t \in Threads, async_recv(t) \/ handle_read(t)
    PROVE  IInv'
<1> DEFINE f == cur[t]
<1>1. status = "running" /\ pc[t] = "recv" /\ UNCHANGED <<queue, open, kernel, batch>>
  BY Zenon DEF async_recv, handle_read, At
<1>2. f \in Socks /\ conn[f].stage = "read" /\ Holds(t, f)
  BY ZenonT(40), <1>1, ServingParts DEF ThreadOK, Holds, InHand
<1>3. conn[f].peer # "dead"
  BY ZenonT(40), <1>1, <1>2, NotDead
<1>4. \/ recv(t, f)
      \/ FetchError(f) /\ \E v \in {"call", "error"} : Exit \/ Call(t, "close", f, v)
  BY Zenon DEF async_recv, handle_read, RecvFails, on_read_error, request_done
<1>5. Goes(t, f)
  BY ZenonT(40), <1>1, <1>2, <1>3, <1>4, recvGoes, ErrorGoes
<1> QED
  BY Zenon, <1>1, <1>5, Keep_Goes

\* send() takes a part of the response, all of it, or none.
LEMMA SentIs ==
    ASSUME NEW c \in Conns, InBounds(c), c.stage # "read", NEW written \in {0, c.written},
           NEW d \in Sent(c, written, remaining(c, written))
    PROVE  /\ d \in Conns /\ InBounds(d)
           /\ d.stage = c.stage /\ d.peer = c.peer /\ d.length = c.length
           /\ d.keep_alive = c.keep_alive /\ d.inbox = c.inbox
           /\ c.stage = "body" /\ c.length > 0 /\ written = 0 => d.written > 0
<1> DEFINE left == remaining(c, written)
<1>0. /\ c.stage \in {"headers", "body"} /\ c.written \in 0 .. RespLen
      /\ c.length \in {0, RespLen} /\ RespLen \in Nat
      /\ c.stage = "body" => c.written <= c.length
  BY Zenon, Fields, EventServerAssumption DEF InBounds
<1>1. PICK s \in [units : 0 .. left, room : BOOLEAN] :
         /\ d = [c EXCEPT !.written = written + s.units, !.room = s.room]
         /\ IF left = 0 THEN s.room = c.room
            ELSE s.units > 0 /\ (s.units < left => ~s.room)
  BY Zenon DEF Sent
<1>2. s.units \in 0 .. left /\ s.room \in BOOLEAN
  BY Zenon
<1>3. left \in 0 .. RespLen /\ (c.stage = "body" => left = c.length - written)
  BY <1>0 DEF remaining, Length
<1>4. written \in 0 .. RespLen /\ (c.stage = "body" => written <= c.length)
  BY <1>0
<1>5. left = 0 \/ s.units > 0
  BY Zenon, <1>1
<1>6. written + left <= RespLen
  BY <1>0 DEF remaining, Length
<1> HIDE DEF left
<1>7. /\ written + s.units \in 0 .. RespLen
      /\ c.stage = "body" => written + s.units <= c.length
      /\ c.stage = "body" /\ c.length > 0 /\ written = 0 => written + s.units > 0
  BY <1>0, <1>2, <1>3, <1>4, <1>5, <1>6
<1>8. /\ d \in Conns /\ d.written = written + s.units /\ d.stage = c.stage
      /\ d.peer = c.peer /\ d.length = c.length /\ d.keep_alive = c.keep_alive
      /\ d.inbox = c.inbox /\ d.parsed = c.parsed
  BY ZenonT(40), <1>1, <1>2, <1>7 DEF Conns
<1> QED
  BY Zenon, <1>7, <1>8 DEF InBounds

\* on_write of the stage, with the response written so far in c.
LEMMA on_writeGoes ==
    ASSUME NEW t, NEW f, NEW c \in Conns, InBounds(c), c.peer # "dead", on_write(t, f, c),
           c.stage = "body" /\ c.length > 0 => c.written > 0
    PROVE  Goes(t, f)
<1> USE EventServerAssumption
<1>0. /\ c.inbox \in 0 .. ReqLen /\ c.parsed \in 0 .. ReqLen /\ c.length \in {0, RespLen}
      /\ c.room \in BOOLEAN /\ c.peer \in {"open", "fin", "reset", "timeout", "dead"}
  BY Zenon, Fields
<1>1. CASE /\ conn' = [conn EXCEPT ![f] = [c EXCEPT !.stage = "body", !.written = 0]]
           /\ Call(t, "send", f, "call")
  <2> DEFINE d == [c EXCEPT !.stage = "body", !.written = 0]
  <2>1. /\ d \in Conns /\ d.stage = "body" /\ d.written = 0 /\ d.length = c.length
        /\ d.inbox = c.inbox /\ d.parsed = c.parsed /\ d.peer = c.peer
    BY ZenonT(40), Bounds DEF Conns
  <2>2. 0 <= c.length
    BY <1>0
  <2> HIDE DEF d
  <2>3. Fits(d, "send", "call")
    BY ZenonT(40), <2>1, <2>2 DEF Fits, InBounds
  <2> QED
    BY Zenon, <1>1, <2>3 DEF Goes, d
<1>2. CASE /\ conn' = [conn EXCEPT ![f] = [NewConn(c.inbox, c.peer) EXCEPT !.room = c.room]]
           /\ Call(t, "recv", f, "call")
  <2> DEFINE n == NewConn(c.inbox, c.peer)
             d == [n EXCEPT !.room = c.room]
  <2>1. n \in Conns /\ InBounds(n) /\ n.stage = "read" /\ n.peer = c.peer
    BY ZenonT(40), <1>0, NewConnIs
  <2> HIDE DEF n
  <2>2. /\ d \in Conns /\ d.stage = "read" /\ d.peer = c.peer
        /\ d.inbox = n.inbox /\ d.parsed = n.parsed
    BY Zenon, <1>0, <2>1 DEF Conns
  <2> HIDE DEF d
  <2>3. Fits(d, "recv", "call")
    BY Zenon, <2>1, <2>2 DEF Fits, InBounds
  <2> QED
    BY ZenonT(40), <1>2, <2>3 DEF Goes, d, n
<1>3. CASE /\ c.stage = "body" /\ ~c.keep_alive /\ conn' = [conn EXCEPT ![f] = c]
           /\ Call(t, "close", f, "call")
  <2>1. Fits(c, "close", "call")
    BY Zenon, <1>3 DEF Fits, MayClose
  <2> QED
    BY Zenon, <1>3, <2>1 DEF Goes
<1> QED
  BY ZenonT(40), <1>1, <1>2, <1>3 DEF on_write

LEMMA Keep_send ==
    ASSUME IInv, NEW t \in Threads, async_send(t) \/ handle_write(t)
    PROVE  IInv'
<1> DEFINE f == cur[t]
<1>1. status = "running" /\ pc[t] = "send" /\ UNCHANGED <<queue, open, kernel, batch>>
  BY Zenon DEF async_send, handle_write, At
<1>2. f \in Socks /\ conn[f].stage # "read" /\ Holds(t, f)
  BY ZenonT(40), <1>1, ServingParts DEF ThreadOK, Holds, InHand
<1>3. conn[f].peer # "dead"
  BY ZenonT(40), <1>1, <1>2, NotDead
<1>4. conn[f] \in Conns /\ conn \in [Socks -> Conns] /\ InBounds(conn[f])
  BY ZenonT(40), <1>1, <1>2, Parts, ServingParts DEF TypeOK
<1>5. \/ \E c \in Sent(conn[f], 0, remaining(conn[f], 0)) : on_write(t, f, c)
      \/ \E c \in Sent(conn[f], conn[f].written, remaining(conn[f], conn[f].written)) :
            \/ c.written = Length(c) /\ on_write(t, f, c)
            \/ conn' = [conn EXCEPT ![f] = c] /\ Call(t, "arm", f, "call")
      \/ \E written \in {0, conn[f].written} : SendBlocks(t, f, written)
      \/ FetchError(f) /\ \E v \in {"call", "error"} : Exit \/ Call(t, "close", f, v)
  BY Zenon DEF async_send, handle_write, SendFails, on_write_error, request_done
<1>6. ASSUME NEW c \in Sent(conn[f], 0, remaining(conn[f], 0)), on_write(t, f, c)
      PROVE  Goes(t, f)
  <2>1. /\ c \in Conns /\ InBounds(c) /\ c.peer = conn[f].peer
        /\ c.stage = "body" /\ c.length > 0 => c.written > 0
    BY ZenonT(40), <1>2, <1>4, SentIs
  <2> QED
    BY ZenonT(40), <1>3, <1>6, <2>1, on_writeGoes
<1>7. ASSUME NEW c \in Sent(conn[f], conn[f].written, remaining(conn[f], conn[f].written)),
             \/ c.written = Length(c) /\ on_write(t, f, c)
             \/ conn' = [conn EXCEPT ![f] = c] /\ Call(t, "arm", f, "call")
      PROVE  Goes(t, f)
  <2>1. c \in Conns /\ InBounds(c) /\ c.peer # "dead"
    BY ZenonT(40), <1>2, <1>3, <1>4, SentIs
  <2>2. c.written = Length(c) => (c.stage = "body" /\ c.length > 0 => c.written > 0)
    BY Zenon DEF Length
  <2>3. Fits(c, "arm", "call")
    BY Zenon, <2>1 DEF Fits
  <2> QED
    BY Zenon, <1>7, <2>1, <2>2, <2>3, on_writeGoes DEF Goes
<1>8. ASSUME NEW written \in {0, conn[f].written}, SendBlocks(t, f, written)
      PROVE  Goes(t, f)
  <2> DEFINE c == [conn[f] EXCEPT !.written = written]
  <2>1. written \in 0 .. RespLen /\ (conn[f].stage = "body" => written <= conn[f].length)
    <3>1. /\ conn[f].written \in 0 .. RespLen /\ conn[f].length \in {0, RespLen}
          /\ conn[f].stage = "body" => conn[f].written <= conn[f].length
      BY Zenon, <1>4, Fields DEF InBounds
    <3> QED
      BY <3>1, EventServerAssumption
  <2>2. /\ c \in Conns /\ c.stage = conn[f].stage /\ c.peer = conn[f].peer
        /\ c.inbox = conn[f].inbox /\ c.parsed = conn[f].parsed
        /\ c.written = written /\ c.length = conn[f].length
    BY Zenon, <1>4, <2>1 DEF Conns
  <2>3. conn' = [conn EXCEPT ![f] = c] /\ Call(t, "arm", f, "call")
    BY Zenon, <1>4, <1>8 DEF SendBlocks
  <2> HIDE DEF c
  <2>4. Fits(c, "arm", "call")
    BY ZenonT(40), <1>3, <1>4, <2>1, <2>2 DEF Fits, InBounds
  <2> QED
    BY ZenonT(40), <2>3, <2>4 DEF Goes
<1>9. Goes(t, f)
  BY ZenonT(40), <1>1, <1>2, <1>5, <1>6, <1>7, <1>8, ErrorGoes
<1> QED
  BY Zenon, <1>1, <1>9, Keep_Goes

----------------------------------------------------------------------------
(* async_run_loop() and handle_event().                                    *)

LEMMA Keep_run_loop ==
    ASSUME IInv, NEW t \in Threads, async_run_loop(t)
    PROVE  IInv'
<1> USE EventServerAssumption
<1>0. /\ status = "running" /\ pc[t] = "loop" /\ batch[t] = {}
      /\ UNCHANGED <<queue, open, conn, reg, pc, cur, via, frames, status>>
  BY Zenon DEF async_run_loop, At, calls
<1>1. PICK S \in SUBSET ({w \in armed : Pending(w)} \cup (armed \ {Listener})) :
         /\ armed' = armed \ S
         /\ batch' = [batch EXCEPT ![t] = {<<w, w # Listener /\ Failed(w)>> : w \in S}]
  BY Zenon DEF async_run_loop, disarm
<1>2. /\ \A w \in S : w \in armed /\ w \in reg /\ w \in Waiters
      /\ Listener \in S => queue > 0
  BY Zenon, <1>1, Parts DEF Pending, TypeOK
<1>3. /\ batch'[t] = {<<w, w # Listener /\ Failed(w)>> : w \in S}
      /\ \A u \in Threads : u # t => batch'[u] = batch[u]
  BY ZenonT(40), <1>1, Parts DEF TypeOK
<1>4. \A w : (w # Listener /\ Failed(w)) \in BOOLEAN
  BY Zenon DEF Failed
<1>5. \A w, err : <<w, err>> \in batch'[t] <=> w \in S /\ err = (w # Listener /\ Failed(w))
  BY <1>3, <1>4
<1>6. \A w : InBatch(t, w)' <=> w \in S
  BY Zenon, <1>4, <1>5 DEF InBatch
<1>7. TypeOK'
  <2>1. batch'[t] \in SUBSET (Waiters \X BOOLEAN)
    <3>1. \A w \in S : <<w, w # Listener /\ Failed(w)>> \in Waiters \X BOOLEAN
      BY Zenon, <1>2, <1>4
    <3>2. ASSUME NEW e \in batch'[t] PROVE e \in Waiters \X BOOLEAN
      <4>1. PICK w \in S : e = <<w, w # Listener /\ Failed(w)>>
        BY Zenon, <1>3, <3>2
      <4> QED
        BY Zenon, <3>1, <4>1
    <3> QED
      BY Zenon, <3>2
  <2>2. batch' \in [Threads -> SUBSET (Waiters \X BOOLEAN)]
    BY ZenonT(40), <1>1, <1>3, <2>1, Parts DEF TypeOK
  <2> QED
    BY ZenonT(40), <1>0, <1>1, <2>2, Parts DEF TypeOK
<1>8. DelSucceeds'
  <2>1. \A e \in batch'[t] : e[1] \in reg
    BY <1>2, <1>3
  <2> QED
    BY ZenonT(40), <1>0, <1>3, <2>1, Parts DEF DelSucceeds
<1>9. OthersStay(t)
  BY Zenon, <1>0, <1>3 DEF OthersStay
<1>10. /\ HoldsOnce(t) /\ ThreadOK(t) /\ \A w \in armed : ~Holds(t, w)
       /\ \A f \in Socks : f \in Waiters /\ (f \in armed \/ Holds(t, f) => f \in open)
  BY ZenonT(40), <1>0, ServingParts DEF Ownership, Waiters
<1>11. /\ \A w : InHand(t, w)' <=> InHand(t, w)
       /\ \A w : Stacked(t, w)' <=> Stacked(t, w)
       /\ \A w : ~InBatch(t, w)
  BY Zenon, <1>0 DEF InHand, Stacked, InBatch
<1>12. \A w : Holds(t, w)' <=> Holds(t, w) \/ w \in S
  BY ZenonT(40), <1>6, <1>11 DEF Holds
<1>13. HoldsOnce(t)'
  <2>1. \A w \in S : ~InHand(t, w) /\ ~Stacked(t, w)
    BY ZenonT(40), <1>2, <1>10 DEF Holds
  <2>2. \A w : ~(<<w, TRUE>> \in batch'[t] /\ <<w, FALSE>> \in batch'[t])
    BY Zenon, <1>5
  <2> QED
    BY ZenonT(40), <1>0, <1>6, <1>10, <1>11, <2>1, <2>2 DEF HoldsOnce
<1>14. PassesOn(t)
  <2>1. \A w \in armed' : w \in Waiters /\ w \in armed /\ ~Holds(t, w)'
    BY ZenonT(40), <1>1, <1>10, <1>12, Parts DEF TypeOK
  <2>2. \A f \in Socks : (f \in armed' \/ Holds(t, f)') <=>
           f \in open' /\ (f \in armed \/ Holds(t, f) \/ f \notin open)
    BY ZenonT(40), <1>0, <1>1, <1>2, <1>10, <1>12
  <2> QED
    BY ZenonT(40), <1>0, <1>2, <1>9, <1>12, <1>13, <2>1, <2>2 DEF PassesOn
<1>15. Ownership'
  BY ZenonT(40), <1>0, <1>14, OwnershipKept, ServingParts
<1>16. ThreadOK(t)'
  <2>1. \A f \in Socks : <<f, TRUE>> \in batch'[t] => Failed(f)'
    BY ZenonT(40), <1>0, <1>5 DEF Failed
  <2>2. InBatch(t, Listener)' => queue' > 0
    BY ZenonT(40), <1>0, <1>2, <1>6
  <2> QED
    BY ZenonT(40), <1>0, <1>10, <1>11, <2>1, <2>2 DEF ThreadOK
<1>17. NoSock \notin Socks /\ NoSock \notin open' /\ open' \subseteq open \cup {NoSock}
  BY ZenonT(40), <1>0, Parts DEF TypeOK
<1>18. Serving' /\ AcceptFinds'
  BY ZenonT(40), <1>0, <1>9, <1>15, <1>16, <1>17, Served
<1> QED
  BY ZenonT(40), <1>7, <1>8, <1>18 DEF IInv

\* An event leaves events[], and its waiter the interest list.
Taken(t, w) ==
    /\ pc[t] = "loop" /\ Holds(t, w) /\ cur[t] = NoSock
    /\ batch' \in [Threads -> SUBSET (Waiters \X BOOLEAN)]
    /\ \A u \in Threads : u # t => batch'[u] = batch[u]
    /\ batch'[t] \subseteq batch[t]
    /\ \A x : InBatch(t, x)' <=> InBatch(t, x) /\ x # w
    /\ armed' = armed /\ reg' \subseteq Waiters /\ armed' \subseteq reg'

LEMMA EventTaken ==
    ASSUME IInv, NEW t \in Threads, NEW w \in Waiters, NEW err \in BOOLEAN,
           handle_event(t, w, err)
    PROVE  Taken(t, w) /\ DelSucceeds'
<1>0. /\ status = "running" /\ pc[t] = "loop" /\ <<w, err>> \in batch[t]
      /\ batch' = [batch EXCEPT ![t] = @ \ {<<w, err>>}]
      /\ reg' = reg \ {w} /\ armed' = armed \ {w}
  BY Zenon DEF handle_event, At
<1>1. /\ batch'[t] = batch[t] \ {<<w, err>>} /\ batch[t] \subseteq Waiters \X BOOLEAN
      /\ \A u \in Threads : u # t => batch'[u] = batch[u]
  BY Zenon, <1>0, Parts DEF TypeOK
<1>2. batch' \in [Threads -> SUBSET (Waiters \X BOOLEAN)]
  BY ZenonT(40), <1>0, Parts DEF TypeOK
<1>3. InBatch(t, w) /\ Holds(t, w)
  BY Zenon, <1>0 DEF InBatch, Holds
<1>4. \A b \in BOOLEAN : <<w, b>> \in batch[t] => b = err
  <2>1. ~(<<w, TRUE>> \in batch[t] /\ <<w, FALSE>> \in batch[t])
    BY Zenon, <1>0, ServingParts DEF Ownership, HoldsOnce
  <2>2. CASE err = TRUE
    BY ZenonT(40), <1>0, <2>1, <2>2
  <2>3. CASE err = FALSE
    BY ZenonT(40), <1>0, <2>1, <2>3
  <2> QED
    BY ZenonT(40), <2>2, <2>3
<1>5. \A x : InBatch(t, x)' <=> InBatch(t, x) /\ x # w
  <2>1. \A x, b : <<x, b>> \in batch'[t] <=> <<x, b>> \in batch[t] /\ ~(x = w /\ b = err)
    BY <1>1
  <2> QED
    BY ZenonT(40), <1>4, <2>1 DEF InBatch
<1>6. w \notin armed /\ cur[t] = NoSock
  BY ZenonT(40), <1>0, <1>3, ServingParts DEF Ownership, ThreadOK
<1>7. armed' = armed /\ reg' \subseteq Waiters /\ armed' \subseteq reg'
  BY ZenonT(40), <1>0, <1>6, Parts DEF TypeOK
<1>8. ASSUME NEW u \in Threads, NEW e \in batch'[u] PROVE e[1] \in reg'
  <2>1. e \in batch[u] /\ e \in Waiters \X BOOLEAN
    BY ZenonT(40), <1>1, <1>2, <1>8, Parts DEF TypeOK
  <2>2. e = <<e[1], e[2]>> /\ e[1] \in Waiters /\ e[2] \in BOOLEAN
    BY <2>1
  <2>3. e[1] # w
    <3>1. CASE u = t
      <4>1. InBatch(t, e[1])'
        BY ZenonT(40), <1>8, <2>2, <3>1 DEF InBatch
      <4> QED
        BY Zenon, <1>5, <4>1
    <3>2. CASE u # t
      <4>1. Holds(u, e[1])
        BY ZenonT(40), <2>1, <2>2 DEF Holds, InBatch
      <4>2. ~Holds(u, w)
        BY ZenonT(40), <1>0, <1>3, <3>2, ServingParts DEF Ownership
      <4> QED
        BY ZenonT(40), <4>1, <4>2
    <3> QED
      BY Zenon, <3>1, <3>2
  <2> QED
    BY ZenonT(40), <1>0, <2>1, <2>3, Parts DEF DelSucceeds
<1> QED
  BY ZenonT(40), <1>0, <1>1, <1>2, <1>3, <1>5, <1>6, <1>7, <1>8 DEF DelSucceeds, Taken

LEMMA Keep_handle_event ==
    ASSUME IInv, NEW t \in Threads, NEW w \in Waiters, NEW err \in BOOLEAN,
           handle_event(t, w, err)
    PROVE  IInv'
<1> USE EventServerAssumption
<1>0. UNCHANGED <<queue, open>> /\ <<w, err>> \in batch[t] /\ status = "running"
  BY Zenon DEF handle_event, At
<1>1. /\ pc[t] = "loop" /\ Holds(t, w) /\ cur[t] = NoSock
      /\ batch' \in [Threads -> SUBSET (Waiters \X BOOLEAN)]
      /\ \A u \in Threads : u # t => batch'[u] = batch[u]
      /\ batch'[t] \subseteq batch[t]
      /\ \A x : InBatch(t, x)' <=> InBatch(t, x) /\ x # w
      /\ armed' = armed /\ reg' \subseteq Waiters /\ armed' \subseteq reg'
  <2>1. Taken(t, w)
    BY Zenon, EventTaken
  <2> QED
    BY Zenon, <2>1 DEF Taken
<1>2. DelSucceeds'
  BY Zenon, EventTaken
<1>3. HoldsOnce(t) /\ ThreadOK(t) /\ InBatch(t, w)
  BY ZenonT(40), <1>0, ServingParts DEF Ownership, InBatch
<1>4. ASSUME OthersStay(t), UNCHANGED frames, \A x \in Waiters : InHand(t, x)' <=> x = w
      PROVE  Ownership'
  <2>1. \A x : Stacked(t, x)' <=> Stacked(t, x)
    BY Zenon, <1>4 DEF Stacked
  <2>2. \A x \in Waiters : ~InHand(t, x)
    BY Zenon, <1>1 DEF InHand, Waiters
  <2>3. HoldsOnce(t)'
    BY ZenonT(40), <1>1, <1>3, <1>4, <2>1 DEF HoldsOnce
  <2>4. \A x \in Waiters : Holds(t, x)' <=> Holds(t, x)
    BY ZenonT(40), <1>1, <1>3, <1>4, <2>1, <2>2 DEF Holds
  <2>5. /\ \A x \in armed : x \in Waiters /\ ~Holds(t, x)
        /\ \A f \in Socks : f \in Waiters /\ (f \in armed \/ Holds(t, f) => f \in open)
    BY ZenonT(40), <1>0, ServingParts, Parts DEF Ownership, TypeOK, Waiters
  <2>6. PassesOn(t)
    BY ZenonT(40), <1>0, <1>1, <1>4, <2>3, <2>4, <2>5 DEF PassesOn
  <2> QED
    BY ZenonT(40), <1>0, <2>6, OwnershipKept, ServingParts
<1>5. CASE w = Listener
  <2>1. Went(t, "accept", NoSock, "event") /\ UNCHANGED <<conn, frames>>
    BY ZenonT(40), <1>5, GotoWent, Parts DEF handle_event, Call, Callers
  <2>2. OthersStay(t)
    BY Zenon, <1>1, <2>1 DEF OthersStay, Went
  <2>3. \A x \in Waiters : InHand(t, x)' <=> x = w
    BY Zenon, <1>5, <2>1 DEF InHand, Went, Waiters
  <2>4. Ownership'
    BY ZenonT(40), <1>4, <2>1, <2>2, <2>3
  <2>5. ThreadOK(t)'
    <3>1. queue' > 0
      BY ZenonT(40), <1>0, <1>3, <1>5 DEF ThreadOK
    <3>2. /\ \A x : Stacked(t, x)' <=> Stacked(t, x)
          /\ \A x : Failed(x)' <=> Failed(x)
      BY Zenon, <2>1 DEF Stacked, Failed
    <3>3. \A f \in Socks : <<f, TRUE>> \in batch'[t] => Failed(f)'
      BY ZenonT(40), <1>1, <1>3, <3>2 DEF ThreadOK
    <3> QED
      BY ZenonT(40), <1>3, <2>1, <3>1, <3>2, <3>3 DEF ThreadOK, Went
  <2>6. NoSock \notin Socks /\ NoSock \notin open' /\ open' \subseteq open \cup {NoSock}
    BY Zenon, <1>0, Parts DEF TypeOK
  <2>7. Serving' /\ AcceptFinds'
    BY ZenonT(40), <1>0, <1>1, <2>1, <2>2, <2>4, <2>5, <2>6, Served
  <2>8. TypeOK'
    BY ZenonT(40), <1>0, <1>1, <2>1, Parts DEF TypeOK, Went
  <2> QED
    BY ZenonT(40), <1>2, <2>7, <2>8 DEF IInv
<1>6. CASE w # Listener
  <2>1. w \in Socks /\ conn[w].peer # "dead"
    <3>1. w \in Socks
      BY Zenon, <1>6 DEF Waiters
    <3> QED
      BY ZenonT(40), <1>0, <1>1, <3>1, NotDead
  <2>2. conn[w] \in Conns /\ conn \in [Socks -> Conns] /\ InBounds(conn[w])
    BY ZenonT(40), <1>0, <2>1, Parts, ServingParts DEF TypeOK
  <2>3. Goes(t, w)
    <3>1. CASE err
      <4>1. FetchError(w) /\ (Exit \/ Call(t, "close", w, "call"))
        BY Zenon, <1>6, <3>1 DEF handle_event, on_read_error, on_write_error, request_done
      <4> QED
        BY ZenonT(40), <1>0, <2>1, <4>1, ErrorGoes
    <3>2. CASE ~err
      <4> DEFINE l == IF conn[w].stage = "read" THEN "recv" ELSE "send"
      <4>1. Call(t, l, w, "event") /\ UNCHANGED conn
        BY Zenon, <1>6, <3>2 DEF handle_event
      <4>2. conn' = [conn EXCEPT ![w] = conn[w]]
        BY Zenon, <2>2, <4>1
      <4>3. Fits(conn[w], l, "event")
        BY Zenon, <2>1, <2>2 DEF Fits
      <4> QED
        BY Zenon, <4>1, <4>2, <4>3 DEF Goes
    <3> QED
      BY Zenon, <3>1, <3>2
  <2>4. CASE Exit /\ conn' \in [Socks -> Conns]
    BY ZenonT(40), <1>0, <1>1, <1>2, <2>4, Keep_End DEF Exit
  <2>5. CASE \E c, l, v : /\ Fits(c, l, v) /\ conn' = [conn EXCEPT ![w] = c]
                          /\ Call(t, l, w, v)
    <3>1. PICK c, l, v : Fits(c, l, v) /\ conn' = [conn EXCEPT ![w] = c] /\ Call(t, l, w, v)
      BY Zenon, <2>5
    <3>2. /\ Went(t, l, w, v) /\ UNCHANGED frames
          /\ conn' \in [Socks -> Conns] /\ InBounds(conn'[w])
          /\ \A x \in Socks : x # w => conn'[x] = conn[x]
          /\ conn'[w].peer = "dead" => pc'[t] = "close" /\ cur'[t] = w
          /\ \A x \in Waiters : InHand(t, x)' <=> x = w
      BY ZenonT(40), <1>0, <2>1, <3>1, Goes_fits
    <3>3. OthersStay(t)
      BY Zenon, <1>1, <3>2 DEF OthersStay, Went
    <3>4. Ownership'
      BY Zenon, <1>4, <3>2, <3>3
    <3>5. ThreadOK(t)'
      <4>1. /\ \A x : Stacked(t, x)' <=> Stacked(t, x)
            /\ InBatch(t, Listener)' => InBatch(t, Listener)
        BY ZenonT(40), <1>1, <3>2 DEF Stacked
      <4>2. \A x \in Socks : <<x, TRUE>> \in batch'[t] => <<x, TRUE>> \in batch[t] /\ x # w
        BY Zenon, <1>1 DEF InBatch
      <4>3. ~Stacked(t, w)
        BY Zenon, <1>3 DEF HoldsOnce
      <4>4. /\ \A x \in Socks : Stacked(t, x)' => conn'[x].stage = "read"
            /\ \A x \in Socks : <<x, TRUE>> \in batch'[t] => Failed(x)'
            /\ InBatch(t, Listener)' => queue' > 0
        BY ZenonT(40), <1>0, <1>3, <3>2, <4>1, <4>2, <4>3 DEF ThreadOK, Failed
      <4>5. conn'[w] = c
        BY ZenonT(40), <2>1, <2>2, <3>1
      <4> QED
        BY ZenonT(40), <2>1, <3>1, <3>2, <4>4, <4>5, Goes_thread
    <3>6. open' \subseteq open \cup {w}
      BY Zenon, <1>0
    <3>7. Serving' /\ AcceptFinds'
      BY ZenonT(40), <1>0, <1>1, <2>1, <3>2, <3>3, <3>4, <3>5, <3>6, Served
    <3>8. TypeOK'
      BY ZenonT(40), <1>0, <1>1, <3>2, Parts DEF TypeOK, Went
    <3> QED
      BY Zenon, <1>2, <3>7, <3>8 DEF IInv
  <2> QED
    BY ZenonT(40), <2>3, <2>4, <2>5 DEF Goes
<1> QED
  BY ZenonT(40), <1>5, <1>6

----------------------------------------------------------------------------
(* The clients.                                                            *)

\* No thread moves, and none notices.
LEMMA Keep_Still ==
    ASSUME IInv, status = "running", UNCHANGED <<open, kernel, batch, calls, status>>,
           queue' \in 0 .. MaxOpen, queue > 0 => queue' > 0, conn' \in [Socks -> Conns],
           \A f \in Socks : /\ Persists(f) /\ InBounds(conn'[f])
                            /\ conn'[f].peer = "dead" => conn[f].peer = "dead"
    PROVE  IInv'
<1>1. UNCHANGED <<open, reg, armed, batch, pc, cur, via, frames, status>>
  BY Zenon DEF kernel, calls
<1>2. TypeOK' /\ DelSucceeds'
  BY Zenon, <1>1, Parts DEF TypeOK, DelSucceeds
<1>3. Ownership'
  <2>1. \A t, w : Holds(t, w)' <=> Holds(t, w)
    BY ZenonT(40), <1>1 DEF Holds, InBatch, InHand, Stacked
  <2>2. \A t : HoldsOnce(t)' <=> HoldsOnce(t)
    BY ZenonT(90), <1>1 DEF HoldsOnce, InBatch, InHand, Stacked
  <2> QED
    BY ZenonT(40), <1>1, <2>1, <2>2, ServingParts DEF Ownership
<1>4. \A t : OthersStay(t)
  BY Zenon, <1>1 DEF OthersStay
<1>5. ASSUME NEW u \in Threads PROVE ThreadOK(u)'
  <2>1. u # 0 \/ u # 1
    OBVIOUS
  <2>2. u # 0 => ThreadOK(u)'
    BY Zenon, <1>4, OthersOK, ServingParts
  <2>3. u # 1 => ThreadOK(u)'
    BY Zenon, <1>4, OthersOK, ServingParts
  <2> QED
    BY Zenon, <2>1, <2>2, <2>3
<1>6. AcceptFinds'
  BY Zenon, <1>5 DEF AcceptFinds, ThreadOK
<1>7. open \subseteq Socks
  BY Zenon, Parts DEF TypeOK
<1>8. Serving'
  BY ZenonT(40), <1>1, <1>3, <1>5, <1>7, ServingParts DEF Serving
<1> QED
  BY ZenonT(40), <1>2, <1>6, <1>8 DEF IInv

LEMMA Keep_connect ==
    ASSUME IInv, connect
    PROVE  IInv'
<1>1. /\ status = "running" /\ queue + Cardinality(open) < MaxOpen /\ queue' = queue + 1
      /\ UNCHANGED <<open, kernel, batch, calls, status>> /\ UNCHANGED conn
  BY Zenon DEF connect
<1>2. Cardinality(open) \in Nat /\ queue \in 0 .. MaxOpen /\ conn \in [Socks -> Conns]
  BY ZenonT(40), <1>1, FS_CardinalityType, ServingParts, Parts DEF TypeOK
<1>3. queue' \in 0 .. MaxOpen /\ queue' > 0
  BY <1>1, <1>2, EventServerAssumption
<1>4. \A f \in Socks : Persists(f) /\ InBounds(conn'[f])
  BY ZenonT(40), <1>1, ServingParts DEF Persists, Failed
<1> QED
  BY ZenonT(40), <1>1, <1>2, <1>3, <1>4, Keep_Still

\* What a client may do to connection b, so that it becomes c.
Allowed(b, c) ==
    /\ c \in Conns /\ InBounds(c) /\ c.stage = b.stage
    /\ b.peer \in {"reset", "timeout"} => c.peer \in {"reset", "timeout"}
    /\ MayClose(b) => MayClose(c)
    /\ c.peer = "dead" => b.peer = "dead"

LEMMA Keep_Client ==
    ASSUME IInv, NEW f \in Socks, NEW c, Client(f, c), Allowed(conn[f], c)
    PROVE  IInv'
<1>1. /\ status = "running" /\ conn' = [conn EXCEPT ![f] = c] /\ UNCHANGED queue
      /\ UNCHANGED <<open, kernel, batch, calls, status>>
  BY Zenon DEF Client
<1>2. conn \in [Socks -> Conns] /\ queue \in 0 .. MaxOpen
  BY Zenon, Parts DEF TypeOK
<1>3. /\ conn' \in [Socks -> Conns] /\ conn'[f] = c
      /\ \A x \in Socks : x # f => conn'[x] = conn[x]
  BY ZenonT(40), <1>1, <1>2 DEF Allowed
<1>4. /\ Persists(f) /\ InBounds(conn'[f])
      /\ conn'[f].peer = "dead" => conn[f].peer = "dead"
  BY ZenonT(40), <1>3 DEF Persists, Failed, Allowed
<1>5. \A x \in Socks : x # f => Persists(x) /\ InBounds(conn'[x])
  BY ZenonT(40), <1>1, <1>3, ServingParts DEF Persists, Failed
<1>6. \A x \in Socks : /\ Persists(x) /\ InBounds(conn'[x])
                       /\ conn'[x].peer = "dead" => conn[x].peer = "dead"
  BY ZenonT(40), <1>3, <1>4, <1>5
<1> QED
  BY ZenonT(40), <1>1, <1>2, <1>3, <1>6, Keep_Still

LEMMA Keep_clients ==
    ASSUME IInv, NEW f \in Socks, client_sends(f) \/ client_reads(f) \/ client_leaves(f)
    PROVE  IInv'
<1>0. status = "running"
  BY Zenon DEF client_sends, client_reads, client_leaves, Client
<1>1. conn[f] \in Conns /\ InBounds(conn[f])
  BY ZenonT(40), <1>0, Parts, ServingParts DEF TypeOK
<1>2. CASE client_sends(f)
  <2> DEFINE c == [conn[f] EXCEPT !.inbox = @ + 1]
  <2>1. /\ conn[f].peer = "open" /\ conn[f].stage = "read"
        /\ conn[f].inbox + conn[f].parsed < ReqLen /\ Client(f, c)
    BY Zenon, <1>2 DEF client_sends
  <2>2. conn[f].inbox \in 0 .. ReqLen /\ conn[f].parsed \in 0 .. ReqLen
    BY ZenonT(40), <1>1, Fields
  <2>3. /\ conn[f].inbox + 1 \in 0 .. ReqLen
        /\ (conn[f].inbox + 1) + conn[f].parsed <= ReqLen
    BY <2>1, <2>2, EventServerAssumption
  <2>4. /\ c \in Conns /\ c.stage = "read" /\ c.peer = conn[f].peer
        /\ c.inbox + c.parsed <= ReqLen
    BY ZenonT(40), <1>1, <2>1, <2>3 DEF Conns
  <2> HIDE DEF c
  <2>5. Allowed(conn[f], c)
    BY ZenonT(40), <2>1, <2>4 DEF Allowed, InBounds, MayClose
  <2> QED
    BY ZenonT(40), <2>1, <2>5, Keep_Client
<1>3. CASE client_reads(f)
  <2> DEFINE c == [conn[f] EXCEPT !.room = TRUE]
  <2>1. Client(f, c)
    BY Zenon, <1>3 DEF client_reads
  <2>2. /\ c \in Conns /\ c.stage = conn[f].stage /\ c.peer = conn[f].peer
        /\ c.inbox = conn[f].inbox /\ c.parsed = conn[f].parsed
        /\ c.written = conn[f].written /\ c.length = conn[f].length
        /\ c.keep_alive = conn[f].keep_alive
    BY Zenon, <1>1 DEF Conns
  <2> HIDE DEF c
  <2>3. Allowed(conn[f], c)
    BY ZenonT(40), <1>1, <2>2 DEF Allowed, InBounds, MayClose
  <2> QED
    BY ZenonT(40), <2>1, <2>3, Keep_Client
<1>4. CASE client_leaves(f)
  <2>1. PICK p \in {"fin", "reset", "timeout"} :
           /\ conn[f].peer = "open" \/ conn[f].peer = "fin"
           /\ Client(f, [conn[f] EXCEPT !.peer = p])
    BY Zenon, <1>4 DEF client_leaves
  <2> DEFINE c == [conn[f] EXCEPT !.peer = p]
  <2>2. p \in {"open", "fin", "reset", "timeout", "dead"} /\ p # "open" /\ p # "dead"
    BY Zenon
  <2>3. /\ c \in Conns /\ c.stage = conn[f].stage /\ c.peer = p
        /\ c.inbox = conn[f].inbox /\ c.parsed = conn[f].parsed
        /\ c.written = conn[f].written /\ c.length = conn[f].length
    BY ZenonT(40), <1>1, <2>2 DEF Conns
  <2>4. Client(f, c)
    BY Zenon, <2>1
  <2> HIDE DEF c
  <2>5. Allowed(conn[f], c)
    BY ZenonT(40), <1>1, <2>1, <2>2, <2>3 DEF Allowed, InBounds, MayClose
  <2> QED
    BY ZenonT(40), <2>4, <2>5, Keep_Client
<1> QED
  BY ZenonT(40), <1>2, <1>3, <1>4

----------------------------------------------------------------------------

LEMMA Stutter == IInv /\ UNCHANGED vars => IInv'
<1> SUFFICES ASSUME IInv, UNCHANGED vars PROVE IInv'
  OBVIOUS
<1>1. /\ UNCHANGED <<queue, conn, open, kernel, batch, calls, status>>
      /\ UNCHANGED <<queue, conn, open, reg, armed, batch, pc, cur, via, frames, status>>
  BY Zenon DEF vars, kernel, calls
<1>2. CASE status = "running"
  <2>1. \A f \in Socks : Persists(f) /\ InBounds(conn'[f])
    BY ZenonT(40), <1>1, <1>2, ServingParts DEF Persists, Failed
  <2> QED
    BY ZenonT(40), <1>1, <1>2, <2>1, Keep_Still, Parts DEF TypeOK
<1>3. CASE status # "running"
  BY ZenonT(40), <1>1, <1>3, Parts DEF IInv, TypeOK, DelSucceeds, AcceptFinds
<1> QED
  BY ZenonT(40), <1>2, <1>3

LEMMA NextKeeps == IInv /\ [Next]_vars => IInv'
<1> SUFFICES ASSUME IInv, Next PROVE IInv'
  BY Zenon, Stutter
<1>1. ASSUME NEW t \in Threads, ThreadStep(t) PROVE IInv'
  BY ZenonT(40), <1>1, Keep_accept, Keep_arm_waiter, Keep_close, Keep_recv, Keep_send,
     Keep_run_loop, Keep_handle_event DEF ThreadStep
<1>2. CASE ClientStep
  BY ZenonT(40), <1>2, Keep_connect, Keep_clients DEF ClientStep
<1> QED
  BY Zenon, <1>1, <1>2 DEF Next

----------------------------------------------------------------------------
(* The theorems.                                                           *)

\* A waiter belongs to the kernel or to one thread, which knows what it may do with it.
THEOREM Invariance == Spec => []IInv
BY InitHolds, NextKeeps, PTL DEF Spec

\* No step of a thread or of a client leaves the types.
THEOREM TypeCorrect == Spec => []TypeOK
<1>1. IInv => TypeOK
  BY ZenonT(40), Parts
<1> QED
  BY <1>1, Invariance, PTL

\* EPOLL_CTL_DEL of handle_event() never fails: every event it is given is of a waiter
\* that is still registered.
THEOREM DelsSucceed == Spec => []DelSucceeds
<1>1. IInv => DelSucceeds
  BY ZenonT(40), Parts
<1> QED
  BY <1>1, Invariance, PTL

\* accept4() of handle_accept() finds a connection, so that its wrong test of errno is
\* never put to use.
THEOREM AcceptsFind == Spec => []AcceptFinds
<1>1. IInv => AcceptFinds
  BY Zenon, Parts
<1> QED
  BY <1>1, Invariance, PTL

\* The owners of a socket, counted.
LEMMA NoOwner ==
    ASSUME NEW f, \A t \in Threads : ~Holds(t, f)
    PROVE  Events(f) = {} /\ Hands(f) = {} /\ Accepted(f) = {}
<1>1. Hands(f) = {}
  BY Zenon DEF Hands, Holds, InHand
<1>2. Events(f) = {}
  BY DEF Events, Holds, InBatch
<1>3. \A t \in Threads : {i \in DOMAIN frames[t] : frames[t][i] = f} = {}
  BY Zenon DEF Holds, Stacked
<1>4. Accepted(f) = {}
  BY <1>3 DEF Accepted
<1> QED
  BY ZenonT(40), <1>1, <1>2, <1>4

\* One thread has f in one of the three places, and the other places are empty.
LEMMA SoleOwner ==
    ASSUME NEW f \in Socks, NEW t \in Threads, Holds(t, f), HoldsOnce(t),
           \A u \in Threads : Holds(u, f) => u = t
    PROVE  Cardinality(Events(f)) + Cardinality(Hands(f)) + Cardinality(Accepted(f)) = 1
<1> USE EventServerAssumption
<1>1. f \in Waiters /\ f # Listener
  BY Zenon DEF Waiters
<1>2. /\ \A u \in Threads : InBatch(u, f) => u = t
      /\ \A u \in Threads : cur[u] = f => u = t
      /\ \A u \in Threads : Stacked(u, f) => u = t
  BY Zenon DEF Holds, InHand
<1>3. /\ InBatch(t, f) => cur[t] # f /\ ~Stacked(t, f)
      /\ cur[t] = f => ~Stacked(t, f)
      /\ InBatch(t, f) \/ cur[t] = f \/ Stacked(t, f)
  BY Zenon, <1>1 DEF HoldsOnce, Holds, InHand
<1>4. ~InBatch(t, f) => Cardinality(Events(f)) = 0
  <2>1. ASSUME ~InBatch(t, f) PROVE Events(f) = {}
    <3>1. \A u \in Threads : \A b \in BOOLEAN : <<f, b>> \notin batch[u]
      BY ZenonT(40), <1>2, <2>1 DEF InBatch
    <3> QED
      BY <3>1 DEF Events
  <2> QED
    BY ZenonT(40), <2>1, FS_EmptySet
<1>5. cur[t] # f => Cardinality(Hands(f)) = 0
  <2>1. cur[t] # f => Hands(f) = {}
    BY ZenonT(40), <1>2 DEF Hands
  <2> QED
    BY ZenonT(40), <2>1, FS_EmptySet
<1>6. ~Stacked(t, f) => Cardinality(Accepted(f)) = 0
  <2>1. ASSUME ~Stacked(t, f) PROVE Accepted(f) = {}
    <3>1. \A u \in Threads : {i \in DOMAIN frames[u] : frames[u][i] = f} = {}
      BY Zenon, <1>2, <2>1 DEF Stacked
    <3> QED
      BY <3>1 DEF Accepted
  <2> QED
    BY Zenon, <2>1, FS_EmptySet
<1>7. InBatch(t, f) => Cardinality(Events(f)) = 1
  <2> SUFFICES ASSUME InBatch(t, f) PROVE Cardinality(Events(f)) = 1
    BY Zenon
  <2>1. PICK err \in BOOLEAN : <<f, err>> \in batch[t]
    BY Zenon DEF InBatch
  <2>2. ~(<<f, TRUE>> \in batch[t] /\ <<f, FALSE>> \in batch[t])
    BY Zenon, <1>1 DEF HoldsOnce
  <2>3. \A b \in BOOLEAN : <<f, b>> \in batch[t] => b = err
    <3>1. CASE err = TRUE
      BY ZenonT(40), <2>1, <2>2, <3>1
    <3>2. CASE err = FALSE
      BY ZenonT(40), <2>1, <2>2, <3>2
    <3> QED
      BY ZenonT(40), <3>1, <3>2
  <2>4. \A u \in Threads : \A b \in BOOLEAN : <<f, b>> \in batch[u] => u = t /\ b = err
    BY ZenonT(40), <1>2, <2>3 DEF InBatch
  <2>5. Events(f) = {<<t, err>>}
    BY <2>1, <2>4 DEF Events
  <2> QED
    BY ZenonT(40), <2>5, FS_Singleton
<1>8. cur[t] = f => Cardinality(Hands(f)) = 1
  <2>1. cur[t] = f => Hands(f) = {t}
    BY Zenon, <1>2 DEF Hands
  <2> QED
    BY ZenonT(40), <2>1, FS_Singleton
<1>9. Stacked(t, f) => Cardinality(Accepted(f)) = 1
  <2> SUFFICES ASSUME Stacked(t, f) PROVE Cardinality(Accepted(f)) = 1
    BY Zenon
  <2>1. PICK i \in DOMAIN frames[t] : frames[t][i] = f
    BY Zenon DEF Stacked
  <2>2. {j \in DOMAIN frames[t] : frames[t][j] = f} = {i}
    BY Zenon, <2>1 DEF HoldsOnce
  <2>3. \A u \in Threads : u # t => {j \in DOMAIN frames[u] : frames[u][j] = f} = {}
    BY Zenon, <1>2 DEF Stacked
  <2>4. Accepted(f) = {<<t, i>>}
    BY <2>2, <2>3 DEF Accepted
  <2> QED
    BY ZenonT(40), <2>4, FS_Singleton
<1> QED
  BY <1>3, <1>4, <1>5, <1>6, <1>7, <1>8, <1>9

\* While the process runs a socket that is open has one owner: the kernel, which may
\* report it, an event not handled yet, a call in progress, or an on_accept() that
\* will turn to it; and a closed one has none.
THEOREM OneOwnerEach == Spec => []OneOwner
<1>1. ASSUME IInv, status = "running", NEW f \in Socks
      PROVE  Owners(f) = IF f \in open THEN 1 ELSE 0
  <2>1. f \in Waiters
    BY Zenon DEF Waiters
  <2>2. f \in armed => armed \cap {f} = {f}
    BY Zenon
  <2>3. f \notin armed => armed \cap {f} = {}
    BY Zenon
  <2>4. /\ f \in armed => Cardinality(armed \cap {f}) = 1
        /\ f \notin armed => Cardinality(armed \cap {f}) = 0
    BY ZenonT(40), <2>2, <2>3, FS_Singleton, FS_EmptySet
  <2>5. CASE \A t \in Threads : ~Holds(t, f)
    <3>1. /\ Cardinality(Events(f)) = 0 /\ Cardinality(Hands(f)) = 0
          /\ Cardinality(Accepted(f)) = 0
      BY ZenonT(40), <2>5, NoOwner, FS_EmptySet
    <3>2. f \in open <=> f \in armed
      BY ZenonT(40), <1>1, <2>5, ServingParts DEF Ownership
    <3> QED
      BY <2>4, <3>1, <3>2 DEF Owners
  <2>6. ASSUME NEW t \in Threads, Holds(t, f)
        PROVE  Owners(f) = IF f \in open THEN 1 ELSE 0
    <3>1. f \in open /\ f \notin armed /\ HoldsOnce(t)
      BY ZenonT(40), <1>1, <2>6, ServingParts DEF Ownership
    <3>2. \A u \in Threads : Holds(u, f) => u = t
      BY ZenonT(40), <1>1, <2>1, <2>6, ServingParts DEF Ownership
    <3>3. Cardinality(Events(f)) + Cardinality(Hands(f)) + Cardinality(Accepted(f)) = 1
      BY ZenonT(40), <2>6, <3>1, <3>2, SoleOwner
    <3> QED
      BY <2>4, <3>1, <3>3 DEF Owners
  <2> QED
    BY Zenon, <2>5, <2>6
<1>2. IInv => OneOwner
  BY Zenon, <1>1 DEF OneOwner
<1> QED
  BY <1>2, Invariance, PTL

\* A call that goes on does not end the process.
LEMMA GoesOn ==
    ASSUME status = "running", status' = "exited"
    PROVE  /\ \A t, l, w, v : ~Goto(t, l, w, v) /\ ~Call(t, l, w, v)
           /\ \A t : ~Return(t)
           /\ \A t, f : ~recv(t, f)
           /\ \A t, f, c : ~on_write(t, f, c)
           /\ \A t, f, n : ~SendBlocks(t, f, n)
<1>1. \A t, l, w, v : ~Goto(t, l, w, v) /\ ~Call(t, l, w, v)
  BY Zenon DEF Goto, Call
<1> QED
  BY ZenonT(40), <1>1 DEF Return, recv, on_read, keep_reading, on_write, SendBlocks

\* The steps that may end the process.
LEMMA ExitOnly ==
    ASSUME Next, status' = "exited"
    PROVE  /\ status = "running"
           /\ \E t \in Threads :
                 \/ pc[t] = "accept"
                 \/ async_recv(t) \/ handle_read(t) \/ async_send(t) \/ handle_write(t)
                 \/ \E w \in Waiters, err \in BOOLEAN : handle_event(t, w, err)
<1>1. ~ClientStep
  BY Zenon DEF ClientStep, connect, client_sends, client_reads, client_leaves, Client
<1>2. \A t \in Threads : ~async_run_loop(t)
  BY Zenon DEF async_run_loop, At
<1>3. \A t \in Threads : ThreadStep(t) => status = "running"
  BY ZenonT(90) DEF ThreadStep, async_accept, handle_accept, arm_waiter, close, async_recv,
     handle_read, async_send, handle_write, async_run_loop, handle_event, At
<1>4. PICK t \in Threads : ThreadStep(t)
  BY Zenon, <1>1 DEF Next
<1>5. ~arm_waiter(t) /\ ~close(t)
  BY Zenon, <1>3, <1>4, GoesOn DEF arm_waiter, close
<1>6. async_accept(t) \/ handle_accept(t) => pc[t] = "accept"
  BY Zenon DEF async_accept, handle_accept, At
<1> QED
  BY Zenon, <1>2, <1>3, <1>4, <1>5, <1>6 DEF ThreadStep

\* A peer that resets its connection ends the process only at the three places that
\* do not expect it.
THEOREM ResetsAreSurvived == Spec => ResetsSurvived
<1> DEFINE Cause ==
         \/ \E t \in Threads : pc[t] = "accept"
         \/ \E f \in open : conn[f].peer = "timeout"
         \/ \E f \in open : conn[f].peer = "reset" /\ conn[f].stage # "read"
         \/ \E t \in Threads :
               pc[t] = "recv" /\ via[t] = "accept" /\ conn[cur[t]].peer = "reset"
<1>1. ASSUME IInv, Next, status' = "exited"
      PROVE  Cause
  <2>0. status = "running"
    BY ZenonT(40), <1>1, ExitOnly
  <2>1. PICK t \in Threads :
           \/ pc[t] = "accept"
           \/ async_recv(t) \/ handle_read(t) \/ async_send(t) \/ handle_write(t)
           \/ \E w \in Waiters, err \in BOOLEAN : handle_event(t, w, err)
    BY ZenonT(40), <1>1, ExitOnly
  <2>2. /\ \A u, l, w, v : ~Call(u, l, w, v)
        /\ \A u, f : ~recv(u, f)
        /\ \A u, f, c : ~on_write(u, f, c)
        /\ \A u, f, n : ~SendBlocks(u, f, n)
    BY ZenonT(40), <1>1, <2>0, GoesOn
  <2>3. ThreadOK(t)
    BY ZenonT(40), <1>1, <2>0, ServingParts
  <2>4. \A f \in Socks : Holds(t, f) => f \in open
    BY ZenonT(40), <1>1, <2>0, ServingParts DEF Ownership
  <2>5. pc[t] \in {"recv", "send"} =>
           cur[t] \in Socks /\ cur[t] \in open /\ Holds(t, cur[t])
    BY ZenonT(40), <2>3, <2>4 DEF ThreadOK, Holds, InHand
  <2>6. \A v, e : /\ request_done(t, cur[t], e, v) => e = "timeout"
                  /\ \A w : on_read_error(t, w, e, v) => e # "reset"
    BY ZenonT(40), <2>2 DEF request_done, on_read_error
  <2>7. CASE async_recv(t)
    <3>1. pc[t] = "recv" /\ Failed(cur[t])
      BY ZenonT(40), <2>2, <2>7 DEF async_recv, At, RecvFails
    <3>2. via[t] = "accept" \/ conn[cur[t]].peer = "timeout"
      BY ZenonT(40), <2>2, <2>6, <2>7 DEF async_recv
    <3> QED
      BY ZenonT(40), <2>5, <3>1, <3>2 DEF Failed
  <2>8. CASE handle_read(t)
    <3>1. pc[t] = "recv" /\ Failed(cur[t]) /\ conn[cur[t]].peer # "reset"
      BY ZenonT(40), <2>2, <2>6, <2>8 DEF handle_read, At, RecvFails
    <3> QED
      BY ZenonT(40), <2>5, <3>1 DEF Failed
  <2>9. CASE async_send(t)
    <3>1. pc[t] = "send" /\ conn[cur[t]].peer = "timeout"
      BY ZenonT(40), <2>2, <2>6, <2>9 DEF async_send, At
    <3> QED
      BY ZenonT(40), <2>5, <3>1
  <2>10. CASE handle_write(t)
    <3>1. pc[t] = "send" /\ (Failed(cur[t]) \/ conn[cur[t]].peer = "dead")
      BY ZenonT(40), <2>2, <2>10 DEF handle_write, At, SendFails
    <3>2. conn[cur[t]].peer # "dead"
      BY ZenonT(40), <1>1, <2>0, <2>5, <3>1, NotDead
    <3>3. conn[cur[t]].stage # "read"
      BY ZenonT(40), <2>3, <3>1 DEF ThreadOK
    <3> QED
      BY ZenonT(40), <2>5, <3>1, <3>2, <3>3 DEF Failed
  <2>11. ASSUME NEW w \in Waiters, NEW err \in BOOLEAN, handle_event(t, w, err)
         PROVE  Cause
    <3>1. /\ w # Listener /\ err /\ <<w, err>> \in batch[t]
          /\ IF conn[w].stage = "read"
             THEN on_read_error(t, w, conn[w].peer, "call")
             ELSE on_write_error(t, w, conn[w].peer, "call")
      BY ZenonT(40), <2>2, <2>11 DEF handle_event
    <3>2. w \in Socks /\ <<w, TRUE>> \in batch[t]
      BY ZenonT(40), <3>1 DEF Waiters
    <3>3. Failed(w) /\ w \in open
      BY ZenonT(40), <2>3, <2>4, <3>2 DEF ThreadOK, Holds, InBatch
    <3>4. conn[w].stage = "read" => conn[w].peer # "reset"
      BY ZenonT(40), <2>6, <3>1
    <3> QED
      BY ZenonT(40), <3>3, <3>4 DEF Failed
  <2> QED
    BY Zenon, <2>1, <2>7, <2>8, <2>9, <2>10, <2>11
<1>2. IInv /\ [Next]_vars => [status' = "exited" => Cause]_vars
  BY Zenon, <1>1
<1> QED
  BY <1>2, Invariance, PTL DEF Spec, ResetsSurvived

\* The server closes a connection whose client is still there only after the response,
\* which the client does not want another one after.
THEOREM AnswersComeFirst == Spec => AnsweredBeforeClose
<1> DEFINE Answered ==
       \A f \in open \ open' :
          conn[f].peer = "open" /\ conn[f].stage # "read" =>
             /\ conn[f].stage = "body" /\ ~conn[f].keep_alive
             /\ conn[f].length > 0 => conn[f].written > 0
<1>1. ASSUME IInv, Next PROVE Answered
  <2> SUFFICES ASSUME NEW f \in open, f \notin open' PROVE f \in open /\ MayClose(conn[f])
    BY Zenon DEF MayClose
  <2>1. ~ClientStep
    BY Zenon DEF ClientStep, connect, client_sends, client_reads, client_leaves, Client
  <2>2. \A t \in Threads : /\ ~async_accept(t) /\ ~handle_accept(t) /\ ~arm_waiter(t)
                           /\ ~async_recv(t) /\ ~handle_read(t) /\ ~async_send(t)
                           /\ ~handle_write(t) /\ ~async_run_loop(t)
                           /\ \A w, err : ~handle_event(t, w, err)
    BY ZenonT(90) DEF async_accept, handle_accept, on_accept, arm_waiter, async_recv,
       handle_read, async_send, handle_write, async_run_loop, handle_event
  <2>3. PICK t \in Threads : close(t)
    BY Zenon, <1>1, <2>1, <2>2 DEF Next, ThreadStep
  <2>4. status = "running" /\ pc[t] = "close" /\ f = cur[t]
    BY Zenon, <2>3 DEF close, At
  <2> QED
    BY ZenonT(40), <1>1, <2>4, ServingParts DEF ThreadOK
<1>2. IInv /\ [Next]_vars => [Answered]_vars
  BY Zenon, <1>1
<1> QED
  BY <1>2, Invariance, PTL DEF Spec, AnsweredBeforeClose
=============================================================================
