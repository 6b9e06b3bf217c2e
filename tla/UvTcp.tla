------------------------------- MODULE UvTcp -------------------------------
(***************************************************************************)
(* The sockets of uv_compat.rs: connect, listen, accept, read, write and   *)
(* shutdown calls by C code, and run_io, which polls every handle of       *)
(* `tcp_handles` in passes.  C code runs before and after run_io in a tick *)
(* and in every callback (`in_cb`), where it may close the very handle     *)
(* being polled.  A write is a call number; its data are `size` units, and *)
(* the kernel takes as many units as the peer has made room for.           *)
(*                                                                         *)
(* What Tokio keeps of a socket is external: `readiness`, what its reactor *)
(* has seen and no call has found exhausted since, and `interest`, what    *)
(* the loop's waker is stored for.  poll_*_ready stores the waker only     *)
(* where the readiness is missing; try_* asks the kernel only where it is  *)
(* there, and takes it away on WouldBlock, storing nothing.                *)
(***************************************************************************)
EXTENDS Naturals, Sequences, FiniteSets, SequencesExt

CONSTANTS
  Tcps,         \* uv_tcp_t handles
  MaxWrites,    \* bound: write calls
  MaxTcpCalls,  \* bound: calls
  MaxPeer,      \* bound: what the peers do
  MaxPasses,    \* 16 in run_io
  MaxSpins,     \* 8 in poll_event_loop_inner: calls of run_io in a tick
  Capacity      \* units the kernel buffers

ASSUME TcpAssumption == 
  {MaxWrites, MaxTcpCalls, MaxPeer, MaxPasses, MaxSpins, Capacity} \subseteq Nat

Writes == 1 .. MaxWrites
WriteSizes == 0 .. 2
NoTcp == "no handle"

VARIABLES
  tcp,          \* the handles, see TcpInit
  tcp_handles,  \* handles run_io looks at
  kernel,       \* of each handle: what the operating system knows
  size, status, \* of each write
  wire,         \* of each handle: the writes whose units the kernel took
  tcp_calls, peer_acts,
  io,           \* the tick and run_io: [at, i, pass, spin, any_work, h], and in_cb
  readiness, interest,  \* of each handle: subsets of Directions
  uv_woken      \* the task of the loop is to be polled

Directions == {"read", "write"}
polled == <<readiness, interest, uv_woken>>
tcpVars == <<tcp, tcp_handles, kernel, size, status, wire, tcp_calls, peer_acts, io, polled>>

FreshTcp == [active |-> FALSE, closed |-> FALSE, stream |-> FALSE, reading |-> FALSE,
             connecting |-> FALSE, listening |-> FALSE, backlog |-> 0, queue |-> <<>>]

(* "parked" between two ticks; "before" run_io in a tick, and "after" it.  *)
Outside(x, s) ==
  [at |-> x, i |-> 0, pass |-> 0, spin |-> s, any_work |-> FALSE, in_cb |-> FALSE, h |-> NoTcp]
StartPass(s, p) ==
  [at |-> "pick", i |-> 0, pass |-> p, spin |-> s, any_work |-> FALSE, in_cb |-> FALSE,
   h |-> NoTcp]

(* uv_tcp_init.  A task is polled when it is new. *)
TcpInit ==
  /\ tcp = [h \in Tcps |-> FreshTcp] /\ tcp_handles = <<>>
  /\ kernel = [h \in Tcps |-> [room |-> Capacity, input |-> 0, eof |-> FALSE, broken |-> FALSE,
                               connected |-> "no", arrived |-> 0]]
  /\ size = [w \in Writes |-> 0] /\ status = [w \in Writes |-> "unused"]
  /\ wire = [h \in Tcps |-> <<>>] /\ tcp_calls = 0 /\ peer_acts = 0
  /\ io = Outside("parked", 0) /\ uv_woken = TRUE
  /\ readiness = [h \in Tcps |-> {}] /\ interest = [h \in Tcps |-> {}]

CCode(h) ==
  /\ io.at \in {"before", "after"} \/ io.in_cb
  /\ ~tcp[h].closed /\ tcp_calls < MaxTcpCalls /\ tcp_calls' = tcp_calls + 1
Listed(h) == IF h \in ToSet(tcp_handles) THEN tcp_handles ELSE Append(tcp_handles, h)

(***************************************************************************)
(* The calls.                                                              *)
(***************************************************************************)
UvTcpConnect(h) ==
  /\ CCode(h) /\ ~tcp[h].stream /\ ~tcp[h].connecting /\ ~tcp[h].listening
  /\ tcp' = [tcp EXCEPT ![h] = [[@ EXCEPT !.active = TRUE] EXCEPT !.connecting = TRUE]]
  /\ tcp_handles' = Listed(h)
  /\ UNCHANGED <<kernel, size, status, wire, peer_acts, io, polled>>

UvTcpOpen(h) ==
  /\ CCode(h) /\ ~tcp[h].stream /\ ~tcp[h].connecting /\ ~tcp[h].listening
  /\ tcp' = [tcp EXCEPT ![h] = [@ EXCEPT !.stream = TRUE]]
  /\ UNCHANGED <<tcp_handles, kernel, size, status, wire, peer_acts, io, polled>>

UvListen(h) ==
  /\ CCode(h) /\ ~tcp[h].stream /\ ~tcp[h].connecting /\ ~tcp[h].listening
  /\ tcp' = [tcp EXCEPT ![h] = [[@ EXCEPT !.active = TRUE] EXCEPT !.listening = TRUE]]
  /\ tcp_handles' = Listed(h)
  /\ UNCHANGED <<kernel, size, status, wire, peer_acts, io, polled>>

(* UV_EAGAIN without a connection in the backlog. *)
UvAccept(server, client) ==
  /\ CCode(server) /\ ~tcp[client].closed /\ tcp[server].backlog > 0
  /\ tcp[client] = FreshTcp
  /\ tcp' = [[tcp EXCEPT ![server] = [@ EXCEPT !.backlog = tcp[server].backlog - 1]]
               EXCEPT ![client] = [@ EXCEPT !.stream = TRUE]]
  /\ UNCHANGED <<tcp_handles, kernel, size, status, wire, peer_acts, io, polled>>

UvReadStart(h) ==
  /\ CCode(h)
  /\ tcp' = [tcp EXCEPT ![h] = [[@ EXCEPT !.reading = TRUE] EXCEPT !.active = TRUE]]
  /\ tcp_handles' = Listed(h)
  /\ UNCHANGED <<kernel, size, status, wire, peer_acts, io, polled>>

StaysActive(t) == t.active /\ (t.listening \/ t.connecting \/ t.queue # <<>>)

UvReadStop(h) ==
  /\ CCode(h)
  /\ tcp' = [tcp EXCEPT ![h] = [[@ EXCEPT !.active = StaysActive(tcp[h])] EXCEPT !.reading = FALSE]]
  /\ UNCHANGED <<tcp_handles, kernel, size, status, wire, peer_acts, io, polled>>

(* Faulty variants of definitions below. *)
ForgetsQueue(h) == TRUE
PollsReaders(t) == t.active /\ t.reading

(* What try_write takes of n units: as much as there is room for. *)
Writable(h) == "write" \in readiness[h]
Fails(h) == Writable(h) /\ kernel[h].broken
Takes(h, n) ==
  IF ~Writable(h) THEN 0 ELSE IF n <= kernel[h].room THEN n ELSE kernel[h].room
Units(w, n) == [k \in 1 .. n |-> w]
Put(h, w, n) ==
  /\ wire' = [wire EXCEPT ![h] = @ \o Units(w, Takes(h, n))]
  /\ kernel' = [kernel EXCEPT ![h] = [@ EXCEPT !.room = kernel[h].room - Takes(h, n)]]

Unready(h, d) == readiness' = [readiness EXCEPT ![h] = @ \ {d}]
(* try_write until all of n is taken or it would block. *)
Blocks(h, n) == IF Takes(h, n) < n THEN Unready(h, "write") ELSE UNCHANGED readiness

NextWrite == Cardinality({w \in Writes : status[w] # "unused"}) + 1
MayWriteNow(h) == tcp[h].queue = <<>>
Left(w, n, k) == [w |-> w, left |-> n - k]

(* uv_write: behind what is queued; else at once, the rest is queued.      *)
(* Several buffers are tried once: a part that is taken is no WouldBlock.  *)
UvWrite(h, n) ==
  LET w == NextWrite
      Queue(item) == tcp' = [tcp EXCEPT ![h] = [@ EXCEPT !.queue = Append(tcp[h].queue, item)]]
      Says(s) == status' = [status EXCEPT ![w] = s]
  IN /\ CCode(h) /\ w \in Writes
     /\ size' = [size EXCEPT ![w] = n]
     /\ \/ /\ ~tcp[h].stream /\ Says("failed")
           /\ UNCHANGED <<tcp, kernel, wire, readiness>>
        \/ /\ tcp[h].stream /\ ~MayWriteNow(h)
           /\ Queue(Left(w, n, 0)) /\ Says("queued") /\ UNCHANGED <<kernel, wire, readiness>>
        \/ /\ tcp[h].stream /\ MayWriteNow(h) /\ n > 0 /\ Fails(h)
           /\ Says("failed") /\ UNCHANGED <<tcp, kernel, wire, readiness>>
        \/ /\ tcp[h].stream /\ MayWriteNow(h) /\ (n = 0 \/ ~Fails(h))
           /\ Put(h, w, n)
           /\ Blocks(h, n) \/ (Takes(h, n) > 0 /\ UNCHANGED readiness)
           /\ IF Takes(h, n) = n THEN Says("ok") /\ UNCHANGED tcp
              ELSE Queue(Left(w, n, Takes(h, n))) /\ Says("queued")
     /\ UNCHANGED <<tcp_handles, peer_acts, io, interest, uv_woken>>

(* uv_try_write of one unit: never overtakes the queue. *)
UvTryWrite(h) ==
  LET w == NextWrite IN
  /\ CCode(h) /\ w \in Writes /\ tcp[h].stream /\ MayWriteNow(h) /\ ~Fails(h)
  /\ IF Takes(h, 1) = 1
     THEN /\ size' = [size EXCEPT ![w] = 1] /\ status' = [status EXCEPT ![w] = "ok"]
          /\ Put(h, w, 1)
     ELSE UNCHANGED <<size, status, kernel, wire>>
  /\ Blocks(h, 1)
  /\ UNCHANGED <<tcp, tcp_handles, peer_acts, io, interest, uv_woken>>

(* SHUT_WR: what is still queued will fail. *)
UvShutdown(h) ==
  /\ CCode(h) /\ tcp[h].stream /\ ~kernel[h].broken
  /\ kernel' = [kernel EXCEPT ![h] = [@ EXCEPT !.broken = TRUE]]
  /\ UNCHANGED <<tcp, tcp_handles, size, status, wire, peer_acts, io, polled>>

(* uv_close and stop_tcp: what is queued is dropped without its callback.  *)
UvTcpClose(h) ==
  /\ CCode(h)
  /\ tcp' = [tcp EXCEPT ![h] = [FreshTcp EXCEPT !.closed = TRUE]]
  /\ tcp_handles' = RemoveFirst(tcp_handles, h)
  /\ LET queued == {tcp[h].queue[k].w : k \in DOMAIN tcp[h].queue} IN
     status' = [w \in Writes |-> IF w \in queued THEN "dropped" ELSE status[w]]
  /\ readiness' = [readiness EXCEPT ![h] = {}] /\ interest' = [interest EXCEPT ![h] = {}]
  /\ UNCHANGED <<kernel, size, wire, peer_acts, io, uv_woken>>

TcpCalls ==
  \E h \in Tcps :
    \/ UvTcpConnect(h) \/ UvTcpOpen(h) \/ UvListen(h) \/ UvReadStart(h) \/ UvReadStop(h)
    \/ \E n \in WriteSizes : UvWrite(h, n)
    \/ UvTryWrite(h) \/ UvShutdown(h) \/ UvTcpClose(h)
    \/ \E c \in Tcps \ {h} : UvAccept(h, c)

(***************************************************************************)
(* A tick, and run_io in it.  A step of run_io names the handle it works   *)
(* on by `io.h`: a pointer kept across the callbacks.                      *)
(***************************************************************************)
At(x) == io.at = x /\ ~io.in_cb
Goto(x) == [io EXCEPT !.at = x]
Callback(x) == [[io EXCEPT !.at = x] EXCEPT !.in_cb = TRUE]
h0 == io.h

(* poll_*_ready: the waker is stored where there is something to wait for. *)
Registers(h, d) ==
  interest' = IF d \in readiness[h] THEN interest ELSE [interest EXCEPT ![h] = @ \cup {d}]

StartTick ==
  /\ io.at = "parked" /\ uv_woken /\ uv_woken' = FALSE
  /\ io' = Outside("before", 0)
  /\ UNCHANGED <<tcp, tcp_handles, kernel, size, status, wire, tcp_calls, peer_acts,
                 readiness, interest>>

RunIo ==
  /\ io.at = "before"
  /\ io' = StartPass(io.spin + 1, 1)
  /\ UNCHANGED <<tcp, tcp_handles, kernel, size, status, wire, tcp_calls, peer_acts, polled>>

Passes == io.any_work /\ io.pass < MaxPasses
DidAnyWork == io.any_work \/ io.pass > 1
Polls(t) == t.active

(* The next handle, the next pass, or the end of run_io: if it did any     *)
(* work the tick calls it again, and wakes the loop at its own end.        *)
Pick ==
  /\ At("pick")
  /\ LET ends == io.i >= Len(tcp_handles) IN
     /\ io' = IF ends
              THEN IF Passes THEN StartPass(io.spin, io.pass + 1)
                   ELSE IF DidAnyWork /\ io.spin < MaxSpins THEN Outside("before", io.spin)
                   ELSE Outside("after", 0)
              ELSE LET h == tcp_handles[io.i + 1] IN
                   [at |-> IF Polls(tcp[h]) THEN "connect" ELSE "pick", i |-> io.i + 1,
                    pass |-> io.pass, spin |-> io.spin, any_work |-> io.any_work,
                    in_cb |-> FALSE, h |-> h]
     /\ uv_woken' = (uv_woken \/ (ends /\ ~Passes /\ DidAnyWork))
  /\ UNCHANGED <<tcp, tcp_handles, kernel, size, status, wire, tcp_calls, peer_acts,
                 readiness, interest>>

EndTick ==
  /\ io.at = "after"
  /\ io' = Outside("parked", 0)
  /\ UNCHANGED <<tcp, tcp_handles, kernel, size, status, wire, tcp_calls, peer_acts, polled>>

(* A future that fails leaves no socket. *)
PollConnect ==
  /\ At("connect")
  /\ LET connected == kernel[h0].connected = "yes" IN
     \/ /\ ~tcp[h0].connecting
        /\ io' = Goto("listen") /\ UNCHANGED <<tcp, kernel, readiness, interest>>
     \/ /\ tcp[h0].connecting /\ ~Writable(h0)
        /\ Registers(h0, "write")
        /\ io' = Goto("listen") /\ UNCHANGED <<tcp, kernel, readiness>>
     \/ /\ tcp[h0].connecting /\ Writable(h0)
        /\ tcp' = [tcp EXCEPT ![h0] = [[@ EXCEPT !.connecting = FALSE]
                                       EXCEPT !.stream = connected]]
        /\ kernel' = [kernel EXCEPT ![h0] = [@ EXCEPT !.connected = "no"]]
        /\ io' = Callback("listen")
        /\ IF connected THEN UNCHANGED readiness ELSE Unready(h0, "write")
        /\ UNCHANGED interest
  /\ UNCHANGED <<tcp_handles, size, status, wire, tcp_calls, peer_acts, uv_woken>>

(* poll_accept until it is Pending, with its waker stored. *)
PollAccept ==
  /\ At("listen")
  /\ LET k == kernel[h0]
         taken == IF "read" \in readiness[h0] THEN k.arrived ELSE 0
     IN IF tcp[h0].listening
        THEN /\ tcp' = [tcp EXCEPT ![h0] = [@ EXCEPT !.backlog = tcp[h0].backlog + taken]]
             /\ kernel' = [kernel EXCEPT ![h0] = [@ EXCEPT !.arrived = k.arrived - taken]]
             /\ LET worked == [io EXCEPT !.any_work = io.any_work \/ taken > 0]
                IN io' = IF tcp'[h0].backlog > 0
                         THEN [[worked EXCEPT !.at = "notified"] EXCEPT !.in_cb = TRUE]
                         ELSE [worked EXCEPT !.at = "read"]
             /\ Unready(h0, "read")
             /\ interest' = [interest EXCEPT ![h0] = @ \cup {"read"}]
        ELSE io' = Goto("read") /\ UNCHANGED <<tcp, kernel, readiness, interest>>
  /\ UNCHANGED <<tcp_handles, size, status, wire, tcp_calls, peer_acts, uv_woken>>

(* "If uv_accept wasn't called in the callback, stop": the loop goes round *)
(* only on an empty backlog, and so ends there.                            *)
Notified ==
  /\ At("notified") /\ io' = Goto("read")
  /\ UNCHANGED <<tcp, tcp_handles, kernel, size, status, wire, tcp_calls, peer_acts, polled>>

Reads(t) == t.reading /\ t.stream

PollReadReady ==
  /\ At("read")
  /\ IF Reads(tcp[h0]) THEN Registers(h0, "read") /\ io' = Goto("reading")
     ELSE io' = Goto("write") /\ UNCHANGED interest
  /\ UNCHANGED <<tcp, tcp_handles, kernel, size, status, wire, tcp_calls, peer_acts,
                 readiness, uv_woken>>

(* An end and an error are one case.  The condition is checked anew after  *)
(* each read_cb; the last case: it fails, alloc_cb offers no buffer, or    *)
(* nothing is known to be there.                                           *)
TryRead ==
  /\ At("reading")
  /\ LET k == kernel[h0]
         tries == Reads(tcp[h0]) /\ "read" \in readiness[h0]
     IN \/ /\ tries /\ k.input > 0
           /\ kernel' = [kernel EXCEPT ![h0] = [@ EXCEPT !.input = 0]]
           /\ io' = [Callback("reading") EXCEPT !.any_work = TRUE] /\ UNCHANGED readiness
        \/ /\ tries /\ k.input = 0 /\ k.eof
           /\ io' = Callback("eof") /\ UNCHANGED <<kernel, readiness>>
        \/ /\ tries /\ k.input = 0 /\ ~k.eof
           /\ Unready(h0, "read") /\ io' = Goto("write") /\ UNCHANGED kernel
        \/ io' = Goto("write") /\ UNCHANGED <<kernel, readiness>>
  /\ UNCHANGED <<tcp, tcp_handles, size, status, wire, tcp_calls, peer_acts,
                 interest, uv_woken>>

(* The handle stays active. *)
AfterEof ==
  /\ At("eof") /\ io' = Goto("write")
  /\ tcp' = [tcp EXCEPT ![h0] = [@ EXCEPT !.reading = FALSE]]
  /\ UNCHANGED <<tcp_handles, kernel, size, status, wire, tcp_calls, peer_acts, polled>>

PollWriteReady ==
  /\ At("write")
  /\ IF tcp[h0].queue # <<>> /\ tcp[h0].stream
     THEN Registers(h0, "write") /\ io' = Goto("writing")
     ELSE io' = Goto("pick") /\ UNCHANGED interest
  /\ UNCHANGED <<tcp, tcp_handles, kernel, size, status, wire, tcp_calls, peer_acts,
                 readiness, uv_woken>>

(* The write at the front of the queue, unit by unit. *)
DrainWrites ==
  /\ At("writing")
  /\ LET q == tcp[h0].queue IN
     \/ /\ q = <<>>
        /\ io' = Goto("pick") /\ UNCHANGED <<tcp, kernel, status, wire, readiness>>
     \/ /\ q # <<>>
        /\ LET w == Head(q).w
               n == Head(q).left
           IN \/ /\ n > 0 /\ Fails(h0)
                 /\ tcp' = [tcp EXCEPT ![h0] = [@ EXCEPT !.queue = Tail(q)]]
                 /\ status' = [status EXCEPT ![w] = "failed"]
                 /\ io' = Callback("writing") /\ UNCHANGED <<kernel, wire, readiness>>
              \/ /\ n = 0 \/ ~Fails(h0)
                 /\ Put(h0, w, n) /\ Blocks(h0, n)
                 /\ IF Takes(h0, n) = n
                    THEN /\ tcp' = [tcp EXCEPT ![h0] = [@ EXCEPT !.queue = Tail(q)]]
                         /\ status' = [status EXCEPT ![w] = "ok"]
                         /\ io' = Callback("writing")
                    ELSE /\ tcp' = [tcp EXCEPT ![h0] =
                              [@ EXCEPT !.queue = <<Left(w, n, Takes(h0, n))>> \o Tail(q)]]
                         /\ io' = Goto("pick") /\ UNCHANGED status
  /\ UNCHANGED <<tcp_handles, size, tcp_calls, peer_acts, interest, uv_woken>>

TcpCallbackEnds ==
  /\ io.in_cb /\ io' = [io EXCEPT !.in_cb = FALSE]
  /\ UNCHANGED <<tcp, tcp_handles, kernel, size, status, wire, tcp_calls, peer_acts, polled>>

IoStep ==
  \/ StartTick \/ RunIo \/ Pick \/ PollConnect \/ PollAccept \/ Notified \/ PollReadReady
  \/ TryRead \/ AfterEof \/ PollWriteReady \/ DrainWrites \/ TcpCallbackEnds \/ EndTick

(***************************************************************************)
(* The operating system, its reactor and the peers, and what else wakes    *)
(* the loop.                                                               *)
(***************************************************************************)
(* What the kernel would report of the socket of h. *)
Level(h, d) ==
  LET t == tcp[h]
      k == kernel[h]
  IN CASE d = "write" -> \/ t.stream /\ (k.room > 0 \/ k.broken)
                         \/ t.connecting /\ k.connected # "no"
       [] d = "read" -> \/ t.stream /\ (k.input > 0 \/ k.eof)
                        \/ t.listening /\ k.arrived > 0

Reactor(h, d) ==
  /\ d \notin readiness[h] /\ Level(h, d)
  /\ readiness' = [readiness EXCEPT ![h] = @ \cup {d}]
  /\ interest' = [interest EXCEPT ![h] = @ \ {d}]
  /\ uv_woken' = (uv_woken \/ d \in interest[h])
  /\ UNCHANGED <<tcp, tcp_handles, kernel, size, status, wire, tcp_calls, peer_acts, io>>

OtherWake ==
  /\ io.at = "parked" /\ ~uv_woken /\ uv_woken' = TRUE
  /\ UNCHANGED <<tcp, tcp_handles, kernel, size, status, wire, tcp_calls, peer_acts, io,
                 readiness, interest>>

PeerReads(h) ==
  /\ kernel[h].room < Capacity /\ ~kernel[h].broken
  /\ kernel' = [kernel EXCEPT ![h] = [@ EXCEPT !.room = Capacity]]
  /\ UNCHANGED <<tcp, tcp_handles, size, status, wire, tcp_calls, peer_acts, io, polled>>

(* The first poll of its future begins a connection. *)
PeerActs(h) ==
  /\ peer_acts < MaxPeer /\ peer_acts' = peer_acts + 1
  /\ \/ tcp[h].stream /\ kernel' = [kernel EXCEPT ![h] = [@ EXCEPT !.input = 1]]
     \/ tcp[h].stream /\ kernel' = [kernel EXCEPT ![h] = [@ EXCEPT !.eof = TRUE]]
     \/ tcp[h].stream /\ kernel' = [kernel EXCEPT ![h] = [@ EXCEPT !.broken = TRUE]]
     \/ /\ tcp[h].connecting /\ "write" \in interest[h]
        /\ \E c \in {"yes", "refused"} :
             kernel' = [kernel EXCEPT ![h] = [@ EXCEPT !.connected = c]]
     \/ /\ tcp[h].listening
        /\ kernel' = [kernel EXCEPT ![h] = [@ EXCEPT !.arrived = kernel[h].arrived + 1]]
  /\ UNCHANGED <<tcp, tcp_handles, size, status, wire, tcp_calls, io, polled>>

Environment ==
  \/ OtherWake
  \/ \E h \in Tcps : PeerReads(h) \/ PeerActs(h) \/ \E d \in Directions : Reactor(h, d)

TcpNext == TcpCalls \/ IoStep \/ Environment

TcpSpec == TcpInit /\ [][TcpNext]_tcpVars

(* A tick goes on and a woken loop is polled; the reactor reports what the *)
(* kernel has; a peer reads.  Nothing else need ever wake the loop.        *)
TcpFairness ==
  /\ WF_tcpVars(IoStep)
  /\ \A h \in Tcps : /\ WF_tcpVars(PeerReads(h))
                     /\ \A d \in Directions : WF_tcpVars(Reactor(h, d))

TcpFairSpec == TcpSpec /\ TcpFairness

(***************************************************************************)
(* Properties.                                                             *)
(***************************************************************************)
(* The handles and the state of run_io hold what they should. *)
TcpTypeOK ==
  /\ IsInjective(tcp_handles) /\ ToSet(tcp_handles) \subseteq Tcps
  /\ \A h \in Tcps : tcp[h].backlog \in 0 .. MaxPeer /\ kernel[h].room \in 0 .. Capacity
  /\ io.at \in {"parked", "before", "after", "pick", "connect", "listen", "notified",
                "read", "reading", "eof", "write", "writing"}

(* The peer receives the data of the writes in the order of the calls,     *)
(* each whole before the next, however the kernel splits them and whether  *)
(* they went out at once, from the queue or by uv_try_write; a write is    *)
(* reported successful only when the kernel has all of it.                 *)
WritesInOrder ==
  /\ TcpTypeOK
  /\ \A h \in Tcps : \A i, j \in DOMAIN wire[h] : i < j => wire[h][i] <= wire[h][j]
  /\ \A w \in Writes : status[w] = "ok" =>
       \E h \in Tcps : Cardinality({i \in DOMAIN wire[h] : wire[h][i] = w}) = size[w]
  /\ \A h \in Tcps : \A i \in 2 .. Len(wire[h]) :
       wire[h][i] # wire[h][i - 1] => status[wire[h][i - 1]] # "queued"

(* What run_io has stored its waker for is served: a connection is made or *)
(* refused, those that arrive are accepted, and of the write at the front  *)
(* of an active handle's queue something more goes out.  (Where no waker   *)
(* is stored it may not be: see BlockedWritesRetried.)                     *)
RegisteredIsServed ==
  \A h \in Tcps :
    LET Waits(d) == d \in interest[h] /\ tcp[h].active
        Heads(w, n) == tcp[h].queue # <<>> /\ Head(tcp[h].queue) = [w |-> w, left |-> n]
    IN /\ (Waits("write") /\ kernel[h].connected # "no") ~> ~tcp[h].connecting
       /\ (Waits("read") /\ kernel[h].arrived > 0) ~> (kernel[h].arrived = 0 \/ tcp[h].closed)
       /\ \A w \in Writes : \A n \in WriteSizes :
            (Waits("write") /\ Heads(w, n)) ~> ~Heads(w, n)

(* "WouldBlock -- retry next tick" (uv_compat.rs:718): a write that run_io *)
(* has tried on a handle is finished, as long as the peer reads, unless    *)
(* the handle ceases to be active.                                         *)
BlockedWritesRetried ==
  \A w \in Writes : \A h \in Tcps :
    (io.at = "writing" /\ h0 = h /\ w \in {q.w : q \in ToSet(tcp[h].queue)})
      ~> (status[w] # "queued" \/ ~tcp[h].active)
=============================================================================
