----------------------------- MODULE Listener ------------------------------
(***************************************************************************)
(* The server's accept loops and its graceful shutdown: serve_inner and    *)
(* serve_conn (crates/server/src/listener.rs), serve_h3 (h3/endpoint.rs)   *)
(* and the signals of main.rs.                                             *)
(*                                                                         *)
(* The TCP loop, the QUIC loop and the connection tasks share one          *)
(* semaphore, conn_limit.  A loop takes a permit before it accepts and     *)
(* moves it into the connection's task.  An action is what one of them     *)
(* does between two awaits; where a select! has several branches ready,    *)
(* any of them may run.  Connections are used once.  A client may open,    *)
(* ask and go away at any moment, and need do nothing at all.              *)
(*                                                                         *)
(* An HTTP/1.1 request runs inside its connection's task.  Each h2 stream  *)
(* is a task that hyper spawns on TokioExecutor, each h3 stream one that   *)
(* serve_h3 spawns: such a request outlives its stream, and its            *)
(* connection's task and permit, until it is next polled or, over h3, done.*)
(***************************************************************************)
EXTENDS Integers, FiniteSets

CONSTANTS
  Tcp,             \* TCP connections that clients try to open
  Quic,            \* QUIC connections that clients try to open
  MaxConnections,  \* MAX_CONNECTIONS
  MaxStreams       \* MAX_CONCURRENT_STREAMS

ASSUME ListenerAssumption ==
  /\ IsFiniteSet(Tcp) /\ IsFiniteSet(Quic) /\ Tcp \cap Quic = {}
  /\ MaxConnections \in Nat \ {0}
  /\ MaxStreams \in Nat \ {0}

VARIABLES
  permits,         \* what conn_limit has left
  tcp_loop,        \* "acquire", "accept" (with a permit), "draining", "returned"
  quic_loop,       \* "off", "acquire", "accept" (with a permit), "stopped"
  conn,            \* of each connection: "new", "handshake", "open", "closing", "ended"
  proto,           \* its protocol: "h1", "h2" or "h3"
  busy,            \* requests in flight on it whose stream is open
  loose,           \* connections of which a request runs on after its stream has gone
  unreaped,        \* TCP tasks that ended and are still in the JoinSet
  shutdown,        \* the caller's shutdown future has resolved
  drain,           \* the drain flag
  deadline,        \* the drain deadline has expired
  cut              \* history: connections ended by the server with requests in flight

listenerVars == <<permits, tcp_loop, quic_loop, conn, proto, busy, loose, unreaped, shutdown,
          drain, deadline, cut>>

Conns == Tcp \cup Quic
Alive == {c \in Conns : conn[c] \in {"handshake", "open", "closing"}}

\* How many requests a connection runs at once.
Streams(c) == IF proto[c] = "h1" THEN 1 ELSE MaxStreams

\* What of the requests in flight on the connections outlives their streams.
Outliving(cs) == {c \in cs : proto[c] # "h1" /\ busy[c] > 0}

ListenerInit ==
  /\ permits = MaxConnections
  /\ tcp_loop = "acquire"
  /\ quic_loop \in {"off", "acquire"}      \* off: no [[tls]], or the bind failed
  /\ conn = [c \in Conns |-> "new"]
  /\ proto = [c \in Conns |-> IF c \in Quic THEN "h3" ELSE "h1"]
  /\ busy = [c \in Conns |-> 0]
  /\ loose = {}
  /\ unreaped = {}
  /\ shutdown = FALSE
  /\ drain = FALSE
  /\ deadline = FALSE
  /\ cut = {}

----------------------------------------------------------------------------
\* serve_inner's accept loop: two select!s, each of which may also break on the
\* shutdown or reap an ended task and start over.

ShutdownSignal ==
  /\ ~shutdown
  /\ shutdown' = TRUE
  /\ UNCHANGED <<permits, tcp_loop, quic_loop, conn, proto, busy, loose, unreaped,
                 drain, deadline, cut>>

TcpAcquire ==
  /\ tcp_loop = "acquire"
  /\ permits > 0
  /\ permits' = permits - 1
  /\ tcp_loop' = "accept"
  /\ UNCHANGED <<quic_loop, conn, proto, busy, loose, unreaped, shutdown, drain,
                 deadline, cut>>

\* The permit is moved into the connection's task.  A plain connection is served
\* as HTTP/1.1 at once; with TLS a handshake decides.
TcpAccept(c, first) ==
  /\ tcp_loop = "accept"
  /\ c \in Tcp /\ conn[c] = "new"
  /\ conn' = [conn EXCEPT ![c] = first]
  /\ tcp_loop' = "acquire"
  /\ UNCHANGED <<permits, quic_loop, proto, busy, loose, unreaped, shutdown, drain,
                 deadline, cut>>

HandBackLostMut == permits' = permits

\* `continue` and `break` drop a permit that was not moved into a task.
HandBack == permits' = IF tcp_loop = "accept" THEN permits + 1 ELSE permits

\* accept failed: warn and continue.
AcceptFails ==
  /\ tcp_loop = "accept"
  /\ HandBack
  /\ tcp_loop' = "acquire"
  /\ UNCHANGED <<quic_loop, conn, proto, busy, loose, unreaped, shutdown, drain,
                 deadline, cut>>

Reap(c) ==
  /\ tcp_loop \in {"acquire", "accept"}
  /\ c \in unreaped
  /\ unreaped' = unreaped \ {c}
  /\ HandBack
  /\ tcp_loop' = "acquire"
  /\ UNCHANGED <<quic_loop, conn, proto, busy, loose, shutdown, drain, deadline, cut>>

BeginDrainWhileAcquiringMut ==
  /\ tcp_loop = "acquire"
  /\ shutdown
  /\ HandBack
  /\ tcp_loop' = "draining"
  /\ drain' = TRUE
  /\ UNCHANGED <<quic_loop, conn, proto, busy, loose, unreaped, shutdown, deadline, cut>>

\* break, drop(listener), drain_tx.send(true), and the wait for all permits.
BeginDrain ==
  /\ tcp_loop \in {"acquire", "accept"}
  /\ shutdown
  /\ HandBack
  /\ tcp_loop' = "draining"
  /\ drain' = TRUE
  /\ UNCHANGED <<quic_loop, conn, proto, busy, loose, unreaped, shutdown, deadline, cut>>

\* acquire_many has every permit.
AllDrained ==
  /\ tcp_loop = "draining"
  /\ permits = MaxConnections
  /\ tcp_loop' = "returned"
  /\ permits' = 0
  /\ UNCHANGED <<quic_loop, conn, proto, busy, loose, unreaped, shutdown, drain,
                 deadline, cut>>

\* The drain deadline wins: abort_all, and what acquire_many had so far is back.
CutStragglers ==
  LET cutoff == Tcp \cap Alive IN
  /\ tcp_loop = "draining"
  /\ permits < MaxConnections
  /\ deadline' = TRUE
  /\ conn' = [c \in Conns |-> IF c \in cutoff THEN "ended" ELSE conn[c]]
  /\ cut' = cut \cup {c \in cutoff : busy[c] > 0}
  /\ busy' = [c \in Conns |-> IF c \in cutoff THEN 0 ELSE busy[c]]
  /\ loose' = loose \cup Outliving(cutoff)
  /\ permits' = permits + Cardinality(cutoff)
  /\ tcp_loop' = "returned"
  /\ UNCHANGED <<quic_loop, proto, unreaped, shutdown, drain>>

----------------------------------------------------------------------------
\* serve_h3's accept loop.

QuicAcquire ==
  /\ quic_loop = "acquire"
  /\ permits > 0
  /\ permits' = permits - 1
  /\ quic_loop' = "accept"
  /\ UNCHANGED <<tcp_loop, conn, proto, busy, loose, unreaped, shutdown, drain,
                 deadline, cut>>

QuicAccept(c) ==
  /\ quic_loop = "accept"
  /\ c \in Quic /\ conn[c] = "new"
  /\ conn' = [conn EXCEPT ![c] = "handshake"]
  /\ quic_loop' = "acquire"
  /\ UNCHANGED <<permits, tcp_loop, proto, busy, loose, unreaped, shutdown, drain,
                 deadline, cut>>

QuicStop ==
  /\ quic_loop \in {"acquire", "accept"}
  /\ drain
  /\ permits' = IF quic_loop = "accept" THEN permits + 1 ELSE permits
  /\ quic_loop' = "stopped"
  /\ UNCHANGED <<tcp_loop, conn, proto, busy, loose, unreaped, shutdown, drain,
                 deadline, cut>>

\* endpoint.accept() has nothing more to give: the loop returns, drain or not.
EndpointClosed ==
  /\ quic_loop = "accept"
  /\ permits' = permits + 1
  /\ quic_loop' = "stopped"
  /\ UNCHANGED <<tcp_loop, conn, proto, busy, loose, unreaped, shutdown, drain,
                 deadline, cut>>

----------------------------------------------------------------------------
\* One connection's task: handshake, requests, end.

\* The task is over and drops its permit; a TCP task waits in the JoinSet.
EndTask(c) ==
  /\ conn' = [conn EXCEPT ![c] = "ended"]
  /\ permits' = permits + 1
  /\ unreaped' = IF c \in Tcp THEN unreaped \cup {c} ELSE unreaped

HandshakeOk(c, p) ==
  /\ conn[c] = "handshake"
  /\ p \in IF c \in Quic THEN {"h3"} ELSE {"h1", "h2"}    \* ALPN
  /\ proto' = [proto EXCEPT ![c] = p]
  /\ conn' = [conn EXCEPT ![c] = "open"]
  /\ UNCHANGED <<permits, tcp_loop, quic_loop, busy, loose, unreaped, shutdown,
                 drain, deadline, cut>>

HandshakeFails(c) ==
  /\ conn[c] = "handshake"
  /\ EndTask(c)
  /\ UNCHANGED <<tcp_loop, quic_loop, proto, busy, loose, shutdown, drain,
                 deadline, cut>>

\* A request (an h2 or h3 stream) becomes a transaction.
StartRequest(c) ==
  /\ conn[c] = "open"
  /\ busy[c] < Streams(c)
  /\ busy' = [busy EXCEPT ![c] = @ + 1]
  /\ UNCHANGED <<permits, tcp_loop, quic_loop, conn, proto, loose, unreaped,
                 shutdown, drain, deadline, cut>>

\* The transaction ends, and its stream with it.
EndRequest(c) ==
  /\ busy[c] > 0
  /\ busy' = [busy EXCEPT ![c] = @ - 1]
  /\ UNCHANGED <<permits, tcp_loop, quic_loop, conn, proto, loose, unreaped,
                 shutdown, drain, deadline, cut>>

\* The client resets an h2 or h3 stream; its request's task has yet to see it.
StreamReset(c) ==
  /\ conn[c] \in {"open", "closing"}
  /\ proto[c] # "h1" /\ busy[c] > 0
  /\ busy' = [busy EXCEPT ![c] = @ - 1]
  /\ loose' = loose \cup {c}
  /\ UNCHANGED <<permits, tcp_loop, quic_loop, conn, proto, unreaped, shutdown,
                 drain, deadline, cut>>

\* The last request of c without a stream is dropped at its poll, or done.
LooseEnds(c) ==
  /\ c \in loose
  /\ loose' = loose \ {c}
  /\ UNCHANGED <<permits, tcp_loop, quic_loop, conn, proto, busy, unreaped,
                 shutdown, drain, deadline, cut>>

\* The streams of c go with its task, an HTTP/1.1 request too.
DropStreams(c) ==
  /\ busy' = [busy EXCEPT ![c] = 0]
  /\ loose' = loose \cup Outliving({c})

\* The client closes, or breaks the connection.
ClientGone(c) ==
  /\ conn[c] \in {"open", "closing"}
  /\ EndTask(c)
  /\ DropStreams(c)
  /\ UNCHANGED <<tcp_loop, quic_loop, proto, shutdown, drain, deadline, cut>>

SeeDrainAbruptMut(c) ==
  /\ conn[c] = "open"
  /\ drain
  /\ EndTask(c)
  /\ DropStreams(c)
  /\ cut' = IF busy[c] > 0 THEN cut \cup {c} ELSE cut
  /\ UNCHANGED <<tcp_loop, quic_loop, proto, shutdown, drain, deadline>>

SeeDrainEarlyReleaseMut(c) ==
  /\ conn[c] = "open"
  /\ drain
  /\ conn' = [conn EXCEPT ![c] = "closing"]
  /\ permits' = permits + 1
  /\ UNCHANGED <<tcp_loop, quic_loop, proto, busy, loose, unreaped, shutdown,
                 drain, deadline, cut>>

\* drained() resolves: TCP goes on until its streams are done (graceful_shutdown),
\* an h3 connection is closed under them.
SeeDrain(c) ==
  /\ conn[c] = "open"
  /\ drain
  /\ IF c \in Tcp
     THEN /\ conn' = [conn EXCEPT ![c] = "closing"]
          /\ UNCHANGED <<permits, unreaped, busy, loose, cut>>
     ELSE /\ EndTask(c)
          /\ DropStreams(c)
          /\ cut' = IF busy[c] > 0 THEN cut \cup {c} ELSE cut
  /\ UNCHANGED <<tcp_loop, quic_loop, proto, shutdown, drain, deadline>>

\* hyper after graceful_shutdown: the connection ends when no stream is open.
GracefulEnd(c) ==
  /\ conn[c] = "closing"
  /\ busy[c] = 0
  /\ EndTask(c)
  /\ UNCHANGED <<tcp_loop, quic_loop, proto, busy, loose, shutdown, drain,
                 deadline, cut>>

----------------------------------------------------------------------------
TcpTurn == TcpAcquire \/ AcceptFails \/ \E c \in Tcp : Reap(c)

Task(c) == SeeDrain(c) \/ GracefulEnd(c)

Client(c) ==
  \/ \E first \in {"handshake", "open"} : TcpAccept(c, first)
  \/ QuicAccept(c)
  \/ \E p \in {"h1", "h2", "h3"} : HandshakeOk(c, p)
  \/ HandshakeFails(c) \/ StartRequest(c) \/ StreamReset(c) \/ ClientGone(c)

Handler(c) == EndRequest(c) \/ LooseEnds(c)

\* serve_inner has returned and main ends; what is left dies with the process.
Done == tcp_loop = "returned" /\ UNCHANGED listenerVars

Running == tcp_loop # "returned"

ListenerNext ==
  \/ Running /\ (ShutdownSignal \/ TcpTurn \/ BeginDrain \/ AllDrained \/ CutStragglers)
  \/ Running /\ (QuicAcquire \/ QuicStop \/ EndpointClosed)
  \/ Running /\ \E c \in Conns : Client(c) \/ Handler(c) \/ Task(c)
  \/ Done

ListenerSpec == ListenerInit /\ [][ListenerNext]_listenerVars

\* The loops and the tasks are polled when a branch of their select! is ready,
\* select! picks a ready branch at random (so BeginDrain cannot be passed over
\* for ever), and the drain timer fires.  Nothing is assumed of clients, nor of
\* requests in flight.
ListenerFairSpec ==
  /\ ListenerSpec
  /\ WF_listenerVars(BeginDrain)
  /\ WF_listenerVars(AllDrained \/ CutStragglers)
  /\ WF_listenerVars(Running /\ QuicStop)
  /\ \A c \in Conns : WF_listenerVars(Running /\ Task(c))

----------------------------------------------------------------------------
ListenerTypeOK ==
  /\ permits \in 0..MaxConnections
  /\ tcp_loop \in {"acquire", "accept", "draining", "returned"}
  /\ quic_loop \in {"off", "acquire", "accept", "stopped"}
  /\ conn \in [Conns -> {"new", "handshake", "open", "closing", "ended"}]
  /\ proto \in [Conns -> {"h1", "h2", "h3"}]
  /\ busy \in [Conns -> 0..MaxStreams]
  /\ loose \subseteq Conns
  /\ unreaped \subseteq Tcp
  /\ shutdown \in BOOLEAN /\ drain \in BOOLEAN /\ deadline \in BOOLEAN
  /\ cut \subseteq Conns

Waiting == {l \in {"tcp", "quic"} : IF l = "tcp" THEN tcp_loop = "accept"
                                                 ELSE quic_loop = "accept"}

\* conn_limit is exact while the server runs: what is left, what the two loops
\* hold while they accept, and one for each live connection add up to
\* MAX_CONNECTIONS, so the cap holds over both transports and no path of the
\* loops (break, continue, failed accept or handshake) keeps a permit that the
\* drain would then wait for in vain.
PermitsExact ==
  Running =>
    permits + Cardinality(Waiting) + Cardinality(Alive) = MaxConnections

\* A TCP connection with requests in flight is ended by the server only when the
\* drain deadline has expired; an h3 one only once the drain has begun
\* (serve_conn, serve_h3).
NoEarlyCut ==
  /\ cut # {} => drain
  /\ cut \cap Tcp # {} => deadline

\* "all connections drained" means it: when serve_inner returns before the
\* deadline no connection of either transport is left, nor a request on a stream
\* that its client has open.  What may still run are h2 and h3 requests whose
\* streams are gone.
DrainIsComplete ==
  tcp_loop = "returned" /\ ~deadline =>
    Alive = {} /\ \A c \in Conns : busy[c] = 0

\* Shutdown ends: once the signal came, serve_inner returns, whatever clients
\* and handlers do or fail to do.
ShutdownEnds == shutdown ~> tcp_loop = "returned"
============================================================================
