----------------------------- MODULE SocksServer -----------------------------
(***************************************************************************)
(* socksServer and proxyBidirectional of cmd/proxy-demo/main.go: the life  *)
(* of an accepted client connection, from its place in connSlots to the    *)
(* relay between it and its upstream tunnel.                               *)
(*                                                                         *)
(* A relay is five goroutines: the handler, which waits for the results of *)
(* two copiers, the copiers, one for each direction, named by the side     *)
(* they read from, and closeIdleConns, the watcher.  The peers send, shut, *)
(* break and read their ends as they like; a chunk stands for what one     *)
(* Read returns.                                                           *)
(***************************************************************************)
EXTENDS Naturals, Sequences, FiniteSets

CONSTANTS
    Conn,           \* identities of accepted client connections
    MaxConns,       \* capacity of connSlots
    Deadline,       \* a handshake timeout is configured
    IdleTimeouts,   \* the idle timeouts to configure, in ticks, 0 for no watcher
    Drain,          \* halfCloseDrainTimeout in ticks
    MaxChunks       \* bound: chunks each peer sends

ASSUME ConnAssumption == IsFiniteSet(Conn)
ASSUME LimitAssumption ==
    IdleTimeouts \cup {Drain, MaxChunks} \subseteq Nat /\ MaxConns \in Nat \ {0}
ASSUME DeadlineAssumption == Deadline \in BOOLEAN

Side == {"client", "upstream"}
Other(s) == IF s = "client" THEN "upstream" ELSE "client"

VARIABLES
    idleTimeout,    \* s.idleTimeout, never assigned after newSocksServer
    slots,      \* len(connSlots)
    handler,    \* handleConn of each connection, and the drain timer of its relay
    sock,       \* the two net.Conn of a relay and the peers behind them
    copier,     \* the copiers
    results,    \* the results channel
    watch       \* closeIdleConns, activityCh, and the ticks since data moved last

vars == <<idleTimeout, slots, handler, sock, copier, results, watch>>

-----------------------------------------------------------------------------
(* A socket: closed and shut by this program; what its peer did; the chunks *)
(* the peer sent, those not read yet, and those the peer was given.         *)

NewSock == [closed |-> FALSE, shut |-> FALSE, peer |-> "open",
            sent |-> 0, unread |-> 0, given |-> 0]
NoSock == [NewSock EXCEPT !.closed = TRUE]
NoCopier == [pc |-> "none", eof |-> FALSE]
NoWatch == [on |-> FALSE, timer |-> 0, active |-> FALSE, quiet |-> 0]

Relaying(c) == handler[c].pc \in {"first", "drain", "second"}
To(c, l) == handler' = [handler EXCEPT ![c].pc = l]
BothClosed(c) ==
    [sock EXCEPT ![c] = [s \in Side |-> [@[s] EXCEPT !.closed = TRUE]]]

-----------------------------------------------------------------------------
(* handleConn.                                                             *)

\* main's loop accepts a connection and starts its handler.
Accept(c) ==
    /\ handler[c].pc = "none"
    /\ ~ watch[c].on
    /\ \A s \in Side : copier[c][s].pc = "none"
    /\ To(c, "accept")
    /\ sock' = [sock EXCEPT ![c] = [client |-> NewSock, upstream |-> NoSock]]
    /\ UNCHANGED <<idleTimeout, slots, copier, results, watch>>

\* acquireConnSlot; without a limit (MAX_CONNS=0) there is nothing to count.
SlotFree == slots < MaxConns

TakeSlot(c) ==
    /\ handler[c].pc = "accept"
    /\ SlotFree
    /\ slots' = slots + 1
    /\ To(c, "handshake")
    /\ UNCHANGED <<idleTimeout, sock, copier, results, watch>>

Reject(c) ==
    /\ handler[c].pc = "accept"
    /\ ~ SlotFree
    /\ sock' = [sock EXCEPT ![c] = [s \in Side |-> NoSock]]
    /\ To(c, "none")
    /\ UNCHANGED <<idleTimeout, slots, copier, results, watch>>

HandshakeDone(c) ==
    /\ handler[c].pc = "handshake"
    /\ To(c, "open")
    /\ UNCHANGED <<idleTimeout, slots, sock, copier, results, watch>>

\* A bad greeting or request, a broken connection, or the deadline.
HandshakeFails(c) ==
    /\ handler[c].pc = "handshake"
    /\ To(c, "end")
    /\ UNCHANGED <<idleTimeout, slots, sock, copier, results, watch>>

OpenSucceeds(c) ==
    /\ handler[c].pc = "open"
    /\ sock' = [sock EXCEPT ![c].upstream = NewSock]
    /\ To(c, "reply")
    /\ UNCHANGED <<idleTimeout, slots, copier, results, watch>>

\* The failure reply is written and the handler returns.
OpenFails(c) ==
    /\ handler[c].pc = "open"
    /\ To(c, "end")
    /\ UNCHANGED <<idleTimeout, slots, sock, copier, results, watch>>

ReplyFails(c) ==
    /\ handler[c].pc = "reply"
    /\ To(c, "end")
    /\ UNCHANGED <<idleTimeout, slots, sock, copier, results, watch>>

\* The success reply is written and proxyBidirectional starts its goroutines.
StartRelay(c) ==
    /\ handler[c].pc = "reply"
    /\ ~ sock[c].client.closed
    /\ To(c, "first")
    /\ copier' = [copier EXCEPT ![c] = [s \in Side |-> [pc |-> "read", eof |-> FALSE]]]
    /\ results' = [results EXCEPT ![c] = <<>>]
    /\ watch' = [watch EXCEPT ![c] =
                   [NoWatch EXCEPT !.on = idleTimeout > 0, !.timer = idleTimeout]]
    /\ UNCHANGED <<idleTimeout, slots, sock>>

\* proxyBidirectional takes the first result.
ClosedOnError(c) == IF Head(results[c]) = "error" THEN BothClosed(c) ELSE sock

\* Mutation of WaitForOther: an error does not wait for the other copier.
ErrorEndsRelay(c) == IF Head(results[c]) = "error" THEN [pc |-> "end", timer |-> 0]
                     ELSE [pc |-> "drain", timer |-> Drain]
WaitForOther(c) == IF Head(results[c]) = "error" THEN [pc |-> "second", timer |-> 0]
                   ELSE [pc |-> "drain", timer |-> Drain]

FirstResult(c) ==
    /\ handler[c].pc = "first"
    /\ results[c] # <<>>
    /\ results' = [results EXCEPT ![c] = Tail(@)]
    /\ sock' = ClosedOnError(c)
    /\ handler' = [handler EXCEPT ![c] = WaitForOther(c)]
    /\ UNCHANGED <<idleTimeout, slots, copier, watch>>

\* Mutation: the other side is left open when the drain time is over.
ClientClosed(c) == [sock EXCEPT ![c].client.closed = TRUE]
ClosedByDrain(c) == BothClosed(c)

DrainTimeout(c) ==
    /\ handler[c].pc = "drain"
    /\ handler[c].timer = 0
    /\ sock' = ClosedByDrain(c)
    /\ To(c, "second")
    /\ UNCHANGED <<idleTimeout, slots, copier, results, watch>>

SecondResult(c) ==
    /\ handler[c].pc \in {"drain", "second"}
    /\ results[c] # <<>>
    /\ results' = [results EXCEPT ![c] = Tail(@)]
    /\ sock' = ClosedOnError(c)
    /\ handler' = [handler EXCEPT ![c] = [pc |-> "end", timer |-> 0]]
    /\ UNCHANGED <<idleTimeout, slots, copier, watch>>

\* The deferred calls of handleConn: both connections are closed, and garbage, and
\* the slot is given back.  Mutation: the slot is kept if the upstream was never opened.
KeptWithoutUpstream(c) == IF sock[c].upstream.closed THEN slots ELSE slots - 1
SlotReturned(c) == slots - 1

EndConn(c) ==
    /\ handler[c].pc = "end"
    /\ sock' = [sock EXCEPT ![c] = [s \in Side |-> NoSock]]
    /\ slots' = SlotReturned(c)
    /\ To(c, "none")
    /\ UNCHANGED <<idleTimeout, copier, results, watch>>

-----------------------------------------------------------------------------
(* copyConn from side s of connection c to the other side.                 *)

\* activity(): the channel holds one event, further ones are dropped.
Activity(c) ==
    watch' = IF watch[c].on THEN [watch EXCEPT ![c].active = TRUE, ![c].quiet = 0] ELSE watch

Result(c, s, r) ==
    /\ copier' = [copier EXCEPT ![c][s] = NoCopier]
    /\ results' = [results EXCEPT ![c] = Append(@, r)]

\* Read returns a chunk, perhaps the last one together with io.EOF.
\* Mutation: io.EOF is looked at before the chunk.
EOFFirst(eof) == [pc |-> IF eof THEN "shut" ELSE "write", eof |-> FALSE]
ChunkFirst(eof) == [pc |-> "write", eof |-> eof]

ReadChunk(c, s) ==
    /\ copier[c][s].pc = "read"
    /\ ~ sock[c][s].closed
    /\ sock[c][s].unread > 0
    /\ \E last \in BOOLEAN :
         /\ last => sock[c][s].unread = 1 /\ sock[c][s].peer = "shut"
         /\ copier' = [copier EXCEPT ![c][s] = ChunkFirst(last)]
    /\ sock' = [sock EXCEPT ![c][s].unread = @ - 1]
    /\ Activity(c)
    /\ UNCHANGED <<idleTimeout, slots, handler, results>>

ReadEOF(c, s) ==
    /\ copier[c][s].pc = "read"
    /\ ~ sock[c][s].closed
    /\ sock[c][s].unread = 0
    /\ sock[c][s].peer = "shut"
    /\ copier' = [copier EXCEPT ![c][s].pc = "shut"]
    /\ UNCHANGED <<idleTimeout, slots, handler, sock, results, watch>>

Broken(k) == k.closed \/ k.peer = "broken"

CopyError(c, s) ==
    /\ \/ copier[c][s].pc = "read" /\ Broken(sock[c][s])
       \/ copier[c][s].pc = "write" /\ Broken(sock[c][Other(s)])
    /\ Result(c, s, "error")
    /\ UNCHANGED <<idleTimeout, slots, handler, sock, watch>>

\* Write returns once the peer has taken the chunk, if it ever does.
WriteChunk(c, s) ==
    /\ copier[c][s].pc = "write"
    /\ ~ Broken(sock[c][Other(s)])
    /\ sock' = [sock EXCEPT ![c][Other(s)].given = @ + 1]
    /\ copier' = [copier EXCEPT ![c][s] =
                    [pc |-> IF @.eof THEN "shut" ELSE "read", eof |-> FALSE]]
    /\ Activity(c)
    /\ UNCHANGED <<idleTimeout, slots, handler, results>>

\* io.EOF: closeWrite on the destination.
CloseWrite(c, s) ==
    /\ copier[c][s].pc = "shut"
    /\ sock' = [sock EXCEPT ![c][Other(s)].shut = TRUE]
    /\ Result(c, s, "nil")
    /\ UNCHANGED <<idleTimeout, slots, handler, watch>>

-----------------------------------------------------------------------------
(* closeIdleConns.                                                         *)

\* The timer after an activity event.  Mutations: it runs on, or is extended.
RunsOn(t) == t
Extended(t) == t + idleTimeout
Restarted(t) == idleTimeout

WatchActivity(c) ==
    /\ watch[c].on
    /\ watch[c].active
    /\ watch' = [watch EXCEPT ![c].active = FALSE, ![c].timer = Restarted(@)]
    /\ UNCHANGED <<idleTimeout, slots, handler, sock, copier, results>>

\* Mutation: only the client is closed.
ClientCut(c) == [sock EXCEPT ![c].client.closed = TRUE]
BothCut(c) == BothClosed(c)

WatchFires(c) ==
    /\ watch[c].on
    /\ watch[c].timer = 0
    /\ sock' = BothCut(c)
    /\ watch' = [watch EXCEPT ![c] = NoWatch]
    /\ UNCHANGED <<idleTimeout, slots, handler, copier, results>>

\* proxyBidirectional has closed done.
WatchDone(c) ==
    /\ watch[c].on
    /\ ~ Relaying(c)
    /\ watch' = [watch EXCEPT ![c] = NoWatch]
    /\ UNCHANGED <<idleTimeout, slots, handler, sock, copier, results>>

-----------------------------------------------------------------------------
(* The peers and the clock.  What a peer does before the relay, beside its  *)
(* part in the handshake, shows in the relay only.                         *)

PeerSends(c, s) ==
    /\ Relaying(c)
    /\ ~ sock[c][s].closed
    /\ sock[c][s].peer = "open"
    /\ sock[c][s].sent < MaxChunks
    /\ sock' = [sock EXCEPT ![c][s].sent = @ + 1, ![c][s].unread = @ + 1]
    /\ UNCHANGED <<idleTimeout, slots, handler, copier, results, watch>>

PeerShuts(c, s) ==
    /\ Relaying(c)
    /\ ~ sock[c][s].closed
    /\ sock[c][s].peer = "open"
    /\ sock' = [sock EXCEPT ![c][s].peer = "shut"]
    /\ UNCHANGED <<idleTimeout, slots, handler, copier, results, watch>>

PeerBreaks(c, s) ==
    /\ Relaying(c)
    /\ ~ sock[c][s].closed
    /\ sock[c][s].peer # "broken"
    /\ sock' = [sock EXCEPT ![c][s].peer = "broken"]
    /\ UNCHANGED <<idleTimeout, slots, handler, copier, results, watch>>

Less(n) == IF n = 0 THEN 0 ELSE n - 1
Ticking(c) == handler[c].timer > 0 \/ watch[c].timer > 0

Tick ==
    /\ \E c \in Conn : Ticking(c)
    /\ handler' = [c \in Conn |-> [handler[c] EXCEPT !.timer = Less(@)]]
    /\ watch' = [c \in Conn |->
                   IF ~ watch[c].on THEN NoWatch
                   ELSE [watch[c] EXCEPT !.timer = Less(@),
                                         !.quiet = IF @ = idleTimeout THEN @ ELSE @ + 1]]
    /\ UNCHANGED <<idleTimeout, slots, sock, copier, results>>

-----------------------------------------------------------------------------
Init ==
    /\ idleTimeout \in IdleTimeouts
    /\ slots = 0
    /\ handler = [c \in Conn |-> [pc |-> "none", timer |-> 0]]
    /\ sock = [c \in Conn |-> [s \in Side |-> NoSock]]
    /\ copier = [c \in Conn |-> [s \in Side |-> NoCopier]]
    /\ results = [c \in Conn |-> <<>>]
    /\ watch = [c \in Conn |-> NoWatch]

HandlerStep(c) ==
    \/ TakeSlot(c) \/ Reject(c) \/ HandshakeDone(c) \/ HandshakeFails(c)
    \/ OpenSucceeds(c) \/ OpenFails(c) \/ ReplyFails(c) \/ StartRelay(c)
    \/ FirstResult(c) \/ DrainTimeout(c) \/ SecondResult(c) \/ EndConn(c)

CopierStep(c, s) ==
    ReadChunk(c, s) \/ ReadEOF(c, s) \/ CopyError(c, s) \/ WriteChunk(c, s) \/ CloseWrite(c, s)

WatchStep(c) == WatchActivity(c) \/ WatchFires(c) \/ WatchDone(c)

PeerStep(c, s) == PeerSends(c, s) \/ PeerShuts(c, s) \/ PeerBreaks(c, s)

Next ==
    \/ \E c \in Conn : Accept(c) \/ HandlerStep(c) \/ WatchStep(c)
    \/ \E c \in Conn, s \in Side : CopierStep(c, s) \/ PeerStep(c, s)
    \/ Tick

Spec == Init /\ [][Next]_vars

-----------------------------------------------------------------------------
(* Properties.                                                             *)

HandlerPC == {"none", "accept", "handshake", "open", "reply", "first", "drain", "second", "end"}

TypeOK ==
    /\ idleTimeout \in IdleTimeouts
    /\ slots \in 0 .. MaxConns
    /\ handler \in [Conn -> [pc : HandlerPC, timer : 0 .. Drain]]
    /\ sock \in [Conn -> [Side -> [closed : BOOLEAN, shut : BOOLEAN,
                                   peer : {"open", "shut", "broken"}, sent : 0 .. MaxChunks,
                                   unread : 0 .. MaxChunks, given : 0 .. MaxChunks]]]
    /\ copier \in [Conn -> [Side -> [pc : {"none", "read", "write", "shut"}, eof : BOOLEAN]]]
    /\ \A c \in Conn : Len(results[c]) <= 2 /\ \A i \in 1 .. Len(results[c]) :
                         results[c][i] \in {"nil", "error"}
    /\ watch \in [Conn -> [on : BOOLEAN, timer : 0 .. idleTimeout, active : BOOLEAN,
                           quiet : 0 .. idleTimeout]]

\* MAX_CONNS: every connection being served has exactly one place in connSlots, on
\* whatever path its handler returns.
Served == {c \in Conn : handler[c].pc \notin {"none", "accept"}}
SlotsMatchServed == slots = Cardinality(Served) /\ slots <= MaxConns

\* A relay is over only after its copiers: none is left behind, blocked on a connection
\* or on the results channel, and no result nobody has looked at; and when a handler has
\* returned, on whatever path, both connections are closed.
NothingLeftBehind ==
    \A c \in Conn :
      /\ ~ Relaying(c) => results[c] = <<>> /\ \A s \in Side : copier[c][s].pc = "none"
      /\ handler[c].pc = "none" => \A s \in Side : sock[c][s].closed

\* The idle timeout cuts a relay only when no data moved for that long, or in the
\* very moment in which data moves again.
IdleCutMeansIdle ==
    [][\A c \in Conn :
         watch[c].on /\ Relaying(c) /\ ~ watch'[c].on =>
           watch[c].quiet = idleTimeout \/ watch[c].active]_vars

\* The relay as its peers see it is a RelayStream: a direction is what it was sent and
\* given, and over when its copier is.  A peer that is told the end of the stream was
\* given every chunk of it, also when the last chunk and io.EOF came together.
Direction(c, s) ==
    [phase |-> IF copier[c][s].pc # "none" THEN "open"
               ELSE IF sock[c][Other(s)].shut THEN "ended" ELSE "cut",
     sent |-> sock[c][s].sent, given |-> sock[c][Other(s)].given, peer |-> sock[c][s].peer]
NoDirection == [phase |-> "none", sent |-> 0, given |-> 0, peer |-> "open"]

Stream == INSTANCE RelayStream WITH
    Relay <- Conn,
    Dir <- Side,
    stream <- [c \in Conn |-> [s \in Side |->
                 IF Relaying(c) THEN Direction(c, s) ELSE NoDirection]],
    severed <- [c \in Conn |-> Relaying(c) /\ \E s \in Side : sock[c][s].closed],
    watched <- idleTimeout > 0
ImplementsStream == Stream!Spec

-----------------------------------------------------------------------------
(* Liveness.  Goroutines are scheduled and OpenTunnel returns; time passes; *)
(* a handshake ends if it has a deadline.  No peer has to send, to read or  *)
(* to close.                                                                *)

HandlerFairness(c) ==
    /\ WF_vars(HandlerStep(c) /\ handler[c].pc # "handshake")
    /\ Deadline => WF_vars(HandlerStep(c) /\ handler[c].pc = "handshake")

Fairness ==
    /\ \A c \in Conn : HandlerFairness(c) /\ WF_vars(WatchStep(c))
    /\ \A c \in Conn, s \in Side :
         WF_vars(ReadChunk(c, s) \/ ReadEOF(c, s) \/ CopyError(c, s) \/ CloseWrite(c, s))
    /\ WF_vars(Tick)

FairSpec == Spec /\ Fairness

\* With and without an idle timeout: once one direction has ended, cleanly or not,
\* the handler returns and gives its slot back, whatever the other peer does.
EndedDirectionEndsConn ==
    \A c \in Conn :
      Relaying(c) /\ (\E s \in Side : copier[c][s].pc = "none") ~> handler[c].pc = "none"

\* With a handshake deadline and an idle timeout no client keeps its slot without
\* moving data (the peers of the model stop sending in the end).
SlotsComeBack ==
    \A c \in Conn :
      idleTimeout > 0 /\ handler[c].pc = "handshake" ~> handler[c].pc = "none"

=============================================================================
