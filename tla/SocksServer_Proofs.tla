-------------------------- MODULE SocksServer_Proofs --------------------------
(***************************************************************************)
(* Proofs about SocksServer, for any finite set of connections, any limit, *)
(* any timeouts and any number of chunks.                                  *)
(***************************************************************************)
EXTENDS SocksServer, FiniteSetTheorems, SequenceTheorems, TLAPS

HandlerState == [pc : HandlerPC, timer : 0 .. Drain]
SockState == [closed : BOOLEAN, shut : BOOLEAN, peer : {"open", "shut", "broken"},
              sent : 0 .. MaxChunks, unread : 0 .. MaxChunks, given : 0 .. MaxChunks]
CopierState == [pc : {"none", "read", "write", "shut"}, eof : BOOLEAN]
WatchState == [on : BOOLEAN, timer : 0 .. idleTimeout, active : BOOLEAN, quiet : 0 .. idleTimeout]

\* The types without the bounds that need the invariants below.
LooseSock == [closed : BOOLEAN, shut : BOOLEAN, peer : {"open", "shut", "broken"},
              sent : 0 .. MaxChunks, unread : Nat, given : Nat]
Loose ==
    /\ idleTimeout \in IdleTimeouts
    /\ slots \in Int
    /\ handler \in [Conn -> HandlerState]
    /\ sock \in [Conn -> [Side -> LooseSock]]
    /\ copier \in [Conn -> [Side -> CopierState]]
    /\ results \in [Conn -> Seq({"nil", "error"})]
    /\ watch \in [Conn -> WatchState]

\* The results that are still to come: one for each copier at work.
AtWork(k) == IF k.pc = "none" THEN 0 ELSE 1
Pending(c) == AtWork(copier[c]["client"]) + AtWork(copier[c]["upstream"])

\* The handler takes two results and two are sent.
ResultsInvAt(c) ==
    Len(results[c]) + Pending(c) = CASE handler[c].pc = "first" -> 2
                                     [] handler[c].pc \in {"drain", "second"} -> 1
                                     [] OTHER -> 0
ResultsInv == \A c \in Conn : ResultsInvAt(c)

\* What a peer sent is unread, in the hands of its copier, or given to the other peer,
\* and lost only with the copier.
InHand(k) == IF k.pc = "write" THEN 1 ELSE 0
Drained(k) == k.unread = 0 /\ k.peer \in {"shut", "broken"}
DeliveryInvAt(c, s) ==
    LET src == sock[c][s]
        dst == sock[c][Other(s)]
        k == copier[c][s]
    IN  /\ src.unread + InHand(k) + dst.given <= src.sent
        /\ k.pc # "none" => ~ dst.shut /\ src.unread + InHand(k) + dst.given = src.sent
        /\ k.pc = "shut" \/ (k.pc = "write" /\ k.eof) => Drained(src)
        /\ dst.shut => Drained(src) /\ dst.given = src.sent
        /\ ~ Relaying(c) /\ handler[c].pc # "end" => src.sent = 0 /\ ~ src.shut
DeliveryInv == \A c \in Conn, s \in Side : DeliveryInvAt(c, s)

\* The timer of the watcher and the ticks without data make up the idle timeout,
\* unless an activity event waits for it.
WatchInv ==
    \A c \in Conn : watch[c].on /\ ~ watch[c].active => watch[c].timer + watch[c].quiet >= idleTimeout

IInv == Loose /\ ResultsInv /\ DeliveryInv /\ WatchInv /\ SlotsMatchServed

-----------------------------------------------------------------------------
(* Types.                                                                   *)

LEMMA SideFacts ==
    /\ Side = {"client", "upstream"}
    /\ \A s \in Side : Other(s) \in Side /\ Other(s) # s /\ Other(Other(s)) = s
BY DEF Side, Other

LEMMA SockTypes ==
    /\ NewSock \in LooseSock /\ NoSock \in LooseSock
    /\ \A k \in LooseSock : /\ [k EXCEPT !.closed = TRUE] \in LooseSock
                            /\ [k EXCEPT !.shut = TRUE] \in LooseSock
    /\ \A k \in LooseSock, p \in {"open", "shut", "broken"} : [k EXCEPT !.peer = p] \in LooseSock
    /\ \A k \in LooseSock, u \in Nat : /\ [k EXCEPT !.unread = u] \in LooseSock
                                       /\ [k EXCEPT !.given = u] \in LooseSock
    /\ \A k \in LooseSock, n \in 0 .. MaxChunks, u \in Nat :
         [k EXCEPT !.sent = n, !.unread = u] \in LooseSock
<1>1. MaxChunks \in Nat
  BY LimitAssumption
<1>2. NewSock \in LooseSock
  BY <1>1 DEF NewSock, LooseSock
<1>3. NoSock \in LooseSock
  BY <1>2 DEF NoSock, LooseSock
<1> QED BY <1>2, <1>3 DEF LooseSock

LEMMA RecordTypes ==
    /\ \A k \in CopierState, l \in {"none", "read", "write", "shut"} : [k EXCEPT !.pc = l] \in CopierState
    /\ \A h \in HandlerState, n \in 0 .. Drain : [h EXCEPT !.timer = n] \in HandlerState
    /\ \A w \in WatchState, b \in BOOLEAN, n \in 0 .. idleTimeout :
         [w EXCEPT !.active = b, !.timer = n] \in WatchState
    /\ \A w \in WatchState, b \in BOOLEAN, n \in 0 .. idleTimeout :
         [w EXCEPT !.active = b, !.quiet = n] \in WatchState
    /\ \A w \in WatchState, b \in BOOLEAN, n \in 0 .. idleTimeout :
         [w EXCEPT !.on = b, !.timer = n] \in WatchState
    /\ \A w \in WatchState, n, q \in 0 .. idleTimeout :
         [w EXCEPT !.timer = n, !.quiet = q] \in WatchState
BY DEF CopierState, HandlerState, WatchState

\* What an action does to the connection it is about has the types of Loose.
LEMMA OneConnTypes ==
    ASSUME Loose, NEW c \in Conn
    PROVE  /\ \A h \in HandlerState : [handler EXCEPT ![c] = h] \in [Conn -> HandlerState]
           /\ \A l \in HandlerPC : To(c, l) => handler' \in [Conn -> HandlerState]
           /\ \A k \in [Side -> LooseSock] : [sock EXCEPT ![c] = k] \in [Conn -> [Side -> LooseSock]]
           /\ \A s \in Side, k \in LooseSock :
                [sock EXCEPT ![c][s] = k] \in [Conn -> [Side -> LooseSock]]
           /\ BothClosed(c) \in [Conn -> [Side -> LooseSock]]
           /\ \A s \in Side, k \in CopierState :
                [copier EXCEPT ![c][s] = k] \in [Conn -> [Side -> CopierState]]
           /\ \A w \in WatchState : [watch EXCEPT ![c] = w] \in [Conn -> WatchState]
<1>1. /\ handler \in [Conn -> HandlerState] /\ sock \in [Conn -> [Side -> LooseSock]]
      /\ copier \in [Conn -> [Side -> CopierState]] /\ watch \in [Conn -> WatchState]
  BY DEF Loose
<1>2. ASSUME NEW l \in HandlerPC, To(c, l) PROVE handler' \in [Conn -> HandlerState]
  BY <1>1, <1>2 DEF To, HandlerState
<1>3. BothClosed(c) \in [Conn -> [Side -> LooseSock]]
  <2>1. [s \in Side |-> [sock[c][s] EXCEPT !.closed = TRUE]] \in [Side -> LooseSock]
    <3>1. ASSUME NEW s \in Side PROVE [sock[c][s] EXCEPT !.closed = TRUE] \in LooseSock
      BY <1>1, SockTypes
    <3> QED BY <3>1
  <2> QED BY <1>1, <2>1 DEF BothClosed
<1> QED BY <1>1, <1>2, <1>3

\* Loose of the next state; the idle timeout never changes.
LEMMA LooseNext ==
    ASSUME Loose, UNCHANGED idleTimeout, slots' \in Int,
           handler' \in [Conn -> HandlerState], sock' \in [Conn -> [Side -> LooseSock]],
           copier' \in [Conn -> [Side -> CopierState]],
           results' \in [Conn -> Seq({"nil", "error"})], watch' \in [Conn -> WatchState]
    PROVE  Loose'
<1>1. WatchState' = WatchState
  BY DEF WatchState
<1> QED BY <1>1 DEF Loose

LEMMA HandlerStepType ==
    ASSUME Loose, NEW c \in Conn, Accept(c) \/ HandlerStep(c)
    PROVE  Loose'
<1>1. /\ idleTimeout \in IdleTimeouts /\ slots \in Int /\ idleTimeout \in Nat /\ Drain \in Nat
      /\ handler \in [Conn -> HandlerState] /\ sock \in [Conn -> [Side -> LooseSock]]
      /\ copier \in [Conn -> [Side -> CopierState]] /\ watch \in [Conn -> WatchState]
      /\ results \in [Conn -> Seq({"nil", "error"})]
  BY LimitAssumption DEF Loose
<1>2. CASE Accept(c)
  <2>1. [client |-> NewSock, upstream |-> NoSock] \in [Side -> LooseSock]
    <3>1. NewSock \in LooseSock /\ NoSock \in LooseSock
      BY SockTypes
    <3> QED BY <3>1 DEF Side
  <2>2. sock' \in [Conn -> [Side -> LooseSock]]
    BY <1>1, <1>2, <2>1, OneConnTypes, LooseNext DEF Accept
  <2> QED BY <1>1, <1>2, <2>2, OneConnTypes, LooseNext DEF Accept, HandlerPC
<1>3. CASE TakeSlot(c) \/ HandshakeDone(c) \/ HandshakeFails(c) \/ OpenFails(c) \/ ReplyFails(c)
  BY <1>1, <1>3, OneConnTypes, LooseNext
  DEF TakeSlot, HandshakeDone, HandshakeFails, OpenFails, ReplyFails, HandlerPC
<1>4. CASE Reject(c) \/ EndConn(c)
  <2>1. [s \in Side |-> NoSock] \in [Side -> LooseSock]
    BY SockTypes
  <2>2. sock' \in [Conn -> [Side -> LooseSock]]
    BY <1>1, <1>4, <2>1 DEF Reject, EndConn
  <2> QED BY <1>1, <1>4, <2>2, OneConnTypes, LooseNext
          DEF Reject, EndConn, SlotReturned, HandlerPC
<1>5. CASE OpenSucceeds(c)
  <2>1. sock' \in [Conn -> [Side -> LooseSock]]
    BY <1>1, <1>5, SockTypes, OneConnTypes, LooseNext DEF OpenSucceeds, Side
  <2> QED BY <1>1, <1>5, <2>1, OneConnTypes, LooseNext DEF OpenSucceeds, HandlerPC
<1>6. CASE StartRelay(c)
  <2>1. copier' \in [Conn -> [Side -> CopierState]]
    BY <1>1, <1>6 DEF StartRelay, CopierState
  <2>2. results' \in [Conn -> Seq({"nil", "error"})]
    BY <1>1, <1>6 DEF StartRelay
  <2>3. [NoWatch EXCEPT !.on = idleTimeout > 0, !.timer = idleTimeout] \in WatchState
    <3> DEFINE on == idleTimeout > 0
    <3>1. idleTimeout \in 0 .. idleTimeout /\ 0 \in 0 .. idleTimeout /\ on \in BOOLEAN
      BY <1>1
    <3> HIDE DEF on
    <3>2. NoWatch \in WatchState
      BY <1>1 DEF NoWatch, WatchState
    <3>3. [NoWatch EXCEPT !.on = on, !.timer = idleTimeout] \in WatchState
      BY <3>1, <3>2, RecordTypes
    <3> QED BY <3>3 DEF on
  <2>4. watch' \in [Conn -> WatchState]
    BY <1>6, <2>3, OneConnTypes, LooseNext DEF StartRelay
  <2> QED BY <1>1, <1>6, <2>1, <2>2, <2>4, OneConnTypes, LooseNext DEF StartRelay, HandlerPC
<1>7. CASE FirstResult(c) \/ SecondResult(c)
  <2>1. results' \in [Conn -> Seq({"nil", "error"})]
    <3>1. Tail(results[c]) \in Seq({"nil", "error"})
      BY <1>1, <1>7 DEF FirstResult, SecondResult
    <3> QED BY <1>1, <1>7, <3>1 DEF FirstResult, SecondResult
  <2>2. sock' \in [Conn -> [Side -> LooseSock]]
    BY <1>1, <1>7, OneConnTypes, LooseNext DEF FirstResult, SecondResult, ClosedOnError
  <2>3. WaitForOther(c) \in HandlerState /\ [pc |-> "end", timer |-> 0] \in HandlerState
    BY <1>1 DEF WaitForOther, HandlerState, HandlerPC
  <2>4. handler' \in [Conn -> HandlerState]
    BY <1>7, <2>3, OneConnTypes, LooseNext DEF FirstResult, SecondResult
  <2> QED BY <1>1, <1>7, <2>1, <2>2, <2>4, LooseNext DEF FirstResult, SecondResult
<1>8. CASE DrainTimeout(c)
  BY <1>1, <1>8, OneConnTypes, LooseNext DEF DrainTimeout, ClosedByDrain, HandlerPC
<1> QED BY <1>2, <1>3, <1>4, <1>5, <1>6, <1>7, <1>8 DEF HandlerStep

LEMMA CopierStepType ==
    ASSUME Loose, NEW c \in Conn, NEW s \in Side, CopierStep(c, s)
    PROVE  Loose'
<1>1. /\ slots \in Int /\ idleTimeout \in Nat
      /\ handler \in [Conn -> HandlerState] /\ sock \in [Conn -> [Side -> LooseSock]]
      /\ copier \in [Conn -> [Side -> CopierState]] /\ watch \in [Conn -> WatchState]
      /\ results \in [Conn -> Seq({"nil", "error"})] /\ Other(s) \in Side
  BY LimitAssumption, SideFacts DEF Loose
<1>2. Activity(c) => watch' \in [Conn -> WatchState]
  <2>1. watch[c] \in WatchState /\ 0 \in 0 .. idleTimeout
    BY <1>1
  <2>2. [watch[c] EXCEPT !.active = TRUE, !.quiet = 0] \in WatchState
    BY <2>1, RecordTypes
  <2> QED BY <1>1, <2>2 DEF Activity
<1>3. \A r \in {"nil", "error"} :
        Result(c, s, r) => /\ copier' \in [Conn -> [Side -> CopierState]]
                           /\ results' \in [Conn -> Seq({"nil", "error"})]
  <2>1. NoCopier \in CopierState
    BY DEF NoCopier, CopierState
  <2>2. \A r \in {"nil", "error"} : Append(results[c], r) \in Seq({"nil", "error"})
    BY <1>1
  <2> QED BY <1>1, <2>1, <2>2, OneConnTypes DEF Result
<1>4. CASE ReadChunk(c, s)
  <2>1. copier' \in [Conn -> [Side -> CopierState]]
    <3>1. PICK last \in BOOLEAN : copier' = [copier EXCEPT ![c][s] = ChunkFirst(last)]
      BY <1>4 DEF ReadChunk
    <3>2. ChunkFirst(last) \in CopierState
      BY DEF ChunkFirst, CopierState
    <3> QED BY <3>1, <3>2, OneConnTypes
  <2>2. sock' \in [Conn -> [Side -> LooseSock]]
    <3>1. sock[c][s] \in LooseSock /\ sock[c][s].unread - 1 \in Nat
      BY <1>1, <1>4 DEF ReadChunk, LooseSock
    <3>2. [sock[c][s] EXCEPT !.unread = sock[c][s].unread - 1] \in LooseSock
      BY <3>1, SockTypes
    <3> QED BY <1>1, <1>4, <3>2 DEF ReadChunk
  <2> QED BY <1>1, <1>2, <1>4, <2>1, <2>2, LooseNext DEF ReadChunk
<1>5. CASE ReadEOF(c, s)
  <2>1. [copier[c][s] EXCEPT !.pc = "shut"] \in CopierState
    BY <1>1, RecordTypes
  <2>2. copier' \in [Conn -> [Side -> CopierState]]
    BY <1>1, <1>5, <2>1 DEF ReadEOF
  <2> QED BY <1>1, <1>5, <2>2, LooseNext DEF ReadEOF
<1>6. CASE CopyError(c, s)
  BY <1>1, <1>3, <1>6, LooseNext DEF CopyError
<1>7. CASE WriteChunk(c, s)
  <2>1. copier' \in [Conn -> [Side -> CopierState]]
    <3>1. [pc |-> IF copier[c][s].eof THEN "shut" ELSE "read", eof |-> FALSE] \in CopierState
      BY DEF CopierState
    <3> QED BY <1>1, <1>7, <3>1 DEF WriteChunk
  <2>2. sock' \in [Conn -> [Side -> LooseSock]]
    <3>1. sock[c][Other(s)] \in LooseSock /\ sock[c][Other(s)].given + 1 \in Nat
      BY <1>1 DEF LooseSock
    <3>2. [sock[c][Other(s)] EXCEPT !.given = sock[c][Other(s)].given + 1] \in LooseSock
      BY <3>1, SockTypes
    <3> QED BY <1>1, <1>7, <3>2 DEF WriteChunk
  <2> QED BY <1>1, <1>2, <1>7, <2>1, <2>2, LooseNext DEF WriteChunk
<1>8. CASE CloseWrite(c, s)
  <2>1. [sock[c][Other(s)] EXCEPT !.shut = TRUE] \in LooseSock
    <3>1. sock[c][Other(s)] \in LooseSock
      BY <1>1
    <3> QED BY <3>1, SockTypes
  <2>2. sock' \in [Conn -> [Side -> LooseSock]]
    BY <1>1, <1>8, <2>1 DEF CloseWrite
  <2> QED BY <1>1, <1>3, <1>8, <2>2, LooseNext DEF CloseWrite
<1> QED BY <1>4, <1>5, <1>6, <1>7, <1>8 DEF CopierStep

LEMMA OtherStepType ==
    ASSUME Loose, NEW c \in Conn, NEW s \in Side
    PROVE  WatchStep(c) \/ PeerStep(c, s) \/ Tick => Loose'
<1>1. /\ slots \in Int /\ idleTimeout \in Nat /\ Drain \in Nat /\ MaxChunks \in Nat
      /\ handler \in [Conn -> HandlerState] /\ sock \in [Conn -> [Side -> LooseSock]]
      /\ copier \in [Conn -> [Side -> CopierState]] /\ watch \in [Conn -> WatchState]
      /\ results \in [Conn -> Seq({"nil", "error"})] /\ sock[c][s] \in LooseSock
  BY LimitAssumption DEF Loose
<1>2. NoWatch \in WatchState
  BY <1>1 DEF NoWatch, WatchState
<1>3. CASE WatchActivity(c)
  <2>1. watch[c] \in WatchState /\ idleTimeout \in 0 .. idleTimeout
    BY <1>1
  <2>2. [watch[c] EXCEPT !.active = FALSE, !.timer = idleTimeout] \in WatchState
    BY <2>1, RecordTypes
  <2> QED BY <1>1, <1>3, <2>2, OneConnTypes, LooseNext DEF WatchActivity, Restarted
<1>4. CASE WatchFires(c) \/ WatchDone(c)
  <2>1. watch' \in [Conn -> WatchState]
    BY <1>1, <1>2, <1>4 DEF WatchFires, WatchDone
  <2>2. sock' \in [Conn -> [Side -> LooseSock]]
    BY <1>1, <1>4, OneConnTypes DEF WatchFires, BothCut, WatchDone
  <2> QED BY <1>1, <1>4, <2>1, <2>2, LooseNext DEF WatchFires, WatchDone
<1>5. CASE PeerSends(c, s)
  <2>1. sock[c][s].sent + 1 \in 0 .. MaxChunks /\ sock[c][s].unread + 1 \in Nat
    BY <1>1, <1>5 DEF PeerSends, LooseSock
  <2>2. [sock[c][s] EXCEPT !.sent = sock[c][s].sent + 1, !.unread = sock[c][s].unread + 1] \in LooseSock
    BY <1>1, <2>1, SockTypes
  <2>3. sock' \in [Conn -> [Side -> LooseSock]]
    BY <1>1, <1>5, <2>2 DEF PeerSends
  <2> QED BY <1>1, <1>5, <2>3, LooseNext DEF PeerSends
<1>6. CASE PeerShuts(c, s) \/ PeerBreaks(c, s)
  <2>1. \A p \in {"open", "shut", "broken"} : [sock[c][s] EXCEPT !.peer = p] \in LooseSock
    BY <1>1, SockTypes
  <2>2. sock' \in [Conn -> [Side -> LooseSock]]
    <3>1. \A k \in LooseSock : [sock EXCEPT ![c][s] = k] \in [Conn -> [Side -> LooseSock]]
      BY OneConnTypes
    <3>2. PICK p \in {"open", "shut", "broken"} : sock' = [sock EXCEPT ![c][s].peer = p]
      BY <1>6 DEF PeerShuts, PeerBreaks
    <3> QED BY <1>1, <2>1, <3>1, <3>2
  <2> QED BY <1>1, <1>6, <2>2, LooseNext DEF PeerShuts, PeerBreaks
<1>7. CASE Tick
  <2>1. ASSUME NEW d \in Conn PROVE [handler[d] EXCEPT !.timer = Less(@)] \in HandlerState
    <3>1. handler[d] \in HandlerState /\ Less(handler[d].timer) \in 0 .. Drain
      BY <1>1 DEF HandlerState, Less
    <3> QED BY <3>1, RecordTypes
  <2>2. handler' \in [Conn -> HandlerState]
    BY <1>7, <2>1 DEF Tick
  <2>3. ASSUME NEW d \in Conn
        PROVE  [watch[d] EXCEPT !.timer = Less(@), !.quiet = IF @ = idleTimeout THEN @ ELSE @ + 1]
                 \in WatchState
    <3> DEFINE q == watch[d].quiet
               more == IF q = idleTimeout THEN q ELSE q + 1
    <3>1. watch[d] \in WatchState /\ Less(watch[d].timer) \in 0 .. idleTimeout
          /\ more \in 0 .. idleTimeout
      BY <1>1 DEF WatchState, Less
    <3>2. [watch[d] EXCEPT !.timer = Less(watch[d].timer), !.quiet = more] \in WatchState
      <4> HIDE DEF more
      <4> QED BY <3>1, RecordTypes
    <3> QED BY <3>2
  <2>4. watch' \in [Conn -> WatchState]
    BY <1>2, <1>7, <2>3 DEF Tick
  <2> QED BY <1>1, <1>7, <2>2, <2>4, LooseNext DEF Tick
<1> QED BY <1>3, <1>4, <1>5, <1>6, <1>7 DEF WatchStep, PeerStep

-----------------------------------------------------------------------------
(* The results.                                                             *)

\* Both copiers are at work only while the handler waits for their results.
LEMMA CopiersWork ==
    ASSUME Loose, NEW c \in Conn
    PROVE  /\ Len(results[c]) \in Nat /\ Pending(c) \in Nat
           /\ \A s \in Side : AtWork(copier[c][s]) \in {0, 1}
           /\ Pending(c) = 0 <=> \A s \in Side : copier[c][s].pc = "none"
           /\ ResultsInvAt(c) /\ ~ Relaying(c) =>
                Len(results[c]) = 0 /\ \A s \in Side : copier[c][s].pc = "none"
BY DEF Loose, AtWork, Pending, Side, ResultsInvAt, Relaying

\* A step of one connection leaves the others alone.
LEMMA OneConnResults ==
    ASSUME Loose, ResultsInv, NEW c \in Conn, ResultsInvAt(c)',
           \A p \in Conn \ {c} : /\ handler'[p].pc = handler[p].pc /\ copier'[p] = copier[p]
                                 /\ results'[p] = results[p]
    PROVE  ResultsInv'
BY DEF ResultsInv, ResultsInvAt, Pending

LEMMA HandlerStepResults ==
    ASSUME Loose, ResultsInv, NEW c \in Conn, Accept(c) \/ HandlerStep(c)
    PROVE  ResultsInv'
<1>1. /\ handler \in [Conn -> HandlerState] /\ copier \in [Conn -> [Side -> CopierState]]
      /\ results \in [Conn -> Seq({"nil", "error"})] /\ ResultsInvAt(c)
      /\ Len(results[c]) \in Nat /\ Pending(c) \in Nat /\ handler[c] \in HandlerState
  BY CopiersWork DEF Loose, ResultsInv
<1>2. CASE \/ Accept(c) \/ TakeSlot(c) \/ Reject(c) \/ HandshakeDone(c) \/ HandshakeFails(c)
           \/ OpenSucceeds(c) \/ OpenFails(c) \/ ReplyFails(c) \/ EndConn(c)
  <2>1. PICK l \in {"none", "accept", "handshake", "open", "reply", "end"} : To(c, l)
    BY <1>2 DEF Accept, TakeSlot, Reject, HandshakeDone, HandshakeFails, OpenSucceeds, OpenFails,
       ReplyFails, EndConn
  <2>2. /\ handler[c].pc \notin {"first", "drain", "second"} /\ UNCHANGED <<copier, results>>
    BY <1>2 DEF Accept, TakeSlot, Reject, HandshakeDone, HandshakeFails, OpenSucceeds, OpenFails,
       ReplyFails, EndConn
  <2>3. handler'[c].pc = l /\ \A p \in Conn \ {c} : handler'[p].pc = handler[p].pc
    BY <1>1, <2>1 DEF To, HandlerState
  <2>4. ResultsInvAt(c)'
    BY <1>1, <2>2, <2>3 DEF ResultsInvAt, Pending
  <2> QED BY <2>2, <2>3, <2>4, OneConnResults
<1>3. CASE StartRelay(c)
  <2>1. /\ handler'[c].pc = "first" /\ results'[c] = <<>>
        /\ copier'[c]["client"].pc = "read" /\ copier'[c]["upstream"].pc = "read"
        /\ \A p \in Conn \ {c} : /\ handler'[p].pc = handler[p].pc /\ copier'[p] = copier[p]
                                 /\ results'[p] = results[p]
    BY <1>1, <1>3 DEF StartRelay, To, HandlerState, Side
  <2>2. ResultsInvAt(c)'
    BY <2>1 DEF ResultsInvAt, Pending, AtWork
  <2> QED BY <2>1, <2>2, OneConnResults
<1>4. CASE FirstResult(c) \/ SecondResult(c)
  <2>1. /\ results'[c] = Tail(results[c]) /\ results[c] # <<>> /\ UNCHANGED copier
        /\ \A p \in Conn \ {c} : handler'[p] = handler[p] /\ results'[p] = results[p]
    BY <1>1, <1>4 DEF FirstResult, SecondResult
  <2>2. Len(results'[c]) = Len(results[c]) - 1
    BY <1>1, <2>1
  <2>3. \/ handler[c].pc = "first" /\ handler'[c].pc \in {"drain", "second"}
        \/ handler[c].pc \in {"drain", "second"} /\ handler'[c].pc = "end"
    BY <1>1, <1>4 DEF FirstResult, SecondResult, WaitForOther
  <2>4. ResultsInvAt(c)'
    BY <1>1, <2>1, <2>2, <2>3 DEF ResultsInvAt, Pending
  <2> QED BY <2>1, <2>4, OneConnResults
<1>5. CASE DrainTimeout(c)
  <2>1. /\ handler[c].pc = "drain" /\ handler'[c].pc = "second" /\ UNCHANGED <<copier, results>>
        /\ \A p \in Conn \ {c} : handler'[p].pc = handler[p].pc
    BY <1>1, <1>5 DEF DrainTimeout, To, HandlerState
  <2>2. ResultsInvAt(c)'
    BY <1>1, <2>1 DEF ResultsInvAt, Pending
  <2> QED BY <2>1, <2>2, OneConnResults
<1> QED BY <1>2, <1>3, <1>4, <1>5 DEF HandlerStep

\* A copier that stops leaves its result, one that goes on leaves none.
LEMMA CopierStepResults ==
    ASSUME Loose, ResultsInv, NEW c \in Conn, NEW s \in Side, CopierStep(c, s)
    PROVE  ResultsInv'
<1>1. /\ handler \in [Conn -> HandlerState] /\ copier \in [Conn -> [Side -> CopierState]]
      /\ results \in [Conn -> Seq({"nil", "error"})] /\ ResultsInvAt(c)
      /\ Len(results[c]) \in Nat /\ Pending(c) \in Nat
  BY CopiersWork DEF Loose, ResultsInv
<1>2. /\ copier[c][s].pc # "none" /\ UNCHANGED handler
      /\ \A p \in Conn \ {c} : copier'[p] = copier[p] /\ results'[p] = results[p]
      /\ copier'[c][Other(s)] = copier[c][Other(s)]
  BY <1>1, SideFacts DEF CopierStep, ReadChunk, ReadEOF, CopyError, WriteChunk, CloseWrite, Result
<1>3. AtWork(copier[c][s]) = 1 /\ Pending(c) = 1 + AtWork(copier[c][Other(s)])
  BY <1>1, <1>2, CopiersWork DEF AtWork, Pending, Side, Other
<1>4. (Pending(c))' = AtWork(copier'[c][s]) + AtWork(copier[c][Other(s)])
  BY <1>2, CopierStepType, CopiersWork DEF AtWork, Pending, Side, Other
<1>5. CASE ReadChunk(c, s) \/ ReadEOF(c, s) \/ WriteChunk(c, s)
  <2>1. copier'[c][s].pc # "none" /\ UNCHANGED results
    BY <1>1, <1>5 DEF ReadChunk, ChunkFirst, ReadEOF, WriteChunk, CopierState
  <2>2. ResultsInvAt(c)'
    BY <1>1, <1>2, <1>3, <1>4, <2>1 DEF ResultsInvAt, AtWork
  <2> QED BY <1>2, <2>2, OneConnResults
<1>6. CASE CopyError(c, s) \/ CloseWrite(c, s)
  <2>1. PICK r \in {"nil", "error"} : Result(c, s, r)
    BY <1>6 DEF CopyError, CloseWrite
  <2>2. copier'[c][s].pc = "none" /\ Len(results'[c]) = Len(results[c]) + 1
    BY <1>1, <2>1 DEF Result, NoCopier
  <2>3. AtWork(copier[c][Other(s)]) \in {0, 1}
    BY CopiersWork, SideFacts
  <2>4. ResultsInvAt(c)'
    BY <1>1, <1>2, <1>3, <1>4, <2>2, <2>3 DEF ResultsInvAt, AtWork
  <2> QED BY <1>2, <2>4, OneConnResults
<1> QED BY <1>5, <1>6 DEF CopierStep

LEMMA ResultsStep ==
    ASSUME Loose, ResultsInv, [Next]_vars
    PROVE  ResultsInv'
<1>1. ASSUME NEW c \in Conn, Accept(c) \/ HandlerStep(c) PROVE ResultsInv'
  BY <1>1, HandlerStepResults
<1>2. ASSUME NEW c \in Conn, NEW s \in Side, CopierStep(c, s) PROVE ResultsInv'
  BY <1>2, CopierStepResults
<1>3. ASSUME NEW c \in Conn, NEW s \in Side, WatchStep(c) \/ PeerStep(c, s) PROVE ResultsInv'
  BY <1>3 DEF ResultsInv, ResultsInvAt, Pending, WatchStep, WatchActivity, WatchFires, WatchDone,
     PeerStep, PeerSends, PeerShuts, PeerBreaks
<1>4. CASE Tick
  <2>1. \A c \in Conn : handler'[c].pc = handler[c].pc
    BY <1>4 DEF Tick, Loose, HandlerState
  <2> QED BY <1>4, <2>1 DEF Tick, ResultsInv, ResultsInvAt, Pending
<1>5. CASE UNCHANGED vars
  BY <1>5 DEF vars, ResultsInv, ResultsInvAt, Pending
<1>6. \E s \in Side : TRUE
  BY DEF Side
<1> QED BY <1>1, <1>2, <1>3, <1>4, <1>5, <1>6 DEF Next

-----------------------------------------------------------------------------
(* Delivery.                                                                *)

LEMMA SockFacts ==
    ASSUME Loose, NEW c \in Conn, NEW s \in Side
    PROVE  /\ sock[c] \in [Side -> LooseSock] /\ sock[c][s] \in LooseSock
           /\ sock[c][s].sent \in Nat /\ sock[c][s].unread \in Nat /\ sock[c][s].given \in Nat
           /\ sock[c][s].shut \in BOOLEAN /\ sock[c][s].peer \in {"open", "shut", "broken"}
           /\ copier[c] \in [Side -> CopierState] /\ copier[c][s] \in CopierState
<1>1. MaxChunks \in Nat
  BY LimitAssumption
<1> QED BY <1>1 DEF Loose, LooseSock

\* A step of one connection leaves the others alone.
LEMMA OneConnDelivery ==
    ASSUME DeliveryInv, NEW c \in Conn, NEW s \in Side,
           DeliveryInvAt(c, s)', DeliveryInvAt(c, Other(s))',
           \A p \in Conn \ {c} : /\ handler'[p].pc = handler[p].pc /\ copier'[p] = copier[p]
                                 /\ sock'[p] = sock[p]
    PROVE  DeliveryInv'
<1>1. \A r \in Side : r = s \/ r = Other(s)
  BY DEF Side, Other
<1>2. ASSUME NEW p \in Conn \ {c}, NEW r \in Side PROVE DeliveryInvAt(p, r)'
  <2>1. DeliveryInvAt(p, r)
    BY DEF DeliveryInv
  <2> QED BY <2>1 DEF DeliveryInvAt, Relaying
<1>3. \A r \in Side : DeliveryInvAt(c, r)'
  BY <1>1
<1> QED BY <1>2, <1>3 DEF DeliveryInv

\* Closing a connection takes nothing back.
SameData(k, l) == /\ k.shut = l.shut /\ k.peer = l.peer
                  /\ k.sent = l.sent /\ k.unread = l.unread /\ k.given = l.given

LEMMA SameDataDelivery ==
    ASSUME DeliveryInv, NEW c \in Conn,
           \A s \in Side : SameData(sock'[c][s], sock[c][s]),
           copier'[c] = copier[c],
           Relaying(c) \/ handler[c].pc = "end" => Relaying(c)' \/ handler'[c].pc = "end"
    PROVE  \A s \in Side : DeliveryInvAt(c, s)'
<1> SUFFICES ASSUME NEW s \in Side PROVE DeliveryInvAt(c, s)'
  OBVIOUS
<1>1. DeliveryInvAt(c, s) /\ SameData(sock'[c][s], sock[c][s])
      /\ SameData(sock'[c][Other(s)], sock[c][Other(s)])
  BY SideFacts DEF DeliveryInv
<1> QED BY <1>1 DEF DeliveryInvAt, SameData, Drained

LEMMA BothClosedData ==
    ASSUME Loose, NEW c \in Conn
    PROVE  /\ \A s \in Side : SameData(BothClosed(c)[c][s], sock[c][s]) /\ BothClosed(c)[c][s].closed
           /\ \A p \in Conn \ {c} : BothClosed(c)[p] = sock[p]
<1>1. sock \in [Conn -> [Side -> LooseSock]]
  BY DEF Loose
<1>2. ASSUME NEW s \in Side
      PROVE  BothClosed(c)[c][s] = [sock[c][s] EXCEPT !.closed = TRUE]
  BY <1>1 DEF BothClosed
<1>3. ASSUME NEW s \in Side
      PROVE  SameData(BothClosed(c)[c][s], sock[c][s]) /\ BothClosed(c)[c][s].closed
  <2>1. sock[c][s] \in LooseSock
    BY <1>1
  <2>2. [sock[c][s] EXCEPT !.closed = TRUE].closed = TRUE
    BY <2>1 DEF LooseSock
  <2>3. SameData([sock[c][s] EXCEPT !.closed = TRUE], sock[c][s])
    BY <2>1 DEF SameData, LooseSock
  <2> QED BY <1>2, <2>2, <2>3
<1> QED BY <1>1, <1>3 DEF BothClosed

\* Without copiers and data there is nothing to deliver.
LEMMA FreshDelivery ==
    ASSUME NEW c \in Conn,
           \A s \in Side : copier'[c][s].pc = "none" /\ sock'[c][s] \in {NewSock, NoSock}
    PROVE  \A s \in Side : DeliveryInvAt(c, s)'
<1>1. ASSUME NEW k \in {NewSock, NoSock}
      PROVE  ~ k.shut /\ k.sent = 0 /\ k.unread = 0 /\ k.given = 0
  BY DEF NewSock, NoSock
<1> SUFFICES ASSUME NEW s \in Side PROVE DeliveryInvAt(c, s)'
  OBVIOUS
<1>2. /\ copier'[c][s].pc = "none"
      /\ ~ sock'[c][s].shut /\ sock'[c][s].sent = 0 /\ sock'[c][s].unread = 0
      /\ ~ sock'[c][Other(s)].shut /\ sock'[c][Other(s)].given = 0
  BY <1>1, SideFacts
<1> QED BY <1>2 DEF DeliveryInvAt, InHand

LEMMA HandlerStepDelivery ==
    ASSUME Loose, ResultsInv, DeliveryInv, NEW c \in Conn, Accept(c) \/ HandlerStep(c)
    PROVE  DeliveryInv'
<1>1. /\ handler \in [Conn -> HandlerState] /\ sock \in [Conn -> [Side -> LooseSock]]
      /\ copier \in [Conn -> [Side -> CopierState]] /\ ResultsInvAt(c)
      /\ "client" \in Side
  BY DEF Loose, ResultsInv, Side
<1>2. ASSUME \A s \in Side : DeliveryInvAt(c, s)',
             \A p \in Conn \ {c} : /\ handler'[p].pc = handler[p].pc /\ copier'[p] = copier[p]
                                   /\ sock'[p] = sock[p]
      PROVE  DeliveryInv'
  BY <1>1, <1>2, OneConnDelivery, SideFacts
<1>3. CASE Accept(c) \/ Reject(c) \/ EndConn(c)
  <2>1. /\ UNCHANGED copier /\ \A s \in Side : copier[c][s].pc = "none"
        /\ \A p \in Conn \ {c} : handler'[p].pc = handler[p].pc /\ sock'[p] = sock[p]
    BY <1>1, <1>3, CopiersWork DEF Accept, Reject, EndConn, To, Relaying
  <2>2. \A s \in Side : sock'[c][s] \in {NewSock, NoSock}
    BY <1>1, <1>3 DEF Accept, Reject, EndConn, Side
  <2> QED BY <1>2, <2>1, <2>2, FreshDelivery
<1>4. CASE \/ TakeSlot(c) \/ HandshakeDone(c) \/ HandshakeFails(c) \/ OpenFails(c) \/ ReplyFails(c)
  <2>1. UNCHANGED <<sock, copier>> /\ ~ Relaying(c) /\ handler[c].pc # "end"
        /\ \A p \in Conn \ {c} : handler'[p].pc = handler[p].pc
    BY <1>1, <1>4 DEF TakeSlot, HandshakeDone, HandshakeFails, OpenFails, ReplyFails, Relaying, To,
       HandlerState
  <2>2. \A s \in Side : SameData(sock'[c][s], sock[c][s])
    BY <2>1 DEF SameData
  <2> QED BY <1>2, <2>1, <2>2, SameDataDelivery
<1>5. CASE OpenSucceeds(c)
  <2>1. /\ UNCHANGED copier /\ ~ Relaying(c) /\ handler[c].pc # "end"
        /\ \A p \in Conn \ {c} : handler'[p].pc = handler[p].pc /\ sock'[p] = sock[p]
    BY <1>1, <1>5 DEF OpenSucceeds, Relaying, To, HandlerState
  <2>2. \A s \in Side : copier'[c][s].pc = "none"
    BY <1>1, <2>1, CopiersWork
  <2>3. sock'[c]["client"] = sock[c]["client"] /\ sock'[c]["upstream"] = NewSock
    BY <1>1, <1>5 DEF OpenSucceeds, Side
  <2>4. /\ ~ sock[c]["client"].shut /\ sock[c]["client"].sent = 0
        /\ sock[c]["client"].unread = 0 /\ sock[c]["client"].given = 0
    <3>1. DeliveryInvAt(c, "client") /\ DeliveryInvAt(c, "upstream") /\ Other("client") = "upstream"
          /\ Other("upstream") = "client"
      BY DEF DeliveryInv, Side, Other
    <3>2. /\ sock[c]["client"].unread \in Nat /\ sock[c]["client"].given \in Nat
          /\ sock[c]["upstream"].unread \in Nat /\ sock[c]["upstream"].given \in Nat
      BY SockFacts DEF Side
    <3>3. sock[c]["client"].sent = 0 /\ sock[c]["upstream"].sent = 0
      BY <2>1, <3>1 DEF DeliveryInvAt
    <3>4. /\ sock[c]["client"].unread + InHand(copier[c]["client"]) + sock[c]["upstream"].given
               <= sock[c]["client"].sent
          /\ sock[c]["upstream"].unread + InHand(copier[c]["upstream"]) + sock[c]["client"].given
               <= sock[c]["upstream"].sent
      BY <3>1 DEF DeliveryInvAt
    <3>5. InHand(copier[c]["client"]) = 0 /\ InHand(copier[c]["upstream"]) = 0
      BY <1>1, <2>1, CopiersWork DEF InHand, Side
    <3>6. sock[c]["client"].unread = 0 /\ sock[c]["client"].given = 0
      BY <3>2, <3>3, <3>4, <3>5
    <3>7. ~ sock[c]["client"].shut
      BY <2>1, <3>1 DEF DeliveryInvAt
    <3> QED BY <3>3, <3>6, <3>7
  <2>5. /\ ~ NewSock.shut /\ NewSock.sent = 0 /\ NewSock.unread = 0 /\ NewSock.given = 0
    BY DEF NewSock
  <2>6. DeliveryInvAt(c, "client")' /\ DeliveryInvAt(c, "upstream")'
    BY <2>2, <2>3, <2>4, <2>5 DEF DeliveryInvAt, InHand, Side, Other
  <2> QED BY <1>2, <2>1, <2>6 DEF Side
<1>6. CASE StartRelay(c)
  <2>1. /\ UNCHANGED sock /\ ~ Relaying(c) /\ handler[c].pc # "end" /\ Relaying(c)'
        /\ \A s \in Side : copier'[c][s].pc = "read"
        /\ \A p \in Conn \ {c} : handler'[p].pc = handler[p].pc /\ copier'[p] = copier[p]
    BY <1>1, <1>6 DEF StartRelay, Relaying, To, HandlerState
  <2>2. ASSUME NEW s \in Side PROVE DeliveryInvAt(c, s)'
    <3>1. DeliveryInvAt(c, s) /\ DeliveryInvAt(c, Other(s))
      BY SideFacts DEF DeliveryInv
    <3>2. /\ sock[c][s].unread \in Nat /\ sock[c][Other(s)].given \in Nat
          /\ sock[c][s].sent \in Nat
      BY SockFacts, SideFacts
    <3>3. /\ sock[c][s].sent = 0 /\ ~ sock[c][Other(s)].shut
          /\ sock[c][s].unread + InHand(copier[c][s]) + sock[c][Other(s)].given <= sock[c][s].sent
      BY <2>1, <3>1 DEF DeliveryInvAt
    <3>4. copier[c][s].pc = "none" /\ InHand(copier[c][s]) = 0
      BY <1>1, <2>1, CopiersWork DEF InHand
    <3>5. sock[c][s].unread = 0 /\ sock[c][Other(s)].given = 0
      BY <3>2, <3>3, <3>4
    <3>6. copier'[c][s].pc = "read" /\ InHand(copier'[c][s]) = 0
      BY <2>1 DEF InHand
    <3> QED BY <2>1, <3>3, <3>5, <3>6 DEF DeliveryInvAt
  <2> QED BY <1>2, <2>1, <2>2
<1>7. CASE FirstResult(c) \/ SecondResult(c) \/ DrainTimeout(c)
  <2>1. /\ UNCHANGED copier
        /\ Relaying(c)' \/ handler'[c].pc = "end"
        /\ \A p \in Conn \ {c} : handler'[p].pc = handler[p].pc
    BY <1>1, <1>7 DEF FirstResult, SecondResult, DrainTimeout, To, Relaying, WaitForOther, HandlerState
  <2>2. sock' \in {sock, BothClosed(c)}
    BY <1>7 DEF FirstResult, SecondResult, DrainTimeout, ClosedOnError, ClosedByDrain
  <2>3. \A s \in Side : SameData(sock'[c][s], sock[c][s])
    BY <2>2, BothClosedData DEF SameData
  <2>4. \A p \in Conn \ {c} : sock'[p] = sock[p]
    BY <2>2, BothClosedData
  <2> QED BY <1>2, <2>1, <2>3, <2>4, SameDataDelivery
<1> QED BY <1>3, <1>4, <1>5, <1>6, <1>7 DEF HandlerStep

\* A chunk moves from unread to the hand and on to the other peer, the end of the
\* stream comes after it, and a copier that dies keeps its chunk.
LEMMA CopierStepDelivery ==
    ASSUME Loose, ResultsInv, DeliveryInv, NEW c \in Conn, NEW s \in Side, CopierStep(c, s)
    PROVE  DeliveryInv'
<1> DEFINE o == Other(s)
<1>1. /\ handler \in [Conn -> HandlerState] /\ sock \in [Conn -> [Side -> LooseSock]]
      /\ copier \in [Conn -> [Side -> CopierState]] /\ ResultsInvAt(c)
      /\ o \in Side /\ o # s /\ Other(o) = s
      /\ DeliveryInvAt(c, s) /\ DeliveryInvAt(c, o)
  BY SideFacts DEF Loose, ResultsInv, DeliveryInv
<1>2. /\ sock[c][s].sent \in Nat /\ sock[c][s].unread \in Nat /\ sock[c][s].given \in Nat
      /\ sock[c][o].sent \in Nat /\ sock[c][o].unread \in Nat /\ sock[c][o].given \in Nat
      /\ sock[c][s] \in LooseSock /\ sock[c][o] \in LooseSock
      /\ copier[c][s] \in CopierState
  BY <1>1, SockFacts
<1>3. /\ copier[c][s].pc # "none" /\ UNCHANGED handler
      /\ \A p \in Conn \ {c} : copier'[p] = copier[p] /\ sock'[p] = sock[p]
      /\ copier'[c][o] = copier[c][o]
  BY <1>1 DEF CopierStep, ReadChunk, ReadEOF, CopyError, WriteChunk, CloseWrite, Result
<1>4. Relaying(c) /\ Relaying(c)'
  <2>1. Relaying(c)
    BY <1>1, <1>3, CopiersWork
  <2> QED BY <1>3, <2>1 DEF Relaying
<1>5. SUFFICES DeliveryInvAt(c, s)' /\ DeliveryInvAt(c, o)'
  BY <1>3, OneConnDelivery
<1>6. /\ ~ sock[c][o].shut
      /\ sock[c][s].unread + InHand(copier[c][s]) + sock[c][o].given = sock[c][s].sent
      /\ copier[c][s].pc = "shut" \/ (copier[c][s].pc = "write" /\ copier[c][s].eof) => Drained(sock[c][s])
  BY <1>1, <1>3 DEF DeliveryInvAt
<1>7. CASE ReadChunk(c, s)
  <2>1. PICK last \in BOOLEAN :
          /\ last => sock[c][s].unread = 1 /\ sock[c][s].peer = "shut"
          /\ copier' = [copier EXCEPT ![c][s] = ChunkFirst(last)]
    BY <1>7 DEF ReadChunk
  <2>2. copier'[c][s].pc = "write" /\ copier'[c][s].eof = last
    BY <1>1, <2>1 DEF ChunkFirst
  <2>3. sock'[c][s] = [sock[c][s] EXCEPT !.unread = @ - 1] /\ sock'[c][o] = sock[c][o]
    BY <1>1, <1>7 DEF ReadChunk
  <2>4. /\ sock'[c][s].unread = sock[c][s].unread - 1 /\ sock'[c][s].sent = sock[c][s].sent
        /\ sock'[c][s].given = sock[c][s].given /\ sock'[c][s].peer = sock[c][s].peer
        /\ sock'[c][s].shut = sock[c][s].shut
    BY <1>2, <2>3 DEF LooseSock
  <2>5. InHand(copier[c][s]) = 0 /\ InHand(copier'[c][s]) = 1
    BY <1>7, <2>2 DEF ReadChunk, InHand
  <2>6. sock'[c][s].unread + InHand(copier'[c][s]) + sock'[c][o].given = sock'[c][s].sent
    BY <1>2, <1>6, <2>3, <2>4, <2>5
  <2>7. last => Drained(sock'[c][s])
    BY <2>1, <2>4 DEF Drained
  <2>8. DeliveryInvAt(c, s)'
    <3>1. sock'[c][s].unread + InHand(copier'[c][s]) + sock'[c][o].given <= sock'[c][s].sent
      BY <1>2, <2>4, <2>6
    <3> QED BY <1>4, <1>6, <2>2, <2>3, <2>6, <2>7, <3>1 DEF DeliveryInvAt
  <2>9. DeliveryInvAt(c, o)'
    BY <1>1, <1>3, <1>4, <2>3, <2>4 DEF DeliveryInvAt
  <2> QED BY <2>8, <2>9
<1>8. CASE ReadEOF(c, s)
  <2>1. copier'[c][s].pc = "shut" /\ copier[c][s].pc = "read" /\ UNCHANGED sock
        /\ Drained(sock[c][s])
    BY <1>1, <1>2, <1>8 DEF ReadEOF, Drained, CopierState
  <2>2. InHand(copier[c][s]) = 0 /\ InHand(copier'[c][s]) = 0
    BY <2>1 DEF InHand
  <2>3. DeliveryInvAt(c, s)'
    BY <1>1, <1>4, <1>6, <2>1, <2>2 DEF DeliveryInvAt
  <2>4. DeliveryInvAt(c, o)'
    BY <1>1, <1>3, <1>4, <2>1 DEF DeliveryInvAt
  <2> QED BY <2>3, <2>4
<1>9. CASE CopyError(c, s)
  <2>1. copier'[c][s].pc = "none" /\ UNCHANGED sock
    BY <1>1, <1>9 DEF CopyError, Result, NoCopier
  <2>2. InHand(copier[c][s]) \in {0, 1} /\ InHand(copier'[c][s]) = 0
    BY <2>1 DEF InHand
  <2>3. sock[c][s].unread + InHand(copier'[c][s]) + sock[c][o].given <= sock[c][s].sent
    BY <1>2, <1>6, <2>2
  <2>4. DeliveryInvAt(c, s)'
    BY <1>4, <1>6, <2>1, <2>3 DEF DeliveryInvAt
  <2>5. DeliveryInvAt(c, o)'
    BY <1>1, <1>3, <1>4, <2>1 DEF DeliveryInvAt
  <2> QED BY <2>4, <2>5
<1>10. CASE WriteChunk(c, s)
  <2>1. /\ copier'[c][s].pc = IF copier[c][s].eof THEN "shut" ELSE "read"
        /\ copier'[c][s].eof = FALSE /\ copier[c][s].pc = "write"
    BY <1>1, <1>10 DEF WriteChunk
  <2>2. sock'[c][o] = [sock[c][o] EXCEPT !.given = @ + 1] /\ sock'[c][s] = sock[c][s]
    BY <1>1, <1>10 DEF WriteChunk
  <2>3. /\ sock'[c][o].given = sock[c][o].given + 1 /\ sock'[c][o].sent = sock[c][o].sent
        /\ sock'[c][o].unread = sock[c][o].unread /\ sock'[c][o].peer = sock[c][o].peer
        /\ sock'[c][o].shut = sock[c][o].shut
    BY <1>2, <2>2 DEF LooseSock
  <2>4. InHand(copier[c][s]) = 1 /\ InHand(copier'[c][s]) = 0
    BY <2>1 DEF InHand
  <2>5. sock'[c][s].unread + InHand(copier'[c][s]) + sock'[c][o].given = sock'[c][s].sent
    BY <1>2, <1>6, <2>2, <2>3, <2>4
  <2>6. DeliveryInvAt(c, s)'
    <3>1. sock'[c][s].unread + InHand(copier'[c][s]) + sock'[c][o].given <= sock'[c][s].sent
      BY <1>2, <2>2, <2>5
    <3> QED BY <1>4, <1>6, <2>1, <2>2, <2>3, <2>5, <3>1 DEF DeliveryInvAt
  <2>7. DeliveryInvAt(c, o)'
    BY <1>1, <1>3, <1>4, <2>2, <2>3 DEF DeliveryInvAt, Drained
  <2> QED BY <2>6, <2>7
<1>11. CASE CloseWrite(c, s)
  <2>1. copier'[c][s].pc = "none" /\ copier[c][s].pc = "shut"
    BY <1>1, <1>11 DEF CloseWrite, Result, NoCopier
  <2>2. sock'[c][o] = [sock[c][o] EXCEPT !.shut = TRUE] /\ sock'[c][s] = sock[c][s]
    BY <1>1, <1>11 DEF CloseWrite
  <2>3. /\ sock'[c][o].given = sock[c][o].given /\ sock'[c][o].sent = sock[c][o].sent
        /\ sock'[c][o].unread = sock[c][o].unread /\ sock'[c][o].peer = sock[c][o].peer
    BY <1>2, <2>2 DEF LooseSock
  <2>4. InHand(copier[c][s]) = 0 /\ InHand(copier'[c][s]) = 0 /\ Drained(sock[c][s])
    BY <1>6, <2>1 DEF InHand
  <2>5. /\ sock[c][o].given = sock[c][s].sent
        /\ sock'[c][s].unread + InHand(copier'[c][s]) + sock'[c][o].given <= sock'[c][s].sent
    BY <1>2, <1>6, <2>2, <2>3, <2>4 DEF Drained
  <2>6. DeliveryInvAt(c, s)'
    BY <1>4, <2>1, <2>2, <2>3, <2>4, <2>5 DEF DeliveryInvAt
  <2>7. DeliveryInvAt(c, o)'
    BY <1>1, <1>3, <1>4, <2>2, <2>3 DEF DeliveryInvAt, Drained
  <2> QED BY <2>6, <2>7
<1> QED BY <1>7, <1>8, <1>9, <1>10, <1>11 DEF CopierStep

\* A peer whose stream has ended sends no more.
LEMMA PeerStepDelivery ==
    ASSUME Loose, DeliveryInv, NEW c \in Conn, NEW s \in Side, PeerStep(c, s)
    PROVE  DeliveryInv'
<1> DEFINE o == Other(s)
<1>1. /\ sock \in [Conn -> [Side -> LooseSock]]
      /\ o \in Side /\ o # s /\ Other(o) = s
      /\ DeliveryInvAt(c, s) /\ DeliveryInvAt(c, o)
  BY SideFacts DEF Loose, DeliveryInv
<1>2. /\ sock[c][s].sent \in Nat /\ sock[c][s].unread \in Nat /\ sock[c][s].given \in Nat
      /\ sock[c][o].given \in Nat /\ sock[c][s] \in LooseSock
  BY <1>1, SockFacts
<1>3. /\ Relaying(c) /\ UNCHANGED <<handler, copier>> /\ Relaying(c)'
      /\ \A p \in Conn \ {c} : sock'[p] = sock[p]
      /\ sock'[c][o] = sock[c][o]
  BY <1>1 DEF PeerStep, PeerSends, PeerShuts, PeerBreaks, Relaying
<1>4. SUFFICES DeliveryInvAt(c, s)' /\ DeliveryInvAt(c, o)'
  BY <1>3, OneConnDelivery
<1>5. CASE PeerSends(c, s)
  <2>1. sock'[c][s] = [sock[c][s] EXCEPT !.sent = @ + 1, !.unread = @ + 1]
    BY <1>1, <1>5 DEF PeerSends
  <2>2. /\ sock'[c][s].unread = sock[c][s].unread + 1 /\ sock'[c][s].sent = sock[c][s].sent + 1
        /\ sock'[c][s].given = sock[c][s].given /\ sock'[c][s].shut = sock[c][s].shut
    BY <1>2, <2>1 DEF LooseSock
  <2>3. /\ ~ Drained(sock[c][s]) /\ ~ sock[c][o].shut
        /\ ~ (copier[c][s].pc = "shut" \/ (copier[c][s].pc = "write" /\ copier[c][s].eof))
    BY <1>1, <1>5 DEF PeerSends, Drained, DeliveryInvAt
  <2>4. InHand(copier[c][s]) \in Nat
    BY DEF InHand
  <2>5. /\ sock'[c][s].unread + InHand(copier[c][s]) + sock[c][o].given <= sock'[c][s].sent
        /\ copier[c][s].pc # "none" =>
             sock'[c][s].unread + InHand(copier[c][s]) + sock[c][o].given = sock'[c][s].sent
    <3>1. /\ sock[c][s].unread + InHand(copier[c][s]) + sock[c][o].given <= sock[c][s].sent
          /\ copier[c][s].pc # "none" =>
               sock[c][s].unread + InHand(copier[c][s]) + sock[c][o].given = sock[c][s].sent
      BY <1>1 DEF DeliveryInvAt
    <3> QED BY <1>2, <2>2, <2>4, <3>1
  <2>6. DeliveryInvAt(c, s)'
    BY <1>3, <2>3, <2>5 DEF DeliveryInvAt
  <2>7. DeliveryInvAt(c, o)'
    BY <1>1, <1>3, <2>2 DEF DeliveryInvAt
  <2> QED BY <2>6, <2>7
<1>6. CASE PeerShuts(c, s) \/ PeerBreaks(c, s)
  <2>1. PICK p \in {"shut", "broken"} : sock'[c][s] = [sock[c][s] EXCEPT !.peer = p]
    BY <1>1, <1>6 DEF PeerShuts, PeerBreaks
  <2>2. /\ sock'[c][s].unread = sock[c][s].unread /\ sock'[c][s].sent = sock[c][s].sent
        /\ sock'[c][s].given = sock[c][s].given /\ sock'[c][s].shut = sock[c][s].shut
        /\ sock'[c][s].peer \in {"shut", "broken"}
    BY <1>2, <2>1 DEF LooseSock
  <2>3. DeliveryInvAt(c, s)'
    BY <1>1, <1>3, <2>2 DEF DeliveryInvAt, Drained
  <2>4. DeliveryInvAt(c, o)'
    BY <1>1, <1>3, <2>2 DEF DeliveryInvAt
  <2> QED BY <2>3, <2>4
<1> QED BY <1>5, <1>6 DEF PeerStep

LEMMA DeliveryStep ==
    ASSUME Loose, ResultsInv, DeliveryInv, [Next]_vars
    PROVE  DeliveryInv'
<1>1. ASSUME NEW c \in Conn, Accept(c) \/ HandlerStep(c) PROVE DeliveryInv'
  BY <1>1, HandlerStepDelivery
<1>2. ASSUME NEW c \in Conn, NEW s \in Side, CopierStep(c, s) \/ PeerStep(c, s) PROVE DeliveryInv'
  BY <1>2, CopierStepDelivery, PeerStepDelivery
<1>3. ASSUME NEW c \in Conn, WatchStep(c) PROVE DeliveryInv'
  <2>1. UNCHANGED <<handler, copier>> /\ sock' \in {sock, BothClosed(c)}
    BY <1>3 DEF WatchStep, WatchActivity, WatchFires, WatchDone, BothCut
  <2>2. \A s \in Side : SameData(sock'[c][s], sock[c][s])
    BY <2>1, BothClosedData DEF SameData
  <2>3. \A p \in Conn \ {c} : sock'[p] = sock[p]
    BY <2>1, BothClosedData
  <2>4. \A s \in Side : DeliveryInvAt(c, s)'
    BY <2>1, <2>2, SameDataDelivery DEF Relaying
  <2>5. "client" \in Side /\ Other("client") \in Side
    BY SideFacts DEF Side
  <2> QED BY <2>1, <2>3, <2>4, <2>5, OneConnDelivery
<1>4. CASE Tick \/ UNCHANGED vars
  <2>1. UNCHANGED <<sock, copier>> /\ \A c \in Conn : handler'[c].pc = handler[c].pc
    BY <1>4 DEF Tick, vars, Loose, HandlerState
  <2> QED BY <2>1 DEF DeliveryInv, DeliveryInvAt, Relaying
<1> QED BY <1>1, <1>2, <1>3, <1>4 DEF Next

-----------------------------------------------------------------------------
(* The idle timer.                                                          *)

\* Data that moves leaves an event, the event restarts the timer, and a tick takes
\* from the timer what it adds to the quiet time.
LEMMA WatchInvStep ==
    ASSUME Loose, WatchInv, [Next]_vars
    PROVE  WatchInv'
<1>1. /\ idleTimeout \in Nat /\ UNCHANGED idleTimeout /\ watch \in [Conn -> WatchState]
      /\ \A c \in Conn : watch[c].timer \in Nat /\ watch[c].quiet \in Nat
  <2>1. idleTimeout \in Nat /\ watch \in [Conn -> WatchState]
    BY LimitAssumption DEF Loose
  <2>2. UNCHANGED idleTimeout
    <3>1. ASSUME NEW c \in Conn, Accept(c) \/ HandlerStep(c) PROVE UNCHANGED idleTimeout
      BY <3>1 DEF Accept, HandlerStep, TakeSlot, Reject, HandshakeDone, HandshakeFails, OpenSucceeds,
         OpenFails, ReplyFails, StartRelay, FirstResult, DrainTimeout, SecondResult, EndConn
    <3>2. ASSUME NEW c \in Conn, NEW s \in Side, CopierStep(c, s) \/ PeerStep(c, s)
          PROVE  UNCHANGED idleTimeout
      BY <3>2 DEF CopierStep, ReadChunk, ReadEOF, CopyError, WriteChunk, CloseWrite, PeerStep,
         PeerSends, PeerShuts, PeerBreaks
    <3>3. ASSUME NEW c \in Conn, WatchStep(c) PROVE UNCHANGED idleTimeout
      BY <3>3 DEF WatchStep, WatchActivity, WatchFires, WatchDone
    <3>4. Tick \/ UNCHANGED vars => UNCHANGED idleTimeout
      BY DEF Tick, vars
    <3> QED BY <3>1, <3>2, <3>3, <3>4 DEF Next
  <2>3. \A c \in Conn : watch[c].timer \in Nat /\ watch[c].quiet \in Nat
    BY <2>1 DEF WatchState
  <2> QED BY <2>1, <2>2, <2>3
<1>2. ASSUME NEW c \in Conn, StartRelay(c) \/ WatchActivity(c) PROVE WatchInv'
  <2>1. watch'[c].timer = idleTimeout /\ watch'[c].quiet \in Nat
        /\ \A p \in Conn \ {c} : watch'[p] = watch[p]
    <3>1. CASE StartRelay(c)
      BY <1>1, <3>1 DEF StartRelay, NoWatch
    <3>2. CASE WatchActivity(c)
      BY <1>1, <3>2 DEF WatchActivity, Restarted, WatchState
    <3> QED BY <1>2, <3>1, <3>2
  <2>2. watch'[c].timer + watch'[c].quiet >= idleTimeout
    BY <1>1, <2>1
  <2> QED BY <1>1, <2>1, <2>2 DEF WatchInv
<1>3. ASSUME NEW c \in Conn, Activity(c) PROVE WatchInv'
  <2>1. UNCHANGED watch \/ watch' = [watch EXCEPT ![c].active = TRUE, ![c].quiet = 0]
    BY <1>3 DEF Activity
  <2>2. CASE UNCHANGED watch
    BY <1>1, <2>2 DEF WatchInv
  <2>3. CASE watch' = [watch EXCEPT ![c].active = TRUE, ![c].quiet = 0]
    <3>1. watch'[c].active /\ \A p \in Conn \ {c} : watch'[p] = watch[p]
      BY <1>1, <2>3 DEF WatchState
    <3> QED BY <1>1, <3>1 DEF WatchInv
  <2> QED BY <2>1, <2>2, <2>3
<1>4. ASSUME NEW c \in Conn, WatchFires(c) \/ WatchDone(c) PROVE WatchInv'
  <2>1. ~ watch'[c].on /\ \A p \in Conn \ {c} : watch'[p] = watch[p]
    BY <1>1, <1>4 DEF WatchFires, WatchDone, NoWatch
  <2> QED BY <1>1, <2>1 DEF WatchInv
<1>5. CASE Tick
  <2> SUFFICES ASSUME NEW c \in Conn, watch'[c].on, ~ watch'[c].active
               PROVE  watch'[c].timer + watch'[c].quiet >= idleTimeout
    BY <1>1 DEF WatchInv
  <2>1. watch[c].on
    BY <1>5 DEF Tick, NoWatch
  <2>2. watch'[c] = [watch[c] EXCEPT !.timer = Less(@),
                                     !.quiet = IF @ = idleTimeout THEN @ ELSE @ + 1]
    BY <1>5, <2>1 DEF Tick
  <2>3. /\ watch'[c].active = watch[c].active /\ watch'[c].timer = Less(watch[c].timer)
        /\ watch'[c].quiet = IF watch[c].quiet = idleTimeout THEN idleTimeout ELSE watch[c].quiet + 1
    BY <1>1, <2>2 DEF WatchState
  <2>4. watch[c].timer + watch[c].quiet >= idleTimeout
    BY <2>1, <2>3 DEF WatchInv
  <2> QED BY <1>1, <2>3, <2>4 DEF Less
<1>6. ASSUME UNCHANGED watch PROVE WatchInv'
  BY <1>1, <1>6 DEF WatchInv
<1>7. ASSUME NEW c \in Conn, Accept(c) \/ (HandlerStep(c) /\ ~ StartRelay(c)) PROVE UNCHANGED watch
  BY <1>7 DEF Accept, HandlerStep, TakeSlot, Reject, HandshakeDone, HandshakeFails, OpenSucceeds,
     OpenFails, ReplyFails, FirstResult, DrainTimeout, SecondResult, EndConn
<1>8. ASSUME NEW c \in Conn, NEW s \in Side, CopierStep(c, s) \/ PeerStep(c, s)
      PROVE  Activity(c) \/ UNCHANGED watch
  BY <1>8 DEF CopierStep, ReadChunk, ReadEOF, CopyError, WriteChunk, CloseWrite, PeerStep, PeerSends,
     PeerShuts, PeerBreaks
<1>9. UNCHANGED vars => UNCHANGED watch
  BY DEF vars
<1> QED BY <1>2, <1>3, <1>4, <1>5, <1>6, <1>7, <1>8, <1>9 DEF Next, WatchStep

-----------------------------------------------------------------------------
(* The places.                                                              *)

LEMMA ServedFinite == IsFiniteSet(Served) /\ Cardinality(Served) \in Nat
<1>1. Served \subseteq Conn
  BY DEF Served
<1> QED BY <1>1, ConnAssumption, FS_Subset, FS_CardinalityType

\* Only taking a place makes a connection served, and only the end of its handler
\* makes it unserved.
LEMMA ServedStep ==
    ASSUME Loose, SlotsMatchServed, [Next]_vars
    PROVE  SlotsMatchServed'
<1>1. /\ handler \in [Conn -> HandlerState] /\ MaxConns \in Nat /\ slots \in Int
  BY LimitAssumption DEF Loose
<1>2. IsFiniteSet(Served) /\ Cardinality(Served) \in Nat
  BY ServedFinite
<1>3. ASSUME NEW c \in Conn, TakeSlot(c) PROVE SlotsMatchServed'
  <2>1. c \notin Served /\ Served' = Served \cup {c}
    BY <1>1, <1>3 DEF TakeSlot, To, Served, HandlerState
  <2>2. Cardinality(Served') = Cardinality(Served) + 1
    BY <1>2, <2>1, FS_AddElement
  <2> QED BY <1>1, <1>2, <1>3, <2>2 DEF TakeSlot, SlotFree, SlotsMatchServed
<1>4. ASSUME NEW c \in Conn, EndConn(c) PROVE SlotsMatchServed'
  <2>1. c \in Served /\ Served' = Served \ {c}
    BY <1>1, <1>4 DEF EndConn, To, Served, HandlerState
  <2>2. Cardinality(Served') = Cardinality(Served) - 1
    BY <1>2, <2>1, FS_RemoveElement
  <2> QED BY <1>1, <1>2, <1>4, <2>2 DEF EndConn, SlotReturned, SlotsMatchServed
<1>5. ASSUME NEW c \in Conn, Accept(c) \/ (HandlerStep(c) /\ ~ TakeSlot(c) /\ ~ EndConn(c))
      PROVE  Served' = Served /\ UNCHANGED slots
  <2>1. CASE \/ Accept(c) \/ Reject(c) \/ HandshakeDone(c) \/ HandshakeFails(c) \/ OpenSucceeds(c)
             \/ OpenFails(c) \/ ReplyFails(c) \/ StartRelay(c) \/ DrainTimeout(c)
    BY <1>1, <2>1 DEF Served, HandlerState, To, Accept, Reject, HandshakeDone, HandshakeFails,
       OpenSucceeds, OpenFails, ReplyFails, StartRelay, DrainTimeout
  <2>2. CASE FirstResult(c) \/ SecondResult(c)
    <3>1. /\ handler[c].pc \notin {"none", "accept"} /\ UNCHANGED slots
          /\ \A d \in Conn \ {c} : handler'[d] = handler[d]
      BY <1>1, <2>2 DEF FirstResult, SecondResult
    <3>2. WaitForOther(c).pc \in {"second", "drain"}
      BY DEF WaitForOther
    <3>3. handler'[c].pc \in {"second", "drain", "end"}
      <4>1. CASE FirstResult(c)
        BY <1>1, <3>2, <4>1 DEF FirstResult
      <4>2. CASE SecondResult(c)
        BY <1>1, <4>2 DEF SecondResult
      <4> QED BY <2>2, <4>1, <4>2
    <3> QED BY <3>1, <3>3 DEF Served
  <2> QED BY <1>5, <2>1, <2>2 DEF HandlerStep
<1>6. ASSUME \/ \E c \in Conn : WatchStep(c)
             \/ \E c \in Conn, s \in Side : CopierStep(c, s) \/ PeerStep(c, s)
             \/ UNCHANGED vars
      PROVE  UNCHANGED <<handler, slots>>
  <2>1. ASSUME NEW c \in Conn, WatchStep(c) PROVE UNCHANGED <<handler, slots>>
    BY <2>1 DEF WatchStep, WatchActivity, WatchFires, WatchDone
  <2>2. ASSUME NEW c \in Conn, NEW s \in Side, CopierStep(c, s) \/ PeerStep(c, s)
        PROVE  UNCHANGED <<handler, slots>>
    BY <2>2 DEF CopierStep, ReadChunk, ReadEOF, CopyError, WriteChunk, CloseWrite, PeerStep,
       PeerSends, PeerShuts, PeerBreaks
  <2> QED BY <1>6, <2>1, <2>2 DEF vars
<1>7. CASE Tick
  <2>1. Served' = Served /\ UNCHANGED slots
    BY <1>1, <1>7 DEF Tick, Served, HandlerState
  <2> QED BY <2>1 DEF SlotsMatchServed
<1>8. ASSUME UNCHANGED <<handler, slots>> PROVE SlotsMatchServed'
  BY <1>8 DEF SlotsMatchServed, Served
<1>9. ASSUME Served' = Served, UNCHANGED slots PROVE SlotsMatchServed'
  BY <1>9 DEF SlotsMatchServed
<1> QED BY <1>3, <1>4, <1>5, <1>6, <1>7, <1>8, <1>9 DEF Next

-----------------------------------------------------------------------------
(* The theorems.                                                            *)

LEMMA InitIInv == Init => IInv
<1> SUFFICES ASSUME Init PROVE IInv
  OBVIOUS
<1>1. Drain \in Nat /\ MaxConns \in Nat /\ idleTimeout \in Nat
  BY LimitAssumption DEF Init
<1>2. NoWatch \in WatchState /\ NoCopier \in CopierState /\ NoSock \in LooseSock
      /\ [pc |-> "none", timer |-> 0] \in HandlerState
  <2>1. NoWatch \in WatchState
    BY <1>1 DEF NoWatch, WatchState
  <2>2. NoCopier \in CopierState /\ [pc |-> "none", timer |-> 0] \in HandlerState
    BY <1>1 DEF NoCopier, CopierState, HandlerState, HandlerPC
  <2> QED BY <2>1, <2>2, SockTypes
<1>3. Loose
  BY <1>2 DEF Init, Loose
<1>4. ResultsInv
  BY DEF Init, ResultsInv, ResultsInvAt, Pending, AtWork, NoCopier, Side
<1>5. DeliveryInv
  <2>1. NoSock.sent = 0 /\ NoSock.unread = 0 /\ NoSock.given = 0 /\ ~ NoSock.shut
    BY DEF NoSock, NewSock
  <2>2. \A c \in Conn, s \in Side : sock[c][s] = NoSock /\ sock[c][Other(s)] = NoSock
                                    /\ copier[c][s].pc = "none"
    BY SideFacts DEF Init, NoCopier
  <2> QED BY <2>1, <2>2 DEF DeliveryInv, DeliveryInvAt, InHand
<1>6. WatchInv
  BY DEF Init, WatchInv, NoWatch
<1>7. SlotsMatchServed
  <2>1. Served = {}
    BY DEF Init, Served
  <2> QED BY <1>1, <2>1, FS_EmptySet DEF Init, SlotsMatchServed
<1> QED BY <1>3, <1>4, <1>5, <1>6, <1>7 DEF IInv

LEMMA IInvStep == IInv /\ [Next]_vars => IInv'
<1> SUFFICES ASSUME IInv, [Next]_vars PROVE IInv'
  OBVIOUS
<1>1. Loose'
  <2>1. ASSUME NEW c \in Conn, Accept(c) \/ HandlerStep(c) PROVE Loose'
    BY <2>1, HandlerStepType DEF IInv
  <2>2. ASSUME NEW c \in Conn, NEW s \in Side, CopierStep(c, s) \/ PeerStep(c, s) PROVE Loose'
    BY <2>2, CopierStepType, OtherStepType DEF IInv
  <2>3. ASSUME NEW c \in Conn, WatchStep(c) \/ Tick PROVE Loose'
    BY <2>3, OtherStepType, SideFacts DEF IInv, Side
  <2>4. UNCHANGED vars => Loose'
    BY LooseNext DEF vars, IInv, Loose
  <2>5. Tick => \E c \in Conn : TRUE
    BY DEF Tick
  <2> QED BY <2>1, <2>2, <2>3, <2>4, <2>5 DEF Next
<1> QED BY <1>1, ResultsStep, DeliveryStep, WatchInvStep, ServedStep DEF IInv

LEMMA AlwaysIInv == Spec => []IInv
BY InitIInv, IInvStep, PTL DEF Spec

\* The bounds of TypeOK: places by the count, chunks by delivery, results by their number.
LEMMA IInvTypes == IInv => TypeOK
<1> SUFFICES ASSUME IInv PROVE TypeOK
  OBVIOUS
<1>1. Loose /\ ResultsInv /\ DeliveryInv /\ SlotsMatchServed
  BY DEF IInv
<1>2. slots \in 0 .. MaxConns
  BY <1>1, ServedFinite, LimitAssumption DEF Loose, SlotsMatchServed
<1>3. ASSUME NEW c \in Conn, NEW s \in Side PROVE sock[c][s] \in SockState
  <2>1. /\ sock[c][s] \in LooseSock /\ sock[c][s].unread \in Nat /\ sock[c][s].given \in Nat
        /\ sock[c][Other(s)].unread \in Nat /\ sock[c][Other(s)].given \in Nat
        /\ Other(s) \in Side /\ Other(Other(s)) = s /\ MaxChunks \in Nat
    BY <1>1, SockFacts, SideFacts, LimitAssumption
  <2>2. sock[c][s].sent \in 0 .. MaxChunks /\ sock[c][Other(s)].sent \in 0 .. MaxChunks
    BY <1>1, <2>1 DEF Loose, LooseSock
  <2>3. /\ sock[c][s].unread + InHand(copier[c][s]) + sock[c][Other(s)].given <= sock[c][s].sent
        /\ sock[c][Other(s)].unread + InHand(copier[c][Other(s)]) + sock[c][s].given
             <= sock[c][Other(s)].sent
    BY <1>1, <2>1 DEF DeliveryInv, DeliveryInvAt
  <2>4. InHand(copier[c][s]) \in Nat /\ InHand(copier[c][Other(s)]) \in Nat
    BY DEF InHand
  <2>5. sock[c][s].unread \in 0 .. MaxChunks /\ sock[c][s].given \in 0 .. MaxChunks
    BY <2>1, <2>2, <2>3, <2>4
  <2> QED BY <2>1, <2>2, <2>5 DEF LooseSock, SockState
<1>4. ASSUME NEW c \in Conn
      PROVE  Len(results[c]) <= 2 /\ \A i \in 1 .. Len(results[c]) : results[c][i] \in {"nil", "error"}
  <2>1. results[c] \in Seq({"nil", "error"}) /\ ResultsInvAt(c)
        /\ Len(results[c]) \in Nat /\ Pending(c) \in Nat
    BY <1>1, CopiersWork DEF Loose, ResultsInv
  <2>2. Len(results[c]) <= 2
    BY <2>1 DEF ResultsInvAt
  <2> QED BY <2>1, <2>2
<1> QED BY <1>1, <1>2, <1>3, <1>4 DEF TypeOK, Loose, HandlerState, SockState, CopierState, WatchState

\* Every reachable state of the server is well typed.
THEOREM TypeCorrect == Spec => []TypeOK
BY AlwaysIInv, IInvTypes, PTL

\* Every connection that is served has one place of connSlots, on every path its
\* handler returns.
THEOREM PlacesAreCounted == Spec => []SlotsMatchServed
<1>1. IInv => SlotsMatchServed
  BY DEF IInv
<1> QED BY <1>1, AlwaysIInv, PTL

\* A peer that is told the end of the stream was given every chunk of it, also when
\* the last chunk and io.EOF came together.
EndMeansDelivered ==
    \A c \in Conn, s \in Side :
      sock[c][Other(s)].shut =>
        /\ sock[c][s].peer \in {"shut", "broken"}
        /\ sock[c][Other(s)].given = sock[c][s].sent

\* The end of a stream is passed on after all of its data.
THEOREM EndComesLast == Spec => []EndMeansDelivered
<1>1. IInv => EndMeansDelivered
  BY DEF IInv, DeliveryInv, DeliveryInvAt, Drained, EndMeansDelivered
<1> QED BY <1>1, AlwaysIInv, PTL

\* The watcher ends a relay only after the idle timeout without data, or in the moment
\* in which data moves again.
THEOREM CutsAreIdle == Spec => IdleCutMeansIdle
<1>1. ASSUME IInv, [Next]_vars, NEW c \in Conn, watch[c].on, Relaying(c), ~ watch'[c].on
      PROVE  watch[c].quiet = idleTimeout \/ watch[c].active
  <2>1. /\ watch \in [Conn -> WatchState] /\ idleTimeout \in Nat /\ WatchInv
        /\ handler \in [Conn -> HandlerState]
    BY <1>1, LimitAssumption DEF IInv, Loose
  <2>2. WatchFires(c)
    <3>1. ASSUME NEW d \in Conn, WatchStep(d) \/ Activity(d) \/ StartRelay(d), d # c PROVE FALSE
      <4>1. watch'[c] = watch[c]
        BY <2>1, <3>1 DEF WatchStep, WatchActivity, WatchFires, WatchDone, Activity, StartRelay
      <4> QED BY <1>1, <4>1
    <3>2. ~ Activity(c) /\ ~ StartRelay(c) /\ ~ WatchActivity(c) /\ ~ WatchDone(c)
      BY <1>1, <2>1 DEF Activity, StartRelay, WatchActivity, WatchDone, Relaying, WatchState
    <3>3. ~ Tick /\ ~ UNCHANGED watch
      BY <1>1, <2>1 DEF Tick, WatchState
    <3>4. ASSUME NEW d \in Conn, Accept(d) \/ (HandlerStep(d) /\ ~ StartRelay(d)) PROVE UNCHANGED watch
      BY <3>4 DEF Accept, HandlerStep, TakeSlot, Reject, HandshakeDone, HandshakeFails, OpenSucceeds,
         OpenFails, ReplyFails, FirstResult, DrainTimeout, SecondResult, EndConn
    <3>5. ASSUME NEW d \in Conn, NEW s \in Side, CopierStep(d, s) \/ PeerStep(d, s)
          PROVE  Activity(d) \/ UNCHANGED watch
      BY <3>5 DEF CopierStep, ReadChunk, ReadEOF, CopyError, WriteChunk, CloseWrite, PeerStep,
         PeerSends, PeerShuts, PeerBreaks
    <3>6. UNCHANGED vars => UNCHANGED watch
      BY DEF vars
    <3> QED BY <1>1, <3>1, <3>2, <3>3, <3>4, <3>5, <3>6 DEF Next, WatchStep
  <2>3. watch[c].timer = 0 /\ watch[c].quiet \in 0 .. idleTimeout
    BY <2>1, <2>2 DEF WatchFires, WatchState
  <2>4. ~ watch[c].active => 0 + watch[c].quiet >= idleTimeout
    BY <1>1, <2>1, <2>3 DEF WatchInv
  <2> QED BY <2>1, <2>3, <2>4
<1>2. IInv /\ [Next]_vars =>
        [\A c \in Conn : watch[c].on /\ Relaying(c) /\ ~ watch'[c].on =>
            watch[c].quiet = idleTimeout \/ watch[c].active]_vars
  BY <1>1
<1> QED BY <1>2, AlwaysIInv, PTL DEF Spec, IdleCutMeansIdle

-----------------------------------------------------------------------------
(* The server is a RelayStream: a step changes one direction, severs a      *)
(* relay, starts it or ends it.                                             *)

\* Before its relay a connection has peers that are there, no watcher of an earlier
\* relay, and connections that nobody has closed; after it they are closed.
FreshInvAt(c) ==
    /\ ~ Relaying(c) /\ handler[c].pc # "end" => \A s \in Side : sock[c][s].peer = "open"
    /\ handler[c].pc \in {"accept", "handshake", "open", "reply"} =>
         ~ watch[c].on /\ ~ sock[c]["client"].closed
    /\ handler[c].pc = "reply" => ~ sock[c]["upstream"].closed
    /\ watch[c].on => idleTimeout > 0
    /\ handler[c].pc = "none" => \A s \in Side : sock[c][s].closed
FreshInv == \A c \in Conn : FreshInvAt(c)

\* What one step does to the sockets of the connection that it is about.
LEMMA FreshHandler ==
    ASSUME Loose, FreshInv, NEW c \in Conn, Accept(c) \/ HandlerStep(c)
    PROVE  FreshInv'
<1>1. /\ handler \in [Conn -> HandlerState] /\ sock \in [Conn -> [Side -> LooseSock]]
      /\ watch \in [Conn -> WatchState] /\ FreshInvAt(c) /\ UNCHANGED idleTimeout
  BY DEF Loose, FreshInv, Accept, HandlerStep, TakeSlot, Reject, HandshakeDone, HandshakeFails,
     OpenSucceeds, OpenFails, ReplyFails, StartRelay, FirstResult, DrainTimeout, SecondResult, EndConn
<1>2. ASSUME FreshInvAt(c)', \A p \in Conn \ {c} : /\ handler'[p].pc = handler[p].pc
                                                  /\ sock'[p] = sock[p] /\ watch'[p] = watch[p]
      PROVE  FreshInv'
  BY <1>1, <1>2 DEF FreshInv, FreshInvAt, Relaying
<1>3. \A l : To(c, l) => handler'[c].pc = l /\ \A p \in Conn \ {c} : handler'[p] = handler[p]
  BY <1>1 DEF To, HandlerState
<1>4. NewSock.peer = "open" /\ NoSock.peer = "open" /\ ~ NewSock.closed /\ NoSock.closed
  BY DEF NewSock, NoSock
<1>5. CASE Accept(c)
  <2>1. /\ handler'[c].pc = "accept" /\ ~ watch'[c].on /\ UNCHANGED watch
        /\ sock'[c]["client"] = NewSock /\ sock'[c]["upstream"] = NoSock
        /\ \A p \in Conn \ {c} : handler'[p] = handler[p] /\ sock'[p] = sock[p]
    BY <1>1, <1>3, <1>5 DEF Accept, Side
  <2>2. FreshInvAt(c)'
    BY <1>1, <1>4, <2>1 DEF FreshInvAt, Side
  <2> QED BY <1>2, <2>1, <2>2
<1>6. CASE Reject(c) \/ EndConn(c)
  <2>1. /\ handler'[c].pc = "none" /\ UNCHANGED watch
        /\ \A s \in Side : sock'[c][s] = NoSock
        /\ \A p \in Conn \ {c} : handler'[p] = handler[p] /\ sock'[p] = sock[p]
    BY <1>1, <1>3, <1>6 DEF Reject, EndConn
  <2>2. FreshInvAt(c)'
    BY <1>1, <1>4, <2>1 DEF FreshInvAt
  <2> QED BY <1>2, <2>1, <2>2
<1>7. CASE TakeSlot(c) \/ HandshakeDone(c) \/ HandshakeFails(c) \/ OpenFails(c) \/ ReplyFails(c)
  <2>1. /\ UNCHANGED <<sock, watch>> /\ handler'[c].pc \in {"handshake", "open", "end"}
        /\ handler[c].pc \in {"accept", "handshake", "open", "reply"}
        /\ \A p \in Conn \ {c} : handler'[p] = handler[p]
    BY <1>3, <1>7 DEF TakeSlot, HandshakeDone, HandshakeFails, OpenFails, ReplyFails
  <2>2. FreshInvAt(c)'
    BY <1>1, <2>1 DEF FreshInvAt, Relaying
  <2> QED BY <1>2, <2>1, <2>2
<1>8. CASE OpenSucceeds(c)
  <2>1. /\ handler[c].pc = "open" /\ handler'[c].pc = "reply" /\ UNCHANGED watch
        /\ sock'[c]["upstream"] = NewSock /\ sock'[c]["client"] = sock[c]["client"]
        /\ \A p \in Conn \ {c} : handler'[p] = handler[p] /\ sock'[p] = sock[p]
    BY <1>1, <1>3, <1>8 DEF OpenSucceeds, Side
  <2>2. FreshInvAt(c)'
    BY <1>1, <1>4, <2>1 DEF FreshInvAt, Relaying, Side
  <2> QED BY <1>2, <2>1, <2>2
<1>9. CASE StartRelay(c)
  <2>1. /\ handler'[c].pc = "first" /\ UNCHANGED sock
        /\ watch'[c].on => idleTimeout > 0
        /\ \A p \in Conn \ {c} : handler'[p] = handler[p] /\ watch'[p] = watch[p]
    BY <1>1, <1>3, <1>9 DEF StartRelay, NoWatch
  <2>2. FreshInvAt(c)'
    BY <1>1, <2>1 DEF FreshInvAt, Relaying
  <2> QED BY <1>2, <2>1, <2>2
<1>10. CASE FirstResult(c) \/ SecondResult(c) \/ DrainTimeout(c)
  <2>1. /\ handler'[c].pc \in {"drain", "second", "end"} /\ UNCHANGED watch
        /\ \A p \in Conn \ {c} : handler'[p].pc = handler[p].pc
    BY <1>1, <1>3, <1>10 DEF FirstResult, SecondResult, DrainTimeout, WaitForOther
  <2>2. \A p \in Conn \ {c} : sock'[p] = sock[p]
    <3>1. sock' \in {sock, BothClosed(c)}
      BY <1>10 DEF FirstResult, SecondResult, DrainTimeout, ClosedOnError, ClosedByDrain
    <3> QED BY <3>1, BothClosedData
  <2>3. FreshInvAt(c)'
    BY <1>1, <2>1 DEF FreshInvAt, Relaying
  <2> QED BY <1>2, <2>1, <2>2, <2>3
<1> QED BY <1>5, <1>6, <1>7, <1>8, <1>9, <1>10 DEF HandlerStep

LEMMA FreshStep == IInv /\ FreshInv /\ [Next]_vars => FreshInv'
<1> SUFFICES ASSUME IInv, FreshInv, [Next]_vars PROVE FreshInv'
  OBVIOUS
<1>1. /\ Loose /\ ResultsInv /\ handler \in [Conn -> HandlerState]
      /\ sock \in [Conn -> [Side -> LooseSock]] /\ watch \in [Conn -> WatchState]
  BY DEF IInv, Loose
<1>2. ASSUME NEW c \in Conn, NEW s \in Side, CopierStep(c, s) PROVE FreshInv'
  <2>1. copier[c][s].pc # "none"
    BY <1>2 DEF CopierStep, ReadChunk, ReadEOF, CopyError, WriteChunk, CloseWrite
  <2>2. Relaying(c) /\ UNCHANGED <<handler, idleTimeout>> /\ FreshInvAt(c)
    <3>1. Relaying(c)
      BY <1>1, <2>1, CopiersWork DEF ResultsInv
    <3> QED BY <1>2, <3>1 DEF CopierStep, ReadChunk, ReadEOF, CopyError, WriteChunk, CloseWrite, FreshInv
  <2>3. \A p \in Conn \ {c} : sock'[p] = sock[p]
    BY <1>1, <1>2 DEF CopierStep, ReadChunk, ReadEOF, CopyError, WriteChunk, CloseWrite
  <2>4. (\A p \in Conn \ {c} : watch'[p] = watch[p]) /\ watch'[c].on = watch[c].on
    <3>1. Activity(c) \/ UNCHANGED watch
      BY <1>2 DEF CopierStep, ReadChunk, ReadEOF, CopyError, WriteChunk, CloseWrite
    <3> QED BY <1>1, <3>1 DEF Activity, WatchState
  <2>5. FreshInvAt(c)'
    BY <2>2, <2>4 DEF FreshInvAt, Relaying
  <2> QED BY <2>2, <2>3, <2>4, <2>5 DEF FreshInv, FreshInvAt, Relaying
<1>3. ASSUME NEW c \in Conn, NEW s \in Side, PeerStep(c, s) PROVE FreshInv'
  <2>1. /\ Relaying(c) /\ UNCHANGED <<handler, idleTimeout, watch>> /\ FreshInvAt(c)
        /\ \A p \in Conn \ {c} : sock'[p] = sock[p]
    BY <1>1, <1>3 DEF PeerStep, PeerSends, PeerShuts, PeerBreaks, FreshInv
  <2>2. FreshInvAt(c)'
    BY <2>1 DEF FreshInvAt, Relaying
  <2> QED BY <2>1, <2>2 DEF FreshInv, FreshInvAt, Relaying
<1>4. ASSUME NEW c \in Conn, WatchStep(c) PROVE FreshInv'
  <2>1. /\ UNCHANGED <<handler, idleTimeout>> /\ watch[c].on /\ FreshInvAt(c)
        /\ sock' \in {sock, BothClosed(c)}
        /\ (\A p \in Conn \ {c} : watch'[p] = watch[p])
    BY <1>1, <1>4 DEF WatchStep, WatchActivity, WatchFires, WatchDone, BothCut, FreshInv
  <2>2. \A p \in Conn \ {c} : sock'[p] = sock[p]
    BY <1>1, <2>1, BothClosedData
  <2>3. \A s \in Side : /\ sock'[c][s].peer = sock[c][s].peer
                        /\ sock[c][s].closed => sock'[c][s].closed
    <3>1. \A s \in Side : sock'[c][s].peer = sock[c][s].peer
      BY <1>1, <2>1, BothClosedData DEF SameData
    <3>2. \A s \in Side : sock[c][s].closed => sock'[c][s].closed
      BY <1>1, <2>1, BothClosedData
    <3> QED BY <3>1, <3>2
  <2>4. FreshInvAt(c)'
    BY <2>1, <2>3 DEF FreshInvAt, Relaying
  <2> QED BY <2>1, <2>2, <2>4 DEF FreshInv, FreshInvAt, Relaying
<1>5. CASE Tick
  <2>1. /\ UNCHANGED <<sock, idleTimeout>>
        /\ \A c \in Conn : handler'[c].pc = handler[c].pc /\ (watch'[c].on => watch[c].on)
    BY <1>1, <1>5 DEF Tick, HandlerState, WatchState, NoWatch
  <2> QED BY <2>1 DEF FreshInv, FreshInvAt, Relaying
<1>6. CASE UNCHANGED vars
  BY <1>6 DEF vars, FreshInv, FreshInvAt, Relaying
<1>7. ASSUME NEW c \in Conn, Accept(c) \/ HandlerStep(c) PROVE FreshInv'
  BY <1>1, <1>7, FreshHandler
<1> QED BY <1>2, <1>3, <1>4, <1>5, <1>6, <1>7 DEF Next

LEMMA AlwaysFresh == Spec => []FreshInv
<1>1. Init => FreshInv
  BY DEF Init, FreshInv, FreshInvAt, NoSock, NewSock, NoWatch
<1> QED BY <1>1, AlwaysIInv, FreshStep, PTL DEF Spec

\* A handler does not return before the two copiers it started have ended and given
\* their results to it, and leaves both connections closed.
THEOREM NobodyIsLeftBehind == Spec => []NothingLeftBehind
<1>1. IInv /\ FreshInv => NothingLeftBehind
  <2> SUFFICES ASSUME IInv, FreshInv, NEW c \in Conn
               PROVE  /\ ~ Relaying(c) => results[c] = <<>> /\ \A s \in Side : copier[c][s].pc = "none"
                      /\ handler[c].pc = "none" => \A s \in Side : sock[c][s].closed
    BY DEF NothingLeftBehind
  <2>1. Loose /\ ResultsInvAt(c) /\ FreshInvAt(c) /\ results[c] \in Seq({"nil", "error"})
    BY DEF IInv, ResultsInv, FreshInv, Loose
  <2>2. ~ Relaying(c) => Len(results[c]) = 0 /\ \A s \in Side : copier[c][s].pc = "none"
    BY <2>1, CopiersWork
  <2>3. Len(results[c]) = 0 => results[c] = <<>>
    BY <2>1, EmptySeq
  <2>4. handler[c].pc = "none" => \A s \in Side : sock[c][s].closed
    BY <2>1 DEF FreshInvAt
  <2> QED BY <2>2, <2>3, <2>4
<1> QED BY <1>1, AlwaysIInv, AlwaysFresh, PTL

\* A direction of a relay, and whether the relay is severed.
At(c, s) == IF Relaying(c) THEN Direction(c, s) ELSE NoDirection
Severed(c) == Relaying(c) /\ \E s \in Side : sock[c][s].closed

SameRelay(c) == /\ \A s \in Side : At(c, s)' = At(c, s)
                /\ Severed(c)' = Severed(c)

\* The ways in which one direction changes.
Sent(c, d) == /\ At(c, d).phase # "none" /\ At(c, d).peer = "open"
              /\ At(c, d)' = [At(c, d) EXCEPT !.sent = @ + 1]
Left(c, d) == /\ At(c, d).phase # "none"
              /\ \/ At(c, d).peer = "open" /\ At(c, d)' = [At(c, d) EXCEPT !.peer = "shut"]
                 \/ At(c, d).peer # "broken" /\ At(c, d)' = [At(c, d) EXCEPT !.peer = "broken"]
Given(c, d) == /\ At(c, d).phase = "open" /\ At(c, d).given < At(c, d).sent
               /\ At(c, d)' = [At(c, d) EXCEPT !.given = @ + 1]
Ended(c, d) == /\ At(c, d).phase = "open" /\ At(c, d).peer # "open"
               /\ At(c, d).given = At(c, d).sent
               /\ At(c, d)' = [At(c, d) EXCEPT !.phase = "ended"]
CutOff(c, d) == /\ At(c, d).phase = "open"
                /\ Severed(c) \/ \E e \in Side : At(c, e).peer = "broken"
                /\ At(c, d)' = [At(c, d) EXCEPT !.phase = "cut"]

\* The mapped variables of RelayStream, and how they change with one direction.
LEMMA MappedDirection ==
    ASSUME NEW c \in Conn, NEW d \in Side, At(c, Other(d))' = At(c, Other(d)),
           Severed(c)' = Severed(c), \A p \in Conn \ {c} : SameRelay(p),
           Sent(c, d) \/ Left(c, d) \/ Given(c, d) \/ Ended(c, d) \/ CutOff(c, d),
           UNCHANGED idleTimeout
    PROVE  Stream!Next
<1> DEFINE S == [p \in Conn |-> [s \in Side |-> IF Relaying(p) THEN Direction(p, s) ELSE NoDirection]]
           V == [p \in Conn |-> Relaying(p) /\ \E s \in Side : sock[p][s].closed]
           r == At(c, d)'
<1>1. /\ S = [p \in Conn |-> [s \in Side |-> At(p, s)]]
      /\ S' = [p \in Conn |-> [s \in Side |-> At(p, s)']]
      /\ V = [p \in Conn |-> Severed(p)] /\ V' = [p \in Conn |-> Severed(p)']
  BY DEF At, Severed
<1>2. \A s \in Side : s = d \/ s = Other(d)
  BY DEF Side, Other
<1>3. /\ S' = [S EXCEPT ![c] = [S[c] EXCEPT ![d] = r]]
      /\ S[c][d] = At(c, d) /\ V' = V
      /\ \A e \in Side : S[c][e] = At(c, e)
      /\ V[c] = Severed(c)
  <2> HIDE DEF S, V
  <2>1. \A s \in Side : At(c, s)' = IF s = d THEN r ELSE S[c][s]
    BY <1>1, <1>2
  <2>2. [s \in Side |-> At(c, s)'] = [S[c] EXCEPT ![d] = r]
    BY <1>1, <2>1
  <2>3. S' = [S EXCEPT ![c] = [S[c] EXCEPT ![d] = r]]
    <3>1. \A p \in Conn \ {c} : \A s \in Side : At(p, s)' = At(p, s)
      BY DEF SameRelay
    <3>2. S' = [S EXCEPT ![c] = [s \in Side |-> At(c, s)']]
      BY <1>1, <3>1
    <3> QED BY <2>2, <3>2
  <2>4. V' = V
    BY <1>1 DEF SameRelay
  <2> QED BY <1>1, <2>3, <2>4
<1>4. UNCHANGED <<V, idleTimeout > 0>>
  BY <1>3
<1>5. CASE Sent(c, d)
  <2>1. /\ S[c][d].phase # "none" /\ S[c][d].peer = "open"
        /\ S' = [S EXCEPT ![c] = [S[c] EXCEPT ![d] = [S[c][d] EXCEPT !.sent = S[c][d].sent + 1]]]
    <3> HIDE DEF S, V
    <3> QED BY <1>3, <1>5 DEF Sent
  <2>2. Stream!Send(c, d)
    BY <2>1 DEF Stream!Send
  <2> QED BY <1>4, <2>2 DEF Stream!Next
<1>6. CASE Left(c, d)
  <2>1. /\ S[c][d].phase # "none"
        /\ \/ /\ S[c][d].peer = "open"
              /\ S' = [S EXCEPT ![c] = [S[c] EXCEPT ![d] = [S[c][d] EXCEPT !.peer = "shut"]]]
           \/ /\ S[c][d].peer # "broken"
              /\ S' = [S EXCEPT ![c] = [S[c] EXCEPT ![d] = [S[c][d] EXCEPT !.peer = "broken"]]]
    <3> HIDE DEF S, V
    <3> QED BY <1>3, <1>6 DEF Left
  <2>2. Stream!Leave(c, d)
    BY <2>1 DEF Stream!Leave
  <2> QED BY <1>4, <2>2 DEF Stream!Next
<1>7. CASE Given(c, d)
  <2>1. /\ S[c][d].phase = "open" /\ S[c][d].given < S[c][d].sent
        /\ S' = [S EXCEPT ![c] = [S[c] EXCEPT ![d] = [S[c][d] EXCEPT !.given = S[c][d].given + 1]]]
    <3> HIDE DEF S, V
    <3> QED BY <1>3, <1>7 DEF Given
  <2>2. Stream!Give(c, d)
    BY <2>1 DEF Stream!Give
  <2> QED BY <1>4, <2>2 DEF Stream!Next
<1>8. CASE Ended(c, d)
  <2>1. /\ S[c][d].phase = "open" /\ S[c][d].peer # "open" /\ S[c][d].given = S[c][d].sent
        /\ S' = [S EXCEPT ![c] = [S[c] EXCEPT ![d] = [S[c][d] EXCEPT !.phase = "ended"]]]
    <3> HIDE DEF S, V
    <3> QED BY <1>3, <1>8 DEF Ended
  <2>2. Stream!End(c, d)
    BY <2>1 DEF Stream!End
  <2> QED BY <1>4, <2>2 DEF Stream!Next
<1>9. CASE CutOff(c, d)
  <2>1. /\ S[c][d].phase = "open"
        /\ V[c] \/ \E e \in Side : S[c][e].peer = "broken"
        /\ S' = [S EXCEPT ![c] = [S[c] EXCEPT ![d] = [S[c][d] EXCEPT !.phase = "cut"]]]
    <3> HIDE DEF S, V
    <3> QED BY <1>3, <1>9 DEF CutOff
  <2>2. Stream!Cut(c, d)
    BY <2>1 DEF Stream!Cut
  <2> QED BY <1>4, <2>2 DEF Stream!Next
<1> QED BY <1>5, <1>6, <1>7, <1>8, <1>9

\* The ways in which a whole relay changes.
Started(c) == /\ \A d \in Side : At(c, d) = NoDirection
              /\ \A d \in Side : At(c, d)' = [NoDirection EXCEPT !.phase = "open"]
              /\ Severed(c)' = Severed(c)
IsOver(c, d) == At(c, d).phase \in {"ended", "cut"}
Finished(c) == /\ \A d \in Side : IsOver(c, d) /\ At(c, d)' = NoDirection
               /\ Severed(c)' = FALSE
SeveredNow(c) == /\ \A d \in Side : At(c, d)' = At(c, d)
                 /\ \E d \in Side : At(c, d) # NoDirection
                 /\ idleTimeout > 0 \/ \E d \in Side : IsOver(c, d)
                 /\ Severed(c)' = TRUE

LEMMA MappedRelay ==
    ASSUME NEW c \in Conn, \A p \in Conn \ {c} : SameRelay(p),
           Started(c) \/ Finished(c) \/ SeveredNow(c), UNCHANGED idleTimeout
    PROVE  Stream!Next
<1> DEFINE S == [p \in Conn |-> [s \in Side |-> IF Relaying(p) THEN Direction(p, s) ELSE NoDirection]]
           V == [p \in Conn |-> Relaying(p) /\ \E s \in Side : sock[p][s].closed]
<1>1. /\ S = [p \in Conn |-> [s \in Side |-> At(p, s)]]
      /\ S' = [p \in Conn |-> [s \in Side |-> At(p, s)']]
      /\ V = [p \in Conn |-> Severed(p)] /\ V' = [p \in Conn |-> Severed(p)']
  BY DEF At, Severed
<1>2. /\ S' = [S EXCEPT ![c] = [s \in Side |-> At(c, s)']]
      /\ V' = [V EXCEPT ![c] = Severed(c)']
      /\ Severed(c)' = Severed(c) => V' = V
      /\ S[c] = [s \in Side |-> At(c, s)]
      /\ \A s \in Side : S[c][s] = At(c, s)
      /\ (\A s \in Side : At(c, s)' = At(c, s)) => S' = S
  <2> HIDE DEF S, V
  <2>1. \A p \in Conn \ {c} : \A s \in Side : At(p, s)' = At(p, s)
    BY DEF SameRelay
  <2>2. S' = [S EXCEPT ![c] = [s \in Side |-> At(c, s)']]
    BY <1>1, <2>1
  <2>3. (\A s \in Side : At(c, s)' = At(c, s)) => S' = S
    BY <1>1, <2>1
  <2>4. \A p \in Conn \ {c} : Severed(p)' = Severed(p)
    BY DEF SameRelay
  <2>5. V' = [V EXCEPT ![c] = Severed(c)'] /\ (Severed(c)' = Severed(c) => V' = V)
    BY <1>1, <2>4
  <2> QED BY <1>1, <2>2, <2>3, <2>5
<1>3. CASE Started(c)
  <2>1. /\ S[c] = [d \in Side |-> Stream!NoStream]
        /\ S' = [S EXCEPT ![c] = [d \in Side |-> Stream!NewStream]] /\ V' = V
    <3>1. /\ NoDirection = Stream!NoStream
          /\ [NoDirection EXCEPT !.phase = "open"] = Stream!NewStream
      BY DEF NoDirection, Stream!NoStream, Stream!NewStream
    <3>2. /\ [s \in Side |-> At(c, s)'] = [d \in Side |-> Stream!NewStream]
          /\ [s \in Side |-> At(c, s)] = [d \in Side |-> Stream!NoStream]
      BY <1>3, <3>1 DEF Started
    <3> HIDE DEF S, V
    <3> QED BY <1>2, <1>3, <3>2 DEF Started
  <2>2. Stream!Start(c)
    BY <2>1 DEF Stream!Start
  <2> QED BY <2>2 DEF Stream!Next
<1>4. CASE Finished(c)
  <2>1. /\ \A d \in Side : S[c][d].phase \in {"ended", "cut"}
        /\ S' = [S EXCEPT ![c] = [d \in Side |-> Stream!NoStream]]
        /\ V' = [V EXCEPT ![c] = FALSE]
    <3>1. NoDirection = Stream!NoStream
      BY DEF NoDirection, Stream!NoStream
    <3>2. [s \in Side |-> At(c, s)'] = [d \in Side |-> Stream!NoStream]
      BY <1>4, <3>1 DEF Finished
    <3> HIDE DEF S, V
    <3> QED BY <1>2, <1>4, <3>2 DEF Finished, IsOver
  <2>2. Stream!Finish(c)
    BY <2>1 DEF Stream!Finish, Stream!Over
  <2> QED BY <2>2 DEF Stream!Next
<1>5. CASE SeveredNow(c)
  <2>1. /\ S[c] # [d \in Side |-> Stream!NoStream]
        /\ idleTimeout > 0 \/ \E d \in Side : S[c][d].phase \in {"ended", "cut"}
        /\ V' = [V EXCEPT ![c] = TRUE] /\ S' = S
    <3>1. NoDirection = Stream!NoStream
      BY DEF NoDirection, Stream!NoStream
    <3> HIDE DEF S, V
    <3>2. PICK d \in Side : S[c][d] # Stream!NoStream
      BY <1>2, <1>5, <3>1 DEF SeveredNow
    <3>3. S[c] # [e \in Side |-> Stream!NoStream]
      BY <3>2
    <3>4. idleTimeout > 0 \/ \E e \in Side : S[c][e].phase \in {"ended", "cut"}
      BY <1>2, <1>5 DEF SeveredNow, IsOver
    <3> QED BY <1>2, <1>5, <3>3, <3>4 DEF SeveredNow
  <2>2. Stream!Sever(c)
    BY <2>1 DEF Stream!Sever, Stream!Over
  <2> QED BY <2>2 DEF Stream!Next
<1> QED BY <1>3, <1>4, <1>5

\* A relay whose parts are left alone does not change.
LEMMA Untouched ==
    ASSUME NEW c \in Conn
    PROVE  /\ ~ Relaying(c) /\ ~ Relaying(c)' => SameRelay(c)
           /\ /\ Relaying(c)' = Relaying(c)
              /\ copier'[c] = copier[c] /\ sock'[c] = sock[c]
              => SameRelay(c)
BY DEF SameRelay, At, Direction, Severed

LEMMA AllSame ==
    ASSUME \A c \in Conn : SameRelay(c), UNCHANGED idleTimeout
    PROVE  UNCHANGED Stream!vars
<1> DEFINE S == [p \in Conn |-> [s \in Side |-> IF Relaying(p) THEN Direction(p, s) ELSE NoDirection]]
           V == [p \in Conn |-> Relaying(p) /\ \E s \in Side : sock[p][s].closed]
<1>1. /\ S = [p \in Conn |-> [s \in Side |-> At(p, s)]]
      /\ S' = [p \in Conn |-> [s \in Side |-> At(p, s)']]
      /\ V = [p \in Conn |-> Severed(p)] /\ V' = [p \in Conn |-> Severed(p)']
  BY DEF At, Severed
<1>2. S' = S
  <2> HIDE DEF S, V
  <2>1. \A p \in Conn : \A s \in Side : At(p, s)' = At(p, s)
    BY DEF SameRelay
  <2> QED BY <1>1, <2>1
<1>3. V' = V
  <2> HIDE DEF S, V
  <2>1. \A p \in Conn : Severed(p)' = Severed(p)
    BY DEF SameRelay
  <2> QED BY <1>1, <2>1
<1> QED BY <1>2, <1>3 DEF Stream!vars

\* Closing both connections severs the relay, unless it was severed before.
LEMMA ClosingSevers ==
    ASSUME Loose, NEW c \in Conn, Relaying(c), Relaying(c)', UNCHANGED copier,
           sock' \in {sock, BothClosed(c)},
           idleTimeout > 0 \/ \E d \in Side : copier[c][d].pc = "none"
    PROVE  SameRelay(c) \/ SeveredNow(c)
<1>1. CASE sock' = sock
  BY <1>1, Untouched
<1>2. CASE sock' = BothClosed(c)
  <2>1. \A s \in Side : At(c, s)' = At(c, s)
    <3> SUFFICES ASSUME NEW s \in Side PROVE At(c, s)' = At(c, s)
      OBVIOUS
    <3>1. SameData(sock'[c][s], sock[c][s]) /\ SameData(sock'[c][Other(s)], sock[c][Other(s)])
      BY <1>2, BothClosedData, SideFacts
    <3> QED BY <3>1 DEF SameData, At, Direction
  <2>2. Severed(c)' = TRUE
    <3>1. "client" \in Side /\ sock \in [Conn -> [Side -> LooseSock]]
      BY DEF Side, Loose
    <3>2. BothClosed(c)[c]["client"] = [sock[c]["client"] EXCEPT !.closed = TRUE]
      BY <3>1 DEF BothClosed
    <3>3. sock'[c]["client"].closed = TRUE
      BY <1>2, <3>1, <3>2 DEF LooseSock
    <3> QED BY <3>1, <3>3 DEF Severed
  <2>3. \E d \in Side : At(c, d) # NoDirection
    <3>1. "client" \in Side /\ At(c, "client").phase # "none" /\ NoDirection.phase = "none"
      BY DEF Side, At, Direction, NoDirection
    <3> QED BY <3>1
  <2>4. idleTimeout > 0 \/ \E d \in Side : IsOver(c, d)
    BY DEF IsOver, At, Direction
  <2> QED BY <2>1, <2>2, <2>3, <2>4 DEF SeveredNow
<1> QED BY <1>1, <1>2

LEMMA HandlerStream ==
    ASSUME IInv, FreshInv, NEW c \in Conn, Accept(c) \/ HandlerStep(c)
    PROVE  SameRelay(c) \/ Started(c) \/ Finished(c) \/ SeveredNow(c)
<1>1. /\ Loose /\ ResultsInvAt(c) /\ FreshInvAt(c) /\ \A s \in Side : DeliveryInvAt(c, s)
      /\ handler \in [Conn -> HandlerState] /\ copier \in [Conn -> [Side -> CopierState]]
      /\ Len(results[c]) \in Nat /\ Pending(c) \in Nat
  BY CopiersWork DEF IInv, ResultsInv, DeliveryInv, FreshInv, Loose
<1>2. \A l : To(c, l) => handler'[c].pc = l
  BY <1>1 DEF To, HandlerState
<1>3. CASE \/ Accept(c) \/ TakeSlot(c) \/ Reject(c) \/ HandshakeDone(c) \/ HandshakeFails(c)
           \/ OpenSucceeds(c) \/ OpenFails(c) \/ ReplyFails(c) \/ EndConn(c)
  <2>1. ~ Relaying(c) /\ ~ Relaying(c)'
    BY <1>2, <1>3 DEF Accept, TakeSlot, Reject, HandshakeDone, HandshakeFails, OpenSucceeds,
       OpenFails, ReplyFails, EndConn, Relaying
  <2> QED BY <2>1, Untouched
<1>4. CASE StartRelay(c)
  <2>1. /\ ~ Relaying(c) /\ handler[c].pc = "reply" /\ Relaying(c)' /\ UNCHANGED sock
        /\ \A s \in Side : copier'[c][s].pc = "read"
    BY <1>1, <1>2, <1>4 DEF StartRelay, Relaying
  <2>2. ASSUME NEW s \in Side
        PROVE  /\ ~ sock[c][s].closed /\ sock[c][s].peer = "open" /\ sock[c][s].sent = 0
               /\ sock[c][s].given = 0
    <3>1. ~ sock[c][s].closed /\ sock[c][s].peer = "open"
      BY <1>1, <2>1 DEF FreshInvAt, Side
    <3>2. /\ Other(s) \in Side /\ Other(Other(s)) = s
          /\ DeliveryInvAt(c, s) /\ DeliveryInvAt(c, Other(s))
      BY <1>1, SideFacts
    <3>3. sock[c][s].sent = 0 /\ sock[c][Other(s)].sent = 0
      BY <2>1, <3>2 DEF DeliveryInvAt
    <3>4. /\ sock[c][Other(s)].unread \in Nat /\ sock[c][s].given \in Nat
          /\ InHand(copier[c][Other(s)]) \in Nat
      BY <1>1, <3>2, SockFacts DEF InHand
    <3>5. sock[c][Other(s)].unread + InHand(copier[c][Other(s)]) + sock[c][s].given <= 0
      BY <3>2, <3>3 DEF DeliveryInvAt
    <3> QED BY <3>1, <3>3, <3>4, <3>5
  <2>3. ASSUME NEW s \in Side
        PROVE  At(c, s) = NoDirection /\ At(c, s)' = [NoDirection EXCEPT !.phase = "open"]
    <3>1. At(c, s) = NoDirection
      BY <2>1 DEF At
    <3>2. At(c, s)' = [phase |-> "open", sent |-> 0, given |-> 0, peer |-> "open"]
      BY <2>1, <2>2, SideFacts DEF At, Direction
    <3> QED BY <3>1, <3>2 DEF NoDirection
  <2>4. Severed(c)' = Severed(c)
    BY <2>1, <2>2 DEF Severed
  <2> QED BY <2>3, <2>4 DEF Started
<1>5. CASE FirstResult(c) \/ DrainTimeout(c)
  <2>1. Relaying(c) /\ Relaying(c)' /\ UNCHANGED copier
    BY <1>1, <1>2, <1>5 DEF FirstResult, DrainTimeout, WaitForOther, Relaying
  <2>2. sock' \in {sock, BothClosed(c)}
    BY <1>5 DEF FirstResult, DrainTimeout, ClosedOnError, ClosedByDrain
  <2>3. Pending(c) < 2
    <3>1. CASE FirstResult(c)
      <4>1. handler[c].pc = "first" /\ Len(results[c]) # 0
        BY <3>1, <1>1 DEF FirstResult, Loose
      <4> QED BY <1>1, <4>1 DEF ResultsInvAt
    <3>2. CASE DrainTimeout(c)
      BY <1>1, <3>2 DEF DrainTimeout, ResultsInvAt
    <3> QED BY <1>5, <3>1, <3>2
  <2>4. \E d \in Side : copier[c][d].pc = "none"
    BY <2>3 DEF Pending, AtWork, Side
  <2> QED BY <1>1, <2>1, <2>2, <2>4, ClosingSevers
<1>6. CASE SecondResult(c)
  <2>1. Relaying(c) /\ ~ Relaying(c)'
    BY <1>1, <1>6 DEF SecondResult, Relaying
  <2>2. Pending(c) = 0
    <3>1. handler[c].pc \in {"drain", "second"} /\ Len(results[c]) # 0
      BY <1>1, <1>6 DEF SecondResult, Loose
    <3> QED BY <1>1, <3>1 DEF ResultsInvAt
  <2>3. \A s \in Side : copier[c][s].pc = "none"
    BY <1>1, <2>2, CopiersWork
  <2>4. \A s \in Side : IsOver(c, s) /\ At(c, s)' = NoDirection
    BY <2>1, <2>3 DEF IsOver, At, Direction
  <2> QED BY <2>1, <2>4 DEF Finished, Severed
<1> QED BY <1>3, <1>4, <1>5, <1>6 DEF HandlerStep

\* A copier gives a chunk, ends its direction after the last one, or cuts it off; the
\* other direction does not notice.
LEMMA CopierStream ==
    ASSUME IInv, NEW c \in Conn, NEW s \in Side, CopierStep(c, s)
    PROVE  /\ At(c, Other(s))' = At(c, Other(s)) /\ Severed(c)' = Severed(c)
           /\ \/ At(c, s)' = At(c, s)
              \/ Given(c, s) \/ Ended(c, s) \/ CutOff(c, s)
<1> DEFINE o == Other(s)
<1>1. /\ sock \in [Conn -> [Side -> LooseSock]] /\ copier \in [Conn -> [Side -> CopierState]]
      /\ o \in Side /\ o # s /\ Other(o) = s /\ ResultsInvAt(c)
      /\ DeliveryInvAt(c, s) /\ Loose
  BY SideFacts DEF IInv, Loose, ResultsInv, DeliveryInv
<1>2. /\ sock[c][s].sent \in Nat /\ sock[c][s].unread \in Nat /\ sock[c][o].given \in Nat
      /\ sock[c][s] \in LooseSock /\ sock[c][o] \in LooseSock /\ copier[c][s] \in CopierState
  BY <1>1, SockFacts
<1>3. /\ copier[c][s].pc # "none" /\ UNCHANGED handler /\ copier'[c][o] = copier[c][o]
  BY <1>1 DEF CopierStep, ReadChunk, ReadEOF, CopyError, WriteChunk, CloseWrite, Result
<1>4. Relaying(c) /\ Relaying(c)'
  <2>1. Relaying(c)
    BY <1>1, <1>3, CopiersWork
  <2> QED BY <1>3, <2>1 DEF Relaying
<1>5. /\ ~ sock[c][o].shut
      /\ sock[c][s].unread + InHand(copier[c][s]) + sock[c][o].given = sock[c][s].sent
      /\ copier[c][s].pc = "shut" => Drained(sock[c][s])
  BY <1>1, <1>3 DEF DeliveryInvAt
<1>6. At(c, s) = [phase |-> "open", sent |-> sock[c][s].sent, given |-> sock[c][o].given,
                  peer |-> sock[c][s].peer]
  BY <1>3, <1>4 DEF At, Direction
<1>7. /\ sock'[c][o].closed = sock[c][o].closed /\ sock'[c][s].closed = sock[c][s].closed
      /\ sock'[c][s].shut = sock[c][s].shut /\ sock'[c][s].peer = sock[c][s].peer
      /\ sock'[c][o].peer = sock[c][o].peer /\ sock'[c][o].sent = sock[c][o].sent
      /\ sock'[c][s].sent = sock[c][s].sent /\ sock'[c][s].given = sock[c][s].given
  <2>1. CASE ReadChunk(c, s)
    <3>1. sock'[c][s] = [sock[c][s] EXCEPT !.unread = @ - 1] /\ sock'[c][o] = sock[c][o]
      BY <1>1, <2>1 DEF ReadChunk
    <3> QED BY <1>2, <3>1 DEF LooseSock
  <2>2. CASE WriteChunk(c, s)
    <3>1. sock'[c][o] = [sock[c][o] EXCEPT !.given = @ + 1] /\ sock'[c][s] = sock[c][s]
      BY <1>1, <2>2 DEF WriteChunk
    <3> QED BY <1>2, <3>1 DEF LooseSock
  <2>3. CASE CloseWrite(c, s)
    <3>1. sock'[c][o] = [sock[c][o] EXCEPT !.shut = TRUE] /\ sock'[c][s] = sock[c][s]
      BY <1>1, <2>3 DEF CloseWrite
    <3> QED BY <1>2, <3>1 DEF LooseSock
  <2>4. CASE ReadEOF(c, s) \/ CopyError(c, s)
    BY <2>4 DEF ReadEOF, CopyError
  <2> QED BY <2>1, <2>2, <2>3, <2>4 DEF CopierStep
<1>8. At(c, o)' = At(c, o)
  BY <1>1, <1>3, <1>4, <1>7 DEF At, Direction
<1>9. Severed(c)' = Severed(c)
  <2>1. \A e \in Side : sock'[c][e].closed = sock[c][e].closed
    BY <1>7 DEF Side, Other
  <2> QED BY <1>4, <2>1 DEF Severed
<1>10. ASSUME copier'[c][s].pc # "none", sock'[c][o].given = sock[c][o].given
       PROVE  At(c, s)' = At(c, s)
  BY <1>4, <1>6, <1>7, <1>10 DEF At, Direction
<1>11. CASE ReadChunk(c, s) \/ ReadEOF(c, s)
  <2>1. copier'[c][s].pc # "none"
    BY <1>1, <1>2, <1>11 DEF ReadChunk, ReadEOF, ChunkFirst, CopierState
  <2>2. sock'[c][o] = sock[c][o]
    BY <1>1, <1>11 DEF ReadChunk, ReadEOF
  <2> QED BY <1>8, <1>9, <1>10, <2>1, <2>2
<1>12. CASE WriteChunk(c, s)
  <2>1. copier[c][s].pc = "write" /\ copier'[c][s].pc # "none"
    BY <1>1, <1>12 DEF WriteChunk
  <2>2. sock'[c][o].given = sock[c][o].given + 1
    BY <1>1, <1>2, <1>12 DEF WriteChunk, LooseSock
  <2>3. At(c, s)' = [phase |-> "open", sent |-> sock[c][s].sent,
                     given |-> sock[c][o].given + 1, peer |-> sock[c][s].peer]
    BY <1>4, <1>7, <2>1, <2>2 DEF At, Direction
  <2>4. sock[c][o].given < sock[c][s].sent
    BY <1>2, <1>5, <2>1 DEF InHand
  <2>5. Given(c, s)
    BY <1>6, <2>3, <2>4 DEF Given
  <2> QED BY <1>8, <1>9, <2>5
<1>13. CASE CloseWrite(c, s)
  <2>1. copier[c][s].pc = "shut" /\ copier'[c][s].pc = "none"
    BY <1>1, <1>13 DEF CloseWrite, Result, NoCopier
  <2>2. sock'[c][o].given = sock[c][o].given /\ sock'[c][o].shut
    BY <1>1, <1>2, <1>13 DEF CloseWrite, LooseSock
  <2>3. At(c, s)' = [phase |-> "ended", sent |-> sock[c][s].sent,
                     given |-> sock[c][o].given, peer |-> sock[c][s].peer]
    BY <1>4, <1>7, <2>1, <2>2 DEF At, Direction
  <2>4. sock[c][o].given = sock[c][s].sent /\ sock[c][s].peer # "open"
    BY <1>2, <1>5, <2>1 DEF InHand, Drained
  <2>5. Ended(c, s)
    BY <1>6, <2>3, <2>4 DEF Ended
  <2> QED BY <1>8, <1>9, <2>5
<1>14. CASE CopyError(c, s)
  <2>1. copier'[c][s].pc = "none" /\ UNCHANGED sock
    BY <1>1, <1>14 DEF CopyError, Result, NoCopier
  <2>2. At(c, s)' = [phase |-> "cut", sent |-> sock[c][s].sent,
                     given |-> sock[c][o].given, peer |-> sock[c][s].peer]
    BY <1>4, <1>5, <2>1 DEF At, Direction
  <2>3. \E e \in Side : Broken(sock[c][e])
    BY <1>1, <1>14 DEF CopyError
  <2>4. Severed(c) \/ \E e \in Side : At(c, e).peer = "broken"
    BY <1>4, <2>3 DEF Broken, Severed, At, Direction
  <2>5. CutOff(c, s)
    BY <1>6, <2>2, <2>4 DEF CutOff
  <2> QED BY <1>8, <1>9, <2>5
<1> QED BY <1>11, <1>12, <1>13, <1>14 DEF CopierStep

\* A peer sends or leaves; the other direction and the connections do not notice.
LEMMA PeerStream ==
    ASSUME IInv, NEW c \in Conn, NEW s \in Side, PeerStep(c, s)
    PROVE  /\ At(c, Other(s))' = At(c, Other(s)) /\ Severed(c)' = Severed(c)
           /\ Sent(c, s) \/ Left(c, s)
<1> DEFINE o == Other(s)
<1>1. /\ sock \in [Conn -> [Side -> LooseSock]] /\ Relaying(c) /\ Relaying(c)'
      /\ o \in Side /\ o # s /\ Other(o) = s /\ Loose /\ UNCHANGED copier
  BY SideFacts DEF IInv, Loose, PeerStep, PeerSends, PeerShuts, PeerBreaks, Relaying
<1>2. sock[c][s].sent \in Nat /\ sock[c][s].unread \in Nat /\ sock[c][s] \in LooseSock
  BY <1>1, SockFacts
<1>3. sock'[c][o] = sock[c][o]
  BY <1>1 DEF PeerStep, PeerSends, PeerShuts, PeerBreaks
<1>4. At(c, s).phase # "none" /\ At(c, s).peer = sock[c][s].peer /\ At(c, s).sent = sock[c][s].sent
  BY <1>1 DEF At, Direction
<1>5. CASE PeerSends(c, s)
  <2>1. sock'[c][s] = [sock[c][s] EXCEPT !.sent = @ + 1, !.unread = @ + 1]
    BY <1>1, <1>5 DEF PeerSends
  <2>2. /\ sock'[c][s].sent = sock[c][s].sent + 1 /\ sock'[c][s].peer = sock[c][s].peer
        /\ sock'[c][s].given = sock[c][s].given /\ sock'[c][s].shut = sock[c][s].shut
        /\ sock'[c][s].closed = sock[c][s].closed
    BY <1>2, <2>1 DEF LooseSock
  <2>3. At(c, s)' = [At(c, s) EXCEPT !.sent = @ + 1]
    BY <1>1, <1>3, <2>2 DEF At, Direction
  <2>4. At(c, o)' = At(c, o)
    BY <1>1, <1>3, <2>2 DEF At, Direction
  <2>5. Severed(c)' = Severed(c)
    BY <1>1, <1>3, <2>2 DEF Severed, Side, Other
  <2>6. Sent(c, s)
    BY <1>4, <1>5, <2>3 DEF Sent, PeerSends
  <2> QED BY <2>4, <2>5, <2>6
<1>6. CASE PeerShuts(c, s) \/ PeerBreaks(c, s)
  <2>1. PICK p \in {"shut", "broken"} :
          /\ sock'[c][s] = [sock[c][s] EXCEPT !.peer = p]
          /\ p = "shut" => sock[c][s].peer = "open"
          /\ sock[c][s].peer # "broken"
    BY <1>1, <1>6 DEF PeerShuts, PeerBreaks
  <2>2. /\ sock'[c][s].sent = sock[c][s].sent /\ sock'[c][s].peer = p
        /\ sock'[c][s].given = sock[c][s].given /\ sock'[c][s].shut = sock[c][s].shut
        /\ sock'[c][s].closed = sock[c][s].closed
    BY <1>2, <2>1 DEF LooseSock
  <2>3. At(c, s)' = [At(c, s) EXCEPT !.peer = p]
    BY <1>1, <1>3, <2>2 DEF At, Direction
  <2>4. At(c, o)' = At(c, o)
    BY <1>1, <1>3, <2>2 DEF At, Direction
  <2>5. Severed(c)' = Severed(c)
    BY <1>1, <1>3, <2>2 DEF Severed, Side, Other
  <2>6. Left(c, s)
    BY <1>4, <2>1, <2>3 DEF Left
  <2> QED BY <2>4, <2>5, <2>6
<1> QED BY <1>5, <1>6 DEF PeerStep

\* Every step is a step of RelayStream, or a stutter.
LEMMA StreamStep == IInv /\ FreshInv /\ [Next]_vars => [Stream!Next]_Stream!vars
<1> SUFFICES ASSUME IInv, FreshInv, [Next]_vars PROVE [Stream!Next]_Stream!vars
  OBVIOUS
<1>1. /\ Loose /\ handler \in [Conn -> HandlerState] /\ sock \in [Conn -> [Side -> LooseSock]]
  BY DEF IInv, Loose
<1>2. ASSUME NEW c \in Conn, \A p \in Conn \ {c} : SameRelay(p), UNCHANGED idleTimeout,
             SameRelay(c) \/ Started(c) \/ Finished(c) \/ SeveredNow(c)
      PROVE  [Stream!Next]_Stream!vars
  <2>1. CASE SameRelay(c)
    <3>1. \A p \in Conn : SameRelay(p)
      BY <1>2, <2>1
    <3> QED BY <1>2, <3>1, AllSame
  <2>2. CASE Started(c) \/ Finished(c) \/ SeveredNow(c)
    BY <1>2, <2>2, MappedRelay
  <2> QED BY <1>2, <2>1, <2>2
<1>3. ASSUME NEW c \in Conn, NEW s \in Side, CopierStep(c, s) \/ PeerStep(c, s)
      PROVE  [Stream!Next]_Stream!vars
  <2>1. /\ UNCHANGED <<idleTimeout, handler>>
        /\ \A p \in Conn \ {c} : copier'[p] = copier[p] /\ sock'[p] = sock[p]
    BY <1>1, <1>3
    DEF CopierStep, ReadChunk, ReadEOF, CopyError, WriteChunk, CloseWrite, Result, PeerStep,
        PeerSends, PeerShuts, PeerBreaks, Loose
  <2>2. \A p \in Conn \ {c} : SameRelay(p)
    BY <2>1, Untouched DEF Relaying
  <2>3. /\ At(c, Other(s))' = At(c, Other(s)) /\ Severed(c)' = Severed(c)
        /\ \/ At(c, s)' = At(c, s)
           \/ Sent(c, s) \/ Left(c, s) \/ Given(c, s) \/ Ended(c, s) \/ CutOff(c, s)
    BY <1>3, CopierStream, PeerStream
  <2>4. CASE At(c, s)' = At(c, s)
    <3>1. \A e \in Side : e = s \/ e = Other(s)
      BY DEF Side, Other
    <3>2. SameRelay(c)
      BY <2>3, <2>4, <3>1 DEF SameRelay
    <3> QED BY <1>2, <2>1, <2>2, <3>2
  <2>5. CASE Sent(c, s) \/ Left(c, s) \/ Given(c, s) \/ Ended(c, s) \/ CutOff(c, s)
    BY <2>1, <2>2, <2>3, <2>5, MappedDirection
  <2> QED BY <2>3, <2>4, <2>5
<1>4. ASSUME NEW c \in Conn, Accept(c) \/ HandlerStep(c)
      PROVE  [Stream!Next]_Stream!vars
  <2>1. /\ UNCHANGED idleTimeout
        /\ \A p \in Conn \ {c} : handler'[p].pc = handler[p].pc /\ copier'[p] = copier[p]
    BY <1>1, <1>4
    DEF Accept, HandlerStep, TakeSlot, Reject, HandshakeDone, HandshakeFails, OpenSucceeds, OpenFails,
        ReplyFails, StartRelay, FirstResult, DrainTimeout, SecondResult, EndConn, To, Loose
  <2>2. \A p \in Conn \ {c} : sock'[p] = sock[p]
    <3>1. CASE FirstResult(c) \/ SecondResult(c) \/ DrainTimeout(c)
      <4>1. sock' \in {sock, BothClosed(c)}
        BY <3>1 DEF FirstResult, SecondResult, DrainTimeout, ClosedOnError, ClosedByDrain
      <4> QED BY <1>1, <4>1, BothClosedData
    <3>2. CASE ~ (FirstResult(c) \/ SecondResult(c) \/ DrainTimeout(c))
      BY <1>1, <1>4, <3>2
      DEF Accept, HandlerStep, TakeSlot, Reject, HandshakeDone, HandshakeFails, OpenSucceeds,
          OpenFails, ReplyFails, StartRelay, EndConn
    <3> QED BY <3>1, <3>2
  <2>3. \A p \in Conn \ {c} : SameRelay(p)
    BY <2>1, <2>2, Untouched DEF Relaying
  <2> QED BY <1>2, <1>4, <2>1, <2>3, HandlerStream
<1>5. ASSUME NEW c \in Conn, WatchStep(c)
      PROVE  [Stream!Next]_Stream!vars
  <2>1. /\ UNCHANGED <<idleTimeout, handler, copier>> /\ watch[c].on
        /\ sock' \in {sock, BothClosed(c)}
    BY <1>5 DEF WatchStep, WatchActivity, WatchFires, WatchDone, BothCut
  <2>2. \A p \in Conn \ {c} : sock'[p] = sock[p]
    BY <1>1, <2>1, BothClosedData
  <2>3. \A p \in Conn \ {c} : SameRelay(p)
    BY <2>1, <2>2, Untouched DEF Relaying
  <2>4. SameRelay(c) \/ SeveredNow(c)
    <3>1. CASE ~ Relaying(c)
      BY <2>1, <3>1, Untouched DEF Relaying
    <3>2. CASE Relaying(c)
      <4>1. idleTimeout > 0 /\ Relaying(c)'
        BY <2>1, <3>2 DEF FreshInv, FreshInvAt, Relaying
      <4> QED BY <1>1, <2>1, <3>2, <4>1, ClosingSevers
    <3> QED BY <3>1, <3>2
  <2> QED BY <1>2, <2>1, <2>3, <2>4
<1>6. CASE Tick \/ UNCHANGED vars
  <2>1. UNCHANGED <<sock, copier, idleTimeout>> /\ \A c \in Conn : handler'[c].pc = handler[c].pc
    BY <1>1, <1>6 DEF Tick, vars, HandlerState
  <2>2. \A c \in Conn : SameRelay(c)
    BY <2>1, Untouched DEF Relaying
  <2> QED BY <2>1, <2>2, AllSame
<1> QED BY <1>3, <1>4, <1>5, <1>6 DEF Next

LEMMA StreamInit == Init => Stream!Init
<1> SUFFICES ASSUME Init PROVE Stream!Init
  OBVIOUS
<1>1. \A c \in Conn : ~ Relaying(c)
  BY DEF Init, Relaying
<1>2. (idleTimeout > 0) \in BOOLEAN
  BY LimitAssumption DEF Init
<1>3. NoDirection = Stream!NoStream
  BY DEF NoDirection, Stream!NoStream
<1> QED BY <1>1, <1>2, <1>3 DEF Stream!Init

\* For any number of clients, chunks and timeouts the relay keeps the promise of
\* RelayStream: what a peer is given is what the other sent up to some point, it is told
\* the end only after all of it, and healthy peers are cut off only by the idle timeout
\* or when one direction is over.
THEOREM ServerIsStream == Spec => ImplementsStream
BY AlwaysIInv, AlwaysFresh, StreamInit, StreamStep, PTL DEF Spec, ImplementsStream, Stream!Spec
=============================================================================
