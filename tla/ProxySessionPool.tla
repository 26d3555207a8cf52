-------------------------- MODULE ProxySessionPool --------------------------
(***************************************************************************)
(* proxySessionPool of cmd/proxy-demo/main.go: a fixed number of slots,    *)
(* each with one upstream HTTP/2 or HTTP/3 session, shared by the tunnels  *)
(* of all SOCKS5 clients.  A client sticks to a slot; a tunnel that finds  *)
(* its session broken moves the client on, retires the session and leaves  *)
(* a goroutine behind that refills the slot; renewals push a new bearer    *)
(* token into every session; Close tears the pool down.                    *)
(*                                                                         *)
(* One action is one critical section (p.mu, pooled.mu or tokenMu) or one  *)
(* external answer.  The goroutines are the tunnels, one replenisher per   *)
(* empty slot, one updater and one closer.  The controller calls UpdateToken *)
(* and Close of a pool under its own mutex, so these two do not overlap.   *)
(***************************************************************************)
EXTENDS Naturals, Integers, FiniteSets

CONSTANTS
    Size,       \* number of slots (UPSTREAM_CONNS)
    Session,    \* identities of pooledProxySession objects
    NoSession,  \* a nil *pooledProxySession
    Tunnel,     \* identities of openTunnel calls and the connections they return
    Client,     \* client keys: the IP address of a SOCKS5 client
    NoKey,      \* the empty client key of OpenTunnel
    KeyOf,      \* KeyOf[t] is the client key tunnel t is opened for
    MaxToken    \* bound: number of token renewals

ASSUME SizeAssumption == Size \in Nat \ {0}
ASSUME NoSessionAssumption == NoSession \notin Session
ASSUME KeyAssumption == NoKey \notin Client /\ KeyOf \in [Tunnel -> Client \union {NoKey}]
ASSUME TunnelAssumption == IsFiniteSet(Tunnel)
ASSUME MaxTokenAssumption == MaxToken \in Nat

Slot == 0 .. (Size - 1)
NoSlot == -1                    \* the client has no entry in clientSlots
Ref == Session \union {NoSession}
Token == 0 .. MaxToken          \* 0 is the token the pool was created with

VARIABLES
    slots,          \* p.sessions
    clientSlots,    \* p.clientSlots
    next,           \* p.next, modulo Size
    done,           \* p.done is closed
    closed,         \* p.closed
    closing,        \* the sessions Close has yet to close
    sess,           \* the fields of each pooledProxySession and its bearer token
    tun,            \* the local state of each tunnel
    rep,            \* the local state of the replenisher of each slot
    currentToken,   \* p.currentToken, 0 while it is ""
    createToken,    \* the token the controller's factory dials with
    upd,            \* the local state of UpdateToken
    missed          \* auxiliary: sessions dialled with an older token that the
                    \* snapshot of the last UpdateToken did not contain

sharedVars == <<slots, clientSlots, next>>
closeVars == <<done, closed, closing>>
tokenVars == <<currentToken, createToken, upd, missed>>
vars == <<sharedVars, closeVars, sess, tun, rep, tokenVars>>

-----------------------------------------------------------------------------
(* pooledProxySession: attached says that its session field is not nil and *)
(* the connection is open; healthy is always the negation of retired.      *)

NewSession(tok) == [attached |-> TRUE, retired |-> FALSE, refs |-> 0, token |-> tok]
Blank == [attached |-> FALSE, retired |-> TRUE, refs |-> 0, token |-> 0]

Usable(s) == sess[s].attached /\ ~ sess[s].retired

Acquired(s) == [sess EXCEPT ![s].refs = @ + 1]

\* Mutation of Released: the last release leaves a retired session open.
ReleasedOnly(s) == [sess EXCEPT ![s].refs = IF @ > 0 THEN @ - 1 ELSE 0]

Released(s) ==
    LET left == IF sess[s].refs > 0 THEN sess[s].refs - 1 ELSE 0
    IN [sess EXCEPT ![s].refs = left,
                    ![s].attached = @ /\ ~ (left = 0 /\ sess[s].retired)]

\* Mutation of Retired: the session is closed although tunnels hold it.
RetiredAtOnce(s) == [sess EXCEPT ![s].retired = TRUE, ![s].attached = FALSE]

Retired(s) ==
    [sess EXCEPT ![s].retired = TRUE, ![s].attached = @ /\ sess[s].refs # 0]

ClosedNow(s) == [sess EXCEPT ![s].retired = TRUE, ![s].attached = FALSE]

-----------------------------------------------------------------------------
(* Tunnels.  openTunnel tries every slot once, from the client's slot on.  *)
(*   "slot"      about to read p.sessions[slot]                            *)
(*   "acquire"   has read a session, about to acquire it                   *)
(*   "opening"   holds the session, waits for session.OpenTunnel           *)
(*   "fallback", "retire", "evict"   the open showed the session broken    *)
(*   "held"      returned a connection that still holds the session        *)
(*   "shut"      the connection was closed and may be closed again         *)

TunnelPC == {"idle", "slot", "acquire", "opening", "fallback", "retire",
             "evict", "held", "shut"}

IdleTunnel == [pc |-> "idle", start |-> 0, step |-> 0, held |-> NoSession]
At(t) == (tun[t].start + tun[t].step) % Size
Goto(t, l) == tun' = [tun EXCEPT ![t].pc = l]
Return(t) == tun' = [tun EXCEPT ![t] = IdleTunnel]
Start(t, i) ==
    tun' = [tun EXCEPT ![t] = [pc |-> "slot", start |-> i, step |-> 0, held |-> NoSession]]

\* Mutations of Continue: one iteration too many; the same slot again.
ContinueOnceMore(t) ==
    IF tun[t].step < Size
    THEN tun' = [tun EXCEPT ![t].pc = "slot", ![t].step = @ + 1, ![t].held = NoSession]
    ELSE Return(t)
ContinueSameSlot(t) ==
    tun' = [tun EXCEPT ![t].pc = "slot", ![t].held = NoSession]

\* The next iteration of the loop, or its end and an error for the caller.
Continue(t) ==
    IF tun[t].step + 1 < Size
    THEN tun' = [tun EXCEPT ![t].pc = "slot", ![t].step = @ + 1, ![t].held = NoSession]
    ELSE Return(t)

\* nextSlot without a client key: round robin.
RotateSlot(t) ==
    /\ tun[t].pc = "idle"
    /\ KeyOf[t] = NoKey
    /\ next' = (next + 1) % Size
    /\ Start(t, next)
    /\ UNCHANGED <<slots, clientSlots, closeVars, sess, rep, tokenVars>>

\* nextSlot with a client key: the slot remembered for the client, or the slot
\* its key hashes to (any slot), which is remembered.
AffineSlot(t) ==
    /\ tun[t].pc = "idle"
    /\ KeyOf[t] # NoKey
    /\ \E i \in Slot :
         /\ clientSlots[KeyOf[t]] \in {NoSlot, i}
         /\ clientSlots' = [clientSlots EXCEPT ![KeyOf[t]] = i]
         /\ Start(t, i)
    /\ UNCHANGED <<slots, next, closeVars, sess, rep, tokenVars>>

LookupSlot(t) ==
    /\ tun[t].pc = "slot"
    /\ IF closed \/ slots[At(t)] = NoSession
       THEN Continue(t)
       ELSE tun' = [tun EXCEPT ![t].pc = "acquire", ![t].held = slots[At(t)]]
    /\ UNCHANGED <<sharedVars, closeVars, sess, rep, tokenVars>>

AcquireSession(t) ==
    /\ tun[t].pc = "acquire"
    /\ IF Usable(tun[t].held)
       THEN sess' = Acquired(tun[t].held) /\ Goto(t, "opening")
       ELSE UNCHANGED sess /\ Continue(t)
    /\ UNCHANGED <<sharedVars, closeVars, rep, tokenVars>>

\* rememberClientSlot(key, start, slot).
Remember(k, initial, actual) ==
    clientSlots' =
      IF /\ k # NoKey
         /\ initial # actual
         /\ ~ closed
         /\ clientSlots[k] # NoSlot
         /\ clientSlots[k] = initial \/ slots[clientSlots[k]] = NoSession
      THEN [clientSlots EXCEPT ![k] = actual]
      ELSE clientSlots

\* setClientFallback(key, start, slot, slot + 1).
FallBack(k, initial, failed) ==
    clientSlots' =
      IF /\ k # NoKey
         /\ ~ closed
         /\ clientSlots[k] # NoSlot
         /\ \/ clientSlots[k] \in {initial, failed}
            \/ slots[clientSlots[k]] = NoSession
      THEN [clientSlots EXCEPT ![k] = (failed + 1) % Size]
      ELSE clientSlots

\* session.OpenTunnel returns a connection: the client is remembered.
OpenSucceeds(t) ==
    /\ tun[t].pc = "opening"
    /\ Remember(KeyOf[t], tun[t].start, At(t))
    /\ tun' = [tun EXCEPT ![t] = [IdleTunnel EXCEPT !.pc = "held", !.held = tun[t].held]]
    /\ UNCHANGED <<slots, next, closeVars, sess, rep, tokenVars>>

\* An error that blames the target (~ shouldRebuildProxySession): the session is
\* released and the error returned.
OpenTargetError(t) ==
    /\ tun[t].pc = "opening"
    /\ sess' = Released(tun[t].held)
    /\ Return(t)
    /\ UNCHANGED <<sharedVars, closeVars, rep, tokenVars>>

\* An error that blames the session: it is released, then three more critical
\* sections move the client on, retire the session and empty its slot.
OpenBroken(t) ==
    /\ tun[t].pc = "opening"
    /\ sess' = Released(tun[t].held)
    /\ Goto(t, "fallback")
    /\ UNCHANGED <<sharedVars, closeVars, rep, tokenVars>>

SetClientFallback(t) ==
    /\ tun[t].pc = "fallback"
    /\ FallBack(KeyOf[t], tun[t].start, At(t))
    /\ Goto(t, "retire")
    /\ UNCHANGED <<slots, next, closeVars, sess, rep, tokenVars>>

RetireSession(t) ==
    /\ tun[t].pc = "retire"
    /\ sess' = Retired(tun[t].held)
    /\ Goto(t, "evict")
    /\ UNCHANGED <<sharedVars, closeVars, rep, tokenVars>>

IdleReplenisher == [pc |-> "none", tok |-> 0, dialled |-> NoSession]

\* Only the session that failed is evicted.  Mutation: any session.
AlwaysEvictable(t) == ~ closed
Evictable(t) == ~ closed /\ slots[At(t)] = tun[t].held

\* The second half of retireSlot: who evicts the session starts the replenisher.
EvictSlot(t) ==
    /\ tun[t].pc = "evict"
    /\ IF Evictable(t)
       THEN /\ slots' = [slots EXCEPT ![At(t)] = NoSession]
            /\ rep' = [rep EXCEPT ![At(t)] = [IdleReplenisher EXCEPT !.pc = "check"]]
       ELSE UNCHANGED <<slots, rep>>
    /\ Continue(t)
    /\ UNCHANGED <<clientSlots, next, closeVars, sess, tokenVars>>

\* The sync.Once of pooledTunnelConn.  Mutation: every Close releases.
ReleasedByEveryClose(t) == Released(tun[t].held)
ReleasedByClose(t) == IF tun[t].pc = "held" THEN Released(tun[t].held) ELSE sess

\* pooledTunnelConn.Close, first by proxyBidirectional, then once more by the
\* deferred Close of handleConn.
CloseTunnel(t) ==
    /\ tun[t].pc \in {"held", "shut"}
    /\ sess' = ReleasedByClose(t)
    /\ IF tun[t].pc = "held" THEN Goto(t, "shut") ELSE Return(t)
    /\ UNCHANGED <<sharedVars, closeVars, rep, tokenVars>>

-----------------------------------------------------------------------------
(* Replenishers.  No slot ever has two: see SlotFilledOrReplenishing.      *)

ReplenisherPC == {"none", "check", "dial", "install", "wait"}

\* A session object nobody points to any more, free to stand for a new one.
Unreferenced(s) ==
    /\ sess[s].refs = 0
    /\ ~ sess[s].attached
    /\ s \notin closing
    /\ \A t \in Tunnel : tun[t].held # s
    /\ \A i \in Slot : s \notin {slots[i], rep[i].dialled, upd.snap[i]}

\* The loop's check of closed and of the slot, and the token create() reads.
CheckSlot(i) ==
    /\ rep[i].pc = "check"
    /\ rep' = [rep EXCEPT ![i] =
                 IF closed \/ slots[i] # NoSession
                 THEN IdleReplenisher
                 ELSE [IdleReplenisher EXCEPT !.pc = "dial", !.tok = createToken]]
    /\ UNCHANGED <<sharedVars, closeVars, sess, tun, tokenVars>>

\* applyCurrentToken.  Mutation: the session keeps the token it was dialled with.
TokenOfDial(i) == rep[i].tok
TokenApplied(i) == IF currentToken = 0 THEN rep[i].tok ELSE currentToken

\* create() succeeds and applyCurrentToken follows.  The H2 and H3 sessions take
\* any token, so the error branch after it is not reachable.
DialSucceeds(i) ==
    /\ rep[i].pc = "dial"
    /\ \E s \in Session :
         /\ Unreferenced(s)
         /\ sess' = [sess EXCEPT ![s] = NewSession(TokenApplied(i))]
         /\ rep' = [rep EXCEPT ![i] = [@ EXCEPT !.pc = "install", !.dialled = s]]
         /\ missed' = missed \ {s}
    /\ UNCHANGED <<sharedVars, closeVars, tun, currentToken, createToken, upd>>

DialFails(i) ==
    /\ rep[i].pc = "dial"
    /\ rep' = [rep EXCEPT ![i] = [IdleReplenisher EXCEPT !.pc = "wait"]]
    /\ UNCHANGED <<sharedVars, closeVars, sess, tun, tokenVars>>

\* waitOrClosed: the retry timer, or p.done, ends the wait.
RetryTimer(i) ==
    /\ rep[i].pc = "wait"
    /\ rep' = [rep EXCEPT ![i].pc = "check"]
    /\ UNCHANGED <<sharedVars, closeVars, sess, tun, tokenVars>>

\* Mutation of WaitInterrupted: the timer ends the wait as p.done does.
WaitEndsLoop(i) ==
    /\ rep[i].pc = "wait"
    /\ rep' = [rep EXCEPT ![i] = IdleReplenisher]
    /\ UNCHANGED <<sharedVars, closeVars, sess, tun, tokenVars>>

WaitInterrupted(i) ==
    /\ rep[i].pc = "wait"
    /\ done
    /\ rep' = [rep EXCEPT ![i] = IdleReplenisher]
    /\ UNCHANGED <<sharedVars, closeVars, sess, tun, tokenVars>>

\* Mutation: a closed pool takes the session.
SlotIsFree(i) == slots[i] = NoSession
Installable(i) == ~ closed /\ slots[i] = NoSession

\* The new session fills the slot, or is closed when the pool is.
InstallSession(i) ==
    /\ rep[i].pc = "install"
    /\ IF Installable(i)
       THEN slots' = [slots EXCEPT ![i] = rep[i].dialled] /\ UNCHANGED sess
       ELSE sess' = ClosedNow(rep[i].dialled) /\ UNCHANGED slots
    /\ rep' = [rep EXCEPT ![i] = IdleReplenisher]
    /\ UNCHANGED <<clientSlots, next, closeVars, tun, tokenVars>>

-----------------------------------------------------------------------------
(* UpdateToken.                                                            *)

UpdaterPC == {"idle", "create", "snapshot", "acquire", "apply"}
NoSnapshot == [i \in Slot |-> NoSession]
IdleUpdater == [pc |-> "idle", at |-> 0, snap |-> NoSnapshot]

PublishToken ==
    /\ upd.pc = "idle"
    /\ ~ done
    /\ currentToken < MaxToken
    /\ currentToken' = currentToken + 1
    /\ upd' = [upd EXCEPT !.pc = "create"]
    /\ UNCHANGED <<sharedVars, closeVars, sess, tun, rep, createToken, missed>>

SetCreateToken ==
    /\ upd.pc = "create"
    /\ createToken' = currentToken
    /\ upd' = [upd EXCEPT !.pc = "snapshot"]
    /\ UNCHANGED <<sharedVars, closeVars, sess, tun, rep, currentToken, missed>>

\* p.sessions is copied under p.mu; a session that is dialled but not installed
\* at this moment is not in the copy.
SnapshotSessions ==
    /\ upd.pc = "snapshot"
    /\ upd' = [pc |-> "acquire", at |-> 0, snap |-> slots]
    /\ missed' = {s \in Session : sess[s].token # currentToken
                                  /\ \E i \in Slot : rep[i].dialled = s}
    /\ UNCHANGED <<sharedVars, closeVars, sess, tun, rep, currentToken, createToken>>

\* The loop drops its pointer to the session it is done with.
NextUpdate ==
    upd' = IF upd.at + 1 < Size
           THEN [pc |-> "acquire", at |-> upd.at + 1,
                 snap |-> [upd.snap EXCEPT ![upd.at] = NoSession]]
           ELSE IdleUpdater

UpdateAcquire ==
    /\ upd.pc = "acquire"
    /\ IF upd.snap[upd.at] # NoSession /\ Usable(upd.snap[upd.at])
       THEN sess' = Acquired(upd.snap[upd.at]) /\ upd' = [upd EXCEPT !.pc = "apply"]
       ELSE UNCHANGED sess /\ NextUpdate
    /\ UNCHANGED <<sharedVars, closeVars, tun, rep, currentToken, createToken, missed>>

\* updater.UpdateToken(token), then pooled.release().  Mutation: no release.
OnlyUpdated(s) == [sess EXCEPT ![s].token = currentToken]
UpdatedAndReleased(s) == [Released(s) EXCEPT ![s].token = currentToken]

UpdateApply ==
    /\ upd.pc = "apply"
    /\ sess' = UpdatedAndReleased(upd.snap[upd.at])
    /\ NextUpdate
    /\ UNCHANGED <<sharedVars, closeVars, tun, rep, currentToken, createToken, missed>>

-----------------------------------------------------------------------------
(* Close.                                                                  *)

CloseDone ==
    /\ ~ done
    /\ upd.pc = "idle"
    /\ done' = TRUE
    /\ UNCHANGED <<sharedVars, closed, closing, sess, tun, rep, tokenVars>>

CloseSlots ==
    /\ done
    /\ ~ closed
    /\ closed' = TRUE
    /\ closing' = {slots[i] : i \in Slot} \ {NoSession}
    /\ slots' = [i \in Slot |-> NoSession]
    /\ UNCHANGED <<clientSlots, next, done, sess, tun, rep, tokenVars>>

\* closeNow on the sessions that were in the slots, one after the other (the code
\* follows the slots; here the order is left open).
CloseNext ==
    \E s \in closing :
      /\ sess' = ClosedNow(s)
      /\ closing' = closing \ {s}
      /\ UNCHANGED <<sharedVars, done, closed, tun, rep, tokenVars>>

-----------------------------------------------------------------------------
(* newProxySessionPool: each slot is dialled once; with at least one       *)
(* success the pool starts, with a replenisher for every slot still empty. *)

Init ==
    /\ slots \in [Slot -> Ref]
    /\ \E i \in Slot : slots[i] # NoSession
    /\ \A i, j \in Slot : i # j /\ slots[i] # NoSession => slots[i] # slots[j]
    /\ sess = [s \in Session |->
                 IF \E i \in Slot : slots[i] = s THEN NewSession(0) ELSE Blank]
    /\ rep = [i \in Slot |->
                IF slots[i] = NoSession
                THEN [IdleReplenisher EXCEPT !.pc = "check"] ELSE IdleReplenisher]
    /\ clientSlots = [c \in Client |-> NoSlot]
    /\ next = 0
    /\ done = FALSE
    /\ closed = FALSE
    /\ closing = {}
    /\ tun = [t \in Tunnel |-> IdleTunnel]
    /\ currentToken = 0
    /\ createToken = 0
    /\ upd = IdleUpdater
    /\ missed = {}

TunnelStep(t) ==
    \/ RotateSlot(t) \/ AffineSlot(t)
    \/ LookupSlot(t) \/ AcquireSession(t)
    \/ OpenSucceeds(t) \/ OpenTargetError(t) \/ OpenBroken(t)
    \/ SetClientFallback(t) \/ RetireSession(t) \/ EvictSlot(t)
    \/ CloseTunnel(t)

ReplenisherStep(i) ==
    \/ CheckSlot(i) \/ DialSucceeds(i) \/ DialFails(i)
    \/ RetryTimer(i) \/ WaitInterrupted(i) \/ InstallSession(i)

UpdaterStep ==
    PublishToken \/ SetCreateToken \/ SnapshotSessions \/ UpdateAcquire \/ UpdateApply

CloserStep == CloseDone \/ CloseSlots \/ CloseNext

Next ==
    \/ \E t \in Tunnel : TunnelStep(t)
    \/ \E i \in Slot : ReplenisherStep(i)
    \/ UpdaterStep
    \/ CloserStep

Spec == Init /\ [][Next]_vars
-----------------------------------------------------------------------------
(* Properties.                                                             *)

SessionState == [attached : BOOLEAN, retired : BOOLEAN, refs : Nat, token : Token]
TunnelState == [pc : TunnelPC, start : Slot, step : Slot, held : Ref]
ReplenisherState == [pc : ReplenisherPC, tok : Token, dialled : Ref]
UpdaterState == [pc : UpdaterPC, at : Slot, snap : [Slot -> Ref]]

TypeOK ==
    /\ slots \in [Slot -> Ref]
    /\ clientSlots \in [Client -> Slot \union {NoSlot}]
    /\ next \in Slot
    /\ done \in BOOLEAN
    /\ closed \in BOOLEAN
    /\ closing \in SUBSET Session
    /\ sess \in [Session -> SessionState]
    /\ tun \in [Tunnel -> TunnelState]
    /\ rep \in [Slot -> ReplenisherState]
    /\ currentToken \in Token
    /\ createToken \in Token
    /\ upd \in UpdaterState
    /\ missed \in SUBSET Session

\* An open slot is either filled or has its one replenisher at work, never both:
\* two tunnels that fail on the same session start one replenisher, and none is
\* lost between retireSlot and the check at the top of replenishSlot.
SlotFilledOrReplenishing ==
    \A i \in Slot :
      /\ rep[i].pc # "none" => slots[i] = NoSession
      /\ slots[i] = NoSession /\ ~ done => rep[i].pc # "none"

\* Tunnels that hold s: an open in flight or a connection not yet closed.
Holders(s) == {t \in Tunnel : tun[t].held = s /\ tun[t].pc \in {"opening", "held"}}
UpdaterHolds(s) == upd.pc = "apply" /\ upd.snap[upd.at] = s

\* The reference count of a session is the number of tunnels and updates that
\* hold it: no path of openTunnel, no double Close and no renewal loses or
\* repeats a release.
RefsMatchHolders ==
    \A s \in Session :
      sess[s].refs = Cardinality(Holders(s)) + (IF UpdaterHolds(s) THEN 1 ELSE 0)

\* A session that a tunnel or an update holds is not closed under it before the
\* pool is closed, although other tunnels retire and evict it meanwhile.
HeldSessionStaysOpen ==
    \A s \in Session :
      ~ done /\ (Holders(s) # {} \/ UpdaterHolds(s)) => sess[s].attached

\* No open connection is forgotten: it is in a slot, being installed, about to
\* be closed by Close or by the tunnel that found it broken, or a draining
\* session whose last holder will close it.
NoOrphanConnection ==
    \A s \in Session : sess[s].attached =>
      \/ \E i \in Slot : s \in {slots[i], rep[i].dialled}
      \/ s \in closing
      \/ sess[s].retired /\ sess[s].refs > 0

\* Between renewals, the only usable sessions that lack the published token are
\* those that were dialled, but not installed, when the renewal copied p.sessions.
StaleTokenOnlyIfMissed ==
    upd.pc = "idle" /\ currentToken # 0 =>
      \A i \in Slot :
        slots[i] # NoSession /\ Usable(slots[i]) /\ sess[slots[i]].token # currentToken
          => slots[i] \in missed

\* The pool is a SessionLease: a retired session drains, and only Close cuts the
\* tunnels of an open session.
Lease == INSTANCE SessionLease WITH
    status <- [s \in Session |-> IF ~ sess[s].attached THEN "none"
                                 ELSE IF sess[s].retired THEN "draining" ELSE "serving"],
    leases <- [s \in Session |-> sess[s].refs],
    down <- done
ImplementsLease == Lease!Spec

-----------------------------------------------------------------------------
(* Liveness.  Goroutines are scheduled, a dial and a session.OpenTunnel    *)
(* return (each has a timeout), and the upstream does not refuse every     *)
(* dial for ever.  Nothing forces a client to close its connection.        *)

UpstreamRecovers == \A i \in Slot : SF_vars(DialSucceeds(i))

Fairness ==
    /\ \A t \in Tunnel : WF_vars(TunnelStep(t) /\ tun[t].pc \notin {"idle", "held"})
    /\ \A i \in Slot : WF_vars(ReplenisherStep(i))
    /\ WF_vars(UpdaterStep /\ upd.pc # "idle")
    /\ WF_vars(CloseSlots)
    /\ WF_vars(CloseNext)

FairSpec == Spec /\ Fairness /\ UpstreamRecovers

\* A slot that lost its session gets a new one, unless the pool is closed.
EmptySlotRefilled ==
    \A i \in Slot : slots[i] = NoSession ~> slots[i] # NoSession \/ done

\* openTunnel returns, with a connection or an error, however the sessions it
\* meets fail and are replaced while it tries the slots.
OpenReturns ==
    \A t \in Tunnel : tun[t].pc = "slot" ~> tun[t].pc \in {"held", "idle"}

\* After Close every connection is closed for good, also those that were being
\* dialled when the pool was closed; all but a session that was evicted before and
\* drains, which is left to the tunnels that still hold it.
CloseReachesEverySession ==
    done ~> [](\A s \in Session :
                  sess[s].attached => sess[s].retired /\ Holders(s) # {})

\* What TestProxySessionPoolUpdatesReplacementCreatedDuringRenewal expects: once
\* UpdateToken has returned, replacements carry the renewed token too.
RenewedTokenReachesReplacements ==
    upd.pc = "idle" =>
      \A i \in Slot :
        slots[i] # NoSession /\ Usable(slots[i]) => sess[slots[i]].token = currentToken

\* What OPERATOR.md says of UPSTREAM_CONNS: a client changes its session only when
\* that session fails.  Here, for the move a failed open causes: the session the
\* client leaves is the one that failed.
FailoverLeavesFailedSession ==
    [][\A t \in Tunnel :
         LET k == KeyOf[t] IN
         /\ k # NoKey
         /\ tun[t].pc = "fallback"
         /\ tun'[t].pc = "retire"
         /\ clientSlots'[k] # clientSlots[k]
         /\ slots[clientSlots[k]] # NoSession
         => slots[clientSlots[k]] = tun[t].held]_vars

=============================================================================
