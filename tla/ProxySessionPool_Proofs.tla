----------------------- MODULE ProxySessionPool_Proofs -----------------------
(***************************************************************************)
(* Theorems about ProxySessionPool, for every number of slots, sessions,   *)
(* tunnels, clients and renewals.                                          *)
(***************************************************************************)
EXTENDS ProxySessionPool, FiniteSetTheorems, TLAPS

-----------------------------------------------------------------------------
(* The operators the model is built from.                                  *)

\* The arithmetic of the round robin and of the walk over the slots.
LEMMA SlotArithmetic ==
    /\ 0 \in Slot
    /\ \A i \in Slot : i \in Nat
    /\ \A n \in Nat : n % Size \in Slot
    /\ \A i \in Slot : i + 1 < Size => i + 1 \in Slot
  BY SizeAssumption DEF Slot

\* What the helpers on session objects return has the type of sess again.
LEMMA SessionTypes ==
    ASSUME TypeOK, NEW s \in Ref
    PROVE  /\ Acquired(s) \in [Session -> SessionState]
           /\ Released(s) \in [Session -> SessionState]
           /\ Retired(s) \in [Session -> SessionState]
           /\ ClosedNow(s) \in [Session -> SessionState]
           /\ UpdatedAndReleased(s) \in [Session -> SessionState]
           /\ \A tok \in Token :
                [sess EXCEPT ![s] = NewSession(tok)] \in [Session -> SessionState]
  <1>1. sess \in [Session -> SessionState] /\ currentToken \in Token
    BY DEF TypeOK
  <1>2. CASE s = NoSession
    BY <1>1, <1>2, NoSessionAssumption
    DEF Acquired, Released, Retired, ClosedNow, UpdatedAndReleased
  <1>3. CASE s \in Session
    <2> USE DEF SessionState
    <2>1. sess[s].refs \in Nat /\ sess[s].attached \in BOOLEAN
      BY <1>1, <1>3
    <2>2. Acquired(s) \in [Session -> SessionState]
      BY <1>1, <1>3, <2>1 DEF Acquired
    <2>3. Released(s) \in [Session -> SessionState]
      <3> DEFINE left == IF sess[s].refs > 0 THEN sess[s].refs - 1 ELSE 0
                 open == sess[s].attached /\ ~ (left = 0 /\ sess[s].retired)
      <3>1. left \in Nat
        BY <2>1
      <3>2. open \in BOOLEAN
        OBVIOUS
      <3>3. Released(s) = [sess EXCEPT ![s] = [@ EXCEPT !.refs = left, !.attached = open]]
        BY DEF Released
      <3> HIDE DEF left, open
      <3> QED
        BY <1>1, <3>1, <3>2, <3>3
    <2>4. Retired(s) \in [Session -> SessionState]
      <3> DEFINE open == sess[s].attached /\ sess[s].refs # 0
      <3>1. open \in BOOLEAN
        OBVIOUS
      <3>2. Retired(s) = [sess EXCEPT ![s] = [@ EXCEPT !.retired = TRUE, !.attached = open]]
        BY DEF Retired
      <3> HIDE DEF open
      <3> QED
        BY <1>1, <3>1, <3>2
    <2>5. ClosedNow(s) \in [Session -> SessionState]
      BY <1>1 DEF ClosedNow
    <2>6. UpdatedAndReleased(s) \in [Session -> SessionState]
      BY <1>1, <2>3 DEF UpdatedAndReleased
    <2>7. \A tok \in Token :
            [sess EXCEPT ![s] = NewSession(tok)] \in [Session -> SessionState]
      BY <1>1 DEF NewSession
    <2> QED
      BY <2>2, <2>3, <2>4, <2>5, <2>6, <2>7
  <1> QED
    BY <1>2, <1>3 DEF Ref

\* Where a tunnel goes next: to another slot, to another point or back to the caller.
LEMMA TunnelTypes ==
    ASSUME TypeOK, NEW t \in Tunnel
    PROVE  /\ Return(t) => tun' \in [Tunnel -> TunnelState]
           /\ Continue(t) => tun' \in [Tunnel -> TunnelState]
           /\ \A l \in TunnelPC : Goto(t, l) => tun' \in [Tunnel -> TunnelState]
           /\ \A i \in Slot : Start(t, i) => tun' \in [Tunnel -> TunnelState]
           /\ At(t) \in Slot
  <1> USE DEF TunnelState
  <1>1. tun \in [Tunnel -> TunnelState] /\ tun[t].start \in Slot /\ tun[t].step \in Slot
    BY DEF TypeOK
  <1>2. IdleTunnel \in TunnelState
    BY SlotArithmetic DEF IdleTunnel, TunnelPC, Ref
  <1>3. Return(t) => tun' \in [Tunnel -> TunnelState]
    BY <1>1, <1>2 DEF Return
  <1>4. Continue(t) => tun' \in [Tunnel -> TunnelState]
    BY <1>1, <1>3, SlotArithmetic DEF Continue, TunnelPC, Ref
  <1>5. \A l \in TunnelPC : Goto(t, l) => tun' \in [Tunnel -> TunnelState]
    BY <1>1 DEF Goto
  <1>6. \A i \in Slot : Start(t, i) => tun' \in [Tunnel -> TunnelState]
    BY <1>1, SlotArithmetic DEF Start, TunnelPC, Ref
  <1>7. At(t) \in Slot
    BY <1>1, SlotArithmetic DEF At
  <1> QED
    BY <1>3, <1>4, <1>5, <1>6, <1>7

\* The idle states of the goroutines.
LEMMA IdleTypes ==
    /\ IdleReplenisher \in ReplenisherState
    /\ \A tok \in Token :
         [IdleReplenisher EXCEPT !.pc = "dial", !.tok = tok] \in ReplenisherState
    /\ \A l \in ReplenisherPC : [IdleReplenisher EXCEPT !.pc = l] \in ReplenisherState
    /\ IdleUpdater \in UpdaterState
  <1>1. 0 \in Token
    BY MaxTokenAssumption DEF Token
  <1>2. IdleUpdater \in UpdaterState
    BY SlotArithmetic DEF IdleUpdater, NoSnapshot, UpdaterState, UpdaterPC, Ref
  <1> QED
    BY <1>1, <1>2 DEF IdleReplenisher, ReplenisherState, ReplenisherPC, Ref

-----------------------------------------------------------------------------
(* Type correctness.                                                       *)

\* newProxySessionPool starts from well-typed state.
LEMMA TypeOKInit == Init => TypeOK
  <1> SUFFICES ASSUME Init
               PROVE  TypeOK
    OBVIOUS
  <1>1. sess \in [Session -> SessionState]
    BY MaxTokenAssumption DEF Init, NewSession, Blank, SessionState, Token
  <1>2. tun \in [Tunnel -> TunnelState]
    BY SlotArithmetic DEF Init, IdleTunnel, TunnelState, TunnelPC, Ref
  <1>3. rep \in [Slot -> ReplenisherState]
    BY IdleTypes DEF Init, ReplenisherPC
  <1>4. upd \in UpdaterState
    BY IdleTypes DEF Init
  <1>5. /\ slots \in [Slot -> Ref]
        /\ clientSlots \in [Client -> Slot \union {NoSlot}]
        /\ closing \in SUBSET Session
        /\ missed \in SUBSET Session
    BY DEF Init
  <1>6. /\ next \in Slot
        /\ currentToken \in Token
        /\ createToken \in Token
    BY SlotArithmetic, MaxTokenAssumption DEF Init, Token
  <1>7. done \in BOOLEAN /\ closed \in BOOLEAN
    BY DEF Init
  <1> QED
    BY <1>1, <1>2, <1>3, <1>4, <1>5, <1>6, <1>7 DEF TypeOK

\* The loop of UpdateToken stays inside its copy of p.sessions.
LEMMA UpdaterTypes ==
    ASSUME TypeOK, NextUpdate
    PROVE  upd' \in UpdaterState
  <1>1. upd \in UpdaterState
    BY DEF TypeOK
  <1> QED
    BY <1>1, IdleTypes, SlotArithmetic DEF NextUpdate, UpdaterState, UpdaterPC, Ref

\* Every critical section and every external answer keeps the types.
LEMMA TypeOKNext == TypeOK /\ [Next]_vars => TypeOK'
  <1> SUFFICES ASSUME TypeOK, [Next]_vars
               PROVE  TypeOK'
    OBVIOUS
  <1>1. ASSUME NEW t \in Tunnel, TunnelStep(t)
        PROVE  TypeOK'
    <2>1. CASE RotateSlot(t)
      <3>1. next \in Slot /\ next' \in Slot
        BY <2>1, SlotArithmetic DEF RotateSlot, TypeOK
      <3>2. tun' \in [Tunnel -> TunnelState]
        BY <2>1, <3>1, TunnelTypes DEF RotateSlot
      <3> QED
        BY <2>1, <3>1, <3>2 DEF RotateSlot, TypeOK, sharedVars, closeVars, tokenVars
    <2>2. CASE AffineSlot(t)
      <3>1. tun' \in [Tunnel -> TunnelState]
        BY <2>2, TunnelTypes DEF AffineSlot
      <3>2. clientSlots' \in [Client -> Slot \union {NoSlot}]
        BY <2>2, KeyAssumption DEF AffineSlot, TypeOK
      <3> QED
        BY <2>2, <3>1, <3>2 DEF AffineSlot, TypeOK, sharedVars, closeVars, tokenVars
    <2>3. CASE LookupSlot(t)
      <3>1. At(t) \in Slot
        BY <2>3, TunnelTypes DEF LookupSlot
      <3>2. tun' \in [Tunnel -> TunnelState]
        BY <2>3, <3>1, TunnelTypes DEF LookupSlot, TypeOK, TunnelState, TunnelPC
      <3> QED
        BY <2>3, <3>1, <3>2 DEF LookupSlot, TypeOK, sharedVars, closeVars, tokenVars
    <2>4. CASE AcquireSession(t)
      <3>1. tun[t].held \in Ref
        BY <2>4 DEF AcquireSession, TypeOK, TunnelState
      <3>2. sess' \in [Session -> SessionState]
        BY <2>4, <3>1, SessionTypes DEF AcquireSession, TypeOK
      <3>3. tun' \in [Tunnel -> TunnelState]
        BY <2>4, TunnelTypes DEF AcquireSession, TunnelPC
      <3> QED
        BY <2>4, <3>1, <3>2, <3>3 DEF AcquireSession, TypeOK, sharedVars, closeVars, tokenVars
    <2>5. CASE OpenSucceeds(t)
      <3>1. tun[t].held \in Ref
        BY <2>5 DEF OpenSucceeds, TypeOK, TunnelState
      <3>2. tun' \in [Tunnel -> TunnelState]
        BY <2>5, <3>1, SlotArithmetic DEF OpenSucceeds, TypeOK, TunnelState, TunnelPC, IdleTunnel
      <3>3. At(t) \in Slot
        BY <2>5, TunnelTypes DEF OpenSucceeds
      <3>4. clientSlots' \in [Client -> Slot \union {NoSlot}]
        BY <2>5, <3>3, KeyAssumption DEF OpenSucceeds, Remember, TypeOK
      <3> QED
        BY <2>5, <3>1, <3>2, <3>3, <3>4 DEF OpenSucceeds, TypeOK, sharedVars, closeVars, tokenVars
    <2>6. CASE OpenTargetError(t)
      <3>1. tun[t].held \in Ref
        BY <2>6 DEF OpenTargetError, TypeOK, TunnelState
      <3>2. sess' \in [Session -> SessionState]
        BY <2>6, <3>1, SessionTypes DEF OpenTargetError
      <3>3. tun' \in [Tunnel -> TunnelState]
        BY <2>6, TunnelTypes DEF OpenTargetError
      <3> QED
        BY <2>6, <3>1, <3>2, <3>3 DEF OpenTargetError, TypeOK, sharedVars, closeVars, tokenVars
    <2>7. CASE OpenBroken(t)
      <3>1. tun[t].held \in Ref
        BY <2>7 DEF OpenBroken, TypeOK, TunnelState
      <3>2. sess' \in [Session -> SessionState]
        BY <2>7, <3>1, SessionTypes DEF OpenBroken
      <3>3. tun' \in [Tunnel -> TunnelState]
        BY <2>7, TunnelTypes DEF OpenBroken, TunnelPC
      <3> QED
        BY <2>7, <3>1, <3>2, <3>3 DEF OpenBroken, TypeOK, sharedVars, closeVars, tokenVars
    <2>8. CASE SetClientFallback(t)
      <3>1. tun' \in [Tunnel -> TunnelState]
        BY <2>8, TunnelTypes DEF SetClientFallback, TunnelPC
      <3>2. (At(t) + 1) % Size \in Slot
        BY <2>8, TunnelTypes, SlotArithmetic DEF SetClientFallback
      <3>3. clientSlots' \in [Client -> Slot \union {NoSlot}]
        BY <2>8, <3>2, KeyAssumption DEF SetClientFallback, FallBack, TypeOK
      <3> QED
        BY <2>8, <3>1, <3>2, <3>3 DEF SetClientFallback, TypeOK, sharedVars, closeVars, tokenVars
    <2>9. CASE RetireSession(t)
      <3>1. tun[t].held \in Ref
        BY <2>9 DEF RetireSession, TypeOK, TunnelState
      <3>2. sess' \in [Session -> SessionState]
        BY <2>9, <3>1, SessionTypes DEF RetireSession
      <3>3. tun' \in [Tunnel -> TunnelState]
        BY <2>9, TunnelTypes DEF RetireSession, TunnelPC
      <3> QED
        BY <2>9, <3>1, <3>2, <3>3 DEF RetireSession, TypeOK, sharedVars, closeVars, tokenVars
    <2>10. CASE EvictSlot(t)
      <3>1. tun' \in [Tunnel -> TunnelState]
        BY <2>10, TunnelTypes DEF EvictSlot
      <3>2. rep' \in [Slot -> ReplenisherState]
        BY <2>10, IdleTypes DEF EvictSlot, TypeOK, ReplenisherPC
      <3>3. slots' \in [Slot -> Ref]
        BY <2>10 DEF EvictSlot, TypeOK, Ref
      <3> QED
        BY <2>10, <3>1, <3>2, <3>3 DEF EvictSlot, TypeOK, sharedVars, closeVars, tokenVars
    <2>11. CASE CloseTunnel(t)
      <3>1. tun[t].held \in Ref
        BY <2>11 DEF CloseTunnel, TypeOK, TunnelState
      <3>2. sess' \in [Session -> SessionState]
        BY <2>11, <3>1, SessionTypes DEF CloseTunnel, ReleasedByClose, TypeOK
      <3>3. tun' \in [Tunnel -> TunnelState]
        BY <2>11, TunnelTypes DEF CloseTunnel, TunnelPC
      <3> QED
        BY <2>11, <3>1, <3>2, <3>3 DEF CloseTunnel, TypeOK, sharedVars, closeVars, tokenVars
    <2> QED
      BY <1>1, <2>1, <2>2, <2>3, <2>4, <2>5, <2>6, <2>7, <2>8, <2>9, <2>10, <2>11 DEF TunnelStep
  <1>2. ASSUME NEW i \in Slot, ReplenisherStep(i)
        PROVE  TypeOK'
    <2>1. CASE CheckSlot(i)
      <3>1. rep' \in [Slot -> ReplenisherState]
        BY <2>1, IdleTypes DEF CheckSlot, TypeOK
      <3> QED
        BY <2>1, <3>1 DEF CheckSlot, TypeOK, sharedVars, closeVars, tokenVars
    <2>2. CASE DialSucceeds(i)
      <3>1. TokenApplied(i) \in Token
        BY <2>2 DEF DialSucceeds, TokenApplied, TypeOK, ReplenisherState
      <3>2. sess' \in [Session -> SessionState]
        BY <2>2, <3>1, SessionTypes DEF DialSucceeds, Ref
      <3>3. \A s \in Session : [rep[i] EXCEPT !.pc = "install", !.dialled = s] \in ReplenisherState
        BY <2>2 DEF DialSucceeds, TypeOK, ReplenisherState, ReplenisherPC, Ref
      <3>4. rep' \in [Slot -> ReplenisherState]
        BY <2>2, <3>3 DEF DialSucceeds, TypeOK
      <3> QED
        BY <2>2, <3>1, <3>2, <3>3, <3>4 DEF DialSucceeds, TypeOK, sharedVars, closeVars, tokenVars
    <2>3. CASE DialFails(i)
      <3>1. rep' \in [Slot -> ReplenisherState]
        BY <2>3, IdleTypes DEF DialFails, TypeOK, ReplenisherPC
      <3> QED
        BY <2>3, <3>1 DEF DialFails, TypeOK, sharedVars, closeVars, tokenVars
    <2>4. CASE RetryTimer(i)
      <3>1. rep' \in [Slot -> ReplenisherState]
        BY <2>4 DEF RetryTimer, TypeOK, ReplenisherState, ReplenisherPC
      <3> QED
        BY <2>4, <3>1 DEF RetryTimer, TypeOK, sharedVars, closeVars, tokenVars
    <2>5. CASE WaitInterrupted(i)
      <3>1. rep' \in [Slot -> ReplenisherState]
        BY <2>5, IdleTypes DEF WaitInterrupted, TypeOK
      <3> QED
        BY <2>5, <3>1 DEF WaitInterrupted, TypeOK, sharedVars, closeVars, tokenVars
    <2>6. CASE InstallSession(i)
      <3>1. rep' \in [Slot -> ReplenisherState]
        BY <2>6, IdleTypes DEF InstallSession, TypeOK
      <3>2. rep[i].dialled \in Ref
        BY <2>6 DEF InstallSession, TypeOK, ReplenisherState
      <3>3. sess' \in [Session -> SessionState]
        BY <2>6, <3>2, SessionTypes DEF InstallSession, TypeOK
      <3>4. slots' \in [Slot -> Ref]
        BY <2>6, <3>2 DEF InstallSession, TypeOK
      <3> QED
        BY <2>6, <3>1, <3>2, <3>3, <3>4 DEF InstallSession, TypeOK, sharedVars, closeVars, tokenVars
    <2> QED
      BY <1>2, <2>1, <2>2, <2>3, <2>4, <2>5, <2>6 DEF ReplenisherStep
  <1>3. CASE UpdaterStep
    <2>1. CASE PublishToken
      <3>1. currentToken' \in Token
        BY <2>1, MaxTokenAssumption DEF PublishToken, TypeOK, Token
      <3>2. upd' \in UpdaterState
        BY <2>1 DEF PublishToken, TypeOK, UpdaterState, UpdaterPC
      <3> QED
        BY <2>1, <3>1, <3>2 DEF PublishToken, TypeOK, sharedVars, closeVars, tokenVars
    <2>2. CASE SetCreateToken
      <3>1. upd' \in UpdaterState
        BY <2>2 DEF SetCreateToken, TypeOK, UpdaterState, UpdaterPC
      <3> QED
        BY <2>2, <3>1 DEF SetCreateToken, TypeOK, sharedVars, closeVars, tokenVars
    <2>3. CASE SnapshotSessions
      <3>1. upd' \in UpdaterState
        BY <2>3, SlotArithmetic DEF SnapshotSessions, TypeOK, UpdaterState, UpdaterPC
      <3> QED
        BY <2>3, <3>1 DEF SnapshotSessions, TypeOK, sharedVars, closeVars, tokenVars
    <2>4. CASE UpdateAcquire
      <3>1. upd.snap[upd.at] \in Ref
        BY <2>4 DEF UpdateAcquire, TypeOK, UpdaterState
      <3>2. sess' \in [Session -> SessionState]
        BY <2>4, <3>1, SessionTypes DEF UpdateAcquire, TypeOK
      <3>3. NextUpdate => upd' \in UpdaterState
        BY <2>4, UpdaterTypes DEF UpdateAcquire
      <3>4. upd' \in UpdaterState
        BY <2>4, <3>3 DEF UpdateAcquire, TypeOK, UpdaterState, UpdaterPC
      <3> QED
        BY <2>4, <3>1, <3>2, <3>3, <3>4 DEF UpdateAcquire, TypeOK, sharedVars, closeVars, tokenVars
    <2>5. CASE UpdateApply
      <3>1. upd.snap[upd.at] \in Ref
        BY <2>5 DEF UpdateApply, TypeOK, UpdaterState
      <3>2. sess' \in [Session -> SessionState]
        BY <2>5, <3>1, SessionTypes DEF UpdateApply
      <3>3. upd' \in UpdaterState
        BY <2>5, UpdaterTypes DEF UpdateApply
      <3> QED
        BY <2>5, <3>1, <3>2, <3>3 DEF UpdateApply, TypeOK, sharedVars, closeVars, tokenVars
    <2> QED
      BY <1>3, <2>1, <2>2, <2>3, <2>4, <2>5 DEF UpdaterStep
  <1>4. CASE CloserStep
    <2>1. CASE CloseDone
      BY <2>1 DEF CloseDone, TypeOK, sharedVars, closeVars, tokenVars
    <2>2. CASE CloseSlots
      <3>1. slots' \in [Slot -> Ref]
        BY <2>2 DEF CloseSlots, Ref
      <3>2. closing' \in SUBSET Session
        BY <2>2 DEF CloseSlots, TypeOK, Ref
      <3> QED
        BY <2>2, <3>1, <3>2 DEF CloseSlots, TypeOK, sharedVars, closeVars, tokenVars
    <2>3. CASE CloseNext
      <3>1. sess' \in [Session -> SessionState]
        BY <2>3, SessionTypes DEF CloseNext, Ref, TypeOK
      <3>2. closing' \in SUBSET Session
        BY <2>3 DEF CloseNext, TypeOK
      <3> QED
        BY <2>3, <3>1, <3>2 DEF CloseNext, TypeOK, sharedVars, closeVars, tokenVars
    <2> QED
      BY <1>4, <2>1, <2>2, <2>3 DEF CloserStep
  <1>5. CASE UNCHANGED vars
    BY <1>5 DEF vars, sharedVars, closeVars, tokenVars, TypeOK
  <1> QED
    BY <1>1, <1>2, <1>3, <1>4, <1>5 DEF Next

\* The types of the shared state and of every goroutine's local state: no walk over
\* the slots leaves p.sessions and no reference count goes below zero.
THEOREM TypeCorrect == Spec => []TypeOK
  <1>1. Init => TypeOK
    BY TypeOKInit
  <1>2. TypeOK /\ [Next]_vars => TypeOK'
    BY TypeOKNext
  <1> QED
    BY <1>1, <1>2, PTL DEF Spec

-----------------------------------------------------------------------------
(* Slots and their replenishers.  Only EvictSlot, the replenishers and     *)
(* Close change slots, rep, done, closed or closing.                       *)

slotVars == <<slots, rep, closeVars>>

SlotInv ==
    /\ SlotFilledOrReplenishing
    /\ closed => done
    /\ closing # {} => done
    /\ \A i \in Slot : rep[i].pc = "install" => rep[i].dialled \in Session

\* A replenisher gives up only when the pool is closing: while its slot is empty
\* nothing else makes CheckSlot or InstallSession end it.
LEMMA SlotInvNext == TypeOK /\ SlotInv /\ [Next]_vars => SlotInv'
  <1> SUFFICES ASSUME TypeOK, SlotInv, [Next]_vars
               PROVE  SlotInv'
    OBVIOUS
  <1> USE DEF SlotInv, SlotFilledOrReplenishing
  <1>1. CASE UNCHANGED slotVars
    BY <1>1 DEF slotVars, closeVars
  <1>2. ASSUME NEW t \in Tunnel, TunnelStep(t)
        PROVE  SlotInv'
    <2>1. CASE EvictSlot(t)
      <3>1. At(t) \in Slot
        BY TunnelTypes
      <3>2. CASE Evictable(t)
        BY <2>1, <3>1, <3>2 DEF EvictSlot, IdleReplenisher, closeVars, TypeOK
      <3>3. CASE ~ Evictable(t)
        BY <2>1, <3>3, <1>1 DEF EvictSlot, slotVars, closeVars
      <3> QED
        BY <3>2, <3>3
    <2>2. CASE ~ EvictSlot(t)
      <3>1. UNCHANGED slotVars
        BY <1>2, <2>2
        DEF TunnelStep, RotateSlot, AffineSlot, LookupSlot, AcquireSession, OpenSucceeds,
            OpenTargetError, OpenBroken, SetClientFallback, RetireSession, CloseTunnel,
            slotVars, sharedVars, closeVars
      <3> QED
        BY <3>1, <1>1
    <2> QED
      BY <2>1, <2>2
  <1>3. ASSUME NEW i \in Slot, ReplenisherStep(i)
        PROVE  SlotInv'
    <2>1. CASE CheckSlot(i)
      BY <2>1 DEF CheckSlot, IdleReplenisher, sharedVars, closeVars, TypeOK
    <2>2. CASE DialSucceeds(i)
      BY <2>2 DEF DialSucceeds, sharedVars, closeVars, TypeOK
    <2>3. CASE DialFails(i)
      BY <2>3 DEF DialFails, IdleReplenisher, sharedVars, closeVars, TypeOK
    <2>4. CASE RetryTimer(i)
      BY <2>4 DEF RetryTimer, sharedVars, closeVars, TypeOK
    <2>5. CASE WaitInterrupted(i)
      BY <2>5 DEF WaitInterrupted, IdleReplenisher, sharedVars, closeVars, TypeOK
    <2>6. CASE InstallSession(i)
      BY <2>6, NoSessionAssumption DEF InstallSession, Installable, IdleReplenisher, closeVars, TypeOK
    <2> QED
      BY <1>3, <2>1, <2>2, <2>3, <2>4, <2>5, <2>6 DEF ReplenisherStep
  <1>4. CASE UpdaterStep
    <2>1. UNCHANGED slotVars
      BY <1>4 DEF UpdaterStep, PublishToken, SetCreateToken, SnapshotSessions, UpdateAcquire,
                  UpdateApply, slotVars, sharedVars, closeVars
    <2> QED
      BY <2>1, <1>1
  <1>5. CASE CloserStep
    BY <1>5 DEF CloserStep, CloseDone, CloseSlots, CloseNext, sharedVars, TypeOK
  <1>6. CASE UNCHANGED vars
    BY <1>6, <1>1 DEF vars, slotVars, sharedVars
  <1> QED
    BY <1>2, <1>3, <1>4, <1>5, <1>6 DEF Next

\* A slot whose first dial failed starts with its replenisher.
LEMMA SlotInvInit == Init => SlotInv
  BY DEF Init, SlotInv, SlotFilledOrReplenishing, IdleReplenisher

\* For every size of the pool: an open slot is filled or its one replenisher is at
\* work, whichever tunnels fail on it together and whenever Close comes.
THEOREM SlotsNeverAbandoned == Spec => []SlotFilledOrReplenishing
  <1>1. Init => TypeOK /\ SlotInv
    BY TypeOKInit, SlotInvInit
  <1>2. TypeOK /\ SlotInv /\ [Next]_vars => (TypeOK /\ SlotInv)'
    BY TypeOKNext, SlotInvNext
  <1>3. SlotInv => SlotFilledOrReplenishing
    BY DEF SlotInv
  <1> QED
    BY <1>1, <1>2, <1>3, PTL DEF Spec

-----------------------------------------------------------------------------
(* Reference counts.  A tunnel step moves at most one tunnel into or out   *)
(* of the holders of a session, and the count follows it.                  *)

Bit(b) == IF b THEN 1 ELSE 0

\* The holders of a session are tunnels, of which there are finitely many.
LEMMA HoldersFinite ==
    ASSUME NEW s
    PROVE  /\ IsFiniteSet(Holders(s)) /\ Cardinality(Holders(s)) \in Nat
           /\ IsFiniteSet(Holders(s)') /\ Cardinality(Holders(s)') \in Nat
  <1>1. Holders(s) \subseteq Tunnel /\ Holders(s)' \subseteq Tunnel
    BY DEF Holders
  <1> QED
    BY <1>1, TunnelAssumption, FS_Subset, FS_CardinalityType

\* The holders of a session before and after a step of tunnel t.
LEMMA OneTunnelMoves ==
    ASSUME NEW t \in Tunnel, \A u \in Tunnel \ {t} : tun'[u] = tun[u], NEW s
    PROVE  Cardinality(Holders(s)') =
             Cardinality(Holders(s)) - Bit(t \in Holders(s)) + Bit(t \in Holders(s)')
  <1> DEFINE rest == Holders(s) \ {t}
  <1>1. rest = Holders(s)' \ {t}
    BY DEF Holders
  <1>2. Cardinality(rest) = IF t \in Holders(s) THEN Cardinality(Holders(s)) - 1
                                               ELSE Cardinality(Holders(s))
    BY HoldersFinite, FS_RemoveElement, Zenon
  <1>3. Cardinality(rest) = IF t \in Holders(s)' THEN Cardinality(Holders(s)') - 1
                                                ELSE Cardinality(Holders(s)')
    BY <1>1, HoldersFinite, FS_RemoveElement, Zenon
  <1> HIDE DEF rest
  <1> QED
    BY <1>2, <1>3, HoldersFinite DEF Bit

\* What the helpers do to the reference counts.
LEMMA RefsOfHelpers ==
    ASSUME TypeOK, NEW h \in Ref, NEW s \in Session
    PROVE  /\ sess[s].refs \in Nat
           /\ Acquired(h)[s].refs = sess[s].refs + Bit(s = h)
           /\ Released(h)[s].refs =
                IF s = h /\ sess[s].refs > 0 THEN sess[s].refs - 1 ELSE sess[s].refs
           /\ UpdatedAndReleased(h)[s].refs = Released(h)[s].refs
           /\ Retired(h)[s].refs = sess[s].refs
           /\ ClosedNow(h)[s].refs = sess[s].refs
  <1>1. sess \in [Session -> SessionState] /\ sess[s].refs \in Nat
    BY DEF TypeOK, SessionState
  <1>2. Released(h) \in [Session -> SessionState]
    BY SessionTypes
  <1>3. Acquired(h)[s].refs = sess[s].refs + Bit(s = h)
    BY <1>1 DEF Acquired, Bit, SessionState
  <1>4. Released(h)[s].refs =
          IF s = h /\ sess[s].refs > 0 THEN sess[s].refs - 1 ELSE sess[s].refs
    BY <1>1 DEF Released, SessionState
  <1>5. UpdatedAndReleased(h)[s].refs = Released(h)[s].refs
    BY <1>2 DEF UpdatedAndReleased, SessionState
  <1>6. Retired(h)[s].refs = sess[s].refs
    BY <1>1 DEF Retired, SessionState
  <1>7. ClosedNow(h)[s].refs = sess[s].refs
    BY <1>1 DEF ClosedNow, SessionState
  <1> QED
    BY <1>1, <1>3, <1>4, <1>5, <1>6, <1>7

\* Every step of a tunnel counts what it does to the holders: an acquire the tunnel
\* that comes, a release, once, the tunnel that goes.
LEMMA TunnelStepCounts ==
    ASSUME TypeOK, RefsMatchHolders, NEW t \in Tunnel, TunnelStep(t), NEW s \in Session
    PROVE  /\ sess'[s].refs = sess[s].refs - Bit(t \in Holders(s)) + Bit(t \in Holders(s)')
           /\ \A u \in Tunnel \ {t} : tun'[u] = tun[u]
           /\ UNCHANGED upd
  <1>1. /\ tun \in [Tunnel -> TunnelState]
        /\ tun[t].held \in Ref
        /\ sess[s].refs \in Nat
    BY DEF TypeOK, TunnelState, SessionState
  <1>2. t \in Holders(s) => sess[s].refs > 0
    <2>1. t \in Holders(s) => Cardinality(Holders(s)) # 0
      BY HoldersFinite, FS_EmptySet
    <2> QED
      BY <2>1, HoldersFinite DEF RefsMatchHolders
  <1> DEFINE counts == sess'[s].refs = sess[s].refs - Bit(t \in Holders(s)) + Bit(t \in Holders(s)')
             others == \A u \in Tunnel \ {t} : tun'[u] = tun[u]
  <1>3. ASSUME tun[t].pc \notin {"opening", "held"}, tun'[t].pc \notin {"opening", "held"},
               sess'[s].refs = sess[s].refs
        PROVE  counts
    BY <1>1, <1>3 DEF Holders, Bit
  <1>4. ASSUME tun[t].pc \in {"opening", "held"}, tun'[t].pc \notin {"opening", "held"},
               sess' = Released(tun[t].held)
        PROVE  counts
    <2>1. t \notin Holders(s)' /\ (t \in Holders(s) <=> tun[t].held = s)
      BY <1>4 DEF Holders
    <2>2. sess'[s].refs = IF s = tun[t].held /\ sess[s].refs > 0
                          THEN sess[s].refs - 1 ELSE sess[s].refs
      BY <1>1, <1>4, RefsOfHelpers
    <2> QED
      BY <1>1, <1>2, <2>1, <2>2 DEF Bit
  <1>5. CASE RotateSlot(t) \/ AffineSlot(t) \/ LookupSlot(t)
    <2>1. UNCHANGED <<sess, upd>> /\ others
      BY <1>1, <1>5 DEF RotateSlot, AffineSlot, LookupSlot, Start, Continue, Return,
                        tokenVars
    <2>2. tun[t].pc \notin {"opening", "held"} /\ tun'[t].pc \notin {"opening", "held"}
      BY <1>1, <1>5 DEF RotateSlot, AffineSlot, LookupSlot, Start, Continue, Return,
                        IdleTunnel, TunnelState
    <2> QED
      BY <2>1, <2>2, <1>3
  <1>6. CASE AcquireSession(t)
    <2>1. UNCHANGED upd /\ others
      BY <1>1, <1>6 DEF AcquireSession, Goto, Continue, Return, tokenVars
    <2>2. CASE Usable(tun[t].held)
      <3>1. sess'[s].refs = sess[s].refs + Bit(s = tun[t].held)
        BY <1>1, <1>6, <2>2, RefsOfHelpers DEF AcquireSession
      <3>2. t \notin Holders(s) /\ (t \in Holders(s)' <=> tun[t].held = s)
        BY <1>1, <1>6, <2>2 DEF AcquireSession, Goto, Holders, TunnelState
      <3> QED
        BY <1>1, <2>1, <3>1, <3>2 DEF Bit
    <2>3. CASE ~ Usable(tun[t].held)
      <3>1. /\ UNCHANGED sess
            /\ tun[t].pc \notin {"opening", "held"}
            /\ tun'[t].pc \notin {"opening", "held"}
        BY <1>1, <1>6, <2>3 DEF AcquireSession, Continue, Return, IdleTunnel, TunnelState
      <3> QED
        BY <2>1, <3>1, <1>3
    <2> QED
      BY <2>2, <2>3
  <1>7. CASE OpenSucceeds(t)
    <2>1. UNCHANGED <<sess, upd>> /\ others
      BY <1>1, <1>7 DEF OpenSucceeds, tokenVars
    <2>2. t \in Holders(s)' <=> t \in Holders(s)
      BY <1>1, <1>7 DEF OpenSucceeds, Holders, IdleTunnel, TunnelState
    <2> QED
      BY <1>1, <2>1, <2>2 DEF Bit
  <1>8. CASE OpenTargetError(t) \/ OpenBroken(t)
    <2>1. UNCHANGED upd /\ others
      BY <1>1, <1>8 DEF OpenTargetError, OpenBroken, Goto, Return, tokenVars
    <2>2. /\ tun[t].pc \in {"opening", "held"}
          /\ tun'[t].pc \notin {"opening", "held"}
          /\ sess' = Released(tun[t].held)
      BY <1>1, <1>8 DEF OpenTargetError, OpenBroken, Goto, Return, IdleTunnel, TunnelState
    <2> QED
      BY <2>1, <2>2, <1>4
  <1>9. CASE SetClientFallback(t) \/ RetireSession(t) \/ EvictSlot(t)
    <2>1. UNCHANGED upd /\ others
      BY <1>1, <1>9 DEF SetClientFallback, RetireSession, EvictSlot, Goto, Continue, Return,
                        tokenVars
    <2>2. tun[t].pc \notin {"opening", "held"} /\ tun'[t].pc \notin {"opening", "held"}
      BY <1>1, <1>9 DEF SetClientFallback, RetireSession, EvictSlot, Goto, Continue, Return,
                        IdleTunnel, TunnelState
    <2>3. sess'[s].refs = sess[s].refs
      BY <1>1, <1>9, RefsOfHelpers DEF SetClientFallback, RetireSession, EvictSlot
    <2> QED
      BY <2>1, <2>2, <2>3, <1>3
  <1>10. CASE CloseTunnel(t)
    <2>1. UNCHANGED upd /\ others
      BY <1>1, <1>10 DEF CloseTunnel, Goto, Return, tokenVars
    <2>2. tun'[t].pc \notin {"opening", "held"}
      BY <1>1, <1>10 DEF CloseTunnel, Goto, Return, IdleTunnel, TunnelState
    <2>3. CASE tun[t].pc = "held"
      <3>1. sess' = Released(tun[t].held)
        BY <1>10, <2>3 DEF CloseTunnel, ReleasedByClose
      <3> QED
        BY <2>1, <2>2, <2>3, <3>1, <1>4
    <2>4. CASE tun[t].pc # "held"
      <3>1. UNCHANGED sess /\ tun[t].pc \notin {"opening", "held"}
        BY <1>10, <2>4 DEF CloseTunnel, ReleasedByClose
      <3> QED
        BY <2>1, <2>2, <3>1, <1>3
    <2> QED
      BY <2>3, <2>4
  <1> QED
    BY <1>5, <1>6, <1>7, <1>8, <1>9, <1>10 DEF TunnelStep

\* Nobody holds a session of a new pool.
LEMMA RefsInit == Init => RefsMatchHolders
  <1> SUFFICES ASSUME Init, NEW s \in Session
               PROVE  sess[s].refs = Cardinality(Holders(s)) + (IF UpdaterHolds(s) THEN 1 ELSE 0)
    BY DEF RefsMatchHolders
  <1>1. Holders(s) = {}
    BY DEF Init, Holders, IdleTunnel
  <1>2. sess[s].refs = 0 /\ ~ UpdaterHolds(s)
    BY DEF Init, NewSession, Blank, UpdaterHolds, IdleUpdater
  <1> QED
    BY <1>1, <1>2, FS_EmptySet

\* Every step counts what it does to the holders: the tunnels, and the update in
\* progress; a new session has neither, and Close leaves the counts alone.
LEMMA RefsNext == TypeOK /\ RefsMatchHolders /\ [Next]_vars => RefsMatchHolders'
  <1> SUFFICES ASSUME TypeOK, RefsMatchHolders, [Next]_vars, NEW s \in Session
               PROVE  sess'[s].refs = Cardinality(Holders(s)') + Bit(UpdaterHolds(s)')
    BY DEF RefsMatchHolders, Bit
  <1> DEFINE counted == sess'[s].refs = Cardinality(Holders(s)') + Bit(UpdaterHolds(s)')
  <1>1. sess[s].refs = Cardinality(Holders(s)) + Bit(UpdaterHolds(s))
    BY DEF RefsMatchHolders, Bit
  <1>2. sess[s].refs \in Nat /\ upd \in UpdaterState
    BY DEF TypeOK, SessionState
  <1>3. ASSUME UNCHANGED tun
        PROVE  Holders(s)' = Holders(s)
    BY <1>3 DEF Holders
  <1>4. ASSUME UNCHANGED <<tun, upd>>, sess'[s].refs = sess[s].refs
        PROVE  counted
    <2>1. UpdaterHolds(s)' <=> UpdaterHolds(s)
      BY <1>4 DEF UpdaterHolds
    <2> QED
      BY <1>1, <1>3, <1>4, <2>1 DEF Bit
  <1>5. ASSUME NEW t \in Tunnel, TunnelStep(t)
        PROVE  counted
    <2>1. UpdaterHolds(s)' <=> UpdaterHolds(s)
      BY <1>5, TunnelStepCounts DEF UpdaterHolds
    <2>2. /\ sess'[s].refs = sess[s].refs - Bit(t \in Holders(s)) + Bit(t \in Holders(s)')
          /\ \A u \in Tunnel \ {t} : tun'[u] = tun[u]
      BY <1>5, TunnelStepCounts
    <2>3. Cardinality(Holders(s)') =
            Cardinality(Holders(s)) - Bit(t \in Holders(s)) + Bit(t \in Holders(s)')
      BY <2>2, OneTunnelMoves
    <2> QED
      BY <1>1, <1>2, <2>1, <2>2, <2>3, HoldersFinite DEF Bit
  <1>6. ASSUME NEW i \in Slot, ReplenisherStep(i)
        PROVE  counted
    <2>1. CASE DialSucceeds(i)
      <3>1. PICK n \in Session : /\ Unreferenced(n)
                                 /\ sess' = [sess EXCEPT ![n] = NewSession(TokenApplied(i))]
        BY <2>1 DEF DialSucceeds
      <3>2. sess'[s].refs = sess[s].refs
        BY <3>1, <1>2 DEF Unreferenced, NewSession, TypeOK, SessionState
      <3> QED
        BY <2>1, <3>2, <1>4 DEF DialSucceeds
    <2>2. CASE InstallSession(i)
      <3>1. rep[i].dialled \in Ref
        BY DEF TypeOK, ReplenisherState
      <3>2. sess'[s].refs = sess[s].refs
        BY <2>2, <3>1, RefsOfHelpers DEF InstallSession
      <3> QED
        BY <2>2, <3>2, <1>4 DEF InstallSession, tokenVars
    <2>3. CASE CheckSlot(i) \/ DialFails(i) \/ RetryTimer(i) \/ WaitInterrupted(i)
      BY <2>3, <1>4 DEF CheckSlot, DialFails, RetryTimer, WaitInterrupted, tokenVars
    <2> QED
      BY <1>6, <2>1, <2>2, <2>3 DEF ReplenisherStep
  <1>7. CASE UpdaterStep
    <2>1. CASE PublishToken \/ SetCreateToken \/ SnapshotSessions
      <3>1. ~ UpdaterHolds(s) /\ ~ UpdaterHolds(s)'
        BY <2>1, <1>2 DEF PublishToken, SetCreateToken, SnapshotSessions, UpdaterHolds, UpdaterState
      <3>2. UNCHANGED <<tun, sess>>
        BY <2>1 DEF PublishToken, SetCreateToken, SnapshotSessions
      <3> QED
        BY <1>1, <1>3, <3>1, <3>2 DEF Bit
    <2>2. upd.snap[upd.at] \in Ref
      BY <1>2 DEF UpdaterState
    <2>3. NextUpdate => ~ UpdaterHolds(s)'
      BY <1>2 DEF NextUpdate, IdleUpdater, UpdaterHolds
    <2>4. CASE UpdateAcquire
      <3>1. UNCHANGED tun /\ ~ UpdaterHolds(s)
        BY <2>4 DEF UpdateAcquire, UpdaterHolds
      <3>2. CASE sess' = Acquired(upd.snap[upd.at]) /\ upd' = [upd EXCEPT !.pc = "apply"]
        <4>1. UpdaterHolds(s)' <=> s = upd.snap[upd.at]
          BY <3>2, <1>2 DEF UpdaterHolds, UpdaterState
        <4>2. sess'[s].refs = sess[s].refs + Bit(s = upd.snap[upd.at])
          BY <3>2, <2>2, RefsOfHelpers
        <4> QED
          BY <1>1, <1>3, <3>1, <4>1, <4>2, HoldersFinite DEF Bit
      <3>3. CASE UNCHANGED sess /\ NextUpdate
        BY <1>1, <1>3, <2>3, <3>1, <3>3 DEF Bit
      <3> QED
        BY <2>4, <3>2, <3>3 DEF UpdateAcquire
    <2>5. CASE UpdateApply
      <3>1. /\ UNCHANGED tun
            /\ ~ UpdaterHolds(s)'
            /\ UpdaterHolds(s) <=> s = upd.snap[upd.at]
        BY <2>5, <2>3 DEF UpdateApply, UpdaterHolds
      <3>2. sess'[s].refs = IF s = upd.snap[upd.at] /\ sess[s].refs > 0
                            THEN sess[s].refs - 1 ELSE sess[s].refs
        BY <2>5, <2>2, RefsOfHelpers DEF UpdateApply
      <3> QED
        BY <1>1, <1>2, <1>3, <3>1, <3>2, HoldersFinite DEF Bit
    <2> QED
      BY <1>7, <2>1, <2>4, <2>5 DEF UpdaterStep
  <1>8. CASE CloserStep
    <2>1. sess'[s].refs = sess[s].refs
      BY <1>8, RefsOfHelpers DEF CloserStep, CloseDone, CloseSlots, CloseNext, Ref, TypeOK
    <2> QED
      BY <1>8, <2>1, <1>4 DEF CloserStep, CloseDone, CloseSlots, CloseNext, tokenVars
  <1>9. CASE UNCHANGED vars
    BY <1>9, <1>4 DEF vars, tokenVars
  <1> QED
    BY <1>5, <1>6, <1>7, <1>8, <1>9 DEF Next

\* For any number of tunnels, the reference count of a session is the number of
\* tunnels and updates that hold it.
THEOREM RefsAlwaysMatch == Spec => []RefsMatchHolders
  <1>1. Init => TypeOK /\ RefsMatchHolders
    BY TypeOKInit, RefsInit
  <1>2. TypeOK /\ RefsMatchHolders /\ [Next]_vars => (TypeOK /\ RefsMatchHolders)'
    BY TypeOKNext, RefsNext
  <1> QED
    BY <1>1, <1>2, PTL DEF Spec

-----------------------------------------------------------------------------
(* Held sessions.  With the counts right it is enough that a session with  *)
(* a positive count is open, which concerns sess alone.                    *)

CountedOpen == \A s \in Session : ~ done /\ sess[s].refs > 0 => sess[s].attached

\* Before Close, the helpers keep a session open whose count stays positive.
LEMMA HelpersKeepOpen ==
    ASSUME TypeOK, NEW h \in Ref, NEW s \in Session, sess[s].refs > 0 => sess[s].attached
    PROVE  /\ Usable(h) => (Acquired(h)[s].refs > 0 => Acquired(h)[s].attached)
           /\ Released(h)[s].refs > 0 => Released(h)[s].attached
           /\ UpdatedAndReleased(h)[s].refs > 0 => UpdatedAndReleased(h)[s].attached
           /\ Retired(h)[s].refs > 0 => Retired(h)[s].attached
  <1>1. sess \in [Session -> SessionState] /\ sess[s].refs \in Nat
    BY DEF TypeOK, SessionState
  <1>2. Released(h) \in [Session -> SessionState]
    BY SessionTypes
  <1>3. Usable(h) => (Acquired(h)[s].refs > 0 => Acquired(h)[s].attached)
    BY <1>1 DEF Acquired, Usable, SessionState
  <1>4. Released(h)[s].refs > 0 => Released(h)[s].attached
    BY <1>1 DEF Released, SessionState
  <1>5. UpdatedAndReleased(h)[s].refs > 0 => UpdatedAndReleased(h)[s].attached
    BY <1>2, <1>4 DEF UpdatedAndReleased, SessionState
  <1>6. Retired(h)[s].refs > 0 => Retired(h)[s].attached
    BY <1>1 DEF Retired, SessionState
  <1> QED
    BY <1>3, <1>4, <1>5, <1>6

\* Only Close closes a session whose count is positive: a replacement that finds no
\* place is closed too, but only after Close, or its slot would be empty.
LEMMA CountedOpenNext ==
    TypeOK /\ SlotInv /\ CountedOpen /\ [Next]_vars => CountedOpen'
  <1> SUFFICES ASSUME TypeOK, SlotInv, CountedOpen, [Next]_vars,
                      NEW s \in Session, ~ done', sess'[s].refs > 0
               PROVE  sess'[s].attached
    BY DEF CountedOpen
  <1>1. ~ done
    BY DEF Next, vars, TunnelStep, ReplenisherStep, UpdaterStep, CloserStep, closeVars,
           RotateSlot, AffineSlot, LookupSlot, AcquireSession, OpenSucceeds, OpenTargetError,
           OpenBroken, SetClientFallback, RetireSession, EvictSlot, CloseTunnel, CheckSlot,
           DialSucceeds, DialFails, RetryTimer, WaitInterrupted, InstallSession, PublishToken,
           SetCreateToken, SnapshotSessions, UpdateAcquire, UpdateApply, CloseDone,
           CloseSlots, CloseNext
  <1>2. sess[s].refs > 0 => sess[s].attached
    BY <1>1 DEF CountedOpen
  <1>3. CASE UNCHANGED sess
    BY <1>2, <1>3
  <1>4. ASSUME NEW t \in Tunnel, TunnelStep(t)
        PROVE  sess'[s].attached
    <2>1. tun[t].held \in Ref
      BY DEF TypeOK, TunnelState
    <2>2. CASE AcquireSession(t)
      BY <2>1, <2>2, <1>2, HelpersKeepOpen DEF AcquireSession
    <2>3. CASE OpenTargetError(t) \/ OpenBroken(t) \/ CloseTunnel(t)
      BY <2>1, <2>3, <1>2, HelpersKeepOpen
      DEF OpenTargetError, OpenBroken, CloseTunnel, ReleasedByClose
    <2>4. CASE RetireSession(t)
      BY <2>1, <2>4, <1>2, HelpersKeepOpen DEF RetireSession
    <2>5. CASE \/ RotateSlot(t) \/ AffineSlot(t) \/ LookupSlot(t) \/ OpenSucceeds(t)
               \/ SetClientFallback(t) \/ EvictSlot(t)
      BY <2>5, <1>3
      DEF RotateSlot, AffineSlot, LookupSlot, OpenSucceeds, SetClientFallback, EvictSlot
    <2> QED
      BY <1>4, <2>2, <2>3, <2>4, <2>5 DEF TunnelStep
  <1>5. ASSUME NEW i \in Slot, ReplenisherStep(i)
        PROVE  sess'[s].attached
    <2>1. CASE DialSucceeds(i)
      BY <2>1, <1>2 DEF DialSucceeds, NewSession, TypeOK, SessionState
    <2>2. CASE InstallSession(i)
      <3>1. Installable(i)
        BY <2>2, <1>1 DEF InstallSession, Installable, SlotInv, SlotFilledOrReplenishing
      <3> QED
        BY <2>2, <3>1, <1>3 DEF InstallSession
    <2>3. CASE CheckSlot(i) \/ DialFails(i) \/ RetryTimer(i) \/ WaitInterrupted(i)
      BY <2>3, <1>3 DEF CheckSlot, DialFails, RetryTimer, WaitInterrupted
    <2> QED
      BY <1>5, <2>1, <2>2, <2>3 DEF ReplenisherStep
  <1>6. CASE UpdaterStep
    <2>1. upd.snap[upd.at] \in Ref
      BY DEF TypeOK, UpdaterState
    <2>2. CASE UpdateAcquire
      BY <2>1, <2>2, <1>2, HelpersKeepOpen DEF UpdateAcquire
    <2>3. CASE UpdateApply
      BY <2>1, <2>3, <1>2, HelpersKeepOpen DEF UpdateApply
    <2>4. CASE PublishToken \/ SetCreateToken \/ SnapshotSessions
      BY <2>4, <1>3 DEF PublishToken, SetCreateToken, SnapshotSessions
    <2> QED
      BY <1>6, <2>2, <2>3, <2>4 DEF UpdaterStep
  <1>7. CASE CloserStep
    BY <1>7, <1>1, <1>3 DEF CloserStep, CloseDone, CloseSlots, CloseNext, SlotInv
  <1>8. CASE UNCHANGED vars
    BY <1>8, <1>3 DEF vars
  <1> QED
    BY <1>4, <1>5, <1>6, <1>7, <1>8 DEF Next

\* The sessions of a new pool are open.
LEMMA CountedOpenInit == Init => CountedOpen
  BY DEF Init, CountedOpen, NewSession, Blank

\* A session that somebody holds has a positive count.
LEMMA CountedIsHeld == RefsMatchHolders /\ CountedOpen => HeldSessionStaysOpen
  <1> SUFFICES ASSUME RefsMatchHolders, CountedOpen, NEW s \in Session, ~ done,
                      Holders(s) # {} \/ UpdaterHolds(s)
               PROVE  sess[s].attached
    BY DEF HeldSessionStaysOpen
  <1>1. Holders(s) # {} => Cardinality(Holders(s)) # 0
    BY HoldersFinite, FS_EmptySet
  <1>2. sess[s].refs > 0
    BY <1>1, HoldersFinite DEF RefsMatchHolders
  <1> QED
    BY <1>2 DEF CountedOpen

\* Before Close, no session is closed under a tunnel or an update that holds it,
\* however many tunnels retire and evict it.
THEOREM HeldSessionsStayOpen == Spec => []HeldSessionStaysOpen
  <1> DEFINE IInv == TypeOK /\ SlotInv /\ RefsMatchHolders /\ CountedOpen
  <1>1. Init => IInv
    BY TypeOKInit, SlotInvInit, RefsInit, CountedOpenInit
  <1>2. IInv /\ [Next]_vars => IInv'
    BY TypeOKNext, SlotInvNext, RefsNext, CountedOpenNext
  <1>3. IInv => HeldSessionStaysOpen
    BY CountedIsHeld
  <1> QED
    BY <1>1, <1>2, <1>3, PTL DEF Spec

-----------------------------------------------------------------------------
(* No connection is lost.  A retired session is open only while somebody   *)
(* will give a lease of it back; a tunnel evicts only what it has retired; *)
(* an open session that is not retired is where its owner finds it.        *)

DrainInv == \A s \in Session : sess[s].attached /\ sess[s].retired => sess[s].refs > 0

\* Only a replenisher about to install a session refers to one.
DialInv == \A i \in Slot : rep[i].pc # "install" => rep[i].dialled = NoSession

\* A tunnel that is past the look at its slot has a session, which it retires before
\* it evicts it.
FailInv ==
    \A t \in Tunnel :
      /\ tun[t].pc \notin {"idle", "slot"} => tun[t].held \in Session
      /\ tun[t].pc = "evict" => sess[tun[t].held].retired

ClosingInv == closing # {} => closed

Placed(s) ==
    \/ \E i \in Slot : s \in {slots[i], rep[i].dialled}
    \/ s \in closing
    \/ sess[s].retired
PlaceInv == \A s \in Session : sess[s].attached => Placed(s)

OrphanInv == DrainInv /\ DialInv /\ FailInv /\ ClosingInv /\ PlaceInv

\* What the helpers do to a session: none opens it or makes it usable again, and none
\* leaves it open when it is retired and nobody holds it.
Kept(old, new) ==
    /\ new.attached => old.attached
    /\ old.retired => new.retired
    /\ new.attached /\ new.retired => new.refs > 0

LEMMA HelpersDrain ==
    ASSUME TypeOK, DrainInv, NEW h \in Ref, NEW s \in Session
    PROVE  /\ Kept(sess[s], sess[s])
           /\ Usable(h) => Kept(sess[s], Acquired(h)[s])
           /\ Kept(sess[s], Released(h)[s])
           /\ Kept(sess[s], UpdatedAndReleased(h)[s])
           /\ Kept(sess[s], Retired(h)[s])
           /\ Kept(sess[s], ClosedNow(h)[s])
           /\ Retired(s)[s].retired
           /\ ~ ClosedNow(s)[s].attached
  <1>1. /\ sess \in [Session -> SessionState]
        /\ sess[s].refs \in Nat
        /\ sess[s].attached /\ sess[s].retired => sess[s].refs > 0
    BY DEF TypeOK, SessionState, DrainInv
  <1>2. Released(h) \in [Session -> SessionState]
    BY SessionTypes
  <1>3. Usable(h) => Kept(sess[s], Acquired(h)[s])
    BY <1>1 DEF Acquired, Usable, SessionState, Kept
  <1>4. Kept(sess[s], Released(h)[s])
    <2>1. CASE s # h
      BY <1>1, <2>1 DEF Released, Kept
    <2>2. CASE s = h
      <3> DEFINE left == IF sess[s].refs > 0 THEN sess[s].refs - 1 ELSE 0
                 open == sess[s].attached /\ ~ (left = 0 /\ sess[s].retired)
      <3>1. left \in Nat
        BY <1>1
      <3>2. Released(h)[s] = [sess[s] EXCEPT !.refs = left, !.attached = open]
        BY <1>1, <2>2 DEF Released
      <3>3. /\ Released(h)[s].refs = left
            /\ Released(h)[s].attached <=> open
            /\ Released(h)[s].retired = sess[s].retired
        <4> HIDE DEF left, open
        <4> QED
          BY <1>1, <3>2 DEF SessionState
      <3>4. left # 0 => left > 0
        BY <1>1, <3>1
      <3> HIDE DEF left
      <3> QED
        BY <3>3, <3>4, Zenon DEF Kept
    <2> QED
      BY <2>1, <2>2
  <1>5. Kept(sess[s], UpdatedAndReleased(h)[s])
    BY <1>2, <1>4 DEF UpdatedAndReleased, SessionState, Kept
  <1>6. Kept(sess[s], Retired(h)[s])
    BY <1>1 DEF Retired, SessionState, Kept
  <1>7. Kept(sess[s], ClosedNow(h)[s])
    BY <1>1 DEF ClosedNow, SessionState, Kept
  <1>8. Retired(s)[s].retired /\ ~ ClosedNow(s)[s].attached
    BY <1>1 DEF Retired, ClosedNow, SessionState
  <1> QED
    BY <1>1, <1>3, <1>4, <1>5, <1>6, <1>7, <1>8 DEF Kept

\* A step keeps a session, or it is a dial that brings a new one into being.
LEMMA StepKeepsOrDials ==
    ASSUME TypeOK, DrainInv, [Next]_vars, NEW s \in Session
    PROVE  \/ Kept(sess[s], sess'[s])
           \/ /\ Unreferenced(s)
              /\ ~ sess'[s].retired
              /\ \E i \in Slot : rep'[i].dialled = s
              /\ UNCHANGED tun
  <1> DEFINE goal == \/ Kept(sess[s], sess'[s])
                     \/ /\ Unreferenced(s)
                        /\ ~ sess'[s].retired
                        /\ \E i \in Slot : rep'[i].dialled = s
                        /\ UNCHANGED tun
  <1>1. CASE UNCHANGED sess
    BY <1>1, HelpersDrain DEF Ref
  <1>2. ASSUME NEW t \in Tunnel, TunnelStep(t)
        PROVE  goal
    <2>1. tun[t].held \in Ref
      BY DEF TypeOK, TunnelState
    <2>2. CASE AcquireSession(t)
      BY <2>1, <2>2, HelpersDrain DEF AcquireSession
    <2>3. CASE OpenTargetError(t) \/ OpenBroken(t) \/ CloseTunnel(t)
      BY <2>1, <2>3, HelpersDrain DEF OpenTargetError, OpenBroken, CloseTunnel, ReleasedByClose
    <2>4. CASE RetireSession(t)
      BY <2>1, <2>4, HelpersDrain DEF RetireSession
    <2>5. CASE \/ RotateSlot(t) \/ AffineSlot(t) \/ LookupSlot(t) \/ OpenSucceeds(t)
               \/ SetClientFallback(t) \/ EvictSlot(t)
      BY <2>5, <1>1
      DEF RotateSlot, AffineSlot, LookupSlot, OpenSucceeds, SetClientFallback, EvictSlot
    <2> QED
      BY <1>2, <2>2, <2>3, <2>4, <2>5 DEF TunnelStep
  <1>3. ASSUME NEW i \in Slot, ReplenisherStep(i)
        PROVE  goal
    <2>1. CASE DialSucceeds(i)
      <3>1. PICK n \in Session :
              /\ Unreferenced(n)
              /\ sess' = [sess EXCEPT ![n] = NewSession(TokenApplied(i))]
              /\ rep' = [rep EXCEPT ![i] = [@ EXCEPT !.pc = "install", !.dialled = n]]
        BY <2>1, Zenon DEF DialSucceeds
      <3>2. CASE s = n
        <4>1. ~ sess'[s].retired
          BY <3>1, <3>2 DEF NewSession, TypeOK
        <4>2. rep'[i].dialled = s
          BY <3>1, <3>2 DEF TypeOK, ReplenisherState
        <4> QED
          BY <2>1, <3>1, <3>2, <4>1, <4>2 DEF DialSucceeds
      <3>3. CASE s # n
        <4>1. sess'[s] = sess[s]
          BY <3>1, <3>3 DEF TypeOK
        <4> QED
          BY <4>1, HelpersDrain DEF Ref
      <3> QED
        BY <3>2, <3>3
    <2>2. CASE InstallSession(i)
      <3>1. rep[i].dialled \in Ref
        BY DEF TypeOK, ReplenisherState
      <3> QED
        BY <2>2, <3>1, HelpersDrain DEF InstallSession
    <2>3. CASE CheckSlot(i) \/ DialFails(i) \/ RetryTimer(i) \/ WaitInterrupted(i)
      BY <2>3, <1>1 DEF CheckSlot, DialFails, RetryTimer, WaitInterrupted
    <2> QED
      BY <1>3, <2>1, <2>2, <2>3 DEF ReplenisherStep
  <1>4. CASE UpdaterStep
    <2>1. upd.snap[upd.at] \in Ref
      BY DEF TypeOK, UpdaterState
    <2>2. CASE UpdateAcquire
      BY <2>1, <2>2, HelpersDrain DEF UpdateAcquire
    <2>3. CASE UpdateApply
      BY <2>1, <2>3, HelpersDrain DEF UpdateApply
    <2>4. CASE PublishToken \/ SetCreateToken \/ SnapshotSessions
      BY <2>4, <1>1 DEF PublishToken, SetCreateToken, SnapshotSessions
    <2> QED
      BY <1>4, <2>2, <2>3, <2>4 DEF UpdaterStep
  <1>5. CASE CloserStep
    BY <1>5, <1>1, HelpersDrain DEF CloserStep, CloseDone, CloseSlots, CloseNext, Ref, TypeOK
  <1>6. CASE UNCHANGED vars
    BY <1>6, <1>1 DEF vars
  <1> QED
    BY <1>2, <1>3, <1>4, <1>5, <1>6 DEF Next

\* Nobody holds a session that is dialled, and no other step makes one usable again.
LEMMA DrainInvNext == TypeOK /\ DrainInv /\ [Next]_vars => DrainInv'
  BY StepKeepsOrDials DEF DrainInv, Kept

\* Replenishers take a session up when they have dialled it and lay it down when they
\* have installed it.
LEMMA DialInvNext == TypeOK /\ DialInv /\ [Next]_vars => DialInv'
  <1> SUFFICES ASSUME TypeOK, DialInv, [Next]_vars
               PROVE  DialInv'
    OBVIOUS
  <1> USE DEF DialInv
  <1>1. CASE UNCHANGED rep
    BY <1>1
  <1>2. ASSUME NEW t \in Tunnel, TunnelStep(t)
        PROVE  DialInv'
    <2>1. CASE EvictSlot(t)
      BY <2>1 DEF EvictSlot, IdleReplenisher, TypeOK, ReplenisherState
    <2>2. CASE ~ EvictSlot(t)
      BY <1>1, <1>2, <2>2
      DEF TunnelStep, RotateSlot, AffineSlot, LookupSlot, AcquireSession, OpenSucceeds,
          OpenTargetError, OpenBroken, SetClientFallback, RetireSession, CloseTunnel
    <2> QED
      BY <2>1, <2>2
  <1>3. ASSUME NEW i \in Slot, ReplenisherStep(i)
        PROVE  DialInv'
    <2>1. rep \in [Slot -> ReplenisherState]
      BY DEF TypeOK
    <2>2. CASE CheckSlot(i) \/ DialFails(i) \/ WaitInterrupted(i) \/ InstallSession(i)
      <3>1. rep'[i].dialled = NoSession
        <4>1. CASE CheckSlot(i)
          BY <2>1, <4>1 DEF CheckSlot, IdleReplenisher
        <4>2. CASE DialFails(i)
          BY <2>1, <4>2 DEF DialFails, IdleReplenisher
        <4>3. CASE WaitInterrupted(i) \/ InstallSession(i)
          BY <2>1, <4>3 DEF WaitInterrupted, InstallSession, IdleReplenisher
        <4> QED
          BY <2>2, <4>1, <4>2, <4>3
      <3>2. \A j \in Slot \ {i} : rep'[j] = rep[j]
        BY <2>1, <2>2 DEF CheckSlot, DialFails, WaitInterrupted, InstallSession
      <3> QED
        BY <3>1, <3>2
    <2>3. CASE RetryTimer(i)
      BY <2>1, <2>3 DEF RetryTimer, ReplenisherState
    <2>4. CASE DialSucceeds(i)
      <3>1. PICK n \in Session :
              rep' = [rep EXCEPT ![i] = [@ EXCEPT !.pc = "install", !.dialled = n]]
        BY <2>4, Zenon DEF DialSucceeds
      <3>2. rep'[i].pc = "install" /\ \A j \in Slot \ {i} : rep'[j] = rep[j]
        BY <2>1, <3>1 DEF ReplenisherState
      <3> QED
        BY <3>2
    <2> QED
      BY <1>3, <2>2, <2>3, <2>4 DEF ReplenisherStep
  <1>4. CASE UpdaterStep \/ CloserStep \/ UNCHANGED vars
    BY <1>1, <1>4
    DEF UpdaterStep, PublishToken, SetCreateToken, SnapshotSessions, UpdateAcquire,
        UpdateApply, CloserStep, CloseDone, CloseSlots, CloseNext, vars
  <1> QED
    BY <1>2, <1>3, <1>4 DEF Next

\* What a tunnel has retired stays retired: nothing is dialled in the place of a session
\* that a tunnel points to.
LEMMA FailInvNext == TypeOK /\ DrainInv /\ FailInv /\ [Next]_vars => FailInv'
  <1> SUFFICES ASSUME TypeOK, DrainInv, FailInv, [Next]_vars, NEW u \in Tunnel
               PROVE  /\ tun'[u].pc \notin {"idle", "slot"} => tun'[u].held \in Session
                      /\ tun'[u].pc = "evict" => sess'[tun'[u].held].retired
    BY DEF FailInv
  <1> DEFINE goal == /\ tun'[u].pc \notin {"idle", "slot"} => tun'[u].held \in Session
                     /\ tun'[u].pc = "evict" => sess'[tun'[u].held].retired
  <1>1. /\ tun \in [Tunnel -> TunnelState]
        /\ tun[u].pc \notin {"idle", "slot"} => tun[u].held \in Session
        /\ tun[u].pc = "evict" => sess[tun[u].held].retired
    BY DEF TypeOK, FailInv
  <1>2. ASSUME tun[u].held \in Session, sess[tun[u].held].retired
        PROVE  sess'[tun[u].held].retired
    BY <1>2, StepKeepsOrDials DEF Kept, Unreferenced
  <1>3. ASSUME tun'[u] = tun[u]
        PROVE  goal
    BY <1>1, <1>2, <1>3
  <1>4. ASSUME TunnelStep(u)
        PROVE  goal
    <2>1. CASE RetireSession(u)
      <3>1. tun[u].held \in Session /\ tun'[u].held = tun[u].held
        BY <1>1, <2>1 DEF RetireSession, Goto, TunnelState
      <3> QED
        BY <2>1, <3>1, HelpersDrain DEF RetireSession, Ref
    <2>2. CASE RotateSlot(u) \/ AffineSlot(u)
      BY <1>1, <2>2 DEF RotateSlot, AffineSlot, Start
    <2>3. CASE LookupSlot(u)
      <3>1. slots[At(u)] \in Ref
        BY TunnelTypes DEF TypeOK
      <3> QED
        BY <1>1, <2>3, <3>1
        DEF LookupSlot, Continue, Return, IdleTunnel, TunnelState, Ref
    <2>4. CASE AcquireSession(u) \/ EvictSlot(u)
      BY <1>1, <2>4
      DEF AcquireSession, EvictSlot, Goto, Continue, Return, IdleTunnel, TunnelState
    <2>5. CASE OpenSucceeds(u)
      <3>1. tun'[u].pc = "held" /\ tun'[u].held = tun[u].held
        BY <1>1, <2>5 DEF OpenSucceeds, IdleTunnel
      <3> QED
        BY <1>1, <2>5, <3>1 DEF OpenSucceeds
    <2>6. CASE OpenTargetError(u) \/ OpenBroken(u) \/ SetClientFallback(u) \/ CloseTunnel(u)
      BY <1>1, <2>6
      DEF OpenTargetError, OpenBroken, SetClientFallback, CloseTunnel, Goto, Return,
          IdleTunnel, TunnelState
    <2> QED
      BY <1>4, <2>1, <2>2, <2>3, <2>4, <2>5, <2>6 DEF TunnelStep
  <1>5. ASSUME NEW t \in Tunnel, TunnelStep(t), t # u
        PROVE  goal
    <2>1. tun'[u] = tun[u]
      BY <1>1, <1>5
      DEF TunnelStep, RotateSlot, AffineSlot, LookupSlot, AcquireSession, OpenSucceeds,
          OpenTargetError, OpenBroken, SetClientFallback, RetireSession, EvictSlot,
          CloseTunnel, Start, Goto, Continue, Return
    <2> QED
      BY <2>1, <1>3
  <1>6. CASE \/ \E i \in Slot : ReplenisherStep(i)
             \/ UpdaterStep \/ CloserStep \/ UNCHANGED vars
    <2>1. UNCHANGED tun
      BY <1>6
      DEF ReplenisherStep, CheckSlot, DialSucceeds, DialFails, RetryTimer, WaitInterrupted,
          InstallSession, UpdaterStep, PublishToken, SetCreateToken, SnapshotSessions,
          UpdateAcquire, UpdateApply, CloserStep, CloseDone, CloseSlots, CloseNext, vars
    <2> QED
      BY <2>1, <1>3
  <1> QED
    BY <1>4, <1>5, <1>6 DEF Next

\* Close fills closing once.
LEMMA ClosingInvNext == ClosingInv /\ [Next]_vars => ClosingInv'
  BY DEF ClosingInv, Next, vars, TunnelStep, ReplenisherStep, UpdaterStep, CloserStep, closeVars,
         RotateSlot, AffineSlot, LookupSlot, AcquireSession, OpenSucceeds, OpenTargetError,
         OpenBroken, SetClientFallback, RetireSession, EvictSlot, CloseTunnel, CheckSlot,
         DialSucceeds, DialFails, RetryTimer, WaitInterrupted, InstallSession, PublishToken,
         SetCreateToken, SnapshotSessions, UpdateAcquire, UpdateApply, CloseDone,
         CloseSlots, CloseNext

\* Where an open session is noted down: it leaves a slot only into closing or retired,
\* and a replenisher's hand only into a slot or closed.
LEMMA PlaceInvNext == TypeOK /\ SlotInv /\ OrphanInv /\ [Next]_vars => PlaceInv'
  <1> SUFFICES ASSUME TypeOK, SlotInv, OrphanInv, [Next]_vars,
                      NEW s \in Session, sess'[s].attached,
                      Kept(sess[s], sess'[s])
               PROVE  Placed(s)'
    <2>1. ASSUME NEW s \in Session, ~ Kept(sess[s], sess'[s]), TypeOK, DrainInv, [Next]_vars
          PROVE  Placed(s)'
      BY <2>1, StepKeepsOrDials DEF Placed
    <2> QED
      BY <2>1 DEF PlaceInv, OrphanInv
  <1>1. sess[s].retired => sess'[s].retired
    BY DEF Kept
  <1>2. Placed(s)
    BY DEF Kept, OrphanInv, PlaceInv
  <1>3. CASE UNCHANGED slotVars
    BY <1>1, <1>2, <1>3 DEF Placed, slotVars, closeVars
  <1>4. /\ slots \in [Slot -> Ref]
        /\ rep \in [Slot -> ReplenisherState]
        /\ s # NoSession
    BY NoSessionAssumption DEF TypeOK
  <1>5. ASSUME NEW t \in Tunnel, TunnelStep(t)
        PROVE  Placed(s)'
    <2>1. CASE EvictSlot(t)
      <3>1. At(t) \in Slot
        BY TunnelTypes
      <3>2. CASE ~ Evictable(t)
        BY <2>1, <3>2, <1>3 DEF EvictSlot, slotVars
      <3>3. CASE Evictable(t)
        <4>1. tun[t].held \in Session /\ sess[tun[t].held].retired
          BY <2>1 DEF EvictSlot, OrphanInv, FailInv
        <4>2. rep[At(t)].dialled = NoSession
          BY <3>1, <3>3, <4>1, NoSessionAssumption
          DEF Evictable, SlotInv, SlotFilledOrReplenishing, OrphanInv, DialInv
        <4>3. /\ slots' = [slots EXCEPT ![At(t)] = NoSession]
              /\ \A i \in Slot : rep'[i].dialled = rep[i].dialled
              /\ UNCHANGED closing
          BY <1>4, <2>1, <3>1, <3>3, <4>2
          DEF EvictSlot, IdleReplenisher, closeVars, ReplenisherState
        <4> QED
          BY <1>1, <1>2, <1>4, <3>1, <3>3, <4>1, <4>3 DEF Placed, Evictable
      <3> QED
        BY <3>2, <3>3
    <2>2. CASE ~ EvictSlot(t)
      <3>1. UNCHANGED slotVars
        BY <1>5, <2>2
        DEF TunnelStep, RotateSlot, AffineSlot, LookupSlot, AcquireSession, OpenSucceeds,
            OpenTargetError, OpenBroken, SetClientFallback, RetireSession, CloseTunnel,
            slotVars, sharedVars, closeVars
      <3> QED
        BY <3>1, <1>3
    <2> QED
      BY <2>1, <2>2
  <1>6. ASSUME NEW i \in Slot, ReplenisherStep(i)
        PROVE  Placed(s)'
    <2>1. CASE InstallSession(i)
      <3>1. /\ \A j \in Slot \ {i} : rep'[j] = rep[j]
            /\ UNCHANGED closing
        BY <1>4, <2>1 DEF InstallSession, closeVars
      <3>2. CASE Installable(i)
        <4>1. slots' = [slots EXCEPT ![i] = rep[i].dialled] /\ slots[i] = NoSession
          BY <2>1, <3>2 DEF InstallSession, Installable
        <4> QED
          BY <1>1, <1>2, <1>4, <3>1, <4>1 DEF Placed
      <3>3. CASE ~ Installable(i)
        <4>1. sess' = ClosedNow(rep[i].dialled) /\ UNCHANGED slots
          BY <2>1, <3>3 DEF InstallSession
        <4>2. s # rep[i].dialled
          BY <4>1, HelpersDrain DEF Ref, OrphanInv
        <4> QED
          BY <1>1, <1>2, <1>4, <3>1, <4>1, <4>2 DEF Placed
      <3> QED
        BY <3>2, <3>3
    <2>2. CASE CheckSlot(i) \/ DialSucceeds(i) \/ DialFails(i) \/ RetryTimer(i) \/ WaitInterrupted(i)
      <3>1. rep[i].dialled = NoSession
        BY <2>2 DEF CheckSlot, DialSucceeds, DialFails, RetryTimer, WaitInterrupted,
                    OrphanInv, DialInv
      <3>2. \A j \in Slot \ {i} : rep'[j] = rep[j]
        BY <1>4, <2>2 DEF CheckSlot, DialSucceeds, DialFails, RetryTimer, WaitInterrupted
      <3>3. UNCHANGED <<slots, closing>>
        BY <2>2 DEF CheckSlot, DialSucceeds, DialFails, RetryTimer, WaitInterrupted,
                    sharedVars, closeVars
      <3> QED
        BY <1>1, <1>2, <1>4, <3>1, <3>2, <3>3 DEF Placed
    <2> QED
      BY <1>6, <2>1, <2>2 DEF ReplenisherStep
  <1>7. CASE UpdaterStep \/ UNCHANGED vars
    <2>1. UNCHANGED slotVars
      BY <1>7 DEF UpdaterStep, PublishToken, SetCreateToken, SnapshotSessions, UpdateAcquire,
                  UpdateApply, slotVars, sharedVars, closeVars, vars
    <2> QED
      BY <2>1, <1>3
  <1>8. CASE CloserStep
    <2>1. CASE CloseDone
      BY <1>1, <1>2, <2>1 DEF CloseDone, Placed, sharedVars
    <2>2. CASE CloseSlots
      <3>1. closing = {}
        BY <2>2 DEF CloseSlots, OrphanInv, ClosingInv
      <3> QED
        BY <1>1, <1>2, <1>4, <2>2, <3>1 DEF CloseSlots, Placed
    <2>3. CASE CloseNext
      <3>1. PICK r \in closing : sess' = ClosedNow(r) /\ closing' = closing \ {r}
        BY <2>3 DEF CloseNext
      <3>2. s # r
        BY <3>1, HelpersDrain DEF Ref, OrphanInv
      <3> QED
        BY <1>1, <1>2, <2>3, <3>1, <3>2 DEF CloseNext, Placed, sharedVars
    <2> QED
      BY <1>8, <2>1, <2>2, <2>3 DEF CloserStep
  <1> QED
    BY <1>5, <1>6, <1>7, <1>8 DEF Next

\* Every open session of a new pool is in a slot.
LEMMA OrphanInvInit == Init => OrphanInv
  BY NoSessionAssumption
  DEF Init, OrphanInv, DrainInv, DialInv, FailInv, ClosingInv, PlaceInv, Placed, NewSession,
      Blank, IdleTunnel, IdleReplenisher

\* For every size of the pool, no open connection is forgotten, whatever fails, is
\* replaced, renewed and closed at the same time.
THEOREM NoConnectionIsLost == Spec => []NoOrphanConnection
  <1> DEFINE IInv == TypeOK /\ SlotInv /\ OrphanInv
  <1>1. Init => IInv
    BY TypeOKInit, SlotInvInit, OrphanInvInit
  <1>2. IInv /\ [Next]_vars => IInv'
    BY TypeOKNext, SlotInvNext, DrainInvNext, DialInvNext, FailInvNext, ClosingInvNext,
       PlaceInvNext DEF OrphanInv
  <1>3. IInv => NoOrphanConnection
    BY DEF OrphanInv, PlaceInv, Placed, DrainInv, NoOrphanConnection
  <1> QED
    BY <1>1, <1>2, <1>3, PTL DEF Spec

-----------------------------------------------------------------------------
(* Renewals.  A usable session that lacks the published token is still in  *)
(* front of the loop of UpdateToken, or was dialled too early for its copy *)
(* of p.sessions.                                                          *)

\* The session is in a slot, or about to be put into one.
Pooled(s) == \E i \in Slot : s \in {slots[i], rep[i].dialled}

\* UpdateToken has yet to reach the session in its copy of p.sessions.
Pending(s) ==
    /\ upd.pc \in {"acquire", "apply"}
    /\ \E j \in Slot : j >= upd.at /\ upd.snap[j] = s

Stale(s) == Usable(s) /\ sess[s].token # currentToken

\* Until the copy is made nothing is promised: every session may be stale.
TokenInv ==
    currentToken # 0 /\ upd.pc \notin {"create", "snapshot"} =>
      \A s \in Session : Pooled(s) /\ Stale(s) => s \in missed \/ Pending(s)

\* Only UpdateApply gives an existing session another token.
LEMMA HelpersKeepToken ==
    ASSUME TypeOK, NEW h \in Ref, NEW s \in Session
    PROVE  /\ Acquired(h)[s].token = sess[s].token
           /\ Released(h)[s].token = sess[s].token
           /\ Retired(h)[s].token = sess[s].token
           /\ ClosedNow(h)[s].token = sess[s].token
           /\ UpdatedAndReleased(s)[s].token = currentToken
           /\ s # h => UpdatedAndReleased(h)[s].token = sess[s].token
  <1>1. sess \in [Session -> SessionState]
    BY DEF TypeOK
  <1>2. Acquired(h)[s].token = sess[s].token
    BY <1>1 DEF Acquired, SessionState
  <1>3. Retired(h)[s].token = sess[s].token /\ ClosedNow(h)[s].token = sess[s].token
    BY <1>1 DEF Retired, ClosedNow, SessionState
  <1>4. Released(h)[s].token = sess[s].token
    <2> DEFINE left == IF sess[h].refs > 0 THEN sess[h].refs - 1 ELSE 0
               open == sess[h].attached /\ ~ (left = 0 /\ sess[h].retired)
    <2>1. CASE h \in Session
      <3>1. Released(h) = [sess EXCEPT ![h] = [@ EXCEPT !.refs = left, !.attached = open]]
        BY <1>1, <2>1 DEF Released
      <3> HIDE DEF left, open
      <3> QED
        BY <1>1, <3>1 DEF SessionState
    <2>2. CASE h \notin Session
      BY <1>1, <2>2 DEF Released
    <2> QED
      BY <2>1, <2>2
  <1>5. Released(h) \in [Session -> SessionState] /\ Released(s) \in [Session -> SessionState]
    BY SessionTypes DEF Ref
  <1>6. UpdatedAndReleased(s)[s].token = currentToken
    BY <1>5 DEF UpdatedAndReleased, SessionState
  <1>7. s # h => UpdatedAndReleased(h)[s].token = sess[s].token
    BY <1>4, <1>5 DEF UpdatedAndReleased
  <1> QED
    BY <1>2, <1>3, <1>4, <1>6, <1>7

\* A tunnel neither makes a session stale nor puts one into the pool.
LEMMA TunnelKeepsTokens ==
    ASSUME TypeOK, DrainInv, NEW t \in Tunnel, TunnelStep(t), NEW s \in Session
    PROVE  /\ UNCHANGED tokenVars
           /\ Stale(s)' => Stale(s)
           /\ Pooled(s)' => Pooled(s)
  <1>1. UNCHANGED tokenVars
    BY DEF TunnelStep, RotateSlot, AffineSlot, LookupSlot, AcquireSession, OpenSucceeds,
           OpenTargetError, OpenBroken, SetClientFallback, RetireSession, EvictSlot,
           CloseTunnel
  <1>2. tun[t].held \in Ref
    BY DEF TypeOK, TunnelState
  <1>3. UNCHANGED currentToken
    BY <1>1 DEF tokenVars
  <1> DEFINE goal == Stale(s)' => Stale(s)
  <1>4. ASSUME Kept(sess[s], sess'[s]), sess'[s].token = sess[s].token
        PROVE  goal
    BY <1>3, <1>4 DEF Kept, Stale, Usable
  <1>5. ASSUME UNCHANGED sess
        PROVE  goal
    BY <1>3, <1>5 DEF Stale, Usable
  <1> HIDE DEF goal
  <1>6. goal
    <2>1. CASE AcquireSession(t)
      BY <1>2, <1>4, <1>5, <2>1, HelpersDrain, HelpersKeepToken DEF AcquireSession
    <2>2. CASE OpenTargetError(t) \/ OpenBroken(t)
      BY <1>2, <1>4, <2>2, HelpersDrain, HelpersKeepToken DEF OpenTargetError, OpenBroken
    <2>3. CASE CloseTunnel(t)
      BY <1>2, <1>4, <1>5, <2>3, HelpersDrain, HelpersKeepToken DEF CloseTunnel, ReleasedByClose
    <2>4. CASE RetireSession(t)
      BY <1>2, <1>4, <2>4, HelpersDrain, HelpersKeepToken DEF RetireSession
    <2>5. CASE \/ RotateSlot(t) \/ AffineSlot(t) \/ LookupSlot(t) \/ OpenSucceeds(t)
               \/ SetClientFallback(t) \/ EvictSlot(t)
      BY <1>5, <2>5
      DEF RotateSlot, AffineSlot, LookupSlot, OpenSucceeds, SetClientFallback, EvictSlot
    <2> QED
      BY <2>1, <2>2, <2>3, <2>4, <2>5 DEF TunnelStep
  <1>7. Pooled(s)' => Pooled(s)
    <2>1. CASE EvictSlot(t)
      <3>1. \A i \in Slot : slots'[i] \in {slots[i], NoSession}
        BY <2>1 DEF EvictSlot, TypeOK
      <3>2. \A i \in Slot : rep'[i].dialled \in {rep[i].dialled, NoSession}
        BY <2>1 DEF EvictSlot, TypeOK, IdleReplenisher
      <3> QED
        BY <3>1, <3>2, NoSessionAssumption DEF Pooled
    <2>2. CASE ~ EvictSlot(t)
      BY <2>2 DEF Pooled, TunnelStep, RotateSlot, AffineSlot, LookupSlot, AcquireSession,
                  OpenSucceeds, OpenTargetError, OpenBroken, SetClientFallback,
                  RetireSession, CloseTunnel, sharedVars
    <2> QED
      BY <2>1, <2>2
  <1> QED
    BY <1>1, <1>6, <1>7 DEF goal

\* A replenisher that neither dials nor installs takes no session up.
LEMMA IdleStepsKeepDialled ==
    ASSUME TypeOK, NEW i \in Slot,
           CheckSlot(i) \/ DialFails(i) \/ RetryTimer(i) \/ WaitInterrupted(i)
    PROVE  \A j \in Slot : rep'[j].dialled \in {rep[j].dialled, NoSession}
  <1>1. rep \in [Slot -> ReplenisherState]
    BY DEF TypeOK
  <1>2. CASE CheckSlot(i)
    BY <1>1, <1>2 DEF CheckSlot, IdleReplenisher
  <1>3. CASE DialFails(i) \/ WaitInterrupted(i)
    BY <1>1, <1>3 DEF DialFails, WaitInterrupted, IdleReplenisher
  <1>4. CASE RetryTimer(i)
    BY <1>1, <1>4 DEF RetryTimer, ReplenisherState
  <1> QED
    BY <1>2, <1>3, <1>4

\* Nor does a replenisher: what it dials carries the published token.
LEMMA ReplenisherKeepsTokens ==
    ASSUME TypeOK, DrainInv, NEW i \in Slot, ReplenisherStep(i), NEW s \in Session,
           currentToken # 0
    PROVE  /\ UNCHANGED <<currentToken, upd>>
           /\ Stale(s)' => /\ Stale(s)
                           /\ s \in missed => s \in missed'
                           /\ Pooled(s)' => Pooled(s)
  <1>1. UNCHANGED <<currentToken, upd>>
    BY DEF ReplenisherStep, CheckSlot, DialSucceeds, DialFails, RetryTimer,
           WaitInterrupted, InstallSession, tokenVars
  <1> DEFINE goal == Stale(s)' => /\ Stale(s)
                                  /\ s \in missed => s \in missed'
                                  /\ Pooled(s)' => Pooled(s)
  <1>2. CASE DialSucceeds(i)
    <2>1. PICK n \in Session :
            /\ sess' = [sess EXCEPT ![n] = NewSession(TokenApplied(i))]
            /\ rep' = [rep EXCEPT ![i] = [@ EXCEPT !.pc = "install", !.dialled = n]]
            /\ missed' = missed \ {n}
      BY <1>2, Zenon DEF DialSucceeds
    <2>2. CASE s = n
      <3>1. sess'[s].token = currentToken
        BY <2>1, <2>2 DEF TypeOK, NewSession, TokenApplied
      <3> QED
        BY <1>1, <3>1 DEF Stale
    <2>3. CASE s # n
      <3>1. sess'[s] = sess[s]
        BY <2>1, <2>3 DEF TypeOK
      <3>2. \A j \in Slot : rep'[j].dialled \in {rep[j].dialled, n}
        BY <2>1 DEF TypeOK, ReplenisherState
      <3>3. UNCHANGED slots
        BY <1>2 DEF DialSucceeds, sharedVars
      <3> QED
        BY <1>1, <2>1, <2>3, <3>1, <3>2, <3>3 DEF Stale, Usable, Pooled
    <2> QED
      BY <2>2, <2>3
  <1>3. CASE InstallSession(i)
    <2>1. rep[i].dialled \in Ref
      BY DEF TypeOK, ReplenisherState
    <2>2. Kept(sess[s], sess'[s]) /\ sess'[s].token = sess[s].token
      BY <1>3, <2>1, HelpersDrain, HelpersKeepToken DEF InstallSession
    <2>3. \A j \in Slot : rep'[j].dialled \in {rep[j].dialled, NoSession}
      BY <1>3 DEF InstallSession, TypeOK, IdleReplenisher
    <2>4. \A j \in Slot : slots'[j] \in {slots[j], rep[i].dialled}
      BY <1>3 DEF InstallSession, TypeOK
    <2>5. UNCHANGED missed
      BY <1>3 DEF InstallSession, tokenVars
    <2> QED
      BY <1>1, <2>2, <2>3, <2>4, <2>5, NoSessionAssumption DEF Stale, Usable, Pooled, Kept
  <1>4. CASE CheckSlot(i) \/ DialFails(i) \/ RetryTimer(i) \/ WaitInterrupted(i)
    <2>1. UNCHANGED <<sess, slots, missed>>
      BY <1>4 DEF CheckSlot, DialFails, RetryTimer, WaitInterrupted, sharedVars, tokenVars
    <2>2. \A j \in Slot : rep'[j].dialled \in {rep[j].dialled, NoSession}
      BY <1>4, IdleStepsKeepDialled
    <2> QED
      BY <1>1, <2>1, <2>2, NoSessionAssumption DEF Stale, Usable, Pooled
  <1> QED
    BY <1>1, <1>2, <1>3, <1>4 DEF ReplenisherStep

\* The loop of UpdateToken leaves a session behind only when it has the token, or is
\* not usable and never will be again.
LEMMA UpdaterAdvances ==
    ASSUME TypeOK, NextUpdate, upd.pc \in {"acquire", "apply"}, NEW s \in Session,
           Pending(s), s # upd.snap[upd.at]
    PROVE  Pending(s)'
  <1>1. upd \in UpdaterState
    BY DEF TypeOK
  <1>2. PICK j \in Slot : j >= upd.at /\ upd.snap[j] = s
    BY DEF Pending
  <1>3. upd.at \in Nat /\ j \in Nat /\ j < Size /\ Size \in Nat
    BY <1>1, SizeAssumption DEF UpdaterState, Slot
  <1>4. j # upd.at
    BY <1>2
  <1>5. j >= upd.at + 1 /\ upd.at + 1 < Size
    BY <1>2, <1>3, <1>4
  <1>6. /\ upd'.pc = "acquire"
        /\ upd'.at = upd.at + 1
        /\ upd'.snap = [upd.snap EXCEPT ![upd.at] = NoSession]
    BY <1>5 DEF NextUpdate
  <1>7. upd'.snap[j] = s
    BY <1>1, <1>2, <1>4, <1>6 DEF UpdaterState
  <1> QED
    BY <1>5, <1>6, <1>7 DEF Pending

\* Every step keeps TokenInv.
LEMMA TokenInvNext == TypeOK /\ DrainInv /\ TokenInv /\ [Next]_vars => TokenInv'
  <1> SUFFICES ASSUME TypeOK, DrainInv, TokenInv, [Next]_vars,
                      currentToken' # 0, upd'.pc \notin {"create", "snapshot"},
                      NEW s \in Session, Pooled(s)', Stale(s)'
               PROVE  s \in missed' \/ Pending(s)'
    BY DEF TokenInv
  <1>1. ASSUME currentToken # 0, upd.pc \notin {"create", "snapshot"}, Pooled(s), Stale(s)
        PROVE  s \in missed \/ Pending(s)
    BY <1>1 DEF TokenInv
  <1>2. ASSUME NEW t \in Tunnel, TunnelStep(t)
        PROVE  s \in missed' \/ Pending(s)'
    <2>1. UNCHANGED tokenVars /\ Stale(s) /\ Pooled(s)
      BY <1>2, TunnelKeepsTokens
    <2> QED
      BY <1>1, <2>1 DEF tokenVars, Pending
  <1>3. ASSUME NEW i \in Slot, ReplenisherStep(i)
        PROVE  s \in missed' \/ Pending(s)'
    <2>1. currentToken' = currentToken
      BY <1>3 DEF ReplenisherStep, CheckSlot, DialSucceeds, DialFails, RetryTimer,
                  WaitInterrupted, InstallSession, tokenVars
    <2>2. /\ UNCHANGED <<currentToken, upd>>
          /\ Stale(s) /\ Pooled(s)
          /\ s \in missed => s \in missed'
      BY <1>3, <2>1, ReplenisherKeepsTokens
    <2> QED
      BY <1>1, <2>2 DEF Pending
  <1>4. CASE UpdaterStep
    <2> DEFINE h == upd.snap[upd.at]
    <2>1. upd \in UpdaterState /\ h \in Ref
      BY DEF TypeOK, UpdaterState
    <2>2. CASE PublishToken \/ SetCreateToken
      BY <2>1, <2>2 DEF PublishToken, SetCreateToken, UpdaterState
    <2>3. CASE SnapshotSessions
      <3>1. UNCHANGED <<slots, rep, sess, currentToken>>
        BY <2>3 DEF SnapshotSessions, sharedVars
      <3>2. Stale(s) /\ Pooled(s)
        BY <3>1 DEF Stale, Usable, Pooled
      <3>3. upd' = [pc |-> "acquire", at |-> 0, snap |-> slots]
        BY <2>3 DEF SnapshotSessions
      <3>4. PICK i \in Slot : s = slots[i] \/ s = rep[i].dialled
        BY <3>2 DEF Pooled
      <3>5. CASE s = slots[i]
        <4>1. i >= 0
          BY SlotArithmetic
        <4> QED
          BY <3>3, <3>5, <4>1 DEF Pending
      <3>6. CASE s = rep[i].dialled
        BY <2>3, <3>2, <3>6 DEF SnapshotSessions, Stale
      <3> QED
        BY <3>4, <3>5, <3>6
    <2>4. ASSUME upd.pc \in {"acquire", "apply"}, UNCHANGED <<sharedVars, rep, currentToken, missed>>,
                 Stale(s), NextUpdate, s # h
          PROVE  s \in missed' \/ Pending(s)'
      <3>1. Pooled(s)
        BY <2>4 DEF Pooled, sharedVars
      <3>2. s \in missed \/ Pending(s)
        BY <1>1, <2>4, <3>1
      <3> QED
        BY <2>4, <3>2, UpdaterAdvances
    <2>5. CASE UpdateAcquire
      <3>1. CASE h # NoSession /\ Usable(h)
        <4>1. sess' = Acquired(h) /\ upd' = [upd EXCEPT !.pc = "apply"]
          BY <2>5, <3>1 DEF UpdateAcquire
        <4>2. Kept(sess[s], sess'[s]) /\ sess'[s].token = sess[s].token
          BY <2>1, <3>1, <4>1, HelpersDrain, HelpersKeepToken
        <4>3. UNCHANGED <<slots, rep, currentToken, missed>> /\ upd.pc = "acquire"
          BY <2>5 DEF UpdateAcquire, sharedVars
        <4>4. Stale(s) /\ Pooled(s)
          BY <4>2, <4>3 DEF Stale, Usable, Kept, Pooled
        <4>5. s \in missed \/ Pending(s)
          BY <1>1, <4>3, <4>4
        <4>6. upd'.pc = "apply" /\ upd'.at = upd.at /\ upd'.snap = upd.snap
          BY <2>1, <4>1 DEF UpdaterState
        <4> QED
          BY <4>3, <4>5, <4>6 DEF Pending
      <3>2. CASE ~ (h # NoSession /\ Usable(h))
        <4>1. UNCHANGED sess /\ NextUpdate /\ upd.pc = "acquire"
          BY <2>5, <3>2 DEF UpdateAcquire
        <4>2. UNCHANGED <<sharedVars, rep, currentToken, missed>>
          BY <2>5 DEF UpdateAcquire
        <4>3. Stale(s)
          BY <4>1, <4>2 DEF Stale, Usable
        <4>4. s # h
          BY <3>2, <4>3, NoSessionAssumption DEF Stale
        <4> QED
          BY <2>4, <4>1, <4>2, <4>3, <4>4
      <3> QED
        BY <3>1, <3>2
    <2>6. CASE UpdateApply
      <3>1. sess' = UpdatedAndReleased(h) /\ NextUpdate /\ upd.pc = "apply"
        BY <2>6 DEF UpdateApply
      <3>2. UNCHANGED <<sharedVars, rep, currentToken, missed>>
        BY <2>6 DEF UpdateApply
      <3>3. s # h
        BY <3>1, <3>2, <2>1, HelpersKeepToken DEF Stale
      <3>4. Kept(sess[s], sess'[s]) /\ sess'[s].token = sess[s].token
        BY <2>1, <3>1, <3>3, HelpersDrain, HelpersKeepToken
      <3>5. Stale(s)
        BY <3>2, <3>4 DEF Stale, Usable, Kept
      <3> QED
        BY <2>4, <3>1, <3>2, <3>3, <3>5
    <2> QED
      BY <1>4, <2>2, <2>3, <2>5, <2>6 DEF UpdaterStep
  <1>5. CASE CloserStep
    <2>1. UNCHANGED tokenVars /\ UNCHANGED rep
      BY <1>5 DEF CloserStep, CloseDone, CloseSlots, CloseNext
    <2>2. Kept(sess[s], sess'[s]) /\ sess'[s].token = sess[s].token
      BY <1>5, HelpersDrain, HelpersKeepToken
      DEF CloserStep, CloseDone, CloseSlots, CloseNext, Ref, TypeOK
    <2>3. \A i \in Slot : slots'[i] \in {slots[i], NoSession}
      BY <1>5 DEF CloserStep, CloseDone, CloseSlots, CloseNext, sharedVars
    <2>4. Stale(s) /\ Pooled(s)
      BY <2>1, <2>2, <2>3, NoSessionAssumption DEF tokenVars, Stale, Usable, Kept, Pooled
    <2> QED
      BY <1>1, <2>1, <2>4 DEF tokenVars, Pending
  <1>6. CASE UNCHANGED vars
    <2>1. UNCHANGED <<slots, rep, sess, currentToken, upd, missed>>
      BY <1>6 DEF vars, sharedVars, tokenVars
    <2> QED
      BY <1>1, <2>1 DEF Stale, Usable, Pooled, Pending
  <1> QED
    BY <1>2, <1>3, <1>4, <1>5, <1>6 DEF Next

\* For every size of the pool and any number of renewals, once UpdateToken has
\* returned, a usable session in a slot has the published token, unless it was being
\* dialled when the renewal copied p.sessions.
THEOREM OnlyMissedSessionsAreStale == Spec => []StaleTokenOnlyIfMissed
  <1> DEFINE IInv == TypeOK /\ DrainInv /\ TokenInv
  <1>1. Init => IInv
    <2>1. Init => TokenInv
      BY DEF Init, TokenInv
    <2>2. Init => DrainInv
      BY OrphanInvInit DEF OrphanInv
    <2> QED
      BY <2>1, <2>2, TypeOKInit
  <1>2. IInv /\ [Next]_vars => IInv'
    BY TypeOKNext, DrainInvNext, TokenInvNext
  <1>3. IInv => StaleTokenOnlyIfMissed
    <2> SUFFICES ASSUME IInv, upd.pc = "idle", currentToken # 0, NEW i \in Slot,
                        slots[i] # NoSession, Usable(slots[i]),
                        sess[slots[i]].token # currentToken
                 PROVE  slots[i] \in missed
      BY DEF StaleTokenOnlyIfMissed
    <2>1. slots[i] \in Session
      BY DEF TypeOK, Ref
    <2>2. Pooled(slots[i]) /\ Stale(slots[i]) /\ ~ Pending(slots[i])
      BY DEF Pooled, Stale, Pending
    <2> QED
      BY <2>1, <2>2 DEF TokenInv
  <1> QED
    BY <1>1, <1>2, <1>3, PTL DEF Spec

-----------------------------------------------------------------------------
(* The places of a session, and what Close leaves behind.                  *)

\* A session is in one slot or in the hands of one replenisher: a failure in one
\* slot never costs another slot its session.
SessionHasOnePlace ==
    \A i, j \in Slot :
      /\ i # j /\ slots[i] # NoSession => slots[i] # slots[j]
      /\ i # j /\ rep[i].dialled # NoSession => rep[i].dialled # rep[j].dialled
      /\ slots[i] # NoSession => slots[i] # rep[j].dialled

\* A step changes a place by emptying it, or by moving what one replenisher has
\* dialled into its slot, or a dial brings a session nobody refers to.
LEMMA PlacesNext == TypeOK /\ SessionHasOnePlace /\ [Next]_vars => SessionHasOnePlace'
  <1> SUFFICES ASSUME TypeOK, SessionHasOnePlace, [Next]_vars
               PROVE  SessionHasOnePlace'
    OBVIOUS
  <1>1. slots \in [Slot -> Ref] /\ rep \in [Slot -> ReplenisherState]
    BY DEF TypeOK
  <1>2. ASSUME \A i \in Slot : slots'[i] \in {slots[i], NoSession},
               \A i \in Slot : rep'[i].dialled \in {rep[i].dialled, NoSession}
        PROVE  SessionHasOnePlace'
    BY <1>2 DEF SessionHasOnePlace
  <1>3. ASSUME NEW t \in Tunnel, TunnelStep(t)
        PROVE  SessionHasOnePlace'
    <2>1. CASE EvictSlot(t)
      <3>1. \A i \in Slot : slots'[i] \in {slots[i], NoSession}
        BY <1>1, <2>1 DEF EvictSlot
      <3>2. \A i \in Slot : rep'[i].dialled \in {rep[i].dialled, NoSession}
        BY <1>1, <2>1 DEF EvictSlot, IdleReplenisher
      <3> QED
        BY <1>2, <3>1, <3>2
    <2>2. CASE ~ EvictSlot(t)
      <3>1. UNCHANGED <<slots, rep>>
        BY <1>3, <2>2 DEF TunnelStep, RotateSlot, AffineSlot, LookupSlot, AcquireSession,
                          OpenSucceeds, OpenTargetError, OpenBroken, SetClientFallback,
                          RetireSession, CloseTunnel, sharedVars
      <3> QED
        BY <1>2, <3>1
    <2> QED
      BY <2>1, <2>2
  <1>4. ASSUME NEW i \in Slot, ReplenisherStep(i)
        PROVE  SessionHasOnePlace'
    <2>1. CASE DialSucceeds(i)
      <3>1. PICK n \in Session :
              /\ Unreferenced(n)
              /\ rep' = [rep EXCEPT ![i] = [@ EXCEPT !.pc = "install", !.dialled = n]]
        BY <2>1, Zenon DEF DialSucceeds
      <3>2. \A j \in Slot : rep'[j].dialled = IF j = i THEN n ELSE rep[j].dialled
        BY <1>1, <3>1 DEF ReplenisherState
      <3>3. \A j \in Slot : n # slots[j] /\ n # rep[j].dialled
        BY <3>1 DEF Unreferenced
      <3>4. UNCHANGED slots
        BY <2>1 DEF DialSucceeds, sharedVars
      <3> QED
        BY <3>2, <3>3, <3>4 DEF SessionHasOnePlace
    <2>2. CASE InstallSession(i)
      <3>1. \A j \in Slot : rep'[j].dialled = IF j = i THEN NoSession ELSE rep[j].dialled
        BY <1>1, <2>2 DEF InstallSession, IdleReplenisher
      <3>2. CASE Installable(i)
        <4>1. \A j \in Slot : slots'[j] = IF j = i THEN rep[i].dialled ELSE slots[j]
          BY <1>1, <2>2, <3>2 DEF InstallSession
        <4> QED
          BY <3>1, <4>1 DEF SessionHasOnePlace
      <3>3. CASE ~ Installable(i)
        <4>1. UNCHANGED slots
          BY <2>2, <3>3 DEF InstallSession
        <4> QED
          BY <1>2, <3>1, <4>1
      <3> QED
        BY <3>2, <3>3
    <2>3. CASE CheckSlot(i) \/ DialFails(i) \/ RetryTimer(i) \/ WaitInterrupted(i)
      <3>1. UNCHANGED slots
        BY <2>3 DEF CheckSlot, DialFails, RetryTimer, WaitInterrupted, sharedVars
      <3>2. \A j \in Slot : rep'[j].dialled \in {rep[j].dialled, NoSession}
        BY <2>3, IdleStepsKeepDialled
      <3> QED
        BY <1>2, <3>1, <3>2
    <2> QED
      BY <1>4, <2>1, <2>2, <2>3 DEF ReplenisherStep
  <1>5. CASE UpdaterStep \/ UNCHANGED vars
    <2>1. UNCHANGED <<slots, rep>>
      BY <1>5 DEF UpdaterStep, PublishToken, SetCreateToken, SnapshotSessions, UpdateAcquire,
                  UpdateApply, sharedVars, vars
    <2> QED
      BY <1>2, <2>1
  <1>6. CASE CloserStep
    <2>1. UNCHANGED rep /\ \A i \in Slot : slots'[i] \in {slots[i], NoSession}
      BY <1>6 DEF CloserStep, CloseDone, CloseSlots, CloseNext, sharedVars
    <2> QED
      BY <1>2, <2>1
  <1> QED
    BY <1>3, <1>4, <1>5, <1>6 DEF Next

\* For every size of the pool, two slots never share a session.
THEOREM SessionsHaveOnePlace == Spec => []SessionHasOnePlace
  <1> DEFINE IInv == TypeOK /\ SessionHasOnePlace
  <1>1. Init => IInv
    <2>1. Init => SessionHasOnePlace
      BY DEF Init, SessionHasOnePlace, IdleReplenisher
    <2> QED
      BY <2>1, TypeOKInit
  <1>2. IInv /\ [Next]_vars => IInv'
    BY TypeOKNext, PlacesNext
  <1> QED
    BY <1>1, <1>2, PTL DEF Spec

\* Close has done its work, and so have the replenishers it met.
CloseIsOver == closed /\ closing = {} /\ \A i \in Slot : rep[i].pc # "install"

\* What is still open then is draining, and a tunnel holds it.  This is what
\* CloseReachesEverySession promises to reach.
OnlyDrainingLeft ==
    CloseIsOver =>
      \A s \in Session : sess[s].attached => sess[s].retired /\ Holders(s) # {}

\* A closed pool stays empty, and no renewal is under way in it.
ClosedInv ==
    /\ closed => \A i \in Slot : slots[i] = NoSession
    /\ done => upd.pc = "idle"

LEMMA ClosedInvNext == TypeOK /\ SlotInv /\ ClosedInv /\ [Next]_vars => ClosedInv'
  <1> SUFFICES ASSUME TypeOK, SlotInv, ClosedInv, [Next]_vars
               PROVE  ClosedInv'
    OBVIOUS
  <1> USE DEF ClosedInv
  <1>1. ASSUME NEW t \in Tunnel, TunnelStep(t)
        PROVE  ClosedInv'
    BY <1>1 DEF TunnelStep, RotateSlot, AffineSlot, LookupSlot, AcquireSession, OpenSucceeds,
                OpenTargetError, OpenBroken, SetClientFallback, RetireSession, EvictSlot,
                Evictable, CloseTunnel, sharedVars, closeVars, tokenVars
  <1>2. ASSUME NEW i \in Slot, ReplenisherStep(i)
        PROVE  ClosedInv'
    <2>1. UNCHANGED <<done, closed, upd>>
      BY <1>2 DEF ReplenisherStep, CheckSlot, DialSucceeds, DialFails, RetryTimer,
                  WaitInterrupted, InstallSession, closeVars, tokenVars
    <2>2. closed => UNCHANGED slots
      BY <1>2 DEF ReplenisherStep, CheckSlot, DialSucceeds, DialFails, RetryTimer,
                  WaitInterrupted, InstallSession, Installable, sharedVars
    <2> QED
      BY <2>1, <2>2
  <1>3. CASE UpdaterStep
    BY <1>3 DEF UpdaterStep, PublishToken, SetCreateToken, SnapshotSessions, UpdateAcquire,
                UpdateApply, sharedVars, closeVars
  <1>4. CASE CloserStep
    BY <1>4 DEF CloserStep, CloseDone, CloseSlots, CloseNext, SlotInv, sharedVars, closeVars,
                tokenVars
  <1>5. CASE UNCHANGED vars
    BY <1>5 DEF vars, sharedVars, closeVars, tokenVars
  <1> QED
    BY <1>1, <1>2, <1>3, <1>4, <1>5 DEF Next

\* For every size of the pool and any number of tunnels, Close forgets no session,
\* however dials, failures and renewals cross it: what it leaves open some tunnel
\* holds, and the last one closes it.
THEOREM CloseLeavesOnlyDraining == Spec => []OnlyDrainingLeft
  <1> DEFINE IInv == TypeOK /\ SlotInv /\ RefsMatchHolders /\ OrphanInv /\ ClosedInv
  <1>1. Init => IInv
    <2>1. Init => ClosedInv
      BY DEF Init, ClosedInv
    <2> QED
      BY <2>1, TypeOKInit, SlotInvInit, RefsInit, OrphanInvInit
  <1>2. IInv /\ [Next]_vars => IInv'
    BY TypeOKNext, SlotInvNext, RefsNext, DrainInvNext, DialInvNext, FailInvNext,
       ClosingInvNext, PlaceInvNext, ClosedInvNext DEF OrphanInv
  <1>3. IInv => OnlyDrainingLeft
    <2> SUFFICES ASSUME IInv, CloseIsOver, NEW s \in Session, sess[s].attached
                 PROVE  sess[s].retired /\ Holders(s) # {}
      BY DEF OnlyDrainingLeft
    <2>1. done /\ upd.pc = "idle" /\ \A i \in Slot : slots[i] = NoSession
      BY DEF CloseIsOver, SlotInv, ClosedInv
    <2>2. \A i \in Slot : rep[i].dialled = NoSession
      BY DEF CloseIsOver, OrphanInv, DialInv
    <2>3. sess[s].retired
      BY <2>1, <2>2, NoSessionAssumption DEF OrphanInv, PlaceInv, Placed, CloseIsOver
    <2>4. sess[s].refs > 0
      BY <2>3 DEF OrphanInv, DrainInv
    <2>5. sess[s].refs = Cardinality(Holders(s)) + 0
      BY <2>1 DEF RefsMatchHolders, UpdaterHolds
    <2>6. Holders(s) # {}
      BY <2>4, <2>5, HoldersFinite, FS_EmptySet
    <2> QED
      BY <2>3, <2>6
  <1> QED
    BY <1>1, <1>2, <1>3, PTL DEF Spec

-----------------------------------------------------------------------------
(* The pool is a SessionLease: a step changes one session at most, in one  *)
(* of the ways SessionLease has, or shuts the pool down.                   *)

StatusOf(r) == IF ~ r.attached THEN "none" ELSE IF r.retired THEN "draining" ELSE "serving"
SameLease(old, new) == StatusOf(new) = StatusOf(old) /\ new.refs = old.refs
Opened(old, new) ==
    /\ StatusOf(old) = "none" /\ old.refs = 0
    /\ StatusOf(new) = "serving" /\ new.refs = 0
Leased(old, new) ==
    /\ StatusOf(old) = "serving" /\ StatusOf(new) = "serving"
    /\ new.refs = old.refs + 1
Returned(old, new) ==
    /\ old.refs > 0 /\ new.refs = old.refs - 1
    /\ StatusOf(new) = IF StatusOf(old) = "draining" /\ old.refs = 1
                       THEN "none" ELSE StatusOf(old)
RetiredNow(old, new) ==
    /\ StatusOf(old) = "serving" /\ new.refs = old.refs
    /\ StatusOf(new) = IF old.refs = 0 THEN "none" ELSE "draining"
Killed(old, new) == done /\ StatusOf(new) = "none" /\ new.refs = old.refs

LeaseChange(old, new) ==
    \/ SameLease(old, new) \/ Opened(old, new) \/ Leased(old, new)
    \/ Returned(old, new) \/ RetiredNow(old, new) \/ Killed(old, new)

\* One session changes in one of these ways: a step of SessionLease, or a stutter.
LEMMA ChangeIsLeaseStep ==
    ASSUME NEW s \in Session, sess \in [Session -> SessionState],
           sess' \in [Session -> SessionState],
           \A u \in Session \ {s} : sess'[u] = sess[u],
           LeaseChange(sess[s], sess'[s]), UNCHANGED done
    PROVE  [Lease!Next]_Lease!vars
  <1> DEFINE status == [u \in Session |-> IF ~ sess[u].attached THEN "none"
                                          ELSE IF sess[u].retired THEN "draining" ELSE "serving"]
             leases == [u \in Session |-> sess[u].refs]
  <1>1. /\ status[s] = StatusOf(sess[s])
        /\ status' = [status EXCEPT ![s] = StatusOf(sess'[s])]
    BY DEF StatusOf
  <1>2. /\ leases[s] = sess[s].refs
        /\ leases' = [leases EXCEPT ![s] = sess'[s].refs]
    OBVIOUS
  <1>3. CASE SameLease(sess[s], sess'[s])
    <2>1. status' = status /\ leases' = leases
      BY <1>1, <1>2, <1>3 DEF SameLease
    <2> QED
      BY <2>1 DEF Lease!vars
  <1>4. CASE Opened(sess[s], sess'[s])
    <2>1. Lease!Open(s)
      BY <1>1, <1>2, <1>4 DEF Opened, Lease!Open
    <2> QED
      BY <2>1 DEF Lease!Next
  <1>5. CASE Leased(sess[s], sess'[s])
    <2>1. Lease!Lease(s)
      BY <1>1, <1>2, <1>5 DEF Leased, Lease!Lease
    <2> QED
      BY <2>1 DEF Lease!Next
  <1>6. CASE Returned(sess[s], sess'[s])
    <2>1. Lease!Return(s)
      BY <1>1, <1>2, <1>6 DEF Returned, Lease!Return
    <2> QED
      BY <2>1 DEF Lease!Next
  <1>7. CASE RetiredNow(sess[s], sess'[s])
    <2>1. Lease!Retire(s)
      BY <1>1, <1>2, <1>7 DEF RetiredNow, Lease!Retire
    <2> QED
      BY <2>1 DEF Lease!Next
  <1>8. CASE Killed(sess[s], sess'[s])
    <2>1. Lease!Kill(s)
      BY <1>1, <1>2, <1>8 DEF Killed, Lease!Kill
    <2> QED
      BY <2>1 DEF Lease!Next
  <1> QED
    BY <1>3, <1>4, <1>5, <1>6, <1>7, <1>8 DEF LeaseChange

\* What the helpers do is one of these changes, given what their callers know.
LEMMA HelpersChange ==
    ASSUME TypeOK, DrainInv, NEW h \in Session
    PROVE  /\ \A u \in Session \ {h} :
                /\ Acquired(h)[u] = sess[u] /\ Released(h)[u] = sess[u]
                /\ UpdatedAndReleased(h)[u] = sess[u]
                /\ Retired(h)[u] = sess[u] /\ ClosedNow(h)[u] = sess[u]
           /\ Usable(h) => Leased(sess[h], Acquired(h)[h])
           /\ sess[h].refs > 0 => Returned(sess[h], Released(h)[h])
           /\ sess[h].refs > 0 => Returned(sess[h], UpdatedAndReleased(h)[h])
           /\ SameLease(sess[h], Retired(h)[h]) \/ RetiredNow(sess[h], Retired(h)[h])
           /\ done => Killed(sess[h], ClosedNow(h)[h])
  <1>1. /\ sess \in [Session -> SessionState]
        /\ sess[h].refs \in Nat
        /\ sess[h].attached /\ sess[h].retired => sess[h].refs > 0
    BY DEF TypeOK, SessionState, DrainInv
  <1>2. Released(h) \in [Session -> SessionState]
    BY SessionTypes DEF Ref
  <1>3. \A u \in Session \ {h} :
          /\ Acquired(h)[u] = sess[u] /\ Released(h)[u] = sess[u]
          /\ Retired(h)[u] = sess[u] /\ ClosedNow(h)[u] = sess[u]
    BY <1>1 DEF Acquired, Released, Retired, ClosedNow
  <1>4. \A u \in Session \ {h} : UpdatedAndReleased(h)[u] = sess[u]
    BY <1>2, <1>3 DEF UpdatedAndReleased
  <1>5. Usable(h) => Leased(sess[h], Acquired(h)[h])
    BY <1>1 DEF Usable, Acquired, Leased, StatusOf, SessionState
  <1>6. ASSUME sess[h].refs > 0
        PROVE  Returned(sess[h], Released(h)[h])
    <2>1. /\ Released(h)[h].refs = sess[h].refs - 1
          /\ Released(h)[h].attached <=> sess[h].attached /\ ~ (sess[h].refs - 1 = 0 /\ sess[h].retired)
          /\ Released(h)[h].retired <=> sess[h].retired
      BY <1>1, <1>6 DEF Released, SessionState
    <2> QED
      BY <1>1, <1>6, <2>1 DEF Returned, StatusOf
  <1>7. /\ UpdatedAndReleased(h)[h].refs = Released(h)[h].refs
        /\ UpdatedAndReleased(h)[h].attached = Released(h)[h].attached
        /\ UpdatedAndReleased(h)[h].retired = Released(h)[h].retired
    BY <1>2 DEF UpdatedAndReleased, SessionState
  <1>8. sess[h].refs > 0 => Returned(sess[h], UpdatedAndReleased(h)[h])
    BY <1>6, <1>7 DEF Returned, StatusOf
  <1>9. SameLease(sess[h], Retired(h)[h]) \/ RetiredNow(sess[h], Retired(h)[h])
    <2>1. /\ Retired(h)[h].refs = sess[h].refs
          /\ Retired(h)[h].attached <=> sess[h].attached /\ sess[h].refs # 0
          /\ Retired(h)[h].retired
      BY <1>1 DEF Retired, SessionState
    <2> QED
      BY <1>1, <2>1 DEF SameLease, RetiredNow, StatusOf
  <1>10. done => Killed(sess[h], ClosedNow(h)[h])
    BY <1>1 DEF ClosedNow, Killed, StatusOf, SessionState
  <1> QED
    BY <1>3, <1>4, <1>5, <1>6, <1>8, <1>9, <1>10

LeaseInv == TypeOK /\ SlotInv /\ RefsMatchHolders /\ OrphanInv

\* A holder is counted.
LEMMA HeldIsCounted ==
    ASSUME LeaseInv, NEW s \in Session, Holders(s) # {} \/ UpdaterHolds(s)
    PROVE  sess[s].refs > 0
  <1>1. Holders(s) # {} => Cardinality(Holders(s)) # 0
    BY HoldersFinite, FS_EmptySet
  <1>2. sess[s].refs = Cardinality(Holders(s)) + (IF UpdaterHolds(s) THEN 1 ELSE 0)
    BY DEF LeaseInv, RefsMatchHolders
  <1> QED
    BY <1>1, <1>2, HoldersFinite

\* A step that leaves the sessions and done alone is a stutter of SessionLease.
LEMMA LeaseStutters ==
    ASSUME UNCHANGED <<sess, done>>
    PROVE  [Lease!Next]_Lease!vars
  BY DEF Lease!vars

\* Every step is a step of SessionLease, or a stutter.
LEMMA LeaseStep == LeaseInv /\ [Next]_vars => [Lease!Next]_Lease!vars
  <1> SUFFICES ASSUME LeaseInv, [Next]_vars
               PROVE  [Lease!Next]_Lease!vars
    OBVIOUS
  <1>1. TypeOK /\ DrainInv /\ sess \in [Session -> SessionState]
    BY DEF LeaseInv, OrphanInv, TypeOK
  <1>2. sess' \in [Session -> SessionState]
    BY <1>1, TypeOKNext DEF TypeOK
  <1> DEFINE goal == [Lease!Next]_Lease!vars
  <1> HIDE DEF goal
  <1>3. ASSUME NEW s \in Session, \A u \in Session \ {s} : sess'[u] = sess[u],
               LeaseChange(sess[s], sess'[s]), UNCHANGED done
        PROVE  goal
    BY <1>1, <1>2, <1>3, ChangeIsLeaseStep DEF goal
  <1>4. ASSUME UNCHANGED <<sess, done>>
        PROVE  goal
    BY <1>4, LeaseStutters DEF goal
  <1>5. ASSUME NEW t \in Tunnel, TunnelStep(t)
        PROVE  goal
    <2>1. UNCHANGED done
      BY <1>5
      DEF TunnelStep, RotateSlot, AffineSlot, LookupSlot, AcquireSession, OpenSucceeds,
          OpenTargetError, OpenBroken, SetClientFallback, RetireSession, EvictSlot,
          CloseTunnel, closeVars
    <2>2. tun[t].pc \notin {"idle", "slot"} => tun[t].held \in Session
      BY DEF LeaseInv, OrphanInv, FailInv
    <2>3. CASE UNCHANGED sess
      BY <2>1, <2>3, <1>4
    <2>4. CASE sess' = Acquired(tun[t].held) /\ tun[t].pc = "acquire" /\ Usable(tun[t].held)
      BY <1>1, <1>3, <2>1, <2>2, <2>4, HelpersChange DEF LeaseChange
    <2>5. CASE sess' = Released(tun[t].held) /\ tun[t].pc \in {"opening", "held"}
      <3>1. tun[t].held \in Session
        BY <2>2, <2>5
      <3>2. Holders(tun[t].held) # {}
        BY <2>5 DEF Holders
      <3>3. sess[tun[t].held].refs > 0
        BY <3>1, <3>2, HeldIsCounted
      <3> QED
        BY <1>1, <1>3, <2>1, <2>5, <3>1, <3>3, HelpersChange DEF LeaseChange
    <2>6. CASE sess' = Retired(tun[t].held) /\ tun[t].pc = "retire"
      BY <1>1, <1>3, <2>1, <2>2, <2>6, HelpersChange DEF LeaseChange
    <2> QED
      BY <1>5, <2>3, <2>4, <2>5, <2>6
      DEF TunnelStep, RotateSlot, AffineSlot, LookupSlot, AcquireSession, OpenSucceeds,
          OpenTargetError, OpenBroken, SetClientFallback, RetireSession, EvictSlot,
          CloseTunnel, ReleasedByClose
  <1>6. ASSUME NEW i \in Slot, ReplenisherStep(i)
        PROVE  goal
    <2>1. UNCHANGED done
      BY <1>6 DEF ReplenisherStep, CheckSlot, DialSucceeds, DialFails, RetryTimer,
                  WaitInterrupted, InstallSession, closeVars
    <2>2. CASE DialSucceeds(i)
      <3>1. PICK n \in Session :
              Unreferenced(n) /\ sess' = [sess EXCEPT ![n] = NewSession(TokenApplied(i))]
        BY <2>2 DEF DialSucceeds
      <3>2. Opened(sess[n], sess'[n])
        BY <1>1, <3>1 DEF Opened, StatusOf, Unreferenced, NewSession
      <3> QED
        BY <1>1, <1>3, <2>1, <3>1, <3>2 DEF LeaseChange
    <2>3. CASE InstallSession(i)
      <3>1. CASE Installable(i)
        BY <2>1, <2>3, <3>1, <1>4 DEF InstallSession
      <3>2. CASE ~ Installable(i)
        <4>1. done /\ rep[i].dialled \in Session
          BY <2>3, <3>2 DEF InstallSession, Installable, LeaseInv, SlotInv, SlotFilledOrReplenishing
        <4>2. sess' = ClosedNow(rep[i].dialled)
          BY <2>3, <3>2 DEF InstallSession
        <4> QED
          BY <1>1, <1>3, <2>1, <4>1, <4>2, HelpersChange DEF LeaseChange
      <3> QED
        BY <3>1, <3>2
    <2>4. CASE CheckSlot(i) \/ DialFails(i) \/ RetryTimer(i) \/ WaitInterrupted(i)
      BY <2>1, <2>4, <1>4 DEF CheckSlot, DialFails, RetryTimer, WaitInterrupted
    <2> QED
      BY <1>6, <2>2, <2>3, <2>4 DEF ReplenisherStep
  <1>7. ASSUME UpdaterStep
        PROVE  goal
    <2>1. UNCHANGED done
      BY <1>7 DEF UpdaterStep, PublishToken, SetCreateToken, SnapshotSessions,
                  UpdateAcquire, UpdateApply, closeVars
    <2> DEFINE h == upd.snap[upd.at]
    <2>2. h \in Ref
      BY <1>1 DEF TypeOK, UpdaterState
    <2>3. CASE UpdateAcquire
      <3>1. CASE UNCHANGED sess
        BY <2>1, <3>1, <1>4
      <3>2. CASE h # NoSession /\ Usable(h) /\ sess' = Acquired(h)
        <4>1. h \in Session
          BY <2>2, <3>2 DEF Ref
        <4> QED
          BY <1>1, <1>3, <2>1, <3>2, <4>1, HelpersChange DEF LeaseChange
      <3> QED
        BY <2>3, <3>1, <3>2 DEF UpdateAcquire
    <2>4. CASE UpdateApply
      <3>1. UpdaterHolds(h) /\ sess' = UpdatedAndReleased(h)
        BY <2>4 DEF UpdateApply, UpdaterHolds
      <3>2. CASE h \in Session
        <4>1. sess[h].refs > 0
          BY <3>1, <3>2, HeldIsCounted
        <4> QED
          BY <1>1, <1>3, <2>1, <3>1, <3>2, <4>1, HelpersChange DEF LeaseChange
      <3>3. CASE h \notin Session
        <4>1. UNCHANGED sess
          BY <1>1, <3>1, <3>3 DEF UpdatedAndReleased, Released
        <4> QED
          BY <2>1, <4>1, <1>4
      <3> QED
        BY <3>2, <3>3
    <2>5. CASE PublishToken \/ SetCreateToken \/ SnapshotSessions
      BY <2>1, <2>5, <1>4 DEF PublishToken, SetCreateToken, SnapshotSessions
    <2> QED
      BY <1>7, <2>3, <2>4, <2>5 DEF UpdaterStep
  <1>8. ASSUME CloserStep
        PROVE  goal
    <2>1. CASE CloseDone
      <3>1. Lease!Shutdown
        BY <2>1 DEF CloseDone, Lease!Shutdown
      <3> QED
        BY <3>1 DEF Lease!Next, goal
    <2>2. CASE CloseSlots
      BY <2>2, <1>4 DEF CloseSlots
    <2>3. CASE CloseNext
      <3>1. PICK r \in closing : sess' = ClosedNow(r) /\ UNCHANGED done
        BY <2>3 DEF CloseNext
      <3>2. done /\ r \in Session
        BY <1>1 DEF LeaseInv, SlotInv, TypeOK
      <3> QED
        BY <1>1, <1>3, <3>1, <3>2, HelpersChange DEF LeaseChange
    <2> QED
      BY <1>8, <2>1, <2>2, <2>3 DEF CloserStep
  <1>9. ASSUME UNCHANGED vars
        PROVE  goal
    BY <1>9, <1>4 DEF vars, closeVars
  <1> QED
    BY <1>5, <1>6, <1>7, <1>8, <1>9 DEF Next, goal

\* A new pool has leased nothing.
LEMMA LeaseInit == Init => Lease!Init
  BY DEF Init, Lease!Init, NewSession, Blank

\* For every size of the pool and any set of tunnels, the pool keeps the promise of
\* SessionLease: no lease of a retired session, none cut before Close, and the last one
\* returned closes it.
THEOREM PoolIsLease == Spec => ImplementsLease
  <1>1. Init => LeaseInv
    BY TypeOKInit, SlotInvInit, RefsInit, OrphanInvInit DEF LeaseInv
  <1>2. LeaseInv /\ [Next]_vars => LeaseInv'
    BY TypeOKNext, SlotInvNext, RefsNext, DrainInvNext, DialInvNext, FailInvNext,
       ClosingInvNext, PlaceInvNext DEF LeaseInv, OrphanInv
  <1> QED
    BY <1>1, <1>2, LeaseInit, LeaseStep, PTL DEF Spec, ImplementsLease, Lease!Spec

-----------------------------------------------------------------------------
(* What follows from the refinement.                                       *)

Promise == INSTANCE SessionLease_Proofs WITH
    status <- [s \in Session |-> IF ~ sess[s].attached THEN "none"
                                 ELSE IF sess[s].retired THEN "draining" ELSE "serving"],
    leases <- [s \in Session |-> sess[s].refs],
    down <- done

\* A connection that is retired takes no new tunnel and no renewal, whatever slot still
\* shows it, and before Close nothing but the return of its last reference ends it.
RetiredOnlyDrain ==
    [][\A s \in Session : sess[s].attached /\ sess[s].retired =>
         /\ sess'[s].attached => sess'[s].retired
         /\ sess'[s].refs <= sess[s].refs
         /\ ~ sess'[s].attached => done \/ sess'[s].refs = 0]_vars

\* For every size of the pool and any set of tunnels: acquire, retire, release and
\* UpdateToken never revive a retired session, however they interleave.
THEOREM RetiredSessionsOnlyDrain == Spec => RetiredOnlyDrain
  <1> DEFINE final == \A s \in Session : sess[s].attached /\ sess[s].retired =>
                        /\ sess'[s].attached => sess'[s].retired
                        /\ sess'[s].refs <= sess[s].refs
                        /\ ~ sess'[s].attached => done \/ sess'[s].refs = 0
             st == [s \in Session |-> IF ~ sess[s].attached THEN "none"
                                      ELSE IF sess[s].retired THEN "draining" ELSE "serving"]
             ls == [s \in Session |-> sess[s].refs]
             kept == \A s \in Session : st[s] = "draining" =>
                       /\ st'[s] # "serving"
                       /\ ls'[s] <= ls[s]
                       /\ st'[s] = "none" => done \/ ls'[s] = 0
  <1>1. Spec => Promise!Spec
    <2>1. Lease!Init => Promise!Init
      BY DEF Lease!Init, Promise!Init
    <2>2. [Lease!Next]_Lease!vars => [Promise!Next]_Promise!vars
      BY Zenon DEF Lease!Next, Promise!Next, Lease!vars, Promise!vars, Lease!Shutdown,
         Promise!Shutdown, Lease!Open, Promise!Open, Lease!Lease, Promise!Lease,
         Lease!Return, Promise!Return, Lease!Retire, Promise!Retire, Lease!Kill, Promise!Kill
    <2> QED
      BY <2>1, <2>2, PoolIsLease, PTL DEF ImplementsLease, Lease!Spec, Promise!Spec
  <1>2. Promise!Retirement => [][kept]_<<st, ls, done>>
    BY PTL DEF Promise!Retirement, Promise!vars
  <1>3. ASSUME [kept]_<<st, ls, done>>, TypeOK, TypeOK'
        PROVE  final
    <2> SUFFICES ASSUME NEW s \in Session, sess[s].attached, sess[s].retired
                 PROVE  /\ sess'[s].attached => sess'[s].retired
                        /\ sess'[s].refs <= sess[s].refs
                        /\ ~ sess'[s].attached => done \/ sess'[s].refs = 0
      OBVIOUS
    <2>1. /\ st[s] = "draining" /\ ls[s] = sess[s].refs /\ ls'[s] = sess'[s].refs
          /\ st'[s] = IF ~ sess'[s].attached THEN "none"
                      ELSE IF sess'[s].retired THEN "draining" ELSE "serving"
      OBVIOUS
    <2>2. sess[s].refs \in Nat
      BY <1>3 DEF TypeOK, SessionState
    <2>3. CASE kept
      BY <2>1, <2>3
    <2>4. CASE UNCHANGED <<st, ls, done>>
      <3>1. st'[s] = st[s] /\ ls'[s] = ls[s]
        BY <2>4
      <3> QED
        BY <2>1, <2>2, <3>1
    <2> QED
      BY <1>3, <2>3, <2>4
  <1>4. Spec => []TypeOK
    BY TypeCorrect
  <1>5. [kept]_<<st, ls, done>> /\ TypeOK /\ TypeOK' => [final]_vars
    BY <1>3
  <1> HIDE DEF kept, final, st, ls
  <1> QED
    BY <1>1, <1>2, <1>4, <1>5, Promise!RetirementIsFinal, PTL DEF RetiredOnlyDrain, final

=============================================================================
