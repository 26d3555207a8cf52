------------------------ MODULE ProxyController_Proofs ------------------------
(***************************************************************************)
(* Proofs about ProxyController, for every set of sessions, every finite   *)
(* set of tunnels, any number of retries and any times.                    *)
(***************************************************************************)
EXTENDS ProxyController, FiniteSetTheorems, TLAPS

SessionState == [attached : BOOLEAN, accepting : BOOLEAN, refs : Nat]
CallState == [pc : CallPC, attempt : 0 .. MaxRetries, held : Managed \union {NoManaged}]
WorkState == [pc : WorkPC, pass : Time, fresh : Managed \union {NoManaged},
              refused : BOOLEAN, snap : Time]
HolderPC == {"open", "opening", "release", "held"}

\* Who waits for renewMu or owns it has an attempt left, and who holds a session
\* knows it.
CallInv ==
    \A t \in Tunnel :
      /\ call[t].pc \in {"lock", "renew"} => call[t].attempt < MaxRetries
      /\ call[t].pc \in HolderPC => call[t].held \in Managed

\* renewLocked runs for the tunnel that owns renewMu; between CreateSession and the
\* swap it has a new session that nobody else knows.
WorkInv ==
    /\ renewMu \in Tunnel => call[renewMu].pc = "renew"
    /\ RenewMuFree => work.pc = "none"
    /\ work.pc # "swap" => work.fresh = NoManaged
    /\ work.pc = "swap" =>
         /\ work.fresh \in Managed \ {current}
         /\ ms[work.fresh].attached /\ ~ ms[work.fresh].accepting
         /\ ms[work.fresh].refs = 0

\* Only the current session accepts tunnels, and it is open then; the current session
\* of a closed controller does not.
AcceptInv ==
    /\ \A m \in Managed : ms[m].accepting => m = current /\ ms[m].attached
    /\ closed => ~ ms[current].accepting /\ doneClosed

\* A new session is only made in the place of one that cannot be used or refused
\* its token.
ReplaceInv ==
    work.pc \in {"create", "swap"} =>
      ~ ms[current].accepting \/ NotBeforeExpiry \/ work.refused

IInv == /\ TypeOK /\ CallInv /\ WorkInv /\ RefsMatchHolders
        /\ AcceptInv /\ ReplaceInv /\ NoOrphanSession

-----------------------------------------------------------------------------
(* The helpers, and the ways in which a step changes the sessions.         *)

\* TypeOK, with its record sets named.
LEMMA Types ==
    /\ TypeOK <=> /\ current \in Managed /\ ttl \in Time /\ closed \in BOOLEAN
                  /\ ms \in [Managed -> SessionState]
                  /\ call \in [Tunnel -> CallState]
                  /\ renewMu \in Tunnel \union {Renewal, NoProc}
                  /\ work \in WorkState
                  /\ renewer \in RenewerPC
                  /\ loop \in [pc : LoopPC, timer : Nat, snap : Time]
                  /\ closer \in [pc : CloserPC, snap : Time]
                  /\ file \in Time /\ exited \in BOOLEAN /\ blamed \in BOOLEAN
    /\ TypeOK' <=> /\ current' \in Managed /\ ttl' \in Time /\ closed' \in BOOLEAN
                   /\ ms' \in [Managed -> SessionState]
                   /\ call' \in [Tunnel -> CallState]
                   /\ renewMu' \in Tunnel \union {Renewal, NoProc}
                   /\ work' \in WorkState
                   /\ renewer' \in RenewerPC
                   /\ loop' \in [pc : LoopPC, timer : Nat, snap : Time]
                   /\ closer' \in [pc : CloserPC, snap : Time]
                   /\ file' \in Time /\ exited' \in BOOLEAN /\ blamed' \in BOOLEAN
  BY DEF TypeOK, SessionState, CallState, WorkState

\* What the helpers do to a session.
LEMMA HelpersDo ==
    ASSUME ms \in [Managed -> SessionState], NEW m \in Managed
    PROVE  /\ \A u \in Managed \ {m} :
                Acquired(m)[u] = ms[u] /\ Released(m)[u] = ms[u] /\ Disabled(m)[u] = ms[u]
           /\ Acquired(m)[m].refs = ms[m].refs + 1
           /\ Acquired(m)[m].attached = ms[m].attached
           /\ Acquired(m)[m].accepting = ms[m].accepting
           /\ Acquired(m) \in [Managed -> SessionState]
           /\ Released(m)[m].refs = ms[m].refs - 1
           /\ Released(m)[m].attached <=>
                ms[m].attached /\ (ms[m].accepting \/ ms[m].refs - 1 > 0)
           /\ Released(m)[m].accepting = ms[m].accepting
           /\ ms[m].refs > 0 => Released(m) \in [Managed -> SessionState]
           /\ Disabled(m)[m].refs = ms[m].refs
           /\ Disabled(m)[m].attached <=> ms[m].attached /\ ms[m].refs > 0
           /\ Disabled(m)[m].accepting = FALSE
           /\ Disabled(m) \in [Managed -> SessionState]
  <1>1. ms[m] \in SessionState /\ ms[m].refs \in Nat
    BY DEF SessionState
  <1>2. /\ Acquired(m) \in [Managed -> SessionState]
        /\ Acquired(m)[m].refs = ms[m].refs + 1
        /\ Acquired(m)[m].attached = ms[m].attached
        /\ Acquired(m)[m].accepting = ms[m].accepting
        /\ \A u \in Managed \ {m} : Acquired(m)[u] = ms[u]
    BY <1>1 DEF Acquired, SessionState
  <1>3. DEFINE r == [ms[m] EXCEPT !.refs = ms[m].refs - 1]
               c == [ms[m] EXCEPT !.accepting = FALSE]
  <1>4. /\ Released(m) = [ms EXCEPT ![m] = MaybeClosed(r)]
        /\ Disabled(m) = [ms EXCEPT ![m] = MaybeClosed(c)]
    BY DEF Released, WithRefs, Disabled
  <1>5. /\ MaybeClosed(r).refs = ms[m].refs - 1
        /\ MaybeClosed(r).accepting = ms[m].accepting
        /\ MaybeClosed(r).attached <=> ms[m].attached /\ (ms[m].accepting \/ ms[m].refs - 1 > 0)
        /\ ms[m].refs > 0 => MaybeClosed(r) \in SessionState
    <2>1. /\ r.refs = ms[m].refs - 1 /\ r.accepting = ms[m].accepting
          /\ r.attached = ms[m].attached
          /\ r \in [attached : BOOLEAN, accepting : BOOLEAN, refs : Int]
      BY <1>1 DEF SessionState
    <2> HIDE DEF r
    <2> QED
      BY <1>1, <2>1 DEF MaybeClosed, SessionState
  <1>6. /\ MaybeClosed(c).refs = ms[m].refs
        /\ MaybeClosed(c).accepting = FALSE
        /\ MaybeClosed(c).attached <=> ms[m].attached /\ ms[m].refs > 0
        /\ MaybeClosed(c) \in SessionState
    <2>1. /\ c.refs = ms[m].refs /\ c.accepting = FALSE /\ c.attached = ms[m].attached
          /\ c \in SessionState
      BY <1>1 DEF SessionState
    <2> HIDE DEF c
    <2> QED
      BY <1>1, <2>1 DEF MaybeClosed, SessionState
  <1> HIDE DEF r, c
  <1>7. /\ Released(m)[m] = MaybeClosed(r) /\ Disabled(m)[m] = MaybeClosed(c)
        /\ \A u \in Managed \ {m} : Released(m)[u] = ms[u] /\ Disabled(m)[u] = ms[u]
        /\ ms[m].refs > 0 => Released(m) \in [Managed -> SessionState]
        /\ Disabled(m) \in [Managed -> SessionState]
    BY <1>4, <1>5, <1>6
  <1> QED
    BY <1>2, <1>5, <1>6, <1>7

LEMMA OthersUntouched ==
    ASSUME ms \in [Managed -> SessionState], NEW m \in Managed, NEW u \in Managed, u # m
    PROVE  Acquired(m)[u] = ms[u] /\ Released(m)[u] = ms[u] /\ Disabled(m)[u] = ms[u]
  BY HelpersDo

\* A step gives a session to a tunnel, takes one from it, disables the current one,
\* or changes the set of sessions.
LEMMA StepsOfSessions ==
    ASSUME [Next]_vars
    PROVE  \/ UNCHANGED <<ms, current>>
           \/ \E t \in Tunnel : Acquire(t) /\ UNCHANGED closer
           \/ \E t \in Tunnel : /\ call[t].pc \in {"opening", "release", "held"}
                                /\ ms' = Released(call[t].held)
                                /\ UNCHANGED <<current, ttl, closed, work, closer>>
           \/ ms' = Disabled(current) /\ UNCHANGED <<current, ttl, closed, work, closer>>
           \/ CreateSession /\ UNCHANGED closer
           \/ SwapSession /\ UNCHANGED closer
           \/ RejectSwap /\ UNCHANGED closer
           \/ CloseCurrent /\ UNCHANGED <<current, ttl, work>>
  <1>1. ASSUME NEW t \in Tunnel, CallStep(t)
        PROVE  \/ UNCHANGED <<ms, current>>
               \/ Acquire(t) /\ UNCHANGED closer
               \/ /\ call[t].pc \in {"opening", "release", "held"}
                  /\ ms' = Released(call[t].held)
                  /\ UNCHANGED <<current, ttl, closed, work, closer>>
               \/ ms' = Disabled(current) /\ UNCHANGED <<current, ttl, closed, work, closer>>
    BY <1>1
    DEF CallStep, StartCall, Acquire, AcquireFails, CheckClosed, CallSession, OpenSucceeds,
        OpenTargetError, OpenBroken, MarkedUnusable, ReleaseFailed, CloseTunnel,
        ReleasedByClose, Rebuild, renewVars
  <1>2. ASSUME WorkStep
        PROVE  \/ UNCHANGED <<ms, current>>
               \/ CreateSession /\ UNCHANGED closer
               \/ SwapSession /\ UNCHANGED closer
               \/ RejectSwap /\ UNCHANGED closer
    BY <1>2
    DEF WorkStep, WorkFails, HaveOAuthToken, FetchPass, FetchForbidden, Activate,
        UpdateToken, UpdateImpossible, ReadStatus, WriteStatus
  <1>3. ASSUME LoopStep
        PROVE  \/ UNCHANGED <<ms, current>>
               \/ ms' = Disabled(current) /\ UNCHANGED <<current, ttl, closed, work, closer>>
    BY <1>3
    DEF LoopStep, LoopTop, LoopWakes, RenewerLocks, LoopResult, LoopTimesOut, DisableExpired,
        LoopReadsStatus, LoopWritesStatus, LoopRetries, LoopInterrupted, renewVars
  <1>4. ASSUME CloserStep
        PROVE  \/ UNCHANGED <<ms, current>>
               \/ CloseCurrent /\ UNCHANGED <<current, ttl, work>>
    BY <1>4
    DEF CloserStep, CloseDone, CloseReadsStatus, CloseWritesStatus, renewVars
  <1>5. CASE Panic \/ Tick \/ UNCHANGED vars
    BY <1>5 DEF Panic, Tick, vars
  <1> QED
    BY <1>1, <1>2, <1>3, <1>4, <1>5 DEF Next

-----------------------------------------------------------------------------
(* The calls.                                                              *)

\* What the steps of openTunnel do to a call.
LEMMA CallsMove ==
    ASSUME call \in [Tunnel -> CallState], NEW t \in Tunnel
    PROVE  /\ \A l \in CallPC : Goto(t, l) =>
                /\ call' \in [Tunnel -> CallState]
                /\ call'[t] = [call[t] EXCEPT !.pc = l]
                /\ \A u \in Tunnel \ {t} : call'[u] = call[u]
           /\ Return(t) =>
                /\ call' \in [Tunnel -> CallState]
                /\ call'[t] = IdleCall
                /\ \A u \in Tunnel \ {t} : call'[u] = call[u]
           /\ NextAttempt(t) /\ call[t].attempt < MaxRetries =>
                /\ call' \in [Tunnel -> CallState]
                /\ call'[t].pc = "acquire"
                /\ \A u \in Tunnel \ {t} : call'[u] = call[u]
  <1>1. call[t] \in CallState /\ MaxRetries \in Nat
    BY TimeAssumption
  <1>2. ASSUME NEW l \in CallPC, Goto(t, l)
        PROVE  /\ call' \in [Tunnel -> CallState]
               /\ call'[t] = [call[t] EXCEPT !.pc = l]
               /\ \A u \in Tunnel \ {t} : call'[u] = call[u]
    BY <1>1, <1>2 DEF Goto, CallState
  <1>3. IdleCall \in CallState
    BY <1>1 DEF IdleCall, CallState, CallPC
  <1>4. ASSUME Return(t)
        PROVE  /\ call' \in [Tunnel -> CallState]
               /\ call'[t] = IdleCall
               /\ \A u \in Tunnel \ {t} : call'[u] = call[u]
    BY <1>3, <1>4 DEF Return
  <1>5. ASSUME NextAttempt(t), call[t].attempt < MaxRetries
        PROVE  /\ call' \in [Tunnel -> CallState]
               /\ call'[t].pc = "acquire"
               /\ \A u \in Tunnel \ {t} : call'[u] = call[u]
    <2> DEFINE r == [pc |-> "acquire", attempt |-> call[t].attempt + 1, held |-> NoManaged]
    <2>1. r \in CallState /\ r.pc = "acquire"
      BY <1>1, <1>5 DEF CallState, CallPC
    <2>2. call' = [call EXCEPT ![t] = r]
      BY <1>5 DEF NextAttempt
    <2> HIDE DEF r
    <2> QED
      BY <2>1, <2>2
  <1> QED
    BY <1>2, <1>4, <1>5

\* An openTunnel keeps its attempts and its session in order, and nobody but the owner
\* of renewMu moves a call that waits for renewLocked.
LEMMA CallStepMoves ==
    ASSUME TypeOK, CallInv, AcceptInv, NEW t \in Tunnel, CallStep(t)
    PROVE  /\ call' \in [Tunnel -> CallState]
           /\ \A u \in Tunnel \ {t} : call'[u] = call[u]
           /\ call[t].pc # "renew"
           /\ call'[t].pc \in {"lock", "renew"} => call'[t].attempt < MaxRetries
           /\ call'[t].pc \in HolderPC => call'[t].held \in Managed
  <1>1. /\ call \in [Tunnel -> CallState] /\ call[t] \in CallState
        /\ current \in Managed /\ MaxRetries \in Nat
    BY Types, TimeAssumption
  <1>2. /\ call[t].pc \in {"lock", "renew"} => call[t].attempt < MaxRetries
        /\ call[t].pc \in HolderPC => call[t].held \in Managed
    BY DEF CallInv
  <1> DEFINE goal == /\ call' \in [Tunnel -> CallState]
                     /\ \A u \in Tunnel \ {t} : call'[u] = call[u]
                     /\ call[t].pc # "renew"
                     /\ call'[t].pc \in {"lock", "renew"} => call'[t].attempt < MaxRetries
                     /\ call'[t].pc \in HolderPC => call'[t].held \in Managed
  <1>3. ASSUME Return(t), call[t].pc # "renew"
        PROVE  goal
    <2>1. call'[t].pc = "idle"
      BY <1>1, <1>3, CallsMove DEF IdleCall
    <2> QED
      BY <1>1, <1>3, <2>1, CallsMove DEF HolderPC
  <1>4. ASSUME NEW l \in CallPC, Goto(t, l), call[t].pc # "renew",
               l \in {"lock", "renew"} => call[t].attempt < MaxRetries,
               l \in HolderPC => call[t].held \in Managed
        PROVE  goal
    <2>1. /\ call'[t].pc = l /\ call'[t].attempt = call[t].attempt
          /\ call'[t].held = call[t].held
      <3>1. call'[t] = [call[t] EXCEPT !.pc = l]
        BY <1>1, <1>4, CallsMove
      <3> QED
        BY <1>1, <3>1 DEF CallState
    <2> QED
      BY <1>1, <1>4, <2>1, CallsMove
  <1>5. ASSUME RetryOrReturn(t), call[t].pc # "renew"
        PROVE  goal
    <2>1. CASE call[t].attempt = MaxRetries
      BY <1>3, <1>5, <2>1 DEF RetryOrReturn
    <2>2. CASE call[t].attempt # MaxRetries
      <3>1. Goto(t, "lock") /\ call[t].attempt < MaxRetries
        BY <1>1, <1>5, <2>2 DEF RetryOrReturn, CallState
      <3> QED
        BY <1>4, <1>5, <3>1 DEF CallPC, HolderPC
    <2> QED
      BY <2>1, <2>2
  <1>6. CASE Acquire(t)
    <2> DEFINE r == [call[t] EXCEPT !.pc = "open", !.held = current]
    <2>1. r \in CallState /\ r.pc = "open" /\ r.held \in Managed
      BY <1>1 DEF CallState, CallPC
    <2>2. call' = [call EXCEPT ![t] = r] /\ call[t].pc # "renew"
      BY <1>1, <1>6 DEF Acquire
    <2> HIDE DEF r
    <2> QED
      BY <1>1, <2>1, <2>2
  <1>7. CASE StartCall(t) \/ AcquireFails(t) \/ CallSession(t) \/ OpenSucceeds(t) \/ OpenBroken(t)
    <2>1. PICK l \in {"acquire", "failed", "opening", "held", "release"} :
            Goto(t, l) /\ (l \in HolderPC => call[t].pc \in HolderPC) /\ call[t].pc # "renew"
      BY <1>7 DEF StartCall, AcquireFails, CallSession, OpenSucceeds, OpenBroken, HolderPC
    <2> QED
      BY <1>2, <1>4, <2>1 DEF CallPC
  <1>8. CASE OpenTargetError(t)
    BY <1>3, <1>8 DEF OpenTargetError
  <1>9. CASE CheckClosed(t) \/ ReleaseFailed(t)
    BY <1>3, <1>5, <1>9 DEF CheckClosed, ReleaseFailed
  <1>10. CASE CloseTunnel(t)
    BY <1>3, <1>4, <1>10 DEF CloseTunnel, CallPC, HolderPC
  <1>11. CASE Rebuild(t)
    <2>1. CASE NextAttempt(t)
      <3>1. call[t].attempt < MaxRetries /\ call[t].pc # "renew"
        BY <1>2, <1>11 DEF Rebuild
      <3>2. call'[t].pc = "acquire"
        BY <1>1, <2>1, <3>1, CallsMove
      <3> QED
        BY <1>1, <2>1, <3>1, <3>2, CallsMove DEF HolderPC
    <2>2. CASE Goto(t, "renew")
      BY <1>2, <1>4, <1>11, <2>2 DEF Rebuild, CallPC, HolderPC
    <2> QED
      BY <1>11, <2>1, <2>2 DEF Rebuild
  <1> QED
    BY <1>6, <1>7, <1>8, <1>9, <1>10, <1>11 DEF CallStep

\* The other steps leave the calls alone, but for a renewLocked that returns to its
\* tunnel.
LEMMA OtherStepsMove ==
    ASSUME TypeOK, CallInv, WorkInv, WorkStep \/ LoopStep \/ CloserStep \/ Panic \/ Tick
    PROVE  \/ UNCHANGED call
           \/ /\ renewMu \in Tunnel /\ call[renewMu].pc = "renew"
              /\ renewMu' = NoProc
              /\ call' \in [Tunnel -> CallState] /\ call'[renewMu].pc = "acquire"
              /\ \A u \in Tunnel \ {renewMu} : call'[u] = call[u]
  <1>1. CASE UNCHANGED call
    BY <1>1
  <1>2. ASSUME NEW r, Unlock(r), ~ UNCHANGED call
        PROVE  /\ renewMu \in Tunnel /\ call[renewMu].pc = "renew" /\ renewMu' = NoProc
               /\ call' \in [Tunnel -> CallState] /\ call'[renewMu].pc = "acquire"
               /\ \A u \in Tunnel \ {renewMu} : call'[u] = call[u]
    <2>1. renewMu \in Tunnel /\ NextAttempt(renewMu) /\ renewMu' = NoProc
      BY <1>2 DEF Unlock
    <2>2. call[renewMu].pc = "renew" /\ call[renewMu].attempt < MaxRetries
      BY <2>1 DEF WorkInv, CallInv
    <2>3. call \in [Tunnel -> CallState]
      BY Types
    <2> QED
      BY <2>1, <2>2, <2>3, CallsMove
  <1>3. CASE WorkStep
    <2>1. UNCHANGED call \/ \E r : Unlock(r)
      BY <1>3
      DEF WorkStep, WorkFails, HaveOAuthToken, FetchPass, FetchForbidden, Activate,
          UpdateToken, UpdateImpossible, CreateSession, SwapSession, RejectSwap,
          ReadStatus, WriteStatus, WorkTo
    <2> QED
      BY <1>2, <2>1
  <1>4. CASE LoopStep \/ CloserStep \/ Panic \/ Tick
    BY <1>1, <1>4 DEF LoopStep, CloserStep, Panic, Tick
  <1> QED
    BY <1>3, <1>4

-----------------------------------------------------------------------------
(* Types and ownership.                                                    *)

HoldersFinite ==
    \A m : IsFiniteSet(Holders(m)) /\ Cardinality(Holders(m)) \in Nat

LEMMA HoldersAreFinite == HoldersFinite
  <1>1. ASSUME NEW m
        PROVE  IsFiniteSet(Holders(m))
    <2>1. Holders(m) \subseteq Tunnel
      BY DEF Holders
    <2> QED
      BY <2>1, TunnelAssumption, FS_Subset
  <1> QED
    BY <1>1, FS_CardinalityType DEF HoldersFinite

\* A holder is counted, and the new session has none.
LEMMA HeldIsCounted ==
    ASSUME CallInv, WorkInv, RefsMatchHolders, NEW t \in Tunnel, call[t].pc \in HolderPC
    PROVE  /\ call[t].held \in Managed
           /\ ms[call[t].held].refs > 0
           /\ call[t].held # work.fresh
  <1>1. call[t].held \in Managed
    BY DEF CallInv
  <1>2. t \in Holders(call[t].held)
    BY DEF Holders, HolderPC
  <1>3. Cardinality(Holders(call[t].held)) > 0
    BY <1>2, HoldersAreFinite, FS_EmptySet DEF HoldersFinite
  <1>4. ms[call[t].held].refs > 0
    BY <1>1, <1>3 DEF RefsMatchHolders
  <1> QED
    BY <1>1, <1>4, NilAssumption DEF WorkInv

LEMMA SessionsTyped ==
    ASSUME TypeOK, CallInv, WorkInv, RefsMatchHolders, [Next]_vars
    PROVE  current' \in Managed /\ ms' \in [Managed -> SessionState]
  <1>1. current \in Managed /\ ms \in [Managed -> SessionState] /\ work \in WorkState
    BY Types
  <1>2. CASE UNCHANGED <<ms, current>>
    BY <1>1, <1>2
  <1>3. ASSUME NEW t \in Tunnel, Acquire(t)
        PROVE  current' \in Managed /\ ms' \in [Managed -> SessionState]
    BY <1>1, <1>3, HelpersDo DEF Acquire
  <1>4. ASSUME NEW t \in Tunnel, call[t].pc \in {"opening", "release", "held"},
               ms' = Released(call[t].held), UNCHANGED current
        PROVE  current' \in Managed /\ ms' \in [Managed -> SessionState]
    <2>1. call[t].held \in Managed /\ ms[call[t].held].refs > 0
      BY <1>4, HeldIsCounted DEF HolderPC
    <2> QED
      BY <1>1, <1>4, <2>1, HelpersDo
  <1>5. CASE ms' = Disabled(current) /\ UNCHANGED current
    BY <1>1, <1>5, HelpersDo
  <1>6. CASE CreateSession
    <2>1. PICK m \in Managed :
            ms' = [ms EXCEPT ![m] = [attached |-> TRUE, accepting |-> FALSE, refs |-> 0]]
      BY <1>6 DEF CreateSession
    <2> QED
      BY <1>1, <1>6, <2>1 DEF CreateSession, SessionState
  <1>7. CASE SwapSession
    <2>1. work.fresh \in Managed
      BY <1>7 DEF SwapSession, WorkInv
    <2>2. Disabled(current) \in [Managed -> SessionState]
      BY <1>1, HelpersDo
    <2> QED
      BY <1>7, <2>1, <2>2 DEF SwapSession, SessionState
  <1>8. CASE RejectSwap
    BY <1>1, <1>8 DEF RejectSwap, SessionState
  <1>9. CASE CloseCurrent /\ UNCHANGED current
    <2>1. ms' = [ms EXCEPT ![current] = [ms[current] EXCEPT !.accepting = FALSE,
                                                          !.attached = FALSE]]
      BY <1>1, <1>9 DEF CloseCurrent, SessionState
    <2>2. [ms[current] EXCEPT !.accepting = FALSE, !.attached = FALSE] \in SessionState
      BY <1>1 DEF SessionState
    <2> QED
      BY <1>1, <1>9, <2>1, <2>2
  <1> QED
    BY <1>2, <1>3, <1>4, <1>5, <1>6, <1>7, <1>8, <1>9, StepsOfSessions

LEMMA CallsTyped ==
    ASSUME TypeOK, CallInv, WorkInv, AcceptInv, [Next]_vars
    PROVE  call' \in [Tunnel -> CallState] /\ CallInv'
  <1>1. call \in [Tunnel -> CallState]
    BY Types
  <1>2. ASSUME NEW t \in Tunnel, CallStep(t)
        PROVE  call' \in [Tunnel -> CallState] /\ CallInv'
    BY <1>2, CallStepMoves DEF CallInv
  <1>3. CASE WorkStep \/ LoopStep \/ CloserStep \/ Panic \/ Tick
    BY <1>1, <1>3, OtherStepsMove DEF CallInv, HolderPC
  <1>4. CASE UNCHANGED vars
    BY <1>1, <1>4 DEF vars, CallInv
  <1> QED
    BY <1>2, <1>3, <1>4 DEF Next

LEMMA EarlierTyped == \A t \in Time : Earlier(t) \in Time
  BY DEF Earlier, Time

\* The rest of TypeOK.
\* Who changes the history variable, and how.
LEMMA BlameMoves ==
    ASSUME TypeOK, [Next]_vars
    PROVE  /\ \/ UNCHANGED blamed
              \/ SwapSession /\ blamed' = FALSE
              \/ \E t \in Tunnel : /\ OpenBroken(t) /\ UNCHANGED current
                                   /\ blamed' = (blamed \/ call[t].held = current)
           /\ blamed' \in BOOLEAN
  <1>1. blamed \in BOOLEAN
    BY Types
  <1>2. \/ UNCHANGED blamed
        \/ SwapSession /\ blamed' = FALSE
        \/ \E t \in Tunnel : /\ OpenBroken(t) /\ UNCHANGED current
                             /\ blamed' = (blamed \/ call[t].held = current)
    <2>1. ASSUME NEW t \in Tunnel, CallStep(t)
          PROVE  \/ UNCHANGED blamed
                 \/ /\ OpenBroken(t) /\ UNCHANGED current
                    /\ blamed' = (blamed \/ call[t].held = current)
      BY <2>1, Zenon DEF CallStep, OpenBroken
    <2>2. CASE WorkStep
      BY <2>2, Zenon DEF WorkStep, SwapSession
    <2>3. CASE LoopStep \/ CloserStep \/ Panic \/ Tick \/ UNCHANGED vars
      BY <2>3, Zenon DEF LoopStep, CloserStep, Panic, Tick, vars
    <2> QED
      BY <2>1, <2>2, <2>3, Zenon DEF Next
  <1>3. blamed' \in BOOLEAN
    BY <1>1, <1>2, Zenon
  <1> QED
    BY <1>2, <1>3, Zenon

LEMMA TypeOKNext ==
    ASSUME TypeOK, CallInv, WorkInv, AcceptInv, RefsMatchHolders, [Next]_vars
    PROVE  TypeOK'
  <1> DEFINE rest == /\ ttl' \in Time /\ closed' \in BOOLEAN
                     /\ renewMu' \in Tunnel \union {Renewal, NoProc}
                     /\ work' \in WorkState
                     /\ renewer' \in RenewerPC
                     /\ loop' \in [pc : LoopPC, timer : Nat, snap : Time]
                     /\ closer' \in [pc : CloserPC, snap : Time]
                     /\ file' \in Time /\ exited' \in BOOLEAN
  <1>1. /\ ttl \in Time /\ closed \in BOOLEAN
        /\ renewMu \in Tunnel \union {Renewal, NoProc}
        /\ work \in WorkState
        /\ renewer \in RenewerPC
        /\ loop \in [pc : LoopPC, timer : Nat, snap : Time]
        /\ closer \in [pc : CloserPC, snap : Time]
        /\ file \in Time /\ exited \in BOOLEAN
        /\ ms \in [Managed -> SessionState] /\ current \in Managed
    BY Types
  <1>2. IdleWork \in WorkState /\ -1 \in Time
    BY DEF IdleWork, WorkState, WorkPC, Time
  <1>3. \A l \in WorkPC : [work EXCEPT !.pc = l] \in WorkState
    BY <1>1 DEF WorkState
  <1>4. \A p \in Tunnel \union {Renewal} :
          StartWork(p) => /\ renewMu' \in Tunnel \union {Renewal, NoProc}
                          /\ work' \in WorkState
    BY <1>2 DEF StartWork, WorkState, WorkPC
  <1>5. \A l \in WorkPC : WorkTo(l) => /\ renewMu' \in Tunnel \union {Renewal, NoProc}
                                       /\ work' \in WorkState /\ renewer' \in RenewerPC
    BY <1>1, <1>3 DEF WorkTo
  <1>6. \A r \in {"ok", "error"} :
          Unlock(r) => /\ renewMu' \in Tunnel \union {Renewal, NoProc}
                       /\ work' \in WorkState /\ renewer' \in RenewerPC
    BY <1>1, <1>2 DEF Unlock, RenewerPC
  <1>7. ASSUME NEW t \in Tunnel, CallStep(t)
        PROVE  rest
    <2>1. CASE Rebuild(t)
      BY <1>1, <1>4, <1>7, <2>1 DEF CallStep, Rebuild
    <2>2. CASE ~ Rebuild(t)
      BY <1>1, <1>7, <2>2
      DEF CallStep, StartCall, Acquire, AcquireFails, CheckClosed, CallSession, OpenSucceeds,
          OpenTargetError, OpenBroken, ReleaseFailed, CloseTunnel, renewVars
    <2> QED
      BY <2>1, <2>2
  <1>8. ASSUME WorkStep
        PROVE  rest
    <2>1. /\ Lifetimes \subseteq Time
          /\ Updatable \in BOOLEAN
      <3>1. ms[current] \in SessionState
        BY <1>1
      <3> QED
        BY <1>1, <3>1, TimeAssumption DEF Time, Updatable, NotBeforeExpiry, SessionState
    <2>2. CASE WorkFails \/ RejectSwap \/ WriteStatus
      BY <1>1, <1>6, <1>8, <2>2 DEF WorkStep, WorkFails, RejectSwap, WriteStatus, WorkState
    <2>3. CASE HaveOAuthToken \/ FetchForbidden \/ Activate \/ UpdateToken
      BY <1>1, <1>5, <1>8, <2>3
      DEF WorkStep, HaveOAuthToken, FetchForbidden, Activate, UpdateToken, WorkPC, WorkState
    <2>4. CASE FetchPass \/ UpdateImpossible
      BY <1>1, <1>8, <2>1, <2>4
      DEF WorkStep, FetchPass, UpdateImpossible, WorkPC, WorkState
    <2>5. CASE CreateSession \/ SwapSession \/ ReadStatus
      BY <1>1, <1>8, <2>5
      DEF WorkStep, CreateSession, SwapSession, ReadStatus, WorkPC, WorkState
    <2> QED
      BY <1>8, <2>2, <2>3, <2>4, <2>5 DEF WorkStep
  <1>9. ASSUME LoopStep
        PROVE  rest
    <2>1. RenewalDelay \in Nat /\ {Patience, RetryDelay, 0} \subseteq Nat
      BY <1>1, TimeAssumption DEF RenewalDelay, Time
    <2>2. CASE RenewerLocks
      BY <1>1, <1>4, <1>9, <2>2 DEF LoopStep, RenewerLocks, RenewerPC
    <2>3. CASE LoopTop \/ LoopWakes \/ LoopResult
      BY <1>1, <1>9, <2>1, <2>3
      DEF LoopStep, LoopTop, LoopWakes, LoopResult, AfterResult, LoopPC, RenewerPC, renewVars
    <2>4. CASE LoopTimesOut \/ DisableExpired \/ LoopReadsStatus
      BY <1>1, <1>9, <2>1, <2>4
      DEF LoopStep, LoopTimesOut, DisableExpired, LoopReadsStatus, LoopPC, renewVars
    <2>5. CASE LoopWritesStatus \/ LoopRetries
      BY <1>1, <1>2, <1>9, <2>1, <2>5
      DEF LoopStep, LoopWritesStatus, LoopRetries, LoopPC, renewVars
    <2>6. CASE LoopInterrupted
      <3>1. \A l \in LoopPC :
              [loop EXCEPT !.pc = l, !.timer = 0] \in [pc : LoopPC, timer : Nat, snap : Time]
        BY <1>1
      <3>2. loop' \in [pc : LoopPC, timer : Nat, snap : Time]
        BY <2>6, <3>1, Zenon DEF LoopInterrupted, LoopPC
      <3> QED
        BY <1>1, <1>9, <2>6, <3>2 DEF LoopStep, LoopInterrupted, renewVars
    <2> QED
      BY <1>9, <2>2, <2>3, <2>4, <2>5, <2>6 DEF LoopStep
  <1>10. ASSUME CloserStep
        PROVE  rest
    <2>1. /\ \A l \in CloserPC : [closer EXCEPT !.pc = l] \in [pc : CloserPC, snap : Time]
          /\ UNCHANGED <<ttl, renewMu, work, renewer, loop, exited>>
      BY <1>1, <1>10 DEF CloserStep, renewVars
    <2>2. CASE CloseDone \/ CloseCurrent
      <3>1. /\ closer' \in [pc : CloserPC, snap : Time]
            /\ UNCHANGED file /\ closed' \in {closed, TRUE}
        BY <2>1, <2>2, Zenon DEF CloseDone, CloseCurrent, CloserPC
      <3> QED
        BY <1>1, <2>1, <3>1
    <2>3. CASE CloseReadsStatus \/ CloseWritesStatus
      BY <1>1, <1>2, <2>1, <2>3 DEF CloseReadsStatus, CloseWritesStatus, CloserPC
    <2> QED
      BY <1>10, <2>2, <2>3 DEF CloserStep
  <1>11. ASSUME Tick
        PROVE  rest
    <2>1. loop' \in [pc : LoopPC, timer : Nat, snap : Time]
      <3>1. (IF loop.timer = 0 THEN 0 ELSE loop.timer - 1) \in Nat
        BY <1>1
      <3>2. \A n \in Nat, e \in Time :
              [loop EXCEPT !.timer = n, !.snap = e] \in [pc : LoopPC, timer : Nat, snap : Time]
        BY <1>1
      <3> QED
        BY <1>1, <1>11, <3>1, <3>2, EarlierTyped, Zenon DEF Tick
    <2>2. work' \in WorkState /\ closer' \in [pc : CloserPC, snap : Time]
      <3>1. \A p \in Time, e \in Time : [work EXCEPT !.pass = p, !.snap = e] \in WorkState
        BY <1>1 DEF WorkState
      <3>2. work.pass \in Time /\ work.snap \in Time
        BY <1>1 DEF WorkState
      <3> QED
        BY <1>1, <1>11, <3>1, <3>2, EarlierTyped DEF Tick
    <2> QED
      BY <1>1, <1>11, <2>1, <2>2, EarlierTyped DEF Tick
  <1>12. ASSUME Panic \/ UNCHANGED vars
        PROVE  rest
    BY <1>1, <1>12 DEF Panic, NilSession, vars, renewVars
  <1>13. rest
    BY <1>7, <1>8, <1>9, <1>10, <1>11, <1>12 DEF Next
  <1> QED
    BY <1>13, Types, BlameMoves, SessionsTyped, CallsTyped

-----------------------------------------------------------------------------
(* References.                                                             *)

\* A call takes a session, gives one back, or goes on with what it holds.
LEMMA CallStepHolds ==
    ASSUME TypeOK, NEW t \in Tunnel, CallStep(t)
    PROVE  \/ /\ Acquire(t) /\ call[t].pc \notin HolderPC
              /\ call'[t].pc \in HolderPC /\ call'[t].held = current
           \/ /\ call[t].pc \in HolderPC /\ call'[t].pc \notin HolderPC
              /\ ms' = Released(call[t].held)
           \/ /\ call'[t].pc \in HolderPC <=> call[t].pc \in HolderPC
              /\ call[t].pc \in HolderPC => call'[t].held = call[t].held
              /\ UNCHANGED ms \/ ms' = Disabled(current)
  <1>1. call \in [Tunnel -> CallState] /\ call[t] \in CallState
    BY Types
  <1>2. /\ \A l \in CallPC : Goto(t, l) => call'[t].pc = l /\ call'[t].held = call[t].held
        /\ Return(t) => call'[t].pc = "idle"
    <2>1. ASSUME NEW l \in CallPC, Goto(t, l)
          PROVE  call'[t].pc = l /\ call'[t].held = call[t].held
      <3>1. call'[t] = [call[t] EXCEPT !.pc = l]
        BY <1>1, <2>1, CallsMove
      <3> QED
        BY <1>1, <3>1 DEF CallState
    <2> QED
      BY <1>1, <2>1, CallsMove DEF IdleCall
  <1>3. CASE Acquire(t)
    <2>1. call'[t] = [call[t] EXCEPT !.pc = "open", !.held = current]
      BY <1>1, <1>3 DEF Acquire
    <2> QED
      BY <1>1, <1>3, <2>1 DEF Acquire, HolderPC, CallState
  <1>4. CASE OpenTargetError(t)
    BY <1>2, <1>4 DEF OpenTargetError, HolderPC, CallPC
  <1>5. CASE ReleaseFailed(t)
    BY <1>2, <1>5 DEF ReleaseFailed, RetryOrReturn, HolderPC, CallPC
  <1>6. CASE CloseTunnel(t)
    BY <1>2, <1>6 DEF CloseTunnel, ReleasedByClose, HolderPC, CallPC
  <1>7. CASE StartCall(t) \/ AcquireFails(t) \/ CallSession(t) \/ OpenSucceeds(t) \/ OpenBroken(t)
    BY <1>2, <1>7
    DEF StartCall, AcquireFails, CallSession, OpenSucceeds, OpenBroken, MarkedUnusable,
        HolderPC, CallPC
  <1>8. CASE CheckClosed(t)
    BY <1>2, <1>8 DEF CheckClosed, RetryOrReturn, HolderPC, CallPC
  <1>9. CASE Rebuild(t)
    <2>1. NextAttempt(t) => call'[t].pc = "acquire"
      BY <1>1 DEF NextAttempt
    <2> QED
      BY <1>2, <1>9, <2>1 DEF Rebuild, HolderPC, CallPC
  <1> QED
    BY <1>3, <1>4, <1>5, <1>6, <1>7, <1>8, <1>9 DEF CallStep

\* No other step touches a reference count.
LEMMA OtherStepsKeepRefs ==
    ASSUME TypeOK, WorkInv, WorkStep \/ LoopStep \/ CloserStep \/ Panic \/ Tick,
           NEW m \in Managed
    PROVE  ms'[m].refs = ms[m].refs
  <1>1. current \in Managed /\ ms \in [Managed -> SessionState]
    BY Types
  <1>2. Disabled(current)[m].refs = ms[m].refs
    BY <1>1, HelpersDo
  <1>3. CASE WorkStep
    <2>1. CASE CreateSession
      <3>1. PICK n \in Managed :
              /\ Unreferenced(n)
              /\ ms' = [ms EXCEPT ![n] = [attached |-> TRUE, accepting |-> FALSE, refs |-> 0]]
        BY <2>1 DEF CreateSession
      <3> QED
        BY <1>1, <3>1 DEF Unreferenced
    <2>2. CASE SwapSession
      <3>1. work.fresh \in Managed
        BY <2>2 DEF SwapSession, WorkInv
      <3>2. Disabled(current) \in [Managed -> SessionState]
        BY <1>1, HelpersDo
      <3> QED
        BY <1>2, <2>2, <3>1, <3>2 DEF SwapSession, SessionState
    <2>3. CASE RejectSwap
      BY <1>1, <2>3 DEF RejectSwap, SessionState
    <2>4. CASE ~ (CreateSession \/ SwapSession \/ RejectSwap)
      BY <1>3, <2>4
      DEF WorkStep, WorkFails, HaveOAuthToken, FetchPass, FetchForbidden, Activate,
          UpdateToken, UpdateImpossible, ReadStatus, WriteStatus
    <2> QED
      BY <2>1, <2>2, <2>3, <2>4
  <1>4. CASE LoopStep
    <2>1. UNCHANGED ms \/ ms' = Disabled(current)
      BY <1>4
      DEF LoopStep, LoopTop, LoopWakes, RenewerLocks, LoopResult, LoopTimesOut,
          DisableExpired, LoopReadsStatus, LoopWritesStatus, LoopRetries, LoopInterrupted
    <2> QED
      BY <1>2, <2>1
  <1>5. CASE CloserStep
    BY <1>1, <1>5
    DEF CloserStep, CloseDone, CloseCurrent, CloseReadsStatus, CloseWritesStatus, SessionState
  <1>6. CASE Panic \/ Tick
    BY <1>6 DEF Panic, Tick
  <1> QED
    BY <1>3, <1>4, <1>5, <1>6

LEMMA RefsNext ==
    ASSUME TypeOK, CallInv, WorkInv, AcceptInv, RefsMatchHolders, [Next]_vars
    PROVE  RefsMatchHolders'
  <1> SUFFICES ASSUME NEW m \in Managed
               PROVE  ms'[m].refs = Cardinality(Holders(m)')
    BY DEF RefsMatchHolders
  <1>1. /\ ms[m].refs = Cardinality(Holders(m))
        /\ IsFiniteSet(Holders(m)) /\ Cardinality(Holders(m)) \in Nat
    BY HoldersAreFinite DEF RefsMatchHolders, HoldersFinite
  <1>2. current \in Managed /\ ms \in [Managed -> SessionState]
    BY Types
  <1>3. ASSUME NEW t \in Tunnel, CallStep(t)
        PROVE  ms'[m].refs = Cardinality(Holders(m)')
    <2>1. \A u \in Tunnel \ {t} : call'[u] = call[u]
      BY <1>3, CallStepMoves
    <2>2. CASE /\ Acquire(t) /\ call[t].pc \notin HolderPC
               /\ call'[t].pc \in HolderPC /\ call'[t].held = current
      <3>1. CASE m = current
        <4>1. Holders(m)' = Holders(m) \union {t} /\ t \notin Holders(m)
          BY <2>1, <2>2, <3>1 DEF Holders, HolderPC
        <4>2. Cardinality(Holders(m)') = Cardinality(Holders(m)) + 1
          BY <1>1, <4>1, FS_AddElement
        <4>3. ms'[m].refs = ms[m].refs + 1
          BY <1>2, <2>2, <3>1, HelpersDo DEF Acquire
        <4> QED
          BY <1>1, <4>2, <4>3
      <3>2. CASE m # current
        <4>1. Holders(m)' = Holders(m)
          BY <2>1, <2>2, <3>2 DEF Holders, HolderPC
        <4>2. ms'[m] = ms[m]
          BY <1>2, <2>2, <3>2, HelpersDo DEF Acquire
        <4> QED
          BY <1>1, <4>1, <4>2
      <3> QED
        BY <3>1, <3>2
    <2>3. CASE /\ call[t].pc \in HolderPC /\ call'[t].pc \notin HolderPC
               /\ ms' = Released(call[t].held)
      <3>1. call[t].held \in Managed
        BY <2>3, HeldIsCounted
      <3>2. CASE m = call[t].held
        <4>1. Holders(m)' = Holders(m) \ {t} /\ t \in Holders(m)
          BY <2>1, <2>3, <3>2 DEF Holders, HolderPC
        <4>2. Cardinality(Holders(m)') = Cardinality(Holders(m)) - 1
          BY <1>1, <4>1, FS_RemoveElement
        <4>3. ms'[m].refs = ms[m].refs - 1
          BY <1>2, <2>3, <3>2, HelpersDo
        <4> QED
          BY <1>1, <4>2, <4>3
      <3>3. CASE m # call[t].held
        <4>1. Holders(m)' = Holders(m)
          BY <2>1, <2>3, <3>3 DEF Holders, HolderPC
        <4>2. ms'[m] = ms[m]
          BY <1>2, <2>3, <3>1, <3>3, HelpersDo
        <4> QED
          BY <1>1, <4>1, <4>2
      <3> QED
        BY <3>2, <3>3
    <2>4. CASE /\ call'[t].pc \in HolderPC <=> call[t].pc \in HolderPC
               /\ call[t].pc \in HolderPC => call'[t].held = call[t].held
               /\ UNCHANGED ms \/ ms' = Disabled(current)
      <3>1. Holders(m)' = Holders(m)
        BY <2>1, <2>4 DEF Holders, HolderPC
      <3>2. ms'[m].refs = ms[m].refs
        <4>1. Disabled(current)[m].refs = ms[m].refs
          BY <1>2, HelpersDo
        <4> QED
          BY <2>4, <4>1
      <3> QED
        BY <1>1, <3>1, <3>2
    <2> QED
      BY <1>3, <2>2, <2>3, <2>4, CallStepHolds
  <1>4. CASE WorkStep \/ LoopStep \/ CloserStep \/ Panic \/ Tick
    <2>1. Holders(m)' = Holders(m)
      BY <1>4, OtherStepsMove DEF Holders
    <2> QED
      BY <1>1, <1>4, <2>1, OtherStepsKeepRefs
  <1>5. CASE UNCHANGED vars
    BY <1>1, <1>5 DEF vars, Holders
  <1> QED
    BY <1>3, <1>4, <1>5 DEF Next

-----------------------------------------------------------------------------
(* The new session of renewLocked, and the current one.                    *)

\* The new session appears with CreateSession and leaves with the swap.
LEMMA WorkMoves ==
    ASSUME TypeOK, WorkInv, [Next]_vars
    PROVE  \/ work'.fresh = work.fresh /\ (work'.pc = "swap" <=> work.pc = "swap")
           \/ /\ work'.fresh = NoManaged /\ work'.pc # "swap"
              /\ work.pc = "swap" => SwapSession \/ RejectSwap
           \/ CreateSession
  <1>1. work \in WorkState
    BY Types
  <1>2. IdleWork.fresh = NoManaged /\ IdleWork.pc # "swap"
    BY DEF IdleWork
  <1>3. \A p : StartWork(p) => work'.fresh = NoManaged /\ work'.pc # "swap"
    BY DEF StartWork, IdleWork
  <1>4. ASSUME NEW t \in Tunnel, CallStep(t)
        PROVE  \/ UNCHANGED work
               \/ work'.fresh = NoManaged /\ work'.pc # "swap" /\ RenewMuFree
    BY <1>3, <1>4
    DEF CallStep, StartCall, Acquire, AcquireFails, CheckClosed, CallSession, OpenSucceeds,
        OpenTargetError, OpenBroken, ReleaseFailed, CloseTunnel, Rebuild, renewVars
  <1>5. CASE WorkStep
    <2>1. CASE WorkFails \/ RejectSwap \/ WriteStatus
      <3>1. work' = IdleWork
        BY <2>1 DEF WorkFails, RejectSwap, WriteStatus, Unlock
      <3>2. work.pc = "swap" => RejectSwap
        BY <2>1 DEF WorkFails, WriteStatus
      <3> QED
        BY <1>2, <3>1, <3>2
    <2>2. CASE HaveOAuthToken \/ FetchForbidden \/ Activate \/ UpdateToken
      BY <1>1, <2>2 DEF HaveOAuthToken, FetchForbidden, Activate, UpdateToken, WorkTo, WorkState
    <2>3. CASE FetchPass \/ UpdateImpossible \/ ReadStatus
      BY <1>1, <2>3 DEF FetchPass, UpdateImpossible, ReadStatus, WorkState
    <2>4. CASE SwapSession
      BY <1>1, <2>4 DEF SwapSession, WorkState
    <2> QED
      BY <1>5, <2>1, <2>2, <2>3, <2>4 DEF WorkStep
  <1>6. ASSUME LoopStep
        PROVE  \/ UNCHANGED work
               \/ work'.fresh = NoManaged /\ work'.pc # "swap" /\ RenewMuFree
    BY <1>3, <1>6
    DEF LoopStep, LoopTop, LoopWakes, RenewerLocks, LoopResult, LoopTimesOut, DisableExpired,
        LoopReadsStatus, LoopWritesStatus, LoopRetries, LoopInterrupted, renewVars
  <1>7. CASE Tick
    BY <1>1, <1>7 DEF Tick, WorkState
  <1>8. CASE CloserStep \/ Panic \/ UNCHANGED vars
    BY <1>8 DEF CloserStep, Panic, vars, renewVars
  <1> QED
    BY <1>4, <1>5, <1>6, <1>7, <1>8 DEF Next, WorkInv

\* CreateSession and SwapSession, session by session.
LEMMA NewSessionSteps ==
    ASSUME TypeOK, WorkInv
    PROVE  /\ CreateSession => \E m \in Managed :
                /\ Unreferenced(m) /\ work'.fresh = m /\ work'.pc = "swap"
                /\ ms'[m] = [attached |-> TRUE, accepting |-> FALSE, refs |-> 0]
                /\ \A u \in Managed \ {m} : ms'[u] = ms[u]
                /\ work.fresh = NoManaged /\ work'.refused = work.refused
           /\ SwapSession =>
                /\ work.fresh \in Managed \ {current} /\ current' = work.fresh
                /\ work'.fresh = NoManaged /\ work'.pc = "status"
                /\ ms'[work.fresh] = [ms[work.fresh] EXCEPT !.accepting = TRUE]
                /\ \A u \in Managed \ {work.fresh} : ms'[u] = Disabled(current)[u]
           /\ RejectSwap =>
                /\ work.fresh \in Managed \ {current}
                /\ ms'[work.fresh] = [ms[work.fresh] EXCEPT !.attached = FALSE]
                /\ \A u \in Managed \ {work.fresh} : ms'[u] = ms[u]
                /\ work'.fresh = NoManaged /\ work'.pc = "none"
           /\ CloseCurrent =>
                /\ ms'[current].refs = ms[current].refs
                /\ ~ ms'[current].attached /\ ~ ms'[current].accepting
                /\ \A u \in Managed \ {current} : ms'[u] = ms[u]
                /\ closed' /\ closer.pc # "none"
  <1>1. /\ current \in Managed /\ ms \in [Managed -> SessionState] /\ work \in WorkState
        /\ Disabled(current) \in [Managed -> SessionState]
    BY Types, HelpersDo
  <1>2. ASSUME CreateSession
        PROVE  \E m \in Managed :
                 /\ Unreferenced(m) /\ work'.fresh = m /\ work'.pc = "swap"
                 /\ ms'[m] = [attached |-> TRUE, accepting |-> FALSE, refs |-> 0]
                 /\ \A u \in Managed \ {m} : ms'[u] = ms[u]
                 /\ work.fresh = NoManaged /\ work'.refused = work.refused
    <2>1. work.fresh = NoManaged
      BY <1>2 DEF CreateSession, WorkInv
    <2>2. PICK m \in Managed :
            /\ Unreferenced(m)
            /\ ms' = [ms EXCEPT ![m] = [attached |-> TRUE, accepting |-> FALSE, refs |-> 0]]
            /\ work' = [work EXCEPT !.pc = "swap", !.fresh = m]
      BY <1>2 DEF CreateSession
    <2>3. work'.fresh = m /\ work'.pc = "swap" /\ work'.refused = work.refused
      BY <1>1, <2>2 DEF WorkState
    <2> QED
      BY <1>1, <2>1, <2>2, <2>3
  <1>3. ASSUME SwapSession
        PROVE  /\ work.fresh \in Managed \ {current} /\ current' = work.fresh
               /\ work'.fresh = NoManaged /\ work'.pc = "status"
               /\ ms'[work.fresh] = [ms[work.fresh] EXCEPT !.accepting = TRUE]
               /\ \A u \in Managed \ {work.fresh} : ms'[u] = Disabled(current)[u]
    <2>1. work.fresh \in Managed \ {current} /\ current' = work.fresh
      BY <1>3 DEF SwapSession, WorkInv
    <2>2. work'.fresh = NoManaged /\ work'.pc = "status"
      BY <1>1, <1>3 DEF SwapSession, WorkState
    <2>3. Disabled(current)[work.fresh] = ms[work.fresh]
      BY <1>1, <2>1, HelpersDo
    <2> QED
      BY <1>1, <1>3, <2>1, <2>2, <2>3 DEF SwapSession
  <1>4. ASSUME RejectSwap
        PROVE  /\ work.fresh \in Managed \ {current}
               /\ ms'[work.fresh] = [ms[work.fresh] EXCEPT !.attached = FALSE]
               /\ \A u \in Managed \ {work.fresh} : ms'[u] = ms[u]
               /\ work'.fresh = NoManaged /\ work'.pc = "none"
    <2>1. work.fresh \in Managed \ {current}
      BY <1>4 DEF RejectSwap, WorkInv
    <2>2. work'.fresh = NoManaged /\ work'.pc = "none"
      BY <1>4 DEF RejectSwap, Unlock, IdleWork
    <2> QED
      BY <1>1, <1>4, <2>1, <2>2 DEF RejectSwap
  <1>5. ASSUME CloseCurrent
        PROVE  /\ ms'[current].refs = ms[current].refs
               /\ ~ ms'[current].attached /\ ~ ms'[current].accepting
               /\ \A u \in Managed \ {current} : ms'[u] = ms[u]
               /\ closed' /\ closer.pc # "none"
    <2>1. ms' = [ms EXCEPT ![current] = [ms[current] EXCEPT !.accepting = FALSE,
                                                          !.attached = FALSE]]
      BY <1>1, <1>5 DEF CloseCurrent, SessionState
    <2> QED
      BY <1>1, <1>5, <2>1 DEF CloseCurrent, SessionState
  <1> QED
    BY <1>2, <1>3, <1>4, <1>5

\* What a step leaves of each session: every invariant below follows from this.
LEMMA SessionMoves ==
    ASSUME TypeOK, CallInv, WorkInv, AcceptInv, RefsMatchHolders, [Next]_vars,
           NEW m \in Managed
    PROVE  \/ ms'[m] = ms[m]
           \/ /\ ms'[m].refs > 0
              /\ ms'[m].accepting = ms[m].accepting /\ ms'[m].attached = ms[m].attached
              /\ m = current
           \/ /\ ms[m].refs > 0 /\ ms'[m].refs = ms[m].refs - 1
              /\ ms'[m].accepting = ms[m].accepting
              /\ ms'[m].attached <=> ms[m].attached /\ (ms[m].accepting \/ ms'[m].refs > 0)
           \/ /\ m = current /\ ~ ms'[m].accepting /\ ms'[m].refs = ms[m].refs
              /\ ms'[m].attached => ms[m].attached /\ ms'[m].refs > 0
           \/ /\ m # current /\ m = work'.fresh /\ work'.pc = "swap"
              /\ ms'[m].refs = 0 /\ ms'[m].attached /\ ~ ms'[m].accepting
           \/ /\ m = current' /\ ~ closed'
              /\ ms'[m].attached /\ ms'[m].accepting
           \/ ~ ms'[m].attached /\ ~ ms'[m].accepting /\ m # current
  <1>1. current \in Managed /\ ms \in [Managed -> SessionState] /\ ms[m] \in SessionState
    BY Types
  <1>2. CASE UNCHANGED <<ms, current>>
    BY <1>2
  <1>3. ASSUME NEW t \in Tunnel, Acquire(t)
        PROVE  \/ ms'[m] = ms[m]
               \/ /\ ms'[m].refs > 0
                  /\ ms'[m].accepting = ms[m].accepting /\ ms'[m].attached = ms[m].attached
                  /\ m = current
    <2>1. ms' = Acquired(current) /\ ms[m].refs \in Nat
      BY <1>1, <1>3 DEF Acquire, SessionState
    <2>2. m # current => ms'[m] = ms[m]
      BY <1>1, <2>1, HelpersDo
    <2>3. m = current => /\ ms'[m].refs = ms[m].refs + 1
                         /\ ms'[m].accepting = ms[m].accepting
                         /\ ms'[m].attached = ms[m].attached
      BY <1>1, <2>1, HelpersDo
    <2> QED
      BY <2>1, <2>2, <2>3
  <1>4. ASSUME NEW t \in Tunnel, call[t].pc \in {"opening", "release", "held"},
               ms' = Released(call[t].held)
        PROVE  \/ ms'[m] = ms[m]
               \/ /\ ms[m].refs > 0 /\ ms'[m].refs = ms[m].refs - 1
                  /\ ms'[m].accepting = ms[m].accepting
                  /\ ms'[m].attached <=> ms[m].attached /\ (ms[m].accepting \/ ms'[m].refs > 0)
    <2>1. call[t].held \in Managed /\ ms[call[t].held].refs > 0
      BY <1>4, HeldIsCounted DEF HolderPC
    <2>2. m # call[t].held => ms'[m] = ms[m]
      BY <1>1, <1>4, <2>1, HelpersDo
    <2>3. m = call[t].held =>
            /\ ms'[m].refs = ms[m].refs - 1
            /\ ms'[m].accepting = ms[m].accepting
            /\ ms'[m].attached <=> ms[m].attached /\ (ms[m].accepting \/ ms[m].refs - 1 > 0)
      BY <1>1, <1>4, <2>1, HelpersDo
    <2> QED
      BY <2>1, <2>2, <2>3
  <1>5. \/ Disabled(current)[m] = ms[m]
        \/ /\ m = current /\ ~ Disabled(current)[m].accepting
           /\ Disabled(current)[m].refs = ms[m].refs
           /\ Disabled(current)[m].attached => ms[m].attached /\ Disabled(current)[m].refs > 0
    BY <1>1, HelpersDo
  <1>6. CASE ms' = Disabled(current)
    BY <1>5, <1>6
  <1>7. CASE CreateSession
    BY <1>7, NewSessionSteps DEF Unreferenced
  <1>8. CASE SwapSession
    <2>1. ~ closed'
      BY <1>8 DEF SwapSession, SwapRejected
    <2>2. CASE m = work.fresh
      <3>1. ms[m].attached
        BY <1>8, <2>2 DEF WorkInv, SwapSession
      <3>2. ms'[m].attached /\ ms'[m].accepting /\ m = current'
        BY <1>1, <1>8, <2>2, <3>1, NewSessionSteps DEF SessionState
      <3> QED
        BY <2>1, <3>2
    <2>3. CASE m # work.fresh
      BY <1>5, <1>8, <2>3, NewSessionSteps
    <2> QED
      BY <2>2, <2>3
  <1>9. CASE RejectSwap
    <2>1. CASE m = work.fresh
      <3>1. ~ ms[m].accepting /\ m # current
        BY <1>9, <2>1 DEF WorkInv, RejectSwap
      <3> QED
        BY <1>1, <1>9, <2>1, <3>1, NewSessionSteps DEF SessionState
    <2> QED
      BY <1>9, <2>1, NewSessionSteps
  <1>10. CASE CloseCurrent
    BY <1>10, NewSessionSteps
  <1> QED
    BY <1>2, <1>3, <1>4, <1>6, <1>7, <1>8, <1>9, <1>10, StepsOfSessions

\* The current session changes in the swap only, c.closed in Close only.
LEMMA CurrentMoves ==
    ASSUME TypeOK, WorkInv, [Next]_vars
    PROVE  /\ current' = current \/ (SwapSession /\ current' = work.fresh)
           /\ closed' = closed \/ (CloseCurrent /\ current' = current)
           /\ doneClosed => doneClosed'
  <1>1. ASSUME NEW t \in Tunnel, CallStep(t)
        PROVE  UNCHANGED <<current, closed, closer>>
    BY <1>1
    DEF CallStep, StartCall, Acquire, AcquireFails, CheckClosed, CallSession, OpenSucceeds,
        OpenTargetError, OpenBroken, ReleaseFailed, CloseTunnel, Rebuild
  <1>2. CASE WorkStep
    BY <1>2
    DEF WorkStep, WorkFails, HaveOAuthToken, FetchPass, FetchForbidden, Activate, UpdateToken,
        UpdateImpossible, CreateSession, SwapSession, RejectSwap, ReadStatus, WriteStatus,
        doneClosed
  <1>3. CASE LoopStep \/ Panic \/ UNCHANGED vars
    BY <1>3 DEF LoopStep, Panic, vars, doneClosed
  <1>4. closer \in [pc : CloserPC, snap : Time]
    BY Types
  <1>5. CASE CloserStep
    <2>1. doneClosed'
      <3>1. CASE CloseDone \/ CloseCurrent
        BY <1>4, <3>1 DEF CloseDone, CloseCurrent, doneClosed
      <3>2. CASE CloseReadsStatus \/ CloseWritesStatus
        BY <3>2 DEF CloseReadsStatus, CloseWritesStatus, doneClosed
      <3> QED
        BY <1>5, <3>1, <3>2 DEF CloserStep
    <2> QED
      BY <1>5, <2>1 DEF CloserStep, CloseDone, CloseReadsStatus, CloseWritesStatus
  <1>6. CASE Tick
    BY <1>4, <1>6 DEF Tick, doneClosed
  <1> QED
    BY <1>1, <1>2, <1>3, <1>5, <1>6 DEF Next, doneClosed

\* The new session of renewLocked stays as CreateSession left it.
LEMMA WorkInvNext ==
    ASSUME TypeOK, CallInv, WorkInv, AcceptInv, RefsMatchHolders, [Next]_vars
    PROVE  WorkInv'
  <1>1. renewMu' \in Tunnel => call'[renewMu'].pc = "renew"
    <2>1. ASSUME NEW t \in Tunnel, CallStep(t)
          PROVE  renewMu' \in Tunnel => call'[renewMu'].pc = "renew"
      <3>1. CASE UNCHANGED renewMu
        BY <2>1, <3>1, CallStepMoves DEF WorkInv
      <3>2. CASE ~ UNCHANGED renewMu
        <4>1. renewMu' = t /\ Goto(t, "renew")
          BY <2>1, <3>2
          DEF CallStep, StartCall, Acquire, AcquireFails, CheckClosed, CallSession,
              OpenSucceeds, OpenTargetError, OpenBroken, ReleaseFailed, CloseTunnel, Rebuild,
              StartWork, renewVars
        <4> QED
          BY <4>1, Types DEF Goto, CallState
      <3> QED
        BY <3>1, <3>2
    <2>2. CASE UNCHANGED <<renewMu, call>>
      BY <2>2 DEF WorkInv
    <2>3. ASSUME NEW r, Unlock(r)
          PROVE  renewMu' \notin Tunnel
      BY <2>3, ProcAssumption DEF Unlock
    <2>4. CASE WorkStep
      BY <2>2, <2>3, <2>4
      DEF WorkStep, WorkFails, HaveOAuthToken, FetchPass, FetchForbidden, Activate, UpdateToken,
          UpdateImpossible, CreateSession, SwapSession, RejectSwap, ReadStatus, WriteStatus,
          WorkTo
    <2>5. CASE LoopStep
      <3>1. UNCHANGED <<renewMu, call>> \/ renewMu' = Renewal
        BY <2>5
        DEF LoopStep, LoopTop, LoopWakes, RenewerLocks, LoopResult, LoopTimesOut,
            DisableExpired, LoopReadsStatus, LoopWritesStatus, LoopRetries, LoopInterrupted,
            StartWork, renewVars
      <3> QED
        BY <2>2, <3>1, ProcAssumption
    <2>6. CASE CloserStep \/ Panic \/ Tick \/ UNCHANGED vars
      BY <2>2, <2>6 DEF CloserStep, Panic, Tick, vars, renewVars
    <2> QED
      BY <2>1, <2>4, <2>5, <2>6 DEF Next
  <1>2. work'.pc # "swap" => work'.fresh = NoManaged
    BY WorkMoves, NewSessionSteps DEF WorkInv
  <1>4. RenewMuFree' => work'.pc = "none"
    <2>1. IdleWork.pc = "none" /\ work \in WorkState
      BY Types DEF IdleWork
    <2>2. \A p \in Tunnel \union {Renewal} : StartWork(p) => ~ RenewMuFree'
      BY ProcAssumption DEF StartWork, RenewMuFree
    <2>3. CASE UNCHANGED <<renewMu, work>>
      BY <2>3 DEF WorkInv, RenewMuFree
    <2>4. ASSUME NEW t \in Tunnel, CallStep(t)
          PROVE  RenewMuFree' => work'.pc = "none"
      BY <2>2, <2>3, <2>4
      DEF CallStep, StartCall, Acquire, AcquireFails, CheckClosed, CallSession, OpenSucceeds,
          OpenTargetError, OpenBroken, ReleaseFailed, CloseTunnel, Rebuild, renewVars
    <2>5. ASSUME NEW r, Unlock(r)
          PROVE  work'.pc = "none"
      BY <2>1, <2>5 DEF Unlock
    <2>6. CASE WorkStep
      <3>1. (\E r : Unlock(r)) \/ (UNCHANGED renewMu /\ work.pc # "none")
        BY <2>6
        DEF WorkStep, WorkFails, HaveOAuthToken, FetchPass, FetchForbidden, Activate,
            UpdateToken, UpdateImpossible, CreateSession, SwapSession, RejectSwap,
            ReadStatus, WriteStatus, WorkTo
      <3> QED
        BY <2>5, <3>1 DEF WorkInv, RenewMuFree
    <2>7. CASE LoopStep
      BY <2>2, <2>3, <2>7
      DEF LoopStep, LoopTop, LoopWakes, RenewerLocks, LoopResult, LoopTimesOut, DisableExpired,
          LoopReadsStatus, LoopWritesStatus, LoopRetries, LoopInterrupted, renewVars
    <2>8. CASE Tick
      <3>1. work'.pc = work.pc /\ UNCHANGED renewMu
        BY <2>1, <2>8 DEF Tick, WorkState
      <3> QED
        BY <3>1 DEF WorkInv, RenewMuFree
    <2>9. CASE CloserStep \/ Panic \/ UNCHANGED vars
      BY <2>3, <2>9 DEF CloserStep, Panic, vars, renewVars
    <2> QED
      BY <2>4, <2>6, <2>7, <2>8, <2>9 DEF Next
  <1>3. ASSUME work'.pc = "swap"
        PROVE  /\ work'.fresh \in Managed \ {current'}
               /\ ms'[work'.fresh].attached /\ ~ ms'[work'.fresh].accepting
               /\ ms'[work'.fresh].refs = 0
    <2>1. CASE CreateSession
      <3>1. UNCHANGED current
        BY <2>1 DEF CreateSession
      <3> QED
        BY <2>1, <3>1, NewSessionSteps DEF Unreferenced
    <2>2. CASE work'.fresh = work.fresh /\ work.pc = "swap"
      <3>1. /\ work.fresh \in Managed \ {current} /\ ms[work.fresh].refs = 0
            /\ ms[work.fresh].attached /\ ~ ms[work.fresh].accepting
        BY <2>2 DEF WorkInv
      <3>2. UNCHANGED current
        BY <1>3, CurrentMoves, NewSessionSteps
      <3>3. \/ ms'[work.fresh] = ms[work.fresh]
            \/ ms'[work.fresh].refs = 0 /\ ms'[work.fresh].attached
                 /\ ~ ms'[work.fresh].accepting
            \/ RejectSwap
        <4>1. CASE UNCHANGED ms
          BY <4>1
        <4>2. ASSUME NEW m \in Managed, m # work.fresh,
                     ms' \in {Acquired(m), Released(m), Disabled(m)}
              PROVE  ms'[work.fresh] = ms[work.fresh]
          <5>1. ms \in [Managed -> SessionState]
            BY Types
          <5>2. /\ Acquired(m)[work.fresh] = ms[work.fresh]
                /\ Released(m)[work.fresh] = ms[work.fresh]
                /\ Disabled(m)[work.fresh] = ms[work.fresh]
            BY <3>1, <4>2, <5>1, OthersUntouched
          <5> QED
            BY <4>2, <5>2
        <4>3. ASSUME NEW t \in Tunnel, call[t].pc \in {"opening", "release", "held"},
                     ms' = Released(call[t].held)
              PROVE  ms'[work.fresh] = ms[work.fresh]
          BY <4>2, <4>3, HeldIsCounted DEF HolderPC
        <4>4. CASE CreateSession \/ SwapSession \/ CloseCurrent
          BY <1>3, <2>2, <3>1, <4>4, NewSessionSteps DEF CreateSession
        <4>5. current \in Managed /\ current # work.fresh
          BY <3>1, Types
        <4> QED
          BY <4>1, <4>2, <4>3, <4>4, <4>5, StepsOfSessions DEF Acquire
      <3> QED
        BY <1>3, <2>2, <3>1, <3>2, <3>3, NewSessionSteps
    <2> QED
      BY <1>3, <2>1, <2>2, WorkMoves
  <1> QED
    BY <1>1, <1>2, <1>3, <1>4 DEF WorkInv

\* Nothing but the swap makes a session accept tunnels.
LEMMA AcceptInvNext ==
    ASSUME TypeOK, CallInv, WorkInv, AcceptInv, RefsMatchHolders, [Next]_vars
    PROVE  AcceptInv'
  <1>1. ASSUME NEW m \in Managed, ms'[m].accepting
        PROVE  m = current' /\ ms'[m].attached
    <2>1. \/ m = current' /\ ~ closed' /\ ms'[m].attached
          \/ ms[m].accepting /\ ms'[m].attached
      BY <1>1, SessionMoves DEF AcceptInv
    <2>2. CASE ms[m].accepting /\ ms'[m].attached
      <3>1. m = current
        BY <2>2 DEF AcceptInv
      <3>2. ~ SwapSession \/ m = current'
        <4>1. ASSUME SwapSession
              PROVE  FALSE
          <5>1. ms'[m] = Disabled(current)[m]
            BY <3>1, <4>1, NewSessionSteps
          <5> QED
            BY <1>1, <3>1, <5>1, Types, HelpersDo
        <4> QED
          BY <4>1
      <3> QED
        BY <2>2, <3>1, <3>2, CurrentMoves
    <2> QED
      BY <2>1, <2>2
  <1>2. ASSUME closed'
        PROVE  ~ ms'[current'].accepting /\ doneClosed'
    <2>1. CASE CloseCurrent /\ current' = current
      <3>1. doneClosed
        BY <2>1, NewSessionSteps DEF doneClosed
      <3> QED
        BY <2>1, <3>1, NewSessionSteps, CurrentMoves
    <2>2. CASE closed
      <3>1. current' = current
        BY <2>2, CurrentMoves DEF SwapSession, SwapRejected
      <3>2. ~ ms'[current].accepting
        BY <1>2, <2>2, Types, SessionMoves DEF AcceptInv
      <3> QED
        BY <2>2, <3>1, <3>2, CurrentMoves DEF AcceptInv
    <2> QED
      BY <1>2, <2>1, <2>2, CurrentMoves
  <1> QED
    BY <1>1, <1>2 DEF AcceptInv

\* A replacement has its reason until it is done.
LEMMA ReplaceInvNext ==
    ASSUME TypeOK, CallInv, WorkInv, AcceptInv, RefsMatchHolders, ReplaceInv, [Next]_vars
    PROVE  ReplaceInv'
  <1> SUFFICES ASSUME work'.pc \in {"create", "swap"}
               PROVE  ~ ms'[current'].accepting \/ ttl' <= 0 \/ work'.refused
    BY DEF ReplaceInv, NotBeforeExpiry
  <1> DEFINE goal == ~ ms'[current'].accepting \/ ttl' <= 0 \/ work'.refused
  <1>1. work \in WorkState /\ current \in Managed /\ ttl \in Int
    BY Types DEF Time
  <1>2. UNCHANGED current
    BY CurrentMoves, NewSessionSteps
  <1>3. ms'[current].accepting => ms[current].accepting
    <2>1. ~ SwapSession /\ ~ RejectSwap
      BY NewSessionSteps
    <2>2. CASE UNCHANGED ms
      BY <2>2
    <2>3. ASSUME NEW t \in Tunnel, Acquire(t)
          PROVE  ms'[current].accepting => ms[current].accepting
      BY <1>1, <2>3, Types, HelpersDo DEF Acquire
    <2>4. ASSUME NEW t \in Tunnel, call[t].pc \in {"opening", "release", "held"},
                 ms' = Released(call[t].held)
          PROVE  ms'[current].accepting => ms[current].accepting
      <3>1. call[t].held \in Managed
        BY <2>4 DEF CallInv, HolderPC
      <3>2. ms \in [Managed -> SessionState]
        BY Types
      <3>3. Released(call[t].held)[current].accepting = ms[current].accepting
        <4>1. CASE current = call[t].held
          BY <3>2, <4>1, <1>1, HelpersDo
        <4>2. CASE current # call[t].held
          BY <3>1, <3>2, <4>2, <1>1, HelpersDo
        <4> QED
          BY <4>1, <4>2
      <3> QED
        BY <2>4, <3>3
    <2>5. CASE ms' = Disabled(current)
      BY <1>1, <2>5, Types, HelpersDo
    <2>6. CASE CreateSession
      BY <1>1, <2>6, NewSessionSteps DEF Unreferenced
    <2>7. CASE CloseCurrent
      BY <2>7, NewSessionSteps
    <2> QED
      BY <2>1, <2>2, <2>3, <2>4, <2>5, <2>6, <2>7, StepsOfSessions
  <1>4. CASE UpdateImpossible
    <2>1. work'.refused = Updatable /\ UNCHANGED <<ttl, ms>>
      BY <1>1, <1>4 DEF UpdateImpossible, WorkState
    <2>2. closed => ~ ms[current].accepting
      BY DEF AcceptInv
    <2> QED
      BY <1>1, <1>2, <2>1, <2>2 DEF Updatable, NotBeforeExpiry
  <1>5. ASSUME work.pc \in {"create", "swap"}, work'.refused = work.refused,
               ttl' = ttl \/ ttl' = Earlier(ttl)
        PROVE  goal
    BY <1>1, <1>2, <1>3, <1>5 DEF ReplaceInv, NotBeforeExpiry, Earlier
  <1>6. ASSUME UNCHANGED <<work, ttl>>
        PROVE  goal
    BY <1>5, <1>6
  <1>7. ASSUME NEW r, Unlock(r)
        PROVE  FALSE
    BY <1>7 DEF Unlock, IdleWork
  <1>8. ASSUME NEW p, StartWork(p)
        PROVE  FALSE
    BY <1>8 DEF StartWork, IdleWork
  <1>9. ASSUME WorkStep, ~ UpdateImpossible
        PROVE  goal
    <2>1. CASE CreateSession
      BY <1>5, <2>1, NewSessionSteps DEF CreateSession
    <2>2. ~ (SwapSession \/ ReadStatus \/ FetchPass)
      BY <1>1 DEF SwapSession, ReadStatus, FetchPass, WorkState
    <2>3. ~ (HaveOAuthToken \/ FetchForbidden \/ Activate \/ UpdateToken)
      BY <1>1 DEF HaveOAuthToken, FetchForbidden, Activate, UpdateToken, WorkTo, WorkState
    <2> QED
      BY <1>7, <1>9, <2>1, <2>2, <2>3 DEF WorkStep, WorkFails, RejectSwap, WriteStatus
  <1>10. ASSUME NEW t \in Tunnel, CallStep(t)
         PROVE  goal
    BY <1>6, <1>8, <1>10
    DEF CallStep, StartCall, Acquire, AcquireFails, CheckClosed, CallSession, OpenSucceeds,
        OpenTargetError, OpenBroken, ReleaseFailed, CloseTunnel, Rebuild, renewVars
  <1>11. ASSUME LoopStep
         PROVE  goal
    BY <1>6, <1>8, <1>11
    DEF LoopStep, LoopTop, LoopWakes, RenewerLocks, LoopResult, LoopTimesOut, DisableExpired,
        LoopReadsStatus, LoopWritesStatus, LoopRetries, LoopInterrupted, renewVars
  <1>12. ASSUME Tick
         PROVE  goal
    <2>1. /\ work'.pc = work.pc /\ work'.refused = work.refused
          /\ ttl' = Earlier(ttl)
      BY <1>1, <1>12 DEF Tick, WorkState
    <2> QED
      BY <1>5, <2>1
  <1>13. ASSUME CloserStep \/ Panic \/ UNCHANGED vars
         PROVE  goal
    BY <1>6, <1>13 DEF CloserStep, Panic, vars, renewVars
  <1> QED
    BY <1>4, <1>9, <1>10, <1>11, <1>12, <1>13 DEF Next

\* A session that goes out of service stays open for its holders only.
LEMMA OrphanNext ==
    ASSUME TypeOK, CallInv, WorkInv, AcceptInv, RefsMatchHolders, NoOrphanSession, [Next]_vars
    PROVE  NoOrphanSession'
  <1> SUFFICES ASSUME NEW m \in Managed, ms'[m].attached
               PROVE  ms'[m].accepting \/ m = work'.fresh \/ ms'[m].refs > 0
    BY DEF NoOrphanSession
  <1>1. CASE ms'[m] = ms[m]
    <2>1. CASE m # work.fresh
      BY <1>1, <2>1 DEF NoOrphanSession
    <2>2. CASE m = work.fresh
      <3>1. work.pc = "swap" /\ work.fresh # NoManaged
        BY <2>2, NilAssumption DEF WorkInv
      <3>2. ~ RejectSwap /\ ~ CreateSession
        BY <1>1, <2>2, <3>1, Types, NewSessionSteps DEF SessionState, CreateSession
      <3>3. SwapSession => ms'[m].accepting
        BY <2>2, Types, NewSessionSteps DEF SessionState
      <3> QED
        BY <2>2, <3>1, <3>2, <3>3, WorkMoves
    <2> QED
      BY <2>1, <2>2
  <1> QED
    BY <1>1, SessionMoves DEF NoOrphanSession

-----------------------------------------------------------------------------
(* Theorems.                                                               *)

LEMMA IInvInit == Init => IInv
  <1> SUFFICES ASSUME Init
               PROVE  IInv
    OBVIOUS
  <1>1. TypeOK
    <2>1. /\ current \in Managed /\ ttl \in Time /\ closed \in BOOLEAN
          /\ renewMu \in Tunnel \union {Renewal, NoProc}
          /\ renewer \in RenewerPC /\ file \in Time /\ exited \in BOOLEAN /\ blamed \in BOOLEAN
      <3>1. ttl \in Nat
        BY TimeAssumption DEF Init
      <3>2. /\ current \in Managed /\ closed \in BOOLEAN /\ exited \in BOOLEAN /\ blamed \in BOOLEAN
            /\ renewMu \in Tunnel \union {Renewal, NoProc} /\ renewer \in RenewerPC
        BY DEF Init, RenewerPC
      <3>3. ttl \in Time /\ file \in Time
        BY <3>1 DEF Init, Time
      <3> QED
        BY <3>2, <3>3
    <2>2. ms \in [Managed -> SessionState]
      BY DEF Init, SessionState
    <2>3. call \in [Tunnel -> CallState]
      <3>1. IdleCall \in CallState
        BY TimeAssumption DEF IdleCall, CallState, CallPC
      <3> QED
        BY <3>1 DEF Init
    <2>4. work \in WorkState
      BY DEF Init, IdleWork, WorkState, WorkPC, Time
    <2>5. /\ loop \in [pc : LoopPC, timer : Nat, snap : Time]
          /\ closer \in [pc : CloserPC, snap : Time]
      BY DEF Init, LoopPC, CloserPC, Time
    <2> QED
      BY <2>1, <2>2, <2>3, <2>4, <2>5, Types
  <1>2. CallInv /\ WorkInv /\ AcceptInv /\ ReplaceInv /\ NoOrphanSession
    BY ProcAssumption
    DEF Init, CallInv, HolderPC, IdleCall, WorkInv, IdleWork, AcceptInv, ReplaceInv,
        NoOrphanSession
  <1>3. RefsMatchHolders
    <2>1. ASSUME NEW m \in Managed
          PROVE  ms[m].refs = Cardinality(Holders(m))
      <3>1. Holders(m) = {}
        BY DEF Init, Holders, IdleCall
      <3> QED
        BY <3>1, FS_EmptySet DEF Init
    <2> QED
      BY <2>1 DEF RefsMatchHolders
  <1> QED
    BY <1>1, <1>2, <1>3 DEF IInv

LEMMA IInvNext == IInv /\ [Next]_vars => IInv'
  BY TypeOKNext, CallsTyped, WorkInvNext, RefsNext, AcceptInvNext, ReplaceInvNext, OrphanNext
  DEF IInv

LEMMA Inductive == Spec => []IInv
  BY IInvInit, IInvNext, PTL DEF Spec

\* For every number of sessions, tunnels and retries, the variables keep their types: no
\* call makes more attempts than maxOpenTunnelRebuildRetries allows, and no reference
\* count becomes negative.
THEOREM TypeCorrect == Spec => []TypeOK
  <1>1. IInv => TypeOK
    BY DEF IInv
  <1> QED
    BY <1>1, Inductive, PTL

\* For every number of tunnels, the reference count of each managed session is the number
\* of calls and connections that hold it.
THEOREM RefsAlwaysMatch == Spec => []RefsMatchHolders
  <1>1. IInv => RefsMatchHolders
    BY DEF IInv
  <1> QED
    BY <1>1, Inductive, PTL

\* However rebuilds, renewals and failures overlap, every open session is in service,
\* about to be, or closed by its last holder.
THEOREM NoSessionIsLost == Spec => []NoOrphanSession
  <1>1. IInv => NoOrphanSession
    BY DEF IInv
  <1> QED
    BY <1>1, Inductive, PTL

\* However long a renewal takes, it does not replace a session that is usable and took
\* its token.
THEOREM UsableSessionIsKept == Spec => SessionKeptWhileUsable
  <1>1. IInv /\ [Next]_vars => (current' # current =>
           ~ ms[current].accepting \/ NotBeforeExpiry \/ work.refused)
    BY CurrentMoves DEF IInv, ReplaceInv, SwapSession
  <1>2. IInv /\ [Next]_vars =>
          [current' # current => ~ ms[current].accepting \/ NotBeforeExpiry \/ work.refused]_vars
    BY <1>1
  <1> QED
    BY <1>2, Inductive, PTL DEF Spec, SessionKeptWhileUsable

\* But for a swap and an update of a session in service, the expiry only comes nearer.
LEMMA ExpiryMoves ==
    ASSUME TypeOK, [Next]_vars
    PROVE  ttl' \in {ttl, Earlier(ttl)} \/ Updatable \/ SwapSession
  <1>1. ASSUME NEW t \in Tunnel, CallStep(t)
        PROVE  ttl' = ttl
    BY <1>1
    DEF CallStep, StartCall, Acquire, AcquireFails, CheckClosed, CallSession, OpenSucceeds,
        OpenTargetError, OpenBroken, ReleaseFailed, CloseTunnel, Rebuild
  <1>2. ASSUME WorkStep
        PROVE  ttl' = ttl \/ Updatable \/ SwapSession
    BY <1>2
    DEF WorkStep, WorkFails, HaveOAuthToken, FetchPass, FetchForbidden, Activate, UpdateToken,
        UpdateImpossible, CreateSession, RejectSwap, ReadStatus, WriteStatus
  <1>3. CASE LoopStep \/ CloserStep \/ Panic \/ Tick \/ UNCHANGED vars
    BY <1>3 DEF LoopStep, CloserStep, Panic, Tick, vars
  <1> QED
    BY <1>1, <1>2, <1>3 DEF Next

\* What takes an open controller's current session out of service.
LEMMA DisabledForCause ==
    ASSUME TypeOK, CallInv, WorkInv, AcceptInv, [Next]_vars, ~ SwapSession, ~ closed',
           ms[current].accepting, ~ ms'[current].accepting
    PROVE  UNCHANGED ttl /\ (blamed' \/ NotBeforeExpiry)
  <1>1. /\ ms \in [Managed -> SessionState] /\ current \in Managed /\ ttl \in Time
        /\ blamed \in BOOLEAN /\ call \in [Tunnel -> CallState]
    BY Types
  <1>2. ASSUME NEW t \in Tunnel, CallStep(t)
        PROVE  UNCHANGED ttl /\ (blamed' \/ NotBeforeExpiry)
    <2>1. CASE OpenBroken(t)
      <3>1. call[t].held = current
        BY <1>1, <2>1 DEF OpenBroken, MarkedUnusable
      <3> QED
        BY <1>2, <2>1, <3>1 DEF CallStep, OpenBroken
    <2>2. CASE AcquireFails(t)
      <3>1. ~ closed
        BY <2>2 DEF AcquireFails
      <3>2. Expired
        BY <2>2, <3>1 DEF AcquireFails, Acquirable
      <3> QED
        BY <1>1, <2>2, <3>2 DEF AcquireFails, Expired, NotBeforeExpiry, Time
    <2>3. CASE ~ OpenBroken(t) /\ ~ AcquireFails(t)
      <3>1. \/ ms' = ms \/ ms' = Acquired(current)
            \/ call[t].held \in Managed /\ ms' = Released(call[t].held)
        BY <1>2, <2>3
        DEF CallStep, StartCall, Acquire, CheckClosed, CallSession, OpenSucceeds,
            OpenTargetError, ReleaseFailed, CloseTunnel, ReleasedByClose, Rebuild, CallInv,
            HolderPC
      <3>2. Acquired(current)[current].accepting
        BY <1>1, HelpersDo
      <3>3. ASSUME NEW m \in Managed
            PROVE  Released(m)[current].accepting
        <4>1. CASE m = current
          BY <1>1, <4>1, HelpersDo
        <4>2. CASE m # current
          BY <1>1, <4>2, OthersUntouched
        <4> QED
          BY <4>1, <4>2
      <3> QED
        BY <3>1, <3>2, <3>3
    <2> QED
      BY <2>1, <2>2, <2>3
  <1>3. ASSUME LoopStep
        PROVE  UNCHANGED ttl /\ NotBeforeExpiry
    BY <1>3
    DEF LoopStep, LoopTop, LoopWakes, RenewerLocks, LoopResult, LoopTimesOut, DisableExpired,
        ExpiredAccepting, LoopReadsStatus, LoopWritesStatus, LoopRetries, LoopInterrupted
  <1>4. ASSUME WorkStep
        PROVE  FALSE
    <2>1. UNCHANGED ms \/ CreateSession \/ RejectSwap
      BY <1>4
      DEF WorkStep, WorkFails, HaveOAuthToken, FetchPass, FetchForbidden, Activate,
          UpdateToken, UpdateImpossible, ReadStatus, WriteStatus
    <2>2. CASE CreateSession
      BY <1>1, <2>2 DEF CreateSession, Unreferenced
    <2>3. CASE RejectSwap
      BY <1>1, <2>3, NewSessionSteps DEF RejectSwap, SwapRejected, AcceptInv
    <2> QED
      BY <2>1, <2>2, <2>3
  <1>5. CASE CloserStep \/ Panic \/ Tick \/ UNCHANGED vars
    BY <1>5
    DEF CloserStep, CloseDone, CloseCurrent, CloseReadsStatus, CloseWritesStatus, Panic,
        Tick, vars
  <1> QED
    BY <1>2, <1>3, <1>4, <1>5 DEF Next

\* For every number of tunnels and sessions and any times: the current session is out of
\* service only if an open failed on it since it came into service or its pass has run
\* out, so that neither late failures nor a late renewal loop take a replacement away.
THEOREM OnlyForCause == Spec => []OutOfServiceForCause
  <1>1. Init => OutOfServiceForCause
    <2> SUFFICES ASSUME Init
                 PROVE  ms[current].accepting
      BY DEF OutOfServiceForCause
    <2>1. /\ current \in Managed
          /\ ms = [m \in Managed |->
                     [attached |-> m = current, accepting |-> m = current, refs |-> 0]]
      BY DEF Init
    <2> QED
      BY <2>1
  <1>2. ASSUME IInv, OutOfServiceForCause, [Next]_vars
        PROVE  OutOfServiceForCause'
    <2>1. /\ TypeOK /\ CallInv /\ WorkInv /\ AcceptInv
          /\ ms \in [Managed -> SessionState] /\ current \in Managed
          /\ ttl \in Time /\ blamed \in BOOLEAN
      BY <1>2, Types DEF IInv
    <2>2. CASE SwapSession
      <3>1. ms'[current'].accepting
        <4>1. /\ ms'[work.fresh] = [ms[work.fresh] EXCEPT !.accepting = TRUE]
              /\ current' = work.fresh /\ work.fresh \in Managed
          BY <2>1, <2>2, NewSessionSteps
        <4> QED
          BY <2>1, <4>1 DEF SessionState
      <3> QED
        BY <3>1 DEF OutOfServiceForCause
    <2>3. ASSUME ~ SwapSession, ~ closed', ~ ms'[current].accepting
          PROVE  blamed' \/ ttl' <= 0
      <3>1. CASE ms[current].accepting
        BY <1>2, <2>1, <2>3, <3>1, DisabledForCause DEF NotBeforeExpiry
      <3>2. CASE ~ ms[current].accepting
        <4>1. ~ closed
          BY <1>2, <2>1, <2>3, CurrentMoves DEF CloseCurrent
        <4>2. CASE blamed
          BY <1>2, <2>1, <2>3, <4>2, BlameMoves
        <4>3. CASE NotBeforeExpiry
          BY <1>2, <2>1, <2>3, <3>2, <4>3, ExpiryMoves
          DEF Updatable, NotBeforeExpiry, Earlier, Time
        <4> QED
          BY <1>2, <3>2, <4>1, <4>2, <4>3 DEF OutOfServiceForCause
      <3> QED
        BY <3>1, <3>2
    <2>4. SwapSession \/ current' = current
      BY <1>2, <2>1, CurrentMoves
    <2> QED
      BY <2>2, <2>3, <2>4 DEF OutOfServiceForCause, NotBeforeExpiry
  <1> QED
    BY <1>1, <1>2, Inductive, PTL DEF Spec

-----------------------------------------------------------------------------
(* The controller is a SessionLease: a step changes the lease of one       *)
(* session at most.                                                        *)

Status(r, new) == IF ~ r.attached THEN "none"
                  ELSE IF r.accepting \/ new THEN "serving"
                  ELSE "draining"
Was(m) == Status(ms[m], m = work.fresh)
Becomes(m) == Status(ms'[m], m = work'.fresh)

SameLease(m) == Becomes(m) = Was(m) /\ ms'[m].refs = ms[m].refs
Opened(m) == /\ Was(m) = "none" /\ ms[m].refs = 0
             /\ Becomes(m) = "serving" /\ ms'[m].refs = 0
Leased(m) == /\ Was(m) = "serving" /\ Becomes(m) = "serving"
             /\ ms'[m].refs = ms[m].refs + 1
Returned(m) == /\ ms[m].refs > 0 /\ ms'[m].refs = ms[m].refs - 1
               /\ Becomes(m) = IF Was(m) = "draining" /\ ms[m].refs = 1 THEN "none" ELSE Was(m)
RetiredNow(m) == /\ Was(m) = "serving" /\ ms'[m].refs = ms[m].refs
                 /\ Becomes(m) = IF ms[m].refs = 0 THEN "none" ELSE "draining"
Killed(m) == doneClosed /\ Becomes(m) = "none" /\ ms'[m].refs = ms[m].refs

LeaseChange(m) == \/ SameLease(m) \/ Opened(m) \/ Leased(m)
                  \/ Returned(m) \/ RetiredNow(m) \/ Killed(m)

\* A change of one session is a step of SessionLease, or a stutter.
LEMMA ChangeIsLeaseStep ==
    ASSUME NEW s \in Managed, \A u \in Managed \ {s} : SameLease(u),
           LeaseChange(s), doneClosed' = doneClosed
    PROVE  [Lease!Next]_Lease!vars
  <1> DEFINE status == [m \in Managed |-> IF ~ ms[m].attached THEN "none"
                                          ELSE IF ms[m].accepting \/ m = work.fresh THEN "serving"
                                          ELSE "draining"]
             leases == [m \in Managed |-> ms[m].refs]
             new == Becomes(s)
             refs == ms'[s].refs
  <1>1. status = [m \in Managed |-> Was(m)] /\ status' = [m \in Managed |-> Becomes(m)]
    BY DEF Was, Becomes, Status
  <1>2. /\ status[s] = Was(s) /\ status' = [status EXCEPT ![s] = new]
        /\ leases[s] = ms[s].refs /\ leases' = [leases EXCEPT ![s] = refs]
    <2> HIDE DEF status
    <2> QED
      BY <1>1 DEF SameLease
  <1>3. /\ new = Was(s) => status' = status
        /\ refs = ms[s].refs => leases' = leases
    <2> HIDE DEF status
    <2> QED
      BY <1>1 DEF SameLease
  <1>4. CASE SameLease(s)
    <2>1. status' = status /\ leases' = leases
      <3> HIDE DEF status, leases
      <3> QED
        BY <1>3, <1>4 DEF SameLease
    <2> QED
      BY <2>1 DEF Lease!vars
  <1>5. CASE Opened(s)
    <2>1. /\ status[s] = "none" /\ leases[s] = 0
          /\ status' = [status EXCEPT ![s] = "serving"] /\ leases' = leases
      <3> HIDE DEF status, leases
      <3> QED
        BY <1>2, <1>3, <1>5 DEF Opened
    <2>2. Lease!Open(s)
      BY <2>1 DEF Lease!Open
    <2> QED
      BY <2>2 DEF Lease!Next
  <1>6. CASE Leased(s)
    <2>1. /\ status[s] = "serving" /\ status' = status
          /\ leases' = [leases EXCEPT ![s] = leases[s] + 1]
      <3> HIDE DEF status, leases
      <3> QED
        BY <1>2, <1>3, <1>6 DEF Leased
    <2>2. Lease!Lease(s)
      BY <2>1 DEF Lease!Lease
    <2> QED
      BY <2>2 DEF Lease!Next
  <1>7. CASE Returned(s)
    <2>1. /\ leases[s] > 0 /\ leases' = [leases EXCEPT ![s] = leases[s] - 1]
          /\ status' = [status EXCEPT ![s] = IF status[s] = "draining" /\ leases[s] = 1
                                             THEN "none" ELSE status[s]]
      <3> HIDE DEF status, leases
      <3> QED
        BY <1>2, <1>7 DEF Returned
    <2>2. Lease!Return(s)
      BY <2>1 DEF Lease!Return
    <2> QED
      BY <2>2 DEF Lease!Next
  <1>8. CASE RetiredNow(s)
    <2>1. /\ status[s] = "serving" /\ leases' = leases
          /\ status' = [status EXCEPT ![s] = IF leases[s] = 0 THEN "none" ELSE "draining"]
      <3> HIDE DEF status, leases
      <3> QED
        BY <1>2, <1>3, <1>8 DEF RetiredNow
    <2>2. Lease!Retire(s)
      BY <2>1 DEF Lease!Retire
    <2> QED
      BY <2>2 DEF Lease!Next
  <1>9. CASE Killed(s)
    <2>1. doneClosed /\ leases' = leases /\ status' = [status EXCEPT ![s] = "none"]
      <3> HIDE DEF status, leases
      <3> QED
        BY <1>2, <1>3, <1>9 DEF Killed
    <2>2. Lease!Kill(s)
      BY <2>1 DEF Lease!Kill
    <2> QED
      BY <2>2 DEF Lease!Next
  <1> QED
    BY <1>4, <1>5, <1>6, <1>7, <1>8, <1>9 DEF LeaseChange

\* What happens to the current session when it is disabled.
LEMMA DisabledIsRetired ==
    ASSUME IInv,
           ms'[current] = Disabled(current)[current], work'.fresh \in {work.fresh, NoManaged}
    PROVE  SameLease(current) \/ RetiredNow(current)
  <1>1. /\ current \in Managed /\ ms \in [Managed -> SessionState] /\ ms[current].refs \in Nat
        /\ current # NoManaged
    BY Types, NilAssumption DEF IInv, SessionState
  <1>2. current # work.fresh
    BY <1>1 DEF IInv, WorkInv
  <1>3. /\ ms'[current].refs = ms[current].refs /\ ~ ms'[current].accepting
        /\ ms'[current].attached <=> ms[current].attached /\ ms[current].refs > 0
    BY <1>1, HelpersDo
  <1>4. ms[current].attached => ms[current].accepting \/ ms[current].refs > 0
    BY <1>1, <1>2 DEF IInv, NoOrphanSession
  <1>5. ms[current].accepting => ms[current].attached
    BY <1>1 DEF IInv, AcceptInv
  <1> QED
    BY <1>1, <1>2, <1>3, <1>4, <1>5 DEF SameLease, RetiredNow, Was, Becomes, Status

\* A step without a new session keeps track of the one there is.
LEMMA FreshMoves ==
    ASSUME IInv, [Next]_vars
    PROVE  UNCHANGED work.fresh \/ CreateSession \/ SwapSession \/ RejectSwap
  BY WorkMoves DEF IInv, WorkInv

\* Every step is a step of SessionLease, or a stutter.
LEMMA LeaseStep == IInv /\ [Next]_vars => [Lease!Next]_Lease!vars
  <1> SUFFICES ASSUME IInv, [Next]_vars
               PROVE  [Lease!Next]_Lease!vars
    OBVIOUS
  <1> DEFINE goal == [Lease!Next]_Lease!vars
  <1> HIDE DEF goal
  <1>1. /\ current \in Managed /\ ms \in [Managed -> SessionState]
        /\ \A m \in Managed : ms[m].refs \in Nat
        /\ TypeOK /\ CallInv /\ WorkInv /\ AcceptInv /\ RefsMatchHolders
    BY Types DEF IInv, SessionState
  <1>2. ASSUME NEW s \in Managed, \A u \in Managed \ {s} : SameLease(u),
               LeaseChange(s), doneClosed' = doneClosed
        PROVE  goal
    BY <1>2, ChangeIsLeaseStep DEF goal
  <1>3. ASSUME UNCHANGED work.fresh, NEW u \in Managed, ms'[u] = ms[u]
        PROVE  SameLease(u)
    BY <1>3 DEF SameLease, Was, Becomes
  <1>4. UNCHANGED closer => doneClosed' = doneClosed
    BY DEF doneClosed
  <1>5. ASSUME UNCHANGED <<ms, current>>
        PROVE  goal
    <2>1. UNCHANGED work.fresh
      <3>1. ~ SwapSession
        BY <1>1, <1>5, NewSessionSteps
      <3>2. ~ CreateSession
        BY <1>1, <1>5, NewSessionSteps DEF Unreferenced
      <3>3. ~ RejectSwap
        <4>1. RejectSwap => ms[work.fresh].attached /\ work.fresh \in Managed
          BY <1>1 DEF RejectSwap, WorkInv
        <4> QED
          BY <1>1, <1>5, <4>1, NewSessionSteps DEF SessionState
      <3> QED
        BY <3>1, <3>2, <3>3, FreshMoves
    <2>2. \A u \in Managed : SameLease(u)
      BY <1>3, <1>5, <2>1
    <2>3. CASE doneClosed' = doneClosed
      BY <1>1, <1>2, <2>2, <2>3 DEF LeaseChange
    <2>4. CASE doneClosed' # doneClosed
      <3>1. ~ doneClosed /\ doneClosed'
        BY <1>1, <2>4, CurrentMoves DEF doneClosed
      <3>2. /\ [m \in Managed |-> ms[m].refs]' = [m \in Managed |-> ms[m].refs]
            /\ [m \in Managed |-> IF ~ ms[m].attached THEN "none"
                                  ELSE IF ms[m].accepting \/ m = work.fresh THEN "serving"
                                  ELSE "draining"]'
               = [m \in Managed |-> IF ~ ms[m].attached THEN "none"
                                    ELSE IF ms[m].accepting \/ m = work.fresh THEN "serving"
                                    ELSE "draining"]
        BY <1>5, <2>1
      <3>3. Lease!Shutdown
        BY <3>1, <3>2 DEF Lease!Shutdown
      <3> QED
        BY <3>3 DEF Lease!Next, goal
    <2> QED
      BY <2>3, <2>4
  <1>6. ASSUME NEW t \in Tunnel, Acquire(t), UNCHANGED closer
        PROVE  goal
    <2>1. /\ ms' = Acquired(current) /\ ms[current].accepting /\ UNCHANGED work.fresh
      BY <1>6 DEF Acquire, Acquirable, renewVars
    <2>2. ms[current].attached
      BY <1>1, <2>1 DEF AcceptInv
    <2>3. Leased(current)
      <3>1. /\ ms'[current].refs = ms[current].refs + 1
            /\ ms'[current].attached /\ ms'[current].accepting
        BY <1>1, <2>1, <2>2, HelpersDo
      <3> QED
        BY <2>1, <2>2, <3>1 DEF Leased, Was, Becomes, Status
    <2>4. \A u \in Managed \ {current} : SameLease(u)
      BY <1>1, <1>3, <2>1, OthersUntouched
    <2> QED
      BY <1>1, <1>2, <1>4, <1>6, <2>3, <2>4 DEF LeaseChange
  <1>7. ASSUME NEW t \in Tunnel, call[t].pc \in {"opening", "release", "held"},
               ms' = Released(call[t].held), UNCHANGED <<work, closer>>
        PROVE  goal
    <2> DEFINE h == call[t].held
    <2>1. h \in Managed /\ ms[h].refs > 0 /\ h # work.fresh
      BY <1>1, <1>7, HeldIsCounted DEF HolderPC
    <2>2. /\ ms'[h].refs = ms[h].refs - 1 /\ ms'[h].accepting = ms[h].accepting
          /\ ms'[h].attached <=> ms[h].attached /\ (ms[h].accepting \/ ms[h].refs - 1 > 0)
      BY <1>1, <1>7, <2>1, HelpersDo
    <2>3. Returned(h)
      BY <1>1, <1>7, <2>1, <2>2 DEF Returned, Was, Becomes, Status
    <2>4. \A u \in Managed \ {h} : SameLease(u)
      BY <1>1, <1>3, <1>7, <2>1, OthersUntouched
    <2> QED
      BY <1>2, <1>4, <1>7, <2>1, <2>3, <2>4 DEF LeaseChange
  <1>8. ASSUME ms' = Disabled(current), UNCHANGED <<work, closer>>
        PROVE  goal
    <2>1. \A u \in Managed \ {current} : SameLease(u)
      BY <1>1, <1>3, <1>8, OthersUntouched
    <2>2. LeaseChange(current)
      BY <1>8, DisabledIsRetired DEF LeaseChange
    <2> QED
      BY <1>1, <1>2, <1>4, <1>8, <2>1, <2>2
  <1>9. ASSUME CreateSession, UNCHANGED closer
        PROVE  goal
    <2>1. PICK m \in Managed :
            /\ Unreferenced(m) /\ work'.fresh = m
            /\ ms'[m] = [attached |-> TRUE, accepting |-> FALSE, refs |-> 0]
            /\ \A u \in Managed \ {m} : ms'[u] = ms[u]
            /\ work.fresh = NoManaged
      BY <1>1, <1>9, NewSessionSteps
    <2>2. Opened(m)
      BY <2>1 DEF Opened, Was, Becomes, Status, Unreferenced
    <2>3. \A u \in Managed \ {m} : SameLease(u)
      BY <2>1, NilAssumption DEF SameLease, Was, Becomes, Status
    <2> QED
      BY <1>2, <1>4, <1>9, <2>2, <2>3 DEF LeaseChange
  <1>10. ASSUME SwapSession, UNCHANGED closer
         PROVE  goal
    <2> DEFINE f == work.fresh
    <2>1. /\ f \in Managed \ {current} /\ work'.fresh = NoManaged
          /\ ms'[f] = [ms[f] EXCEPT !.accepting = TRUE]
          /\ \A u \in Managed \ {f} : ms'[u] = Disabled(current)[u]
          /\ ms[f].attached
      BY <1>1, <1>10, NewSessionSteps DEF WorkInv, SwapSession
    <2>2. LeaseChange(current)
      BY <1>1, <2>1, DisabledIsRetired DEF LeaseChange
    <2>3. SameLease(f)
      <3>1. ms'[f].attached /\ ms'[f].accepting /\ ms'[f].refs = ms[f].refs
        BY <1>1, <2>1 DEF SessionState
      <3> QED
        BY <2>1, <3>1 DEF SameLease, Was, Becomes, Status
    <2>4. ASSUME NEW u \in Managed \ {current, f}
          PROVE  SameLease(u)
      <3>1. ms'[u] = ms[u]
        BY <1>1, <2>1, <2>4, OthersUntouched
      <3> QED
        BY <2>1, <2>4, <3>1, NilAssumption DEF SameLease, Was, Becomes, Status
    <2> QED
      BY <1>1, <1>2, <1>4, <1>10, <2>2, <2>3, <2>4
  <1>11. ASSUME RejectSwap, UNCHANGED closer
         PROVE  goal
    <2> DEFINE f == work.fresh
    <2>1. /\ f \in Managed /\ work'.fresh = NoManaged
          /\ ms'[f] = [ms[f] EXCEPT !.attached = FALSE]
          /\ \A u \in Managed \ {f} : ms'[u] = ms[u]
      BY <1>1, <1>11, NewSessionSteps
    <2>2. Killed(f)
      <3>1. doneClosed
        BY <1>1, <1>11 DEF RejectSwap, SwapRejected, AcceptInv
      <3>2. ~ ms'[f].attached /\ ms'[f].refs = ms[f].refs
        BY <1>1, <2>1 DEF SessionState
      <3> QED
        BY <3>1, <3>2 DEF Killed, Becomes, Status
    <2>3. \A u \in Managed \ {f} : SameLease(u)
      BY <2>1, NilAssumption DEF SameLease, Was, Becomes, Status
    <2> QED
      BY <1>2, <1>4, <1>11, <2>1, <2>2, <2>3 DEF LeaseChange
  <1>12. ASSUME CloseCurrent, UNCHANGED work
         PROVE  goal
    <2>1. doneClosed /\ doneClosed'
      BY <1>1, <1>12, NewSessionSteps, CurrentMoves DEF doneClosed
    <2>2. /\ ms'[current].refs = ms[current].refs /\ ~ ms'[current].attached
          /\ \A u \in Managed \ {current} : ms'[u] = ms[u]
      BY <1>1, <1>12, NewSessionSteps
    <2>3. LeaseChange(current)
      BY <2>1, <2>2 DEF LeaseChange, Killed, Becomes, Status
    <2>4. \A u \in Managed \ {current} : SameLease(u)
      BY <1>3, <1>12, <2>2
    <2>5. doneClosed' = doneClosed
      BY <2>1 DEF doneClosed
    <2> QED
      BY <1>1, <1>2, <2>3, <2>4, <2>5
  <1> QED
    BY <1>5, <1>6, <1>7, <1>8, <1>9, <1>10, <1>11, <1>12, StepsOfSessions DEF goal

\* A new controller has one session, which nobody leases.
LEMMA LeaseInit == Init => Lease!Init
  BY DEF Init, Lease!Init, doneClosed, IdleWork

\* For every number of sessions and tunnels, the controller keeps the promise of
\* SessionLease: rebuilds, renewals and failures never cut a tunnel off, only Close does.
THEOREM ControllerIsLease == Spec => ImplementsLease
  BY Inductive, LeaseInit, LeaseStep, PTL DEF Spec, ImplementsLease, Lease!Spec

-----------------------------------------------------------------------------
(* renewMu.                                                                *)

\* renewMu is owned exactly as long as one renewLocked runs, by the tunnel or the
\* renewal goroutine it runs for: no error path returns with the mutex, and no two
\* renewals overlap.
OneRenewalAtATime ==
    /\ \A t \in Tunnel : call[t].pc = "renew" <=> renewMu = t
    /\ renewer = "renew" <=> renewMu = Renewal
    /\ RenewMuFree <=> work.pc = "none"

\* The renewal loop leaves a goroutine behind only when Close interrupts its wait, and
\* then it starts no other.
OneRenewer ==
    loop.pc # "wait" => \/ renewer = "none"
                        \/ doneClosed /\ loop.pc \in {"top", "stopped"}

MutexInv == OneRenewalAtATime /\ OneRenewer

\* But for the caller that takes renewMu to renew, openTunnel leaves it alone.
LEMMA CallsKeepMutex ==
    ASSUME TypeOK, CallInv, AcceptInv, MutexInv, NEW t \in Tunnel, CallStep(t)
    PROVE  MutexInv'
  <1>1. /\ call \in [Tunnel -> CallState] /\ call' \in [Tunnel -> CallState]
        /\ \A u \in Tunnel \ {t} : call'[u] = call[u]
        /\ call[t].pc # "renew"
    BY Types, CallStepMoves
  <1>2. UNCHANGED <<renewer, loop, closer>>
    BY DEF CallStep, StartCall, Acquire, AcquireFails, CheckClosed, CallSession,
       OpenSucceeds, OpenTargetError, OpenBroken, ReleaseFailed, CloseTunnel, Rebuild, renewVars
  <1>3. OneRenewer'
    BY <1>2 DEF MutexInv, OneRenewer, doneClosed
  <1>4. /\ \A l \in CallPC : Goto(t, l) => call'[t].pc = l
        /\ Return(t) => call'[t].pc = "idle"
    <2>1. ASSUME NEW l \in CallPC, Goto(t, l)
          PROVE  call'[t].pc = l
      BY <1>1, <2>1, CallsMove DEF CallState
    <2> QED
      BY <1>1, <2>1, CallsMove DEF IdleCall
  <1>5. CASE UNCHANGED <<renewMu, work>> /\ call'[t].pc # "renew"
    BY <1>1, <1>2, <1>3, <1>5 DEF MutexInv, OneRenewalAtATime, RenewMuFree
  <1>6. CASE Acquire(t)
    <2>1. call'[t].pc = "open"
      BY <1>1, <1>6 DEF Acquire, CallState
    <2> QED
      BY <1>5, <1>6, <2>1 DEF Acquire, renewVars
  <1>7. CASE \/ StartCall(t) \/ AcquireFails(t) \/ CheckClosed(t) \/ CallSession(t)
             \/ OpenSucceeds(t) \/ OpenTargetError(t) \/ OpenBroken(t)
             \/ ReleaseFailed(t) \/ CloseTunnel(t)
    <2>1. UNCHANGED <<renewMu, work>>
      BY <1>7
      DEF StartCall, AcquireFails, CheckClosed, CallSession, OpenSucceeds, OpenTargetError,
          OpenBroken, ReleaseFailed, CloseTunnel, renewVars
    <2>2. Return(t) \/ \E l \in CallPC \ {"renew"} : Goto(t, l)
      BY <1>7
      DEF StartCall, AcquireFails, CheckClosed, CallSession, OpenSucceeds, OpenTargetError,
          OpenBroken, ReleaseFailed, CloseTunnel, RetryOrReturn, CallPC
    <2> QED
      BY <1>4, <1>5, <2>1, <2>2
  <1>8. CASE Rebuild(t)
    <2>1. CASE OtherUsable(call[t].held)
      <3>1. call[t].attempt < MaxRetries
        BY <1>8 DEF Rebuild, CallInv
      <3>2. call'[t].pc = "acquire" /\ UNCHANGED <<renewMu, work>>
        BY <1>1, <1>8, <2>1, <3>1, CallsMove DEF Rebuild
      <3> QED
        BY <1>5, <3>2
    <2>2. CASE ~ OtherUsable(call[t].held)
      <3>1. /\ renewMu = NoProc /\ renewMu' = t /\ work'.pc = "oauth" /\ Goto(t, "renew")
        BY <1>8, <2>2 DEF Rebuild, RenewMuFree, StartWork, IdleWork
      <3>2. call'[t].pc = "renew"
        BY <1>4, <3>1 DEF CallPC
      <3>3. \A u \in Tunnel \ {t} : call'[u].pc # "renew"
        BY <1>1, <3>1, ProcAssumption DEF MutexInv, OneRenewalAtATime
      <3> QED
        BY <1>2, <1>3, <3>1, <3>2, <3>3, ProcAssumption
        DEF MutexInv, OneRenewalAtATime, RenewMuFree
    <2> QED
      BY <2>1, <2>2
  <1> QED
    BY <1>6, <1>7, <1>8 DEF CallStep

\* renewLocked keeps the mutex until it returns, with a result or an error, and every
\* return gives it back.
LEMMA WorkKeepsMutex ==
    ASSUME TypeOK, CallInv, WorkInv, MutexInv, WorkStep
    PROVE  MutexInv'
  <1>1. /\ UNCHANGED <<loop, closer>> /\ work.pc # "none" /\ work \in WorkState
        /\ renewMu \in Tunnel \union {Renewal, NoProc}
    BY Types
    DEF WorkStep, WorkFails, HaveOAuthToken, FetchPass, FetchForbidden, Activate,
        UpdateToken, UpdateImpossible, CreateSession, SwapSession, RejectSwap,
        ReadStatus, WriteStatus
  <1>2. renewMu # NoProc
    BY <1>1 DEF MutexInv, OneRenewalAtATime, RenewMuFree
  <1>3. ASSUME NEW r \in {"ok", "error"}, Unlock(r)
        PROVE  MutexInv'
    <2>1. renewMu' = NoProc /\ work'.pc = "none"
      BY <1>3 DEF Unlock, IdleWork
    <2>2. CASE renewMu \in Tunnel
      <3>1. NextAttempt(renewMu) /\ UNCHANGED renewer
        BY <1>3, <2>2 DEF Unlock
      <3>2. call[renewMu].attempt < MaxRetries /\ call \in [Tunnel -> CallState]
        BY <2>2, Types DEF WorkInv, CallInv
      <3>3. /\ call'[renewMu].pc = "acquire"
            /\ \A u \in Tunnel \ {renewMu} : call'[u] = call[u]
        BY <2>2, <3>1, <3>2, CallsMove
      <3>4. \A u \in Tunnel : call'[u].pc # "renew"
        BY <2>2, <3>3 DEF MutexInv, OneRenewalAtATime
      <3>5. renewer' # "renew"
        BY <2>2, <3>1, ProcAssumption DEF MutexInv, OneRenewalAtATime
      <3> QED
        BY <1>1, <2>1, <3>1, <3>4, <3>5, ProcAssumption
        DEF MutexInv, OneRenewalAtATime, RenewMuFree, OneRenewer, doneClosed
    <2>3. CASE renewMu \notin Tunnel
      <3>1. renewMu = Renewal /\ renewer' = r /\ UNCHANGED call
        BY <1>1, <1>2, <1>3, <2>3 DEF Unlock
      <3>2. renewer = "renew"
        BY <3>1 DEF MutexInv, OneRenewalAtATime
      <3> QED
        BY <1>1, <2>1, <2>3, <3>1, <3>2, ProcAssumption
        DEF MutexInv, OneRenewalAtATime, RenewMuFree, OneRenewer, doneClosed
    <2> QED
      BY <2>2, <2>3
  <1>4. ASSUME UNCHANGED <<call, renewMu, renewer>>, work'.pc # "none"
        PROVE  MutexInv'
    BY <1>1, <1>4 DEF MutexInv, OneRenewalAtATime, RenewMuFree, OneRenewer, doneClosed
  <1>5. CASE WorkFails \/ RejectSwap \/ WriteStatus
    BY <1>3, <1>5 DEF WorkFails, RejectSwap, WriteStatus
  <1>6. CASE HaveOAuthToken \/ FetchForbidden \/ Activate \/ UpdateToken
    <2>1. /\ UNCHANGED <<call, renewMu, renewer>>
          /\ \E l \in WorkPC \ {"none"} : work' = [work EXCEPT !.pc = l]
      BY <1>6 DEF HaveOAuthToken, FetchForbidden, Activate, UpdateToken, WorkTo, WorkPC
    <2> QED
      BY <1>1, <1>4, <2>1 DEF WorkState
  <1>7. CASE FetchPass \/ UpdateImpossible \/ CreateSession \/ SwapSession \/ ReadStatus
    <2>1. UNCHANGED <<call, renewMu, renewer>>
      BY <1>7 DEF FetchPass, UpdateImpossible, CreateSession, SwapSession, ReadStatus
    <2>2. work'.pc # "none"
      BY <1>1, <1>7
      DEF FetchPass, UpdateImpossible, CreateSession, SwapSession, ReadStatus, WorkState
    <2> QED
      BY <1>4, <2>1, <2>2
  <1> QED
    BY <1>5, <1>6, <1>7 DEF WorkStep

\* The renewal loop starts a goroutine only when there is none.
LEMMA LoopKeepsMutex ==
    ASSUME TypeOK, MutexInv, LoopStep
    PROVE  MutexInv'
  <1>1. /\ loop \in [pc : LoopPC, timer : Nat, snap : Time] /\ renewer \in RenewerPC
        /\ UNCHANGED <<call, closer>>
    BY Types DEF LoopStep
  <1>2. ASSUME UNCHANGED <<renewMu, work>>, renewer' = "renew" <=> renewer = "renew"
        PROVE  OneRenewalAtATime'
    BY <1>1, <1>2 DEF MutexInv, OneRenewalAtATime, RenewMuFree
  <1>3. CASE RenewerLocks
    <2>1. /\ renewMu = NoProc /\ renewMu' = Renewal /\ work'.pc = "oauth"
          /\ renewer = "lock" /\ renewer' = "renew" /\ UNCHANGED loop
      BY <1>3 DEF RenewerLocks, RenewMuFree, StartWork, IdleWork
    <2>2. \A u \in Tunnel : call'[u].pc # "renew"
      BY <1>1, <2>1, ProcAssumption DEF MutexInv, OneRenewalAtATime
    <2> QED
      BY <1>1, <2>1, <2>2, ProcAssumption
      DEF MutexInv, OneRenewalAtATime, RenewMuFree, OneRenewer, doneClosed
  <1>4. CASE LoopWakes
    <2>1. /\ loop.pc = "sleep" /\ loop'.pc = "wait" /\ renewer' = "lock"
          /\ UNCHANGED <<renewMu, work>>
      BY <1>1, <1>4 DEF LoopWakes
    <2>2. renewer = "none"
      BY <2>1 DEF MutexInv, OneRenewer
    <2> QED
      BY <1>2, <2>1, <2>2 DEF MutexInv, OneRenewer
  <1>5. CASE LoopResult
    BY <1>2, <1>5 DEF LoopResult, MutexInv, OneRenewer
  <1>6. ASSUME UNCHANGED renewVars, OneRenewer'
        PROVE  MutexInv'
    BY <1>2, <1>6 DEF MutexInv, renewVars
  <1>7. CASE LoopTop
    <2>1. /\ loop.pc = "top" /\ UNCHANGED renewVars
          /\ IF closed \/ doneClosed THEN loop'.pc = "stopped" ELSE loop'.pc = "sleep"
      BY <1>1, <1>7 DEF LoopTop
    <2> QED
      BY <1>1, <1>6, <2>1 DEF MutexInv, OneRenewer, doneClosed, renewVars
  <1>8. CASE DisableExpired \/ LoopReadsStatus \/ LoopWritesStatus \/ LoopRetries
    <2>1. /\ loop.pc \in {"disable", "status", "write", "retry"} /\ UNCHANGED renewVars
      BY <1>8 DEF DisableExpired, LoopReadsStatus, LoopWritesStatus, LoopRetries
    <2>2. renewer' = "none"
      BY <2>1 DEF MutexInv, OneRenewer, renewVars
    <2> QED
      BY <1>6, <2>1, <2>2 DEF OneRenewer
  <1>9. CASE LoopTimesOut
    BY <1>1, <1>6, <1>9 DEF LoopTimesOut, MutexInv, OneRenewer, doneClosed, renewVars
  <1>10. CASE LoopInterrupted
    <2>1. doneClosed' /\ UNCHANGED renewVars
      BY <1>1, <1>10 DEF LoopInterrupted, doneClosed
    <2>2. loop'.pc \in {"top", "stopped"}
      BY <1>1, <1>10 DEF LoopInterrupted
    <2> QED
      BY <1>6, <2>1, <2>2 DEF OneRenewer
  <1> QED
    BY <1>3, <1>4, <1>5, <1>7, <1>8, <1>9, <1>10 DEF LoopStep

LEMMA MutexNext == IInv /\ MutexInv /\ [Next]_vars => MutexInv'
  <1> SUFFICES ASSUME IInv, MutexInv, [Next]_vars
               PROVE  MutexInv'
    OBVIOUS
  <1>1. /\ TypeOK /\ CallInv /\ WorkInv /\ AcceptInv
        /\ work \in WorkState /\ loop \in [pc : LoopPC, timer : Nat, snap : Time]
        /\ closer \in [pc : CloserPC, snap : Time]
    BY Types DEF IInv
  <1>2. ASSUME UNCHANGED <<call, renewMu, renewer>>, work'.pc = work.pc, loop'.pc = loop.pc,
               doneClosed => doneClosed'
        PROVE  MutexInv'
    BY <1>2 DEF MutexInv, OneRenewalAtATime, RenewMuFree, OneRenewer
  <1>3. CASE CloserStep
    <2>1. UNCHANGED <<call, renewMu, renewer, work, loop>> /\ doneClosed'
      BY <1>1, <1>3
      DEF CloserStep, CloseDone, CloseCurrent, CloseReadsStatus, CloseWritesStatus,
          renewVars, doneClosed
    <2> QED
      BY <1>2, <2>1
  <1>4. CASE Tick
    <2>1. /\ UNCHANGED <<call, renewMu, renewer>> /\ work'.pc = work.pc
          /\ loop'.pc = loop.pc /\ closer'.pc = closer.pc
      BY <1>1, <1>4 DEF Tick, WorkState
    <2> QED
      BY <1>2, <2>1 DEF doneClosed
  <1>5. CASE Panic \/ UNCHANGED vars
    BY <1>2, <1>5 DEF Panic, vars, renewVars, doneClosed
  <1> QED
    BY <1>1, <1>3, <1>4, <1>5, CallsKeepMutex, WorkKeepsMutex, LoopKeepsMutex DEF Next

\* For every number of tunnels and retries, renewLocked runs alone and never keeps
\* renewMu when it is over.
THEOREM RenewalsExclude == Spec => []OneRenewalAtATime
  <1>1. Init => MutexInv
    BY ProcAssumption
    DEF Init, MutexInv, OneRenewalAtATime, OneRenewer, RenewMuFree, IdleWork, IdleCall
  <1>2. MutexInv => OneRenewalAtATime
    BY DEF MutexInv
  <1> QED
    BY <1>1, <1>2, Inductive, MutexNext, PTL DEF Spec

-----------------------------------------------------------------------------
(* What follows from the refinement.                                       *)

Promise == INSTANCE SessionLease_Proofs WITH
    Session <- Managed,
    status <- [m \in Managed |-> IF ~ ms[m].attached THEN "none"
                                ELSE IF ms[m].accepting \/ m = work.fresh THEN "serving"
                                ELSE "draining"],
    leases <- [m \in Managed |-> ms[m].refs],
    down <- doneClosed

\* openTunnel calls ms.session without c.mu: as long as Close was not called, the
\* session it has leased is open, so that nobody meets the nil that NilSession panics
\* on; and a connection in use is not cut.
LeasedSessionIsOpen ==
    \A t \in Tunnel :
      call[t].pc \in HolderPC /\ ~ doneClosed => ms[call[t].held].attached

\* For every number of tunnels and sessions, the controller closes no session under a
\* tunnel, and its process does not panic, before Close.
THEOREM LeasedSessionsAreOpen == Spec => []LeasedSessionIsOpen
  <1>1. Spec => []Promise!LeaseKept
    <2>1. Lease!Init => Promise!Init
      BY DEF Lease!Init, Promise!Init
    <2>2. [Lease!Next]_Lease!vars => [Promise!Next]_Promise!vars
      BY Zenon DEF Lease!Next, Promise!Next, Lease!vars, Promise!vars, Lease!Shutdown,
         Promise!Shutdown, Lease!Open, Promise!Open, Lease!Lease, Promise!Lease,
         Lease!Return, Promise!Return, Lease!Retire, Promise!Retire, Lease!Kill, Promise!Kill
    <2>3. Spec => Promise!Spec
      BY <2>1, <2>2, ControllerIsLease, PTL DEF ImplementsLease, Lease!Spec, Promise!Spec
    <2> QED
      BY <2>3, Promise!LeasesAreKept, PTL
  <1>2. IInv /\ Promise!LeaseKept => LeasedSessionIsOpen
    <2> SUFFICES ASSUME IInv, Promise!LeaseKept, NEW t \in Tunnel,
                        call[t].pc \in HolderPC, ~ doneClosed
                 PROVE  ms[call[t].held].attached
      BY DEF LeasedSessionIsOpen
    <2> DEFINE m == call[t].held
    <2>1. m \in Managed /\ t \in Holders(m)
      BY DEF IInv, CallInv, Holders, HolderPC
    <2>2. ms[m].refs > 0
      BY <2>1, HeldIsCounted DEF IInv
    <2> QED
      BY <2>1, <2>2 DEF Promise!LeaseKept
  <1> QED
    BY <1>1, <1>2, Inductive, PTL

=============================================================================
