--------------------------- MODULE ProxyController ---------------------------
(***************************************************************************)
(* proxyController of cmd/proxy-demo/main.go: the current managed session, *)
(* the tunnels that lease it, the rebuilds they start when it fails, the   *)
(* renewal loop that replaces its proxy pass before it expires, and the    *)
(* status file the health check reads.                                     *)
(*                                                                         *)
(* One action is one critical section of c.mu, the taking of renewMu, or   *)
(* one external answer (an open, a call of the control plane, a dial).     *)
(* renewLocked runs under renewMu only, so its local state is one record,  *)
(* work.  Times are counted in ticks relative to now: ttl is               *)
(* c.current.expiresAt minus now, 0 being the very instant of expiry.      *)
(***************************************************************************)
EXTENDS Naturals, Integers, FiniteSets

CONSTANTS
    Managed,        \* identities of managedSession objects
    NoManaged,      \* a nil *managedSession
    Tunnel,         \* identities of openTunnel calls and their connections
    NoProc,         \* renewMu is not locked
    Renewal,        \* the goroutine of renewWithTimeout, as an owner of renewMu
    MaxRetries,     \* maxOpenTunnelRebuildRetries
    Lifetimes,      \* bound: lifetimes a fetched proxy pass may have, in ticks
    Lead,           \* proxyPassRenewLead
    RetryDelay,     \* proxyPassRetryDelay
    Patience,       \* proxyPassRenewTimeout
    Prompt          \* assumption on the clock: a pass is installed before it expires

ASSUME NilAssumption == NoManaged \notin Managed
ASSUME TunnelAssumption == IsFiniteSet(Tunnel)
ASSUME ProcAssumption == NoProc \notin Tunnel /\ Renewal \notin Tunnel /\ NoProc # Renewal
ASSUME TimeAssumption == /\ {MaxRetries, Lead, RetryDelay, Patience} \subseteq Nat
                         /\ Lifetimes \subseteq Nat
                         /\ Prompt \in BOOLEAN

VARIABLES
    current,    \* c.current
    ttl,        \* c.current.expiresAt
    closed,     \* c.closed
    ms,         \* the other fields of each managedSession
    call,       \* the local state of each openTunnel call
    renewMu,    \* the owner of c.renewMu
    work,       \* the local state of renewLocked
    renewer,    \* the goroutine of renewWithTimeout
    loop,       \* the local state of runRenewalLoop
    closer,     \* the local state of Close
    file,       \* proxy_pass_expires_at of the status file
    exited,     \* os.Exit was called, or a goroutine panicked
    blamed      \* history: an open failed on the current session since it was swapped in

renewVars == <<renewMu, work, renewer>>
vars == <<current, ttl, closed, ms, call, renewVars, loop, closer, file, exited, blamed>>

Time == Int                                  \* relative to now
Earlier(t) == IF t < 0 THEN -1 ELSE t - 1    \* one tick later; -1 is any past time
Expired == ttl < 0                           \* now.After(expiresAt)
NotBeforeExpiry == ttl <= 0                  \* ! now.Before(expiresAt)

-----------------------------------------------------------------------------
(* managedSession: attached says that its session field is not nil.        *)

\* maybeCloseLocked
MaybeClosed(r) == [r EXCEPT !.attached = @ /\ (r.accepting \/ r.refs > 0)]

WithRefs(m, n) == [ms EXCEPT ![m] = MaybeClosed([@ EXCEPT !.refs = n])]
Acquired(m) == [ms EXCEPT ![m].refs = @ + 1]

\* releaseSession.  Mutation: without maybeCloseLocked.
ReleasedOnly(m) == [ms EXCEPT ![m].refs = @ - 1]
Released(m) == WithRefs(m, ms[m].refs - 1)

\* accepting = false, then maybeCloseLocked.
Disabled(m) == [ms EXCEPT ![m] = MaybeClosed([@ EXCEPT !.accepting = FALSE])]

\* markSessionUnusable.  Mutation: the session is not compared with the current one.
MarkedCurrent(m) == Disabled(current)
MarkedUnusable(m) == IF m = current THEN Disabled(m) ELSE ms

-----------------------------------------------------------------------------
(* openTunnel.                                                             *)
(*   "acquire"  about to call acquireSession                               *)
(*   "failed"   acquireSession failed, about to call isClosed              *)
(*   "open"     holds a session, about to read ms.session                  *)
(*   "opening"  waits for OpenTunnel of the session                        *)
(*   "release"  has marked the session unusable, still holds it            *)
(*   "lock"     in rebuildSession, waits for renewMu                       *)
(*   "renew"    in rebuildSession, owns renewMu                            *)
(*   "held"     returned a connection that holds the session               *)
(*   "shut"     the connection was closed and may be closed again          *)

CallPC == {"idle", "acquire", "failed", "open", "opening", "release", "lock",
           "renew", "held", "shut"}
IdleCall == [pc |-> "idle", attempt |-> 0, held |-> NoManaged]
Goto(t, l) == call' = [call EXCEPT ![t].pc = l]
Return(t) == call' = [call EXCEPT ![t] = IdleCall]

\* The end of an attempt: the last one returns lastErr, the others rebuild.
\* Mutations: one attempt too many; attempts are not counted.
RetryOnceMore(t) == IF call[t].attempt > MaxRetries THEN Return(t) ELSE Goto(t, "lock")
AlwaysRetry(t) == call' = [call EXCEPT ![t].pc = "lock", ![t].attempt = 0]
RetryOrReturn(t) == IF call[t].attempt = MaxRetries THEN Return(t) ELSE Goto(t, "lock")
NextAttempt(t) ==
    call' = [call EXCEPT ![t] = [pc |-> "acquire", attempt |-> @.attempt + 1, held |-> NoManaged]]

StartCall(t) ==
    /\ call[t].pc = "idle"
    /\ Goto(t, "acquire")
    /\ UNCHANGED <<current, ttl, closed, ms, renewVars>>

\* The guard of acquireSession.  Mutation: accepting is not looked at.
AcquirableUnlessExpired == ~ closed /\ ~ Expired
Acquirable == ~ closed /\ ms[current].accepting /\ ~ Expired

Acquire(t) ==
    /\ call[t].pc = "acquire"
    /\ Acquirable
    /\ ms' = Acquired(current)
    /\ call' = [call EXCEPT ![t].pc = "open", ![t].held = current]
    /\ UNCHANGED <<current, ttl, closed, renewVars>>

AcquireFails(t) ==
    /\ call[t].pc = "acquire"
    /\ ~ Acquirable
    /\ ms' = IF ~ closed /\ ms[current].accepting THEN Disabled(current) ELSE ms
    /\ Goto(t, "failed")
    /\ UNCHANGED <<current, ttl, closed, renewVars>>

CheckClosed(t) ==
    /\ call[t].pc = "failed"
    /\ IF closed THEN Return(t) ELSE RetryOrReturn(t)
    /\ UNCHANGED <<current, ttl, closed, ms, renewVars>>

\* ms.session is read without c.mu; NilSession is the other outcome.
CallSession(t) ==
    /\ call[t].pc = "open"
    /\ ms[call[t].held].attached
    /\ Goto(t, "opening")
    /\ UNCHANGED <<current, ttl, closed, ms, renewVars>>

OpenSucceeds(t) ==
    /\ call[t].pc = "opening"
    /\ Goto(t, "held")
    /\ UNCHANGED <<current, ttl, closed, ms, renewVars>>

OpenTargetError(t) ==
    /\ call[t].pc = "opening"
    /\ ms' = Released(call[t].held)
    /\ Return(t)
    /\ UNCHANGED <<current, ttl, closed, renewVars>>

OpenBroken(t) ==
    /\ call[t].pc = "opening"
    /\ ms' = MarkedUnusable(call[t].held)
    /\ blamed' = (blamed \/ call[t].held = current)
    /\ Goto(t, "release")
    /\ UNCHANGED <<current, ttl, closed, renewVars>>

ReleaseFailed(t) ==
    /\ call[t].pc = "release"
    /\ ms' = Released(call[t].held)
    /\ RetryOrReturn(t)
    /\ UNCHANGED <<current, ttl, closed, renewVars>>

\* The sync.Once of managedTunnelConn.  Mutation: every Close releases.
ReleasedByEveryClose(t) == Released(call[t].held)
ReleasedByClose(t) == IF call[t].pc = "held" THEN Released(call[t].held) ELSE ms

CloseTunnel(t) ==
    /\ call[t].pc \in {"held", "shut"}
    /\ ms' = ReleasedByClose(t)
    /\ IF call[t].pc = "held" THEN Goto(t, "shut") ELSE Return(t)
    /\ UNCHANGED <<current, ttl, closed, renewVars>>

\* renewMu.Lock returns.
RenewMuFree == renewMu = NoProc

\* hasUsableSessionOtherThan.
OtherUsable(m) ==
    ~ closed /\ ms[current].accepting /\ current # m /\ ~ NotBeforeExpiry

IdleWork == [pc |-> "none", pass |-> -1, fresh |-> NoManaged, refused |-> FALSE, snap |-> -1]
StartWork(p) == renewMu' = p /\ work' = [IdleWork EXCEPT !.pc = "oauth"]

\* rebuildSession: takes renewMu and looks again before it renews.  (The mutex is
\* given back at once when another session is usable.)
Rebuild(t) ==
    /\ call[t].pc = "lock"
    /\ RenewMuFree
    /\ IF OtherUsable(call[t].held)
       THEN NextAttempt(t) /\ UNCHANGED <<renewMu, work>>
       ELSE StartWork(t) /\ Goto(t, "renew")
    /\ UNCHANGED <<current, ttl, closed, ms, renewer>>

-----------------------------------------------------------------------------
(* renewLocked, under renewMu, for a tunnel or for the renewal goroutine.  *)

WorkPC == {"none", "oauth", "fetch", "activate", "refetch", "update", "create",
           "swap", "status", "write"}
WorkTo(l) == work' = [work EXCEPT !.pc = l] /\ UNCHANGED <<call, renewMu, renewer>>

\* renewLocked returns and renewMu is unlocked; a tunnel makes its next attempt
\* whatever the result, the renewal loop looks at it.
Unlock(result) ==
    /\ renewMu' = NoProc
    /\ work' = IdleWork
    /\ IF renewMu \in Tunnel
       THEN NextAttempt(renewMu) /\ UNCHANGED renewer
       ELSE renewer' = result /\ UNCHANGED call

\* Any of the external calls returns an error.
WorkFails ==
    /\ work.pc \in {"oauth", "fetch", "activate", "refetch", "create"}
    /\ Unlock("error")
    /\ UNCHANGED <<current, ttl, closed, ms, file>>

\* ensureOAuthToken: the access token is valid or was refreshed.
HaveOAuthToken ==
    /\ work.pc = "oauth"
    /\ WorkTo("fetch")
    /\ UNCHANGED <<current, ttl, closed, ms, file>>

FetchPass ==
    /\ work.pc \in {"fetch", "refetch"}
    /\ \E life \in Lifetimes : work' = [work EXCEPT !.pc = "update", !.pass = life]
    /\ UNCHANGED <<current, ttl, closed, ms, call, renewMu, renewer, file>>

\* 403: the account is activated and the pass fetched once more.
FetchForbidden ==
    /\ work.pc = "fetch"
    /\ WorkTo("activate")
    /\ UNCHANGED <<current, ttl, closed, ms, file>>

Activate ==
    /\ work.pc = "activate"
    /\ WorkTo("refetch")
    /\ UNCHANGED <<current, ttl, closed, ms, file>>

\* The guard of updateCurrentSessionToken.  Mutation: every renewal
\* replaces the session.
NeverUpdatable == FALSE
Updatable == ~ closed /\ ms[current].accepting /\ ~ NotBeforeExpiry

\* updateCurrentSessionToken: the current session takes the new token and expiry.
UpdateToken ==
    /\ work.pc = "update"
    /\ Updatable
    /\ ttl' = work.pass
    /\ WorkTo("status")
    /\ UNCHANGED <<current, closed, ms, file>>

\* The current session cannot be updated; or it is a pool that has no usable
\* session at the moment and refuses the token.
UpdateImpossible ==
    /\ work.pc = "update"
    /\ work' = [work EXCEPT !.pc = "create", !.refused = Updatable]
    /\ UNCHANGED <<current, ttl, closed, ms, call, renewMu, renewer, file>>

Unreferenced(m) ==
    /\ m # current
    /\ ~ ms[m].attached
    /\ ms[m].refs = 0
    /\ \A t \in Tunnel : call[t].held # m

CreateSession ==
    /\ work.pc = "create"
    /\ \E m \in Managed :
         /\ Unreferenced(m)
         /\ ms' = [ms EXCEPT ![m] = [attached |-> TRUE, accepting |-> FALSE, refs |-> 0]]
         /\ work' = [work EXCEPT !.pc = "swap", !.fresh = m]
    /\ UNCHANGED <<current, ttl, closed, call, renewMu, renewer, file>>

\* swapSession.  Mutation: closed is not looked at.
NeverRejected == FALSE
SwapRejected == closed

SwapSession ==
    /\ work.pc = "swap"
    /\ ~ SwapRejected
    /\ current' = work.fresh
    /\ ttl' = work.pass
    /\ ms' = [Disabled(current) EXCEPT ![work.fresh].accepting = TRUE]
    /\ work' = [work EXCEPT !.pc = "status", !.fresh = NoManaged]
    /\ blamed' = FALSE
    /\ UNCHANGED <<closed, call, renewMu, renewer, file>>

RejectSwap ==
    /\ work.pc = "swap"
    /\ SwapRejected
    /\ ms' = [ms EXCEPT ![work.fresh].attached = FALSE]
    /\ Unlock("error")
    /\ UNCHANGED <<current, ttl, closed, file>>

\* writeStatus: the status is read under c.mu, then the file is replaced.
ReadStatus ==
    /\ work.pc = "status"
    /\ work' = [work EXCEPT !.pc = "write", !.snap = ttl]
    /\ UNCHANGED <<current, ttl, closed, ms, call, renewMu, renewer, file>>

WriteStatus ==
    /\ work.pc = "write"
    /\ file' = work.snap
    /\ Unlock("ok")
    /\ UNCHANGED <<current, ttl, closed, ms>>

-----------------------------------------------------------------------------
(* runRenewalLoop and the goroutine of renewWithTimeout.                   *)

LoopPC == {"top", "sleep", "wait", "disable", "status", "write", "retry", "stopped"}
RenewerPC == {"none", "lock", "renew", "ok", "error"}
doneClosed == closer.pc # "none"

\* nextRenewalDelay: the timer is set once, from the expiry of this moment.
RenewalDelay == IF ttl < Lead THEN 0 ELSE ttl - Lead

\* A sleep that starts after c.done was closed ends at once.
LoopTop ==
    /\ loop.pc = "top"
    /\ loop' = IF closed \/ doneClosed THEN [loop EXCEPT !.pc = "stopped"]
               ELSE [loop EXCEPT !.pc = "sleep", !.timer = RenewalDelay]
    /\ UNCHANGED <<ms, renewVars, file, exited>>

LoopWakes ==
    /\ loop.pc = "sleep"
    /\ loop.timer = 0
    /\ loop' = [loop EXCEPT !.pc = "wait", !.timer = Patience]
    /\ renewer' = "lock"
    /\ UNCHANGED <<ms, renewMu, work, file, exited>>

RenewerLocks ==
    /\ renewer = "lock"
    /\ RenewMuFree
    /\ StartWork(Renewal)
    /\ renewer' = "renew"
    /\ UNCHANGED <<ms, loop, file, exited>>

\* Mutation: an error ends the loop.
ErrorStopsLoop == IF renewer = "ok" THEN "top" ELSE "stopped"
AfterResult == IF renewer = "ok" THEN "top" ELSE "disable"

LoopResult ==
    /\ loop.pc = "wait"
    /\ renewer \in {"ok", "error"}
    /\ loop' = [loop EXCEPT !.pc = AfterResult, !.timer = 0]
    /\ renewer' = "none"
    /\ UNCHANGED <<ms, renewMu, work, file, exited>>

\* The renewal, or its wait for renewMu, took too long: os.Exit(1).
LoopTimesOut ==
    /\ loop.pc = "wait"
    /\ loop.timer = 0
    /\ exited' = TRUE
    /\ UNCHANGED <<ms, loop, renewVars, file>>

\* disableExpiredSession and its writeStatus("expired"), outside renewMu.
ExpiredAccepting == ms[current].accepting /\ NotBeforeExpiry

DisableExpired ==
    /\ loop.pc = "disable"
    /\ IF ExpiredAccepting
       THEN ms' = Disabled(current) /\ loop' = [loop EXCEPT !.pc = "status"]
       ELSE UNCHANGED ms /\ loop' = [loop EXCEPT !.pc = "retry", !.timer = RetryDelay]
    /\ UNCHANGED <<renewVars, file, exited>>

LoopReadsStatus ==
    /\ loop.pc = "status"
    /\ loop' = [loop EXCEPT !.pc = "write", !.snap = ttl]
    /\ UNCHANGED <<ms, renewVars, file, exited>>

LoopWritesStatus ==
    /\ loop.pc = "write"
    /\ file' = loop.snap
    /\ loop' = [pc |-> "retry", timer |-> RetryDelay, snap |-> -1]
    /\ UNCHANGED <<ms, renewVars, exited>>

LoopRetries ==
    /\ loop.pc = "retry"
    /\ loop.timer = 0
    /\ loop' = [loop EXCEPT !.pc = "top"]
    /\ UNCHANGED <<ms, renewVars, file, exited>>

\* c.done ends both sleeps for good, and the wait for a result with no error.
LoopInterrupted ==
    /\ doneClosed
    /\ \/ loop.pc \in {"sleep", "retry"} /\ loop' = [loop EXCEPT !.pc = "stopped", !.timer = 0]
       \/ loop.pc = "wait" /\ loop' = [loop EXCEPT !.pc = "top", !.timer = 0]
    /\ UNCHANGED <<ms, renewVars, file, exited>>

-----------------------------------------------------------------------------
(* Close, the clock and the two ways in which the process ends.            *)

CloserPC == {"none", "lock", "status", "write", "end"}

CloseDone ==
    /\ closer.pc = "none"
    /\ closer' = [closer EXCEPT !.pc = "lock"]
    /\ UNCHANGED <<closed, ms, file>>

\* The current session is closed under its holders; draining ones are left to them.
CloseCurrent ==
    /\ closer.pc = "lock"
    /\ closed' = TRUE
    /\ ms' = [ms EXCEPT ![current].accepting = FALSE, ![current].attached = FALSE]
    /\ closer' = [closer EXCEPT !.pc = "status"]
    /\ UNCHANGED file

CloseReadsStatus ==
    /\ closer.pc = "status"
    /\ closer' = [pc |-> "write", snap |-> ttl]
    /\ UNCHANGED <<closed, ms, file>>

CloseWritesStatus ==
    /\ closer.pc = "write"
    /\ file' = closer.snap
    /\ closer' = [pc |-> "end", snap |-> -1]
    /\ UNCHANGED <<closed, ms>>

\* A call through a nil interface: the panic ends the process.
NilSession(t) ==
    /\ call[t].pc = "open"
    /\ ~ ms[call[t].held].attached
    /\ exited' = TRUE

Tick ==
    /\ Prompt /\ work.pc \in {"update", "create", "swap"} => work.pass > 1
    /\ ttl' = Earlier(ttl)
    /\ file' = Earlier(file)
    /\ work' = [work EXCEPT !.pass = Earlier(@), !.snap = Earlier(@)]
    /\ loop' = [loop EXCEPT !.timer = IF @ = 0 THEN 0 ELSE @ - 1, !.snap = Earlier(@)]
    /\ closer' = [closer EXCEPT !.snap = Earlier(@)]
    /\ UNCHANGED <<current, closed, ms, call, renewMu, renewer, exited, blamed>>

-----------------------------------------------------------------------------
\* newProxyController: the first session is up and the startup status written.
Init ==
    /\ current \in Managed
    /\ ttl \in Lifetimes
    /\ closed = FALSE
    /\ ms = [m \in Managed |-> [attached |-> m = current, accepting |-> m = current, refs |-> 0]]
    /\ call = [t \in Tunnel |-> IdleCall]
    /\ renewMu = NoProc
    /\ work = IdleWork
    /\ renewer = "none"
    /\ loop = [pc |-> "top", timer |-> 0, snap |-> -1]
    /\ closer = [pc |-> "none", snap |-> -1]
    /\ file = ttl
    /\ exited = FALSE
    /\ blamed = FALSE

CallStep(t) ==
    /\ ~ exited
    /\ \/ OpenBroken(t)
       \/ /\ \/ StartCall(t) \/ Acquire(t) \/ AcquireFails(t) \/ CheckClosed(t)
             \/ CallSession(t) \/ OpenSucceeds(t) \/ OpenTargetError(t)
             \/ ReleaseFailed(t) \/ CloseTunnel(t) \/ Rebuild(t)
          /\ UNCHANGED blamed
    /\ UNCHANGED <<loop, closer, file, exited>>

WorkStep ==
    /\ ~ exited
    /\ \/ SwapSession
       \/ /\ \/ WorkFails \/ HaveOAuthToken \/ FetchPass \/ FetchForbidden \/ Activate
             \/ UpdateToken \/ UpdateImpossible \/ CreateSession
             \/ RejectSwap \/ ReadStatus \/ WriteStatus
          /\ UNCHANGED blamed
    /\ UNCHANGED <<loop, closer, exited>>

LoopStep ==
    /\ ~ exited
    /\ \/ LoopTop \/ LoopWakes \/ RenewerLocks \/ LoopResult \/ LoopTimesOut
       \/ DisableExpired \/ LoopReadsStatus \/ LoopWritesStatus \/ LoopRetries
       \/ LoopInterrupted
    /\ UNCHANGED <<current, ttl, closed, call, closer, blamed>>

CloserStep ==
    /\ ~ exited
    /\ CloseDone \/ CloseCurrent \/ CloseReadsStatus \/ CloseWritesStatus
    /\ UNCHANGED <<current, ttl, call, renewVars, loop, exited, blamed>>

Panic ==
    /\ ~ exited
    /\ \E t \in Tunnel : NilSession(t)
    /\ UNCHANGED <<current, ttl, closed, ms, call, renewVars, loop, closer, file, blamed>>

Next ==
    \/ \E t \in Tunnel : CallStep(t)
    \/ WorkStep
    \/ LoopStep
    \/ CloserStep
    \/ Panic
    \/ ~ exited /\ Tick

Spec == Init /\ [][Next]_vars

-----------------------------------------------------------------------------
(* Properties.                                                             *)

TypeOK ==
    /\ current \in Managed
    /\ ttl \in Time
    /\ closed \in BOOLEAN
    /\ ms \in [Managed -> [attached : BOOLEAN, accepting : BOOLEAN, refs : Nat]]
    /\ call \in [Tunnel -> [pc : CallPC, attempt : 0 .. MaxRetries,
                            held : Managed \union {NoManaged}]]
    /\ renewMu \in Tunnel \union {Renewal, NoProc}
    /\ work \in [pc : WorkPC, pass : Time, fresh : Managed \union {NoManaged},
                 refused : BOOLEAN, snap : Time]
    /\ renewer \in RenewerPC
    /\ loop \in [pc : LoopPC, timer : Nat, snap : Time]
    /\ closer \in [pc : CloserPC, snap : Time]
    /\ file \in Time
    /\ exited \in BOOLEAN
    /\ blamed \in BOOLEAN

Holders(m) == {t \in Tunnel : /\ call[t].held = m
                             /\ call[t].pc \in {"open", "opening", "release", "held"}}

\* The reference count of a managed session is the number of openTunnel calls and
\* connections that hold it: no error path and no double Close loses or repeats
\* a release.
RefsMatchHolders == \A m \in Managed : ms[m].refs = Cardinality(Holders(m))

\* An open session is the current one that accepts tunnels, or one about to be
\* swapped in, or a draining one that its last holder will close.
NoOrphanSession ==
    \A m \in Managed :
      ms[m].attached => ms[m].accepting \/ m = work.fresh \/ ms[m].refs > 0

\* OPERATOR.md, on stability: a renewal keeps the session; the session changes only
\* if it expired, was marked unusable or refused the new token.
SessionKeptWhileUsable ==
    [][current' # current =>
         ~ ms[current].accepting \/ NotBeforeExpiry \/ work.refused]_vars

\* The current session is out of service only if an open failed on this very session
\* or its pass has run out: a tunnel that learns late of the failure of a session
\* that was replaced meanwhile, and a renewal loop that wakes up to a failed renewal
\* after a tunnel has rebuilt the session, do not take the replacement away.
OutOfServiceForCause ==
    ~ closed /\ ~ ms[current].accepting => blamed \/ NotBeforeExpiry

\* The controller is a SessionLease: tunnels drain from a session that was swapped
\* out, expired or failed, and only Close cuts them off.
Lease == INSTANCE SessionLease WITH
    Session <- Managed,
    status <- [m \in Managed |-> IF ~ ms[m].attached THEN "none"
                                ELSE IF ms[m].accepting \/ m = work.fresh THEN "serving"
                                ELSE "draining"],
    leases <- [m \in Managed |-> ms[m].refs],
    down <- doneClosed
ImplementsLease == Lease!Spec

-----------------------------------------------------------------------------
(* Liveness.  Goroutines are scheduled and every external call returns (all *)
(* have timeouts); renewMu is a sync.Mutex, whose starvation mode serves    *)
(* each waiter in the end; time passes; and the control plane and the       *)
(* upstream do not fail for ever.                                           *)

CallsReturn(t) ==
    /\ WF_vars(CallStep(t) /\ call[t].pc \notin {"idle", "held", "lock"})
    /\ SF_vars(CallStep(t) /\ call[t].pc = "lock")

ControlPlaneRecovers ==
    /\ SF_vars(WorkStep /\ work.pc = "oauth" /\ work'.pc = "fetch")
    /\ SF_vars(WorkStep /\ work.pc = "fetch" /\ work'.pc = "update")
    /\ SF_vars(WorkStep /\ work.pc = "create" /\ work'.pc = "swap")

Fairness ==
    /\ \A t \in Tunnel : CallsReturn(t)
    /\ WF_vars(WorkStep)
    /\ WF_vars(LoopStep /\ renewer' # "renew")
    /\ SF_vars(LoopStep /\ renewer' = "renew")
    /\ WF_vars(CloserStep /\ closer.pc # "none")
    /\ WF_vars(Panic)
    /\ WF_vars(~ exited /\ Tick)

FairSpec == Spec /\ Fairness
RecoverySpec == FairSpec /\ ControlPlaneRecovers

\* openTunnel returns, although it may wait for renewMu behind every other caller
\* and go through MaxRetries rebuilds.
OpenReturns ==
    \A t \in Tunnel : call[t].pc = "acquire" ~> call[t].pc \in {"held", "idle"} \/ exited

\* Service comes back: an expired or broken session is replaced, or the process
\* exits for its supervisor to restart it, even if no client opens a tunnel.
ServiceRecovers ==
    ~ ms[current].accepting \/ NotBeforeExpiry
      ~> (ms[current].accepting /\ ~ NotBeforeExpiry) \/ exited \/ doneClosed

\* After Close no session stays open but those that a client still holds, and the
\* renewal loop ends.
CloseStopsEverything ==
    doneClosed ~>
      [](\/ exited
         \/ /\ loop.pc = "stopped"
            /\ \A m \in Managed : ms[m].attached => ms[m].refs > 0)

\* What the health check takes the status file for (OPERATOR.md, health check, step
\* 2): when no writer is at work, it shows an expired pass only if the current
\* pass has expired.
StatusShowsCurrentPass ==
    /\ work.pc \notin {"status", "write"}
    /\ loop.pc \notin {"status", "write"}
    /\ closer.pc = "none"
    => (file < 0 => Expired)

=============================================================================
