--------------------------- MODULE UpstreamSession ---------------------------
(***************************************************************************)
(* h2ProxySession and h3ProxySession of cmd/proxy-demo/main.go, which      *)
(* differ only in their transport: OpenTunnel with the round trip it       *)
(* starts and may leave behind (roundTripWithOpenTimeout), the failure     *)
(* tracker, the verdict the controller and the pool draw from an error,    *)
(* and the tunnelConn.                                                     *)
(*                                                                         *)
(* An OpenTunnel is up to three goroutines: the call itself, the round     *)
(* trip, and the cleaner that waits for an answer that comes too late.     *)
(* A timer may fire at any time: no property depends on how long it is.    *)
(* The bearer token is in ProxySessionPool and ProxyController.            *)
(***************************************************************************)
EXTENDS Naturals, Sequences, FiniteSets

CONSTANTS
    Open,           \* identities of OpenTunnel calls and their tunnels
    Target,         \* authorities
    NoTarget,       \* none of them
    Timed,          \* whether there is an open timeout
    MaxDistinct,    \* maxDistinctOpenTimeoutTargets = maxDistinctBadGatewayTargets
    MaxOpens        \* bound: OpenTunnel calls

ASSUME TargetAssumption == NoTarget \notin Target
ASSUME BoundAssumption == MaxOpens \in Nat /\ MaxDistinct \in Nat \ {0} /\ Timed \in BOOLEAN

VARIABLES
    conn,       \* the transport: "up", or "down" when it was lost or closed
    failed,     \* the target sets of sessionFailureTracker
    call,       \* OpenTunnel
    trip,       \* the round trip with its context, request pipe and response body
    cleaner,    \* the goroutine, if any, that waits for a late answer
    seen        \* history: the failures that may make a streak, with the verdicts on
                \* them, and that something else came in between

vars == <<conn, failed, call, trip, cleaner, seen>>

\* What a proxy answers: 2xx, 502, one of 401, 403, 407, or another status.
Status == {"ok", "gateway", "auth", "other"}
\* The errors of a round trip: the request cannot be built, its stream is reset,
\* the connection is gone.
TripError == {"request", "reset", "lost"}
Outcome == Status \cup TripError \cup {"timeout"}

NoFailures == [timeout |-> {}, gateway |-> {}]
NoCall == [pc |-> "idle", target |-> NoTarget, out |-> "none"]
NoTrip == [pc |-> "none", out |-> "none", live |-> FALSE, pipe |-> "closed", body |-> FALSE]

-----------------------------------------------------------------------------
(* The round trip.                                                         *)

\* resultCh has room for the result, the goroutine ends.
Answered(o, out, body) ==
    trip' = [trip EXCEPT ![o].pc = "done", ![o].out = out, ![o].body = body]

\* http.NewRequestWithContext rejects the authority.
BuildFails(o) ==
    /\ trip[o].pc = "build"
    /\ Answered(o, "request", FALSE)
    /\ UNCHANGED <<conn, failed, call, cleaner, seen>>

Send(o) ==
    /\ trip[o].pc = "build"
    /\ trip' = [trip EXCEPT ![o].pc = "sent"]
    /\ UNCHANGED <<conn, failed, call, cleaner, seen>>

\* The transport may see the answer before the cancellation.
Answer(o, status) ==
    /\ trip[o].pc = "sent"
    /\ conn = "up"
    /\ Answered(o, status, TRUE)
    /\ UNCHANGED <<conn, failed, call, cleaner, seen>>

Reset(o) ==
    /\ trip[o].pc = "sent"
    /\ conn = "up"
    /\ Answered(o, "reset", FALSE)
    /\ UNCHANGED <<conn, failed, call, cleaner, seen>>

\* The connection is gone, or the transport sees the cancellation.
TripFails(o) ==
    /\ trip[o].pc = "sent"
    /\ conn # "up" \/ ~ trip[o].live
    /\ Answered(o, "lost", FALSE)
    /\ UNCHANGED <<conn, failed, call, cleaner, seen>>

-----------------------------------------------------------------------------
(* sessionFailureTracker and shouldRebuildProxySession.                    *)

Counted == {"timeout", "gateway"}

\* observe.  Mutations: every failure counts, not every target; a failure of one
\* kind does not end a streak of the other.
TrackedFailures(out, t) ==
    IF out \in Counted
    THEN [NoFailures EXCEPT ![out] = failed[out] \cup {Cardinality(failed[out])}]
    ELSE NoFailures
TrackedApart(out, t) ==
    IF out \in Counted THEN [failed EXCEPT ![out] = @ \cup {t}] ELSE NoFailures
Tracked(out, t) ==
    IF out \in Counted THEN [NoFailures EXCEPT ![out] = failed[out] \cup {t}] ELSE NoFailures

Unhealthy(out, t) == out \in Counted /\ Cardinality(Tracked(out, t)[out]) >= MaxDistinct

ShouldRebuild(out, t) ==
    \/ Unhealthy(out, t)
    \/ out \in {"auth"} \cup TripError

-----------------------------------------------------------------------------
(* OpenTunnel.                                                             *)

\* The pipe and the context are created and the round trip starts.
StartOpen(o, t) ==
    /\ call[o].pc = "idle"
    /\ trip[o].pc \in {"none", "done"} /\ ~ cleaner[o]
    /\ Len(seen) + Cardinality({p \in Open : call[p].pc \in {"select", "observe"}}) < MaxOpens
    /\ call' = [call EXCEPT ![o] = [NoCall EXCEPT !.pc = "select", !.target = t]]
    /\ trip' = [trip EXCEPT ![o] = [NoTrip EXCEPT !.pc = "build", !.live = TRUE,
                                                  !.pipe = "open"]]
    /\ UNCHANGED <<conn, failed, cleaner, seen>>

\* What an error or a status other than 2xx leaves of a round trip: the context is
\* cancelled, the body read and closed, the pipe closed at both ends.  Mutations:
\* cancel is deferred, or called for errors only.
Taken(r) == [r EXCEPT !.pc = "none", !.out = "none"]
Released(r) == [Taken(r) EXCEPT !.live = FALSE, !.pipe = "closed", !.body = FALSE]
CancelDeferred(r) == IF r.out = "ok" THEN [Taken(r) EXCEPT !.live = FALSE] ELSE Released(r)
ReleasedOnError(r) == IF r.out \in Status THEN Taken(r) ELSE Released(r)
ReleasedUnlessOpen(r) == IF r.out = "ok" THEN Taken(r) ELSE Released(r)

TakeResult(o) ==
    /\ call[o].pc = "select"
    /\ trip[o].pc = "done"
    /\ call' = [call EXCEPT ![o].pc = "observe", ![o].out = trip[o].out]
    /\ trip' = [trip EXCEPT ![o] = ReleasedUnlessOpen(@)]
    /\ UNCHANGED <<conn, failed, cleaner, seen>>

\* The timer of the open; it is left out where the timeout is 0.
TimerFired(o) == Timed

\* Mutation of Abandoned: the context is left alone.
PipeClosed(r) == [r EXCEPT !.pipe = "closed"]
Abandoned(r) == [r EXCEPT !.live = FALSE, !.pipe = "closed"]

TimesOut(o) ==
    /\ call[o].pc = "select"
    /\ TimerFired(o)
    /\ call' = [call EXCEPT ![o].pc = "observe", ![o].out = "timeout"]
    /\ trip' = [trip EXCEPT ![o] = Abandoned(@)]
    /\ cleaner' = [cleaner EXCEPT ![o] = TRUE]
    /\ UNCHANGED <<conn, failed, seen>>

\* observe, the return, and the caller's verdict.
Observe(o) ==
    LET t == call[o].target
        out == call[o].out
    IN  /\ call[o].pc = "observe"
        /\ failed' = Tracked(out, t)
        /\ seen' = Append(seen, [target |-> IF out \in Counted THEN t ELSE NoTarget,
                                 out |-> IF out \in Counted THEN out ELSE "else",
                                 rebuild |-> out \in Counted /\ ShouldRebuild(out, t)])
        /\ call' = [call EXCEPT ![o] =
                      IF out = "ok" THEN [NoCall EXCEPT !.pc = "held"] ELSE NoCall]
        /\ UNCHANGED <<conn, trip, cleaner>>

\* The cleaner.
CleanerTakes(o) ==
    /\ cleaner[o]
    /\ trip[o].pc = "done"
    /\ trip' = [trip EXCEPT ![o] = Released(@)]
    /\ cleaner' = [cleaner EXCEPT ![o] = FALSE]
    /\ UNCHANGED <<conn, failed, call, seen>>

CleanerExpires(o) ==
    /\ cleaner[o]
    /\ cleaner' = [cleaner EXCEPT ![o] = FALSE]
    /\ UNCHANGED <<conn, failed, call, trip, seen>>

-----------------------------------------------------------------------------
(* The tunnelConn and the session.                                         *)

\* CloseWrite: the upstream sees the end of the request.
WriterClosed(r) == [r EXCEPT !.pipe = "shut"]

CloseWrite(o) ==
    /\ call[o].pc = "held"
    /\ trip[o].pipe = "open"
    /\ trip' = [trip EXCEPT ![o] = WriterClosed(@)]
    /\ UNCHANGED <<conn, failed, call, cleaner, seen>>

CloseTunnel(o) ==
    /\ call[o].pc = "held"
    /\ call' = [call EXCEPT ![o] = NoCall]
    /\ trip' = [trip EXCEPT ![o] = Released(@)]
    /\ UNCHANGED <<conn, failed, cleaner, seen>>

\* The proxy or the network drops the connection, or a PING is not answered.
LoseConn ==
    /\ conn = "up"
    /\ conn' = "down"
    /\ UNCHANGED <<failed, call, trip, cleaner, seen>>

Close ==
    /\ conn = "up"
    /\ conn' = "down"
    /\ UNCHANGED <<failed, call, trip, cleaner, seen>>

\* A dead session without a call, a tunnel or a round trip is garbage.
Garbage ==
    /\ conn = "down"
    /\ \A o \in Open : /\ call[o].pc = "idle" /\ ~ cleaner[o]
                       /\ trip[o].pc \in {"none", "done"}
    /\ UNCHANGED vars

-----------------------------------------------------------------------------
Init ==
    /\ conn = "up"
    /\ failed = NoFailures
    /\ call = [o \in Open |-> NoCall]
    /\ trip = [o \in Open |-> NoTrip]
    /\ cleaner = [o \in Open |-> FALSE]
    /\ seen = <<>>

CallStep(o) == TakeResult(o) \/ TimesOut(o) \/ Observe(o)
BuildStep(o) == BuildFails(o) \/ Send(o)
ProxyStep(o) == Reset(o) \/ \E status \in Status : Answer(o, status)
CleanerStep(o) == CleanerTakes(o) \/ CleanerExpires(o)
TunnelStep(o) == CloseWrite(o) \/ CloseTunnel(o)

Next ==
    \/ \E o \in Open :
         \/ \E t \in Target : StartOpen(o, t)
         \/ CallStep(o) \/ BuildStep(o) \/ ProxyStep(o) \/ TripFails(o)
         \/ CleanerStep(o) \/ TunnelStep(o)
    \/ LoseConn
    \/ Close
    \/ Garbage

Spec == Init /\ [][Next]_vars

-----------------------------------------------------------------------------
(* Properties.                                                             *)

TypeOK ==
    /\ conn \in {"up", "down"}
    /\ failed \in [Counted -> SUBSET Target]
    /\ call \in [Open -> [pc : {"idle", "select", "observe", "held"},
                          target : Target \cup {NoTarget},
                          out : Outcome \cup {"none"}]]
    /\ trip \in [Open -> [pc : {"none", "build", "sent", "done"}, out : Outcome \cup {"none"},
                          live : BOOLEAN, pipe : {"open", "shut", "closed"}, body : BOOLEAN]]
    /\ cleaner \in [Open -> BOOLEAN]
    /\ seen \in Seq([target : Target \cup {NoTarget}, out : Counted \cup {"else"},
                     rebuild : BOOLEAN])

\* A tunnel in the hands of a client can be read until it closes it, also after it
\* has closed its writing side: neither the timeout of the open nor any other call
\* cancels its context or closes its body.
HeldTunnelIsLive ==
    \A o \in Open :
      call[o].pc = "held" => trip[o].live /\ trip[o].body /\ trip[o].pipe # "closed"

\* What an open acquires has an owner: the context and the pipe of a round trip
\* belong to a call that has not failed, and so does the body unless the context
\* is cancelled, which ends the stream.  A late answer does not hold a stream.
Owner(o) == call[o].pc \in {"select", "held"} \/ (call[o].pc = "observe" /\ call[o].out = "ok")
NothingLeaks ==
    \A o \in Open :
      /\ trip[o].live \/ trip[o].pipe # "closed" => Owner(o)
      /\ trip[o].body => Owner(o) \/ ~ trip[o].live

\* A CONNECT timeout or a 502 retires the session if and only if it ends a streak
\* of failures of its kind, with nothing else in between, at three distinct targets.
Streak(i) ==
    \E j \in 1 .. i :
      /\ \A k \in j .. i : seen[k].out = seen[i].out
      /\ Cardinality({seen[k].target : k \in j .. i}) >= MaxDistinct
VerdictIsStreak ==
    \A i \in 1 .. Len(seen) : seen[i].out \in Counted => (seen[i].rebuild <=> Streak(i))

-----------------------------------------------------------------------------
(* Liveness.  Goroutines are scheduled, a transport returns from a round    *)
(* trip that is cancelled or whose connection is gone, and time passes.     *)
(* The proxy may never answer and clients may never close.                  *)

Fairness ==
    \A o \in Open :
      WF_vars(CallStep(o)) /\ WF_vars(CleanerStep(o)) /\ WF_vars(BuildStep(o)) /\ WF_vars(TripFails(o))

FairSpec == Spec /\ Fairness

\* A round trip that its call has given up ends too.
AbandonedTripEnds ==
    \A o \in Open :
      call[o].pc = "idle" /\ trip[o].pc \in {"build", "sent"} ~> trip[o].pc \in {"none", "done"}
=============================================================================
