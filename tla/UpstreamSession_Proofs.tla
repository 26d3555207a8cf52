----------------------- MODULE UpstreamSession_Proofs -----------------------
(***************************************************************************)
(* Proofs about UpstreamSession, for any sets of calls and targets, any    *)
(* threshold of the failure tracker and any number of opens.               *)
(***************************************************************************)
EXTENDS UpstreamSession, FiniteSetTheorems, SequenceTheorems, TLAPS

CallState == [pc : {"idle", "select", "observe", "held"}, target : Target \cup {NoTarget},
              out : Outcome \cup {"none"}]
TripState == [pc : {"none", "build", "sent", "done"}, out : Outcome \cup {"none"},
              live : BOOLEAN, pipe : {"open", "shut", "closed"}, body : BOOLEAN]
Entry == [target : Target \cup {NoTarget}, out : Counted \cup {"else"}, rebuild : BOOLEAN]

\* A call at work knows its target.
CallsHaveTargets ==
    \A o \in Open : call[o].pc \in {"select", "observe"} => call[o].target \in Target

\* What the owner of a round trip holds, and that nobody else holds anything.
OwnerInvAt(o) ==
    /\ IF Owner(o) THEN trip[o].live /\ trip[o].pipe # "closed" /\ ~ cleaner[o]
                   ELSE ~ trip[o].live /\ trip[o].pipe = "closed"
    /\ Owner(o) /\ call[o].pc # "select" => trip[o].body /\ trip[o].pc = "none"
    /\ trip[o].pc = "done" /\ trip[o].out = "ok" => trip[o].body
OwnerInv == \A o \in Open : OwnerInvAt(o)

\* A target set of the tracker holds the targets of the failures of its kind at the
\* end of what was observed, back to the first outcome of another kind.
TailStreak(k, s) ==
    /\ \A j \in s .. Len(seen) : seen[j].out = k
    /\ failed[k] = {seen[j].target : j \in s .. Len(seen)}
    /\ s > 1 => seen[s - 1].out # k
TrackerInv ==
    \A k \in Counted : /\ IsFiniteSet(failed[k])
                       /\ \E s \in 1 .. Len(seen) + 1 : TailStreak(k, s)

IInv == TypeOK /\ CallsHaveTargets /\ OwnerInv /\ TrackerInv /\ VerdictIsStreak

\* The steps by who takes them: the transport or the request, the call, and others.
TripStep(o) == BuildStep(o) \/ ProxyStep(o) \/ TripFails(o)

-----------------------------------------------------------------------------
(* Types.                                                                   *)

\* What may become of a round trip.
LEMMA TripTypes ==
    ASSUME NEW r \in TripState
    PROVE  /\ Taken(r) \in TripState
           /\ Released(r) \in TripState
           /\ ReleasedUnlessOpen(r) \in TripState
           /\ Abandoned(r) \in TripState
           /\ WriterClosed(r) \in TripState
           /\ [r EXCEPT !.pc = "sent"] \in TripState
           /\ \A out \in Outcome, b \in BOOLEAN :
                [r EXCEPT !.pc = "done", !.out = out, !.body = b] \in TripState
<1>1. Taken(r) \in TripState
  BY DEF Taken, TripState
<1>2. Released(r) \in TripState
  BY <1>1 DEF Released, TripState
<1>3. Abandoned(r) \in TripState /\ WriterClosed(r) \in TripState
  BY DEF Abandoned, WriterClosed, TripState
<1>4. [r EXCEPT !.pc = "sent"] \in TripState
  BY DEF TripState
<1>5. \A out \in Outcome, b \in BOOLEAN :
        [r EXCEPT !.pc = "done", !.out = out, !.body = b] \in TripState
  BY DEF TripState
<1> QED BY <1>1, <1>2, <1>3, <1>4, <1>5 DEF ReleasedUnlessOpen

\* TypeOK, with its record sets named.
LEMMA Types ==
    TypeOK <=> /\ conn \in {"up", "down"}
               /\ failed \in [Counted -> SUBSET Target]
               /\ call \in [Open -> CallState]
               /\ trip \in [Open -> TripState]
               /\ cleaner \in [Open -> BOOLEAN]
               /\ seen \in Seq(Entry)
BY DEF TypeOK, CallState, TripState, Entry

\* The same of the next state.
LEMMA TypesNext ==
    TypeOK' <=> /\ conn' \in {"up", "down"}
                /\ failed' \in [Counted -> SUBSET Target]
                /\ call' \in [Open -> CallState]
                /\ trip' \in [Open -> TripState]
                /\ cleaner' \in [Open -> BOOLEAN]
                /\ seen' \in Seq(Entry)
BY DEF TypeOK, CallState, TripState, Entry

LEMMA TrackedType ==
    ASSUME TypeOK, NEW out, NEW t, out \in Counted => t \in Target
    PROVE  Tracked(out, t) \in [Counted -> SUBSET Target]
<1>1. NoFailures \in [Counted -> SUBSET Target]
  BY DEF NoFailures, Counted
<1>2. failed \in [Counted -> SUBSET Target]
  BY DEF TypeOK
<1>3. CASE out \in Counted
  BY <1>1, <1>2, <1>3 DEF Tracked
<1>4. CASE out \notin Counted
  BY <1>1, <1>4 DEF Tracked
<1> QED BY <1>3, <1>4

LEMMA TripStepType ==
    ASSUME TypeOK, NEW o \in Open, TripStep(o)
    PROVE  TypeOK'
<1>1. trip \in [Open -> TripState] /\ trip[o] \in TripState
  BY Types
<1>2. ASSUME NEW out \in Outcome, NEW b \in BOOLEAN, Answered(o, out, b)
      PROVE  trip' \in [Open -> TripState]
  <2>1. [trip[o] EXCEPT !.pc = "done", !.out = out, !.body = b] \in TripState
    BY <1>1, TripTypes
  <2> QED BY <1>1, <1>2, <2>1 DEF Answered
<1>3. {"request", "reset", "lost"} \cup Status \subseteq Outcome
  BY DEF Outcome, TripError
<1>4. CASE BuildFails(o) \/ Reset(o) \/ TripFails(o)
  BY <1>2, <1>3, <1>4, Types, TypesNext DEF BuildFails, Reset, TripFails
<1>5. CASE \E status \in Status : Answer(o, status)
  BY <1>2, <1>3, <1>5, Types, TypesNext DEF Answer
<1>6. CASE Send(o)
  <2>1. [trip[o] EXCEPT !.pc = "sent"] \in TripState
    BY <1>1, TripTypes
  <2> QED BY <1>1, <1>6, <2>1, Types, TypesNext DEF Send
<1> QED BY <1>4, <1>5, <1>6 DEF TripStep, BuildStep, ProxyStep

LEMMA CallStepType ==
    ASSUME TypeOK, CallsHaveTargets, NEW o \in Open, CallStep(o)
    PROVE  TypeOK'
<1>1. /\ trip \in [Open -> TripState] /\ trip[o] \in TripState
      /\ call \in [Open -> CallState] /\ call[o] \in CallState
  BY Types
<1>2. CASE TakeResult(o)
  <2>1. ReleasedUnlessOpen(trip[o]) \in TripState
    BY <1>1, TripTypes
  <2>2. [call[o] EXCEPT !.pc = "observe", !.out = trip[o].out] \in CallState
    BY <1>1 DEF CallState, TripState
  <2> QED BY <1>1, <1>2, <2>1, <2>2, Types, TypesNext DEF TakeResult
<1>3. CASE TimesOut(o)
  <2>1. Abandoned(trip[o]) \in TripState
    BY <1>1, TripTypes
  <2>2. [call[o] EXCEPT !.pc = "observe", !.out = "timeout"] \in CallState
    BY <1>1 DEF CallState, Outcome
  <2> QED BY <1>1, <1>3, <2>1, <2>2, Types, TypesNext DEF TimesOut
<1>4. CASE Observe(o)
  <2> DEFINE t == call[o].target
             out == call[o].out
  <2>1. t \in Target
    BY <1>4 DEF Observe, CallsHaveTargets
  <2>2. failed' \in [Counted -> SUBSET Target]
    BY <1>4, <2>1, TrackedType DEF Observe
  <2>3. (out \in Counted /\ ShouldRebuild(out, t)) \in BOOLEAN
    OBVIOUS
  <2>4. [target |-> IF out \in Counted THEN t ELSE NoTarget,
         out |-> IF out \in Counted THEN out ELSE "else",
         rebuild |-> out \in Counted /\ ShouldRebuild(out, t)] \in Entry
    BY <2>1, <2>3 DEF Entry
  <2>5. seen' \in Seq(Entry)
    BY <1>4, <2>4, Types, AppendProperties DEF Observe
  <2>6. NoCall \in CallState /\ [NoCall EXCEPT !.pc = "held"] \in CallState
    BY DEF NoCall, CallState
  <2>7. call' \in [Open -> CallState]
    BY <1>1, <1>4, <2>6 DEF Observe
  <2> QED BY <1>4, <2>2, <2>5, <2>7, Types, TypesNext DEF Observe
<1> QED BY <1>2, <1>3, <1>4 DEF CallStep

LEMMA OtherStepType ==
    ASSUME TypeOK, NEW o \in Open
    PROVE  (CleanerStep(o) \/ TunnelStep(o) \/ \E t \in Target : StartOpen(o, t)) => TypeOK'
<1>1. /\ trip \in [Open -> TripState] /\ trip[o] \in TripState
      /\ call \in [Open -> CallState] /\ NoCall \in CallState
  BY Types DEF NoCall, CallState
<1>2. Released(trip[o]) \in TripState /\ WriterClosed(trip[o]) \in TripState
  BY <1>1, TripTypes
<1>3. CleanerStep(o) => TypeOK'
  BY <1>1, <1>2, Types, TypesNext DEF CleanerStep, CleanerTakes, CleanerExpires
<1>4. TunnelStep(o) => TypeOK'
  BY <1>1, <1>2, Types, TypesNext DEF TunnelStep, CloseWrite, CloseTunnel
<1>5. ASSUME NEW t \in Target, StartOpen(o, t) PROVE TypeOK'
  <2>1. [NoTrip EXCEPT !.pc = "build", !.live = TRUE, !.pipe = "open"] \in TripState
    BY DEF NoTrip, TripState
  <2>2. [NoCall EXCEPT !.pc = "select", !.target = t] \in CallState
    BY DEF NoCall, CallState
  <2> QED BY <1>1, <1>5, <2>1, <2>2, Types, TypesNext DEF StartOpen
<1> QED BY <1>3, <1>4, <1>5

LEMMA TypeStep ==
    ASSUME TypeOK, CallsHaveTargets, [Next]_vars
    PROVE  TypeOK'
<1>1. ASSUME NEW o \in Open, TripStep(o) \/ CallStep(o) PROVE TypeOK'
  BY <1>1, TripStepType, CallStepType
<1>2. CASE LoseConn \/ Close \/ Garbage \/ UNCHANGED vars
  BY <1>2, Types, TypesNext DEF LoseConn, Close, Garbage, vars
<1> QED BY <1>1, <1>2, OtherStepType DEF Next, TripStep

LEMMA TargetsStep ==
    ASSUME TypeOK, CallsHaveTargets, [Next]_vars
    PROVE  CallsHaveTargets'
<1>1. call \in [Open -> CallState]
  BY Types
<1>2. ASSUME NEW o \in Open, TripStep(o) \/ CleanerStep(o) PROVE CallsHaveTargets'
  BY <1>2 DEF CallsHaveTargets, TripStep, BuildStep, BuildFails, Send, ProxyStep, Reset, Answer,
              TripFails, CleanerStep, CleanerTakes, CleanerExpires
<1>3. ASSUME NEW o \in Open, CallStep(o) PROVE CallsHaveTargets'
  <2>1. TakeResult(o) => CallsHaveTargets'
    BY <1>1 DEF CallState, CallsHaveTargets, TakeResult
  <2>2. TimesOut(o) => CallsHaveTargets'
    BY <1>1 DEF CallState, CallsHaveTargets, TimesOut
  <2>3. Observe(o) => CallsHaveTargets'
    BY <1>1 DEF CallState, CallsHaveTargets, Observe, NoCall
  <2> QED BY <1>3, <2>1, <2>2, <2>3 DEF CallStep
<1>4. ASSUME NEW o \in Open, TunnelStep(o) PROVE CallsHaveTargets'
  BY <1>1, <1>4 DEF CallsHaveTargets, TunnelStep, CloseWrite, CloseTunnel, NoCall
<1>5. ASSUME NEW o \in Open, NEW t \in Target, StartOpen(o, t) PROVE CallsHaveTargets'
  BY <1>1, <1>5 DEF CallsHaveTargets, StartOpen, NoCall
<1>6. CASE LoseConn \/ Close \/ Garbage \/ UNCHANGED vars
  BY <1>6 DEF CallsHaveTargets, LoseConn, Close, Garbage, vars
<1> QED BY <1>2, <1>3, <1>4, <1>5, <1>6 DEF Next, TripStep

-----------------------------------------------------------------------------
(* Ownership.                                                               *)

\* A step of one open leaves the others alone.
LEMMA OneOpenMoves ==
    ASSUME TypeOK, OwnerInv, NEW o \in Open, OwnerInvAt(o)',
           \A p \in Open \ {o} : /\ call'[p] = call[p] /\ trip'[p] = trip[p]
                                 /\ cleaner'[p] = cleaner[p]
    PROVE  OwnerInv'
BY DEF OwnerInv, OwnerInvAt, Owner

\* A call that takes its result keeps what it needs and nothing else; one that times
\* out gives up the context and the pipe.
LEMMA CallStepOwner ==
    ASSUME TypeOK, OwnerInv, NEW o \in Open, CallStep(o)
    PROVE  OwnerInv'
<1>1. /\ trip \in [Open -> TripState] /\ trip[o] \in TripState
      /\ call \in [Open -> CallState] /\ call[o] \in CallState
      /\ cleaner \in [Open -> BOOLEAN] /\ OwnerInvAt(o)
  BY Types DEF OwnerInv
<1>2. CASE TakeResult(o)
  <2>1. trip'[o] = ReleasedUnlessOpen(trip[o]) /\ call'[o].pc = "observe"
        /\ call'[o].out = trip[o].out /\ cleaner'[o] = cleaner[o]
    BY <1>1, <1>2 DEF TakeResult, CallState
  <2>2. OwnerInvAt(o)'
    BY <1>1, <1>2, <2>1
    DEF OwnerInvAt, Owner, TakeResult, ReleasedUnlessOpen, Released, Taken, TripState
  <2> QED BY <1>1, <1>2, <2>2, OneOpenMoves DEF TakeResult
<1>3. CASE TimesOut(o)
  <2>1. trip'[o] = Abandoned(trip[o]) /\ call'[o].pc = "observe"
        /\ call'[o].out = "timeout" /\ cleaner'[o]
    BY <1>1, <1>3 DEF TimesOut, CallState
  <2>2. OwnerInvAt(o)'
    BY <1>1, <1>3, <2>1 DEF OwnerInvAt, Owner, TimesOut, Abandoned, TripState
  <2> QED BY <1>1, <1>3, <2>2, OneOpenMoves DEF TimesOut
<1>4. CASE Observe(o)
  <2>1. /\ trip'[o] = trip[o] /\ cleaner'[o] = cleaner[o]
        /\ call'[o].pc = IF call[o].out = "ok" THEN "held" ELSE "idle"
    BY <1>1, <1>4 DEF Observe, NoCall
  <2>2. OwnerInvAt(o)'
    BY <1>1, <1>4, <2>1 DEF OwnerInvAt, Owner, Observe
  <2> QED BY <1>1, <1>4, <2>2, OneOpenMoves DEF Observe
<1> QED BY <1>2, <1>3, <1>4 DEF CallStep

\* An answer comes to a round trip its call still waits for, or to one that is
\* cancelled.
LEMMA TripStepOwner ==
    ASSUME TypeOK, OwnerInv, NEW o \in Open, TripStep(o)
    PROVE  OwnerInv'
<1>1. /\ trip \in [Open -> TripState] /\ trip[o] \in TripState /\ OwnerInvAt(o)
  BY Types DEF OwnerInv
<1>2. trip[o].pc \in {"build", "sent"} /\ UNCHANGED <<call, cleaner>>
  BY DEF TripStep, BuildStep, BuildFails, Send, ProxyStep, Reset, Answer, TripFails
<1>3. ASSUME NEW out, NEW b \in BOOLEAN, out = "ok" => b, Answered(o, out, b)
      PROVE  OwnerInv'
  <2>1. /\ trip'[o].live = trip[o].live /\ trip'[o].pipe = trip[o].pipe
        /\ trip'[o].out = out /\ trip'[o].body = b
        /\ \A p \in Open \ {o} : trip'[p] = trip[p]
    BY <1>1, <1>3 DEF Answered, TripState
  <2>2. OwnerInvAt(o)'
    BY <1>1, <1>2, <1>3, <2>1 DEF OwnerInvAt, Owner
  <2> QED BY <1>2, <2>1, <2>2, OneOpenMoves
<1>4. CASE BuildFails(o) \/ Reset(o) \/ TripFails(o)
  BY <1>3, <1>4 DEF BuildFails, Reset, TripFails
<1>5. CASE \E status \in Status : Answer(o, status)
  BY <1>3, <1>5 DEF Answer
<1>6. CASE Send(o)
  <2>1. /\ trip'[o].live = trip[o].live /\ trip'[o].pipe = trip[o].pipe
        /\ trip'[o].pc = "sent" /\ \A p \in Open \ {o} : trip'[p] = trip[p]
    BY <1>1, <1>6 DEF Send, TripState
  <2>2. OwnerInvAt(o)'
    BY <1>1, <1>2, <2>1 DEF OwnerInvAt, Owner
  <2> QED BY <1>2, <2>1, <2>2, OneOpenMoves
<1> QED BY <1>4, <1>5, <1>6 DEF TripStep, BuildStep, ProxyStep

\* The cleaner works for nobody, a tunnel releases what it holds, and a new open
\* starts from nothing.
LEMMA OtherStepOwner ==
    ASSUME TypeOK, OwnerInv, NEW o \in Open
    PROVE  (CleanerStep(o) \/ TunnelStep(o) \/ \E t \in Target : StartOpen(o, t)) => OwnerInv'
<1>1. /\ trip \in [Open -> TripState] /\ trip[o] \in TripState
      /\ call \in [Open -> CallState] /\ call[o] \in CallState
      /\ cleaner \in [Open -> BOOLEAN] /\ OwnerInvAt(o)
  BY Types DEF OwnerInv
<1>2. CASE CleanerTakes(o)
  <2>1. trip'[o] = Released(trip[o]) /\ ~ Owner(o)
    BY <1>1, <1>2 DEF CleanerTakes, OwnerInvAt
  <2>2. OwnerInvAt(o)'
    BY <1>1, <1>2, <2>1 DEF OwnerInvAt, Owner, CleanerTakes, Released, Taken, TripState
  <2> QED BY <1>1, <1>2, <2>2, OneOpenMoves DEF CleanerTakes
<1>3. CASE CleanerExpires(o)
  <2>1. OwnerInvAt(o)'
    BY <1>1, <1>3 DEF OwnerInvAt, Owner, CleanerExpires
  <2> QED BY <1>1, <1>3, <2>1, OneOpenMoves DEF CleanerExpires
<1>4. CASE CloseWrite(o)
  <2>1. trip'[o] = WriterClosed(trip[o])
    BY <1>1, <1>4 DEF CloseWrite
  <2>2. OwnerInvAt(o)'
    BY <1>1, <1>4, <2>1 DEF OwnerInvAt, Owner, CloseWrite, WriterClosed, TripState
  <2> QED BY <1>1, <1>4, <2>2, OneOpenMoves DEF CloseWrite
<1>5. CASE CloseTunnel(o)
  <2>1. trip'[o] = Released(trip[o]) /\ call'[o].pc = "idle"
    BY <1>1, <1>5 DEF CloseTunnel, NoCall
  <2>2. OwnerInvAt(o)'
    BY <1>1, <1>5, <2>1 DEF OwnerInvAt, Owner, CloseTunnel, Released, Taken, TripState
  <2> QED BY <1>1, <1>5, <2>2, OneOpenMoves DEF CloseTunnel
<1>6. ASSUME NEW t \in Target, StartOpen(o, t) PROVE OwnerInv'
  <2>1. /\ trip'[o] = [NoTrip EXCEPT !.pc = "build", !.live = TRUE, !.pipe = "open"]
        /\ call'[o].pc = "select"
    BY <1>1, <1>6 DEF StartOpen, NoCall
  <2>2. OwnerInvAt(o)'
    BY <1>1, <1>6, <2>1 DEF OwnerInvAt, Owner, StartOpen, NoTrip
  <2> QED BY <1>1, <1>6, <2>2, OneOpenMoves DEF StartOpen
<1> QED BY <1>2, <1>3, <1>4, <1>5, <1>6 DEF CleanerStep, TunnelStep

LEMMA OwnerStep ==
    ASSUME TypeOK, OwnerInv, [Next]_vars
    PROVE  OwnerInv'
<1>1. CASE LoseConn \/ Close \/ Garbage \/ UNCHANGED vars
  BY <1>1 DEF OwnerInv, OwnerInvAt, Owner, LoseConn, Close, Garbage, vars
<1>2. ASSUME NEW o \in Open, TripStep(o) \/ CallStep(o) PROVE OwnerInv'
  BY <1>2, CallStepOwner, TripStepOwner
<1> QED BY <1>1, <1>2, OtherStepOwner DEF Next, TripStep

-----------------------------------------------------------------------------
(* The failure tracker.                                                     *)

\* observe adds the target to the streak of its kind and ends those of other kinds,
\* and the history grows by the same.
LEMMA ObserveAppends ==
    ASSUME TypeOK, CallsHaveTargets, NEW o \in Open, Observe(o)
    PROVE  \E n \in Nat, e \in Entry :
             /\ Len(seen) = n /\ Len(seen') = n + 1
             /\ seen'[n + 1] = e /\ \A i \in 1 .. n : seen'[i] = seen[i]
             /\ \A k \in Counted :
                  IF e.out = k THEN failed'[k] = failed[k] \cup {e.target} ELSE failed'[k] = {}
             /\ e.out \in Counted =>
                  (e.rebuild <=> Cardinality(failed'[e.out]) >= MaxDistinct)
<1> DEFINE t == call[o].target
           out == call[o].out
           e == [target |-> IF out \in Counted THEN t ELSE NoTarget,
                 out |-> IF out \in Counted THEN out ELSE "else",
                 rebuild |-> out \in Counted /\ ShouldRebuild(out, t)]
<1>1. t \in Target
  BY DEF Observe, CallsHaveTargets
<1>2. (out \in Counted /\ ShouldRebuild(out, t)) \in BOOLEAN
  OBVIOUS
<1>3. e \in Entry
  BY <1>1, <1>2 DEF Entry
<1>4. seen \in Seq(Entry) /\ seen' = Append(seen, e) /\ failed' = Tracked(out, t)
  BY Types DEF Observe
<1>5. /\ Len(seen) \in Nat /\ Len(seen') = Len(seen) + 1 /\ seen'[Len(seen) + 1] = e
      /\ \A i \in 1 .. Len(seen) : seen'[i] = seen[i]
  <2> HIDE DEF e
  <2> QED BY <1>3, <1>4, AppendProperties
<1>6. \A k \in Counted :
        IF e.out = k THEN failed'[k] = failed[k] \cup {e.target} ELSE failed'[k] = {}
  <2>1. NoFailures \in [Counted -> SUBSET Target] /\ \A k \in Counted : NoFailures[k] = {}
    BY DEF NoFailures, Counted
  <2>2. "else" \notin Counted
    BY DEF Counted
  <2>3. CASE out \in Counted
    BY <1>4, <2>1, <2>3 DEF Tracked
  <2>4. CASE out \notin Counted
    BY <1>4, <2>1, <2>2, <2>4 DEF Tracked
  <2> QED BY <2>3, <2>4
<1>7. e.out \in Counted => (e.rebuild <=> Cardinality(failed'[e.out]) >= MaxDistinct)
  <2>1. "else" \notin Counted /\ ~ \E x \in Counted : x \in {"auth"} \cup TripError
    BY DEF Counted, TripError
  <2>2. ASSUME out \in Counted
        PROVE  ShouldRebuild(out, t) <=> Cardinality(failed'[out]) >= MaxDistinct
    BY <1>4, <2>1, <2>2 DEF ShouldRebuild, Unhealthy
  <2> QED BY <2>1, <2>2
<1> HIDE DEF e
<1> QED BY <1>3, <1>5, <1>6, <1>7

\* The longest streak of every kind before the step determines it after the step.
LEMMA ObserveTracks ==
    ASSUME TypeOK, CallsHaveTargets, TrackerInv, NEW o \in Open, Observe(o)
    PROVE  TrackerInv'
<1>1. PICK n \in Nat, e \in Entry :
        /\ Len(seen) = n /\ Len(seen') = n + 1
        /\ seen'[n + 1] = e /\ \A i \in 1 .. n : seen'[i] = seen[i]
        /\ \A k \in Counted :
             IF e.out = k THEN failed'[k] = failed[k] \cup {e.target} ELSE failed'[k] = {}
  BY ObserveAppends
<1> SUFFICES ASSUME NEW k \in Counted
             PROVE  /\ IsFiniteSet(failed'[k])
                    /\ \E s \in 1 .. Len(seen') + 1 : TailStreak(k, s)'
  BY DEF TrackerInv
<1>2. PICK s \in 1 .. n + 1 : TailStreak(k, s)
  BY <1>1 DEF TrackerInv
<1>3. CASE e.out = k
  <2>1. IsFiniteSet(failed'[k])
    <3>1. IsFiniteSet(failed[k])
      BY DEF TrackerInv
    <3>2. IsFiniteSet(failed[k] \cup {e.target})
      BY <3>1, FS_AddElement
    <3> QED BY <1>1, <1>3, <3>2
  <2>2. \A j \in s .. n + 1 : seen'[j].out = k
    BY <1>1, <1>2, <1>3 DEF TailStreak
  <2>3. {seen'[j].target : j \in s .. n + 1} = {seen[j].target : j \in s .. n} \cup {e.target}
    <3>1. s .. n + 1 = (s .. n) \cup {n + 1} /\ s .. n \subseteq 1 .. n
      BY <1>1
    <3> QED BY <1>1, <3>1
  <2>4. s > 1 => seen'[s - 1].out # k
    BY <1>1, <1>2 DEF TailStreak
  <2>5. TailStreak(k, s)'
    BY <1>1, <1>2, <1>3, <2>2, <2>3, <2>4 DEF TailStreak
  <2> QED BY <1>1, <2>1, <2>5
<1>4. CASE e.out # k
  <2>1. failed'[k] = {} /\ IsFiniteSet(failed'[k])
    BY <1>1, <1>4, FS_EmptySet
  <2>2. TailStreak(k, n + 2)'
    <3>1. n + 2 .. n + 1 = {}
      BY <1>1
    <3>2. {seen'[j].target : j \in n + 2 .. n + 1} = {}
      BY <3>1
    <3> QED BY <1>1, <1>4, <2>1, <3>1, <3>2 DEF TailStreak
  <2>3. n + 2 \in 1 .. Len(seen') + 1
    BY <1>1
  <2> QED BY <2>1, <2>2, <2>3
<1> QED BY <1>3, <1>4

\* The new verdict is right because the tracker holds the longest streak; the old ones
\* look at an unchanged past.
LEMMA ObserveVerdict ==
    ASSUME TypeOK, CallsHaveTargets, TrackerInv, VerdictIsStreak, NEW o \in Open, Observe(o)
    PROVE  VerdictIsStreak'
<1>1. PICK n \in Nat, e \in Entry :
        /\ Len(seen) = n /\ Len(seen') = n + 1
        /\ seen'[n + 1] = e /\ \A i \in 1 .. n : seen'[i] = seen[i]
        /\ e.out \in Counted => (e.rebuild <=> Cardinality(failed'[e.out]) >= MaxDistinct)
  BY ObserveAppends
<1>2. TypeOK' /\ TrackerInv'
  BY CallStepType, ObserveTracks DEF CallStep
<1>3. ASSUME NEW i \in 1 .. n
      PROVE  Streak(i)' <=> Streak(i)
  <2>1. ASSUME NEW j \in 1 .. i PROVE \A k \in j .. i : seen'[k] = seen[k]
    BY <1>1
  <2>2. ASSUME NEW j \in 1 .. i
        PROVE  {seen'[k].target : k \in j .. i} = {seen[k].target : k \in j .. i}
    BY <2>1
  <2>3. seen'[i] = seen[i]
    BY <1>1
  <2> QED BY <2>1, <2>2, <2>3 DEF Streak
<1>4. ASSUME e.out \in Counted
      PROVE  e.rebuild <=> Streak(n + 1)'
  <2> PICK k \in Counted : k = e.out
    BY <1>4
  <2>1. PICK s \in 1 .. n + 2 : TailStreak(k, s)'
    BY <1>1, <1>2 DEF TrackerInv
  <2>2. s <= n + 1
    <3>1. CASE s = n + 2
      <4>1. seen'[s - 1].out # k
        BY <1>1, <2>1, <3>1 DEF TailStreak
      <4> QED BY <1>1, <3>1, <4>1
    <3> QED BY <1>1, <3>1
  <2>3. ASSUME e.rebuild PROVE Streak(n + 1)'
    <3>1. /\ s \in 1 .. n + 1
          /\ \A i \in s .. n + 1 : seen'[i].out = seen'[n + 1].out
          /\ Cardinality({seen'[i].target : i \in s .. n + 1}) >= MaxDistinct
      BY <1>1, <1>4, <2>1, <2>2, <2>3 DEF TailStreak
    <3> QED BY <3>1 DEF Streak
  <2>4. ASSUME Streak(n + 1)' PROVE e.rebuild
    <3>1. PICK j \in 1 .. n + 1 :
            /\ \A i \in j .. n + 1 : seen'[i].out = k
            /\ Cardinality({seen'[i].target : i \in j .. n + 1}) >= MaxDistinct
      BY <1>1, <1>4, <2>4 DEF Streak
    <3>2. {seen'[i].target : i \in j .. n + 1} \subseteq failed'[k]
      <4>1. j >= s
        <5>1. CASE j < s
          <6>1. s - 1 \in j .. n + 1 /\ s > 1
            BY <1>1, <2>2, <5>1
          <6> QED BY <2>1, <3>1, <6>1 DEF TailStreak
        <5> QED BY <1>1, <5>1
      <4>2. j .. n + 1 \subseteq s .. n + 1
        BY <1>1, <4>1
      <4> QED BY <1>1, <2>1, <4>2 DEF TailStreak
    <3>3. IsFiniteSet(failed'[k])
      BY <1>2, <1>4 DEF TrackerInv
    <3>4. /\ Cardinality({seen'[i].target : i \in j .. n + 1}) <= Cardinality(failed'[k])
          /\ Cardinality({seen'[i].target : i \in j .. n + 1}) \in Nat
          /\ Cardinality(failed'[k]) \in Nat
      BY <3>2, <3>3, FS_Subset, FS_CardinalityType
    <3> QED BY <1>1, <1>4, <3>1, <3>4, BoundAssumption
  <2> QED BY <2>3, <2>4
<1>5. ASSUME NEW i \in 1 .. Len(seen'), seen'[i].out \in Counted
      PROVE  seen'[i].rebuild <=> Streak(i)'
  <2>1. CASE i = n + 1
    BY <1>1, <1>4, <1>5, <2>1
  <2>2. CASE i \in 1 .. n
    BY <1>1, <1>3, <1>5, <2>2 DEF VerdictIsStreak
  <2> QED BY <1>1, <2>1, <2>2
<1> QED BY <1>5 DEF VerdictIsStreak

-----------------------------------------------------------------------------
(* The theorems.                                                            *)

LEMMA InitIInv == Init => IInv
<1> SUFFICES ASSUME Init PROVE IInv
  OBVIOUS
<1>1. NoCall \in CallState /\ NoTrip \in TripState
  BY DEF NoCall, CallState, NoTrip, TripState
<1>2. failed = NoFailures /\ failed \in [Counted -> SUBSET Target]
      /\ \A k \in Counted : failed[k] = {}
  BY DEF Init, NoFailures, Counted
<1>3. seen = <<>> /\ seen \in Seq(Entry) /\ Len(seen) = 0
  BY DEF Init
<1>4. TypeOK
  BY <1>1, <1>2, <1>3, Types DEF Init
<1>5. CallsHaveTargets /\ OwnerInv
  BY DEF Init, CallsHaveTargets, OwnerInv, OwnerInvAt, Owner, NoCall, NoTrip
<1>6. TrackerInv
  <2>1. ASSUME NEW k \in Counted PROVE TailStreak(k, 1)
    <3>1. 1 .. Len(seen) = {}
      BY <1>3
    <3> QED BY <1>2, <3>1 DEF TailStreak
  <2> QED BY <1>2, <1>3, <2>1, FS_EmptySet DEF TrackerInv
<1>7. VerdictIsStreak
  BY <1>3 DEF VerdictIsStreak
<1> QED BY <1>4, <1>5, <1>6, <1>7 DEF IInv

\* Only Observe writes the tracker and the history.
LEMMA TrackerStep ==
    ASSUME TypeOK, CallsHaveTargets, TrackerInv, VerdictIsStreak, [Next]_vars
    PROVE  TrackerInv' /\ VerdictIsStreak'
<1>1. CASE \E o \in Open : Observe(o)
  BY <1>1, ObserveTracks, ObserveVerdict
<1>2. CASE ~ \E o \in Open : Observe(o)
  <2>1. UNCHANGED <<failed, seen>>
    BY <1>2 DEF Next, vars, StartOpen, CallStep, TakeResult, TimesOut, BuildStep, BuildFails, Send,
       ProxyStep, Reset, Answer, TripFails, CleanerStep, CleanerTakes, CleanerExpires, TunnelStep,
       CloseWrite, CloseTunnel, LoseConn, Close, Garbage
  <2>2. VerdictIsStreak'
    <3>1. ASSUME NEW i PROVE Streak(i)' <=> Streak(i)
      <4>1. ASSUME NEW j PROVE {seen'[k].target : k \in j .. i} = {seen[k].target : k \in j .. i}
        BY <2>1
      <4> QED BY <2>1, <4>1 DEF Streak
    <3> QED BY <2>1, <3>1 DEF VerdictIsStreak
  <2>3. TrackerInv'
    <3>1. ASSUME NEW k, NEW s, TailStreak(k, s) PROVE TailStreak(k, s)'
      BY <2>1, <3>1 DEF TailStreak
    <3> QED BY <2>1, <3>1 DEF TrackerInv
  <2> QED BY <2>2, <2>3
<1> QED BY <1>1, <1>2

LEMMA IInvStep == IInv /\ [Next]_vars => IInv'
BY TypeStep, TargetsStep, OwnerStep, TrackerStep DEF IInv

LEMMA AlwaysIInv == Spec => []IInv
BY InitIInv, IInvStep, PTL DEF Spec

\* Every reachable state of a session is well typed.
THEOREM TypeCorrect == Spec => []TypeOK
<1>1. IInv => TypeOK
  BY DEF IInv
<1> QED BY <1>1, AlwaysIInv, PTL

\* A tunnel that was returned is readable until it is closed, whatever other calls,
\* timers, cleaners and the connection do.
THEOREM HeldTunnelsAreLive == Spec => []HeldTunnelIsLive
<1>1. IInv => HeldTunnelIsLive
  BY DEF IInv, OwnerInv, OwnerInvAt, Owner, HeldTunnelIsLive
<1> QED BY <1>1, AlwaysIInv, PTL

\* A context, a pipe or a body that is open belongs to a call or a tunnel, also when
\* the answer meets the timer.
THEOREM NothingIsLeaked == Spec => []NothingLeaks
<1>1. IInv => NothingLeaks
  BY DEF IInv, OwnerInv, OwnerInvAt, NothingLeaks
<1> QED BY <1>1, AlwaysIInv, PTL

\* Failures retire a session exactly when they end a streak of one kind at as many
\* distinct targets as the threshold says, in any interleaving of the opens.
THEOREM VerdictsAreStreaks == Spec => []VerdictIsStreak
<1>1. IInv => VerdictIsStreak
  BY DEF IInv
<1> QED BY <1>1, AlwaysIInv, PTL
=============================================================================
