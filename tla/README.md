# firefox-vpn-client: specifications

TLA+ models of the proxy program of this repository (`src/cmd/proxy-demo/main.go`,
the packages it uses, and the unit files and scripts of `src/scripts`), checked
with TLC and proved, where said below, with TLAPS. A line number is a line of
`src/cmd/proxy-demo/main.go` unless another file is named. `PROJECT.json` holds the
map from every definition to the lines it stands for, the runs, the mutants, the
hazards and the theorems.

To check: `tlc -config <run>.cfg <MC module>` for a run, `tlapm
<module>_Proofs.tla` for the proofs of a module.

## 1. The system

The program is a local SOCKS5 server. Each client connection becomes a CONNECT
tunnel through one of a few long-lived HTTP/2 or HTTP/3 connections to a proxy
server, which accepts them with a bearer token, the *proxy pass*. The pass comes
from the Guardian service, which in turn asks for an OAuth token of Firefox
Accounts, and lives for a limited time. systemd keeps the program running, and a
health check on a timer restarts it when it does not serve.

```
 SOCKS5 clients       exit probe         systemd, health check, operator
      |                   |                 ^ exit   ^ status file  | selection file
 SocksServer              |                 |        |              v
      | OpenTunnelForClient, OpenTunnel     |        |         proxy selection
 ProxyController ---- renewal loop ---- Guardian, Accounts --- token file
      | lease of the managed session
 ProxySessionPool --- replenishers
      | lease of a pooled session
 UpstreamSession (H2/H3) --- proxy server
```

### Components

| Component | State | Operations | Where it is hard | What makes it correct |
|---|---|---|---|---|
| SOCKS5 server, relay (1558-2014) | `connSlots`; per connection the handler, two copiers, the idle watcher, `results`, `activityCh` | accept, handshake, open, relay, half-close, drain, idle cut | five goroutines per connection, peers that never read or close, timers racing data | slots counted exactly, nothing outlives a handler, the end of a stream only after its data, idle cuts only when idle, no relay lasts for ever |
| proxy controller (2390-2974) | current managed session, `accepting`, `refs`, `closed`; `renewMu` | openTunnel with up to three rebuilds, renew, rebuild, disable, swap, Close | tunnels, rebuilds, the loop and Close interleave; external calls take minutes; passes expire at any point | one accepting session, a held session stays open, nothing leaks, a usable session is not replaced, service comes back |
| session pool (1126-1556) | `sessions`, `clientSlots`, `next`, `currentToken`, `closed`; per session `refs`, `retired`, `healthy` | openTunnel with failover, retire, replenish, UpdateToken, Close | sessions fail while others use them and are replaced while tokens are renewed | exact reference counts, slots refilled, no connection lost, renewed tokens everywhere, affinity |
| upstream session (1081-1124, 1823-1894, 2016-2388) | transport, failure tracker, token; per tunnel context, pipe, body | OpenTunnel, UpdateToken, Close; tunnelConn | answers later than the timeout; concurrent opens share the tracker | tunnels stay alive, late answers are released, a session is given up for the right reasons |
| tokens: Accounts, token file (`fxa.go`, `tokens.go`, 537-760) | OAuth tokens in memory and in the file | login, refresh with and without a new refresh token, load, save | a refresh token that is replaced and not yet saved; crash between the steps of a save | a restart needs no operator |
| passes: Guardian, claim times (`guardian.go`) | the current pass | fetch, activate, correct the claim times | 401, 403 and the repairs they lead to; clocks that stamp local time as UTC | an expiry that is right; a pass again, whatever went wrong |
| proxy selection (762-1046) | selection file with a failure count | resolve, record a failure, save | restarts, crashes between the steps of a write, changing server lists | the exit changes only for a reason; a dead exit is given up |
| status file (2643-2717) | `proxy_pass_expires_at`, a status word | written at every change of the session | written outside the mutex | shows the pass in use |
| systemd, health check (`scripts/install-systemd.sh`) | failure count, status file | start, stop, restart, probe | the check, the operator and the program act at once | a stopped service stays stopped; a service that can serve does |
| exit verification (379-535) | none | a probe through a tunnel of its own | a tunnel that arrives after the deadline | it is closed |
| server list, HTTP client, flags, log | none | requests, printing | | outcomes of other components' calls |

Components interact by calls (server to controller to pool to session), by a lease
taken by every open and given back by the close of its tunnel, by callbacks (the
factory of the pool, with the token it dials with), by channels inside a relay and
a round trip, and by files (status, selection, tokens) across processes.

The hazards in `PROJECT.json` are the behaviours a test would hardly reach, each
with the properties that watch it or the reason why none does.

## 2. What is modelled

| Module | Stands for | Relation to the code |
|---|---|---|
| `SessionLease` | what pool and controller both promise | abstract: a session is none, serving or draining; leases; shutdown |
| `RelayStream` | what the relay promises its two peers | abstract: a direction is open or over, with what was sent and handed on; cut peers |
| `ProxySessionPool` | `proxySessionPool`, `pooledProxySession`, `pooledTunnelConn` | one action per critical section of `p.mu`, `pooled.mu` or `tokenMu`, or per external answer |
| `ProxyController` | `proxyController`, `managedTunnelConn`, the renewal loop | one action per critical section of `c.mu`, taking of `renewMu`, or external answer; `renewLocked` is the record `work` |
| `SocksServer` | `socksServer`, `proxyBidirectional`, `copyConn`, `closeIdleConns` | one action per channel operation, Read, Write or close; peers and the clock are actions of their own |
| `UpstreamSession` | `h2ProxySession`, `h3ProxySession`, `roundTripWithOpenTimeout`, `sessionFailureTracker`, `tunnelConn` | one action per channel operation, timer, or answer of the proxy |
| `ProxyPass` | `detectProxyPassClaimTimeOffset`, `ExpiresAt` | operators over minutes |
| `StateFile` | `writePrivateFile`, `writeProxySelectionState`, `writeStatusFile` | one action per file operation and per error; instantiated by the two modules below |
| `ControlPlane` | `main` up to the first pass, `obtainOAuthToken`, `refreshRuntimeAuth`, the control plane's part of `renewLocked`, login | one action per answer of Accounts or Guardian |
| `ServiceRestarts` | start, choice of the proxy, the first session, systemd, health check, operator | one action per step of a start or of a check |
| `..._Proofs` | theorems about the module of that name | |
| `MC...` | instances for TLC | symmetry, client keys, clocks, lists, constraints |

Conventions. A goroutine is a record with a `pc`. Pointers to session objects, and
tokens, are model values; one is used again only when nothing refers to it any
more, as after garbage collection, so a model with four identities covers runs with
any number of sessions of which four are alive. Times are ticks, or minutes. What
the network, the proxy, the control plane, a client or the operator does is an
action with every outcome the code tells apart. Definitions marked as mutations are
wrong variants of the definition that follows; they are used by no specification
and show that a property can fail.

*Pool.* `slots`, `clientSlots`, `next`, `closed` are the fields of the same names.
`sess` holds `refs`, `retired`, the token, and `attached`: the `session` field is
not nil and the connection is open. A tunnel goes through `LookupSlot`,
`AcquireSession`, one of the outcomes of the open, and after a failure through
`SetClientFallback`, `RetireSession`, `EvictSlot`, the order of 1272-1309.
`UpdateToken` and `Close` of a pool are called by the controller under its own
locks, so one of each is enough and they do not overlap.

*Controller.* The pool below it is one session: it implements the same
`SessionLease`, which is why a managed session may be modelled by its lease alone.
`ttl` is the rest of the current pass's life. `renewWithTimeout` is `renewer` plus
the `LoopTimesOut` step that exits the process. `blamed` is a history: whether an open
has failed on the current session since it was swapped in.

*Server.* The idle timeout is chosen at start from the configurations of the run. A
chunk is what one `Read` returns, and `Read` may return the last chunk
together with `io.EOF`. `given` counts the chunks the peer was handed. A blocked
`Write` is a `WriteChunk` that never happens: it has no fairness.

*Upstream session.* A round trip owns a context (`live`), a request pipe and,
after an answer, a response body; a call may leave it behind. Its timers may fire
at any time. `seen` is a history of what the failure tracker observed, against which
`VerdictIsStreak` states the rule of `OPERATOR.md:169` without the tracker's sets.

*Control plane.* There is one process at a time, which starts (`Boot`), renews
(`StartRenewal`) or is the operator's login (`Login`; the installation stops the
service for it). `tried` holds the repairs a task has used: `main` answers a 401
with one refresh, both tasks answer a 403 with one activation. Every save goes
through `StateFile`, and the next request waits for it, as in the code. What
Accounts and Guardian know is `live`, `good` and `activated`; `aged` is what the
clock says of an access token. `saved` is a history: whether the newest tokens, or
older ones, or none are owed by the file. A pass is its real rest of life and the
rest the client believes in, through `ProxyPass`; `sure` is a history: whether its
stamps can be read in one way only.

*Service.* `ServiceRestarts` looks at the same process from outside: a start needs a
pass (`PrepareFails` has every way to get none), chooses a proxy from the selection
file or the server list, sets up the first session, saves the selection and listens.
The file may be unreadable when the proxy is chosen (799) or when a failure is counted
(918): the first takes a candidate of the list, the second counts from one.
`home`, `streak` and `excuse` are a history: the exit last used, how many starts in a
row failed on it, and whether it may change for another reason; `unread`, whether this
start chose its proxy because it could not read the selection.

## 3. The runs

Every run ends within five minutes.

| Run | Instance | What it shows |
|---|---|---|
| `pool_failover` | 2 slots, 4 sessions, a client's tunnel and the probe, or the client's tunnel and two renewals | slots filled or being refilled, counts exact, held sessions open, no connection lost, a session keeps an old token only if the renewal's copy missed it; implements `SessionLease`; Close at any point |
| `pool_liveness` | 2 slots, 3 sessions, 1 tunnel | slots are refilled, opens return, Close closes everything but what drains |
| `pool_replacement_token` | 2 slots, 4 sessions, 1 tunnel, 1 renewal | **violated**: see findings |
| `pool_affinity` | 2 slots, 4 sessions, 2 tunnels of one client | **violated**: see findings |
| `controller_rebuilds` | 4 sessions, 2 tunnels, 1 retry, Close at any point | counts exact, nothing leaks, a usable session is kept and is out of service only for its own failure or expiry; implements `SessionLease` |
| `controller_liveness` | 3 sessions, 1 tunnel, Close between two calls | opens return, service comes back, Close ends everything but what drains |
| `controller_status` | 3 sessions, 1 tunnel | **violated**: see findings |
| `socks_relay` | 2 connections for 1 slot, 1 chunk each way, drain time of 1, with and without an idle timeout of 1 | slots match the connections served, no copier, result or connection is left behind, idle cuts only when idle, relays end; implements `RelayStream`: data in order, the end of a stream after all of it, no healthy peer cut without a reason |
| `session_opens` | 2 opens at a time, 3 in all, 2 targets | held tunnels are live, nothing leaks, verdicts are streaks, a silent proxy blocks nothing |
| `control_plane` | 3 access and 3 refresh tokens, 2 clocks of Guardian, 2 zones of the machine, passes of 13 and of 60 minutes, 2 troubles (crash, file error, revocation, lapse) | tokens are kept, no pass is believed to live longer than it does, there is a pass again |
| `pass_lifetimes` | the same with passes of an hour, stamped eight hours behind, a machine in UTC | **violated**: see findings |
| `service_restarts` | 3 proxies in 2 countries, 2 server lists, 1 file error (of a read or a write), threshold 2 | the exit is kept, a stopped service stays stopped, a dead selection is given up |

*Why the bounds are enough.* Two slots give a failover a slot to go to and to wrap
around from; two tunnels are the least that fail on one session together; four
sessions are two in slots, one draining, one being dialled. The constraint
`FewActors` leaves out one combination of `pool_failover`, both tunnels together
with a renewal: renewals meet one tunnel, and two tunnels meet each other with the
first token (the proofs have no such bound). With the one tunnel of `pool_liveness`
the exception in `CloseReachesEverySession`, a session still draining after Close,
does not arise; `CloseLeavesOnlyDraining` proves the safety half for any number. In the controller, one
current, one draining and one new session with two tunnels give every overlap of
two rebuilds; `MaxRetries = 1` instead of 3 only repeats the same loop. Lead,
retry delay and renewal timeout are 0 or 1 tick, in the order that lets a pass
expire before, during and after a renewal. Two connections for one slot are the
least that meet the limit; relays share nothing else, so one at a time is enough,
and one chunk in each direction lets data be under way in front of an end of stream
and restart the idle timer. The tracker's threshold is 2 in the run and 3 in the
code: with three opens over two targets a streak of the threshold's length can be
complete, interrupted by a success or by the other kind, or repeat one target.
Three tokens of a kind are one in the file, one in memory and a new one. The clocks
are those of Kathmandu (5:45 h ahead) and of eight hours behind; the machine is in UTC
or eight hours ahead. A pass of 13 minutes is just below the distance of two candidate
offsets, one of 60 minutes fits up to five of them; other lifetimes, clocks that are
right and passes that arrive late are left to the proof. Two troubles are a
crash upon a file error, or a second one upon the repair of the first. Of three
proxies one is never reached and may be missing in the list, one shares its country,
one is in another; three failures in a row are those of the code. The health check's
threshold is 2 instead of 3: one failure that is counted and one that restarts.

*Symmetry* is over session identities and tunnels, in runs without liveness.
`main` never returns from its accept loop, so the deferred Close of the controller is
only met by tests, but both controller runs have it. In `controller_rebuilds` it may
come at any point; `CloseWithoutStatus` (a state constraint) stops it before its status
write, which no property of that run looks at. In `controller_liveness`,
`CloseBetweenCalls` (an action constraint) lets it overtake the renewal loop in every
state, with tunnels open or not, but not an `openTunnel` call; the safety half of that
case is in the other run and in the proofs.

*Deadlock* is checked in all runs but those of the controller, where the system
really stops: `os.Exit` after a renewal timeout (2746), or a
closed controller without tunnels. A dead upstream session without tunnels takes the
step `Garbage`, so that any other stop would be reported.

### Fairness

- Goroutines that hold or want a mutex get it: weak fairness per goroutine, and
  strong fairness for the loop's turn on `renewMu`, which tunnels also take (a Go
  mutex hands itself to a waiter that starves).
- Calls of the session and of the control plane return: dials and opens have
  timeouts, `doControlPlane` uses a client with one.
- `UpstreamRecovers`, `ControlPlaneRecovers`, and in `ControlPlane` the strong
  fairness of `Refreshed`, `Fetched` and `Activated`: an answer that is possible again
  and again comes in the end. Only the properties that promise recovery use them.
  `Unauthorized` and `Forbidden` are such answers too: a refusal that is due again and
  again is not always replaced by a failing request.
- The operator logs in when the service has no tokens or its tokens are refused
  (`Login`); the program logs the command to use. Access tokens expire (`Age`), which
  is what ends a series of refused renewals.
- systemd restarts what ends; a proxy in `Alive` is reached in the end; and a start is
  now and then faster than crashes and checks (`Resolve`, `FileDone`, `Listen`):
  `ServiceComesUp` needs it, because a check that finds an old status file kills a
  start however far it has come.
- Time passes.
- Nothing is assumed of clients, of the peers of a relay, or of a proxy that does
  not answer: they need not send, read, close or open. A handshake ends if it has a
  deadline, which is what `SlotsComeBack` is about.
- `Prompt` (liveness run of the controller only): a pass is installed before it
  expires; a control plane that hands out expired passes serves nobody.

### Findings

1. *A replacement can miss a renewal* (1420; `pool_replacement_token`). A
   replenisher gives its new session the current token and takes `p.mu` afterwards
   (1430-1436), without looking at the token again. A renewal in between copies
   `p.sessions` without the replacement, which is installed with the old token.
   `main_test.go:1104` expects replacements in flight to get the renewed token. When
   the old pass expires the proxy refuses it, the session is retired and replaced, so
   the fault heals itself at the cost of a failed open.
2. *A late failure moves a client off a healthy session* (1347; `pool_affinity`).
   The fallback compares slot numbers; the slot may hold the replacement already.
   `OPERATOR.md:158` says a client changes only when its session fails.
3. *The status file can show an old pass* (2639; `controller_status`). The write of
   "expired" is not ordered with the write of a concurrent rebuild.
   `OPERATOR.md:198` has the health check take the file for the current pass; it
   would restart a working service after the grace period.
4. *A long pass with wrong stamps is taken for an old one* (`guardian.go:150`;
   `pass_lifetimes`). The candidate offsets are 15 minutes apart and the first that
   fits, in ascending order, is taken. A pass that lives 14 minutes or more fits
   several: one of an hour, stamped eight hours behind, gets 7 h instead of 8 h on a
   machine in UTC, and is believed to end in the instant it arrives. It serves
   nothing and is renewed at once, again and again. `guardian_test.go:104` expects 8 h
   for such a stamp, with a pass of ten minutes; nothing in `guardian.go` bounds a
   lifetime. The error is on the safe side only: `BeliefIsPrudent` holds for every
   lifetime.

Observations without a run of their own, met while modelling:

- A copier blocked in `Write` (1990) does not see that its source has ended, so the
  drain timer does not start. With the default `IDLE_TIMEOUT=0` the slot stays taken
  as long as the peer neither reads nor closes, where `OPERATOR.md:170` speaks of two
  minutes. `EndedDirectionEndsConn` holds because it starts from a copier that has
  ended; with an idle timeout `SlotsComeBack` covers the rest.
- The default of `shouldRebuildProxySession` (1840) is to replace the session, also
  for a request that could not be built and for one reset stream, where
  `OPERATOR.md:167` names expiry, failed authentication and a broken session.
- A pass without `nbf` and `iat` whose stamp is up to two hours ahead is not corrected
  and is believed to live that much longer; `BeliefIsPrudent` is about passes with a
  start claim.
- A 401 in the renewal loop is not answered by a refresh (2845) as `main` answers it:
  with a revoked access token renewals fail until its expiry by the clock.
- With a fixed COUNTRY the choice is the first candidate of the list: three failed
  starts remove a selection and the next start chooses the same host again, if it is
  still the first. `ServiceComesUp` therefore asks for a first candidate in `Alive`.
- A health check under way when the operator stops the service restarts it
  (`check.raced` in `StopIsFinal`), and one that meets the status file of the process
  before kills a start that takes long.
- `main` fetches the list only without a selection, so the branch for a selection that
  the list no longer has (792) is reached only if the file can be read the second time
  and could not the first (`SelectionUnreadable` has its outcome); and with
  `RestartSec=10` a limit of 40 starts in 300 s is never met.
- A start that cannot read the selection takes a candidate of the list and, once it
  serves, overwrites the selection: `ExitKept` has to except it (`unread`). A refused
  rename of the selection file (966) is its other exception.

## 4. What is proved

For every value of the constants that satisfies the modules' assumptions. Backends:
Z3, Zenon, LS4. Each module has an inductive invariant `IInv` (the pool: one for each
theorem), because few of the properties are inductive alone.

`ProxySessionPool_Proofs`: any size, sessions, clients, finite set of tunnels, number
of renewals.

- `TypeCorrect`: `TypeOK`; the walk over the slots needs `SlotArithmetic`.
- `SlotsNeverAbandoned`: an empty slot of an open pool has a replenisher. `SlotInv`
  adds that `closed` implies `done`, so that the waits which give up on `done` give
  up on closing pools only.
- `RefsAlwaysMatch`: reference counts equal the number of holders, by the
  cardinalities of the holders before and after a tunnel's step.
- `HeldSessionsStayOpen`: before Close, no held session is closed. `CountedOpen` says
  that a session with a positive count is open; `SlotInv` is needed because
  `InstallSession` closes a replacement that finds its slot taken.
- `NoConnectionIsLost`: an open connection is in a slot, in a replenisher's hand,
  about to be closed by Close, or drains. Besides the place of every
  session (`PlaceInv`): a retired session that is open has a holder (`DrainInv`), only
  a replenisher about to install has one in hand (`DialInv`), a tunnel evicts only
  what it has retired (`FailInv`), only a closed pool has sessions about to be closed
  (`ClosingInv`).
- `OnlyMissedSessionsAreStale`: `TokenInv` says that, from the copy of `p.sessions` on,
  a usable session in the pool with another token than the published one is still
  ahead of the loop of `UpdateToken` (`Pending`) or in `missed`.
- `SessionsHaveOnePlace`: a session is in one slot or in one replenisher's hand.
- `CloseLeavesOnlyDraining`: once Close is over, with the replenishers it met, an open
  connection is retired and held by a tunnel, which is the safety half of
  `CloseReachesEverySession` for any number of tunnels. `ClosedInv` says that a closed
  pool stays empty and has no renewal under way; the rest is `NoOrphanConnection`.
- `PoolIsLease`: every step maps to a step or a stutter of `SessionLease`.
- `RetiredSessionsOnlyDrain`: from `PoolIsLease` and `RetirementIsFinal`, in the pool's
  own terms.

`SessionLease_Proofs`: of the abstract promise, for any set of sessions,
`LeasesAreKept` and `RetirementIsFinal`. Pool and controller inherit them through
their refinements.

`ProxyController_Proofs`: any sessions, finite set of tunnels, retries and times.
`IInv` is `TypeOK`, `CallInv` (who waits for `renewMu` has an attempt left), `WorkInv`
(the session `renewLocked` has made is private until the swap), `RefsMatchHolders`,
`AcceptInv` (only the current session accepts, a closed controller has none),
`ReplaceInv` (the reason for a replacement lasts until the swap) and `NoOrphanSession`.

- `TypeCorrect`, `RefsAlwaysMatch`, `NoSessionIsLost`: its conjuncts.
- `UsableSessionIsKept`, from `ReplaceInv`: the checks of 2822-2860 are made before
  calls that take minutes, and what they saw must still be so at the swap.
- `OnlyForCause`: `OutOfServiceForCause` is inductive with `IInv`. A swap clears
  `blamed` and installs an accepting session; another step takes the current session out
  of service only for a failure of this very session or an expiry (`DisabledForCause`);
  and what was blamed, or has run out, stays so until a swap or a renewed pass, which
  needs a session in service (`BlameMoves`, `ExpiryMoves`).
- `ControllerIsLease`: the refinement, a swap being two changes of one step.
- `LeasedSessionsAreOpen`: from it and `LeasesAreKept`; the call of `ms.session` outside
  the mutex (2521) never meets a closed session before Close.
- `RenewalsExclude`: `renewLocked` runs for one caller at a time. `MutexInv` adds that
  the loop leaves a renewal behind only when Close interrupts its wait, and then starts
  no other (`OneRenewer`).

`SocksServer_Proofs`: any finite set of connections, limits, timeouts and chunks.

- `TypeCorrect`, `PlacesAreCounted`.
- `NobodyIsLeftBehind`: `ResultsInv` counts results in the channel and copiers at
  work against those the handler still expects; `FreshInv` has the two connections
  closed when no handler runs. Of the idle watcher it says nothing: it may be about to
  see `done`.
- `EndComesLast`: `DeliveryInv` says that what a peer sent is unread, in the hands of
  its copier, or given to the other peer.
- `ServerIsStream`: the server implements `RelayStream`. Each action of a handler, a
  copier, a watcher or a peer changes one connection, and of it at most one direction
  or the cut of its peers; `ClosingSevers` covers the closes, which end both. `FreshInv`
  says that a connection whose relay has not begun has moved nothing. The reason for a
  cut, half a relay over or an idle timeout, is found in the handler's state.
- `CutsAreIdle`: `WatchInv` says that the watcher's timer and the ticks without data
  make up the idle timeout, unless an activity event waits for it.

`UpstreamSession_Proofs`: any set of opens and targets, any threshold.

- `TypeCorrect`, `HeldTunnelsAreLive`, `NothingIsLeaked`: `OwnerInv` says who gives
  up the context, the pipe and the body of a round trip, by the place of its call.
- `VerdictsAreStreaks`: `TrackerInv` says that a target set of the tracker holds the
  targets of the longest streak at the end of `seen`.

`ControlPlane_Proofs`: any tokens, any lifetimes, clocks and zones a
multiple of 15 minutes away, a pass that arrives within 14 minutes of its issue (a
request has a timeout of seconds) and before its end.

- `TypeCorrect`, `TokensAreKept`: `WriterInv` says that a write has the tokens of
  memory, with a refresh token that is live, and that a file which is taken away owes
  nothing; `RenewInv` that a renewal goes on with the pass it has.
- `ExpiryIsPrudent`: an offset of the grid that fits never moves the start of a pass
  past its issue, because it would have to move it by 15 minutes and the pass is younger
  (`NoFitIsLate`): no pass with a start claim is believed to live too long. The stamp's
  own offset fits (`TheStampFits`), so that there is a first one that does, by
  well-foundedness (`FirstExists`, `FirstFitFits`). A pass of at most 13 minutes fits
  its window, widened by a minute on both sides, under one offset of the grid only, so
  the first fit is the stamp's.

`ServiceRestarts_Proofs`: any proxies, countries, server lists, threshold, file errors.

- `TypeCorrect`, `StoppedStaysStopped`: `RaceInv` says that a stop marks the check it
  finds under way.
- `RestartsKeepExit`: `HomeInv` says that without an excuse the selection is the exit
  last used and counts no more failures than starts that failed on it, so that it is
  removed only when the third one fails, and that a start which could read it has
  chosen it (`unread` marks the others); `ChoiceInv` says that a process writes only
  its own choice, `SaveInv` that this is the exit once it has its session.

Assumptions: those the modules state of their constants (sizes are natural numbers,
null values are not members, sets that are counted are finite, there is always a new
token to issue).

Every safety property of a passing run is a theorem. Only model-checked: liveness, and
the four properties that are violated. Liveness and `ENABLED` are outside what TLAPS proves here; so is
induction over data, and no module declares a RECURSIVE operator.

## 5. What is not modelled

- *Exit verification.* `verifyExit` is one request in a straight line through a
  tunnel without a client key, which the pool has. `openTunnelContext` (478) hands a
  tunnel over on an unbuffered channel or closes it: two goroutines, one exchange.
- *Connection set-up*: TLS, QUIC, the address fallback of `newH3ProxySession`. A dial
  is one action with its outcomes.
- *The bytes of SOCKS5.* Parsing keeps no state and ends before the connection meets
  another; it is one outcome.
- *Requests of Accounts and Guardian*: key derivation, Hawk headers, JSON, decoding of
  the JWT (a pass without `exp` would count as expired at once), user status.
- *The server list*: fetching, decoding, printing. The flag `PROXY`, which bypasses
  the selection. Other flags, the log, the HTTP client.
- *systemd*: the start limit, the installation; of the health check the TCP fallback
  on machines without python3.
- *Memory.* `clientSlots` keeps an entry for every client address ever seen, a bound
  the code does not have; the model's set of clients is fixed.
- *Status words.* Of the status file only the expiry is kept: nothing reads the rest.
