----------------------------- MODULE ControlPlane -----------------------------
(***************************************************************************)
(* How the program keeps its credentials: the tokens of Firefox Accounts   *)
(* in a file and in memory, the proxy pass of Guardian, the part of main   *)
(* up to the first pass, the renewal loop with renewLocked as far as the   *)
(* control plane goes, and the operator's login.  One process at a time:   *)
(* install-systemd.sh stops the service for a login.  Sessions are in      *)
(* ProxyController.  Time is in minutes.                                   *)
(***************************************************************************)
EXTENDS ProxyPass, FiniteSets

CONSTANTS
    Access, Grant,  \* access tokens and refresh tokens, used again when unreferenced
    NoTokens,       \* no token file, or none in memory
    NoPass,
    Lives,          \* lifetimes Guardian gives to a pass
    MaxAge,         \* bound: the age of a pass when it arrives
    Stamps,         \* how far Guardian's stamps may be ahead
    Zones,          \* zones the machine may be in
    Lead,           \* proxyPassRenewLead
    Step,           \* bound: time passes in steps of so many minutes
    MaxTrouble      \* bound: crashes, file errors, revocations, lapses

\* Clocks differ by quarters of an hour, from half a day behind to 14 hours ahead.
ASSUME ZoneAssumption ==
    /\ \A stamp \in Stamps : stamp \in Int /\ \E k \in -48 .. 56 : -stamp = 15 * k
    /\ \A zone \in Zones : \E k \in -48 .. 56 : zone = 15 * k
\* A pass is issued when it is asked for and arrives before it ends, and within the 30
\* seconds of controlPlaneHTTPTimeout.  How long it lives is up to Guardian.
ASSUME AgeAssumption ==
    /\ MaxAge \in Nat /\ MaxAge < 14 /\ Lead \in Nat
    /\ \A life \in Lives : life \in Nat /\ MaxAge < life
\* There is always a new token to issue; the model values are no records.
ASSUME TokenAssumption ==
    /\ Access # {} /\ \A a, b \in Access : Access \ {a, b} # {}
    /\ Grant # {} /\ \A a, b \in Grant : Grant \ {a, b} # {}
    /\ NoTokens \notin [access : Access, grant : Grant]
    /\ NoPass \notin [real : Nat, belief : Nat, hasStart : BOOLEAN, sure : BOOLEAN]
ASSUME BoundAssumption == MaxTrouble \in Nat /\ Step \in Nat \ {0}

VARIABLES
    file, writer,   \* the token file (StateFile)
    pc, task, tried,    \* where the program is, what for, which repairs it has used
    mem,            \* runtimeAuth
    wait,           \* the loop sits out proxyPassRetryDelay
    pass,           \* minutes the pass has left: really, and as the client believes;
                    \* history: has it a start claim, can its times be read in one way only
    good, aged,     \* access tokens Guardian accepts, and those past their expiry
    live,           \* refresh tokens Accounts accepts
    activated,      \* the account is activated for the proxy
    trouble,        \* how many of them so far
    saved           \* history: what the file owes: the newest tokens, older ones, nothing

fileVars == <<file, writer>>
progress == <<pc, task, tried>>
remote == <<good, aged, live, activated>>
vars == <<file, writer, pc, task, tried, mem, wait, pass, good, aged, live,
          activated, trouble, saved>>

TokenFile == INSTANCE StateFile WITH NoContent <- NoTokens

-----------------------------------------------------------------------------
(* Tokens.                                                                 *)

Held == {t \in {file, mem, writer.new} : t # NoTokens}
Unused(ids, used) == CHOOSE x \in ids \ used : TRUE
NewAccess == Unused(Access, {t.access : t \in Held})
NewGrant == Unused(Grant, {t.grant : t \in Held})

\* Accounts issues tokens: the client has them and starts to save them.
Issue(grant) ==
    LET new == [access |-> NewAccess, grant |-> grant]
    IN  /\ mem' = new
        /\ TokenFile!Begin(new) /\ UNCHANGED file
        /\ good' = good \cup {new.access}
        /\ aged' = aged \ {new.access}

\* os.Exit, with the process out of memory.
Exits == /\ pc' = "down"
         /\ mem' = NoTokens
         /\ pass' = NoPass
         /\ wait' = FALSE

\* An error: the start ends, the loop tries again after a delay.
Fails ==
    /\ IF task = "renew"
       THEN pc' = "serve" /\ wait' = TRUE /\ UNCHANGED <<mem, pass>>
       ELSE Exits
    /\ UNCHANGED <<task, tried>>

-----------------------------------------------------------------------------
(* obtainOAuthToken, refreshRuntimeAuth, ensureOAuthToken.                 *)

\* Cached tokens are used while the access token is valid by the clock.
Boot ==
    /\ pc = "down"
    /\ file # NoTokens
    /\ pc' = IF file.access \in aged THEN "refresh" ELSE "fetch"
    /\ mem' = file
    /\ task' = "start" /\ tried' = {}
    /\ UNCHANGED <<fileVars, remote, wait, pass, trouble, saved>>

\* The operator logs in when the service has no tokens, or has logged that they are refused.
Login ==
    /\ pc = "down"
    /\ ~ (file # NoTokens /\ file.grant \in live)
    /\ Issue(NewGrant)
    /\ live' = live \cup {NewGrant}
    /\ pc' = "fetch"
    /\ task' = "login" /\ tried' = {}
    /\ UNCHANGED <<activated, wait, pass, trouble, saved>>

\* FxaRefreshToken: Accounts keeps the refresh token and does not repeat it, or
\* replaces it.  Mutation: what the answer does not contain is not filled in.
AnsweredGrant(rotated) == IF rotated THEN NewGrant ELSE NoTokens
GrantAfter(rotated) == IF rotated THEN NewGrant ELSE mem.grant

Refreshed ==
    /\ pc = "refresh"
    /\ mem.grant \in live
    /\ \E rotated \in BOOLEAN :
         /\ Issue(GrantAfter(rotated))
         /\ live' = IF rotated THEN (live \ {mem.grant}) \cup {NewGrant} ELSE live
    /\ pc' = "fetch"
    /\ UNCHANGED <<activated, task, tried, wait, pass, trouble, saved>>

RefreshFails ==
    /\ pc = "refresh"
    /\ Fails
    /\ UNCHANGED <<fileVars, remote, trouble, saved>>

-----------------------------------------------------------------------------
(* FetchProxyPass and ActivateGuardian, with what main and renewLocked make *)
(* of their answers.  A save is complete before the next request is sent.   *)

Fetching == pc = "fetch" /\ TokenFile!Idle

\* Only main asks for another access token, and only once.
RefreshIsTried == task = "renew" \/ tried # {}

Unauthorized ==
    /\ Fetching
    /\ mem.access \notin good
    /\ IF RefreshIsTried
       THEN Fails
       ELSE pc' = "refresh" /\ tried' = {"refresh"} /\ UNCHANGED <<task, mem, wait, pass>>
    /\ UNCHANGED <<fileVars, remote, trouble, saved>>

\* Mutation: a 403 is an error like any other.
ActivationIsOver == TRUE
ActivationIsTried == "activate" \in tried

Forbidden ==
    /\ Fetching
    /\ mem.access \in good /\ ~ activated
    /\ IF ActivationIsTried
       THEN Fails
       ELSE /\ pc' = "activate" /\ tried' = tried \cup {"activate"}
            /\ UNCHANGED <<task, mem, wait, pass>>
    /\ UNCHANGED <<fileVars, remote, trouble, saved>>

Activated ==
    /\ pc = "activate"
    /\ mem.access \in good
    /\ activated' = TRUE
    /\ pc' = "fetch"
    /\ UNCHANGED <<fileVars, task, tried, mem, wait, pass, good, aged, live, trouble, saved>>

\* Another status, no answer, or the first session cannot be set up.
RequestFails ==
    /\ Fetching \/ pc = "activate"
    /\ Fails
    /\ UNCHANGED <<fileVars, remote, trouble, saved>>

\* All that matters of a time in the past is that it is over.
Left(n) == IF n > 0 THEN n ELSE 0

\* The stamps are right and the pass looks it, or only one candidate offset fits: two
\* are 15 minutes apart, and the tolerance is a minute on both sides.
Unambiguous(age, life, stamp, hasStart) ==
    IF hasStart THEN stamp = 0 \/ life < 14
                ELSE stamp = 0 /\ life - age <= proxyPassClaimTimeMaxFuture

NewPass(age, life, stamp, zone, hasStart) ==
    [real |-> life - age, hasStart |-> hasStart,
     belief |-> Left(BelievedLeft(Claims(age, life, stamp, hasStart), zone)),
     sure |-> Unambiguous(age, life, stamp, hasStart)]

\* A login only prints what it got.
Fetched ==
    /\ Fetching
    /\ mem.access \in good /\ activated
    /\ \E age \in 0 .. MaxAge, life \in Lives, stamp \in Stamps, zone \in Zones,
          hasStart \in BOOLEAN :
         IF task = "login"
         THEN Exits
         ELSE /\ pass' = NewPass(age, life, stamp, zone, hasStart)
              /\ pc' = "serve" /\ wait' = FALSE /\ UNCHANGED mem
    /\ UNCHANGED <<fileVars, task, tried, remote, trouble, saved>>

-----------------------------------------------------------------------------
(* The renewal loop.                                                       *)

\* nextRenewalDelay is over: at once, if the pass lives no longer than the lead.
RenewalDue == pass.belief <= Lead

StartRenewal ==
    /\ pc = "serve" /\ ~ wait
    /\ RenewalDue
    /\ pc' = IF mem.access \in aged THEN "refresh" ELSE "fetch"
    /\ task' = "renew" /\ tried' = {}
    /\ UNCHANGED <<fileVars, remote, mem, wait, pass, trouble, saved>>

-----------------------------------------------------------------------------
(* Time, the world, and what goes wrong.                                   *)

Less(n) == Left(n - Step)

Tick ==
    /\ pass' = IF pass = NoPass THEN NoPass
               ELSE [pass EXCEPT !.real = Less(@), !.belief = Less(@)]
    /\ wait' = FALSE
    /\ UNCHANGED <<fileVars, progress, mem, remote, trouble, saved>>

\* An access token lives longer than it takes to save it.
Age(a) ==
    /\ a \in {t.access : t \in Held \ {writer.new}} \ aged
    /\ aged' = aged \cup {a}
    /\ UNCHANGED <<fileVars, progress, mem, wait, pass, good, live, activated, trouble, saved>>

\* Guardian refuses an access token, after its expiry or because it is revoked.
Refuse(a) ==
    /\ a \in {t.access : t \in Held} \cap good
    /\ IF a \in aged THEN UNCHANGED trouble
       ELSE trouble < MaxTrouble /\ trouble' = trouble + 1
    /\ good' = good \ {a}
    /\ UNCHANGED <<fileVars, progress, mem, wait, pass, aged, live, activated, saved>>

\* The account loses its activation.
Lapse ==
    /\ trouble < MaxTrouble /\ activated
    /\ activated' = FALSE
    /\ trouble' = trouble + 1
    /\ UNCHANGED <<fileVars, progress, mem, wait, pass, good, aged, live, saved>>

\* A save that is cut off leaves what was there.
CutOff == IF saved = "newest" THEN "older" ELSE saved

FileStep ==
    /\ TokenFile!WriteStep
    /\ saved' = IF writer'.pc = "idle" THEN "newest" ELSE saved
    /\ UNCHANGED <<progress, mem, wait, pass, remote, trouble>>

FileFault ==
    /\ trouble < MaxTrouble
    /\ \/ TokenFile!RenameFails /\ saved' = "nothing"
       \/ TokenFile!GivesUp /\ saved' = CutOff
    /\ trouble' = trouble + 1
    /\ UNCHANGED <<progress, mem, wait, pass, remote>>

\* A crash, a stop, or the exit after a renewal that took too long.
Dies ==
    /\ trouble < MaxTrouble
    /\ pc # "down"
    /\ Exits
    /\ saved' = IF TokenFile!Idle THEN saved ELSE CutOff
    /\ TokenFile!Interrupted
    /\ trouble' = trouble + 1
    /\ UNCHANGED <<task, tried, remote>>

-----------------------------------------------------------------------------
\* Before the first login, or with tokens of an earlier run.
Init ==
    /\ file \in {NoTokens, [access |-> Unused(Access, {}), grant |-> Unused(Grant, {})]}
    /\ live = {t.grant : t \in {file} \ {NoTokens}}
    /\ good = {t.access : t \in {file} \ {NoTokens}}
    /\ writer = TokenFile!NoWriter
    /\ pc = "down" /\ task = "start" /\ tried = {}
    /\ mem = NoTokens
    /\ wait = FALSE
    /\ pass = NoPass
    /\ aged = {}
    /\ activated \in BOOLEAN
    /\ saved = IF file = NoTokens THEN "nothing" ELSE "newest"
    /\ trouble = 0

AccountsStep == Refreshed \/ RefreshFails
GuardianStep == Unauthorized \/ Forbidden \/ Activated \/ RequestFails \/ Fetched

Next ==
    \/ Boot \/ Login \/ AccountsStep \/ GuardianStep
    \/ StartRenewal
    \/ Tick
    \/ \E a \in Access : Age(a) \/ Refuse(a)
    \/ FileStep \/ FileFault \/ Dies \/ Lapse

Spec == Init /\ [][Next]_vars

-----------------------------------------------------------------------------
(* Properties.                                                             *)

Tokens == {NoTokens} \cup [access : Access, grant : Grant]

TypeOK ==
    /\ file \in Tokens /\ mem \in Tokens
    /\ writer \in [pc : {"idle", "temp", "rename", "remove", "again"}, new : Tokens]
    /\ pc \in {"down", "refresh", "fetch", "activate", "serve"}
    /\ task \in {"start", "renew", "login"}
    /\ tried \in SUBSET {"refresh", "activate"}
    /\ wait \in BOOLEAN /\ activated \in BOOLEAN
    /\ pass \in {NoPass} \cup [real : Nat, belief : Nat, hasStart : BOOLEAN, sure : BOOLEAN]
    /\ good \in SUBSET Access /\ aged \in SUBSET Access /\ live \in SUBSET Grant
    /\ saved \in {"newest", "older", "nothing"}
    /\ trouble \in 0 .. MaxTrouble
    /\ pc = "down" <=> mem = NoTokens
    /\ pc = "serve" => pass # NoPass

\* A restart needs no operator.  Tokens that were saved never disappear while they
\* are replaced, also when the process dies, unless a rename is refused; and after a
\* complete save the file holds what memory holds, with a refresh token that
\* Accounts still accepts.
TokensKept ==
    /\ saved # "nothing" => file # NoTokens
    /\ saved = "newest" /\ TokenFile!Idle =>
         file.grant \in live /\ (mem # NoTokens => mem = file)

\* Whatever zone Guardian takes for UTC and the machine is in: a pass that says when it
\* starts is never believed to live longer than it does, and the corrected expiry is
\* the real one if the stamps are right or the pass too short for two offsets to fit.
BeliefIsPrudent ==
    pass # NoPass =>
      /\ pass.hasStart => pass.belief <= pass.real
      /\ pass.sure => pass.belief = pass.real

\* What guardian_test.go expects of the correction (lines 51 and 104): the expiry of a
\* pass that says when it starts is its real one.
BeliefIsExact == pass # NoPass /\ pass.hasStart => pass.belief = pass.real

-----------------------------------------------------------------------------
(* Liveness.  The program goes on, systemd restarts it, the operator logs   *)
(* in when tokens are refused, requests that can succeed again and again    *)
(* do so in the end, and access tokens expire.                              *)

Fairness ==
    /\ WF_vars(Boot) /\ SF_vars(Login)
    /\ WF_vars(FileStep) /\ WF_vars(StartRenewal)
    /\ SF_vars(Refreshed) /\ WF_vars(AccountsStep) /\ WF_vars(GuardianStep)
    /\ SF_vars(Fetched) /\ SF_vars(Activated) /\ SF_vars(Unauthorized) /\ SF_vars(Forbidden)
    /\ WF_vars(Tick)
    /\ \A a \in Access : WF_vars(Age(a))

FairSpec == Spec /\ Fairness

\* Whatever has crashed, expired, been revoked or been lost, there is a pass again.
PassComesBack == []<>(pass # NoPass /\ pass.real > 0)
=============================================================================
