--------------------------- MODULE ServiceRestarts ---------------------------
(***************************************************************************)
(* The program as systemd, the health check and the operator see it        *)
(* (scripts/install-systemd.sh): it starts, chooses a proxy, tries to set  *)
(* up its first session, serves, ends, and is started again.  What one     *)
(* start leaves for the next is the proxy selection with its count of      *)
(* failures (cmd/proxy-demo/main.go), the status file and the failure      *)
(* count of the health check.  Tokens and passes are in ControlPlane.      *)
(***************************************************************************)
EXTENDS Naturals, Sequences

CONSTANTS
    Proxy,
    NoProxy,
    Country,        \* values COUNTRY may be set to
    NoCountry,      \* COUNTRY is not set
    CountryOf,      \* the country of a proxy
    Lists,          \* server lists there may be: sequences of proxies
    Alive,          \* proxies that can be reached again and again (fairness only)
    Threshold,      \* HEALTH_FAILURE_THRESHOLD
    MaxFaults       \* bound: file system errors

ASSUME CountryAssumption == NoCountry \notin Country /\ CountryOf \in [Proxy -> Country]
ASSUME ListAssumption == \A list \in Lists : list \in Seq(Proxy) /\ list # <<>>
ASSUME BoundAssumption == Threshold \in Nat \ {0} /\ MaxFaults \in Nat /\ NoProxy \notin Proxy

VARIABLES
    file, writer,   \* the selection file (StateFile): address and failures
    pc,             \* where main is; "off": there is no process
    chosen,         \* selectedProxy and selectedFromState;
                    \* history: unread: chosen because the selection could not be read
    stopped,        \* systemctl stop
    country,        \* COUNTRY
    list,           \* the server list of the day
    current,        \* the status file shows a pass that has not expired
    misses,         \* the failure count of the health check
    check,          \* the health check
    faults,         \* file system errors so far
    home,           \* history: the proxy of the last session
    streak,         \* history: starts in a row that could not set up a session with it
    excuse          \* history: home may change: its selection was lost, or COUNTRY changed

fileVars == <<file, writer>>
process == <<pc, chosen>>
world == <<country, list>>
health == <<current, misses, check>>
history == <<home, streak, excuse>>
vars == <<file, writer, pc, chosen, stopped, country, list, current, misses, check,
          faults, home, streak, excuse>>

NoSelection == [addr |-> NoProxy, failures |-> 0]
SelectionFile == INSTANCE StateFile WITH NoContent <- NoSelection
NoChoice == [addr |-> NoProxy, fromState |-> FALSE, unread |-> FALSE]
\* raced (history): the operator stopped the service while this check was under way.
NoCheck == [pc |-> "idle", raced |-> FALSE]

-----------------------------------------------------------------------------
(* resolveProxyWithStateAndCountry, selectProxyCandidate.                  *)

\* proxyCandidateMatchesCountry
Matches(proxy) == country = NoCountry \/ CountryOf[proxy] = country

Persisted == file # NoSelection /\ Matches(file.addr)

\* The positions in the list a proxy may be taken from: without COUNTRY none, if there
\* are several countries.
Candidates ==
    {i \in DOMAIN list :
        /\ Matches(list[i])
        /\ country = NoCountry => \A j \in DOMAIN list : CountryOf[list[j]] = CountryOf[list[i]]}
FirstCandidate(i) == i \in Candidates /\ \A j \in Candidates : i <= j

-----------------------------------------------------------------------------
(* One start.                                                              *)

\* Restart=always.
Start ==
    /\ pc = "off" /\ ~ stopped
    /\ pc' = "prepare"
    /\ UNCHANGED <<fileVars, chosen, stopped, world, health, faults, history>>

Ends == pc' = "off" /\ chosen' = NoChoice

\* Tokens and a pass are there, and a proxy is chosen.  The server list is fetched only
\* if there is no selection to use, and may be missing.
Resolve ==
    /\ pc = "prepare"
    /\ \/ /\ Persisted
          /\ pc' = "dial" /\ chosen' = [addr |-> file.addr, fromState |-> TRUE, unread |-> FALSE]
       \/ /\ ~ Persisted
          /\ \E i \in DOMAIN list :
               /\ FirstCandidate(i)
               /\ pc' = "dial" /\ chosen' = [addr |-> list[i], fromState |-> FALSE, unread |-> FALSE]
       \/ /\ ~ Persisted /\ Candidates = {}
          /\ Ends
    /\ UNCHANGED <<fileVars, stopped, world, health, faults, history>>

\* A selection that cannot be read is no selection: a candidate of the list is taken,
\* or there is none, or the list was not fetched because it could be read before.
SelectionUnreadable ==
    /\ pc = "prepare" /\ Persisted
    /\ faults < MaxFaults
    /\ faults' = faults + 1
    /\ \/ \E i \in DOMAIN list :
            /\ FirstCandidate(i)
            /\ pc' = "dial"
            /\ chosen' = [addr |-> list[i], fromState |-> FALSE, unread |-> TRUE]
       \/ Ends
    /\ UNCHANGED <<fileVars, stopped, world, health, history>>

\* The list, the tokens or the pass cannot be had.
PrepareFails ==
    /\ pc = "prepare"
    /\ Ends
    /\ UNCHANGED <<fileVars, stopped, world, health, faults, history>>

\* newProxyController has its session and writes the status; saveProxySelection.
Connected ==
    /\ pc = "dial"
    /\ pc' = "save"
    /\ SelectionFile!Begin([addr |-> chosen.addr, failures |-> 0])
    /\ current' = TRUE
    /\ home' = chosen.addr
    /\ streak' = 0
    /\ excuse' = TRUE
    /\ UNCHANGED <<file, chosen, stopped, world, misses, check, faults>>

\* recordProxySelectionFailure: three failures clear the selection.  Mutations: two
\* do, or four; the count starts again with every start, not only if it cannot be read.
FailuresFromScratch == 1
FailuresNow == file.failures + 1
ForgetsEarly(n) == n >= 2
ForgetsLate(n) == n > 3
Forgets(n) == n >= 3

StreakGrows == streak' = IF chosen.addr = home /\ streak < 3 THEN streak + 1 ELSE streak

ConnectFails ==
    /\ pc = "dial"
    /\ StreakGrows
    /\ IF chosen.fromState /\ ~ Forgets(FailuresNow)
       THEN /\ SelectionFile!Begin([addr |-> chosen.addr, failures |-> FailuresNow])
            /\ pc' = "record"
            /\ UNCHANGED <<file, chosen>>
       ELSE /\ file' = IF chosen.fromState THEN NoSelection ELSE file
            /\ Ends
            /\ UNCHANGED writer
    /\ UNCHANGED <<stopped, world, health, faults, home, excuse>>

\* The selection cannot be removed.
ForgetFails ==
    /\ pc = "dial"
    /\ faults < MaxFaults
    /\ chosen.fromState /\ Forgets(FailuresNow)
    /\ StreakGrows
    /\ Ends
    /\ faults' = faults + 1
    /\ UNCHANGED <<fileVars, stopped, world, health, home, excuse>>

\* The count cannot be read: it starts again.
CountUnreadable ==
    /\ pc = "dial"
    /\ faults < MaxFaults
    /\ chosen.fromState
    /\ StreakGrows
    /\ SelectionFile!Begin([addr |-> chosen.addr, failures |-> FailuresFromScratch])
    /\ pc' = "record"
    /\ faults' = faults + 1
    /\ UNCHANGED <<file, chosen, stopped, world, health, home, excuse>>

Recorded ==
    /\ pc = "record" /\ SelectionFile!Idle
    /\ Ends
    /\ UNCHANGED <<fileVars, stopped, world, health, faults, history>>

Listen ==
    /\ pc = "save" /\ SelectionFile!Idle
    /\ pc' = "serve"
    /\ UNCHANGED <<fileVars, chosen, stopped, world, health, faults, history>>

\* The write is complete: home has its selection.
FileStep ==
    /\ SelectionFile!WriteStep
    /\ excuse' = (excuse /\ ~ (pc = "save" /\ writer'.pc = "idle"))
    /\ UNCHANGED <<process, stopped, world, health, faults, home, streak>>

FileFault ==
    /\ faults < MaxFaults
    /\ SelectionFile!WriteFault
    /\ faults' = faults + 1
    /\ excuse' = TRUE
    /\ UNCHANGED <<process, stopped, world, health, home, streak>>

-----------------------------------------------------------------------------
(* Ends of the process.                                                    *)

Killed == SelectionFile!Interrupted /\ chosen' = NoChoice

\* A crash, the exit after a renewal that took too long, a listener that is taken.
Dies ==
    /\ pc # "off"
    /\ pc' = "off"
    /\ Killed
    /\ UNCHANGED <<stopped, world, health, faults, history>>

Stop ==
    /\ ~ stopped
    /\ stopped' = TRUE
    /\ pc' = "off"
    /\ Killed
    /\ check' = [check EXCEPT !.raced = check.pc # "idle"]
    /\ UNCHANGED <<world, current, misses, faults, history>>

\* systemctl start
StartAgain ==
    /\ stopped
    /\ stopped' = FALSE
    /\ check' = [check EXCEPT !.raced = FALSE]
    /\ UNCHANGED <<fileVars, process, world, current, misses, faults, history>>

-----------------------------------------------------------------------------
(* The health check.                                                       *)

\* The timer fires: a service that is inactive, or about to be started, is left alone.
\* Mutation: any service is looked at.
AnyService == TRUE
ServiceActive == pc # "off"

CheckStarts ==
    /\ check.pc = "idle"
    /\ ServiceActive
    /\ check' = [check EXCEPT !.pc = "look"]
    /\ UNCHANGED <<fileVars, process, stopped, world, current, misses, faults, history>>

\* systemctl restart, which also starts a service that was stopped.
RestartService ==
    /\ pc' = "prepare"
    /\ stopped' = FALSE
    /\ Killed
    /\ check' = NoCheck

\* The status file is missing or shows a pass that has expired.
StatusIsOld ==
    /\ check.pc = "look"
    /\ ~ current
    /\ RestartService
    /\ UNCHANGED <<world, current, misses, faults, history>>

ProbeSucceeds ==
    /\ check.pc = "look"
    /\ current
    /\ pc = "serve"
    /\ misses' = 0
    /\ check' = NoCheck
    /\ UNCHANGED <<fileVars, process, stopped, world, current, faults, history>>

\* All targets fail, because of the service or not.
ProbesFail ==
    /\ check.pc = "look"
    /\ current
    /\ IF misses + 1 < Threshold
       THEN /\ misses' = misses + 1
            /\ check' = NoCheck
            /\ UNCHANGED <<fileVars, process, stopped>>
       ELSE misses' = 0 /\ RestartService
    /\ UNCHANGED <<world, current, faults, history>>

-----------------------------------------------------------------------------
(* The pass, the server list and the operator.                             *)

PassExpires ==
    /\ current
    /\ current' = FALSE
    /\ UNCHANGED <<fileVars, process, stopped, world, misses, check, faults, history>>

PassRenewed ==
    /\ pc = "serve"
    /\ ~ current
    /\ current' = TRUE
    /\ UNCHANGED <<fileVars, process, stopped, world, misses, check, faults, history>>

ListChanges ==
    /\ list' \in Lists \ {list}
    /\ UNCHANGED <<fileVars, process, stopped, country, health, faults, history>>

\* The operator edits COUNTRY while the service is stopped.
SetCountry ==
    /\ stopped /\ pc = "off"
    /\ country' \in (Country \cup {NoCountry}) \ {country}
    /\ excuse' = TRUE
    /\ UNCHANGED <<fileVars, process, stopped, list, health, faults, home, streak>>

-----------------------------------------------------------------------------
\* A new installation, or a selection of an earlier one.
Init ==
    /\ file \in {NoSelection} \cup [addr : Proxy, failures : {0}]
    /\ writer = SelectionFile!NoWriter
    /\ pc = "off" /\ chosen = NoChoice
    /\ stopped = FALSE
    /\ country \in Country \cup {NoCountry}
    /\ list \in Lists
    /\ current = FALSE /\ misses = 0
    /\ check = NoCheck
    /\ faults = 0
    /\ home = NoProxy /\ streak = 0 /\ excuse = TRUE

MainStep ==
    \/ Resolve \/ SelectionUnreadable \/ PrepareFails
    \/ Connected \/ ConnectFails \/ ForgetFails \/ CountUnreadable
    \/ Recorded \/ Listen
CheckStep == StatusIsOld \/ ProbeSucceeds \/ ProbesFail
WorldStep ==
    \/ PassExpires \/ PassRenewed \/ ListChanges \/ SetCountry

Next ==
    \/ Start \/ MainStep \/ FileStep \/ FileFault
    \/ Dies \/ Stop \/ StartAgain
    \/ CheckStarts \/ CheckStep
    \/ WorldStep

Spec == Init /\ [][Next]_vars

-----------------------------------------------------------------------------
(* Properties.                                                             *)

Selections == {NoSelection} \cup [addr : Proxy, failures : 0 .. 2]

TypeOK ==
    /\ file \in Selections
    /\ writer \in [pc : {"idle", "temp", "rename", "remove", "again"}, new : Selections]
    /\ pc \in {"off", "prepare", "dial", "record", "save", "serve"}
    /\ chosen \in {NoChoice} \cup [addr : Proxy, fromState : BOOLEAN, unread : BOOLEAN]
    /\ pc \in {"off", "prepare"} <=> chosen = NoChoice
    /\ stopped \in BOOLEAN /\ (stopped => pc = "off")
    /\ country \in Country \cup {NoCountry} /\ list \in Lists
    /\ current \in BOOLEAN /\ misses \in 0 .. Threshold - 1
    /\ check \in [pc : {"idle", "look"}, raced : BOOLEAN]
    /\ faults \in 0 .. MaxFaults
    /\ home \in Proxy \cup {NoProxy} /\ streak \in 0 .. 3 /\ excuse \in BOOLEAN
    /\ SelectionFile!Idle \/ pc \in {"record", "save"}

\* Restarts keep the exit (OPERATOR.md, stability): the service moves to another proxy
\* only after three starts in a row could not reach its own, however often it was
\* killed or stopped in between and however the server list changes, or when COUNTRY
\* was changed, the selection was not saved, or this very start could not read it.
ExitKept ==
    [][home' # home => home = NoProxy \/ streak >= 3 \/ excuse \/ chosen.unread]_vars

\* The health check does not start a service the operator has stopped, unless the stop
\* came while a check was under way.
StopIsFinal == [][stopped /\ pc' # "off" => check.raced]_vars

-----------------------------------------------------------------------------
(* Liveness.  systemd restarts, main goes on, a proxy in Alive is reached   *)
(* in the end, and a start is now and then faster than crashes and checks.  *)

FileDone == FileStep /\ writer'.pc = "idle"

Fairness ==
    /\ WF_vars(Start) /\ WF_vars(MainStep) /\ SF_vars(FileStep)
    /\ SF_vars(Connected \/ ConnectFails \/ ForgetFails \/ CountUnreadable)
    /\ SF_vars(Resolve) /\ SF_vars(Connected /\ chosen.addr \in Alive) /\ SF_vars(FileDone) /\ SF_vars(Listen)

FairSpec == Spec /\ Fairness

\* A selection that leads nowhere is given up: if the first candidate of the server
\* list can be reached, the service serves again and again, whatever it used before.
CanServe ==
    ~ stopped /\ \E i \in DOMAIN list : FirstCandidate(i) /\ list[i] \in Alive
ServiceComesUp == <>[]CanServe => []<>(pc = "serve")
=============================================================================
