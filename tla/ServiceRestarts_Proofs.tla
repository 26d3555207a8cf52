----------------------- MODULE ServiceRestarts_Proofs -----------------------
(***************************************************************************)
(* Proofs about ServiceRestarts, for any proxies, countries, server lists, *)
(* thresholds and numbers of file errors.                                  *)
(***************************************************************************)
EXTENDS ServiceRestarts, TLAPS

\* A process that is past its choice runs with the COUNTRY it has chosen for.  What it
\* writes is its own choice, and only the first save starts the count again.
ChoiceInv ==
    /\ pc \notin {"off", "prepare"} => Matches(chosen.addr)
    /\ ~ SelectionFile!Idle => writer.new.addr = chosen.addr
    /\ ~ SelectionFile!Idle /\ pc = "save" => writer.new.failures = 0
    /\ writer.pc \in {"remove", "again"} => excuse
    /\ pc = "record" \/ chosen.fromState => ~ chosen.unread

\* The last exit is the selection, with no more failures than starts that failed on it,
\* unless there is an excuse; a start that could read it has chosen it, and counts on
\* from there.
HomeInv ==
    ~ excuse /\ home # NoProxy /\ streak < 3 =>
      /\ file.addr = home /\ file.failures <= streak /\ Matches(home)
      /\ pc \notin {"off", "prepare"} => chosen.addr = home \/ chosen.unread
      /\ ~ SelectionFile!Idle => writer.new.failures <= streak

\* A process that has its session uses the last exit.
SaveInv == pc \in {"save", "serve"} => chosen.addr = home /\ streak = 0

\* A stop finds no check under way, or marks it.
RaceInv == stopped /\ check.pc = "look" => check.raced

IInv == TypeOK /\ ChoiceInv /\ HomeInv /\ SaveInv /\ RaceInv

-----------------------------------------------------------------------------
(* Types.                                                                  *)

WriterState == [pc : {"idle", "temp", "rename", "remove", "again"}, new : Selections]
CheckState == [pc : {"idle", "look"}, raced : BOOLEAN]

\* The values the steps assign.
LEMMA Values ==
    /\ NoSelection \in Selections
    /\ NoSelection.addr = NoProxy
    /\ SelectionFile!NoWriter \in WriterState /\ SelectionFile!NoWriter.pc = "idle"
    /\ NoCheck \in CheckState /\ NoCheck.pc = "idle" /\ ~ NoCheck.raced
    /\ NoChoice.addr = NoProxy /\ ~ NoChoice.unread /\ ~ NoChoice.fromState
    /\ \A sel \in Selections : /\ sel.failures \in 0 .. 2
                               /\ sel # NoSelection => sel.addr \in Proxy
                               /\ sel.addr \in Proxy => sel # NoSelection
<1>1. NoProxy \notin Proxy
  BY BoundAssumption
<1> QED
  BY <1>1 DEF NoSelection, Selections, SelectionFile!NoWriter, WriterState, NoCheck,
     CheckState, NoChoice

LEMMA ChoiceTypes ==
    ASSUME NEW p \in Proxy, NEW b \in BOOLEAN, NEW u \in BOOLEAN
    PROVE  /\ [addr |-> p, fromState |-> b, unread |-> u]
                 \in [addr : Proxy, fromState : BOOLEAN, unread : BOOLEAN]
           /\ [addr |-> p, fromState |-> b, unread |-> u] # NoChoice
<1>1. p # NoProxy
  BY BoundAssumption
<1>2. [addr |-> p, fromState |-> b, unread |-> u].addr = p /\ NoChoice.addr = NoProxy
  BY DEF NoChoice
<1> QED BY <1>1, <1>2

LEMMA BeginTypes ==
    ASSUME NEW p \in Proxy, NEW n \in 0 .. 2,
           SelectionFile!Begin([addr |-> p, failures |-> n])
    PROVE  /\ writer' \in WriterState /\ writer'.pc = "temp"
           /\ writer'.new.addr = p /\ writer'.new.failures = n
BY DEF SelectionFile!Begin, WriterState, Selections

\* The steps of a write, and its end without one.
LEMMA WriteTypes ==
    ASSUME file \in Selections, writer \in WriterState,
           \/ SelectionFile!WriteStep \/ SelectionFile!WriteFault \/ SelectionFile!Interrupted
    PROVE  file' \in Selections /\ writer' \in WriterState
<1> USE Values DEF WriterState
<1>1. ASSUME SelectionFile!WriteStep PROVE file' \in Selections /\ writer' \in WriterState
  BY <1>1 DEF SelectionFile!WriteStep, SelectionFile!TempWritten, SelectionFile!Renamed,
     SelectionFile!Removed, SelectionFile!AfterTemp
<1>2. ASSUME SelectionFile!WriteFault PROVE file' \in Selections /\ writer' \in WriterState
  BY <1>2 DEF SelectionFile!WriteFault, SelectionFile!RenameFails, SelectionFile!GivesUp
<1>3. ASSUME SelectionFile!Interrupted PROVE file' \in Selections /\ writer' \in WriterState
  BY <1>3 DEF SelectionFile!Interrupted
<1> QED BY <1>1, <1>2, <1>3

\* A start keeps the types.
LEMMA MainTypes ==
    ASSUME TypeOK, Start \/ MainStep
    PROVE  TypeOK'
<1> USE Values DEF TypeOK
<1>1. CASE Start
  BY <1>1 DEF Start, fileVars, world, health, history, SelectionFile!Idle
<1>2. CASE Resolve \/ SelectionUnreadable
  <2>1. list \in Seq(Proxy)
    BY ListAssumption
  <2>2. Persisted => file.addr \in Proxy
    BY DEF Persisted
  <2>3. \A i \in DOMAIN list : list[i] \in Proxy
    BY <2>1
  <2>4. \/ chosen' = NoChoice /\ pc' = "off"
        \/ /\ chosen' \in [addr : Proxy, fromState : BOOLEAN, unread : BOOLEAN]
           /\ chosen' # NoChoice
           /\ pc' = "dial"
    <3>1. CASE Resolve /\ Persisted
      <4>1. /\ chosen' = [addr |-> file.addr, fromState |-> TRUE, unread |-> FALSE]
            /\ pc' = "dial"
        BY <3>1 DEF Resolve
      <4> QED BY <2>2, <3>1, <4>1, ChoiceTypes
    <3>2. CASE Ends
      BY <3>2 DEF Ends
    <3>3. ASSUME NEW i \in DOMAIN list, NEW u \in BOOLEAN,
                 chosen' = [addr |-> list[i], fromState |-> FALSE, unread |-> u]
          PROVE  /\ chosen' \in [addr : Proxy, fromState : BOOLEAN, unread : BOOLEAN]
                 /\ chosen' # NoChoice
      BY <2>3, <3>3, ChoiceTypes
    <3> QED BY <1>2, <3>1, <3>2, <3>3 DEF Resolve, SelectionUnreadable
  <2>5. faults' \in 0 .. MaxFaults
    BY <1>2, BoundAssumption DEF Resolve, SelectionUnreadable
  <2> QED
    BY <1>2, <2>4, <2>5 DEF Resolve, SelectionUnreadable, fileVars, world, health, history,
       SelectionFile!Idle
<1>3. CASE PrepareFails \/ Recorded
  BY <1>3 DEF PrepareFails, Recorded, Ends, fileVars, world, health, history,
     SelectionFile!Idle
<1>4. CASE Connected
  <2>1. chosen.addr \in Proxy /\ pc = "dial"
    BY <1>4 DEF Connected
  <2>2. writer' \in WriterState
    <3>1. SelectionFile!Begin([addr |-> chosen.addr, failures |-> 0])
      BY <1>4 DEF Connected
    <3>2. 0 \in 0 .. 2
      OBVIOUS
    <3> QED BY <2>1, <3>1, <3>2, BeginTypes
  <2> QED BY <1>4, <2>1, <2>2 DEF Connected, world, WriterState
<1>5. CASE ConnectFails
  <2>1. chosen.addr \in Proxy /\ pc = "dial" /\ SelectionFile!Idle
    BY <1>5 DEF ConnectFails
  <2>2. ~ Forgets(FailuresNow) => FailuresNow \in 0 .. 2
    BY DEF Forgets, FailuresNow
  <2>3. streak' \in 0 .. 3
    BY <1>5 DEF ConnectFails, StreakGrows
  <2>4. CASE chosen.fromState /\ ~ Forgets(FailuresNow)
    <3>1. writer' \in WriterState
      <4>1. SelectionFile!Begin([addr |-> chosen.addr, failures |-> FailuresNow])
        BY <1>5, <2>4 DEF ConnectFails
      <4> QED BY <2>1, <2>2, <2>4, <4>1, BeginTypes
    <3> QED
      BY <1>5, <2>1, <2>3, <2>4, <3>1 DEF ConnectFails, world, health, WriterState
  <2>5. CASE ~ (chosen.fromState /\ ~ Forgets(FailuresNow))
    BY <1>5, <2>1, <2>3, <2>5 DEF ConnectFails, Ends, world, health, SelectionFile!Idle
  <2> QED BY <2>4, <2>5
<1>6. CASE ForgetFails
  <2>1. streak' \in 0 .. 3 /\ faults' \in 0 .. MaxFaults
    BY <1>6, BoundAssumption DEF ForgetFails, StreakGrows
  <2> QED
    BY <1>6, <2>1 DEF ForgetFails, Ends, fileVars, world, health, SelectionFile!Idle
<1>7. CASE Listen
  BY <1>7 DEF Listen, fileVars, world, health, history, SelectionFile!Idle
<1>8. CASE CountUnreadable
  <2>1. chosen.addr \in Proxy /\ pc = "dial"
    BY <1>8 DEF CountUnreadable
  <2>2. streak' \in 0 .. 3 /\ faults' \in 0 .. MaxFaults
    BY <1>8, BoundAssumption DEF CountUnreadable, StreakGrows
  <2>3. writer' \in WriterState
    <3>1. SelectionFile!Begin([addr |-> chosen.addr, failures |-> FailuresFromScratch])
      BY <1>8 DEF CountUnreadable
    <3>2. FailuresFromScratch \in 0 .. 2
      BY DEF FailuresFromScratch
    <3> QED BY <2>1, <3>1, <3>2, BeginTypes
  <2> QED BY <1>8, <2>1, <2>2, <2>3 DEF CountUnreadable, world, health, WriterState
<1> QED BY <1>1, <1>2, <1>3, <1>4, <1>5, <1>6, <1>7, <1>8 DEF MainStep

\* So do the file, the ends of the process, the check and the world.
LEMMA OtherTypes ==
    ASSUME TypeOK, \/ FileStep \/ FileFault \/ Dies \/ Stop \/ StartAgain
                   \/ CheckStarts \/ CheckStep \/ WorldStep
    PROVE  TypeOK'
<1> USE Values DEF TypeOK
<1>1. CASE FileStep
  <2>1. file' \in Selections /\ writer' \in WriterState
    BY <1>1, WriteTypes DEF FileStep, WriterState
  <2>2. ~ SelectionFile!Idle
    BY <1>1 DEF FileStep, SelectionFile!WriteStep, SelectionFile!TempWritten,
       SelectionFile!Renamed, SelectionFile!Removed, SelectionFile!Idle
  <2> QED BY <1>1, <2>1, <2>2 DEF FileStep, process, world, health, WriterState
<1>2. CASE FileFault
  <2>1. file' \in Selections /\ writer' \in WriterState
    BY <1>2, WriteTypes DEF FileFault, WriterState
  <2>2. ~ SelectionFile!Idle
    BY <1>2 DEF FileFault, SelectionFile!WriteFault, SelectionFile!RenameFails,
       SelectionFile!GivesUp, SelectionFile!Idle
  <2>3. faults' \in 0 .. MaxFaults
    BY <1>2, BoundAssumption DEF FileFault
  <2> QED BY <1>2, <2>1, <2>2, <2>3 DEF FileFault, process, world, health, WriterState
<1>3. CASE Dies
  BY <1>3 DEF Dies, Killed, SelectionFile!Interrupted, world, health, history,
     SelectionFile!Idle, WriterState
<1>4. CASE Stop
  <2>1. check' \in CheckState
    BY <1>4 DEF Stop, CheckState
  <2> QED
    BY <1>4, <2>1 DEF Stop, Killed, SelectionFile!Interrupted, world, history,
     SelectionFile!Idle, WriterState, CheckState
<1>5. CASE StartAgain
  BY <1>5 DEF StartAgain, fileVars, process, world, history, SelectionFile!Idle
<1>6. CASE CheckStarts
  BY <1>6 DEF CheckStarts, fileVars, process, world, history, SelectionFile!Idle
<1>7. CASE StatusIsOld
  BY <1>7 DEF StatusIsOld, RestartService, Killed, SelectionFile!Interrupted, world,
     history, SelectionFile!Idle, WriterState, CheckState
<1>8. CASE ProbeSucceeds
  BY <1>8, BoundAssumption DEF ProbeSucceeds, fileVars, process, world, history,
     SelectionFile!Idle, CheckState
<1>9. CASE ProbesFail
  <2>1. misses' \in 0 .. Threshold - 1
    BY <1>9, BoundAssumption DEF ProbesFail
  <2>2. CASE misses + 1 < Threshold
    BY <1>9, <2>1, <2>2 DEF ProbesFail, fileVars, process, world, history,
       SelectionFile!Idle, CheckState
  <2>3. CASE ~ (misses + 1 < Threshold)
    BY <1>9, <2>1, <2>3 DEF ProbesFail, RestartService, Killed, SelectionFile!Interrupted,
       world, history, SelectionFile!Idle, WriterState, CheckState
  <2> QED BY <2>2, <2>3
<1>10. CASE WorldStep
  <2>1. CASE PassExpires \/ PassRenewed
    <3>1. current' \in BOOLEAN
      BY <2>1 DEF PassExpires, PassRenewed
    <3>2. UNCHANGED <<file, writer, pc, chosen, stopped, country, list, misses, check,
                      faults, home, streak, excuse>>
      BY <2>1 DEF PassExpires, PassRenewed, fileVars, process, world, history
    <3> QED BY <3>1, <3>2 DEF SelectionFile!Idle
  <2>2. CASE ListChanges
    BY <2>2 DEF ListChanges, fileVars, process, health, history, SelectionFile!Idle
  <2>3. CASE SetCountry
    BY <2>3 DEF SetCountry, fileVars, process, health, SelectionFile!Idle
  <2> QED BY <1>10, <2>1, <2>2, <2>3 DEF WorldStep
<1> QED
  BY <1>1, <1>2, <1>3, <1>4, <1>5, <1>6, <1>7, <1>8, <1>9, <1>10 DEF CheckStep

LEMMA TypeStep == TypeOK /\ [Next]_vars => TypeOK'
<1> SUFFICES ASSUME TypeOK, [Next]_vars PROVE TypeOK'
  OBVIOUS
<1>1. CASE Next
  BY <1>1, MainTypes, OtherTypes DEF Next
<1>2. CASE UNCHANGED vars
  BY <1>2 DEF TypeOK, vars, SelectionFile!Idle
<1> QED BY <1>1, <1>2

-----------------------------------------------------------------------------
(* How the selection, its write and the choice of the process move.        *)

LEMMA WriteMoves ==
  ASSUME writer \in WriterState
  PROVE
    /\ SelectionFile!WriteStep =>
         /\ writer.pc # "idle"
         /\ \/ writer'.pc = "idle" /\ file' = writer.new
            \/ writer'.new = writer.new /\ file' = file /\ writer'.pc = "rename"
            \/ writer'.new = writer.new /\ writer.pc = "remove" /\ writer'.pc = "again"
    /\ SelectionFile!WriteFault =>
         /\ writer.pc # "idle" /\ file' = file
         /\ writer'.pc = "idle" \/ writer'.new = writer.new
    /\ SelectionFile!Interrupted => writer'.pc = "idle" /\ file' = file
<1>1. ASSUME SelectionFile!WriteStep
      PROVE  /\ writer.pc # "idle"
             /\ \/ writer'.pc = "idle" /\ file' = writer.new
                \/ writer'.new = writer.new /\ file' = file /\ writer'.pc = "rename"
                \/ writer'.new = writer.new /\ writer.pc = "remove" /\ writer'.pc = "again"
  <2>1. ASSUME SelectionFile!TempWritten
        PROVE  /\ writer.pc = "temp" /\ file' = file
               /\ writer'.new = writer.new /\ writer'.pc = "rename"
    BY <2>1 DEF SelectionFile!TempWritten, SelectionFile!AfterTemp
  <2>2. ASSUME SelectionFile!Renamed
        PROVE  writer.pc # "idle" /\ writer'.pc = "idle" /\ file' = writer.new
    BY <2>2 DEF SelectionFile!Renamed, SelectionFile!NoWriter
  <2>3. ASSUME SelectionFile!Removed
        PROVE  writer.pc = "remove" /\ writer'.new = writer.new /\ writer'.pc = "again"
    BY <2>3 DEF SelectionFile!Removed
  <2> QED BY <1>1, <2>1, <2>2, <2>3 DEF SelectionFile!WriteStep
<1>2. ASSUME SelectionFile!WriteFault
      PROVE  /\ writer.pc # "idle" /\ file' = file
             /\ writer'.pc = "idle" \/ writer'.new = writer.new
  <2>1. ASSUME SelectionFile!RenameFails
        PROVE  writer.pc # "idle" /\ file' = file /\ writer'.new = writer.new
    BY <2>1 DEF SelectionFile!RenameFails, WriterState
  <2>2. ASSUME SelectionFile!GivesUp
        PROVE  writer.pc # "idle" /\ file' = file /\ writer'.pc = "idle"
    BY <2>2 DEF SelectionFile!GivesUp, SelectionFile!NoWriter
  <2> QED BY <1>2, <2>1, <2>2 DEF SelectionFile!WriteFault
<1>3. SelectionFile!Interrupted => writer'.pc = "idle" /\ file' = file
  BY DEF SelectionFile!Interrupted, SelectionFile!NoWriter
<1> QED BY <1>1, <1>2, <1>3

\* These steps leave the selection and the history as they are, and the process alone
\* unless it ends or has not chosen yet.
LEMMA EndsOrStays ==
    ASSUME TypeOK,
           \/ Start \/ PrepareFails \/ Recorded \/ Dies \/ Stop \/ StartAgain
           \/ CheckStarts \/ CheckStep \/ PassExpires \/ PassRenewed \/ ListChanges
    PROVE  /\ UNCHANGED <<file, country, home, streak, excuse>>
           /\ \/ pc' \in {"off", "prepare"} /\ writer'.pc = "idle"
              \/ UNCHANGED <<pc, chosen, writer>>
<1> DEFINE Keeps == UNCHANGED <<file, country, home, streak, excuse>>
           Gone == pc' \in {"off", "prepare"} /\ writer'.pc = "idle"
           Same == UNCHANGED <<pc, chosen, writer>>
<1>1. writer \in WriterState
  BY DEF TypeOK, WriterState
<1>2. CASE Start \/ PrepareFails \/ Recorded
  <2>1. writer.pc = "idle"
    BY <1>2 DEF TypeOK, Start, PrepareFails, Recorded, SelectionFile!Idle
  <2>2. Keeps /\ pc' \in {"off", "prepare"} /\ writer' = writer
    BY <1>2 DEF Start, PrepareFails, Recorded, Ends, fileVars, world, history
  <2> QED BY <2>1, <2>2
<1>3. ASSUME Killed PROVE writer'.pc = "idle" /\ file' = file
  BY <1>1, <1>3, WriteMoves DEF Killed
<1>4. CASE Dies \/ Stop
  BY <1>3, <1>4 DEF Dies, Stop, world, history
<1>5. CASE StartAgain \/ CheckStarts
  BY <1>5 DEF StartAgain, CheckStarts, fileVars, process, world, history
<1>6. CASE StatusIsOld
  BY <1>3, <1>6 DEF StatusIsOld, RestartService, world, history
<1>7. CASE ProbeSucceeds
  BY <1>7 DEF ProbeSucceeds, fileVars, process, world, history
<1>8. CASE ProbesFail
  BY <1>3, <1>8 DEF ProbesFail, RestartService, fileVars, process, world, history
<1>9. CASE PassExpires \/ PassRenewed
  BY <1>9 DEF PassExpires, PassRenewed, fileVars, process, world, history
<1>10. CASE ListChanges
  BY <1>10 DEF ListChanges, fileVars, process, history
<1> QED
  BY <1>2, <1>4, <1>5, <1>6, <1>7, <1>8, <1>9, <1>10 DEF CheckStep

\* The choice and what is written of it.
LEMMA ChoiceStep == IInv /\ [Next]_vars => ChoiceInv'
<1> SUFFICES ASSUME IInv, [Next]_vars PROVE ChoiceInv'
  OBVIOUS
<1>1. TypeOK /\ writer \in WriterState
  BY DEF IInv, TypeOK, WriterState
<1>2. CASE \/ Start \/ PrepareFails \/ Recorded \/ Dies \/ Stop \/ StartAgain
           \/ CheckStarts \/ CheckStep \/ PassExpires \/ PassRenewed \/ ListChanges
  <2>1. TypeOK'
    BY TypeStep DEF IInv
  <2> QED
    BY <1>1, <1>2, <2>1, EndsOrStays, Values DEF TypeOK, IInv, ChoiceInv, Matches, SelectionFile!Idle
<1>3. CASE Resolve \/ SelectionUnreadable
  <2>1. writer.pc = "idle" /\ writer' = writer
    BY <1>1, <1>3 DEF TypeOK, Resolve, SelectionUnreadable, fileVars, SelectionFile!Idle
  <2>2. pc' \notin {"off", "prepare"} => Matches(chosen'.addr)
    BY <1>3 DEF Resolve, SelectionUnreadable, Persisted, FirstCandidate, Candidates, Ends
  <2>3. pc' # "record" /\ (chosen'.fromState => ~ chosen'.unread)
    BY <1>3, Values DEF Resolve, SelectionUnreadable, Ends
  <2>4. country' = country
    BY <1>3 DEF Resolve, SelectionUnreadable, world
  <2> QED BY <2>1, <2>2, <2>3, <2>4 DEF ChoiceInv, Matches, SelectionFile!Idle
<1>4. CASE Connected
  <2>1. /\ writer'.pc = "temp"
        /\ writer'.new.addr = chosen.addr /\ writer'.new.failures = 0
    BY <1>4 DEF Connected, SelectionFile!Begin
  <2> QED
    BY <1>4, <2>1 DEF IInv, ChoiceInv, Connected, Matches, world, SelectionFile!Idle
<1>5. CASE ConnectFails \/ CountUnreadable
  <2>1. writer.pc = "idle"
    BY <1>1, <1>5 DEF TypeOK, ConnectFails, CountUnreadable, SelectionFile!Idle
  <2>2. \/ pc' = "off" /\ writer' = writer /\ chosen' = NoChoice
        \/ /\ pc' = "record" /\ chosen' = chosen /\ chosen.fromState
           /\ writer'.pc = "temp" /\ writer'.new.addr = chosen.addr
    BY <1>5 DEF ConnectFails, CountUnreadable, Ends, SelectionFile!Begin
  <2>3. pc = "dial" /\ country' = country
    BY <1>5 DEF ConnectFails, CountUnreadable, world
  <2> QED
    BY <2>1, <2>2, <2>3, Values DEF IInv, ChoiceInv, Matches, SelectionFile!Idle
<1>6. CASE ForgetFails
  BY <1>1, <1>6, Values DEF TypeOK, ChoiceInv, ForgetFails, Ends, fileVars, SelectionFile!Idle
<1>7. CASE Listen
  BY <1>7 DEF IInv, ChoiceInv, Listen, fileVars, world, Matches, SelectionFile!Idle
<1>8. CASE FileStep
  <2>1. /\ writer.pc # "idle"
        /\ \/ writer'.pc = "idle" /\ file' = writer.new
           \/ writer'.new = writer.new /\ writer'.pc = "rename"
           \/ writer'.new = writer.new /\ writer.pc = "remove" /\ writer'.pc = "again"
    BY <1>1, <1>8, WriteMoves DEF FileStep
  <2>2. /\ pc' = pc /\ chosen' = chosen /\ country' = country
        /\ excuse' = (excuse /\ ~ (pc = "save" /\ writer'.pc = "idle"))
    BY <1>8 DEF FileStep, process, world
  <2> QED BY <2>1, <2>2 DEF IInv, ChoiceInv, Matches, SelectionFile!Idle
<1>10. CASE FileFault
  <2>1. writer.pc # "idle" /\ (writer'.pc = "idle" \/ writer'.new = writer.new)
    BY <1>1, <1>10, WriteMoves DEF FileFault
  <2> QED
    BY <1>10, <2>1 DEF IInv, ChoiceInv, FileFault, process, world, Matches,
       SelectionFile!Idle
<1>11. CASE SetCountry
  BY <1>1, <1>11 DEF IInv, TypeOK, ChoiceInv, SetCountry, fileVars, process, SelectionFile!Idle
<1>9. CASE UNCHANGED vars
  BY <1>9 DEF IInv, ChoiceInv, vars, Matches, SelectionFile!Idle
<1> QED
  BY <1>2, <1>3, <1>4, <1>5, <1>6, <1>7, <1>8, <1>9, <1>10, <1>11 DEF Next, MainStep, WorldStep

\* A process that has its session.
LEMMA SaveStep == IInv /\ [Next]_vars => SaveInv'
<1> SUFFICES ASSUME IInv, [Next]_vars PROVE SaveInv'
  OBVIOUS
<1>1. TypeOK /\ writer \in WriterState
  BY DEF IInv, TypeOK, WriterState
<1>2. CASE \/ Start \/ PrepareFails \/ Recorded \/ Dies \/ Stop \/ StartAgain
           \/ CheckStarts \/ CheckStep \/ PassExpires \/ PassRenewed \/ ListChanges
  BY <1>1, <1>2, EndsOrStays DEF IInv, SaveInv
<1>3. CASE Resolve \/ SelectionUnreadable \/ ConnectFails \/ ForgetFails \/ CountUnreadable
  <2>1. pc' \notin {"save", "serve"}
    BY <1>3 DEF Resolve, SelectionUnreadable, ConnectFails, ForgetFails, CountUnreadable, Ends
  <2> QED BY <2>1 DEF SaveInv
<1>4. CASE Connected \/ Listen
  BY <1>4 DEF IInv, SaveInv, Connected, Listen, history
<1>5. CASE FileStep \/ FileFault \/ SetCountry
  BY <1>5 DEF IInv, SaveInv, FileStep, FileFault, SetCountry, process
<1>6. CASE UNCHANGED vars
  BY <1>6 DEF IInv, SaveInv, vars
<1> QED BY <1>2, <1>3, <1>4, <1>5, <1>6 DEF Next, MainStep, WorldStep

\* The last exit.
LEMMA HomeStep == IInv /\ [Next]_vars => HomeInv'
<1> SUFFICES ASSUME IInv, [Next]_vars PROVE HomeInv'
  OBVIOUS
<1>1. TypeOK /\ writer \in WriterState
  BY DEF IInv, TypeOK, WriterState
<1>2. CASE \/ Start \/ PrepareFails \/ Recorded \/ Dies \/ Stop \/ StartAgain
           \/ CheckStarts \/ CheckStep \/ PassExpires \/ PassRenewed \/ ListChanges
  BY <1>1, <1>2, EndsOrStays DEF IInv, HomeInv, Matches, SelectionFile!Idle
<1>3. CASE Resolve
  <2>1. writer.pc = "idle" /\ writer' = writer
    BY <1>1, <1>3 DEF TypeOK, Resolve, fileVars, SelectionFile!Idle
  <2>2. ASSUME ~ excuse, home # NoProxy, streak < 3, pc' \notin {"off", "prepare"}
        PROVE  chosen'.addr = home
    <3>1. file.addr = home /\ Matches(home)
      BY <2>2 DEF IInv, HomeInv
    <3>2. Persisted
      BY <1>1, <2>2, <3>1, Values DEF TypeOK, Persisted
    <3> QED BY <1>3, <3>1, <3>2 DEF Resolve
  <2> QED
    BY <1>3, <2>1, <2>2 DEF IInv, HomeInv, Resolve, Matches, fileVars, world, history,
       SelectionFile!Idle
<1>12. CASE SelectionUnreadable
  <2>1. writer.pc = "idle" /\ UNCHANGED <<file, writer, country, home, streak, excuse>>
    BY <1>1, <1>12 DEF TypeOK, SelectionUnreadable, fileVars, world, history, SelectionFile!Idle
  <2>2. pc' = "off" \/ chosen'.unread
    BY <1>12 DEF SelectionUnreadable, Ends
  <2> QED BY <2>1, <2>2 DEF IInv, HomeInv, Matches, SelectionFile!Idle
<1>4. CASE Connected
  BY <1>4 DEF Connected, HomeInv
<1>5. ASSUME ConnectFails \/ ForgetFails \/ CountUnreadable, ~ excuse, home # NoProxy, streak' < 3
      PROVE  /\ streak < 3 /\ streak <= streak'
             /\ chosen.fromState => chosen.addr = home /\ streak' = streak + 1
             /\ file.failures <= streak /\ file.addr = home /\ Matches(home)
  <2>1. pc = "dial" /\ streak \in 0 .. 3
    BY <1>1, <1>5 DEF TypeOK, ConnectFails, ForgetFails, CountUnreadable
  <2>2. streak' = IF chosen.addr = home /\ streak < 3 THEN streak + 1 ELSE streak
    BY <1>5 DEF ConnectFails, ForgetFails, CountUnreadable, StreakGrows
  <2>3. streak < 3 /\ streak <= streak'
    BY <1>5, <2>1, <2>2
  <2>4. /\ file.failures <= streak /\ file.addr = home /\ Matches(home)
        /\ chosen.addr = home \/ chosen.unread
    BY <1>5, <2>1, <2>3 DEF IInv, HomeInv
  <2>5. chosen.fromState => chosen.addr = home
    BY <2>4 DEF IInv, ChoiceInv
  <2> QED BY <2>2, <2>3, <2>4, <2>5
<1>6. CASE ConnectFails
  <2> SUFFICES ASSUME ~ excuse', home' # NoProxy, streak' < 3
               PROVE  /\ file'.addr = home' /\ file'.failures <= streak' /\ Matches(home)'
                      /\ pc' \notin {"off", "prepare"} => chosen'.addr = home' \/ chosen'.unread
                      /\ ~ SelectionFile!Idle' => writer'.new.failures <= streak'
    BY DEF HomeInv, Matches
  <2>1. UNCHANGED <<home, excuse, country>> /\ writer.pc = "idle"
    BY <1>1, <1>6 DEF TypeOK, ConnectFails, world, SelectionFile!Idle
  <2>2. /\ streak < 3 /\ streak <= streak'
        /\ chosen.fromState => chosen.addr = home /\ streak' = streak + 1
        /\ file.failures <= streak /\ file.addr = home /\ Matches(home)
    BY <1>5, <1>6, <2>1
  <2>3. file.failures \in 0 .. 2 /\ streak \in 0 .. 3
    BY <1>1, Values DEF TypeOK
  <2>4. CASE chosen.fromState /\ ~ Forgets(FailuresNow)
    <3>1. /\ writer'.new.failures = file.failures + 1 /\ file' = file /\ chosen' = chosen
      BY <1>6, <2>4 DEF ConnectFails, SelectionFile!Begin, FailuresNow
    <3> QED BY <2>1, <2>2, <2>3, <2>4, <3>1 DEF Matches
  <2>5. CASE ~ (chosen.fromState /\ ~ Forgets(FailuresNow))
    <3>1. ~ chosen.fromState
      BY <2>2, <2>3, <2>5 DEF Forgets, FailuresNow
    <3>2. file' = file /\ writer' = writer /\ pc' = "off"
      BY <1>6, <3>1 DEF ConnectFails, Ends
    <3>3. streak' \in 0 .. 3
      BY <1>6, <2>3 DEF ConnectFails, StreakGrows
    <3> QED BY <2>1, <2>2, <2>3, <3>2, <3>3 DEF Matches, SelectionFile!Idle
  <2> QED BY <2>4, <2>5
<1>7. CASE ForgetFails
  <2>1. /\ UNCHANGED <<home, excuse, country, file, writer>> /\ writer.pc = "idle"
        /\ pc' = "off"
    BY <1>1, <1>7 DEF TypeOK, ForgetFails, Ends, fileVars, world, SelectionFile!Idle
  <2>2. file.failures \in 0 .. 2 /\ streak \in 0 .. 3
    BY <1>1, Values DEF TypeOK
  <2>3. streak' \in 0 .. 3
    BY <1>7, <2>2 DEF ForgetFails, StreakGrows
  <2> QED BY <1>5, <1>7, <2>1, <2>2, <2>3 DEF HomeInv, Matches, SelectionFile!Idle
<1>13. CASE CountUnreadable
  <2> SUFFICES ASSUME ~ excuse', home' # NoProxy, streak' < 3
               PROVE  /\ file'.addr = home' /\ file'.failures <= streak' /\ Matches(home)'
                      /\ chosen'.addr = home' /\ writer'.new.failures <= streak'
    BY DEF HomeInv, Matches
  <2>1. /\ UNCHANGED <<home, excuse, country, file, chosen>> /\ chosen.fromState
        /\ writer'.new.failures = 1
    BY <1>13 DEF CountUnreadable, world, SelectionFile!Begin, FailuresFromScratch
  <2>2. /\ chosen.addr = home /\ streak' = streak + 1
        /\ file.failures <= streak /\ file.addr = home /\ Matches(home)
    BY <1>5, <1>13, <2>1
  <2>3. file.failures \in 0 .. 2 /\ streak \in 0 .. 3
    BY <1>1, Values DEF TypeOK
  <2> QED BY <2>1, <2>2, <2>3 DEF Matches
<1>8. CASE Listen
  BY <1>8 DEF IInv, HomeInv, Listen, fileVars, world, history, Matches, SelectionFile!Idle
<1>10. CASE FileStep
  <2>1. /\ writer.pc # "idle"
        /\ \/ writer'.pc = "idle" /\ file' = writer.new
           \/ writer'.new = writer.new /\ file' = file /\ writer'.pc = "rename"
           \/ writer'.new = writer.new /\ writer.pc = "remove" /\ writer'.pc = "again"
    BY <1>1, <1>10, WriteMoves DEF FileStep
  <2>2. /\ UNCHANGED <<pc, chosen, country, home, streak>>
        /\ excuse' = (excuse /\ ~ (pc = "save" /\ writer'.pc = "idle"))
    BY <1>10 DEF FileStep, process, world
  <2>3. pc \in {"record", "save"} /\ writer.new.addr = chosen.addr /\ Matches(chosen.addr)
    BY <1>1, <2>1 DEF IInv, TypeOK, ChoiceInv, SelectionFile!Idle
  <2>4. CASE pc = "save" /\ writer'.pc = "idle"
    <3>1. file'.addr = home /\ file'.failures = 0 /\ streak = 0 /\ chosen.addr = home
      BY <2>1, <2>3, <2>4 DEF IInv, ChoiceInv, SaveInv, SelectionFile!Idle
    <3> QED BY <2>2, <2>3, <2>4, <3>1 DEF HomeInv, Matches, SelectionFile!Idle
  <2>5. CASE ~ (pc = "save" /\ writer'.pc = "idle")
    <3> SUFFICES ASSUME ~ excuse, home # NoProxy, streak < 3 PROVE HomeInv'
      BY <2>2, <2>5 DEF HomeInv
    <3>1. /\ file.addr = home /\ file.failures <= streak /\ Matches(home)
          /\ chosen.addr = home /\ writer.new.failures <= streak
          /\ writer.pc # "remove"
      BY <2>1, <2>3 DEF IInv, HomeInv, ChoiceInv, SaveInv, SelectionFile!Idle
    <3> QED BY <2>1, <2>2, <2>3, <3>1 DEF HomeInv, Matches, SelectionFile!Idle
  <2> QED BY <2>4, <2>5
<1>11. CASE FileFault \/ SetCountry
  BY <1>11 DEF FileFault, SetCountry, HomeInv
<1>9. CASE UNCHANGED vars
  BY <1>9 DEF IInv, HomeInv, vars, Matches, SelectionFile!Idle
<1> QED
  BY <1>2, <1>3, <1>4, <1>5, <1>6, <1>7, <1>8, <1>9, <1>10, <1>11,
     <1>12, <1>13 DEF Next, MainStep, WorldStep

\* The mark on a check.
LEMMA RaceStep == IInv /\ [Next]_vars => RaceInv'
<1> SUFFICES ASSUME IInv, [Next]_vars PROVE RaceInv'
  OBVIOUS
<1>1. CASE Start \/ MainStep \/ FileStep \/ FileFault \/ Dies \/ WorldStep \/ UNCHANGED vars
  <2>1. UNCHANGED <<stopped, check>>
    BY <1>1 DEF Start, MainStep, Resolve, SelectionUnreadable, CountUnreadable, PrepareFails, Connected, ConnectFails, ForgetFails,
       Recorded, Listen, FileStep, FileFault, Dies, WorldStep, PassExpires, PassRenewed,
       ListChanges, SetCountry, health, vars
  <2> QED BY <2>1 DEF IInv, RaceInv
<1>2. CASE Stop
  BY <1>2 DEF IInv, TypeOK, Stop, RaceInv
<1>3. CASE StartAgain
  BY <1>3 DEF StartAgain, RaceInv
<1>4. CASE CheckStarts
  BY <1>4 DEF IInv, TypeOK, CheckStarts, ServiceActive, RaceInv
<1>5. CASE CheckStep
  BY <1>5, Values DEF CheckStep, StatusIsOld, ProbeSucceeds, ProbesFail, RestartService, RaceInv
<1> QED BY <1>1, <1>2, <1>3, <1>4, <1>5 DEF Next

-----------------------------------------------------------------------------
(* The theorems.                                                           *)

LEMMA InitIInv == Init => IInv
<1> SUFFICES ASSUME Init PROVE IInv
  OBVIOUS
<1>1. file \in Selections
  BY Values DEF Init, Selections
<1>2. 0 \in 0 .. Threshold - 1 /\ 0 \in 0 .. MaxFaults /\ 0 \in 0 .. 3
  BY BoundAssumption
<1>3. TypeOK
  BY <1>1, <1>2, Values DEF Init, TypeOK, WriterState, CheckState, SelectionFile!Idle
<1>4. ChoiceInv /\ HomeInv /\ SaveInv /\ RaceInv
  BY Values DEF Init, ChoiceInv, HomeInv, SaveInv, RaceInv, SelectionFile!Idle
<1> QED BY <1>3, <1>4 DEF IInv

LEMMA Inductive == Spec => []IInv
<1>1. IInv /\ [Next]_vars => IInv'
  BY TypeStep, ChoiceStep, HomeStep, SaveStep, RaceStep DEF IInv
<1> QED BY InitIInv, <1>1, PTL DEF Spec

\* Every reachable state of the installation is well typed, for any servers, countries
\* and thresholds: a selection never counts three failures, and a stopped service has
\* no process.
THEOREM TypeCorrect == Spec => []TypeOK
<1>1. IInv => TypeOK
  BY DEF IInv
<1> QED BY <1>1, Inductive, PTL

\* Restarts keep the exit, however starts, crashes, stops, checks and changes of the
\* server list follow one another (recordProxySelectionFailure, saveProxySelection),
\* except that a start that cannot read the selection works without it.
THEOREM RestartsKeepExit == Spec => ExitKept
<1>1. IInv /\ [Next]_vars =>
        (home' # home => home = NoProxy \/ streak >= 3 \/ excuse \/ chosen.unread)
  <2> SUFFICES ASSUME IInv, [Next]_vars, home' # home
               PROVE  home = NoProxy \/ streak >= 3 \/ excuse \/ chosen.unread
    OBVIOUS
  <2>1. TypeOK
    BY DEF IInv
  <2>2. CASE Connected
    <3>1. pc = "dial" /\ home' = chosen.addr /\ streak \in 0 .. 3
      BY <2>1, <2>2 DEF TypeOK, Connected
    <3> QED BY <3>1 DEF IInv, HomeInv
  <2>3. CASE ~ Connected
    <3>1. ASSUME \/ Start \/ PrepareFails \/ Recorded \/ Dies \/ Stop \/ StartAgain
                 \/ CheckStarts \/ CheckStep \/ PassExpires \/ PassRenewed \/ ListChanges
          PROVE  home' = home
      BY <2>1, <3>1, EndsOrStays
    <3>2. ASSUME \/ Resolve \/ SelectionUnreadable \/ ConnectFails \/ ForgetFails
                 \/ CountUnreadable \/ Listen
                 \/ FileStep \/ FileFault \/ SetCountry \/ UNCHANGED vars
          PROVE  home' = home
      BY <3>2 DEF Resolve, SelectionUnreadable, ConnectFails, ForgetFails, CountUnreadable,
         Listen, FileStep, FileFault, SetCountry, history, vars
    <3> QED BY <2>3, <3>1, <3>2 DEF Next, MainStep, WorldStep
  <2> QED BY <2>2, <2>3
<1> QED BY <1>1, Inductive, PTL DEF Spec, ExitKept

\* A stopped service is started by the operator, or by a check that was under way when
\* it was stopped (restart_service of healthcheck.sh), and by nothing else.
THEOREM StoppedStaysStopped == Spec => StopIsFinal
<1>1. IInv /\ [Next]_vars => (stopped /\ pc' # "off" => check.raced)
  <2> SUFFICES ASSUME IInv, [Next]_vars, stopped, pc' # "off" PROVE check.raced
    OBVIOUS
  <2>1. pc = "off" /\ check.pc \in {"idle", "look"}
    BY DEF IInv, TypeOK
  <2>2. CheckStep
    <3>1. ~ (Start \/ MainStep \/ Dies \/ Stop \/ CheckStarts)
      BY <2>1 DEF Start, MainStep, Resolve, SelectionUnreadable, PrepareFails, Connected,
         ConnectFails, CountUnreadable, ForgetFails, Recorded, Listen, Dies, Stop, CheckStarts, ServiceActive
    <3>2. ~ (FileStep \/ FileFault \/ StartAgain \/ WorldStep \/ UNCHANGED vars)
      BY <2>1 DEF FileStep, FileFault, StartAgain, WorldStep, PassExpires, PassRenewed,
         ListChanges, SetCountry, process, vars
    <3> QED BY <3>1, <3>2 DEF Next
  <2>3. check.pc = "look"
    BY <2>2 DEF CheckStep, StatusIsOld, ProbeSucceeds, ProbesFail
  <2> QED BY <2>3 DEF IInv, RaceInv
<1> QED BY <1>1, Inductive, PTL DEF Spec, StopIsFinal
=============================================================================
