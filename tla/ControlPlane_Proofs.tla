------------------------- MODULE ControlPlane_Proofs -------------------------
(***************************************************************************)
(* Proofs about ControlPlane, for any tokens, any lifetimes of a pass, and *)
(* clocks that differ by quarters of an hour.                              *)
(***************************************************************************)
EXTENDS ControlPlane, TLAPS, WellFoundedInduction

-----------------------------------------------------------------------------
(* The correction of claim times.  A pass arrives within 14 minutes, so an *)
(* offset of whole quarters of an hour that fits never brings its start    *)
(* beyond the moment it was issued; and less than 14 minutes of life, with *)
(* the tolerance of a minute on both sides, leave room for one such offset. *)

LEMMA PassNumbers ==
    ASSUME NEW age \in 0 .. MaxAge, NEW life \in Lives, NEW stamp \in Stamps
    PROVE  age \in Nat /\ age < 14 /\ life \in Nat /\ age < life /\ stamp \in Int
<1>1. age \in Nat /\ age < 14 /\ life \in Nat /\ age < life
  BY AgeAssumption
<1> QED BY <1>1, ZoneAssumption

\* If a pass says when it starts, no offset of whole quarters of an hour that fits makes
\* it longer than it is, and only the one that undoes the stamp fits a short one.
LEMMA NoFitIsLate ==
    ASSUME NEW age \in 0 .. MaxAge, NEW life \in Lives, NEW stamp \in Stamps,
           NEW k \in Int, Fits(Claims(age, life, stamp, TRUE), 15 * k)
    PROVE  /\ stamp + 15 * k <= 0
           /\ life < 14 => stamp + 15 * k = 0
<1>1. PICK j \in -48 .. 56 : -stamp = 15 * j
  BY ZoneAssumption
<1>2. age \in Nat /\ age < 14 /\ life \in Nat /\ stamp \in Int /\ stamp = -15 * j
  BY <1>1, PassNumbers
<1>3. InWindow(stamp - age + 15 * k, stamp - age + life + 15 * k)
  BY DEF Fits, Claims
<1>4. /\ stamp - age + 15 * k - 1 <= 0
      /\ 0 <= stamp - age + life + 15 * k + 1
  BY <1>2, <1>3 DEF InWindow, proxyPassClaimTimeTolerance
<1>5. 15 * (k - j) <= 14
  BY <1>2, <1>4
<1>6. k - j <= 0
  BY <1>2, <1>5
<1>7. life < 14 => -14 <= 15 * (k - j)
  BY <1>2, <1>4
<1>8. life < 14 => k - j = 0
  BY <1>2, <1>6, <1>7
<1> QED BY <1>2, <1>6, <1>8

\* The offset that undoes the stamp is among the candidates and fits, and no offset is
\* needed if the stamp is right.
LEMMA TheStampFits ==
    ASSUME NEW age \in 0 .. MaxAge, NEW life \in Lives, NEW stamp \in Stamps
    PROVE  /\ -stamp \in OffsetGrid
           /\ Fits(Claims(age, life, stamp, TRUE), -stamp)
           /\ stamp = 0 => Fits(Claims(age, life, stamp, TRUE), 0)
<1>1. age \in Nat /\ life \in Nat /\ age < life /\ stamp \in Int
  BY PassNumbers
<1>2. -stamp \in OffsetGrid
  BY ZoneAssumption DEF OffsetGrid
<1>3. InWindow(stamp - age + (-stamp), stamp - age + life + (-stamp))
  BY <1>1 DEF InWindow, proxyPassClaimTimeTolerance
<1>4. Fits(Claims(age, life, stamp, TRUE), -stamp)
  BY <1>3 DEF Fits, Claims
<1>5. ASSUME stamp = 0
      PROVE  Fits(Claims(age, life, stamp, TRUE), 0)
  <2>1. InWindow(stamp - age + 0, stamp - age + life + 0)
    BY <1>1, <1>5 DEF InWindow, proxyPassClaimTimeTolerance
  <2> QED BY <2>1 DEF Fits, Claims
<1> QED BY <1>2, <1>4, <1>5

\* A set of candidates has a first one.
LEMMA FirstExists ==
    ASSUME NEW S \in SUBSET OffsetGrid, S # {}
    PROVE  \E o \in S : \A p \in S : o <= p
<1>1. \A o \in S : o + 720 \in Nat
  BY DEF OffsetGrid
<1> DEFINE shifted == {o + 720 : o \in S}
<1>2. shifted \subseteq Nat /\ shifted # {}
  BY <1>1
<1>3. PICK m \in shifted : \A n \in shifted : <<n, m>> \notin OpToRel(<, Nat)
  <2> HIDE DEF shifted
  <2> QED BY <1>2, WFMin, NatLessThanWellFounded, Zenon
<1>4. \A n \in shifted : ~ (n < m)
  BY <1>2, <1>3, Zenon DEF OpToRel
<1>5. PICK o \in S : m = o + 720
  OBVIOUS
<1>6. ASSUME NEW p \in S
      PROVE  o <= p
  <2>1. p + 720 \in shifted
    OBVIOUS
  <2>2. ~ (p + 720 < o + 720)
    BY <1>4, <1>5, <2>1
  <2>3. p \in Int /\ o \in Int
    BY DEF OffsetGrid
  <2> QED BY <2>2, <2>3
<1> QED BY <1>6

\* FirstFit finds a candidate that fits, if there is one.
LEMMA FirstFitFits ==
    ASSUME NEW c
    PROVE  /\ FirstFit(c) \in Int
           /\ (\E o \in OffsetGrid : Fits(c, o)) =>
                FirstFit(c) \in OffsetGrid /\ Fits(c, FirstFit(c))
<1> DEFINE fitting == {o \in OffsetGrid : Fits(c, o)}
           first == CHOOSE o \in fitting : \A p \in fitting : o <= p
<1>1. CASE fitting = {}
  <2>1. FirstFit(c) = 0
    BY <1>1 DEF FirstFit
  <2> QED BY <1>1, <2>1
<1>2. CASE fitting # {}
  <2>1. \E o \in fitting : \A p \in fitting : o <= p
    BY <1>2, FirstExists
  <2>2. first \in fitting
    BY <2>1
  <2>3. FirstFit(c) = first
    BY <1>2 DEF FirstFit
  <2>4. FirstFit(c) \in OffsetGrid /\ Fits(c, FirstFit(c))
    BY <2>2, <2>3
  <2>5. FirstFit(c) \in Int
    BY <2>4 DEF OffsetGrid
  <2> QED BY <2>4, <2>5
<1> QED BY <1>1, <1>2

\* The client works with some expiry, whatever the claims are.
LEMMA BeliefIsANumber ==
    ASSUME NEW age \in 0 .. MaxAge, NEW life \in Lives, NEW stamp \in Stamps,
           NEW zone \in Zones, NEW hasStart \in BOOLEAN
    PROVE  BelievedLeft(Claims(age, life, stamp, hasStart), zone) \in Int
<1> DEFINE c == Claims(age, life, stamp, hasStart)
<1>1. c.exp \in Int
  BY PassNumbers DEF Claims
<1>2. zone \in Int
  BY ZoneAssumption
<1>3. FirstFit(c) \in Int
  BY FirstFitFits
<1> HIDE DEF c
<1>4. ClaimTimeOffset(c, zone) \in Int
  BY <1>2, <1>3 DEF ClaimTimeOffset
<1>5. BelievedLeft(c, zone) \in Int
  BY <1>1, <1>4 DEF BelievedLeft
<1> QED BY <1>5 DEF c

\* A pass that says when it starts is not believed to be longer than it is, nor shorter
\* if it is short or its stamps are right.
LEMMA BeliefWithStart ==
    ASSUME NEW age \in 0 .. MaxAge, NEW life \in Lives, NEW stamp \in Stamps,
           NEW zone \in Zones
    PROVE  LET believed == BelievedLeft(Claims(age, life, stamp, TRUE), zone)
           IN  /\ believed <= life - age
               /\ stamp = 0 \/ life < 14 => believed = life - age
<1> DEFINE c == Claims(age, life, stamp, TRUE)
           offset == ClaimTimeOffset(c, zone)
<1>0. age \in Nat /\ life \in Nat /\ age < life /\ stamp \in Int
  BY PassNumbers
<1>1. c.start = stamp - age /\ c.exp = stamp - age + life
  BY <1>0 DEF Claims
<1>2. ~ (c.hasStart /\ c.start >= c.exp)
  <2> HIDE DEF c
  <2> QED BY <1>0, <1>1
<1>3. PICK k \in Int : offset = 15 * k /\ Fits(c, 15 * k) /\ (stamp = 0 => k = 0)
  <2>1. CASE Fits(c, 0)
    <3>1. offset = 0
      BY <2>1 DEF ClaimTimeOffset
    <3>2. 0 \in Int /\ 15 * 0 = 0
      OBVIOUS
    <3> QED BY <2>1, <3>1, <3>2
  <2>2. CASE ~ Fits(c, 0) /\ Fits(c, zone)
    <3>1. offset = zone
      BY <1>2, <2>2 DEF ClaimTimeOffset
    <3>2. PICK k \in -48 .. 56 : zone = 15 * k
      BY ZoneAssumption
    <3>3. stamp # 0
      BY <2>2, TheStampFits
    <3>4. k \in Int
      OBVIOUS
    <3> QED BY <2>2, <3>1, <3>2, <3>3, <3>4
  <2>3. CASE ~ Fits(c, 0) /\ ~ Fits(c, zone)
    <3>1. offset = FirstFit(c)
      BY <1>2, <2>3 DEF ClaimTimeOffset
    <3>2. \E o \in OffsetGrid : Fits(c, o)
      BY TheStampFits
    <3>3. FirstFit(c) \in OffsetGrid /\ Fits(c, FirstFit(c))
      BY <3>2, FirstFitFits
    <3>4. PICK k \in -48 .. 56 : FirstFit(c) = 15 * k
      BY <3>3 DEF OffsetGrid
    <3>5. stamp # 0
      BY <2>3, TheStampFits
    <3>6. k \in Int
      OBVIOUS
    <3> QED BY <3>1, <3>3, <3>4, <3>5, <3>6
  <2> QED BY <2>1, <2>2, <2>3
<1>4. stamp + 15 * k <= 0 /\ (life < 14 => stamp + 15 * k = 0)
  BY <1>3, NoFitIsLate
<1>5. BelievedLeft(c, zone) = stamp - age + life + 15 * k
  BY <1>0, <1>1, <1>3 DEF BelievedLeft
<1>6. stamp = 0 => stamp + 15 * k = 0
  BY <1>3
<1>7. /\ stamp - age + life + 15 * k <= life - age
      /\ stamp = 0 \/ life < 14 => stamp - age + life + 15 * k = life - age
  <2> HIDE DEF c, offset
  <2> QED BY <1>0, <1>3, <1>4, <1>6
<1> QED BY <1>5, <1>7

\* A pass with right stamps that looks fresh is believed.
LEMMA BeliefWithoutStart ==
    ASSUME NEW age \in 0 .. MaxAge, NEW life \in Lives, 0 \in Stamps, NEW zone \in Zones,
           life - age <= proxyPassClaimTimeMaxFuture
    PROVE  BelievedLeft(Claims(age, life, 0, FALSE), zone) = life - age
<1> DEFINE c == Claims(age, life, 0, FALSE)
<1>1. age \in Nat /\ life \in Nat /\ age < life
      /\ c.exp = 0 - age + life /\ c.hasStart = FALSE
  <2>1. age \in Nat /\ life \in Nat /\ age < life
    BY PassNumbers
  <2> QED BY <2>1 DEF Claims
<1>2. LooksFresh(c.exp + 0)
  <2> HIDE DEF c
  <2> QED BY <1>1 DEF LooksFresh, proxyPassClaimTimeTolerance, proxyPassClaimTimeMaxFuture
<1>3. Fits(c, 0)
  BY <1>1, <1>2 DEF Fits
<1>4. ClaimTimeOffset(c, zone) = 0
  BY <1>3 DEF ClaimTimeOffset
<1>5. BelievedLeft(c, zone) = c.exp + 0
  BY <1>4 DEF BelievedLeft
<1>6. 0 - age + life + 0 = life - age
  BY <1>1
<1> QED BY <1>1, <1>5, <1>6

-----------------------------------------------------------------------------
(* BeliefIsPrudent.  What is added is the type of a pass.                  *)

PassState == [real : Nat, belief : Nat, hasStart : BOOLEAN, sure : BOOLEAN]
PassInv == pass \in {NoPass} \cup PassState /\ BeliefIsPrudent

\* What is left of a time.
LEMMA LeftOver ==
    ASSUME NEW n \in Int
    PROVE  Left(n) \in Nat /\ (n \in Nat => Left(n) = n)
           /\ \A m \in Nat : n <= m => Left(n) <= m
  BY DEF Left

\* A new pass is a record of the type the model gives it.
LEMMA NewPassType ==
    ASSUME NEW age \in 0 .. MaxAge, NEW life \in Lives, NEW stamp \in Stamps,
           NEW zone \in Zones, NEW hasStart \in BOOLEAN
    PROVE  NewPass(age, life, stamp, zone, hasStart) \in PassState
<1>1. life - age \in Nat
  BY AgeAssumption
<1>2. Left(BelievedLeft(Claims(age, life, stamp, hasStart), zone)) \in Nat
  BY BeliefIsANumber, LeftOver
<1>3. Unambiguous(age, life, stamp, hasStart) \in BOOLEAN
  BY DEF Unambiguous
<1> QED BY <1>1, <1>2, <1>3 DEF NewPass, PassState

\* A new pass is believed to live no longer than it does, and as long if it is sure.
LEMMA NewPassInv ==
    ASSUME NEW age \in 0 .. MaxAge, NEW life \in Lives, NEW stamp \in Stamps,
           NEW zone \in Zones, NEW hasStart \in BOOLEAN,
           pass' = NewPass(age, life, stamp, zone, hasStart)
    PROVE  PassInv'
<1> DEFINE believed == BelievedLeft(Claims(age, life, stamp, hasStart), zone)
<1>1. life - age \in Nat
  BY AgeAssumption
<1>2. believed \in Int
  BY BeliefIsANumber
<1>3. hasStart => believed <= life - age
  <2>1. SUFFICES ASSUME hasStart
                 PROVE  believed <= life - age
    OBVIOUS
  <2>2. hasStart = TRUE
    BY <2>1
  <2> QED BY <2>2, BeliefWithStart
<1>4. Unambiguous(age, life, stamp, hasStart) => believed = life - age
  <2>1. CASE hasStart = TRUE
    BY <2>1, BeliefWithStart DEF Unambiguous
  <2>2. CASE hasStart = FALSE
    BY <2>2, BeliefWithoutStart DEF Unambiguous
  <2> QED BY <2>1, <2>2
<1>5. /\ pass'.real = life - age /\ pass'.hasStart = hasStart
      /\ pass'.belief = Left(believed)
      /\ pass'.sure = Unambiguous(age, life, stamp, hasStart)
  BY DEF NewPass
<1>6. pass' \in PassState
  BY NewPassType
<1> HIDE DEF believed
<1>7. pass'.hasStart => pass'.belief <= pass'.real
  BY <1>1, <1>2, <1>3, <1>5, LeftOver
<1>8. pass'.sure => pass'.belief = pass'.real
  BY <1>1, <1>2, <1>4, <1>5, LeftOver
<1> QED BY <1>6, <1>7, <1>8 DEF PassInv, BeliefIsPrudent

\* Time takes from what is left, and leaves no less than nothing.
LEMMA LessTime ==
    ASSUME NEW n \in Nat
    PROVE  Less(n) \in Nat /\ \A m \in Nat : n <= m => Less(n) <= Less(m)
  BY BoundAssumption DEF Less, Left

LEMMA TickOfPass ==
    ASSUME pass \in PassState, pass # NoPass, Tick
    PROVE  /\ pass' \in PassState
           /\ pass'.real = Less(pass.real) /\ pass'.belief = Less(pass.belief)
           /\ pass'.hasStart = pass.hasStart /\ pass'.sure = pass.sure
<1>1. pass' = [pass EXCEPT !.real = Less(@), !.belief = Less(@)]
  BY DEF Tick
<1>2. Less(pass.real) \in Nat /\ Less(pass.belief) \in Nat
  BY LessTime DEF PassState
<1> QED BY <1>1, <1>2 DEF PassState

\* Time passes alike for what is left and for what is believed to be left.
LEMMA TickKeepsPassInv ==
    ASSUME PassInv, Tick
    PROVE  PassInv'
<1>1. CASE pass = NoPass
  BY <1>1 DEF Tick, PassInv, BeliefIsPrudent
<1>2. CASE pass # NoPass
  <2>1. pass \in PassState
    BY <1>2 DEF PassInv
  <2>2. /\ pass' \in PassState
        /\ pass'.real = Less(pass.real) /\ pass'.belief = Less(pass.belief)
        /\ pass'.hasStart = pass.hasStart /\ pass'.sure = pass.sure
    BY <1>2, <2>1, TickOfPass
  <2>3. /\ pass.real \in Nat /\ pass.belief \in Nat
        /\ pass.belief <= pass.real => Less(pass.belief) <= Less(pass.real)
    BY <2>1, LessTime DEF PassState
  <2>4. pass.hasStart => pass.belief <= pass.real
    BY <1>2 DEF PassInv, BeliefIsPrudent
  <2>5. pass.sure => pass.belief = pass.real
    BY <1>2 DEF PassInv, BeliefIsPrudent
  <2>6. pass'.hasStart => pass'.belief <= pass'.real
    BY <2>2, <2>3, <2>4
  <2>7. pass'.sure => pass'.belief = pass'.real
    BY <2>2, <2>5
  <2> QED BY <2>2, <2>6, <2>7 DEF PassInv, BeliefIsPrudent
<1> QED BY <1>1, <1>2

\* Every other step keeps the pass or loses it.
LEMMA PassInvStep ==
    ASSUME PassInv, [Next]_vars
    PROVE  PassInv'
<1>1. ASSUME pass' \in {pass, NoPass}
      PROVE  PassInv'
  BY <1>1 DEF PassInv, BeliefIsPrudent
<1>2. CASE Boot
  BY <1>1, <1>2 DEF Boot
<1>3. CASE Login
  BY <1>1, <1>3 DEF Login
<1>4. CASE Refreshed
  BY <1>1, <1>4 DEF Refreshed
<1>5. ASSUME Fails
      PROVE  PassInv'
  BY <1>1, <1>5 DEF Fails, Exits
<1>6. CASE RefreshFails
  BY <1>5, <1>6 DEF RefreshFails
<1>7. CASE Unauthorized
  BY <1>1, <1>5, <1>7 DEF Unauthorized
<1>8. CASE Forbidden
  BY <1>1, <1>5, <1>8 DEF Forbidden
<1>9. CASE Activated
  BY <1>1, <1>9 DEF Activated
<1>10. CASE RequestFails
  BY <1>5, <1>10 DEF RequestFails
<1>11. CASE Fetched
  <2>1. CASE task = "login"
    BY <1>1, <1>11, <2>1 DEF Fetched, Exits
  <2>2. CASE task # "login"
    <3>1. PICK age \in 0 .. MaxAge, life \in Lives, stamp \in Stamps, zone \in Zones,
               hasStart \in BOOLEAN :
            pass' = NewPass(age, life, stamp, zone, hasStart)
      BY <1>11, <2>2 DEF Fetched
    <3> QED BY <3>1, NewPassInv
  <2> QED BY <2>1, <2>2
<1>12. CASE StartRenewal
  BY <1>1, <1>12 DEF StartRenewal
<1>13. CASE Tick
  BY <1>13, TickKeepsPassInv
<1>14. CASE \E a \in Access : Age(a) \/ Refuse(a)
  BY <1>1, <1>14 DEF Age, Refuse
<1>15. CASE FileStep \/ FileFault \/ Lapse
  BY <1>1, <1>15 DEF FileStep, FileFault, Lapse
<1>16. CASE Dies
  BY <1>1, <1>16 DEF Dies, Exits
<1>17. CASE UNCHANGED vars
  BY <1>1, <1>17 DEF vars
<1> QED
  BY <1>2, <1>3, <1>4, <1>6, <1>7, <1>8, <1>9, <1>10, <1>11, <1>12, <1>13, <1>14,
     <1>15, <1>16, <1>17 DEF Next, AccountsStep, GuardianStep

\* Whatever zone Guardian takes for UTC, whatever zone the machine is in and however long
\* Guardian lets a pass live: the renewal loop never works with an expiry after the real
\* one of a pass that says when it starts, and with the real one where it is determined.
THEOREM ExpiryIsPrudent == Spec => []BeliefIsPrudent
<1>1. Init => PassInv
  BY DEF Init, PassInv, BeliefIsPrudent
<1>2. PassInv /\ [Next]_vars => PassInv'
  BY PassInvStep
<1>3. PassInv => BeliefIsPrudent
  BY DEF PassInv
<1> QED BY <1>1, <1>2, <1>3, PTL DEF Spec

-----------------------------------------------------------------------------
(* TypeOK and TokensKept.  While the file is written the program waits in  *)
(* "fetch" with the tokens it writes, and they are good ones; from the     *)
(* first rename that is refused on, nothing is owed.                       *)

WriterInv ==
    /\ TokenFile!Idle => writer.new = NoTokens
    /\ ~ TokenFile!Idle =>
         /\ pc = "fetch"
         /\ writer.new # NoTokens /\ mem = writer.new
         /\ writer.new.grant \in live
    /\ writer.pc \in {"remove", "again"} => saved = "nothing"

\* A renewal goes on with the pass it has.
RenewInv == pc # "down" /\ task = "renew" => pass # NoPass

IInv == TypeOK /\ WriterInv /\ RenewInv /\ TokensKept

\* There is a new token to issue while no write is in progress.
LEMMA NewTokensExist ==
    ASSUME IInv, TokenFile!Idle
    PROVE  NewAccess \in Access /\ NewGrant \in Grant
<1>1. file \in Tokens /\ mem \in Tokens /\ writer.new = NoTokens
  BY DEF IInv, TypeOK, WriterInv
<1>2. Held \subseteq {file, mem}
  BY <1>1 DEF Held
<1>3. PICK a, b \in Access : {t.access : t \in Held} \subseteq {a, b}
  <2>1. PICK x \in Access : TRUE
    BY TokenAssumption
  <2> DEFINE a == IF file = NoTokens THEN x ELSE file.access
             b == IF mem = NoTokens THEN x ELSE mem.access
  <2>2. a \in Access /\ b \in Access
    BY <1>1 DEF Tokens
  <2>3. {t.access : t \in Held} \subseteq {a, b}
    BY <1>1 DEF Held
  <2> QED BY <2>2, <2>3
<1>4. Access \ {t.access : t \in Held} # {}
  BY <1>3, TokenAssumption
<1>5. PICK g, h \in Grant : {t.grant : t \in Held} \subseteq {g, h}
  <2>1. PICK x \in Grant : TRUE
    BY TokenAssumption
  <2> DEFINE g == IF file = NoTokens THEN x ELSE file.grant
             h == IF mem = NoTokens THEN x ELSE mem.grant
  <2>2. g \in Grant /\ h \in Grant
    BY <1>1 DEF Tokens
  <2>3. {t.grant : t \in Held} \subseteq {g, h}
    BY <1>1 DEF Held
  <2> QED BY <2>2, <2>3
<1>6. Grant \ {t.grant : t \in Held} # {}
  BY <1>5, TokenAssumption
<1> QED BY <1>4, <1>6 DEF NewAccess, NewGrant, Unused

\* Issuing tokens starts their write.
LEMMA IssueStartsWrite ==
    ASSUME IInv, TokenFile!Idle, NEW grant \in Grant, Issue(grant)
    PROVE  /\ mem' \in [access : Access, grant : Grant] /\ mem'.grant = grant
           /\ writer' = [pc |-> "temp", new |-> mem']
           /\ file' = file
           /\ good' \in SUBSET Access /\ aged' \in SUBSET Access
<1>1. NewAccess \in Access
  BY NewTokensExist
<1>2. good \in SUBSET Access /\ aged \in SUBSET Access
  BY DEF IInv, TypeOK
<1> QED BY <1>1, <1>2 DEF Issue, TokenFile!Begin

\* The end of the process takes memory and nothing else.
LEMMA ExitKeepsIInv ==
    ASSUME IInv, TokenFile!Idle, Exits, UNCHANGED <<fileVars, task, tried, saved, trouble>>,
           UNCHANGED remote
    PROVE  IInv'
<1>1. TypeOK'
  BY DEF IInv, TypeOK, Exits, fileVars, remote, Tokens
<1>2. WriterInv' /\ RenewInv'
  BY DEF IInv, WriterInv, Exits, fileVars, TokenFile!Idle, RenewInv
<1>3. TokensKept'
  BY DEF IInv, TokensKept, Exits, fileVars, TokenFile!Idle, remote
<1> QED BY <1>1, <1>2, <1>3 DEF IInv

\* So does an error, in the loop not even that.
LEMMA FailureKeepsIInv ==
    ASSUME IInv, TokenFile!Idle, pc # "down", Fails,
           UNCHANGED <<fileVars, saved, trouble>>, UNCHANGED remote
    PROVE  IInv'
<1>1. CASE task = "renew"
  <2>1. /\ pc' = "serve" /\ wait' = TRUE
        /\ UNCHANGED <<mem, pass, task, tried, saved, trouble, file, writer>>
        /\ UNCHANGED <<good, aged, live, activated>>
    BY <1>1 DEF Fails, fileVars, remote
  <2>2. TypeOK'
    BY <1>1, <2>1 DEF IInv, TypeOK, RenewInv
  <2>3. WriterInv' /\ RenewInv'
    BY <2>1 DEF IInv, WriterInv, RenewInv, TokenFile!Idle
  <2>4. TokensKept'
    BY <2>1 DEF IInv, TokensKept, TokenFile!Idle
  <2> QED BY <2>2, <2>3, <2>4 DEF IInv
<1>2. CASE task # "renew"
  BY <1>2, ExitKeepsIInv DEF Fails
<1> QED BY <1>1, <1>2

\* A step that starts a write, with tokens Accounts accepts.
LEMMA WriteKeepsIInv ==
    ASSUME IInv, TokenFile!Idle, NEW grant \in Grant, Issue(grant),
           live' \in SUBSET Grant, grant \in live', pc' = "fetch",
           UNCHANGED <<activated, wait, pass, trouble, saved>>,
           task' \in {"start", "renew", "login"}, task' = "renew" => pass # NoPass,
           tried' \in SUBSET {"refresh", "activate"}
    PROVE  IInv'
<1>1. /\ mem' \in [access : Access, grant : Grant] /\ mem'.grant = grant
      /\ writer' = [pc |-> "temp", new |-> mem']
      /\ file' = file
      /\ good' \in SUBSET Access /\ aged' \in SUBSET Access
  BY IssueStartsWrite
<1>2. mem' # NoTokens /\ mem' \in Tokens
  BY <1>1, TokenAssumption DEF Tokens
<1>3. writer'.pc = "temp" /\ writer'.new = mem'
  BY <1>1
<1>4. TypeOK'
  BY <1>1, <1>2 DEF IInv, TypeOK
<1>5. WriterInv' /\ RenewInv'
  BY <1>1, <1>2, <1>3 DEF WriterInv, RenewInv, TokenFile!Idle
<1>6. TokensKept'
  BY <1>1, <1>3 DEF IInv, TokensKept, TokenFile!Idle
<1> QED BY <1>4, <1>5, <1>6 DEF IInv

\* A write goes on, or is refused by the file system.
LEMMA FileStepKeepsIInv ==
    ASSUME IInv, FileStep \/ FileFault
    PROVE  IInv'
<1>1. /\ writer \in [pc : {"idle", "temp", "rename", "remove", "again"}, new : Tokens]
      /\ file \in Tokens /\ NoTokens \in Tokens
  BY DEF IInv, TypeOK, Tokens
<1>2. /\ UNCHANGED <<pc, task, tried, mem, wait, pass, good, aged, live, activated>>
      /\ trouble' \in 0 .. MaxTrouble
  BY BoundAssumption DEF FileStep, FileFault, progress, remote, IInv, TypeOK
<1>3. writer.pc # "idle"
  BY DEF FileStep, FileFault, TokenFile!WriteStep, TokenFile!TempWritten, TokenFile!Renamed,
         TokenFile!Removed, TokenFile!RenameFails, TokenFile!GivesUp
<1>4. /\ pc = "fetch" /\ mem = writer.new /\ writer.new # NoTokens
      /\ writer.new.grant \in live
  BY <1>3 DEF IInv, WriterInv, TokenFile!Idle
<1>5. CASE FileStep /\ TokenFile!TempWritten
  <2>1. /\ writer' = [writer EXCEPT !.pc = "rename"] /\ file' = file
        /\ saved' = saved
    BY <1>1, <1>5 DEF FileStep, TokenFile!TempWritten, TokenFile!AfterTemp
  <2>2. writer'.pc = "rename" /\ writer'.new = writer.new
    BY <1>1, <2>1
  <2>3. TypeOK'
    BY <1>1, <1>2, <2>1 DEF IInv, TypeOK
  <2>4. WriterInv' /\ RenewInv'
    BY <1>2, <1>4, <2>2 DEF IInv, WriterInv, RenewInv, TokenFile!Idle
  <2>5. TokensKept'
    BY <2>1, <2>2 DEF IInv, TokensKept, TokenFile!Idle
  <2> QED BY <2>3, <2>4, <2>5 DEF IInv
<1>6. CASE FileStep /\ TokenFile!Renamed
  <2>1. /\ writer' = [pc |-> "idle", new |-> NoTokens] /\ file' = writer.new
        /\ saved' = "newest"
    BY <1>6 DEF FileStep, TokenFile!Renamed, TokenFile!NoWriter
  <2>2. TypeOK'
    BY <1>1, <1>2, <2>1 DEF IInv, TypeOK
  <2>3. WriterInv' /\ RenewInv'
    BY <1>2, <2>1 DEF IInv, WriterInv, RenewInv, TokenFile!Idle
  <2>4. TokensKept'
    BY <1>2, <1>4, <2>1 DEF TokensKept, TokenFile!Idle
  <2> QED BY <2>2, <2>3, <2>4 DEF IInv
<1>7. CASE FileStep /\ TokenFile!Removed
  <2>1. /\ writer' = [writer EXCEPT !.pc = "again"] /\ file' = NoTokens
        /\ saved = "nothing" /\ saved' = saved
    BY <1>1, <1>7 DEF FileStep, TokenFile!Removed, IInv, WriterInv
  <2>2. writer'.pc = "again" /\ writer'.new = writer.new
    BY <1>1, <2>1
  <2>3. TypeOK'
    BY <1>1, <1>2, <2>1 DEF IInv, TypeOK
  <2>4. WriterInv' /\ RenewInv'
    BY <1>2, <1>4, <2>1, <2>2 DEF IInv, WriterInv, RenewInv, TokenFile!Idle
  <2>5. TokensKept'
    BY <2>1 DEF TokensKept
  <2> QED BY <2>3, <2>4, <2>5 DEF IInv
<1>8. CASE FileFault /\ TokenFile!RenameFails
  <2>1. /\ writer' = [writer EXCEPT !.pc = "remove"] /\ file' = file
        /\ saved' = "nothing"
    BY <1>8 DEF FileFault, TokenFile!RenameFails, TokenFile!GivesUp
  <2>2. writer'.pc = "remove" /\ writer'.new = writer.new
    BY <1>1, <2>1
  <2>3. TypeOK'
    BY <1>1, <1>2, <2>1 DEF IInv, TypeOK
  <2>4. WriterInv' /\ RenewInv'
    BY <1>2, <1>4, <2>1, <2>2 DEF IInv, WriterInv, RenewInv, TokenFile!Idle
  <2>5. TokensKept'
    BY <2>1 DEF TokensKept
  <2> QED BY <2>3, <2>4, <2>5 DEF IInv
<1>9. CASE FileFault /\ TokenFile!GivesUp
  <2>1. /\ writer' = [pc |-> "idle", new |-> NoTokens] /\ file' = file
        /\ saved' = CutOff
    BY <1>9 DEF FileFault, TokenFile!RenameFails, TokenFile!GivesUp, TokenFile!NoWriter
  <2>2. TypeOK'
    BY <1>1, <1>2, <2>1 DEF IInv, TypeOK, CutOff
  <2>3. WriterInv' /\ RenewInv'
    BY <1>2, <2>1 DEF IInv, WriterInv, RenewInv, TokenFile!Idle
  <2>4. TokensKept'
    BY <2>1 DEF IInv, TokensKept, CutOff
  <2> QED BY <2>2, <2>3, <2>4 DEF IInv
<1> QED
  BY <1>5, <1>6, <1>7, <1>8, <1>9 DEF FileStep, FileFault, TokenFile!WriteStep

\* The answers of Guardian, and the start of a renewal: no tokens change hands.
LEMMA RequestKeepsIInv ==
    ASSUME IInv, TokenFile!Idle, pc # "down",
           pc' \in {"refresh", "fetch", "activate", "serve"},
           pc' = "serve" => pass' # NoPass, task' \in {"start", "renew", "login"},
           task' = "renew" => pass' # NoPass, pass' \in {NoPass} \cup PassState,
           tried' \in SUBSET {"refresh", "activate"}, wait' \in BOOLEAN,
           activated' \in BOOLEAN,
           UNCHANGED <<fileVars, mem, good, aged, live, trouble, saved>>
    PROVE  IInv'
<1>1. TypeOK'
  BY DEF IInv, TypeOK, fileVars, PassState
<1>2. WriterInv' /\ RenewInv'
  BY DEF IInv, WriterInv, RenewInv, TokenFile!Idle, fileVars
<1>3. TokensKept'
  BY DEF IInv, TokensKept, TokenFile!Idle, fileVars
<1> QED BY <1>1, <1>2, <1>3 DEF IInv

\* Time, and what happens at Accounts and Guardian by itself.
LEMMA WorldKeepsIInv ==
    ASSUME IInv, Tick \/ Lapse \/ \E a \in Access : Age(a) \/ Refuse(a)
    PROVE  IInv'
<1>1. /\ UNCHANGED <<file, writer, pc, task, tried, mem, live, saved>>
      /\ trouble' \in 0 .. MaxTrouble
  <2>1. trouble \in 0 .. MaxTrouble /\ MaxTrouble \in Nat
    BY BoundAssumption DEF IInv, TypeOK
  <2>2. CASE Tick
    BY <2>1, <2>2 DEF Tick, fileVars, progress, remote
  <2>3. CASE Lapse
    BY <2>1, <2>3 DEF Lapse, fileVars, progress
  <2>4. CASE \E a \in Access : Age(a) \/ Refuse(a)
    BY <2>1, <2>4 DEF Age, Refuse, fileVars, progress
  <2> QED BY <2>2, <2>3, <2>4
<1>2. /\ good' \in SUBSET Access /\ aged' \in SUBSET Access
      /\ wait' \in BOOLEAN /\ activated' \in BOOLEAN
  BY DEF IInv, TypeOK, Tick, Lapse, Age, Refuse, remote
<1>3. pass' \in {NoPass} \cup PassState /\ (pass # NoPass => pass' # NoPass)
  <2>1. pass \in {NoPass} \cup PassState
    BY DEF IInv, TypeOK, PassState
  <2>2. CASE Tick /\ pass # NoPass
    <3>1. pass' \in PassState
      BY <2>1, <2>2, TickOfPass
    <3> QED BY <3>1, TokenAssumption DEF PassState
  <2>3. CASE ~ (Tick /\ pass # NoPass)
    BY <2>1, <2>3 DEF Tick, Lapse, Age, Refuse
  <2> QED BY <2>2, <2>3
<1>4. TypeOK'
  BY <1>1, <1>2, <1>3 DEF IInv, TypeOK, PassState
<1>5. WriterInv' /\ RenewInv'
  BY <1>1, <1>3 DEF IInv, WriterInv, RenewInv, TokenFile!Idle
<1>6. TokensKept'
  BY <1>1 DEF IInv, TokensKept, TokenFile!Idle
<1> QED BY <1>4, <1>5, <1>6 DEF IInv

\* A crash may cut a write off.
LEMMA DiesKeepsIInv ==
    ASSUME IInv, Dies
    PROVE  IInv'
<1>1. /\ writer' = [pc |-> "idle", new |-> NoTokens] /\ file' = file
      /\ UNCHANGED <<task, tried, good, aged, live, activated>>
      /\ pc' = "down" /\ mem' = NoTokens /\ pass' = NoPass /\ wait' = FALSE
      /\ saved' = IF TokenFile!Idle THEN saved ELSE CutOff
  BY DEF Dies, Exits, TokenFile!Interrupted, TokenFile!NoWriter, remote
<1>2. trouble' \in 0 .. MaxTrouble
  BY BoundAssumption DEF Dies, IInv, TypeOK
<1>3. TypeOK'
  BY <1>1, <1>2 DEF IInv, TypeOK, Tokens, CutOff
<1>4. WriterInv' /\ RenewInv'
  BY <1>1 DEF WriterInv, RenewInv, TokenFile!Idle
<1>5. TokensKept'
  BY <1>1 DEF IInv, TokensKept, CutOff, TokenFile!Idle
<1> QED BY <1>3, <1>4, <1>5 DEF IInv

\* Every step of the program and of its world keeps the invariant.
LEMMA IInvStep ==
    ASSUME IInv, [Next]_vars
    PROVE  IInv'
<1> USE DEF fileVars, remote
<1>1. pc # "fetch" => TokenFile!Idle
  BY DEF IInv, WriterInv
<1>2. /\ tried \in SUBSET {"refresh", "activate"} /\ task \in {"start", "renew", "login"}
      /\ wait \in BOOLEAN /\ activated \in BOOLEAN /\ live \in SUBSET Grant
      /\ pass \in {NoPass} \cup PassState /\ (pc = "serve" => pass # NoPass)
      /\ mem \in Tokens /\ file \in Tokens /\ (pc = "down" <=> mem = NoTokens)
  BY DEF IInv, TypeOK, PassState
<1>3. pc # "down" /\ task = "renew" => pass # NoPass
  BY DEF IInv, RenewInv
<1>4. CASE Boot
  <2>1. /\ pc = "down" /\ file # NoTokens /\ pc' \in {"refresh", "fetch"} /\ mem' = file
        /\ task' = "start" /\ tried' = {}
        /\ UNCHANGED <<file, writer, good, aged, live, activated, wait, pass, trouble, saved>>
    BY <1>4 DEF Boot
  <2>2. TypeOK'
    BY <1>2, <2>1 DEF IInv, TypeOK
  <2>3. WriterInv' /\ RenewInv'
    BY <1>1, <2>1 DEF IInv, WriterInv, RenewInv, TokenFile!Idle
  <2>4. TokensKept'
    BY <2>1 DEF IInv, TokensKept, TokenFile!Idle
  <2> QED BY <2>2, <2>3, <2>4 DEF IInv
<1>5. CASE Login
  <2>1. TokenFile!Idle
    BY <1>1, <1>5 DEF Login
  <2>2. NewGrant \in Grant
    BY <2>1, NewTokensExist
  <2> QED BY <1>2, <1>5, <2>1, <2>2, WriteKeepsIInv DEF Login
<1>6. CASE Refreshed
  <2>1. TokenFile!Idle /\ pc = "refresh" /\ mem.grant \in live
    BY <1>1, <1>6 DEF Refreshed
  <2>2. PICK rotated \in BOOLEAN :
          /\ Issue(GrantAfter(rotated))
          /\ live' = IF rotated THEN (live \ {mem.grant}) \cup {NewGrant} ELSE live
    BY <1>6 DEF Refreshed
  <2>3. NewGrant \in Grant
    BY <2>1, NewTokensExist
  <2>4. GrantAfter(rotated) \in Grant /\ GrantAfter(rotated) \in live'
    BY <1>2, <2>1, <2>2, <2>3 DEF GrantAfter
  <2>5. live' \in SUBSET Grant
    BY <1>2, <2>2, <2>3
  <2>6. pc' = "fetch" /\ UNCHANGED <<activated, task, tried, wait, pass, trouble, saved>>
    BY <1>6 DEF Refreshed
  <2> QED BY <1>2, <1>3, <2>1, <2>2, <2>4, <2>5, <2>6, WriteKeepsIInv
<1>7. CASE RefreshFails
  BY <1>1, <1>7, FailureKeepsIInv DEF RefreshFails
<1>8. CASE Unauthorized
  <2>1. TokenFile!Idle /\ pc = "fetch"
    BY <1>8 DEF Unauthorized, Fetching
  <2>2. CASE Fails
    BY <1>8, <2>1, <2>2, FailureKeepsIInv DEF Unauthorized
  <2>3. CASE ~ Fails
    BY <1>2, <1>3, <1>8, <2>1, <2>3, RequestKeepsIInv DEF Unauthorized
  <2> QED BY <2>2, <2>3
<1>9. CASE Forbidden
  <2>1. TokenFile!Idle /\ pc = "fetch"
    BY <1>9 DEF Forbidden, Fetching
  <2>2. CASE Fails
    BY <1>9, <2>1, <2>2, FailureKeepsIInv DEF Forbidden
  <2>3. CASE ~ Fails
    BY <1>2, <1>3, <1>9, <2>1, <2>3, RequestKeepsIInv DEF Forbidden
  <2> QED BY <2>2, <2>3
<1>10. CASE Activated
  BY <1>1, <1>2, <1>3, <1>10, RequestKeepsIInv DEF Activated
<1>11. CASE RequestFails
  <2>1. TokenFile!Idle /\ pc \in {"fetch", "activate"}
    BY <1>1, <1>11 DEF RequestFails, Fetching
  <2> QED BY <1>11, <2>1, FailureKeepsIInv DEF RequestFails
<1>12. CASE Fetched
  <2>1. TokenFile!Idle /\ pc = "fetch"
    BY <1>12 DEF Fetched, Fetching
  <2>2. CASE task = "login"
    BY <1>12, <2>1, <2>2, ExitKeepsIInv DEF Fetched
  <2>3. CASE task # "login"
    <3>1. PICK age \in 0 .. MaxAge, life \in Lives, stamp \in Stamps, zone \in Zones,
               hasStart \in BOOLEAN :
            pass' = NewPass(age, life, stamp, zone, hasStart)
      BY <1>12, <2>3 DEF Fetched
    <3>2. pass' \in PassState
      BY <3>1, NewPassType
    <3>3. pass' # NoPass
      BY <3>2, TokenAssumption DEF PassState
    <3>4. pc' = "serve" /\ wait' = FALSE
          /\ UNCHANGED <<mem, file, writer, task, tried, good, aged, live, activated, trouble, saved>>
      BY <1>12, <2>3 DEF Fetched
    <3> QED BY <1>2, <2>1, <3>2, <3>3, <3>4, RequestKeepsIInv
  <2> QED BY <2>2, <2>3
<1>13. CASE StartRenewal
  BY <1>1, <1>2, <1>13, RequestKeepsIInv DEF StartRenewal
<1>14. CASE Tick \/ Lapse \/ \E a \in Access : Age(a) \/ Refuse(a)
  BY <1>14, WorldKeepsIInv
<1>15. CASE FileStep \/ FileFault
  BY <1>15, FileStepKeepsIInv
<1>16. CASE Dies
  BY <1>16, DiesKeepsIInv
<1>17. CASE UNCHANGED vars
  BY <1>17 DEF vars, IInv, TypeOK, WriterInv, RenewInv, TokensKept, TokenFile!Idle
<1> QED
  BY <1>4, <1>5, <1>6, <1>7, <1>8, <1>9, <1>10, <1>11, <1>12, <1>13, <1>14, <1>15,
     <1>16, <1>17 DEF Next, AccountsStep, GuardianStep

\* It holds before the first login and with the tokens of an earlier run.
LEMMA InitIInv == Init => IInv
<1> SUFFICES ASSUME Init
             PROVE  IInv
  OBVIOUS
<1> DEFINE first == [access |-> Unused(Access, {}), grant |-> Unused(Grant, {})]
<1>1. first \in [access : Access, grant : Grant] /\ first # NoTokens
  <2>1. Access \ {} # {} /\ Grant \ {} # {}
    BY TokenAssumption
  <2>2. Unused(Access, {}) \in Access /\ Unused(Grant, {}) \in Grant
    BY <2>1 DEF Unused
  <2> QED BY <2>2, TokenAssumption
<1>2. /\ file \in {NoTokens, first} /\ writer = [pc |-> "idle", new |-> NoTokens]
      /\ live = {t.grant : t \in {file} \ {NoTokens}}
      /\ good = {t.access : t \in {file} \ {NoTokens}}
      /\ pc = "down" /\ task = "start" /\ tried = {} /\ mem = NoTokens /\ wait = FALSE
      /\ pass = NoPass /\ aged = {} /\ activated \in BOOLEAN /\ trouble = 0
      /\ saved = IF file = NoTokens THEN "nothing" ELSE "newest"
  BY DEF Init, TokenFile!NoWriter
<1>3. first.access \in Access /\ first.grant \in Grant
  BY <1>1
<1> HIDE DEF first
<1>4. good \in SUBSET Access /\ live \in SUBSET Grant
  BY <1>2, <1>3
<1>5. TypeOK
  <2>1. file \in Tokens /\ mem \in Tokens /\ NoTokens \in Tokens
    BY <1>1, <1>2 DEF Tokens
  <2>2. writer \in [pc : {"idle", "temp", "rename", "remove", "again"}, new : Tokens]
    BY <1>2, <2>1
  <2>3. trouble \in 0 .. MaxTrouble /\ saved \in {"newest", "older", "nothing"}
    BY <1>2, BoundAssumption
  <2> QED BY <1>2, <1>4, <2>1, <2>2, <2>3 DEF TypeOK
<1>6. WriterInv /\ RenewInv
  BY <1>2 DEF WriterInv, RenewInv, TokenFile!Idle
<1>7. TokensKept
  BY <1>2 DEF TokensKept, TokenFile!Idle
<1> QED BY <1>5, <1>6, <1>7 DEF IInv

\* The variables keep their types: among them, a program that serves has a pass, and one
\* that runs has tokens.
THEOREM TypeCorrect == Spec => []TypeOK
<1>1. IInv => TypeOK
  BY DEF IInv
<1> QED BY <1>1, InitIInv, IInvStep, PTL DEF Spec

\* A crash or a file error between any two steps of a save costs no tokens, unless a
\* rename was refused; and tokens that were saved can be used after a restart.
THEOREM TokensAreKept == Spec => []TokensKept
<1>1. IInv => TokensKept
  BY DEF IInv
<1> QED BY <1>1, InitIInv, IInvStep, PTL DEF Spec

=============================================================================
