------------------------- MODULE SessionLease_Proofs -------------------------
(***************************************************************************)
(* What SessionLease gives those who hold a lease, for any set of          *)
(* sessions.  Pool and controller implement it, so it holds of both.       *)
(***************************************************************************)
EXTENDS SessionLease, TLAPS

\* Before a shutdown, whoever has a lease has an open connection; and a session is
\* draining only while somebody has a lease that will close it.
LeaseKept ==
    \A s \in Session :
      /\ leases[s] > 0 /\ ~ down => status[s] # "none"
      /\ status[s] = "draining" => leases[s] > 0

\* A retired session does not come back and takes no new lease, and but for a
\* shutdown it ends when nobody has a lease any more.
Retirement ==
    [][\A s \in Session : status[s] = "draining" =>
         /\ status'[s] # "serving"
         /\ leases'[s] <= leases[s]
         /\ status'[s] = "none" => down \/ leases'[s] = 0]_vars

LInv == TypeOK /\ LeaseKept

LEMMA LInvInit == Init => LInv
  <1> SUFFICES ASSUME Init
               PROVE  LInv
    OBVIOUS
  <1>1. /\ status \in [Session -> {"none", "serving"}]
        /\ leases = [s \in Session |-> 0]
        /\ down = FALSE
    BY DEF Init
  <1>2. TypeOK
    <2>1. status \in [Session -> {"none", "serving", "draining"}]
      BY <1>1
    <2>2. leases \in [Session -> Nat]
      BY <1>1
    <2> QED
      BY <1>1, <2>1, <2>2 DEF TypeOK
  <1>3. LeaseKept
    <2>1. ASSUME NEW s \in Session
          PROVE  ~ (leases[s] > 0) /\ status[s] # "draining"
      BY <1>1
    <2> QED
      BY <2>1 DEF LeaseKept
  <1> QED
    BY <1>2, <1>3 DEF LInv

\* The step of one session, and what it leaves alone.
LEMMA LInvNext == LInv /\ [Next]_vars => LInv'
  <1> SUFFICES ASSUME LInv, [Next]_vars
               PROVE  LInv'
    OBVIOUS
  <1> USE DEF LInv, TypeOK, LeaseKept
  <1>1. CASE Shutdown
    BY <1>1 DEF Shutdown
  <1>2. ASSUME NEW s \in Session, Open(s)
        PROVE  LInv'
    BY <1>2 DEF Open
  <1>3. ASSUME NEW s \in Session, Lease(s)
        PROVE  LInv'
    <2>1. /\ leases[s] \in Nat /\ leases[s] + 1 \in Nat /\ leases[s] + 1 > 0
          /\ leases' = [leases EXCEPT ![s] = leases[s] + 1]
          /\ UNCHANGED <<status, down>> /\ status[s] = "serving"
      BY <1>3 DEF Lease
    <2> QED
      BY <2>1
  <1>4. ASSUME NEW s \in Session, Return(s)
        PROVE  LInv'
    <2>1. /\ leases[s] - 1 \in Nat
          /\ leases' = [leases EXCEPT ![s] = leases[s] - 1]
          /\ leases[s] # 1 => leases[s] - 1 > 0
      BY <1>4 DEF Return
    <2>2. /\ status' = [status EXCEPT ![s] = IF status[s] = "draining" /\ leases[s] = 1
                                             THEN "none" ELSE status[s]]
          /\ UNCHANGED down
      BY <1>4 DEF Return
    <2>3. /\ \A u \in Session \ {s} : leases'[u] = leases[u] /\ status'[u] = status[u]
          /\ leases'[s] = leases[s] - 1
          /\ status'[s] = IF status[s] = "draining" /\ leases[s] = 1 THEN "none" ELSE status[s]
      BY <2>1, <2>2
    <2>4. TypeOK'
      BY <2>1, <2>2
    <2>5. LeaseKept'
      BY <1>4, <2>1, <2>2, <2>3 DEF Return
    <2> QED
      BY <2>4, <2>5
  <1>5. ASSUME NEW s \in Session, Retire(s)
        PROVE  LInv'
    BY <1>5 DEF Retire
  <1>6. ASSUME NEW s \in Session, Kill(s)
        PROVE  LInv'
    BY <1>6 DEF Kill
  <1>7. CASE UNCHANGED vars
    BY <1>7 DEF vars
  <1> QED
    BY <1>1, <1>2, <1>3, <1>4, <1>5, <1>6, <1>7 DEF Next

\* A lease is as good as its word until the shutdown.
THEOREM LeasesAreKept == Spec => []LeaseKept
  <1>1. LInv => LeaseKept
    BY DEF LInv
  <1> QED
    BY <1>1, LInvInit, LInvNext, PTL DEF Spec

\* Retirement is final.
THEOREM RetirementIsFinal == Spec => Retirement
  <1> DEFINE final == \A s \in Session : status[s] = "draining" =>
                        /\ status'[s] # "serving"
                        /\ leases'[s] <= leases[s]
                        /\ status'[s] = "none" => down \/ leases'[s] = 0
  <1>1. ASSUME LInv, Next
        PROVE  final
    <2> USE DEF LInv, TypeOK
    <2> SUFFICES ASSUME NEW s \in Session, status[s] = "draining"
                 PROVE  /\ status'[s] # "serving"
                        /\ leases'[s] <= leases[s]
                        /\ status'[s] = "none" => down \/ leases'[s] = 0
      OBVIOUS
    <2>1. CASE Shutdown
      BY <1>1, <2>1 DEF Shutdown
    <2>2. ASSUME NEW u \in Session, Open(u) \/ Lease(u) \/ Retire(u) \/ Kill(u)
          PROVE  /\ status'[s] # "serving"
                 /\ leases'[s] <= leases[s]
                 /\ status'[s] = "none" => down \/ leases'[s] = 0
      BY <1>1, <2>2 DEF Open, Lease, Retire, Kill
    <2>3. ASSUME NEW u \in Session, Return(u)
          PROVE  /\ status'[s] # "serving"
                 /\ leases'[s] <= leases[s]
                 /\ status'[s] = "none" => down \/ leases'[s] = 0
      BY <1>1, <2>3 DEF Return
    <2> QED
      BY <1>1, <2>1, <2>2, <2>3 DEF Next
  <1>2. LInv /\ [Next]_vars => [final]_vars
    BY <1>1
  <1> QED
    BY <1>2, LInvInit, LInvNext, PTL DEF Spec, Retirement

=============================================================================
