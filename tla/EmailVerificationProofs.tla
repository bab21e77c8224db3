---------------------- MODULE EmailVerificationProofs ----------------------
(***************************************************************************)
(* What holds of EmailVerification for any number of concurrent requests,  *)
(* challenges and limits, and what needs requests to come one at a time.   *)
(* Each invariant is proved with one step per action.                      *)
(***************************************************************************)
EXTENDS EmailVerification, TLAPS

(* A request that compared a wrong code loaded a counter below the limit.  *)
CountersHaveRoom ==
    \A r \in Requests : pc[r] = "ver_wrong" => attempts[r] < MaxAttempts

(* A request with a challenge knows it, one about to issue has read.       *)
Checking(r) == pc[r] \in VerifyStages

ChallengesAreKnown ==
    \A r \in Requests : Delivering(r) \/ Checking(r) => chal[r] \in Challenges

TypeInv == TypeOK /\ CountersHaveRoom /\ ChallengesAreKnown

LEMMA TypeInvHolds == Spec => []TypeInv
<1> USE LimitsAssumption, NoChallengeAssumption
        DEF TypeInv, TypeOK, CountersHaveRoom, ChallengesAreKnown, Delivering, Checking,
            Stages, RegisterStages, ResendStages, VerifyStages
<1>1. Init => TypeInv
  BY DEF Init
<1>2. TypeInv /\ [Next]_vars => TypeInv'
  <2> SUFFICES ASSUME TypeInv, [Next]_vars PROVE TypeInv'
    OBVIOUS
  <2> USE DEF table, request, history, Goto, Advance, Begin, End
  <2>1. CASE UNCHANGED vars
    BY <2>1 DEF vars
  <2>2. ASSUME NEW r \in Requests, LookUpForRegister(r) PROVE TypeInv'
    BY <2>2 DEF LookUpForRegister
  <2>3. ASSUME NEW r \in Requests, CreateUser(r) PROVE TypeInv'
    BY <2>3 DEF CreateUser
  <2>4. ASSUME NEW r \in Requests, LookUpForResend(r) PROVE TypeInv'
    BY <2>4 DEF LookUpForResend
  <2>5. ASSUME NEW r \in Requests, CheckCooldown(r) PROVE TypeInv'
    BY <2>5 DEF CheckCooldown
  <2>6. ASSUME NEW r \in Requests, ReadActiveCodes(r) PROVE TypeInv'
    BY <2>6 DEF ReadActiveCodes
  <2>7. ASSUME NEW r \in Requests, InsertCode(r) PROVE TypeInv'
    BY <2>7 DEF InsertCode, Insert
  <2>8. ASSUME NEW r \in Requests, InsertFails(r) PROVE TypeInv'
    BY <2>8 DEF InsertFails
  <2>9. ASSUME NEW r \in Requests, SendCode(r) \/ SendFails(r) PROVE TypeInv'
    BY <2>9 DEF SendCode, SendFails
  <2>10. ASSUME NEW r \in Requests, DiscardCode(r) PROVE TypeInv'
    BY <2>10 DEF DiscardCode
  <2>11. ASSUME NEW r \in Requests, NEW c \in Challenges, NEW right \in BOOLEAN,
                CheckCode(r, c, right)
         PROVE  TypeInv'
    BY <2>11 DEF CheckCode, Active
  <2>12. ASSUME NEW r \in Requests, CountWrongCode(r) PROVE TypeInv'
    BY <2>12 DEF CountWrongCode
  <2>13. ASSUME NEW r \in Requests, AcceptCode(r) PROVE TypeInv'
    BY <2>13 DEF AcceptCode
  <2>14. ASSUME NEW r \in Requests, Crash(r) PROVE TypeInv'
    BY <2>14 DEF Crash
  <2>15. ASSUME GoogleLogin \/ Tick PROVE TypeInv'
    BY <2>15 DEF GoogleLogin, Tick
  <2> QED
    BY <2>1, <2>2, <2>3, <2>4, <2>5, <2>6, <2>7, <2>8, <2>9, <2>10, <2>11, <2>12, <2>13,
       <2>14, <2>15 DEF Next, IssueStep, VerifyStep
<1> QED
  BY <1>1, <1>2, PTL DEF Spec

(* The variables keep their types; in particular no interleaving of checks *)
(* takes failed_attempts beyond the limit.                                 *)
THEOREM TypeCorrect == Spec => []TypeOK
BY TypeInvHolds, PTL DEF TypeInv

(* Whatever order wrong codes are counted in, a challenge at the limit is   *)
(* consumed: the check that writes the limit consumes in the same UPDATE.   *)
THEOREM LimitsAreKept ==
    Spec => []LimitConsumes
<1> USE LimitsAssumption, NoChallengeAssumption
        DEF TypeInv, TypeOK, CountersHaveRoom, ChallengesAreKnown, Delivering, Checking,
            Stages, RegisterStages, ResendStages, VerifyStages,
            LimitConsumes
<1>1. Init => LimitConsumes
  BY DEF Init
<1>2. TypeInv /\ LimitConsumes /\ [Next]_vars => LimitConsumes'
  <2> SUFFICES ASSUME TypeInv, LimitConsumes, [Next]_vars PROVE LimitConsumes'
    OBVIOUS
  <2> USE DEF table, request, history, Goto, Advance, Begin, End
  <2>1. CASE UNCHANGED vars
    BY <2>1 DEF vars
  <2>2. ASSUME NEW r \in Requests, LookUpForRegister(r) \/ CreateUser(r) \/ LookUpForResend(r)
         PROVE  LimitConsumes'
    BY <2>2 DEF LookUpForRegister, CreateUser, LookUpForResend
  <2>3. ASSUME NEW r \in Requests, CheckCooldown(r) \/ ReadActiveCodes(r) \/ InsertFails(r)
         PROVE  LimitConsumes'
    BY <2>3 DEF CheckCooldown, ReadActiveCodes, InsertFails
  <2>4. ASSUME NEW r \in Requests, InsertCode(r)
         PROVE  LimitConsumes'
    BY <2>4 DEF InsertCode, Insert, Unused
  <2>5. ASSUME NEW r \in Requests, SendCode(r) \/ SendFails(r)
         PROVE  LimitConsumes'
    BY <2>5 DEF SendCode, SendFails
  <2>6. ASSUME NEW r \in Requests, DiscardCode(r)
         PROVE  LimitConsumes'
    BY <2>6 DEF DiscardCode
  <2>7. ASSUME NEW r \in Requests, NEW c \in Challenges, NEW right \in BOOLEAN,
                CheckCode(r, c, right)
         PROVE  LimitConsumes'
    BY <2>7 DEF CheckCode, Active
  <2>8. ASSUME NEW r \in Requests, CountWrongCode(r)
         PROVE  LimitConsumes'
    BY <2>8 DEF CountWrongCode
  <2>9. ASSUME NEW r \in Requests, AcceptCode(r)
         PROVE  LimitConsumes'
    BY <2>9 DEF AcceptCode
  <2>10. ASSUME NEW r \in Requests, Crash(r)
         PROVE  LimitConsumes'
    BY <2>10 DEF Crash
  <2>11. ASSUME GoogleLogin \/ Tick PROVE LimitConsumes'
    BY <2>11 DEF GoogleLogin, Tick
  <2> QED
    BY <2>1, <2>2, <2>3, <2>4, <2>5, <2>6, <2>7, <2>8, <2>9, <2>10, <2>11
       DEF Next, IssueStep, VerifyStep
<1> QED
  BY <1>1, <1>2, TypeInvHolds, PTL DEF Spec

(* The challenges being mailed or discarded are stored, each is one         *)
(* request's own, and none of their tickets has been answered.              *)
DeliveriesAreOwned ==
    /\ \A r \in Requests : Delivering(r) => chal[r] \in rows \ tickets
    /\ \A q, r \in Requests :
        Delivering(q) /\ Delivering(r) /\ q # r => chal[q] # chal[r]

DeliveryInv == DeliveriesAreOwned /\ TicketHasChallenge

(* DeliveryInv is inductive: a new challenge is nobody's, and a check       *)
(* starts from a ticket, which no request is still delivering.              *)
LEMMA DeliveryInvHolds ==
    Spec => []DeliveryInv
<1> USE LimitsAssumption, NoChallengeAssumption
        DEF TypeInv, TypeOK, CountersHaveRoom, ChallengesAreKnown, Delivering, Checking,
            Stages, RegisterStages, ResendStages, VerifyStages,
            DeliveryInv, DeliveriesAreOwned, TicketHasChallenge
<1>1. Init => DeliveryInv
  BY DEF Init
<1>2. TypeInv /\ DeliveryInv /\ [Next]_vars => DeliveryInv'
  <2> SUFFICES ASSUME TypeInv, DeliveryInv, [Next]_vars PROVE DeliveryInv'
    OBVIOUS
  <2> USE DEF table, request, history, Goto, Advance, Begin, End
  <2>1. CASE UNCHANGED vars
    BY <2>1 DEF vars
  <2>2. ASSUME NEW r \in Requests, LookUpForRegister(r) \/ CreateUser(r) \/ LookUpForResend(r)
         PROVE  DeliveryInv'
    BY <2>2 DEF LookUpForRegister, CreateUser, LookUpForResend
  <2>3. ASSUME NEW r \in Requests, CheckCooldown(r) \/ ReadActiveCodes(r) \/ InsertFails(r)
         PROVE  DeliveryInv'
    BY <2>3 DEF CheckCooldown, ReadActiveCodes, InsertFails
  <2>4. ASSUME NEW r \in Requests, InsertCode(r)
         PROVE  DeliveryInv'
    BY <2>4 DEF InsertCode, Insert, Unused
  <2>5. ASSUME NEW r \in Requests, SendCode(r) \/ SendFails(r)
         PROVE  DeliveryInv'
    BY <2>5 DEF SendCode, SendFails
  <2>6. ASSUME NEW r \in Requests, DiscardCode(r)
         PROVE  DeliveryInv'
    BY <2>6 DEF DiscardCode
  <2>7. ASSUME NEW r \in Requests, NEW c \in Challenges, NEW right \in BOOLEAN,
                CheckCode(r, c, right)
         PROVE  DeliveryInv'
    BY <2>7 DEF CheckCode, Active
  <2>8. ASSUME NEW r \in Requests, CountWrongCode(r)
         PROVE  DeliveryInv'
    BY <2>8 DEF CountWrongCode
  <2>9. ASSUME NEW r \in Requests, AcceptCode(r)
         PROVE  DeliveryInv'
    BY <2>9 DEF AcceptCode
  <2>10. ASSUME NEW r \in Requests, Crash(r)
         PROVE  DeliveryInv'
    BY <2>10 DEF Crash
  <2>11. ASSUME GoogleLogin \/ Tick PROVE DeliveryInv'
    BY <2>11 DEF GoogleLogin, Tick
  <2> QED
    BY <2>1, <2>2, <2>3, <2>4, <2>5, <2>6, <2>7, <2>8, <2>9, <2>10, <2>11
       DEF Next, IssueStep, VerifyStep
<1> QED
  BY <1>1, <1>2, TypeInvHolds, PTL DEF Spec

(* A ticket names a stored challenge, under crashes as well: no request     *)
(* discards a challenge that another one delivered.                         *)
THEOREM TicketsAreBacked == Spec => []TicketHasChallenge
BY DeliveryInvHolds, PTL DEF DeliveryInv

(* Every stored challenge was delivered, is being delivered, or its server  *)
(* died while it was.                                                       *)
RowsAreOwned ==
    \A c \in rows : \/ c \in tickets \/ c \in orphans
                   \/ \E r \in Requests : Delivering(r) /\ chal[r] = c

(* When every request has been answered, only delivered challenges are      *)
(* stored, and those whose server died on the way.                          *)
THEOREM UndeliveredAreDiscarded == Spec => []UndeliveredIsDiscarded
<1> USE LimitsAssumption, NoChallengeAssumption
        DEF TypeInv, TypeOK, CountersHaveRoom, ChallengesAreKnown, Delivering, Checking,
            Stages, RegisterStages, ResendStages, VerifyStages,
            RowsAreOwned
<1>1. Init => RowsAreOwned
  BY DEF Init
<1>2. TypeInv /\ RowsAreOwned /\ [Next]_vars => RowsAreOwned'
  <2> SUFFICES ASSUME TypeInv, RowsAreOwned, [Next]_vars PROVE RowsAreOwned'
    OBVIOUS
  <2> USE DEF table, request, history, Goto, Advance, Begin, End
  <2>1. CASE UNCHANGED vars
    BY <2>1 DEF vars
  <2>2. ASSUME NEW r \in Requests, LookUpForRegister(r) \/ CreateUser(r) \/ LookUpForResend(r)
         PROVE  RowsAreOwned'
    BY <2>2 DEF LookUpForRegister, CreateUser, LookUpForResend
  <2>3. ASSUME NEW r \in Requests, CheckCooldown(r) \/ ReadActiveCodes(r) \/ InsertFails(r)
         PROVE  RowsAreOwned'
    BY <2>3 DEF CheckCooldown, ReadActiveCodes, InsertFails
  <2>4. ASSUME NEW r \in Requests, InsertCode(r)
         PROVE  RowsAreOwned'
    BY <2>4 DEF InsertCode, Insert, Unused
  <2>5. ASSUME NEW r \in Requests, SendCode(r) \/ SendFails(r)
         PROVE  RowsAreOwned'
    BY <2>5 DEF SendCode, SendFails
  <2>6. ASSUME NEW r \in Requests, DiscardCode(r)
         PROVE  RowsAreOwned'
    BY <2>6 DEF DiscardCode
  <2>7. ASSUME NEW r \in Requests, NEW c \in Challenges, NEW right \in BOOLEAN,
                CheckCode(r, c, right)
         PROVE  RowsAreOwned'
    BY <2>7 DEF CheckCode, Active
  <2>8. ASSUME NEW r \in Requests, CountWrongCode(r)
         PROVE  RowsAreOwned'
    BY <2>8 DEF CountWrongCode
  <2>9. ASSUME NEW r \in Requests, AcceptCode(r)
         PROVE  RowsAreOwned'
    BY <2>9 DEF AcceptCode
  <2>10. ASSUME NEW r \in Requests, Crash(r)
         PROVE  RowsAreOwned'
    BY <2>10 DEF Crash
  <2>11. ASSUME GoogleLogin \/ Tick PROVE RowsAreOwned'
    BY <2>11 DEF GoogleLogin, Tick
  <2> QED
    BY <2>1, <2>2, <2>3, <2>4, <2>5, <2>6, <2>7, <2>8, <2>9, <2>10, <2>11
       DEF Next, IssueStep, VerifyStep
<1>3. RowsAreOwned => UndeliveredIsDiscarded
  BY DEF UndeliveredIsDiscarded
<1> QED
  BY <1>1, <1>2, <1>3, TypeInvHolds, PTL DEF Spec

(* No step makes a consumed challenge valid again: a check writes           *)
(* consumed_at only to set it, an issue writes only what it read or adds.   *)
THEOREM SpentChallengesStaySpent == Spec => SpentStaysSpent
<1> USE LimitsAssumption, NoChallengeAssumption
        DEF TypeInv, TypeOK, CountersHaveRoom, ChallengesAreKnown, Delivering, Checking,
            Stages, RegisterStages, ResendStages, VerifyStages
<1> DEFINE Kept == \A c \in rows : c \in consumed /\ c \in rows' => c \in consumed'
<1>1. TypeInv /\ [Next]_vars => Kept
  <2> SUFFICES ASSUME TypeInv, [Next]_vars PROVE Kept
    OBVIOUS
  <2> USE DEF table, request, history, Goto, Advance, Begin, End
  <2>1. CASE UNCHANGED vars
    BY <2>1 DEF vars
  <2>2. ASSUME NEW r \in Requests, LookUpForRegister(r) \/ CreateUser(r) \/ LookUpForResend(r)
         PROVE  Kept
    BY <2>2 DEF LookUpForRegister, CreateUser, LookUpForResend
  <2>3. ASSUME NEW r \in Requests, CheckCooldown(r) \/ ReadActiveCodes(r) \/ InsertFails(r)
         PROVE  Kept
    BY <2>3 DEF CheckCooldown, ReadActiveCodes, InsertFails
  <2>4. ASSUME NEW r \in Requests, InsertCode(r)
         PROVE  Kept
    BY <2>4 DEF InsertCode, Insert, Unused
  <2>5. ASSUME NEW r \in Requests, SendCode(r) \/ SendFails(r)
         PROVE  Kept
    BY <2>5 DEF SendCode, SendFails
  <2>6. ASSUME NEW r \in Requests, DiscardCode(r)
         PROVE  Kept
    BY <2>6 DEF DiscardCode
  <2>7. ASSUME NEW r \in Requests, NEW c \in Challenges, NEW right \in BOOLEAN,
                CheckCode(r, c, right)
         PROVE  Kept
    BY <2>7 DEF CheckCode, Active
  <2>8. ASSUME NEW r \in Requests, CountWrongCode(r)
         PROVE  Kept
    BY <2>8 DEF CountWrongCode
  <2>9. ASSUME NEW r \in Requests, AcceptCode(r)
         PROVE  Kept
    BY <2>9 DEF AcceptCode
  <2>10. ASSUME NEW r \in Requests, Crash(r)
         PROVE  Kept
    BY <2>10 DEF Crash
  <2>11. ASSUME GoogleLogin \/ Tick PROVE Kept
    BY <2>11 DEF GoogleLogin, Tick
  <2> QED
    BY <2>1, <2>2, <2>3, <2>4, <2>5, <2>6, <2>7, <2>8, <2>9, <2>10, <2>11
       DEF Next, IssueStep, VerifyStep
<1>2. TypeInv /\ [Next]_vars => [Kept]_vars
  BY <1>1
<1> QED
  BY <1>2, TypeInvHolds, PTL DEF Spec, SpentStaysSpent

(* No two requests are between the load and the write of a wrong code for   *)
(* one challenge; all else may overlap.                                     *)
ChecksAreSingle ==
    \A q, r \in Requests :
        pc[q] = "ver_wrong" /\ pc[r] = "ver_wrong" /\ chal[q] = chal[r] => q = r

(* The counter of a stored challenge counts its wrong codes.                *)
CountIsExact ==
    /\ \A c \in Challenges : wrong[c] = failed[c]
    /\ \A r \in Requests : pc[r] = "ver_wrong" => attempts[r] = failed[chal[r]]

(* As long as the wrong codes for a challenge are counted one at a time, it *)
(* answers no more of them than the limit, whatever else is sent, resent,   *)
(* verified or cut off meanwhile: the lost update is the only way past it.  *)
THEOREM SingleChecksAreLimited == Spec /\ []ChecksAreSingle => []AttemptsAreLimited
<1> USE LimitsAssumption, NoChallengeAssumption
        DEF TypeInv, TypeOK, CountersHaveRoom, ChallengesAreKnown, Delivering, Checking,
            Stages, RegisterStages, ResendStages, VerifyStages,
            CountIsExact, ChecksAreSingle
<1>1. Init => CountIsExact
  BY DEF Init
<1>2. TypeInv /\ CountIsExact /\ ChecksAreSingle /\ [Next]_vars => CountIsExact'
  <2> SUFFICES ASSUME TypeInv, CountIsExact, ChecksAreSingle, [Next]_vars
               PROVE  CountIsExact'
    OBVIOUS
  <2> USE DEF table, request, history, Goto, Advance, Begin, End
  <2>1. CASE UNCHANGED vars
    BY <2>1 DEF vars
  <2>2. ASSUME NEW r \in Requests, LookUpForRegister(r) \/ CreateUser(r) \/ LookUpForResend(r)
         PROVE  CountIsExact'
    BY <2>2 DEF LookUpForRegister, CreateUser, LookUpForResend
  <2>3. ASSUME NEW r \in Requests, CheckCooldown(r) \/ ReadActiveCodes(r) \/ InsertFails(r)
         PROVE  CountIsExact'
    BY <2>3 DEF CheckCooldown, ReadActiveCodes, InsertFails
  <2>4. ASSUME NEW r \in Requests, InsertCode(r)
         PROVE  CountIsExact'
    BY <2>4 DEF InsertCode, Insert, Unused
  <2>5. ASSUME NEW r \in Requests, SendCode(r) \/ SendFails(r)
         PROVE  CountIsExact'
    BY <2>5 DEF SendCode, SendFails
  <2>6. ASSUME NEW r \in Requests, DiscardCode(r)
         PROVE  CountIsExact'
    BY <2>6 DEF DiscardCode
  <2>7. ASSUME NEW r \in Requests, NEW c \in Challenges, NEW right \in BOOLEAN,
                CheckCode(r, c, right)
         PROVE  CountIsExact'
    BY <2>7 DEF CheckCode, Active
  <2>8. ASSUME NEW r \in Requests, CountWrongCode(r)
         PROVE  CountIsExact'
    BY <2>8 DEF CountWrongCode
  <2>9. ASSUME NEW r \in Requests, AcceptCode(r)
         PROVE  CountIsExact'
    BY <2>9 DEF AcceptCode
  <2>10. ASSUME NEW r \in Requests, Crash(r)
         PROVE  CountIsExact'
    BY <2>10 DEF Crash
  <2>11. ASSUME GoogleLogin \/ Tick PROVE CountIsExact'
    BY <2>11 DEF GoogleLogin, Tick
  <2> QED
    BY <2>1, <2>2, <2>3, <2>4, <2>5, <2>6, <2>7, <2>8, <2>9, <2>10, <2>11
       DEF Next, IssueStep, VerifyStep
<1>3. TypeInv /\ CountIsExact => AttemptsAreLimited
  BY DEF AttemptsAreLimited
<1> QED
  BY <1>1, <1>2, <1>3, TypeInvHolds, PTL DEF Spec

(* At most one stored challenge is active, and a request that is about to   *)
(* insert one has read it.                                                  *)
AtMostOneActive ==
    /\ \A c, d \in rows \ consumed : c = d
    /\ \A r \in Requests :
        pc[r] \in {"reg_issuing", "res_issuing"} => rows \ consumed \subseteq stale[r]

(* No two requests are between their SELECT of the active codes and their   *)
(* INSERT; all else may overlap.                                            *)
IssuesAreSingle ==
    \A q, r \in Requests :
        /\ pc[q] \in {"reg_issuing", "res_issuing"}
        /\ pc[r] \in {"reg_issuing", "res_issuing"}
        => q = r

(* As long as codes are issued one at a time, two delivered codes are never *)
(* valid together, whatever deliveries fail and servers die; the run        *)
(* verify_two_codes shows that two at a time leave two.                     *)
THEOREM SingleIssuesAreUnique == Spec /\ []IssuesAreSingle => []OneActiveCode
<1> USE LimitsAssumption, NoChallengeAssumption
        DEF TypeInv, TypeOK, CountersHaveRoom, ChallengesAreKnown, Delivering, Checking,
            Stages, RegisterStages, ResendStages, VerifyStages,
            AtMostOneActive, IssuesAreSingle
<1>1. Init => AtMostOneActive
  BY DEF Init
<1>2. TypeInv /\ AtMostOneActive /\ IssuesAreSingle /\ [Next]_vars => AtMostOneActive'
  <2> SUFFICES ASSUME TypeInv, AtMostOneActive, IssuesAreSingle, [Next]_vars
               PROVE  AtMostOneActive'
    OBVIOUS
  <2> USE DEF table, request, history, Goto, Advance, Begin, End
  <2>1. CASE UNCHANGED vars
    BY <2>1 DEF vars
  <2>2. ASSUME NEW r \in Requests, LookUpForRegister(r) \/ CreateUser(r) \/ LookUpForResend(r)
         PROVE  AtMostOneActive'
    BY <2>2 DEF LookUpForRegister, CreateUser, LookUpForResend
  <2>3. ASSUME NEW r \in Requests, CheckCooldown(r) \/ ReadActiveCodes(r) \/ InsertFails(r)
         PROVE  AtMostOneActive'
    BY <2>3 DEF CheckCooldown, ReadActiveCodes, InsertFails
  <2>4. ASSUME NEW r \in Requests, InsertCode(r)
         PROVE  AtMostOneActive'
    BY <2>4 DEF InsertCode, Insert, Unused
  <2>5. ASSUME NEW r \in Requests, SendCode(r) \/ SendFails(r)
         PROVE  AtMostOneActive'
    BY <2>5 DEF SendCode, SendFails
  <2>6. ASSUME NEW r \in Requests, DiscardCode(r)
         PROVE  AtMostOneActive'
    BY <2>6 DEF DiscardCode
  <2>7. ASSUME NEW r \in Requests, NEW c \in Challenges, NEW right \in BOOLEAN,
                CheckCode(r, c, right)
         PROVE  AtMostOneActive'
    BY <2>7 DEF CheckCode, Active
  <2>8. ASSUME NEW r \in Requests, CountWrongCode(r)
         PROVE  AtMostOneActive'
    BY <2>8 DEF CountWrongCode
  <2>9. ASSUME NEW r \in Requests, AcceptCode(r)
         PROVE  AtMostOneActive'
    BY <2>9 DEF AcceptCode
  <2>10. ASSUME NEW r \in Requests, Crash(r)
         PROVE  AtMostOneActive'
    BY <2>10 DEF Crash
  <2>11. ASSUME GoogleLogin \/ Tick PROVE AtMostOneActive'
    BY <2>11 DEF GoogleLogin, Tick
  <2> QED
    BY <2>1, <2>2, <2>3, <2>4, <2>5, <2>6, <2>7, <2>8, <2>9, <2>10, <2>11
       DEF Next, IssueStep, VerifyStep
<1>3. AtMostOneActive => OneActiveCode
  BY DEF OneActiveCode, Active
<1> QED
  BY <1>1, <1>2, <1>3, TypeInvHolds, PTL DEF Spec
=============================================================================
