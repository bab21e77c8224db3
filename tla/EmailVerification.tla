------------------------- MODULE EmailVerification -------------------------
(***************************************************************************)
(* Verification of the email address of one account: registration issues a *)
(* code, the user may have it resent, a code is checked, Google sign-in    *)
(* verifies without a code.  Requests interleave between the statements of *)
(* each other's transactions, mail delivery may fail, a server may die.    *)
(*                                                                         *)
(* A challenge is a row of email_verification_codes; a ticket is the typed *)
(* token that names it to the browser.  A ticket expires no earlier than   *)
(* its challenge, so its own expiry decides nothing.  Each check of a code *)
(* works on the row as it was loaded and later writes only the attributes  *)
(* it changed, to values computed from what was loaded.                    *)
(***************************************************************************)
EXTENDS Naturals, FiniteSets

CONSTANTS
    Requests,     \* request slots
    Challenges,   \* identities of challenges; bounds how many are ever issued
    NoChallenge,
    TTL,          \* EMAIL_VERIFICATION_CODE_TTL_MINUTES
    Cooldown,     \* EMAIL_VERIFICATION_RESEND_SECONDS
    MaxAttempts,  \* EMAIL_VERIFICATION_MAX_ATTEMPTS
    MaxTime       \* bounds the clock

ASSUME LimitsAssumption ==
    /\ TTL \in Nat /\ Cooldown \in Nat /\ MaxTime \in Nat
    /\ MaxAttempts \in Nat \ {0}
ASSUME NoChallengeAssumption == NoChallenge \notin Challenges

VARIABLES
    user,      \* "none", "unverified" or "verified"
    rows,      \* challenges stored
    consumed,  \* challenges with consumed_at set
    failed,    \* failed_attempts
    created,   \* created_at
    expires,   \* expires_at
    tickets,   \* challenges whose code was mailed and whose ticket was answered
    now,
    pc,        \* the stage of each request
    chal,      \* the challenge it issued or checks
    stale,     \* the active challenges it read before issuing
    readAt,    \* the time it read for its checks
    attempts,  \* failed_attempts as it loaded it
    wrong,     \* history: wrong codes answered for a challenge
    orphans    \* history: challenges whose server died before it had mailed them

table   == <<rows, consumed, failed, created, expires>>
request == <<pc, chal, stale, readAt, attempts>>
history == <<wrong, orphans>>
vars == <<user, rows, consumed, failed, created, expires, tickets, now,
          pc, chal, stale, readAt, attempts, wrong, orphans>>

RegisterStages == {"reg_new", "reg_again", "reg_issue", "reg_reading", "reg_issuing",
                   "reg_sending"}
ResendStages   == {"res_issue", "res_reading", "res_issuing", "res_sending"}
VerifyStages   == {"ver_right", "ver_wrong"}
Stages == {"idle", "discarding"} \cup RegisterStages \cup ResendStages \cup VerifyStages

TypeOK ==
    /\ user \in {"none", "unverified", "verified"}
    /\ rows \subseteq Challenges
    /\ consumed \subseteq Challenges
    /\ failed \in [Challenges -> 0 .. MaxAttempts]
    /\ created \in [Challenges -> Nat]
    /\ expires \in [Challenges -> Nat]
    /\ tickets \subseteq Challenges
    /\ now \in Nat
    /\ pc \in [Requests -> Stages]
    /\ chal \in [Requests -> Challenges \cup {NoChallenge}]
    /\ stale \in [Requests -> SUBSET Challenges]
    /\ readAt \in [Requests -> Nat]
    /\ attempts \in [Requests -> 0 .. MaxAttempts]
    /\ wrong \in [Challenges -> Nat]
    /\ orphans \subseteq Challenges

Init ==
    /\ user = "none"
    /\ rows = {} /\ consumed = {} /\ tickets = {}
    /\ failed = [c \in Challenges |-> 0]
    /\ created = [c \in Challenges |-> 0]
    /\ expires = [c \in Challenges |-> 0]
    /\ now = 0
    /\ pc = [r \in Requests |-> "idle"]
    /\ chal = [r \in Requests |-> NoChallenge]
    /\ stale = [r \in Requests |-> {}]
    /\ readAt = [r \in Requests |-> 0]
    /\ attempts = [r \in Requests |-> 0]
    /\ wrong = [c \in Challenges |-> 0]
    /\ orphans = {}

----------------------------------------------------------------------------
Active(c) == c \in rows \ consumed

Unused(c) ==
    /\ c \notin rows \cup tickets
    /\ \A r \in Requests : chal[r] # c /\ c \notin stale[r]

(* r has committed a challenge it has not mailed, or has to discard *)
Delivering(r) == pc[r] \in {"reg_sending", "res_sending", "discarding"}

Goto(r, stage) == pc' = [pc EXCEPT ![r] = stage]

Advance(r, stage) == Goto(r, stage) /\ UNCHANGED <<chal, stale, readAt, attempts>>

Begin(r, stage) == pc[r] = "idle" /\ Advance(r, stage)

(* the response is sent or the exception reaches it; the session closes *)
End(r) ==
    /\ Goto(r, "idle")
    /\ chal' = [chal EXCEPT ![r] = NoChallenge]
    /\ stale' = [stale EXCEPT ![r] = {}]
    /\ readAt' = [readAt EXCEPT ![r] = 0]
    /\ attempts' = [attempts EXCEPT ![r] = 0]

----------------------------------------------------------------------------
(* POST /auth/register and POST /auth/resend-verification *)

(* create_user looks the address up; a verified account answers 409 *)
LookUpForRegister(r) ==
    /\ user # "verified"
    /\ Begin(r, IF user = "none" THEN "reg_new" ELSE "reg_again")
    /\ UNCHANGED <<user, table, tickets, now, history>>

(* INSERT, which a concurrent registration may have made a duplicate, or   *)
(* UPDATE of the account that was unverified when it was looked up         *)
CreateUser(r) ==
    /\ \/ /\ pc[r] = "reg_new" /\ user # "none"
          /\ End(r)
          /\ UNCHANGED user
       \/ /\ pc[r] = "reg_new" /\ user = "none"
          /\ user' = "unverified"
          /\ Advance(r, "reg_issue")
       \/ /\ pc[r] = "reg_again"
          /\ Advance(r, "reg_issue")
          /\ UNCHANGED user
    /\ UNCHANGED <<table, tickets, now, history>>

(* an unknown or verified address gets the generic answer *)
LookUpForResend(r) ==
    /\ user = "unverified"
    /\ Begin(r, "res_issue")
    /\ UNCHANGED <<user, table, tickets, now, history>>

(* _latest_code and the cooldown *)
TooSoon == \E c \in rows : /\ \A d \in rows : created[d] <= created[c]
                           /\ now < created[c] + Cooldown

(* issue_verification_code: the cooldown check, which only a resend makes *)
CheckCooldown(r) ==
    /\ \/ /\ pc[r] = "res_issue" /\ TooSoon
          /\ End(r)
       \/ /\ \/ pc[r] = "reg_issue" /\ Goto(r, "reg_reading")
             \/ pc[r] = "res_issue" /\ ~TooSoon /\ Goto(r, "res_reading")
          /\ readAt' = [readAt EXCEPT ![r] = now]
          /\ UNCHANGED <<chal, stale, attempts>>
    /\ UNCHANGED <<user, table, tickets, now, history>>

(* the SELECT of the active codes *)
ReadActiveCodes(r) ==
    /\ \/ pc[r] = "reg_reading" /\ Goto(r, "reg_issuing")
       \/ pc[r] = "res_reading" /\ Goto(r, "res_issuing")
    /\ stale' = [stale EXCEPT ![r] = rows \ consumed]
    /\ UNCHANGED <<user, table, tickets, now, history, chal, readAt, attempts>>

Insert(r, c) ==
    /\ rows' = rows \cup {c}
    /\ failed' = [failed EXCEPT ![c] = 0]
    /\ created' = [created EXCEPT ![c] = now]
    /\ expires' = [expires EXCEPT ![c] = readAt[r] + TTL]
    /\ wrong' = [wrong EXCEPT ![c] = 0]
    /\ Goto(r, IF pc[r] = "reg_issuing" THEN "reg_sending" ELSE "res_sending")
    /\ chal' = [chal EXCEPT ![r] = c]
    /\ UNCHANGED <<user, tickets, now, orphans, stale, readAt, attempts>>

(* consume the codes that were read, insert the new one, commit *)
InsertCode(r) ==
    /\ pc[r] \in {"reg_issuing", "res_issuing"}
    /\ stale[r] \subseteq rows
    /\ \E c \in Challenges :
        /\ Unused(c)
        /\ Insert(r, c)
        /\ consumed' = (consumed \cup stale[r]) \ {c}

(* one of the codes that were read has been discarded meanwhile: its       *)
(* UPDATE matches no row and StaleDataError answers 500                    *)
InsertFails(r) ==
    /\ pc[r] \in {"reg_issuing", "res_issuing"}
    /\ ~(stale[r] \subseteq rows)
    /\ End(r)
    /\ UNCHANGED <<user, table, tickets, now, history>>

(* the mail is accepted: the ticket is answered *)
SendCode(r) ==
    /\ pc[r] \in {"reg_sending", "res_sending"}
    /\ tickets' = tickets \cup {chal[r]}
    /\ End(r)
    /\ UNCHANGED <<user, table, now, history>>

SendFails(r) ==
    /\ pc[r] \in {"reg_sending", "res_sending"}
    /\ Advance(r, "discarding")
    /\ UNCHANGED <<user, table, tickets, now, history>>

(* fault: a code that was not delivered is kept *)
KeepUndelivered(r) ==
    pc[r] = "discarding" /\ End(r) /\ UNCHANGED <<user, table, tickets, now, history>>

(* discard_verification_code *)
DiscardCode(r) ==
    /\ pc[r] = "discarding"
    /\ rows' = rows \ {chal[r]}
    /\ consumed' = consumed \ {chal[r]}
    /\ End(r)
    /\ UNCHANGED <<user, failed, created, expires, tickets, now, history>>

----------------------------------------------------------------------------
(* POST /auth/verify-email *)

(* fault: an expired or consumed challenge is accepted, and the counter is *)
(* not compared with its limit                                             *)
CheckUnguarded(r, c, right) ==
    /\ pc[r] = "idle" /\ user = "unverified" /\ c \in tickets /\ c \in rows
    /\ Goto(r, IF right THEN "ver_right" ELSE "ver_wrong")
    /\ chal' = [chal EXCEPT ![r] = c]
    /\ attempts' = [attempts EXCEPT ![r] = failed[c]]
    /\ UNCHANGED <<user, table, tickets, now, history, stale, readAt>>

(* the user and the challenge are loaded and checked; all refusals leave   *)
(* the database as it is.  right says whether the digest matches.          *)
CheckCode(r, c, right) ==
    /\ pc[r] = "idle"
    /\ c \in tickets
    /\ user = "unverified"
    /\ Active(c) /\ now < expires[c] /\ failed[c] < MaxAttempts
    /\ Goto(r, IF right THEN "ver_right" ELSE "ver_wrong")
    /\ chal' = [chal EXCEPT ![r] = c]
    /\ attempts' = [attempts EXCEPT ![r] = failed[c]]
    /\ UNCHANGED <<user, table, tickets, now, history, stale, readAt>>

(* fault: reaching the limit does not consume the challenge *)
CountOnly(r) ==
    /\ pc[r] = "ver_wrong"
    /\ failed' = [failed EXCEPT ![chal[r]] = attempts[r] + 1]
    /\ wrong' = [wrong EXCEPT ![chal[r]] = @ + 1]
    /\ End(r)
    /\ UNCHANGED <<user, rows, consumed, created, expires, tickets, now, orphans>>

(* fault: a wrong code writes the whole row as it was loaded *)
CountAndReopen(r) ==
    /\ pc[r] = "ver_wrong"
    /\ failed' = [failed EXCEPT ![chal[r]] = attempts[r] + 1]
    /\ consumed' = IF attempts[r] + 1 >= MaxAttempts THEN consumed \cup {chal[r]}
                   ELSE consumed \ {chal[r]}
    /\ wrong' = [wrong EXCEPT ![chal[r]] = @ + 1]
    /\ End(r)
    /\ UNCHANGED <<user, rows, created, expires, tickets, now, orphans>>

(* failed_attempts is written as loaded plus one; the limit consumes *)
CountWrongCode(r) ==
    /\ pc[r] = "ver_wrong"
    /\ failed' = [failed EXCEPT ![chal[r]] = attempts[r] + 1]
    /\ consumed' = IF attempts[r] + 1 >= MaxAttempts
                   THEN consumed \cup {chal[r]} ELSE consumed
    /\ wrong' = [wrong EXCEPT ![chal[r]] = @ + 1]
    /\ End(r)
    /\ UNCHANGED <<user, rows, created, expires, tickets, now, orphans>>

AcceptCode(r) ==
    /\ pc[r] = "ver_right"
    /\ consumed' = consumed \cup {chal[r]}
    /\ user' = "verified"
    /\ End(r)
    /\ UNCHANGED <<rows, failed, created, expires, tickets, now, history>>

----------------------------------------------------------------------------
(* POST /auth/google: get_or_create_google_user links or creates; a race   *)
(* it loses to another INSERT of the address changes nothing               *)
GoogleLogin ==
    /\ user # "verified"
    /\ user' = "verified"
    /\ UNCHANGED <<table, tickets, now, request, history>>

(* the process that serves r dies; what it committed stays *)
Crash(r) ==
    /\ pc[r] # "idle"
    /\ orphans' = IF Delivering(r) THEN orphans \cup {chal[r]} ELSE orphans
    /\ End(r)
    /\ UNCHANGED <<user, table, tickets, now, wrong>>

Tick ==
    /\ now < MaxTime
    /\ now' = now + 1
    /\ UNCHANGED <<user, table, tickets, request, history>>

IssueStep(r) ==
    \/ LookUpForRegister(r) \/ CreateUser(r) \/ LookUpForResend(r)
    \/ CheckCooldown(r) \/ ReadActiveCodes(r) \/ InsertCode(r) \/ InsertFails(r)
    \/ SendCode(r) \/ SendFails(r) \/ DiscardCode(r)

VerifyStep(r) ==
    \/ \E c \in Challenges, right \in BOOLEAN : CheckCode(r, c, right)
    \/ CountWrongCode(r) \/ AcceptCode(r)

Next ==
    \/ \E r \in Requests : IssueStep(r) \/ VerifyStep(r) \/ Crash(r)
    \/ GoogleLogin
    \/ Tick

Spec == Init /\ [][Next]_vars

----------------------------------------------------------------------------
(* Properties *)

(* README: "issuing a new code consumes any older active code for the same *)
(* user".  Once delivered, two codes are never valid together.             *)
OneActiveCode ==
    \A c, d \in tickets :
        Active(c) /\ Active(d) /\ now < expires[c] /\ now < expires[d] => c = d

(* README: codes "allow at most five failed attempts".                     *)
AttemptsAreLimited == \A c \in Challenges : wrong[c] <= MaxAttempts

(* A challenge whose counter reached the limit is consumed, also when      *)
(* wrong codes checked together write the counter over each other.         *)
LimitConsumes ==
    \A c \in rows : failed[c] >= MaxAttempts => c \in consumed

(* A consumed challenge never becomes valid again, whatever stale value a  *)
(* concurrent check writes.                                                *)
SpentStaysSpent ==
    [][\A c \in rows : c \in consumed /\ c \in rows' => c \in consumed']_vars

(* A ticket the browser holds names a stored challenge: only codes that    *)
(* were not delivered are discarded, and nobody discards another's.        *)
TicketHasChallenge == tickets \subseteq rows

(* At rest every stored code was delivered, or its server died on the way: *)
(* a failed delivery leaves no code behind and takes no other one along,   *)
(* whoever else issues codes meanwhile.                                    *)
UndeliveredIsDiscarded ==
    (\A r \in Requests : pc[r] = "idle") => rows \ orphans \subseteq tickets
=============================================================================
