------------------------------ MODULE Accounts ------------------------------
(***************************************************************************)
(* Registration, password reset, login and the verification of numbers and *)
(* identities (src/apps/accounts/views.py), for a few browser sessions     *)
(* whose requests overlap.  A flow takes several requests and keeps what   *)
(* it has found out in the session.  A one-time code is abstracted to what *)
(* CodeService is: it reaches the phone of its number and is spent by the  *)
(* request that accepts it; a wrong code changes nothing.                  *)
(***************************************************************************)
EXTENDS Throttle, Forms

CONSTANTS
    Number,         \* mobile numbers, as the forms clean them
    NationalCode,   \* national codes, as the form cleans them
    OtpCodes,       \* what _generate_code may draw
    OwnerOf,        \* OwnerOf[n]: the national code of the owner of number n
    Reads,          \* Reads[s]: the numbers whose messages session s reads
    None,           \* no row, no key in the session
    IDENTITY_REQUIRED_FOR_REGISTRATION,
    MaxTime,        \* bounds the clock
    GivenNumbers,   \* numbers that may have an account from the start
    MaxEffort,      \* bounds the codes, the wrong passwords and the edits together
    MaxEdits        \* bounds the administrator's edits

ASSUME NumbersAreClean ==
    \A n \in Number : clean_mobile(n) = n /\ validate_iranian_mobile(n)
ASSUME KeysAreNumbers == Number \cap Key # {} /\ \A k \in Key : clean_mobile(k) \in Number
ASSUME NationalCodesAreValid ==
    \A code \in NationalCode :
        /\ code \in [1..10 -> Digit]
        /\ clean_national_code(code) = code /\ validate_national_code(code)
(* The control digit 1 stands for two remainders: with it a slip in a code *)
(* may pass, and so may exchanging a 1 and a control digit 3.              *)
ASSUME ControlDigitsAreClear ==
    \A code \in NationalCode :
        control_digit(code) # 1 /\ <<code[9], code[10]>> # <<1, 3>>
ASSUME CodesHaveSixDigits == OtpCodes \subseteq [1..6 -> Digit]
ASSUME OwnersOfNumbers == OwnerOf \in [Number -> NationalCode]
ASSUME GivenNumbersAreNumbers == GivenNumbers \subseteq Number
ASSUME ReadersOfNumbers == Reads \in [Session -> SUBSET Number]
ASSUME BoundsAreNat == {MaxTime, MaxEffort, MaxEdits} \subseteq Nat

VARIABLES
    now,            \* the clock; a tick is VERIFIED_STATE_SECONDS, and LOCKOUT_SECONDS
    users,          \* users[n]: the User row of number n, or None
    sent,           \* the codes on their way or on a phone: <<purpose, number, code>>
    session,        \* session[s]: the data of session s
    saving,         \* saving[s]: what register_complete saves next, the number and its
                    \* identity: what the request has read of its session
    matches,        \* the MATCHED rows of IdentityVerification: <<number, code>>
    mistyped,       \* mistyped national codes the service was asked about
    accepted,       \* accepted[n]: when a code of number n was last accepted
    registered,     \* the numbers whose account a visitor registered
    crashed,        \* a worker was killed; once at most
    effort,         \* what codes, wrong passwords and edits have cost
    edits           \* edits by the administrator so far

history == <<accepted, registered, crashed>>
inquiries == <<matches, mistyped>>
flowVars == <<users, sent, session, saving, inquiries, history>>
vars == <<now, flowVars, effort, edits, throttleVars>>

Purpose == {"register", "password_reset"}

(* is_identity_verified is set together with the national code.            *)
UserRows ==
    [is_active: BOOLEAN, is_mobile_verified: BOOLEAN,
     national_code: NationalCode \cup {None}, password: Session]

Answer == {"matched", "not_matched", "failed"}

IdentityRows == Number \X NationalCode      \* those that are MATCHED

Verified == [mobile: Number, at: 0..MaxTime]

Saves == [mobile: Number, national_code: NationalCode]

Sessions ==
    [pending: [Purpose -> Number \cup {None}], verified: [Purpose -> Verified \cup {None}],
     identity: NationalCode \cup {None}, user: Number \cup {None}]

ASSUME NoneIsNothing ==
    None \notin Number \cup NationalCode \cup UserRows \cup Verified \cup Saves \cup 0..MaxTime

NewSession ==
    [pending |-> [p \in Purpose |-> None], verified |-> [p \in Purpose |-> None],
     identity |-> None, user |-> None]

TypeOK ==
    /\ ThrottleTypeOK
    /\ now \in 0..MaxTime
    /\ users \in [Number -> UserRows \cup {None}]
    /\ sent \subseteq (Purpose \cup {"verify_mobile"}) \X Number \X OtpCodes
    /\ session \in [Session -> Sessions]
    /\ saving \in [Session -> Saves \cup {None}]
    /\ matches \subseteq IdentityRows
    /\ mistyped \subseteq [1..10 -> Digit]
    /\ accepted \in [Number -> 0..MaxTime \cup {None}]
    /\ registered \subseteq Number
    /\ crashed \in BOOLEAN
    /\ effort \in 0..MaxEffort
    /\ edits \in 0..MaxEdits

(* Some accounts have been made by an administrator, who does not verify   *)
(* the number and hands the password to one who reads its messages.        *)
GivenAccount(n) ==
    {[is_active |-> TRUE, is_mobile_verified |-> FALSE, national_code |-> None,
      password |-> s] : s \in {s \in Session : n \in GivenNumbers \cap Reads[s]}}

Init ==
    /\ ThrottleInit
    /\ now = 0
    /\ users \in {u \in [Number -> UserRows \cup {None}] :
                    \A n \in Number : u[n] \in GivenAccount(n) \cup {None}}
    /\ sent = {}
    /\ session = [s \in Session |-> NewSession]
    /\ saving = [s \in Session |-> None]
    /\ matches = {}
    /\ mistyped = {}
    /\ accepted = [n \in Number |-> None]
    /\ registered = {}
    /\ crashed = FALSE
    /\ effort = 0
    /\ edits = 0

-----------------------------------------------------------------------------
(* A session sends its next request when the last one is answered.         *)
IsIdle(s) == login[s] = NoLogin /\ saving[s] = None

(* Django takes an inactive user for nobody.                               *)
request_user(s) ==
    LET n == session[s].user IN
    IF n # None /\ users[n] # None /\ users[n].is_active THEN n ELSE None

IsActiveUser(n) == users[n] # None /\ users[n].is_active

VerifiedEver(s, p) ==           \* faulty: whenever that was
    IF session[s].verified[p] = None THEN None ELSE session[s].verified[p].mobile

VerifiedOrPending(s, p) ==      \* faulty: the number that was typed will do
    IF session[s].verified[p] = None THEN session[s].pending[p]
    ELSE session[s].verified[p].mobile

get_verified_mobile(s, p) ==
    IF session[s].verified[p] = None \/ now - session[s].verified[p].at > 1
    THEN None ELSE session[s].verified[p].mobile

(* What a code, a wrong password and an edit take from the budget.         *)
SMS == 5
GUESS == 2
EDIT == 2
Spend(cost) == effort + cost <= MaxEffort /\ effort' = effort + cost

CodesFor(p, n) == {code \in OtpCodes : <<p, n, code>> \in sent}

(* A new code takes the place of the one before.                           *)
send_otp(n, p) ==
    \E code \in OtpCodes :
        sent' = (sent \ {<<p, n, c>> : c \in OtpCodes}) \cup {<<p, n, code>>}

(* The form hands on what it has read, which is compared with the code.    *)
AsRead == [code \in OtpCodes |-> clean_code(code)]

(* The code is on a phone whose owner types it into session s.             *)
verify_otp(s, n, p) ==
    /\ n \in Reads[s]
    /\ \E code \in CodesFor(p, n) :
          /\ AsRead[code] = code
          /\ sent' = sent \ {<<p, n, code>>}
    /\ accepted' = [accepted EXCEPT ![n] = now]

set_pending_mobile(s, n, p) == session' = [session EXCEPT ![s].pending[p] = n]

MarkWithoutTime(s, n, p) ==     \* faulty: the number alone, as pending has it
    session' = [session EXCEPT ![s].verified[p] = [mobile |-> n, at |-> None],
                               ![s].pending[p] = None]

mark_verified(s, n, p) ==
    session' = [session EXCEPT ![s].verified[p] = [mobile |-> n, at |-> now],
                               ![s].pending[p] = None]

clear_flow(data, p) == [data EXCEPT !.pending[p] = None, !.verified[p] = None]

(* A password that is set ends the sessions that were opened with the old  *)
(* one: Django flushes them.                                               *)
FlushedFor(n) ==
    [s \in Session |-> IF session[s].user = n THEN NewSession ELSE session[s]]

(* auth_login keeps the session's data, but for a session of somebody else. *)
auth_login(data, n) ==
    [(IF data.user \in {None, n} THEN data ELSE NewSession) EXCEPT !.user = n]
-----------------------------------------------------------------------------
(* Registration.                                                           *)

IsNewNumber(n) == users[n] = None

(* A message that is not sent, or a limit of Otp's, leaves the form where  *)
(* it is: no step here.                                                    *)
register(s, n) ==
    /\ IsIdle(s) /\ request_user(s) = None
    /\ IsNewNumber(n)
    /\ Spend(SMS)
    /\ send_otp(n, "register")
    /\ set_pending_mobile(s, n, "register")
    /\ UNCHANGED <<now, users, saving, inquiries, history, edits, throttleVars>>

Resend(s) ==
    /\ IsIdle(s)
    /\ \E p \in Purpose :
          LET n == session[s].pending[p] IN
          /\ n # None
          /\ IF p = "register" THEN request_user(s) = None ELSE IsActiveUser(n)
          /\ CodesFor(p, n) = {}
          /\ send_otp(n, p)
    /\ Spend(SMS)
    /\ UNCHANGED <<now, users, session, saving, inquiries, history, edits, throttleVars>>

register_verify(s) ==
    /\ IsIdle(s) /\ request_user(s) = None
    /\ LET n == session[s].pending["register"] IN
       /\ n # None
       /\ verify_otp(s, n, "register")
       /\ mark_verified(s, n, "register")
    /\ UNCHANGED <<now, users, saving, inquiries, registered, crashed, effort, edits,
                   throttleVars>>

(* The service says whether the code is that of the number's owner, or     *)
(* fails: no connection, a timeout, an error, an answer nobody can read.   *)
Answers(n, code) ==
    {"failed", IF OwnerOf[n] = code THEN "matched" ELSE "not_matched"}

(* The answer is recorded before it is used.                               *)
verify_identity(n, code, answer) ==
    /\ answer \in Answers(n, code)
    /\ matches' = IF answer = "matched" THEN matches \cup {<<n, code>>} ELSE matches
    /\ mistyped' = IF code \in NationalCode THEN mistyped ELSE mistyped \cup {code}

(* What the identity form lets through of somebody who means a code and    *)
(* may slip in one place.                                                  *)
IdentityForm ==
    [code \in NationalCode |->
        {text \in Mistyped(code) \cup {code} : validate_national_code(clean_national_code(text))}]

Answered(answer) == answer # "failed"      \* faulty: an answer will do
Confirms(answer) == answer = "matched"

register_identity(s, code) ==
    /\ IsIdle(s) /\ request_user(s) = None
    /\ LET n == get_verified_mobile(s, "register") IN
       /\ n # None
       /\ \E text \in IdentityForm[code], answer \in Answer :
             /\ verify_identity(n, text, answer)
             /\ session' = IF Confirms(answer)
                           THEN [session EXCEPT ![s].identity = text] ELSE session
    /\ UNCHANGED <<now, users, sent, saving, history, effort, edits, throttleVars>>

AnyIdentity(s) == TRUE          \* faulty: the step can be skipped
HasIdentity(s) ==
    IDENTITY_REQUIRED_FOR_REGISTRATION => session[s].identity # None

(* The form's create_user: the number is known to be verified.             *)
CompletedRow(s) ==
    [is_active |-> TRUE, is_mobile_verified |-> TRUE, national_code |-> None, password |-> s]

(* The manager cleans a row before it saves it, and the number is unique.  *)
IsUniqueNumber(n) == users[n] = None

LoggedInAfterRegistration(s, n, row) ==
    LET data == [clear_flow(session[s], "register") EXCEPT !.identity = None] IN
    IF row.password = s THEN auth_login(data, n) ELSE NewSession

(* The account is made by one query and bears the identity after a second. *)
(* The number may have been taken since the code was sent: then neither    *)
(* the account nor the session changes, and the visitor sees an error.     *)
register_complete(s) ==
    /\ IsIdle(s) /\ request_user(s) = None
    /\ HasIdentity(s)
    /\ LET n == get_verified_mobile(s, "register")
           row == CompletedRow(s)
       IN
       /\ n # None
       /\ IsUniqueNumber(n)
       /\ users' = [users EXCEPT ![n] = row]
       /\ registered' = registered \cup {n}
       /\ IF session[s].identity = None
          THEN /\ session' = [session EXCEPT ![s] = LoggedInAfterRegistration(s, n, row)]
               /\ UNCHANGED saving
          ELSE /\ saving' = [saving EXCEPT ![s] =
                                [mobile |-> n, national_code |-> session[s].identity]]
               /\ UNCHANGED session
    /\ UNCHANGED <<now, sent, inquiries, accepted, crashed, effort, edits, throttleVars>>

IsFreeCode(code) == \A n \in Number : users[n] # None => users[n].national_code # code

NationalCodeIsUnique(code) == IsFreeCode(code)

(* The national code is unique: if another account has it the query fails, *)
(* and the account stays, without an identity and not logged in.           *)
SaveIdentity(s) ==
    LET n == saving[s].mobile
        code == saving[s].national_code
    IN
    /\ saving[s] # None
    /\ saving' = [saving EXCEPT ![s] = None]
    /\ IF NationalCodeIsUnique(code)
       THEN /\ users' = [users EXCEPT ![n].national_code = code]
            /\ session' = [session EXCEPT ![s] = LoggedInAfterRegistration(s, n, users[n])]
       ELSE UNCHANGED <<users, session>>
    /\ UNCHANGED <<now, sent, inquiries, history, effort, edits, throttleVars>>

(* The worker is killed between the two queries.                           *)
Crash(s) ==
    /\ saving[s] # None
    /\ ~crashed
    /\ crashed' = TRUE
    /\ saving' = [saving EXCEPT ![s] = None]
    /\ UNCHANGED <<now, users, sent, session, inquiries, accepted, registered, effort,
                   edits, throttleVars>>

-----------------------------------------------------------------------------
(* Password reset.  The flow goes on for a number without an account, to   *)
(* which nothing is sent.                                                  *)

password_reset(s, n) ==
    /\ IsIdle(s)
    /\ Spend(SMS)
    /\ IF IsActiveUser(n) THEN send_otp(n, "password_reset") ELSE UNCHANGED sent
    /\ set_pending_mobile(s, n, "password_reset")
    /\ UNCHANGED <<now, users, saving, inquiries, history, edits, throttleVars>>

password_reset_verify(s) ==
    /\ IsIdle(s)
    /\ LET n == session[s].pending["password_reset"] IN
       /\ n # None
       /\ verify_otp(s, n, "password_reset")
       /\ mark_verified(s, n, "password_reset")
    /\ UNCHANGED <<now, users, saving, inquiries, registered, crashed, effort, edits,
                   throttleVars>>

password_reset_new(s) ==
    /\ IsIdle(s)
    /\ LET n == get_verified_mobile(s, "password_reset")
           done == clear_flow(session[s], "password_reset")
       IN
       /\ n # None
       /\ IF IsActiveUser(n)
          THEN /\ users' = [users EXCEPT ![n].password = s]
               /\ session' = [FlushedFor(n) EXCEPT ![s] =
                                 IF session[s].user = n THEN NewSession ELSE done]
          ELSE /\ session' = [session EXCEPT ![s] = done]
               /\ UNCHANGED users
    /\ UNCHANGED <<now, sent, saving, inquiries, history, effort, edits, throttleVars>>

-----------------------------------------------------------------------------
(* The logged in user's number and identity.                               *)

SendMobileCode(s) ==
    LET n == request_user(s) IN
    /\ IsIdle(s) /\ n # None
    /\ ~users[n].is_mobile_verified
    /\ Spend(SMS)
    /\ send_otp(n, "verify_mobile")
    /\ UNCHANGED <<now, users, session, saving, inquiries, history, edits, throttleVars>>

verify_mobile(s) ==
    LET n == request_user(s) IN
    /\ IsIdle(s) /\ n # None
    /\ ~users[n].is_mobile_verified
    /\ verify_otp(s, n, "verify_mobile")
    /\ users' = [users EXCEPT ![n].is_mobile_verified = TRUE]
    /\ UNCHANGED <<now, session, saving, inquiries, registered, crashed, effort, edits,
                   throttleVars>>

(* A code another account has fails the save.                              *)
verify_identity_view(s, code) ==
    LET n == request_user(s) IN
    /\ IsIdle(s) /\ n # None
    /\ users[n].national_code = None
    /\ \E text \in IdentityForm[code], answer \in Answer :
          /\ verify_identity(n, text, answer)
          /\ users' = IF Confirms(answer) /\ NationalCodeIsUnique(text)
                      THEN [users EXCEPT ![n].national_code = text] ELSE users
    /\ UNCHANGED <<now, sent, session, saving, history, effort, edits, throttleVars>>

KnowsPassword(s, n) == users[n].password = s

(* The old password is asked for; this session stays, the others end.      *)
change_password(s) ==
    LET n == request_user(s) IN
    /\ IsIdle(s) /\ n # None
    /\ KnowsPassword(s, n)
    /\ session' = [FlushedFor(n) EXCEPT ![s] = session[s]]
    /\ UNCHANGED <<now, users, sent, saving, inquiries, history, effort, edits, throttleVars>>

-----------------------------------------------------------------------------
(* Login and logout.                                                       *)

NumberOf == [k \in Key |-> clean_mobile(k)]

(* The number is cleaned before the password is checked.                   *)
Authenticates(s, n) == IsActiveUser(n) /\ KnowsPassword(s, n)

(* The lock is asked with the number as typed, and lifted from the number  *)
(* as stored.                                                              *)
LogIn(s, k) ==
    LET n == NumberOf[k] IN
    /\ IsIdle(s) /\ request_user(s) = None
    /\ ~is_locked_out(k)
    /\ Authenticates(s, n)
    /\ session' = [session EXCEPT ![s] = auth_login(@, n)]
    /\ IF n \in Key THEN clear_attempts(n) ELSE UNCHANGED <<attempts, wrong>>
    /\ UNCHANGED <<now, users, sent, saving, inquiries, history, effort, edits, login>>

(* A wrong password, an unknown number and an inactive account alike.      *)
FailToLogIn(s, k) ==
    /\ IsIdle(s) /\ request_user(s) = None
    /\ Spend(GUESS)
    /\ Fail(s, k)
    /\ UNCHANGED <<now, flowVars, edits>>

CountFailure(s) ==
    /\ register_failed_attempt(s)
    /\ UNCHANGED <<now, flowVars, effort, edits>>

logout(s) ==
    /\ IsIdle(s)
    /\ session[s] # NewSession
    /\ session' = [session EXCEPT ![s] = NewSession]
    /\ UNCHANGED <<now, users, sent, saving, inquiries, history, effort, edits, throttleVars>>

-----------------------------------------------------------------------------
(* The administrator closes and opens an account and vouches for a number. *)

Edit == edits < MaxEdits /\ edits' = edits + 1 /\ Spend(EDIT)

SetActive(n) ==
    /\ users[n] # None
    /\ Edit
    /\ users' = [users EXCEPT ![n].is_active = ~@]
    /\ UNCHANGED <<now, sent, session, saving, inquiries, history, throttleVars>>

mark_mobile_verified(n) ==
    /\ users[n] # None /\ ~users[n].is_mobile_verified
    /\ Edit
    /\ users' = [users EXCEPT ![n].is_mobile_verified = TRUE]
    /\ UNCHANGED <<now, sent, session, saving, inquiries, history, throttleVars>>

(* manage.py make_admin, for someone whose number it is.                   *)
make_admin(n, s) ==
    /\ n \in Reads[s]
    /\ Edit
    /\ users' = [users EXCEPT ![n] =
                    IF @ = None THEN CompletedRow(s)
                    ELSE [@ EXCEPT !.password = s, !.is_active = TRUE,
                                   !.is_mobile_verified = TRUE]]
    /\ session' = FlushedFor(n)
    /\ UNCHANGED <<now, sent, saving, inquiries, history, throttleVars>>

Administer(n) ==
    SetActive(n) \/ mark_mobile_verified(n) \/ \E s \in Session : make_admin(n, s)

(* A code lives two minutes, less than a tick.                             *)
Tick ==
    /\ now < MaxTime
    /\ now' = now + 1
    /\ sent' = {}
    /\ Expire
    /\ UNCHANGED <<users, session, saving, inquiries, history, effort, edits>>

Register(s) ==
    \/ \E n \in Number : register(s, n)
    \/ register_verify(s)
    \/ \E code \in NationalCode : register_identity(s, code)
    \/ register_complete(s)
    \/ SaveIdentity(s)
    \/ Crash(s)

ResetPassword(s) ==
    \/ \E n \in Number : password_reset(s, n)
    \/ password_reset_verify(s)
    \/ password_reset_new(s)

VerifyUser(s) ==
    \/ SendMobileCode(s) \/ verify_mobile(s) \/ change_password(s)
    \/ \E code \in NationalCode : verify_identity_view(s, code)

Enter(s) ==
    \/ \E k \in Key : LogIn(s, k) \/ FailToLogIn(s, k)
    \/ CountFailure(s)
    \/ logout(s)

Next ==
    \/ \E s \in Session :
          Register(s) \/ Resend(s) \/ ResetPassword(s) \/ VerifyUser(s) \/ Enter(s)
    \/ \E n \in Number : Administer(n)
    \/ Tick

Spec == Init /\ [][Next]_vars

-----------------------------------------------------------------------------
(* Properties.                                                             *)

(* Whatever the steps of the flows, in whatever order and session: who     *)
(* knows the password of an account and who is logged in to it reads the   *)
(* messages of its number (register_complete, password_reset_new, login).  *)
OwnersOnly ==
    /\ \A n \in Number : users[n] # None => n \in Reads[users[n].password]
    /\ \A s \in Session : session[s].user # None => session[s].user \in Reads[s]

(* A visitor makes an account, and sets a password, at most                *)
(* VERIFIED_STATE_SECONDS after a code of that very number was accepted    *)
(* (get_verified_mobile).                                                  *)
FreshProof ==
    [][edits' = edits => \A n \in Number :
          \/ users[n] = None /\ users'[n] # None
          \/ users[n] # None /\ users'[n].password # users[n].password
          => accepted[n] # None /\ now - accepted[n] <= 1]_vars

(* An identity belongs to one account, and the service has matched it with *)
(* the account's number or with another whose messages the same person     *)
(* reads: the session's identity outlives the number it was matched with   *)
(* (register_identity, verify_identity_view).                              *)
IdentityWasMatched ==
    \A n \in Number : users[n] # None /\ users[n].national_code # None =>
        /\ \E s \in Session, m \in Number :
              /\ {n, m} \subseteq Reads[s]
              /\ <<m, users[n].national_code>> \in matches
        /\ \A m \in Number \ {n} :
              users[m] # None => users[m].national_code # users[n].national_code

(* Whoever reads n reads a number of the same owner as one who reads m.     *)
SharesOwner(n, m) ==
    \E s, r \in Session :
        /\ n \in Reads[s] /\ m \in Reads[r]
        /\ \E a \in Reads[s], b \in Reads[r] : OwnerOf[a] = OwnerOf[b]

(* An account that was registered has an identity, unless the worker was   *)
(* killed half way or another account has taken an identity that was its   *)
(* visitor's as well: an identity is matched with the owner of a number    *)
(* (register_complete with IDENTITY_REQUIRED_FOR_REGISTRATION).            *)
IdentityOrTaken ==
    IDENTITY_REQUIRED_FOR_REGISTRATION =>
    \A n \in Number :
        /\ n \in registered /\ users[n].national_code = None
        /\ ~\E s \in Session : saving[s] # None /\ saving[s].mobile = n
        /\ ~crashed
        => \E m \in Number :
              SharesOwner(n, m) /\ users[m] # None /\ users[m].national_code # None

(* Two requests at a time can guess a password that often before the       *)
(* number is locked, one request at a time MAX_ATTEMPTS times: a slow one  *)
(* writes back a counter that others have raised (register_failed_attempt).*)
WrongPasswordsAreLimited ==
    Cardinality(Session) = 2 =>
        \A k \in Key : wrong[k] <= ((MAX_ATTEMPTS + 1) * (MAX_ATTEMPTS + 2)) \div 2 - 1

(* A national code with one wrong digit, or with two neighbouring digits   *)
(* exchanged, never reaches the paid service, whoever types it in which    *)
(* flow (validate_national_code in clean_national_code, verify_identity).  *)
TypoIsNoticed == mistyped = {}

(* The form converts the digits of a one-time code and nothing else, so    *)
(* that whoever types the code of the message is let through (clean_code). *)
CodesAreRead == \A p \in Purpose, n \in Number : \A code \in CodesFor(p, n) : AsRead[code] = code
=============================================================================
