------------------------------ MODULE Throttle ------------------------------
(***************************************************************************)
(* The counter of failed logins (src/apps/accounts/throttling.py).  It is  *)
(* kept in the cache under the number as it was typed and the address, and *)
(* vanishes LOCKOUT_SECONDS after it was last written.  Counting reads it  *)
(* and writes it back.                                                     *)
(***************************************************************************)
EXTENDS Integers, FiniteSets

CONSTANTS
    Session,        \* browsers at one address; each sends one request at a time
    Key,            \* what can be typed in the field of the number
    MAX_ATTEMPTS

ASSUME SessionsAreFinite == IsFiniteSet(Session)
ASSUME MaxAttemptsIsNat == MAX_ATTEMPTS \in Nat \ {0}

VARIABLES
    attempts,       \* attempts[k]: the counter in the cache, 0 if it is not there
    login,          \* login[s]: where a failing login of session s is
    wrong           \* wrong[k]: wrong passwords under k since the counter began

throttleVars == <<attempts, login, wrong>>

NoLogin == [at |-> "idle"]

Logins ==
    {NoLogin} \cup [at : {"failed"}, key : Key]
              \cup [at : {"counting"}, key : Key, attempts : Nat]

ThrottleTypeOK ==
    /\ attempts \in [Key -> Nat]
    /\ login \in [Session -> Logins]
    /\ wrong \in [Key -> Nat]

ThrottleInit ==
    /\ attempts = [k \in Key |-> 0]
    /\ login = [s \in Session |-> NoLogin]
    /\ wrong = [k \in Key |-> 0]

LocksOneLate(k) == attempts[k] > MAX_ATTEMPTS       \* faulty: off by one
is_locked_out(k) == attempts[k] >= MAX_ATTEMPTS

(* A password is checked and found wrong.                                  *)
Fail(s, k) ==
    /\ login[s] = NoLogin
    /\ ~is_locked_out(k)
    /\ login' = [login EXCEPT ![s] = [at |-> "failed", key |-> k]]
    /\ wrong' = [wrong EXCEPT ![k] = @ + 1]
    /\ UNCHANGED attempts

ReadAttempts(s) ==
    /\ login[s].at = "failed"
    /\ login' = [login EXCEPT ![s] =
                    [at |-> "counting", key |-> @.key, attempts |-> attempts[@.key]]]
    /\ UNCHANGED <<attempts, wrong>>

WriteAttempts(s) ==
    /\ login[s].at = "counting"
    /\ attempts' = [attempts EXCEPT ![login[s].key] = login[s].attempts + 1]
    /\ login' = [login EXCEPT ![s] = NoLogin]
    /\ UNCHANGED wrong

register_failed_attempt(s) == ReadAttempts(s) \/ WriteAttempts(s)

clear_attempts(k) ==
    /\ attempts' = [attempts EXCEPT ![k] = 0]
    /\ wrong' = [wrong EXCEPT ![k] = 0]

(* After LOCKOUT_SECONDS without a failure the counters are gone.          *)
Expire ==
    /\ attempts' = [k \in Key |-> 0]
    /\ wrong' = [k \in Key |-> 0]
    /\ UNCHANGED login
=============================================================================
