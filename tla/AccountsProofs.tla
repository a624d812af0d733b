--------------------------- MODULE AccountsProofs ---------------------------
(***************************************************************************)
(* The safety of the accounts, for any sessions, numbers, national codes,  *)
(* readers and bounds: an inductive invariant of Spec and what follows.    *)
(***************************************************************************)
EXTENDS Website, FormsProofs

-----------------------------------------------------------------------------
(* The counter of failed logins when two requests count at a time, for     *)
(* every MAX_ATTEMPTS and every number: how many wrong passwords it lets   *)
(* through.                                                                *)

(* What Guesses(x) bounds: the wrong passwords that two requests can still *)
(* have checked when the counter is x.  From x one of them raises it to    *)
(* MAX_ATTEMPTS while the other, who has read x, writes x + 1 back.        *)
Guesses(x) ==
    IF x < MAX_ATTEMPTS THEN ((MAX_ATTEMPTS - x) * (MAX_ATTEMPTS - x + 3)) \div 2 ELSE 0

MaxGuesses == ((MAX_ATTEMPTS + 1) * (MAX_ATTEMPTS + 2)) \div 2 - 1

Room(c) == IF c < MAX_ATTEMPTS THEN MAX_ATTEMPTS - c ELSE 0

LEMMA GuessesStep ==
    ASSUME NEW x \in Nat
    PROVE  /\ Guesses(x) \in Nat
           /\ x < MAX_ATTEMPTS => Guesses(x) = Guesses(x + 1) + (MAX_ATTEMPTS - x) + 1
           /\ x >= MAX_ATTEMPTS => Guesses(x) = 0
<1>1. MAX_ATTEMPTS \in Nat \ {0}
    BY MaxAttemptsIsNat
<1>2. CASE x >= MAX_ATTEMPTS
    BY <1>1, <1>2 DEF Guesses
<1>3. CASE x < MAX_ATTEMPTS
    <2> DEFINE y == MAX_ATTEMPTS - x
               big == y * (y + 3)
               small == (y - 1) * (y + 2)
    <2>1. y \in Nat /\ y >= 1 /\ MAX_ATTEMPTS - (x + 1) = y - 1 /\ MAX_ATTEMPTS - x = y
        BY <1>1, <1>3
    <2>. HIDE DEF y
    <2>2. big \in Nat /\ small \in Nat /\ big = small + 2 * (y + 1)
        BY <2>1
    <2>3. Guesses(x) = big \div 2
        BY <1>3, <2>1 DEF Guesses
    <2>4. Guesses(x + 1) = small \div 2
        <3>1. CASE y = 1
            BY <1>1, <2>1, <3>1 DEF Guesses
        <3>2. CASE y > 1
            <4>1. x + 1 < MAX_ATTEMPTS /\ (y - 1) + 3 = y + 2
                BY <1>1, <2>1, <3>2
            <4>. QED
                BY <2>1, <4>1 DEF Guesses
        <3>. QED
            BY <2>1, <3>1, <3>2
    <2>. HIDE DEF big, small
    <2>5. big \div 2 = (small \div 2) + (y + 1) /\ big \div 2 \in Nat
        BY <2>1, <2>2
    <2>6. Guesses(x) \in Nat /\ Guesses(x) = Guesses(x + 1) + (y + 1)
        BY <2>3, <2>4, <2>5
    <2>7. Guesses(x) = Guesses(x + 1) + (MAX_ATTEMPTS - x) + 1
        <3>1. Guesses(x + 1) \in Int
            BY <2>2, <2>4
        <3>. QED
            BY <2>1, <2>6, <3>1
    <2>. QED
        BY <1>1, <1>3, <2>6, <2>7
<1>. QED
    BY <1>1, <1>2, <1>3

LEMMA GuessesFall ==
    ASSUME NEW x \in Nat, NEW z \in Nat, x <= z
    PROVE  Guesses(z) <= Guesses(x)
<1>1. MAX_ATTEMPTS \in Nat \ {0}
    BY MaxAttemptsIsNat
<1>2. CASE z >= MAX_ATTEMPTS
    BY <1>2, GuessesStep
<1>3. CASE z < MAX_ATTEMPTS
    <2> DEFINE y == MAX_ATTEMPTS - z
               d == z - x
               large == (y + d) * (y + d + 3)
               little == y * (y + 3)
    <2>1. y \in Nat /\ d \in Nat /\ MAX_ATTEMPTS - x = y + d /\ x < MAX_ATTEMPTS
        BY <1>1, <1>3
    <2>2. Guesses(x) = large \div 2 /\ Guesses(z) = little \div 2
        BY <1>3, <2>1 DEF Guesses
    <2>. HIDE DEF y, d
    <2>3. little \in Nat /\ large \in Nat /\ large = little + d * (2 * y + d + 3)
        BY <2>1
    <2>4. d * (2 * y + d + 3) \in Nat
        BY <2>1
    <2>. HIDE DEF large, little
    <2>5. little <= large
        BY <2>3, <2>4
    <2>. QED
        BY <2>2, <2>3, <2>5
<1>. QED
    BY <1>1, <1>2, <1>3

LEMMA GuessesOfNone == MaxGuesses = Guesses(0) /\ MaxGuesses \in Nat
<1>1. MAX_ATTEMPTS \in Nat \ {0}
    BY MaxAttemptsIsNat
<1> DEFINE large == (MAX_ATTEMPTS + 1) * (MAX_ATTEMPTS + 2)
           little == (MAX_ATTEMPTS - 0) * (MAX_ATTEMPTS - 0 + 3)
<1>2. large \in Nat /\ little \in Nat /\ large = little + 2
    BY <1>1
<1>3. Guesses(0) = little \div 2 /\ MaxGuesses = (large \div 2) - 1
    BY <1>1 DEF Guesses, MaxGuesses
<1>. HIDE DEF large, little
<1>4. (large \div 2) - 1 = little \div 2
    BY <1>2
<1>. QED
    BY <1>2, <1>3, <1>4

-----------------------------------------------------------------------------
(* The counter c, the wrong passwords w and what two requests x and y are  *)
(* doing about one number.                                                 *)
IsCounting(x) == x.at = "counting"
InFlight(x) == IF x = NoLogin THEN 0 ELSE 1

(* x writes back what it has read, after y has raised the counter.         *)
RollBack(c, w, x, y) ==
    IsCounting(x) /\ x.attempts <= c =>
        w + Room(c) + Guesses(x.attempts + 1) <= MaxGuesses + InFlight(y)

Limited(c, w, x, y) ==
    /\ w + Guesses(c) <= MaxGuesses + IF c < MAX_ATTEMPTS THEN InFlight(x) + InFlight(y) ELSE 0
    /\ RollBack(c, w, x, y)
    /\ RollBack(c, w, y, x)
    /\ x # NoLogin /\ y # NoLogin => c < MAX_ATTEMPTS
    /\ IsCounting(x) /\ IsCounting(y) => x.attempts = c \/ y.attempts = c \/ c = 0

LEMMA SlotKinds ==
    ASSUME NEW x \in Logins
    PROVE  /\ InFlight(x) \in 0..1
           /\ x # NoLogin <=> InFlight(x) = 1
           /\ IsCounting(x) => x.attempts \in Nat /\ x # NoLogin
BY DEF Logins, InFlight, IsCounting, NoLogin

LEMMA LimitedIsSymmetric ==
    ASSUME NEW c \in Nat, NEW w \in Nat, NEW x \in Logins, NEW y \in Logins, Limited(c, w, x, y)
    PROVE  Limited(c, w, y, x)
BY SlotKinds, MaxAttemptsIsNat DEF Limited

(* The limit is the one that WrongPasswordsAreLimited states.              *)
LEMMA LimitHolds ==
    ASSUME NEW c \in Nat, NEW w \in Nat, NEW x \in Logins, NEW y \in Logins, Limited(c, w, x, y)
    PROVE  w <= MaxGuesses
<1>1. Guesses(c) \in Nat /\ Guesses(c + 1) \in Nat
    BY GuessesStep
<1>. QED
    BY <1>1, SlotKinds, GuessesStep, GuessesOfNone, MaxAttemptsIsNat DEF Limited

LEMMA ClearLimits ==
    ASSUME NEW x \in Logins, NEW y \in Logins
    PROVE  Limited(0, 0, x, y)
<1>1. Guesses(0) = Guesses(1) + MAX_ATTEMPTS + 1 /\ Guesses(1) \in Nat
    BY GuessesStep, MaxAttemptsIsNat
<1>2. \A v \in Nat : v <= 0 => v + 1 = 1
    OBVIOUS
<1>3. RollBack(0, 0, x, y)
    BY <1>1, <1>2, SlotKinds, GuessesOfNone, MaxAttemptsIsNat DEF RollBack, Room
<1>4. RollBack(0, 0, y, x)
    BY <1>1, <1>2, SlotKinds, GuessesOfNone, MaxAttemptsIsNat DEF RollBack, Room
<1>. QED
    BY <1>1, <1>3, <1>4, SlotKinds, GuessesOfNone, MaxAttemptsIsNat DEF Limited

LEMMA FailLimits ==
    ASSUME NEW c \in Nat, NEW w \in Nat, NEW y \in Logins, Limited(c, w, NoLogin, y),
           c < MAX_ATTEMPTS, NEW x \in [at : {"failed"}, key : Key]
    PROVE  Limited(c, w + 1, x, y)
<1>1. NoLogin \in Logins /\ InFlight(NoLogin) = 0 /\ x \in Logins /\ InFlight(x) = 1 /\ ~IsCounting(x)
    BY DEF Logins, InFlight, IsCounting, NoLogin
<1>2. RollBack(c, w + 1, y, x)
    <2>1. SUFFICES ASSUME IsCounting(y), y.attempts <= c
                   PROVE  (w + 1) + Room(c) + Guesses(y.attempts + 1) <= MaxGuesses + 1
        BY <1>1 DEF RollBack
    <2>2. Guesses(y.attempts + 1) \in Nat /\ Room(c) \in Nat
        BY <2>1, SlotKinds, GuessesStep, MaxAttemptsIsNat DEF Room
    <2>3. w + Room(c) + Guesses(y.attempts + 1) <= MaxGuesses
        BY <1>1, <2>1, GuessesOfNone DEF Limited, RollBack
    <2>. QED
        BY <2>2, <2>3, GuessesOfNone
<1>3. Guesses(c) \in Nat /\ InFlight(y) \in 0..1
    BY GuessesStep, SlotKinds
<1>. QED
    BY <1>1, <1>2, <1>3, GuessesOfNone, MaxAttemptsIsNat DEF Limited, RollBack

LEMMA ReadLimits ==
    ASSUME NEW c \in Nat, NEW w \in Nat, NEW x \in [at : {"failed"}, key : Key],
           NEW y \in Logins, Limited(c, w, x, y),
           NEW r \in [at : {"counting"}, key : Key, attempts : {c}]
    PROVE  Limited(c, w, r, y)
<1>1. /\ x \in Logins /\ InFlight(x) = 1
      /\ r \in Logins /\ InFlight(r) = 1 /\ IsCounting(r) /\ r.attempts = c
    BY DEF Logins, InFlight, IsCounting, NoLogin
<1>2. InFlight(y) \in 0..1 /\ Guesses(c) \in Nat /\ Guesses(c + 1) \in Nat
    BY SlotKinds, GuessesStep
<1>3. RollBack(c, w, r, y)
    <2>1. CASE c < MAX_ATTEMPTS
        BY <1>1, <1>2, <2>1, GuessesStep, GuessesOfNone, MaxAttemptsIsNat
        DEF Limited, RollBack, Room
    <2>2. CASE c >= MAX_ATTEMPTS
        BY <1>1, <1>2, <2>2, GuessesStep, GuessesOfNone, MaxAttemptsIsNat
        DEF Limited, RollBack, Room
    <2>. QED
        BY <2>1, <2>2, MaxAttemptsIsNat
<1>4. RollBack(c, w, y, r)
    BY <1>1 DEF Limited, RollBack
<1>. QED
    BY <1>1, <1>2, <1>3, <1>4 DEF Limited, NoLogin

(* x writes back one more than it has read.                                *)
LEMMA WriteLimits ==
    ASSUME NEW c \in Nat, NEW w \in Nat, NEW x \in Logins, NEW y \in Logins,
           Limited(c, w, x, y), IsCounting(x)
    PROVE  Limited(x.attempts + 1, w, NoLogin, y)
<1> DEFINE v == x.attempts
           M == MAX_ATTEMPTS
<1>1. v \in Nat /\ M \in Nat /\ M >= 1 /\ InFlight(x) = 1 /\ InFlight(y) \in 0..1
    BY SlotKinds, MaxAttemptsIsNat
<1>2. InFlight(NoLogin) = 0 /\ ~IsCounting(NoLogin)
    BY DEF InFlight, IsCounting, NoLogin
<1>3. /\ MaxGuesses \in Nat /\ MaxGuesses = Guesses(0)
      /\ \A n \in Nat : Guesses(n) \in Nat
      /\ \A n \in Nat : n >= M => Guesses(n) = 0
    BY GuessesStep, GuessesOfNone
<1>4. \A n \in Nat : n < M => Guesses(n) = Guesses(n + 1) + (M - n) + 1
    BY GuessesStep
<1>5. c < M \/ y = NoLogin
    BY <1>1, SlotKinds DEF Limited
<1>6. w + Guesses(v + 1) <= MaxGuesses
    <2>1. Guesses(v + 1) \in Nat /\ Guesses(c) \in Nat /\ Guesses(c + 1) \in Nat
        BY <1>1, <1>3
    <2>2. CASE v <= c
        <3>1. w + Room(c) + Guesses(v + 1) <= MaxGuesses + InFlight(y)
            BY <2>2 DEF Limited, RollBack
        <3>2. Room(c) \in Nat /\ (InFlight(y) = 0 \/ Room(c) >= 1)
            BY <1>1, <1>2, <1>5 DEF Room
        <3>. QED
            BY <1>1, <1>3, <2>1, <3>1, <3>2
    <2>3. CASE v > c /\ c < M
        <3>1. Guesses(v + 1) <= Guesses(c + 1)
            BY <1>1, <2>3, GuessesFall
        <3>2. w + Guesses(c) <= MaxGuesses + 2
            BY <1>1, <1>3, <2>1, <2>3 DEF Limited
        <3>3. Guesses(c) = Guesses(c + 1) + (M - c) + 1
            BY <1>4, <2>3
        <3>. QED
            BY <1>1, <1>3, <2>1, <2>3, <3>1, <3>2, <3>3
    <2>4. CASE v > c /\ c >= M
        <3>1. Guesses(v + 1) = 0 /\ Guesses(c) = 0
            BY <1>1, <1>3, <2>4
        <3>2. w + Guesses(c) <= MaxGuesses
            BY <1>1, <1>3, <2>1, <2>4 DEF Limited
        <3>. QED
            BY <3>1, <3>2
    <2>. QED
        BY <1>1, <2>2, <2>3, <2>4
<1>7. ASSUME IsCounting(y), y.attempts <= v + 1
      PROVE  w + Room(v + 1) + Guesses(y.attempts + 1) <= MaxGuesses
    <2> DEFINE u == y.attempts
    <2>1. u \in Nat /\ u <= v + 1 /\ InFlight(y) = 1 /\ c < M
        BY <1>5, <1>7, SlotKinds
    <2>2. v = c \/ u = c \/ c = 0
        BY <1>7 DEF Limited
    <2>3. w + Guesses(c) <= MaxGuesses + 2
        BY <1>1, <1>3, <2>1 DEF Limited
    <2>4. v <= c => w + (M - c) + Guesses(v + 1) <= MaxGuesses + 1
        BY <2>1 DEF Limited, RollBack, Room
    <2>5. u <= c => w + (M - c) + Guesses(u + 1) <= MaxGuesses + 1
        BY <1>1, <1>7, <2>1 DEF Limited, RollBack, Room
    <2>. HIDE DEF u, v, M
    <2>6. /\ Room(v + 1) = IF v + 1 < M THEN M - (v + 1) ELSE 0
          /\ Guesses(u + 1) \in Nat /\ Guesses(v + 1) \in Nat
          /\ Guesses(c) \in Nat /\ Guesses(c + 1) \in Nat
        BY <1>1, <1>3, <2>1 DEF Room, M
    <2>7. Guesses(c) = Guesses(c + 1) + (M - c) + 1
        BY <1>4, <2>1
    <2>8. CASE u <= c /\ v >= c
        <3>1. w + Room(v + 1) + Guesses(u + 1) <= MaxGuesses
            BY <1>1, <1>3, <2>1, <2>5, <2>6, <2>8
        <3>. QED
            BY <3>1 DEF u
    <2>9. CASE u <= c /\ v < c
        <3>1. u = c /\ v + 1 = c
            BY <1>1, <2>1, <2>2, <2>9
        <3>2. w + (M - c) + Guesses(c) <= MaxGuesses + 1
            BY <1>1, <2>4, <2>9, <3>1
        <3>3. w + (M - c) + Guesses(c + 1) <= MaxGuesses
            BY <1>1, <1>3, <2>1, <2>6, <2>7, <3>2
        <3>4. Room(v + 1) = M - c
            BY <2>1, <2>6, <3>1
        <3>. QED
            BY <3>1, <3>3, <3>4 DEF u
    <2>10. CASE u > c /\ v = c
        <3>1. u = c + 1 /\ c + 1 <= M
            BY <1>1, <2>1, <2>10
        <3>2. w + Guesses(c + 1) + (M - (c + 1)) <= MaxGuesses
            BY <1>1, <1>3, <2>3, <2>6, <2>7
        <3>3. c + 1 < M => Guesses(c + 1) = Guesses((c + 1) + 1) + (M - (c + 1)) + 1
            BY <1>4
        <3>4. c + 1 >= M => Guesses((c + 1) + 1) = 0
            BY <1>1, <1>3
        <3>5. Room(v + 1) = M - (c + 1)
            BY <1>1, <2>6, <2>10, <3>1
        <3>6. Guesses((c + 1) + 1) \in Nat /\ Guesses((c + 1) + 1) <= Guesses(c + 1)
            <4>1. c + 1 \in Nat /\ (c + 1) + 1 \in Nat /\ c + 1 <= (c + 1) + 1
                OBVIOUS
            <4>. QED
                BY <1>3, <4>1, GuessesFall
        <3>7. w + (M - (c + 1)) + Guesses((c + 1) + 1) <= MaxGuesses
            BY <1>1, <1>3, <2>6, <3>1, <3>2, <3>6
        <3>8. Guesses(y.attempts + 1) = Guesses((c + 1) + 1)
            BY <3>1 DEF u
        <3>. QED
            BY <3>5, <3>7, <3>8
    <2>11. CASE u > c /\ v > c
        <3>1. c = 0 /\ u >= 1 /\ v >= 1
            BY <1>1, <2>1, <2>2, <2>11
        <3>2. w <= 2
            BY <1>3, <2>3, <2>6, <3>1
        <3>3. Guesses(u + 1) <= Guesses(1) /\ Guesses(1) \in Nat
            <4>1. 1 \in Nat /\ u + 1 \in Nat /\ 1 <= u + 1
                BY <2>1
            <4>. QED
                BY <1>3, <4>1, GuessesFall
        <3>4. MaxGuesses = Guesses(1) + M + 1
            <4>1. Guesses(0) = Guesses(0 + 1) + (M - 0) + 1
                BY <1>1, <1>4
            <4>2. 0 + 1 = 1 /\ M - 0 = M
                BY <1>1
            <4>. QED
                BY <1>3, <4>1, <4>2
        <3>5. Room(v + 1) <= M - 1 /\ Room(v + 1) \in Nat /\ (M >= 2 => Room(v + 1) <= M - 2)
            BY <1>1, <2>6, <3>1
        <3>6. w + Room(v + 1) + Guesses(u + 1) <= MaxGuesses
            BY <1>1, <2>6, <3>2, <3>3, <3>4, <3>5
        <3>. QED
            BY <3>6 DEF u
    <2>. QED
        BY <1>1, <2>1, <2>8, <2>9, <2>10, <2>11
<1>8. RollBack(v + 1, w, y, NoLogin)
    BY <1>2, <1>3, <1>7 DEF RollBack
<1>9. RollBack(v + 1, w, NoLogin, y)
    BY <1>2 DEF RollBack
<1>. QED
    BY <1>1, <1>2, <1>3, <1>6, <1>8, <1>9 DEF Limited

-----------------------------------------------------------------------------
(* What session s is doing about number k.                                 *)
slot(s, k) == IF login[s] # NoLogin /\ login[s].key = k THEN login[s] ELSE NoLogin

LimitedFor(s, r) == \A k \in Key : Limited(attempts[k], wrong[k], slot(s, k), slot(r, k))

(* All that ever happens to the counters.                                  *)
ThrottleStep ==
    \/ \E s \in Session, k \in Key : Fail(s, k)
    \/ \E s \in Session : register_failed_attempt(s)
    \/ \E k \in Key : clear_attempts(k) /\ UNCHANGED login
    \/ Expire
    \/ UNCHANGED throttleVars

LEMMA ThrottleTypeStep ==
    ASSUME ThrottleTypeOK, ThrottleStep
    PROVE  ThrottleTypeOK'
<1>. USE DEF ThrottleTypeOK
<1>1. ASSUME NEW s \in Session, NEW k \in Key, Fail(s, k)
      PROVE  ThrottleTypeOK'
    BY <1>1 DEF Fail, Logins
<1>2. ASSUME NEW s \in Session, ReadAttempts(s)
      PROVE  ThrottleTypeOK'
    <2>1. login[s] \in [at : {"failed"}, key : Key]
        BY <1>2 DEF ReadAttempts, Logins, NoLogin
    <2>2. [at |-> "counting", key |-> login[s].key, attempts |-> attempts[login[s].key]] \in Logins
        BY <2>1 DEF Logins
    <2>. QED
        BY <1>2, <2>2 DEF ReadAttempts
<1>3. ASSUME NEW s \in Session, WriteAttempts(s)
      PROVE  ThrottleTypeOK'
    <2>1. login[s] \in [at : {"counting"}, key : Key, attempts : Nat]
        BY <1>3 DEF WriteAttempts, Logins, NoLogin
    <2>2. NoLogin \in Logins
        BY DEF Logins
    <2>. QED
        BY <1>3, <2>1, <2>2 DEF WriteAttempts
<1>4. ASSUME NEW k \in Key, clear_attempts(k), UNCHANGED login
      PROVE  ThrottleTypeOK'
    BY <1>4 DEF clear_attempts
<1>5. CASE Expire
    BY <1>5 DEF Expire
<1>6. CASE UNCHANGED throttleVars
    BY <1>6 DEF throttleVars
<1>. QED
    BY <1>1, <1>2, <1>3, <1>4, <1>5, <1>6 DEF ThrottleStep, register_failed_attempt

LEMMA SlotsAreSlots ==
    ASSUME ThrottleTypeOK, NEW s \in Session, NEW k \in Key
    PROVE  slot(s, k) \in Logins
BY DEF ThrottleTypeOK, Logins, slot

(* A step of session s with number k, seen from every number.              *)
LEMMA OneNumberChanges ==
    ASSUME ThrottleTypeOK, NEW s \in Session, NEW r \in Session, s # r,
           LimitedFor(s, r), NEW k \in Key,
           \A j \in Key \ {k} : attempts'[j] = attempts[j] /\ wrong'[j] = wrong[j],
           \A j \in Key \ {k} : slot(s, j)' = slot(s, j),
           \A j \in Key : slot(r, j)' = slot(r, j),
           Limited(attempts[k], wrong[k], slot(s, k), slot(r, k))'
    PROVE  LimitedFor(s, r)'
BY DEF LimitedFor

LEMMA ActorIsLimited ==
    ASSUME ThrottleTypeOK, NEW s \in Session, NEW r \in Session, s # r, LimitedFor(s, r),
           \/ \E k \in Key : Fail(s, k)
           \/ register_failed_attempt(s)
    PROVE  LimitedFor(s, r)'
<1>1. \A k \in Key : /\ Limited(attempts[k], wrong[k], slot(s, k), slot(r, k))
                     /\ attempts[k] \in Nat /\ wrong[k] \in Nat
                     /\ slot(s, k) \in Logins /\ slot(r, k) \in Logins
    BY SlotsAreSlots DEF LimitedFor, ThrottleTypeOK
<1>2. ASSUME NEW k \in Key, Fail(s, k)
      PROVE  LimitedFor(s, r)'
    <2> DEFINE x == [at |-> "failed", key |-> k]
    <2>1. /\ \A j \in Key : slot(s, j) = NoLogin
          /\ \A j \in Key : slot(s, j)' = IF j = k THEN x ELSE NoLogin
          /\ \A j \in Key : slot(r, j)' = slot(r, j)
        BY <1>2 DEF Fail, slot, NoLogin, ThrottleTypeOK
    <2>2. attempts' = attempts /\ wrong' = [wrong EXCEPT ![k] = @ + 1]
          /\ attempts[k] < MAX_ATTEMPTS
        BY <1>2, MaxAttemptsIsNat DEF Fail, is_locked_out, ThrottleTypeOK
    <2>3. Limited(attempts[k], wrong[k] + 1, x, slot(r, k))
        BY <1>1, <2>1, <2>2, FailLimits
    <2>4. Limited(attempts[k], wrong[k], slot(s, k), slot(r, k))'
        BY <2>1, <2>2, <2>3 DEF ThrottleTypeOK
    <2>. QED
        BY <2>1, <2>2, <2>4, OneNumberChanges DEF ThrottleTypeOK
<1>3. ASSUME ReadAttempts(s)
      PROVE  LimitedFor(s, r)'
    <2>0. login[s] \in [at : {"failed"}, key : Key]
        BY <1>3 DEF ReadAttempts, Logins, NoLogin, ThrottleTypeOK
    <2>1. PICK k \in Key : login[s].key = k
        BY <2>0
    <2> DEFINE x == [at |-> "counting", key |-> k, attempts |-> attempts[k]]
    <2>2. /\ \A j \in Key : slot(s, j) = IF j = k THEN login[s] ELSE NoLogin
          /\ \A j \in Key : slot(s, j)' = IF j = k THEN x ELSE NoLogin
          /\ \A j \in Key : slot(r, j)' = slot(r, j)
        BY <1>3, <2>0, <2>1 DEF ReadAttempts, slot, NoLogin, ThrottleTypeOK
    <2>3. attempts' = attempts /\ wrong' = wrong
        BY <1>3 DEF ReadAttempts
    <2>4. x \in [at : {"counting"}, key : Key, attempts : {attempts[k]}]
        BY <2>1
    <2>5. Limited(attempts[k], wrong[k], x, slot(r, k))
        BY <1>1, <2>0, <2>2, <2>4, ReadLimits
    <2>. HIDE DEF x
    <2>6. Limited(attempts[k], wrong[k], slot(s, k), slot(r, k))'
        BY <2>2, <2>3, <2>5
    <2>. QED
        BY <2>2, <2>3, <2>6, OneNumberChanges
<1>4. ASSUME WriteAttempts(s)
      PROVE  LimitedFor(s, r)'
    <2>0. login[s] \in [at : {"counting"}, key : Key, attempts : Nat]
        BY <1>4 DEF WriteAttempts, Logins, NoLogin, ThrottleTypeOK
    <2>1. PICK k \in Key : login[s].key = k
        BY <2>0
    <2>2. /\ \A j \in Key : slot(s, j) = IF j = k THEN login[s] ELSE NoLogin
          /\ \A j \in Key : slot(s, j)' = NoLogin
          /\ \A j \in Key : slot(r, j)' = slot(r, j)
        BY <1>4, <2>0, <2>1 DEF WriteAttempts, slot, NoLogin, ThrottleTypeOK
    <2>3. attempts' = [attempts EXCEPT ![k] = login[s].attempts + 1] /\ wrong' = wrong
        BY <1>4, <2>1 DEF WriteAttempts
    <2>4. Limited(login[s].attempts + 1, wrong[k], NoLogin, slot(r, k))
        BY <1>1, <2>0, <2>2, WriteLimits DEF IsCounting
    <2>. QED
        BY <2>0, <2>2, <2>3, <2>4, OneNumberChanges DEF ThrottleTypeOK
<1>. QED
    BY <1>2, <1>3, <1>4 DEF register_failed_attempt

LEMMA LimitedForBoth ==
    ASSUME ThrottleTypeOK, NEW s \in Session, NEW r \in Session, LimitedFor(s, r)
    PROVE  LimitedFor(r, s)
BY SlotsAreSlots, LimitedIsSymmetric DEF LimitedFor, ThrottleTypeOK

(* Of two sessions, whichever makes the step.                              *)
LEMMA LimitStep ==
    ASSUME ThrottleTypeOK, NEW s \in Session, NEW r \in Session, s # r, Session = {s, r},
           LimitedFor(s, r), ThrottleStep
    PROVE  LimitedFor(s, r)'
<1>1. ThrottleTypeOK'
    BY ThrottleTypeStep
<1>2. ASSUME NEW k \in Key, clear_attempts(k), UNCHANGED login
      PROVE  LimitedFor(s, r)'
    <2>1. \A j \in Key : slot(s, j)' = slot(s, j) /\ slot(r, j)' = slot(r, j)
        BY <1>2 DEF slot
    <2>2. Limited(attempts[k], wrong[k], slot(s, k), slot(r, k))'
        BY <1>2, <2>1, SlotsAreSlots, ClearLimits DEF clear_attempts, ThrottleTypeOK
    <2>. QED
        BY <1>2, <2>1, <2>2, OneNumberChanges DEF clear_attempts, ThrottleTypeOK
<1>3. CASE Expire
    <2>1. \A j \in Key : slot(s, j)' = slot(s, j) /\ slot(r, j)' = slot(r, j)
        BY <1>3 DEF slot, Expire
    <2>. QED
        BY <1>3, <2>1, SlotsAreSlots, ClearLimits DEF Expire, LimitedFor
<1>4. CASE UNCHANGED throttleVars
    BY <1>4 DEF throttleVars, LimitedFor, slot
<1>5. ASSUME NEW q \in Session, (\E k \in Key : Fail(q, k)) \/ register_failed_attempt(q)
      PROVE  LimitedFor(s, r)'
    <2>1. CASE q = s
        BY <1>5, <2>1, ActorIsLimited
    <2>2. CASE q = r
        <3>1. LimitedFor(r, s)'
            BY <1>5, <2>2, ActorIsLimited, LimitedForBoth
        <3>. QED
            BY <1>1, <3>1, LimitedIsSymmetric DEF LimitedFor, slot, Logins, ThrottleTypeOK
    <2>. QED
        BY <2>1, <2>2
<1>. QED
    BY <1>2, <1>3, <1>4, <1>5 DEF ThrottleStep

-----------------------------------------------------------------------------
(* The accounts: an inductive invariant of Spec.                           *)

(* What the data d of session s says is true of numbers s reads, given     *)
(* when codes were accepted (a) and what the service has matched (m).      *)
Holds(s, d, a, m) ==
    /\ d.user # None => d.user \in Reads[s]
    /\ \A p \in Purpose : d.verified[p] # None =>
          /\ d.verified[p].mobile \in Reads[s]
          /\ a[d.verified[p].mobile] # None
          /\ d.verified[p].at <= a[d.verified[p].mobile]
    /\ d.identity # None => \E n \in Reads[s] : <<n, d.identity>> \in m

(* The row of number n belongs to a reader, and so does its identity.      *)
RowHolds(n, row, m) ==
    /\ n \in Reads[row.password]
    /\ row.national_code # None =>
          \E s \in Session, k \in Number :
              {n, k} \subseteq Reads[s] /\ <<k, row.national_code>> \in m

SaveHolds(s, save, u, m) ==
    /\ save.mobile \in Reads[s]
    /\ u[save.mobile] # None
    /\ \E n \in Reads[s] : <<n, save.national_code>> \in m

SessionsHold == \A s \in Session : Holds(s, session[s], accepted, matches)
RowsHold == \A n \in Number : users[n] # None => RowHolds(n, users[n], matches)
SavesHold == \A s \in Session : saving[s] # None => SaveHolds(s, saving[s], users, matches)
CodesDiffer ==
    \A n \in Number : users[n] # None /\ users[n].national_code # None =>
        \A m \in Number \ {n} :
            users[m] # None => users[m].national_code # users[n].national_code
AcceptedBefore == \A n \in Number : accepted[n] # None => accepted[n] <= now
MatchesAreOwners == \A n \in Number, c \in NationalCode : <<n, c>> \in matches => c = OwnerOf[n]
RegisteredExist == \A n \in registered : users[n] # None

(* The accounts, but for the data of the sessions and the clock.           *)
AccountsHold ==
    RowsHold /\ SavesHold /\ CodesDiffer /\ MatchesAreOwners /\ RegisteredExist
        /\ IdentityOrTaken /\ TypoIsNoticed

AccountsInv == TypeOK /\ SessionsHold /\ AcceptedBefore /\ AccountsHold

-----------------------------------------------------------------------------
(* What the helpers make of a session's data.                              *)
LEMMA NewSessionHolds ==
    ASSUME NEW s \in Session, NEW a, NEW m
    PROVE  NewSession \in Sessions /\ Holds(s, NewSession, a, m)
BY NoneIsNothing DEF NewSession, Sessions, Holds

LEMMA PendingHolds ==
    ASSUME NEW s \in Session, NEW d \in Sessions, NEW a, NEW m, Holds(s, d, a, m),
           NEW n \in Number, NEW p \in Purpose
    PROVE  LET e == [d EXCEPT !.pending[p] = n] IN e \in Sessions /\ Holds(s, e, a, m)
BY DEF Sessions, Holds

Marked(d, n, p, t) == [d EXCEPT !.verified[p] = [mobile |-> n, at |-> t], !.pending[p] = None]

LEMMA VerifiedHolds ==
    ASSUME NEW s \in Session, NEW d \in Sessions, NEW a, NEW m, Holds(s, d, a, m),
           NEW n \in Number, NEW p \in Purpose, NEW t \in 0..MaxTime,
           n \in Reads[s], a[n] # None, t <= a[n]
    PROVE  Marked(d, n, p, t) \in Sessions /\ Holds(s, Marked(d, n, p, t), a, m)
<1> DEFINE e == Marked(d, n, p, t)
<1>1. e \in Sessions
    BY DEF Sessions, Verified, Marked
<1>2. /\ e.user = d.user /\ e.identity = d.identity
      /\ \A q \in Purpose : e.verified[q] = IF q = p THEN [mobile |-> n, at |-> t] ELSE d.verified[q]
    BY DEF Sessions, Marked
<1>. QED
    BY <1>1, <1>2 DEF Holds

LEMMA ClearedHolds ==
    ASSUME NEW s \in Session, NEW d \in Sessions, NEW a, NEW m, Holds(s, d, a, m),
           NEW p \in Purpose
    PROVE  clear_flow(d, p) \in Sessions /\ Holds(s, clear_flow(d, p), a, m)
<1> DEFINE e == clear_flow(d, p)
<1>1. e \in Sessions
    BY DEF Sessions, clear_flow
<1>2. /\ e.user = d.user /\ e.identity = d.identity
      /\ \A q \in Purpose : e.verified[q] = IF q = p THEN None ELSE d.verified[q]
    BY DEF Sessions, clear_flow
<1>. QED
    BY <1>1, <1>2 DEF Holds

LEMMA IdentityHolds ==
    ASSUME NEW s \in Session, NEW d \in Sessions, NEW a, NEW m, Holds(s, d, a, m),
           NEW c \in NationalCode \cup {None},
           c # None => \E n \in Reads[s] : <<n, c>> \in m
    PROVE  LET e == [d EXCEPT !.identity = c] IN e \in Sessions /\ Holds(s, e, a, m)
BY DEF Sessions, Holds

LEMMA LoggedInHolds ==
    ASSUME NEW s \in Session, NEW d \in Sessions, NEW a, NEW m, Holds(s, d, a, m),
           NEW n \in Number, n \in Reads[s]
    PROVE  auth_login(d, n) \in Sessions /\ Holds(s, auth_login(d, n), a, m)
<1>1. NewSession \in Sessions /\ Holds(s, NewSession, a, m)
    BY NewSessionHolds
<1>2. \A e \in Sessions : Holds(s, e, a, m) =>
          [e EXCEPT !.user = n] \in Sessions /\ Holds(s, [e EXCEPT !.user = n], a, m)
    BY DEF Sessions, Holds
<1>. QED
    BY <1>1, <1>2 DEF auth_login

LEMMA FlushedHolds ==
    ASSUME TypeOK, SessionsHold, NEW n \in Number
    PROVE  /\ FlushedFor(n) \in [Session -> Sessions]
           /\ \A s \in Session : Holds(s, FlushedFor(n)[s], accepted, matches)
BY NewSessionHolds DEF TypeOK, SessionsHold, FlushedFor

(* More matches and later codes take nothing away.                         *)
Grows ==
    /\ matches \subseteq matches'
    /\ \A n \in Number : accepted[n] # None => accepted'[n] # None /\ accepted[n] <= accepted'[n]

LEMMA SessionsStillHold ==
    ASSUME TypeOK, TypeOK', Grows, NEW s \in Session, NEW d \in Sessions,
           Holds(s, d, accepted, matches)
    PROVE  Holds(s, d, accepted', matches')
<1>1. ASSUME NEW p \in Purpose, d.verified[p] # None
      PROVE  /\ d.verified[p].mobile \in Reads[s]
             /\ accepted'[d.verified[p].mobile] # None
             /\ d.verified[p].at <= accepted'[d.verified[p].mobile]
    <2> DEFINE n == d.verified[p].mobile
    <2>1. n \in Number /\ d.verified[p].at \in Int
        BY <1>1 DEF Sessions, Verified
    <2>2. n \in Reads[s] /\ accepted[n] # None /\ d.verified[p].at <= accepted[n]
        BY <1>1 DEF Holds
    <2>3. accepted[n] \in Int /\ accepted'[n] \in Int
        BY <2>1, <2>2 DEF Grows, TypeOK
    <2>. QED
        BY <2>1, <2>2, <2>3 DEF Grows
<1>. QED
    BY <1>1 DEF Holds, Grows

(* The session that sends the request may change; the others stay as they  *)
(* are, or are flushed.                                                    *)
LEMMA OneSessionChanges ==
    ASSUME TypeOK, TypeOK', SessionsHold, Grows, NEW s \in Session,
           Holds(s, session'[s], accepted', matches'),
           \A r \in Session \ {s} : session'[r] = session[r]
    PROVE  SessionsHold'
<1>1. \A r \in Session : session[r] \in Sessions /\ Holds(r, session[r], accepted, matches)
    BY DEF TypeOK, SessionsHold
<1>. QED
    BY <1>1, SessionsStillHold DEF SessionsHold

LEMMA SameSessions ==
    ASSUME TypeOK, TypeOK', SessionsHold, Grows, session' = session
    PROVE  SessionsHold'
<1>1. \A r \in Session : session[r] \in Sessions /\ Holds(r, session[r], accepted, matches)
    BY DEF TypeOK, SessionsHold
<1>. QED
    BY <1>1, SessionsStillHold DEF SessionsHold

LEMMA NothingGrows ==
    ASSUME TypeOK, UNCHANGED <<matches, accepted>>
    PROVE  Grows
<1>1. \A n \in Number : accepted[n] # None => accepted[n] \in Int
    BY DEF TypeOK
<1>. QED
    BY <1>1 DEF Grows

(* A code of number n is accepted now.                                     *)
LEMMA AcceptedNow ==
    ASSUME TypeOK, AcceptedBefore, NEW n \in Number, matches' = matches, now' = now,
           accepted' = [accepted EXCEPT ![n] = now]
    PROVE  Grows /\ AcceptedBefore' /\ accepted'[n] # None /\ now <= accepted'[n]
<1>1. now \in Int /\ now # None /\ accepted'[n] = now
    BY NoneIsNothing DEF TypeOK
<1>2. \A m \in Number : accepted[m] # None => accepted[m] \in Int
    BY DEF TypeOK
<1>3. \A m \in Number : accepted'[m] = IF m = n THEN now ELSE accepted[m]
    BY DEF TypeOK
<1>. QED
    BY <1>1, <1>2, <1>3 DEF Grows, AcceptedBefore

(* The rows change, but no identity does: new rows have none.              *)
IdentitiesStay ==
    /\ \A n \in Number : users[n] # None =>
          users'[n] # None /\ users'[n].national_code = users[n].national_code
    /\ \A n \in Number : users[n] = None /\ users'[n] # None => users'[n].national_code = None
    /\ UNCHANGED <<saving, matches, mistyped, registered, crashed>>

LEMMA SameIdentities ==
    ASSUME TypeOK, AccountsHold, IdentitiesStay, RowsHold'
    PROVE  AccountsHold'
<1>1. SavesHold'
    <2>1. \A s \in Session : saving[s] # None => saving[s].mobile \in Number
        BY DEF TypeOK, Saves
    <2>. QED
        BY <2>1 DEF AccountsHold, SavesHold, SaveHolds, IdentitiesStay
<1>2. CodesDiffer'
    BY DEF AccountsHold, CodesDiffer, IdentitiesStay
<1>3. MatchesAreOwners' /\ RegisteredExist' /\ TypoIsNoticed'
    BY DEF AccountsHold, MatchesAreOwners, RegisteredExist, TypoIsNoticed, IdentitiesStay, TypeOK
<1>4. IdentityOrTaken'
    <2> SUFFICES ASSUME IDENTITY_REQUIRED_FOR_REGISTRATION, NEW n \in Number,
                        n \in registered, users'[n].national_code = None,
                        ~\E s \in Session : saving[s] # None /\ saving[s].mobile = n,
                        ~crashed
                 PROVE  \E m \in Number :
                            SharesOwner(n, m) /\ users'[m] # None /\ users'[m].national_code # None
        BY DEF IdentityOrTaken, IdentitiesStay, SharesOwner
    <2>1. users[n] # None /\ users[n].national_code = None
        BY DEF AccountsHold, RegisteredExist, IdentitiesStay
    <2>2. PICK m \in Number : SharesOwner(n, m) /\ users[m] # None /\ users[m].national_code # None
        BY <2>1 DEF AccountsHold, IdentityOrTaken
    <2>. QED
        BY <2>2 DEF IdentitiesStay
<1>. QED
    BY <1>1, <1>2, <1>3, <1>4 DEF AccountsHold

LEMMA SameAccounts ==
    ASSUME TypeOK, AccountsHold,
           UNCHANGED <<users, saving, matches, mistyped, registered, crashed>>
    PROVE  AccountsHold'
<1>1. RowsHold'
    BY DEF AccountsHold, RowsHold, RowHolds
<1>. QED
    BY <1>1, SameIdentities DEF IdentitiesStay

-----------------------------------------------------------------------------
(* The actions.                                                            *)
SentType == (Purpose \cup {"verify_mobile"}) \X Number \X OtpCodes

LEMMA SpendType ==
    ASSUME TypeOK, NEW c \in Nat, Spend(c)
    PROVE  effort' \in 0..MaxEffort
BY BoundsAreNat DEF TypeOK, Spend

LEMMA SendType ==
    ASSUME TypeOK, NEW n \in Number, NEW p \in Purpose \cup {"verify_mobile"}, send_otp(n, p)
    PROVE  sent' \subseteq SentType
BY DEF TypeOK, SentType, send_otp

LEMMA AcceptType ==
    ASSUME TypeOK, NEW s \in Session, NEW n \in Number, NEW p, verify_otp(s, n, p)
    PROVE  /\ n \in Reads[s]
           /\ sent' \subseteq SentType
           /\ accepted' = [accepted EXCEPT ![n] = now]
           /\ accepted' \in [Number -> 0..MaxTime \cup {None}]
BY DEF TypeOK, SentType, verify_otp

(* The steps that change the data of one session only.                     *)
LEMMA OneSessionKeeps ==
    ASSUME AccountsInv, ThrottleTypeOK', NEW s \in Session, NEW e \in Sessions,
           Holds(s, e, accepted, matches), session' = [session EXCEPT ![s] = e],
           sent' \subseteq SentType, effort' \in 0..MaxEffort,
           UNCHANGED <<now, users, saving, inquiries, history, edits>>
    PROVE  AccountsInv'
<1>1. TypeOK'
    BY DEF AccountsInv, TypeOK, SentType, inquiries, history
<1>2. AccountsHold' /\ AcceptedBefore' /\ Grows
    BY SameAccounts, NothingGrows DEF AccountsInv, AcceptedBefore, inquiries, history
<1>3. session'[s] = e /\ \A r \in Session \ {s} : session'[r] = session[r]
    BY DEF AccountsInv, TypeOK
<1>4. UNCHANGED <<accepted, matches>>
    BY DEF inquiries, history
<1>5. SessionsHold'
    BY <1>1, <1>2, <1>3, <1>4, OneSessionChanges DEF AccountsInv
<1>. QED
    BY <1>1, <1>2, <1>5 DEF AccountsInv

LEMMA registerKeeps ==
    ASSUME AccountsInv, ThrottleTypeOK', NEW s \in Session, NEW n \in Number, register(s, n)
    PROVE  AccountsInv'
<1>1. session[s] \in Sessions /\ "register" \in Purpose
    BY DEF AccountsInv, TypeOK, Purpose
<1> DEFINE e == [session[s] EXCEPT !.pending["register"] = n]
<1>2. e \in Sessions /\ Holds(s, e, accepted, matches)
    BY <1>1, PendingHolds DEF AccountsInv, SessionsHold
<1>3. session' = [session EXCEPT ![s] = e]
    BY <1>1 DEF register, set_pending_mobile, AccountsInv, TypeOK
<1>. HIDE DEF e
<1>4. effort' \in 0..MaxEffort
    BY SpendType DEF register, AccountsInv, SMS
<1>5. sent' \subseteq SentType
    BY <1>1, SendType DEF register, AccountsInv
<1>. QED
    BY <1>2, <1>3, <1>4, <1>5, OneSessionKeeps DEF register

(* A code for number n is accepted in session s and marks n as verified.   *)
LEMMA MarkKeeps ==
    ASSUME AccountsInv, ThrottleTypeOK', NEW s \in Session, NEW n \in Number, NEW p \in Purpose,
           verify_otp(s, n, p), mark_verified(s, n, p),
           UNCHANGED <<now, users, saving, inquiries, registered, crashed, effort, edits>>
    PROVE  AccountsInv'
<1> DEFINE e == Marked(session[s], n, p, now)
<1>1. session' = [session EXCEPT ![s] = e] /\ session[s] \in Sessions
    BY DEF mark_verified, Marked, AccountsInv, TypeOK
<1>2. /\ n \in Reads[s] /\ accepted' = [accepted EXCEPT ![n] = now]
      /\ accepted' \in [Number -> 0..MaxTime \cup {None}]
      /\ sent' \subseteq SentType
    BY AcceptType DEF AccountsInv
<1>3. Grows /\ AcceptedBefore' /\ accepted'[n] # None /\ now <= accepted'[n]
    BY <1>2, AcceptedNow DEF AccountsInv, inquiries
<1>4. TypeOK'
    <2>1. e \in Sessions
        BY <1>1 DEF AccountsInv, TypeOK, Sessions, Verified, Marked
    <2>. HIDE DEF e
    <2>. QED
        BY <1>1, <1>2, <2>1 DEF AccountsInv, TypeOK, SentType, inquiries
<1>5. Holds(s, e, accepted', matches')
    <2>1. Holds(s, session[s], accepted', matches')
        BY <1>1, <1>3, <1>4, SessionsStillHold DEF AccountsInv, SessionsHold
    <2>2. now \in 0..MaxTime
        BY DEF AccountsInv, TypeOK
    <2>. QED
        BY <1>1, <1>2, <1>3, <2>1, <2>2, VerifiedHolds
<1>. HIDE DEF e
<1>6. SessionsHold'
    <2>1. session'[s] = e /\ \A r \in Session \ {s} : session'[r] = session[r]
        BY <1>1 DEF AccountsInv, TypeOK
    <2>. QED
        BY <1>3, <1>4, <1>5, <2>1, OneSessionChanges DEF AccountsInv
<1>7. AccountsHold'
    BY SameAccounts DEF AccountsInv, inquiries
<1>. QED
    BY <1>3, <1>4, <1>6, <1>7 DEF AccountsInv

LEMMA register_verifyKeeps ==
    ASSUME AccountsInv, ThrottleTypeOK', NEW s \in Session, register_verify(s)
    PROVE  AccountsInv'
<1>1. session[s].pending["register"] \in Number /\ "register" \in Purpose
    BY DEF AccountsInv, TypeOK, Sessions, Purpose, register_verify
<1>. QED
    BY <1>1, MarkKeeps DEF register_verify

LEMMA password_resetKeeps ==
    ASSUME AccountsInv, ThrottleTypeOK', NEW s \in Session, NEW n \in Number, password_reset(s, n)
    PROVE  AccountsInv'
<1>1. session[s] \in Sessions /\ "password_reset" \in Purpose
    BY DEF AccountsInv, TypeOK, Purpose
<1> DEFINE e == [session[s] EXCEPT !.pending["password_reset"] = n]
<1>2. e \in Sessions /\ Holds(s, e, accepted, matches)
    BY <1>1, PendingHolds DEF AccountsInv, SessionsHold
<1>3. session' = [session EXCEPT ![s] = e]
    BY <1>1 DEF password_reset, set_pending_mobile, AccountsInv, TypeOK
<1>. HIDE DEF e
<1>4. effort' \in 0..MaxEffort
    BY SpendType DEF password_reset, AccountsInv, SMS
<1>5. sent' \subseteq SentType
    BY <1>1, SendType DEF password_reset, AccountsInv, TypeOK, SentType
<1>. QED
    BY <1>2, <1>3, <1>4, <1>5, OneSessionKeeps DEF password_reset

LEMMA password_reset_verifyKeeps ==
    ASSUME AccountsInv, ThrottleTypeOK', NEW s \in Session, password_reset_verify(s)
    PROVE  AccountsInv'
<1>1. session[s].pending["password_reset"] \in Number /\ "password_reset" \in Purpose
    BY DEF AccountsInv, TypeOK, Sessions, Purpose, password_reset_verify
<1>. QED
    BY <1>1, MarkKeeps DEF password_reset_verify

(* The steps that log a visitor in and out.                                *)
LEMMA LogInKeeps ==
    ASSUME AccountsInv, ThrottleTypeOK', NEW s \in Session, NEW k \in Key, LogIn(s, k)
    PROVE  AccountsInv'
<1> DEFINE n == NumberOf[k]
           e == auth_login(session[s], n)
<1>1. n \in Number
    BY KeysAreNumbers DEF NumberOf
<1>2. n \in Reads[s]
    BY <1>1 DEF LogIn, Authenticates, IsActiveUser, KnowsPassword, AccountsInv, AccountsHold,
                RowsHold, RowHolds
<1>3. e \in Sessions /\ Holds(s, e, accepted, matches)
    BY <1>1, <1>2, LoggedInHolds DEF AccountsInv, TypeOK, SessionsHold
<1>4. session' = [session EXCEPT ![s] = e]
    BY DEF LogIn
<1>5. sent' \subseteq SentType /\ effort' \in 0..MaxEffort
    BY DEF LogIn, AccountsInv, TypeOK, SentType
<1>. HIDE DEF e
<1>. QED
    BY <1>3, <1>4, <1>5, OneSessionKeeps DEF LogIn

LEMMA logoutKeeps ==
    ASSUME AccountsInv, ThrottleTypeOK', NEW s \in Session, logout(s)
    PROVE  AccountsInv'
<1>1. NewSession \in Sessions /\ Holds(s, NewSession, accepted, matches)
    BY NewSessionHolds
<1>2. sent' \subseteq SentType /\ effort' \in 0..MaxEffort
    BY DEF logout, AccountsInv, TypeOK, SentType
<1>. QED
    BY <1>1, <1>2, OneSessionKeeps DEF logout

(* The steps that leave the accounts and the sessions alone.               *)
LEMMA NoSessionKeeps ==
    ASSUME AccountsInv, ThrottleTypeOK', sent' \subseteq SentType, effort' \in 0..MaxEffort,
           now' \in now..MaxTime,
           UNCHANGED <<users, session, saving, inquiries, history, edits>>
    PROVE  AccountsInv'
<1>1. TypeOK'
    BY DEF AccountsInv, TypeOK, SentType, inquiries, history
<1>2. AccountsHold' /\ Grows
    BY SameAccounts, NothingGrows DEF AccountsInv, inquiries, history
<1>3. AcceptedBefore'
    <2>1. \A n \in Number : accepted[n] # None => accepted[n] \in Int
        BY DEF AccountsInv, TypeOK
    <2>2. now \in Int /\ now' \in Int /\ now <= now'
        BY DEF AccountsInv, TypeOK
    <2>. QED
        BY <2>1, <2>2 DEF AccountsInv, AcceptedBefore, history
<1>4. SessionsHold'
    BY <1>1, <1>2, SameSessions DEF AccountsInv
<1>. QED
    BY <1>1, <1>2, <1>3, <1>4 DEF AccountsInv

LEMMA QuietStepsKeep ==
    ASSUME AccountsInv, ThrottleTypeOK',
           \/ \E s \in Session : Resend(s) \/ SendMobileCode(s) \/ CountFailure(s)
           \/ \E s \in Session, k \in Key : FailToLogIn(s, k)
           \/ Tick
    PROVE  AccountsInv'
<1>1. now \in now..MaxTime /\ now \in 0..MaxTime /\ MaxTime \in Nat
    BY BoundsAreNat DEF AccountsInv, TypeOK
<1>2. sent \subseteq SentType /\ effort \in 0..MaxEffort
    BY DEF AccountsInv, TypeOK, SentType
<1>3. ASSUME NEW s \in Session, SendMobileCode(s)
      PROVE  AccountsInv'
    <2>1. request_user(s) \in Number
        BY <1>3 DEF SendMobileCode, request_user, AccountsInv, TypeOK, Sessions
    <2>2. sent' \subseteq SentType
        BY <1>3, <2>1, SendType DEF SendMobileCode, AccountsInv
    <2>3. effort' \in 0..MaxEffort
        BY <1>3, SpendType DEF SendMobileCode, AccountsInv, SMS
    <2>. QED
        BY <1>1, <1>3, <2>2, <2>3, NoSessionKeeps DEF SendMobileCode
<1>4. ASSUME NEW s \in Session, CountFailure(s)
      PROVE  AccountsInv'
    BY <1>1, <1>2, <1>4, NoSessionKeeps DEF CountFailure, flowVars
<1>5. ASSUME NEW s \in Session, NEW k \in Key, FailToLogIn(s, k)
      PROVE  AccountsInv'
    <2>1. effort' \in 0..MaxEffort
        BY <1>5, SpendType DEF FailToLogIn, AccountsInv, GUESS
    <2>. QED
        BY <1>1, <1>2, <1>5, <2>1, NoSessionKeeps DEF FailToLogIn, flowVars
<1>6. CASE Tick
    <2>1. now' \in now..MaxTime /\ sent' \subseteq SentType
        BY <1>1, <1>6 DEF Tick
    <2>. QED
        BY <1>2, <1>6, <2>1, NoSessionKeeps DEF Tick
<1>7. ASSUME NEW s \in Session, Resend(s)
      PROVE  AccountsInv'
    <2>1. PICK p \in Purpose : LET n == session[s].pending[p] IN n # None /\ send_otp(n, p)
        BY <1>7 DEF Resend
    <2>2. session[s].pending[p] \in Number
        BY <2>1 DEF AccountsInv, TypeOK, Sessions
    <2>3. effort' \in 0..MaxEffort
        BY <1>7, SpendType DEF Resend, AccountsInv, SMS
    <2>4. sent' \subseteq SentType
        BY <2>1, <2>2, SendType DEF AccountsInv
    <2>. QED
        BY <1>1, <1>7, <2>3, <2>4, NoSessionKeeps DEF Resend
<1>. QED
    BY <1>3, <1>4, <1>5, <1>6, <1>7

-----------------------------------------------------------------------------
(* Identities.                                                             *)
LEMMA FormNoticesSlips ==
    ASSUME NEW code \in NationalCode, NEW text \in IdentityForm[code]
    PROVE  text = code
<1>1. text \in Mistyped(code) \cup {code} /\ validate_national_code(clean_national_code(text))
    BY DEF IdentityForm
<1>2. /\ code \in TenDigits /\ validate_national_code(code)
      /\ control_digit(code) # 1 /\ <<code[9], code[10]>> # <<1, 3>>
    BY NationalCodesAreValid, ControlDigitsAreClear DEF TenDigits
<1>. QED
    BY <1>1, <1>2, SlipIsNoticed

LEMMA InquiryHolds ==
    ASSUME AccountsInv, NEW n \in Number, NEW code \in NationalCode,
           NEW text \in IdentityForm[code], NEW answer, verify_identity(n, text, answer)
    PROVE  /\ text = code /\ mistyped' = mistyped
           /\ matches \subseteq matches' /\ matches' \subseteq IdentityRows /\ MatchesAreOwners'
           /\ Confirms(answer) => <<n, code>> \in matches'
<1>1. text = code
    BY FormNoticesSlips
<1>2. answer = "matched" => OwnerOf[n] = code
    BY <1>1 DEF verify_identity, Answers
<1>3. matches \subseteq IdentityRows
    BY DEF AccountsInv, TypeOK
<1>4. mistyped' = mistyped
    BY <1>1 DEF verify_identity
<1>5. matches' = IF answer = "matched" THEN matches \cup {<<n, code>>} ELSE matches
    BY <1>1 DEF verify_identity
<1>6. matches \subseteq matches' /\ matches' \subseteq IdentityRows
    BY <1>3, <1>5 DEF IdentityRows
<1>7. MatchesAreOwners'
    BY <1>2, <1>5 DEF AccountsInv, AccountsHold, MatchesAreOwners
<1>8. Confirms(answer) => <<n, code>> \in matches'
    BY <1>5 DEF Confirms
<1>. QED
    BY <1>1, <1>4, <1>6, <1>7, <1>8

LEMMA RowStillHolds ==
    ASSUME NEW n, NEW row, NEW m, NEW k, m \subseteq k, RowHolds(n, row, m)
    PROVE  RowHolds(n, row, k)
BY DEF RowHolds

LEMMA SaveStillHolds ==
    ASSUME NEW s, NEW save, NEW u, NEW m, NEW k, m \subseteq k, SaveHolds(s, save, u, m)
    PROVE  SaveHolds(s, save, u, k)
BY DEF SaveHolds

(* More matches, and nothing else.                                         *)
LEMMA MatchesGrow ==
    ASSUME AccountsHold, matches \subseteq matches', MatchesAreOwners',
           UNCHANGED <<users, saving, mistyped, registered, crashed>>
    PROVE  AccountsHold'
<1>1. RowsHold'
    BY RowStillHolds DEF AccountsHold, RowsHold
<1>2. SavesHold'
    BY SaveStillHolds DEF AccountsHold, SavesHold
<1>3. CodesDiffer' /\ RegisteredExist' /\ TypoIsNoticed'
    BY DEF AccountsHold, CodesDiffer, RegisteredExist, TypoIsNoticed
<1>4. IdentityOrTaken'
    BY DEF AccountsHold, IdentityOrTaken, SharesOwner
<1>. QED
    BY <1>1, <1>2, <1>3, <1>4 DEF AccountsHold

LEMMA MoreMatchesGrow ==
    ASSUME TypeOK, matches \subseteq matches', accepted' = accepted
    PROVE  Grows
<1>1. \A n \in Number : accepted[n] # None => accepted[n] \in Int
    BY DEF TypeOK
<1>. QED
    BY <1>1 DEF Grows

LEMMA VerifiedIsRead ==
    ASSUME AccountsInv, NEW s \in Session, NEW p \in Purpose, get_verified_mobile(s, p) # None
    PROVE  LET n == get_verified_mobile(s, p) IN
           /\ n \in Number /\ n \in Reads[s]
           /\ accepted[n] # None /\ now - accepted[n] <= 1
<1> DEFINE v == session[s].verified[p]
           n == get_verified_mobile(s, p)
<1>1. v # None /\ n = v.mobile /\ now - v.at <= 1
    <2>1. v # None /\ ~(now - v.at > 1) /\ n = v.mobile
        BY DEF get_verified_mobile
    <2>2. v.at \in Int /\ now \in Int
        BY <2>1 DEF AccountsInv, TypeOK, Sessions, Verified
    <2>. QED
        BY <2>1, <2>2
<1>2. v.mobile \in Number /\ v.at \in Int /\ now \in Int
    BY <1>1 DEF AccountsInv, TypeOK, Sessions, Verified
<1>3. v.mobile \in Reads[s] /\ accepted[v.mobile] # None /\ v.at <= accepted[v.mobile]
    BY <1>1 DEF AccountsInv, SessionsHold, Holds
<1>4. accepted[v.mobile] \in Int
    BY <1>2, <1>3 DEF AccountsInv, TypeOK
<1>. HIDE DEF v, n
<1>5. now - accepted[v.mobile] <= 1
    BY <1>1, <1>2, <1>3, <1>4
<1>. QED
    BY <1>1, <1>2, <1>3, <1>5 DEF n

LEMMA register_identityKeeps ==
    ASSUME AccountsInv, ThrottleTypeOK', NEW s \in Session, NEW code \in NationalCode,
           register_identity(s, code)
    PROVE  AccountsInv'
<1> DEFINE n == get_verified_mobile(s, "register")
<1>1. n \in Number /\ n \in Reads[s]
    BY VerifiedIsRead DEF register_identity, Purpose
<1>2. PICK text \in IdentityForm[code], answer \in Answer :
          /\ verify_identity(n, text, answer)
          /\ session' = IF Confirms(answer)
                        THEN [session EXCEPT ![s].identity = text] ELSE session
    BY DEF register_identity
<1>. HIDE DEF n
<1>3. /\ text = code /\ mistyped' = mistyped
      /\ matches \subseteq matches' /\ matches' \subseteq IdentityRows /\ MatchesAreOwners'
      /\ Confirms(answer) => <<n, code>> \in matches'
    BY <1>1, <1>2, InquiryHolds
<1>4. AccountsHold' /\ AcceptedBefore' /\ Grows
    BY <1>3, MatchesGrow, MoreMatchesGrow
    DEF register_identity, AccountsInv, AcceptedBefore, history
<1>5. session[s] \in Sessions /\ Holds(s, session[s], accepted, matches)
    BY DEF AccountsInv, TypeOK, SessionsHold
<1> DEFINE e == [session[s] EXCEPT !.identity = code]
<1>6. e \in Sessions
    BY <1>5 DEF Sessions
<1>7. session' \in {session, [session EXCEPT ![s] = e]}
    BY <1>2, <1>3 DEF AccountsInv, TypeOK
<1>8. TypeOK'
    <2>. HIDE DEF e
    <2>. QED
        BY <1>3, <1>6, <1>7 DEF register_identity, AccountsInv, TypeOK, history
<1>9. SessionsHold'
    <2>1. CASE Confirms(answer)
        <3>1. Holds(s, session[s], accepted', matches')
            BY <1>4, <1>5, <1>8, SessionsStillHold DEF AccountsInv
        <3>2. Holds(s, e, accepted', matches')
            BY <1>1, <1>3, <1>5, <2>1, <3>1, IdentityHolds
        <3>. HIDE DEF e
        <3>3. session' = [session EXCEPT ![s] = e]
            BY <1>2, <1>3, <2>1 DEF e, AccountsInv, TypeOK
        <3>4. session'[s] = e /\ \A r \in Session \ {s} : session'[r] = session[r]
            BY <3>3 DEF AccountsInv, TypeOK
        <3>. QED
            BY <1>4, <1>8, <3>2, <3>4, OneSessionChanges DEF AccountsInv
    <2>2. CASE ~Confirms(answer)
        BY <1>2, <1>4, <1>8, <2>2, SameSessions DEF AccountsInv
    <2>. QED
        BY <2>1, <2>2
<1>. QED
    BY <1>4, <1>8, <1>9 DEF AccountsInv

(* The end of a registration: the flow is over and the visitor logged in.  *)
LEMMA RegisteredHolds ==
    ASSUME AccountsInv, NEW s \in Session, NEW n \in Number, n \in Reads[s], NEW row
    PROVE  LET e == LoggedInAfterRegistration(s, n, row) IN
           e \in Sessions /\ Holds(s, e, accepted, matches)
<1> DEFINE d == clear_flow(session[s], "register")
<1>1. session[s] \in Sessions /\ Holds(s, session[s], accepted, matches)
    BY DEF AccountsInv, TypeOK, SessionsHold
<1>2. d \in Sessions /\ Holds(s, d, accepted, matches)
    BY <1>1, ClearedHolds DEF Purpose
<1>. HIDE DEF d
<1> DEFINE data == [d EXCEPT !.identity = None]
<1>3. data \in Sessions /\ Holds(s, data, accepted, matches)
    BY <1>2, IdentityHolds
<1>. HIDE DEF data
<1>4. auth_login(data, n) \in Sessions /\ Holds(s, auth_login(data, n), accepted, matches)
    BY <1>3, LoggedInHolds
<1>5. LoggedInAfterRegistration(s, n, row) \in {auth_login(data, n), NewSession}
    BY DEF LoggedInAfterRegistration, data, d
<1>. QED
    BY <1>4, <1>5, NewSessionHolds

LEMMA register_completeKeeps ==
    ASSUME AccountsInv, ThrottleTypeOK', NEW s \in Session, register_complete(s)
    PROVE  AccountsInv'
<1> DEFINE n == get_verified_mobile(s, "register")
           row == CompletedRow(s)
           save == [mobile |-> n, national_code |-> session[s].identity]
           e == LoggedInAfterRegistration(s, n, row)
<1>1. n \in Number /\ n \in Reads[s]
    BY VerifiedIsRead DEF register_complete, Purpose
<1>2. row \in UserRows /\ row # None /\ row.national_code = None /\ row.password = s
    <2>1. row \in UserRows
        BY DEF CompletedRow, UserRows
    <2>. QED
        BY <2>1, NoneIsNothing DEF CompletedRow
<1>3. e \in Sessions /\ Holds(s, e, accepted, matches)
    BY <1>1, RegisteredHolds
<1>4. /\ users[n] = None /\ users' = [users EXCEPT ![n] = row]
      /\ registered' = registered \cup {n} /\ saving[s] = None
      /\ UNCHANGED <<now, sent, matches, mistyped, accepted, crashed, effort, edits>>
    BY DEF register_complete, IsUniqueNumber, IsIdle, inquiries
<1>5. \/ /\ session[s].identity = None
         /\ session' = [session EXCEPT ![s] = e] /\ saving' = saving
      \/ /\ session[s].identity # None
         /\ saving' = [saving EXCEPT ![s] = save] /\ session' = session
    BY DEF register_complete
<1>6. session[s].identity # None =>
          /\ save \in Saves /\ save # None
          /\ \E m \in Reads[s] : <<m, save.national_code>> \in matches
    <2> SUFFICES ASSUME session[s].identity # None
                 PROVE  /\ save \in Saves /\ save # None
                        /\ \E m \in Reads[s] : <<m, save.national_code>> \in matches
        OBVIOUS
    <2>1. session[s].identity \in NationalCode
        BY DEF AccountsInv, TypeOK, Sessions
    <2>2. save \in Saves
        BY <1>1, <2>1 DEF Saves
    <2>3. \E m \in Reads[s] : <<m, session[s].identity>> \in matches
        BY DEF AccountsInv, SessionsHold, Holds
    <2>. QED
        BY <2>2, <2>3, NoneIsNothing
<1>7. IDENTITY_REQUIRED_FOR_REGISTRATION => session[s].identity # None
    BY DEF register_complete, HasIdentity
<1>8. save.mobile = n
    OBVIOUS
<1>. HIDE DEF n, row, save, e
<1>9. TypeOK'
    BY <1>1, <1>2, <1>3, <1>4, <1>5, <1>6 DEF AccountsInv, TypeOK
<1>10. \A m \in Number : users'[m] = IF m = n THEN row ELSE users[m]
    BY <1>1, <1>4 DEF AccountsInv, TypeOK
<1>11. RowsHold'
    BY <1>1, <1>2, <1>4, <1>10 DEF AccountsInv, AccountsHold, RowsHold, RowHolds
<1>12. SavesHold'
    <2>1. \A r \in Session : saving[r] # None => SaveHolds(r, saving[r], users', matches)
        <3>1. \A r \in Session : saving[r] # None => saving[r].mobile \in Number
            BY DEF AccountsInv, TypeOK, Saves
        <3>. QED
            BY <1>2, <1>10, <3>1 DEF AccountsInv, AccountsHold, SavesHold, SaveHolds
    <2>2. session[s].identity # None => SaveHolds(s, save, users', matches)
        BY <1>1, <1>2, <1>6, <1>8, <1>10 DEF SaveHolds
    <2>3. \A r \in Session :
              \/ saving'[r] = saving[r]
              \/ r = s /\ saving'[r] = save /\ session[s].identity # None
        <3>1. saving \in [Session -> Saves \cup {None}]
            BY DEF AccountsInv, TypeOK
        <3>. QED
            BY <1>5, <3>1
    <2>. QED
        BY <1>4, <2>1, <2>2, <2>3 DEF SavesHold
<1>13. CodesDiffer'
    BY <1>1, <1>2, <1>10 DEF AccountsInv, AccountsHold, CodesDiffer
<1>14. MatchesAreOwners' /\ TypoIsNoticed' /\ RegisteredExist'
    BY <1>1, <1>2, <1>4, <1>10
    DEF AccountsInv, AccountsHold, MatchesAreOwners, TypoIsNoticed, RegisteredExist, TypeOK
<1>15. IdentityOrTaken'
    <2> SUFFICES ASSUME IDENTITY_REQUIRED_FOR_REGISTRATION, NEW k \in Number,
                        k \in registered', users'[k].national_code = None,
                        ~\E r \in Session : saving'[r] # None /\ saving'[r].mobile = k,
                        ~crashed
                 PROVE  \E m \in Number :
                            SharesOwner(k, m) /\ users'[m] # None /\ users'[m].national_code # None
        BY <1>4 DEF IdentityOrTaken, SharesOwner
    <2>1. saving' = [saving EXCEPT ![s] = save] /\ save # None
        BY <1>5, <1>6, <1>7
    <2>2. \A r \in Session : saving'[r] = IF r = s THEN save ELSE saving[r]
        BY <2>1 DEF AccountsInv, TypeOK
    <2>3. k # n
        BY <1>8, <2>1, <2>2
    <2>4. k \in registered /\ users[k].national_code = None
        BY <1>4, <1>10, <2>3
    <2>5. ~\E r \in Session : saving[r] # None /\ saving[r].mobile = k
        BY <1>4, <2>2
    <2>6. PICK m \in Number : SharesOwner(k, m) /\ users[m] # None /\ users[m].national_code # None
        BY <2>4, <2>5 DEF AccountsInv, AccountsHold, IdentityOrTaken
    <2>7. m # n
        BY <1>4, <2>6
    <2>. QED
        BY <1>10, <2>6, <2>7
<1>16. SessionsHold'
    <2>1. Grows
        BY <1>4, NothingGrows DEF AccountsInv
    <2>2. CASE session' = [session EXCEPT ![s] = e]
        <3>1. session'[s] = e /\ \A r \in Session \ {s} : session'[r] = session[r]
            BY <2>2 DEF AccountsInv, TypeOK
        <3>. QED
            BY <1>3, <1>4, <1>9, <2>1, <3>1, OneSessionChanges DEF AccountsInv
    <2>3. CASE session' = session
        BY <1>9, <2>1, <2>3, SameSessions DEF AccountsInv
    <2>. QED
        BY <1>5, <2>2, <2>3
<1>17. AcceptedBefore'
    BY <1>4 DEF AccountsInv, AcceptedBefore
<1>. QED
    BY <1>9, <1>11, <1>12, <1>13, <1>14, <1>15, <1>16, <1>17 DEF AccountsInv, AccountsHold

(* The code that SaveIdentity has for a taken one: its owner's number is   *)
(* read here, and there.                                                   *)
LEMMA TakenCodesAreShared ==
    ASSUME AccountsInv, NEW s \in Session, saving[s] # None,
           ~NationalCodeIsUnique(saving[s].national_code)
    PROVE  \E m \in Number : /\ SharesOwner(saving[s].mobile, m)
                             /\ users[m] # None /\ users[m].national_code # None
<1> DEFINE n == saving[s].mobile
           code == saving[s].national_code
<1>1. n \in Number /\ code \in NationalCode /\ code # None
    BY NoneIsNothing DEF AccountsInv, TypeOK, Saves
<1>2. PICK m \in Number : users[m] # None /\ users[m].national_code = code
    BY DEF NationalCodeIsUnique, IsFreeCode
<1>3. PICK a \in Reads[s] : <<a, code>> \in matches
    BY DEF AccountsInv, AccountsHold, SavesHold, SaveHolds
<1>4. n \in Reads[s] /\ a \in Number
    BY <1>3, ReadersOfNumbers DEF AccountsInv, AccountsHold, SavesHold, SaveHolds
<1>5. PICK r \in Session, b \in Number : {m, b} \subseteq Reads[r] /\ <<b, code>> \in matches
    BY <1>1, <1>2 DEF AccountsInv, AccountsHold, RowsHold, RowHolds
<1>6. OwnerOf[a] = OwnerOf[b]
    BY <1>1, <1>3, <1>4, <1>5 DEF AccountsInv, AccountsHold, MatchesAreOwners
<1>7. SharesOwner(n, m)
    BY <1>3, <1>4, <1>5, <1>6 DEF SharesOwner
<1>. QED
    BY <1>1, <1>2, <1>7

LEMMA SaveIdentityKeeps ==
    ASSUME AccountsInv, ThrottleTypeOK', NEW s \in Session, SaveIdentity(s)
    PROVE  AccountsInv'
<1> DEFINE n == saving[s].mobile
           code == saving[s].national_code
           row == [users[n] EXCEPT !.national_code = code]
           e == LoggedInAfterRegistration(s, n, users[n])
<1>1. saving[s] # None /\ saving' = [saving EXCEPT ![s] = None]
      /\ UNCHANGED <<now, sent, inquiries, history, effort, edits>>
    BY DEF SaveIdentity
<1>2. n \in Number /\ code \in NationalCode /\ code # None
    BY <1>1, NoneIsNothing DEF AccountsInv, TypeOK, Saves
<1>3. n \in Reads[s] /\ users[n] # None /\ \E m \in Reads[s] : <<m, code>> \in matches
    BY <1>1 DEF AccountsInv, AccountsHold, SavesHold, SaveHolds
<1>4. row \in UserRows /\ row # None /\ row.national_code = code /\ row.password = users[n].password
    <2>1. users[n] \in UserRows
        BY <1>2, <1>3 DEF AccountsInv, TypeOK
    <2>2. row \in UserRows /\ row.national_code = code /\ row.password = users[n].password
        BY <1>2, <2>1 DEF UserRows
    <2>. QED
        BY <2>2, NoneIsNothing
<1>5. e \in Sessions /\ Holds(s, e, accepted, matches)
    BY <1>2, <1>3, RegisteredHolds
<1>6. \/ /\ NationalCodeIsUnique(code)
         /\ users' = [users EXCEPT ![n] = row] /\ session' = [session EXCEPT ![s] = e]
      \/ /\ ~NationalCodeIsUnique(code)
         /\ users' = users /\ session' = session
    BY <1>2 DEF SaveIdentity, AccountsInv, TypeOK
<1>7. ~NationalCodeIsUnique(code) =>
          \E m \in Number : SharesOwner(n, m) /\ users[m] # None /\ users[m].national_code # None
    BY <1>1, TakenCodesAreShared
<1>. HIDE DEF n, code, row, e
<1>8. TypeOK'
    BY <1>1, <1>2, <1>4, <1>5, <1>6 DEF AccountsInv, TypeOK, inquiries, history
<1>9. \A m \in Number :
          \/ users'[m] = users[m]
          \/ m = n /\ users'[m] = row /\ NationalCodeIsUnique(code)
    <2>1. users \in [Number -> UserRows \cup {None}]
        BY DEF AccountsInv, TypeOK
    <2>. QED
        BY <1>6, <2>1
<1>10. UNCHANGED <<matches, mistyped, accepted, registered, crashed>>
    BY <1>1 DEF inquiries, history
<1>11. RowsHold'
    <2>1. RowHolds(n, row, matches)
        <3>1. n \in Reads[row.password]
            BY <1>2, <1>3, <1>4 DEF AccountsInv, AccountsHold, RowsHold, RowHolds
        <3>2. PICK m \in Reads[s] : <<m, code>> \in matches
            BY <1>3
        <3>3. m \in Number
            BY <3>2, ReadersOfNumbers
        <3>4. {n, m} \subseteq Reads[s]
            BY <1>3, <3>2
        <3>. QED
            BY <1>4, <3>1, <3>2, <3>3, <3>4 DEF RowHolds
    <2>. QED
        BY <1>9, <1>10, <2>1 DEF AccountsInv, AccountsHold, RowsHold
<1>12. SavesHold'
    <2>1. \A r \in Session : saving[r] # None => saving[r].mobile \in Number
        BY DEF AccountsInv, TypeOK, Saves
    <2>2. \A r \in Session : saving'[r] # None => saving'[r] = saving[r]
        BY <1>1 DEF AccountsInv, TypeOK
    <2>. QED
        BY <1>4, <1>9, <1>10, <2>1, <2>2 DEF AccountsInv, AccountsHold, SavesHold, SaveHolds
<1>13. CodesDiffer'
    <2>1. NationalCodeIsUnique(code) =>
              \A m \in Number : users[m] # None => users[m].national_code # code
        BY DEF NationalCodeIsUnique, IsFreeCode
    <2>. QED
        BY <1>2, <1>4, <1>9, <2>1 DEF AccountsInv, AccountsHold, CodesDiffer
<1>14. MatchesAreOwners' /\ TypoIsNoticed' /\ RegisteredExist'
    BY <1>4, <1>9, <1>10
    DEF AccountsInv, AccountsHold, MatchesAreOwners, TypoIsNoticed, RegisteredExist, TypeOK
<1>15. IdentityOrTaken'
    <2> SUFFICES ASSUME IDENTITY_REQUIRED_FOR_REGISTRATION, NEW k \in Number,
                        k \in registered, users'[k].national_code = None,
                        ~\E r \in Session : saving'[r] # None /\ saving'[r].mobile = k,
                        ~crashed
                 PROVE  \E m \in Number :
                            SharesOwner(k, m) /\ users'[m] # None /\ users'[m].national_code # None
        BY <1>10 DEF IdentityOrTaken, SharesOwner
    <2>1. SUFFICES \E m \in Number :
                       SharesOwner(k, m) /\ users[m] # None /\ users[m].national_code # None
        BY <1>2, <1>4, <1>9, <2>1
    <2>2. users[k].national_code = None
        BY <1>2, <1>4, <1>9
    <2>3. CASE k = n /\ ~NationalCodeIsUnique(code)
        BY <1>7, <2>3
    <2>4. CASE k = n /\ NationalCodeIsUnique(code)
        <3>1. users'[n] = row
            <4>1. users \in [Number -> UserRows \cup {None}]
                BY DEF AccountsInv, TypeOK
            <4>. QED
                BY <1>2, <1>6, <2>4, <4>1
        <3>. QED
            BY <1>2, <1>4, <2>4, <3>1
    <2>5. CASE k # n
        <3>1. \A r \in Session : saving'[r] = saving[r] \/ r = s
            BY <1>1 DEF AccountsInv, TypeOK
        <3>2. ~\E r \in Session : saving[r] # None /\ saving[r].mobile = k
            BY <2>5, <3>1 DEF n
        <3>. QED
            BY <2>2, <3>2 DEF AccountsInv, AccountsHold, IdentityOrTaken
    <2>. QED
        BY <2>3, <2>4, <2>5
<1>16. SessionsHold'
    <2>1. Grows
        BY <1>10, NothingGrows DEF AccountsInv
    <2>2. CASE session' = [session EXCEPT ![s] = e]
        <3>1. session'[s] = e /\ \A r \in Session \ {s} : session'[r] = session[r]
            BY <2>2 DEF AccountsInv, TypeOK
        <3>. QED
            BY <1>5, <1>8, <1>10, <2>1, <3>1, OneSessionChanges DEF AccountsInv
    <2>3. CASE session' = session
        BY <1>8, <2>1, <2>3, SameSessions DEF AccountsInv
    <2>. QED
        BY <1>6, <2>2, <2>3
<1>17. AcceptedBefore'
    BY <1>1, <1>10 DEF AccountsInv, AcceptedBefore
<1>. QED
    BY <1>8, <1>11, <1>12, <1>13, <1>14, <1>15, <1>16, <1>17 DEF AccountsInv, AccountsHold

LEMMA CrashKeeps ==
    ASSUME AccountsInv, ThrottleTypeOK', NEW s \in Session, Crash(s)
    PROVE  AccountsInv'
<1>1. TypeOK'
    BY DEF Crash, AccountsInv, TypeOK, inquiries
<1>2. RowsHold' /\ CodesDiffer' /\ MatchesAreOwners' /\ RegisteredExist' /\ TypoIsNoticed'
    BY DEF Crash, AccountsInv, AccountsHold, RowsHold, RowHolds, CodesDiffer, MatchesAreOwners,
           RegisteredExist, TypoIsNoticed, inquiries
<1>3. SavesHold'
    <2>1. \A r \in Session : saving'[r] # None => saving'[r] = saving[r]
        BY DEF Crash, AccountsInv, TypeOK
    <2>. QED
        BY <2>1 DEF Crash, AccountsInv, AccountsHold, SavesHold, SaveHolds, inquiries
<1>4. IdentityOrTaken'
    BY DEF Crash, IdentityOrTaken
<1>5. Grows /\ AcceptedBefore'
    BY NothingGrows DEF Crash, AccountsInv, AcceptedBefore, inquiries
<1>6. SessionsHold'
    BY <1>1, <1>5, SameSessions DEF Crash, AccountsInv
<1>. QED
    BY <1>1, <1>2, <1>3, <1>4, <1>5, <1>6 DEF AccountsInv, AccountsHold

-----------------------------------------------------------------------------
(* A row is edited or made; its identity stays what it was.                *)
LEMMA RowEdited ==
    ASSUME AccountsInv, NEW n \in Number, NEW row \in UserRows,
           users' = [users EXCEPT ![n] = row], n \in Reads[row.password],
           row.national_code = IF users[n] = None THEN None ELSE users[n].national_code,
           UNCHANGED <<saving, matches, mistyped, registered, crashed>>
    PROVE  AccountsHold'
<1>1. \A m \in Number : users'[m] = IF m = n THEN row ELSE users[m]
    BY DEF AccountsInv, TypeOK
<1>2. row # None
    BY NoneIsNothing
<1>3. RowHolds(n, row, matches)
    BY DEF AccountsInv, AccountsHold, RowsHold, RowHolds
<1>4. RowsHold'
    BY <1>1, <1>3 DEF AccountsInv, AccountsHold, RowsHold
<1>5. IdentitiesStay
    BY <1>1, <1>2 DEF IdentitiesStay
<1>. QED
    BY <1>4, <1>5, SameIdentities DEF AccountsInv

LEMMA verify_mobileKeeps ==
    ASSUME AccountsInv, ThrottleTypeOK', NEW s \in Session, verify_mobile(s)
    PROVE  AccountsInv'
<1> DEFINE n == request_user(s)
           row == [users[n] EXCEPT !.is_mobile_verified = TRUE]
<1>1. n \in Number /\ users[n] # None
    BY DEF verify_mobile, request_user, AccountsInv, TypeOK, Sessions
<1>2. verify_otp(s, n, "verify_mobile")
    BY DEF verify_mobile
<1>3. users[n] \in UserRows
    BY <1>1 DEF AccountsInv, TypeOK
<1>4. /\ row \in UserRows /\ row.password = users[n].password
      /\ row.national_code = users[n].national_code
    BY <1>3 DEF UserRows
<1>5. n \in Reads[row.password]
    BY <1>1, <1>4 DEF AccountsInv, AccountsHold, RowsHold, RowHolds
<1>6. users' = [users EXCEPT ![n] = row]
    BY <1>1 DEF verify_mobile, AccountsInv, TypeOK
<1>. HIDE DEF n, row
<1>7. /\ sent' \subseteq SentType /\ accepted' = [accepted EXCEPT ![n] = now]
      /\ accepted' \in [Number -> 0..MaxTime \cup {None}]
    BY <1>1, <1>2, AcceptType DEF AccountsInv
<1>8. AccountsHold'
    BY <1>1, <1>4, <1>5, <1>6, RowEdited DEF verify_mobile, inquiries
<1>9. Grows /\ AcceptedBefore'
    BY <1>1, <1>7, AcceptedNow DEF verify_mobile, AccountsInv, inquiries
<1>10. TypeOK'
    BY <1>1, <1>4, <1>6, <1>7 DEF verify_mobile, AccountsInv, TypeOK, SentType, inquiries
<1>11. SessionsHold'
    BY <1>9, <1>10, SameSessions DEF verify_mobile, AccountsInv
<1>. QED
    BY <1>8, <1>9, <1>10, <1>11 DEF AccountsInv

LEMMA verify_identity_viewKeeps ==
    ASSUME AccountsInv, ThrottleTypeOK', NEW s \in Session, NEW code \in NationalCode,
           verify_identity_view(s, code)
    PROVE  AccountsInv'
<1> DEFINE n == request_user(s)
           row == [users[n] EXCEPT !.national_code = code]
<1>1. n \in Number /\ users[n] # None /\ n = session[s].user
    BY DEF verify_identity_view, request_user, AccountsInv, TypeOK, Sessions
<1>2. n \in Reads[s]
    BY <1>1, NoneIsNothing DEF AccountsInv, SessionsHold, Holds
<1>3. users[n] \in UserRows
    BY <1>1 DEF AccountsInv, TypeOK
<1>4. row \in UserRows /\ row.password = users[n].password /\ row.national_code = code
    BY <1>3 DEF UserRows
<1>5. row # None /\ code # None
    BY <1>4, NoneIsNothing
<1>6. PICK text \in IdentityForm[code], answer \in Answer :
          /\ verify_identity(n, text, answer)
          /\ users' = IF Confirms(answer) /\ NationalCodeIsUnique(text)
                      THEN [users EXCEPT ![n].national_code = text] ELSE users
    BY DEF verify_identity_view
<1>7. /\ text = code /\ mistyped' = mistyped
      /\ matches \subseteq matches' /\ matches' \subseteq IdentityRows /\ MatchesAreOwners'
      /\ Confirms(answer) => <<n, code>> \in matches'
    BY <1>1, <1>6, InquiryHolds
<1>8. \/ users' = users
      \/ /\ users' = [users EXCEPT ![n] = row]
         /\ NationalCodeIsUnique(code) /\ <<n, code>> \in matches'
    BY <1>1, <1>6, <1>7 DEF AccountsInv, TypeOK
<1>9. UNCHANGED <<now, sent, session, saving, accepted, registered, crashed, effort, edits>>
    BY DEF verify_identity_view, history
<1>. HIDE DEF n, row
<1>10. \A m \in Number :
          \/ users'[m] = users[m]
          \/ /\ m = n /\ users'[m] = row
             /\ NationalCodeIsUnique(code) /\ <<n, code>> \in matches'
    <2>1. users \in [Number -> UserRows \cup {None}]
        BY DEF AccountsInv, TypeOK
    <2>. QED
        BY <1>1, <1>8, <2>1
<1>11. TypeOK'
    BY <1>1, <1>4, <1>7, <1>8, <1>9 DEF AccountsInv, TypeOK
<1>12. RowsHold'
    <2>1. \A m \in Number : users[m] # None => RowHolds(m, users[m], matches')
        BY <1>7, RowStillHolds DEF AccountsInv, AccountsHold, RowsHold
    <2>2. <<n, code>> \in matches' => RowHolds(n, row, matches')
        <3>1. n \in Reads[row.password]
            BY <1>1, <1>4 DEF AccountsInv, AccountsHold, RowsHold, RowHolds
        <3>2. {n, n} \subseteq Reads[s]
            BY <1>2
        <3>. QED
            BY <1>1, <1>4, <3>1, <3>2 DEF RowHolds
    <2>. QED
        BY <1>10, <2>1, <2>2 DEF RowsHold
<1>13. SavesHold'
    <2>1. \A r \in Session : saving[r] # None => SaveHolds(r, saving[r], users, matches')
        BY <1>7, SaveStillHolds DEF AccountsInv, AccountsHold, SavesHold
    <2>2. \A r \in Session : saving[r] # None => saving[r].mobile \in Number
        BY DEF AccountsInv, TypeOK, Saves
    <2>. QED
        BY <1>5, <1>9, <1>10, <2>1, <2>2 DEF SavesHold, SaveHolds
<1>14. CodesDiffer'
    <2>1. NationalCodeIsUnique(code) =>
              \A m \in Number : users[m] # None => users[m].national_code # code
        BY DEF NationalCodeIsUnique, IsFreeCode
    <2>. QED
        BY <1>4, <1>10, <2>1 DEF AccountsInv, AccountsHold, CodesDiffer
<1>15. RegisteredExist' /\ TypoIsNoticed'
    BY <1>5, <1>7, <1>9, <1>10
    DEF AccountsInv, AccountsHold, RegisteredExist, TypoIsNoticed, TypeOK
<1>16. IdentityOrTaken'
    <2> SUFFICES ASSUME IDENTITY_REQUIRED_FOR_REGISTRATION, NEW k \in Number,
                        k \in registered, users'[k].national_code = None,
                        ~\E r \in Session : saving[r] # None /\ saving[r].mobile = k,
                        ~crashed
                 PROVE  \E m \in Number :
                            SharesOwner(k, m) /\ users'[m] # None /\ users'[m].national_code # None
        BY <1>9 DEF IdentityOrTaken, SharesOwner
    <2>1. users[k].national_code = None
        BY <1>4, <1>5, <1>10
    <2>2. PICK m \in Number : SharesOwner(k, m) /\ users[m] # None /\ users[m].national_code # None
        BY <2>1 DEF AccountsInv, AccountsHold, IdentityOrTaken
    <2>. QED
        BY <1>4, <1>5, <1>10, <2>2
<1>17. Grows /\ AcceptedBefore'
    BY <1>7, <1>9, MoreMatchesGrow DEF AccountsInv, AcceptedBefore
<1>18. SessionsHold'
    BY <1>9, <1>11, <1>17, SameSessions DEF AccountsInv
<1>. QED
    BY <1>7, <1>11, <1>12, <1>13, <1>14, <1>15, <1>16, <1>17, <1>18 DEF AccountsInv, AccountsHold

(* Sessions that are flushed, and one that becomes e.                      *)
LEMMA FlushKeeps ==
    ASSUME AccountsInv, TypeOK', UNCHANGED <<accepted, matches>>, NEW n \in Number,
           NEW s \in Session, NEW e \in Sessions, Holds(s, e, accepted, matches),
           session' \in {FlushedFor(n), [FlushedFor(n) EXCEPT ![s] = e]}
    PROVE  SessionsHold'
<1>1. /\ FlushedFor(n) \in [Session -> Sessions]
      /\ \A r \in Session : Holds(r, FlushedFor(n)[r], accepted, matches)
    BY FlushedHolds DEF AccountsInv
<1>2. \A r \in Session : session'[r] = FlushedFor(n)[r] \/ (r = s /\ session'[r] = e)
    BY <1>1
<1>. QED
    BY <1>1, <1>2 DEF SessionsHold

LEMMA change_passwordKeeps ==
    ASSUME AccountsInv, ThrottleTypeOK', NEW s \in Session, change_password(s)
    PROVE  AccountsInv'
<1> DEFINE n == request_user(s)
<1>1. n \in Number
    BY DEF change_password, request_user, AccountsInv, TypeOK, Sessions
<1>2. FlushedFor(n) \in [Session -> Sessions]
    BY <1>1, FlushedHolds DEF AccountsInv
<1>3. session[s] \in Sessions /\ Holds(s, session[s], accepted, matches)
    BY DEF AccountsInv, TypeOK, SessionsHold
<1>4. session' = [FlushedFor(n) EXCEPT ![s] = session[s]]
      /\ UNCHANGED <<now, users, sent, saving, inquiries, history, effort, edits>>
    BY DEF change_password
<1>. HIDE DEF n
<1>5. TypeOK'
    BY <1>2, <1>3, <1>4 DEF AccountsInv, TypeOK, inquiries, history
<1>6. SessionsHold'
    BY <1>1, <1>3, <1>4, <1>5, FlushKeeps DEF inquiries, history
<1>7. AccountsHold' /\ AcceptedBefore'
    BY <1>4, SameAccounts DEF AccountsInv, AcceptedBefore, inquiries, history
<1>. QED
    BY <1>5, <1>6, <1>7 DEF AccountsInv

LEMMA password_reset_newKeeps ==
    ASSUME AccountsInv, ThrottleTypeOK', NEW s \in Session, password_reset_new(s)
    PROVE  AccountsInv'
<1> DEFINE n == get_verified_mobile(s, "password_reset")
           done == clear_flow(session[s], "password_reset")
           e == IF session[s].user = n THEN NewSession ELSE done
           row == [users[n] EXCEPT !.password = s]
<1>1. n \in Number /\ n \in Reads[s]
    BY VerifiedIsRead DEF password_reset_new, Purpose
<1>2. session[s] \in Sessions /\ Holds(s, session[s], accepted, matches)
    BY DEF AccountsInv, TypeOK, SessionsHold
<1>3. done \in Sessions /\ Holds(s, done, accepted, matches)
    BY <1>2, ClearedHolds DEF Purpose
<1>4. UNCHANGED <<now, sent, saving, inquiries, history, effort, edits>>
    BY DEF password_reset_new
<1>5. CASE ~IsActiveUser(n)
    <2>1. session' = [session EXCEPT ![s] = done] /\ users' = users
        BY <1>5 DEF password_reset_new
    <2>2. sent' \subseteq SentType /\ effort' \in 0..MaxEffort
        BY <1>4 DEF AccountsInv, TypeOK, SentType
    <2>. HIDE DEF done
    <2>. QED
        BY <1>3, <1>4, <2>1, <2>2, OneSessionKeeps
<1>6. CASE IsActiveUser(n)
    <2>1. /\ users' = [users EXCEPT ![n].password = s]
          /\ session' = [FlushedFor(n) EXCEPT ![s] = e]
        BY <1>6 DEF password_reset_new
    <2>2. e \in Sessions /\ Holds(s, e, accepted, matches)
        BY <1>3, NewSessionHolds
    <2>3. users[n] \in UserRows /\ users[n] # None
        BY <1>1, <1>6 DEF IsActiveUser, AccountsInv, TypeOK
    <2>4. row \in UserRows /\ row.password = s /\ row.national_code = users[n].national_code
        BY <2>3 DEF UserRows
    <2>5. users' = [users EXCEPT ![n] = row]
        BY <1>1, <2>1 DEF AccountsInv, TypeOK
    <2>6. FlushedFor(n) \in [Session -> Sessions]
        BY <1>1, FlushedHolds DEF AccountsInv
    <2>. HIDE DEF n, e, row, done
    <2>7. AccountsHold'
        BY <1>1, <1>4, <2>3, <2>4, <2>5, RowEdited DEF inquiries, history
    <2>8. TypeOK'
        BY <1>1, <1>4, <2>1, <2>2, <2>4, <2>5, <2>6 DEF AccountsInv, TypeOK, inquiries, history
    <2>9. SessionsHold'
        BY <1>1, <1>4, <2>1, <2>2, <2>8, FlushKeeps DEF inquiries, history
    <2>10. AcceptedBefore'
        BY <1>4 DEF AccountsInv, AcceptedBefore, history
    <2>. QED
        BY <2>7, <2>8, <2>9, <2>10 DEF AccountsInv
<1>. QED
    BY <1>5, <1>6

LEMMA AdministerKeeps ==
    ASSUME AccountsInv, ThrottleTypeOK', NEW n \in Number, Administer(n)
    PROVE  AccountsInv'
<1>1. ASSUME Edit, UNCHANGED <<now, sent, saving, inquiries, history>>,
             NEW row \in UserRows, users' = [users EXCEPT ![n] = row], n \in Reads[row.password],
             row.national_code = IF users[n] = None THEN None ELSE users[n].national_code,
             session' \in {session, FlushedFor(n)}
      PROVE  AccountsInv'
    <2>1. AccountsHold'
        BY <1>1, RowEdited DEF inquiries, history
    <2>2. effort' \in 0..MaxEffort /\ edits' \in 0..MaxEdits
        <3>1. Spend(EDIT) /\ EDIT \in Nat
            BY <1>1 DEF Edit, EDIT
        <3>. QED
            BY <1>1, <3>1, SpendType, BoundsAreNat DEF Edit, AccountsInv, TypeOK
    <2>3. FlushedFor(n) \in [Session -> Sessions]
        BY FlushedHolds DEF AccountsInv
    <2>4. TypeOK'
        BY <1>1, <2>2, <2>3 DEF AccountsInv, TypeOK, inquiries, history
    <2>5. AcceptedBefore' /\ UNCHANGED <<accepted, matches>>
        BY <1>1 DEF AccountsInv, AcceptedBefore, inquiries, history
    <2>6. SessionsHold'
        <3>1. CASE session' = session
            BY <2>4, <2>5, <3>1, NothingGrows, SameSessions DEF AccountsInv
        <3>2. CASE session' = FlushedFor(n)
            <4>1. \A r \in Session : Holds(r, FlushedFor(n)[r], accepted, matches)
                BY FlushedHolds DEF AccountsInv
            <4>. QED
                BY <2>5, <3>2, <4>1 DEF SessionsHold
        <3>. QED
            BY <1>1, <3>1, <3>2
    <2>. QED
        BY <2>1, <2>4, <2>5, <2>6 DEF AccountsInv
<1>2. users[n] # None => users[n] \in UserRows /\ n \in Reads[users[n].password]
    BY DEF AccountsInv, TypeOK, AccountsHold, RowsHold, RowHolds
<1>3. CASE SetActive(n)
    <2> DEFINE row == [users[n] EXCEPT !.is_active = ~@]
    <2>1. /\ row \in UserRows /\ row.password = users[n].password
          /\ row.national_code = users[n].national_code /\ users[n] # None
        BY <1>2, <1>3 DEF SetActive, UserRows
    <2>2. users' = [users EXCEPT ![n] = row]
        BY <1>3 DEF SetActive, AccountsInv, TypeOK
    <2>. HIDE DEF row
    <2>. QED
        BY <1>1, <1>2, <1>3, <2>1, <2>2 DEF SetActive
<1>4. CASE mark_mobile_verified(n)
    <2> DEFINE row == [users[n] EXCEPT !.is_mobile_verified = TRUE]
    <2>1. /\ row \in UserRows /\ row.password = users[n].password
          /\ row.national_code = users[n].national_code /\ users[n] # None
        BY <1>2, <1>4 DEF mark_mobile_verified, UserRows
    <2>2. users' = [users EXCEPT ![n] = row]
        BY <1>4 DEF mark_mobile_verified, AccountsInv, TypeOK
    <2>. HIDE DEF row
    <2>. QED
        BY <1>1, <1>2, <1>4, <2>1, <2>2 DEF mark_mobile_verified
<1>5. ASSUME NEW s \in Session, make_admin(n, s)
      PROVE  AccountsInv'
    <2> DEFINE row == IF users[n] = None THEN CompletedRow(s)
                      ELSE [users[n] EXCEPT !.password = s, !.is_active = TRUE,
                                            !.is_mobile_verified = TRUE]
    <2>1. /\ row \in UserRows /\ row.password = s
          /\ row.national_code = IF users[n] = None THEN None ELSE users[n].national_code
        BY <1>2 DEF CompletedRow, UserRows
    <2>2. users' = [users EXCEPT ![n] = row]
        BY <1>5 DEF make_admin, AccountsInv, TypeOK
    <2>. HIDE DEF row
    <2>. QED
        BY <1>1, <1>5, <2>1, <2>2 DEF make_admin
<1>. QED
    BY <1>3, <1>4, <1>5 DEF Administer

-----------------------------------------------------------------------------
(* All steps together, and those of the contact page.                      *)
LEMMA NextThrottles ==
    ASSUME [WebsiteNext]_websiteVars, ThrottleTypeOK
    PROVE  ThrottleStep /\ ThrottleTypeOK'
<1>1. ThrottleStep
    <2>1. ASSUME NEW s \in Session, NEW k \in Key, LogIn(s, k)
          PROVE  ThrottleStep
        BY <2>1 DEF LogIn, ThrottleStep, throttleVars
    <2>2. ASSUME NEW s \in Session, NEW k \in Key, FailToLogIn(s, k)
          PROVE  ThrottleStep
        BY <2>2 DEF FailToLogIn, ThrottleStep
    <2>3. ASSUME NEW s \in Session, CountFailure(s)
          PROVE  ThrottleStep
        BY <2>3 DEF CountFailure, ThrottleStep
    <2>4. CASE Tick
        BY <2>4 DEF Tick, ThrottleStep
    <2>5. CASE UNCHANGED throttleVars
        BY <2>5 DEF ThrottleStep
    <2>6. ASSUME NEW s \in Session,
                 Register(s) \/ Resend(s) \/ ResetPassword(s) \/ VerifyUser(s) \/ logout(s)
          PROVE  UNCHANGED throttleVars
        BY <2>6 DEF Register, register, register_verify, register_identity, register_complete,
                    SaveIdentity, Crash, Resend, ResetPassword, password_reset,
                    password_reset_verify, password_reset_new, VerifyUser, SendMobileCode,
                    verify_mobile, change_password, verify_identity_view, logout, throttleVars
    <2>7. ASSUME NEW n \in Number, Administer(n)
          PROVE  UNCHANGED throttleVars
        BY <2>7 DEF Administer, SetActive, mark_mobile_verified, make_admin, throttleVars
    <2>8. CASE Next
        BY <2>1, <2>2, <2>3, <2>4, <2>5, <2>6, <2>7, <2>8 DEF Next, Enter
    <2>9. CASE UNCHANGED websiteVars
        BY <2>5, <2>9 DEF websiteVars, vars
    <2>10. ASSUME NEW s \in Session, Press(s) \/ Reload(s)
           PROVE  UNCHANGED throttleVars
        BY <2>10 DEF Press, Reload, vars
    <2>11. ASSUME NEW i, NEW read, mark_as_read(i, read)
           PROVE  UNCHANGED throttleVars
        BY <2>11 DEF mark_as_read
    <2>. QED
        BY <2>5, <2>8, <2>9, <2>10, <2>11 DEF WebsiteNext
<1>. QED
    BY <1>1, ThrottleTypeStep

LEMMA InitHolds ==
    ASSUME Init
    PROVE  AccountsInv
<1>1. \A n \in Number : users[n] # None =>
          /\ users[n] \in UserRows /\ n \in Reads[users[n].password]
          /\ users[n].national_code = None
    BY DEF Init, GivenAccount, UserRows
<1>2. \A s \in Session : session[s] = NewSession /\ saving[s] = None
    BY DEF Init
<1>3. TypeOK
    <2>1. ThrottleTypeOK
        BY DEF Init, ThrottleInit, ThrottleTypeOK, Logins
    <2>2. \A s \in Session : NewSession \in Sessions
        BY NewSessionHolds
    <2>3. session \in [Session -> Sessions] /\ saving \in [Session -> Saves \cup {None}]
        BY <2>2 DEF Init
    <2>4. users \in [Number -> UserRows \cup {None}] /\ accepted \in [Number -> 0..MaxTime \cup {None}]
        BY DEF Init
    <2>5. now \in 0..MaxTime /\ effort \in 0..MaxEffort /\ edits \in 0..MaxEdits
        BY BoundsAreNat DEF Init
    <2>6. /\ sent = {} /\ matches = {} /\ mistyped = {} /\ registered = {} /\ crashed = FALSE
        BY DEF Init
    <2>. QED
        BY <2>1, <2>3, <2>4, <2>5, <2>6 DEF TypeOK
<1>4. SessionsHold
    BY <1>2, NewSessionHolds DEF SessionsHold
<1>5. AcceptedBefore
    BY DEF Init, AcceptedBefore
<1>6. AccountsHold
    BY <1>1, <1>2
    DEF Init, AccountsHold, RowsHold, RowHolds, SavesHold, CodesDiffer, MatchesAreOwners,
        RegisteredExist, IdentityOrTaken, TypoIsNoticed
<1>. QED
    BY <1>3, <1>4, <1>5, <1>6 DEF AccountsInv

LEMMA NextKeeps ==
    ASSUME AccountsInv, ThrottleTypeOK', Next
    PROVE  AccountsInv'
<1>1. ASSUME NEW s \in Session, Register(s)
      PROVE  AccountsInv'
    BY <1>1, registerKeeps, register_verifyKeeps, register_identityKeeps, register_completeKeeps,
       SaveIdentityKeeps, CrashKeeps DEF Register
<1>2. ASSUME NEW s \in Session, ResetPassword(s)
      PROVE  AccountsInv'
    BY <1>2, password_resetKeeps, password_reset_verifyKeeps, password_reset_newKeeps
    DEF ResetPassword
<1>3. ASSUME NEW s \in Session, VerifyUser(s)
      PROVE  AccountsInv'
    BY <1>3, QuietStepsKeep, verify_mobileKeeps, change_passwordKeeps, verify_identity_viewKeeps
    DEF VerifyUser
<1>4. ASSUME NEW s \in Session, Enter(s)
      PROVE  AccountsInv'
    BY <1>4, QuietStepsKeep, LogInKeeps, logoutKeeps DEF Enter
<1>. QED
    BY <1>1, <1>2, <1>3, <1>4, QuietStepsKeep, AdministerKeeps DEF Next

(* The contact page takes from the budgets and changes nothing else here.  *)
LEMMA OnlyBudgetsChange ==
    ASSUME AccountsInv, ThrottleTypeOK', effort' \in 0..MaxEffort, edits' \in 0..MaxEdits,
           UNCHANGED <<now, flowVars>>
    PROVE  AccountsInv'
<1>1. TypeOK'
    BY DEF AccountsInv, TypeOK, flowVars, inquiries, history
<1>2. AccountsHold' /\ AcceptedBefore' /\ Grows
    BY SameAccounts, NothingGrows DEF AccountsInv, AcceptedBefore, flowVars, inquiries, history
<1>3. SessionsHold'
    BY <1>1, <1>2, SameSessions DEF AccountsInv, flowVars
<1>. QED
    BY <1>1, <1>2, <1>3 DEF AccountsInv

LEMMA WebsiteNextKeeps ==
    ASSUME AccountsInv, [WebsiteNext]_websiteVars
    PROVE  AccountsInv'
<1>1. ThrottleTypeOK'
    BY NextThrottles DEF AccountsInv, TypeOK
<1>2. effort \in 0..MaxEffort /\ edits \in 0..MaxEdits /\ MaxEdits \in Nat
    BY BoundsAreNat DEF AccountsInv, TypeOK
<1>3. CASE Next
    BY <1>1, <1>3, NextKeeps
<1>4. CASE UNCHANGED websiteVars
    BY <1>1, <1>2, <1>4, OnlyBudgetsChange DEF websiteVars, vars
<1>5. ASSUME NEW s \in Session, Press(s)
      PROVE  AccountsInv'
    <2>1. Spend(2 * SMS) /\ 2 * SMS \in Nat
        BY <1>5 DEF Press, SMS
    <2>2. effort' \in 0..MaxEffort
        BY <2>1, SpendType DEF AccountsInv
    <2>. QED
        BY <1>1, <1>2, <1>5, <2>2, OnlyBudgetsChange DEF Press
<1>6. ASSUME NEW s \in Session, Reload(s)
      PROVE  AccountsInv'
    BY <1>1, <1>2, <1>6, OnlyBudgetsChange DEF Reload, vars
<1>7. ASSUME NEW i, NEW read, mark_as_read(i, read)
      PROVE  AccountsInv'
    <2>1. Spend(EDIT) /\ EDIT \in Nat
        BY <1>7 DEF mark_as_read, Edit, EDIT
    <2>2. effort' \in 0..MaxEffort
        BY <2>1, SpendType DEF AccountsInv
    <2>3. edits' \in 0..MaxEdits
        BY <1>2, <1>7 DEF mark_as_read, Edit
    <2>. QED
        BY <1>1, <1>7, <2>2, <2>3, OnlyBudgetsChange DEF mark_as_read
<1>. QED
    BY <1>3, <1>4, <1>5, <1>6, <1>7 DEF WebsiteNext

LEMMA AccountsInvariant == WebsiteSpec => []AccountsInv
<1>1. WebsiteInit => AccountsInv
    BY InitHolds DEF WebsiteInit
<1>2. AccountsInv /\ [WebsiteNext]_websiteVars => AccountsInv'
    BY WebsiteNextKeeps
<1>. QED
    BY <1>1, <1>2, PTL DEF WebsiteSpec

(* Whoever knows the password of an account, and whoever is logged in to   *)
(* it, reads the messages of its number, whatever the order of the steps   *)
(* of register_complete_view, password_reset_new_view, login_view and      *)
(* the administrator.                                                      *)
THEOREM AccountsAreTheirOwners == WebsiteSpec => []OwnersOnly
<1>1. AccountsInv => OwnersOnly
    BY DEF AccountsInv, SessionsHold, Holds, AccountsHold, RowsHold, RowHolds, OwnersOnly
<1>. QED
    BY <1>1, AccountsInvariant, PTL

(* An identity belongs to one account and was matched by the service for a *)
(* number that its reader reads (register_identity_view, verify_identity). *)
THEOREM IdentitiesWereMatched == WebsiteSpec => []IdentityWasMatched
<1>1. AccountsInv => IdentityWasMatched
    BY DEF AccountsInv, AccountsHold, RowsHold, RowHolds, CodesDiffer, IdentityWasMatched
<1>. QED
    BY <1>1, AccountsInvariant, PTL

(* Where the identity is required, a registered account is without one     *)
(* only if a worker was killed or another account of an owner in common    *)
(* has it (register_complete_view and its second query).                   *)
THEOREM RegisteredHaveIdentities == WebsiteSpec => []IdentityOrTaken
<1>1. AccountsInv => IdentityOrTaken
    BY DEF AccountsInv, AccountsHold
<1>. QED
    BY <1>1, AccountsInvariant, PTL

(* No slip in a national code reaches the paid service from any form       *)
(* (clean_national_code before verify_identity).                           *)
THEOREM NoTypoIsPaidFor == WebsiteSpec => []TypoIsNoticed
<1>1. AccountsInv => TypoIsNoticed
    BY DEF AccountsInv, AccountsHold
<1>. QED
    BY <1>1, AccountsInvariant, PTL

(* A password is set by a visitor, and an account made, at most            *)
(* VERIFIED_STATE_SECONDS after a code of its number was accepted          *)
(* (get_verified_mobile in register_complete_view, password_reset_new).    *)
THEOREM ProofsAreFresh == WebsiteSpec => FreshProof
<1> DEFINE Fresh ==
        edits' = edits => \A n \in Number :
          \/ users[n] = None /\ users'[n] # None
          \/ users[n] # None /\ users'[n].password # users[n].password
          => accepted[n] # None /\ now - accepted[n] <= 1
<1>1. ASSUME AccountsInv, [WebsiteNext]_websiteVars
      PROVE  Fresh \/ UNCHANGED vars
    <2>0. users \in [Number -> UserRows \cup {None}]
        BY <1>1 DEF AccountsInv, TypeOK
    <2>1. CASE users' = users
        BY <2>1
    <2>2. ASSUME NEW n \in Number, Administer(n)
          PROVE  Fresh
        <3>1. edits' = edits + 1
            BY <2>2 DEF Administer, SetActive, mark_mobile_verified, make_admin, Edit
        <3>2. edits \in Int
            BY <1>1 DEF AccountsInv, TypeOK
        <3>. QED
            BY <3>1, <3>2
    <2>3. ASSUME NEW s \in Session, register_complete(s)
          PROVE  Fresh
        <3> DEFINE n == get_verified_mobile(s, "register")
        <3>1. n # None /\ users' = [users EXCEPT ![n] = CompletedRow(s)]
            BY <2>3 DEF register_complete
        <3>2. accepted[n] # None /\ now - accepted[n] <= 1
            BY <1>1, <3>1, VerifiedIsRead DEF Purpose
        <3>. HIDE DEF n
        <3>3. \A m \in Number : m # n => users'[m] = users[m]
            BY <2>0, <3>1
        <3>. QED
            BY <3>2, <3>3
    <2>4. ASSUME NEW s \in Session, password_reset_new(s)
          PROVE  Fresh
        <3> DEFINE n == get_verified_mobile(s, "password_reset")
        <3>1. n # None /\ (users' = users \/ users' = [users EXCEPT ![n].password = s])
            BY <2>4 DEF password_reset_new
        <3>2. accepted[n] # None /\ now - accepted[n] <= 1
            BY <1>1, <3>1, VerifiedIsRead DEF Purpose
        <3>. HIDE DEF n
        <3>3. \A m \in Number : m # n => users'[m] = users[m]
            BY <2>0, <3>1
        <3>. QED
            BY <3>2, <3>3
    <2>5. ASSUME NEW s \in Session, SaveIdentity(s)
          PROVE  Fresh
        <3>1. saving[s] # None /\ users[saving[s].mobile] # None
            BY <1>1, <2>5 DEF SaveIdentity, AccountsInv, AccountsHold, SavesHold, SaveHolds
        <3>2. users' = users \/
              users' = [users EXCEPT ![saving[s].mobile].national_code = saving[s].national_code]
            BY <2>5 DEF SaveIdentity
        <3>3. \A m \in Number : users[m] # None => users[m] \in UserRows
            BY <2>0
        <3>4. \A m \in Number :
                  /\ users[m] # None => users'[m].password = users[m].password
                  /\ users[m] = None => users'[m] = None
            BY <2>0, <3>1, <3>2, <3>3 DEF UserRows
        <3>. QED
            BY <3>4
    <2>6. ASSUME NEW s \in Session, verify_mobile(s)
          PROVE  Fresh
        <3>1. users' = [users EXCEPT ![request_user(s)].is_mobile_verified = TRUE]
            BY <2>6 DEF verify_mobile
        <3>2. request_user(s) # None /\ users[request_user(s)] # None
            BY <2>6 DEF verify_mobile, request_user
        <3>3. \A m \in Number :
                  /\ users[m] # None => users'[m].password = users[m].password
                  /\ users[m] = None => users'[m] = None
            BY <2>0, <3>1, <3>2 DEF UserRows
        <3>. QED
            BY <3>3
    <2>7. ASSUME NEW s \in Session, NEW code \in NationalCode, verify_identity_view(s, code)
          PROVE  Fresh
        <3>1. PICK text : \/ users' = users
                          \/ users' = [users EXCEPT ![request_user(s)].national_code = text]
            BY <2>7 DEF verify_identity_view
        <3>2. request_user(s) # None /\ users[request_user(s)] # None
            BY <2>7 DEF verify_identity_view, request_user
        <3>3. \A m \in Number :
                  /\ users[m] # None => users'[m].password = users[m].password
                  /\ users[m] = None => users'[m] = None
            BY <2>0, <3>1, <3>2 DEF UserRows
        <3>. QED
            BY <3>3
    <2>8. ASSUME NEW s \in Session, Register(s)
          PROVE  Fresh
        BY <2>1, <2>3, <2>5, <2>8 DEF Register, register, register_verify, register_identity, Crash
    <2>9. ASSUME NEW s \in Session, ResetPassword(s)
          PROVE  Fresh
        BY <2>1, <2>4, <2>9 DEF ResetPassword, password_reset, password_reset_verify
    <2>10. ASSUME NEW s \in Session, VerifyUser(s)
           PROVE  Fresh
        BY <2>1, <2>6, <2>7, <2>10 DEF VerifyUser, SendMobileCode, change_password
    <2>11. ASSUME NEW s \in Session, Enter(s) \/ Resend(s)
           PROVE  Fresh
        BY <2>1, <2>11 DEF Enter, LogIn, FailToLogIn, CountFailure, logout, Resend, flowVars
    <2>12. CASE Tick
        BY <2>1, <2>12 DEF Tick
    <2>13. CASE Next
        BY <2>2, <2>8, <2>9, <2>10, <2>11, <2>12, <2>13 DEF Next
    <2>14. CASE UNCHANGED websiteVars
        BY <2>14 DEF websiteVars
    <2>15. ASSUME NEW s \in Session, Press(s) \/ Reload(s)
           PROVE  users' = users
        BY <2>15 DEF Press, Reload, vars, flowVars
    <2>16. ASSUME NEW i, NEW read, mark_as_read(i, read)
           PROVE  users' = users
        BY <2>16 DEF mark_as_read, flowVars
    <2>. QED
        BY <1>1, <2>1, <2>13, <2>14, <2>15, <2>16 DEF WebsiteNext
<1>2. AccountsInv /\ [WebsiteNext]_websiteVars => [Fresh]_vars
    BY <1>1
<1>3. WebsiteSpec => [][Fresh]_vars
    BY <1>2, AccountsInvariant, PTL DEF WebsiteSpec
<1>. QED
    BY <1>3 DEF FreshProof

-----------------------------------------------------------------------------
(* The counter of failed logins, with two sessions.                        *)
LEMMA TwoSessions ==
    ASSUME Cardinality(Session) = 2
    PROVE  \E s, r \in Session : s # r /\ Session = {s, r}
<1>1. Session # {}
    BY FS_EmptySet, SessionsAreFinite
<1>2. PICK s \in Session : TRUE
    BY <1>1
<1>3. IsFiniteSet(Session \ {s}) /\ Cardinality(Session \ {s}) = 1
    BY <1>2, SessionsAreFinite, FS_RemoveElement
<1>4. PICK r : Session \ {s} = {r}
    BY <1>3, FS_Singleton
<1>. QED
    BY <1>2, <1>4

(* Two requests at a time check at most ((MAX_ATTEMPTS + 1) *              *)
(* (MAX_ATTEMPTS + 2)) / 2 - 1 wrong passwords of a number before it is    *)
(* locked (register_failed_attempt reads the counter and writes it back).  *)
THEOREM GuessesAreLimited == WebsiteSpec => []WrongPasswordsAreLimited
<1>1. CASE Cardinality(Session) # 2
    <2>1. AccountsInv => WrongPasswordsAreLimited
        BY <1>1 DEF WrongPasswordsAreLimited
    <2>. QED
        BY <2>1, AccountsInvariant, PTL
<1>2. CASE Cardinality(Session) = 2
    <2>1. PICK s \in Session, r \in Session : s # r /\ Session = {s, r}
        BY <1>2, TwoSessions
    <2>2. WebsiteInit => LimitedFor(s, r)
        <3>1. NoLogin \in Logins
            BY DEF Logins
        <3>2. SUFFICES ASSUME WebsiteInit, NEW k \in Key
                       PROVE  Limited(attempts[k], wrong[k], slot(s, k), slot(r, k))
            BY DEF LimitedFor
        <3>3. attempts[k] = 0 /\ wrong[k] = 0 /\ slot(s, k) = NoLogin /\ slot(r, k) = NoLogin
            BY <3>2 DEF WebsiteInit, Init, ThrottleInit, slot
        <3>. QED
            BY <3>1, <3>3, ClearLimits
    <2>3. AccountsInv /\ LimitedFor(s, r) /\ [WebsiteNext]_websiteVars => LimitedFor(s, r)'
        <3>1. SUFFICES ASSUME AccountsInv, LimitedFor(s, r), [WebsiteNext]_websiteVars
                       PROVE  LimitedFor(s, r)'
            OBVIOUS
        <3>2. ThrottleTypeOK /\ ThrottleStep
            BY <3>1, NextThrottles DEF AccountsInv, TypeOK
        <3>. QED
            BY <2>1, <3>1, <3>2, LimitStep
    <2>4. AccountsInv /\ LimitedFor(s, r) => WrongPasswordsAreLimited
        <3>1. SUFFICES ASSUME AccountsInv, LimitedFor(s, r), NEW k \in Key
                       PROVE  wrong[k] <= MaxGuesses
            BY DEF WrongPasswordsAreLimited, MaxGuesses
        <3>2. ThrottleTypeOK /\ Limited(attempts[k], wrong[k], slot(s, k), slot(r, k))
            BY <3>1 DEF AccountsInv, TypeOK, LimitedFor
        <3>. QED
            BY <3>2, SlotsAreSlots, LimitHolds DEF ThrottleTypeOK
    <2>. QED
        BY <2>2, <2>3, <2>4, AccountsInvariant, PTL DEF WebsiteSpec
<1>. QED
    BY <1>1, <1>2

-----------------------------------------------------------------------------
(* The contact page.  A page that a form has made is one that was refused. *)
ContactInv ==
    /\ page \in [Session -> {Get} \cup {Post(t) : t \in Typed}]
    /\ inbox \in Seq(ContactMessages)
    /\ pressed \in Nat
    /\ \A s \in Session : page[s] # Get => ~ContactForm[page[s].mobile]
    /\ OnePerPress

LEMMA GetIsNoPost ==
    ASSUME NEW t
    PROVE  Get # Post(t) /\ Get.method # "POST" /\ Post(t).method = "POST" /\ Post(t).mobile = t
BY DEF Get, Post

LEMMA ContactSteps ==
    ASSUME AccountsInv, ContactInv, [WebsiteNext]_websiteVars
    PROVE  ContactInv'
<1>1. CASE UNCHANGED contactVars
    BY <1>1 DEF ContactInv, OnePerPress, contactVars
<1>2. ASSUME NEW s \in Session, Press(s)
      PROVE  ContactInv'
    <2>1. PICK t \in InitialMobile(s) :
              /\ contact(s, Post(t))
              /\ pressed' = pressed + IF ContactForm[t] THEN 1 ELSE 0
        BY <1>2 DEF Press
    <2>2. t \in Typed
        BY <2>1 DEF InitialMobile, request_user, Typed, AccountsInv, TypeOK, Sessions
    <2>3. CASE ContactForm[t]
        <3>1. /\ inbox' = Append(inbox, [mobile |-> t, is_read |-> FALSE])
              /\ page' = [page EXCEPT ![s] = Get] /\ pressed' = pressed + 1
            BY <2>1, <2>3, GetIsNoPost DEF contact, AnswerSaved
        <3>2. [mobile |-> t, is_read |-> FALSE] \in ContactMessages
            BY <2>2 DEF ContactMessages
        <3>3. inbox' \in Seq(ContactMessages) /\ Len(inbox') = Len(inbox) + 1
            BY <3>1, <3>2 DEF ContactInv
        <3>4. OnePerPress'
            BY <3>1, <3>3 DEF ContactInv, OnePerPress
        <3>5. page' \in [Session -> {Get} \cup {Post(u) : u \in Typed}]
            BY <3>1 DEF ContactInv
        <3>. QED
            BY <3>1, <3>3, <3>4, <3>5 DEF ContactInv
    <2>4. CASE ~ContactForm[t]
        <3>1. inbox' = inbox /\ page' = [page EXCEPT ![s] = Post(t)] /\ pressed' = pressed
            BY <2>1, <2>4, GetIsNoPost DEF contact, ContactInv
        <3>2. page' \in [Session -> {Get} \cup {Post(u) : u \in Typed}]
            BY <2>2, <3>1 DEF ContactInv
        <3>3. \A r \in Session : page'[r] # Get => ~ContactForm[page'[r].mobile]
            BY <2>4, <3>1, GetIsNoPost DEF ContactInv
        <3>. QED
            BY <3>1, <3>2, <3>3 DEF ContactInv, OnePerPress
    <2>. QED
        BY <2>3, <2>4
<1>3. ASSUME NEW s \in Session, Reload(s)
      PROVE  ContactInv'
    <2>1. ~ContactForm[page[s].mobile] /\ contact(s, page[s]) /\ pressed' = pressed
        BY <1>3 DEF Reload, ContactInv
    <2>2. inbox' = inbox /\ page' = [page EXCEPT ![s] = page[s]]
        BY <2>1 DEF contact
    <2>3. page' = page
        BY <2>2 DEF ContactInv
    <2>. QED
        BY <2>1, <2>2, <2>3 DEF ContactInv, OnePerPress
<1>4. ASSUME NEW i \in DOMAIN inbox, NEW read \in BOOLEAN, mark_as_read(i, read)
      PROVE  ContactInv'
    <2>1. /\ inbox' = [inbox EXCEPT ![i].is_read = read]
          /\ page' = page /\ pressed' = pressed
        BY <1>4 DEF mark_as_read
    <2>2. i \in 1..Len(inbox) /\ inbox[i] \in ContactMessages
        BY DEF ContactInv
    <2> DEFINE message == [inbox[i] EXCEPT !.is_read = read]
    <2>3. message \in ContactMessages
        BY <2>2 DEF ContactMessages
    <2>4. inbox' = [inbox EXCEPT ![i] = message]
        BY <2>1
    <2>. HIDE DEF message
    <2>5. inbox' \in Seq(ContactMessages) /\ Len(inbox') = Len(inbox)
        BY <2>2, <2>3, <2>4 DEF ContactInv
    <2>. QED
        BY <2>1, <2>5 DEF ContactInv, OnePerPress
<1>5. UNCHANGED websiteVars => UNCHANGED contactVars
    BY DEF websiteVars
<1>. QED
    BY <1>1, <1>2, <1>3, <1>4, <1>5 DEF WebsiteNext

LEMMA ContactInvariant == WebsiteSpec => []ContactInv
<1>1. WebsiteInit => ContactInv
    BY GetIsNoPost DEF WebsiteInit, ContactInv, OnePerPress
<1>2. AccountsInv /\ ContactInv /\ [WebsiteNext]_websiteVars => ContactInv'
    BY ContactSteps
<1>. QED
    BY <1>1, <1>2, AccountsInvariant, PTL DEF WebsiteSpec

(* No presses, refused forms and reloads save more messages than visitors  *)
(* sent (contact redirects after it has saved).                            *)
THEOREM MessagesAreNotRepeated == WebsiteSpec => []OnePerPress
<1>1. ContactInv => OnePerPress
    BY DEF ContactInv
<1>. QED
    BY <1>1, ContactInvariant, PTL

(* The types of the accounts and the contact page.                         *)
THEOREM WebsiteTypes == WebsiteSpec => []WebsiteTypeOK
<1>1. AccountsInv /\ ContactInv => WebsiteTypeOK
    BY DEF AccountsInv, ContactInv, WebsiteTypeOK
<1>. QED
    BY <1>1, AccountsInvariant, ContactInvariant, PTL
=============================================================================
