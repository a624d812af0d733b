--------------------------------- MODULE Otp ---------------------------------
(***************************************************************************)
(* One-time codes (src/apps/accounts/services/otp.py): send_otp and        *)
(* verify_otp for one mobile number and one purpose.  Rows are looked up   *)
(* by number and purpose and both are part of the hash, so that numbers    *)
(* and purposes share nothing.                                             *)
(*                                                                         *)
(* Neither function opens a transaction or locks a row: a worker runs them *)
(* query by query, and time passes and other workers run in between.       *)
(***************************************************************************)
EXTENDS Integers, Sequences, FiniteSets

CONSTANTS
    Workers,        \* the server's request handlers
    Second,         \* clock ticks in a second
    Cooldown,       \* OTP_RESEND_COOLDOWN_SECONDS
    Expiry,         \* OTP_EXPIRY_SECONDS
    Hour,           \* the seconds of the window of OTP_MAX_SENDS_PER_HOUR
    MaxSends,       \* OTP_MAX_SENDS_PER_HOUR
    MaxAttempts,    \* OTP_MAX_ATTEMPTS
    MaxCodes,       \* bounds the codes ever created
    MaxTime,        \* bounds the clock, in ticks
    MaxCrashes      \* bounds the workers killed in the middle of a request

ASSUME SettingsAreNat ==
    /\ {Cooldown, Expiry, Hour, MaxSends, MaxAttempts} \subseteq Nat
    /\ {MaxCodes, MaxTime, MaxCrashes} \subseteq Nat
    /\ Second \in Nat \ {0}

ASSUME WorkersAreFinite == IsFiniteSet(Workers)

VARIABLES
    now,        \* the clock
    codes,      \* the OtpCode rows, oldest first
    request,    \* request[w]: the request worker w handles
    tries,      \* tries[i]: how often something was compared with code i
    accepted,   \* accepted[i]: how often code i was accepted
    failed,     \* the codes whose SMS the panel reported as not sent
    crashes     \* the workers killed so far

vars == <<now, codes, request, tries, accepted, failed, crashes>>
history == <<tries, accepted, failed>>

Ids == 1..Len(codes)
Rows == [created: 0..MaxTime, attempts: 0..MaxAttempts, used: BOOLEAN]
Steps == {"idle", "invalidate", "create", "sms", "attempt", "compare"}

(* What a worker holds: its step, the code it works on and the attempts it *)
(* loaded, and whether the user typed that very code.  Any other code, an  *)
(* older one included, is wrong.                                           *)
Requests == [step: Steps, code: 0..MaxCodes, attempts: 0..MaxAttempts, right: BOOLEAN]

Idle == [step |-> "idle", code |-> 0, attempts |-> 0, right |-> FALSE]

Init ==
    /\ now = 0
    /\ codes = <<>>
    /\ request = [w \in Workers |-> Idle]
    /\ tries = [i \in 1..MaxCodes |-> 0]
    /\ accepted = [i \in 1..MaxCodes |-> 0]
    /\ failed = {}
    /\ crashes = 0

-----------------------------------------------------------------------------
(* The questions the code asks the table.                                  *)

(* The waiting time is cut down to whole seconds, which ends it up to a    *)
(* second early.                                                           *)
seconds_until_resend(rows) ==
    LET wait == (rows[Len(rows)].created + Cooldown * Second - now) \div Second
    IN  IF rows = <<>> \/ wait < 0 THEN 0 ELSE wait

sends_in_last_hour(rows) ==
    Cardinality({i \in 1..Len(rows) : rows[i].created >= now - Hour * Second})

SendsUpToMaximum(rows) == sends_in_last_hour(rows) <= MaxSends  \* faulty: one too many
SendsRemain(rows) == sends_in_last_hour(rows) < MaxSends

IsExpired(row) == now >= row.created + Expiry * Second

AttemptsUpToMaximum(row) == row.attempts <= MaxAttempts         \* faulty: one too many
AttemptsRemain(row) == row.attempts < MaxAttempts

IsUsable(row) == ~row.used /\ ~IsExpired(row) /\ AttemptsRemain(row)

Unused == {i \in Ids : ~codes[i].used}
IsLatestUnused(i) == i \in Unused /\ \A j \in Unused : j <= i

-----------------------------------------------------------------------------
At(w, step) == request[w].step = step
Take(w, req) == request' = [request EXCEPT ![w] = req]
Return(w) == Take(w, Idle)
Goto(w, step) == Take(w, [request[w] EXCEPT !.step = step])

(* Asking for a code; a request that is refused changes nothing and is no  *)
(* step.                                                                   *)
SendCheck(w) ==
    /\ At(w, "idle")
    /\ seconds_until_resend(codes) = 0
    /\ SendsRemain(codes)
    /\ Goto(w, "invalidate")
    /\ UNCHANGED <<now, codes, history, crashes>>

KeepOldCodes(w) ==      \* faulty: the codes sent before stay valid
    /\ At(w, "invalidate")
    /\ Goto(w, "create")
    /\ UNCHANGED <<now, codes, history, crashes>>

Invalidate(w) ==
    /\ At(w, "invalidate")
    /\ codes' = [i \in Ids |-> [codes[i] EXCEPT !.used = TRUE]]
    /\ Goto(w, "create")
    /\ UNCHANGED <<now, history, crashes>>

CreateCode(w) ==
    /\ At(w, "create")
    /\ Len(codes) < MaxCodes
    /\ codes' = Append(codes, [created |-> now, attempts |-> 0, used |-> FALSE])
    /\ Take(w, [Idle EXCEPT !.step = "sms", !.code = Len(codes) + 1])
    /\ UNCHANGED <<now, history, crashes>>

SmsSent(w) ==
    /\ At(w, "sms")
    /\ Return(w)
    /\ UNCHANGED <<now, codes, history, crashes>>

SmsFailed(w) ==
    /\ At(w, "sms")
    /\ codes' = [codes EXCEPT ![request[w].code].used = TRUE]
    /\ failed' = failed \cup {request[w].code}
    /\ Return(w)
    /\ UNCHANGED <<now, tries, accepted, crashes>>

(* The panel takes the message, or does not answer in time, cannot be      *)
(* reached, answers with an error or with something nobody can read: all   *)
(* one failure here, even if the message went out.                         *)
SendSms(w) == SmsSent(w) \/ SmsFailed(w)

(* Typing a code.  The latest unused row is loaded and checked; without    *)
(* one, or if it has expired or has no attempts left, nothing changes.     *)
VerifyLoad(w, i, right) ==
    /\ At(w, "idle")
    /\ IsLatestUnused(i)
    /\ ~IsExpired(codes[i])
    /\ AttemptsRemain(codes[i])
    /\ Take(w, [step |-> "attempt", code |-> i, attempts |-> codes[i].attempts,
                right |-> right])
    /\ UNCHANGED <<now, codes, history, crashes>>

(* The attempt is counted from the number the worker loaded.               *)
SaveAttempt(w) ==
    /\ At(w, "attempt")
    /\ codes' = [codes EXCEPT ![request[w].code].attempts = request[w].attempts + 1]
    /\ Goto(w, "compare")
    /\ UNCHANGED <<now, history, crashes>>

Reject(w) ==
    /\ At(w, "compare")
    /\ ~request[w].right
    /\ tries' = [tries EXCEPT ![request[w].code] = @ + 1]
    /\ Return(w)
    /\ UNCHANGED <<now, codes, accepted, failed, crashes>>

AcceptAndKeep(w) ==     \* faulty: does not mark the code used
    /\ At(w, "compare")
    /\ request[w].right
    /\ tries' = [tries EXCEPT ![request[w].code] = @ + 1]
    /\ accepted' = [accepted EXCEPT ![request[w].code] = @ + 1]
    /\ Return(w)
    /\ UNCHANGED <<now, codes, failed, crashes>>

Accept(w) ==
    /\ At(w, "compare")
    /\ request[w].right
    /\ codes' = [codes EXCEPT ![request[w].code].used = TRUE]
    /\ tries' = [tries EXCEPT ![request[w].code] = @ + 1]
    /\ accepted' = [accepted EXCEPT ![request[w].code] = @ + 1]
    /\ Return(w)
    /\ UNCHANGED <<now, failed, crashes>>

Crash(w) ==
    /\ ~At(w, "idle")
    /\ crashes < MaxCrashes
    /\ crashes' = crashes + 1
    /\ Return(w)
    /\ UNCHANGED <<now, codes, history>>

Tick ==
    /\ now < MaxTime
    /\ now' = now + 1
    /\ UNCHANGED <<codes, request, history, crashes>>

Send(w) ==
    \/ SendCheck(w)
    \/ Invalidate(w)
    \/ CreateCode(w)
    \/ SendSms(w)

Verify(w) ==
    \/ \E i \in Ids, right \in BOOLEAN : VerifyLoad(w, i, right)
    \/ SaveAttempt(w)
    \/ Reject(w)
    \/ Accept(w)

Next == Tick \/ \E w \in Workers : Send(w) \/ Verify(w) \/ Crash(w)

Spec == Init /\ [][Next]_vars

-----------------------------------------------------------------------------
(* Properties.  Two requests at the same time can break the rules the      *)
(* module otp.py states: the first three properties say by how much, and   *)
(* with one worker they are the rules themselves.                          *)

(* Every variable has its type.                                            *)
TypeOK ==
    /\ now \in 0..MaxTime
    /\ codes \in Seq(Rows) /\ Len(codes) <= MaxCodes
    /\ request \in [Workers -> Requests]
    /\ tries \in [1..MaxCodes -> Nat]
    /\ accepted \in [1..MaxCodes -> Nat]
    /\ failed \subseteq Ids
    /\ crashes \in 0..MaxCrashes

(* A new code invalidates the ones before it: there are never more usable  *)
(* codes than requests that run at the same time, one if they do not.      *)
OneUsablePerWorker == Cardinality({i \in Ids : IsUsable(codes[i])}) <= Cardinality(Workers)

(* A code is spent when it is accepted: only requests that loaded it       *)
(* before, at most one per worker, can still accept it.                    *)
SpentOncePerWorker == \A i \in 1..MaxCodes : accepted[i] <= Cardinality(Workers)

(* Within any hour no more codes are created than the setting says, and    *)
(* one more for every further request that runs at the same time.          *)
SendsAreLimited ==
    \A first \in Ids :
        Cardinality({i \in first..Len(codes) :
                        codes[i].created <= codes[first].created + Hour * Second})
            <= MaxSends + Cardinality(Workers) - 1

(* One request at a time, a code is never compared with more than          *)
(* OTP_MAX_ATTEMPTS guesses, not even if workers are killed in between.    *)
GuessesAreLimited == \A i \in 1..MaxCodes : tries[i] <= MaxAttempts

Service ==
    INSTANCE CodeService WITH
        Id <- 1..MaxCodes, newest <- Len(codes), valid <- Unused, uses <- accepted

(* One request at a time, the queries of send_otp and verify_otp, stopped  *)
(* after any of them, are together a service whose codes replace each      *)
(* other and are spent once: never is a code accepted that a newer one has *)
(* replaced, also not when the newer one is spent.                         *)
ServesCodes == Service!Spec

(* A send that failed costs the user nothing: when only failed sends stand *)
(* in the way, the next one may follow at once.                            *)
Delivered == SelectSeq([i \in Ids |-> [id |-> i, created |-> codes[i].created]],
                       LAMBDA row : row.id \notin failed)

FailedSendIsFree ==
    (\A w \in Workers : At(w, "idle"))
    /\ seconds_until_resend(Delivered) = 0 /\ SendsRemain(Delivered)
    => seconds_until_resend(codes) = 0 /\ SendsRemain(codes)
=============================================================================
