------------------------------ MODULE OtpProofs ------------------------------
(***************************************************************************)
(* Theorems about Otp, for any number of workers and any settings.         *)
(***************************************************************************)
EXTENDS Otp, FiniteSetTheorems, TLAPS

(* A worker that works on a code works on one that exists, and loaded it   *)
(* with attempts left.                                                     *)
Holds(w) ==
    /\ request[w].step \in {"sms", "attempt", "compare"} => request[w].code \in Ids
    /\ request[w].step = "attempt" => request[w].attempts < MaxAttempts

TypeInv == TypeOK /\ \A w \in Workers : Holds(w)

LEMMA IdleIsRequest == Idle \in Requests
BY SettingsAreNat DEF Idle, Requests, Steps

LEMMA RequestSet ==
    ASSUME TypeOK, NEW w \in Workers, NEW req \in Requests, Take(w, req)
    PROVE  /\ request' \in [Workers -> Requests]
           /\ request'[w] = req
           /\ \A v \in Workers \ {w} : request'[v] = request[v]
BY DEF TypeOK, Take

LEMMA FunctionIsSequence ==
    ASSUME NEW S, NEW n \in Nat, NEW f \in [1..n -> S]
    PROVE  f \in Seq(S) /\ Len(f) = n
<1>1. f \in Seq(S)
    OBVIOUS
<1>2. DOMAIN f = 1..n
    OBVIOUS
<1>. QED
    BY <1>1, <1>2

LEMMA CodeIsRow ==
    ASSUME TypeOK, NEW i \in Ids
    PROVE  /\ codes[i] \in Rows
           /\ codes[i].created \in 0..MaxTime
           /\ codes[i].attempts \in 0..MaxAttempts
           /\ codes[i].used \in BOOLEAN
           /\ i \in 1..MaxCodes
           /\ i \in 0..MaxCodes
<1>1. codes[i] \in Rows
    BY DEF TypeOK, Ids
<1>2. /\ codes[i].created \in 0..MaxTime
      /\ codes[i].attempts \in 0..MaxAttempts
      /\ codes[i].used \in BOOLEAN
    BY <1>1 DEF Rows
<1>3. Len(codes) \in Nat /\ Len(codes) <= MaxCodes
    BY DEF TypeOK
<1>4. i \in 1..MaxCodes /\ i \in 0..MaxCodes
    BY <1>3, SettingsAreNat DEF Ids
<1>. QED
    BY <1>1, <1>2, <1>4

LEMMA MarkUsed ==
    ASSUME TypeOK, NEW i \in Ids
    PROVE  [codes[i] EXCEPT !.used = TRUE] \in Rows
<1>1. codes[i] \in Rows
    BY CodeIsRow
<1>. QED
    BY <1>1 DEF Rows

LEMMA InitTypeInv == Init => TypeInv
<1> SUFFICES ASSUME Init PROVE TypeInv
    OBVIOUS
<1>1. TypeOK
    <2>1. codes \in Seq(Rows) /\ Len(codes) = 0
        BY DEF Init
    <2>2. request \in [Workers -> Requests]
        BY IdleIsRequest DEF Init
    <2>. QED
        BY <2>1, <2>2, SettingsAreNat DEF Init, TypeOK
<1>2. \A w \in Workers : request[w] = Idle
    BY DEF Init
<1>3. \A w \in Workers : Holds(w)
    BY <1>2 DEF Holds, Idle
<1>. QED
    BY <1>1, <1>3 DEF TypeInv

(* A step of worker w keeps what the other workers hold, as no code is     *)
(* ever removed.                                                           *)
LEMMA HoldsStays ==
    ASSUME NEW w \in Workers, \A v \in Workers : Holds(v),
           \A v \in Workers \ {w} : request'[v] = request[v],
           Ids \subseteq Ids', Holds(w)'
    PROVE  \A v \in Workers : Holds(v)'
<1>1. ASSUME NEW v \in Workers \ {w} PROVE Holds(v)'
    BY <1>1 DEF Holds
<1>. QED
    BY <1>1

(* A step that writes one code and leaves how many there are.              *)
LEMMA CodeSet ==
    ASSUME TypeOK, NEW i \in Ids, NEW row \in Rows, codes' = [codes EXCEPT ![i] = row]
    PROVE  /\ codes' \in Seq(Rows)
           /\ Len(codes') = Len(codes)
           /\ codes'[i] = row
           /\ \A j \in Ids \ {i} : codes'[j] = codes[j]
BY DEF TypeOK, Ids

LEMMA StepTypeInv == TypeInv /\ [Next]_vars => TypeInv'
<1> SUFFICES ASSUME TypeInv, [Next]_vars PROVE TypeInv'
    OBVIOUS
<1>1. TypeOK /\ \A v \in Workers : Holds(v)
    BY DEF TypeInv
<1>2. ASSUME NEW w \in Workers, SendCheck(w) PROVE TypeInv'
    <2> DEFINE req == [request[w] EXCEPT !.step = "invalidate"]
    <2>1. req \in Requests /\ Take(w, req)
        BY <1>1, <1>2 DEF SendCheck, Goto, TypeOK, Requests, Steps
    <2>2. request'[w].step = "invalidate"
        BY <1>1, <2>1, RequestSet DEF TypeOK, Requests
    <2>3. Holds(w)'
        BY <2>2 DEF Holds
    <2>4. TypeOK'
        BY <1>1, <1>2, <2>1, RequestSet DEF TypeOK, SendCheck, history, Ids
    <2>5. Ids' = Ids
        BY <1>2 DEF SendCheck, Ids
    <2>. QED
        BY <1>1, <2>1, <2>3, <2>4, <2>5, RequestSet, HoldsStays DEF TypeInv
<1>3. ASSUME NEW w \in Workers, Invalidate(w) PROVE TypeInv'
    <2> DEFINE req == [request[w] EXCEPT !.step = "create"]
    <2>1. req \in Requests /\ Take(w, req)
        BY <1>1, <1>3 DEF Invalidate, Goto, TypeOK, Requests, Steps
    <2>2. request'[w].step = "create"
        BY <1>1, <2>1, RequestSet DEF TypeOK, Requests
    <2>3. Holds(w)'
        BY <2>2 DEF Holds
    <2>4. /\ codes' \in Seq(Rows)
          /\ Len(codes') = Len(codes)
        <3>1. \A i \in Ids : [codes[i] EXCEPT !.used = TRUE] \in Rows
            BY <1>1, MarkUsed
        <3>2. Len(codes) \in Nat
            BY <1>1 DEF TypeOK
        <3>3. codes' \in [1..Len(codes) -> Rows]
            BY <1>3, <3>1 DEF Invalidate, Ids
        <3>. QED
            BY <3>2, <3>3, FunctionIsSequence
    <2>5. Ids' = Ids
        BY <2>4 DEF Ids
    <2>6. TypeOK'
        BY <1>1, <1>3, <2>1, <2>4, <2>5, RequestSet DEF TypeOK, Invalidate, history
    <2>. QED
        BY <1>1, <2>1, <2>3, <2>5, <2>6, RequestSet, HoldsStays DEF TypeInv
<1>4. ASSUME NEW w \in Workers, CreateCode(w) PROVE TypeInv'
    <2> DEFINE row == [created |-> now, attempts |-> 0, used |-> FALSE]
               req == [Idle EXCEPT !.step = "sms", !.code = Len(codes) + 1]
    <2>1. row \in Rows
        BY <1>1, SettingsAreNat DEF TypeOK, Rows
    <2>2. /\ codes' = Append(codes, row)
          /\ codes' \in Seq(Rows)
          /\ Len(codes') = Len(codes) + 1
          /\ Len(codes) \in Nat
          /\ Len(codes') <= MaxCodes
        BY <1>1, <1>4, <2>1, SettingsAreNat DEF CreateCode, TypeOK
    <2>3. req \in Requests /\ Take(w, req)
        <3>1. Len(codes) + 1 \in 0..MaxCodes
            BY <2>2, SettingsAreNat
        <3>2. req \in Requests
            BY <3>1, IdleIsRequest DEF Requests, Steps
        <3>. QED
            BY <1>4, <3>2 DEF CreateCode
    <2>4. request'[w] = req
        BY <1>1, <2>3, RequestSet
    <2>5. Ids \subseteq Ids' /\ Len(codes) + 1 \in Ids'
        BY <2>2 DEF Ids
    <2>6. Holds(w)'
        BY <2>4, <2>5 DEF Holds, Idle
    <2>7. TypeOK'
        BY <1>1, <1>4, <2>2, <2>3, <2>5, RequestSet DEF TypeOK, CreateCode, history
    <2>. QED
        BY <1>1, <2>3, <2>5, <2>6, <2>7, RequestSet, HoldsStays DEF TypeInv
<1>5. ASSUME NEW w \in Workers, Return(w), Ids' = Ids,
             codes' \in Seq(Rows), Len(codes') <= MaxCodes, now' = now,
             tries' \in [1..MaxCodes -> Nat], accepted' \in [1..MaxCodes -> Nat],
             failed' \subseteq Ids, crashes' \in 0..MaxCrashes
      PROVE  TypeInv'
    <2>1. /\ request' \in [Workers -> Requests]
          /\ request'[w] = Idle
          /\ \A v \in Workers \ {w} : request'[v] = request[v]
        BY <1>1, <1>5, IdleIsRequest, RequestSet DEF Return
    <2>2. Holds(w)'
        BY <2>1 DEF Holds, Idle
    <2>3. TypeOK'
        BY <1>1, <1>5, <2>1 DEF TypeOK
    <2>. QED
        BY <1>1, <1>5, <2>1, <2>2, <2>3, HoldsStays DEF TypeInv
<1>6. ASSUME NEW w \in Workers, SmsSent(w) PROVE TypeInv'
    BY <1>1, <1>5, <1>6 DEF SmsSent, history, TypeOK, Ids
<1>7. ASSUME NEW w \in Workers, request[w].step \in {"sms", "compare"}
      PROVE  /\ request[w].code \in Ids
             /\ request[w].code \in 1..MaxCodes
             /\ [codes[request[w].code] EXCEPT !.used = TRUE] \in Rows
    <2>1. request[w].code \in Ids
        BY <1>1, <1>7 DEF Holds
    <2>. QED
        BY <1>1, <2>1, CodeIsRow, MarkUsed
<1>8. ASSUME NEW w \in Workers, SmsFailed(w) PROVE TypeInv'
    <2> DEFINE i == request[w].code
               row == [codes[i] EXCEPT !.used = TRUE]
    <2>1. i \in Ids /\ row \in Rows
        BY <1>7, <1>8 DEF SmsFailed, At
    <2>2. codes' = [codes EXCEPT ![i] = row]
        BY <1>8 DEF SmsFailed
    <2>3. codes' \in Seq(Rows) /\ Len(codes') = Len(codes)
        BY <1>1, <2>1, <2>2, CodeSet
    <2>4. Ids' = Ids
        BY <2>3 DEF Ids
    <2>. QED
        BY <1>1, <1>5, <1>8, <2>1, <2>3, <2>4 DEF SmsFailed, TypeOK
<1>9. ASSUME NEW w \in Workers, NEW i \in Ids, NEW right \in BOOLEAN,
             VerifyLoad(w, i, right)
      PROVE  TypeInv'
    <2> DEFINE req == [step |-> "attempt", code |-> i, attempts |-> codes[i].attempts,
                       right |-> right]
    <2>1. codes[i].attempts \in 0..MaxAttempts /\ i \in 0..MaxCodes
        BY <1>1, CodeIsRow
    <2>2. req \in Requests /\ Take(w, req)
        BY <1>9, <2>1 DEF VerifyLoad, Requests, Steps
    <2>3. request'[w] = req
        BY <1>1, <2>2, RequestSet
    <2>4. Ids' = Ids
        BY <1>9 DEF VerifyLoad, Ids
    <2>5. Holds(w)'
        BY <1>9, <2>3, <2>4 DEF Holds, VerifyLoad, AttemptsRemain
    <2>6. TypeOK'
        BY <1>1, <1>9, <2>2, <2>4, RequestSet DEF TypeOK, VerifyLoad, history
    <2>. QED
        BY <1>1, <2>2, <2>4, <2>5, <2>6, RequestSet, HoldsStays DEF TypeInv
<1>10. ASSUME NEW w \in Workers, SaveAttempt(w) PROVE TypeInv'
    <2> DEFINE i == request[w].code
               row == [codes[i] EXCEPT !.attempts = request[w].attempts + 1]
               req == [request[w] EXCEPT !.step = "compare"]
    <2>1. i \in Ids /\ request[w].attempts < MaxAttempts
        BY <1>1, <1>10 DEF SaveAttempt, At, Holds
    <2>2. row \in Rows
        <3>1. codes[i] \in Rows /\ request[w].attempts \in 0..MaxAttempts
            BY <1>1, <2>1, CodeIsRow DEF TypeOK, Requests
        <3>2. request[w].attempts + 1 \in 0..MaxAttempts
            BY <2>1, <3>1, SettingsAreNat
        <3>. QED
            BY <3>1, <3>2 DEF Rows
    <2>3. codes' = [codes EXCEPT ![i] = row]
        BY <1>10 DEF SaveAttempt
    <2>4. codes' \in Seq(Rows) /\ Len(codes') = Len(codes)
        BY <1>1, <2>1, <2>2, <2>3, CodeSet
    <2>5. Ids' = Ids
        BY <2>4 DEF Ids
    <2>6. req \in Requests /\ Take(w, req)
        BY <1>1, <1>10 DEF SaveAttempt, Goto, TypeOK, Requests, Steps
    <2>7. request'[w].step = "compare" /\ request'[w].code = request[w].code
        BY <1>1, <2>6, RequestSet DEF TypeOK, Requests
    <2>8. Holds(w)'
        BY <2>1, <2>5, <2>7 DEF Holds
    <2>9. TypeOK'
        BY <1>1, <1>10, <2>4, <2>5, <2>6, RequestSet DEF TypeOK, SaveAttempt, history
    <2>. QED
        BY <1>1, <2>5, <2>6, <2>8, <2>9, RequestSet, HoldsStays DEF TypeInv
<1>11. ASSUME NEW w \in Workers, Reject(w) PROVE TypeInv'
    <2>1. request[w].code \in 1..MaxCodes
        BY <1>7, <1>11 DEF Reject, At
    <2>2. tries' \in [1..MaxCodes -> Nat]
        BY <1>1, <1>11, <2>1 DEF Reject, TypeOK
    <2>. QED
        BY <1>1, <1>5, <1>11, <2>2 DEF Reject, TypeOK, Ids
<1>12. ASSUME NEW w \in Workers, Accept(w) PROVE TypeInv'
    <2> DEFINE i == request[w].code
               row == [codes[i] EXCEPT !.used = TRUE]
    <2>1. i \in Ids /\ i \in 1..MaxCodes /\ row \in Rows
        BY <1>7, <1>12 DEF Accept, At
    <2>2. codes' = [codes EXCEPT ![i] = row]
        BY <1>12 DEF Accept
    <2>3. codes' \in Seq(Rows) /\ Len(codes') = Len(codes)
        BY <1>1, <2>1, <2>2, CodeSet
    <2>4. Ids' = Ids
        BY <2>3 DEF Ids
    <2>5. tries' \in [1..MaxCodes -> Nat] /\ accepted' \in [1..MaxCodes -> Nat]
        BY <1>1, <1>12, <2>1 DEF Accept, TypeOK
    <2>. QED
        BY <1>1, <1>5, <1>12, <2>3, <2>4, <2>5 DEF Accept, TypeOK
<1>13. ASSUME NEW w \in Workers, Crash(w) PROVE TypeInv'
    <2>1. crashes' \in 0..MaxCrashes
        BY <1>1, <1>13, SettingsAreNat DEF Crash, TypeOK
    <2>. QED
        BY <1>1, <1>5, <1>13, <2>1 DEF Crash, history, TypeOK, Ids
<1>14. ASSUME Tick PROVE TypeInv'
    <2>1. TypeOK'
        BY <1>1, <1>14, SettingsAreNat DEF Tick, TypeOK, history, Ids
    <2>2. \A v \in Workers : Holds(v)'
        BY <1>1, <1>14 DEF Tick, Holds, Ids
    <2>. QED
        BY <2>1, <2>2 DEF TypeInv
<1>15. ASSUME UNCHANGED vars PROVE TypeInv'
    BY <1>1, <1>15 DEF vars, TypeInv, TypeOK, Holds, Ids
<1>. QED
    BY <1>2, <1>3, <1>4, <1>6, <1>8, <1>9, <1>10, <1>11, <1>12, <1>13, <1>14, <1>15
       DEF Next, Send, SendSms, Verify

LEMMA TypeInvHolds == Spec => []TypeInv
BY InitTypeInv, StepTypeInv, PTL DEF Spec

(* The table and the requests keep their types; in particular a row never  *)
(* counts more than OTP_MAX_ATTEMPTS attempts.                             *)
THEOREM TypeCorrect == Spec => []TypeOK
<1>1. TypeInv => TypeOK
    BY DEF TypeInv
<1>. QED
    BY <1>1, TypeInvHolds, PTL

-----------------------------------------------------------------------------
(* How often a code is accepted.                                           *)

(* The workers that have loaded code i and have not answered yet.          *)
Holders(i) == {w \in Workers : /\ request[w].step \in {"attempt", "compare"}
                               /\ request[w].code = i}

(* Only a used code has been accepted, and every worker that may accept a  *)
(* code once more has not done so yet.                                     *)
OnlyUsedAccepted ==
    \A i \in 1..MaxCodes : (i \in Ids => ~codes[i].used) => accepted[i] = 0

HoldersMayAccept ==
    \A i \in 1..MaxCodes : accepted[i] + Cardinality(Holders(i)) <= Cardinality(Workers)

SpentInv == TypeInv /\ OnlyUsedAccepted /\ HoldersMayAccept

LEMMA HoldersAreFinite ==
    ASSUME NEW i
    PROVE  /\ IsFiniteSet(Holders(i))
           /\ Cardinality(Holders(i)) \in Nat
           /\ Cardinality(Workers) \in Nat
           /\ Cardinality(Holders(i)) <= Cardinality(Workers)
<1>1. Holders(i) \subseteq Workers
    BY DEF Holders
<1>. QED
    BY <1>1, WorkersAreFinite, FS_Subset, FS_CardinalityType

LEMMA InitSpentInv == Init => SpentInv
<1> SUFFICES ASSUME Init PROVE OnlyUsedAccepted /\ HoldersMayAccept
    BY InitTypeInv DEF SpentInv
<1>1. OnlyUsedAccepted
    BY DEF Init, OnlyUsedAccepted
<1>2. \A i \in 1..MaxCodes : Cardinality(Holders(i)) <= Cardinality(Workers)
    BY HoldersAreFinite
<1>3. \A i \in 1..MaxCodes : Cardinality(Holders(i)) \in Nat /\ accepted[i] = 0
    BY HoldersAreFinite DEF Init
<1>4. HoldersMayAccept
    BY <1>2, <1>3 DEF HoldersMayAccept
<1>. QED
    BY <1>1, <1>4

(* No step but Accept changes how often a code was accepted, frees a used  *)
(* code, or gives a used code to a worker.                                 *)
UsedStays == \A i \in Ids : i \in Ids' /\ (codes[i].used => codes'[i].used)
FewerHold == \A i \in 1..MaxCodes : Holders(i)' \subseteq Holders(i)
OnlyFreshTaken == \A i \in 1..MaxCodes : Holders(i)' \subseteq Holders(i) \/ accepted[i] = 0

LEMMA SameCodes ==
    ASSUME codes' = codes
    PROVE  UsedStays
BY DEF UsedStays, Ids

LEMMA FewerHoldIf ==
    ASSUME TypeOK, NEW w \in Workers, NEW req \in Requests, Take(w, req),
           \/ req.step \notin {"attempt", "compare"}
           \/ /\ request[w].step \in {"attempt", "compare"}
              /\ req.code = request[w].code
    PROVE  FewerHold
<1>1. /\ request'[w] = req
      /\ \A v \in Workers \ {w} : request'[v] = request[v]
    BY RequestSet
<1>. QED
    BY <1>1 DEF FewerHold, Holders

LEMMA OtherSteps ==
    ASSUME TypeInv, OnlyUsedAccepted, [Next]_vars, \A w \in Workers : ~Accept(w)
    PROVE  accepted' = accepted /\ UsedStays /\ OnlyFreshTaken
<1>1. TypeOK /\ \A v \in Workers : Holds(v)
    BY DEF TypeInv
<1>2. FewerHold => OnlyFreshTaken
    BY DEF FewerHold, OnlyFreshTaken
<1>3. ASSUME NEW w \in Workers, Return(w) PROVE FewerHold
    <2>1. Take(w, Idle) /\ Idle \in Requests
        BY <1>3, IdleIsRequest DEF Return
    <2>2. Idle.step = "idle"
        BY DEF Idle
    <2>. QED
        BY <1>1, <2>1, <2>2, FewerHoldIf
<1>4. ASSUME NEW w \in Workers, Send(w)
      PROVE  accepted' = accepted /\ UsedStays /\ FewerHold
    <2>1. CASE SendCheck(w)
        <3> DEFINE req == [request[w] EXCEPT !.step = "invalidate"]
        <3>1. req \in Requests /\ Take(w, req) /\ req.step = "invalidate"
            BY <1>1, <2>1 DEF SendCheck, Goto, TypeOK, Requests, Steps
        <3>2. FewerHold
            BY <1>1, <3>1, FewerHoldIf
        <3>. QED
            BY <2>1, <3>2, SameCodes DEF SendCheck, history
    <2>2. CASE Invalidate(w)
        <3> DEFINE req == [request[w] EXCEPT !.step = "create"]
        <3>1. req \in Requests /\ Take(w, req) /\ req.step = "create"
            BY <1>1, <2>2 DEF Invalidate, Goto, TypeOK, Requests, Steps
        <3>2. FewerHold
            BY <1>1, <3>1, FewerHoldIf
        <3>3. Len(codes) \in Nat /\ \A i \in Ids : [codes[i] EXCEPT !.used = TRUE] \in Rows
            BY <1>1, MarkUsed DEF TypeOK
        <3>4. codes' \in [1..Len(codes) -> Rows]
            BY <2>2, <3>3 DEF Invalidate, Ids
        <3>5. Ids' = Ids
            BY <3>3, <3>4, FunctionIsSequence DEF Ids
        <3>6. \A i \in Ids : codes'[i].used = TRUE
            BY <1>1, <2>2, CodeIsRow DEF Invalidate, Rows
        <3>. QED
            BY <2>2, <3>2, <3>5, <3>6 DEF Invalidate, history, UsedStays
    <2>3. CASE CreateCode(w)
        <3> DEFINE req == [Idle EXCEPT !.step = "sms", !.code = Len(codes) + 1]
        <3>1. Len(codes) \in Nat /\ Len(codes) + 1 \in 0..MaxCodes
            BY <1>1, <2>3, SettingsAreNat DEF TypeOK, CreateCode
        <3>2. req \in Requests
            BY <3>1, IdleIsRequest DEF Requests, Steps
        <3>3. req.step = "sms"
            BY IdleIsRequest DEF Requests
        <3>4. Take(w, req)
            BY <2>3 DEF CreateCode
        <3>5. FewerHold
            BY <1>1, <3>2, <3>3, <3>4, FewerHoldIf
        <3>6. Ids \subseteq Ids' /\ \A i \in Ids : codes'[i] = codes[i]
            BY <1>1, <2>3, <3>1 DEF CreateCode, TypeOK, Ids
        <3>. QED
            BY <2>3, <3>5, <3>6 DEF CreateCode, history, UsedStays
    <2>4. CASE SmsSent(w)
        BY <1>3, <2>4, SameCodes DEF SmsSent, history
    <2>5. CASE SmsFailed(w)
        <3> DEFINE i == request[w].code
                   row == [codes[i] EXCEPT !.used = TRUE]
        <3>1. i \in Ids
            BY <1>1, <2>5 DEF SmsFailed, At, Holds
        <3>2. row \in Rows /\ row.used = TRUE
            BY <1>1, <3>1, CodeIsRow, MarkUsed DEF Rows
        <3>3. /\ Len(codes') = Len(codes)
              /\ codes'[i] = row
              /\ \A j \in Ids \ {i} : codes'[j] = codes[j]
            BY <1>1, <2>5, <3>1, <3>2, CodeSet DEF SmsFailed
        <3>4. UsedStays
            BY <3>2, <3>3 DEF UsedStays, Ids
        <3>. QED
            BY <1>3, <2>5, <3>4 DEF SmsFailed
    <2>. QED
        BY <1>4, <2>1, <2>2, <2>3, <2>4, <2>5 DEF Send, SendSms
<1>5. ASSUME NEW w \in Workers, NEW i \in Ids, NEW right \in BOOLEAN, VerifyLoad(w, i, right)
      PROVE  accepted' = accepted /\ UsedStays /\ OnlyFreshTaken
    <2> DEFINE req == [step |-> "attempt", code |-> i, attempts |-> codes[i].attempts,
                       right |-> right]
    <2>1. ~codes[i].used /\ i \in 1..MaxCodes
        BY <1>1, <1>5, CodeIsRow DEF VerifyLoad, IsLatestUnused, Unused
    <2>2. accepted[i] = 0
        BY <2>1 DEF OnlyUsedAccepted
    <2>3. req \in Requests
        BY <1>1, CodeIsRow DEF Requests, Steps
    <2>4. /\ request'[w] = req
          /\ \A v \in Workers \ {w} : request'[v] = request[v]
        BY <1>1, <1>5, <2>3, RequestSet DEF VerifyLoad
    <2>5. \A j \in 1..MaxCodes : j # i => Holders(j)' \subseteq Holders(j)
        BY <2>4 DEF Holders
    <2>. QED
        BY <1>5, <2>2, <2>5, SameCodes DEF VerifyLoad, history, OnlyFreshTaken
<1>6. ASSUME NEW w \in Workers, SaveAttempt(w)
      PROVE  accepted' = accepted /\ UsedStays /\ FewerHold
    <2> DEFINE i == request[w].code
               row == [codes[i] EXCEPT !.attempts = request[w].attempts + 1]
               req == [request[w] EXCEPT !.step = "compare"]
    <2>1. i \in Ids /\ request[w].attempts < MaxAttempts /\ request[w] \in Requests
        BY <1>1, <1>6 DEF SaveAttempt, At, Holds, TypeOK
    <2>2. codes[i] \in Rows /\ request[w].attempts + 1 \in 0..MaxAttempts
        BY <1>1, <2>1, CodeIsRow, SettingsAreNat DEF Requests
    <2>3. row \in Rows /\ row.used = codes[i].used
        BY <2>2 DEF Rows
    <2>4. /\ Len(codes') = Len(codes)
          /\ codes'[i] = row
          /\ \A j \in Ids \ {i} : codes'[j] = codes[j]
        BY <1>1, <1>6, <2>1, <2>3, CodeSet DEF SaveAttempt
    <2>5. UsedStays
        BY <2>3, <2>4 DEF UsedStays, Ids
    <2>6. req \in Requests /\ Take(w, req) /\ req.code = request[w].code
        BY <1>6, <2>1 DEF SaveAttempt, Goto, Requests, Steps
    <2>7. FewerHold
        BY <1>1, <1>6, <2>6, FewerHoldIf DEF SaveAttempt, At
    <2>. QED
        BY <1>6, <2>5, <2>7 DEF SaveAttempt, history
<1>7. ASSUME NEW w \in Workers, Reject(w) \/ Crash(w)
      PROVE  accepted' = accepted /\ UsedStays /\ FewerHold
    BY <1>3, <1>7, SameCodes DEF Reject, Crash, history
<1>8. ASSUME Tick \/ UNCHANGED vars
      PROVE  accepted' = accepted /\ UsedStays /\ FewerHold
    <2>1. codes' = codes /\ request' = request /\ accepted' = accepted
        BY <1>8 DEF Tick, vars, history
    <2>. QED
        BY <2>1, SameCodes DEF FewerHold, Holders
<1>. QED
    BY <1>2, <1>4, <1>5, <1>6, <1>7, <1>8 DEF Next, Verify

LEMMA AcceptSpends ==
    ASSUME SpentInv, NEW w \in Workers, Accept(w)
    PROVE  OnlyUsedAccepted' /\ HoldersMayAccept'
<1> DEFINE row(i) == [codes[i] EXCEPT !.used = TRUE]
<1>1. TypeOK /\ Holds(w)
    BY DEF SpentInv, TypeInv
<1>2. PICK i \in Ids : i = request[w].code
    BY <1>1 DEF Accept, At, Holds
<1>3. i \in 1..MaxCodes /\ row(i) \in Rows /\ row(i).used = TRUE
    BY <1>1, CodeIsRow, MarkUsed DEF Rows
<1>4. /\ Len(codes') = Len(codes)
      /\ codes'[i] = row(i)
      /\ \A j \in Ids \ {i} : codes'[j] = codes[j]
    BY <1>1, <1>2, <1>3, CodeSet DEF Accept
<1>5. Ids' = Ids
    BY <1>4 DEF Ids
<1>6. /\ accepted \in [1..MaxCodes -> Nat]
      /\ accepted' = [accepted EXCEPT ![i] = @ + 1]
    BY <1>1, <1>2 DEF Accept, TypeOK
<1>7. OnlyUsedAccepted'
    <2>1. SUFFICES ASSUME NEW j \in 1..MaxCodes, j \in Ids => ~codes'[j].used
                   PROVE  accepted'[j] = 0
        BY <1>5 DEF OnlyUsedAccepted
    <2>2. j # i
        BY <1>3, <1>4, <2>1
    <2>3. j \in Ids => ~codes[j].used
        BY <1>4, <2>1, <2>2
    <2>. QED
        BY <1>6, <2>2, <2>3 DEF OnlyUsedAccepted, SpentInv
<1>8. Take(w, Idle) /\ request'[w] = Idle /\ \A v \in Workers \ {w} : request'[v] = request[v]
    BY <1>1, IdleIsRequest, RequestSet DEF Accept, Return
<1>9. request'[w].step = "idle"
    BY <1>8 DEF Idle
<1>10. ASSUME NEW j \in 1..MaxCodes
       PROVE  accepted'[j] + Cardinality(Holders(j)') <= Cardinality(Workers)
    <2>1. /\ IsFiniteSet(Holders(j)) /\ Cardinality(Holders(j)) \in Nat
          /\ Cardinality(Workers) \in Nat /\ accepted[j] \in Nat
          /\ accepted[j] + Cardinality(Holders(j)) <= Cardinality(Workers)
        BY <1>6, HoldersAreFinite DEF SpentInv, HoldersMayAccept
    <2>2. CASE j = i
        <3>1. w \in Holders(j) /\ Holders(j)' = Holders(j) \ {w}
            BY <1>2, <1>8, <1>9, <2>2 DEF Holders, Accept, At
        <3>2. Cardinality(Holders(j)') = Cardinality(Holders(j)) - 1
            BY <2>1, <3>1, FS_RemoveElement
        <3>3. accepted'[j] = accepted[j] + 1
            BY <1>3, <1>6, <2>2
        <3>. QED
            BY <2>1, <3>2, <3>3
    <2>3. CASE j # i
        <3>1. Holders(j)' = Holders(j)
            BY <1>2, <1>8, <1>9, <2>3 DEF Holders
        <3>2. accepted'[j] = accepted[j]
            BY <1>6, <2>3
        <3>. QED
            BY <2>1, <3>1, <3>2
    <2>. QED
        BY <2>2, <2>3
<1>. QED
    BY <1>7, <1>10 DEF HoldersMayAccept

LEMMA StepSpentInv == SpentInv /\ [Next]_vars => SpentInv'
<1> SUFFICES ASSUME SpentInv, [Next]_vars PROVE SpentInv'
    OBVIOUS
<1>1. TypeInv'
    BY StepTypeInv DEF SpentInv
<1>2. CASE \E w \in Workers : Accept(w)
    BY <1>1, <1>2, AcceptSpends DEF SpentInv
<1>3. CASE \A w \in Workers : ~Accept(w)
    <2>1. accepted' = accepted /\ UsedStays /\ OnlyFreshTaken
        BY <1>3, OtherSteps DEF SpentInv
    <2>2. OnlyUsedAccepted'
        BY <2>1 DEF SpentInv, OnlyUsedAccepted, UsedStays
    <2>3. ASSUME NEW i \in 1..MaxCodes
          PROVE  accepted'[i] + Cardinality(Holders(i)') <= Cardinality(Workers)
        <3>1. /\ IsFiniteSet(Holders(i)) /\ Cardinality(Holders(i)) \in Nat
              /\ Cardinality(Workers) \in Nat /\ accepted[i] \in Nat
              /\ accepted[i] + Cardinality(Holders(i)) <= Cardinality(Workers)
            BY HoldersAreFinite DEF SpentInv, HoldersMayAccept, TypeInv, TypeOK
        <3>2. CASE Holders(i)' \subseteq Holders(i)
            <4>1. /\ Cardinality(Holders(i)') <= Cardinality(Holders(i))
                  /\ Cardinality(Holders(i)') \in Nat
                BY <3>1, <3>2, FS_Subset, FS_CardinalityType
            <4>. QED
                BY <2>1, <3>1, <4>1
        <3>3. CASE accepted[i] = 0
            <4>1. Holders(i)' \subseteq Workers
                BY DEF Holders
            <4>2. /\ Cardinality(Holders(i)') <= Cardinality(Workers)
                  /\ Cardinality(Holders(i)') \in Nat
                BY <4>1, WorkersAreFinite, FS_Subset, FS_CardinalityType
            <4>. QED
                BY <2>1, <3>1, <3>3, <4>2
        <3>. QED
            BY <2>1, <3>2, <3>3 DEF OnlyFreshTaken
    <2>4. HoldersMayAccept'
        BY <2>3 DEF HoldersMayAccept
    <2>. QED
        BY <1>1, <2>2, <2>4 DEF SpentInv
<1>. QED
    BY <1>2, <1>3

(* However the requests overlap, and whichever workers are killed, a code  *)
(* is accepted at most once per worker: once, if requests do not overlap.  *)
THEOREM SpentOnce == Spec => []SpentOncePerWorker
<1>1. SpentInv => SpentOncePerWorker
    <2> SUFFICES ASSUME SpentInv, NEW i \in 1..MaxCodes
                 PROVE  accepted[i] <= Cardinality(Workers)
        BY DEF SpentOncePerWorker
    <2>1. /\ Cardinality(Holders(i)) \in Nat /\ Cardinality(Workers) \in Nat
          /\ accepted[i] \in Nat
          /\ accepted[i] + Cardinality(Holders(i)) <= Cardinality(Workers)
        BY HoldersAreFinite DEF SpentInv, HoldersMayAccept, TypeInv, TypeOK
    <2>. QED
        BY <2>1
<1>. QED
    BY <1>1, InitSpentInv, StepSpentInv, PTL DEF Spec

-----------------------------------------------------------------------------
(* How often something is compared with a code, when requests do not       *)
(* overlap.                                                                *)

OneWorker == \A v, w \in Workers : v = w

(* Every comparison has been counted in the row before,                    *)
Counted ==
    \A i \in 1..MaxCodes :
        /\ i \in Ids => tries[i] <= codes[i].attempts
        /\ i \notin Ids => tries[i] = 0

(* the one that comes next included; and what a worker is about to save is *)
(* one more than what the row holds.                                       *)
NextCounted ==
    \A w \in Workers :
        /\ request[w].step = "compare" => tries[request[w].code] < codes[request[w].code].attempts
        /\ request[w].step = "attempt" => request[w].attempts = codes[request[w].code].attempts

GuessInv == TypeInv /\ Counted /\ NextCounted

AttemptsStay ==
    /\ Ids \subseteq Ids'
    /\ \A i \in Ids : codes'[i].attempts = codes[i].attempts

LEMMA InitGuessInv == Init => GuessInv
<1> SUFFICES ASSUME Init PROVE Counted /\ NextCounted
    BY InitTypeInv DEF GuessInv
<1>1. Counted
    BY DEF Init, Counted, Ids
<1>2. NextCounted
    BY DEF Init, NextCounted, Idle
<1>. QED
    BY <1>1, <1>2

LEMMA StillCounted ==
    ASSUME GuessInv, TypeInv', AttemptsStay, tries' = tries
    PROVE  Counted'
<1>1. SUFFICES ASSUME NEW i \in 1..MaxCodes
               PROVE  /\ i \in Ids' => tries'[i] <= codes'[i].attempts
                      /\ i \notin Ids' => tries'[i] = 0
    BY DEF Counted
<1>2. i \in Ids => tries[i] <= codes[i].attempts
    BY DEF GuessInv, Counted
<1>3. i \notin Ids => tries[i] = 0
    BY DEF GuessInv, Counted
<1>4. i \in Ids' => codes'[i].attempts \in Nat
    <2>1. codes' \in Seq(Rows)
        BY DEF TypeInv, TypeOK
    <2>2. i \in Ids' => codes'[i] \in Rows
        BY <2>1 DEF Ids
    <2>. QED
        BY <2>2, SettingsAreNat DEF Rows
<1>. QED
    BY <1>2, <1>3, <1>4 DEF AttemptsStay

LEMMA StepGuessInv == OneWorker /\ GuessInv /\ [Next]_vars => GuessInv'
<1> SUFFICES ASSUME OneWorker, GuessInv, [Next]_vars PROVE GuessInv'
    OBVIOUS
<1>1. TypeInv' /\ TypeOK /\ \A v \in Workers : Holds(v)
    BY StepTypeInv DEF GuessInv, TypeInv
<1>2. ASSUME NEW w \in Workers, NEW req \in Requests, Take(w, req),
             req.step \notin {"attempt", "compare"}
      PROVE  NextCounted'
    <2>1. request'[w] = req
        BY <1>1, <1>2, RequestSet
    <2>. QED
        BY <1>2, <2>1 DEF OneWorker, NextCounted
<1>3. ASSUME NEW w \in Workers, Return(w) PROVE NextCounted'
    <2>1. Idle \in Requests /\ Take(w, Idle) /\ Idle.step = "idle"
        BY <1>3, IdleIsRequest DEF Return, Idle
    <2>. QED
        BY <1>2, <2>1
<1>4. ASSUME codes' = codes PROVE AttemptsStay
    BY <1>4 DEF AttemptsStay, Ids
<1>5. ASSUME NEW w \in Workers, SendCheck(w) PROVE GuessInv'
    <2> DEFINE req == [request[w] EXCEPT !.step = "invalidate"]
    <2>1. req \in Requests /\ Take(w, req) /\ req.step = "invalidate"
        BY <1>1, <1>5 DEF SendCheck, Goto, TypeOK, Requests, Steps
    <2>2. NextCounted'
        BY <1>2, <2>1
    <2>3. AttemptsStay /\ tries' = tries
        BY <1>4, <1>5 DEF SendCheck, history
    <2>. QED
        BY <1>1, <2>2, <2>3, StillCounted DEF GuessInv
<1>6. ASSUME NEW w \in Workers, Invalidate(w) PROVE GuessInv'
    <2> DEFINE req == [request[w] EXCEPT !.step = "create"]
    <2>1. req \in Requests /\ Take(w, req) /\ req.step = "create"
        BY <1>1, <1>6 DEF Invalidate, Goto, TypeOK, Requests, Steps
    <2>2. NextCounted'
        BY <1>2, <2>1
    <2>3. Len(codes) \in Nat /\ \A i \in Ids : [codes[i] EXCEPT !.used = TRUE] \in Rows
        BY <1>1, MarkUsed DEF TypeOK
    <2>4. codes' \in [1..Len(codes) -> Rows]
        BY <1>6, <2>3 DEF Invalidate, Ids
    <2>5. Ids' = Ids
        BY <2>3, <2>4, FunctionIsSequence DEF Ids
    <2>6. \A i \in Ids : codes'[i].attempts = codes[i].attempts
        BY <1>1, <1>6, CodeIsRow DEF Invalidate, Rows
    <2>7. AttemptsStay /\ tries' = tries
        BY <1>6, <2>5, <2>6 DEF AttemptsStay, Invalidate, history
    <2>. QED
        BY <1>1, <2>2, <2>7, StillCounted DEF GuessInv
<1>7. ASSUME NEW w \in Workers, CreateCode(w) PROVE GuessInv'
    <2> DEFINE req == [Idle EXCEPT !.step = "sms", !.code = Len(codes) + 1]
    <2>1. Len(codes) \in Nat /\ Len(codes) + 1 \in 0..MaxCodes
        BY <1>1, <1>7, SettingsAreNat DEF TypeOK, CreateCode
    <2>2. req \in Requests
        BY <2>1, IdleIsRequest DEF Requests, Steps
    <2>3. Take(w, req) /\ req.step = "sms"
        BY <1>7, IdleIsRequest DEF CreateCode, Requests
    <2>4. NextCounted'
        BY <1>2, <2>2, <2>3
    <2>5. Ids \subseteq Ids' /\ \A i \in Ids : codes'[i] = codes[i]
        BY <1>1, <1>7, <2>1 DEF CreateCode, TypeOK, Ids
    <2>6. AttemptsStay /\ tries' = tries
        BY <1>7, <2>5 DEF AttemptsStay, CreateCode, history
    <2>. QED
        BY <1>1, <2>4, <2>6, StillCounted DEF GuessInv
<1>8. ASSUME NEW w \in Workers, SmsSent(w) \/ Crash(w) PROVE GuessInv'
    BY <1>1, <1>3, <1>4, <1>8, StillCounted DEF SmsSent, Crash, history, GuessInv
<1>9. ASSUME NEW w \in Workers, SmsFailed(w) PROVE GuessInv'
    <2> DEFINE i == request[w].code
               row == [codes[i] EXCEPT !.used = TRUE]
    <2>1. i \in Ids
        BY <1>1, <1>9 DEF SmsFailed, At, Holds
    <2>2. row \in Rows /\ row.attempts = codes[i].attempts
        BY <1>1, <2>1, CodeIsRow, MarkUsed DEF Rows
    <2>3. /\ Len(codes') = Len(codes)
          /\ codes'[i] = row
          /\ \A j \in Ids \ {i} : codes'[j] = codes[j]
        BY <1>1, <1>9, <2>1, <2>2, CodeSet DEF SmsFailed
    <2>4. AttemptsStay
        BY <2>2, <2>3 DEF AttemptsStay, Ids
    <2>. QED
        BY <1>1, <1>3, <1>9, <2>4, StillCounted DEF SmsFailed, GuessInv
<1>10. ASSUME NEW w \in Workers, NEW i \in Ids, NEW right \in BOOLEAN,
              VerifyLoad(w, i, right)
       PROVE  GuessInv'
    <2> DEFINE req == [step |-> "attempt", code |-> i, attempts |-> codes[i].attempts,
                       right |-> right]
    <2>1. req \in Requests
        BY <1>1, CodeIsRow DEF Requests, Steps
    <2>2. request'[w] = req
        BY <1>1, <1>10, <2>1, RequestSet DEF VerifyLoad
    <2>3. codes' = codes /\ tries' = tries
        BY <1>10 DEF VerifyLoad, history
    <2>4. NextCounted'
        BY <2>2, <2>3 DEF OneWorker, NextCounted
    <2>. QED
        BY <1>1, <1>4, <2>3, <2>4, StillCounted DEF GuessInv
<1>11. ASSUME NEW w \in Workers, SaveAttempt(w) PROVE GuessInv'
    <2> DEFINE row(i) == [codes[i] EXCEPT !.attempts = request[w].attempts + 1]
               req == [request[w] EXCEPT !.step = "compare"]
    <2>1. PICK i \in Ids : i = request[w].code
        BY <1>1, <1>11 DEF SaveAttempt, At, Holds
    <2>2. /\ request[w].attempts = codes[i].attempts
          /\ request[w].attempts < MaxAttempts
          /\ codes[i].attempts \in Nat
          /\ request[w].attempts + 1 \in 0..MaxAttempts
        <3>1. request[w].attempts = codes[i].attempts /\ request[w].attempts < MaxAttempts
            BY <1>1, <1>11, <2>1 DEF SaveAttempt, At, Holds, GuessInv, NextCounted
        <3>. QED
            BY <1>1, <3>1, CodeIsRow, SettingsAreNat
    <2>3. row(i) \in Rows /\ row(i).attempts = codes[i].attempts + 1
        BY <1>1, <2>2, CodeIsRow DEF Rows
    <2>4. /\ Len(codes') = Len(codes)
          /\ codes'[i] = row(i)
          /\ \A j \in Ids \ {i} : codes'[j] = codes[j]
        BY <1>1, <1>11, <2>1, <2>3, CodeSet DEF SaveAttempt
    <2>5. Ids' = Ids /\ tries' = tries
        BY <1>11, <2>4 DEF Ids, SaveAttempt, history
    <2>6. tries[i] \in Nat /\ tries[i] <= codes[i].attempts
        BY <1>1, CodeIsRow DEF GuessInv, Counted, TypeOK
    <2>7. tries'[i] < codes'[i].attempts
        BY <2>2, <2>3, <2>4, <2>5, <2>6
    <2>8. Counted'
        <3>1. SUFFICES ASSUME NEW j \in 1..MaxCodes
                       PROVE  /\ j \in Ids => tries'[j] <= codes'[j].attempts
                              /\ j \notin Ids => tries'[j] = 0
            BY <2>5 DEF Counted
        <3>2. CASE j = i
            <4>1. tries'[i] <= codes'[i].attempts
                BY <2>2, <2>3, <2>4, <2>5, <2>6
            <4>. QED
                BY <3>2, <4>1
        <3>3. CASE j # i
            BY <2>4, <2>5, <3>3 DEF GuessInv, Counted
        <3>. QED
            BY <3>2, <3>3
    <2>9. request'[w].step = "compare" /\ request'[w].code = i
        <3>1. req \in Requests /\ Take(w, req)
            BY <1>1, <1>11 DEF SaveAttempt, Goto, TypeOK, Requests, Steps
        <3>. QED
            BY <1>1, <2>1, <3>1, RequestSet DEF TypeOK, Requests
    <2>10. NextCounted'
        BY <2>7, <2>9 DEF OneWorker, NextCounted
    <2>. QED
        BY <1>1, <2>8, <2>10 DEF GuessInv
<1>12. ASSUME NEW w \in Workers, Reject(w) \/ Accept(w) PROVE GuessInv'
    <2> DEFINE row(i) == [codes[i] EXCEPT !.used = TRUE]
    <2>1. PICK i \in Ids : i = request[w].code
        BY <1>1, <1>12 DEF Reject, Accept, At, Holds
    <2>2. row(i) \in Rows /\ row(i).attempts = codes[i].attempts
        BY <1>1, CodeIsRow, MarkUsed DEF Rows
    <2>3. AttemptsStay /\ Ids' = Ids
        <3>1. CASE Reject(w)
            BY <1>4, <3>1 DEF Reject, Ids
        <3>2. CASE Accept(w)
            <4>1. /\ Len(codes') = Len(codes)
                  /\ codes'[i] = row(i)
                  /\ \A j \in Ids \ {i} : codes'[j] = codes[j]
                BY <1>1, <2>1, <2>2, <3>2, CodeSet DEF Accept
            <4>. QED
                BY <2>2, <4>1 DEF AttemptsStay, Ids
        <3>. QED
            BY <1>12, <3>1, <3>2
    <2>4. /\ tries \in [1..MaxCodes -> Nat]
          /\ tries' = [tries EXCEPT ![i] = @ + 1]
          /\ codes[i].attempts \in Nat
          /\ i \in 1..MaxCodes
        BY <1>1, <1>12, <2>1, CodeIsRow DEF Reject, Accept, TypeOK
    <2>5. tries[i] < codes[i].attempts
        BY <1>12, <2>1 DEF Reject, Accept, At, GuessInv, NextCounted
    <2>6. Counted'
        <3>1. SUFFICES ASSUME NEW j \in 1..MaxCodes
                       PROVE  /\ j \in Ids => tries'[j] <= codes'[j].attempts
                              /\ j \notin Ids => tries'[j] = 0
            BY <2>3 DEF Counted
        <3>2. CASE j = i
            <4>1. tries'[i] <= codes[i].attempts
                BY <2>4, <2>5
            <4>. QED
                BY <2>3, <3>2, <4>1 DEF AttemptsStay
        <3>3. CASE j # i
            BY <2>3, <2>4, <3>3 DEF GuessInv, Counted, AttemptsStay
        <3>. QED
            BY <3>2, <3>3
    <2>7. NextCounted'
        BY <1>3, <1>12 DEF Reject, Accept
    <2>. QED
        BY <1>1, <2>6, <2>7 DEF GuessInv
<1>13. ASSUME Tick \/ UNCHANGED vars PROVE GuessInv'
    <2>1. codes' = codes /\ request' = request /\ tries' = tries
        BY <1>13 DEF Tick, vars, history
    <2>2. NextCounted'
        BY <2>1 DEF GuessInv, NextCounted
    <2>. QED
        BY <1>1, <1>4, <2>1, <2>2, StillCounted DEF GuessInv
<1>. QED
    BY <1>5, <1>6, <1>7, <1>8, <1>9, <1>10, <1>11, <1>12, <1>13 DEF Next, Send, SendSms, Verify

(* If requests do not overlap, a code is compared with no more than        *)
(* OTP_MAX_ATTEMPTS guesses, whatever the settings, also when workers are  *)
(* killed between counting an attempt and comparing.                       *)
THEOREM GuessesLimited ==
    ASSUME OneWorker
    PROVE  Spec => []GuessesAreLimited
<1>1. GuessInv => GuessesAreLimited
    <2> SUFFICES ASSUME GuessInv, NEW i \in 1..MaxCodes PROVE tries[i] <= MaxAttempts
        BY DEF GuessesAreLimited
    <2>1. TypeOK
        BY DEF GuessInv, TypeInv
    <2>2. CASE i \in Ids
        <3>1. tries[i] \in Nat /\ tries[i] <= codes[i].attempts
            BY <2>1, <2>2 DEF GuessInv, Counted, TypeOK
        <3>. QED
            BY <2>1, <2>2, <3>1, CodeIsRow, SettingsAreNat
    <2>3. CASE i \notin Ids
        BY <2>3, SettingsAreNat DEF GuessInv, Counted
    <2>. QED
        BY <2>2, <2>3
<1>2. GuessInv /\ [Next]_vars => GuessInv'
    BY StepGuessInv
<1>. QED
    BY <1>1, <1>2, InitGuessInv, PTL DEF Spec

-----------------------------------------------------------------------------
(* How many codes are sent within an hour, and how many are usable.        *)

(* What a step leaves of the rows there are.                               *)
RowsStay ==
    /\ Len(codes') = Len(codes)
    /\ \A i \in Ids : /\ codes'[i].created = codes[i].created
                      /\ codes[i].used => codes'[i].used

LEMMA SameRows ==
    ASSUME codes' = codes
    PROVE  RowsStay
BY DEF RowsStay

LEMMA RowWritten ==
    ASSUME TypeOK, NEW i \in Ids, NEW row \in Rows, codes' = [codes EXCEPT ![i] = row],
           row.created = codes[i].created, codes[i].used => row.used
    PROVE  RowsStay
<1>1. /\ Len(codes') = Len(codes)
      /\ codes'[i] = row
      /\ \A j \in Ids \ {i} : codes'[j] = codes[j]
    BY CodeSet
<1>. QED
    BY <1>1 DEF RowsStay

LEMMA InvalidateUses ==
    ASSUME TypeOK, NEW w \in Workers, Invalidate(w)
    PROVE  /\ RowsStay
           /\ \A i \in Ids : codes'[i].used
<1>1. Len(codes) \in Nat /\ \A i \in Ids : [codes[i] EXCEPT !.used = TRUE] \in Rows
    BY MarkUsed DEF TypeOK
<1>2. codes' \in [1..Len(codes) -> Rows]
    BY <1>1 DEF Invalidate, Ids
<1>3. Len(codes') = Len(codes)
    BY <1>1, <1>2, FunctionIsSequence
<1>4. \A i \in Ids : codes'[i].used = TRUE /\ codes'[i].created = codes[i].created
    BY CodeIsRow DEF Invalidate, Rows
<1>. QED
    BY <1>3, <1>4 DEF RowsStay

LEMMA CreateAppends ==
    ASSUME TypeOK, NEW w \in Workers, CreateCode(w)
    PROVE  /\ Len(codes) \in Nat
           /\ Len(codes') = Len(codes) + 1
           /\ \A i \in Ids : codes'[i] = codes[i]
           /\ codes'[Len(codes) + 1] = [created |-> now, attempts |-> 0, used |-> FALSE]
           /\ Ids' = Ids \cup {Len(codes) + 1}
           /\ Len(codes) + 1 \notin Ids
           /\ now' = now
<1>1. /\ Len(codes) \in Nat
      /\ Len(codes') = Len(codes) + 1
      /\ \A i \in Ids : codes'[i] = codes[i]
      /\ codes'[Len(codes) + 1] = [created |-> now, attempts |-> 0, used |-> FALSE]
    BY DEF TypeOK, CreateCode, Ids
<1>. QED
    BY <1>1 DEF Ids, CreateCode

LEMMA OnlyCreateAppends ==
    ASSUME TypeInv, [Next]_vars, \A w \in Workers : ~CreateCode(w)
    PROVE  RowsStay
<1>1. TypeOK /\ \A v \in Workers : Holds(v)
    BY DEF TypeInv
<1>2. ASSUME NEW w \in Workers, SendCheck(w) \/ SmsSent(w) \/ Reject(w) \/ Crash(w)
      PROVE  RowsStay
    BY <1>2, SameRows DEF SendCheck, SmsSent, Reject, Crash
<1>3. ASSUME NEW w \in Workers, Invalidate(w) PROVE RowsStay
    BY <1>1, <1>3, InvalidateUses
<1>4. ASSUME NEW w \in Workers, SmsFailed(w) \/ Accept(w) PROVE RowsStay
    <2>1. PICK i \in Ids : i = request[w].code
        BY <1>1, <1>4 DEF SmsFailed, Accept, At, Holds
    <2>2. PICK row \in Rows : row = [codes[i] EXCEPT !.used = TRUE]
        BY <1>1, MarkUsed
    <2>3. row.created = codes[i].created /\ row.used
        BY <1>1, <2>2, CodeIsRow DEF Rows
    <2>4. codes' = [codes EXCEPT ![i] = row]
        BY <1>4, <2>1, <2>2 DEF SmsFailed, Accept
    <2>. QED
        BY <1>1, <2>3, <2>4, RowWritten
<1>5. ASSUME NEW w \in Workers, NEW i \in Ids, NEW right \in BOOLEAN, VerifyLoad(w, i, right)
      PROVE  RowsStay
    BY <1>5, SameRows DEF VerifyLoad
<1>6. ASSUME NEW w \in Workers, SaveAttempt(w) PROVE RowsStay
    <2>1. PICK i \in Ids : i = request[w].code
        BY <1>1, <1>6 DEF SaveAttempt, At, Holds
    <2>2. codes[i] \in Rows /\ request[w].attempts + 1 \in 0..MaxAttempts
        <3>1. request[w].attempts < MaxAttempts /\ request[w] \in Requests
            BY <1>1, <1>6 DEF SaveAttempt, At, Holds, TypeOK
        <3>. QED
            BY <1>1, <3>1, CodeIsRow, SettingsAreNat DEF Requests
    <2>3. PICK row : row = [codes[i] EXCEPT !.attempts = request[w].attempts + 1]
        OBVIOUS
    <2>4. row \in Rows /\ row.created = codes[i].created /\ row.used = codes[i].used
        BY <2>2, <2>3 DEF Rows
    <2>5. codes' = [codes EXCEPT ![i] = row]
        BY <1>6, <2>1, <2>3 DEF SaveAttempt
    <2>. QED
        BY <1>1, <2>4, <2>5, RowWritten
<1>7. ASSUME Tick \/ UNCHANGED vars PROVE RowsStay
    BY <1>7, SameRows DEF Tick, vars
<1>. QED
    BY <1>2, <1>3, <1>4, <1>5, <1>6, <1>7 DEF Next, Send, SendSms, Verify

(* The rows are in the order of their times.                               *)
InOrder ==
    \A i \in Ids : /\ codes[i].created <= now
                   /\ \A j \in Ids : i <= j => codes[i].created <= codes[j].created

(* The requests that passed the limit and have not created their code yet, *)
Pending == {w \in Workers : request[w].step \in {"invalidate", "create"}}

(* those of them that have voided the codes before theirs,                 *)
Creators == {w \in Workers : request[w].step = "create"}

(* and the codes of the last hour.                                         *)
Recent == {i \in Ids : codes[i].created >= now - Hour * Second}

(* Codes and pending requests share the room below the limit: whoever      *)
(* passes the check found room for one more code, and at most all the      *)
(* other workers did so before.                                            *)
RoomForAll ==
    Workers # {} => Cardinality(Recent) + Cardinality(Pending)
                        <= MaxSends + Cardinality(Workers) - 1

(* A code from an hour that has passed gets no company: SendsAreLimited is *)
(* part of its own induction.                                              *)
SendsInv == TypeInv /\ InOrder /\ RoomForAll /\ SendsAreLimited

(* Every unused code but for those a worker is about to create.            *)
UnusedLimited == Cardinality(Unused) + Cardinality(Creators) <= Cardinality(Workers)

LEMMA PendingAreFinite ==
    /\ IsFiniteSet(Pending) /\ Cardinality(Pending) \in Nat
    /\ IsFiniteSet(Creators) /\ Cardinality(Creators) \in Nat
    /\ Cardinality(Workers) \in Nat
    /\ Cardinality(Pending) <= Cardinality(Workers)
    /\ Cardinality(Creators) <= Cardinality(Workers)
<1>1. Pending \subseteq Workers /\ Creators \subseteq Workers
    BY DEF Pending, Creators
<1>. QED
    BY <1>1, WorkersAreFinite, FS_Subset, FS_CardinalityType

LEMMA IdsAreFinite ==
    ASSUME TypeOK, NEW S, S \subseteq Ids
    PROVE  IsFiniteSet(S) /\ Cardinality(S) \in Nat
<1>1. 1 \in Int /\ Len(codes) \in Int
    BY DEF TypeOK
<1>2. IsFiniteSet(Ids)
    BY <1>1, FS_Interval, Zenon DEF Ids
<1>. QED
    BY <1>2, FS_Subset, FS_CardinalityType

(* Where a step leaves worker w; the others stay where they are.           *)
Moves(w, step) ==
    /\ request'[w].step = step
    /\ \A v \in Workers \ {w} : request'[v] = request[v]

LEMMA GotoMoves ==
    ASSUME TypeOK, NEW w \in Workers, NEW step \in Steps, Goto(w, step)
    PROVE  Moves(w, step) /\ request'[w].code = request[w].code
<1>1. PICK req : req = [request[w] EXCEPT !.step = step]
    OBVIOUS
<1>2. req \in Requests /\ req.step = step /\ req.code = request[w].code
    BY <1>1 DEF TypeOK, Requests
<1>3. Take(w, req)
    BY <1>1 DEF Goto
<1>. QED
    BY <1>2, <1>3, RequestSet DEF Moves

LEMMA ReturnMoves ==
    ASSUME TypeOK, NEW w \in Workers, Return(w)
    PROVE  Moves(w, "idle")
<1>1. Take(w, Idle) /\ Idle \in Requests /\ Idle.step = "idle"
    BY IdleIsRequest DEF Return, Idle
<1>. QED
    BY <1>1, RequestSet DEF Moves

LEMMA StepMoves ==
    ASSUME TypeInv, NEW w \in Workers
    PROVE  /\ SendCheck(w) => Moves(w, "invalidate")
           /\ Invalidate(w) => Moves(w, "create")
           /\ CreateCode(w) => Moves(w, "sms") /\ request'[w].code = Len(codes) + 1
           /\ \A i \in Ids, right \in BOOLEAN :
                VerifyLoad(w, i, right) => Moves(w, "attempt") /\ request'[w].code = i
           /\ SaveAttempt(w) => Moves(w, "compare") /\ request'[w].code = request[w].code
           /\ SendSms(w) \/ Reject(w) \/ Accept(w) \/ Crash(w) => Moves(w, "idle")
<1>1. TypeOK
    BY DEF TypeInv
<1>2. {"idle", "invalidate", "create", "attempt", "compare"} \subseteq Steps
    BY DEF Steps
<1>3. SendCheck(w) => Moves(w, "invalidate")
    BY <1>1, <1>2, GotoMoves DEF SendCheck
<1>4. Invalidate(w) => Moves(w, "create")
    BY <1>1, <1>2, GotoMoves DEF Invalidate
<1>5. ASSUME CreateCode(w)
      PROVE  Moves(w, "sms") /\ request'[w].code = Len(codes) + 1
    <2>1. Len(codes) \in Nat /\ Len(codes) + 1 \in 0..MaxCodes
        BY <1>1, <1>5, SettingsAreNat DEF TypeOK, CreateCode
    <2>2. PICK req : req = [Idle EXCEPT !.step = "sms", !.code = Len(codes) + 1]
        OBVIOUS
    <2>3. req \in Requests /\ req.step = "sms" /\ req.code = Len(codes) + 1
        BY <2>1, <2>2, IdleIsRequest DEF Requests, Steps
    <2>4. Take(w, req)
        BY <1>5, <2>2 DEF CreateCode
    <2>. QED
        BY <1>1, <2>3, <2>4, RequestSet DEF Moves
<1>6. ASSUME NEW i \in Ids, NEW right \in BOOLEAN, VerifyLoad(w, i, right)
      PROVE  Moves(w, "attempt") /\ request'[w].code = i
    <2>1. PICK req : req = [step |-> "attempt", code |-> i, attempts |-> codes[i].attempts,
                            right |-> right]
        OBVIOUS
    <2>2. req \in Requests /\ req.step = "attempt" /\ req.code = i
        BY <1>1, <2>1, CodeIsRow DEF Requests, Steps
    <2>3. Take(w, req)
        BY <1>6, <2>1 DEF VerifyLoad
    <2>. QED
        BY <1>1, <2>2, <2>3, RequestSet DEF Moves
<1>7. SaveAttempt(w) => Moves(w, "compare") /\ request'[w].code = request[w].code
    BY <1>1, <1>2, GotoMoves DEF SaveAttempt
<1>8. SendSms(w) \/ Reject(w) \/ Accept(w) \/ Crash(w) => Moves(w, "idle")
    BY <1>1, ReturnMoves DEF SendSms, SmsSent, SmsFailed, Reject, Accept, Crash
<1>. QED
    BY <1>3, <1>4, <1>5, <1>6, <1>7, <1>8

LEMMA PendingFall ==
    ASSUME TypeInv, [Next]_vars
    PROVE  /\ (\A w \in Workers : ~SendCheck(w)) => Pending' \subseteq Pending
           /\ (\A w \in Workers : ~Invalidate(w)) => Creators' \subseteq Creators
           /\ \A w \in Workers :
                CreateCode(w) => /\ w \in Pending /\ Pending' = Pending \ {w}
                                 /\ w \in Creators /\ Creators' = Creators \ {w}
<1>1. ASSUME NEW w \in Workers, NEW step, Moves(w, step), step \notin {"invalidate", "create"}
      PROVE  Pending' = Pending \ {w} /\ Creators' = Creators \ {w}
    BY <1>1 DEF Moves, Pending, Creators
<1>2. ASSUME NEW w \in Workers, SendCheck(w)
      PROVE  Creators' \subseteq Creators
    BY <1>2, StepMoves DEF Moves, Creators
<1>3. ASSUME NEW w \in Workers, Invalidate(w)
      PROVE  Pending' \subseteq Pending
    <2>1. Moves(w, "create") /\ w \in Pending
        BY <1>3, StepMoves DEF Invalidate, At, Pending
    <2>. QED
        BY <2>1 DEF Moves, Pending
<1>4. ASSUME NEW w \in Workers, CreateCode(w)
      PROVE  /\ w \in Pending /\ Pending' = Pending \ {w}
             /\ w \in Creators /\ Creators' = Creators \ {w}
    <2>1. Moves(w, "sms")
        BY <1>4, StepMoves
    <2>2. w \in Pending /\ w \in Creators
        BY <1>4 DEF CreateCode, At, Pending, Creators
    <2>. QED
        BY <1>1, <2>1, <2>2
<1>5. ASSUME NEW w \in Workers, SendSms(w) \/ Verify(w) \/ Crash(w)
      PROVE  Pending' \subseteq Pending /\ Creators' \subseteq Creators
    <2>1. Moves(w, "idle") \/ Moves(w, "attempt") \/ Moves(w, "compare")
        BY <1>5, StepMoves DEF Verify
    <2>. QED
        BY <1>1, <2>1
<1>6. ASSUME Tick \/ UNCHANGED vars
      PROVE  Pending' = Pending /\ Creators' = Creators
    BY <1>6 DEF Tick, vars, Pending, Creators
<1>7. (\A w \in Workers : ~SendCheck(w)) => Pending' \subseteq Pending
    BY <1>3, <1>4, <1>5, <1>6 DEF Next, Send
<1>8. (\A w \in Workers : ~Invalidate(w)) => Creators' \subseteq Creators
    BY <1>2, <1>4, <1>5, <1>6 DEF Next, Send
<1>. QED
    BY <1>4, <1>7, <1>8

(* A new code invalidates the ones before it: at any time at most one code *)
(* per worker is unused, and only unused codes are usable.                 *)
LEMMA UnusedStep == TypeInv /\ UnusedLimited /\ [Next]_vars => UnusedLimited'
<1> SUFFICES ASSUME TypeInv, UnusedLimited, [Next]_vars PROVE UnusedLimited'
    OBVIOUS
<1>1. TypeOK /\ TypeInv' /\ TypeOK'
    BY StepTypeInv DEF TypeInv
<1>2. /\ IsFiniteSet(Unused) /\ Cardinality(Unused) \in Nat
      /\ IsFiniteSet(Unused') /\ Cardinality(Unused') \in Nat
    <2>1. Unused \subseteq Ids
        BY DEF Unused
    <2>2. IsFiniteSet(Unused) /\ Cardinality(Unused) \in Nat
        BY <1>1, <2>1, IdsAreFinite
    <2>3. IsFiniteSet(Unused') /\ Cardinality(Unused') \in Nat
        <3>1. 1 \in Int /\ Len(codes') \in Int
            BY <1>1 DEF TypeOK
        <3>2. IsFiniteSet(1..Len(codes'))
            BY <3>1, FS_Interval, Zenon
        <3>3. Unused' \subseteq 1..Len(codes')
            BY DEF Unused, Ids
        <3>. QED
            BY <3>2, <3>3, FS_Subset, FS_CardinalityType
    <2>. QED
        BY <2>2, <2>3
<1>3. /\ IsFiniteSet(Creators) /\ Cardinality(Creators) \in Nat
      /\ IsFiniteSet(Creators') /\ Cardinality(Creators') \in Nat
      /\ Cardinality(Workers) \in Nat
      /\ Cardinality(Creators') <= Cardinality(Workers)
      /\ Cardinality(Unused) + Cardinality(Creators) <= Cardinality(Workers)
    <2>1. Creators' \subseteq Workers
        BY DEF Creators
    <2>. QED
        BY <2>1, PendingAreFinite, WorkersAreFinite, FS_Subset, FS_CardinalityType
           DEF UnusedLimited
<1>4. CASE \E w \in Workers : CreateCode(w)
    <2>1. PICK w \in Workers : CreateCode(w)
        BY <1>4
    <2>2. Unused' \subseteq Unused \cup {Len(codes) + 1}
        BY <1>1, <2>1, CreateAppends DEF Unused
    <2>3. Len(codes) + 1 \notin Unused
        BY <1>1, <2>1, CreateAppends DEF Unused
    <2>4. Cardinality(Unused') <= Cardinality(Unused) + 1
        <3>1. /\ IsFiniteSet(Unused \cup {Len(codes) + 1})
              /\ Cardinality(Unused \cup {Len(codes) + 1}) = Cardinality(Unused) + 1
            BY <1>2, <2>3, FS_AddElement
        <3>. QED
            BY <2>2, <3>1, FS_Subset
    <2>5. Cardinality(Creators') = Cardinality(Creators) - 1
        <3>1. w \in Creators /\ Creators' = Creators \ {w}
            BY <2>1, PendingFall
        <3>. QED
            BY <1>3, <3>1, FS_RemoveElement
    <2>. QED
        BY <1>2, <1>3, <2>4, <2>5 DEF UnusedLimited
<1>5. CASE \E w \in Workers : Invalidate(w)
    <2>1. PICK w \in Workers : Invalidate(w)
        BY <1>5
    <2>2. Unused' = {}
        BY <1>1, <2>1, InvalidateUses DEF Unused, Ids, RowsStay
    <2>3. Cardinality(Unused') = 0
        BY <2>2, FS_EmptySet
    <2>. QED
        BY <1>3, <2>3 DEF UnusedLimited
<1>6. CASE \A w \in Workers : ~CreateCode(w) /\ ~Invalidate(w)
    <2>1. Unused' \subseteq Unused
        BY <1>6, OnlyCreateAppends DEF RowsStay, Unused, Ids
    <2>2. Creators' \subseteq Creators
        BY <1>6, PendingFall
    <2>3. /\ Cardinality(Unused') <= Cardinality(Unused)
          /\ Cardinality(Creators') <= Cardinality(Creators)
        BY <1>2, <1>3, <2>1, <2>2, FS_Subset
    <2>. QED
        BY <1>2, <1>3, <2>3 DEF UnusedLimited
<1>. QED
    BY <1>4, <1>5, <1>6

(* However the requests overlap, there are never more usable codes than    *)
(* requests that run at the same time: one, if they do not overlap.        *)
THEOREM UsableLimited == Spec => []OneUsablePerWorker
<1>1. Init => UnusedLimited
    <2> SUFFICES ASSUME Init PROVE UnusedLimited
        OBVIOUS
    <2>1. Unused = {} /\ Creators = {}
        BY DEF Init, Unused, Ids, Creators, Idle
    <2>. QED
        BY <2>1, FS_EmptySet, PendingAreFinite DEF UnusedLimited
<1>2. TypeInv /\ UnusedLimited => OneUsablePerWorker
    <2> SUFFICES ASSUME TypeInv, UnusedLimited PROVE OneUsablePerWorker
        OBVIOUS
    <2>1. {i \in Ids : IsUsable(codes[i])} \subseteq Unused /\ Unused \subseteq Ids
        BY DEF Unused, IsUsable
    <2>2. IsFiniteSet(Unused) /\ Cardinality(Unused) \in Nat
        BY <2>1, IdsAreFinite DEF TypeInv
    <2>3. /\ Cardinality({i \in Ids : IsUsable(codes[i])}) <= Cardinality(Unused)
          /\ Cardinality({i \in Ids : IsUsable(codes[i])}) \in Nat
        BY <2>1, <2>2, FS_Subset, FS_CardinalityType
    <2>. QED
        BY <2>2, <2>3, PendingAreFinite DEF UnusedLimited, OneUsablePerWorker
<1>. QED
    BY <1>1, <1>2, TypeInvHolds, UnusedStep, PTL DEF Spec

LEMMA NowPasses ==
    ASSUME TypeOK, [Next]_vars
    PROVE  now' \in Int /\ now <= now' /\ now \in Int
<1>1. now \in Int
    BY DEF TypeOK
<1>2. CASE Tick
    BY <1>1, <1>2 DEF Tick
<1>3. ASSUME NEW w \in Workers, Send(w) \/ Verify(w) \/ Crash(w) PROVE now' = now
    BY <1>3 DEF Send, SendSms, SendCheck, Invalidate, CreateCode, SmsSent, SmsFailed,
                Verify, VerifyLoad, SaveAttempt, Reject, Accept, Crash
<1>4. CASE UNCHANGED vars
    BY <1>1, <1>4 DEF vars
<1>. QED
    BY <1>1, <1>2, <1>3, <1>4 DEF Next

LEMMA RecentAreFinite ==
    ASSUME TypeOK, NEW S, S \subseteq Recent
    PROVE  /\ IsFiniteSet(S) /\ Cardinality(S) \in Nat
           /\ Cardinality(S) <= Cardinality(Recent)
           /\ Cardinality(Recent) \in Nat
<1>1. Recent \subseteq Ids
    BY DEF Recent
<1>2. IsFiniteSet(Recent) /\ Cardinality(Recent) \in Nat
    BY <1>1, IdsAreFinite
<1>. QED
    BY <1>2, FS_Subset, FS_CardinalityType

LEMMA TimesAreInt ==
    ASSUME TypeOK
    PROVE  /\ now \in Int /\ Hour * Second \in Int /\ Hour * Second >= 0
           /\ MaxSends \in Nat /\ Cardinality(Workers) \in Nat
           /\ \A i \in Ids : codes[i].created \in Int
<1>1. Hour * Second \in Int /\ Hour * Second >= 0
    <2>1. Hour \in Nat /\ Second \in Nat
        BY SettingsAreNat
    <2>2. Hour * Second \in Nat
        BY <2>1
    <2>. QED
        BY <2>2
<1>2. \A i \in Ids : codes[i].created \in Int
    <2> SUFFICES ASSUME NEW i \in Ids PROVE codes[i].created \in Int
        OBVIOUS
    <2>1. codes[i].created \in 0..MaxTime
        BY CodeIsRow
    <2>. QED
        BY <2>1
<1>3. now \in Int /\ MaxSends \in Nat
    BY SettingsAreNat DEF TypeOK
<1>. QED
    BY <1>1, <1>2, <1>3, PendingAreFinite

(* Time only passes, and the new row is the last one.                      *)
LEMMA OrderStep == TypeInv /\ InOrder /\ [Next]_vars => InOrder'
<1> SUFFICES ASSUME TypeInv, InOrder, [Next]_vars PROVE InOrder'
    OBVIOUS
<1>1. TypeOK
    BY DEF TypeInv
<1>2. CASE \E w \in Workers : CreateCode(w)
    <2>1. PICK w \in Workers : CreateCode(w)
        BY <1>2
    <2>2. PICK n : n = Len(codes) + 1
        OBVIOUS
    <2>3. /\ Ids' = Ids \cup {n}
          /\ \A i \in Ids : codes'[i].created = codes[i].created
          /\ codes'[n].created = now
          /\ now' = now
        BY <1>1, <2>1, <2>2, CreateAppends
    <2>4. n \in Int /\ now \in Int /\ \A i \in Ids : i \in Int /\ i < n
        BY <1>1, <2>2 DEF TypeOK, Ids
    <2>5. SUFFICES ASSUME NEW i \in Ids \cup {n}
                   PROVE  /\ codes'[i].created <= now
                          /\ \A j \in Ids \cup {n} : i <= j => codes'[i].created <= codes'[j].created
        BY <2>3 DEF InOrder
    <2>6. codes'[i].created <= now
        BY <2>3, <2>4 DEF InOrder
    <2>7. ASSUME NEW j \in Ids \cup {n}, i <= j
          PROVE  codes'[i].created <= codes'[j].created
        <3>1. CASE j = n
            BY <2>3, <2>6, <3>1
        <3>2. CASE j \in Ids
            <4>1. i \in Ids
                BY <2>4, <2>7, <3>2
            <4>. QED
                BY <2>3, <2>7, <3>2, <4>1 DEF InOrder
        <3>. QED
            BY <3>1, <3>2
    <2>. QED
        BY <2>6, <2>7
<1>3. CASE \A w \in Workers : ~CreateCode(w)
    <2>1. RowsStay
        BY <1>3, OnlyCreateAppends
    <2>2. Ids' = Ids
        BY <2>1 DEF RowsStay, Ids
    <2>3. now' \in Int /\ now <= now' /\ now \in Int
        BY <1>1, NowPasses, TimesAreInt
    <2>4. \A i \in Ids : codes'[i].created <= now'
        BY <1>1, <2>1, <2>3, TimesAreInt DEF InOrder, RowsStay
    <2>. QED
        BY <2>1, <2>2, <2>4 DEF InOrder, RowsStay
<1>. QED
    BY <1>2, <1>3

(* Whoever passes the check finds room for a code; a new code takes the    *)
(* room of its request, and an hour's passing only makes room.             *)
LEMMA RoomStep == TypeInv /\ RoomForAll /\ [Next]_vars => RoomForAll'
<1> SUFFICES ASSUME TypeInv, RoomForAll, [Next]_vars, Workers # {}
             PROVE  Cardinality(Recent') + Cardinality(Pending')
                        <= MaxSends + Cardinality(Workers) - 1
    BY DEF RoomForAll
<1>1. TypeOK /\ TypeInv'
    BY StepTypeInv DEF TypeInv
<1>2. /\ IsFiniteSet(Recent) /\ Cardinality(Recent) \in Nat
      /\ IsFiniteSet(Pending) /\ Cardinality(Pending) \in Nat
      /\ Cardinality(Workers) \in Nat /\ MaxSends \in Nat
      /\ Cardinality(Recent) + Cardinality(Pending) <= MaxSends + Cardinality(Workers) - 1
    <2>1. Recent \subseteq Ids
        BY DEF Recent
    <2>. QED
        BY <1>1, <2>1, IdsAreFinite, PendingAreFinite, TimesAreInt DEF RoomForAll
<1>3. Cardinality(Pending') \in Nat /\ Cardinality(Pending') <= Cardinality(Workers)
    <2>1. Pending' \subseteq Workers
        BY DEF Pending
    <2>. QED
        BY <2>1, WorkersAreFinite, FS_Subset, FS_CardinalityType
<1>4. CASE \E w \in Workers : CreateCode(w)
    <2>1. PICK w \in Workers : CreateCode(w)
        BY <1>4
    <2>2. Recent' \subseteq Recent \cup {Len(codes) + 1} /\ Len(codes) + 1 \notin Recent
        BY <1>1, <2>1, CreateAppends DEF Recent
    <2>3. /\ IsFiniteSet(Recent \cup {Len(codes) + 1})
          /\ Cardinality(Recent \cup {Len(codes) + 1}) = Cardinality(Recent) + 1
        BY <1>2, <2>2, FS_AddElement
    <2>4. /\ Cardinality(Recent') <= Cardinality(Recent) + 1
          /\ Cardinality(Recent') \in Nat
        BY <2>2, <2>3, FS_Subset, FS_CardinalityType
    <2>5. Cardinality(Pending') = Cardinality(Pending) - 1
        <3>1. w \in Pending /\ Pending' = Pending \ {w}
            BY <2>1, PendingFall
        <3>. QED
            BY <1>2, <3>1, FS_RemoveElement
    <2>. QED
        BY <1>2, <2>4, <2>5
<1>5. CASE \A w \in Workers : ~CreateCode(w)
    <2>1. Recent' \subseteq Recent
        <3>1. RowsStay
            BY <1>5, OnlyCreateAppends
        <3>2. Ids' = Ids /\ \A i \in Ids : codes'[i].created = codes[i].created
            BY <3>1 DEF RowsStay, Ids
        <3>3. now' \in Int /\ now <= now'
            BY <1>1, NowPasses
        <3>4. \A i \in Ids : codes[i].created >= now' - Hour * Second
                                => codes[i].created >= now - Hour * Second
            BY <1>1, <3>3, TimesAreInt
        <3>. QED
            BY <3>2, <3>4 DEF Recent
    <2>2. Cardinality(Recent') <= Cardinality(Recent) /\ Cardinality(Recent') \in Nat
        BY <1>1, <2>1, RecentAreFinite
    <2>3. CASE \E w \in Workers : SendCheck(w)
        <3>1. Cardinality(Recent) < MaxSends
            BY <2>3 DEF SendCheck, SendsRemain, sends_in_last_hour, Recent, Ids
        <3>. QED
            BY <1>2, <1>3, <2>2, <3>1
    <2>4. CASE \A w \in Workers : ~SendCheck(w)
        <3>1. Pending' \subseteq Pending
            BY <2>4, PendingFall
        <3>2. Cardinality(Pending') <= Cardinality(Pending)
            BY <1>2, <3>1, FS_Subset
        <3>. QED
            BY <1>2, <1>3, <2>2, <3>2
    <2>. QED
        BY <2>3, <2>4
<1>. QED
    BY <1>4, <1>5

(* The codes of the hour that begins with code first.                      *)
HourFrom(first) ==
    {i \in first..Len(codes) : codes[i].created <= codes[first].created + Hour * Second}

LEMMA HourStep ==
    TypeInv /\ InOrder /\ RoomForAll /\ SendsAreLimited /\ [Next]_vars => SendsAreLimited'
<1> SUFFICES ASSUME TypeInv, InOrder, RoomForAll, SendsAreLimited, [Next]_vars,
                    NEW first \in Ids'
             PROVE  Cardinality(HourFrom(first)') <= MaxSends + Cardinality(Workers) - 1
    BY DEF SendsAreLimited, HourFrom
<1>1. TypeOK /\ TypeOK' /\ InOrder' /\ RoomForAll'
    BY StepTypeInv, OrderStep, RoomStep DEF TypeInv
<1>2. \A i \in Ids : Cardinality(HourFrom(i)) <= MaxSends + Cardinality(Workers) - 1
    BY DEF SendsAreLimited, HourFrom
<1>3. Len(codes) \in Nat /\ Len(codes') \in Nat
    BY <1>1 DEF TypeOK
<1>4. CASE \A w \in Workers : ~CreateCode(w)
    <2>1. RowsStay
        BY <1>4, OnlyCreateAppends
    <2>2. first \in Ids /\ \A i \in first..Len(codes) : i \in Ids
        BY <1>3, <2>1 DEF RowsStay, Ids
    <2>3. HourFrom(first)' = HourFrom(first)
        BY <2>1, <2>2 DEF RowsStay, HourFrom
    <2>. QED
        BY <1>2, <2>2, <2>3
<1>5. CASE \E w \in Workers : CreateCode(w)
    <2>1. PICK w \in Workers : CreateCode(w)
        BY <1>5
    <2>2. PICK n : n = Len(codes) + 1
        OBVIOUS
    <2>3. /\ Ids' = Ids \cup {n} /\ Len(codes') = n
          /\ \A i \in Ids : codes'[i] = codes[i]
          /\ codes'[n].created = now
          /\ now' = now
        BY <1>1, <2>1, <2>2, CreateAppends
    <2>4. /\ now \in Int /\ Hour * Second \in Int /\ Hour * Second >= 0
          /\ MaxSends \in Nat /\ Cardinality(Workers) \in Nat
          /\ \A i \in Ids : codes[i].created \in Int
        BY <1>1, TimesAreInt
    <2>5. CASE first \in Ids /\ ~(now <= codes[first].created + Hour * Second)
        <3>1. \A i \in first..Len(codes) : i \in Ids
            BY <1>3, <2>5 DEF Ids
        <3>2. first..n = (first..Len(codes)) \cup {n}
            BY <1>3, <2>2, <2>5 DEF Ids
        <3>3. HourFrom(first)' = HourFrom(first)
            BY <2>3, <2>5, <3>1, <3>2 DEF HourFrom
        <3>. QED
            BY <1>2, <2>5, <3>3
    <2>6. CASE first \in Ids => now <= codes[first].created + Hour * Second
        <3>1. codes'[first].created \in Int /\ codes'[first].created >= now - Hour * Second
            BY <2>3, <2>4, <2>6
        <3>2. ASSUME NEW i \in HourFrom(first)' PROVE i \in Recent'
            <4>1. i \in Ids' /\ first <= i
                BY <1>3, <3>2 DEF HourFrom, Ids
            <4>2. codes'[first].created <= codes'[i].created /\ codes'[i].created \in Int
                BY <1>1, <2>3, <2>4, <4>1 DEF InOrder
            <4>. QED
                BY <2>3, <2>4, <3>1, <4>1, <4>2 DEF Recent
        <3>3. IsFiniteSet(Recent') /\ Cardinality(Recent') \in Nat
            <4>1. 1 \in Int /\ Len(codes') \in Int
                BY <1>3
            <4>2. IsFiniteSet(1..Len(codes'))
                BY <4>1, FS_Interval, Zenon
            <4>3. Recent' \subseteq 1..Len(codes')
                BY DEF Recent, Ids
            <4>. QED
                BY <4>2, <4>3, FS_Subset, FS_CardinalityType
        <3>4. /\ Cardinality(HourFrom(first)') <= Cardinality(Recent')
              /\ Cardinality(HourFrom(first)') \in Nat
            BY <3>2, <3>3, FS_Subset, FS_CardinalityType
        <3>5. Cardinality(Pending') \in Nat
            <4>1. Pending' \subseteq Workers
                BY DEF Pending
            <4>. QED
                BY <4>1, WorkersAreFinite, FS_Subset, FS_CardinalityType
        <3>6. Cardinality(Recent') + Cardinality(Pending') <= MaxSends + Cardinality(Workers) - 1
            BY <1>1 DEF RoomForAll
        <3>. QED
            BY <2>4, <3>3, <3>4, <3>5, <3>6
    <2>. QED
        BY <2>5, <2>6
<1>. QED
    BY <1>4, <1>5

(* However the requests overlap, no hour sees more codes than the setting  *)
(* says and one more for every further worker; it is the setting itself    *)
(* if requests do not overlap.                                             *)
THEOREM SendsLimited == Spec => []SendsAreLimited
<1>1. Init => SendsInv
    <2> SUFFICES ASSUME Init PROVE SendsInv
        OBVIOUS
    <2>1. Ids = {} /\ Recent = {} /\ Pending = {}
        BY DEF Init, Ids, Recent, Pending, Idle
    <2>2. InOrder /\ SendsAreLimited
        BY <2>1 DEF InOrder, SendsAreLimited
    <2>3. ASSUME Workers # {} PROVE Cardinality(Workers) \in Nat /\ Cardinality(Workers) >= 1
        <3>1. Cardinality(Workers) # 0
            BY <2>3, WorkersAreFinite, FS_EmptySet
        <3>. QED
            BY <3>1, PendingAreFinite
    <2>4. RoomForAll
        BY <2>1, <2>3, SettingsAreNat, FS_EmptySet DEF RoomForAll
    <2>. QED
        BY <2>2, <2>4, InitTypeInv DEF SendsInv
<1>2. SendsInv /\ [Next]_vars => SendsInv'
    BY StepTypeInv, OrderStep, RoomStep, HourStep DEF SendsInv
<1>3. SendsInv => SendsAreLimited
    BY DEF SendsInv
<1>. QED
    BY <1>1, <1>2, <1>3, PTL DEF Spec

-----------------------------------------------------------------------------
(* What the flows take for granted of the codes, when requests do not      *)
(* overlap.                                                                *)

(* Only the newest code is unused; none is while a new one is on its way,  *)
(* and a worker that works on a code works on an unused one.               *)
ServedInv ==
    /\ TypeInv
    /\ Unused \subseteq {Len(codes)}
    /\ \A w \in Workers :
        /\ request[w].step = "create" => Unused = {}
        /\ request[w].step \in {"sms", "attempt", "compare"} => request[w].code \in Unused

LEMMA ServedStep ==
    ASSUME OneWorker, ServedInv, [Next]_vars
    PROVE  ServedInv' /\ [Service!Next]_(Service!vars)
<1>1. TypeOK /\ TypeInv' /\ Len(codes) \in Nat
    BY StepTypeInv DEF ServedInv, TypeInv, TypeOK
<1>2. ASSUME RowsStay, Unused' = Unused,
             \A v \in Workers :
                /\ request'[v].step = "create" => Unused = {}
                /\ request'[v].step \in {"sms", "attempt", "compare"} => request'[v].code \in Unused
      PROVE  ServedInv'
    BY <1>1, <1>2 DEF ServedInv, RowsStay
<1>3. ASSUME NEW w \in Workers, Unused' = {}, request'[w].step \in {"create", "idle"}
      PROVE  ServedInv'
    BY <1>1, <1>3 DEF ServedInv, OneWorker
<1>4. ASSUME codes' = codes PROVE RowsStay /\ Unused' = Unused
    BY <1>4, SameRows DEF Unused, Ids
<1>5. ASSUME NEW w \in Workers, SendCheck(w) \/ SmsSent(w) \/ Reject(w) \/ Crash(w)
      PROVE  ServedInv' /\ UNCHANGED Service!vars
    <2>1. request'[w].step \in {"invalidate", "idle"}
        BY <1>5, StepMoves DEF ServedInv, Moves, SendSms
    <2>2. codes' = codes /\ accepted' = accepted
        BY <1>5 DEF SendCheck, SmsSent, Reject, Crash, history
    <2>. QED
        BY <1>2, <1>4, <2>1, <2>2 DEF OneWorker, Service!vars
<1>6. ASSUME NEW w \in Workers, Invalidate(w)
      PROVE  ServedInv' /\ Service!Void
    <2>1. request'[w].step = "create"
        BY <1>6, StepMoves DEF ServedInv, Moves
    <2>2. Unused' = {} /\ Len(codes') = Len(codes)
        BY <1>1, <1>6, InvalidateUses DEF Unused, Ids, RowsStay
    <2>. QED
        BY <1>3, <1>6, <2>1, <2>2 DEF Service!Void, Invalidate, history
<1>7. ASSUME NEW w \in Workers, CreateCode(w)
      PROVE  ServedInv' /\ Service!Create
    <2>1. request'[w].step = "sms" /\ request'[w].code = Len(codes) + 1
        BY <1>7, StepMoves DEF ServedInv, Moves
    <2>2. Unused = {}
        BY <1>7 DEF CreateCode, At, ServedInv
    <2>3. PICK n : n = Len(codes) + 1
        OBVIOUS
    <2>4. /\ Len(codes') = n /\ Ids' = Ids \cup {n}
          /\ \A i \in Ids : codes'[i] = codes[i]
          /\ codes'[n].used = FALSE
        BY <1>1, <1>7, <2>3, CreateAppends
    <2>5. Unused' = {n}
        BY <2>2, <2>4 DEF Unused
    <2>6. ServedInv'
        BY <1>1, <2>1, <2>3, <2>4, <2>5 DEF ServedInv, OneWorker
    <2>7. Service!Create
        BY <1>7, <2>3, <2>4, <2>5 DEF Service!Create, CreateCode, history
    <2>. QED
        BY <2>6, <2>7
<1>8. ASSUME NEW w \in Workers, NEW i \in Unused, codes' = [codes EXCEPT ![i].used = TRUE]
      PROVE  Unused' = {} /\ Len(codes') = Len(codes)
    <2>1. i \in Ids /\ i = Len(codes)
        BY <1>8 DEF Unused, ServedInv
    <2>2. PICK row \in Rows : row = [codes[i] EXCEPT !.used = TRUE]
        BY <1>1, <2>1, MarkUsed
    <2>3. row.used
        BY <1>1, <2>1, <2>2, CodeIsRow DEF Rows
    <2>4. /\ Len(codes') = Len(codes)
          /\ codes'[i] = row
          /\ \A j \in Ids \ {i} : codes'[j] = codes[j]
        BY <1>1, <1>8, <2>1, <2>2, CodeSet
    <2>5. \A j \in Ids \ {i} : codes[j].used
        BY <2>1 DEF ServedInv, Unused
    <2>. QED
        BY <2>3, <2>4, <2>5 DEF Unused, Ids
<1>9. ASSUME NEW w \in Workers, SmsFailed(w)
      PROVE  ServedInv' /\ Service!Void
    <2>1. request[w].code \in Unused
        BY <1>9 DEF SmsFailed, At, ServedInv
    <2>2. Unused' = {} /\ Len(codes') = Len(codes)
        BY <1>8, <1>9, <2>1 DEF SmsFailed
    <2>3. request'[w].step = "idle"
        BY <1>9, StepMoves DEF ServedInv, Moves, SendSms
    <2>. QED
        BY <1>3, <1>9, <2>2, <2>3 DEF Service!Void, SmsFailed
<1>10. ASSUME NEW w \in Workers, Accept(w)
       PROVE  ServedInv' /\ \E i \in Unused : Service!Accept(i)
    <2>1. request[w].code \in Unused
        BY <1>10 DEF Accept, At, ServedInv
    <2>2. Unused' = {} /\ Len(codes') = Len(codes)
        BY <1>8, <1>10, <2>1 DEF Accept
    <2>3. request'[w].step = "idle"
        BY <1>10, StepMoves DEF ServedInv, Moves
    <2>4. Service!Accept(request[w].code)
        BY <1>10, <2>1, <2>2 DEF Service!Accept, Accept
    <2>. QED
        BY <1>3, <2>1, <2>2, <2>3, <2>4
<1>11. ASSUME NEW w \in Workers, NEW i \in Ids, NEW right \in BOOLEAN, VerifyLoad(w, i, right)
       PROVE  ServedInv' /\ UNCHANGED Service!vars
    <2>1. request'[w].step = "attempt" /\ request'[w].code = i
        BY <1>11, StepMoves DEF ServedInv, Moves
    <2>2. i \in Unused /\ codes' = codes /\ accepted' = accepted
        BY <1>11 DEF VerifyLoad, IsLatestUnused, history
    <2>. QED
        BY <1>2, <1>4, <2>1, <2>2 DEF OneWorker, Service!vars
<1>12. ASSUME NEW w \in Workers, SaveAttempt(w)
       PROVE  ServedInv' /\ UNCHANGED Service!vars
    <2>1. request[w].code \in Unused
        BY <1>12 DEF SaveAttempt, At, ServedInv
    <2>2. request'[w].step = "compare" /\ request'[w].code = request[w].code
        BY <1>12, StepMoves DEF ServedInv, Moves
    <2>3. RowsStay /\ Unused' = Unused
        <3>1. PICK i \in Ids : i = request[w].code
            BY <2>1 DEF Unused
        <3>2. codes[i] \in Rows /\ request[w].attempts + 1 \in 0..MaxAttempts
            <4>1. request[w].attempts < MaxAttempts /\ request[w] \in Requests
                BY <1>1, <1>12 DEF SaveAttempt, At, Holds, TypeOK, ServedInv, TypeInv
            <4>. QED
                BY <1>1, <4>1, CodeIsRow, SettingsAreNat DEF Requests
        <3>3. PICK row : row = [codes[i] EXCEPT !.attempts = request[w].attempts + 1]
            OBVIOUS
        <3>4. row \in Rows /\ row.created = codes[i].created /\ row.used = codes[i].used
            BY <3>2, <3>3 DEF Rows
        <3>5. codes' = [codes EXCEPT ![i] = row]
            BY <1>12, <3>1, <3>3 DEF SaveAttempt
        <3>6. /\ Len(codes') = Len(codes)
              /\ codes'[i] = row
              /\ \A j \in Ids \ {i} : codes'[j] = codes[j]
            BY <1>1, <3>4, <3>5, CodeSet
        <3>7. Unused' = Unused
            BY <3>4, <3>6 DEF Unused, Ids
        <3>. QED
            BY <1>1, <3>4, <3>5, <3>7, RowWritten
    <2>4. accepted' = accepted
        BY <1>12 DEF SaveAttempt, history
    <2>. QED
        BY <1>2, <2>1, <2>2, <2>3, <2>4 DEF OneWorker, Service!vars, RowsStay
<1>13. ASSUME Tick \/ UNCHANGED vars
       PROVE  ServedInv' /\ UNCHANGED Service!vars
    <2>1. codes' = codes /\ accepted' = accepted /\ request' = request
        BY <1>13 DEF Tick, vars, history
    <2>. QED
        BY <1>2, <1>4, <2>1 DEF ServedInv, Service!vars
<1>. QED
    BY <1>5, <1>6, <1>7, <1>9, <1>10, <1>11, <1>12, <1>13
       DEF Next, Send, SendSms, Verify, Service!Next

(* If requests do not overlap, the queries of send_otp and verify_otp,     *)
(* stopped after any of them, implement the service the flows rely on:     *)
(* only the newest code is accepted, and only once.                        *)
THEOREM CodesAreServed ==
    ASSUME OneWorker
    PROVE  Spec => ServesCodes
<1>1. Init => ServedInv /\ Service!Init
    <2> SUFFICES ASSUME Init PROVE ServedInv /\ Service!Init
        OBVIOUS
    <2>1. Unused = {} /\ Len(codes) = 0
        BY DEF Init, Unused, Ids
    <2>2. \A w \in Workers : request[w].step = "idle"
        BY DEF Init, Idle
    <2>3. Service!Init
        BY <2>1 DEF Init, Service!Init
    <2>. QED
        BY <2>1, <2>2, <2>3, InitTypeInv DEF ServedInv
<1>2. ServedInv /\ [Next]_vars => ServedInv' /\ [Service!Next]_(Service!vars)
    BY ServedStep
<1>. QED
    BY <1>1, <1>2, PTL DEF Spec, ServesCodes, Service!Spec
=============================================================================
