---------------------------- MODULE CodeService ----------------------------
(***************************************************************************)
(* What the flows of Accounts take for granted of the one-time codes of    *)
(* one number and purpose: a new code takes the place of the one before,   *)
(* only the newest can be accepted, that ends it, and a code that is void  *)
(* stays void (src/apps/accounts/services/otp.py, its opening comment).    *)
(***************************************************************************)
EXTENDS Integers

CONSTANT Id         \* the codes that may be created, numbered from 1

VARIABLES
    newest,         \* the number of the last code
    valid,          \* the codes that may still be accepted
    uses            \* uses[i]: how often code i was accepted

vars == <<newest, valid, uses>>

Init ==
    /\ newest = 0
    /\ valid = {}
    /\ uses = [i \in Id |-> 0]

Create ==
    /\ newest' = newest + 1
    /\ valid' = {newest'}
    /\ UNCHANGED uses

(* For whatever reason: another code is on its way, the message was not    *)
(* sent.                                                                   *)
Void ==
    /\ valid' = {}
    /\ UNCHANGED <<newest, uses>>

Accept(i) ==
    /\ i \in valid
    /\ valid' = {}
    /\ uses' = [uses EXCEPT ![i] = @ + 1]
    /\ UNCHANGED newest

Next == Create \/ Void \/ \E i \in valid : Accept(i)

Spec == Init /\ [][Next]_vars
=============================================================================
