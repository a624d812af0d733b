------------------------------- MODULE Forms --------------------------------
(***************************************************************************)
(* What the forms make of what visitors type: mobile numbers, one-time     *)
(* codes and national codes (src/apps/accounts/forms.py and validators.py).*)
(* A text is a sequence of characters; a character is a digit 0..9, Plus,  *)
(* Gap (a space, a dash or a non-joiner), or a Persian or Arabic digit.    *)
(***************************************************************************)
EXTENDS Integers, FiniteSets, SequencesExt

Digit == 0..9
Plus == 10
Gap == 11
Persian(d) == 20 + d
Character == Digit \cup {Plus, Gap} \cup {Persian(d) : d \in Digit}

english(c) == IF c \in Digit \cup {Plus, Gap} THEN c ELSE c - 20

(* normalize_mobile's variable: Persian digits are English, gaps are gone.  *)
cleaned(t) ==
    LET kept == {i \in DOMAIN t : t[i] # Gap}
        place(i) == Cardinality({j \in kept : j <= i})
    IN [n \in 1..Cardinality(kept) |-> english(t[CHOOSE i \in kept : place(i) = n])]

(* How many characters of a cleaned text stand for the country.            *)
CountryCode(t) ==
    CASE IsPrefix(<<Plus, 9, 8>>, t) -> 3
      [] IsPrefix(<<0, 0, 9, 8>>, t) -> 4
      [] IsPrefix(<<9, 8>>, t) /\ Len(t) = 12 -> 2
      [] OTHER -> 0

normalize_mobile(t) ==
    LET c == cleaned(t)
        n == CountryCode(c)
    IN
    IF n = 0 THEN c ELSE <<0>> \o SubSeq(c, n + 1, Len(c))

isdigit(t) == t # <<>> /\ \A i \in DOMAIN t : t[i] \in Digit

(* The validators say whether the field is accepted.                       *)
validate_iranian_mobile(t) == isdigit(t) /\ Len(t) = 11 /\ IsPrefix(<<0, 9>>, t)

checksum(code) ==
    10 * code[1] + 9 * code[2] + 8 * code[3] + 7 * code[4] + 6 * code[5]
        + 5 * code[6] + 4 * code[7] + 3 * code[8] + 2 * code[9]

ControlOfTwo(code) ==           \* faulty: off by one in the rule
    LET r == checksum(code) % 11 IN IF r <= 2 THEN r ELSE 11 - r

control_digit(code) ==
    LET r == checksum(code) % 11 IN IF r < 2 THEN r ELSE 11 - r

validate_national_code(code) ==
    /\ isdigit(code) /\ Len(code) = 10
    /\ \E i \in 2..10 : code[i] # code[1]
    /\ code[10] = control_digit(code)

clean_mobile(t) == normalize_mobile(t)
clean_code(t) == normalize_mobile(t)
clean_national_code(t) == normalize_mobile(t)

-----------------------------------------------------------------------------
(* The slips in typing a national code: one wrong digit, or neighbouring   *)
(* digits exchanged.                                                       *)
Mistyped(code) ==
    {[code EXCEPT ![i] = d] : i \in 1..10, d \in Digit}
    \cup {[code EXCEPT ![i] = code[i + 1], ![i + 1] = code[i]] : i \in 1..9}
=============================================================================
