----------------------------- MODULE FormsProofs -----------------------------
(***************************************************************************)
(* What the forms let through of a mistyped national code: theorems about  *)
(* the operators of Forms, for every code.                                 *)
(***************************************************************************)
EXTENDS Forms, FiniteSetTheorems, TLAPS

TenDigits == [1..10 -> Digit]

LEMMA FunctionIsSequence ==
    ASSUME NEW S, NEW n \in Nat, NEW f \in [1..n -> S]
    PROVE  f \in Seq(S) /\ Len(f) = n
<1>1. f \in Seq(S)
    OBVIOUS
<1>2. DOMAIN f = 1..n
    OBVIOUS
<1>. QED
    BY <1>1, <1>2

LEMMA FirstPositions ==
    ASSUME NEW i \in 1..10
    PROVE  Cardinality({j \in 1..10 : j <= i}) = i
<1>1. {j \in 1..10 : j <= i} = 1..i
    OBVIOUS
<1>2. 1 \in Int /\ i \in Int /\ 1 <= i
    OBVIOUS
<1>3. Cardinality(1..i) = IF 1 > i THEN 0 ELSE i - 1 + 1
    BY <1>2, FS_Interval, Zenon
<1>4. Cardinality(1..i) = i
    BY <1>2, <1>3
<1>. QED
    BY <1>1, <1>4, Zenon

(* Cleaning leaves ten digits as they are.                                 *)
LEMMA DigitsStay ==
    ASSUME NEW t \in TenDigits
    PROVE  cleaned(t) = t
<1> DEFINE kept == {i \in DOMAIN t : t[i] # Gap}
           place(i) == Cardinality({j \in kept : j <= i})
           origin(n) == CHOOSE i \in kept : place(i) = n
<1>1. DOMAIN t = 1..10 /\ \A i \in 1..10 : t[i] \in Digit
    BY DEF TenDigits
<1>2. kept = 1..10
    BY <1>1 DEF Gap, Digit
<1>3. Cardinality(kept) = 10
    <2>1. {j \in 1..10 : j <= 10} = 1..10
        OBVIOUS
    <2>. QED
        BY <1>2, <2>1, FirstPositions
<1>4. \A i \in 1..10 : place(i) = i
    BY <1>2, FirstPositions
<1>5. \A n \in 1..10 : origin(n) = n
    <2> SUFFICES ASSUME NEW n \in 1..10 PROVE origin(n) = n
        OBVIOUS
    <2>. HIDE DEF place, kept
    <2>1. n \in kept /\ place(n) = n
        BY <1>2, <1>4
    <2>2. \A i \in kept : place(i) = n => i = n
        BY <1>2, <1>4
    <2>. QED
        BY <2>1, <2>2
<1>6. cleaned(t) = [n \in 1..10 |-> english(t[origin(n)])]
    BY <1>3 DEF cleaned
<1>7. \A n \in 1..10 : english(t[n]) = t[n]
    BY <1>1 DEF english
<1>8. cleaned(t) = [n \in 1..10 |-> t[n]]
    <2>. HIDE DEF origin
    <2>. QED
        BY <1>5, <1>6, <1>7
<1>. QED
    BY <1>1, <1>8 DEF TenDigits

(* The country code is looked for in a national code too; one that begins  *)
(* like it becomes too short and is refused.                               *)
LEMMA ValidIfUnchanged ==
    ASSUME NEW t \in TenDigits, validate_national_code(clean_national_code(t))
    PROVE  clean_national_code(t) = t
<1>1. cleaned(t) = t /\ t \in Seq(Digit) /\ Len(t) = 10
    <2>1. cleaned(t) = t
        BY DigitsStay
    <2>2. t \in [1..10 -> Digit]
        BY DEF TenDigits
    <2>3. t \in Seq(Digit) /\ Len(t) = 10
        BY <2>2, FunctionIsSequence
    <2>. QED
        BY <2>1, <2>3
<1>2. \A i \in 1..10 : t[i] # Plus
    BY DEF TenDigits, Digit, Plus
<1>3. CountryCode(t) \in {0, 4}
    <2>1. ~IsPrefix(<<Plus, 9, 8>>, t)
        <3> DEFINE s == <<Plus, 9, 8>>
        <3>1. Len(s) = 3 /\ s[1] = Plus /\ SubSeq(s, 1, 3)[1] = s[1]
            OBVIOUS
        <3>2. SubSeq(t, 1, 3)[1] = t[1]
            BY <1>1
        <3>. QED
            BY <1>2, <3>1, <3>2 DEF IsPrefix
    <2>2. Len(t) # 12
        BY <1>1
    <2>. QED
        BY <2>1, <2>2, Zenon DEF CountryCode
<1>4. CASE CountryCode(t) = 4
    <2>1. clean_national_code(t) = <<0>> \o SubSeq(t, 5, 10)
        BY <1>1, <1>4 DEF clean_national_code, normalize_mobile
    <2>2. Len(<<0>> \o SubSeq(t, 5, 10)) = 7
        BY <1>1
    <2>. QED
        BY <2>1, <2>2 DEF validate_national_code
<1>5. CASE CountryCode(t) = 0
    BY <1>1, <1>5 DEF clean_national_code, normalize_mobile
<1>. QED
    BY <1>3, <1>4, <1>5

(* The control digit tells two remainders apart unless it is 1.            *)
RemainderOf(digit) == IF digit = 0 THEN 0 ELSE 11 - digit

LEMMA ControlTellsRemainder ==
    ASSUME NEW t \in TenDigits, t[10] = control_digit(t), t[10] # 1
    PROVE  checksum(t) \in Nat /\ checksum(t) % 11 = RemainderOf(t[10])
<1>1. \A i \in 1..10 : t[i] \in Nat
    BY DEF TenDigits, Digit
<1>2. checksum(t) \in Nat
    <2>1. /\ t[1] \in Nat /\ t[2] \in Nat /\ t[3] \in Nat /\ t[4] \in Nat /\ t[5] \in Nat
          /\ t[6] \in Nat /\ t[7] \in Nat /\ t[8] \in Nat /\ t[9] \in Nat
        BY <1>1
    <2>2. /\ 10 * t[1] \in Nat /\ 9 * t[2] \in Nat /\ 8 * t[3] \in Nat
          /\ 7 * t[4] \in Nat /\ 6 * t[5] \in Nat /\ 5 * t[6] \in Nat
          /\ 4 * t[7] \in Nat /\ 3 * t[8] \in Nat /\ 2 * t[9] \in Nat
        BY <2>1
    <2>. QED
        BY <2>2 DEF checksum
<1>. HIDE DEF checksum
<1>. QED
    BY <1>2 DEF control_digit, RemainderOf

(* The weight of a place: eleven is prime, and so no wrong digit there     *)
(* leaves the remainder as it is.                                          *)
LEMMA WeightsDiffer ==
    ASSUME NEW w \in 2..10, NEW c \in Digit, NEW d \in Digit, NEW rest \in Int,
           (rest + w * c) % 11 = (rest + w * d) % 11
    PROVE  c = d
<1>1. \A w0 \in 2..10 : w = w0 => c = d
    BY DEF Digit
<1>. QED
    BY <1>1

(* How the checksums of two codes differ, place by place.                  *)
Delta(a, b, j) == a[j] - b[j]

LEMMA ChecksumsDiffer ==
    ASSUME NEW a \in TenDigits, NEW b \in TenDigits
    PROVE  /\ checksum(b) \in Int
           /\ \A j \in 1..10 : Delta(a, b, j) \in Int
           /\ checksum(a) = checksum(b)
               + 10 * Delta(a, b, 1) + 9 * Delta(a, b, 2) + 8 * Delta(a, b, 3) + 7 * Delta(a, b, 4) + 6 * Delta(a, b, 5)
               + 5 * Delta(a, b, 6) + 4 * Delta(a, b, 7) + 3 * Delta(a, b, 8) + 2 * Delta(a, b, 9)
<1>1. /\ a[1] \in Int /\ a[2] \in Int /\ a[3] \in Int /\ a[4] \in Int /\ a[5] \in Int
      /\ a[6] \in Int /\ a[7] \in Int /\ a[8] \in Int /\ a[9] \in Int
    BY DEF TenDigits, Digit
<1>2. /\ b[1] \in Int /\ b[2] \in Int /\ b[3] \in Int /\ b[4] \in Int /\ b[5] \in Int
      /\ b[6] \in Int /\ b[7] \in Int /\ b[8] \in Int /\ b[9] \in Int
    BY DEF TenDigits, Digit
<1>3. checksum(b) \in Int
    BY <1>2 DEF checksum
<1>4. \A j \in 1..10 : Delta(a, b, j) \in Int
    BY DEF TenDigits, Digit, Delta
<1>5. checksum(a) - checksum(b) =
          10 * (a[1] - b[1]) + 9 * (a[2] - b[2]) + 8 * (a[3] - b[3]) + 7 * (a[4] - b[4])
              + 6 * (a[5] - b[5]) + 5 * (a[6] - b[6]) + 4 * (a[7] - b[7])
              + 3 * (a[8] - b[8]) + 2 * (a[9] - b[9])
    BY <1>1, <1>2, SMTT(30) DEF checksum
<1>6. checksum(a) \in Int
    BY <1>1 DEF checksum
<1>7. checksum(a) - checksum(b) =
          10 * Delta(a, b, 1) + 9 * Delta(a, b, 2) + 8 * Delta(a, b, 3)
              + 7 * Delta(a, b, 4) + 6 * Delta(a, b, 5) + 5 * Delta(a, b, 6)
              + 4 * Delta(a, b, 7) + 3 * Delta(a, b, 8) + 2 * Delta(a, b, 9)
    BY <1>5, Zenon DEF Delta
<1>. QED
    BY <1>3, <1>4, <1>6, <1>7

LEMMA ChecksumOfOneChanged ==
    ASSUME NEW a \in TenDigits, NEW b \in TenDigits, NEW i \in 1..9,
           \A j \in (1..10) \ {i} : a[j] = b[j]
    PROVE  checksum(a) = checksum(b) + (11 - i) * (a[i] - b[i])
<1> SUFFICES checksum(a) = checksum(b) + (11 - i) * Delta(a, b, i)
    BY DEF Delta
<1>1. \A j \in (1..10) \ {i} : Delta(a, b, j) = 0
    BY DEF TenDigits, Digit, Delta
<1>2. CASE i = 1
    BY <1>1, <1>2, ChecksumsDiffer
<1>3. CASE i = 2
    BY <1>1, <1>3, ChecksumsDiffer
<1>4. CASE i = 3
    BY <1>1, <1>4, ChecksumsDiffer
<1>5. CASE i = 4
    BY <1>1, <1>5, ChecksumsDiffer
<1>6. CASE i = 5
    BY <1>1, <1>6, ChecksumsDiffer
<1>7. CASE i = 6
    BY <1>1, <1>7, ChecksumsDiffer
<1>8. CASE i = 7
    BY <1>1, <1>8, ChecksumsDiffer
<1>9. CASE i = 8
    BY <1>1, <1>9, ChecksumsDiffer
<1>10. CASE i = 9
    BY <1>1, <1>10, ChecksumsDiffer
<1>. QED
    BY <1>2, <1>3, <1>4, <1>5, <1>6, <1>7, <1>8, <1>9, <1>10

LEMMA ChecksumOfExchanged ==
    ASSUME NEW a \in TenDigits, NEW b \in TenDigits, NEW i \in 1..8,
           a[i] = b[i + 1], a[i + 1] = b[i],
           \A j \in (1..10) \ {i, i + 1} : a[j] = b[j]
    PROVE  checksum(a) = checksum(b) + (b[i + 1] - b[i])
<1> SUFFICES checksum(a) = checksum(b) + Delta(a, b, i)
    BY DEF Delta
<1>0. \A j \in 1..10 :
          /\ j \notin {i, i + 1} => Delta(a, b, j) = 0
          /\ j = i + 1 => Delta(a, b, j) = 0 - Delta(a, b, i)
    <2>1. i \in 1..10 /\ i + 1 \in 1..10
        OBVIOUS
    <2>. QED
        BY <2>1 DEF TenDigits, Digit, Delta
<1>1. CASE i = 1
    <2>1. /\ Delta(a, b, 3) = 0 /\ Delta(a, b, 4) = 0 /\ Delta(a, b, 5) = 0 /\ Delta(a, b, 6) = 0
          /\ Delta(a, b, 7) = 0 /\ Delta(a, b, 8) = 0 /\ Delta(a, b, 9) = 0
          /\ Delta(a, b, 2) = 0 - Delta(a, b, 1)
        BY <1>0, <1>1
    <2>. QED
        BY <2>1, <1>1, ChecksumsDiffer
<1>2. CASE i = 2
    <2>1. /\ Delta(a, b, 1) = 0 /\ Delta(a, b, 4) = 0 /\ Delta(a, b, 5) = 0 /\ Delta(a, b, 6) = 0
          /\ Delta(a, b, 7) = 0 /\ Delta(a, b, 8) = 0 /\ Delta(a, b, 9) = 0
          /\ Delta(a, b, 3) = 0 - Delta(a, b, 2)
        BY <1>0, <1>2
    <2>. QED
        BY <2>1, <1>2, ChecksumsDiffer
<1>3. CASE i = 3
    <2>1. /\ Delta(a, b, 1) = 0 /\ Delta(a, b, 2) = 0 /\ Delta(a, b, 5) = 0 /\ Delta(a, b, 6) = 0
          /\ Delta(a, b, 7) = 0 /\ Delta(a, b, 8) = 0 /\ Delta(a, b, 9) = 0
          /\ Delta(a, b, 4) = 0 - Delta(a, b, 3)
        BY <1>0, <1>3
    <2>. QED
        BY <2>1, <1>3, ChecksumsDiffer
<1>4. CASE i = 4
    <2>1. /\ Delta(a, b, 1) = 0 /\ Delta(a, b, 2) = 0 /\ Delta(a, b, 3) = 0 /\ Delta(a, b, 6) = 0
          /\ Delta(a, b, 7) = 0 /\ Delta(a, b, 8) = 0 /\ Delta(a, b, 9) = 0
          /\ Delta(a, b, 5) = 0 - Delta(a, b, 4)
        BY <1>0, <1>4
    <2>. QED
        BY <2>1, <1>4, ChecksumsDiffer
<1>5. CASE i = 5
    <2>1. /\ Delta(a, b, 1) = 0 /\ Delta(a, b, 2) = 0 /\ Delta(a, b, 3) = 0 /\ Delta(a, b, 4) = 0
          /\ Delta(a, b, 7) = 0 /\ Delta(a, b, 8) = 0 /\ Delta(a, b, 9) = 0
          /\ Delta(a, b, 6) = 0 - Delta(a, b, 5)
        BY <1>0, <1>5
    <2>. QED
        BY <2>1, <1>5, ChecksumsDiffer
<1>6. CASE i = 6
    <2>1. /\ Delta(a, b, 1) = 0 /\ Delta(a, b, 2) = 0 /\ Delta(a, b, 3) = 0 /\ Delta(a, b, 4) = 0
          /\ Delta(a, b, 5) = 0 /\ Delta(a, b, 8) = 0 /\ Delta(a, b, 9) = 0
          /\ Delta(a, b, 7) = 0 - Delta(a, b, 6)
        BY <1>0, <1>6
    <2>. QED
        BY <2>1, <1>6, ChecksumsDiffer
<1>7. CASE i = 7
    <2>1. /\ Delta(a, b, 1) = 0 /\ Delta(a, b, 2) = 0 /\ Delta(a, b, 3) = 0 /\ Delta(a, b, 4) = 0
          /\ Delta(a, b, 5) = 0 /\ Delta(a, b, 6) = 0 /\ Delta(a, b, 9) = 0
          /\ Delta(a, b, 8) = 0 - Delta(a, b, 7)
        BY <1>0, <1>7
    <2>. QED
        BY <2>1, <1>7, ChecksumsDiffer
<1>8. CASE i = 8
    <2>1. /\ Delta(a, b, 1) = 0 /\ Delta(a, b, 2) = 0 /\ Delta(a, b, 3) = 0 /\ Delta(a, b, 4) = 0
          /\ Delta(a, b, 5) = 0 /\ Delta(a, b, 6) = 0 /\ Delta(a, b, 7) = 0
          /\ Delta(a, b, 9) = 0 - Delta(a, b, 8)
        BY <1>0, <1>8
    <2>. QED
        BY <2>1, <1>8, ChecksumsDiffer
<1>. QED
    BY <1>1, <1>2, <1>3, <1>4, <1>5, <1>6, <1>7, <1>8

LEMMA CodesAreEqual ==
    ASSUME NEW a \in TenDigits, NEW b \in TenDigits, \A j \in 1..10 : a[j] = b[j]
    PROVE  a = b
BY DEF TenDigits

LEMMA OneDigitIsNoticed ==
    ASSUME NEW code \in TenDigits, code[10] = control_digit(code), code[10] # 1,
           NEW i \in 1..10, NEW d \in Digit,
           NEW text \in TenDigits, text[10] = control_digit(text),
           text[i] = d, \A j \in (1..10) \ {i} : text[j] = code[j]
    PROVE  text = code
<1>1. CASE i = 10
    <2>1. \A j \in 1..9 : text[j] = code[j]
        BY <1>1
    <2>2. checksum(text) = checksum(code)
        BY <2>1 DEF checksum
    <2>3. text[10] = code[10]
        BY <2>2 DEF control_digit
    <2>. QED
        BY <2>1, <2>3, CodesAreEqual
<1>2. CASE i \in 1..9
    <2>1. checksum(code) \in Int /\ checksum(text) = checksum(code) + (11 - i) * (d - code[i])
        BY <1>2, ChecksumOfOneChanged, ChecksumsDiffer
    <2>2. code[i] \in Digit /\ 11 - i \in 2..10
        BY <1>2 DEF TenDigits
    <2>3. checksum(text) % 11 = checksum(code) % 11
        BY <1>2, ControlTellsRemainder
    <2> DEFINE rest == checksum(code) - (11 - i) * code[i]
    <2>4. /\ rest \in Int
          /\ checksum(code) = rest + (11 - i) * code[i]
          /\ checksum(text) = rest + (11 - i) * d
        <3> DEFINE w == 11 - i
        <3>1. w \in Int /\ d \in Int /\ code[i] \in Int
            BY <2>2 DEF Digit
        <3>. HIDE DEF w
        <3>2. w * d \in Int /\ w * code[i] \in Int /\ w * (d - code[i]) = w * d - w * code[i]
            BY <3>1
        <3>3. checksum(text) = checksum(code) + w * (d - code[i])
            BY <2>1 DEF w
        <3>4. /\ checksum(code) - w * code[i] \in Int
              /\ checksum(code) = (checksum(code) - w * code[i]) + w * code[i]
              /\ checksum(text) = (checksum(code) - w * code[i]) + w * d
            BY <2>1, <3>2, <3>3
        <3>. QED
            BY <3>4 DEF w
    <2>. HIDE DEF rest
    <2>5. code[i] = d
        BY <2>2, <2>3, <2>4, WeightsDiffer
    <2>. QED
        BY <2>5, CodesAreEqual
<1>. QED
    BY <1>1, <1>2

LEMMA ExchangedRemainders ==
    ASSUME NEW x \in 0..9, NEW c \in 0..9, c # 1, ~(x = 1 /\ c = 3),
           NEW r \in 0..10, NEW s \in 0..10, NEW p \in Int, NEW q \in Int,
           s = IF c = 0 THEN 0 ELSE 11 - c,
           x = IF r < 2 THEN r ELSE 11 - r,
           11 * p + r = 11 * q + s + 2 * (c - x)
    PROVE  x = c
<1>1. p - q \in {-3, -2, -1, 0, 1, 2, 3}
    OBVIOUS
<1>2. 11 * (p - q) = s + 2 * (c - x) - r
    OBVIOUS
<1>. QED
    BY <1>1, <1>2

LEMMA ControlExchanged ==
    ASSUME NEW x \in Digit, NEW c \in Digit, c # 1, ~(x = 1 /\ c = 3),
           NEW sum \in Int, sum % 11 = RemainderOf(c),
           NEW r \in 0..10, r = (sum + 2 * (c - x)) % 11,
           x = IF r < 2 THEN r ELSE 11 - r
    PROVE  x = c
<1> DEFINE change == 2 * (c - x)
           q == sum \div 11
           p == (sum + change) \div 11
<1>1. x \in 0..9 /\ c \in 0..9 /\ RemainderOf(c) \in 0..10 /\ change \in Int
    BY DEF Digit, RemainderOf
<1>2. r = (sum + change) % 11
    OBVIOUS
<1>3. change = 2 * (c - x)
    OBVIOUS
<1>. HIDE DEF change
<1>4. q \in Int /\ sum = 11 * q + RemainderOf(c)
    OBVIOUS
<1>5. p \in Int /\ sum + change = 11 * p + r
    BY <1>1, <1>2
<1>. HIDE DEF p, q
<1>6. 11 * p + r = 11 * q + RemainderOf(c) + 2 * (c - x)
    BY <1>4, <1>5, <1>3
<1>7. RemainderOf(c) = IF c = 0 THEN 0 ELSE 11 - c
    BY DEF RemainderOf
<1>. QED
    BY <1>1, <1>4, <1>5, <1>6, <1>7, ExchangedRemainders

LEMMA ExchangeIsNoticed ==
    ASSUME NEW code \in TenDigits, code[10] = control_digit(code), code[10] # 1,
           ~(code[9] = 1 /\ code[10] = 3),
           NEW i \in 1..9,
           NEW text \in TenDigits, text[10] = control_digit(text),
           text[i] = code[i + 1], text[i + 1] = code[i],
           \A j \in (1..10) \ {i, i + 1} : text[j] = code[j]
    PROVE  text = code
<1>1. SUFFICES code[i] = code[i + 1]
    BY <1>1, CodesAreEqual
<1>2. i \in 1..10 /\ i + 1 \in 1..10 /\ code[i] \in Digit /\ code[i + 1] \in Digit
    BY DEF TenDigits
<1>3. checksum(code) \in Int /\ checksum(code) % 11 = RemainderOf(code[10])
    BY ChecksumsDiffer, ControlTellsRemainder
<1>4. CASE i \in 1..8
    <2>1. checksum(text) = checksum(code) + (code[i + 1] - code[i])
        BY <1>4, ChecksumOfExchanged
    <2>2. text[10] = code[10]
        BY <1>4
    <2>3. checksum(text) % 11 = checksum(code) % 11
        BY <1>3, <2>2, ControlTellsRemainder
    <2>. QED
        BY <1>2, <1>3, <2>1, <2>3 DEF Digit
<1>5. CASE i = 9
    <2>1. code[9] \in Digit /\ code[10] \in Digit /\ text[9] = code[10] /\ text[10] = code[9]
        BY <1>2, <1>5
    <2>2. checksum(text) = checksum(code) + 2 * (code[10] - code[9])
        <3>1. \A j \in (1..10) \ {9} : j # 10 => text[j] = code[j]
            BY <1>5
        <3>2. Delta(text, code, 9) = code[10] - code[9]
            BY <2>1 DEF Delta
        <3>3. \A j \in 1..8 : Delta(text, code, j) = 0
            BY <3>1 DEF Delta, TenDigits, Digit
        <3>4. /\ Delta(text, code, 1) = 0 /\ Delta(text, code, 2) = 0
              /\ Delta(text, code, 3) = 0 /\ Delta(text, code, 4) = 0
              /\ Delta(text, code, 5) = 0 /\ Delta(text, code, 6) = 0
              /\ Delta(text, code, 7) = 0 /\ Delta(text, code, 8) = 0
            BY <3>3
        <3>5. checksum(text) = checksum(code) + 2 * Delta(text, code, 9)
            BY <1>3, <3>4, ChecksumsDiffer
        <3>. QED
            BY <3>2, <3>5
    <2> DEFINE r == checksum(text) % 11
    <2>3. r \in 0..10 /\ code[9] = IF r < 2 THEN r ELSE 11 - r
        BY <2>1, <2>2, <1>3 DEF control_digit, Digit
    <2>4. code[9] = code[10]
        BY <1>3, <1>5, <2>1, <2>2, <2>3, ControlExchanged
    <2>. QED
        BY <1>5, <2>4
<1>. QED
    BY <1>4, <1>5

(* Every slip in a national code is noticed: of the codes that differ from *)
(* it in one digit, or in the order of two neighbouring ones, the form     *)
(* lets none through (validate_national_code).  Two kinds of codes are     *)
(* excepted, whose rule itself cannot tell: those with the control digit 1 *)
(* and those that end in 1 and 3.                                          *)
THEOREM SlipIsNoticed ==
    ASSUME NEW code \in TenDigits, validate_national_code(code),
           control_digit(code) # 1, <<code[9], code[10]>> # <<1, 3>>,
           NEW text \in Mistyped(code),
           validate_national_code(clean_national_code(text))
    PROVE  text = code
<1>1. code[10] = control_digit(code) /\ code[10] # 1 /\ ~(code[9] = 1 /\ code[10] = 3)
    BY DEF validate_national_code
<1>2. ASSUME NEW i \in 1..10, NEW d \in Digit, text = [code EXCEPT ![i] = d]
      PROVE  text = code
    <2>1. text \in TenDigits /\ text[i] = d /\ \A j \in (1..10) \ {i} : text[j] = code[j]
        BY <1>2 DEF TenDigits
    <2>2. text[10] = control_digit(text)
        BY <2>1, ValidIfUnchanged DEF validate_national_code
    <2>. QED
        BY <1>1, <2>1, <2>2, OneDigitIsNoticed
<1>3. ASSUME NEW i \in 1..9, text = [code EXCEPT ![i] = code[i + 1], ![i + 1] = code[i]]
      PROVE  text = code
    <2>1. i \in 1..10 /\ i + 1 \in 1..10 /\ i # i + 1
        OBVIOUS
    <2>2. /\ text \in TenDigits
          /\ text[i] = code[i + 1] /\ text[i + 1] = code[i]
          /\ \A j \in (1..10) \ {i, i + 1} : text[j] = code[j]
        BY <1>3, <2>1 DEF TenDigits
    <2>3. text[10] = control_digit(text)
        BY <2>2, ValidIfUnchanged DEF validate_national_code
    <2>. QED
        BY <1>1, <2>2, <2>3, ExchangeIsNoticed
<1>. QED
    BY <1>2, <1>3 DEF Mistyped
=============================================================================
