----------------------------- MODULE MCAccounts -----------------------------
(* Small instances of Website.                                             *)
EXTENDS Website

CONSTANTS s1, s2

n1 == <<0, 9, 1, 2, 0, 0, 0, 0, 0, 0, 1>>
n2 == <<0, 9, 1, 2, 0, 0, 0, 0, 0, 0, 2>>
n3 == <<0, 9, 1, 2, 0, 0, 0, 0, 0, 0, 3>>
c1 == <<0, 0, 1, 2, 3, 4, 5, 6, 5, 2>>
c2 == <<1, 2, 3, 4, 5, 6, 7, 8, 0, 6>>

MCNumber == {n1, n2, n3}
MCGivenNumbers == {n1}
MCNationalCode == {c1, c2}

(* The first number can be typed with a Persian nine.                      *)
MCKey == {n1, [n1 EXCEPT ![2] = Persian(9)]}

(* One code stands for all: what it is does not matter.                    *)
MCOtpCodes == {<<1, 2, 3, 4, 5, 6>>}

(* Codes are drawn uniformly and filled up with zeros on the left.         *)
MCOddCodes == {<<1, 2, 3, 4, 5, 6>>, <<0, 0, 9, 8, 5, 6>>}

(* Two people; one has two numbers and reads the other's messages.         *)
MCOwnerOf == n1 :> c1 @@ n2 :> c1 @@ n3 :> c2
MCReads == s1 :> {n1, n2, n3} @@ s2 :> {n3}
=============================================================================
