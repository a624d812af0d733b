-------------------------------- MODULE MCOtp --------------------------------
(* Small instances of Otp.                                                 *)
EXTENDS Otp, TLC

CONSTANTS w1, w2

MCWorkerSymmetry == Permutations(Workers)
=============================================================================
