------------------------------- MODULE MCLog -------------------------------
(* Four blocks, of which a transaction can log three, so that it can be     *)
(* too big.                                                                 *)
EXTENDS Log

MCBlock == 1..4
MCVal == 0..1
=============================================================================
