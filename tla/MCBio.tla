------------------------------- MODULE MCBio -------------------------------
(* Two buffers for three sectors, one of them unreadable. *)
EXTENDS Bio

MCBuf == 1..2
MCSector == 11..13
=============================================================================
