------------------------------ MODULE MCBuddy ------------------------------
(***************************************************************************)
(* Model-checking instance of Buddy: three orders (64, 128, 256 bytes      *)
(* standing for 2^6 .. 2^12), two blocks per mark and a heap of two        *)
(* MAX_ORD blocks, so that every order has at least two marks and every    *)
(* list sees insertions and removals at its head and at its tail.          *)
(***************************************************************************)
EXTENDS Buddy

MC_MIN_ORD == 6
MC_MAX_ORD == 8
MC_LOG_BITS == 1
MC_NBLK == 2
=============================================================================
