---------------------------- MODULE MCConnection ----------------------------
(* Small instance of Connection for TLC. *)
EXTENDS ConnectionInv

\* Two handshake words, swapped by the scramble.
MCScramble(w) == 1 - w
=============================================================================
