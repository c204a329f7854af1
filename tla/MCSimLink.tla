------------------------------- MODULE MCSimLink -------------------------------
(* The link with pipes of a few lines, for TLC: four signals, asked for in twos. *)
EXTENDS SimLink
================================================================================
