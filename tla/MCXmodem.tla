----------------------------- MODULE MCXmodem ------------------------------
(***************************************************************************)
(* Model-checking instances of Xmodem.                                      *)
(***************************************************************************)
EXTENDS Xmodem

\* A line that does everything, and one that loses a single answer to a
\* sender that listens.
MCSettings ==
  {[deaf |-> TRUE, faults |-> 5, kinds |-> {"ack", "lose", "garble", "noise"}],
   [deaf |-> FALSE, faults |-> 1, kinds |-> {"ack"}]}

\* A single lost answer, and a sender that waits for its own time-out.
MCDeaf == {[deaf |-> TRUE, faults |-> 1, kinds |-> {"ack"}]}
=============================================================================
