----------------------------- MODULE MCTftpGet ------------------------------
(***************************************************************************)
(* Model-checking instances of TftpGet.                                     *)
(***************************************************************************)
EXTENDS TftpGet

\* Everything may go wrong, but in order: files that fit, fill the buffer,
\* exceed it, or have more blocks than th_block can count.
Eventful ==
  [downloads |-> 2, tries |-> 2,
   files |-> {1, 4, 9}, buffers |-> {3, 4, 10}, errors |-> {1},
   resends |-> TRUE, prompt |-> TRUE, sendFails |-> TRUE,
   faults |-> 2, losable |-> {"RRQ", "DATA", "ACK", "ERROR"}]

\* Timers race answers, and datagrams run together in the ring.
Late ==
  [downloads |-> 1, tries |-> 2,
   files |-> {3}, buffers |-> {1, 6}, errors |-> {0},
   resends |-> FALSE, prompt |-> FALSE, sendFails |-> FALSE,
   faults |-> 1, losable |-> {"RRQ", "DATA", "ACK", "ERROR"}]

\* Only losses.
Lossy ==
  [downloads |-> 1, tries |-> 2,
   files |-> {1, 4, 5}, buffers |-> {9}, errors |-> {},
   resends |-> TRUE, prompt |-> TRUE, sendFails |-> FALSE,
   faults |-> 2, losable |-> {"DATA", "ACK"}]

MCSettings == {Eventful, Late, Lossy}

\* Nothing goes wrong but that the server repeats a block early.
MCEarly ==
  {[downloads |-> 1, tries |-> 1,
    files |-> {1}, buffers |-> {9}, errors |-> {},
    resends |-> FALSE, prompt |-> FALSE, sendFails |-> FALSE,
    faults |-> 0, losable |-> {}]}
=============================================================================
