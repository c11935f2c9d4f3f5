------------------------------ MODULE Settings ------------------------------
(***************************************************************************)
(* What the vendor control data of src/sys/sys_vctl.c promise: a store of   *)
(* one value per type.  A save becomes visible as a whole.  A restart keeps *)
(* everything when the last save has ended well; otherwise the restart may  *)
(* find any type lost, or with the value of a save that was not finished,   *)
(* but never with a value older than the last one seen.                    *)
(***************************************************************************)
EXTENDS Integers

CONSTANTS Type, Value, None

VARIABLES
  kv,      \* the value of each type, or None
  tried,   \* the (type, value) pairs of saves since the last that ended well
  era      \* changes at every restart

Init ==
  /\ kv \in [Type -> Value \cup {None}]
  /\ tried \subseteq Type \X Value
  /\ era = 0

Begin ==
  /\ \E t \in Type, v \in Value : tried' = tried \cup {<<t, v>>}
  /\ UNCHANGED <<kv, era>>

Commit ==
  /\ \E p \in tried : kv' = [kv EXCEPT ![p[1]] = p[2]]
  /\ tried' = {} /\ UNCHANGED era

Restart ==
  /\ era' = 1 - era
  /\ kv' \in [Type -> Value \cup {None}]
  /\ IF tried = {} THEN UNCHANGED kv
     ELSE \A t \in Type : kv'[t] \in {None, kv[t]} \/ <<t, kv'[t]>> \in tried
  /\ \/ tried' = {}
     \/ \E t \in Type, v \in Value : tried' = {<<t, v>>}   \* Begin at once

Next == Begin \/ Commit \/ Restart

Spec == Init /\ [][Next]_<<kv, tried, era>>
=============================================================================
