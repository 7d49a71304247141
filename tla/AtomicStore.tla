---------------------------- MODULE AtomicStore ----------------------------
(***************************************************************************)
(* What a file replaced by "write a temporary, sync it, rename it" gives   *)
(* its readers: they see a whole value or no file at all, never a part of  *)
(* one.  A new value is visible at once and durable some time later (the   *)
(* directory entry is not synced), so that a power loss may bring back the *)
(* last durable value, and nothing else.                                   *)
(***************************************************************************)
CONSTANTS Values, Absent

VARIABLES visible, durable

vars == <<visible, durable>>

Init == visible = Absent /\ durable = Absent

Put(v) == visible' = v /\ UNCHANGED durable

Flush == durable' = visible /\ UNCHANGED visible

PowerLoss == visible' = durable /\ UNCHANGED durable

Next == (\E v \in Values : Put(v)) \/ Flush \/ PowerLoss

Spec == Init /\ [][Next]_vars
=============================================================================
