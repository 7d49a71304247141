------------------------------ MODULE JobFeed ------------------------------
(***************************************************************************)
(* What a pool client promises the engine about jobs: a queue that may     *)
(* lose jobs, but only the oldest ones and only when a newer one comes,    *)
(* so that the newest job offered is never lost; a job that starts a       *)
(* new block (clean) discards all that wait, so that no job of the old     *)
(* block comes in front of it or after it; and nothing is offered once the *)
(* feed is closed, although what waits can still be taken.                 *)
(***************************************************************************)
EXTENDS Naturals, Sequences

CONSTANT Jobs      \* records with a field clean

VARIABLES
  waiting,         \* jobs offered and not yet taken
  taken,           \* the last job the engine took
  open

vars == <<waiting, taken, open>>

Init == waiting = <<>> /\ open = TRUE

Offer(job, lost) ==
  /\ open
  /\ job.clean => lost = Len(waiting)
  /\ waiting' = Append(SubSeq(waiting, lost + 1, Len(waiting)), job)
  /\ UNCHANGED <<taken, open>>

Take ==
  /\ waiting # <<>>
  /\ taken' = Head(waiting) /\ waiting' = Tail(waiting)
  /\ UNCHANGED open

Close == open /\ open' = FALSE /\ UNCHANGED <<waiting, taken>>

Next ==
  \/ \E job \in Jobs : \E lost \in 0..Len(waiting) : Offer(job, lost)
  \/ Take \/ Close

Spec == Init /\ [][Next]_vars
=============================================================================
