------------------------------ MODULE TaskLease ------------------------------
(***************************************************************************)
(* What the claim table promises of one analysis task, stated without      *)
(* goroutines, requests and rows: the task is with the workers or with the *)
(* server, never with both; of the workers one at a time has a lease,      *)
(* under a token that was never used before; and a lease that runs ends by *)
(* its holder's own wish, by time, or with the whole task. AnalysisTask is *)
(* shown to implement it.                                                  *)
(***************************************************************************)
EXTENDS Naturals

VARIABLES
  offered,  \* workers may claim the task
  taken,    \* the server analyses it
  holder,   \* the token of the last claim, 0 when there is none ...
  running,  \* ... and whether its lease runs
  issued,   \* tokens are 1..issued
  leaving   \* tokens whose holders give them back

vars == <<offered, taken, holder, running, issued, leaving>>

NoHolder == holder' = 0 /\ running' = FALSE

Init ==
  /\ offered = FALSE /\ taken = FALSE
  /\ holder = 0 /\ running = FALSE /\ issued = 0 /\ leaving = {}

Offer ==
  /\ ~offered /\ ~taken
  /\ offered' = TRUE /\ NoHolder
  /\ UNCHANGED <<taken, issued, leaving>>

\* A claim whose lease has lapsed does not keep another worker out.
Grant ==
  /\ offered /\ ~running
  /\ issued' = issued + 1 /\ holder' = issued' /\ running' = TRUE
  /\ UNCHANGED <<offered, taken, leaving>>

Lapse ==
  /\ running /\ running' = FALSE
  /\ UNCHANGED <<offered, taken, holder, issued, leaving>>

\* Until the claim is forgotten or another is granted, its holder may go on.
Renew ==
  /\ holder # 0 /\ ~running /\ running' = TRUE
  /\ UNCHANGED <<offered, taken, holder, issued, leaving>>

Forget ==
  /\ holder # 0 /\ ~running /\ holder' = 0
  /\ UNCHANGED <<offered, taken, running, issued, leaving>>

Leave(k) ==
  /\ leaving' = leaving \cup {k}
  /\ UNCHANGED <<offered, taken, holder, running, issued>>

\* What is given back is the claim of the one who gives it back.
GiveBack(k) ==
  /\ holder = k /\ NoHolder
  /\ leaving' \in {leaving, leaving \ {k}}
  /\ UNCHANGED <<offered, taken, issued>>

TooLate(k) ==
  /\ holder # k
  /\ leaving' = leaving \ {k}
  /\ UNCHANGED <<offered, taken, holder, running, issued>>

Withdraw ==
  /\ offered /\ offered' = FALSE /\ NoHolder
  /\ UNCHANGED <<taken, issued, leaving>>

TakeOver ==
  /\ ~taken /\ taken' = TRUE
  /\ offered' = FALSE /\ NoHolder
  /\ UNCHANGED <<issued, leaving>>

Finish ==
  /\ taken /\ taken' = FALSE
  /\ UNCHANGED <<offered, holder, running, issued, leaving>>

Restart ==
  /\ offered' = FALSE /\ taken' = FALSE /\ NoHolder /\ leaving' = {}
  /\ UNCHANGED issued

Next ==
  \/ Offer \/ Grant \/ Lapse \/ Renew \/ Forget
  \/ \E k \in 1..issued : Leave(k)
  \/ \E k \in leaving : GiveBack(k) \/ TooLate(k)
  \/ Withdraw \/ TakeOver \/ Finish \/ Restart

Spec == Init /\ [][Next]_vars

===============================================================================
