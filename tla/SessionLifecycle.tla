--------------------------- MODULE SessionLifecycle ---------------------------
(***************************************************************************)
(* What playback/session.Manager promises of every session, stated without *)
(* the table, the janitor, Shutdown, goroutines and clocks: a session is   *)
(* opened once, with a directory; it is closed once, with one result; only *)
(* then is its directory removed; and who is told that the close is over   *)
(* finds the directory gone, unless removing it has failed. A crash ends   *)
(* every session, and the next start tries to remove what they left.       *)
(* SessionRegistry is shown to implement it.                               *)
(***************************************************************************)
CONSTANT Sessions

VARIABLES
  serving,  \* the process is up
  phase,    \* how far every session has come
  outcome,  \* how its close was decided
  files,    \* sessions with a directory under sessions/ ...
  stuck     \* ... and those that are left to the next start

vars == <<serving, phase, outcome, files, stuck>>

Init ==
  /\ serving = TRUE
  /\ phase = [s \in Sessions |-> "new"] /\ outcome = [s \in Sessions |-> "open"]
  /\ files = {} /\ stuck = {}

Goes(s, from, to) ==
  serving /\ phase[s] = from /\ phase' = [phase EXCEPT ![s] = to]

\* A session without a whole directory is never opened. A part of a directory
\* may be left.
Prepare(s) ==
  /\ \/ Goes(s, "new", "ready") /\ files' = files \cup {s} /\ UNCHANGED stuck
     \/ Goes(s, "new", "gone") /\ UNCHANGED <<files, stuck>>
     \/ /\ Goes(s, "new", "gone")
        /\ files' = files \cup {s} /\ stuck' = stuck \cup {s}
  /\ UNCHANGED <<serving, outcome>>

Register(s) ==
  /\ Goes(s, "ready", "open")
  /\ UNCHANGED <<serving, outcome, files, stuck>>

\* The removal of a directory may fail, and then it is known to have failed.
Removes(s) ==
  \/ files' = files \ {s} /\ UNCHANGED stuck
  \/ stuck' = stuck \cup {s} /\ UNCHANGED files

Reject(s) ==
  /\ Goes(s, "ready", "gone") /\ Removes(s)
  /\ UNCHANGED <<serving, outcome>>

\* Whoever closes a session first decides how it ends.
Close(s) ==
  /\ Goes(s, "open", "closing")
  /\ \E result \in {"closed", "expired"} : outcome' = [outcome EXCEPT ![s] = result]
  /\ UNCHANGED <<serving, files, stuck>>

Remove(s) ==
  /\ serving /\ phase[s] = "closing" /\ Removes(s)
  /\ UNCHANGED <<serving, phase, outcome>>

\* The end of a close, for those who wait for it.
End(s) ==
  /\ s \notin files \ stuck /\ Goes(s, "closing", "over")
  /\ UNCHANGED <<serving, outcome, files, stuck>>

\* Only a session that nobody has begun to make can still be opened later.
Crash ==
  /\ serving /\ serving' = FALSE
  /\ \E unborn \in SUBSET {s \in Sessions : phase[s] = "new"} :
       phase' = [s \in Sessions |-> IF s \in unborn THEN "new" ELSE "gone"]
  /\ outcome' = [s \in Sessions |-> "open"] /\ stuck' = {}
  /\ UNCHANGED files

Restart ==
  /\ ~serving /\ serving' = TRUE
  /\ files' \in SUBSET files /\ stuck' = files'
  /\ UNCHANGED <<phase, outcome>>

Next ==
  \/ \E s \in Sessions :
       Prepare(s) \/ Register(s) \/ Reject(s) \/ Close(s) \/ Remove(s) \/ End(s)
  \/ Crash \/ Restart

Spec == Init /\ [][Next]_vars

===============================================================================
