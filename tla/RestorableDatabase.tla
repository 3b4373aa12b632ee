-------------------------- MODULE RestorableDatabase --------------------------
(***************************************************************************)
(* What backup and restore promise the users of the database, stated       *)
(* without files, markers, logs and the steps of a start: the server keeps *)
(* what is committed, whenever it stops, and a restore replaces all of it  *)
(* at once, while nobody is served, and only once. The mishaps the program *)
(* does not survive are excused by name. DatabaseRestore is shown to       *)
(* implement it.                                                           *)
(***************************************************************************)
CONSTANTS Requests, Writes

VARIABLES
  serving,   \* the database is open
  content,   \* what its users find in it
  asked,     \* requests to the backup service that have begun
  installed, \* restores that have taken effect
  mishap     \* "rename", "log" and "unread", after which nothing is promised of
             \* what is served, and "overlap", after which nothing of what is
             \* installed

vars == <<serving, content, asked, installed, mishap>>

Init ==
  /\ serving = FALSE /\ content = [base |-> "original", log |-> {}]
  /\ asked = {} /\ installed = {} /\ mishap = {}

Commit(w) ==
  /\ serving /\ UNCHANGED <<serving, asked, installed, mishap>>
  /\ content' = [content EXCEPT !.log = @ \cup {w}]

Ask(r) ==
  /\ serving /\ r \notin asked
  /\ asked' = asked \cup {r}
  /\ UNCHANGED <<serving, content, installed, mishap>>

\* The server stops, at any moment, or has started.
Turn ==
  /\ serving' = ~serving
  /\ content' = content \/ mishap \cap {"rename", "log", "unread"} # {}
  /\ UNCHANGED <<asked, installed, mishap>>

\* A restore that somebody asked for takes effect.
Install(r) ==
  /\ ~serving /\ r \in asked \ installed
  /\ installed' = installed \cup {r}
  /\ content' = [base |-> r, log |-> {}] \/ "overlap" \in mishap
  /\ UNCHANGED <<serving, asked, mishap>>

Mishap(m) ==
  /\ m \notin mishap /\ mishap' = mishap \cup {m}
  /\ UNCHANGED <<serving, content, asked, installed>>

Next ==
  \/ \E w \in Writes : Commit(w)
  \/ \E r \in Requests : Ask(r) \/ Install(r)
  \/ Turn
  \/ \E m \in {"rename", "log", "unread", "overlap"} : Mishap(m)

Spec == Init /\ [][Next]_vars

===============================================================================
