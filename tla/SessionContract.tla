--------------------------- MODULE SessionContract ---------------------------
(***************************************************************************)
(* What a playback session promises to its clients and to the disk, stated *)
(* without locks, gates, goroutines or FFmpeg: which timeline players may  *)
(* read, which generations have files, and which are being written.        *)
(* PlaybackSession is shown to implement it.                               *)
(***************************************************************************)
EXTENDS Naturals

CONSTANT Generations

VARIABLES
  open,      \* the session accepts requests
  timeline,  \* the generation players read; 0 before the first is ready
  begun,     \* the last generation begun
  store,     \* the generations whose directory exists
  writers    \* the generations an encoder may write

vars == <<open, timeline, begun, store, writers>>

Init ==
  /\ open = TRUE /\ timeline = 0 /\ begun = 1 /\ store = {1} /\ writers = {}

\* A generation gets a directory of its own, never one used before.
Begin ==
  /\ open
  /\ begun + 1 \in Generations
  /\ begun' = begun + 1
  /\ store' = store \cup {begun'}
  /\ UNCHANGED <<open, timeline, writers>>

\* Only a generation whose directory exists gets a writer.
StartWriting(g) ==
  /\ open /\ g \in store
  /\ writers' = writers \cup {g}
  /\ UNCHANGED <<open, timeline, begun, store>>

StopWriting(g) ==
  /\ g \in writers
  /\ writers' = writers \ {g}
  /\ UNCHANGED <<open, timeline, begun, store>>

\* The timeline moves forward only, to a generation that is being written.
Publish(g) ==
  /\ open /\ g \in writers \cap store /\ g > timeline
  /\ timeline' = g
  /\ UNCHANGED <<open, begun, store, writers>>

\* Files go once nobody writes them and, while the session is open, once
\* players have a newer timeline.
Reclaim(S) ==
  /\ S \cap writers = {}
  /\ open => timeline # 0 /\ \A g \in S : g < timeline
  /\ store' = store \ S
  /\ UNCHANGED <<open, timeline, begun, writers>>

Close ==
  /\ open /\ open' = FALSE
  /\ UNCHANGED <<timeline, begun, store, writers>>

Next ==
  \/ Begin \/ Close
  \/ \E g \in Generations : StartWriting(g) \/ StopWriting(g) \/ Publish(g)
  \/ \E S \in SUBSET Generations : Reclaim(S)

Spec == Init /\ [][Next]_vars

=============================================================================
