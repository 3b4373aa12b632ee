----------------------- MODULE PlaybackSessionInvariant -----------------------
(***************************************************************************)
(* Why a playback session is correct: the facts its goroutines rely on     *)
(* that no line of the code states. Together with TypeOK they are          *)
(* inductive, and they imply the safety properties of PlaybackSession.     *)
(***************************************************************************)
EXTENDS PlaybackSession

Begun(g) == g <= counter

Drained(g) == processGate[g].done

----------------------------------------------------------------------------
(* Who holds a generation's directory.                                     *)

\* A process gate counts its one runner, and is drained only if it is closing
\* and the runner has left.
GateCountsRunner ==
  \A g \in Gen :
    /\ processGate[g].readers = IF runner[g] \in Running THEN 1 ELSE 0
    /\ Drained(g) => processGate[g].closing /\ processGate[g].readers = 0

\* FFmpeg runs only while its runner waits for it.
EncoderOwned ==
  \A g \in Gen : encoder[g] # "none" => runner[g] \in {"spawned", "encoding"}

\* A generation that has not begun has no trace.
Unbegun ==
  /\ current <= counter /\ pending <= counter
  /\ \A g \in Gen : ~Begun(g) =>
       /\ runner[g] = "none" /\ retire[g] = "none"
       /\ g \notin generations \cup dir \cup readyPublished

\* What has left the session's table or the disk has no runner any more, and
\* its closed gate lets none in.
UnlistedDrained ==
  \A g \in Gen : Begun(g) /\ g \notin generations \cap dir => Drained(g)

RetireWaited ==
  \A g \in Gen : retire[g] \in {"drain", "remove", "done"} => Drained(g)

Waited == {"drain", "remove", "unregister", "finish", "done"}

\* The table that cleanupSession copied is complete: what it misses was retired
\* before.
CleanupWaited ==
  /\ cleanup.pc # "none" => closing
  /\ cleanup.pc = "exit" =>
       \A g \in Gen : Begun(g) => g \in cleanup.snapshot \/ Drained(g)
  /\ cleanup.pc \in Waited => \A g \in Gen : Begun(g) => Drained(g)

StoreInv ==
  /\ GateCountsRunner /\ EncoderOwned /\ Unbegun /\ UnlistedDrained
  /\ RetireWaited /\ CleanupWaited

----------------------------------------------------------------------------
(* Who decides about the timeline.                                         *)

RegisteredUntilClosed == ~registered => closing

\* The pending generation is the last one begun and its runner will decide.
PendingInv ==
  pending # 0 /\ ~closing =>
    /\ pending = counter /\ current < pending
    /\ pending \in generations \ readyPublished
    /\ genState[pending] = "preparing"
    /\ runner[pending] \notin {"none", "release", "done"}

CurrentInv ==
  current # 0 /\ ~closing =>
    /\ genState[current] = "running"
    /\ current \in generations \cap dir \cap segment
    /\ current \in firstSegmentAt \cap readyPublished

\* Only an older generation than the current one is ever retired.
RetiredOlder ==
  \A g \in Gen : retire[g] # "none" => g < current /\ g # pending

\* A watcher that has not reported works for an attempt still under way.
WatcherInAttempt ==
  \A g \in Gen : watcher[g] \in {"polling", "markReady", "activate"} =>
    runner[g] \in {"acquire", "spawned", "encoding", "joined"}

\* Once its timeline is published, a runner makes no further attempt.
PublishedRunner ==
  \A g \in readyPublished :
    runner[g] \in {"acquire", "spawned", "encoding", "joined", "decide",
                   "release", "done"}

\* Whoever publishes a timeline has seen its first segment, and has recorded
\* that it did.
SegmentSeen ==
  \A g \in Gen :
    /\ (watcher[g] \in {"markReady", "activate"}
          \/ runner[g] \in {"markReady", "activate"}) => g \in segment
    /\ (watcher[g] = "activate" \/ runner[g] = "activate") =>
         g \in firstSegmentAt

TimelineInv ==
  /\ RegisteredUntilClosed /\ PendingInv /\ CurrentInv /\ RetiredOlder
  /\ WatcherInAttempt /\ PublishedRunner /\ SegmentSeen

----------------------------------------------------------------------------
(* Who may stop the encoder.                                               *)

\* A stopped process is one the session knows how to resume.
StoppedIsMarked ==
  \A g \in Gen : encoder[g] = "stopped" => g \in suspended \cap process

\* A process gate is closed by retirement or by cleanup.
GateClosedBy ==
  \A g \in Gen : processGate[g].closing =>
    retire[g] \notin {"none", "cancel"} \/ closing

ThrottleInv == StoppedIsMarked /\ GateClosedBy /\ ClosingProcessResumed

SessionInv == TypeOK /\ StoreInv /\ TimelineInv /\ ThrottleInv

----------------------------------------------------------------------------
(* Who reads from a generation's directory.                                *)

ReadersOf(g) == {r \in Readers : reader[r] = g}

\* The gate of the readers counts them, and once it is drained it is closed.
GateCountsReaders ==
  \A g \in Gen :
    /\ IsFiniteSet(ReadersOf(g))
    /\ gate[g].readers = Cardinality(ReadersOf(g))
    /\ gate[g].done => gate[g].closing /\ gate[g].readers = 0

\* The wait for the readers is over: they have gone, or the time has passed.
Given(g) == gate[g].done \/ g \in retireTimedOut

\* A generation that has left the table was retired, and whoever removes a
\* directory has waited for its readers.
ReadersWaited ==
  /\ \A g \in Gen : Begun(g) /\ g \notin generations => retire[g] = "done"
  /\ \A g \in Gen : retire[g] \in {"remove", "done"} => Given(g)
  /\ cleanup.pc \in {"exit"} \cup Waited =>
       \A g \in Gen : Begun(g) => g \in cleanup.snapshot \/ retire[g] = "done"
  /\ cleanup.pc \in {"remove", "unregister", "finish", "done"} =>
       cleanup.timedOut \/ \A g \in cleanup.snapshot : gate[g].done

RemovedUnread ==
  \A g \in Gen : Begun(g) /\ g \notin dir => Given(g) \/ cleanup.timedOut

ReaderInv ==
  /\ GateCountsReaders /\ ReadersWaited /\ RemovedUnread
  /\ \A r \in Readers : reader[r] # 0 => Begun(reader[r])

=============================================================================
