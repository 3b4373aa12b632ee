------------------------------ MODULE ReaderGate ------------------------------
(***************************************************************************)
(* The gate of internal/playback/session/readers.go as a value: every      *)
(* method of readerGate runs under the gate's own mutex, so each one is a  *)
(* function from a gate to the gate it leaves behind.                      *)
(*                                                                         *)
(* The same gate counts HTTP readers (Generation.gate) and runner          *)
(* goroutines (Generation.processGate).                                    *)
(***************************************************************************)
EXTENDS Naturals

\* readers.go also has a sync.Once; `done' is the channel that Once closes, and
\* a channel, once closed, stays closed.
GateType == [closing: BOOLEAN, readers: Nat, done: BOOLEAN]

NewGate == [closing |-> FALSE, readers |-> 0, done |-> FALSE]

\* acquire returns ErrGenerationNotActive on a gate that is closing.
CanAcquire(gate) == ~gate.closing

Acquired(gate) == [gate EXCEPT !.readers = @ + 1]

Released(gate) ==
  IF gate.readers = 0
    THEN gate
    ELSE [gate EXCEPT !.readers = @ - 1,
                      !.done = @ \/ (gate.closing /\ gate.readers = 1)]

\* Mutant of ClosedGate: reports the gate drained while it is held.
ClosedGateAtOnce(gate) == [gate EXCEPT !.closing = TRUE, !.done = TRUE]

\* The locked part of closeAndWait; what follows it is the wait for `done'.
ClosedGate(gate) ==
  [gate EXCEPT !.closing = TRUE, !.done = @ \/ gate.readers = 0]

=============================================================================
