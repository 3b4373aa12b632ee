-------------------------- MODULE MCPlaybackSession --------------------------
EXTENDS PlaybackSessionInvariant, TLC

\* Readers are interchangeable: they differ in nothing but their name.
ReaderSymmetry == Permutations(Readers)
=============================================================================
