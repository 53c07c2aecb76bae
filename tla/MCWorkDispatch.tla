--------------------------- MODULE MCWorkDispatch ---------------------------
(* Small instances of WorkDispatch.                                        *)
EXTENDS WorkDispatch

TwoActors   == {1, 2}

\* Two actors with the same home of two workers, so that the second is pushed to
\* the queue the first was popped from.
SameHome    == {1, 3}

ThreeActors == {1, 2, 3}
=============================================================================
