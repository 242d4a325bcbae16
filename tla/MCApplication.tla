--------------------------- MODULE MCApplication ---------------------------
(* The application for TLC: the configurations give the sections and bounds. *)
EXTENDS Application

CONSTANTS d1, d2

\* One message, and three of which the third repeats a number and waits for the others.
MCBatches == {<<d1>>, <<d1, d2, d1>>}

\* Without rows, and with a number twice in a chunk and again in the next.
MCFiles == {<<>>, <<d1, d1, NotANumber, d1>>}
=============================================================================
