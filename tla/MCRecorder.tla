----------------------------- MODULE MCRecorder -----------------------------
(* Model values for Recorder.                                              *)
EXTENDS Recorder

\* Three clips reach the limit, and the last one is larger than it by itself,
\* so that the folder is reduced more than once.
Sizes == <<1, 1, 1, 1, 3>>

=============================================================================
