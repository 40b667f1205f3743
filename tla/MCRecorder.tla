----------------------------- MODULE MCRecorder -----------------------------
EXTENDS Recorder

(* Bound: one read of a session ends inside an escape sequence.            *)
OneTornRead == "torn" \in doubt => \A n \in DOMAIN screen : ~ReadTorn(n)
=============================================================================
