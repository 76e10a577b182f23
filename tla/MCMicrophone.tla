---------------------------- MODULE MCMicrophone ----------------------------
(* Microphone with the constants its configurations give.                  *)
EXTENDS Microphone
=============================================================================
