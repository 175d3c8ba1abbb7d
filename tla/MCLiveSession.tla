---------------------------- MODULE MCLiveSession ----------------------------
(* LiveSession with one session, one steer request and two agents.         *)
EXTENDS LiveSession
=============================================================================
