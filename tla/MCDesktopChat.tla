---------------------------- MODULE MCDesktopChat ----------------------------
(* DesktopChat with small sets of projects, sessions and messages.         *)
EXTENDS DesktopChat
=============================================================================
