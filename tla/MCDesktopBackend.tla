-------------------------- MODULE MCDesktopBackend --------------------------
(* DesktopBackend with small sets of projects and processes.               *)
EXTENDS DesktopBackend
=============================================================================
