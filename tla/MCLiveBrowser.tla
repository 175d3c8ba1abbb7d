---------------------------- MODULE MCLiveBrowser ----------------------------
(* Values for the constants of LiveBrowser are in the configurations.      *)
EXTENDS LiveBrowser
=============================================================================
