------------------------------- MODULE MCPlugin -------------------------------
(* Finite instances of PluginSupervision for TLC.                          *)
EXTENDS PluginProperties
=============================================================================
