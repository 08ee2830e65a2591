----------------------------- MODULE MCWikiBuilds -----------------------------
(* Model values of WikiBuilds for TLC.                                     *)
EXTENDS WikiBuilds

CONSTANTS f1, f2
=============================================================================
