--------------------------- MODULE MCThreadGroup ---------------------------
(* Small instances of ThreadGroup for TLC.                                 *)
EXTENDS ThreadGroup

CONSTANTS h1, h2, h3
=============================================================================
