------------------------------ MODULE MCServer ------------------------------
(* The server for TLC.  The configurations differ in the number of sub     *)
(* loops, descriptors, clients and sends, and in automatic closing.        *)
EXTENDS Server
=============================================================================
