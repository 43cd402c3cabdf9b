------------------------------ MODULE MCAppHost ------------------------------
(* One application whose file changes while its requests run. *)
EXTENDS AppHost

CONSTANTS app, r1, r2
==============================================================================
