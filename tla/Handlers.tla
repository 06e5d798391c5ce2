------------------------------- MODULE Handlers -------------------------------
(***************************************************************************)
(* What the registers of the office have in common: a request is served by  *)
(* a handler of its own (the route handlers under app/api), several run at  *)
(* once over one database, and nothing but the database keeps them apart.   *)
(* Each register's module says what its handlers read and write.            *)
(***************************************************************************)

CONSTANT Workers  \* handlers of one register in flight at once

=============================================================================
