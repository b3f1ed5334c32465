---------------------------- MODULE MCHttpdConf ----------------------------
(* foo.com begins with foo.co; bar.org is on its own. *)
EXTENDS HttpdConf

CONSTANTS co, com, org

Extensions == [n \in Names |-> IF n = co THEN {com} ELSE {}]

=============================================================================
