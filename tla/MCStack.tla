------------------------------ MODULE MCStack ------------------------------
(* Small instances of Stack. *)
EXTENDS Stack, TLC

CONSTANTS s1, s2

Everything == {"ols", "lsphp", "mariadb"}
Flags == {Everything, {"lsphp"}, {"mariadb", "wpcli"}}
SomeOps == {"install", "upgrade", "remove", "purge", "start", "stop", "migrate"}

Sites == Permutations(Names)

=============================================================================
