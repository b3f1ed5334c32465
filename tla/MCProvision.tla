---------------------------- MODULE MCProvision ----------------------------
(* Small instances of Provision. *)
EXTENDS Provision, TLC

CONSTANTS s1, s2

AllKinds == {"create", "force", "delete", "clone", "restore"}
CreateKinds == {"create", "force", "delete"}

Sites == Permutations(Names)

=============================================================================
