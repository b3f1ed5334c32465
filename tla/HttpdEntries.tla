---------------------------- MODULE HttpdEntries ----------------------------
(***************************************************************************)
(* What gow takes httpd_config.conf to be: for each site an entry or none, *)
(* a listener that maps a set of sites, and perhaps a second one for SSL.  *)
(* Every edit changes the entry of its site and nothing else.              *)
(***************************************************************************)
CONSTANTS
    Names,      \* domain names
    Listed,     \* the names whose entries are looked at
    NoEntry, NoCert

VARIABLES entry, default, ssl

vars == <<entry, default, ssl>>

Entry == [restrained : {0, 1}, ssl : BOOLEAN]
Absent == [on |-> FALSE, cert |-> NoCert, map |-> {}]

Init ==
    /\ entry = [n \in Listed |-> NoEntry]
    /\ default = {} /\ ssl = Absent

Has(n) == n \in Listed /\ entry[n] # NoEntry

Put(n, e) == entry' = [m \in Listed |-> IF m = n THEN e ELSE entry[m]]

Register(n) ==
    /\ IF Has(n) THEN UNCHANGED entry ELSE Put(n, [restrained |-> 1, ssl |-> FALSE])
    /\ default' = default \cup {n}
    /\ UNCHANGED ssl

Unregister(n) ==
    /\ Put(n, NoEntry)
    /\ default' = default \ {n}
    /\ UNCHANGED ssl

Restrain(n, value) ==
    /\ Has(n)
    /\ Put(n, [entry[n] EXCEPT !.restrained = value])
    /\ UNCHANGED <<default, ssl>>

Secure(n) ==
    /\ Has(n)
    /\ Put(n, [entry[n] EXCEPT !.ssl = TRUE])
    /\ UNCHANGED <<default, ssl>>

Listener ==
    /\ \/ ssl' = IF ssl.on THEN ssl ELSE [Absent EXCEPT !.on = TRUE]
       \/ ssl' = Absent
       \/ \E n \in Names :
             /\ ssl.on
             /\ \/ ssl.cert = NoCert /\ ssl' = [ssl EXCEPT !.cert = n]
                \/ ssl' = [ssl EXCEPT !.map = @ \cup {n}]
                \/ ssl' = [ssl EXCEPT !.map = @ \ {n}]
    /\ UNCHANGED <<entry, default>>

Next ==
    \/ \E n \in Names : Register(n) \/ Unregister(n) \/ Secure(n)
    \/ \E n \in Names, value \in {0, 1} : Restrain(n, value)
    \/ Listener

Spec == Init /\ [][Next]_vars

=============================================================================
