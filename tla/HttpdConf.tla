----------------------------- MODULE HttpdConf -----------------------------
(***************************************************************************)
(* The editor of httpd_config.conf (internal/ols/conf.go and its callers): *)
(* the file as the sequence of its virtualHost blocks, and its listeners   *)
(* Default and SSL.  Blocks are looked up by the text of their header, and *)
(* it is the FIRST place the text occurs that counts: "virtualHost foo.co" *)
(* occurs in "virtualHost foo.com {" too.  Map lines are looked up whole   *)
(* and are never added twice, so they are sets.                            *)
(***************************************************************************)
EXTENDS Integers, Sequences, SequencesExt

CONSTANTS
    Names,      \* domain names
    Extends,    \* Extends[n]: the names that go on where n ends
    MaxBlocks,  \* bound on the virtualHost blocks in the file
    NoEntry, NoCert

ASSUME ExtendsAssumption == \A n \in Names : Extends[n] \subseteq Names \ {n}
ASSUME MaxBlocksAssumption == MaxBlocks \in Nat
ASSUME NoEntryAssumption == NoEntry \notin [restrained : {0, 1}, ssl : BOOLEAN]

VARIABLES
    vhosts,     \* virtualHost blocks, in file order
    default,    \* sites mapped in listener Default
    ssl         \* listener SSL

vars == <<vhosts, default, ssl>>

Block == [name : Names, restrained : {0, 1}, ssl : BOOLEAN]
Absent == [on |-> FALSE, cert |-> NoCert, map |-> {}]

Init == vhosts = <<>> /\ default = {} /\ ssl = Absent

\* findBlock("virtualHost n {"): the first block whose header begins like that,
\* provided a brace follows; 0 if there is none.
FirstMatch(n) == SelectInSeq(vhosts, LAMBDA b : b.name \in {n} \cup Extends[n])

\* Mutant: the brace is not looked for.
FindPrefix(n) == FirstMatch(n)

FindBlock(n) ==
    LET k == FirstMatch(n) IN IF k # 0 /\ vhosts[k].name = n THEN k ELSE 0

\* Mutant: two settings of the block are mixed up.
NewBlockMixedUp(n) == [name |-> n, restrained |-> 2, ssl |-> FALSE]

NewBlock(n) == [name |-> n, restrained |-> 1, ssl |-> FALSE]

RegisterVHost(n) ==
    /\ vhosts' = IF FindBlock(n) # 0 THEN vhosts ELSE Append(vhosts, NewBlock(n))
    /\ Len(vhosts') <= MaxBlocks
    /\ default' = default \cup {n}
    /\ UNCHANGED ssl

\* Mutant: the vhost's line stays in the listener.
UnregisterBlock(n) ==
    /\ vhosts' = IF FindBlock(n) # 0 THEN RemoveAt(vhosts, FindBlock(n)) ELSE vhosts
    /\ UNCHANGED <<default, ssl>>

UnregisterVHost(n) ==
    /\ vhosts' = IF FindBlock(n) # 0 THEN RemoveAt(vhosts, FindBlock(n)) ELSE vhosts
    /\ default' = default \ {n}
    /\ UNCHANGED ssl

\* An error, and nothing is written, if the vhost is not found.
UpdateVHostRestrained(n, value) ==
    /\ FindBlock(n) # 0
    /\ vhosts' = [vhosts EXCEPT ![FindBlock(n)].restrained = value]
    /\ UNCHANGED <<default, ssl>>

SetVHostSSL(n) ==
    /\ FindBlock(n) # 0
    /\ vhosts' = [vhosts EXCEPT ![FindBlock(n)].ssl = TRUE]
    /\ UNCHANGED <<default, ssl>>

EnsureSSLListener ==
    /\ ssl' = IF ssl.on THEN ssl ELSE [Absent EXCEPT !.on = TRUE]
    /\ UNCHANGED <<vhosts, default>>

RemoveSSLListener == ssl' = Absent /\ UNCHANGED <<vhosts, default>>

SetSSLListenerCerts(n) ==
    /\ ssl.on /\ ssl.cert = NoCert
    /\ ssl' = [ssl EXCEPT !.cert = n]
    /\ UNCHANGED <<vhosts, default>>

AddSSLMapEntry(n) ==
    /\ ssl.on
    /\ ssl' = [ssl EXCEPT !.map = @ \cup {n}]
    /\ UNCHANGED <<vhosts, default>>

RemoveSSLMapEntry(n) ==
    /\ ssl.on
    /\ ssl' = [ssl EXCEPT !.map = @ \ {n}]
    /\ UNCHANGED <<vhosts, default>>

Edit(n) ==
    \/ RegisterVHost(n) \/ UnregisterVHost(n) \/ SetVHostSSL(n)
    \/ \E value \in {0, 1} : UpdateVHostRestrained(n, value)
    \/ SetSSLListenerCerts(n) \/ AddSSLMapEntry(n) \/ RemoveSSLMapEntry(n)

Next == (\E n \in Names : Edit(n)) \/ EnsureSSLListener \/ RemoveSSLListener

Spec == Init /\ [][Next]_vars

-----------------------------------------------------------------------------
TypeOK ==
    /\ vhosts \in Seq(Block) /\ Len(vhosts) <= MaxBlocks
    /\ default \subseteq Names
    /\ ssl \in [on : BOOLEAN, cert : Names \cup {NoCert}, map : SUBSET Names]

\* Of the first k blocks of s, those for other names than n.
BlocksBut(s, n) ==
    LET kept[k \in 0 .. Len(s)] ==
            IF k = 0 THEN <<>>
            ELSE IF s[k].name = n THEN kept[k-1] ELSE Append(kept[k-1], s[k])
    IN  kept
Others(s, n) == BlocksBut(s, n)[Len(s)]

\* An edit for one site leaves the block of every other site as it was, even
\* when the header looked for also begins another site's header (the brace check
\* of findBlock).
OthersUntouched ==
    [][\A n \in Names : Edit(n) => Others(vhosts', n) = Others(vhosts, n)]_vars

\* Names no other name begins with.
Clear == {n \in Names : Extends[n] = {}}

\* What a file with the blocks s says of n: the settings of the first block of that name.
Position(s, n) == SelectInSeq(s, LAMBDA b : b.name = n)
Settings(b) == [restrained |-> b.restrained, ssl |-> b.ssl]
EntryIn(s, n) == IF Position(s, n) = 0 THEN NoEntry ELSE Settings(s[Position(s, n)])

Entries ==
    INSTANCE HttpdEntries WITH
        Listed <- Clear,
        entry <- [n \in Clear |-> EntryIn(vhosts, n)]

\* For the names no other name begins with, the text file is the table of
\* entries gow takes it for, and for all names the listeners are.
ImplementsEntries == Entries!Spec

\* Registering a site again adds nothing (httpd.go:9): one block for each site.
OneBlockEach ==
    \A i, j \in DOMAIN vhosts : vhosts[i].name = vhosts[j].name => i = j

=============================================================================
