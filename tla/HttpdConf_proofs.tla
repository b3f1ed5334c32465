-------------------------- MODULE HttpdConf_proofs --------------------------
(***************************************************************************)
(* Proofs about HttpdConf for any names, any relation between them and any *)
(* number of blocks: each edit of the text is the edit of the table that   *)
(* gow takes the file for.                                                 *)
(***************************************************************************)
EXTENDS HttpdConf, SequenceTheorems, WellFoundedInduction, TLAPS

-----------------------------------------------------------------------------
(* Looking up a block.                                                     *)

LEMMA MinIsLeast ==
  ASSUME NEW S, S \subseteq Nat, S # {}
  PROVE  Min(S) \in S /\ \A y \in S : Min(S) <= y
<1> DEFINE less == {ss \in Nat \X Nat : ss[1] < ss[2]}
<1>1. IsWellFoundedOn(less, Nat)
  BY NatLessThanWellFounded DEF OpToRel
<1>2. PICK x \in S : \A y \in S : ~ (<<y, x>> \in less)
  <2> HIDE DEF less
  <2> QED
    BY <1>1, WFMin
<1>3. \A y \in S : <<y, x>> \in Nat \X Nat
  OBVIOUS
<1>4. \A y \in S : ~ (y < x)
  BY <1>2, <1>3
<1>5. \A y \in S : x <= y
  BY <1>4
<1>6. QED
  BY <1>5 DEF Min

\* Two blocks for a name that no other name begins with are one and the same.
Unique(s) ==
    \A i, j \in 1 .. Len(s) : s[i].name \in Clear /\ s[i].name = s[j].name => i = j

NamesIn(s) == {s[i].name : i \in 1 .. Len(s)}

LEMMA PositionFound ==
  ASSUME NEW s \in Seq(Block), NEW n
  PROVE  /\ n \notin NamesIn(s) => Position(s, n) = 0
         /\ n \in NamesIn(s) => Position(s, n) \in 1 .. Len(s) /\ s[Position(s, n)].name = n
<1> DEFINE I == {i \in 1 .. Len(s) : s[i].name = n}
<1>1. Position(s, n) = IF I # {} THEN Min(I) ELSE 0
  BY DEF Position, SelectInSeq
<1>2. I # {} => Min(I) \in I
  <2>1. I \subseteq Nat
    OBVIOUS
  <2> HIDE DEF I
  <2>2. QED
    BY <2>1, MinIsLeast
<1>3. QED
  BY <1>1, <1>2 DEF NamesIn

LEMMA EntryIs ==
  ASSUME NEW s \in Seq(Block), Unique(s), NEW n \in Clear
  PROVE  /\ n \notin NamesIn(s) => EntryIn(s, n) = NoEntry
         /\ \A i \in 1 .. Len(s) : s[i].name = n => EntryIn(s, n) = Settings(s[i])
<1>1. n \notin NamesIn(s) => EntryIn(s, n) = NoEntry
  BY PositionFound DEF EntryIn
<1>2. ASSUME NEW i \in 1 .. Len(s), s[i].name = n PROVE EntryIn(s, n) = Settings(s[i])
  <2>1. n \in NamesIn(s)
    BY <1>2 DEF NamesIn
  <2>2. Position(s, n) \in 1 .. Len(s) /\ s[Position(s, n)].name = n
    BY <2>1, PositionFound
  <2>3. Position(s, n) = i
    BY <1>2, <2>2 DEF Unique
  <2>4. QED
    BY <2>2, <2>3 DEF EntryIn
<1>3. QED
  BY <1>1, <1>2

\* findBlock finds a block of the name it was asked for or none; if no other name begins
\* with that one, it finds it if it is there.
LEMMA Found ==
  ASSUME TypeOK, NEW n \in Names
  PROVE  /\ FindBlock(n) # 0 => FindBlock(n) \in 1 .. Len(vhosts) /\ vhosts[FindBlock(n)].name = n
         /\ n \in Clear => (FindBlock(n) = 0 <=> n \notin NamesIn(vhosts))
<1> DEFINE I == {i \in 1 .. Len(vhosts) : vhosts[i].name \in {n} \cup Extends[n]}
<1>1. FirstMatch(n) = IF I # {} THEN Min(I) ELSE 0
  BY DEF FirstMatch, SelectInSeq
<1>2. I # {} => Min(I) \in I
  <2>1. I \subseteq Nat
    OBVIOUS
  <2> HIDE DEF I
  <2>2. QED
    BY <2>1, MinIsLeast
<1>3. FindBlock(n) = IF FirstMatch(n) # 0 /\ vhosts[FirstMatch(n)].name = n THEN FirstMatch(n) ELSE 0
  BY DEF FindBlock
<1>4. FirstMatch(n) # 0 => FirstMatch(n) \in 1 .. Len(vhosts)
  BY <1>1, <1>2
<1>5. ASSUME n \in Clear PROVE FindBlock(n) = 0 <=> n \notin NamesIn(vhosts)
  <2>1. I = {i \in 1 .. Len(vhosts) : vhosts[i].name = n}
    BY <1>5 DEF Clear
  <2>2. I = {} <=> n \notin NamesIn(vhosts)
    BY <2>1 DEF NamesIn
  <2>3. I # {} => FindBlock(n) # 0
    <3>1. I # {} => FirstMatch(n) \in I /\ FirstMatch(n) # 0
      BY <1>1, <1>2
    <3>2. QED
      BY <1>3, <2>1, <3>1
  <2>4. I = {} => FindBlock(n) = 0
    BY <1>1, <1>3
  <2>5. QED
    BY <2>2, <2>3, <2>4
<1>6. QED
  BY <1>3, <1>4, <1>5

-----------------------------------------------------------------------------
(* Changing the blocks.                                                    *)

IInv == TypeOK /\ Unique(vhosts)

\* The entries of the names nothing begins with are those of s, but for that of n.
OnlyEntry(s, t, n, e) ==
    \A m \in Clear : EntryIn(t, m) = IF m = n THEN e ELSE EntryIn(s, m)

LEMMA Appended ==
  ASSUME NEW s \in Seq(Block), Unique(s), NEW b \in Block,
         b.name \in Clear => b.name \notin NamesIn(s)
  PROVE  /\ Append(s, b) \in Seq(Block) /\ Unique(Append(s, b))
         /\ OnlyEntry(s, Append(s, b), b.name, Settings(b))
<1> DEFINE t == Append(s, b)
<1>1. /\ t \in Seq(Block) /\ Len(t) = Len(s) + 1
      /\ \A i \in 1 .. Len(s) : t[i] = s[i]
      /\ t[Len(s) + 1] = b
  BY AppendProperties
<1>2. Len(s) \in Nat
  OBVIOUS
<1> HIDE DEF t
<1>3. Unique(t)
  BY <1>1, <1>2 DEF Unique, NamesIn
<1>4. ASSUME NEW m \in Clear PROVE EntryIn(t, m) = IF m = b.name THEN Settings(b) ELSE EntryIn(s, m)
  <2>1. CASE m = b.name
    BY <1>1, <1>2, <1>3, <2>1, EntryIs
  <2>2. CASE m # b.name /\ m \in NamesIn(s)
    <3>1. PICK i \in 1 .. Len(s) : s[i].name = m
      BY <2>2 DEF NamesIn
    <3>2. EntryIn(s, m) = Settings(s[i])
      BY <3>1, EntryIs
    <3>3. i \in 1 .. Len(t) /\ t[i] = s[i]
      BY <1>1, <1>2
    <3>4. EntryIn(t, m) = Settings(t[i])
      BY <1>1, <1>3, <3>1, <3>3, EntryIs
    <3>5. QED
      BY <2>2, <3>2, <3>3, <3>4
  <2>3. CASE m # b.name /\ m \notin NamesIn(s)
    <3>1. m \notin NamesIn(t)
      BY <1>1, <1>2, <2>3 DEF NamesIn
    <3>2. QED
      BY <1>1, <1>3, <2>3, <3>1, EntryIs
  <2>4. QED
    BY <2>1, <2>2, <2>3
<1>5. QED
  BY <1>1, <1>3, <1>4 DEF OnlyEntry, t

\* The blocks that stay when the k-th is removed, and where they then are.
LEMMA RemovedAt ==
  ASSUME NEW s \in Seq(Block), NEW k \in 1 .. Len(s)
  PROVE  /\ RemoveAt(s, k) \in Seq(Block) /\ Len(RemoveAt(s, k)) = Len(s) - 1
         /\ \A i \in 1 .. k - 1 : RemoveAt(s, k)[i] = s[i]
         /\ \A i \in k .. Len(s) - 1 : RemoveAt(s, k)[i] = s[i + 1]
<1> DEFINE t == RemoveAt(s, k)
           u == SubSeq(s, 1, k - 1)
           v == SubSeq(s, k + 1, Len(s))
<1>1. Len(s) \in Nat /\ k \in Nat
  OBVIOUS
<1>2. /\ u \in Seq(Block) /\ Len(u) = k - 1
      /\ \A i \in 1 .. k - 1 : u[i] = s[i]
  BY <1>1, SubSeqProperties
<1>3. /\ v \in Seq(Block) /\ Len(v) = Len(s) - k
      /\ \A i \in 1 .. Len(s) - k : v[i] = s[k + i]
  BY <1>1, SubSeqProperties
<1>4. t = u \o v
  BY DEF RemoveAt
<1> HIDE DEF t, u, v
<1>5. /\ t \in Seq(Block) /\ Len(t) = Len(u) + Len(v)
      /\ \A i \in 1 .. Len(u) : t[i] = u[i]
      /\ \A i \in 1 .. Len(v) : t[Len(u) + i] = v[i]
  <2>1. \A i \in 1 .. Len(u) + Len(v) : t[i] = IF i <= Len(u) THEN u[i] ELSE v[i - Len(u)]
    BY <1>2, <1>3, <1>4, ConcatProperties
  <2>2. ASSUME NEW i \in 1 .. Len(v) PROVE t[Len(u) + i] = v[i]
    <3>1. /\ Len(u) + i \in 1 .. Len(u) + Len(v) /\ ~ (Len(u) + i <= Len(u))
          /\ (Len(u) + i) - Len(u) = i
      BY <1>1, <1>2, <1>3
    <3>2. QED
      BY <2>1, <3>1
  <2>3. ASSUME NEW i \in 1 .. Len(u) PROVE t[i] = u[i]
    <3>1. i \in 1 .. Len(u) + Len(v) /\ i <= Len(u)
      BY <1>1, <1>2, <1>3
    <3>2. QED
      BY <2>1, <3>1
  <2>4. QED
    BY <1>2, <1>3, <1>4, <2>2, <2>3, ConcatProperties
<1>6. /\ Len(t) = Len(s) - 1
      /\ \A i \in 1 .. k - 1 : t[i] = s[i]
      /\ \A i \in k .. Len(s) - 1 : t[i] = s[i + 1]
  <2>1. ASSUME NEW i \in k .. Len(s) - 1 PROVE t[i] = s[i + 1]
    <3>1. i - (k - 1) \in 1 .. Len(s) - k
      BY <1>1
    <3>2. t[Len(u) + (i - (k - 1))] = v[i - (k - 1)]
      BY <1>3, <1>5, <3>1
    <3>3. v[i - (k - 1)] = s[k + (i - (k - 1))]
      BY <1>3, <3>1
    <3>4. Len(u) + (i - (k - 1)) = i /\ k + (i - (k - 1)) = i + 1
      BY <1>1, <1>2
    <3>5. QED
      BY <3>2, <3>3, <3>4
  <2>2. QED
    BY <1>1, <1>2, <1>3, <1>5, <2>1
<1>7. QED
  BY <1>5, <1>6 DEF t

LEMMA Removed ==
  ASSUME NEW s \in Seq(Block), Unique(s), NEW k \in 1 .. Len(s)
  PROVE  /\ RemoveAt(s, k) \in Seq(Block) /\ Unique(RemoveAt(s, k))
         /\ Len(RemoveAt(s, k)) = Len(s) - 1
         /\ OnlyEntry(s, RemoveAt(s, k), s[k].name, NoEntry)
<1> DEFINE t == RemoveAt(s, k)
<1>1. Len(s) \in Nat /\ k \in Nat
  OBVIOUS
<1>2. /\ t \in Seq(Block) /\ Len(t) = Len(s) - 1
      /\ \A i \in 1 .. k - 1 : t[i] = s[i]
      /\ \A i \in k .. Len(s) - 1 : t[i] = s[i + 1]
  BY RemovedAt
<1> HIDE DEF t
<1>3. \A i \in 1 .. Len(t) : \E j \in 1 .. Len(s) \ {k} : t[i] = s[j] /\ (j = i \/ j = i + 1) /\ (j < k <=> j = i)
  <2>1. ASSUME NEW i \in 1 .. Len(t) PROVE \E j \in 1 .. Len(s) \ {k} : t[i] = s[j] /\ (j = i \/ j = i + 1) /\ (j < k <=> j = i)
    <3>1. CASE i < k
      BY <1>1, <1>2, <3>1
    <3>2. CASE i >= k
      <4>1. i \in k .. Len(s) - 1 /\ i + 1 \in 1 .. Len(s) \ {k}
        BY <1>1, <1>2, <3>2
      <4>2. QED
        BY <1>1, <1>2, <4>1
    <3>3. QED
      BY <1>1, <3>1, <3>2
  <2>2. QED
    BY <2>1
<1>4. Unique(t)
  <2>1. SUFFICES ASSUME NEW i \in 1 .. Len(t), NEW j \in 1 .. Len(t), t[i].name \in Clear,
                        t[i].name = t[j].name
                 PROVE  i = j
    BY DEF Unique
  <2>2. PICK a \in 1 .. Len(s) \ {k} : t[i] = s[a] /\ (a = i \/ a = i + 1) /\ (a < k <=> a = i)
    BY <1>3
  <2>3. PICK b \in 1 .. Len(s) \ {k} : t[j] = s[b] /\ (b = j \/ b = j + 1) /\ (b < k <=> b = j)
    BY <1>3
  <2>4. a = b
    BY <2>1, <2>2, <2>3 DEF Unique
  <2>5. QED
    BY <1>1, <1>2, <2>2, <2>3, <2>4
<1>5. ASSUME NEW m \in Clear PROVE EntryIn(t, m) = IF m = s[k].name THEN NoEntry ELSE EntryIn(s, m)
  <2>1. CASE m = s[k].name
    <3>1. \A j \in 1 .. Len(s) \ {k} : s[j].name # m
      BY <2>1 DEF Unique
    <3>2. m \notin NamesIn(t)
      BY <1>3, <3>1 DEF NamesIn
    <3>3. QED
      BY <1>2, <1>4, <2>1, <3>2, EntryIs
  <2>2. CASE m # s[k].name /\ m \in NamesIn(s)
    <3>1. PICK i \in 1 .. Len(s) : s[i].name = m
      BY <2>2 DEF NamesIn
    <3>2. EntryIn(s, m) = Settings(s[i])
      BY <3>1, EntryIs
    <3>3. PICK j \in 1 .. Len(t) : t[j] = s[i]
      <4>1. i < k \/ i > k
        BY <1>1, <2>2, <3>1
      <4>2. CASE i < k
        BY <1>1, <1>2, <4>2
      <4>3. CASE i > k
        <5>1. i - 1 \in k .. Len(s) - 1 /\ i - 1 \in 1 .. Len(t) /\ (i - 1) + 1 = i
          BY <1>1, <1>2, <4>3
        <5>2. QED
          BY <1>2, <5>1
      <4>4. QED
        BY <4>1, <4>2, <4>3
    <3>4. EntryIn(t, m) = Settings(t[j])
      BY <1>2, <1>4, <3>1, <3>3, EntryIs
    <3>5. QED
      BY <2>2, <3>2, <3>3, <3>4
  <2>3. CASE m # s[k].name /\ m \notin NamesIn(s)
    <3>1. m \notin NamesIn(t)
      BY <1>3, <2>3 DEF NamesIn
    <3>2. QED
      BY <1>2, <1>4, <2>3, <3>1, EntryIs
  <2>4. QED
    BY <2>1, <2>2, <2>3
<1>6. QED
  BY <1>2, <1>4, <1>5 DEF OnlyEntry, t

LEMMA Changed ==
  ASSUME NEW s \in Seq(Block), Unique(s), NEW k \in 1 .. Len(s), NEW b \in Block,
         b.name = s[k].name
  PROVE  /\ [s EXCEPT ![k] = b] \in Seq(Block) /\ Unique([s EXCEPT ![k] = b])
         /\ Len([s EXCEPT ![k] = b]) = Len(s)
         /\ OnlyEntry(s, [s EXCEPT ![k] = b], b.name, Settings(b))
<1> DEFINE t == [s EXCEPT ![k] = b]
<1>1. /\ t \in Seq(Block) /\ Len(t) = Len(s) /\ t[k] = b
      /\ \A i \in 1 .. Len(s) : i # k => t[i] = s[i]
  OBVIOUS
<1> HIDE DEF t
<1>2. \A i \in 1 .. Len(s) : t[i].name = s[i].name
  BY <1>1
<1>3. Unique(t)
  BY <1>1, <1>2 DEF Unique
<1>4. ASSUME NEW m \in Clear PROVE EntryIn(t, m) = IF m = b.name THEN Settings(b) ELSE EntryIn(s, m)
  <2>1. CASE m = b.name
    BY <1>1, <1>3, <2>1, EntryIs
  <2>2. CASE m # b.name /\ m \in NamesIn(s)
    <3>1. PICK i \in 1 .. Len(s) : s[i].name = m
      BY <2>2 DEF NamesIn
    <3>2. EntryIn(s, m) = Settings(s[i]) /\ EntryIn(t, m) = Settings(t[i])
      BY <1>1, <1>2, <1>3, <3>1, EntryIs
    <3>3. QED
      BY <1>1, <2>2, <3>1, <3>2
  <2>3. CASE m # b.name /\ m \notin NamesIn(s)
    <3>1. m \notin NamesIn(t)
      BY <1>1, <1>2, <2>3 DEF NamesIn
    <3>2. QED
      BY <1>1, <1>3, <2>3, <3>1, EntryIs
  <2>4. QED
    BY <2>1, <2>2, <2>3
<1>5. QED
  BY <1>1, <1>3, <1>4 DEF OnlyEntry, t

-----------------------------------------------------------------------------
(* The blocks of the other sites.                                          *)

\* f is what a pass over s keeps, block by block.
Keeps(f, s, n) ==
    f = [k \in 0 .. Len(s) |-> IF k = 0 THEN <<>>
                               ELSE IF s[k].name = n THEN f[k-1] ELSE Append(f[k-1], s[k])]

\* What f keeps, up to the m-th block.
KeepsTo(f, s, n, m) ==
    /\ f \in [0 .. m -> Seq(Block)] /\ f[0] = <<>>
    /\ \A k \in 1 .. m : f[k] = IF s[k].name = n THEN f[k-1] ELSE Append(f[k-1], s[k])

LEMMA KeptStepwise ==
  ASSUME NEW s \in Seq(Block), NEW n
  PROVE  \E f : KeepsTo(f, s, n, Len(s))
<1> DEFINE Bad == {m \in 0 .. Len(s) : ~ \E f : KeepsTo(f, s, n, m)}
<1>1. Len(s) \in Nat
  OBVIOUS
<1>2. SUFFICES ASSUME Bad # {} PROVE FALSE
  BY <1>1
<1>3. PICK m \in Bad : \A y \in Bad : m <= y
  <2>1. Bad \subseteq Nat
    BY <1>1
  <2> HIDE DEF Bad
  <2>2. QED
    BY <1>2, <2>1, MinIsLeast
<1>4. CASE m = 0
  <2> DEFINE f == [k \in 0 .. 0 |-> <<>>]
  <2>1. f \in [0 .. 0 -> Seq(Block)] /\ f[0] = <<>>
    OBVIOUS
  <2>2. KeepsTo(f, s, n, 0)
    BY <2>1 DEF KeepsTo
  <2>3. QED
    BY <1>3, <1>4, <2>2
<1>5. CASE m # 0
  <2>1. m \in 1 .. Len(s) /\ m - 1 \in 0 .. Len(s) /\ m - 1 \in Nat
    BY <1>1, <1>3, <1>5
  <2>2. PICK f : KeepsTo(f, s, n, m - 1)
    BY <1>1, <1>3, <2>1
  <2>3. f \in [0 .. m - 1 -> Seq(Block)] /\ s[m] \in Block
    BY <2>1, <2>2 DEF KeepsTo
  <2> DEFINE next == IF s[m].name = n THEN f[m-1] ELSE Append(f[m-1], s[m])
             g == [k \in 0 .. m |-> IF k = m THEN next ELSE f[k]]
  <2>4. next \in Seq(Block)
    <3>1. f[m-1] \in Seq(Block)
      BY <2>1, <2>3
    <3>2. QED
      BY <2>3, <3>1
  <2> HIDE DEF next
  <2>5. g \in [0 .. m -> Seq(Block)] /\ g[m] = next /\ \A k \in 0 .. m - 1 : g[k] = f[k]
    BY <2>1, <2>3, <2>4
  <2> HIDE DEF g
  <2>6. g[0] = <<>>
    BY <2>1, <2>2, <2>5 DEF KeepsTo
  <2>7. ASSUME NEW k \in 1 .. m
        PROVE  g[k] = IF s[k].name = n THEN g[k-1] ELSE Append(g[k-1], s[k])
    <3>1. k - 1 \in 0 .. m - 1 /\ g[k-1] = f[k-1]
      BY <2>1, <2>5
    <3>2. CASE k = m
      BY <2>5, <3>1, <3>2 DEF next
    <3>3. CASE k # m
      <4>1. k \in 1 .. m - 1 /\ k \in 0 .. m - 1
        BY <2>1, <3>3
      <4>2. QED
        BY <2>2, <2>5, <3>1, <4>1 DEF KeepsTo
    <3>4. QED
      BY <3>2, <3>3
  <2>8. KeepsTo(g, s, n, m)
    BY <2>5, <2>6, <2>7 DEF KeepsTo
  <2>9. QED
    BY <1>3, <2>8
<1>6. QED
  BY <1>4, <1>5

\* BlocksBut is that pass.
LEMMA BlocksButIs ==
  ASSUME NEW s \in Seq(Block), NEW n
  PROVE  /\ BlocksBut(s, n)[0] = <<>>
         /\ \A k \in 1 .. Len(s) :
              BlocksBut(s, n)[k] = IF s[k].name = n THEN BlocksBut(s, n)[k-1]
                                   ELSE Append(BlocksBut(s, n)[k-1], s[k])
<1>1. PICK f : KeepsTo(f, s, n, Len(s))
  BY KeptStepwise
<1>2. Keeps(f, s, n)
  <2>1. Len(s) \in Nat /\ f = [k \in 0 .. Len(s) |-> f[k]]
    BY <1>1 DEF KeepsTo
  <2>2. \A k \in 0 .. Len(s) : f[k] = IF k = 0 THEN <<>>
                                      ELSE IF s[k].name = n THEN f[k-1] ELSE Append(f[k-1], s[k])
    <3>1. \A k \in 0 .. Len(s) : k = 0 \/ k \in 1 .. Len(s)
      BY <2>1
    <3>2. /\ f[0] = <<>>
          /\ \A k \in 1 .. Len(s) : f[k] = IF s[k].name = n THEN f[k-1] ELSE Append(f[k-1], s[k])
      BY <1>1 DEF KeepsTo
    <3>3. \A k \in 1 .. Len(s) : k # 0
      BY <2>1
    <3>4. QED
      BY <3>1, <3>2, <3>3
  <2>3. QED
    BY <2>1, <2>2 DEF Keeps
<1>3. BlocksBut(s, n) = CHOOSE g : Keeps(g, s, n)
  BY DEF BlocksBut, Keeps
<1>4. Keeps(BlocksBut(s, n), s, n)
  BY <1>2, <1>3
<1> DEFINE g == BlocksBut(s, n)
<1>5. \A k \in 0 .. Len(s) : g[k] = IF k = 0 THEN <<>>
                                    ELSE IF s[k].name = n THEN g[k-1] ELSE Append(g[k-1], s[k])
  <2> HIDE DEF g
  <2>1. Keeps(g, s, n)
    BY <1>4 DEF g
  <2>2. QED
    BY <2>1 DEF Keeps
<1> HIDE DEF g
<1>6. Len(s) \in Nat
  OBVIOUS
<1>7. g[0] = <<>> /\ \A k \in 1 .. Len(s) : g[k] = IF s[k].name = n THEN g[k-1] ELSE Append(g[k-1], s[k])
  BY <1>5, <1>6
<1>8. QED
  BY <1>7 DEF g

\* The next m blocks, after p of t and after q of s, are the same or both for n.
Meets(s, t, n, p, q, m) ==
    \A i \in 1 .. m : t[p + i] = s[q + i] \/ (t[p + i].name = n /\ s[q + i].name = n)

\* Passes that agree before such blocks agree after them.
LEMMA Alike ==
  ASSUME NEW s \in Seq(Block), NEW t \in Seq(Block), NEW n,
         NEW p \in Nat, NEW q \in Nat, NEW m \in Nat,
         p + m <= Len(t), q + m <= Len(s),
         BlocksBut(t, n)[p] = BlocksBut(s, n)[q], Meets(s, t, n, p, q, m)
  PROVE  BlocksBut(t, n)[p + m] = BlocksBut(s, n)[q + m]
<1> DEFINE f == BlocksBut(t, n)
           g == BlocksBut(s, n)
           Bad == {i \in 0 .. m : f[p + i] # g[q + i]}
<1>1. Len(s) \in Nat /\ Len(t) \in Nat
  OBVIOUS
<1>2. SUFFICES ASSUME Bad # {} PROVE FALSE
  <2>1. m \in 0 .. m
    OBVIOUS
  <2>2. QED
    BY <2>1
<1>3. PICK x \in Bad : \A y \in Bad : x <= y
  <2>1. Bad \subseteq Nat
    OBVIOUS
  <2> HIDE DEF Bad
  <2>2. QED
    BY <1>2, <2>1, MinIsLeast
<1>4. x \in 1 .. m /\ x - 1 \in 0 .. m /\ x - 1 \notin Bad
  <2>1. x \in 0 .. m /\ ~ (x <= x - 1)
    BY <1>3
  <2>2. x # 0
    <3>1. p + 0 = p /\ q + 0 = q
      OBVIOUS
    <3>2. QED
      BY <1>3, <3>1
  <2>3. x \in 1 .. m /\ x - 1 \in 0 .. m
    BY <2>1, <2>2
  <2>4. QED
    BY <1>3, <2>1, <2>3
<1>5. /\ p + x \in 1 .. Len(t) /\ q + x \in 1 .. Len(s)
      /\ (p + x) - 1 = p + (x - 1) /\ (q + x) - 1 = q + (x - 1)
  BY <1>1, <1>4
<1>6. f[(p + x) - 1] = g[(q + x) - 1]
  BY <1>4, <1>5
<1>7. /\ f[p + x] = IF t[p + x].name = n THEN f[(p + x) - 1] ELSE Append(f[(p + x) - 1], t[p + x])
      /\ g[q + x] = IF s[q + x].name = n THEN g[(q + x) - 1] ELSE Append(g[(q + x) - 1], s[q + x])
  BY <1>5, BlocksButIs
<1>8. t[p + x] = s[q + x] \/ (t[p + x].name = n /\ s[q + x].name = n)
  BY <1>4 DEF Meets
<1> HIDE DEF f, g
<1>9. f[p + x] = g[q + x]
  BY <1>6, <1>7, <1>8
<1>10. QED
  BY <1>3, <1>9

\* From the first block on.
LEMMA AlikeFromStart ==
  ASSUME NEW s \in Seq(Block), NEW t \in Seq(Block), NEW n, NEW m \in Nat,
         m <= Len(t), m <= Len(s),
         \A i \in 1 .. m : t[i] = s[i] \/ (t[i].name = n /\ s[i].name = n)
  PROVE  BlocksBut(t, n)[m] = BlocksBut(s, n)[m]
<1>1. BlocksBut(t, n)[0] = BlocksBut(s, n)[0]
  BY BlocksButIs
<1>2. \A i \in 1 .. m : t[0 + i] = s[0 + i] \/ (t[0 + i].name = n /\ s[0 + i].name = n)
  BY SMT
<1>3. 0 + m = m /\ 0 + m <= Len(t) /\ 0 + m <= Len(s) /\ 0 \in Nat
  OBVIOUS
<1>4. BlocksBut(t, n)[0 + m] = BlocksBut(s, n)[0 + m]
  <2> DEFINE z == 0
  <2> HIDE DEF z
  <2>1. /\ z \in Nat /\ z + m <= Len(t) /\ z + m <= Len(s)
        /\ BlocksBut(t, n)[z] = BlocksBut(s, n)[z]
        /\ Meets(s, t, n, z, z, m)
    BY <1>1, <1>2, <1>3 DEF z, Meets
  <2>2. BlocksBut(t, n)[z + m] = BlocksBut(s, n)[z + m]
    BY <2>1, Alike
  <2>3. QED
    BY <2>2 DEF z
<1>5. QED
  BY <1>3, <1>4

LEMMA AppendedOthers ==
  ASSUME NEW s \in Seq(Block), NEW b \in Block
  PROVE  Others(Append(s, b), b.name) = Others(s, b.name)
<1> DEFINE t == Append(s, b)
           n == b.name
<1>1. /\ t \in Seq(Block) /\ Len(t) = Len(s) + 1 /\ Len(s) \in Nat
      /\ \A i \in 1 .. Len(s) : t[i] = s[i]
      /\ t[Len(s) + 1] = b
  BY AppendProperties
<1> HIDE DEF t, n
<1>2. \A i \in 1 .. Len(s) : t[i] = s[i] \/ (t[i].name = n /\ s[i].name = n)
  BY <1>1
<1>3. BlocksBut(t, n)[Len(s)] = BlocksBut(s, n)[Len(s)]
  <2>1. Len(s) <= Len(t) /\ Len(s) <= Len(s)
    BY <1>1
  <2>2. QED
    BY <1>1, <1>2, <2>1, AlikeFromStart
<1>4. BlocksBut(t, n)[Len(t)] = BlocksBut(t, n)[Len(s)]
  <2>1. Len(t) \in 1 .. Len(t) /\ Len(t) - 1 = Len(s) /\ t[Len(t)].name = n
    BY <1>1 DEF n
  <2>2. QED
    BY <1>1, <2>1, BlocksButIs
<1>5. Others(t, n) = Others(s, n)
  BY <1>1, <1>3, <1>4 DEF Others
<1>6. QED
  BY <1>5 DEF t, n

LEMMA RemovedOthers ==
  ASSUME NEW s \in Seq(Block), NEW k \in 1 .. Len(s)
  PROVE  Others(RemoveAt(s, k), s[k].name) = Others(s, s[k].name)
<1> DEFINE t == RemoveAt(s, k)
           n == s[k].name
<1>1. Len(s) \in Nat /\ k \in Nat /\ k - 1 \in Nat /\ k >= 1 /\ k <= Len(s)
  OBVIOUS
<1>2. /\ t \in Seq(Block) /\ Len(t) = Len(s) - 1
      /\ \A i \in 1 .. k - 1 : t[i] = s[i]
      /\ \A i \in k .. Len(s) - 1 : t[i] = s[i + 1]
  BY RemovedAt
<1>3. s[k].name = n
  OBVIOUS
<1> HIDE DEF t, n
<1>4. BlocksBut(t, n)[k - 1] = BlocksBut(s, n)[k - 1]
  <2>1. \A i \in 1 .. k - 1 : t[i] = s[i] \/ (t[i].name = n /\ s[i].name = n)
    BY <1>2
  <2>2. k - 1 <= Len(t) /\ k - 1 <= Len(s)
    BY <1>1, <1>2
  <2>3. QED
    BY <1>1, <1>2, <2>1, <2>2, AlikeFromStart
<1>5. BlocksBut(s, n)[k] = BlocksBut(s, n)[k - 1]
  BY <1>3, BlocksButIs
<1>6. BlocksBut(t, n)[(k - 1) + (Len(s) - k)] = BlocksBut(s, n)[k + (Len(s) - k)]
  <2> DEFINE p == k - 1
             m == Len(s) - k
  <2>1. p \in Nat /\ m \in Nat /\ p + m <= Len(t) /\ k + m <= Len(s)
    BY <1>1, <1>2
  <2>2. ASSUME NEW i \in 1 .. m
        PROVE  t[p + i] = s[k + i] \/ (t[p + i].name = n /\ s[k + i].name = n)
    <3>1. p + i \in k .. Len(s) - 1 /\ (p + i) + 1 = k + i
      BY <1>1
    <3>2. QED
      BY <1>2, <3>1
  <2>3. BlocksBut(t, n)[p] = BlocksBut(s, n)[k]
    BY <1>4, <1>5
  <2> HIDE DEF p, m
  <2>4. BlocksBut(t, n)[p + m] = BlocksBut(s, n)[k + m]
    <3>1. Meets(s, t, n, p, k, m)
      BY <2>2 DEF Meets
    <3>2. QED
      BY <1>1, <1>2, <2>1, <2>3, <3>1, Alike
  <2>5. QED
    BY <2>4 DEF p, m
<1>7. Others(t, n) = Others(s, n)
  <2>1. (k - 1) + (Len(s) - k) = Len(t) /\ k + (Len(s) - k) = Len(s)
    BY <1>1, <1>2
  <2>2. QED
    BY <1>6, <2>1 DEF Others
<1>8. QED
  BY <1>7 DEF t, n

LEMMA ChangedOthers ==
  ASSUME NEW s \in Seq(Block), NEW k \in 1 .. Len(s), NEW b \in Block, b.name = s[k].name
  PROVE  Others([s EXCEPT ![k] = b], b.name) = Others(s, b.name)
<1> DEFINE t == [s EXCEPT ![k] = b]
           n == b.name
<1>1. /\ t \in Seq(Block) /\ Len(t) = Len(s) /\ Len(s) \in Nat
      /\ \A i \in 1 .. Len(s) : t[i] = IF i = k THEN b ELSE s[i]
  BY ExceptSeq
<1>2. \A i \in 1 .. Len(s) : t[i] = s[i] \/ (t[i].name = n /\ s[i].name = n)
  BY <1>1
<1> HIDE DEF t, n
<1>3. BlocksBut(t, n)[Len(s)] = BlocksBut(s, n)[Len(s)]
  <2>1. Len(s) <= Len(t) /\ Len(s) <= Len(s)
    BY <1>1
  <2>2. QED
    BY <1>1, <1>2, <2>1, AlikeFromStart
<1>4. Others(t, n) = Others(s, n)
  BY <1>1, <1>3 DEF Others
<1>5. QED
  BY <1>4 DEF t, n

-----------------------------------------------------------------------------
(* The invariant.                                                          *)

LEMMA InitIInv == ASSUME Init PROVE IInv
<1>1. vhosts \in Seq(Block) /\ Len(vhosts) = 0
  BY DEF Init
<1>2. ssl \in [on : BOOLEAN, cert : Names \cup {NoCert}, map : SUBSET Names]
  BY DEF Init, Absent
<1>3. QED
  <2>1. TypeOK
    BY <1>1, <1>2, MaxBlocksAssumption DEF TypeOK, Init
  <2>2. Unique(vhosts)
    BY <1>1 DEF Unique
  <2>3. QED
    BY <2>1, <2>2 DEF IInv

\* What a step of RegisterVHost, UnregisterVHost and the two changes of a block does to
\* the blocks: the invariant stays, and of the entries only that of n may change.
LEMMA RegisterStep ==
  ASSUME IInv, NEW n \in Names, RegisterVHost(n)
  PROVE  /\ vhosts' \in Seq(Block) /\ Unique(vhosts') /\ Len(vhosts') <= MaxBlocks
         /\ OnlyEntry(vhosts, vhosts', n,
              IF EntryIn(vhosts, n) # NoEntry THEN EntryIn(vhosts, n)
              ELSE [restrained |-> 1, ssl |-> FALSE])
<1> USE DEF IInv
<1>1. CASE FindBlock(n) # 0
  <2>1. /\ vhosts' = vhosts
        /\ vhosts[FindBlock(n)] \in Block /\ FindBlock(n) \in 1 .. Len(vhosts)
        /\ vhosts[FindBlock(n)].name = n
    BY <1>1, Found DEF RegisterVHost, TypeOK
  <2>2. Settings(vhosts[FindBlock(n)]) # NoEntry
    BY <2>1, NoEntryAssumption DEF Settings, Block
  <2>3. n \in Clear => EntryIn(vhosts, n) # NoEntry
    BY <2>1, <2>2, EntryIs DEF TypeOK
  <2>4. QED
    BY <2>1, <2>3 DEF OnlyEntry, TypeOK, RegisterVHost
<1>2. CASE FindBlock(n) = 0
  <2> DEFINE b == NewBlock(n)
  <2>1. b \in Block /\ b.name = n /\ Settings(b) = [restrained |-> 1, ssl |-> FALSE]
    BY DEF NewBlock, Block, Settings
  <2>2. n \in Clear => n \notin NamesIn(vhosts) /\ EntryIn(vhosts, n) = NoEntry
    BY <1>2, Found, EntryIs DEF TypeOK
  <2>3. vhosts' = Append(vhosts, b) /\ Len(vhosts') <= MaxBlocks
    BY <1>2 DEF RegisterVHost
  <2> HIDE DEF b
  <2>4. /\ vhosts' \in Seq(Block) /\ Unique(vhosts')
        /\ OnlyEntry(vhosts, vhosts', n, Settings(b))
    BY <2>1, <2>2, <2>3, Appended DEF TypeOK
  <2>5. QED
    BY <2>1, <2>2, <2>3, <2>4 DEF OnlyEntry
<1>3. QED
  BY <1>1, <1>2

LEMMA UnregisterStep ==
  ASSUME IInv, NEW n \in Names, UnregisterVHost(n)
  PROVE  /\ vhosts' \in Seq(Block) /\ Unique(vhosts') /\ Len(vhosts') <= MaxBlocks
         /\ OnlyEntry(vhosts, vhosts', n, NoEntry)
<1> USE DEF IInv
<1>1. Len(vhosts) \in Nat /\ vhosts \in Seq(Block) /\ Len(vhosts) <= MaxBlocks
  BY DEF TypeOK
<1>2. CASE FindBlock(n) # 0
  <2>1. /\ vhosts' = RemoveAt(vhosts, FindBlock(n))
        /\ FindBlock(n) \in 1 .. Len(vhosts) /\ vhosts[FindBlock(n)].name = n
    BY <1>2, Found DEF UnregisterVHost
  <2>2. /\ vhosts' \in Seq(Block) /\ Unique(vhosts') /\ Len(vhosts') = Len(vhosts) - 1
        /\ OnlyEntry(vhosts, vhosts', n, NoEntry)
    BY <1>1, <2>1, Removed
  <2>3. QED
    BY <1>1, <2>2, MaxBlocksAssumption
<1>3. CASE FindBlock(n) = 0
  <2>1. vhosts' = vhosts
    BY <1>3 DEF UnregisterVHost
  <2>2. n \in Clear => EntryIn(vhosts, n) = NoEntry
    BY <1>1, <1>3, Found, EntryIs
  <2>3. QED
    BY <1>1, <2>1, <2>2 DEF OnlyEntry
<1>4. QED
  BY <1>2, <1>3

LEMMA ChangeStep ==
  ASSUME IInv, NEW n \in Names, FindBlock(n) # 0, NEW b \in Block,
         b.name = n, vhosts' = [vhosts EXCEPT ![FindBlock(n)] = b]
  PROVE  /\ vhosts' \in Seq(Block) /\ Unique(vhosts') /\ Len(vhosts') <= MaxBlocks
         /\ OnlyEntry(vhosts, vhosts', n, Settings(b))
<1>1. FindBlock(n) \in 1 .. Len(vhosts) /\ vhosts[FindBlock(n)].name = n
  BY Found DEF IInv
<1>2. QED
  BY <1>1, Changed DEF IInv, TypeOK

\* The block that is changed, with its settings before.
LEMMA BlockFound ==
  ASSUME IInv, NEW n \in Names, FindBlock(n) # 0
  PROVE  /\ vhosts[FindBlock(n)] \in Block /\ vhosts[FindBlock(n)].name = n
         /\ n \in Clear => EntryIn(vhosts, n) = Settings(vhosts[FindBlock(n)])
         /\ n \in Clear => EntryIn(vhosts, n) # NoEntry
<1>1. FindBlock(n) \in 1 .. Len(vhosts) /\ vhosts[FindBlock(n)].name = n
  BY Found DEF IInv
<1>2. vhosts[FindBlock(n)] \in Block
  BY <1>1 DEF IInv, TypeOK
<1>3. Settings(vhosts[FindBlock(n)]) # NoEntry
  BY <1>2, NoEntryAssumption DEF Settings, Block
<1>4. n \in Clear => EntryIn(vhosts, n) = Settings(vhosts[FindBlock(n)])
  BY <1>1, EntryIs DEF IInv, TypeOK
<1>5. QED
  BY <1>1, <1>2, <1>3, <1>4

LEMMA RestrainStep ==
  ASSUME IInv, NEW n \in Names, NEW value \in {0, 1}, UpdateVHostRestrained(n, value)
  PROVE  /\ vhosts' \in Seq(Block) /\ Unique(vhosts') /\ Len(vhosts') <= MaxBlocks
         /\ OnlyEntry(vhosts, vhosts', n, [EntryIn(vhosts, n) EXCEPT !.restrained = value])
         /\ n \in Clear => EntryIn(vhosts, n) # NoEntry
<1> DEFINE old == vhosts[FindBlock(n)]
           new == [name |-> n, restrained |-> value, ssl |-> old.ssl]
<1>1. FindBlock(n) # 0 /\ vhosts' = [vhosts EXCEPT ![FindBlock(n)].restrained = value]
  BY DEF UpdateVHostRestrained
<1>2. /\ old \in Block /\ old.name = n
      /\ n \in Clear => EntryIn(vhosts, n) = Settings(old) /\ EntryIn(vhosts, n) # NoEntry
  BY <1>1, BlockFound
<1>3. /\ new \in Block /\ new.name = n /\ [old EXCEPT !.restrained = value] = new
  BY <1>2 DEF Block
<1>4. vhosts' = [vhosts EXCEPT ![FindBlock(n)] = new]
  BY <1>1, <1>3
<1>5. [Settings(old) EXCEPT !.restrained = value] = Settings(new)
  BY <1>2 DEF Settings
<1> HIDE DEF old, new
<1>6. /\ vhosts' \in Seq(Block) /\ Unique(vhosts') /\ Len(vhosts') <= MaxBlocks
      /\ OnlyEntry(vhosts, vhosts', n, Settings(new))
  BY <1>1, <1>3, <1>4, ChangeStep
<1>7. QED
  BY <1>2, <1>5, <1>6 DEF OnlyEntry

LEMMA SslChanged ==
  ASSUME NEW b \in Block, NEW v
  PROVE  /\ [b EXCEPT !.ssl = v] = [name |-> b.name, restrained |-> b.restrained, ssl |-> v]
         /\ [Settings(b) EXCEPT !.ssl = v] = [restrained |-> b.restrained, ssl |-> v]
BY DEF Block, Settings

LEMMA SecureStep ==
  ASSUME IInv, NEW n \in Names, SetVHostSSL(n)
  PROVE  /\ vhosts' \in Seq(Block) /\ Unique(vhosts') /\ Len(vhosts') <= MaxBlocks
         /\ OnlyEntry(vhosts, vhosts', n, [EntryIn(vhosts, n) EXCEPT !.ssl = TRUE])
         /\ n \in Clear => EntryIn(vhosts, n) # NoEntry
<1> DEFINE old == vhosts[FindBlock(n)]
           new == [name |-> n, restrained |-> old.restrained, ssl |-> TRUE]
<1>1. FindBlock(n) # 0 /\ vhosts' = [vhosts EXCEPT ![FindBlock(n)].ssl = TRUE]
  BY DEF SetVHostSSL
<1>2. /\ old \in Block /\ old.name = n
      /\ n \in Clear => EntryIn(vhosts, n) = Settings(old) /\ EntryIn(vhosts, n) # NoEntry
  BY <1>1, BlockFound
<1>3. new \in Block /\ new.name = n /\ [old EXCEPT !.ssl = TRUE] = new
  <2>1. new \in Block /\ new.name = n
    BY <1>2 DEF Block
  <2>2. [old EXCEPT !.ssl = TRUE] = [name |-> old.name, restrained |-> old.restrained, ssl |-> TRUE]
    BY <1>2, SslChanged
  <2>3. QED
    BY <1>2, <2>1, <2>2, Zenon
<1>4. vhosts' = [vhosts EXCEPT ![FindBlock(n)] = new]
  BY <1>1, <1>3
<1>5. [Settings(old) EXCEPT !.ssl = TRUE] = Settings(new)
  <2>1. [Settings(old) EXCEPT !.ssl = TRUE] = [restrained |-> old.restrained, ssl |-> TRUE]
    BY <1>2, SslChanged
  <2>2. Settings(new) = [restrained |-> new.restrained, ssl |-> new.ssl]
    BY DEF Settings
  <2>3. new.restrained = old.restrained /\ new.ssl = TRUE
    OBVIOUS
  <2>4. QED
    BY <2>1, <2>2, <2>3
<1> HIDE DEF old, new
<1>6. /\ vhosts' \in Seq(Block) /\ Unique(vhosts') /\ Len(vhosts') <= MaxBlocks
      /\ OnlyEntry(vhosts, vhosts', n, Settings(new))
  BY <1>1, <1>3, <1>4, ChangeStep
<1>7. QED
  BY <1>2, <1>5, <1>6 DEF OnlyEntry

\* The listeners keep their types.
ListenersOK ==
    default \subseteq Names /\ ssl \in [on : BOOLEAN, cert : Names \cup {NoCert}, map : SUBSET Names]

LEMMA ListenerStep ==
  ASSUME ListenersOK, Next
  PROVE  ListenersOK'
<1> USE DEF ListenersOK, Absent
<1>1. ASSUME NEW n \in Names, Edit(n) PROVE ListenersOK'
  <2>1. CASE RegisterVHost(n)
    BY <2>1 DEF RegisterVHost
  <2>2. CASE UnregisterVHost(n)
    BY <2>2 DEF UnregisterVHost
  <2>3. CASE UNCHANGED <<default, ssl>>
    BY <2>3
  <2>4. CASE SetSSLListenerCerts(n)
    BY <2>4 DEF SetSSLListenerCerts
  <2>5. CASE AddSSLMapEntry(n)
    BY <2>5 DEF AddSSLMapEntry
  <2>6. CASE RemoveSSLMapEntry(n)
    BY <2>6 DEF RemoveSSLMapEntry
  <2>7. QED
    BY <1>1, <2>1, <2>2, <2>3, <2>4, <2>5, <2>6 DEF Edit, UpdateVHostRestrained, SetVHostSSL
<1>2. CASE EnsureSSLListener
  BY <1>2 DEF EnsureSSLListener
<1>3. CASE RemoveSSLListener
  BY <1>3 DEF RemoveSSLListener
<1>4. QED
  BY <1>1, <1>2, <1>3 DEF Next

LEMMA BlocksStep ==
  ASSUME IInv, Next
  PROVE  vhosts' \in Seq(Block) /\ Unique(vhosts') /\ Len(vhosts') <= MaxBlocks
<1> DEFINE P == vhosts' \in Seq(Block) /\ Unique(vhosts') /\ Len(vhosts') <= MaxBlocks
<1>1. CASE UNCHANGED vhosts
  BY <1>1 DEF IInv, TypeOK
<1>2. ASSUME NEW n \in Names, Edit(n), ~UNCHANGED vhosts PROVE P
  <2>1. CASE RegisterVHost(n)
    BY <2>1, RegisterStep
  <2>2. CASE UnregisterVHost(n)
    BY <2>2, UnregisterStep
  <2>3. CASE SetVHostSSL(n)
    BY <2>3, SecureStep
  <2>4. ASSUME NEW value \in {0, 1}, UpdateVHostRestrained(n, value) PROVE P
    BY <2>4, RestrainStep
  <2> HIDE DEF P
  <2>5. QED
    BY <1>2, <2>1, <2>2, <2>3, <2>4
       DEF Edit, SetSSLListenerCerts, AddSSLMapEntry, RemoveSSLMapEntry
<1>3. CASE EnsureSSLListener \/ RemoveSSLListener
  BY <1>1, <1>3 DEF EnsureSSLListener, RemoveSSLListener
<1>4. QED
  BY <1>1, <1>2, <1>3 DEF Next

LEMMA Inductive == Spec => []IInv
<1>1. IInv /\ [Next]_vars => IInv'
  <2>1. ASSUME IInv, Next PROVE IInv'
    BY <2>1, ListenerStep, BlocksStep DEF IInv, TypeOK, ListenersOK, Unique, Clear
  <2>2. ASSUME IInv, UNCHANGED vars PROVE IInv'
    BY <2>2 DEF vars, IInv, TypeOK, Unique, Clear
  <2>3. QED
    BY <2>1, <2>2
<1>2. QED
  BY InitIInv, <1>1, PTL DEF Spec

-----------------------------------------------------------------------------
(* The theorems.                                                           *)

\* However the header of a site's block continues into another's, the editors of
\* ols/conf.go keep the file a sequence of well-formed blocks and its listeners typed.
THEOREM TypeCorrect == Spec => []TypeOK
<1>1. IInv => TypeOK
  BY DEF IInv
<1>2. QED
  BY Inductive, <1>1, PTL

\* The entries of the table, as HttpdEntries has them.
Table == [n \in Clear |-> EntryIn(vhosts, n)]

LEMMA TableStep ==
  ASSUME NEW n, NEW e, OnlyEntry(vhosts, vhosts', n, e)
  PROVE  Table' = [m \in Clear |-> IF m = n THEN e ELSE Table[m]]
<1>1. \A m \in Clear : EntryIn(vhosts, m)' = IF m = n THEN e ELSE EntryIn(vhosts, m)
  <2>1. \A m : EntryIn(vhosts, m)' = EntryIn(vhosts', m)
    BY DEF EntryIn, Position, SelectInSeq, Settings
  <2>2. QED
    BY <2>1 DEF OnlyEntry
<1>2. QED
  BY <1>1 DEF Table, Clear

LEMMA TableUnchanged ==
  ASSUME UNCHANGED vhosts
  PROVE  Table' = Table
<1>1. \A m : EntryIn(vhosts, m)' = EntryIn(vhosts, m)
  BY DEF EntryIn, Position, SelectInSeq, Settings
<1>2. QED
  BY <1>1 DEF Table, Clear

\* Each edit of the file is the edit of the table, or changes a listener, or neither.
LEMMA EditsEntries ==
  ASSUME IInv, [Next]_vars
  PROVE  [Entries!Next]_(Entries!vars)
<1> DEFINE Step == [Entries!Next]_(Entries!vars)
<1>1. ASSUME NEW n \in Names, RegisterVHost(n) PROVE Entries!Register(n)
  <2> DEFINE e == IF EntryIn(vhosts, n) # NoEntry THEN EntryIn(vhosts, n)
                  ELSE [restrained |-> 1, ssl |-> FALSE]
  <2>1. Table' = [m \in Clear |-> IF m = n THEN e ELSE Table[m]]
    BY <1>1, RegisterStep, TableStep
  <2>2. n \in Clear => Table[n] = EntryIn(vhosts, n)
    BY DEF Table
  <2>3. CASE n \in Clear /\ Table[n] # NoEntry
    <3>1. Table' = Table
      BY <2>1, <2>2, <2>3 DEF Table
    <3>2. QED
      BY <1>1, <2>3, <3>1 DEF RegisterVHost, Entries!Register, Entries!Has, Table
  <2>4. CASE ~(n \in Clear /\ Table[n] # NoEntry)
    <3>1. Table' = [m \in Clear |-> IF m = n THEN [restrained |-> 1, ssl |-> FALSE] ELSE Table[m]]
      BY <2>1, <2>2, <2>4
    <3>2. QED
      BY <1>1, <2>4, <3>1 DEF RegisterVHost, Entries!Register, Entries!Has, Entries!Put, Table
  <2>5. QED
    BY <2>3, <2>4
<1>2. ASSUME NEW n \in Names, UnregisterVHost(n) PROVE Entries!Unregister(n)
  <2>1. Table' = [m \in Clear |-> IF m = n THEN NoEntry ELSE Table[m]]
    BY <1>2, UnregisterStep, TableStep
  <2>2. QED
    BY <1>2, <2>1 DEF UnregisterVHost, Entries!Unregister, Entries!Put, Table
<1>3. ASSUME NEW n \in Names, NEW value \in {0, 1}, UpdateVHostRestrained(n, value)
      PROVE  Step
  <2>1. Table' = [m \in Clear |-> IF m = n THEN [EntryIn(vhosts, n) EXCEPT !.restrained = value]
                                  ELSE Table[m]]
    <3>1. OnlyEntry(vhosts, vhosts', n, [EntryIn(vhosts, n) EXCEPT !.restrained = value])
      BY <1>3, RestrainStep
    <3>2. QED
      BY <3>1, TableStep, Zenon
  <2>2. UNCHANGED <<default, ssl>>
    BY <1>3 DEF UpdateVHostRestrained
  <2>3. CASE n \in Clear
    <3>1. Entries!Restrain(n, value)
      BY <1>3, <2>1, <2>2, <2>3, RestrainStep DEF Entries!Restrain, Entries!Has, Entries!Put, Table
    <3>2. QED
      BY <3>1 DEF Entries!Next
  <2>4. CASE n \notin Clear
    <3>1. Table' = Table
      BY <2>1, <2>4 DEF Table
    <3>2. QED
      BY <2>2, <3>1 DEF Entries!vars, Table
  <2>5. QED
    BY <2>3, <2>4
<1>4. ASSUME NEW n \in Names, SetVHostSSL(n) PROVE Step
  <2>1. Table' = [m \in Clear |-> IF m = n THEN [EntryIn(vhosts, n) EXCEPT !.ssl = TRUE]
                                  ELSE Table[m]]
    BY <1>4, SecureStep, TableStep
  <2>2. UNCHANGED <<default, ssl>>
    BY <1>4 DEF SetVHostSSL
  <2>3. CASE n \in Clear
    <3>1. Entries!Secure(n)
      BY <1>4, <2>1, <2>2, <2>3, SecureStep DEF Entries!Secure, Entries!Has, Entries!Put, Table
    <3>2. QED
      BY <3>1 DEF Entries!Next
  <2>4. CASE n \notin Clear
    <3>1. Table' = Table
      BY <2>1, <2>4 DEF Table
    <3>2. QED
      BY <2>2, <3>1 DEF Entries!vars, Table
  <2>5. QED
    BY <2>3, <2>4
<1>5. ASSUME UNCHANGED <<vhosts, default>>,
             \/ EnsureSSLListener \/ RemoveSSLListener
             \/ \E n \in Names : SetSSLListenerCerts(n) \/ AddSSLMapEntry(n) \/ RemoveSSLMapEntry(n)
      PROVE  Step
  <2>1. Table' = Table
    BY <1>5, TableUnchanged
  <2>2. Entries!Listener
    BY <1>5, <2>1 DEF Entries!Listener, Entries!Absent, Absent, Table, EnsureSSLListener,
       RemoveSSLListener, SetSSLListenerCerts, AddSSLMapEntry, RemoveSSLMapEntry
  <2>3. QED
    BY <2>2 DEF Entries!Next
<1>6. CASE UNCHANGED vars
  <2>1. Table' = Table
    BY <1>6, TableUnchanged DEF vars
  <2>2. QED
    BY <1>6, <2>1 DEF vars, Entries!vars, Table
<1>7. ASSUME NEW n \in Names, Edit(n) PROVE Step
  <2>1. CASE RegisterVHost(n) \/ UnregisterVHost(n)
    BY <1>1, <1>2, <2>1 DEF Entries!Next
  <2>2. CASE SetSSLListenerCerts(n) \/ AddSSLMapEntry(n) \/ RemoveSSLMapEntry(n)
    BY <1>5, <2>2 DEF SetSSLListenerCerts, AddSSLMapEntry, RemoveSSLMapEntry
  <2>3. QED
    BY <1>3, <1>4, <1>7, <2>1, <2>2 DEF Edit
<1>8. CASE EnsureSSLListener \/ RemoveSSLListener
  BY <1>5, <1>8 DEF EnsureSSLListener, RemoveSSLListener
<1>9. QED
  BY <1>6, <1>7, <1>8 DEF Next

\* For names that no other name begins with, whatever the other names are, the
\* file as the editors of ols/conf.go leave it is the table of entries gow takes it for:
\* findBlock finds a site's own block, so that each edit changes its entry and no other.
THEOREM FileIsTable == Spec => ImplementsEntries
<1>1. Init => Entries!Init
  <2>1. ASSUME Init, NEW m \in Clear PROVE EntryIn(vhosts, m) = NoEntry
    <3>1. IInv /\ NamesIn(vhosts) = {}
      BY <2>1, InitIInv DEF Init, NamesIn
    <3>2. QED
      BY <3>1, EntryIs DEF IInv, TypeOK
  <2>2. QED
    BY <2>1 DEF Init, Entries!Init, Entries!Absent, Absent
<1>2. QED
  BY Inductive, EditsEntries, <1>1, PTL DEF Spec, ImplementsEntries, Entries!Spec

\* What an edit for n does to the blocks of the others.
LEMMA EditKeepsOthers ==
  ASSUME IInv, NEW n \in Names, Edit(n)
  PROVE  Others(vhosts', n) = Others(vhosts, n)
<1> USE DEF IInv
<1>1. vhosts \in Seq(Block)
  BY DEF TypeOK
<1>2. CASE UNCHANGED vhosts
  BY <1>2
<1>3. CASE RegisterVHost(n) /\ FindBlock(n) = 0
  <2>1. NewBlock(n) \in Block /\ NewBlock(n).name = n
    BY DEF NewBlock, Block
  <2>2. vhosts' = Append(vhosts, NewBlock(n))
    BY <1>3 DEF RegisterVHost
  <2>3. QED
    BY <1>1, <2>1, <2>2, AppendedOthers
<1>4. CASE UnregisterVHost(n) /\ FindBlock(n) # 0
  <2>1. FindBlock(n) \in 1 .. Len(vhosts) /\ vhosts[FindBlock(n)].name = n
    BY <1>4, Found
  <2>2. vhosts' = RemoveAt(vhosts, FindBlock(n))
    BY <1>4 DEF UnregisterVHost
  <2>3. QED
    BY <1>1, <2>1, <2>2, RemovedOthers
<1>5. ASSUME FindBlock(n) # 0, NEW b \in Block, b.name = n,
             vhosts' = [vhosts EXCEPT ![FindBlock(n)] = b]
      PROVE  Others(vhosts', n) = Others(vhosts, n)
  <2>1. FindBlock(n) \in 1 .. Len(vhosts) /\ vhosts[FindBlock(n)].name = n
    BY <1>5, Found
  <2>2. QED
    BY <1>1, <1>5, <2>1, ChangedOthers
<1>6. ASSUME NEW value \in {0, 1}, UpdateVHostRestrained(n, value)
      PROVE  Others(vhosts', n) = Others(vhosts, n)
  <2> DEFINE old == vhosts[FindBlock(n)]
             new == [name |-> n, restrained |-> value, ssl |-> old.ssl]
  <2>1. FindBlock(n) # 0 /\ vhosts' = [vhosts EXCEPT ![FindBlock(n)].restrained = value]
    BY <1>6 DEF UpdateVHostRestrained
  <2>2. old \in Block /\ old.name = n
    BY <2>1, BlockFound
  <2>3. new \in Block /\ new.name = n /\ [old EXCEPT !.restrained = value] = new
    BY <2>2 DEF Block
  <2>4. vhosts' = [vhosts EXCEPT ![FindBlock(n)] = new]
    BY <2>1, <2>3
  <2> HIDE DEF new
  <2>5. QED
    BY <1>5, <2>1, <2>3, <2>4
<1>7. CASE SetVHostSSL(n)
  <2> DEFINE old == vhosts[FindBlock(n)]
             new == [name |-> old.name, restrained |-> old.restrained, ssl |-> TRUE]
  <2>1. FindBlock(n) # 0 /\ vhosts' = [vhosts EXCEPT ![FindBlock(n)].ssl = TRUE]
    BY <1>7 DEF SetVHostSSL
  <2>2. old \in Block /\ old.name = n
    BY <2>1, BlockFound
  <2>3. new \in Block /\ new.name = n
    BY <2>2 DEF Block
  <2>4. [old EXCEPT !.ssl = TRUE] = new
    BY <2>2, SslChanged
  <2>5. vhosts' = [vhosts EXCEPT ![FindBlock(n)] = new]
    BY <2>1, <2>4
  <2> HIDE DEF new
  <2>6. QED
    BY <1>5, <2>1, <2>3, <2>5
<1>8. QED
  <2>1. \/ UNCHANGED vhosts
        \/ RegisterVHost(n) /\ FindBlock(n) = 0
        \/ UnregisterVHost(n) /\ FindBlock(n) # 0
        \/ SetVHostSSL(n) \/ \E value \in {0, 1} : UpdateVHostRestrained(n, value)
    BY DEF Edit, RegisterVHost, UnregisterVHost, SetSSLListenerCerts, AddSSLMapEntry,
       RemoveSSLMapEntry
  <2>2. QED
    BY <1>2, <1>3, <1>4, <1>6, <1>7, <2>1

\* Whatever the header searched for also begins, an edit for one site (register, remove,
\* restrain, HTTPS) leaves the blocks of all other sites as they were, in their order: also
\* those of names that go on where the edited one ends, for which the file is not a table.
THEOREM OthersKept == Spec => OthersUntouched
<1>1. IInv /\ [Next]_vars => [\A n \in Names : Edit(n) => Others(vhosts', n) = Others(vhosts, n)]_vars
  BY EditKeepsOthers
<1>2. QED
  BY Inductive, <1>1, PTL DEF Spec, OthersUntouched

\* Finding an earlier block is all that keeps Reconcile, which registers every site each time,
\* from adding a second one: where no domain begins with another, each has one block.
THEOREM BlocksAreUnique ==
  ASSUME \A n \in Names : Extends[n] = {}
  PROVE  Spec => []OneBlockEach
<1>1. IInv => OneBlockEach
  <2>1. ASSUME IInv, NEW i \in DOMAIN vhosts, NEW j \in DOMAIN vhosts, vhosts[i].name = vhosts[j].name
        PROVE  i = j
    <3>1. vhosts \in Seq(Block) /\ i \in 1 .. Len(vhosts) /\ j \in 1 .. Len(vhosts)
      BY <2>1 DEF IInv, TypeOK
    <3>2. vhosts[i] \in Block
      BY <3>1
    <3>3. vhosts[i].name \in Clear
      BY <3>2 DEF Block, Clear
    <3>4. QED
      BY <2>1, <3>1, <3>3 DEF IInv, Unique
  <2>2. QED
    BY <2>1 DEF OneBlockEach
<1>2. QED
  BY Inductive, <1>1, PTL

=============================================================================
