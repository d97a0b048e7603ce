----------------------------- MODULE VmmProofs ------------------------------
(***************************************************************************)
(* Proofs about the allocator of kernel virtual addresses, for every       *)
(* number of addresses, of list nodes in a page and of pages of nodes.     *)
(* What the nodes and the allocated blocks say of the addresses does not   *)
(* depend on the links, and is kept whatever becomes of them (BlocksOK);   *)
(* of the links, the chain from vmm_head is kept always (Chain), and its   *)
(* whole shape until all nodes have been in use (Shape).                   *)
(***************************************************************************)
EXTENDS Vmm, TLAPS

(* The assumption, in the form that the proofs cite.                       *)
LEMMA Sizes == V \in Nat \ {0} /\ K \in Nat \ {0, 1} /\ MaxPages \in Nat \ {0}
  BY SizeAssumption

(* The block of m pages at s and that of n pages at t share no page.       *)
Apart(s, m, t, n) == s + m <= t \/ t + n <= s

(* Page p is in a block: of a node, or allocated.                          *)
Covered(st, sz, al, p) ==
    \/ \E n \in Node : st[n] <= p /\ p < st[n] + sz[n]
    \/ \E a \in DOMAIN al : a <= p /\ p < a + al[a]

(* The nodes, on the list or not, and the allocated blocks divide up the   *)
(* addresses.                                                              *)
BlocksOK(st, sz, al) ==
    /\ st \in [Node -> Nat] /\ sz \in [Node -> Nat]
    /\ \A n \in Node : (sz[n] = 0 <=> st[n] = 0) /\ st[n] + sz[n] <= V + 1
    /\ \A m, n \in Node : m # n /\ sz[m] # 0 /\ sz[n] # 0 => Apart(st[m], sz[m], st[n], sz[n])
    /\ \A a \in DOMAIN al : a \in Nat \ {0} /\ al[a] \in Nat \ {0} /\ a + al[a] <= V + 1
    /\ \A a, b \in DOMAIN al : a # b => Apart(a, al[a], b, al[b])
    /\ \A a \in DOMAIN al, n \in Node : sz[n] # 0 => Apart(a, al[a], st[n], sz[n])
    /\ \A p \in 1..V : Covered(st, sz, al, p)

(* vmm_alloc takes k pages from the front of the block of node n.          *)
Takes(st, sz, al, n, k, st2, sz2, al2) ==
    /\ st2 \in [Node -> Nat] /\ sz2 \in [Node -> Nat]
    /\ \A i \in Node \ {n} : st2[i] = st[i] /\ sz2[i] = sz[i]
    /\ st2[n] = IF sz[n] = k THEN 0 ELSE st[n] + k
    /\ sz2[n] = sz[n] - k
    /\ DOMAIN al2 = DOMAIN al \cup {st[n]}
    /\ \A b \in DOMAIN al2 : al2[b] = IF b = st[n] THEN k ELSE al[b]

(* vmm_alloc takes k pages off the block of node n.                        *)
LEMMA TakePages ==
    ASSUME NEW st, NEW sz, NEW al, NEW st2, NEW sz2, NEW al2, BlocksOK(st, sz, al),
           NEW n \in Node, NEW k \in Nat \ {0}, k <= sz[n],
           Takes(st, sz, al, n, k, st2, sz2, al2)
    PROVE  BlocksOK(st2, sz2, al2) /\ st[n] \notin DOMAIN al
<1> USE DEF Takes
<1> DEFINE a == st[n]
<1>1. /\ st \in [Node -> Nat] /\ sz \in [Node -> Nat]
      /\ \A i \in Node : (sz[i] = 0 <=> st[i] = 0) /\ st[i] + sz[i] <= V + 1
      /\ \A b \in DOMAIN al : b \in Nat \ {0} /\ al[b] \in Nat \ {0} /\ b + al[b] <= V + 1
  BY Zenon DEF BlocksOK
<1>2. \A i, j \in Node : i # j /\ sz[i] # 0 /\ sz[j] # 0 => Apart(st[i], sz[i], st[j], sz[j])
  BY Zenon DEF BlocksOK
<1>3. /\ \A b, c \in DOMAIN al : b # c => Apart(b, al[b], c, al[c])
      /\ \A b \in DOMAIN al, i \in Node : sz[i] # 0 => Apart(b, al[b], st[i], sz[i])
  BY Zenon DEF BlocksOK
<1>4. a \in Nat \ {0} /\ sz[n] \in Nat \ {0} /\ a + sz[n] <= V + 1 /\ V \in Nat
  BY <1>1, Sizes
<1>5. a \notin DOMAIN al
  BY <1>1, <1>3, <1>4 DEF Apart
<1>6. \A i \in Node : (sz2[i] = 0 <=> st2[i] = 0) /\ st2[i] + sz2[i] <= V + 1
  BY <1>1, <1>4
<1>7. ASSUME NEW i \in Node, NEW j \in Node, i # j, sz2[i] # 0, sz2[j] # 0
      PROVE  Apart(st2[i], sz2[i], st2[j], sz2[j])
  <2>1. CASE i # n /\ j # n
    BY <1>2, <1>7, <2>1
  <2>2. CASE i = n
    <3>1. Apart(st[n], sz[n], st[j], sz[j]) /\ st2[j] = st[j] /\ sz2[j] = sz[j]
      BY <1>2, <1>4, <1>7, <2>2
    <3> QED BY <1>1, <1>4, <1>7, <2>2, <3>1 DEF Apart
  <2>3. CASE j = n
    <3>1. Apart(st[i], sz[i], st[n], sz[n]) /\ st2[i] = st[i] /\ sz2[i] = sz[i]
      BY <1>2, <1>4, <1>7, <2>3
    <3> QED BY <1>1, <1>4, <1>7, <2>3, <3>1 DEF Apart
  <2> QED BY <2>1, <2>2, <2>3
<1>8. \A b \in DOMAIN al2 : b \in Nat \ {0} /\ al2[b] \in Nat \ {0} /\ b + al2[b] <= V + 1
  BY <1>1, <1>4
<1>9. ASSUME NEW b \in DOMAIN al2, NEW c \in DOMAIN al2, b # c PROVE Apart(b, al2[b], c, al2[c])
  <2>1. CASE b # a /\ c # a
    BY <1>3, <1>9, <2>1
  <2>2. CASE b = a
    <3>1. c \in DOMAIN al /\ Apart(c, al[c], a, sz[n]) /\ al2[c] = al[c] /\ al2[b] = k
      BY <1>3, <1>4, <1>9, <2>2
    <3> QED BY <1>1, <1>4, <2>2, <3>1 DEF Apart
  <2>3. CASE c = a
    <3>1. b \in DOMAIN al /\ Apart(b, al[b], a, sz[n]) /\ al2[b] = al[b] /\ al2[c] = k
      BY <1>3, <1>4, <1>9, <2>3
    <3> QED BY <1>1, <1>4, <2>3, <3>1 DEF Apart
  <2> QED BY <2>1, <2>2, <2>3
<1>10. ASSUME NEW b \in DOMAIN al2, NEW i \in Node, sz2[i] # 0
       PROVE  Apart(b, al2[b], st2[i], sz2[i])
  <2>1. CASE b # a /\ i # n
    BY <1>3, <1>10, <2>1
  <2>2. CASE b # a /\ i = n
    <3>1. b \in DOMAIN al /\ Apart(b, al[b], a, sz[n]) /\ al2[b] = al[b]
      BY <1>3, <1>4, <2>2
    <3> QED BY <1>1, <1>4, <1>10, <2>2, <3>1 DEF Apart
  <2>3. CASE b = a /\ i # n
    <3>1. Apart(st[n], sz[n], st[i], sz[i]) /\ st2[i] = st[i] /\ sz2[i] = sz[i] /\ al2[b] = k
      BY <1>2, <1>4, <1>10, <2>3
    <3> QED BY <1>1, <1>4, <2>3, <3>1 DEF Apart
  <2>4. CASE b = a /\ i = n
    BY <1>4, <1>10, <2>4 DEF Apart
  <2> QED BY <2>1, <2>2, <2>3, <2>4
<1>11. ASSUME NEW p \in 1..V PROVE Covered(st2, sz2, al2, p)
  <2>1. Covered(st, sz, al, p)
    BY Zenon DEF BlocksOK
  <2>2. ASSUME NEW i \in Node, st[i] <= p, p < st[i] + sz[i] PROVE Covered(st2, sz2, al2, p)
    <3>1. CASE i # n
      BY <2>2, <3>1 DEF Covered
    <3>2. CASE i = n /\ p < a + k
      <4>1. a \in DOMAIN al2 /\ a <= p /\ p < a + al2[a]
        BY <2>2, <3>2
      <4> QED BY <4>1, Zenon DEF Covered
    <3>3. CASE i = n /\ ~(p < a + k)
      <4>1. st2[n] <= p /\ p < st2[n] + sz2[n]
        BY <1>4, <2>2, <3>3
      <4> QED BY <4>1, Zenon DEF Covered
    <3> QED BY <3>1, <3>2, <3>3, Zenon
  <2>3. ASSUME NEW b \in DOMAIN al, b <= p, p < b + al[b] PROVE Covered(st2, sz2, al2, p)
    <3>1. b \in DOMAIN al2 /\ al2[b] = al[b]
      BY <1>5, <2>3
    <3> QED BY <2>3, <3>1 DEF Covered
  <2> QED BY <2>1, <2>2, <2>3, Zenon DEF Covered
<1> QED BY <1>5, <1>6, <1>7, <1>8, <1>9, <1>10, <1>11, Zenon DEF BlocksOK

(* Node m takes in the allocated block at a, which borders on its own.     *)
Gives(st, sz, al, m, a, st2, sz2, al2) ==
    /\ st2 \in [Node -> Nat] /\ sz2 \in [Node -> Nat]
    /\ \A i \in Node \ {m} : st2[i] = st[i] /\ sz2[i] = sz[i]
    /\ sz2[m] = sz[m] + al[a]
    /\ \/ a = st[m] + sz[m] /\ st2[m] = st[m]
       \/ a + al[a] = st[m] /\ st2[m] = a
    /\ DOMAIN al2 = DOMAIN al \ {a}
    /\ \A b \in DOMAIN al2 : al2[b] = al[b]

(* vmm_free adds a block to the free one of node m that it borders.        *)
LEMMA GiveBlock ==
    ASSUME NEW st, NEW sz, NEW al, NEW st2, NEW sz2, NEW al2, BlocksOK(st, sz, al),
           NEW m \in Node, NEW a \in DOMAIN al, Gives(st, sz, al, m, a, st2, sz2, al2)
    PROVE  BlocksOK(st2, sz2, al2) /\ sz[m] # 0
<1> USE DEF Gives
<1>1. /\ st \in [Node -> Nat] /\ sz \in [Node -> Nat]
      /\ \A i \in Node : (sz[i] = 0 <=> st[i] = 0) /\ st[i] + sz[i] <= V + 1
      /\ \A b \in DOMAIN al : b \in Nat \ {0} /\ al[b] \in Nat \ {0} /\ b + al[b] <= V + 1
  BY Zenon DEF BlocksOK
<1>2. \A i, j \in Node : i # j /\ sz[i] # 0 /\ sz[j] # 0 => Apart(st[i], sz[i], st[j], sz[j])
  BY Zenon DEF BlocksOK
<1>3. /\ \A b, c \in DOMAIN al : b # c => Apart(b, al[b], c, al[c])
      /\ \A b \in DOMAIN al, i \in Node : sz[i] # 0 => Apart(b, al[b], st[i], sz[i])
  BY Zenon DEF BlocksOK
<1>4. sz[m] \in Nat \ {0} /\ st[m] \in Nat \ {0} /\ V \in Nat
  <2>1. /\ sz[m] \in Nat /\ st[m] \in Nat /\ (sz[m] = 0 <=> st[m] = 0)
        /\ a \in Nat \ {0} /\ al[a] \in Nat \ {0}
    BY <1>1, Zenon
  <2>2. a = st[m] + sz[m] \/ a + al[a] = st[m]
    BY Zenon DEF Gives
  <2>3. sz[m] # 0 /\ st[m] # 0
    <3> HIDE DEF Gives
    <3> QED BY <2>1, <2>2, SMTT(30)
  <2> QED BY <2>1, <2>3, Sizes, Zenon
<1>5. \A i \in Node : (sz2[i] = 0 <=> st2[i] = 0) /\ st2[i] + sz2[i] <= V + 1
  BY <1>1, <1>4
<1>6. ASSUME NEW j \in Node, j # m, sz2[j] # 0
      PROVE  Apart(st2[m], sz2[m], st2[j], sz2[j]) /\ Apart(st2[j], sz2[j], st2[m], sz2[m])
  <2>1. /\ Apart(st[m], sz[m], st[j], sz[j]) /\ Apart(a, al[a], st[j], sz[j])
        /\ st2[j] = st[j] /\ sz2[j] = sz[j] /\ sz[j] # 0
    BY <1>2, <1>3, <1>4, <1>6
  <2> QED BY <1>1, <1>4, <2>1 DEF Apart
<1>7. ASSUME NEW i \in Node, NEW j \in Node, i # j, sz2[i] # 0, sz2[j] # 0
      PROVE  Apart(st2[i], sz2[i], st2[j], sz2[j])
  <2>1. CASE i # m /\ j # m
    BY <1>2, <1>7, <2>1
  <2> QED BY <1>6, <1>7, <2>1, Zenon
<1>8. \A b \in DOMAIN al2 : b \in Nat \ {0} /\ al2[b] \in Nat \ {0} /\ b + al2[b] <= V + 1
  BY <1>1
<1>9. \A b, c \in DOMAIN al2 : b # c => Apart(b, al2[b], c, al2[c])
  BY <1>3
<1>10. ASSUME NEW b \in DOMAIN al2, NEW i \in Node, sz2[i] # 0
       PROVE  Apart(b, al2[b], st2[i], sz2[i])
  <2>1. CASE i # m
    BY <1>3, <1>10, <2>1
  <2>2. CASE i = m
    <3>1. /\ b \in DOMAIN al /\ al2[b] = al[b] /\ Apart(b, al[b], st[m], sz[m])
          /\ Apart(b, al[b], a, al[a])
      BY <1>3, <1>4, <1>10
    <3> QED BY <1>1, <1>4, <2>2, <3>1 DEF Apart
  <2> QED BY <2>1, <2>2
<1>11. ASSUME NEW p \in 1..V PROVE Covered(st2, sz2, al2, p)
  <2>1. Covered(st, sz, al, p)
    BY Zenon DEF BlocksOK
  <2>2. ASSUME NEW i \in Node, st[i] <= p, p < st[i] + sz[i] PROVE Covered(st2, sz2, al2, p)
    <3>1. st2[i] <= p /\ p < st2[i] + sz2[i]
      BY <1>1, <2>2
    <3> QED BY <3>1, Zenon DEF Covered
  <2>3. ASSUME NEW b \in DOMAIN al, b <= p, p < b + al[b] PROVE Covered(st2, sz2, al2, p)
    <3>1. CASE b = a
      <4>1. st2[m] <= p /\ p < st2[m] + sz2[m]
        BY <1>1, <2>3, <3>1
      <4> QED BY <4>1, Zenon DEF Covered
    <3>2. CASE b # a
      <4>1. b \in DOMAIN al2 /\ al2[b] = al[b]
        BY <2>3, <3>2
      <4> QED BY <2>3, <4>1 DEF Covered
    <3> QED BY <3>1, <3>2
  <2> QED BY <2>1, <2>2, <2>3, Zenon DEF Covered
<1> QED BY <1>4, <1>5, <1>7, <1>8, <1>9, <1>10, <1>11, Zenon DEF BlocksOK

(* Node o takes in the block of node m, which borders on its own.          *)
Joins(st, sz, m, o, st2, sz2) ==
    /\ st2 \in [Node -> Nat] /\ sz2 \in [Node -> Nat]
    /\ m # o /\ sz[m] # 0
    /\ \A i \in Node \ {m, o} : st2[i] = st[i] /\ sz2[i] = sz[i]
    /\ st2[m] = 0 /\ sz2[m] = 0
    /\ sz2[o] = sz[o] + sz[m]
    /\ \/ st[m] = st[o] + sz[o] /\ st2[o] = st[o]
       \/ st[m] + sz[m] = st[o] /\ st2[o] = st[m]

(* The block of node o is joined to that of node m, which it borders.      *)
LEMMA JoinBlocks ==
    ASSUME NEW st, NEW sz, NEW al, NEW st2, NEW sz2, BlocksOK(st, sz, al),
           NEW m \in Node, NEW o \in Node, Joins(st, sz, m, o, st2, sz2)
    PROVE  BlocksOK(st2, sz2, al) /\ sz[o] # 0
<1> USE DEF Joins
<1>1. /\ st \in [Node -> Nat] /\ sz \in [Node -> Nat]
      /\ \A i \in Node : (sz[i] = 0 <=> st[i] = 0) /\ st[i] + sz[i] <= V + 1
      /\ \A b \in DOMAIN al : b \in Nat \ {0} /\ al[b] \in Nat \ {0} /\ b + al[b] <= V + 1
  BY Zenon DEF BlocksOK
<1>2. \A i, j \in Node : i # j /\ sz[i] # 0 /\ sz[j] # 0 => Apart(st[i], sz[i], st[j], sz[j])
  BY Zenon DEF BlocksOK
<1>3. /\ \A b, c \in DOMAIN al : b # c => Apart(b, al[b], c, al[c])
      /\ \A b \in DOMAIN al, i \in Node : sz[i] # 0 => Apart(b, al[b], st[i], sz[i])
  BY Zenon DEF BlocksOK
<1>4. /\ sz[m] \in Nat \ {0} /\ st[m] \in Nat \ {0} /\ V \in Nat
      /\ sz[o] \in Nat \ {0} /\ st[o] \in Nat \ {0}
  <2>1. /\ sz[m] \in Nat /\ st[m] \in Nat /\ (sz[m] = 0 <=> st[m] = 0)
        /\ sz[o] \in Nat /\ st[o] \in Nat /\ (sz[o] = 0 <=> st[o] = 0)
    BY <1>1, Zenon
  <2>2. sz[m] # 0 /\ (st[m] = st[o] + sz[o] \/ st[m] + sz[m] = st[o])
    BY Zenon DEF Joins
  <2> HIDE DEF Joins
  <2>3. sz[o] # 0 /\ st[o] # 0 /\ st[m] # 0
    BY <2>1, <2>2, SMTT(30)
  <2> QED BY <2>1, <2>2, <2>3, Sizes, Zenon
<1>5. \A i \in Node : (sz2[i] = 0 <=> st2[i] = 0) /\ st2[i] + sz2[i] <= V + 1
  BY <1>1, <1>4
<1>6. ASSUME NEW j \in Node, j # o, sz2[j] # 0
      PROVE  Apart(st2[o], sz2[o], st2[j], sz2[j]) /\ Apart(st2[j], sz2[j], st2[o], sz2[o])
  <2>1. /\ Apart(st[m], sz[m], st[j], sz[j]) /\ Apart(st[o], sz[o], st[j], sz[j])
        /\ st2[j] = st[j] /\ sz2[j] = sz[j] /\ sz[j] # 0
    BY <1>2, <1>4, <1>6
  <2> QED BY <1>1, <1>4, <2>1 DEF Apart
<1>7. ASSUME NEW i \in Node, NEW j \in Node, i # j, sz2[i] # 0, sz2[j] # 0
      PROVE  Apart(st2[i], sz2[i], st2[j], sz2[j])
  <2>1. CASE i # o /\ j # o
    BY <1>2, <1>7, <2>1
  <2> QED BY <1>6, <1>7, <2>1, Zenon
<1>8. ASSUME NEW b \in DOMAIN al, NEW i \in Node, sz2[i] # 0
      PROVE  Apart(b, al[b], st2[i], sz2[i])
  <2>1. CASE i # o
    BY <1>3, <1>8, <2>1
  <2>2. CASE i = o
    <3>1. Apart(b, al[b], st[m], sz[m]) /\ Apart(b, al[b], st[o], sz[o])
      BY <1>3, <1>4
    <3> QED BY <1>1, <1>4, <2>2, <3>1 DEF Apart
  <2> QED BY <2>1, <2>2
<1>9. ASSUME NEW p \in 1..V PROVE Covered(st2, sz2, al, p)
  <2>1. Covered(st, sz, al, p)
    BY Zenon DEF BlocksOK
  <2>2. ASSUME NEW i \in Node, st[i] <= p, p < st[i] + sz[i] PROVE Covered(st2, sz2, al, p)
    <3>1. CASE i # m
      <4>1. st2[i] <= p /\ p < st2[i] + sz2[i]
        BY <1>1, <2>2, <3>1
      <4> QED BY <4>1, Zenon DEF Covered
    <3>2. CASE i = m
      <4>1. st2[o] <= p /\ p < st2[o] + sz2[o]
        BY <1>1, <2>2, <3>2
      <4> QED BY <4>1, Zenon DEF Covered
    <3> QED BY <3>1, <3>2
  <2> QED BY <2>1, <2>2, Zenon DEF Covered
<1> QED BY <1>1, <1>3, <1>4, <1>5, <1>7, <1>8, <1>9, Zenon DEF BlocksOK

(* The empty node n takes over the allocated block at a.                   *)
Puts(st, sz, al, n, a, st2, sz2, al2) ==
    /\ st2 = [st EXCEPT ![n] = a] /\ sz2 = [sz EXCEPT ![n] = al[a]]
    /\ DOMAIN al2 = DOMAIN al \ {a}
    /\ \A b \in DOMAIN al2 : al2[b] = al[b]

(* vmm_free puts a block in a node that has none.                          *)
LEMMA PutBlock ==
    ASSUME NEW st, NEW sz, NEW al, NEW st2, NEW sz2, NEW al2, BlocksOK(st, sz, al),
           NEW n \in Node, sz[n] = 0, NEW a \in DOMAIN al, Puts(st, sz, al, n, a, st2, sz2, al2)
    PROVE  BlocksOK(st2, sz2, al2)
<1>1. /\ st \in [Node -> Nat] /\ sz \in [Node -> Nat]
      /\ \A i \in Node : (sz[i] = 0 <=> st[i] = 0) /\ st[i] + sz[i] <= V + 1
      /\ \A b \in DOMAIN al : b \in Nat \ {0} /\ al[b] \in Nat \ {0} /\ b + al[b] <= V + 1
  BY Zenon DEF BlocksOK
<1>2. \A i, j \in Node : i # j /\ sz[i] # 0 /\ sz[j] # 0 => Apart(st[i], sz[i], st[j], sz[j])
  BY Zenon DEF BlocksOK
<1>3. /\ \A b, c \in DOMAIN al : b # c => Apart(b, al[b], c, al[c])
      /\ \A b \in DOMAIN al, i \in Node : sz[i] # 0 => Apart(b, al[b], st[i], sz[i])
  BY Zenon DEF BlocksOK
<1>4. /\ st2 \in [Node -> Nat] /\ sz2 \in [Node -> Nat]
      /\ \A i \in Node \ {n} : st2[i] = st[i] /\ sz2[i] = sz[i]
      /\ st2[n] = a /\ sz2[n] = al[a]
      /\ DOMAIN al2 = DOMAIN al \ {a} /\ \A b \in DOMAIN al2 : al2[b] = al[b]
  BY <1>1 DEF Puts
<1>5. \A i \in Node : (sz2[i] = 0 <=> st2[i] = 0) /\ st2[i] + sz2[i] <= V + 1
  BY <1>1, <1>4
<1>6. ASSUME NEW j \in Node, j # n, sz2[j] # 0
      PROVE  Apart(st2[n], sz2[n], st2[j], sz2[j]) /\ Apart(st2[j], sz2[j], st2[n], sz2[n])
  <2>1. Apart(a, al[a], st[j], sz[j])
    BY <1>3, <1>4, <1>6
  <2> QED BY <1>4, <1>6, <2>1, Zenon DEF Apart
<1>7. ASSUME NEW i \in Node, NEW j \in Node, i # j, sz2[i] # 0, sz2[j] # 0
      PROVE  Apart(st2[i], sz2[i], st2[j], sz2[j])
  <2>1. CASE i # n /\ j # n
    BY <1>2, <1>4, <1>7, <2>1
  <2> QED BY <1>6, <1>7, <2>1, Zenon
<1>8. \A b \in DOMAIN al2 : b \in Nat \ {0} /\ al2[b] \in Nat \ {0} /\ b + al2[b] <= V + 1
  BY <1>1, <1>4
<1>9. \A b, c \in DOMAIN al2 : b # c => Apart(b, al2[b], c, al2[c])
  BY <1>3, <1>4
<1>10. ASSUME NEW b \in DOMAIN al2, NEW i \in Node, sz2[i] # 0
       PROVE  Apart(b, al2[b], st2[i], sz2[i])
  BY <1>3, <1>4, <1>10
<1>11. ASSUME NEW p \in 1..V PROVE Covered(st2, sz2, al2, p)
  <2>1. Covered(st, sz, al, p)
    BY Zenon DEF BlocksOK
  <2>2. ASSUME NEW i \in Node, st[i] <= p, p < st[i] + sz[i] PROVE Covered(st2, sz2, al2, p)
    <3>1. i # n
      BY <1>1, <2>2
    <3> QED BY <1>4, <2>2, <3>1 DEF Covered
  <2>3. ASSUME NEW b \in DOMAIN al, b <= p, p < b + al[b] PROVE Covered(st2, sz2, al2, p)
    <3>1. CASE b = a
      BY <1>4, <2>3, <3>1 DEF Covered
    <3>2. CASE b # a
      <4>1. b \in DOMAIN al2 /\ al2[b] = al[b]
        BY <1>4, <2>3, <3>2
      <4> QED BY <2>3, <4>1 DEF Covered
    <3> QED BY <3>1, <3>2
  <2> QED BY <2>1, <2>2, <2>3, Zenon DEF Covered
<1> QED BY <1>4, <1>5, <1>7, <1>8, <1>9, <1>10, <1>11, Zenon DEF BlocksOK
-----------------------------------------------------------------------------

(* Following next from vmm_head leads through the r nodes of h, all        *)
(* different and not beyond top, and ends; a node points back to the one   *)
(* before it or to none.                                                   *)
Chain(nx, pv, hd, top, r, h) ==
    /\ r \in Nat /\ h \in [1..r -> 1..top]
    /\ \A i, j \in 1..r : h[i] = h[j] => i = j
    /\ hd = IF r = 0 THEN NULL ELSE h[1]
    /\ \A i \in 1..r : nx[h[i]] = IF i = r THEN NULL ELSE h[i + 1]
    /\ \A i \in 1..r : pv[h[i]] = NULL \/ (i > 1 /\ pv[h[i]] = h[i - 1])

Links == [Node -> Node \cup {NULL}]

(* The nodes of the first p pages.                                         *)
LEMMA PageNodes ==
    ASSUME NEW p \in 1..MaxPages
    PROVE  /\ K * p \in Nat /\ K * p >= 2 /\ 1..(K * p) \subseteq Node /\ K * (p + 1) = K * p + K
           /\ K * MaxPages \in Nat /\ K * p <= K * MaxPages
           /\ p < MaxPages => K * p + K <= K * MaxPages
<1>1. K * p \in Nat /\ K * MaxPages \in Nat /\ K * (p + 1) = K * p + K /\ K * p >= K
  BY Sizes
<1>2. K * p <= K * MaxPages
  BY Sizes
<1>3. p < MaxPages => K * (p + 1) <= K * MaxPages
  BY Sizes
<1> QED BY <1>1, <1>2, <1>3, Sizes DEF Node

(* vmm_list_remove_node takes n out: what n points back to, if anything,   *)
(* is linked to its successor; otherwise the list begins behind n.         *)
Skips(nx, pv, hd, n, nx1, pv1, hd1) ==
    /\ nx1 \in Links /\ pv1 \in Links
    /\ \A x \in Node \ {n} : nx1[x] = IF x = pv[n] THEN nx[n] ELSE nx[x]
    /\ \A x \in Node \ {n} : pv1[x] = IF x = nx[n] THEN pv[n] ELSE pv[x]
    /\ hd1 = IF pv[n] # NULL THEN hd ELSE nx[n]

(* A chain of nodes other than n.                                          *)
ChainWithout(nx, pv, hd, top, n) ==
    \E s, g : Chain(nx, pv, hd, top, s, g) /\ \A i \in 1..s : g[i] # n

SkipsAt(nx, pv, hd, top, r, h, j, nx1, pv1, hd1) ==
    /\ Chain(nx, pv, hd, top, r, h) /\ j \in 1..r
    /\ Skips(nx, pv, hd, h[j], nx1, pv1, hd1)

(* Unlinking the j-th node leaves a chain without it.                      *)
LEMMA ChainSkip ==
    ASSUME NEW nx, NEW pv, NEW hd, NEW top \in Nat, NEW r, NEW h, NEW j, NEW nx1, NEW pv1, NEW hd1,
           1..top \subseteq Node, SkipsAt(nx, pv, hd, top, r, h, j, nx1, pv1, hd1)
    PROVE  ChainWithout(nx1, pv1, hd1, top, h[j])
<1> SUFFICES ASSUME Chain(nx, pv, hd, top, r, h), j \in 1..r,
                    Skips(nx, pv, hd, h[j], nx1, pv1, hd1)
             PROVE  \E s, g : Chain(nx1, pv1, hd1, top, s, g) /\ \A i \in 1..s : g[i] # h[j]
  BY Zenon DEF ChainWithout, SkipsAt
<1> DEFINE n == h[j]
<1>1. /\ r \in Nat /\ h \in [1..r -> 1..top] /\ \A i \in 1..r : h[i] \in Node /\ h[i] # NULL
      /\ \A i, k \in 1..r : h[i] = h[k] => i = k
      /\ hd = IF r = 0 THEN NULL ELSE h[1]
      /\ \A i \in 1..r : nx[h[i]] = IF i = r THEN NULL ELSE h[i + 1]
      /\ \A i \in 1..r : pv[h[i]] = NULL \/ (i > 1 /\ pv[h[i]] = h[i - 1])
  BY DEF Chain, NULL
<1>2. /\ \A x \in Node \ {n} : nx1[x] = IF x = pv[n] THEN nx[n] ELSE nx[x]
      /\ \A x \in Node \ {n} : pv1[x] = IF x = nx[n] THEN pv[n] ELSE pv[x]
      /\ hd1 = IF pv[n] # NULL THEN hd ELSE nx[n]
  BY Zenon DEF Skips
<1>3. CASE pv[n] = NULL
  <2> DEFINE s == r - j
             g == [i \in 1..s |-> h[i + j]]
  <2>1. s \in Nat /\ (\A i \in 1..s : i + j \in 1..r /\ i + j # j /\ g[i] = h[i + j])
    BY <1>1
  <2>2. g \in [1..s -> 1..top] /\ (\A i \in 1..s : g[i] \in Node \ {n})
    BY <1>1, <2>1
  <2>3. \A i, k \in 1..s : g[i] = g[k] => i = k
    BY <1>1, <2>1
  <2>4. hd1 = IF s = 0 THEN NULL ELSE g[1]
    BY <1>1, <1>2, <1>3, <2>1
  <2>5. ASSUME NEW i \in 1..s PROVE nx1[g[i]] = IF i = s THEN NULL ELSE g[i + 1]
    <3>1. nx1[g[i]] = nx[g[i]] 
      BY <1>2, <1>3, <2>2 DEF NULL, Node
    <3>2. nx[h[i + j]] = IF i + j = r THEN NULL ELSE h[i + j + 1]
      BY <1>1, <2>1
    <3>3. i # s => i + 1 \in 1..s /\ g[i + 1] = h[i + 1 + j] /\ i + 1 + j = i + j + 1
      BY <2>1
    <3>4. g[i] = h[i + j] /\ (i = s <=> i + j = r)
      BY <1>1, <2>1
    <3> QED BY <3>1, <3>2, <3>3, <3>4
  <2>6. ASSUME NEW i \in 1..s PROVE pv1[g[i]] = NULL \/ (i > 1 /\ pv1[g[i]] = g[i - 1])
    <3>1. g[i] = h[i + j] /\ i + j \in 1..r /\ nx[n] = h[j + 1]
      BY <1>1, <2>1
    <3>2. CASE i = 1
      <4>1. g[i] = nx[n]
        BY <3>1, <3>2
      <4> QED BY <1>2, <1>3, <2>2, <4>1, Zenon
    <3>3. CASE i # 1
      <4>1. j + 1 \in 1..r /\ i + j # j + 1 /\ i - 1 \in 1..s /\ i > 1 /\ i + j - 1 = i - 1 + j
        BY <1>1, <3>3
      <4>2. g[i] # nx[n]
        BY <1>1, <3>1, <4>1, ZenonT(60)
      <4>3. pv1[g[i]] = pv[h[i + j]]
        BY <1>2, <2>2, <3>1, <4>2, Zenon
      <4>4. g[i - 1] = h[i + j - 1]
        BY <2>1, <4>1
      <4> QED BY <1>1, <3>1, <4>1, <4>3, <4>4
    <3> QED BY <3>2, <3>3
  <2> HIDE DEF s, g
  <2>7. Chain(nx1, pv1, hd1, top, s, g)
    BY <2>1, <2>2, <2>3, <2>4, <2>5, <2>6, Zenon DEF Chain
  <2> QED BY <2>2, <2>7, Zenon
<1>4. CASE pv[n] # NULL
  <2> DEFINE s == r - 1
             g == [i \in 1..s |-> IF i < j THEN h[i] ELSE h[i + 1]]
  <2>1. /\ s \in Nat /\ j > 1 /\ pv[n] = h[j - 1] /\ j - 1 \in 1..r
        /\ \A i \in 1..s : i \in 1..r /\ i + 1 \in 1..r
    BY <1>1, <1>4
  <2>2. /\ \A i \in 1..s : i < j => g[i] = h[i] /\ i # j
        /\ \A i \in 1..s : ~(i < j) => g[i] = h[i + 1] /\ i + 1 # j
    BY <2>1
  <2>3. g \in [1..s -> 1..top] /\ (\A i \in 1..s : g[i] \in Node \ {n})
    BY <1>1, <2>1, <2>2, SMTT(30)
  <2>4. ASSUME NEW i \in 1..s, NEW k \in 1..s, g[i] = g[k] PROVE i = k
    <3> DEFINE x == IF i < j THEN i ELSE i + 1
               y == IF k < j THEN k ELSE k + 1
    <3>1. x \in 1..r /\ y \in 1..r /\ g[i] = h[x] /\ g[k] = h[y]
      BY <2>1, <2>2
    <3>2. x = y
      BY <1>1, <2>4, <3>1, Zenon
    <3> QED BY <3>2
  <2>5. hd1 = IF s = 0 THEN NULL ELSE g[1]
    BY <1>1, <1>2, <1>4, <2>1, <2>2
  <2>6. ASSUME NEW i \in 1..s PROVE nx1[g[i]] = IF i = s THEN NULL ELSE g[i + 1]
    <3>1. CASE i = j - 1
      <4>1. g[i] = pv[n]
        BY <2>1, <2>2, <3>1
      <4>2. nx1[g[i]] = IF j = r THEN NULL ELSE h[j + 1]
        BY <1>1, <1>2, <2>3, <4>1, ZenonT(60)
      <4>3. i # s => g[i + 1] = h[j + 1]
        BY <2>1, <2>2, <3>1
      <4> QED BY <1>1, <3>1, <4>2, <4>3
    <3>2. CASE i < j - 1
      <4>1. i < j /\ i + 1 < j /\ i # s /\ i + 1 \in 1..s /\ i # r
        BY <1>1, <2>1, <3>2
      <4>2. g[i] = h[i] /\ g[i + 1] = h[i + 1] /\ g[i] # h[j - 1]
        BY <1>1, <2>1, <2>2, <3>2, <4>1
      <4> QED BY <1>1, <1>2, <2>1, <2>3, <4>1, <4>2, Zenon
    <3>3. CASE i > j - 1
      <4>1. ~(i < j) /\ ~(i + 1 < j) /\ i + 1 # j - 1 /\ (i # s => i + 1 \in 1..s)
        BY <1>1, <2>1, <3>3
      <4>2. g[i] = h[i + 1] /\ g[i] # h[j - 1] /\ (i # s => g[i + 1] = h[i + 1 + 1])
        BY <1>1, <2>1, <2>2, <4>1, Zenon
      <4>3. nx1[g[i]] = nx[h[i + 1]]
        BY <1>2, <2>1, <2>3, <4>2
      <4>4. nx[h[i + 1]] = IF i + 1 = r THEN NULL ELSE h[i + 1 + 1]
        BY <1>1, <2>1, SMTT(30)
      <4>5. i = s <=> i + 1 = r
        BY <1>1
      <4> QED BY <4>2, <4>3, <4>4, <4>5, Zenon
    <3> QED BY <2>1, <3>1, <3>2, <3>3
  <2>7. ASSUME NEW i \in 1..s PROVE pv1[g[i]] = NULL \/ (i > 1 /\ pv1[g[i]] = g[i - 1])
    <3>1. CASE i = j
      <4>1. g[i] = h[j + 1] /\ j # r /\ nx[n] = h[j + 1] /\ i - 1 < j /\ i - 1 \in 1..s
        BY <1>1, <2>1, <2>2, <3>1
      <4>2. pv1[g[i]] = pv[n] /\ g[i - 1] = h[j - 1]
        BY <1>2, <2>2, <2>3, <3>1, <4>1
      <4> QED BY <2>1, <3>1, <4>2
    <3>2. CASE i < j
      <4>1. g[i] = h[i] /\ (i > 1 => i - 1 \in 1..s /\ g[i - 1] = h[i - 1])
        BY <2>1, <2>2, <3>2
      <4>2. g[i] # nx[n]
        BY <1>1, <2>1, <3>2, <4>1
      <4>3. pv1[g[i]] = pv[h[i]]
        BY <1>2, <2>3, <4>1, <4>2, Zenon
      <4> QED BY <1>1, <2>1, <4>1, <4>3
    <3>3. CASE i > j
      <4>1. g[i] = h[i + 1] /\ i - 1 \in 1..s /\ g[i - 1] = h[i] /\ i + 1 \in 1..r /\ i > 1
        BY <2>1, <2>2, <3>3
      <4>2. g[i] # nx[n]
        BY <1>1, <2>1, <3>3, <4>1
      <4>3. pv1[g[i]] = pv[h[i + 1]]
        BY <1>2, <2>3, <4>1, <4>2, Zenon
      <4> QED BY <1>1, <4>1, <4>3
    <3> QED BY <3>1, <3>2, <3>3
  <2> HIDE DEF s, g
  <2>8. Chain(nx1, pv1, hd1, top, s, g)
    BY <2>1, <2>3, <2>4, <2>5, <2>6, <2>7, Zenon DEF Chain
  <2> QED BY <2>3, <2>8, Zenon
<1> QED BY <1>3, <1>4

(* Node n, which is not on the list, is linked behind node t.              *)
Hooks(nx, pv, n, t, nx1, pv1) ==
    /\ nx1 \in Links /\ pv1 \in Links
    /\ \A x \in Node : nx1[x] = IF x = t THEN n ELSE IF x = n THEN NULL ELSE nx[x]
    /\ \A x \in Node : pv1[x] = IF x = n THEN t ELSE pv[x]

(* Hooking a node that is not on the chain behind the tail keeps a chain.  *)
LEMMA ChainHook ==
    ASSUME NEW nx, NEW pv, NEW hd, NEW top \in Nat, NEW r, NEW h,
           1..top \subseteq Node, Chain(nx, pv, hd, top, r, h),
           NEW n \in 1..top, \A i \in 1..r : h[i] # n, NEW t \in Node,
           NEW nx1, NEW pv1, Hooks(nx, pv, n, t, nx1, pv1)
    PROVE  \E s, g : Chain(nx1, pv1, hd, top, s, g)
<1>1. /\ r \in Nat /\ h \in [1..r -> 1..top] /\ \A i \in 1..r : h[i] \in Node /\ h[i] # NULL
      /\ \A i, k \in 1..r : h[i] = h[k] => i = k
      /\ hd = IF r = 0 THEN NULL ELSE h[1]
      /\ \A i \in 1..r : nx[h[i]] = IF i = r THEN NULL ELSE h[i + 1]
      /\ \A i \in 1..r : pv[h[i]] = NULL \/ (i > 1 /\ pv[h[i]] = h[i - 1])
  BY DEF Chain, NULL
<1>2. /\ \A x \in Node : nx1[x] = IF x = t THEN n ELSE IF x = n THEN NULL ELSE nx[x]
      /\ \A x \in Node : pv1[x] = IF x = n THEN t ELSE pv[x]
  BY Zenon DEF Hooks
<1>3. CASE \A i \in 1..r : h[i] # t
  <2>1. \A i \in 1..r : nx1[h[i]] = nx[h[i]] /\ pv1[h[i]] = pv[h[i]]
    BY <1>1, <1>2, <1>3, Zenon
  <2>2. Chain(nx1, pv1, hd, top, r, h)
    BY <1>1, <2>1, Zenon DEF Chain
  <2> QED BY <2>2, Zenon
<1>4. ASSUME NEW j \in 1..r, h[j] = t PROVE \E s, g : Chain(nx1, pv1, hd, top, s, g)
  <2> DEFINE s == j + 1
             g == [i \in 1..s |-> IF i = s THEN n ELSE h[i]]
  <2>1. /\ s \in Nat /\ s # 0 /\ s \in 1..s /\ g[s] = n
        /\ \A i \in 1..s : i # s => i \in 1..r /\ g[i] = h[i]
    BY <1>1
  <2>2. g \in [1..s -> 1..top] /\ (\A i \in 1..s : g[i] \in Node)
    BY <1>1, <2>1
  <2>3. \A i, k \in 1..s : g[i] = g[k] => i = k
    BY <1>1, <2>1
  <2>4. hd = IF s = 0 THEN NULL ELSE g[1]
    BY <1>1, <2>1
  <2>5. ASSUME NEW i \in 1..s PROVE nx1[g[i]] = IF i = s THEN NULL ELSE g[i + 1]
    <3>1. CASE i = s
      <4>1. n # t
        BY <1>4, Zenon
      <4> QED BY <1>2, <2>1, <2>2, <3>1, <4>1, Zenon
    <3>2. CASE i = j
      BY <1>2, <1>4, <2>1, <2>2, <3>2
    <3>3. CASE i < j
      <4>1. i # s /\ i + 1 # s /\ i + 1 \in 1..s /\ i # r /\ i \in 1..r
        BY <1>1, <3>3
      <4>2. g[i] = h[i] /\ g[i + 1] = h[i + 1] /\ h[i] # t /\ h[i] # n
        BY <1>1, <1>4, <2>1, <3>3, <4>1
      <4> QED BY <1>1, <1>2, <2>2, <4>1, <4>2
    <3> QED BY <3>1, <3>2, <3>3
  <2>6. ASSUME NEW i \in 1..s PROVE pv1[g[i]] = NULL \/ (i > 1 /\ pv1[g[i]] = g[i - 1])
    <3>1. CASE i = s
      <4>1. i > 1 /\ g[i - 1] = t
        BY <1>4, <2>1, <3>1
      <4> QED BY <1>2, <2>1, <2>2, <3>1, <4>1
    <3>2. CASE i # s
      <4>1. g[i] = h[i] /\ i \in 1..r /\ h[i] # n /\ (i > 1 => g[i - 1] = h[i - 1])
        BY <2>1, <3>2
      <4> QED BY <1>1, <1>2, <2>2, <4>1, Zenon
    <3> QED BY <3>1, <3>2
  <2> HIDE DEF s, g
  <2>7. Chain(nx1, pv1, hd, top, s, g)
    BY <2>1, <2>2, <2>3, <2>4, <2>5, <2>6, Zenon DEF Chain
  <2> QED BY <2>7, Zenon
<1> QED BY <1>3, <1>4, Zenon
(* vmm_free cuts node n off behind the node it points back to and puts it  *)
(* before the head.                                                        *)
Fronts(nx, pv, hd, n, nx1, pv1) ==
    /\ nx1 \in Links /\ pv1 \in Links
    /\ \A x \in Node : nx1[x] = IF x = n THEN hd ELSE IF x = pv[n] THEN NULL ELSE nx[x]
    /\ \A x \in Node : pv1[x] = IF x = hd THEN n ELSE IF x = n THEN NULL ELSE pv[x]

(* Putting a node in front of the head keeps a chain.                      *)
LEMMA ChainFront ==
    ASSUME NEW nx, NEW pv, NEW hd, NEW top \in Nat, NEW r, NEW h,
           1..top \subseteq Node, Chain(nx, pv, hd, top, r, h), hd # NULL,
           NEW n \in 1..top, pv[n] \in Node, NEW nx1, NEW pv1, Fronts(nx, pv, hd, n, nx1, pv1)
    PROVE  \E s, g : Chain(nx1, pv1, n, top, s, g)
<1>1. /\ r \in Nat /\ h \in [1..r -> 1..top] /\ \A i \in 1..r : h[i] \in Node /\ h[i] # NULL
      /\ \A i, k \in 1..r : h[i] = h[k] => i = k
      /\ r # 0 /\ 1 \in 1..r /\ hd = h[1]
      /\ \A i \in 1..r : nx[h[i]] = IF i = r THEN NULL ELSE h[i + 1]
      /\ \A i \in 1..r : pv[h[i]] = NULL \/ (i > 1 /\ pv[h[i]] = h[i - 1])
  BY DEF Chain, NULL
<1>2. /\ \A x \in Node : nx1[x] = IF x = n THEN hd ELSE IF x = pv[n] THEN NULL ELSE nx[x]
      /\ \A x \in Node : pv1[x] = IF x = hd THEN n ELSE IF x = n THEN NULL ELSE pv[x]
  BY Zenon DEF Fronts
(* The chain up to the node before n, if that is on it.                    *)
<1>3. \E j \in 1..r : /\ \A i \in 1..j : h[i] # n
                      /\ j = r \/ h[j] = pv[n]
                      /\ \A i \in 1..(j - 1) : h[i] # pv[n]
  <2>1. CASE \A i \in 1..r : h[i] # pv[n]
    <3>1. ASSUME NEW i \in 1..r PROVE h[i] # n
      <4>1. CASE i > 1
        <5>1. i - 1 \in 1..r /\ NULL \notin Node
          BY <1>1, <4>1 DEF Node, NULL
        <5>2. h[i - 1] # pv[n]
          BY <2>1, <5>1, Zenon
        <5>3. pv[h[i]] = NULL \/ pv[h[i]] = h[i - 1]
          BY <1>1, Zenon
        <5> QED BY <5>1, <5>2, <5>3, Zenon
      <4>2. CASE ~(i > 1)
        <5>1. NULL \notin Node
          BY DEF Node, NULL
        <5> QED BY <1>1, <4>2, <5>1, Zenon
      <4> QED BY <4>1, <4>2
    <3>2. r \in 1..r /\ 1..(r - 1) \subseteq 1..r
      BY <1>1
    <3> QED BY <2>1, <3>1, <3>2, Zenon
  <2>2. ASSUME NEW j \in 1..r, h[j] = pv[n]
        PROVE  /\ \A i \in 1..j : h[i] # n
               /\ \A i \in 1..(j - 1) : h[i] # pv[n]
    <3>1. ASSUME NEW i \in 1..j, h[i] = n PROVE FALSE
      <4>1. i \in 1..r /\ NULL \notin Node
        BY <1>1 DEF Node, NULL
      <4>2. i > 1 /\ h[j] = h[i - 1]
        BY <1>1, <2>2, <3>1, <4>1
      <4>3. i - 1 \in 1..r /\ j # i - 1
        BY <1>1, <4>2
      <4> QED BY <1>1, <4>2, <4>3, Zenon
    <3>2. \A i \in 1..(j - 1) : i \in 1..r /\ i # j
      BY <1>1
    <3> QED BY <1>1, <2>2, <3>1, <3>2
  <2> QED BY <2>1, <2>2, Zenon
<1>4. PICK j \in 1..r : /\ \A i \in 1..j : h[i] # n
                        /\ j = r \/ h[j] = pv[n]
                        /\ \A i \in 1..(j - 1) : h[i] # pv[n]
  BY <1>3, Zenon
<1> DEFINE s == j + 1
           g == [i \in 1..s |-> IF i = 1 THEN n ELSE h[i - 1]]
<1>5. /\ s \in Nat /\ s # 0 /\ 1 \in 1..s /\ g[1] = n /\ s # 1
      /\ \A i \in 1..s : i # 1 => i - 1 \in 1..j /\ i - 1 \in 1..r /\ g[i] = h[i - 1] /\ h[i - 1] # n
  BY <1>1, <1>4
<1>6. g \in [1..s -> 1..top] /\ (\A i \in 1..s : g[i] \in Node)
  BY <1>1, <1>5
<1>7. ASSUME NEW i \in 1..s, NEW k \in 1..s, g[i] = g[k] PROVE i = k
  <2>1. CASE i # 1 /\ k # 1
    <3>1. i - 1 = k - 1
      BY <1>1, <1>5, <1>7, <2>1, Zenon
    <3> QED BY <3>1
  <2> QED BY <1>5, <1>7, <2>1
<1>8. ASSUME NEW i \in 1..s PROVE nx1[g[i]] = IF i = s THEN NULL ELSE g[i + 1]
  <2>1. CASE i = 1
    <3>1. i + 1 \in 1..s /\ i + 1 # 1 /\ i + 1 - 1 = 1 /\ i # s
      BY <1>5, <2>1
    <3>2. g[i + 1] = h[1]
      BY <1>5, <3>1
    <3> QED BY <1>1, <1>2, <1>5, <1>6, <2>1, <3>1, <3>2, Zenon
  <2>2. CASE i # 1 /\ i = s
    <3>1. g[i] = h[j] /\ g[i] # n
      BY <1>5, <2>2
    <3> QED BY <1>1, <1>2, <1>4, <1>6, <2>2, <3>1
  <2>3. CASE i # 1 /\ i # s
    <3>1. i - 1 \in 1..(j - 1) /\ i + 1 \in 1..s /\ i + 1 # 1 /\ i + 1 - 1 = i - 1 + 1 /\ i - 1 # r
      BY <1>1, <1>5, <2>3
    <3>2. g[i] = h[i - 1] /\ g[i] # n /\ g[i] # pv[n] /\ g[i + 1] = h[i - 1 + 1]
      BY <1>4, <1>5, <2>3, <3>1
    <3>3. nx1[g[i]] = nx[g[i]]
      BY <1>2, <1>6, <3>2, Zenon
    <3>4. nx[h[i - 1]] = h[i - 1 + 1]
      BY <1>1, <1>5, <2>3, <3>1
    <3> QED BY <2>3, <3>2, <3>3, <3>4, Zenon
  <2> QED BY <2>1, <2>2, <2>3
<1>9. ASSUME NEW i \in 1..s PROVE pv1[g[i]] = NULL \/ (i > 1 /\ pv1[g[i]] = g[i - 1])
  <2>1. CASE i = 1
    <3>1. n # hd
      BY <1>1, <1>4
    <3> QED BY <1>2, <1>5, <1>6, <2>1, <3>1, Zenon
  <2>2. CASE i = 2
    <3>1. g[i] = hd /\ g[i - 1] = n /\ i > 1
      BY <1>1, <1>5, <2>2
    <3> QED BY <1>2, <1>6, <3>1, Zenon
  <2>3. CASE i # 1 /\ i # 2
    <3>1. i - 1 \in 1..r /\ i - 1 # 1 /\ i - 1 \in 1..s /\ i > 1
      BY <1>5, <2>3
    <3>2. g[i] = h[i - 1] /\ g[i] # n /\ g[i] # hd /\ g[i - 1] = h[i - 1 - 1]
      BY <1>1, <1>5, <2>3, <3>1, Zenon
    <3> QED BY <1>1, <1>2, <1>6, <3>1, <3>2, Zenon
  <2> QED BY <2>1, <2>2, <2>3
<1> HIDE DEF s, g
<1>10. Chain(nx1, pv1, n, top, s, g)
  BY <1>5, <1>6, <1>7, <1>8, <1>9, Zenon DEF Chain
<1> QED BY <1>10, Zenon

(* A page of nodes behind top is linked up and appended to the last node.  *)
Appends(nx, pv, top, t, nx1, pv1) ==
    /\ \A x \in Node :
          nx1[x] = IF x \in (top + 1)..(top + K) THEN IF x = top + K THEN NULL ELSE x + 1
                   ELSE IF x = t THEN top + 1 ELSE nx[x]
    /\ \A x \in Node :
          pv1[x] = IF x \in (top + 1)..(top + K) THEN IF x = top + 1 THEN NULL ELSE x - 1
                   ELSE pv[x]

(* Linking a new page of nodes behind the last keeps a chain.              *)
LEMMA ChainAppend ==
    ASSUME NEW nx, NEW pv, NEW hd, NEW top \in Nat, NEW r, NEW h,
           1..(top + K) \subseteq Node, Chain(nx, pv, hd, top, r, h), r # 0,
           NEW nx1, NEW pv1, Appends(nx, pv, top, h[r], nx1, pv1)
    PROVE  \E s, g : Chain(nx1, pv1, hd, top + K, s, g)
<1>1. /\ r \in Nat /\ h \in [1..r -> 1..top]
      /\ \A i, k \in 1..r : h[i] = h[k] => i = k
      /\ 1 \in 1..r /\ hd = h[1]
      /\ \A i \in 1..r : nx[h[i]] = IF i = r THEN NULL ELSE h[i + 1]
      /\ \A i \in 1..r : pv[h[i]] = NULL \/ (i > 1 /\ pv[h[i]] = h[i - 1])
  BY DEF Chain, NULL
<1>2. K \in Nat /\ K > 1 /\ top + K \in Nat
  BY Sizes
<1> DEFINE s == r + K
           g == [i \in 1..s |-> IF i <= r THEN h[i] ELSE top + (i - r)]
<1>3. /\ s \in Nat /\ s # 0 /\ 1 \in 1..s
      /\ \A i \in 1..s : i <= r => i \in 1..r /\ g[i] = h[i] /\ g[i] \in 1..top
      /\ \A i \in 1..s : ~(i <= r) => g[i] = top + (i - r) /\ g[i] \in (top + 1)..(top + K)
  BY <1>1, <1>2
<1>4. g \in [1..s -> 1..(top + K)] /\ (\A i \in 1..s : g[i] \in Node)
  <2>1. \A i \in 1..s : g[i] \in 1..(top + K)
    BY <1>2, <1>3
  <2> QED BY <2>1, Zenon
<1>5. ASSUME NEW i \in 1..s, NEW k \in 1..s, g[i] = g[k] PROVE i = k
  <2>1. CASE i <= r /\ k <= r
    BY <1>1, <1>3, <1>5, <2>1, Zenon
  <2>2. CASE ~(i <= r) \/ ~(k <= r)
    BY <1>1, <1>2, <1>3, <1>5, <2>2
  <2> QED BY <2>1, <2>2
<1>6. hd = g[1]
  BY <1>1, <1>3
<1>7. ASSUME NEW i \in 1..s PROVE nx1[g[i]] = IF i = s THEN NULL ELSE g[i + 1]
  <2>1. CASE i < r
    <3>1. /\ i \in 1..r /\ i + 1 \in 1..r /\ i + 1 \in 1..s /\ g[i] = h[i] /\ g[i + 1] = h[i + 1]
          /\ i # s /\ i # r /\ g[i] \notin (top + 1)..(top + K) /\ r \in 1..r
      BY <1>1, <1>2, <1>3, <2>1
    <3>2. g[i] # h[r]
      BY <1>1, <3>1
    <3>3. nx1[g[i]] = nx[g[i]]
      BY <1>4, <3>1, <3>2, Zenon DEF Appends
    <3>4. nx[h[i]] = h[i + 1]
      BY <1>1, <3>1
    <3> QED BY <3>1, <3>3, <3>4, Zenon
  <2>2. CASE i = r
    <3>1. g[i] = h[r] /\ i # s /\ g[i + 1] = top + 1 /\ g[i] \notin (top + 1)..(top + K)
      BY <1>1, <1>2, <1>3, <2>2
    <3> QED BY <1>4, <3>1, Zenon DEF Appends
  <2>3. CASE i > r
    <3>1. g[i] \in (top + 1)..(top + K) /\ (g[i] = top + K <=> i = s)
      BY <1>1, <1>2, <1>3, <2>3
    <3>2. i # s => g[i + 1] = g[i] + 1
      BY <1>1, <1>2, <1>3, <2>3
    <3> QED BY <1>4, <3>1, <3>2, Zenon DEF Appends
  <2> QED BY <1>1, <2>1, <2>2, <2>3
<1>8. ASSUME NEW i \in 1..s PROVE pv1[g[i]] = NULL \/ (i > 1 /\ pv1[g[i]] = g[i - 1])
  <2>1. CASE i <= r
    <3>1. i \in 1..r /\ g[i] = h[i] /\ g[i] \notin (top + 1)..(top + K) /\ (i > 1 => g[i - 1] = h[i - 1])
      BY <1>1, <1>3, <2>1
    <3>2. pv1[g[i]] = pv[g[i]]
      BY <1>4, <3>1, Zenon DEF Appends
    <3> QED BY <1>1, <3>1, <3>2
  <2>2. CASE i > r
    <3>1. g[i] \in (top + 1)..(top + K) /\ g[i] = top + (i - r)
      BY <1>1, <1>3, <2>2
    <3>2. CASE i = r + 1
      <4>1. g[i] = top + 1
        BY <1>1, <3>1, <3>2
      <4> QED BY <1>4, <3>1, <4>1, Zenon DEF Appends
    <3>3. CASE i # r + 1
      <4>1. i - 1 \in 1..s /\ ~(i - 1 <= r) /\ i > 1
        BY <1>1, <1>2, <2>2, <3>3
      <4>2. g[i - 1] = top + (i - 1 - r)
        BY <1>3, <4>1, Zenon
      <4>3. g[i] # top + 1 /\ g[i - 1] = g[i] - 1
        BY <1>1, <2>2, <3>1, <3>3, <4>2
      <4> QED BY <1>4, <3>1, <4>1, <4>3, Zenon DEF Appends
    <3> QED BY <3>2, <3>3
  <2> QED BY <1>1, <2>1, <2>2
<1> HIDE DEF s, g
<1>9. Chain(nx1, pv1, hd, top + K, s, g)
  BY <1>3, <1>4, <1>5, <1>6, <1>7, <1>8, Zenon DEF Chain
<1> QED BY <1>9, Zenon
-----------------------------------------------------------------------------

(* The list as vmm_init leaves it: q leads through every node of the first *)
(* page, from vmm_head to vmm_tail and back, the used ones first.          *)
Shape(nx, pv, hd, tl, sz, q) ==
    /\ q \in [1..K -> 1..K]
    /\ \A i, j \in 1..K : q[i] = q[j] => i = j
    /\ \A n \in 1..K : \E i \in 1..K : q[i] = n
    /\ hd = q[1] /\ tl = q[K]
    /\ \A i \in 1..K : nx[q[i]] = IF i = K THEN NULL ELSE q[i + 1]
    /\ \A i \in 1..K : pv[q[i]] = IF i = 1 THEN NULL ELSE q[i - 1]
    /\ \A i \in 2..K : sz[q[i]] # 0 => sz[q[i - 1]] # 0

(* vmm_list_remove_node, with tail t.                                      *)
Removes(nx, pv, hd, n, t, nx1, pv1, hd1) ==
    /\ nx1 \in Links /\ pv1 \in Links
    /\ \A x \in Node : nx1[x] = IF x = t THEN n ELSE IF x = n THEN NULL
                                ELSE IF x = pv[n] THEN nx[n] ELSE nx[x]
    /\ \A x \in Node : pv1[x] = IF x = n THEN t ELSE IF x = nx[n] THEN pv[n] ELSE pv[x]
    /\ hd1 = IF pv[n] # NULL THEN hd ELSE nx[n]

(* Of the nodes only n changes from used to empty or back.                 *)
SameUse(sz, sz1, n) == \A x \in Node \ {n} : sz1[x] # 0 <=> sz[x] # 0

(* The nodes of the shape are those of the first page.                     *)
LEMMA ShapeFacts ==
    ASSUME NEW nx, NEW pv, NEW hd, NEW tl, NEW sz, NEW q, Shape(nx, pv, hd, tl, sz, q)
    PROVE  /\ \A i \in 1..K : q[i] \in 1..K /\ q[i] \in Node /\ q[i] # NULL
           /\ K \in Nat /\ K > 1 /\ 1 \in 1..K /\ K \in 1..K
<1>1. K \in Nat /\ K > 1 /\ 1 \in 1..K /\ K \in 1..K /\ 1 \in 1..MaxPages /\ K * 1 = K
  BY Sizes
<1>2. 1..K \subseteq Node
  BY <1>1, PageNodes
<1>3. \A i \in 1..K : q[i] \in 1..K
  <2>1. q \in [1..K -> 1..K]
    BY Zenon DEF Shape
  <2> QED BY <2>1
<1> QED BY <1>1, <1>2, <1>3 DEF NULL

(* The node at j, not the tail, goes to the end.                           *)
LEMMA ShapeRemove ==
    ASSUME NEW nx, NEW pv, NEW hd, NEW tl, NEW sz, NEW q, Shape(nx, pv, hd, tl, sz, q),
           NEW j \in 1..(K - 1), NEW nx1, NEW pv1, NEW hd1, NEW sz1,
           Removes(nx, pv, hd, q[j], tl, nx1, pv1, hd1), SameUse(sz, sz1, q[j]), sz1[q[j]] = 0
    PROVE  \E p : Shape(nx1, pv1, hd1, q[j], sz1, p)
<1> DEFINE n == q[j]
           p == [i \in 1..K |-> IF i < j THEN q[i] ELSE IF i < K THEN q[i + 1] ELSE n]
<1>1. /\ \A i \in 1..K : q[i] \in 1..K /\ q[i] \in Node /\ q[i] # NULL
      /\ K \in Nat /\ K > 1 /\ 1 \in 1..K /\ K \in 1..K /\ j \in 1..K /\ j # K
      /\ \A i, k \in 1..K : q[i] = q[k] => i = k
      /\ hd = q[1] /\ tl = q[K]
      /\ \A i \in 1..K : nx[q[i]] = IF i = K THEN NULL ELSE q[i + 1]
      /\ \A i \in 1..K : pv[q[i]] = IF i = 1 THEN NULL ELSE q[i - 1]
  <2>1. /\ \A i \in 1..K : q[i] \in 1..K /\ q[i] \in Node /\ q[i] # NULL
        /\ K \in Nat /\ K > 1 /\ 1 \in 1..K /\ K \in 1..K
    BY ShapeFacts, Zenon
  <2>2. j \in 1..K /\ j # K
    BY <2>1
  <2> QED BY <2>1, <2>2, Zenon DEF Shape
<1>2. /\ \A x \in Node : nx1[x] = IF x = q[K] THEN n ELSE IF x = n THEN NULL
                                  ELSE IF x = pv[n] THEN nx[n] ELSE nx[x]
      /\ \A x \in Node : pv1[x] = IF x = n THEN q[K] ELSE IF x = nx[n] THEN pv[n] ELSE pv[x]
      /\ hd1 = IF pv[n] # NULL THEN hd ELSE nx[n]
      /\ n # q[K]
  BY <1>1, ZenonT(60) DEF Removes
<1>3. nx[n] = q[j + 1] /\ j + 1 \in 1..K /\ pv[n] = (IF j = 1 THEN NULL ELSE q[j - 1])
  BY <1>1
<1>4. /\ \A i \in 1..K : i < j => p[i] = q[i]
      /\ \A i \in 1..K : i >= j /\ i < K => p[i] = q[i + 1] /\ i + 1 \in 1..K
      /\ p[K] = n
  BY <1>1
<1>5. p \in [1..K -> 1..K]
  BY <1>1
<1>6. ASSUME NEW i \in 1..K, NEW k \in 1..K, p[i] = p[k] PROVE i = k
  <2> DEFINE x == IF i < j THEN i ELSE IF i < K THEN i + 1 ELSE j
             y == IF k < j THEN k ELSE IF k < K THEN k + 1 ELSE j
  <2>1. x \in 1..K /\ y \in 1..K /\ p[i] = q[x] /\ p[k] = q[y]
    BY <1>1, <1>4
  <2>2. x = y
    BY <1>1, <1>6, <2>1, ZenonT(60)
  <2> QED BY <1>1, <2>2
<1>7. ASSUME NEW m \in 1..K PROVE \E i \in 1..K : p[i] = m
  <2>1. PICK i \in 1..K : q[i] = m
    BY Zenon DEF Shape
  <2>2. CASE i < j
    BY <1>4, <2>1, <2>2, Zenon
  <2>3. CASE i = j
    BY <1>1, <1>4, <2>1, <2>3, Zenon
  <2>4. CASE i > j
    <3>1. i - 1 \in 1..K /\ p[i - 1] = q[i]
      BY <1>1, <1>4, <2>4, SMTT(30)
    <3> QED BY <2>1, <3>1, Zenon
  <2> QED BY <2>2, <2>3, <2>4
<1>8. hd1 = p[1]
  BY <1>1, <1>2, <1>3, <1>4
<1>9. ASSUME NEW i \in 1..K PROVE nx1[p[i]] = IF i = K THEN NULL ELSE p[i + 1]
  <2>1. CASE i = K
    BY <1>1, <1>2, <1>4, <2>1, ZenonT(60)
  <2>2. CASE i = K - 1
    <3>1. p[i] = q[K] /\ p[i + 1] = n /\ i # K
      BY <1>1, <1>4, <2>2
    <3> QED BY <1>1, <1>2, <3>1, ZenonT(60)
  <2>3. CASE i < K - 1 /\ i = j - 1
    <3>1. i + 1 \in 1..K /\ p[i] = q[j - 1] /\ p[i + 1] = q[j + 1] /\ i # K /\ j - 1 \in 1..K /\ j # 1
      BY <1>1, <1>4, <2>3
    <3>2. p[i] # q[K] /\ p[i] # n /\ p[i] \in Node
      BY <1>1, <2>3, <3>1
    <3> QED BY <1>2, <1>3, <3>1, <3>2, ZenonT(60)
  <2>4. CASE i < K - 1 /\ i < j - 1
    <3>1. /\ i + 1 \in 1..K /\ p[i] = q[i] /\ p[i + 1] = q[i + 1] /\ i # K
          /\ i # j /\ i # j - 1 /\ (j # 1 => j - 1 \in 1..K)
      BY <1>1, <1>4, <2>4
    <3>2. q[i] # q[K] /\ q[i] # n /\ q[i] # pv[n]
      BY <1>1, <1>3, <3>1
    <3>3. nx1[q[i]] = nx[q[i]]
      BY <1>1, <1>2, <3>2, Zenon
    <3> QED BY <1>1, <3>1, <3>3, Zenon
  <2>5. CASE i < K - 1 /\ i >= j
    <3>1. /\ i + 1 \in 1..K /\ i + 1 + 1 \in 1..K /\ p[i] = q[i + 1] /\ p[i + 1] = q[i + 1 + 1] /\ i # K
          /\ i + 1 # j /\ i + 1 # j - 1 /\ i + 1 # K /\ (j # 1 => j - 1 \in 1..K)
      BY <1>1, <1>4, <2>5, SMTT(30)
    <3>2. q[i + 1] # q[K] /\ q[i + 1] # n /\ q[i + 1] # pv[n]
      BY <1>1, <1>3, <3>1
    <3>3. nx1[q[i + 1]] = nx[q[i + 1]]
      BY <1>1, <1>2, <3>1, <3>2, ZenonT(60)
    <3> QED BY <1>1, <3>1, <3>3, Zenon
  <2> QED BY <1>1, <2>1, <2>2, <2>3, <2>4, <2>5
<1>10. ASSUME NEW i \in 1..K PROVE pv1[p[i]] = IF i = 1 THEN NULL ELSE p[i - 1]
  <2>1. CASE i = K
    <3>1. i # 1 /\ p[i] = n /\ p[i - 1] = q[K]
      BY <1>1, <1>4, <2>1
    <3> QED BY <1>1, <1>2, <3>1, ZenonT(60)
  <2>2. CASE i # K /\ i = j
    <3>1. p[i] = q[j + 1] /\ (i # 1 => p[i - 1] = q[j - 1]) /\ q[j + 1] # n
      BY <1>1, <1>4, <2>2
    <3> QED BY <1>1, <1>2, <1>3, <2>2, <3>1, Zenon
  <2>3. CASE i # K /\ i < j
    <3>1. p[i] = q[i] /\ (i # 1 => p[i - 1] = q[i - 1]) /\ i # j /\ i # j + 1
      BY <1>1, <1>4, <2>3, SMTT(30)
    <3>2. q[i] # n /\ q[i] # nx[n]
      BY <1>1, <1>3, <3>1
    <3>3. pv1[q[i]] = pv[q[i]]
      BY <1>1, <1>2, <3>2, Zenon
    <3> QED BY <1>1, <3>1, <3>3, Zenon
  <2>4. CASE i # K /\ i > j
    <3>1. /\ i + 1 \in 1..K /\ p[i] = q[i + 1] /\ p[i - 1] = q[i] /\ i # 1 /\ i + 1 # 1
          /\ i + 1 # j /\ i + 1 # j + 1 /\ i + 1 - 1 = i
      BY <1>1, <1>4, <2>4, SMTT(30)
    <3>2. q[i + 1] # n /\ q[i + 1] # nx[n]
      BY <1>1, <1>3, <3>1
    <3>3. pv1[q[i + 1]] = pv[q[i + 1]]
      BY <1>1, <1>2, <3>1, <3>2, Zenon
    <3>4. pv[q[i + 1]] = q[i]
      BY <1>1, <3>1, SMTT(30)
    <3> QED BY <3>1, <3>3, <3>4, Zenon
  <2>5. i = j \/ i < j \/ i > j
    BY <1>1
  <2> QED BY <2>1, <2>2, <2>3, <2>4, <2>5, Zenon
<1>11. ASSUME NEW i \in 2..K, sz1[p[i]] # 0 PROVE sz1[p[i - 1]] # 0
  <2>1. \A k \in 2..K : sz[q[k]] # 0 => sz[q[k - 1]] # 0
    BY Zenon DEF Shape
  <2>2. \A k \in 1..K : k # j => (sz1[q[k]] # 0 <=> sz[q[k]] # 0)
    BY <1>1 DEF SameUse
  <2>3. i # K
    BY <1>4, <1>11
  <2>4. CASE i < j
    <3>1. p[i] = q[i] /\ p[i - 1] = q[i - 1] /\ i # j /\ i - 1 # j /\ i - 1 \in 1..K /\ i \in 1..K
      BY <1>1, <1>4, <2>4, SMTT(30)
    <3> QED BY <1>11, <2>1, <2>2, <3>1, Zenon
  <2>5. CASE i = j
    <3>1. /\ p[i] = q[j + 1] /\ p[i - 1] = q[j - 1] /\ j + 1 # j /\ j - 1 # j /\ j - 1 \in 1..K
          /\ j + 1 \in 2..K /\ j \in 2..K /\ j + 1 - 1 = j
      BY <1>1, <1>4, <2>5
    <3>2. sz[q[j + 1]] # 0
      BY <1>3, <1>11, <2>2, <3>1, Zenon
    <3>3. sz[q[j]] # 0
      BY <2>1, <3>1, <3>2, SMTT(30)
    <3> QED BY <2>1, <2>2, <3>1, <3>3, Zenon
  <2>6. CASE i > j
    <3>1. /\ p[i] = q[i + 1] /\ p[i - 1] = q[i] /\ i + 1 # j /\ i # j /\ i + 1 \in 1..K /\ i \in 1..K
          /\ i + 1 \in 2..K /\ i + 1 - 1 = i
      BY <1>1, <1>4, <2>3, <2>6
    <3>2. sz[q[i + 1]] # 0
      BY <1>11, <2>2, <3>1, ZenonT(60)
    <3>3. sz[q[i]] # 0
      BY <2>1, <3>1, <3>2
    <3> QED BY <2>2, <3>1, <3>3, Zenon
  <2> QED BY <2>4, <2>5, <2>6
<1> HIDE DEF p
<1>12. Shape(nx1, pv1, hd1, n, sz1, p)
  BY <1>4, <1>5, <1>6, <1>7, <1>8, <1>9, <1>10, <1>11, Zenon DEF Shape
<1> QED BY <1>12, Zenon

(* The tail becomes the head.                                              *)
LEMMA ShapeFront ==
    ASSUME NEW nx, NEW pv, NEW hd, NEW tl, NEW sz, NEW q, Shape(nx, pv, hd, tl, sz, q),
           NEW nx1, NEW pv1, NEW sz1,
           Fronts(nx, pv, hd, tl, nx1, pv1), SameUse(sz, sz1, tl), sz1[tl] # 0
    PROVE  \E p : Shape(nx1, pv1, tl, pv[tl], sz1, p)
<1> DEFINE p == [i \in 1..K |-> IF i = 1 THEN tl ELSE q[i - 1]]
<1>1. /\ \A i \in 1..K : q[i] \in 1..K /\ q[i] \in Node /\ q[i] # NULL
      /\ K \in Nat /\ K > 1 /\ 1 \in 1..K /\ K \in 1..K
      /\ \A i, k \in 1..K : q[i] = q[k] => i = k
      /\ hd = q[1] /\ tl = q[K]
      /\ \A i \in 1..K : nx[q[i]] = IF i = K THEN NULL ELSE q[i + 1]
      /\ \A i \in 1..K : pv[q[i]] = IF i = 1 THEN NULL ELSE q[i - 1]
  <2>1. /\ \A i \in 1..K : q[i] \in 1..K /\ q[i] \in Node /\ q[i] # NULL
        /\ K \in Nat /\ K > 1 /\ 1 \in 1..K /\ K \in 1..K
    BY ShapeFacts, Zenon
  <2> QED BY <2>1, Zenon DEF Shape
<1>2. /\ \A x \in Node : nx1[x] = IF x = tl THEN hd ELSE IF x = pv[tl] THEN NULL ELSE nx[x]
      /\ \A x \in Node : pv1[x] = IF x = hd THEN tl ELSE IF x = tl THEN NULL ELSE pv[x]
  BY Zenon DEF Fronts
<1>3. pv[tl] = q[K - 1] /\ K - 1 \in 1..K /\ hd # tl
  BY <1>1
<1>4. p[1] = tl /\ (\A i \in 1..K : i # 1 => p[i] = q[i - 1] /\ i - 1 \in 1..K /\ i - 1 # K)
  BY <1>1
<1>5. p \in [1..K -> 1..K] /\ p[K] = q[K - 1]
  BY <1>1
<1>6. ASSUME NEW i \in 1..K, NEW k \in 1..K, p[i] = p[k] PROVE i = k
  <2> DEFINE x == IF i = 1 THEN K ELSE i - 1
             y == IF k = 1 THEN K ELSE k - 1
  <2>1. x \in 1..K /\ y \in 1..K /\ p[i] = q[x] /\ p[k] = q[y]
    BY <1>1, <1>4
  <2>2. x = y
    BY <1>1, <1>6, <2>1, Zenon
  <2> QED BY <1>1, <2>2
<1>7. ASSUME NEW m \in 1..K PROVE \E i \in 1..K : p[i] = m
  <2>1. PICK i \in 1..K : q[i] = m
    BY Zenon DEF Shape
  <2>2. CASE i = K
    BY <1>1, <1>4, <2>1, <2>2, Zenon
  <2>3. CASE i # K
    <3>1. i + 1 \in 1..K /\ p[i + 1] = q[i]
      BY <1>1, <1>4, <2>3
    <3> QED BY <2>1, <3>1, Zenon
  <2> QED BY <2>2, <2>3
<1>8. ASSUME NEW i \in 1..K PROVE nx1[p[i]] = IF i = K THEN NULL ELSE p[i + 1]
  <2>1. CASE i = 1
    <3>1. i # K /\ p[i] = tl /\ p[i + 1] = hd
      BY <1>1, <1>4, <2>1
    <3> QED BY <1>1, <1>2, <3>1, Zenon
  <2>2. CASE i # 1 /\ i = K
    <3>1. p[i] = q[K - 1] /\ q[K - 1] # q[K]
      BY <1>1, <1>3, <1>4, <2>2
    <3> QED BY <1>1, <1>2, <1>3, <2>2, <3>1, Zenon
  <2>3. CASE i # 1 /\ i # K
    <3>1. i - 1 \in 1..K /\ i - 1 # K /\ i - 1 # K - 1 /\ p[i] = q[i - 1] /\ p[i + 1] = q[i]
      BY <1>1, <1>4, <2>3
    <3>2. p[i] # tl /\ p[i] # pv[tl] /\ p[i] \in Node
      BY <1>1, <1>3, <3>1
    <3>3. nx[q[i - 1]] = q[i]
      BY <1>1, <3>1, SMTT(30)
    <3> QED BY <1>2, <2>3, <3>1, <3>2, <3>3, Zenon
  <2> QED BY <2>1, <2>2, <2>3
<1>9. ASSUME NEW i \in 1..K PROVE pv1[p[i]] = IF i = 1 THEN NULL ELSE p[i - 1]
  <2>1. CASE i = 1
    BY <1>1, <1>2, <1>3, <1>4, <2>1, Zenon
  <2>2. CASE i = 2
    <3>1. p[i] = hd /\ p[i - 1] = tl /\ i # 1
      BY <1>1, <1>4, <2>2
    <3>2. pv1[hd] = tl
      BY <1>1, <1>2
    <3> QED BY <3>1, <3>2, Zenon
  <2>3. CASE i # 1 /\ i # 2
    <3>1. i - 1 \in 1..K /\ i - 1 # 1 /\ i - 1 # K /\ p[i] = q[i - 1] /\ p[i - 1] = q[i - 1 - 1]
      BY <1>1, <1>4, <2>3
    <3>2. p[i] # tl /\ p[i] # hd /\ p[i] \in Node
      BY <1>1, <3>1
    <3>3. pv[q[i - 1]] = q[i - 1 - 1]
      BY <1>1, <3>1, SMTT(30)
    <3> QED BY <1>2, <2>3, <3>1, <3>2, <3>3, Zenon
  <2> QED BY <2>1, <2>2, <2>3
<1>10. ASSUME NEW i \in 2..K, sz1[p[i]] # 0 PROVE sz1[p[i - 1]] # 0
  <2>1. \A k \in 2..K : sz[q[k]] # 0 => sz[q[k - 1]] # 0
    BY Zenon DEF Shape
  <2>2. \A k \in 1..K : k # K => (sz1[q[k]] # 0 <=> sz[q[k]] # 0)
    BY <1>1 DEF SameUse
  <2>3. CASE i = 2
    BY <1>4, <2>3
  <2>4. CASE i # 2
    <3>1. /\ i - 1 \in 2..K /\ i - 1 \in 1..K /\ i - 1 - 1 \in 1..K /\ i - 1 # K /\ i - 1 - 1 # K
          /\ p[i] = q[i - 1] /\ p[i - 1] = q[i - 1 - 1]
      BY <1>1, <1>4, <2>4
    <3> QED BY <1>10, <2>1, <2>2, <3>1, Zenon
  <2> QED BY <2>3, <2>4
<1> HIDE DEF p
<1>11. Shape(nx1, pv1, tl, pv[tl], sz1, p)
  BY <1>3, <1>4, <1>5, <1>6, <1>7, <1>8, <1>9, <1>10, Zenon DEF Shape
<1> QED BY <1>11, Zenon
(* The shape depends on which nodes are used, not on their blocks.         *)
LEMMA ShapeSame ==
    ASSUME NEW nx, NEW pv, NEW hd, NEW tl, NEW sz, NEW q, Shape(nx, pv, hd, tl, sz, q),
           NEW sz1, \A x \in Node : sz1[x] # 0 <=> sz[x] # 0
    PROVE  Shape(nx, pv, hd, tl, sz1, q)
<1>1. \A i \in 1..K : q[i] \in Node
  BY ShapeFacts, Zenon
<1>2. \A i \in 2..K : i \in 1..K /\ i - 1 \in 1..K
  BY Sizes
<1>3. \A i \in 2..K : sz1[q[i]] # 0 => sz1[q[i - 1]] # 0
  BY <1>1, <1>2, Zenon DEF Shape
<1> QED BY <1>3, Zenon DEF Shape

(* The shape is a chain of the nodes of the first page.                    *)
LEMMA ShapeChain ==
    ASSUME NEW nx, NEW pv, NEW hd, NEW tl, NEW sz, NEW q, Shape(nx, pv, hd, tl, sz, q)
    PROVE  Chain(nx, pv, hd, K, K, q)
<1>1. K \in Nat /\ K # 0
  BY Sizes
<1>2. \A i \in 1..K : pv[q[i]] = NULL \/ (i > 1 /\ pv[q[i]] = q[i - 1])
  <2>1. \A i \in 1..K : i # 1 => i > 1
    BY <1>1
  <2> QED BY <2>1, Zenon DEF Shape
<1> QED BY <1>1, <1>2, Zenon DEF Shape, Chain

(* No two free blocks are neighbours.                                      *)
Coalesced(st, sz) ==
    \A m, n \in Node : sz[m] # 0 /\ sz[n] # 0 => st[m] + sz[m] # st[n]

(* Taking pages off a block makes no new neighbours.                       *)
LEMMA TakeCoalesced ==
    ASSUME NEW st, NEW sz, NEW al, NEW st2, NEW sz2, NEW al2, BlocksOK(st, sz, al),
           NEW n \in Node, NEW k \in Nat \ {0}, k <= sz[n],
           Takes(st, sz, al, n, k, st2, sz2, al2), Coalesced(st, sz)
    PROVE  Coalesced(st2, sz2)
<1>1. /\ st \in [Node -> Nat] /\ sz \in [Node -> Nat]
      /\ \A i, j \in Node : i # j /\ sz[i] # 0 /\ sz[j] # 0 => Apart(st[i], sz[i], st[j], sz[j])
  BY Zenon DEF BlocksOK
<1>2. /\ st2 \in [Node -> Nat] /\ sz2 \in [Node -> Nat]
      /\ \A i \in Node \ {n} : st2[i] = st[i] /\ sz2[i] = sz[i]
      /\ st2[n] = (IF sz[n] = k THEN 0 ELSE st[n] + k) /\ sz2[n] = sz[n] - k
  BY Zenon DEF Takes
<1>3. sz[n] # 0
  BY <1>1
<1>4. ASSUME NEW i \in Node, NEW j \in Node, sz2[i] # 0, sz2[j] # 0, st2[i] + sz2[i] = st2[j]
      PROVE  FALSE
  <2>1. CASE i # n /\ j # n
    BY <1>2, <1>4, <2>1 DEF Coalesced
  <2>2. CASE i = n /\ j = n
    BY <1>2, <1>4, <2>2
  <2>3. CASE i = n /\ j # n
    <3>1. st[n] + sz[n] # st[j]
      BY <1>2, <1>3, <1>4, <2>3 DEF Coalesced
    <3> QED BY <1>1, <1>2, <1>4, <2>3, <3>1
  <2>4. CASE i # n /\ j = n
    <3>1. Apart(st[i], sz[i], st[n], sz[n])
      BY <1>1, <1>2, <1>3, <1>4, <2>4
    <3> QED BY <1>1, <1>2, <1>4, <2>4, <3>1 DEF Apart
  <2> QED BY <2>1, <2>2, <2>3, <2>4, SMTT(30)
<1> QED BY <1>4, Zenon DEF Coalesced

(* No used node borders on the block of n pages at a.                      *)
NoBorder(st, sz, a, n) ==
    \A i \in Node : sz[i] # 0 => a # st[i] + sz[i] /\ a + n # st[i]

(* A grown block without neighbours leaves all merged.                     *)
LEMMA GiveCoalesced ==
    ASSUME NEW st, NEW sz, NEW al, NEW m \in Node, NEW a, NEW st2, NEW sz2, NEW al2,
           Gives(st, sz, al, m, a, st2, sz2, al2), Coalesced(st, sz),
           NoBorder(st2, sz2, st2[m], sz2[m])
    PROVE  Coalesced(st2, sz2)
<1>1. \A i \in Node \ {m} : st2[i] = st[i] /\ sz2[i] = sz[i]
  BY Zenon DEF Gives
<1> QED BY <1>1 DEF Coalesced, NoBorder

(* A new block without neighbours leaves all merged.                       *)
LEMMA PutCoalesced ==
    ASSUME NEW st, NEW sz, NEW al, NEW n \in Node, NEW a \in DOMAIN al, NEW st2, NEW sz2, NEW al2,
           BlocksOK(st, sz, al), Puts(st, sz, al, n, a, st2, sz2, al2), Coalesced(st, sz),
           NoBorder(st, sz, a, al[a])
    PROVE  Coalesced(st2, sz2)
<1>1. st \in [Node -> Nat] /\ sz \in [Node -> Nat] /\ a \in Nat \ {0} /\ al[a] \in Nat \ {0}
  BY Zenon DEF BlocksOK
<1>2. /\ \A i \in Node \ {n} : st2[i] = st[i] /\ sz2[i] = sz[i]
      /\ st2[n] = a /\ sz2[n] = al[a]
  BY <1>1 DEF Puts
<1> QED BY <1>1, <1>2 DEF Coalesced, NoBorder

(* A block that joins two leaves all merged.                               *)
LEMMA JoinCoalesced ==
    ASSUME NEW st, NEW sz, NEW al, NEW m \in Node, NEW o \in Node, NEW a \in DOMAIN al,
           NEW st1, NEW sz1, NEW al1, NEW st2, NEW sz2,
           BlocksOK(st, sz, al), Gives(st, sz, al, m, a, st1, sz1, al1),
           Joins(st1, sz1, m, o, st2, sz2), Coalesced(st, sz)
    PROVE  Coalesced(st2, sz2)
<1>1. /\ st \in [Node -> Nat] /\ sz \in [Node -> Nat] /\ a \in Nat \ {0} /\ al[a] \in Nat \ {0}
      /\ \A i \in Node : sz[i] = 0 <=> st[i] = 0
  BY Zenon DEF BlocksOK
<1>2. /\ \A i \in Node \ {m} : st1[i] = st[i] /\ sz1[i] = sz[i]
      /\ sz1[m] = sz[m] + al[a]
      /\ \/ a = st[m] + sz[m] /\ st1[m] = st[m]
         \/ a + al[a] = st[m] /\ st1[m] = a
  BY Zenon DEF Gives
<1>3. /\ m # o /\ st2[m] = 0 /\ sz2[m] = 0
      /\ \A i \in Node \ {m, o} : st2[i] = st1[i] /\ sz2[i] = sz1[i]
      /\ sz2[o] = sz1[o] + sz1[m]
      /\ \/ st1[m] = st1[o] + sz1[o] /\ st2[o] = st1[o]
         \/ st1[m] + sz1[m] = st1[o] /\ st2[o] = st1[m]
  BY ZenonT(60) DEF Joins
<1>4. sz[m] \in Nat \ {0} /\ sz[o] \in Nat \ {0} /\ st[m] \in Nat \ {0} /\ st[o] \in Nat \ {0}
  BY <1>1, <1>2, <1>3, SMTT(30)
<1>5. /\ st2[o] = st[o] \/ st2[o] = st[m]
      /\ st2[o] + sz2[o] = st[o] + sz[o] \/ st2[o] + sz2[o] = st[m] + sz[m]
  <2>1. st[o] + sz[o] # st[m] /\ st[m] + sz[m] # st[o]
    BY <1>4, SMTT(30) DEF Coalesced
  <2> QED BY <1>1, <1>2, <1>3, <1>4, <2>1, SMTT(30)
<1>6. sz2[o] \in Nat \ {0} /\ st2[o] \in Nat
  BY <1>1, <1>2, <1>3, <1>4, SMTT(30)
<1>7. ASSUME NEW i \in Node, NEW j \in Node, sz2[i] # 0, sz2[j] # 0 PROVE st2[i] + sz2[i] # st2[j]
  <2>1. i # m /\ j # m
    BY <1>3, <1>7, SMTT(30)
  <2>2. CASE i # o /\ j # o
    <3>1. /\ st2[i] = st[i] /\ sz2[i] = sz[i] /\ st2[j] = st[j] /\ sz2[j] = sz[j]
      BY <1>2, <1>3, <2>1, <2>2, Zenon
    <3>2. sz[i] # 0 /\ sz[j] # 0
      BY <1>7, <3>1, Zenon
    <3>3. st[i] + sz[i] # st[j]
      BY <3>2, Zenon DEF Coalesced
    <3> QED BY <3>1, <3>3, Zenon
  <2>3. CASE i = o /\ j = o
    BY <1>6, <2>3
  <2>4. CASE i = o /\ j # o
    <3>1. st2[j] = st[j] /\ sz[j] # 0
      BY <1>2, <1>3, <1>7, <2>1, <2>4, SMTT(30)
    <3>2. st[o] + sz[o] # st[j] /\ st[m] + sz[m] # st[j]
      BY <1>4, <3>1, SMTT(30) DEF Coalesced
    <3> QED BY <1>5, <2>4, <3>1, <3>2, SMTT(30)
  <2>5. CASE i # o /\ j = o
    <3>1. st2[i] = st[i] /\ sz2[i] = sz[i] /\ sz[i] # 0
      BY <1>2, <1>3, <1>7, <2>1, <2>5, SMTT(30)
    <3>2. st[i] + sz[i] # st[o] /\ st[i] + sz[i] # st[m]
      BY <1>4, <3>1 DEF Coalesced
    <3> QED BY <1>5, <2>5, <3>1, <3>2, SMTT(30)
  <2> QED BY <2>2, <2>3, <2>4, <2>5, SMTT(30)
<1> QED BY <1>7, Zenon DEF Coalesced

-----------------------------------------------------------------------------

ListType ==
    [start : [Node -> Nat], size : [Node -> Nat], prev : Links, next : Links,
     head : Node \cup {NULL}, tail : Node, pages : 1..MaxPages]

(* The null pointer is no node.                                            *)
LEMMA NullIsNoNode == NULL \notin Node
  BY DEF NULL, Node

(* What vmm_list_remove_node does to the fields.                           *)
LEMMA RemoveFields ==
    ASSUME NEW l \in ListType, NEW n \in Node, l.next[n] # n, l.prev[n] # n
    PROVE  LET k == vmm_list_remove_node(l, n)
           IN  /\ k \in ListType
               /\ k.start = [l.start EXCEPT ![n] = 0] /\ k.size = [l.size EXCEPT ![n] = 0]
               /\ k.tail = n /\ k.pages = l.pages
               /\ Removes(l.next, l.prev, l.head, n, l.tail, k.next, k.prev, k.head)
<1> DEFINE empty == [l EXCEPT !.start[n] = 0, !.size[n] = 0]
           back == IF empty.next[n] # NULL
                   THEN [empty EXCEPT !.prev[empty.next[n]] = empty.prev[n]] ELSE empty
           out == IF back.prev[n] # NULL
                  THEN [back EXCEPT !.next[back.prev[n]] = back.next[n]]
                  ELSE [back EXCEPT !.head = back.next[n]]
           moved == [out EXCEPT !.next[n] = NULL, !.prev[n] = out.tail]
           k == [moved EXCEPT !.next = [@ EXCEPT ![moved.tail] = n], !.tail = n]
<1>1. vmm_list_remove_node(l, n) = k
  BY Zenon DEF vmm_list_remove_node
<1>2. /\ l.start \in [Node -> Nat] /\ l.size \in [Node -> Nat] /\ l.prev \in Links /\ l.next \in Links
      /\ l.head \in Node \cup {NULL} /\ l.tail \in Node /\ l.pages \in 1..MaxPages
  BY DEF ListType
<1>3. /\ empty \in ListType /\ empty.start = [l.start EXCEPT ![n] = 0]
      /\ empty.size = [l.size EXCEPT ![n] = 0] /\ empty.prev = l.prev /\ empty.next = l.next
      /\ empty.head = l.head /\ empty.tail = l.tail /\ empty.pages = l.pages
  BY Zenon DEF ListType
<1> HIDE DEF empty
<1>4. /\ back \in ListType /\ back.start = empty.start /\ back.size = empty.size
      /\ back.next = empty.next /\ back.head = empty.head /\ back.tail = empty.tail
      /\ back.pages = empty.pages
      /\ \A x \in Node : back.prev[x] = IF x = l.next[n] THEN l.prev[n] ELSE l.prev[x]
  <2>1. l.prev[n] \in Node \cup {NULL} /\ l.next[n] \in Node \cup {NULL}
    BY <1>2 DEF Links
  <2>2. CASE l.next[n] # NULL
    <3>1. back = [empty EXCEPT !.prev[l.next[n]] = l.prev[n]]
      BY <1>3, <2>2, Zenon
    <3> QED BY <1>2, <1>3, <2>1, <2>2, <3>1 DEF ListType, Links
  <2>3. CASE l.next[n] = NULL
    <3>1. back = empty
      BY <1>3, <2>3, Zenon
    <3>2. \A x \in Node : x # l.next[n]
      BY <2>3, NullIsNoNode, Zenon
    <3> HIDE DEF back
    <3> QED BY <1>3, <3>1, <3>2
  <2> QED BY <2>2, <2>3
<1> HIDE DEF back
<1>5. back.prev[n] = l.prev[n] /\ back.next = l.next
  BY <1>3, <1>4
<1>6. /\ out \in ListType /\ out.start = back.start /\ out.size = back.size
      /\ out.prev = back.prev /\ out.tail = back.tail /\ out.pages = back.pages
      /\ \A x \in Node : out.next[x] = IF x = l.prev[n] THEN l.next[n] ELSE l.next[x]
      /\ out.head = IF l.prev[n] # NULL THEN l.head ELSE l.next[n]
  <2>1. back.head = l.head /\ l.prev[n] \in Node \cup {NULL} /\ l.next[n] \in Node \cup {NULL}
    BY <1>2, <1>3, <1>4 DEF Links
  <2>2. CASE l.prev[n] # NULL
    <3>1. out = [back EXCEPT !.next[l.prev[n]] = l.next[n]]
      BY <1>5, <2>2, Zenon
    <3> QED BY <1>2, <1>4, <1>5, <2>1, <2>2, <3>1 DEF ListType, Links
  <2>3. CASE l.prev[n] = NULL
    <3>1. out = [back EXCEPT !.head = l.next[n]]
      BY <1>5, <2>3, Zenon
    <3>2. \A x \in Node : x # l.prev[n]
      BY <2>3, NullIsNoNode, Zenon
    <3>3. /\ out \in ListType /\ out.start = back.start /\ out.size = back.size
          /\ out.prev = back.prev /\ out.tail = back.tail /\ out.pages = back.pages
          /\ out.next = back.next /\ out.head = l.next[n]
      BY <1>4, <2>1, <3>1 DEF ListType
    <3> HIDE DEF out
    <3> QED BY <1>5, <2>3, <3>2, <3>3
  <2> QED BY <2>2, <2>3
<1> HIDE DEF out
<1>7. /\ moved \in ListType /\ moved.start = out.start /\ moved.size = out.size
      /\ moved.head = out.head /\ moved.tail = out.tail /\ moved.pages = out.pages
      /\ \A x \in Node : moved.next[x] = IF x = n THEN NULL ELSE out.next[x]
      /\ \A x \in Node : moved.prev[x] = IF x = n THEN out.tail ELSE out.prev[x]
  BY <1>6, Zenon DEF ListType, Links
<1> HIDE DEF moved
<1>8. /\ k \in ListType /\ k.start = moved.start /\ k.size = moved.size
      /\ k.head = moved.head /\ k.tail = n /\ k.pages = moved.pages /\ k.prev = moved.prev
      /\ \A x \in Node : k.next[x] = IF x = moved.tail THEN n ELSE moved.next[x]
  BY <1>7, Zenon DEF ListType, Links
<1> HIDE DEF k
<1>9. k.pages = l.pages /\ k.start = empty.start /\ k.size = empty.size
  BY <1>3, <1>4, <1>6, <1>7, <1>8
<1>10. /\ k.next \in Links /\ k.prev \in Links
  BY <1>8 DEF ListType
<1>11. moved.tail = l.tail /\ out.tail = l.tail /\ k.head = out.head
  BY <1>3, <1>4, <1>6, <1>7, <1>8, ZenonT(60)
<1>12. \A x \in Node : k.next[x] = IF x = l.tail THEN n ELSE IF x = n THEN NULL
                                  ELSE IF x = l.prev[n] THEN l.next[n] ELSE l.next[x]
  BY <1>6, <1>7, <1>8, <1>11
<1>13. \A x \in Node : k.prev[x] = IF x = n THEN l.tail ELSE IF x = l.next[n] THEN l.prev[n] ELSE l.prev[x]
  BY <1>4, <1>6, <1>7, <1>8, <1>11
<1>14. Removes(l.next, l.prev, l.head, n, l.tail, k.next, k.prev, k.head)
  BY <1>6, <1>10, <1>11, <1>12, <1>13, Zenon DEF Removes
<1> QED BY <1>1, <1>3, <1>8, <1>9, <1>14, ZenonT(60)

(* The first merge keeps the links.                                        *)
SameLinks(l, k) ==
    k.prev = l.prev /\ k.next = l.next /\ k.head = l.head /\ k.tail = l.tail /\ k.pages = l.pages

(* k is list l with n more bytes, the ones from address a on, in node m.   *)
Expanded(l, m, a, n, k) ==
    /\ k \in ListType /\ SameLinks(l, k)
    /\ \A i \in Node \ {m} : k.start[i] = l.start[i] /\ k.size[i] = l.size[i]
    /\ k.size[m] = l.size[m] + n
    /\ \/ a = l.start[m] + l.size[m] /\ k.start[m] = l.start[m]
       \/ a + n = l.start[m] /\ k.start[m] = a

(* What growing the block of a node does to the fields.                    *)
LEMMA ExpandFields ==
    ASSUME NEW l \in ListType, NEW m \in Node, NEW a \in Nat, NEW n \in Nat,
           NEW e, e = a + n, Borders(l, m, a, e)
    PROVE  Expanded(l, m, a, n, Expand(l, m, a, e))
<1> DEFINE z == e - a
           x == IF a = l.start[m] + l.size[m] THEN l.start[m] ELSE l.start[m] - z
           y == l.size[m] + z
           k == Expand(l, m, a, e)
<1>1. l.start \in [Node -> Nat] /\ l.size \in [Node -> Nat] /\ z = n
  BY DEF ListType
<1>2. x \in Nat /\ y = l.size[m] + n /\ y \in Nat
      /\ (\/ a = l.start[m] + l.size[m] /\ x = l.start[m]
          \/ a + n = l.start[m] /\ x = a)
  BY <1>1 DEF Borders
<1>3. k = [l EXCEPT !.start[m] = x, !.size[m] = y]
  BY Zenon DEF Expand
<1> HIDE DEF x, y, k
<1>4. /\ k \in ListType /\ k.start = [l.start EXCEPT ![m] = x] /\ k.size = [l.size EXCEPT ![m] = y]
  BY <1>2, <1>3, Zenon DEF ListType
<1>5. SameLinks(l, k)
  BY <1>3 DEF ListType, SameLinks
<1>6. /\ k.size[m] = y /\ k.start[m] = x
      /\ \A i \in Node \ {m} : k.start[i] = l.start[i] /\ k.size[i] = l.size[i]
  BY <1>1, <1>4, Zenon
<1> QED BY <1>2, <1>4, <1>5, <1>6, Zenon DEF k, Expanded

(* The tail node becomes the head.                                         *)
LEMMA FrontFields ==
    ASSUME NEW l \in ListType, l.prev[l.tail] \in Node, l.head \in Node, l.head # l.tail,
           NEW a \in Nat, NEW n \in Nat
    PROVE  LET k == TailToHead(l, a, n)
           IN  /\ k \in ListType
               /\ k.start = [l.start EXCEPT ![l.tail] = a] /\ k.size = [l.size EXCEPT ![l.tail] = n]
               /\ k.head = l.tail /\ k.tail = l.prev[l.tail] /\ k.pages = l.pages
               /\ Fronts(l.next, l.prev, l.head, l.tail, k.next, k.prev)
<1> DEFINE t == l.tail
           cut == [l EXCEPT !.tail = l.prev[t], !.next[l.prev[t]] = NULL]
           moved == [cut EXCEPT !.prev[t] = NULL, !.next[t] = cut.head, !.start[t] = a, !.size[t] = n]
           k == [moved EXCEPT !.prev[moved.head] = t, !.head = t]
<1>1. TailToHead(l, a, n) = k
  BY DEF TailToHead
<1>2. /\ l.start \in [Node -> Nat] /\ l.size \in [Node -> Nat] /\ l.prev \in Links /\ l.next \in Links
      /\ t \in Node
  BY DEF ListType
<1>3. /\ cut \in ListType /\ cut.start = l.start /\ cut.size = l.size /\ cut.prev = l.prev
      /\ cut.head = l.head /\ cut.tail = l.prev[t] /\ cut.pages = l.pages
      /\ \A x \in Node : cut.next[x] = IF x = l.prev[t] THEN NULL ELSE l.next[x]
  BY <1>2, Zenon DEF ListType, Links
<1> HIDE DEF cut
<1>4. /\ moved \in ListType /\ moved.start = [l.start EXCEPT ![t] = a]
      /\ moved.size = [l.size EXCEPT ![t] = n]
      /\ moved.head = l.head /\ moved.tail = l.prev[t] /\ moved.pages = l.pages
      /\ \A x \in Node : moved.next[x] = IF x = t THEN l.head ELSE cut.next[x]
      /\ \A x \in Node : moved.prev[x] = IF x = t THEN NULL ELSE l.prev[x]
  BY <1>2, <1>3, Zenon DEF ListType, Links
<1> HIDE DEF moved
<1>5. /\ k \in ListType /\ k.start = moved.start /\ k.size = moved.size
      /\ k.head = t /\ k.tail = l.prev[t] /\ k.pages = l.pages /\ k.next = moved.next
      /\ \A x \in Node : k.prev[x] = IF x = l.head THEN t ELSE moved.prev[x]
  BY <1>2, <1>4, ZenonT(60) DEF ListType, Links
<1> HIDE DEF k
<1>6. k.next \in Links /\ k.prev \in Links
  BY <1>5 DEF ListType
<1>7. /\ \A x \in Node : k.next[x] = IF x = t THEN l.head ELSE IF x = l.prev[t] THEN NULL ELSE l.next[x]
      /\ \A x \in Node : k.prev[x] = IF x = l.head THEN t ELSE IF x = t THEN NULL ELSE l.prev[x]
  BY <1>3, <1>4, <1>5
<1>8. Fronts(l.next, l.prev, l.head, t, k.next, k.prev)
  BY <1>6, <1>7, Zenon DEF Fronts
<1> QED BY <1>1, <1>4, <1>5, <1>8, Zenon
(* A page of nodes is appended to the last node of the list.               *)
LEMMA AppendFields ==
    ASSUME NEW l \in ListType, l.pages < MaxPages,
           NEW t \in 1..(K * l.pages), t = First(l, {k \in Node : l.next[k] = NULL})
    PROVE  LET k == AppendPage(l)
           IN  /\ k \in ListType
               /\ k.start = l.start /\ k.size = l.size /\ k.head = l.head
               /\ k.tail = K * l.pages + K /\ k.pages = l.pages + 1
               /\ Appends(l.next, l.prev, K * l.pages, t, k.next, k.prev)
<1> DEFINE p == l.pages + 1
           first == (p - 1) * K + 1
           last == p * K
           top == K * l.pages
           pv == [n \in Node |-> IF n \in first..last
                                 THEN IF n = first THEN NULL ELSE n - 1 ELSE l.prev[n]]
           nx == [n \in Node |-> IF n \in first..last
                                 THEN IF n = last THEN NULL ELSE n + 1 ELSE l.next[n]]
           up == [l EXCEPT !.prev = pv, !.next = nx, !.tail = last, !.pages = p]
           k == [up EXCEPT !.next[t] = l.pages * K + 1]
<1>1. AppendPage(l) = k
  <2>1. SetUpPage(l, p) = up
    BY Zenon DEF SetUpPage
  <2> HIDE DEF up
  <2> QED BY <2>1, Zenon DEF AppendPage
<1>2. /\ l.prev \in Links /\ l.next \in Links /\ l.pages \in 1..MaxPages
  BY DEF ListType
<1>3. /\ first = top + 1 /\ last = top + K /\ l.pages * K = top /\ top \in Nat
      /\ p \in 1..MaxPages /\ K \in Nat /\ K > 1
  BY <1>2, Sizes
<1>4. 1..(top + K) \subseteq Node /\ t \in Node /\ last \in Node /\ top + 1 \in Node
  <2>1. top + K <= K * MaxPages /\ 1..(K * l.pages) \subseteq Node /\ K * MaxPages \in Nat
    BY <1>2, PageNodes, Zenon
  <2> QED BY <1>3, <2>1 DEF Node
<1> HIDE DEF p, first, last, top
<1>5. pv \in Links /\ nx \in Links
  <2>1. \A n \in Node : n \in (top + 1)..(top + K) =>
           /\ n # top + 1 => n - 1 \in Node
           /\ n # top + K => n + 1 \in Node
    BY <1>3, <1>4
  <2> QED BY <1>2, <1>3, <2>1 DEF Links
<1> HIDE DEF pv, nx
<1>6. /\ up \in ListType /\ up.start = l.start /\ up.size = l.size /\ up.head = l.head
      /\ up.tail = last /\ up.pages = p /\ up.next = nx /\ up.prev = pv
  BY <1>3, <1>4, <1>5, Zenon DEF ListType
<1> HIDE DEF up
<1>7. /\ k \in ListType /\ k.start = l.start /\ k.size = l.size /\ k.head = l.head
      /\ k.tail = last /\ k.pages = p /\ k.prev = pv /\ k.next = [nx EXCEPT ![t] = top + 1]
  BY <1>3, <1>4, <1>5, <1>6, Zenon DEF ListType, Links
<1> HIDE DEF k
<1>8. Appends(l.next, l.prev, top, t, k.next, k.prev)
  <2>1. ASSUME NEW x \in Node
        PROVE  /\ pv[x] = IF x \in (top + 1)..(top + K) THEN IF x = top + 1 THEN NULL ELSE x - 1
                          ELSE l.prev[x]
               /\ nx[x] = IF x \in (top + 1)..(top + K) THEN IF x = top + K THEN NULL ELSE x + 1
                          ELSE l.next[x]
    BY <1>3, Zenon DEF pv, nx
  <2>2. t \notin (top + 1)..(top + K)
    BY <1>3 DEF top
  <2>3. \A x \in Node : k.next[x] = IF x = t THEN top + 1 ELSE nx[x]
    BY <1>5, <1>7 DEF Links
  <2> QED BY <1>7, <2>1, <2>2, <2>3, Zenon DEF Appends
<1> QED BY <1>1, <1>3, <1>7, <1>8, Zenon DEF p, top
-----------------------------------------------------------------------------

(* The size of a set with at most one element, from the definition.        *)
LEMMA AtMostOne ==
    ASSUME NEW S, \A x, y \in S : x = y
    PROVE  Cardinality(S) = IF S = {} THEN 0 ELSE 1
<1> DEFINE Fn(CS) == [T \in SUBSET S |-> IF T = {} THEN 0 ELSE 1 + CS[T \ {CHOOSE x : x \in T}]]
           C == CHOOSE CS : CS = Fn(CS)
           f == [T \in SUBSET S |-> IF T = {} THEN 0 ELSE 1]
<1>1. Cardinality(S) = C[S]
  BY DEF Cardinality
<1>2. ASSUME NEW T \in SUBSET S, T # {} PROVE T \ {CHOOSE x : x \in T} = {}
  <2>1. (CHOOSE x : x \in T) \in T
    BY <1>2, Zenon
  <2> QED BY <2>1, Zenon
<1>3. {} \in SUBSET S /\ S \in SUBSET S
  BY Zenon
<1>4. f[{}] = 0
  BY <1>3, Zenon
<1>5. ASSUME NEW T \in SUBSET S
      PROVE  (IF T = {} THEN 0 ELSE 1) = (IF T = {} THEN 0 ELSE 1 + f[T \ {CHOOSE x : x \in T}])
  <2>1. 1 + 0 = 1
    OBVIOUS
  <2> HIDE DEF f
  <2> QED BY <1>2, <1>4, <2>1, Zenon
<1>6. f = Fn(f)
  BY <1>5, Zenon
<1> HIDE DEF f
<1>7. C = Fn(C)
  <2> HIDE DEF Fn
  <2> QED BY <1>6, Zenon
<1> HIDE DEF C
<1>8. C[{}] = 0
  BY <1>3, <1>7, Zenon
<1>9. CASE S # {}
  <2>1. C[S] = 1 + C[S \ {CHOOSE x : x \in S}]
    BY <1>3, <1>7, <1>9, Zenon
  <2>2. S \ {CHOOSE x : x \in S} = {}
    BY <1>2, <1>3, <1>9, Zenon
  <2>3. C[S] = 1 + 0
    BY <1>8, <2>1, <2>2, Zenon
  <2> QED BY <1>1, <1>9, <2>3
<1> QED BY <1>1, <1>8, <1>9

(* Counting the blocks of a page.                                          *)
LEMMA CountBlocks ==
    ASSUME NEW p, \A m, n \in FreeBlocksOf(p) : m = n, \A a, b \in AllocatedBlocksOf(p) : a = b
    PROVE  BlocksOf(p) = (IF FreeBlocksOf(p) = {} THEN 0 ELSE 1)
                            + (IF AllocatedBlocksOf(p) = {} THEN 0 ELSE 1)
<1>1. Cardinality(FreeBlocksOf(p)) = IF FreeBlocksOf(p) = {} THEN 0 ELSE 1
  BY AtMostOne, Zenon
<1>2. Cardinality(AllocatedBlocksOf(p)) = IF AllocatedBlocksOf(p) = {} THEN 0 ELSE 1
  BY AtMostOne, Zenon
<1> QED BY <1>1, <1>2, Zenon DEF BlocksOf

(* Two facts about natural numbers, which CountingHolds proves: a set of   *)
(* them has a least element, and a list of numbers up to top without       *)
(* repetition is no longer than top.                                       *)
Counting ==
    /\ \A T \in SUBSET Nat : T # {} => \E n \in T : \A k \in T : n <= k
    /\ \A r \in Nat, top \in Nat : \A h \in [1..r -> 1..top] :
          (\A i, j \in 1..r : h[i] = h[j] => i = j) => r <= top

(* A set of naturals that is not empty has a least element.                *)
LEMMA LeastNat ==
    ASSUME Counting, NEW T \in SUBSET Nat, T # {}
    PROVE  \E n \in T : \A k \in T : n <= k
BY Zenon DEF Counting

(* A chain has no more nodes than there are.                               *)
LEMMA ChainFits ==
    ASSUME Counting, NEW nx, NEW pv, NEW hd, NEW top \in Nat, NEW r, NEW h,
           Chain(nx, pv, hd, top, r, h)
    PROVE  r <= top
<1>1. r \in Nat /\ h \in [1..r -> 1..top] /\ \A i, j \in 1..r : h[i] = h[j] => i = j
  BY Zenon DEF Chain
<1> QED BY <1>1, Zenon DEF Counting

(* The loops along next follow the chain.                                  *)
LEMMA WalkChain ==
    ASSUME Counting, NEW l, NEW top \in Nat, NEW r, NEW h, 1..top \subseteq Node,
           Chain(l.next, l.prev, l.head, top, r, h)
    PROVE  /\ DOMAIN Walk(l) = 0..(K * MaxPages)
           /\ \A i \in 0..(K * MaxPages) : Walk(l)[i] = IF i < r THEN h[i + 1] ELSE NULL
<1> DEFINE M == K * MaxPages
           f == [i \in 0..M |-> IF i < r THEN h[i + 1] ELSE NULL]
<1>1. /\ r \in Nat /\ \A i \in 1..r : h[i] # NULL
      /\ l.head = IF r = 0 THEN NULL ELSE h[1]
      /\ \A i \in 1..r : l.next[h[i]] = IF i = r THEN NULL ELSE h[i + 1]
  BY NullIsNoNode, Zenon DEF Chain
<1>2. M \in Nat
  BY Sizes
<1> HIDE DEF M
<1>3. f[0] = l.head
  BY <1>1, <1>2
<1>4. ASSUME NEW i \in 0..M, i # 0
      PROVE  f[i] = IF f[i - 1] = NULL THEN NULL ELSE l.next[f[i - 1]]
  <2>1. i - 1 \in 0..M
    BY <1>2, <1>4
  <2>2. CASE i - 1 < r
    <3>1. i \in 1..r /\ f[i - 1] = h[i] /\ (i < r <=> i # r)
      BY <1>1, <1>4, <2>1, <2>2
    <3>2. f[i] = IF i < r THEN h[i + 1] ELSE NULL
      BY Zenon
    <3> QED BY <1>1, <3>1, <3>2, Zenon
  <2>3. CASE ~(i - 1 < r)
    <3>1. f[i - 1] = NULL /\ f[i] = NULL
      BY <1>1, <1>4, <2>1, <2>3
    <3> QED BY <3>1, Zenon
  <2> QED BY <2>2, <2>3
<1>5. f = [i \in 0..M |-> IF i = 0 THEN l.head ELSE IF f[i - 1] = NULL THEN NULL ELSE l.next[f[i - 1]]]
  <2> DEFINE g == [i \in 0..M |-> IF i = 0 THEN l.head
                                  ELSE IF f[i - 1] = NULL THEN NULL ELSE l.next[f[i - 1]]]
  <2>1. \A i \in 0..M : f[i] = g[i]
    <3> HIDE DEF f
    <3> QED BY <1>3, <1>4, Zenon
  <2>2. f = [i \in 0..M |-> f[i]] /\ g = [i \in 0..M |-> g[i]]
    OBVIOUS
  <2> HIDE DEF f, g
  <2>3. f = g
    BY <2>1, <2>2, Zenon
  <2> QED BY <2>3, Zenon DEF g
<1> HIDE DEF f
<1> DEFINE w == Walk(l)
<1>6. w = [i \in 0..M |-> IF i = 0 THEN l.head ELSE IF w[i - 1] = NULL THEN NULL ELSE l.next[w[i - 1]]]
  BY <1>5, Zenon DEF Walk, M
<1> HIDE DEF w
<1>7. ASSUME NEW i \in 0..M PROVE w[i] = f[i]
  <2> DEFINE T == {k \in 0..M : w[k] # f[k]}
  <2>1. ASSUME T # {} PROVE FALSE
    <3>1. T \in SUBSET Nat
      BY <1>2
    <3>2. PICK n \in T : \A k \in T : n <= k
      <4> HIDE DEF T
      <4> QED BY <2>1, <3>1, LeastNat, Zenon
    <3>3. n \in 0..M /\ w[n] # f[n]
      BY <3>2, Zenon
    <3>4. CASE n = 0
      <4>1. w[n] = l.head
        BY <1>6, <3>3, <3>4, Zenon
      <4> QED BY <1>3, <3>3, <3>4, <4>1, Zenon
    <3>5. CASE n # 0
      <4>1. n - 1 \in 0..M /\ ~(n <= n - 1)
        BY <1>2, <3>3, <3>5
      <4>2. w[n - 1] = f[n - 1]
        BY <3>2, <4>1, Zenon
      <4>3. w[n] = IF w[n - 1] = NULL THEN NULL ELSE l.next[w[n - 1]]
        BY <1>6, <3>3, <3>5, Zenon
      <4> QED BY <1>4, <3>3, <3>5, <4>2, <4>3, Zenon
    <3> QED BY <3>4, <3>5, Zenon
  <2> QED BY <2>1, Zenon
<1>8. DOMAIN w = 0..M
  BY <1>6, Zenon
<1>9. \A i \in 0..M : w[i] = IF i < r THEN h[i + 1] ELSE NULL
  BY <1>7, Zenon DEF f
<1> QED BY <1>8, <1>9, Zenon DEF w, M

(* The first node of a set along the chain.                                *)
LEMMA FirstChain ==
    ASSUME Counting, NEW l, NEW p \in 1..MaxPages, NEW r, NEW h,
           Chain(l.next, l.prev, l.head, K * p, r, h), NEW S \in SUBSET Node
    PROVE  /\ First(l, S) = NULL => \A i \in 1..r : h[i] \notin S
           /\ First(l, S) # NULL => \E j \in 1..r : h[j] = First(l, S) /\ h[j] \in S
<1> DEFINE M == K * MaxPages
           w == Walk(l)
           hits == {i \in DOMAIN w : w[i] \in S}
<1>1. /\ K * p \in Nat /\ 1..(K * p) \subseteq Node /\ K * p <= M /\ M \in Nat
  BY PageNodes, Zenon
<1>2. r \in Nat /\ r <= M /\ h \in [1..r -> 1..(K * p)]
  <2>1. r \in Nat /\ h \in [1..r -> 1..(K * p)]
    BY Zenon DEF Chain
  <2>2. r <= K * p
    BY <1>1, ChainFits
  <2> QED BY <1>1, <2>1, <2>2
<1>3. DOMAIN w = 0..M /\ \A i \in 0..M : w[i] = IF i < r THEN h[i + 1] ELSE NULL
  <2> DEFINE top == K * p
  <2>1. top \in Nat /\ 1..top \subseteq Node /\ Chain(l.next, l.prev, l.head, top, r, h)
    BY <1>1, Zenon
  <2> HIDE DEF top
  <2> QED BY <2>1, WalkChain, Zenon
<1>4. First(l, S) = IF hits = {} THEN NULL ELSE w[Min(hits)]
  BY Zenon DEF First
<1> HIDE DEF w, M
<1>5. hits \subseteq 0..M /\ hits \subseteq Nat
  <2>1. hits \subseteq 0..M
    BY <1>3, Zenon
  <2> QED BY <1>1, <2>1
<1>6. ASSUME NEW i \in 1..r, h[i] \in S PROVE i - 1 \in hits
  <2>1. i - 1 \in 0..M /\ i - 1 < r /\ i - 1 + 1 = i
    BY <1>1, <1>2
  <2>2. w[i - 1] = h[i] /\ i - 1 \in DOMAIN w
    BY <1>3, <2>1
  <2> QED BY <1>6, <2>2, Zenon
<1>7. ASSUME hits # {} PROVE w[Min(hits)] # NULL /\ \E j \in 1..r : h[j] = w[Min(hits)] /\ h[j] \in S
  <2> DEFINE k == Min(hits)
  <2>1. k \in hits
    <3>1. \E n \in hits : \A y \in hits : n <= y
      <4> HIDE DEF hits
      <4> QED BY <1>5, <1>7, LeastNat, Zenon
    <3> HIDE DEF hits
    <3> QED BY <3>1, Zenon DEF Min
  <2>2. k \in 0..M /\ w[k] \in S
    BY <1>5, <2>1, Zenon
  <2>3. w[k] # NULL
    BY <2>2, NullIsNoNode, Zenon
  <2> HIDE DEF k
  <2>4. k < r /\ w[k] = h[k + 1]
    BY <1>3, <2>2, <2>3, Zenon
  <2>5. k + 1 \in 1..r
    BY <1>2, <2>2, <2>4
  <2> QED BY <2>2, <2>3, <2>4, <2>5, Zenon DEF k
<1>8. CASE hits = {}
  BY <1>4, <1>6, <1>8, Zenon
<1>9. CASE hits # {}
  BY <1>4, <1>7, <1>9, Zenon
<1> QED BY <1>8, <1>9, Zenon

-----------------------------------------------------------------------------

(* vmm_list_remove_node keeps the chain, even if n is the tail.            *)
LEMMA ChainRemove ==
    ASSUME NEW nx \in Links, NEW pv \in Links, NEW hd, NEW top \in Nat, NEW r, NEW h,
           1..top \subseteq Node, Chain(nx, pv, hd, top, r, h),
           NEW n, \E j \in 1..r : h[j] = n, NEW t \in Node, NEW nx1, NEW pv1, NEW hd1,
           Removes(nx, pv, hd, n, t, nx1, pv1, hd1)
    PROVE  \E s, g : Chain(nx1, pv1, hd1, top, s, g)
<1> DEFINE nxs == [x \in Node |-> IF x = n THEN NULL ELSE IF x = pv[n] THEN nx[n] ELSE nx[x]]
           pvs == [x \in Node |-> IF x = n THEN NULL ELSE IF x = nx[n] THEN pv[n] ELSE pv[x]]
<1>1. n \in 1..top /\ n \in Node
  <2>1. \A i \in 1..r : h[i] \in 1..top
    BY Zenon DEF Chain
  <2> QED BY <2>1, Zenon
<1>2. nxs \in Links /\ pvs \in Links
  BY <1>1, Zenon DEF Links
<1>3. Skips(nx, pv, hd, n, nxs, pvs, hd1)
  BY <1>2, Zenon DEF Skips, Removes
<1>4. Hooks(nxs, pvs, n, t, nx1, pv1)
  BY Zenon DEF Hooks, Removes
<1> HIDE DEF nxs, pvs
<1>5. PICK s, g : Chain(nxs, pvs, hd1, top, s, g) /\ \A i \in 1..s : g[i] # n
  <2>1. PICK j \in 1..r : h[j] = n
    BY Zenon
  <2>2. SkipsAt(nx, pv, hd, top, r, h, j, nxs, pvs, hd1)
    BY <1>3, <2>1, Zenon DEF SkipsAt
  <2>3. ChainWithout(nxs, pvs, hd1, top, h[j])
    BY <2>2, ChainSkip, Zenon
  <2> QED BY <2>1, <2>3, Zenon DEF ChainWithout
<1> QED BY <1>1, <1>4, <1>5, ChainHook, Zenon

(* The fields of the list that hold for any blocks: the links stay inside  *)
(* the pages of nodes in use, and the nodes outside are empty.             *)
LinksOK(l) ==
    /\ l \in ListType
    /\ l.tail \in 1..(K * l.pages)
    /\ \A n \in 1..(K * l.pages) : l.prev[n] = NULL \/ l.prev[n] \in 1..(K * l.pages)
    /\ \A n \in Node : n \notin 1..(K * l.pages) => l.size[n] = 0
    /\ \E r, h : Chain(l.next, l.prev, l.head, K * l.pages, r, h)

(* A walk along next from vmm_head meets n.                                *)
OnList(l, n) ==
    \E r, h : /\ Chain(l.next, l.prev, l.head, K * l.pages, r, h)
              /\ \E j \in 1..r : h[j] = n

(* The fields that LinksOK types, one by one.                              *)
LEMMA LinksNodes ==
    ASSUME NEW l, LinksOK(l)
    PROVE  /\ l.pages \in 1..MaxPages /\ K * l.pages \in Nat /\ 1..(K * l.pages) \subseteq Node
           /\ l.next \in Links /\ l.prev \in Links /\ l.tail \in Node /\ l.head \in Node \cup {NULL}
           /\ l.start \in [Node -> Nat] /\ l.size \in [Node -> Nat]
<1>1. l \in ListType
  BY Zenon DEF LinksOK
<1>2. /\ l.pages \in 1..MaxPages /\ l.next \in Links /\ l.prev \in Links
      /\ l.tail \in Node /\ l.head \in Node \cup {NULL}
      /\ l.start \in [Node -> Nat] /\ l.size \in [Node -> Nat]
  BY <1>1 DEF ListType
<1> QED BY <1>2, PageNodes, Zenon

(* vmm_list_remove_node on a node of the list keeps the links sound.       *)
LEMMA RemoveLinks ==
    ASSUME NEW l, LinksOK(l), NEW n, OnList(l, n)
    PROVE  LET k == vmm_list_remove_node(l, n)
           IN  /\ LinksOK(k) /\ n \in Node /\ n \in 1..(K * l.pages)
               /\ k.start = [l.start EXCEPT ![n] = 0] /\ k.size = [l.size EXCEPT ![n] = 0]
               /\ k.tail = n /\ k.pages = l.pages
               /\ Removes(l.next, l.prev, l.head, n, l.tail, k.next, k.prev, k.head)
<1> DEFINE k == vmm_list_remove_node(l, n)  top == K * l.pages
<1>1. PICK r, h : Chain(l.next, l.prev, l.head, top, r, h) /\ \E j \in 1..r : h[j] = n
  BY Zenon DEF OnList
<1>2. PICK j \in 1..r : h[j] = n
  BY <1>1, Zenon
<1>3. /\ top \in Nat /\ 1..top \subseteq Node /\ l.next \in Links /\ l.prev \in Links
      /\ l.tail \in Node
  BY LinksNodes, Zenon
<1> HIDE DEF top
<1>4. n \in 1..top /\ n \in Node
  BY <1>1, <1>2, <1>3, Zenon DEF Chain
<1>5. l.next[n] # n /\ l.prev[n] # n
  <2>1. r \in Nat /\ n # NULL
    BY <1>1, <1>4 DEF Chain, NULL
  <2>2. l.next[n] = IF j = r THEN NULL ELSE h[j + 1]
    BY <1>1, <1>2, Zenon DEF Chain
  <2>3. l.prev[n] = NULL \/ (j > 1 /\ l.prev[n] = h[j - 1])
    BY <1>1, <1>2, Zenon DEF Chain
  <2>4. j # r => j + 1 \in 1..r /\ j + 1 # j
    BY <2>1
  <2>5. j > 1 => j - 1 \in 1..r /\ j - 1 # j
    BY <2>1
  <2> QED BY <1>1, <1>2, <2>1, <2>2, <2>3, <2>4, <2>5, Zenon DEF Chain
<1>6. l \in ListType
  BY Zenon DEF LinksOK
<1>7. /\ k \in ListType
      /\ k.start = [l.start EXCEPT ![n] = 0] /\ k.size = [l.size EXCEPT ![n] = 0]
      /\ k.tail = n /\ k.pages = l.pages
      /\ Removes(l.next, l.prev, l.head, n, l.tail, k.next, k.prev, k.head)
  BY <1>4, <1>5, <1>6, RemoveFields, Zenon
<1> HIDE DEF k
<1>8. \E s, g : Chain(k.next, k.prev, k.head, top, s, g)
  BY <1>1, <1>3, <1>7, ChainRemove, SMTT(30)
<1>9. ASSUME NEW x \in 1..top PROVE k.prev[x] = NULL \/ k.prev[x] \in 1..top
  <2>1. k.prev[x] = IF x = n THEN l.tail ELSE IF x = l.next[n] THEN l.prev[n] ELSE l.prev[x]
    BY <1>3, <1>7, <1>9, Zenon DEF Removes
  <2> QED BY <1>4, <2>1, Zenon DEF LinksOK, top
<1>10. ASSUME NEW x \in Node, x \notin 1..top PROVE k.size[x] = 0
  <2>1. l.size[x] = 0 /\ x # n
    BY <1>4, <1>10, Zenon DEF LinksOK, top
  <2> QED BY <1>7, <2>1, LinksNodes, Zenon
<1>11. LinksOK(k)
  BY <1>4, <1>7, <1>8, <1>9, <1>10, Zenon DEF LinksOK, top
<1> QED BY <1>4, <1>7, <1>11, Zenon DEF k, top

(* The list as it is until all nodes have been in use.                     *)
InShape(l) ==
    /\ l.pages = 1 /\ l.size[l.tail] = 0
    /\ \E q : Shape(l.next, l.prev, l.head, l.tail, l.size, q)

ShapeInv(l) == InShape(l) /\ Coalesced(l.start, l.size)

(* First finds a node of the list.                                         *)
LEMMA FirstOnList ==
    ASSUME Counting, NEW l, LinksOK(l), NEW S \in SUBSET Node, First(l, S) # NULL
    PROVE  First(l, S) \in S /\ OnList(l, First(l, S))
<1>1. PICK r, h : Chain(l.next, l.prev, l.head, K * l.pages, r, h)
  BY Zenon DEF LinksOK
<1>2. \E j \in 1..r : h[j] = First(l, S) /\ h[j] \in S
  <2>1. l.pages \in 1..MaxPages
    BY LinksNodes, Zenon
  <2>2. First(l, S) # NULL => \E j \in 1..r : h[j] = First(l, S) /\ h[j] \in S
    BY <1>1, <2>1, FirstChain
  <2> QED BY <2>2, Zenon
<1> QED BY <1>1, <1>2, Zenon DEF OnList

(* If no node of the list borders on a block, no node does.                *)
LEMMA NoneBorders ==
    ASSUME Counting, NEW l, LinksOK(l), InShape(l), NEW a, NEW n, NEW e, e = a + n,
           First(l, {k \in Node : Borders(l, k, a, e)}) = NULL
    PROVE  NoBorder(l.start, l.size, a, n)
<1> DEFINE S == {k \in Node : Borders(l, k, a, e)}
<1>1. PICK q : Shape(l.next, l.prev, l.head, l.tail, l.size, q)
  BY Zenon DEF InShape
<1>2. l.pages = 1 /\ K * l.pages = K /\ l.pages \in 1..MaxPages
  <2>1. l.pages = 1 /\ l.pages \in 1..MaxPages
    BY LinksNodes, Zenon DEF InShape
  <2> QED BY <2>1, Sizes
<1>3. Chain(l.next, l.prev, l.head, K * l.pages, K, q)
  BY <1>1, <1>2, ShapeChain, Zenon
<1>4. S \in SUBSET Node
  BY Zenon
<1>5. First(l, S) = NULL
  BY Zenon
<1>6. \A i \in 1..K : q[i] \notin S
  <2> HIDE DEF S
  <2> QED BY <1>2, <1>3, <1>4, <1>5, FirstChain, Zenon
<1>7. ASSUME NEW x \in Node, l.size[x] # 0
      PROVE  a # l.start[x] + l.size[x] /\ a + n # l.start[x]
  <2>1. x \in 1..K
    BY <1>2, <1>7, Zenon DEF LinksOK
  <2>2. x \notin S
    <3>1. \E i \in 1..K : q[i] = x
      BY <1>1, <2>1, Zenon DEF Shape
    <3> HIDE DEF S
    <3> QED BY <1>6, <3>1, Zenon
  <2> QED BY <2>2, Zenon DEF Borders
<1> QED BY <1>7, Zenon DEF NoBorder

(* vmm_list_remove_node of a node other than the tail keeps the shape.     *)
LEMMA RemoveShape ==
    ASSUME NEW l, LinksOK(l), l.pages = 1, NEW n, OnList(l, n), n # l.tail,
           NEW q, Shape(l.next, l.prev, l.head, l.tail, l.size, q)
    PROVE  LET k == vmm_list_remove_node(l, n)
           IN  /\ k.pages = 1 /\ k.size[k.tail] = 0
               /\ \E p : Shape(k.next, k.prev, k.head, k.tail, k.size, p)
<1> DEFINE k == vmm_list_remove_node(l, n)
<1>1. /\ n \in Node /\ n \in 1..(K * l.pages)
      /\ k.size = [l.size EXCEPT ![n] = 0] /\ k.tail = n /\ k.pages = l.pages
      /\ Removes(l.next, l.prev, l.head, n, l.tail, k.next, k.prev, k.head)
  BY RemoveLinks, ZenonT(60)
<1> HIDE DEF k
<1>2. l.size \in [Node -> Nat]
  BY LinksNodes, Zenon
<1>3. n \in 1..K
  <2>1. K * l.pages = K
    BY Sizes
  <2> QED BY <1>1, <2>1, Zenon
<1>4. PICK j \in 1..K : q[j] = n
  BY <1>3, Zenon DEF Shape
<1>5. j \in 1..(K - 1)
  <2>1. j # K
    BY <1>4, Zenon DEF Shape
  <2> QED BY <2>1, Sizes
<1>6. k.size[n] = 0 /\ SameUse(l.size, k.size, n)
  BY <1>1, <1>2, Zenon DEF SameUse
<1>7. Removes(l.next, l.prev, l.head, q[j], l.tail, k.next, k.prev, k.head)
  BY <1>1, <1>4, Zenon
<1>8. k.size[q[j]] = 0 /\ SameUse(l.size, k.size, q[j])
  BY <1>4, <1>6, ZenonT(60)
<1>9. \E p : Shape(k.next, k.prev, k.head, q[j], k.size, p)
  BY <1>5, <1>7, <1>8, ShapeRemove, SMTT(30)
<1>10. \E p : Shape(k.next, k.prev, k.head, k.tail, k.size, p)
  BY <1>1, <1>4, <1>9, Zenon
<1>11. k.pages = 1 /\ k.size[k.tail] = 0
  BY <1>1, <1>6, Zenon
<1> QED BY <1>10, <1>11, Zenon DEF k

(* A list with the same links and the same nodes in use is as good.        *)
LEMMA SameLinksOK ==
    ASSUME NEW l, LinksOK(l), NEW k \in ListType, SameLinks(l, k),
           \A x \in Node : k.size[x] # 0 <=> l.size[x] # 0
    PROVE  /\ LinksOK(k)
           /\ \A n : OnList(l, n) => OnList(k, n)
           /\ \A q : Shape(l.next, l.prev, l.head, l.tail, l.size, q)
                        => Shape(k.next, k.prev, k.head, k.tail, k.size, q)
<1>1. LinksOK(k)
  BY Zenon DEF LinksOK, SameLinks
<1>2. \A n : OnList(l, n) => OnList(k, n)
  BY Zenon DEF OnList, SameLinks
<1>3. ASSUME NEW q, Shape(l.next, l.prev, l.head, l.tail, l.size, q)
      PROVE  Shape(k.next, k.prev, k.head, k.tail, k.size, q)
  <2>1. Shape(l.next, l.prev, l.head, l.tail, k.size, q)
    BY <1>3, ShapeSame, Zenon
  <2> QED BY <2>1, Zenon DEF SameLinks
<1> QED BY <1>1, <1>2, <1>3, Zenon

(* Node n gives its first k pages away.                                    *)
Shrunk(l, n, k) == [l EXCEPT !.start[n] = @ + k, !.size[n] = @ - k]

(* What shrinking the block of a node does to the fields.                  *)
LEMMA ShrinkFields ==
    ASSUME NEW l \in ListType, NEW n \in Node, NEW k \in Nat, k < l.size[n]
    PROVE  LET s == Shrunk(l, n, k)
           IN  /\ s \in ListType /\ SameLinks(l, s)
               /\ s.start = [l.start EXCEPT ![n] = @ + k] /\ s.size = [l.size EXCEPT ![n] = @ - k]
<1> DEFINE s == [l EXCEPT !.start[n] = @ + k, !.size[n] = @ - k]
<1>1. /\ SameLinks(l, s)
      /\ s.start = [l.start EXCEPT ![n] = @ + k] /\ s.size = [l.size EXCEPT ![n] = @ - k]
  BY DEF ListType, SameLinks
<1>2. l.start \in [Node -> Nat] /\ l.size \in [Node -> Nat]
  BY DEF ListType
<1>3. l.start[n] + k \in Nat /\ l.size[n] - k \in Nat
  BY <1>2
<1>4. [l.start EXCEPT ![n] = @ + k] \in [Node -> Nat] /\ [l.size EXCEPT ![n] = @ - k] \in [Node -> Nat]
  BY <1>2, <1>3, Zenon
<1>5. s = [l EXCEPT !.start = [l.start EXCEPT ![n] = @ + k], !.size = [l.size EXCEPT ![n] = @ - k]]
  BY DEF ListType
<1>6. ASSUME NEW u \in [Node -> Nat], NEW v \in [Node -> Nat]
      PROVE  [l EXCEPT !.start = u, !.size = v] \in ListType
  BY Zenon DEF ListType
<1>7. s \in ListType
  BY <1>4, <1>5, <1>6, Zenon
<1> QED BY <1>1, <1>7, Zenon DEF Shrunk

(* vmm_alloc finds node n for k pages; l and al become the lists.          *)
Allocates(k, n, l, al) ==
    /\ n = First(list, {m \in Node : list.size[m] >= k}) /\ n # NULL
    /\ l = IF list.size[n] = k THEN vmm_list_remove_node(list, n)
           ELSE Shrunk(list, n, k)
    /\ al = alloc_list_add_node(list.start[n], k)

(* vmm_alloc keeps the list and the blocks.                                *)
LEMMA AllocList ==
    ASSUME Counting, LinksOK(list), BlocksOK(list.start, list.size, alloc), NEW k \in 1..V,
           NEW n, NEW l, NEW al, Allocates(k, n, l, al)
    PROVE  /\ LinksOK(l) /\ BlocksOK(l.start, l.size, al) /\ list.start[n] \notin DOMAIN alloc
           /\ ShapeInv(list) => ShapeInv(l)
<1>1. n \in Node /\ list.size[n] >= k /\ OnList(list, n)
  <2> DEFINE S == {m \in Node : list.size[m] >= k}
  <2>1. S \in SUBSET Node /\ n = First(list, S) /\ First(list, S) # NULL
    BY Zenon DEF Allocates
  <2> HIDE DEF S
  <2>2. First(list, S) \in S /\ OnList(list, First(list, S))
    BY <2>1, FirstOnList, Zenon
  <2> QED BY <2>1, <2>2, Zenon DEF S
<1>2. k \in Nat \ {0} /\ list.start \in [Node -> Nat] /\ list.size \in [Node -> Nat] /\ list \in ListType
  <2>1. list.start \in [Node -> Nat] /\ list.size \in [Node -> Nat] /\ list \in ListType
    BY LinksNodes, Zenon DEF LinksOK
  <2>2. k \in Nat \ {0}
    BY Sizes
  <2> QED BY <2>1, <2>2, Zenon
<1>3. k <= list.size[n]
  BY <1>1, <1>2
<1>4. /\ DOMAIN al = DOMAIN alloc \cup {list.start[n]}
      /\ \A b \in DOMAIN al : al[b] = IF b = list.start[n] THEN k ELSE alloc[b]
  <2>1. al = alloc_list_add_node(list.start[n], k)
    BY Zenon DEF Allocates
  <2>2. al = [b \in DOMAIN alloc \cup {list.start[n]} |-> IF b = list.start[n] THEN k ELSE alloc[b]]
    BY <2>1, Zenon DEF alloc_list_add_node
  <2> QED BY <2>2, Zenon
<1>5. ASSUME Takes(list.start, list.size, alloc, n, k, l.start, l.size, al)
      PROVE  /\ BlocksOK(l.start, l.size, al) /\ list.start[n] \notin DOMAIN alloc
             /\ Coalesced(list.start, list.size) => Coalesced(l.start, l.size)
  <2>1. BlocksOK(l.start, l.size, al) /\ list.start[n] \notin DOMAIN alloc
    BY <1>1, <1>2, <1>3, <1>5, TakePages, Zenon
  <2>2. Coalesced(list.start, list.size) => Coalesced(l.start, l.size)
    BY <1>1, <1>2, <1>3, <1>5, TakeCoalesced, Zenon
  <2> QED BY <2>1, <2>2, Zenon
<1>6. ASSUME ShapeInv(list)
      PROVE  /\ list.pages = 1 /\ n # list.tail /\ list.size[list.tail] = 0
             /\ \E q : Shape(list.next, list.prev, list.head, list.tail, list.size, q)
             /\ Coalesced(list.start, list.size)
  <2>1. /\ list.pages = 1 /\ list.size[list.tail] = 0
        /\ \E q : Shape(list.next, list.prev, list.head, list.tail, list.size, q)
        /\ Coalesced(list.start, list.size)
    BY <1>6, Zenon DEF ShapeInv, InShape
  <2>2. list.size[n] # 0
    BY <1>2, <1>3, <1>1
  <2> QED BY <2>1, <2>2, Zenon
<1>7. CASE list.size[n] = k
  <2>1. l = vmm_list_remove_node(list, n)
    BY <1>7, Zenon DEF Allocates
  <2>2. /\ LinksOK(l) /\ l.start = [list.start EXCEPT ![n] = 0] /\ l.size = [list.size EXCEPT ![n] = 0]
    BY <1>1, <2>1, RemoveLinks, Zenon
  <2>3. list.size[n] - k = 0
    BY <1>2, <1>7
  <2>4. Takes(list.start, list.size, alloc, n, k, l.start, l.size, al)
    <3>1. l.start \in [Node -> Nat] /\ l.size \in [Node -> Nat]
      BY <2>2, LinksNodes, Zenon
    <3>2. \A i \in Node \ {n} : l.start[i] = list.start[i] /\ l.size[i] = list.size[i]
      BY <1>2, <2>2, Zenon
    <3>3. l.start[n] = 0 /\ l.size[n] = 0
      BY <1>1, <1>2, <2>2, Zenon
    <3> QED BY <1>4, <1>7, <2>3, <3>1, <3>2, <3>3, Zenon DEF Takes
  <2>5. ASSUME ShapeInv(list) PROVE ShapeInv(l)
    <3>1. PICK q : Shape(list.next, list.prev, list.head, list.tail, list.size, q)
      BY <1>6, <2>5, Zenon
    <3>2. /\ l.pages = 1 /\ l.size[l.tail] = 0
          /\ \E p : Shape(l.next, l.prev, l.head, l.tail, l.size, p)
      BY <1>1, <1>6, <2>1, <2>5, <3>1, RemoveShape, Zenon
    <3> QED BY <1>5, <1>6, <2>4, <2>5, <3>2, Zenon DEF ShapeInv, InShape
  <2> QED BY <1>5, <2>2, <2>4, <2>5, Zenon
<1>8. CASE list.size[n] # k
  <2>1. k < list.size[n] /\ k \in Nat
    BY <1>1, <1>2, <1>3, <1>8
  <2>2. l = Shrunk(list, n, k)
    BY <1>8, Zenon DEF Allocates
  <2>3. /\ l \in ListType /\ SameLinks(list, l)
        /\ l.start = [list.start EXCEPT ![n] = @ + k] /\ l.size = [list.size EXCEPT ![n] = @ - k]
    <3>1. list \in ListType /\ n \in Node
      BY <1>1, <1>2, Zenon
    <3> QED BY <2>1, <2>2, <3>1, ShrinkFields
  <2>4. /\ \A i \in Node \ {n} : l.start[i] = list.start[i] /\ l.size[i] = list.size[i]
        /\ l.start[n] = list.start[n] + k /\ l.size[n] = list.size[n] - k
    BY <1>1, <1>2, <2>3, Zenon
  <2>5. Takes(list.start, list.size, alloc, n, k, l.start, l.size, al)
    <3>1. l.start \in [Node -> Nat] /\ l.size \in [Node -> Nat]
      BY <2>3, Zenon DEF ListType
    <3> QED BY <1>4, <1>8, <2>4, <3>1, Zenon DEF Takes
  <2>6. \A x \in Node : l.size[x] # 0 <=> list.size[x] # 0
    <3>1. l.size[n] # 0 /\ list.size[n] # 0
      BY <1>1, <1>2, <2>1, <2>4
    <3> QED BY <2>4, <3>1, Zenon
  <2>7. /\ LinksOK(l)
        /\ \A q : Shape(list.next, list.prev, list.head, list.tail, list.size, q)
                     => Shape(l.next, l.prev, l.head, l.tail, l.size, q)
    BY <2>3, <2>6, SameLinksOK, Zenon
  <2>8. ASSUME ShapeInv(list) PROVE ShapeInv(l)
    <3>1. PICK q : Shape(list.next, list.prev, list.head, list.tail, list.size, q)
      BY <1>6, <2>8, Zenon
    <3>2. l.pages = 1 /\ l.tail = list.tail
      BY <1>6, <2>3, <2>8, Zenon DEF SameLinks
    <3>3. l.size[l.tail] = 0
      <4>1. list.tail \in Node /\ list.size[list.tail] = 0
        BY <1>6, <2>8, LinksNodes, Zenon
      <4> QED BY <2>6, <3>2, <4>1, Zenon
    <3> QED BY <1>5, <1>6, <2>5, <2>7, <2>8, <3>1, <3>2, <3>3, Zenon DEF ShapeInv, InShape
  <2> QED BY <1>5, <2>5, <2>7, <2>8, Zenon
<1> QED BY <1>7, <1>8, Zenon

(* vmm_free finds a node m that borders on the block at a and ends at e;   *)
(* l is the list after the first merge, al the allocated blocks left.      *)
Merges(a, e, m, l, al) ==
    /\ e = a + alloc[a]
    /\ m = First(list, {k \in Node : Borders(list, k, a, e)}) /\ m # NULL
    /\ l = Expand(list, m, a, e)
    /\ al = alloc_list_find_and_remove(a)

(* The first merge keeps the links, and the blocks are still divided up.   *)
LEMMA FirstMerge ==
    ASSUME Counting, LinksOK(list), BlocksOK(list.start, list.size, alloc), NEW a \in DOMAIN alloc,
           NEW e, NEW m, NEW l, NEW al, Merges(a, e, m, l, al)
    PROVE  /\ LinksOK(l) /\ BlocksOK(l.start, l.size, al) /\ m \in Node /\ OnList(l, m)
           /\ Gives(list.start, list.size, alloc, m, a, l.start, l.size, al)
           /\ l.size[m] # 0 /\ SameLinks(list, l)
           /\ \A x \in Node : l.size[x] # 0 <=> list.size[x] # 0
           /\ \A q : Shape(list.next, list.prev, list.head, list.tail, list.size, q)
                        => Shape(l.next, l.prev, l.head, l.tail, l.size, q)
<1>1. m \in Node /\ Borders(list, m, a, e) /\ OnList(list, m)
  <2> DEFINE S == {k \in Node : Borders(list, k, a, e)}
  <2>1. S \in SUBSET Node /\ m = First(list, S) /\ First(list, S) # NULL
    BY Zenon DEF Merges
  <2> HIDE DEF S
  <2>2. First(list, S) \in S /\ OnList(list, First(list, S))
    BY <2>1, FirstOnList, Zenon
  <2> QED BY <2>1, <2>2, Zenon DEF S
<1>2. /\ list.start \in [Node -> Nat] /\ list.size \in [Node -> Nat] /\ list \in ListType
      /\ a \in Nat /\ alloc[a] \in Nat \ {0} /\ alloc[a] \in Nat
  BY LinksNodes, Zenon DEF LinksOK, BlocksOK
<1>3. /\ DOMAIN al = DOMAIN alloc \ {a}
      /\ \A b \in DOMAIN al : al[b] = alloc[b]
  <2>1. al = [b \in DOMAIN alloc \ {a} |-> alloc[b]]
    BY Zenon DEF Merges, alloc_list_find_and_remove
  <2> QED BY <2>1, Zenon
<1>4. e = a + alloc[a] /\ l = Expand(list, m, a, e)
  BY ZenonT(60) DEF Merges
<1>5. /\ l \in ListType /\ SameLinks(list, l)
      /\ \A i \in Node \ {m} : l.start[i] = list.start[i] /\ l.size[i] = list.size[i]
      /\ l.size[m] = list.size[m] + alloc[a]
      /\ \/ a = list.start[m] + list.size[m] /\ l.start[m] = list.start[m]
         \/ a + alloc[a] = list.start[m] /\ l.start[m] = a
  <2>1. Expanded(list, m, a, alloc[a], Expand(list, m, a, e))
    BY <1>1, <1>2, <1>4, ExpandFields, Zenon
  <2> QED BY <1>4, <2>1, Zenon DEF Expanded
<1>6. l.start \in [Node -> Nat] /\ l.size \in [Node -> Nat]
  BY <1>5, Zenon DEF ListType
<1>7. Gives(list.start, list.size, alloc, m, a, l.start, l.size, al)
  BY <1>3, <1>5, <1>6, Zenon DEF Gives
<1>8. BlocksOK(l.start, l.size, al) /\ list.size[m] # 0
  BY <1>1, <1>7, GiveBlock, Zenon
<1>9. l.size[m] # 0
  BY <1>1, <1>2, <1>5
<1>10. \A x \in Node : l.size[x] # 0 <=> list.size[x] # 0
  BY <1>5, <1>8, <1>9, Zenon
<1>11. /\ LinksOK(l)
       /\ \A n : OnList(list, n) => OnList(l, n)
       /\ \A q : Shape(list.next, list.prev, list.head, list.tail, list.size, q)
                    => Shape(l.next, l.prev, l.head, l.tail, l.size, q)
  BY <1>5, <1>10, SameLinksOK, Zenon
<1> QED BY <1>1, <1>5, <1>7, <1>8, <1>9, <1>10, <1>11, Zenon

(* Node o borders on node m; l is the list after the second merge.         *)
MergesTwo(k, m, a, e, o, l) ==
    /\ a = k.start[m] /\ e = a + k.size[m]
    /\ o = First(k, {x \in Node : Borders(k, x, a, e)}) /\ o # NULL
    /\ l = vmm_list_remove_node(Expand(k, o, a, e), m)

(* The second merge joins two free blocks and keeps the list.              *)
LEMMA SecondMerge ==
    ASSUME Counting, NEW k, NEW al, LinksOK(k), BlocksOK(k.start, k.size, al), NEW m \in Node, OnList(k, m),
           k.size[m] # 0, NEW a, NEW e, NEW o, NEW l, MergesTwo(k, m, a, e, o, l)
    PROVE  /\ LinksOK(l) /\ BlocksOK(l.start, l.size, al) /\ o \in Node
           /\ Joins(k.start, k.size, m, o, l.start, l.size)
           /\ \A q : /\ k.pages = 1 /\ k.size[k.tail] = 0
                     /\ Shape(k.next, k.prev, k.head, k.tail, k.size, q)
                     => /\ l.pages = 1 /\ l.size[l.tail] = 0
                        /\ \E p : Shape(l.next, l.prev, l.head, l.tail, l.size, p)
<1> DEFINE x == Expand(k, o, a, e)
<1>1. o \in Node /\ Borders(k, o, a, e)
  <2> DEFINE S == {i \in Node : Borders(k, i, a, e)}
  <2>1. S \in SUBSET Node /\ o = First(k, S) /\ First(k, S) # NULL
    BY Zenon DEF MergesTwo
  <2> HIDE DEF S
  <2>2. First(k, S) \in S
    BY <2>1, FirstOnList, Zenon
  <2> QED BY <2>1, <2>2, Zenon DEF S
<1>2. /\ k.start \in [Node -> Nat] /\ k.size \in [Node -> Nat] /\ k \in ListType
      /\ k.start[m] \in Nat /\ k.size[m] \in Nat
  BY LinksNodes, ZenonT(60) DEF LinksOK
<1>3. a = k.start[m] /\ e = a + k.size[m] /\ l = vmm_list_remove_node(x, m)
  BY Zenon DEF MergesTwo
<1>4. m # o
  BY <1>1, <1>2, <1>3, SMTT(30) DEF Borders
<1>5. /\ x \in ListType /\ SameLinks(k, x)
      /\ \A i \in Node \ {o} : x.start[i] = k.start[i] /\ x.size[i] = k.size[i]
      /\ x.size[o] = k.size[o] + k.size[m]
      /\ \/ a = k.start[o] + k.size[o] /\ x.start[o] = k.start[o]
         \/ a + k.size[m] = k.start[o] /\ x.start[o] = a
  <2>1. a \in Nat
    BY <1>2, <1>3, Zenon
  <2>2. e = a + k.size[m]
    BY <1>3, Zenon
  <2>3. Expanded(k, o, a, k.size[m], x)
    BY <1>1, <1>2, <2>1, <2>2, ExpandFields, Zenon
  <2> QED BY <2>3, Zenon DEF Expanded
<1> HIDE DEF x
<1>6. k.size[o] # 0
  <2>1. \A n \in Node : (k.size[n] = 0 <=> k.start[n] = 0)
    BY Zenon DEF BlocksOK
  <2>2. k.start[m] # 0
    BY <2>1, Zenon
  <2>3. CASE k.size[o] = 0
    <3>1. k.start[o] = 0
      BY <1>1, <2>1, <2>3, ZenonT(60)
    <3> QED BY <1>2, <1>3, <1>5, <2>2, <2>3, <3>1
  <2> QED BY <2>3, Zenon
<1>7. x.size[o] # 0
  BY <1>1, <1>2, <1>5, <1>6
<1>8. \A i \in Node : x.size[i] # 0 <=> k.size[i] # 0
  BY <1>5, <1>6, <1>7, Zenon
<1>9. /\ LinksOK(x)
      /\ \A n : OnList(k, n) => OnList(x, n)
      /\ \A q : Shape(k.next, k.prev, k.head, k.tail, k.size, q)
                   => Shape(x.next, x.prev, x.head, x.tail, x.size, q)
  BY <1>5, <1>8, SameLinksOK, Zenon
<1>10. /\ LinksOK(l)
       /\ l.start = [x.start EXCEPT ![m] = 0] /\ l.size = [x.size EXCEPT ![m] = 0]
  BY <1>3, <1>9, RemoveLinks, Zenon
<1>11. x.start \in [Node -> Nat] /\ x.size \in [Node -> Nat]
  BY <1>9, LinksNodes, Zenon
<1>12. l.start \in [Node -> Nat] /\ l.size \in [Node -> Nat]
  BY <1>10, LinksNodes, Zenon
<1>13. Joins(k.start, k.size, m, o, l.start, l.size)
  <2>1. l.start[m] = 0 /\ l.size[m] = 0 /\ l.start[o] = x.start[o] /\ l.size[o] = x.size[o]
    BY <1>1, <1>4, <1>10, <1>11, Zenon
  <2>2. \A i \in Node \ {m, o} : l.start[i] = k.start[i] /\ l.size[i] = k.size[i]
    BY <1>5, <1>10, <1>11, ZenonT(60)
  <2>3. \/ k.start[m] = k.start[o] + k.size[o] /\ l.start[o] = k.start[o]
        \/ k.start[m] + k.size[m] = k.start[o] /\ l.start[o] = k.start[m]
    BY <1>3, <1>5, <2>1, Zenon
  <2> QED BY <1>4, <1>5, <1>12, <2>1, <2>2, <2>3, Zenon DEF Joins
<1>14. BlocksOK(l.start, l.size, al)
  BY <1>1, <1>13, JoinBlocks, Zenon
<1>15. ASSUME NEW q, k.pages = 1, k.size[k.tail] = 0,
              Shape(k.next, k.prev, k.head, k.tail, k.size, q)
       PROVE  /\ l.pages = 1 /\ l.size[l.tail] = 0
              /\ \E p : Shape(l.next, l.prev, l.head, l.tail, l.size, p)
  <2>1. x.pages = 1 /\ m # x.tail
    BY <1>5, <1>15, Zenon DEF SameLinks
  <2>2. Shape(x.next, x.prev, x.head, x.tail, x.size, q)
    BY <1>9, <1>15, Zenon
  <2> QED BY <1>3, <1>9, <2>1, <2>2, RemoveShape, Zenon
<1> QED BY <1>1, <1>10, <1>13, <1>14, <1>15, Zenon

(* vmm_free with a node to merge with keeps the list and the blocks.       *)
LEMMA FreeMerge ==
    ASSUME Counting, LinksOK(list), BlocksOK(list.start, list.size, alloc), NEW a \in DOMAIN alloc,
           NEW e, NEW m, NEW k, NEW al, Merges(a, e, m, k, al)
    PROVE  LET l == MergeAgain(k, m)
           IN  /\ LinksOK(l) /\ BlocksOK(l.start, l.size, al)
               /\ ShapeInv(list) => ShapeInv(l)
<1> DEFINE l == MergeAgain(k, m)
<1>1. /\ LinksOK(k) /\ BlocksOK(k.start, k.size, al) /\ m \in Node /\ OnList(k, m)
      /\ Gives(list.start, list.size, alloc, m, a, k.start, k.size, al)
      /\ k.size[m] # 0 /\ SameLinks(list, k)
      /\ \A x \in Node : k.size[x] # 0 <=> list.size[x] # 0
      /\ \A q : Shape(list.next, list.prev, list.head, list.tail, list.size, q)
                   => Shape(k.next, k.prev, k.head, k.tail, k.size, q)
  BY FirstMerge, Zenon
<1>2. ASSUME ShapeInv(list) PROVE InShape(k) /\ Coalesced(list.start, list.size)
  <2>1. list.tail \in Node
    BY LinksNodes, Zenon
  <2>2. k.pages = list.pages /\ k.tail = list.tail
    BY <1>1, Zenon DEF SameLinks
  <2> QED BY <1>1, <1>2, <2>1, <2>2, Zenon DEF ShapeInv, InShape
<1>3. PICK c, d, o : /\ c = k.start[m] /\ d = c + k.size[m]
                     /\ o = First(k, {x \in Node : Borders(k, x, c, d)})
  BY Zenon
<1>4. l = IF o = NULL THEN k ELSE vmm_list_remove_node(Expand(k, o, c, d), m)
  BY <1>3, Zenon DEF MergeAgain
<1> HIDE DEF l
<1>5. CASE o = NULL
  <2>1. l = k
    BY <1>4, <1>5, Zenon
  <2>2. ASSUME ShapeInv(list) PROVE ShapeInv(k)
    <3>1. NoBorder(k.start, k.size, c, k.size[m])
      <4>1. InShape(k) /\ d = c + k.size[m] /\ First(k, {x \in Node : Borders(k, x, c, d)}) = NULL
        BY <1>2, <1>3, <1>5, <2>2, Zenon
      <4> QED BY <1>1, <4>1, NoneBorders, Zenon
    <3>2. NoBorder(k.start, k.size, k.start[m], k.size[m])
      BY <1>3, <3>1, Zenon
    <3>3. Coalesced(k.start, k.size)
      BY <1>1, <1>2, <2>2, <3>2, GiveCoalesced, Zenon
    <3> QED BY <1>2, <2>2, <3>3, Zenon DEF ShapeInv
  <2> QED BY <1>1, <2>1, <2>2, Zenon DEF l
<1>6. CASE o # NULL
  <2>1. MergesTwo(k, m, c, d, o, l)
    BY <1>3, <1>4, <1>6, Zenon DEF MergesTwo
  <2>2. /\ LinksOK(l) /\ BlocksOK(l.start, l.size, al) /\ o \in Node
        /\ Joins(k.start, k.size, m, o, l.start, l.size)
        /\ \A q : /\ k.pages = 1 /\ k.size[k.tail] = 0
                  /\ Shape(k.next, k.prev, k.head, k.tail, k.size, q)
                  => /\ l.pages = 1 /\ l.size[l.tail] = 0
                     /\ \E p : Shape(l.next, l.prev, l.head, l.tail, l.size, p)
    BY <1>1, <2>1, SecondMerge, Zenon
  <2>3. ASSUME ShapeInv(list) PROVE ShapeInv(l)
    <3>1. Coalesced(l.start, l.size)
      BY <1>1, <1>2, <2>2, <2>3, JoinCoalesced, Zenon
    <3>2. InShape(l)
      BY <1>2, <2>2, <2>3, Zenon DEF InShape
    <3> QED BY <3>1, <3>2, Zenon DEF ShapeInv
  <2> QED BY <2>2, <2>3, Zenon DEF l
<1> QED BY <1>5, <1>6, Zenon

(* The tail node, empty and with a node before it, becomes the head.       *)
LEMMA FrontLinks ==
    ASSUME NEW k, LinksOK(k), k.prev[k.tail] # NULL, k.head # NULL, NEW a \in Nat, NEW n \in Nat
    PROVE  LET l == TailToHead(k, a, n)
           IN  /\ LinksOK(l)
               /\ l.start = [k.start EXCEPT ![k.tail] = a] /\ l.size = [k.size EXCEPT ![k.tail] = n]
               /\ l.head = k.tail /\ l.tail = k.prev[k.tail] /\ l.pages = k.pages
               /\ Fronts(k.next, k.prev, k.head, k.tail, l.next, l.prev)
<1> DEFINE l == TailToHead(k, a, n)  top == K * k.pages
<1>1. /\ top \in Nat /\ 1..top \subseteq Node /\ k.next \in Links /\ k.prev \in Links
      /\ k.tail \in Node /\ k.head \in Node /\ k.size \in [Node -> Nat]
  BY LinksNodes, Zenon
<1> HIDE DEF top
<1>2. /\ k \in ListType /\ k.tail \in 1..top
      /\ \A x \in 1..top : k.prev[x] = NULL \/ k.prev[x] \in 1..top
      /\ \A x \in Node : x \notin 1..top => k.size[x] = 0
  BY Zenon DEF LinksOK, top
<1>3. PICK r, h : Chain(k.next, k.prev, k.head, top, r, h)
  BY Zenon DEF LinksOK, top
<1>4. k.prev[k.tail] \in 1..top /\ k.prev[k.tail] \in Node
  BY <1>1, <1>2, Zenon
<1>5. k.head # k.tail
  <2>1. k.head = h[1] /\ r # 0 /\ r \in Nat
    BY <1>3, Zenon DEF Chain
  <2>2. 1 \in 1..r
    BY <2>1
  <2>3. k.prev[h[1]] = NULL \/ 1 > 1
    BY <1>3, <2>2, Zenon DEF Chain
  <2>4. k.prev[k.head] = NULL
    BY <2>1, <2>3
  <2> QED BY <2>4, Zenon
<1>6. /\ l \in ListType
      /\ l.start = [k.start EXCEPT ![k.tail] = a] /\ l.size = [k.size EXCEPT ![k.tail] = n]
      /\ l.head = k.tail /\ l.tail = k.prev[k.tail] /\ l.pages = k.pages
      /\ Fronts(k.next, k.prev, k.head, k.tail, l.next, l.prev)
  BY <1>1, <1>2, <1>4, <1>5, FrontFields, Zenon
<1> HIDE DEF l
<1>7. \E s, g : Chain(l.next, l.prev, k.tail, top, s, g)
  BY <1>1, <1>2, <1>3, <1>4, <1>6, ChainFront, Zenon
<1>8. ASSUME NEW x \in 1..top PROVE l.prev[x] = NULL \/ l.prev[x] \in 1..top
  <2>1. l.prev[x] = IF x = k.head THEN k.tail ELSE IF x = k.tail THEN NULL ELSE k.prev[x]
    BY <1>1, <1>6, Zenon DEF Fronts
  <2> QED BY <1>2, <2>1, Zenon
<1>9. ASSUME NEW x \in Node, x \notin 1..top PROVE l.size[x] = 0
  BY <1>1, <1>2, <1>6, <1>9, Zenon
<1>10. LinksOK(l)
  BY <1>4, <1>6, <1>7, <1>8, <1>9, Zenon DEF LinksOK, top
<1> QED BY <1>6, <1>10, Zenon DEF l

(* A page of nodes is appended to the list.                                *)
LEMMA AppendLinks ==
    ASSUME Counting, NEW k, LinksOK(k), k.head # NULL, k.pages < MaxPages
    PROVE  LET l == AppendPage(k)
           IN  /\ LinksOK(l) /\ l.start = k.start /\ l.size = k.size /\ l.head # NULL
               /\ l.prev[l.tail] # NULL /\ l.size[l.tail] = 0
<1> DEFINE l == AppendPage(k)  top == K * k.pages
           S == {x \in Node : k.next[x] = NULL}
<1>1. /\ top \in Nat /\ 1..top \subseteq Node /\ k.next \in Links /\ k.prev \in Links
      /\ k.pages \in 1..MaxPages
  BY LinksNodes, Zenon
<1>2. /\ K \in Nat /\ K > 1 /\ top + K \in Nat /\ top \in Nat
      /\ K * (k.pages + 1) = top + K /\ 1..(top + K) \subseteq Node
      /\ 1..top \subseteq 1..(top + K)
  <2>1. /\ K * (k.pages + 1) = top + K /\ K * MaxPages \in Nat /\ top + K <= K * MaxPages
    BY <1>1, PageNodes
  <2> HIDE DEF top
  <2> QED BY <1>1, <2>1, Sizes DEF Node
<1> HIDE DEF top
<1>3. /\ k \in ListType
      /\ \A x \in 1..top : k.prev[x] = NULL \/ k.prev[x] \in 1..top
      /\ \A x \in Node : x \notin 1..top => k.size[x] = 0
  BY Zenon DEF LinksOK, top
<1>4. PICK r, h : Chain(k.next, k.prev, k.head, top, r, h)
  BY Zenon DEF LinksOK, top
<1>5. /\ r \in Nat /\ r # 0 /\ r \in 1..r /\ h \in [1..r -> 1..top]
      /\ \A i \in 1..r : h[i] \in Node /\ h[i] # NULL
      /\ \A i \in 1..r : k.next[h[i]] = IF i = r THEN NULL ELSE h[i + 1]
  <2>1. /\ r \in Nat /\ r # 0 /\ h \in [1..r -> 1..top]
        /\ \A i \in 1..r : k.next[h[i]] = IF i = r THEN NULL ELSE h[i + 1]
    BY <1>4, Zenon DEF Chain
  <2>2. \A i \in 1..r : h[i] \in Node
    BY <1>1, <2>1, Zenon
  <2> QED BY <2>1, <2>2, NullIsNoNode
<1>6. S \in SUBSET Node /\ h[r] \in S
  BY <1>5, Zenon
<1>7. /\ First(k, S) = NULL => \A i \in 1..r : h[i] \notin S
      /\ First(k, S) # NULL => \E j \in 1..r : h[j] = First(k, S) /\ h[j] \in S
  <2>1. Chain(k.next, k.prev, k.head, K * k.pages, r, h) /\ S \in SUBSET Node
    BY <1>4, <1>6, Zenon DEF top
  <2> HIDE DEF S
  <2>2. \A p \in 1..MaxPages, T \in SUBSET Node : Chain(k.next, k.prev, k.head, K * p, r, h) =>
          /\ First(k, T) = NULL => \A i \in 1..r : h[i] \notin T
          /\ First(k, T) # NULL => \E j \in 1..r : h[j] = First(k, T) /\ h[j] \in T
    BY FirstChain, SMTT(30)
  <2> QED BY <1>1, <2>1, <2>2, Zenon
<1>8. First(k, S) = h[r]
  <2>1. PICK j \in 1..r : h[j] = First(k, S) /\ h[j] \in S
    BY <1>5, <1>6, <1>7, Zenon
  <2>2. k.next[h[j]] = NULL
    BY <2>1, Zenon
  <2>3. j = r
    <3>1. j # r => j + 1 \in 1..r
      BY <1>5
    <3> QED BY <1>5, <2>2, <3>1, Zenon
  <2> QED BY <2>1, <2>3, Zenon
<1>9. h[r] \in 1..(K * k.pages) /\ h[r] = First(k, {x \in Node : k.next[x] = NULL})
  BY <1>5, <1>8, Zenon DEF top
<1>10. /\ l \in ListType
       /\ l.start = k.start /\ l.size = k.size /\ l.head = k.head
       /\ l.tail = top + K /\ l.pages = k.pages + 1
       /\ Appends(k.next, k.prev, top, h[r], l.next, l.prev)
  BY <1>3, <1>9, AppendFields, Zenon DEF top
<1> HIDE DEF l
<1>11. \E s, g : Chain(l.next, l.prev, l.head, top + K, s, g)
  <2>1. \E s, g : Chain(l.next, l.prev, k.head, top + K, s, g)
    BY <1>1, <1>2, <1>4, <1>5, <1>10, ChainAppend, Zenon
  <2> QED BY <1>10, <2>1, Zenon
<1>12. ASSUME NEW x \in 1..(top + K) PROVE l.prev[x] = NULL \/ l.prev[x] \in 1..(top + K)
  <2>1. l.prev[x] = IF x \in (top + 1)..(top + K) THEN IF x = top + 1 THEN NULL ELSE x - 1
                    ELSE k.prev[x]
    BY <1>2, <1>10, Zenon DEF Appends
  <2>2. CASE x \in (top + 1)..(top + K)
    BY <1>2, <2>1, <2>2
  <2>3. CASE x \notin (top + 1)..(top + K)
    <3>1. x \in 1..top
      BY <1>2, <2>3
    <3> QED BY <1>2, <1>3, <2>1, <2>3, <3>1, Zenon
  <2> QED BY <2>2, <2>3, Zenon
<1>13. l.tail \in 1..(top + K) /\ l.tail \in Node /\ l.tail \notin 1..top
  <2>1. top + K \in 1..(top + K) /\ top + K \notin 1..top
    BY <1>2
  <2> QED BY <1>2, <1>10, <2>1, Zenon
<1>14. l.prev[l.tail] # NULL
  <2>1. PICK z \in Node : z = l.tail /\ z = top + K
    BY <1>10, <1>13, Zenon
  <2>2. \A x \in Node :
           l.prev[x] = IF x \in (top + 1)..(top + K) THEN IF x = top + 1 THEN NULL ELSE x - 1
                       ELSE k.prev[x]
    BY <1>10, Zenon DEF Appends
  <2>3. l.prev[z] # NULL
    BY <1>2, <2>1, <2>2 DEF NULL
  <2> QED BY <2>1, <2>3, Zenon
<1>15. l.size[l.tail] = 0
  BY <1>3, <1>10, <1>13, Zenon
<1>16. ASSUME NEW x \in Node, x \notin 1..(top + K) PROVE l.size[x] = 0
  BY <1>2, <1>3, <1>10, <1>16, Zenon
<1>17. LinksOK(l)
  <2>1. K * l.pages = top + K
    BY <1>2, <1>10
  <2> QED BY <1>10, <1>11, <1>12, <1>13, <1>16, <2>1, Zenon DEF LinksOK
<1> QED BY <1>10, <1>14, <1>15, <1>17, Zenon DEF l

(* vmm_free finds no node to merge with the block at a.                    *)
Pushes(a, e, k, l, al) ==
    /\ e = a + alloc[a]
    /\ First(list, {x \in Node : Borders(list, x, a, e)}) = NULL
    /\ CanPush(list) /\ PageLeft(list)
    /\ k = IF list.start[list.tail] # 0 THEN AppendPage(list) ELSE list
    /\ l = TailToHead(k, a, alloc[a])
    /\ al = alloc_list_find_and_remove(a)

(* vmm_free without a node to merge with keeps the list and the blocks;    *)
(* the list keeps its shape if its new tail is empty.                      *)
LEMMA FreePush ==
    ASSUME Counting, LinksOK(list), BlocksOK(list.start, list.size, alloc), NEW a \in DOMAIN alloc,
           NEW e, NEW k, NEW l, NEW al, Pushes(a, e, k, l, al)
    PROVE  /\ LinksOK(l) /\ BlocksOK(l.start, l.size, al)
           /\ ShapeInv(list) /\ l.size[l.tail] = 0 => ShapeInv(l)
<1>1. /\ list.start \in [Node -> Nat] /\ list.size \in [Node -> Nat] /\ list.tail \in Node
      /\ list.pages \in 1..MaxPages
      /\ a \in Nat \ {0} /\ a \in Nat /\ alloc[a] \in Nat \ {0} /\ alloc[a] \in Nat
      /\ list.size[list.tail] = 0 <=> list.start[list.tail] = 0
  BY LinksNodes, Zenon DEF BlocksOK
<1>2. /\ list.head # NULL
      /\ list.start[list.tail] # 0 => list.pages < MaxPages
      /\ list.start[list.tail] = 0 => list.prev[list.tail] # NULL
  BY Zenon DEF Pushes, CanPush, PageLeft
<1>3. /\ LinksOK(k) /\ k.start = list.start /\ k.size = list.size /\ k.head # NULL
      /\ k.prev[k.tail] # NULL /\ k.size[k.tail] = 0
  <2>1. CASE list.start[list.tail] # 0
    <3>1. k = AppendPage(list)
      BY <2>1, Zenon DEF Pushes
    <3> QED BY <1>2, <2>1, <3>1, AppendLinks, Zenon
  <2>2. CASE list.start[list.tail] = 0
    <3>1. k = list
      BY <2>2, Zenon DEF Pushes
    <3> QED BY <1>1, <1>2, <2>2, <3>1, Zenon
  <2> QED BY <2>1, <2>2, Zenon
<1>4. l = TailToHead(k, a, alloc[a])
  BY Zenon DEF Pushes
<1>5. /\ LinksOK(l)
      /\ l.start = [k.start EXCEPT ![k.tail] = a] /\ l.size = [k.size EXCEPT ![k.tail] = alloc[a]]
      /\ l.head = k.tail /\ l.tail = k.prev[k.tail] /\ l.pages = k.pages
      /\ Fronts(k.next, k.prev, k.head, k.tail, l.next, l.prev)
  <2>1. PICK n \in Nat : n = alloc[a]
    BY <1>1, Zenon
  <2>2. l = TailToHead(k, a, n) /\ LinksOK(k) /\ k.head # NULL /\ k.prev[k.tail] # NULL /\ a \in Nat
    BY <1>1, <1>3, <1>4, <2>1, ZenonT(60)
  <2>3. /\ LinksOK(l)
        /\ l.start = [k.start EXCEPT ![k.tail] = a] /\ l.size = [k.size EXCEPT ![k.tail] = n]
        /\ l.head = k.tail /\ l.tail = k.prev[k.tail] /\ l.pages = k.pages
        /\ Fronts(k.next, k.prev, k.head, k.tail, l.next, l.prev)
    BY <2>1, <2>2, FrontLinks, SMTT(30)
  <2> QED BY <2>1, <2>3, Zenon
<1>6. /\ DOMAIN al = DOMAIN alloc \ {a}
      /\ \A b \in DOMAIN al : al[b] = alloc[b]
  <2>1. al = [b \in DOMAIN alloc \ {a} |-> alloc[b]]
    BY Zenon DEF Pushes, alloc_list_find_and_remove
  <2> QED BY <2>1, Zenon
<1>7. Puts(list.start, list.size, alloc, k.tail, a, l.start, l.size, al)
  BY <1>3, <1>5, <1>6, Zenon DEF Puts
<1>8. k.tail \in Node /\ list.size[k.tail] = 0
  <2>1. k.tail \in Node
    BY <1>3, LinksNodes, Zenon
  <2> QED BY <1>3, <2>1, Zenon
<1>9. BlocksOK(l.start, l.size, al)
  BY <1>7, <1>8, PutBlock, Zenon
<1>10. ASSUME ShapeInv(list), l.size[l.tail] = 0 PROVE ShapeInv(l)
  <2>1. list.size[list.tail] = 0 /\ list.pages = 1 /\ InShape(list) /\ Coalesced(list.start, list.size)
    BY <1>10, Zenon DEF ShapeInv, InShape
  <2>2. k = list
    BY <1>1, <2>1, Zenon DEF Pushes
  <2>3. PICK q : Shape(list.next, list.prev, list.head, list.tail, list.size, q)
    BY <2>1, Zenon DEF InShape
  <2>4. SameUse(list.size, l.size, list.tail) /\ l.size[list.tail] # 0
    BY <1>1, <1>5, <2>2, Zenon DEF SameUse
  <2>5. Fronts(list.next, list.prev, list.head, list.tail, l.next, l.prev)
    BY <1>5, <2>2, Zenon
  <2>6. \E p : Shape(l.next, l.prev, list.tail, list.prev[list.tail], l.size, p)
    BY <2>3, <2>4, <2>5, ShapeFront, Zenon
  <2>7. l.head = list.tail /\ l.tail = list.prev[list.tail] /\ l.pages = 1
    BY <1>5, <2>1, <2>2, Zenon
  <2>8. InShape(l)
    BY <1>10, <2>6, <2>7, Zenon DEF InShape
  <2>9. NoBorder(list.start, list.size, a, alloc[a])
    <3>1. e = a + alloc[a] /\ First(list, {x \in Node : Borders(list, x, a, e)}) = NULL
      BY Zenon DEF Pushes
    <3> QED BY <2>1, <3>1, NoneBorders, Zenon
  <2>10. Coalesced(l.start, l.size)
    BY <1>7, <1>8, <2>1, <2>9, PutCoalesced, Zenon
  <2> QED BY <2>8, <2>10, Zenon DEF ShapeInv
<1> QED BY <1>5, <1>9, <1>10, Zenon

-----------------------------------------------------------------------------

(* The pages of the allocated blocks al.                                   *)
Frames(al) == UNION {Block(a, al[a]) : a \in DOMAIN al}

(* al2 has one block more than al, or one less.                            *)
More(al, a, k, al2) ==
    /\ a \notin DOMAIN al /\ DOMAIN al2 = DOMAIN al \cup {a}
    /\ \A b \in DOMAIN al2 : al2[b] = IF b = a THEN k ELSE al[b]

Less(al, a, al2) ==
    /\ a \in DOMAIN al /\ DOMAIN al2 = DOMAIN al \ {a}
    /\ \A b \in DOMAIN al2 : al2[b] = al[b]

(* One more block has its pages more.                                      *)
LEMMA FramesMore ==
    ASSUME NEW al, NEW a, NEW k, NEW al2, More(al, a, k, al2)
    PROVE  Frames(al2) = Frames(al) \cup Block(a, k)
<1> USE DEF More
<1>1. ASSUME NEW p, p \in Frames(al2) PROVE p \in Frames(al) \cup Block(a, k)
  <2>1. PICK b \in DOMAIN al2 : p \in Block(b, al2[b])
    BY <1>1, Zenon DEF Frames
  <2> QED BY <2>1, Zenon DEF Frames
<1>2. ASSUME NEW p, p \in Block(a, k) PROVE p \in Frames(al2)
  BY <1>2, Zenon DEF Frames
<1>3. ASSUME NEW p, p \in Frames(al) PROVE p \in Frames(al2)
  <2>1. PICK b \in DOMAIN al : p \in Block(b, al[b])
    BY <1>3, Zenon DEF Frames
  <2>2. b \in DOMAIN al2 /\ al2[b] = al[b]
    BY <2>1, Zenon
  <2> QED BY <2>1, <2>2, Zenon DEF Frames
<1> QED BY <1>1, <1>2, <1>3, Zenon

(* Blocks that are apart share no page.                                    *)
LEMMA ApartBlocks ==
    ASSUME NEW s \in Nat, NEW m \in Nat, NEW t \in Nat, NEW n \in Nat, NEW p,
           p \in Block(s, m), p \in Block(t, n)
    PROVE  ~Apart(s, m, t, n)
BY DEF Block, Apart

(* One block less has its pages less.                                      *)
LEMMA FramesLess ==
    ASSUME NEW st, NEW sz, NEW al, BlocksOK(st, sz, al), NEW a, NEW al2, Less(al, a, al2)
    PROVE  Frames(al2) = Frames(al) \ Block(a, al[a])
<1> USE DEF Less
<1>1. ASSUME NEW p, p \in Frames(al2) PROVE p \in Frames(al) \ Block(a, al[a])
  <2>1. PICK b \in DOMAIN al2 : p \in Block(b, al2[b])
    BY <1>1, Zenon DEF Frames
  <2>2. b \in DOMAIN al /\ b # a /\ p \in Block(b, al[b])
    BY <2>1, Zenon
  <2>3. /\ Apart(a, al[a], b, al[b])
        /\ a \in Nat /\ al[a] \in Nat /\ b \in Nat /\ al[b] \in Nat
    BY <2>2, Zenon DEF BlocksOK
  <2>4. p \notin Block(a, al[a])
    BY <2>2, <2>3, ApartBlocks, Zenon
  <2> QED BY <2>2, <2>4, Zenon DEF Frames
<1>2. ASSUME NEW p, p \in Frames(al), p \notin Block(a, al[a]) PROVE p \in Frames(al2)
  <2>1. PICK b \in DOMAIN al : p \in Block(b, al[b])
    BY <1>2, Zenon DEF Frames
  <2>2. b \in DOMAIN al2 /\ p \in Block(b, al2[b])
    BY <1>2, <2>1, Zenon
  <2> QED BY <2>2, Zenon DEF Frames
<1> QED BY <1>1, <1>2, Zenon

(* The inductive invariant.                                                *)
IInv ==
    /\ LinksOK(list) /\ BlocksOK(list.start, list.size, alloc)
    /\ full \in BOOLEAN /\ (~full => ShapeInv(list))
    /\ FramesFollowBlocks
    /\ phase \in {"running", "out of memory", "null dereference"}
    /\ phase = "null dereference" => full

(* While the list keeps its shape, vmm_free can put a block before its     *)
(* head.                                                                   *)
LEMMA ShapeCanPush ==
    ASSUME LinksOK(list), BlocksOK(list.start, list.size, alloc), ShapeInv(list)
    PROVE  CanPush(list)
<1>1. PICK q : Shape(list.next, list.prev, list.head, list.tail, list.size, q)
  BY Zenon DEF ShapeInv, InShape
<1>2. /\ \A i \in 1..K : q[i] # NULL
      /\ K \in Nat /\ K > 1 /\ 1 \in 1..K /\ K \in 1..K
  BY <1>1, ShapeFacts, Zenon
<1>3. list.head = q[1] /\ list.tail = q[K] /\ list.prev[q[K]] = IF K = 1 THEN NULL ELSE q[K - 1]
  BY <1>1, <1>2, Zenon DEF Shape
<1>4. K # 1 /\ K - 1 \in 1..K
  BY <1>2
<1> QED BY <1>2, <1>3, <1>4, Zenon DEF CanPush

(* vmm_alloc keeps the invariant.                                          *)
LEMMA AllocIInv ==
    ASSUME Counting, IInv, NEW k \in 1..V, vmm_alloc(k)
    PROVE  IInv'
<1>1. CASE Stop("out of memory")
  BY <1>1, Zenon DEF IInv, Stop, LinksOK, FramesFollowBlocks, ShapeInv, InShape, OnList
<1>2. CASE ~Stop("out of memory")
  <2>1. PICK n : n = First(list, {m \in Node : list.size[m] >= k})
    BY Zenon
  <2>2. /\ n # NULL
        /\ SetList(IF list.size[n] = k THEN vmm_list_remove_node(list, n) ELSE Shrunk(list, n, k))
        /\ alloc' = alloc_list_add_node(list.start[n], k)
        /\ backed' = backed \cup Block(list.start[n], k)
        /\ phase' = phase /\ phase = "running"
    BY <1>2, <2>1, Zenon DEF vmm_alloc, Shrunk
  <2>3. Allocates(k, n, list', alloc') /\ full' = (full \/ list'.size[list'.tail] # 0)
    BY <2>1, <2>2, Zenon DEF Allocates, SetList
  <2>4. /\ LinksOK(list') /\ BlocksOK(list'.start, list'.size, alloc')
        /\ list.start[n] \notin DOMAIN alloc
        /\ ShapeInv(list) => ShapeInv(list')
    BY <2>3, AllocList, Zenon DEF IInv
  <2>5. backed' = Frames(alloc')
    <3>1. alloc' = [b \in DOMAIN alloc \cup {list.start[n]} |-> IF b = list.start[n] THEN k ELSE alloc[b]]
      BY <2>2, Zenon DEF alloc_list_add_node
    <3>2. /\ DOMAIN alloc' = DOMAIN alloc \cup {list.start[n]}
          /\ \A b \in DOMAIN alloc' : alloc'[b] = IF b = list.start[n] THEN k ELSE alloc[b]
      BY <3>1, Zenon
    <3>3. Frames(alloc') = Frames(alloc) \cup Block(list.start[n], k)
      <4>1. PICK a : a = list.start[n]
        BY Zenon
      <4>2. More(alloc, a, k, alloc')
        BY <2>4, <3>2, <4>1, Zenon DEF More
      <4>3. Frames(alloc') = Frames(alloc) \cup Block(a, k)
        BY <4>2, FramesMore, Zenon
      <4> QED BY <4>1, <4>3, Zenon
    <3> QED BY <2>2, <3>3, Zenon DEF IInv, FramesFollowBlocks, Frames
  <2>6. full' \in BOOLEAN /\ (~full' => ShapeInv(list'))
    BY <2>3, <2>4, Zenon DEF IInv
  <2>7. phase' \in {"running", "out of memory", "null dereference"} /\ phase' # "null dereference"
    BY <2>2
  <2>8. LinksOK(list)' /\ BlocksOK(list.start, list.size, alloc)' /\ ShapeInv(list)' = ShapeInv(list')
    BY <2>4, Zenon DEF LinksOK, BlocksOK, ShapeInv, InShape
  <2> QED BY <2>5, <2>6, <2>7, <2>8, Zenon DEF IInv, FramesFollowBlocks, Frames
<1> QED BY <1>1, <1>2, Zenon

(* vmm_free keeps the invariant.                                           *)
LEMMA FreeIInv ==
    ASSUME Counting, IInv, NEW a \in DOMAIN alloc, vmm_free(a)
    PROVE  IInv'
<1>1. PICK e, m : e = a + alloc[a] /\ m = First(list, {k \in Node : Borders(list, k, a, e)})
  BY Zenon
<1>2. CASE m = NULL /\ ~CanPush(list) /\ Stop("null dereference")
  <2>1. full
    BY <1>2, ShapeCanPush, Zenon DEF IInv
  <2>2. phase' = "null dereference" /\ list' = list /\ alloc' = alloc /\ backed' = backed /\ full' = full
    BY <1>2, Zenon DEF Stop
  <2>3. LinksOK(list)' /\ BlocksOK(list.start, list.size, alloc)' /\ ShapeInv(list)' = ShapeInv(list)
    BY <2>2, Zenon DEF IInv, LinksOK, BlocksOK, ShapeInv, InShape
  <2> QED BY <2>1, <2>2, <2>3, Zenon DEF IInv, FramesFollowBlocks
<1>3. CASE /\ m # NULL \/ (CanPush(list) /\ PageLeft(list))
           /\ SetList(IF m # NULL THEN MergeAgain(Expand(list, m, a, e), m)
                      ELSE PushHead(list, a, alloc[a]))
           /\ alloc' = alloc_list_find_and_remove(a)
           /\ backed' = backed \ Block(a, alloc[a])
           /\ phase' = phase /\ phase = "running"
  <2>1. full' = (full \/ list'.size[list'.tail] # 0)
    BY <1>3, Zenon DEF SetList
  <2>2. /\ LinksOK(list') /\ BlocksOK(list'.start, list'.size, alloc')
        /\ ShapeInv(list) /\ list'.size[list'.tail] = 0 => ShapeInv(list')
    <3>1. CASE m # NULL
      <4>1. PICK k : k = Expand(list, m, a, e)
        BY Zenon
      <4>2. Merges(a, e, m, k, alloc') /\ list' = MergeAgain(k, m)
        BY <1>1, <1>3, <3>1, <4>1, Zenon DEF Merges, SetList
      <4>3. LET l == MergeAgain(k, m)
            IN  /\ LinksOK(l) /\ BlocksOK(l.start, l.size, alloc')
                /\ ShapeInv(list) => ShapeInv(l)
        BY <4>2, FreeMerge, Zenon DEF IInv
      <4> QED BY <4>2, <4>3, Zenon
    <3>2. CASE m = NULL
      <4>1. PICK k : k = IF list.start[list.tail] # 0 THEN AppendPage(list) ELSE list
        BY Zenon
      <4>2. Pushes(a, e, k, list', alloc')
        BY <1>1, <1>3, <3>2, <4>1, Zenon DEF Pushes, SetList, PushHead
      <4> QED BY <4>2, FreePush, Zenon DEF IInv
    <3> QED BY <3>1, <3>2, Zenon
  <2>3. backed' = Frames(alloc')
    <3>1. alloc' = [b \in DOMAIN alloc \ {a} |-> alloc[b]]
      BY <1>3, Zenon DEF alloc_list_find_and_remove
    <3>2. DOMAIN alloc' = DOMAIN alloc \ {a} /\ \A b \in DOMAIN alloc' : alloc'[b] = alloc[b]
      BY <3>1, Zenon
    <3>3. Frames(alloc') = Frames(alloc) \ Block(a, alloc[a])
      <4>1. BlocksOK(list.start, list.size, alloc) /\ Less(alloc, a, alloc')
        BY <3>2, Zenon DEF IInv, Less
      <4> QED BY <4>1, FramesLess, Zenon
    <3> QED BY <1>3, <3>3, Zenon DEF IInv, FramesFollowBlocks, Frames
  <2>4. full' \in BOOLEAN /\ (~full' => ShapeInv(list'))
    BY <2>1, <2>2, Zenon DEF IInv
  <2>5. phase' \in {"running", "out of memory", "null dereference"} /\ phase' # "null dereference"
    BY <1>3
  <2>6. LinksOK(list)' /\ BlocksOK(list.start, list.size, alloc)' /\ ShapeInv(list)' = ShapeInv(list')
    BY <2>2, Zenon DEF LinksOK, BlocksOK, ShapeInv, InShape
  <2> QED BY <2>3, <2>4, <2>5, <2>6, Zenon DEF IInv, FramesFollowBlocks, Frames
<1> QED BY <1>1, <1>2, <1>3, Zenon DEF vmm_free

(* The list that vmm_init sets up.                                         *)
LEMMA InitFields ==
    ASSUME Init
    PROVE  /\ list \in ListType /\ list.head = 1 /\ list.tail = K /\ list.pages = 1
           /\ \A n \in Node : list.start[n] = IF n = 1 THEN 1 ELSE 0
           /\ \A n \in Node : list.size[n] = IF n = 1 THEN V ELSE 0
           /\ \A n \in Node : list.next[n] = IF n \in 1..(K - 1) THEN n + 1 ELSE NULL
           /\ \A n \in Node : list.prev[n] = IF n \in 2..K THEN n - 1 ELSE NULL
<1> DEFINE zero == [n \in Node |-> 0]
           l == [start |-> zero, size |-> zero, prev |-> zero, next |-> zero,
                 head |-> 1, tail |-> NULL, pages |-> 0]
           s == SetUpPage(l, 1)
           pv == [n \in Node |-> IF n \in 1..K THEN IF n = 1 THEN NULL ELSE n - 1 ELSE 0]
           nx == [n \in Node |-> IF n \in 1..K THEN IF n = K THEN NULL ELSE n + 1 ELSE 0]
<1>1. (1 - 1) * K + 1 = 1 /\ 1 * K = K /\ K \in Nat /\ K > 1 /\ V \in Nat
  BY Sizes
<1>2. 1 \in 1..MaxPages /\ 1 \in Node /\ 1..K \subseteq Node /\ K \in Node
  <2>1. 1 \in 1..MaxPages
    BY Sizes
  <2>2. 1..(K * 1) \subseteq Node /\ K * 1 = K
    BY <1>1, <2>1, PageNodes
  <2> QED BY <1>1, <2>1, <2>2
<1>3. zero \in [Node -> Nat] /\ pv \in Links /\ nx \in Links
  <2>1. zero \in [Node -> Nat]
    OBVIOUS
  <2>2. ASSUME NEW n \in Node
        PROVE  /\ (IF n \in 1..K THEN IF n = 1 THEN NULL ELSE n - 1 ELSE 0) \in Node \cup {NULL}
               /\ (IF n \in 1..K THEN IF n = K THEN NULL ELSE n + 1 ELSE 0) \in Node \cup {NULL}
    BY <1>1, <1>2 DEF NULL
  <2> QED BY <2>1, <2>2, Zenon DEF Links
<1>4. \A n \in Node : zero[n] = 0
  BY Zenon
<1>5. s = [l EXCEPT !.prev = [n \in Node |-> IF n \in 1..K THEN IF n = 1 THEN NULL ELSE n - 1 ELSE zero[n]],
                    !.next = [n \in Node |-> IF n \in 1..K THEN IF n = K THEN NULL ELSE n + 1 ELSE zero[n]],
                    !.tail = K, !.pages = 1]
  BY <1>1, Zenon DEF SetUpPage
<1>6. s = [start |-> zero, size |-> zero, prev |-> pv, next |-> nx, head |-> 1, tail |-> K, pages |-> 1]
  <2>1. s = [l EXCEPT !.prev = pv, !.next = nx, !.tail = K, !.pages = 1]
    BY <1>4, <1>5, Zenon
  <2> HIDE DEF s, pv, nx, zero
  <2> QED BY <2>1, Zenon
<1>7. list = [s EXCEPT !.start[1] = 1, !.size[1] = V]
  BY Zenon DEF Init
<1> HIDE DEF zero, pv, nx, s, l
<1>8. list = [start |-> [zero EXCEPT ![1] = 1], size |-> [zero EXCEPT ![1] = V],
              prev |-> pv, next |-> nx, head |-> 1, tail |-> K, pages |-> 1]
  BY <1>6, <1>7, Zenon
<1>9. [zero EXCEPT ![1] = 1] \in [Node -> Nat] /\ [zero EXCEPT ![1] = V] \in [Node -> Nat]
  BY <1>1, <1>3, Zenon
<1>10. list \in ListType
  BY <1>2, <1>3, <1>8, <1>9 DEF ListType
<1>11. /\ list.start = [zero EXCEPT ![1] = 1] /\ list.size = [zero EXCEPT ![1] = V]
       /\ list.prev = pv /\ list.next = nx /\ list.head = 1 /\ list.tail = K /\ list.pages = 1
  BY <1>8
<1>12. ASSUME NEW n \in Node
       PROVE  /\ pv[n] = IF n \in 2..K THEN n - 1 ELSE NULL
              /\ nx[n] = IF n \in 1..(K - 1) THEN n + 1 ELSE NULL
  BY <1>1 DEF pv, nx, NULL, Node
<1>13. ASSUME NEW n \in Node
       PROVE  /\ list.start[n] = IF n = 1 THEN 1 ELSE 0
              /\ list.size[n] = IF n = 1 THEN V ELSE 0
  BY <1>3, <1>4, <1>11, Zenon
<1> QED BY <1>10, <1>11, <1>12, <1>13, Zenon

(* vmm_init establishes the invariant.                                     *)
LEMMA InitIInv == Init => IInv
<1> SUFFICES ASSUME Init PROVE IInv
  BY Zenon
<1>1. /\ list \in ListType /\ list.head = 1 /\ list.tail = K /\ list.pages = 1
      /\ \A n \in Node : list.start[n] = IF n = 1 THEN 1 ELSE 0
      /\ \A n \in Node : list.size[n] = IF n = 1 THEN V ELSE 0
      /\ \A n \in Node : list.next[n] = IF n \in 1..(K - 1) THEN n + 1 ELSE NULL
      /\ \A n \in Node : list.prev[n] = IF n \in 2..K THEN n - 1 ELSE NULL
  BY InitFields, Zenon
<1>2. /\ alloc = <<>> /\ backed = {} /\ full = FALSE /\ phase = "running"
  BY Zenon DEF Init
<1>3. DOMAIN alloc = {}
  BY <1>2
<1>4. /\ K \in Nat /\ K > 1 /\ V \in Nat /\ V > 0 /\ K * list.pages = K
      /\ 1..K \subseteq Node /\ 1 \in Node /\ K \in 1..K /\ K \in Node /\ K # 1 /\ 1 \in 1..K
  <2>1. K \in Nat /\ K > 1 /\ V \in Nat /\ V > 0 /\ 1 \in 1..MaxPages
    BY Sizes
  <2>2. 1..(K * 1) \subseteq Node /\ K * 1 = K
    BY <2>1, PageNodes
  <2> QED BY <1>1, <2>1, <2>2
<1>5. list.start \in [Node -> Nat] /\ list.size \in [Node -> Nat]
  BY <1>1 DEF ListType
<1>6. BlocksOK(list.start, list.size, alloc)
  <2>1. ASSUME NEW p \in 1..V PROVE Covered(list.start, list.size, alloc, p)
    <3>1. list.start[1] <= p /\ p < list.start[1] + list.size[1]
      BY <1>1, <1>4
    <3> QED BY <1>4, <3>1, Zenon DEF Covered
  <2>2. \A n \in Node : (list.size[n] = 0 <=> list.start[n] = 0) /\ list.start[n] + list.size[n] <= V + 1
    BY <1>1, <1>4
  <2>3. \A m, n \in Node : m # n /\ list.size[m] # 0 /\ list.size[n] # 0 => FALSE
    BY <1>1, <1>4
  <2> QED BY <1>3, <1>5, <2>1, <2>2, <2>3, Zenon DEF BlocksOK
<1>7. list.size[list.tail] = 0
  BY <1>1, <1>4
<1> DEFINE q == [i \in 1..K |-> i]
<1>8. Shape(list.next, list.prev, list.head, list.tail, list.size, q)
  <2>1. q \in [1..K -> 1..K] /\ \A i \in 1..K : q[i] = i
    OBVIOUS
  <2> HIDE DEF q
  <2>2. ASSUME NEW i \in 1..K
        PROVE  /\ list.next[i] = IF i = K THEN NULL ELSE i + 1
               /\ list.prev[i] = IF i = 1 THEN NULL ELSE i - 1
    <3>1. /\ list.next[i] = IF i \in 1..(K - 1) THEN i + 1 ELSE NULL
          /\ list.prev[i] = IF i \in 2..K THEN i - 1 ELSE NULL
      BY <1>1, <1>4, Zenon
    <3> QED BY <1>4, <3>1
  <2>3. \A i \in 1..K : list.next[q[i]] = IF i = K THEN NULL ELSE q[i + 1]
    <3>1. \A i \in 1..K : i # K => i + 1 \in 1..K
      BY <1>4
    <3> QED BY <2>1, <2>2, <3>1, Zenon
  <2>4. \A i \in 1..K : list.prev[q[i]] = IF i = 1 THEN NULL ELSE q[i - 1]
    <3>1. \A i \in 1..K : i # 1 => i - 1 \in 1..K
      BY <1>4
    <3> QED BY <2>1, <2>2, <3>1, Zenon
  <2>5. \A i \in 2..K : list.size[q[i]] # 0 => list.size[q[i - 1]] # 0
    <3>1. ASSUME NEW i \in 2..K PROVE list.size[q[i]] = 0
      <4>1. i \in 1..K /\ i # 1
        BY <1>4
      <4>2. i \in Node /\ q[i] = i
        BY <1>4, <2>1, <4>1, Zenon
      <4> QED BY <1>1, <4>1, <4>2, Zenon
    <3> QED BY <3>1, Zenon
  <2>6. /\ \A i, j \in 1..K : q[i] = q[j] => i = j
        /\ \A n \in 1..K : \E i \in 1..K : q[i] = n
        /\ list.head = q[1] /\ list.tail = q[K]
    BY <1>1, <1>4, <2>1
  <2> QED BY <2>1, <2>3, <2>4, <2>5, <2>6, Zenon DEF Shape
<1> HIDE DEF q
<1>9. Coalesced(list.start, list.size)
  <2>1. ASSUME NEW m \in Node, NEW n \in Node, list.size[m] # 0, list.size[n] # 0
        PROVE  list.start[m] + list.size[m] # list.start[n]
    <3>1. m = 1 /\ n = 1
      BY <1>1, <2>1, Zenon
    <3>2. list.start[1] = 1 /\ list.size[1] = V
      BY <1>1, <1>4, Zenon
    <3>3. 1 + V # 1
      BY <1>4
    <3> QED BY <3>1, <3>2, <3>3, Zenon
  <2> QED BY <2>1, Zenon DEF Coalesced
<1>10. ShapeInv(list)
  BY <1>1, <1>7, <1>8, <1>9, Zenon DEF ShapeInv, InShape
<1>11. LinksOK(list)
  <2>1. Chain(list.next, list.prev, list.head, K, K, q)
    BY <1>8, ShapeChain, Zenon
  <2>2. ASSUME NEW n \in 1..K PROVE list.prev[n] = NULL \/ list.prev[n] \in 1..K
    BY <1>1, <1>4
  <2>3. ASSUME NEW n \in Node, n \notin 1..K PROVE list.size[n] = 0
    BY <1>1, <1>4, <2>3, Zenon
  <2>4. list \in ListType /\ list.tail \in 1..K /\ K * list.pages = K
    BY <1>1, <1>4, Zenon
  <2> QED BY <2>1, <2>2, <2>3, <2>4 DEF LinksOK
<1>12. FramesFollowBlocks
  BY <1>2, <1>3, Zenon DEF FramesFollowBlocks
<1>13. phase \in {"running", "out of memory", "null dereference"} /\ phase # "null dereference"
  BY <1>2
<1> QED BY <1>2, <1>6, <1>10, <1>11, <1>12, <1>13, Zenon DEF IInv

(* What the invariant says of the types.                                   *)
LEMMA TypesOK == IInv => TypeOK
<1> SUFFICES ASSUME IInv PROVE TypeOK
  BY Zenon
<1>1. /\ list.next \in Links /\ list.prev \in Links /\ list.tail \in Node
      /\ list.head \in Node \cup {NULL} /\ list.pages \in 1..MaxPages
  BY LinksNodes, Zenon DEF IInv
<1>2. /\ list.start \in [Node -> Nat] /\ list.size \in [Node -> Nat]
      /\ \A n \in Node : (list.size[n] = 0 <=> list.start[n] = 0) /\ list.start[n] + list.size[n] <= V + 1
      /\ \A a \in DOMAIN alloc : a \in Nat \ {0} /\ alloc[a] \in Nat \ {0} /\ a + alloc[a] <= V + 1
  BY Zenon DEF IInv, BlocksOK
<1>3. V \in Nat
  BY Sizes
<1>4. ASSUME NEW n \in Node PROVE list.start[n] \in 0..V /\ list.size[n] \in 0..V
  BY <1>2, <1>3
<1>5. list.start \in [Node -> 0..V] /\ list.size \in [Node -> 0..V]
  BY <1>2, <1>4, Zenon
<1>6. ASSUME NEW a \in DOMAIN alloc
      PROVE  a \in 1..V /\ alloc[a] \in 1..V /\ Block(a, alloc[a]) \subseteq 1..V
  BY <1>2, <1>3 DEF Block
<1>7. backed \subseteq 1..V
  <2>1. backed = UNION {Block(a, alloc[a]) : a \in DOMAIN alloc}
    BY Zenon DEF IInv, FramesFollowBlocks
  <2> QED BY <1>6, <2>1, Zenon
<1>8. full \in BOOLEAN /\ phase \in {"running", "out of memory", "null dereference"}
  BY Zenon DEF IInv
<1> QED BY <1>1, <1>5, <1>6, <1>7, <1>8, Zenon DEF TypeOK, Links

(* The walk along the list in its shape.                                   *)
LEMMA ShapeWalk ==
    ASSUME Counting, IInv, ~full, NEW q, Shape(list.next, list.prev, list.head, list.tail, list.size, q)
    PROVE  /\ \A i \in 0..(K * MaxPages) : Walk(list)[i] = IF i < K THEN q[i + 1] ELSE NULL
           /\ DOMAIN Walk(list) = 0..(K * MaxPages) /\ list.pages = 1
           /\ K \in Nat /\ K > 1 /\ K * MaxPages \in Nat /\ K <= K * MaxPages
<1>1. list.pages = 1 /\ list.pages \in 1..MaxPages
  BY LinksNodes, Zenon DEF IInv, ShapeInv, InShape
<1>2. K \in Nat /\ K > 1 /\ K * 1 = K
  BY Sizes
<1>3. 1..K \subseteq Node /\ K * MaxPages \in Nat /\ K <= K * MaxPages
  <2>1. 1 \in 1..MaxPages
    BY <1>1, Zenon
  <2>2. 1..(K * 1) \subseteq Node /\ K * MaxPages \in Nat /\ K * 1 <= K * MaxPages
    BY <2>1, PageNodes, Zenon
  <2> QED BY <1>2, <2>2
<1>4. Chain(list.next, list.prev, list.head, K, K, q)
  BY ShapeChain, Zenon
<1>5. /\ DOMAIN Walk(list) = 0..(K * MaxPages)
      /\ \A i \in 0..(K * MaxPages) : Walk(list)[i] = IF i < K THEN q[i + 1] ELSE NULL
  BY <1>2, <1>3, <1>4, WalkChain, Zenon
<1> QED BY <1>1, <1>2, <1>3, <1>5, Zenon

(* The invariant implies ListWellFormed.                                   *)
LEMMA WellFormed == ASSUME Counting, IInv PROVE ListWellFormed
<1> DEFINE w == Walk(list)
<1>1. w[K * MaxPages] = NULL
  <2>1. PICK r, h : Chain(list.next, list.prev, list.head, K * list.pages, r, h)
    BY Zenon DEF IInv, LinksOK
  <2>2. /\ list.pages \in 1..MaxPages /\ K * list.pages \in Nat /\ 1..(K * list.pages) \subseteq Node
    BY LinksNodes, Zenon DEF IInv
  <2>3. K * MaxPages \in Nat /\ K * list.pages <= K * MaxPages
    BY <2>2, PageNodes, Zenon
  <2>4. r <= K * list.pages /\ r \in Nat
    <3>1. r <= K * list.pages
      BY <2>1, <2>2, ChainFits, Zenon
    <3> QED BY <2>1, <3>1, Zenon DEF Chain
  <2>5. \A i \in 0..(K * MaxPages) : w[i] = IF i < r THEN h[i + 1] ELSE NULL
    BY <2>1, <2>2, WalkChain, Zenon
  <2>6. K * MaxPages \in 0..(K * MaxPages) /\ ~(K * MaxPages < r)
    BY <2>2, <2>3, <2>4
  <2> QED BY <2>5, <2>6, Zenon
<1>2. ASSUME ~full
      PROVE  LET k == K * list.pages
             IN  /\ \A i \in 0..(k - 1) :
                       w[i] # NULL /\ list.prev[w[i]] = IF i = 0 THEN NULL ELSE w[i - 1]
                 /\ \A i, j \in 0..(k - 1) : w[i] = w[j] => i = j
                 /\ w[k - 1] = list.tail /\ list.next[list.tail] = NULL
                 /\ \A i \in 1..(k - 1) : list.size[w[i]] # 0 => list.size[w[i - 1]] # 0
                 /\ \A m, n \in Used : list.start[m] + list.size[m] # list.start[n]
  <2>1. PICK q : Shape(list.next, list.prev, list.head, list.tail, list.size, q)
    BY <1>2, Zenon DEF IInv, ShapeInv, InShape
  <2>2. /\ \A i \in 0..(K * MaxPages) : w[i] = IF i < K THEN q[i + 1] ELSE NULL
        /\ DOMAIN w = 0..(K * MaxPages) /\ list.pages = 1
        /\ K \in Nat /\ K > 1 /\ K * MaxPages \in Nat /\ K <= K * MaxPages
    BY <1>2, <2>1, ShapeWalk, Zenon
  <2> HIDE DEF w
  <2>3. K * list.pages = K
    BY <2>2
  <2>4. \A i \in 0..(K - 1) : w[i] = q[i + 1] /\ i + 1 \in 1..K
    BY <2>2
  <2>5. \A i \in 1..K : q[i] \in Node /\ q[i] # NULL
    BY <2>1, ShapeFacts, Zenon
  <2>6. ASSUME NEW i \in 0..(K - 1)
        PROVE  w[i] # NULL /\ list.prev[w[i]] = IF i = 0 THEN NULL ELSE w[i - 1]
    <3>1. w[i] = q[i + 1] /\ i + 1 \in 1..K
      BY <2>4, Zenon
    <3>2. \A x \in 1..K : list.prev[q[x]] = IF x = 1 THEN NULL ELSE q[x - 1]
      BY <2>1, Zenon DEF Shape
    <3>3. i # 0 => w[i - 1] = q[i]
      BY <2>2, <2>4
    <3> QED BY <2>2, <2>5, <3>1, <3>2, <3>3
  <2>7. ASSUME NEW i \in 0..(K - 1), NEW j \in 0..(K - 1), w[i] = w[j] PROVE i = j
    <3>1. i + 1 \in 1..K /\ j + 1 \in 1..K /\ q[i + 1] = q[j + 1]
      BY <2>4, <2>7, Zenon
    <3>2. i + 1 = j + 1
      BY <2>1, <3>1, Zenon DEF Shape
    <3> QED BY <2>2, <3>2
  <2>8. w[K - 1] = list.tail /\ list.next[list.tail] = NULL
    <3>1. K \in 1..K /\ K - 1 \in 0..(K - 1) /\ K - 1 + 1 = K
      BY <2>2
    <3>2. w[K - 1] = q[K]
      BY <2>4, <3>1
    <3> QED BY <2>1, <3>1, <3>2, Zenon DEF Shape
  <2>9. ASSUME NEW i \in 1..(K - 1), list.size[w[i]] # 0 PROVE list.size[w[i - 1]] # 0
    <3>1. /\ i + 1 \in 2..K /\ w[i] = q[i + 1] /\ w[i - 1] = q[i] /\ i + 1 - 1 = i
      BY <2>2, <2>4
    <3>2. \A x \in 2..K : list.size[q[x]] # 0 => list.size[q[x - 1]] # 0
      BY <2>1, Zenon DEF Shape
    <3> QED BY <2>9, <3>1, <3>2
  <2>10. ASSUME NEW m \in Used, NEW n \in Used
         PROVE  list.start[m] + list.size[m] # list.start[n]
    <3>1. \A i \in DOMAIN w : w[i] = NULL \/ w[i] \in Node
      BY <2>2, <2>5
    <3>2. Used \subseteq Node /\ \A x \in Used : list.size[x] # 0
      BY <3>1, Zenon DEF Used, w
    <3>3. Coalesced(list.start, list.size)
      BY <1>2, Zenon DEF IInv, ShapeInv
    <3> QED BY <3>2, <3>3, Zenon DEF Coalesced
  <2> QED BY <2>3, <2>6, <2>7, <2>8, <2>9, <2>10, Zenon
<1> HIDE DEF w
<1>3. TypeOK
  BY TypesOK, Zenon
<1> QED BY <1>1, <1>2, <1>3, Zenon DEF ListWellFormed, w

(* The invariant implies AddressesAccountedFor.                            *)
LEMMA AccountedFor == ASSUME Counting, IInv PROVE AddressesAccountedFor
<1> SUFFICES ASSUME NEW p \in 1..V
             PROVE  BlocksOf(p) <= 1 /\ (~full => BlocksOf(p) = 1)
  BY Zenon DEF AddressesAccountedFor
<1> DEFINE A == FreeBlocksOf(p)
           B == AllocatedBlocksOf(p)
<1> USE DEF FreeBlocksOf, AllocatedBlocksOf
<1>1. /\ list.start \in [Node -> Nat] /\ list.size \in [Node -> Nat]
      /\ \A m, n \in Node : m # n /\ list.size[m] # 0 /\ list.size[n] # 0
                               => Apart(list.start[m], list.size[m], list.start[n], list.size[n])
      /\ \A a \in DOMAIN alloc : a \in Nat \ {0} /\ alloc[a] \in Nat \ {0}
      /\ \A a, b \in DOMAIN alloc : a # b => Apart(a, alloc[a], b, alloc[b])
      /\ \A a \in DOMAIN alloc, n \in Node :
            list.size[n] # 0 => Apart(a, alloc[a], list.start[n], list.size[n])
      /\ Covered(list.start, list.size, alloc, p)
  BY Zenon DEF IInv, BlocksOK
<1>2. ASSUME NEW n \in Used PROVE n \in Node /\ list.size[n] # 0
  <2>1. n \in {Walk(list)[i] : i \in DOMAIN Walk(list)} \ {NULL} /\ list.size[n] # 0
    BY Zenon DEF Used
  <2>2. PICK r, h : Chain(list.next, list.prev, list.head, K * list.pages, r, h)
    BY Zenon DEF IInv, LinksOK
  <2>3. K * list.pages \in Nat /\ 1..(K * list.pages) \subseteq Node
    BY LinksNodes, Zenon DEF IInv
  <2>4. /\ DOMAIN Walk(list) = 0..(K * MaxPages)
        /\ \A i \in 0..(K * MaxPages) : Walk(list)[i] = IF i < r THEN h[i + 1] ELSE NULL
    BY <2>2, <2>3, WalkChain, Zenon
  <2>5. PICK i \in 0..(K * MaxPages) : n = Walk(list)[i] /\ n # NULL
    BY <2>1, <2>4, Zenon
  <2>6. i < r /\ n = h[i + 1]
    BY <2>4, <2>5, Zenon
  <2>7. r \in Nat /\ h \in [1..r -> 1..(K * list.pages)]
    BY <2>2, Zenon DEF Chain
  <2>8. i + 1 \in 1..r
    BY <2>6, <2>7
  <2> QED BY <2>1, <2>3, <2>6, <2>7, <2>8, Zenon
<1>3. ASSUME NEW m \in A, NEW n \in A PROVE m = n
  <2>1. /\ m \in Node /\ n \in Node /\ list.size[m] # 0 /\ list.size[n] # 0
        /\ p \in Block(list.start[m], list.size[m]) /\ p \in Block(list.start[n], list.size[n])
    BY <1>2, Zenon
  <2>2. /\ list.start[m] \in Nat /\ list.size[m] \in Nat
        /\ list.start[n] \in Nat /\ list.size[n] \in Nat
    BY <1>1, <2>1, Zenon
  <2>3. ~Apart(list.start[m], list.size[m], list.start[n], list.size[n])
    BY <2>1, <2>2, ApartBlocks, Zenon
  <2> QED BY <1>1, <2>1, <2>3, Zenon
<1>4. ASSUME NEW a \in B, NEW b \in B PROVE a = b
  <2>1. /\ a \in DOMAIN alloc /\ b \in DOMAIN alloc
        /\ p \in Block(a, alloc[a]) /\ p \in Block(b, alloc[b])
    BY Zenon
  <2>2. a \in Nat /\ alloc[a] \in Nat /\ b \in Nat /\ alloc[b] \in Nat
    BY <1>1, <2>1, Zenon
  <2>3. ~Apart(a, alloc[a], b, alloc[b])
    BY <2>1, <2>2, ApartBlocks, Zenon
  <2> QED BY <1>1, <2>1, <2>3, Zenon
<1>5. ASSUME NEW a \in B, NEW n \in A PROVE FALSE
  <2>1. /\ a \in DOMAIN alloc /\ n \in Node /\ list.size[n] # 0
        /\ p \in Block(a, alloc[a]) /\ p \in Block(list.start[n], list.size[n])
    BY <1>2, Zenon
  <2>2. a \in Nat /\ alloc[a] \in Nat /\ list.start[n] \in Nat /\ list.size[n] \in Nat
    BY <1>1, <2>1, Zenon
  <2>3. ~Apart(a, alloc[a], list.start[n], list.size[n])
    BY <2>1, <2>2, ApartBlocks, Zenon
  <2> QED BY <1>1, <2>1, <2>3, Zenon
<1>6. ASSUME ~full PROVE A # {} \/ B # {}
  <2>1. CASE \E a \in DOMAIN alloc : a <= p /\ p < a + alloc[a]
    <3>1. PICK a \in DOMAIN alloc : a <= p /\ p < a + alloc[a]
      BY <2>1, Zenon
    <3>2. p \in Block(a, alloc[a])
      BY <1>1, <3>1 DEF Block
    <3> QED BY <3>1, <3>2, Zenon
  <2>2. CASE \E n \in Node : list.start[n] <= p /\ p < list.start[n] + list.size[n]
    <3>1. PICK n \in Node : list.start[n] <= p /\ p < list.start[n] + list.size[n]
      BY <2>2, Zenon
    <3>2. p \in Block(list.start[n], list.size[n]) /\ list.size[n] # 0
      BY <1>1, <3>1 DEF Block
    <3>3. PICK q : Shape(list.next, list.prev, list.head, list.tail, list.size, q)
      BY <1>6, Zenon DEF IInv, ShapeInv, InShape
    <3>4. /\ \A i \in 0..(K * MaxPages) : Walk(list)[i] = IF i < K THEN q[i + 1] ELSE NULL
          /\ DOMAIN Walk(list) = 0..(K * MaxPages) /\ list.pages = 1
          /\ K \in Nat /\ K > 1 /\ K * MaxPages \in Nat /\ K <= K * MaxPages
      BY <1>6, <3>3, ShapeWalk, Zenon
    <3>5. K * list.pages = K
      BY <3>4
    <3>6. n \in 1..K
      BY <3>2, <3>5, Zenon DEF IInv, LinksOK
    <3>7. PICK i \in 1..K : q[i] = n
      BY <3>3, <3>6, Zenon DEF Shape
    <3>8. /\ i - 1 \in 0..(K * MaxPages) /\ Walk(list)[i - 1] = n
      BY <3>4, <3>7
    <3>9. n # NULL
      BY NullIsNoNode, Zenon
    <3>10. n \in Used
      BY <3>2, <3>4, <3>8, <3>9, Zenon DEF Used
    <3> QED BY <3>2, <3>10, Zenon
  <2> QED BY <1>1, <2>1, <2>2, Zenon DEF Covered
<1> HIDE DEF FreeBlocksOf, AllocatedBlocksOf
<1>7. BlocksOf(p) = (IF A = {} THEN 0 ELSE 1) + (IF B = {} THEN 0 ELSE 1)
  BY <1>3, <1>4, CountBlocks, Zenon
<1>8. A = {} \/ B = {}
  BY <1>5, Zenon
<1> HIDE DEF A, B
<1> QED BY <1>6, <1>7, <1>8

-----------------------------------------------------------------------------

LOCAL INSTANCE FiniteSetTheorems

(* The facts about natural numbers, from the library.                      *)
LEMMA CountingHolds == Counting
<1>1. ASSUME NEW T \in SUBSET Nat, T # {} PROVE \E n \in T : \A k \in T : n <= k
  <2>1. PICK n \in T : \A y \in T : <<y, n>> \notin OpToRel(<, Nat)
    BY <1>1, NatLessThanWellFounded, WFMin, Zenon
  <2>2. ASSUME NEW k \in T PROVE n <= k
    <3>1. k \in Nat /\ n \in Nat
      BY <2>1, Zenon
    <3>2. ~(k < n)
      BY <2>1, <3>1, Zenon DEF OpToRel
    <3> QED BY <3>1, <3>2
  <2> QED BY <2>2, Zenon
<1>2. ASSUME NEW r \in Nat, NEW top \in Nat, NEW h \in [1..r -> 1..top],
             \A i, j \in 1..r : h[i] = h[j] => i = j
      PROVE  r <= top
  <2>1. h \in Injection(1..r, 1..top)
    BY <1>2, Zenon DEF Injection, IsInjective
  <2>2. 1 \in Int /\ top \in Int /\ r \in Int
    OBVIOUS
  <2>3. IsFiniteSet(1..top) /\ Cardinality(1..top) = IF 1 > top THEN 0 ELSE top - 1 + 1
    BY <2>2, FS_Interval, Zenon
  <2>4. Cardinality(1..r) = IF 1 > r THEN 0 ELSE r - 1 + 1
    BY <2>2, FS_Interval, Zenon
  <2>5. Cardinality(1..top) = top /\ Cardinality(1..r) = r
    BY <2>3, <2>4
  <2>6. Cardinality(1..r) <= Cardinality(1..top)
    BY <2>1, <2>3, FS_Injection, Zenon
  <2> QED BY <2>5, <2>6
<1> QED BY <1>1, <1>2, Zenon DEF Counting

(* The invariant holds in every reachable state.                           *)
LEMMA Invariance == Spec => []IInv
<1>1. IInv /\ [Next]_vars => IInv'
  <2> SUFFICES ASSUME IInv, [Next]_vars PROVE IInv'
    BY Zenon
  <2>1. CASE \E k \in 1..V : vmm_alloc(k)
    BY <2>1, CountingHolds, AllocIInv, Zenon
  <2>2. CASE \E a \in DOMAIN alloc : vmm_free(a)
    BY <2>2, CountingHolds, FreeIInv, Zenon
  <2>3. CASE UNCHANGED vars
    BY <2>3, ZenonT(60) DEF vars, IInv, FramesFollowBlocks, LinksOK, BlocksOK, ShapeInv, InShape
  <2> QED BY <2>1, <2>2, <2>3, Zenon DEF Next
<1> QED BY <1>1, InitIInv, PTL DEF Spec

(* Exactly the pages of the allocated blocks have a frame: vmm_free takes  *)
(* away no frame of another block, and leaves none behind.                 *)
THEOREM FramesAlwaysFollow == Spec => []FramesFollowBlocks
BY Invariance, PTL DEF IInv

(* vmm_free follows a null pointer only after all list nodes have been in  *)
(* use at once.                                                            *)
THEOREM NullOnlyWhenFull == Spec => [](phase = "null dereference" => full)
BY Invariance, PTL DEF IInv

(* The loops along next always end, and until all nodes have been in use   *)
(* the list is linked both ways through every node, the used ones first,   *)
(* and no two free blocks are neighbours.                                  *)
THEOREM ListAlwaysWellFormed == Spec => []ListWellFormed
<1>1. IInv => ListWellFormed
  BY CountingHolds, WellFormed, Zenon
<1> QED BY <1>1, Invariance, PTL

(* No virtual page is ever in two blocks, and until all nodes have been in *)
(* use none is lost.                                                       *)
THEOREM AddressesAlwaysAccountedFor == Spec => []AddressesAccountedFor
<1>1. IInv => AddressesAccountedFor
  BY CountingHolds, AccountedFor, Zenon
<1> QED BY <1>1, Invariance, PTL
=============================================================================
