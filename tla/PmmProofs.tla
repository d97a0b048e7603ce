----------------------------- MODULE PmmProofs ------------------------------
(***************************************************************************)
(* Proofs about the physical memory manager, for every number of frames,   *)
(* every memory map and every frame buffer: first the two free lists of    *)
(* pmm.c, then the list of page frames that kmain builds before them (for  *)
(* every memory map that MapAssumption admits and every size of pages and  *)
(* nodes).                                                                 *)
(***************************************************************************)
EXTENDS PhysicalMemory, TLAPS

(* ff is the rest of the chain f at h, after h's next field became x.      *)
Popped(nx, x, h, k, f) ==
    /\ k > 0
    /\ h = f[1]
    /\ \E ff \in [1..(k - 1) -> Node] :
          /\ \A i \in 1..(k - 1) : ff[i] = f[i + 1]
          /\ Chain([nx EXCEPT ![h] = x], nx[h], k - 1, ff)

(* ff is the chain f at h with the node n in front of it.                  *)
Pushed(nx, n, h, k, f) ==
    /\ k + 1 \in 0..N
    /\ \E ff \in [1..(k + 1) -> Node] :
          /\ \A i \in 1..(k + 1) : ff[i] = IF i = 1 THEN n ELSE f[i - 1]
          /\ Chain([nx EXCEPT ![n] = h], n, k + 1, ff)

(* Popping the head of a chain leaves the chain of the others, whatever    *)
(* the popped node's next field becomes.                                   *)
LEMMA ChainPop ==
    ASSUME NEW nx \in [Node -> Node \cup {NULL}], NEW x, NEW h,
           NEW k \in 0..N, NEW f \in [1..k -> Node],
           Chain(nx, h, k, f), h # NULL
    PROVE  Popped(nx, x, h, k, f)
<1> DEFINE ff == [i \in 1..(k - 1) |-> f[i + 1]]
           ny == [nx EXCEPT ![h] = x]
<1>1. k \in Nat /\ k > 0 /\ h = f[1]
  BY NAssumption DEF Chain, NULL, Node
<1>2. \A i \in 1..(k - 1) : i + 1 \in 1..k /\ ff[i] = f[i + 1] /\ f[i + 1] \in Node
  BY <1>1
<1>3. \A i, j \in 1..(k - 1) : ff[i] = ff[j] => i = j
  BY <1>1, <1>2 DEF Chain
<1>4. nx[h] = IF k - 1 = 0 THEN NULL ELSE ff[1]
  BY <1>1, <1>2 DEF Chain
<1>5. ASSUME NEW i \in 1..(k - 1)
      PROVE  ny[ff[i]] = IF i = k - 1 THEN NULL ELSE ff[i + 1]
  <2>1. f[i + 1] # h
    BY <1>1, <1>2 DEF Chain
  <2>2. ny[ff[i]] = nx[f[i + 1]]
    BY <1>2, <2>1, Zenon
  <2>3. nx[f[i + 1]] = IF i + 1 = k THEN NULL ELSE f[i + 2]
    BY <1>1, <1>2 DEF Chain
  <2>4. i # k - 1 => i + 1 \in 1..(k - 1)
    BY <1>1
  <2> QED BY <1>1, <1>2, <2>2, <2>3, <2>4
<1>6. Chain(ny, nx[h], k - 1, ff)
  <2> HIDE DEF ff, ny
  <2> QED BY <1>3, <1>4, <1>5, Zenon DEF Chain
<1>7. ff \in [1..(k - 1) -> Node]
  BY <1>2, Zenon
<1>8. \A i \in 1..(k - 1) : ff[i] = f[i + 1]
  BY <1>2, Zenon
<1> HIDE DEF ff, ny
<1> QED BY <1>1, <1>6, <1>7, <1>8, Zenon DEF ny, Popped

(* A list without repetition has at most N nodes: the pigeonhole           *)
(* principle, which PigeonHolds proves.                                    *)
Pigeonhole ==
    \A k \in Nat : \A f \in [1..k -> Node] :
        (\A i, j \in 1..k : f[i] = f[j] => i = j) => k <= N

(* Pushing a node that is not on a chain makes a chain one node longer.    *)
LEMMA ChainPush ==
    ASSUME Pigeonhole,
           NEW nx \in [Node -> Node \cup {NULL}], NEW n \in Node, NEW h,
           NEW k \in 0..N, NEW f \in [1..k -> Node],
           Chain(nx, h, k, f), \A i \in 1..k : f[i] # n
    PROVE  Pushed(nx, n, h, k, f)
<1> DEFINE ff == [i \in 1..(k + 1) |-> IF i = 1 THEN n ELSE f[i - 1]]
           ny == [nx EXCEPT ![n] = h]
<1>1. k \in Nat /\ N \in Nat
  BY NAssumption
<1>2. \A i \in 1..(k + 1) : i # 1 => i - 1 \in 1..k
  BY <1>1
<1>3. ff \in [1..(k + 1) -> Node]
  BY <1>2, Zenon
<1>4. ASSUME NEW i \in 1..(k + 1), NEW j \in 1..(k + 1), ff[i] = ff[j]
      PROVE  i = j
  BY <1>1, <1>2, <1>4 DEF Chain
<1>5. k + 1 <= N
  <2>1. k + 1 \in Nat
    BY <1>1
  <2> HIDE DEF ff
  <2> QED BY <1>3, <1>4, <2>1, Zenon DEF Pigeonhole
<1>6. n = IF k + 1 = 0 THEN NULL ELSE ff[1]
  BY <1>1
<1>7. ASSUME NEW i \in 1..(k + 1)
      PROVE  ny[ff[i]] = IF i = k + 1 THEN NULL ELSE ff[i + 1]
  <2>1. CASE i = 1
    <3>1. ny[ff[1]] = h
      BY <2>1, Zenon
    <3>2. k # 0 => ff[2] = f[1]
      BY <1>1
    <3> QED BY <1>1, <2>1, <3>1, <3>2 DEF Chain
  <2>2. CASE i # 1
    <3>1. i - 1 \in 1..k /\ ff[i] = f[i - 1] /\ f[i - 1] \in Node
      BY <1>2, <2>2, Zenon
    <3>2. ny[ff[i]] = nx[f[i - 1]]
      BY <3>1, Zenon
    <3>3. nx[f[i - 1]] = IF i - 1 = k THEN NULL ELSE f[i]
      BY <3>1, <1>1 DEF Chain
    <3>4. i # k + 1 => ff[i + 1] = f[i]
      BY <1>1, <2>2
    <3> QED BY <1>1, <3>2, <3>3, <3>4
  <2> QED BY <2>1, <2>2, Zenon
<1>8. Chain(ny, n, k + 1, ff)
  <2> HIDE DEF ff, ny
  <2> QED BY <1>4, <1>6, <1>7, Zenon DEF Chain
<1>9. \A i \in 1..(k + 1) : ff[i] = IF i = 1 THEN n ELSE f[i - 1]
  BY Zenon
<1> HIDE DEF ff, ny
<1> QED BY <1>1, <1>3, <1>5, <1>8, <1>9 DEF ny, Pushed

(* A chain does not see the next field of a node that is not on it.        *)
LEMMA ChainFrame ==
    ASSUME NEW nx \in [Node -> Node \cup {NULL}], NEW n \in Node, NEW x, NEW h,
           NEW k \in 0..N, NEW f \in [1..k -> Node],
           Chain(nx, h, k, f), \A i \in 1..k : f[i] # n
    PROVE  Chain([nx EXCEPT ![n] = x], h, k, f)
<1>1. \A i \in 1..k : [nx EXCEPT ![n] = x][f[i]] = nx[f[i]]
  BY Zenon
<1> QED BY <1>1, Zenon DEF Chain

-----------------------------------------------------------------------------

(* What kmain's boot order makes true before the first allocation: the     *)
(* list still runs through the nodes in order, cut in front of pmm_high.   *)
FirstHigh == IF pmm_high = NULL THEN N + 1 ELSE pmm_high

BootOrder ==
    /\ phase = "built" => /\ next = [n \in Node |-> IF n = N THEN NULL ELSE n + 1]
                          /\ pmm_high = NULL
    /\ phase = "split" =>
          /\ FirstHigh > 1
          /\ \A n \in Node : IsHigh(n) <=> n >= FirstHigh
          /\ next = [n \in Node |-> IF n + 1 \in {FirstHigh, N + 1} THEN NULL ELSE n + 1]
    /\ phase \in {"built", "split"} =>
          /\ pmm_low = 1 /\ owned = {} /\ reserved = {}

(* No frame has two holders.                                               *)
HeldOnce == \A n \in Node : holders[n] <= 1

(* The inductive invariant: FreeListsSound alone says too little about the *)
(* boot phases, in which the lists are cut and spliced by position.        *)
IInv == TypeOK /\ BootOrder /\ HeldOnce /\ FreeListsSound

(* Addresses ascend along the node list, hence high nodes follow low ones. *)
LEMMA HighAfterLow ==
    ASSUME NEW m \in Node, NEW n \in Node, m <= n, IsHigh(m)
    PROVE  IsHigh(n)
BY AddrAssumption, NAssumption DEF IsHigh, Node

(* The nodes are divided between the list f at h, the list g at h2 and the *)
(* set out.                                                                *)
Divided(nx, h, h2, out, k, f, m, g) ==
    /\ Chain(nx, h, k, f)
    /\ Chain(nx, h2, m, g)
    /\ \A i \in 1..k, j \in 1..m : f[i] # g[j]
    /\ \A i \in 1..k : f[i] \notin out
    /\ \A j \in 1..m : g[j] \notin out
    /\ \A n \in Node : \/ n \in out
                       \/ \E i \in 1..k : n = f[i]
                       \/ \E j \in 1..m : n = g[j]

(* Which of the two lists is named first does not matter.                  *)
LEMMA DividedSwap ==
    ASSUME NEW nx, NEW h, NEW h2, NEW out, NEW k, NEW f, NEW m, NEW g,
           Divided(nx, h, h2, out, k, f, m, g)
    PROVE  Divided(nx, h2, h, out, m, g, k, f)
BY Zenon DEF Divided

(* The low list holds low frames and the high list high ones.              *)
ByAddress(k, f, m, g) ==
    (\A i \in 1..k : ~IsHigh(f[i])) /\ (\A j \in 1..m : IsHigh(g[j]))

(* To show the lists sound after a step it is enough to name them.         *)
LEMMA ListsIntro ==
    ASSUME NEW CONSTANT k \in 0..N, NEW CONSTANT f \in [1..k -> Node],
           NEW CONSTANT m \in 0..N, NEW CONSTANT g \in [1..m -> Node],
           Divided(next', pmm_low', pmm_high', owned' \cup reserved', k, f, m, g),
           ByAddress(k, f, m, g), owned' \cap reserved' = {}
    PROVE  FreeListsSound'
<1>1. Placed(k, f, m, g)'
  BY Zenon DEF Placed, Divided
<1> QED BY <1>1, Zenon DEF FreeListsSound, IsHigh, Divided, ByAddress

(* Sound lists can be named.                                               *)
LEMMA ListsElim ==
    ASSUME FreeListsSound, phase # "built"
    PROVE  /\ owned \cap reserved = {}
           /\ \E k, m \in 0..N : \E f \in [1..k -> Node], g \in [1..m -> Node] :
                 /\ Divided(next, pmm_low, pmm_high, owned \cup reserved, k, f, m, g)
                 /\ ByAddress(k, f, m, g)
BY DEF FreeListsSound, Placed, Divided, ByAddress

(* They stay sound when nothing they depend on changes.                    *)
LEMMA ListsKept ==
    ASSUME FreeListsSound, phase # "built",
           UNCHANGED <<next, pmm_low, pmm_high, holders, reserved>>
    PROVE  FreeListsSound'
<1>1. PICK k \in 0..N, m \in 0..N : \E f \in [1..k -> Node], g \in [1..m -> Node] :
          /\ Divided(next, pmm_low, pmm_high, owned \cup reserved, k, f, m, g)
          /\ ByAddress(k, f, m, g)
  BY ListsElim, Zenon
<1>2. PICK f \in [1..k -> Node], g \in [1..m -> Node] :
          /\ Divided(next, pmm_low, pmm_high, owned \cup reserved, k, f, m, g)
          /\ ByAddress(k, f, m, g)
  BY <1>1, Zenon
<1>3. owned' = owned
  BY Zenon DEF owned
<1> QED BY <1>2, <1>3, ListsElim, ListsIntro, Zenon

(* Handing out a frame that nobody holds makes it owned, by one caller.    *)
LEMMA HeldMore ==
    ASSUME TypeOK, HeldOnce, NEW n \in Node, n \notin owned,
           holders' = [holders EXCEPT ![n] = @ + 1]
    PROVE  /\ owned' = owned \cup {n} /\ holders' = [holders EXCEPT ![n] = 1]
           /\ holders' \in [Node -> Nat] /\ HeldOnce'
<1>1. holders \in [Node -> Nat] /\ ~(holders[n] > 0)
  BY Zenon DEF TypeOK, owned
<1>2. holders[n] = 0
  BY <1>1
<1> QED BY <1>1, <1>2 DEF owned, HeldOnce

(* Giving back a frame makes it nobody's.                                  *)
LEMMA HeldLess ==
    ASSUME TypeOK, HeldOnce, NEW n \in owned,
           holders' = [holders EXCEPT ![n] = @ - 1]
    PROVE  /\ owned' = owned \ {n} /\ holders[n] = 1
           /\ holders' = [holders EXCEPT ![n] = 0]
           /\ holders' \in [Node -> Nat] /\ HeldOnce'
<1>1. holders \in [Node -> Nat] /\ n \in Node /\ holders[n] > 0 /\ holders[n] <= 1
  BY Zenon DEF TypeOK, owned, HeldOnce
<1>2. holders[n] = 1
  BY <1>1
<1> QED BY <1>1, <1>2 DEF owned, HeldOnce

(* The boot list satisfies the invariant.                                  *)
LEMMA InitIInv == Init => IInv
BY NAssumption DEF Init, IInv, TypeOK, BootOrder, FreeListsSound, HeldOnce, owned, Node, NULL

(* pmm_init_final keeps it: the list is cut into 1..b-1 and b..N.          *)
LEMMA InitFinalIInv == IInv /\ pmm_init_final => IInv'
<1> SUFFICES ASSUME IInv, pmm_init_final PROVE IInv'
  BY Zenon
<1> USE NAssumption DEF Node, NULL
<1>1. /\ next = [n \in Node |-> IF n = N THEN NULL ELSE n + 1]
      /\ pmm_high = NULL /\ pmm_low = 1 /\ owned = {} /\ reserved = {}
      /\ pmm_free_list \in Node \cup {NULL}
  BY Zenon DEF IInv, BootOrder, TypeOK, pmm_init_final
<1>2. /\ pmm_low' = 1 /\ owned' = {} /\ reserved' = {} /\ phase' = "split"
      /\ pmm_free_list' = pmm_free_list /\ holders' = holders
  BY <1>1, Zenon DEF pmm_init_final, owned
<1>3. PICK b \in 2..(N + 1) :
          /\ pmm_high' = IF b = N + 1 THEN NULL ELSE b
          /\ next' = [n \in Node |-> IF n + 1 \in {b, N + 1} THEN NULL ELSE n + 1]
          /\ \A n \in Node : IsHigh(n) <=> n >= b
  <2>1. CASE \E n \in Node \ {N} : /\ IsHigh(n + 1) /\ ~IsHigh(n)
                                  /\ pmm_high' = n + 1
                                  /\ next' = [next EXCEPT ![n] = NULL]
    <3>1. PICK n \in Node \ {N} : /\ IsHigh(n + 1) /\ ~IsHigh(n)
                                 /\ pmm_high' = n + 1
                                 /\ next' = [next EXCEPT ![n] = NULL]
      BY <2>1, Zenon
    <3>2. n + 1 \in 2..(N + 1) /\ n + 1 # N + 1
      OBVIOUS
    <3>3. \A m \in Node : IsHigh(m) <=> m >= n + 1
      BY <3>1, HighAfterLow
    <3>4. next' = [m \in Node |-> IF m + 1 \in {n + 1, N + 1} THEN NULL ELSE m + 1]
      <4>1. next' = [m \in Node |-> IF m = n THEN NULL ELSE next[m]]
        BY <1>1, <3>1, Zenon
      <4>2. \A m \in Node : m + 1 \in {n + 1, N + 1} <=> m = n \/ m = N
        OBVIOUS
      <4> QED BY <1>1, <4>1, <4>2, Zenon
    <3> QED BY <3>1, <3>2, <3>3, <3>4, Zenon
  <2>2. CASE ~IsHigh(N) /\ UNCHANGED <<pmm_high, next>>
    <3>1. \A m \in Node : ~IsHigh(m)
      BY <2>2, HighAfterLow
    <3>2. next' = [m \in Node |-> IF m + 1 \in {N + 1, N + 1} THEN NULL ELSE m + 1]
      BY <1>1, <2>2
    <3> QED BY <1>1, <2>2, <3>1, <3>2
  <2> QED BY <2>1, <2>2, Zenon DEF pmm_init_final
<1>4. TypeOK'
  <2>1. holders \in [Node -> Nat]
    BY Zenon DEF IInv, TypeOK
  <2> QED BY <1>1, <1>2, <1>3, <2>1 DEF TypeOK
<1>5. BootOrder'
  <2>1. FirstHigh' = b
    BY <1>3 DEF FirstHigh
  <2> QED BY <1>2, <1>3, <2>1 DEF BootOrder, IsHigh
<1>6. FreeListsSound'
  <2> DEFINE k == b - 1
             m == N - b + 1
             f == [i \in 1..k |-> i]
             g == [j \in 1..m |-> k + j]
  <2>1. k \in 0..N /\ m \in 0..N /\ k + m = N /\ k > 0
    BY <1>3
  <2>2. f \in [1..k -> Node] /\ g \in [1..m -> Node]
    BY <2>1
  <2>3. Chain(next', 1, k, f)
    BY <1>3, <2>1 DEF Chain
  <2>4. Chain(next', pmm_high', m, g)
    BY <1>3, <2>1 DEF Chain
  <2>5. (\A i \in 1..k : ~IsHigh(f[i])) /\ (\A j \in 1..m : IsHigh(g[j]))
    BY <1>3, <2>1
  <2>6. \A n \in Node : (\E i \in 1..k : n = f[i]) \/ (\E j \in 1..m : n = g[j])
    <3> TAKE n \in Node
    <3>1. CASE n <= k
      BY <2>1, <3>1
    <3>2. CASE n > k
      <4>1. n - k \in 1..m /\ n = g[n - k]
        BY <2>1, <3>2
      <4> QED BY <4>1, Zenon
    <3> QED BY <2>1, <3>1, <3>2
  <2>7. Divided(next', pmm_low', pmm_high', owned' \cup reserved', k, f, m, g)
    <3>1. \A i \in 1..k, j \in 1..m : f[i] # g[j]
      BY <2>1
    <3> HIDE DEF f, g, k, m
    <3> QED BY <1>2, <2>3, <2>4, <2>6, <3>1 DEF Divided
  <2> HIDE DEF f, g, k, m
  <2> QED BY <1>2, <2>1, <2>2, <2>5, <2>7, ListsIntro, ZenonT(60) DEF ByAddress
<1>7. HeldOnce'
  BY <1>2, Zenon DEF IInv, HeldOnce
<1> QED BY <1>4, <1>5, <1>6, <1>7, Zenon DEF IInv

(* pmm_clear_blocks keeps it: the high list b..N becomes b..s, e+1..N.     *)
LEMMA ClearBlocksIInv ==
    ASSUME NEW start \in Nat, NEW end \in Nat, start < end,
           IInv, pmm_clear_blocks(start, end)
    PROVE  IInv'
<1> USE NAssumption DEF Node, NULL
<1> DEFINE b == FirstHigh
<1>1. /\ b \in 2..(N + 1)
      /\ pmm_high = IF b = N + 1 THEN NULL ELSE b
      /\ next = [n \in Node |-> IF n + 1 \in {b, N + 1} THEN NULL ELSE n + 1]
      /\ \A n \in Node : IsHigh(n) <=> n >= b
      /\ pmm_low = 1 /\ owned = {} /\ reserved = {}
      /\ pmm_free_list \in Node \cup {NULL}
  <2>1. phase = "split" /\ TypeOK /\ BootOrder
    BY Zenon DEF IInv, pmm_clear_blocks
  <2>2. pmm_high \in Node \cup {NULL} /\ FirstHigh > 1
    BY <2>1, Zenon DEF TypeOK, BootOrder
  <2>3. /\ FirstHigh \in 2..(N + 1)
        /\ pmm_high = IF FirstHigh = N + 1 THEN NULL ELSE FirstHigh
    BY <2>2 DEF FirstHigh
  <2> QED BY <2>1, <2>3, Zenon DEF BootOrder, TypeOK
<1> HIDE DEF b
<1>2. /\ pmm_low' = 1 /\ pmm_high' = pmm_high /\ owned' = {} /\ phase' = "running"
      /\ pmm_free_list' = pmm_free_list
  BY <1>1, Zenon DEF pmm_clear_blocks, owned
<1>held. holders' = holders /\ holders \in [Node -> Nat] /\ HeldOnce'
  BY Zenon DEF pmm_clear_blocks, IInv, TypeOK, HeldOnce
<1>3. CASE UNCHANGED <<next, reserved>>
  <2>1. TypeOK'
    BY <1>1, <1>2, <1>3, <1>held, Zenon DEF TypeOK, IInv
  <2>2. BootOrder'
    BY <1>2, Zenon DEF BootOrder
  <2>3. FreeListsSound'
    BY <1>3, ListsKept, Zenon DEF IInv, pmm_clear_blocks
  <2> QED BY <1>held, <2>1, <2>2, <2>3, Zenon DEF IInv
<1>4. CASE \E s \in Node, e \in Node :
              /\ pmm_high # NULL /\ b <= s /\ s < e
              /\ next' = [next EXCEPT ![s] = next[e]]
              /\ reserved' = (s + 1)..e
  <2>1. PICK s \in Node, e \in Node :
              /\ pmm_high # NULL /\ b <= s /\ s < e
              /\ next' = [next EXCEPT ![s] = next[e]]
              /\ reserved' = (s + 1)..e
    BY <1>4, Zenon
  <2>2. b \in 2..N /\ b <= s /\ s < e /\ e <= N
    BY <1>1, <2>1
  <2>3. \A n \in Node : next'[n] = IF n = s THEN (IF e = N THEN NULL ELSE e + 1)
                                 ELSE IF n = b - 1 \/ n = N THEN NULL ELSE n + 1
    BY <1>1, <2>1, <2>2
  <2>4. TypeOK'
    <3>1. reserved' \subseteq Node /\ next' \in [Node -> Node \cup {NULL}]
      BY <1>1, <2>1, <2>2
    <3> QED BY <1>1, <1>2, <1>held, <3>1, Zenon DEF TypeOK, IInv
  <2>5. BootOrder'
    BY <1>2, Zenon DEF BootOrder
  <2>6. FreeListsSound'
    <3> DEFINE k == b - 1
               f == [i \in 1..k |-> i]
               c == s - b + 1
               m == c + (N - e)
               g == [j \in 1..m |-> IF j <= c THEN k + j ELSE e + (j - c)]
    <3>1. k \in 1..N /\ c \in 1..N /\ m \in 1..N /\ k + c = s
      BY <2>2
    <3>2. f \in [1..k -> Node] /\ g \in [1..m -> Node]
      BY <2>2, <3>1
    <3>3. Chain(next', 1, k, f)
      BY <2>2, <2>3, <3>1 DEF Chain
    <3>4. Chain(next', pmm_high', m, g)
      <4>1. pmm_high' = g[1] /\ m # 0
        BY <1>1, <1>2, <2>2, <3>1
      <4>2. \A i, j \in 1..m : g[i] = g[j] => i = j
        BY <2>2, <3>1
      <4>3. ASSUME NEW j \in 1..m
            PROVE  next'[g[j]] = IF j = m THEN NULL ELSE g[j + 1]
        <5>1. CASE j < c
          <6>1. g[j] = k + j /\ g[j + 1] = k + j + 1 /\ j # m /\ k + j \in Node
            BY <2>2, <3>1, <5>1
          <6> QED BY <2>2, <2>3, <3>1, <5>1, <6>1
        <5>2. CASE j = c
          <6>1. g[j] = s /\ (j # m => g[j + 1] = e + 1) /\ (j = m <=> e = N)
            BY <2>2, <3>1, <5>2
          <6> QED BY <2>2, <2>3, <6>1, Zenon
        <5>3. CASE j > c
          <6>1. /\ g[j] = e + (j - c) /\ e + (j - c) \in Node
                /\ j # m => g[j + 1] = e + (j - c) + 1
                /\ j = m <=> e + (j - c) = N
            BY <2>2, <3>1, <5>3
          <6> QED BY <2>2, <2>3, <3>1, <5>3, <6>1
        <5> QED BY <3>1, <5>1, <5>2, <5>3
      <4> HIDE DEF g, m
      <4> QED BY <4>1, <4>2, <4>3, Zenon DEF Chain
    <3>5. (\A i \in 1..k : ~IsHigh(f[i])) /\ (\A j \in 1..m : IsHigh(g[j]))
      BY <1>1, <2>2, <3>1
    <3>6. (\A i \in 1..k : f[i] \notin reserved') /\ (\A j \in 1..m : g[j] \notin reserved')
      <4>1. \A i \in 1..k : f[i] \notin (s + 1)..e
        BY <2>2, <3>1
      <4>2. \A j \in 1..m : g[j] \notin (s + 1)..e
        BY <2>2, <3>1
      <4> QED BY <2>1, <4>1, <4>2, Zenon
    <3>7. \A n \in Node : \/ n \in reserved'
                          \/ \E i \in 1..k : n = f[i]
                          \/ \E j \in 1..m : n = g[j]
      <4> TAKE n \in Node
      <4>1. CASE n <= k
        BY <3>1, <4>1
      <4>2. CASE n > k /\ n <= s
        <5>1. n - k \in 1..m /\ n = g[n - k]
          BY <2>2, <3>1, <4>2
        <5> QED BY <5>1, Zenon
      <4>3. CASE n > s /\ n <= e
        BY <2>1, <2>2, <4>3
      <4>4. CASE n > e
        <5>1. n - e + c \in 1..m /\ n = g[n - e + c]
          BY <2>2, <3>1, <4>4
        <5> QED BY <5>1
      <4> QED BY <2>2, <3>1, <4>1, <4>2, <4>3, <4>4
    <3>8. k \in 0..N /\ m \in 0..N
      BY <3>1
    <3>9. Divided(next', pmm_low', pmm_high', owned' \cup reserved', k, f, m, g)
      <4>1. \A i \in 1..k, j \in 1..m : f[i] # g[j]
        BY <2>2, <3>1
      <4> HIDE DEF f, g, k, m, c
      <4> QED BY <1>2, <3>3, <3>4, <3>6, <3>7, <4>1 DEF Divided
    <3> HIDE DEF f, g, k, m, c
    <3> QED BY <1>2, <3>2, <3>5, <3>8, <3>9, ListsIntro, Zenon DEF ByAddress
  <2> QED BY <1>held, <2>4, <2>5, <2>6 DEF IInv
<1>5. ASSUME NEW s \in Node, NEW e \in Node, pmm_high # NULL, s >= pmm_high,
             Addr[s] + 1 <= start, Addr[e] >= end
      PROVE  b <= s /\ s < e
  <2>1. Addr[s] < Addr[e] /\ Addr[s] \in Nat /\ Addr[e] \in Nat
    BY <1>5, AddrAssumption
  <2>2. ~(e < s) /\ e # s
    BY <2>1, AddrAssumption
  <2> QED BY <1>1, <1>5, <2>2
<1> QED BY <1>3, <1>4, <1>5 DEF pmm_clear_blocks

(* The head h of the list f moved to out, its next field became x.         *)
PoppedApart(nx, x, h, h2, out, k, f, m, g) ==
    /\ h \notin out
    /\ k - 1 \in 0..N
    /\ \E p \in 1..k : h = f[p]
    /\ \E ff \in [1..(k - 1) -> Node] :
          /\ Divided([nx EXCEPT ![h] = x], nx[h], h2, out \cup {h}, k - 1, ff, m, g)
          /\ \A i \in 1..(k - 1) : \E p \in 1..k : ff[i] = f[p]

(* The node n moved from out to the front of the list f.                   *)
PushedApart(nx, n, h, h2, out, k, f, m, g) ==
    /\ k + 1 \in 0..N
    /\ \E ff \in [1..(k + 1) -> Node] :
          /\ Divided([nx EXCEPT ![n] = h], n, h2, out \ {n}, k + 1, ff, m, g)
          /\ \A i \in 1..(k + 1) : ff[i] = n \/ \E p \in 1..k : ff[i] = f[p]

(* Popping the head of one list moves it to out and disturbs nothing else. *)
LEMMA PopDivided ==
    ASSUME NEW nx \in [Node -> Node \cup {NULL}], NEW x, NEW h, NEW h2, NEW out,
           NEW k \in 0..N, NEW f \in [1..k -> Node],
           NEW m \in 0..N, NEW g \in [1..m -> Node],
           h # NULL, Divided(nx, h, h2, out, k, f, m, g)
    PROVE  PoppedApart(nx, x, h, h2, out, k, f, m, g)
<1> DEFINE ny == [nx EXCEPT ![h] = x]
<1>1. Popped(nx, x, h, k, f)
  BY ChainPop, Zenon DEF Divided
<1>2. PICK ff \in [1..(k - 1) -> Node] :
            /\ \A i \in 1..(k - 1) : ff[i] = f[i + 1]
            /\ Chain(ny, nx[h], k - 1, ff)
  BY <1>1, Zenon DEF Popped
<1>3. k \in Nat /\ 1 \in 1..k /\ h = f[1] /\ h \in Node /\ k - 1 \in 0..N
  BY <1>1, NAssumption DEF Popped
<1>4. \A j \in 1..m : g[j] # h
  BY <1>3, Zenon DEF Divided
<1>5. Chain(ny, h2, m, g)
  BY <1>3, <1>4, ChainFrame, Zenon DEF Divided
<1>6. \A i \in 1..(k - 1) : i + 1 \in 1..k /\ ff[i] = f[i + 1]
  BY <1>2, <1>3
<1>7. \A i \in 1..(k - 1) : ff[i] # h
  BY <1>3, <1>6 DEF Divided, Chain
<1>8. ASSUME NEW n \in Node
      PROVE  \/ n \in out \cup {h}
             \/ \E i \in 1..(k - 1) : n = ff[i]
             \/ \E j \in 1..m : n = g[j]
  <2>1. CASE \E i \in 1..k : n = f[i]
    <3>1. PICK i \in 1..k : n = f[i]
      BY <2>1, Zenon
    <3>2. i # 1 => i - 1 \in 1..(k - 1) /\ n = ff[i - 1]
      BY <1>2, <1>3, <3>1
    <3> QED BY <1>3, <3>1, <3>2, Zenon
  <2> QED BY <2>1, Zenon DEF Divided
<1>9. \A i \in 1..(k - 1) : ff[i] \notin out \cup {h}
  BY <1>6, <1>7, Zenon DEF Divided
<1>10. \A i \in 1..(k - 1), j \in 1..m : ff[i] # g[j]
  BY <1>6 DEF Divided
<1>11. h \notin out /\ \A j \in 1..m : g[j] \notin out \cup {h}
  BY <1>3, <1>4, Zenon DEF Divided
<1>12. Divided(ny, nx[h], h2, out \cup {h}, k - 1, ff, m, g)
  BY <1>2, <1>5, <1>8, <1>9, <1>10, <1>11, Zenon DEF Divided
<1>13. \A i \in 1..(k - 1) : \E p \in 1..k : ff[i] = f[p]
  BY <1>6, Zenon
<1> QED BY <1>3, <1>11, <1>12, <1>13 DEF PoppedApart

(* Pushing a node of out on one list takes it from out.                    *)
LEMMA PushDivided ==
    ASSUME Pigeonhole,
           NEW nx \in [Node -> Node \cup {NULL}], NEW n \in Node, NEW h, NEW h2, NEW out,
           NEW k \in 0..N, NEW f \in [1..k -> Node],
           NEW m \in 0..N, NEW g \in [1..m -> Node],
           n \in out, Divided(nx, h, h2, out, k, f, m, g)
    PROVE  PushedApart(nx, n, h, h2, out, k, f, m, g)
<1> DEFINE ny == [nx EXCEPT ![n] = h]
<1>1. (\A i \in 1..k : f[i] # n) /\ (\A j \in 1..m : g[j] # n)
  BY Zenon DEF Divided
<1>2. Pushed(nx, n, h, k, f)
  BY <1>1, ChainPush, Zenon DEF Divided
<1>3. PICK ff \in [1..(k + 1) -> Node] :
            /\ \A i \in 1..(k + 1) : ff[i] = IF i = 1 THEN n ELSE f[i - 1]
            /\ Chain(ny, n, k + 1, ff)
  BY <1>2, Zenon DEF Pushed
<1>4. Chain(ny, h2, m, g)
  BY <1>1, ChainFrame, Zenon DEF Divided
<1>5. k \in Nat /\ 1 \in 1..(k + 1) /\ ff[1] = n
  BY <1>3, NAssumption
<1>6. \A i \in 1..(k + 1) : ff[i] = n \/ (i - 1 \in 1..k /\ ff[i] = f[i - 1])
  BY <1>3, <1>5
<1>7. ASSUME NEW p \in Node
      PROVE  \/ p \in out \ {n}
             \/ \E i \in 1..(k + 1) : p = ff[i]
             \/ \E j \in 1..m : p = g[j]
  <2>1. CASE \E i \in 1..k : p = f[i]
    <3>1. PICK i \in 1..k : p = f[i]
      BY <2>1, Zenon
    <3>2. i + 1 \in 1..(k + 1) /\ p = ff[i + 1]
      BY <1>3, <1>5, <3>1
    <3> QED BY <3>2, Zenon
  <2> QED BY <1>5, <2>1, Zenon DEF Divided
<1>8. \A i \in 1..(k + 1) : ff[i] \notin out \ {n}
  BY <1>6, Zenon DEF Divided
<1>9. \A i \in 1..(k + 1), j \in 1..m : ff[i] # g[j]
  BY <1>1, <1>6 DEF Divided
<1>10. \A j \in 1..m : g[j] \notin out \ {n}
  BY Zenon DEF Divided
<1>11. Divided(ny, n, h2, out \ {n}, k + 1, ff, m, g)
  BY <1>3, <1>4, <1>7, <1>8, <1>9, <1>10 DEF Divided
<1>12. \A i \in 1..(k + 1) : ff[i] = n \/ \E p \in 1..k : ff[i] = f[p]
  BY <1>6, Zenon
<1> QED BY <1>2, <1>11, <1>12, Zenon DEF PushedApart, Pushed

(* Handing out the head of the low list keeps the invariant.               *)
LEMMA AllocLowIInv == IInv /\ pmm_alloc_low => IInv'
<1> SUFFICES ASSUME IInv, pmm_alloc_low PROVE IInv'
  BY Zenon
<1>1. phase = "running" /\ TypeOK /\ HeldOnce /\ FreeListsSound
  BY Zenon DEF IInv, pmm_alloc_low
<1>2. CASE pmm_low = NULL
  <2>1. /\ phase' = "out of memory"
        /\ UNCHANGED <<next, pmm_low, pmm_high, pmm_free_list, holders, reserved>>
    BY <1>2, Zenon DEF pmm_alloc_low, Stop
  <2>2. TypeOK' /\ BootOrder' /\ HeldOnce'
    BY <1>1, <2>1, Zenon DEF TypeOK, BootOrder, HeldOnce
  <2> QED BY <1>1, <2>1, <2>2, ListsKept, Zenon DEF IInv
<1>3. CASE pmm_low # NULL
  <2>1. /\ next' = [next EXCEPT ![pmm_low] = pmm_free_list]
        /\ pmm_low' = next[pmm_low] /\ pmm_high' = pmm_high
        /\ pmm_free_list' = pmm_low /\ holders' = [holders EXCEPT ![pmm_low] = @ + 1]
        /\ reserved' = reserved /\ phase' = phase
    BY <1>3, Zenon DEF pmm_alloc_low, HandOut
  <2>2. /\ next \in [Node -> Node \cup {NULL}] /\ pmm_low \in Node
        /\ pmm_free_list \in Node \cup {NULL}
    BY <1>1, <1>3, Zenon DEF TypeOK
  <2>3. PICK k \in 0..N, m \in 0..N : \E f \in [1..k -> Node], g \in [1..m -> Node] :
            /\ Divided(next, pmm_low, pmm_high, owned \cup reserved, k, f, m, g)
            /\ ByAddress(k, f, m, g)
    BY <1>1, ListsElim, Zenon
  <2>4. PICK f \in [1..k -> Node], g \in [1..m -> Node] :
            /\ Divided(next, pmm_low, pmm_high, owned \cup reserved, k, f, m, g)
            /\ ByAddress(k, f, m, g)
    BY <2>3, Zenon
  <2>5. PoppedApart(next, pmm_free_list, pmm_low, pmm_high, owned \cup reserved, k, f, m, g)
    BY <1>3, <2>2, <2>4, PopDivided, Zenon
  <2>6. PICK ff \in [1..(k - 1) -> Node] :
            /\ Divided([next EXCEPT ![pmm_low] = pmm_free_list], next[pmm_low], pmm_high,
                       (owned \cup reserved) \cup {pmm_low}, k - 1, ff, m, g)
            /\ \A i \in 1..(k - 1) : \E p \in 1..k : ff[i] = f[p]
    BY <2>5, Zenon DEF PoppedApart
  <2>7. k - 1 \in 0..N /\ pmm_low \notin owned \cup reserved
    BY <2>5, Zenon DEF PoppedApart
  <2>8. owned' = owned \cup {pmm_low} /\ TypeOK' /\ BootOrder' /\ HeldOnce'
    <3>1. owned' = owned \cup {pmm_low} /\ holders' \in [Node -> Nat] /\ HeldOnce'
      BY <1>1, <2>1, <2>2, <2>7, HeldMore, Zenon
    <3> QED BY <1>1, <2>1, <2>2, <3>1, SMTT(30) DEF TypeOK, BootOrder
  <2>9. owned' \cup reserved' = (owned \cup reserved) \cup {pmm_low}
    BY <2>1, <2>8, Zenon
  <2>10. owned' \cap reserved' = {}
    BY <1>1, <2>1, <2>8, <2>7, ListsElim, Zenon
  <2>11. Divided(next', pmm_low', pmm_high', owned' \cup reserved', k - 1, ff, m, g)
    BY <2>1, <2>6, <2>9, Zenon
  <2>12. ByAddress(k - 1, ff, m, g)
    BY <2>4, <2>6, Zenon DEF ByAddress
  <2>13. FreeListsSound'
    BY <2>7, <2>10, <2>11, <2>12, ListsIntro
  <2> QED BY <2>8, <2>13 DEF IInv
<1> QED BY <1>2, <1>3, Zenon

(* So does handing out the head of the high list, or, when that list is    *)
(* empty, of the low one.                                                  *)
LEMMA AllocHighIInv == IInv /\ pmm_alloc_high => IInv'
<1> SUFFICES ASSUME IInv, pmm_alloc_high PROVE IInv'
  BY Zenon
<1>1. phase = "running" /\ TypeOK /\ HeldOnce /\ FreeListsSound
  BY Zenon DEF IInv, pmm_alloc_high
<1>2. CASE pmm_high = NULL
  BY <1>2, AllocLowIInv, Zenon DEF pmm_alloc_high
<1>3. CASE pmm_high # NULL
  <2>1. /\ next' = [next EXCEPT ![pmm_high] = pmm_free_list]
        /\ pmm_high' = next[pmm_high] /\ pmm_low' = pmm_low
        /\ pmm_free_list' = pmm_high /\ holders' = [holders EXCEPT ![pmm_high] = @ + 1]
        /\ reserved' = reserved /\ phase' = phase
    BY <1>3, Zenon DEF pmm_alloc_high, HandOut
  <2>2. /\ next \in [Node -> Node \cup {NULL}] /\ pmm_high \in Node
        /\ pmm_free_list \in Node \cup {NULL}
    BY <1>1, <1>3 DEF TypeOK
  <2>3. PICK k \in 0..N, m \in 0..N : \E f \in [1..k -> Node], g \in [1..m -> Node] :
            /\ Divided(next, pmm_low, pmm_high, owned \cup reserved, k, f, m, g)
            /\ ByAddress(k, f, m, g)
    BY <1>1, ListsElim, Zenon
  <2>4. PICK f \in [1..k -> Node], g \in [1..m -> Node] :
            /\ Divided(next, pmm_low, pmm_high, owned \cup reserved, k, f, m, g)
            /\ ByAddress(k, f, m, g)
    BY <2>3, Zenon
  <2>5. Divided(next, pmm_high, pmm_low, owned \cup reserved, m, g, k, f)
    BY <2>4, DividedSwap, Zenon
  <2>6. PoppedApart(next, pmm_free_list, pmm_high, pmm_low, owned \cup reserved, m, g, k, f)
    BY <1>3, <2>2, <2>5, PopDivided
  <2>7. PICK gg \in [1..(m - 1) -> Node] :
            /\ Divided([next EXCEPT ![pmm_high] = pmm_free_list], next[pmm_high], pmm_low,
                       (owned \cup reserved) \cup {pmm_high}, m - 1, gg, k, f)
            /\ \A j \in 1..(m - 1) : \E p \in 1..m : gg[j] = g[p]
    BY <2>6, Zenon DEF PoppedApart
  <2>8. m - 1 \in 0..N /\ pmm_high \notin owned \cup reserved
    BY <2>6, Zenon DEF PoppedApart
  <2>9. owned' = owned \cup {pmm_high} /\ TypeOK' /\ BootOrder' /\ HeldOnce'
    <3>1. owned' = owned \cup {pmm_high} /\ holders' \in [Node -> Nat] /\ HeldOnce'
      BY <1>1, <2>1, <2>2, <2>8, HeldMore, Zenon
    <3> QED BY <1>1, <2>1, <2>2, <3>1 DEF TypeOK, BootOrder
  <2>10. owned' \cup reserved' = (owned \cup reserved) \cup {pmm_high}
    BY <2>1, <2>9, Zenon
  <2>11. owned' \cap reserved' = {}
    BY <1>1, <2>1, <2>9, <2>8, ListsElim, Zenon
  <2>12. Divided(next', pmm_high', pmm_low', owned' \cup reserved', m - 1, gg, k, f)
    BY <2>1, <2>7, <2>10, Zenon
  <2>13. Divided(next', pmm_low', pmm_high', owned' \cup reserved', k, f, m - 1, gg)
    BY <2>12, DividedSwap, Zenon
  <2>14. ByAddress(k, f, m - 1, gg)
    BY <2>4, <2>7, Zenon DEF ByAddress
  <2>15. FreeListsSound'
    BY <2>8, <2>11, <2>13, <2>14, ListsIntro, SMTT(30)
  <2> QED BY <2>9, <2>15, Zenon DEF IInv
<1> QED BY <1>2, <1>3, Zenon

(* Freeing a frame that its caller holds keeps the invariant: the node is  *)
(* on neither free list, so pushing it makes no cycle there.               *)
LEMMA FreeIInv ==
    ASSUME Pigeonhole, IInv, NEW n \in owned, pmm_free(n)
    PROVE  IInv'
<1>1. /\ phase = "running" /\ TypeOK /\ HeldOnce /\ FreeListsSound
      /\ next \in [Node -> Node \cup {NULL}] /\ n \in Node /\ n \in owned \cup reserved
      /\ {pmm_low, pmm_high} \subseteq Node \cup {NULL}
      /\ owned \cap reserved = {}
  BY ListsElim, Zenon DEF IInv, pmm_free, TypeOK, owned
<1>2. CASE Stop("cannot find node") \/ Stop("endless search")
  <2>1. /\ phase' \in {"cannot find node", "endless search"}
        /\ UNCHANGED <<next, pmm_low, pmm_high, pmm_free_list, holders, reserved>>
    BY <1>2, Zenon DEF Stop
  <2>2. TypeOK' /\ BootOrder' /\ HeldOnce'
    BY <1>1, <2>1, Zenon DEF TypeOK, BootOrder, HeldOnce
  <2> QED BY <1>1, <2>1, <2>2, ListsKept, Zenon DEF IInv
<1>3. CASE /\ ~IsHigh(n)
           /\ next' = [next EXCEPT ![n] = pmm_low]
           /\ pmm_low' = n /\ holders' = [holders EXCEPT ![n] = @ - 1]
           /\ UNCHANGED <<pmm_high, pmm_free_list, reserved, phase>>
  <2>1. owned' = owned \ {n} /\ holders' \in [Node -> Nat] /\ HeldOnce'
    BY <1>1, <1>3, HeldLess, Zenon
  <2>2. TypeOK' /\ BootOrder'
    BY <1>1, <1>3, <2>1, Zenon DEF TypeOK, BootOrder
  <2>3. PICK k \in 0..N, m \in 0..N : \E f \in [1..k -> Node], g \in [1..m -> Node] :
            /\ Divided(next, pmm_low, pmm_high, owned \cup reserved, k, f, m, g)
            /\ ByAddress(k, f, m, g)
    BY <1>1, ListsElim, Zenon
  <2>4. PICK f \in [1..k -> Node], g \in [1..m -> Node] :
            /\ Divided(next, pmm_low, pmm_high, owned \cup reserved, k, f, m, g)
            /\ ByAddress(k, f, m, g)
    BY <2>3, Zenon
  <2>5. PushedApart(next, n, pmm_low, pmm_high, owned \cup reserved, k, f, m, g)
    BY <1>1, <2>4, PushDivided, Zenon
  <2>6. PICK ff \in [1..(k + 1) -> Node] :
            /\ Divided([next EXCEPT ![n] = pmm_low], n, pmm_high,
                       (owned \cup reserved) \ {n}, k + 1, ff, m, g)
            /\ \A i \in 1..(k + 1) : ff[i] = n \/ \E p \in 1..k : ff[i] = f[p]
    BY <2>5, Zenon DEF PushedApart
  <2>7. k + 1 \in 0..N
    BY <2>5, Zenon DEF PushedApart
  <2>8. /\ owned' \cup reserved' = (owned \cup reserved) \ {n}
        /\ owned' \cap reserved' = {}
    BY <1>1, <1>3, <2>1, Zenon
  <2>9. Divided(next', pmm_low', pmm_high', owned' \cup reserved', k + 1, ff, m, g)
    BY <1>3, <2>6, <2>8, Zenon
  <2>10. ByAddress(k + 1, ff, m, g)
    BY <1>3, <2>4, <2>6, Zenon DEF ByAddress
  <2>11. FreeListsSound'
    BY <2>7, <2>8, <2>9, <2>10, ListsIntro
  <2> QED BY <2>1, <2>2, <2>11, Zenon DEF IInv
<1>4. CASE /\ IsHigh(n)
           /\ next' = [next EXCEPT ![n] = pmm_high]
           /\ pmm_high' = n /\ holders' = [holders EXCEPT ![n] = @ - 1]
           /\ UNCHANGED <<pmm_low, pmm_free_list, reserved, phase>>
  <2>1. owned' = owned \ {n} /\ holders' \in [Node -> Nat] /\ HeldOnce'
    BY <1>1, <1>4, HeldLess, Zenon
  <2>2. TypeOK' /\ BootOrder'
    BY <1>1, <1>4, <2>1 DEF TypeOK, BootOrder
  <2>3. PICK k \in 0..N, m \in 0..N : \E f \in [1..k -> Node], g \in [1..m -> Node] :
            /\ Divided(next, pmm_low, pmm_high, owned \cup reserved, k, f, m, g)
            /\ ByAddress(k, f, m, g)
    BY <1>1, ListsElim, Zenon
  <2>4. PICK f \in [1..k -> Node], g \in [1..m -> Node] :
            /\ Divided(next, pmm_low, pmm_high, owned \cup reserved, k, f, m, g)
            /\ ByAddress(k, f, m, g)
    BY <2>3, Zenon
  <2>5. Divided(next, pmm_high, pmm_low, owned \cup reserved, m, g, k, f)
    BY <2>4, DividedSwap, Zenon
  <2>6. PushedApart(next, n, pmm_high, pmm_low, owned \cup reserved, m, g, k, f)
    BY <1>1, <2>5, PushDivided, Zenon
  <2>7. PICK gg \in [1..(m + 1) -> Node] :
            /\ Divided([next EXCEPT ![n] = pmm_high], n, pmm_low,
                       (owned \cup reserved) \ {n}, m + 1, gg, k, f)
            /\ \A j \in 1..(m + 1) : gg[j] = n \/ \E p \in 1..m : gg[j] = g[p]
    BY <2>6, Zenon DEF PushedApart
  <2>8. m + 1 \in 0..N
    BY <2>6, Zenon DEF PushedApart
  <2>9. /\ owned' \cup reserved' = (owned \cup reserved) \ {n}
         /\ owned' \cap reserved' = {}
    BY <1>1, <1>4, <2>1, Zenon
  <2>10. Divided(next', pmm_high', pmm_low', owned' \cup reserved', m + 1, gg, k, f)
    BY <1>4, <2>7, <2>9, Zenon
  <2>11. Divided(next', pmm_low', pmm_high', owned' \cup reserved', k, f, m + 1, gg)
    BY <2>10, DividedSwap, Zenon
  <2>12. ByAddress(k, f, m + 1, gg)
    BY <1>4, <2>4, <2>7, Zenon DEF ByAddress
  <2>13. FreeListsSound'
    BY <2>8, <2>9, <2>11, <2>12, ListsIntro
  <2> QED BY <2>1, <2>2, <2>13, Zenon DEF IInv
<1> QED BY <1>2, <1>3, <1>4, Zenon DEF pmm_free

-----------------------------------------------------------------------------

(* Every step of the manager keeps the invariant.                          *)
LEMMA StepIInv == ASSUME Pigeonhole, IInv, [Next]_vars PROVE IInv'
<1>1. CASE pmm_init_final
  BY <1>1, InitFinalIInv, Zenon
<1>2. CASE \E start, end \in 1..(Addr[N] + 2) : start < end /\ pmm_clear_blocks(start, end)
  <2>1. Addr[N] \in Nat
    BY AddrAssumption, NAssumption
  <2> QED BY <1>2, <2>1, ClearBlocksIInv
<1>3. CASE pmm_alloc_low
  BY <1>3, AllocLowIInv, Zenon
<1>4. CASE pmm_alloc_high
  BY <1>4, AllocHighIInv, Zenon
<1>5. CASE \E n \in owned : pmm_free(n)
  BY <1>5, FreeIInv, Zenon
<1>6. CASE UNCHANGED vars
  <2>1. TypeOK' /\ BootOrder'
    BY <1>6, Zenon DEF vars, IInv, TypeOK, BootOrder, FirstHigh, IsHigh, owned
  <2>2. phase # "built" => FreeListsSound'
    BY <1>6, ListsKept, Zenon DEF vars, IInv
  <2>3. phase = "built" => FreeListsSound'
    BY <1>6, Zenon DEF vars, FreeListsSound
  <2>4. HeldOnce'
    BY <1>6, Zenon DEF vars, IInv, HeldOnce
  <2> QED BY <2>1, <2>2, <2>3, <2>4, Zenon DEF IInv
<1> QED BY <1>1, <1>2, <1>3, <1>4, <1>5, <1>6, Zenon DEF Next

(* Every step of the manager is a step of the abstract allocator, or none. *)
LEMMA StepCallers ==
    ASSUME IInv, [Next]_vars PROVE [Callers!Next]_<<holders, reserved>>
<1> USE DEF Callers!Next
<1>1. CASE pmm_init_final
  BY <1>1, Zenon DEF pmm_init_final
<1>2. ASSUME NEW start, NEW end, pmm_clear_blocks(start, end)
      PROVE  [Callers!Next]_<<holders, reserved>>
  <2>1. (\A n \in Node : holders[n] = 0) /\ reserved = {} /\ holders' = holders
    BY <1>2 DEF pmm_clear_blocks, IInv, BootOrder, TypeOK, owned
  <2>2. reserved' = reserved \/ \E s, e \in Node : reserved' = (s + 1)..e
    BY <1>2, Zenon DEF pmm_clear_blocks
  <2>3. reserved' \subseteq Node
    BY <2>1, <2>2, NAssumption DEF Node
  <2> QED BY <2>1, <2>3, Zenon DEF Callers!Reserve
<1>3. ASSUME pmm_alloc_low PROVE [Callers!Next]_<<holders, reserved>>
  <2>1. CASE pmm_low = NULL
    BY <1>3, <2>1, Zenon DEF pmm_alloc_low, Stop
  <2>2. CASE pmm_low # NULL
    <3>1. pmm_low \in Node \ (owned \cup reserved)
      <4>1. PICK k \in 0..N, m \in 0..N :
                \E f \in [1..k -> Node], g \in [1..m -> Node] :
                    Divided(next, pmm_low, pmm_high, owned \cup reserved, k, f, m, g)
        BY <1>3, ListsElim, Zenon DEF IInv, pmm_alloc_low
      <4>2. PICK f \in [1..k -> Node], g \in [1..m -> Node] :
                Divided(next, pmm_low, pmm_high, owned \cup reserved, k, f, m, g)
        BY <4>1, Zenon
      <4>3. k # 0 /\ pmm_low = f[1]
        BY <2>2, <4>2, Zenon DEF Divided, Chain
      <4> QED BY <4>2, <4>3, NAssumption DEF Divided
    <3>2. holders' = [holders EXCEPT ![pmm_low] = @ + 1] /\ reserved' = reserved
      BY <1>3, <2>2, Zenon DEF pmm_alloc_low, HandOut
    <3>3. holders' = [holders EXCEPT ![pmm_low] = 1]
      BY <3>1, <3>2, HeldMore, Zenon DEF IInv
    <3>4. holders \in [Node -> Nat] /\ ~(holders[pmm_low] > 0)
      BY <3>1, Zenon DEF IInv, TypeOK, owned
    <3>5. holders[pmm_low] = 0
      BY <3>1, <3>4
    <3> QED BY <3>1, <3>2, <3>3, <3>5, Zenon DEF Callers!Alloc
  <2> QED BY <2>1, <2>2, Zenon
<1>4. CASE pmm_alloc_high
  <2>1. CASE pmm_high = NULL
    BY <1>3, <1>4, <2>1, Zenon DEF pmm_alloc_high
  <2>2. CASE pmm_high # NULL
    <3>1. pmm_high \in Node \ (owned \cup reserved)
      <4>1. PICK k \in 0..N, m \in 0..N :
                \E f \in [1..k -> Node], g \in [1..m -> Node] :
                    Divided(next, pmm_low, pmm_high, owned \cup reserved, k, f, m, g)
        BY <1>4, ListsElim, Zenon DEF IInv, pmm_alloc_high
      <4>2. PICK f \in [1..k -> Node], g \in [1..m -> Node] :
                Divided(next, pmm_low, pmm_high, owned \cup reserved, k, f, m, g)
        BY <4>1, Zenon
      <4>3. m # 0 /\ pmm_high = g[1]
        BY <2>2, <4>2, Zenon DEF Divided, Chain
      <4> QED BY <4>2, <4>3, NAssumption DEF Divided
    <3>2. holders' = [holders EXCEPT ![pmm_high] = @ + 1] /\ reserved' = reserved
      BY <1>4, <2>2, Zenon DEF pmm_alloc_high, HandOut
    <3>3. holders' = [holders EXCEPT ![pmm_high] = 1]
      BY <3>1, <3>2, HeldMore, Zenon DEF IInv
    <3>4. holders \in [Node -> Nat] /\ ~(holders[pmm_high] > 0)
      BY <3>1, Zenon DEF IInv, TypeOK, owned
    <3>5. holders[pmm_high] = 0
      BY <3>1, <3>4
    <3> QED BY <3>1, <3>2, <3>3, <3>5, Zenon DEF Callers!Alloc
  <2> QED BY <2>1, <2>2, Zenon
<1>5. ASSUME NEW n \in owned, pmm_free(n)
      PROVE  [Callers!Next]_<<holders, reserved>>
  <2>1. CASE UNCHANGED <<holders, reserved>>
    BY <2>1, Zenon
  <2>2. CASE holders' = [holders EXCEPT ![n] = @ - 1] /\ reserved' = reserved
    <3>1. n \in Node /\ holders[n] = 1 /\ holders' = [holders EXCEPT ![n] = 0]
      BY <1>5, <2>2, HeldLess, Zenon DEF IInv, owned
    <3> QED BY <2>2, <3>1, Zenon DEF Callers!Free
  <2> QED BY <1>5, <2>1, <2>2, Zenon DEF pmm_free, Stop
<1>6. CASE UNCHANGED vars
  BY <1>6, Zenon DEF vars
<1> QED BY <1>1, <1>2, <1>3, <1>4, <1>5, <1>6, Zenon DEF Next

-----------------------------------------------------------------------------

(* Multiplication is monotonic.                                            *)
LEMMA MulMono ==
    ASSUME NEW a \in Int, NEW b \in Int, NEW c \in Nat, a <= b
    PROVE  a * c <= b * c
<1>1. PICK d \in Nat : b = a + d
  <2>1. b - a \in Nat /\ b = a + (b - a)
    OBVIOUS
  <2> QED BY <2>1, Zenon
<1>2. (a + d) * c = a * c + d * c
  OBVIOUS
<1>3. a * c \in Int /\ d * c \in Nat
  OBVIOUS
<1> QED BY <1>1, <1>2, <1>3

(* The sizes of a node and a page.                                         *)
LEMMA BootSizes == NODE \in Nat \ {0} /\ PAGE_SIZE \in Nat \ {0}
BY BootAssumption, Zenon

CeilDiv(a, b) == Boot!ceil_u64_div(a, b)

(* A quotient that is rounded up is the least number that is large enough. *)
LEMMA Ceil ==
    ASSUME NEW a \in Nat, NEW b \in Nat \ {0}
    PROVE  /\ CeilDiv(a, b) \in Nat
           /\ a <= CeilDiv(a, b) * b /\ CeilDiv(a, b) * b < a + b
           /\ CeilDiv(a, b) * b \in Nat
<1> DEFINE f == a \div b  q == CeilDiv(a, b)
<1>1. f \in Nat /\ a = f * b + (a % b) /\ a % b \in 0..(b - 1)
  OBVIOUS
<1>2. q = IF a % b = 0 THEN f ELSE f + 1
  BY Zenon DEF CeilDiv, Boot!ceil_u64_div
<1> HIDE DEF f, q
<1>3. f * b \in Nat /\ (f + 1) * b = f * b + b
  BY <1>1
<1>4. CASE a % b = 0
  BY <1>1, <1>2, <1>3, <1>4 DEF q
<1>5. CASE a % b # 0
  BY <1>1, <1>2, <1>3, <1>5 DEF q
<1> QED BY <1>4, <1>5, Zenon

(* Rounding up gives the least multiple.                                   *)
LEMMA CeilLeast ==
    ASSUME NEW a \in Nat, NEW b \in Nat \ {0}, NEW n \in Int, a <= n * b
    PROVE  CeilDiv(a, b) <= n
<1> DEFINE q == CeilDiv(a, b)
<1>1. q \in Nat /\ q * b < a + b /\ q * b \in Nat
  BY Ceil, Zenon
<1> HIDE DEF q
<1>2. n * b \in Int /\ (n + 1) * b = n * b + b
  OBVIOUS
<1>3. ASSUME n + 1 <= q PROVE FALSE
  <2>1. (n + 1) * b <= q * b
    BY <1>1, <1>3, MulMono
  <2> QED BY <1>1, <1>2, <2>1
<1>4. q <= n
  BY <1>1, <1>3
<1> QED BY <1>4, Zenon DEF q

(* A page more or less.                                                    *)
LEMMA CeilShift ==
    ASSUME NEW a \in Nat, NEW b \in Nat \ {0}, NEW r \in Int, a + r * b \in Nat
    PROVE  CeilDiv(a + r * b, b) = CeilDiv(a, b) + r
<1> DEFINE q == CeilDiv(a, b)  c == a + r * b  p == CeilDiv(c, b)
<1>1. q \in Nat /\ a <= q * b /\ q * b \in Nat
  BY Ceil, Zenon
<1>2. p \in Nat /\ c <= p * b /\ p * b \in Nat /\ c \in Nat
  BY Ceil, Zenon
<1>3. ASSUME NEW n \in Int, a <= n * b PROVE q <= n
  BY <1>3, CeilLeast, Zenon
<1>4. ASSUME NEW n \in Int, c <= n * b PROVE p <= n
  <2> HIDE DEF c
  <2> QED BY <1>2, <1>4, CeilLeast, Zenon
<1>5. r * b \in Int /\ c = a + r * b
  OBVIOUS
<1> HIDE DEF q, p, c
<1>6. (q + r) * b = q * b + r * b /\ (p - r) * b = p * b - r * b
  BY <1>1, <1>2
<1>7. p <= q + r
  <2>1. c <= (q + r) * b
    BY <1>1, <1>5, <1>6
  <2> QED BY <1>1, <1>4, <2>1
<1>8. q <= p - r
  <2>1. a <= (p - r) * b
    BY <1>2, <1>5, <1>6
  <2> QED BY <1>2, <1>3, <2>1
<1>9. p = q + r
  BY <1>1, <1>2, <1>7, <1>8
<1> QED BY <1>9, Zenon DEF q, p, c

(* A multiple of PAGE_SIZE.                                                *)
LEMMA Multiple ==
    ASSUME NEW q \in Nat
    PROVE  q * PAGE_SIZE \in Nat /\ (q * PAGE_SIZE) % PAGE_SIZE = 0
<1> DEFINE n == q * PAGE_SIZE  d == n \div PAGE_SIZE  r == n % PAGE_SIZE
<1>1. PAGE_SIZE \in Nat \ {0} /\ n \in Nat
  BY BootSizes
<1>2. d \in Nat /\ r \in 0..(PAGE_SIZE - 1) /\ n = d * PAGE_SIZE + r
  <2> HIDE DEF n
  <2> QED BY <1>1
<1>3. n = q * PAGE_SIZE
  BY Zenon
<1> HIDE DEF n, d, r
<1>4. /\ d * PAGE_SIZE \in Nat /\ (d + 1) * PAGE_SIZE = d * PAGE_SIZE + PAGE_SIZE
      /\ q * PAGE_SIZE \in Nat /\ (q + 1) * PAGE_SIZE = q * PAGE_SIZE + PAGE_SIZE
  BY <1>1, <1>2
<1>5. ASSUME q > d PROVE FALSE
  <2>1. (d + 1) * PAGE_SIZE <= q * PAGE_SIZE
    BY <1>1, <1>2, <1>5, MulMono
  <2> QED BY <1>1, <1>2, <1>3, <1>4, <2>1
<1>6. ASSUME q < d PROVE FALSE
  <2>1. (q + 1) * PAGE_SIZE <= d * PAGE_SIZE
    BY <1>1, <1>2, <1>6, MulMono
  <2> QED BY <1>1, <1>2, <1>3, <1>4, <2>1
<1>7. q = d /\ n = d * PAGE_SIZE
  <2>1. q = d
    BY <1>2, <1>5, <1>6
  <2> QED BY <1>3, <2>1, Zenon
<1>8. r = 0 /\ n \in Nat
  BY <1>1, <1>2, <1>4, <1>7
<1> QED BY <1>3, <1>8, Zenon DEF r

(* A page-aligned number is a number of pages.                             *)
LEMMA WholePages ==
    ASSUME NEW n \in Nat, n % PAGE_SIZE = 0
    PROVE  \E q \in Nat : n = q * PAGE_SIZE
<1>1. PAGE_SIZE \in Nat \ {0}
  BY BootSizes, Zenon
<1>2. n \div PAGE_SIZE \in Nat /\ n = (n \div PAGE_SIZE) * PAGE_SIZE + (n % PAGE_SIZE)
  BY <1>1
<1>3. (n \div PAGE_SIZE) * PAGE_SIZE \in Nat
  BY <1>1, <1>2
<1>4. n = (n \div PAGE_SIZE) * PAGE_SIZE
  BY <1>2, <1>3
<1> QED BY <1>2, <1>4, Zenon

-----------------------------------------------------------------------------

(* The list while kmain builds it.                                         *)
St == [nodes : Seq(Nat), needed : Nat, addr : Seq(Nat)]

(* Nodes and frames are in ascending order, frames are pages, and there    *)
(* are none in front of the last node.                                     *)
Ordered(st) ==
    /\ \A i, j \in 1..Len(st.nodes) : i < j => st.nodes[i] + NODE <= st.nodes[j]
    /\ \A i, j \in 1..Len(st.addr) : i < j => st.addr[i] < st.addr[j]
    /\ \A k \in 1..Len(st.addr) :
          st.addr[k] % PAGE_SIZE = 0 /\ st.nodes[Len(st.nodes)] <= st.addr[k]
    /\ Len(st.addr) <= Len(st.nodes)
    /\ Len(st.addr) > 0 => st.needed = 0

(* Nodes and frames are in front of x.                                     *)
Before(st, x) ==
    /\ \A i \in 1..Len(st.nodes) : st.nodes[i] + NODE <= x
    /\ \A k \in 1..Len(st.addr) : st.addr[k] < x

Under(st, x) ==
    /\ \A i \in 1..Len(st.nodes) : st.nodes[i] < x
    /\ \A k \in 1..Len(st.addr) : st.addr[k] < x

(* The frames of g that are not in st begin in start..(end - 1).           *)
NewFrames(g, st, start, end) ==
    /\ Len(st.addr) <= Len(g.addr)
    /\ \A k \in 1..Len(g.addr) :
          IF k <= Len(st.addr) THEN g.addr[k] = st.addr[k]
          ELSE start <= g.addr[k] /\ g.addr[k] < end

Total(st) == Len(st.nodes) + st.needed

(* Elements of a sequence, and two sequences in one.                       *)
LEMMA ElementOfSeq ==
    ASSUME NEW S, NEW s \in Seq(S), NEW i \in 1..Len(s)
    PROVE  s[i] \in S
OBVIOUS

(* A function on 1..n is a sequence.                                       *)
LEMMA FunctionSeq ==
    ASSUME NEW n \in Nat, NEW t \in [1..n -> Nat]
    PROVE  t \in Seq(Nat) /\ Len(t) = n
OBVIOUS

(* What concatenation is, index by index.                                  *)
LEMMA ConcatProperties ==
    ASSUME NEW s \in Seq(Nat), NEW t \in Seq(Nat)
    PROVE  /\ s \o t \in Seq(Nat) /\ Len(s \o t) = Len(s) + Len(t)
           /\ \A i \in 1..(Len(s) + Len(t)) : (s \o t)[i] = IF i <= Len(s) THEN s[i] ELSE t[i - Len(s)]
OBVIOUS

(* Numbers behind a sequence of numbers.                                   *)
LEMMA Concat ==
    ASSUME NEW s \in Seq(Nat), NEW n \in Nat, NEW t \in [1..n -> Nat]
    PROVE  /\ s \o t \in Seq(Nat) /\ Len(s \o t) = Len(s) + n /\ Len(s) \in Nat
           /\ \A i \in 1..Len(s) : (s \o t)[i] = s[i]
           /\ \A i \in 1..n : (s \o t)[Len(s) + i] = t[i]
           /\ \A i \in (Len(s) + 1)..(Len(s) + n) : i - Len(s) \in 1..n /\ (s \o t)[i] = t[i - Len(s)]
<1>1. t \in Seq(Nat) /\ Len(t) = n /\ Len(s) \in Nat
  OBVIOUS
<1>2. /\ s \o t \in Seq(Nat) /\ Len(s \o t) = Len(s) + n
      /\ \A i \in 1..(Len(s) + n) : (s \o t)[i] = IF i <= Len(s) THEN s[i] ELSE t[i - Len(s)]
  BY <1>1, ConcatProperties, Zenon
<1>3. \A i \in 1..Len(s) : (s \o t)[i] = s[i]
  BY <1>1, <1>2
<1>4. ASSUME NEW i \in 1..n PROVE (s \o t)[Len(s) + i] = t[i]
  <2>1. Len(s) + i \in 1..(Len(s) + n) /\ ~(Len(s) + i <= Len(s)) /\ (Len(s) + i) - Len(s) = i
    BY <1>1
  <2> QED BY <1>2, <2>1, Zenon
<1>5. ASSUME NEW i \in (Len(s) + 1)..(Len(s) + n)
      PROVE  i - Len(s) \in 1..n /\ (s \o t)[i] = t[i - Len(s)]
  <2>1. i \in 1..(Len(s) + n) /\ ~(i <= Len(s)) /\ i - Len(s) \in 1..n
    BY <1>1
  <2> QED BY <1>2, <2>1, Zenon
<1> QED BY <1>1, <1>2, <1>3, <1>4, <1>5, Zenon

(* The second part of a concatenation.                                     *)
LEMMA ConcatBehind ==
    ASSUME NEW s \in Seq(Nat), NEW n \in Nat, NEW t \in [1..n -> Nat]
    PROVE  \A i \in (Len(s) + 1)..(Len(s) + n) : i - Len(s) \in 1..n /\ (s \o t)[i] = t[i - Len(s)]
BY Concat, ZenonT(60)

(* How many pages start in from..(end - 1).                                *)
LEMMA PageCount ==
    ASSUME NEW from \in Nat, NEW end \in Nat
    PROVE  LET c == CeilDiv(from, PAGE_SIZE)
               e == CeilDiv(end, PAGE_SIZE)
               p == Boot!Pages(from, end)
           IN  /\ p \in Seq(Nat) /\ Len(p) \in Nat /\ Len(p) = IF c <= e THEN e - c ELSE 0
               /\ \A k \in 1..Len(p) : /\ p[k] = (c + (k - 1)) * PAGE_SIZE
                                       /\ from <= p[k] /\ p[k] < end
<1> DEFINE c == CeilDiv(from, PAGE_SIZE)  e == CeilDiv(end, PAGE_SIZE)  p == Boot!Pages(from, end)
           first == c * PAGE_SIZE
           d == Boot!larger(end - first, 0)
           n == CeilDiv(d, PAGE_SIZE)
<1>1. PAGE_SIZE \in Nat \ {0}
  BY BootSizes, Zenon
<1>2. /\ c \in Nat /\ from <= first /\ first < from + PAGE_SIZE /\ first \in Nat
      /\ e \in Nat /\ end <= e * PAGE_SIZE /\ e * PAGE_SIZE < end + PAGE_SIZE
      /\ e * PAGE_SIZE \in Nat
  BY <1>1, Ceil, Zenon
<1>3. p = [k \in 1..n |-> first + (k - 1) * PAGE_SIZE]
  BY Zenon DEF Boot!Pages, CeilDiv
<1>4. d = IF end > first THEN end - first ELSE 0
  BY <1>2 DEF Boot!larger
<1> HIDE DEF first, d
<1>5. d \in Nat
  BY <1>2, <1>4
<1>6. n \in Nat /\ d <= n * PAGE_SIZE /\ n * PAGE_SIZE < d + PAGE_SIZE /\ n * PAGE_SIZE \in Nat
  BY <1>1, <1>5, Ceil, Zenon
<1>7. n = IF c <= e THEN e - c ELSE 0
  <2>1. CASE end > first
    <3>1. end = d + c * PAGE_SIZE
      BY <1>2, <1>4, <2>1 DEF first
    <3>2. e = n + c
      BY <1>1, <1>2, <1>5, <3>1, CeilShift
    <3> HIDE DEF e, c, n
    <3> QED BY <1>2, <1>6, <3>2
  <2>2. CASE end <= first
    <3>1. d = 0
      BY <1>2, <1>4, <2>2
    <3>2. n <= 0
      <4>1. d <= 0 * PAGE_SIZE
        BY <1>1, <3>1
      <4> QED BY <1>1, <1>5, <4>1, CeilLeast
    <3>3. e <= c
      BY <1>1, <1>2, <2>2, CeilLeast DEF first
    <3> HIDE DEF e, c, n
    <3> QED BY <1>2, <1>6, <3>2, <3>3
  <2> QED BY <1>2, <2>1, <2>2
<1> HIDE DEF n, e, p
<1>8. ASSUME NEW k \in 1..n
      PROVE  /\ first + (k - 1) * PAGE_SIZE = (c + (k - 1)) * PAGE_SIZE
             /\ first + (k - 1) * PAGE_SIZE \in Nat
             /\ from <= first + (k - 1) * PAGE_SIZE /\ first + (k - 1) * PAGE_SIZE < end
  <2> HIDE DEF c
  <2>1. k - 1 \in Nat /\ n - 1 \in Nat /\ k - 1 <= n - 1
    BY <1>6
  <2>2. PICK j \in Nat : j = k - 1
    BY <2>1, Zenon
  <2>3. j * PAGE_SIZE \in Nat /\ j * PAGE_SIZE <= (n - 1) * PAGE_SIZE
    BY <1>1, <2>1, <2>2, MulMono
  <2>4. (n - 1) * PAGE_SIZE = n * PAGE_SIZE - PAGE_SIZE
    BY <1>1, <1>6
  <2>5. (c + j) * PAGE_SIZE = c * PAGE_SIZE + j * PAGE_SIZE
    BY <1>1, <1>2
  <2>6. n # 0
    BY <1>6
  <2>7. d # 0
    <3>1. CASE d = 0
      <4>1. d <= 0 * PAGE_SIZE
        BY <1>1, <3>1
      <4>2. n <= 0
        BY <1>1, <1>5, <4>1, CeilLeast DEF n
      <4> QED BY <1>6, <2>6, <4>2
    <3> QED BY <3>1, Zenon
  <2>8. d = end - first
    BY <1>4, <2>7, Zenon
  <2>9. first + j * PAGE_SIZE < end /\ from <= first + j * PAGE_SIZE
    BY <1>1, <1>2, <1>5, <1>6, <2>3, <2>4, <2>8
  <2>10. first + j * PAGE_SIZE = (c + j) * PAGE_SIZE /\ first + j * PAGE_SIZE \in Nat
    BY <1>2, <2>3, <2>5 DEF first
  <2> QED BY <2>2, <2>9, <2>10, Zenon
<1>9. p \in Seq(Nat) /\ Len(p) = n /\ \A k \in 1..n : p[k] = first + (k - 1) * PAGE_SIZE
  <2>1. p \in [1..n -> Nat]
    BY <1>3, <1>8, Zenon
  <2> QED BY <1>3, <1>6, <2>1
<1>10. \A k \in 1..Len(p) : /\ p[k] = (c + (k - 1)) * PAGE_SIZE
                            /\ from <= p[k] /\ p[k] < end
  BY <1>8, <1>9, Zenon
<1> HIDE DEF c
<1>11. Len(p) \in Nat /\ Len(p) = IF c <= e THEN e - c ELSE 0
  BY <1>6, <1>7, <1>9, Zenon
<1> QED BY <1>9, <1>10, <1>11, Zenon DEF c, e, p

(* Pages are entered in the nodes that have none.                          *)
LEMMA EnterPages ==
    ASSUME NEW st \in St, Ordered(st), st.needed = 0, NEW from \in Nat, NEW end \in Nat,
           \A k \in 1..Len(st.addr) : st.addr[k] < from,
           Len(st.nodes) > 0 => st.nodes[Len(st.nodes)] <= from
    PROVE  LET g == Boot!Enter(st, from, end)
               c == CeilDiv(from, PAGE_SIZE)
               e == CeilDiv(end, PAGE_SIZE)
           IN  /\ g \in St /\ Ordered(g) /\ g.nodes = st.nodes /\ g.needed = 0
               /\ NewFrames(g, st, from, end)
               /\ Len(g.addr) = Len(g.nodes) \/ Len(g.addr) >= Len(st.addr) + (e - c)
<1> DEFINE p == Boot!Pages(from, end)
           c == CeilDiv(from, PAGE_SIZE)
           e == CeilDiv(end, PAGE_SIZE)
           len == Len(st.addr)
           room == Len(st.nodes) - len
           n == IF Len(p) <= room THEN Len(p) ELSE room
           t == [k \in 1..n |-> p[k]]
           g == Boot!Enter(st, from, end)
<1>1. g = [st EXCEPT !.addr = @ \o t]
  BY Zenon DEF Boot!Enter
<1>2. /\ p \in Seq(Nat) /\ Len(p) \in Nat /\ Len(p) = IF c <= e THEN e - c ELSE 0
      /\ \A k \in 1..Len(p) : p[k] = (c + (k - 1)) * PAGE_SIZE /\ from <= p[k] /\ p[k] < end
  BY PageCount, ZenonT(60)
<1>3. /\ st.addr \in Seq(Nat) /\ st.nodes \in Seq(Nat) /\ len \in Nat /\ Len(st.nodes) \in Nat
      /\ len <= Len(st.nodes)
  BY DEF St, Ordered
<1>4. PAGE_SIZE \in Nat \ {0} /\ c \in Nat /\ e \in Nat
  BY BootSizes, Ceil, Zenon
<1> HIDE DEF p, c, e, g, len
<1>5. n \in Nat /\ n <= Len(p) /\ len + n <= Len(st.nodes)
      /\ (n = Len(p) \/ len + n = Len(st.nodes))
  BY <1>2, <1>3
<1> HIDE DEF n
<1>6. t \in [1..n -> Nat] /\ \A k \in 1..n : t[k] = p[k] /\ k \in 1..Len(p)
  BY <1>2, <1>5, SMTT(30)
<1> HIDE DEF t
<1>7. /\ g \in St /\ g.nodes = st.nodes /\ g.needed = 0 /\ g.addr = st.addr \o t
  <2>1. st.addr \o t \in Seq(Nat)
    BY <1>3, <1>5, <1>6, Concat, Zenon
  <2> QED BY <1>1, <2>1, Zenon DEF St
<1>8. /\ Len(g.addr) = len + n
      /\ \A i \in 1..len : g.addr[i] = st.addr[i]
      /\ \A i \in (len + 1)..(len + n) : i - len \in 1..n /\ g.addr[i] = t[i - len]
  <2>1. st.addr \in Seq(Nat) /\ n \in Nat /\ t \in [1..n -> Nat] /\ g.addr = st.addr \o t
    BY <1>3, <1>5, <1>6, <1>7, Zenon
  <2> HIDE DEF n, t
  <2>2. /\ Len(st.addr \o t) = Len(st.addr) + n
        /\ \A i \in 1..Len(st.addr) : (st.addr \o t)[i] = st.addr[i]
        /\ \A i \in (Len(st.addr) + 1)..(Len(st.addr) + n) :
              i - Len(st.addr) \in 1..n /\ (st.addr \o t)[i] = t[i - Len(st.addr)]
    <3>1. Len(st.addr \o t) = Len(st.addr) + n
      <4>1. t \in Seq(Nat) /\ Len(t) = n
        BY <2>1, FunctionSeq, Zenon
      <4>2. Len(st.addr \o t) = Len(st.addr) + Len(t)
        BY <2>1, <4>1, ConcatProperties, Zenon
      <4> QED BY <4>1, <4>2, Zenon
    <3>2. \A i \in 1..Len(st.addr) : (st.addr \o t)[i] = st.addr[i]
      BY <2>1, Concat, ZenonT(60)
    <3>3. \A i \in (Len(st.addr) + 1)..(Len(st.addr) + n) :
              i - Len(st.addr) \in 1..n /\ (st.addr \o t)[i] = t[i - Len(st.addr)]
      BY <2>1, ConcatBehind, ZenonT(60)
    <3> QED BY <3>1, <3>2, <3>3, Zenon
  <2> QED BY <2>1, <2>2, Zenon DEF len
<1>9. ASSUME NEW i \in (len + 1)..(len + n)
      PROVE  /\ from <= g.addr[i] /\ g.addr[i] < end /\ i - len - 1 \in Nat
             /\ g.addr[i] = (c + (i - len - 1)) * PAGE_SIZE /\ g.addr[i] % PAGE_SIZE = 0
  <2>1. i - len \in 1..Len(p) /\ g.addr[i] = p[i - len]
    BY <1>6, <1>8, Zenon
  <2>2. i - len - 1 \in Nat
    <3>1. len \in Nat /\ n \in Nat
      BY <1>3, <1>5, Zenon
    <3> HIDE DEF n, len
    <3> QED BY <3>1
  <2>3. c + (i - len - 1) \in Nat
    BY <1>4, <2>2
  <2>4. g.addr[i] = (c + (i - len - 1)) * PAGE_SIZE
    BY <1>2, <2>1, Zenon
  <2> QED BY <1>2, <2>1, <2>2, <2>3, <2>4, Multiple, Zenon
<1>10. NewFrames(g, st, from, end)
  <2>1. ASSUME NEW k \in 1..(len + n)
        PROVE  IF k <= len THEN g.addr[k] = st.addr[k] ELSE from <= g.addr[k] /\ g.addr[k] < end
    <3>1. k \in 1..len \/ (~(k <= len) /\ k \in (len + 1)..(len + n))
      BY <1>3, <1>5
    <3>2. k \in 1..len => k <= len
      BY <1>3
    <3> QED BY <1>8, <1>9, <3>1, <3>2, Zenon
  <2>2. len <= len + n
    BY <1>3, <1>5
  <2> QED BY <1>8, <2>1, <2>2, Zenon DEF NewFrames, len
<1>11. ASSUME NEW i \in 1..(len + n), NEW j \in 1..(len + n), i < j
       PROVE  g.addr[i] < g.addr[j]
  <2>1. CASE j <= len
    <3>1. i \in 1..len /\ j \in 1..len
      BY <1>3, <1>5, <1>11, <2>1
    <3> QED BY <1>8, <1>11, <3>1, Zenon DEF Ordered, len
  <2>2. CASE i <= len /\ j > len
    <3>1. i \in 1..len /\ j \in (len + 1)..(len + n)
      BY <1>3, <1>5, <2>2
    <3>2. g.addr[i] < from /\ from <= g.addr[j]
      BY <1>8, <1>9, <3>1, Zenon DEF len
    <3>3. g.addr[i] \in Nat /\ g.addr[j] \in Nat
      <4>1. g.addr \in Seq(Nat)
        BY <1>7, Zenon DEF St
      <4>2. i \in 1..Len(g.addr) /\ j \in 1..Len(g.addr)
        BY <1>8, Zenon
      <4> QED BY <4>1, <4>2, SMTT(30)
    <3> QED BY <3>2, <3>3
  <2>3. CASE i > len
    <3>1. i \in (len + 1)..(len + n) /\ j \in (len + 1)..(len + n)
      BY <1>3, <1>5, <1>11, <2>3
    <3>2. PICK x \in Nat, y \in Nat : x = c + (i - len - 1) /\ y = c + (j - len - 1)
      BY <1>4, <1>9, <3>1
    <3>3. g.addr[i] = x * PAGE_SIZE /\ g.addr[j] = y * PAGE_SIZE
      BY <1>9, <3>1, <3>2, Zenon
    <3>4. x + 1 <= y
      BY <1>3, <1>4, <1>5, <1>11, <3>2
    <3>5. (x + 1) * PAGE_SIZE <= y * PAGE_SIZE
      BY <1>4, <3>4, MulMono
    <3>6. (x + 1) * PAGE_SIZE = x * PAGE_SIZE + PAGE_SIZE /\ x * PAGE_SIZE \in Nat /\ y * PAGE_SIZE \in Nat
      BY <1>4
    <3> QED BY <1>4, <3>3, <3>5, <3>6
  <2> QED BY <1>3, <1>5, <2>1, <2>2, <2>3
<1>12. ASSUME NEW k \in 1..(len + n)
       PROVE  g.addr[k] % PAGE_SIZE = 0 /\ g.nodes[Len(g.nodes)] <= g.addr[k]
  <2>1. CASE k <= len
    <3>1. k \in 1..len
      BY <1>3, <1>5, <2>1
    <3> QED BY <1>7, <1>8, <3>1, Zenon DEF Ordered, len
  <2>2. CASE k > len
    <3>1. k \in (len + 1)..(len + n) /\ Len(st.nodes) > 0
      BY <1>3, <1>5, <2>2
    <3>2. st.nodes[Len(st.nodes)] <= from /\ from <= g.addr[k] /\ g.addr[k] % PAGE_SIZE = 0
      BY <1>9, <3>1, Zenon
    <3>3. g.addr[k] \in Nat
      <4>1. g.addr \in Seq(Nat)
        BY <1>7, Zenon DEF St
      <4>2. k \in 1..Len(g.addr)
        BY <1>8, Zenon
      <4> QED BY <4>1, <4>2
    <3>4. st.nodes[Len(st.nodes)] \in Nat
      BY <1>3, <3>1
    <3>5. st.nodes[Len(st.nodes)] <= g.addr[k]
      BY <3>2, <3>3, <3>4
    <3> QED BY <1>7, <3>2, <3>5, Zenon
  <2> QED BY <1>3, <1>5, <2>1, <2>2
<1>13. Ordered(g)
  BY <1>5, <1>7, <1>8, <1>11, <1>12, Zenon DEF Ordered
<1>14. Len(g.addr) = Len(g.nodes) \/ Len(g.addr) >= Len(st.addr) + (e - c)
  BY <1>2, <1>3, <1>4, <1>5, <1>7, <1>8 DEF len
<1> QED BY <1>7, <1>10, <1>13, <1>14, Zenon DEF g, c, e

(* n nodes from start on behind the others.                                *)
Laid(st, start, n) ==
    [st EXCEPT !.nodes = @ \o [k \in 1..n |-> start + (k - 1) * NODE], !.needed = @ - n]

(* Where the nodes are that linked_list_add_node lays out.                 *)
LEMMA LaidNodes ==
    ASSUME NEW st \in St, Ordered(st), Len(st.addr) = 0, NEW start \in Nat, NEW n \in Nat,
           n <= st.needed, Before(st, start)
    PROVE  LET g == Laid(st, start, n)
               len == Len(st.nodes)
           IN  /\ g \in St /\ Ordered(g) /\ g.addr = st.addr
               /\ Len(g.nodes) = len + n /\ g.needed = st.needed - n
               /\ \A i \in 1..len : g.nodes[i] = st.nodes[i]
               /\ \A i \in (len + 1)..(len + n) : g.nodes[i] = start + ((i - len) - 1) * NODE
<1> DEFINE g == Laid(st, start, n)
           len == Len(st.nodes)
           t == [k \in 1..n |-> start + (k - 1) * NODE]
<1>1. /\ st.nodes \in Seq(Nat) /\ st.addr \in Seq(Nat) /\ len \in Nat /\ st.needed \in Nat
      /\ st.needed - n \in Nat /\ NODE \in Nat \ {0}
  BY BootSizes DEF St
<1>2. ASSUME NEW k \in 1..n PROVE (k - 1) * NODE \in Nat /\ start + (k - 1) * NODE \in Nat
  <2>1. k - 1 \in Nat
    OBVIOUS
  <2>2. (k - 1) * NODE \in Nat
    BY <1>1, <2>1
  <2> QED BY <2>2
<1>3. t \in [1..n -> Nat] /\ \A k \in 1..n : t[k] = start + (k - 1) * NODE
  BY <1>2, Zenon
<1>4. g = [st EXCEPT !.nodes = @ \o t, !.needed = @ - n]
  BY Zenon DEF Laid
<1> HIDE DEF g, t, len
<1>5. /\ st.nodes \o t \in Seq(Nat)
      /\ \A i \in 1..len : (st.nodes \o t)[i] = st.nodes[i]
      /\ \A i \in (len + 1)..(len + n) : i - len \in 1..n /\ (st.nodes \o t)[i] = t[i - len]
  <2>0. st.nodes \in Seq(Nat) /\ t \in [1..n -> Nat]
    BY <1>1, <1>3, Zenon
  <2>1. st.nodes \o t \in Seq(Nat)
    BY <2>0, Concat, Zenon
  <2>2. \A i \in 1..Len(st.nodes) : (st.nodes \o t)[i] = st.nodes[i]
    BY <2>0, Concat, ZenonT(60)
  <2>3. \A i \in (Len(st.nodes) + 1)..(Len(st.nodes) + n) :
           i - Len(st.nodes) \in 1..n /\ (st.nodes \o t)[i] = t[i - Len(st.nodes)]
    BY <2>0, ConcatBehind, ZenonT(60)
  <2> QED BY <2>1, <2>2, <2>3, Zenon DEF len
<1>6. Len(st.nodes \o t) = len + n
  <2>1. t \in Seq(Nat) /\ Len(t) = n
    BY <1>3, FunctionSeq, Zenon
  <2>2. Len(st.nodes \o t) = Len(st.nodes) + Len(t)
    BY <1>1, <2>1, ConcatProperties, Zenon
  <2> QED BY <2>1, <2>2, Zenon DEF len
<1>7. g \in St /\ g.nodes = st.nodes \o t /\ g.needed = st.needed - n /\ g.addr = st.addr
  BY <1>1, <1>4, <1>5, Zenon DEF St
<1>8. \A i \in (len + 1)..(len + n) :
         /\ i - len \in 1..n /\ g.nodes[i] = start + ((i - len) - 1) * NODE
  BY <1>3, <1>5, <1>7, Zenon
<1>9. ASSUME NEW i \in 1..(len + n), NEW j \in 1..(len + n), i < j
      PROVE  g.nodes[i] + NODE <= g.nodes[j]
  <2>1. CASE j <= len
    <3>1. i \in 1..len /\ j \in 1..len
      BY <1>1, <1>9, <2>1
    <3> QED BY <1>5, <1>7, <1>9, <3>1, Zenon DEF Ordered, len
  <2>2. CASE i <= len /\ j > len
    <3>1. i \in 1..len /\ j \in (len + 1)..(len + n)
      BY <1>1, <2>2
    <3>2. g.nodes[i] + NODE <= start /\ j - len \in 1..n /\ g.nodes[j] = start + ((j - len) - 1) * NODE
      BY <1>5, <1>7, <1>8, <3>1, Zenon DEF Before, len
    <3>3. ((j - len) - 1) * NODE \in Nat
      BY <1>2, <3>2, Zenon
    <3>4. g.nodes[i] \in Nat
      <4>1. g.nodes[i] = st.nodes[i] /\ i \in 1..Len(st.nodes)
        BY <1>5, <1>7, <3>1, Zenon DEF len
      <4>2. st.nodes[i] \in Nat
        BY <1>1, <4>1, ElementOfSeq, Zenon
      <4> QED BY <4>1, <4>2, Zenon
    <3>5. PICK a \in Nat, b \in Nat : a = g.nodes[i] /\ b = ((j - len) - 1) * NODE
      BY <3>3, <3>4, Zenon
    <3>6. a + NODE <= start /\ g.nodes[j] = start + b
      BY <3>2, <3>5, Zenon
    <3>7. a + NODE <= start + b
      BY <1>1, <3>6
    <3> QED BY <3>5, <3>6, <3>7, Zenon
  <2>3. CASE i > len
    <3>1. i \in (len + 1)..(len + n) /\ j \in (len + 1)..(len + n)
      BY <1>1, <1>9, <2>3
    <3>2. PICK x \in Nat, y \in Nat : x = (i - len) - 1 /\ y = (j - len) - 1
      BY <1>1, <3>1
    <3>3. g.nodes[i] = start + x * NODE /\ g.nodes[j] = start + y * NODE
      BY <1>8, <3>1, <3>2, Zenon
    <3>4. x + 1 <= y
      BY <1>1, <1>9, <3>1, <3>2
    <3>5. (x + 1) * NODE <= y * NODE
      BY <1>1, <3>4, MulMono
    <3>6. (x + 1) * NODE = x * NODE + NODE /\ x * NODE \in Nat /\ y * NODE \in Nat
      BY <1>1
    <3> QED BY <1>1, <3>3, <3>5, <3>6
  <2> QED BY <1>1, <2>1, <2>2, <2>3
<1>10. Len(g.nodes) = len + n /\ Len(g.addr) = 0
  BY <1>6, <1>7, Zenon
<1>11. Ordered(g)
  <2>1. Len(g.addr) <= Len(g.nodes) /\ ~(Len(g.addr) > 0)
    BY <1>1, <1>10
  <2>2. \A k \in 1..Len(g.addr) : FALSE
    BY <1>10
  <2> QED BY <1>9, <1>10, <2>1, <2>2, Zenon DEF Ordered
<1> QED BY <1>5, <1>7, <1>8, <1>10, <1>11, Zenon DEF g, len

PageCeil(a) == CeilDiv(a, PAGE_SIZE)

(* What a block adds: pages in nodes that have none, nodes that fill it,   *)
(* or the last nodes and pages from the last one's address on.             *)
Added(g, st, start, end) ==
    \/ /\ st.needed = 0 /\ g.needed = 0 /\ Len(g.nodes) = Len(st.nodes)
       /\ \/ Len(g.addr) = Len(g.nodes)
          \/ Len(g.addr) >= Len(st.addr) + (PageCeil(end) - PageCeil(start))
    \/ /\ st.needed > 0 /\ g.needed > 0 /\ Len(g.addr) = 0
       /\ \E n \in Nat : Len(g.nodes) = Len(st.nodes) + n /\ end - start <= n * NODE
    \/ /\ st.needed > 0 /\ g.needed = 0
       /\ \E n \in Nat : /\ Len(g.nodes) = Len(st.nodes) + (n + 1)
                         /\ \/ Len(g.addr) = Len(g.nodes)
                            \/ Len(g.addr) >= PageCeil(end) - PageCeil(start + n * NODE)

(* What pmm_add_block does to a list in order.                             *)
LEMMA AddBlock ==
    ASSUME NEW st \in St, Ordered(st), NEW start \in Nat, NEW end \in Nat, start <= end,
           Before(st, start)
    PROVE  LET g == Boot!pmm_add_block(st, start, end)
           IN  /\ g \in St /\ Ordered(g) /\ Total(g) = Total(st) /\ Under(g, end)
               /\ NewFrames(g, st, start, end) /\ Added(g, st, start, end)
<1> DEFINE g == Boot!pmm_add_block(st, start, end)
           fit == Boot!ceil_u64_div(Boot!larger(end - start, 0), NODE)
           n == IF fit <= st.needed THEN fit ELSE st.needed
           laid == Laid(st, start, n)
           len == Len(st.nodes)
<1>1. /\ st.nodes \in Seq(Nat) /\ st.addr \in Seq(Nat) /\ len \in Nat /\ st.needed \in Nat
      /\ Len(st.addr) \in Nat /\ NODE \in Nat \ {0} /\ end - start \in Nat
  BY BootSizes DEF St
<1>2. fit \in Nat /\ end - start <= fit * NODE /\ fit * NODE < (end - start) + NODE
  <2>1. Boot!larger(end - start, 0) = end - start
    BY <1>1 DEF Boot!larger
  <2>2. fit = CeilDiv(end - start, NODE)
    BY <2>1, Zenon DEF CeilDiv
  <2> HIDE DEF fit
  <2> QED BY <1>1, <2>2, Ceil, Zenon
<1>3. g = IF st.needed = 0 THEN Boot!Enter(st, start, end)
          ELSE IF laid.needed # 0 THEN laid
          ELSE Boot!Enter(laid, start + (n - 1) * NODE, end)
  BY Zenon DEF Boot!pmm_add_block, Laid
<1> HIDE DEF g, fit
<1>4. \A i \in 1..len : st.nodes[i] \in Nat /\ st.nodes[i] < start
  <2>1. ASSUME NEW i \in 1..len PROVE st.nodes[i] \in Nat /\ st.nodes[i] < start
    <3>1. st.nodes[i] \in Nat
      BY <1>1, ElementOfSeq, Zenon
    <3>2. st.nodes[i] + NODE <= start
      BY Zenon DEF Before
    <3> QED BY <1>1, <3>1, <3>2
  <2> QED BY <2>1, Zenon
<1>5. \A k \in 1..Len(st.addr) : st.addr[k] \in Nat /\ st.addr[k] < start
  <2>1. \A k \in 1..Len(st.addr) : st.addr[k] \in Nat
    BY <1>1, ElementOfSeq, Zenon
  <2> QED BY <2>1, Zenon DEF Before
<1>6. CASE st.needed = 0
  <2>1. g = Boot!Enter(st, start, end)
    BY <1>3, <1>6, Zenon
  <2>2. ASSUME Len(st.nodes) > 0 PROVE st.nodes[Len(st.nodes)] <= start
    <3>1. len \in 1..len
      BY <1>1, <2>2
    <3>2. st.nodes[len] \in Nat /\ st.nodes[len] < start
      BY <1>4, <3>1, Zenon
    <3> QED BY <3>2
  <2>3. /\ g \in St /\ Ordered(g) /\ g.nodes = st.nodes /\ g.needed = 0
        /\ NewFrames(g, st, start, end)
        /\ Len(g.addr) = Len(g.nodes) \/ Len(g.addr) >= Len(st.addr) + (PageCeil(end) - PageCeil(start))
    BY <1>5, <1>6, <2>1, <2>2, EnterPages, Zenon DEF PageCeil
  <2>4. Total(g) = Total(st) /\ Added(g, st, start, end)
    BY <1>6, <2>3, Zenon DEF Total, Added
  <2>5. Under(g, end)
    <3>1. ASSUME NEW i \in 1..Len(g.nodes) PROVE g.nodes[i] < end
      <4>1. g.nodes[i] = st.nodes[i] /\ i \in 1..len
        BY <2>3, Zenon
      <4>2. st.nodes[i] \in Nat /\ st.nodes[i] < start
        BY <1>4, <4>1, Zenon
      <4>3. st.nodes[i] < end
        BY <4>2
      <4> QED BY <4>1, <4>3, Zenon
    <3>2. ASSUME NEW k \in 1..Len(g.addr) PROVE g.addr[k] < end
      <4>1. CASE k <= Len(st.addr)
        <5>1. g.addr[k] = st.addr[k]
          BY <2>3, <4>1, Zenon DEF NewFrames
        <5>2. k \in 1..Len(st.addr)
          BY <1>1, <4>1
        <5>3. st.addr[k] \in Nat /\ st.addr[k] < start
          BY <1>5, <5>2, Zenon
        <5>4. st.addr[k] < end
          BY <5>3
        <5> QED BY <5>1, <5>4, Zenon
      <4>2. CASE ~(k <= Len(st.addr))
        BY <2>3, <4>2, Zenon DEF NewFrames
      <4> QED BY <4>1, <4>2, Zenon
    <3> QED BY <3>1, <3>2, Zenon DEF Under
  <2> QED BY <2>3, <2>4, <2>5, Zenon DEF g
<1>7. CASE st.needed # 0
  <2>1. Len(st.addr) = 0
    BY <1>1, <1>7 DEF Ordered
  <2>2. n \in Nat /\ n <= st.needed /\ n <= fit
    BY <1>1, <1>2
  <2> HIDE DEF n
  <2>3. /\ laid \in St /\ Ordered(laid) /\ laid.addr = st.addr
        /\ Len(laid.nodes) = len + n /\ laid.needed = st.needed - n
        /\ \A i \in 1..len : laid.nodes[i] = st.nodes[i]
        /\ \A i \in (len + 1)..(len + n) : laid.nodes[i] = start + ((i - len) - 1) * NODE
    BY <2>1, <2>2, LaidNodes, ZenonT(60)
  <2> HIDE DEF laid, len
  <2>4. ASSUME NEW i \in 1..(len + n) PROVE laid.nodes[i] < end
    <3>1. CASE i <= len
      <4>1. i \in 1..len
        BY <1>1, <2>2, <3>1
      <4>2. st.nodes[i] \in Nat /\ st.nodes[i] < start /\ laid.nodes[i] = st.nodes[i]
        BY <1>4, <2>3, <4>1, Zenon
      <4>3. st.nodes[i] < end
        BY <4>2
      <4> QED BY <4>2, <4>3, Zenon
    <3>2. CASE i > len
      <4>1. i \in (len + 1)..(len + n)
        BY <1>1, <2>2, <3>2
      <4>2. PICK x \in Nat : x = (i - len) - 1
        BY <1>1, <2>2, <4>1
      <4>3. laid.nodes[i] = start + x * NODE
        BY <2>3, <4>1, <4>2, Zenon
      <4>4. x + 1 <= fit
        BY <1>1, <1>2, <2>2, <4>1, <4>2
      <4>5. (x + 1) * NODE <= fit * NODE
        BY <1>1, <1>2, <4>4, MulMono
      <4>6. (x + 1) * NODE = x * NODE + NODE /\ x * NODE \in Nat /\ fit * NODE \in Nat
        BY <1>1, <1>2
      <4>7. start + x * NODE < end
        BY <1>1, <1>2, <4>5, <4>6, SMTT(30)
      <4> QED BY <4>3, <4>7, Zenon
    <3> QED BY <1>1, <2>2, <3>1, <3>2
  <2>5. Total(laid) = Total(st)
    BY <1>1, <2>2, <2>3 DEF Total, len
  <2>6. CASE laid.needed # 0
    <3>1. g = laid
      BY <1>3, <1>7, <2>6, Zenon
    <3>2. n = fit
      BY <1>1, <1>2, <2>3, <2>6 DEF n
    <3>3. Len(g.addr) = 0 /\ Len(st.addr) <= Len(g.addr) /\ \A k \in 1..Len(g.addr) : FALSE
      BY <2>1, <2>3, <3>1
    <3>4. Under(g, end)
      BY <2>3, <2>4, <3>1, <3>3, Zenon DEF Under
    <3>5. NewFrames(g, st, start, end)
      BY <3>3, Zenon DEF NewFrames
    <3>6. st.needed > 0 /\ g.needed > 0
      BY <1>1, <1>7, <2>2, <2>3, <2>6, <3>1, SMTT(30)
    <3>7. Added(g, st, start, end)
      BY <1>2, <2>2, <2>3, <3>1, <3>2, <3>3, <3>6, Zenon DEF Added, len
    <3> QED BY <2>3, <2>5, <3>1, <3>4, <3>5, <3>7, Zenon DEF g
  <2>7. CASE laid.needed = 0
    <3>1. PICK m \in Nat : m = n - 1 /\ n = m + 1
      BY <1>1, <1>7, <2>2, <2>3, <2>7
    <3> DEFINE from == start + m * NODE
    <3>2. g = Boot!Enter(laid, from, end)
      BY <1>3, <1>7, <2>7, <3>1, Zenon
    <3>3. m * NODE \in Nat /\ from \in Nat /\ start <= from
      <4>1. m * NODE \in Nat
        BY <1>1
      <4>2. PICK k \in Nat : k = m * NODE
        BY <4>1
      <4>3. start + k \in Nat /\ start <= start + k
        OBVIOUS
      <4> QED BY <4>2, <4>3, Zenon
    <3> HIDE DEF from
    <3>4. len + n \in (len + 1)..(len + n) /\ (len + n) - len - 1 = m
      BY <1>1, <2>2, <3>1
    <3>5. laid.nodes[Len(laid.nodes)] = from
      BY <2>3, <3>4, Zenon DEF from
    <3>6. laid.nodes[Len(laid.nodes)] <= from
      BY <3>3, <3>5
    <3>7. \A k \in 1..Len(laid.addr) : laid.addr[k] < from
      BY <2>1, <2>3
    <3>8. /\ g \in St /\ Ordered(g) /\ g.nodes = laid.nodes /\ g.needed = 0
          /\ NewFrames(g, laid, from, end)
          /\ Len(g.addr) = Len(g.nodes) \/ Len(g.addr) >= Len(laid.addr) + (PageCeil(end) - PageCeil(from))
      BY <2>3, <2>7, <3>2, <3>3, <3>6, <3>7, EnterPages, ZenonT(60) DEF PageCeil
    <3>9. Total(g) = Total(st)
      BY <2>5, <2>7, <3>8, Zenon DEF Total
    <3>10. PageCeil(end) \in Nat /\ PageCeil(from) \in Nat
      BY <3>3, BootSizes, Ceil, Zenon DEF PageCeil
    <3>11. Len(g.addr) \in Nat
      BY <3>8 DEF St
    <3>12. Len(g.addr) = Len(g.nodes) \/ Len(g.addr) >= PageCeil(end) - PageCeil(from)
      <4>1. Len(laid.addr) = 0
        BY <2>1, <2>3, Zenon
      <4> QED BY <3>8, <3>10, <3>11, <4>1
    <3>13. st.needed > 0 /\ Len(g.nodes) = len + (m + 1)
      BY <1>1, <1>7, <2>3, <3>1, <3>8
    <3>14. Added(g, st, start, end)
      BY <3>8, <3>12, <3>13, Zenon DEF Added, from, len
    <3>15. ASSUME NEW k \in 1..Len(g.addr)
           PROVE  ~(k <= Len(st.addr)) /\ start <= g.addr[k] /\ g.addr[k] < end
      <4>1. ~(k <= Len(st.addr)) /\ ~(k <= Len(laid.addr))
        BY <2>1, <2>3, <3>11
      <4>2. from <= g.addr[k] /\ g.addr[k] < end
        BY <3>8, <4>1, Zenon DEF NewFrames
      <4>3. g.addr[k] \in Nat
        <5>1. g.addr \in Seq(Nat)
          BY <3>8, Zenon DEF St
        <5> QED BY <5>1, ElementOfSeq, Zenon
      <4>4. start <= g.addr[k]
        BY <3>3, <4>2, <4>3
      <4> QED BY <4>1, <4>2, <4>4, Zenon
    <3>16. NewFrames(g, st, start, end) /\ Under(g, end)
      <4>1. Len(st.addr) <= Len(g.addr)
        BY <2>1, <3>11
      <4> QED BY <2>3, <2>4, <3>8, <3>15, <4>1, Zenon DEF NewFrames, Under
    <3> QED BY <3>8, <3>9, <3>14, <3>16, Zenon DEF g
  <2> QED BY <2>6, <2>7, Zenon
<1> QED BY <1>6, <1>7, Zenon

(* The pages that cover a bytes.                                           *)
LEMMA PageCeilNat ==
    ASSUME NEW a \in Nat
    PROVE  PageCeil(a) \in Nat /\ a <= PageCeil(a) * PAGE_SIZE /\ PageCeil(a) * PAGE_SIZE \in Nat
BY BootSizes, Ceil, Zenon DEF PageCeil

(* They are the fewest that do.                                            *)
LEMMA PageCeilLeast ==
    ASSUME NEW a \in Nat, NEW n \in Int, a <= n * PAGE_SIZE
    PROVE  PageCeil(a) <= n
BY BootSizes, CeilLeast, Zenon DEF PageCeil

(* Whole pages count as themselves.                                        *)
LEMMA PageCeilShift ==
    ASSUME NEW a \in Nat, NEW r \in Int, a + r * PAGE_SIZE \in Nat
    PROVE  PageCeil(a + r * PAGE_SIZE) = PageCeil(a) + r
BY BootSizes, CeilShift, Zenon DEF PageCeil

(* What is in two parts fills at most the pages that the parts fill.       *)
LEMMA PageCeilSum ==
    ASSUME NEW a \in Nat, NEW b \in Nat, NEW c \in Nat, c <= a + b
    PROVE  PageCeil(c) <= PageCeil(a) + PageCeil(b)
<1> DEFINE p == PageCeil(a)  q == PageCeil(b)
<1>1. /\ p \in Nat /\ a <= p * PAGE_SIZE /\ p * PAGE_SIZE \in Nat
      /\ q \in Nat /\ b <= q * PAGE_SIZE /\ q * PAGE_SIZE \in Nat
  BY PageCeilNat, Zenon
<1> HIDE DEF p, q
<1>2. (p + q) * PAGE_SIZE = p * PAGE_SIZE + q * PAGE_SIZE
  BY <1>1, BootSizes
<1>3. c <= (p + q) * PAGE_SIZE
  BY <1>1, <1>2
<1>4. PageCeil(c) <= p + q
  BY <1>1, <1>3, PageCeilLeast
<1> QED BY <1>4, Zenon DEF p, q

(* More bytes take no fewer pages.                                         *)
LEMMA PageCeilMono ==
    ASSUME NEW a \in Nat, NEW c \in Nat, c <= a
    PROVE  PageCeil(c) <= PageCeil(a)
<1>1. PageCeil(a) \in Nat /\ a <= PageCeil(a) * PAGE_SIZE /\ PageCeil(a) * PAGE_SIZE \in Nat
  BY PageCeilNat, Zenon
<1>2. PICK p \in Nat : p = PageCeil(a)
  BY <1>1, Zenon
<1>3. c <= p * PAGE_SIZE
  BY <1>1, <1>2
<1> QED BY <1>2, <1>3, PageCeilLeast

(* x bytes of the zones have been used, sk of them for neither nodes nor   *)
(* frames.                                                                 *)
Progress(st, x, sk) ==
    /\ st.needed > 0 => Len(st.addr) = 0 /\ x <= Len(st.nodes) * NODE + sk
    /\ st.needed = 0 =>
          \/ Len(st.addr) = Len(st.nodes)
          \/ PageCeil(x) <= Len(st.addr) + PageCeil((Len(st.nodes) - 1) * NODE) + PageCeil(sk)

(* The bytes seen so far still give enough frames after a block.           *)
LEMMA AddedProgress ==
    ASSUME NEW st \in St, NEW g \in St, Ordered(g), NEW start \in Nat, NEW end \in Nat, start <= end,
           Total(st) > 0, Total(g) = Total(st), NewFrames(g, st, start, end), Added(g, st, start, end),
           NEW x \in Nat, NEW sk \in Nat, Progress(st, x, sk),
           NEW r \in Int, start = x + r * PAGE_SIZE
    PROVE  Progress(g, x + (end - start), sk)
<1> DEFINE gn == Len(g.nodes)  ga == Len(g.addr)  sn == Len(st.nodes)  sa == Len(st.addr)
           y == x + (end - start)
<1>1. /\ gn \in Nat /\ ga \in Nat /\ sn \in Nat /\ sa \in Nat /\ g.needed \in Nat /\ st.needed \in Nat
      /\ y \in Nat /\ ga <= gn /\ sa <= ga
  <2>1. ga <= gn /\ sa <= ga
    BY Zenon DEF Ordered, NewFrames
  <2>2. /\ gn \in Nat /\ ga \in Nat /\ sn \in Nat /\ sa \in Nat
        /\ g.needed \in Nat /\ st.needed \in Nat
    BY DEF St
  <2>3. y \in Nat
    OBVIOUS
  <2> QED BY <2>1, <2>2, <2>3, Zenon
<1>2. NODE \in Nat \ {0} /\ PAGE_SIZE \in Nat \ {0} /\ r * PAGE_SIZE \in Int
  BY BootSizes
<1>3. PageCeil(start) = PageCeil(x) + r /\ PageCeil(end) = PageCeil(y) + r
  <2>1. end = y + r * PAGE_SIZE
    BY <1>1, <1>2
  <2>2. PageCeil(x + r * PAGE_SIZE) = PageCeil(x) + r
    BY PageCeilShift, Zenon
  <2>3. PageCeil(y + r * PAGE_SIZE) = PageCeil(y) + r
    <3> HIDE DEF y
    <3> QED BY <1>1, <2>1, PageCeilShift, Zenon
  <2> QED BY <2>1, <2>2, <2>3, Zenon
<1>4. /\ PageCeil(x) \in Nat /\ PageCeil(y) \in Nat /\ PageCeil(sk) \in Nat
  <2> HIDE DEF y
  <2> QED BY <1>1, PageCeilNat, Zenon
<1> HIDE DEF gn, ga, sn, sa, y
<1>5. CASE /\ st.needed = 0 /\ g.needed = 0 /\ gn = sn
           /\ ga = gn \/ ga >= sa + (PageCeil(end) - PageCeil(start))
  <2>1. sn > 0
    BY <1>1, <1>5 DEF Total, sn
  <2>2. PICK m \in Nat : m = (sn - 1) * NODE
    <3>1. sn - 1 \in Nat
      BY <1>1, <2>1
    <3> QED BY <1>2, <3>1
  <2>3. PageCeil(m) \in Nat
    BY PageCeilNat, Zenon
  <2>4. sa = sn \/ PageCeil(x) <= sa + PageCeil(m) + PageCeil(sk)
    BY <1>5, <2>2, Zenon DEF Progress, sa, sn
  <2>5. ga = gn \/ PageCeil(y) <= ga + PageCeil(m) + PageCeil(sk)
    BY <1>1, <1>3, <1>4, <1>5, <2>3, <2>4
  <2>6. ~(g.needed > 0)
    BY <1>5
  <2> QED BY <1>5, <2>2, <2>5, <2>6, Zenon DEF Progress, ga, gn, y
<1>6. CASE /\ st.needed > 0 /\ g.needed > 0 /\ ga = 0
           /\ \E n \in Nat : gn = sn + n /\ end - start <= n * NODE
  <2>1. PICK n \in Nat : gn = sn + n /\ end - start <= n * NODE
    BY <1>6, Zenon
  <2>2. x <= sn * NODE + sk
    BY <1>6, Zenon DEF Progress, sn
  <2>3. (sn + n) * NODE = sn * NODE + n * NODE /\ sn * NODE \in Nat /\ n * NODE \in Nat
    BY <1>1, <1>2
  <2>4. y <= (sn + n) * NODE + sk
    BY <2>1, <2>2, <2>3 DEF y
  <2>5. g.needed # 0
    BY <1>6
  <2> QED BY <1>6, <2>1, <2>4, <2>5, Zenon DEF Progress, ga, gn, y
<1>7. CASE /\ st.needed > 0 /\ g.needed = 0
           /\ \E n \in Nat : /\ gn = sn + (n + 1)
                             /\ ga = gn \/ ga >= PageCeil(end) - PageCeil(start + n * NODE)
  <2>1. PICK n \in Nat : /\ gn = sn + (n + 1)
                         /\ ga = gn \/ ga >= PageCeil(end) - PageCeil(start + n * NODE)
    BY <1>7, Zenon
  <2>2. x <= sn * NODE + sk
    BY <1>7, Zenon DEF Progress, sn
  <2>3. gn - 1 = sn + n
    BY <1>1, <2>1
  <2>4. PICK m \in Nat, k \in Nat : m = (gn - 1) * NODE /\ k = n * NODE
    <3>1. gn - 1 \in Nat
      BY <1>1, <2>3
    <3> QED BY <1>2, <3>1
  <2>5. x + k <= m + sk
    <3>1. (sn + n) * NODE = sn * NODE + n * NODE /\ sn * NODE \in Nat
      BY <1>1, <1>2
    <3>2. m = sn * NODE + k
      BY <2>3, <2>4, <3>1, Zenon
    <3> QED BY <2>2, <3>1, <3>2
  <2>6. PageCeil(x + k) <= PageCeil(m) + PageCeil(sk)
    BY <2>5, PageCeilSum
  <2>7. PageCeil(start + k) = PageCeil(x + k) + r
    <3>1. start + k = (x + k) + r * PAGE_SIZE /\ x + k \in Nat /\ start + k \in Nat
      BY <1>2
    <3>2. PICK z \in Nat : z = x + k
      BY <3>1, Zenon
    <3>3. PageCeil(z + r * PAGE_SIZE) = PageCeil(z) + r
      BY <3>1, <3>2, PageCeilShift, Zenon
    <3> QED BY <3>1, <3>2, <3>3, Zenon
  <2>8. PageCeil(m) \in Nat /\ PageCeil(x + k) \in Nat
    BY PageCeilNat
  <2>9. ga = gn \/ ga >= PageCeil(end) - PageCeil(start + k)
    BY <2>1, <2>4, Zenon
  <2>10. ga = gn \/ PageCeil(y) <= ga + PageCeil(m) + PageCeil(sk)
    BY <1>1, <1>3, <1>4, <2>6, <2>7, <2>8, <2>9, SMTT(30)
  <2>11. ~(g.needed > 0)
    BY <1>7
  <2> QED BY <1>7, <2>4, <2>10, <2>11, Zenon DEF Progress, ga, gn, y
<1> QED BY <1>5, <1>6, <1>7, Zenon DEF Added, ga, gn, sa, sn

(* The boot information is left out.                                       *)
LEMMA SkipProgress ==
    ASSUME NEW st \in St, Total(st) > 0, NEW x \in Nat, NEW d \in Nat, Progress(st, x, 0)
    PROVE  Progress(st, x + d, d)
<1> DEFINE n == Len(st.nodes)  a == Len(st.addr)
<1>1. n \in Nat /\ a \in Nat /\ st.needed \in Nat /\ NODE \in Nat \ {0} /\ n * NODE \in Nat
  BY BootSizes DEF St
<1> HIDE DEF n, a
<1>2. CASE st.needed > 0
  <2>1. a = 0 /\ x <= n * NODE + 0
    BY <1>2, Zenon DEF Progress, n, a
  <2>2. x + d <= n * NODE + d /\ st.needed # 0
    BY <1>1, <1>2, <2>1
  <2> QED BY <1>2, <2>1, <2>2, Zenon DEF Progress, n, a
<1>3. CASE st.needed = 0
  <2>1. n - 1 \in Nat
    BY <1>1, <1>3 DEF Total, n
  <2>2. PICK m \in Nat : m = (n - 1) * NODE
    BY <1>1, <2>1
  <2>3. a = n \/ PageCeil(x) <= a + PageCeil(m) + PageCeil(0)
    BY <1>3, <2>2, Zenon DEF Progress, n, a
  <2>4. /\ PageCeil(m) \in Nat /\ PageCeil(x) \in Nat /\ PageCeil(d) \in Nat /\ PageCeil(0) \in Nat
        /\ PageCeil(x + d) \in Nat
    BY PageCeilNat
  <2>5. PageCeil(0) <= 0
    <3>1. 0 <= 0 * PAGE_SIZE
      BY BootSizes
    <3> QED BY <3>1, PageCeilLeast
  <2>6. PageCeil(x + d) <= PageCeil(x) + PageCeil(d)
    BY PageCeilSum
  <2>7. a = n \/ PageCeil(x + d) <= a + PageCeil(m) + PageCeil(d)
    BY <1>1, <2>3, <2>4, <2>5, <2>6
  <2>8. ~(st.needed > 0)
    BY <1>3
  <2> QED BY <1>3, <2>2, <2>7, <2>8, Zenon DEF Progress, n, a
<1> QED BY <1>1, <1>2, <1>3

(* A block is added unless it is empty.                                    *)
IsBlock(g, st, start, end) ==
    g = Boot!pmm_add_block(st, start, end) \/ (start = end /\ g = st)

(* pmm_add_block on one block, all in one.                                 *)
LEMMA Block ==
    ASSUME NEW st \in St, Ordered(st), Total(st) > 0, NEW start \in Nat, NEW end \in Nat, start <= end,
           Before(st, start), NEW x \in Nat, NEW sk \in Nat, Progress(st, x, sk),
           NEW r \in Int, start = x + r * PAGE_SIZE,
           NEW g, IsBlock(g, st, start, end)
    PROVE  /\ g \in St /\ Ordered(g) /\ Total(g) = Total(st) /\ Under(g, end)
           /\ NewFrames(g, st, start, end) /\ Progress(g, x + (end - start), sk)
<1>1. CASE g = Boot!pmm_add_block(st, start, end)
  <2>1. /\ g \in St /\ Ordered(g) /\ Total(g) = Total(st) /\ Under(g, end)
        /\ NewFrames(g, st, start, end) /\ Added(g, st, start, end)
    BY <1>1, AddBlock, Zenon
  <2>2. Progress(g, x + (end - start), sk)
    BY <2>1, AddedProgress, Zenon
  <2> QED BY <2>1, <2>2, Zenon
<1>2. CASE start = end /\ g = st
  <2>1. x + (end - start) = x
    BY <1>2
  <2>2. Progress(g, x + (end - start), sk)
    BY <1>2, <2>1, Zenon
  <2>3. Len(st.addr) \in Nat /\ st.nodes \in Seq(Nat) /\ NODE \in Nat \ {0}
    BY BootSizes DEF St
  <2>4. NewFrames(g, st, start, end)
    <3>1. Len(st.addr) <= Len(st.addr) /\ \A k \in 1..Len(st.addr) : k <= Len(st.addr)
      BY <2>3
    <3> QED BY <1>2, <3>1, Zenon DEF NewFrames
  <2>5. Under(g, end)
    <3>1. ASSUME NEW i \in 1..Len(st.nodes) PROVE st.nodes[i] < end
      <4>1. st.nodes[i] + NODE <= end
        BY <1>2, Zenon DEF Before
      <4>2. st.nodes[i] \in Nat
        BY <2>3, ElementOfSeq, Zenon
      <4>3. PICK u \in Nat : u = st.nodes[i]
        BY <4>2, Zenon
      <4>4. u + NODE <= end
        BY <4>1, <4>3, Zenon
      <4>5. u < end
        BY <2>3, <4>4
      <4> QED BY <4>3, <4>5, Zenon
    <3> QED BY <1>2, <3>1, Zenon DEF Under, Before
  <2> QED BY <1>2, <2>2, <2>4, <2>5, Zenon
<1> QED BY <1>1, <1>2, Zenon DEF IsBlock

(* The new frames of a zone of two blocks.                                 *)
ZoneFrames(g, st, S, a, b, E) ==
    /\ Len(st.addr) <= Len(g.addr)
    /\ \A k \in 1..Len(g.addr) :
          IF k <= Len(st.addr) THEN g.addr[k] = st.addr[k]
          ELSE (S <= g.addr[k] /\ g.addr[k] < a) \/ (b <= g.addr[k] /\ g.addr[k] < E)

(* What is left out of a zone from a to b.                                 *)
Left(sk, a, b) == IF a = b THEN sk ELSE b - a

(* h is st with the block from S to a, g is h with the block from b to E.  *)
ZoneCase(st, S, a, b, E, x, sk, r, h, g) ==
    /\ st \in St /\ Ordered(st) /\ Total(st) > 0 /\ Before(st, S)
    /\ S \in Nat /\ a \in Nat /\ b \in Nat /\ E \in Nat /\ S <= a /\ a <= b /\ b <= E
    /\ x \in Nat /\ sk \in Nat /\ Progress(st, x, sk)
    /\ r \in Int /\ S = x + r * PAGE_SIZE
    /\ (S < a /\ b < E) => a + NODE <= b
    /\ a = b \/ sk = 0
    /\ IsBlock(h, st, S, a) /\ ((S = a /\ b < E) => h = st)
    /\ (b < E => IsBlock(g, h, b, E)) /\ (b = E => g = h)

(* What kmain does with a zone, whole or split in two.                     *)
LEMMA ZoneAdded ==
    ASSUME NEW st, NEW S, NEW a, NEW b, NEW E, NEW x, NEW sk, NEW r, NEW h, NEW g,
           ZoneCase(st, S, a, b, E, x, sk, r, h, g)
    PROVE  /\ g \in St /\ Ordered(g) /\ Total(g) = Total(st) /\ Under(g, E)
           /\ ZoneFrames(g, st, S, a, b, E) /\ Progress(g, x + (E - S), Left(sk, a, b))
<1>0. /\ st \in St /\ Ordered(st) /\ Total(st) > 0 /\ Before(st, S)
      /\ S \in Nat /\ a \in Nat /\ b \in Nat /\ E \in Nat /\ S <= a /\ a <= b /\ b <= E
      /\ x \in Nat /\ sk \in Nat /\ Progress(st, x, sk)
      /\ r \in Int /\ S = x + r * PAGE_SIZE
      /\ (S < a /\ b < E) => a + NODE <= b
      /\ a = b \/ sk = 0
      /\ IsBlock(h, st, S, a) /\ ((S = a /\ b < E) => h = st)
      /\ (b < E => IsBlock(g, h, b, E)) /\ (b = E => g = h)
  BY Zenon DEF ZoneCase
<1> USE <1>0
<1>1. /\ h \in St /\ Ordered(h) /\ Total(h) = Total(st) /\ Under(h, a)
      /\ NewFrames(h, st, S, a) /\ Progress(h, x + (a - S), sk)
  BY Block, ZenonT(60)
<1>2. PICK y \in Nat : y = x + (a - S)
  OBVIOUS
<1>3. PICK z \in Nat : z = x + (b - S)
  OBVIOUS
<1> DEFINE k2 == Left(sk, a, b)
<1>4. k2 \in Nat /\ Progress(h, z, k2)
  <2>1. CASE a = b
    BY <1>1, <1>3, <2>1, Zenon DEF Left
  <2>2. CASE a # b
    <3>1. sk = 0 /\ b - a \in Nat /\ k2 = b - a
      BY <2>2 DEF Left
    <3>2. PICK d \in Nat : d = b - a
      BY <3>1, Zenon
    <3>3. Progress(h, y, 0)
      BY <1>1, <1>2, <3>1, Zenon
    <3>4. Total(h) > 0
      BY <1>1, Zenon
    <3>5. Progress(h, y + d, d)
      BY <1>1, <3>3, <3>4, SkipProgress, Zenon
    <3>6. z = y + d
      BY <1>2, <1>3, <3>2
    <3> QED BY <3>1, <3>2, <3>5, <3>6, Zenon
  <2> QED BY <2>1, <2>2, Zenon
<1> HIDE DEF k2
<1>5. /\ h.nodes \in Seq(Nat) /\ h.addr \in Seq(Nat) /\ Len(h.addr) \in Nat /\ Len(st.addr) \in Nat
      /\ NODE \in Nat \ {0} /\ PAGE_SIZE \in Nat \ {0} /\ r * PAGE_SIZE \in Int
  <2>1. NODE \in Nat \ {0} /\ PAGE_SIZE \in Nat \ {0}
    BY BootSizes
  <2>2. r * PAGE_SIZE \in Int
    <3> HIDE <1>0
    <3>1. r \in Int
      BY <1>0
    <3> QED BY <2>1, <3>1
  <2>3. h.nodes \in Seq(Nat) /\ h.addr \in Seq(Nat) /\ Len(h.addr) \in Nat /\ Len(st.addr) \in Nat
    <3> HIDE <1>0
    <3>1. st \in St /\ h \in St
      BY <1>0, <1>1, Zenon
    <3> QED BY <3>1 DEF St
  <2> QED BY <2>1, <2>2, <2>3, Zenon
<1>6. CASE b < E
  <2>1. ASSUME NEW i \in 1..Len(h.nodes) PROVE h.nodes[i] + NODE <= b
    <3>1. h.nodes[i] \in Nat
      BY <1>5, ElementOfSeq, Zenon
    <3>2. CASE S < a
      <4>1. h.nodes[i] < a
        BY <1>1, Zenon DEF Under
      <4>2. a + NODE <= b
        BY <1>6, <3>2, Zenon
      <4> HIDE <1>0
      <4>3. a \in Nat /\ b \in Nat
        BY <1>0, Zenon
      <4>4. PICK u \in Nat : u = h.nodes[i]
        BY <3>1, Zenon
      <4>5. u < a
        BY <4>1, <4>4, Zenon
      <4>6. u + NODE <= b
        BY <1>5, <4>2, <4>3, <4>5
      <4> QED BY <4>4, <4>6, Zenon
    <3>3. CASE S = a
      <4>1. st.nodes[i] + NODE <= S /\ h.nodes[i] = st.nodes[i]
        BY <1>6, <3>3, Zenon DEF Before
      <4>2. PICK u \in Nat : u = h.nodes[i]
        BY <3>1, Zenon
      <4>3. u + NODE <= S
        BY <4>1, <4>2, Zenon
      <4>4. u + NODE <= b
        BY <1>5, <4>3, SMTT(30)
      <4> QED BY <4>2, <4>4, Zenon
    <3> QED BY <3>2, <3>3
  <2>2. ASSUME NEW k \in 1..Len(h.addr) PROVE h.addr[k] < b
    <3>1. h.addr[k] \in Nat
      BY <1>5, ElementOfSeq, Zenon
    <3>2. h.addr[k] < a
      BY <1>1, Zenon DEF Under
    <3> QED BY <3>1, <3>2
  <2>3. Before(h, b)
    BY <2>1, <2>2, Zenon DEF Before
  <2>4. b = z + r * PAGE_SIZE
    BY <1>3, <1>5
  <2>5. h \in St /\ Ordered(h) /\ Total(h) > 0 /\ b <= E /\ IsBlock(g, h, b, E)
    BY <1>1, <1>6, Zenon
  <2>6. /\ g \in St /\ Ordered(g) /\ Total(g) = Total(h) /\ Under(g, E)
        /\ NewFrames(g, h, b, E) /\ Progress(g, z + (E - b), k2)
    BY <1>4, <2>3, <2>4, <2>5, Block, ZenonT(60)
  <2>7. z + (E - b) = x + (E - S)
    BY <1>3
  <2>8. Len(g.addr) \in Nat
    BY <2>6 DEF St
  <2>9. ASSUME NEW k \in 1..Len(g.addr)
        PROVE  IF k <= Len(st.addr) THEN g.addr[k] = st.addr[k]
               ELSE (S <= g.addr[k] /\ g.addr[k] < a) \/ (b <= g.addr[k] /\ g.addr[k] < E)
    <3>1. CASE k <= Len(h.addr)
      <4>1. k \in 1..Len(h.addr)
        BY <1>5, <2>8, <3>1
      <4>2. g.addr[k] = h.addr[k]
        BY <2>6, <3>1, Zenon DEF NewFrames
      <4> QED BY <1>1, <4>1, <4>2, Zenon DEF NewFrames
    <3>2. CASE ~(k <= Len(h.addr))
      <4>1. b <= g.addr[k] /\ g.addr[k] < E
        BY <2>6, <3>2, Zenon DEF NewFrames
      <4>2. Len(st.addr) <= Len(h.addr)
        BY <1>1, Zenon DEF NewFrames
      <4>3. ~(k <= Len(st.addr))
        BY <1>5, <2>8, <3>2, <4>2
      <4> QED BY <4>1, <4>3, Zenon
    <3> QED BY <3>1, <3>2, Zenon
  <2>10. Len(st.addr) <= Len(g.addr)
    <3>1. Len(st.addr) <= Len(h.addr) /\ Len(h.addr) <= Len(g.addr)
      BY <1>1, <2>6, Zenon DEF NewFrames
    <3> QED BY <1>5, <2>8, <3>1, SMTT(30)
  <2>11. ZoneFrames(g, st, S, a, b, E)
    BY <2>9, <2>10, Zenon DEF ZoneFrames
  <2>12. Progress(g, x + (E - S), k2)
    BY <2>6, <2>7, Zenon
  <2> QED BY <1>1, <2>6, <2>11, <2>12, Zenon DEF k2
<1>7. CASE b = E
  <2>1. g = h
    BY <1>7, Zenon
  <2>2. ASSUME NEW i \in 1..Len(h.nodes) PROVE h.nodes[i] < E
    <3>1. h.nodes[i] \in Nat
      BY <1>5, ElementOfSeq, Zenon
    <3>2. h.nodes[i] < a
      BY <1>1, Zenon DEF Under
    <3> QED BY <3>1, <3>2, SMTT(30)
  <2>3. ASSUME NEW k \in 1..Len(h.addr) PROVE h.addr[k] < E
    <3>1. h.addr[k] \in Nat
      BY <1>5, ElementOfSeq, Zenon
    <3>2. h.addr[k] < a
      BY <1>1, Zenon DEF Under
    <3> QED BY <3>1, <3>2
  <2>4. Under(g, E)
    BY <2>1, <2>2, <2>3, Zenon DEF Under
  <2>5. z = x + (E - S)
    BY <1>3, <1>7, Zenon
  <2>6. Progress(g, x + (E - S), k2)
    BY <1>4, <2>1, <2>5, Zenon
  <2>7. ZoneFrames(g, st, S, a, b, E)
    BY <1>1, <2>1, Zenon DEF NewFrames, ZoneFrames
  <2> QED BY <1>1, <2>1, <2>4, <2>6, <2>7, Zenon DEF k2
<1> QED BY <1>6, <1>7

(* What zone z contributes to the sum of total_available_mem.              *)
Part(m, z) ==
    IF Boot!Usable(m, z) THEN m.zones[z].end - Boot!larger(m.zones[z].start, m.kernel_end) ELSE 0

Sum(m) ==
    CHOOSE sum : sum = [z \in 0..Len(m.zones) |->
                           IF z = 0 THEN 0
                           ELSE sum[z - 1] + (IF Boot!Usable(m, z)
                                              THEN m.zones[z].end - Boot!larger(m.zones[z].start, m.kernel_end)
                                              ELSE 0)]

(* The size that kmain adds up is the last of its partial sums.            *)
LEMMA TotalIsSum == \A m : Boot!total_available_mem(m) = Sum(m)[Len(m.zones)]
BY Zenon DEF Boot!total_available_mem, Sum

(* f sums up the zones to n.                                               *)
SumsTo(f, m, n) ==
    f \in [0..n -> Int] /\ f[0] = 0 /\ \A z \in 1..n : f[z] = f[z - 1] + Part(m, z)

(* What MapAssumption says of a map.                                       *)
LEMMA MapFacts ==
    ASSUME NEW m \in MemoryMap
    PROVE  /\ m.zones \in Seq([start : Nat, end : Nat]) /\ Len(m.zones) \in Nat
           /\ DOMAIN m.zones = 1..Len(m.zones)
           /\ m.kernel_end \in Nat /\ m.mb_start \in Nat /\ m.mb_end \in Nat
           /\ m.mb_start + NODE <= m.mb_end
           /\ \A z \in 1..Len(m.zones) : m.zones[z].start \in Nat /\ m.zones[z].end \in Nat
           /\ \A y, z \in 1..Len(m.zones) : y < z => m.zones[y].end + NODE <= m.zones[z].start
           /\ Boot!pmm_set_total(Boot!total_available_mem(m)) \in Nat \ {0}
           /\ m.mb_end - m.mb_start <= Boot!pmm_set_total(Boot!total_available_mem(m)) * PAGE_SIZE
<1>1. m.zones \in Seq([start : Nat, end : Nat])
  BY MapAssumption, Zenon
<1>2. Len(m.zones) \in Nat /\ DOMAIN m.zones = 1..Len(m.zones)
  BY <1>1
<1>3. ASSUME NEW z \in 1..Len(m.zones) PROVE m.zones[z].start \in Nat /\ m.zones[z].end \in Nat
  <2>1. m.zones[z] \in [start : Nat, end : Nat]
    BY <1>1, ElementOfSeq, Zenon
  <2> QED BY <2>1
<1>4. m.kernel_end \in Nat /\ m.mb_start \in Nat /\ m.mb_end \in Nat
  BY MapAssumption, Zenon
<1>5. \A y, z \in 1..Len(m.zones) : y < z => m.zones[y].end + NODE <= m.zones[z].start
  BY <1>2, MapAssumption, Zenon
<1>6. /\ m.mb_start + NODE <= m.mb_end
      /\ Boot!pmm_set_total(Boot!total_available_mem(m)) \in Nat \ {0}
      /\ m.mb_end - m.mb_start <= Boot!pmm_set_total(Boot!total_available_mem(m)) * PAGE_SIZE
  BY MapAssumption, Zenon
<1> QED BY <1>1, <1>2, <1>3, <1>4, <1>5, <1>6, Zenon

(* What MapAssumption says of a zone that kmain uses.                      *)
LEMMA UsableFacts ==
    ASSUME NEW m \in MemoryMap, NEW z \in 1..Len(m.zones), Boot!Usable(m, z)
    PROVE  /\ m.zones[z].start <= m.zones[z].end
           /\ m.zones[z].start % PAGE_SIZE = 0 /\ m.zones[z].end % PAGE_SIZE = 0
           /\ \/ m.mb_end <= m.zones[z].start
              \/ m.zones[z].end <= m.mb_start
              \/ m.zones[z].start <= m.mb_start /\ m.mb_end <= m.zones[z].end
<1>1. z \in DOMAIN m.zones
  BY MapFacts, Zenon
<1> QED BY <1>1, MapAssumption, Zenon

(* The part of zone z that kmain uses.                                     *)
LEMMA ZoneBounds ==
    ASSUME map \in MemoryMap, NEW z \in 1..Len(map.zones), Boot!Usable(map, z)
    PROVE  LET S == Boot!zone_start(z)
               E == map.zones[z].end
               s == map.zones[z].start
           IN  /\ S \in Nat /\ E \in Nat /\ s \in Nat /\ s <= S /\ S <= E
               /\ \E q \in Nat : S = q * PAGE_SIZE
               /\ \E q \in Nat : E = q * PAGE_SIZE
               /\ Part(map, z) \in Nat /\ Part(map, z) < E - S + PAGE_SIZE
               /\ map.kernel_end <= s => Part(map, z) = E - S
<1> DEFINE S == Boot!zone_start(z)
           E == map.zones[z].end
           s == map.zones[z].start
           L == Boot!larger(s, map.kernel_end)
<1>1. E \in Nat /\ s \in Nat /\ map.kernel_end \in Nat
  BY MapFacts, Zenon
<1>2. s <= E /\ s % PAGE_SIZE = 0 /\ E % PAGE_SIZE = 0
  BY UsableFacts, Zenon
<1>3. E > map.kernel_end
  BY Zenon DEF Boot!Usable
<1>4. Part(map, z) = E - L
  BY Zenon DEF Part
<1>5. S = PageCeil(L) * PAGE_SIZE
  BY Zenon DEF Boot!zone_start, PageCeil, CeilDiv
<1>6. L = IF s > map.kernel_end THEN s ELSE map.kernel_end
  BY Zenon DEF Boot!larger
<1>7. PAGE_SIZE \in Nat \ {0}
  BY BootSizes, Zenon
<1> HIDE DEF S, E, s, L
<1>8. L \in Nat /\ L <= E /\ s <= L /\ (map.kernel_end <= s => L = s)
  BY <1>1, <1>2, <1>3, <1>6
<1>9. S \in Nat /\ L <= S /\ S < L + PAGE_SIZE /\ PageCeil(L) \in Nat
  BY <1>5, <1>7, <1>8, Ceil, Zenon DEF PageCeil
<1>10. PICK e \in Nat : E = e * PAGE_SIZE
  BY <1>1, <1>2, WholePages, Zenon
<1>11. S <= E
  <2>1. PageCeil(L) <= e
    BY <1>8, <1>10, PageCeilLeast
  <2> QED BY <1>5, <1>7, <1>9, <1>10, <2>1, MulMono
<1>12. ASSUME map.kernel_end <= s PROVE S = L
  <2>1. L = s
    BY <1>8, <1>12, Zenon
  <2>2. PICK q \in Nat : s = q * PAGE_SIZE
    BY <1>1, <1>2, WholePages, Zenon
  <2>3. PageCeil(L) <= q
    BY <1>8, <2>1, <2>2, PageCeilLeast
  <2>4. PageCeil(L) * PAGE_SIZE <= q * PAGE_SIZE
    BY <1>7, <1>9, <2>3, MulMono
  <2>5. S <= L
    BY <1>5, <2>1, <2>2, <2>4, Zenon
  <2> QED BY <1>8, <1>9, <2>5
<1>13. /\ E - L \in Nat /\ E - L < E - S + PAGE_SIZE
       /\ s <= S /\ (map.kernel_end <= s => E - L = E - S)
  BY <1>1, <1>7, <1>8, <1>9, <1>11, <1>12
<1>14. \E q \in Nat : S = q * PAGE_SIZE
  BY <1>5, <1>9, Zenon
<1>15. /\ Part(map, z) \in Nat /\ Part(map, z) < E - S + PAGE_SIZE
       /\ map.kernel_end <= s => Part(map, z) = E - S
  BY <1>4, <1>13, Zenon
<1> QED BY <1>1, <1>9, <1>10, <1>11, <1>13, <1>14, <1>15, Zenon DEF S, E, s

(* A zone from S to E without the boot information from ms to me.          *)
SplitAt(S, E, ms, me) == ms \in S..E \/ me \in S..E
GapFrom(S, E, ms, me) == IF ~SplitAt(S, E, ms, me) THEN E ELSE IF S < ms THEN ms ELSE S
GapTo(S, E, ms, me) == IF SplitAt(S, E, ms, me) /\ me < E THEN me ELSE E

GapCase(s, S, E, ms, me) ==
    /\ s \in Nat /\ S \in Nat /\ E \in Nat /\ ms \in Nat /\ me \in Nat
    /\ s <= S /\ S <= E /\ ms + NODE <= me
    /\ me <= s \/ E <= ms \/ (s <= ms /\ me <= E)

GapKept(s, S, a, b, E, ms, me) ==
    /\ a \in Nat /\ b \in Nat /\ S <= a /\ a <= b /\ b <= E
    /\ (S < a /\ b < E) => a + NODE <= b
    /\ a # b => b - a <= me - ms /\ s <= ms /\ me <= E
    /\ \A p \in Nat : (S <= p /\ p < a) \/ (b <= p /\ p < E) => ~(ms <= p /\ p < me)

(* What the split of a zone leaves out.                                    *)
LEMMA GapFacts ==
    ASSUME NEW s, NEW S, NEW E, NEW ms, NEW me, GapCase(s, S, E, ms, me)
    PROVE  GapKept(s, S, GapFrom(S, E, ms, me), GapTo(S, E, ms, me), E, ms, me)
<1> USE DEF GapCase, GapKept
<1>1. NODE \in Nat \ {0}
  BY BootSizes, Zenon
<1>2. CASE ~SplitAt(S, E, ms, me)
  <2>1. GapFrom(S, E, ms, me) = E /\ GapTo(S, E, ms, me) = E
    BY <1>2, Zenon DEF GapFrom, GapTo
  <2>2. me < S \/ E <= ms
    BY <1>1, <1>2 DEF SplitAt
  <2> QED BY <1>1, <2>1, <2>2
<1>3. CASE SplitAt(S, E, ms, me)
  <2>1. /\ GapFrom(S, E, ms, me) = IF S < ms THEN ms ELSE S
        /\ GapTo(S, E, ms, me) = IF me < E THEN me ELSE E
    BY <1>3, Zenon DEF GapFrom, GapTo
  <2>2. ms <= E /\ S <= me
    BY <1>1, <1>3 DEF SplitAt
  <2> QED BY <1>1, <2>1, <2>2
<1> QED BY <1>2, <1>3, Zenon

(* q pages of the zones in front of zone z have been used, sk bytes of     *)
(* them for the boot information; the sum of total_available_mem counts at *)
(* most the page in which the kernel ends in addition.                     *)
Used(m, z, st, q, sk) ==
    /\ Progress(st, q * PAGE_SIZE, sk)
    /\ Sum(m)[z - 1] <= q * PAGE_SIZE
                        + (IF \E y \in 1..(z - 1) : Boot!Usable(m, y) THEN PAGE_SIZE - 1 ELSE 0)
    /\ \/ sk = 0
       \/ sk <= m.mb_end - m.mb_start /\ \E y \in 1..(z - 1) : m.mb_end <= m.zones[y].end

(* The list when kmain has reached zone z.                                 *)
ListInv(m, z, st) ==
    /\ st \in St /\ Ordered(st)
    /\ \A y \in z..Len(m.zones) : Before(st, m.zones[y].start)
    /\ \A k \in 1..Len(st.addr) : ~(m.mb_start <= st.addr[k] /\ st.addr[k] < m.mb_end)
    /\ Total(st) = Boot!pmm_set_total(Boot!total_available_mem(m))
    /\ \E q, sk \in Nat : Used(m, z, st, q, sk)

List == [nodes |-> nodes, needed |-> nodes_needed, addr |-> addr]

SumOK == SumsTo(Sum(map), map, Len(map.zones))

BootInv ==
    map \in MemoryMap /\ SumOK /\ zone \in 1..(Len(map.zones) + 1) /\ ListInv(map, zone, List)

(* A zone counts a natural number of bytes.                                *)
LEMMA PartNat ==
    ASSUME map \in MemoryMap, NEW z \in 1..Len(map.zones)
    PROVE  Part(map, z) \in Nat
<1>1. CASE Boot!Usable(map, z)
  BY <1>1, ZoneBounds, Zenon
<1>2. CASE ~Boot!Usable(map, z)
  BY <1>2, Zenon DEF Part
<1> QED BY <1>1, <1>2, Zenon

(* The sums that total_available_mem goes through.                         *)
LEMMA SumFacts ==
    ASSUME map \in MemoryMap, SumOK
    PROVE  /\ Sum(map)[0] = 0
           /\ \A z \in 1..Len(map.zones) : /\ Sum(map)[z - 1] \in Int /\ Part(map, z) \in Nat
                                           /\ Sum(map)[z] = Sum(map)[z - 1] + Part(map, z)
           /\ Sum(map)[Len(map.zones)] \in Int
<1> DEFINE len == Len(map.zones)
<1>1. len \in Nat
  BY MapFacts, Zenon
<1>2. \A z \in 1..len : Part(map, z) \in Nat
  BY PartNat, Zenon
<1>3. SumsTo(Sum(map), map, len)
  BY Zenon DEF SumOK
<1>4. Sum(map) \in [0..len -> Int] /\ Sum(map)[0] = 0
      /\ \A z \in 1..len : Sum(map)[z] = Sum(map)[z - 1] + Part(map, z)
  BY <1>3, Zenon DEF SumsTo
<1> HIDE DEF len
<1>5. len \in 0..len /\ \A z \in 1..len : z - 1 \in 0..len
  BY <1>1
<1>6. Sum(map)[len] \in Int /\ \A z \in 1..len : Sum(map)[z - 1] \in Int
  BY <1>4, <1>5, Zenon
<1> QED BY <1>2, <1>4, <1>6, Zenon DEF len

(* A zone is skipped.                                                      *)
LEMMA SkipKeeps ==
    ASSUME map \in MemoryMap, SumOK, NEW z \in 1..Len(map.zones), ~Boot!Usable(map, z),
           NEW st, ListInv(map, z, st)
    PROVE  ListInv(map, z + 1, st)
<1>1. Len(map.zones) \in Nat
  BY MapFacts, Zenon
<1>2. \A y \in (z + 1)..Len(map.zones) : y \in z..Len(map.zones)
  BY <1>1
<1>3. PICK q \in Nat, sk \in Nat : Used(map, z, st, q, sk)
  BY Zenon DEF ListInv
<1>4. (z + 1) - 1 = z /\ \A y \in 1..(z - 1) : y \in 1..z
  BY <1>1
<1>5. Sum(map)[z] = Sum(map)[z - 1]
  <2>1. Part(map, z) = 0
    BY Zenon DEF Part
  <2>2. Sum(map)[z - 1] \in Int /\ Sum(map)[z] = Sum(map)[z - 1] + Part(map, z)
    BY SumFacts, Zenon
  <2> QED BY <2>1, <2>2
<1>6. (\E y \in 1..z : Boot!Usable(map, y)) <=> (\E y \in 1..(z - 1) : Boot!Usable(map, y))
  <2>1. \A y \in 1..z : y = z \/ y \in 1..(z - 1)
    BY <1>1
  <2> QED BY <1>4, <2>1, Zenon
<1>7. Used(map, z + 1, st, q, sk)
  BY <1>3, <1>4, <1>5, <1>6, Zenon DEF Used
<1> QED BY <1>2, <1>7, Zenon DEF ListInv

(* What kmain makes of st in zone z.                                       *)
First(st, z) ==
    IF ~Boot!Split(z) THEN Boot!pmm_add_block(st, Boot!zone_start(z), map.zones[z].end)
    ELSE IF Boot!zone_start(z) < map.mb_start THEN Boot!pmm_add_block(st, Boot!zone_start(z), map.mb_start)
    ELSE st
Second(st, z) ==
    IF Boot!Split(z) /\ map.mb_end < map.zones[z].end
    THEN Boot!pmm_add_block(st, map.mb_end, map.zones[z].end) ELSE st

(* A zone is used.                                                         *)
LEMMA AddKeeps ==
    ASSUME map \in MemoryMap, SumOK, NEW z \in 1..Len(map.zones), Boot!Usable(map, z),
           NEW st, ListInv(map, z, st)
    PROVE  ListInv(map, z + 1, Second(First(st, z), z))
<1> DEFINE S == Boot!zone_start(z)  E == map.zones[z].end  s == map.zones[z].start
           ms == map.mb_start  me == map.mb_end
           a == GapFrom(S, E, ms, me)  b == GapTo(S, E, ms, me)
           h == First(st, z)  g == Second(h, z)
           len == Len(map.zones)
<1>1. /\ S \in Nat /\ E \in Nat /\ s \in Nat /\ s <= S /\ S <= E
      /\ \E q \in Nat : S = q * PAGE_SIZE
      /\ \E q \in Nat : E = q * PAGE_SIZE
      /\ Part(map, z) \in Nat /\ Part(map, z) < E - S + PAGE_SIZE
      /\ map.kernel_end <= s => Part(map, z) = E - S
  BY ZoneBounds, Zenon
<1>2. ms \in Nat /\ me \in Nat /\ map.kernel_end \in Nat /\ ms + NODE <= me /\ len \in Nat
  BY MapFacts, Zenon
<1>3. me <= s \/ E <= ms \/ (s <= ms /\ me <= E)
  BY UsableFacts, Zenon
<1>4. NODE \in Nat \ {0} /\ PAGE_SIZE \in Nat \ {0}
  BY BootSizes, Zenon
<1>5. Boot!Split(z) <=> SplitAt(S, E, ms, me)
  BY Zenon DEF Boot!Split, SplitAt
<1>6. h = IF ~SplitAt(S, E, ms, me) THEN Boot!pmm_add_block(st, S, E)
          ELSE IF S < ms THEN Boot!pmm_add_block(st, S, ms) ELSE st
  BY <1>5, Zenon DEF First
<1>7. g = IF SplitAt(S, E, ms, me) /\ me < E THEN Boot!pmm_add_block(h, me, E) ELSE h
  BY <1>5, Zenon DEF Second
<1>8. /\ st \in St /\ Ordered(st)
      /\ \A y \in z..len : Before(st, map.zones[y].start)
      /\ \A k \in 1..Len(st.addr) : ~(ms <= st.addr[k] /\ st.addr[k] < me)
      /\ Total(st) = Boot!pmm_set_total(Boot!total_available_mem(map))
  BY Zenon DEF ListInv
<1>9. PICK q \in Nat, sk \in Nat : Used(map, z, st, q, sk)
  BY Zenon DEF ListInv
<1>10. Total(st) > 0
  <2>1. Total(st) \in Nat \ {0}
    BY <1>8, MapFacts, Zenon
  <2> QED BY <2>1
<1> HIDE DEF S, E, s, ms, me, h, g, len
<1>11. /\ a \in Nat /\ b \in Nat /\ S <= a /\ a <= b /\ b <= E
       /\ (S < a /\ b < E) => a + NODE <= b
       /\ a # b => b - a <= me - ms /\ s <= ms /\ me <= E
       /\ \A p \in Nat : (S <= p /\ p < a) \/ (b <= p /\ p < E) => ~(ms <= p /\ p < me)
  <2>1. S \in Nat /\ E \in Nat /\ s \in Nat /\ ms \in Nat /\ me \in Nat /\ s <= S /\ S <= E /\ ms + NODE <= me
    BY <1>1, <1>2, Zenon
  <2>2. GapCase(s, S, E, ms, me)
    BY <1>3, <2>1, Zenon DEF GapCase
  <2>3. GapKept(s, S, a, b, E, ms, me)
    BY <2>2, GapFacts, Zenon
  <2> HIDE DEF a, b
  <2> QED BY <2>3, Zenon DEF GapKept
<1>12. IsBlock(h, st, S, a) /\ ((S = a /\ b < E) => h = st)
  <2>1. CASE ~SplitAt(S, E, ms, me)
    <3>1. a = E /\ b = E /\ h = Boot!pmm_add_block(st, S, E)
      BY <1>6, <2>1, Zenon DEF GapFrom, GapTo
    <3>2. ~(b < E)
      BY <1>1, <3>1
    <3> QED BY <3>1, <3>2, Zenon DEF IsBlock
  <2>2. CASE SplitAt(S, E, ms, me) /\ S < ms
    <3>1. a = ms /\ h = Boot!pmm_add_block(st, S, ms)
      BY <1>6, <2>2, Zenon DEF GapFrom
    <3>2. S # a
      BY <1>1, <1>2, <2>2, <3>1
    <3> QED BY <3>1, <3>2, Zenon DEF IsBlock
  <2>3. CASE SplitAt(S, E, ms, me) /\ ~(S < ms)
    <3>1. a = S /\ h = st
      BY <1>6, <2>3, Zenon DEF GapFrom
    <3> QED BY <3>1, Zenon DEF IsBlock
  <2> QED BY <2>1, <2>2, <2>3, Zenon
<1>13. (b < E => IsBlock(g, h, b, E)) /\ (b = E => g = h)
  <2>1. CASE SplitAt(S, E, ms, me) /\ me < E
    <3>1. b = me /\ g = Boot!pmm_add_block(h, me, E)
      BY <1>7, <2>1, Zenon DEF GapTo
    <3>2. b # E
      BY <1>1, <1>2, <2>1, <3>1
    <3> QED BY <3>1, <3>2, Zenon DEF IsBlock
  <2>2. CASE ~(SplitAt(S, E, ms, me) /\ me < E)
    <3>1. b = E /\ g = h
      BY <1>7, <2>2, Zenon DEF GapTo
    <3>2. ~(b < E)
      BY <1>1, <3>1
    <3> QED BY <3>1, <3>2, Zenon
  <2> QED BY <2>1, <2>2, Zenon
<1> HIDE DEF a, b
<1>0. S \in Nat /\ E \in Nat /\ s \in Nat /\ s <= S /\ S <= E
  BY <1>1, Zenon
<1>14. Before(st, S)
  <2>1. z \in z..len
    BY <1>2 DEF len
  <2>2. Before(st, s)
    BY <1>8, <2>1, Zenon DEF s
  <2>3. st.nodes \in Seq(Nat) /\ st.addr \in Seq(Nat)
    BY <1>8, Zenon DEF St
  <2>4. ASSUME NEW i \in 1..Len(st.nodes) PROVE st.nodes[i] + NODE <= S
    <3>1. PICK u \in Nat : u = st.nodes[i]
      BY <2>3, ElementOfSeq, Zenon
    <3>2. u + NODE <= s
      BY <2>2, <3>1, Zenon DEF Before
    <3>3. u + NODE <= S
      BY <1>1, <1>4, <3>2
    <3> QED BY <3>1, <3>3, Zenon
  <2>5. ASSUME NEW k \in 1..Len(st.addr) PROVE st.addr[k] < S
    <3>1. PICK u \in Nat : u = st.addr[k]
      BY <2>3, ElementOfSeq, Zenon
    <3>2. u < s
      BY <2>2, <3>1, Zenon DEF Before
    <3>3. u < S
      BY <1>1, <3>2
    <3> QED BY <3>1, <3>3, Zenon
  <2> QED BY <2>4, <2>5, Zenon DEF Before
<1>15. a = b \/ sk = 0
  <2>1. ASSUME a # b, sk # 0 PROVE FALSE
    <3>1. PICK y \in 1..(z - 1) : me <= map.zones[y].end
      BY <1>9, <2>1, Zenon DEF Used, me
    <3>2. y \in 1..len /\ z \in 1..len /\ y < z
      BY <1>2 DEF len
    <3>3. map.zones[y].end \in Nat /\ map.zones[y].end + NODE <= s
      BY <3>2, MapFacts, Zenon DEF s, len
    <3>4. s <= ms
      BY <1>11, <2>1, Zenon
    <3>5. PICK e \in Nat : e = map.zones[y].end
      BY <3>3, Zenon
    <3>6. me <= e /\ e + NODE <= s
      BY <3>1, <3>3, <3>5, Zenon
    <3> QED BY <1>1, <1>2, <1>4, <3>4, <3>6, SMTT(30)
  <2> QED BY <2>1, Zenon
<1>16. PICK qs \in Nat, qe \in Nat : S = qs * PAGE_SIZE /\ E = qe * PAGE_SIZE
  BY <1>1, Zenon
<1>17. PICK x \in Nat : x = q * PAGE_SIZE
  BY <1>4
<1>18. PICK r \in Int : S = x + r * PAGE_SIZE
  <2>1. qs - q \in Int /\ q * PAGE_SIZE + (qs - q) * PAGE_SIZE = qs * PAGE_SIZE
    BY <1>4
  <2> QED BY <1>16, <1>17, <2>1, Zenon
<1>19. Progress(st, x, sk)
  BY <1>9, <1>17, Zenon DEF Used
<1>20. /\ g \in St /\ Ordered(g) /\ Total(g) = Total(st) /\ Under(g, E)
       /\ ZoneFrames(g, st, S, a, b, E) /\ Progress(g, x + (E - S), Left(sk, a, b))
  <2>1. (S < a /\ b < E) => a + NODE <= b
    BY <1>11, Zenon
  <2>2. a \in Nat /\ b \in Nat /\ S <= a /\ a <= b /\ b <= E /\ S \in Nat /\ E \in Nat
    BY <1>1, <1>11, Zenon
  <2>3. st \in St /\ Ordered(st)
    BY <1>8, Zenon
  <2>4. ZoneCase(st, S, a, b, E, x, sk, r, h, g)
    <3>1. /\ x \in Nat /\ sk \in Nat /\ Progress(st, x, sk) /\ r \in Int /\ S = x + r * PAGE_SIZE
          /\ Total(st) > 0 /\ Before(st, S)
      BY <1>10, <1>14, <1>18, <1>19, Zenon
    <3> QED BY <1>12, <1>13, <1>15, <2>1, <2>2, <2>3, <3>1, ZenonT(60) DEF ZoneCase
  <2> QED BY <2>4, ZoneAdded, Zenon
<1>21. ASSUME NEW y \in (z + 1)..len PROVE Before(g, map.zones[y].start)
  <2>1. y \in 1..len /\ z \in 1..len /\ z < y
    BY <1>2 DEF len
  <2>2. map.zones[y].start \in Nat /\ E + NODE <= map.zones[y].start
    BY <2>1, MapFacts, Zenon DEF E, len
  <2>3. PICK e \in Nat : e = map.zones[y].start
    BY <2>2, Zenon
  <2>4. E + NODE <= e
    BY <2>2, <2>3, Zenon
  <2>5. g.nodes \in Seq(Nat) /\ g.addr \in Seq(Nat)
    BY <1>20, Zenon DEF St
  <2>6. ASSUME NEW i \in 1..Len(g.nodes) PROVE g.nodes[i] + NODE <= e
    <3>1. PICK u \in Nat : u = g.nodes[i]
      BY <2>5, ElementOfSeq, Zenon
    <3>2. u < E
      BY <1>20, <3>1, Zenon DEF Under
    <3>3. u + NODE <= e
      BY <1>1, <1>4, <2>4, <3>2, SMTT(30)
    <3> QED BY <3>1, <3>3, Zenon
  <2>7. ASSUME NEW k \in 1..Len(g.addr) PROVE g.addr[k] < e
    <3>1. PICK u \in Nat : u = g.addr[k]
      BY <2>5, ElementOfSeq, Zenon
    <3>2. u < E
      BY <1>20, <3>1, Zenon DEF Under
    <3>3. u < e
      BY <1>1, <1>4, <2>4, <3>2
    <3> QED BY <3>1, <3>3, Zenon
  <2> QED BY <2>3, <2>6, <2>7, Zenon DEF Before
<1>22. ASSUME NEW k \in 1..Len(g.addr) PROVE ~(ms <= g.addr[k] /\ g.addr[k] < me)
  <2>1. CASE k <= Len(st.addr)
    <3>1. g.addr[k] = st.addr[k]
      BY <1>20, <2>1, Zenon DEF ZoneFrames
    <3>2. Len(st.addr) \in Nat /\ Len(g.addr) \in Nat
      <4>1. st \in St /\ g \in St
        BY <1>8, <1>20, Zenon
      <4> QED BY <4>1 DEF St
    <3>3. k \in 1..Len(st.addr)
      BY <2>1, <3>2
    <3> QED BY <1>8, <3>1, <3>3, Zenon
  <2>2. CASE ~(k <= Len(st.addr))
    <3>1. (S <= g.addr[k] /\ g.addr[k] < a) \/ (b <= g.addr[k] /\ g.addr[k] < E)
      BY <1>20, <2>2, Zenon DEF ZoneFrames
    <3>2. g.addr \in Seq(Nat)
      BY <1>20, Zenon DEF St
    <3>3. g.addr[k] \in Nat
      BY <3>2, ElementOfSeq, Zenon
    <3> QED BY <1>11, <3>1, <3>3, Zenon
  <2> QED BY <2>1, <2>2, Zenon
<1>23. Total(g) = Boot!pmm_set_total(Boot!total_available_mem(map))
  BY <1>8, <1>20, Zenon
<1>24. \E q2, sk2 \in Nat : Used(map, z + 1, g, q2, sk2)
  <2>1. PICK q2 \in Nat : q2 * PAGE_SIZE = x + (E - S)
    <3>1. qe - qs \in Int /\ (q + (qe - qs)) * PAGE_SIZE = q * PAGE_SIZE + (qe * PAGE_SIZE - qs * PAGE_SIZE)
      BY <1>4
    <3>2. (q + (qe - qs)) * PAGE_SIZE = x + (E - S)
      BY <1>16, <1>17, <3>1, Zenon
    <3>3. qs <= qe
      <4>1. ASSUME qe + 1 <= qs PROVE FALSE
        <5>1. (qe + 1) * PAGE_SIZE <= qs * PAGE_SIZE
          BY <1>4, <4>1, MulMono
        <5>2. (qe + 1) * PAGE_SIZE = qe * PAGE_SIZE + PAGE_SIZE
          BY <1>4
        <5>3. E + PAGE_SIZE <= S
          BY <1>16, <5>1, <5>2, Zenon
        <5> QED BY <1>0, <1>4, <5>3
      <4> QED BY <4>1
    <3>4. q + (qe - qs) \in Nat
      BY <3>3
    <3> QED BY <3>2, <3>4, Zenon
  <2> DEFINE sk2 == Left(sk, a, b)
  <2>2. sk2 \in Nat
    BY <1>11 DEF Left
  <2>3. Progress(g, q2 * PAGE_SIZE, sk2)
    BY <1>20, <2>1, Zenon
  <2>4. (z + 1) - 1 = z /\ z \in 1..z /\ (\A y \in 1..(z - 1) : y \in 1..z) /\ z \in 1..len
    BY <1>2 DEF len
  <2>5. sk2 = 0 \/ (sk2 <= me - ms /\ \E y \in 1..z : me <= map.zones[y].end)
    <3>1. CASE a = b
      <4>1. sk2 = sk
        BY <3>1, Zenon DEF Left
      <4> QED BY <1>9, <2>4, <4>1, Zenon DEF Used, me, ms
    <3>2. CASE a # b
      <4>1. sk2 = b - a /\ b - a <= me - ms /\ me <= E
        BY <1>11, <3>2, Zenon DEF Left
      <4> QED BY <2>4, <4>1, Zenon DEF E
    <3> QED BY <3>1, <3>2, Zenon
  <2>6. PICK w \in Int : w = Sum(map)[z - 1]
    BY <2>4, SumFacts, Zenon DEF len
  <2>7. PICK p \in Nat : p = Part(map, z)
    BY <1>1, Zenon
  <2>8. Sum(map)[z] = w + p
    BY <2>4, <2>6, <2>7, SumFacts, Zenon DEF len
  <2>9. w + p <= (x + (E - S)) + (PAGE_SIZE - 1)
    <3>1. CASE \E y \in 1..(z - 1) : Boot!Usable(map, y)
      <4>1. w <= x + (PAGE_SIZE - 1)
        BY <1>9, <1>17, <2>6, <3>1, Zenon DEF Used
      <4>2. PICK y \in 1..(z - 1) : Boot!Usable(map, y)
        BY <3>1, Zenon
      <4>3. y \in 1..len /\ y < z
        BY <1>2 DEF len
      <4>4. map.zones[y].end \in Nat /\ map.zones[y].end + NODE <= s /\ map.zones[y].end > map.kernel_end
        BY <2>4, <4>2, <4>3, MapFacts, Zenon DEF s, len, Boot!Usable
      <4>5. map.kernel_end <= s
        <5>1. PICK e \in Nat : e = map.zones[y].end
          BY <4>4, Zenon
        <5>2. e + NODE <= s /\ e > map.kernel_end
          BY <4>4, <5>1, Zenon
        <5> QED BY <1>0, <1>2, <1>4, <5>2
      <4>6. p = E - S
        BY <1>1, <2>7, <4>5, Zenon
      <4> QED BY <1>0, <1>4, <4>1, <4>6
    <3>2. CASE ~\E y \in 1..(z - 1) : Boot!Usable(map, y)
      <4>1. w <= x + 0
        BY <1>9, <1>17, <2>6, <3>2, Zenon DEF Used
      <4>2. p < E - S + PAGE_SIZE
        BY <1>1, <2>7, Zenon
      <4> QED BY <1>0, <1>4, <4>1, <4>2
    <3> QED BY <3>1, <3>2
  <2>10. Sum(map)[z] <= q2 * PAGE_SIZE + (PAGE_SIZE - 1)
    BY <2>1, <2>8, <2>9, Zenon
  <2>11. \E y \in 1..z : Boot!Usable(map, y)
    BY <2>4, Zenon
  <2> HIDE DEF sk2
  <2>12. Used(map, z + 1, g, q2, sk2)
    BY <2>3, <2>4, <2>5, <2>10, <2>11, Zenon DEF Used, me, ms
  <2> QED BY <2>2, <2>12, Zenon
<1>25. ListInv(map, z + 1, g)
  BY <1>20, <1>21, <1>22, <1>23, <1>24, Zenon DEF ListInv, len, ms, me
<1> QED BY <1>25, Zenon DEF g, h

(* A list is the record of its fields.                                     *)
LEMMA ListOf ==
    ASSUME NEW st \in St
    PROVE  st = [nodes |-> st.nodes, needed |-> st.needed, addr |-> st.addr]
BY Zenon DEF St

(* Each zone keeps the invariant.                                          *)
LEMMA BootStep == ASSUME BootInv, Boot!Next PROVE BootInv'
<1>1. /\ map \in MemoryMap /\ SumOK /\ zone \in 1..(Len(map.zones) + 1) /\ ListInv(map, zone, List)
      /\ Len(map.zones) \in Nat
  BY MapFacts, Zenon DEF BootInv
<1>2. CASE Boot!AddZone
  <2> DEFINE st2 == Second(First(List, zone), zone)
  <2>1. /\ zone <= Len(map.zones) /\ Boot!Usable(map, zone) /\ zone' = zone + 1 /\ map' = map
        /\ nodes' = st2.nodes /\ nodes_needed' = st2.needed /\ addr' = st2.addr
    BY <1>2, Zenon DEF Boot!AddZone, First, Second, List
  <2>2. zone \in 1..Len(map.zones) /\ zone' \in 1..(Len(map.zones) + 1)
    BY <1>1, <2>1
  <2>3. ListInv(map, zone + 1, st2)
    BY <1>1, <2>1, <2>2, AddKeeps, Zenon
  <2> HIDE DEF st2
  <2>4. List' = st2
    <3>1. st2 \in St
      BY <2>3, Zenon DEF ListInv
    <3>2. st2 = [nodes |-> st2.nodes, needed |-> st2.needed, addr |-> st2.addr]
      BY <3>1, ListOf, Zenon
    <3> QED BY <2>1, <3>2, Zenon DEF List
  <2> QED BY <1>1, <2>1, <2>2, <2>3, <2>4, Zenon DEF BootInv, ListInv, Used, SumOK, SumsTo
<1>3. CASE Boot!SkipZone
  <2>1. /\ zone <= Len(map.zones) /\ ~Boot!Usable(map, zone) /\ zone' = zone + 1 /\ map' = map
        /\ nodes' = nodes /\ nodes_needed' = nodes_needed /\ addr' = addr
    BY <1>3, Zenon DEF Boot!SkipZone
  <2>2. zone \in 1..Len(map.zones) /\ zone' \in 1..(Len(map.zones) + 1)
    BY <1>1, <2>1
  <2>3. ListInv(map, zone + 1, List)
    BY <1>1, <2>1, <2>2, SkipKeeps, Zenon
  <2>4. List' = List
    BY <2>1, Zenon DEF List
  <2> QED BY <1>1, <2>1, <2>2, <2>3, <2>4, Zenon DEF BootInv, ListInv, Used, SumOK, SumsTo
<1> QED BY <1>2, <1>3, Zenon DEF Boot!Next

(* What changes none of the variables keeps it.                            *)
LEMMA BootStutter == ASSUME BootInv, UNCHANGED bootVars PROVE BootInv'
<1>1. map' = map /\ zone' = zone /\ List' = List
  BY Zenon DEF bootVars, List
<1> QED BY <1>1, Zenon DEF BootInv, ListInv, Used, SumOK, SumsTo

(* Once kmain is done.  (pmm_set_total leaves one node out.)               *)
LEMMA TotalBound ==
    ASSUME NEW t \in Int, NEW n \in Nat, n = Boot!pmm_set_total(t)
    PROVE  (n + 1) * (PAGE_SIZE + NODE) <= t
<1> DEFINE b == PAGE_SIZE + NODE  d == t \div b
<1>1. b \in Nat \ {0}
  BY BootSizes
<1>2. n = (IF t % b = 0 THEN t \div b ELSE (t \div b) - 1) - 1
  BY Zenon DEF Boot!pmm_set_total, Boot!floor_u64_div
<1> HIDE DEF b
<1>3. d \in Int /\ t = d * b + (t % b) /\ t % b \in 0..(b - 1)
  BY <1>1
<1>4. n + 1 <= d
  BY <1>2, <1>3
<1> HIDE DEF d
<1>5. (n + 1) * b <= d * b
  BY <1>1, <1>3, <1>4, MulMono
<1>6. d * b \in Int /\ (n + 1) * b \in Int
  BY <1>1, <1>3
<1>7. (n + 1) * b <= t
  BY <1>1, <1>3, <1>5, <1>6
<1> QED BY <1>7, Zenon DEF b

(* After the last zone all nodes exist and nearly all have a frame.        *)
LEMMA DoneFacts ==
    ASSUME BootInv, Boot!Done
    PROVE  /\ nodes_needed = 0
           /\ Len(nodes) - Len(addr) <= Boot!ceil_u64_div(map.mb_end - map.mb_start, PAGE_SIZE)
<1>1. /\ map \in MemoryMap /\ SumOK /\ zone \in 1..(Len(map.zones) + 1) /\ ListInv(map, zone, List)
      /\ Len(map.zones) \in Nat
  BY MapFacts, Zenon DEF BootInv
<1>2. zone - 1 = Len(map.zones)
  BY <1>1 DEF Boot!Done
<1>3. PICK q \in Nat, sk \in Nat : Used(map, zone, List, q, sk)
  BY <1>1, Zenon DEF ListInv
<1> DEFINE T == Boot!total_available_mem(map)
           n == Boot!pmm_set_total(T)
           len == Len(nodes)
           got == Len(addr)
           mb == map.mb_end - map.mb_start
<1>4. PAGE_SIZE \in Nat \ {0} /\ NODE \in Nat \ {0}
  BY BootSizes, Zenon
<1>5. n \in Nat \ {0} /\ mb <= n * PAGE_SIZE /\ map.mb_end \in Nat /\ map.mb_start \in Nat
      /\ map.mb_start + NODE <= map.mb_end
  BY <1>1, MapFacts, Zenon
<1>6. T \in Int /\ T <= q * PAGE_SIZE + (PAGE_SIZE - 1)
  <2>1. T = Sum(map)[Len(map.zones)]
    BY TotalIsSum, Zenon
  <2>2. T \in Int
    BY <1>1, <2>1, SumFacts, Zenon
  <2>3. \/ T <= q * PAGE_SIZE + (PAGE_SIZE - 1)
        \/ T <= q * PAGE_SIZE + 0
    BY <1>2, <1>3, <2>1, Zenon DEF Used
  <2> HIDE DEF T
  <2>4. q * PAGE_SIZE \in Nat
    BY <1>4
  <2> QED BY <1>4, <2>2, <2>3, <2>4
<1>7. List \in St /\ Total(List) = n /\ Ordered(List)
  BY <1>1, Zenon DEF ListInv
<1>8. len \in Nat /\ got \in Nat /\ nodes_needed \in Nat /\ len + nodes_needed = n /\ got <= len
  BY <1>7 DEF List, St, Total, Ordered
<1>9. /\ nodes_needed > 0 => q * PAGE_SIZE <= len * NODE + sk
      /\ nodes_needed = 0 => \/ got = len
                             \/ PageCeil(q * PAGE_SIZE) <= got + PageCeil((len - 1) * NODE) + PageCeil(sk)
  BY <1>3, Zenon DEF Used, Progress, List
<1>10. mb \in Nat /\ sk <= mb
  <2>1. mb \in Nat
    BY <1>4, <1>5
  <2>2. sk = 0 \/ sk <= mb
    BY <1>3, Zenon DEF Used
  <2> HIDE DEF mb
  <2> QED BY <2>1, <2>2
<1>11. (n + 1) * (PAGE_SIZE + NODE) <= T
  <2> HIDE DEF T
  <2>1. n \in Nat
    BY <1>5, Zenon
  <2> QED BY <1>6, <2>1, TotalBound, Zenon
<1> HIDE DEF T, n, len, got, mb
<1>12. /\ (n + 1) * (PAGE_SIZE + NODE) = n * PAGE_SIZE + PAGE_SIZE + n * NODE + NODE
       /\ n * PAGE_SIZE \in Nat /\ n * NODE \in Nat /\ q * PAGE_SIZE \in Nat /\ len * NODE \in Nat
  BY <1>4, <1>5, <1>8
<1>13. n * PAGE_SIZE + n * NODE + NODE + 1 <= q * PAGE_SIZE
  BY <1>4, <1>6, <1>11, <1>12
<1>14. nodes_needed = 0
  <2>1. ASSUME nodes_needed > 0 PROVE FALSE
    <3>1. q * PAGE_SIZE <= len * NODE + sk
      BY <1>9, <2>1, Zenon
    <3>2. len <= n /\ n \in Nat
      BY <1>5, <1>8
    <3>3. len * NODE <= n * NODE
      BY <1>4, <1>8, <3>2, MulMono
    <3> QED BY <1>4, <1>5, <1>10, <1>12, <1>13, <3>1, <3>3, SMTT(30)
  <2> QED BY <1>8, <2>1
<1>15. len - got <= PageCeil(mb)
  <2>1. PageCeil(mb) \in Nat /\ PageCeil(sk) \in Nat /\ PageCeil(sk) <= PageCeil(mb)
    BY <1>10, PageCeilNat, PageCeilMono
  <2>2. CASE got = len
    BY <1>8, <2>1, <2>2
  <2>3. CASE PageCeil(q * PAGE_SIZE) <= got + PageCeil((len - 1) * NODE) + PageCeil(sk)
    <3>1. len = n /\ len - 1 \in Nat
      BY <1>5, <1>8, <1>14
    <3>2. PICK m \in Nat : m = (len - 1) * NODE
      BY <1>4, <3>1
    <3>3. m <= n * NODE
      <4>1. (len - 1) * NODE <= n * NODE
        BY <1>4, <1>5, <3>1, MulMono
      <4> QED BY <3>2, <4>1, Zenon
    <3>4. (q - n) * PAGE_SIZE = q * PAGE_SIZE - n * PAGE_SIZE
      BY <1>4, <1>5
    <3>5. m <= (q - n) * PAGE_SIZE /\ q - n \in Int
      BY <1>4, <1>5, <1>12, <1>13, <3>3, <3>4
    <3>6. PageCeil(m) <= q - n /\ PageCeil(m) \in Nat
      BY <3>5, PageCeilLeast, PageCeilNat, Zenon
    <3>7. PageCeil(q * PAGE_SIZE) = q
      <4>1. PageCeil(0 + q * PAGE_SIZE) = PageCeil(0) + q
        BY <1>12, PageCeilShift
      <4>2. PageCeil(0) <= 0 /\ PageCeil(0) \in Nat
        <5>1. 0 <= 0 * PAGE_SIZE
          BY <1>4
        <5> QED BY <5>1, PageCeilLeast, PageCeilNat
      <4>3. 0 + q * PAGE_SIZE = q * PAGE_SIZE
        BY <1>12
      <4> QED BY <4>1, <4>2, <4>3
    <3>8. q <= got + PageCeil(m) + PageCeil(sk)
      BY <2>3, <3>2, <3>7, Zenon
    <3> QED BY <1>5, <1>8, <2>1, <3>1, <3>6, <3>8
  <2> QED BY <1>9, <1>14, <2>2, <2>3
<1> QED BY <1>14, <1>15, Zenon DEF len, got, mb, PageCeil, CeilDiv

-----------------------------------------------------------------------------

(* The list is empty at first.                                             *)
LEMMA BootStart == ASSUME Boot!Init, SumOK PROVE BootInv
<1>1. /\ map \in MemoryMap /\ zone = 1 /\ nodes = <<>> /\ addr = <<>>
      /\ nodes_needed = Boot!pmm_set_total(Boot!total_available_mem(map))
  BY Zenon DEF Boot!Init
<1>2. nodes_needed \in Nat \ {0} /\ Len(map.zones) \in Nat
  BY <1>1, MapFacts, Zenon
<1> DEFINE st == List
<1>3. /\ st \in St /\ st.needed = nodes_needed /\ st.needed \in Nat \ {0} /\ st.nodes = <<>> /\ st.addr = <<>>
  BY <1>1, <1>2 DEF St, List
<1> HIDE DEF st
<1>4. Len(st.nodes) = 0 /\ Len(st.addr) = 0
  BY <1>3, Zenon
<1>5. (\A i \in 1..Len(st.nodes) : FALSE) /\ (\A k \in 1..Len(st.addr) : FALSE)
  BY <1>4
<1>6. Ordered(st)
  <2>1. Len(st.addr) <= Len(st.nodes) /\ ~(Len(st.addr) > 0)
    BY <1>4
  <2> QED BY <1>5, <2>1, Zenon DEF Ordered
<1>7. \A y \in 1..Len(map.zones) : Before(st, map.zones[y].start)
  BY <1>5, Zenon DEF Before
<1>8. Total(st) = Boot!pmm_set_total(Boot!total_available_mem(map))
  <2>1. Total(st) = 0 + nodes_needed
    BY <1>3, <1>4, Zenon DEF Total
  <2>2. Total(st) = nodes_needed
    BY <1>2, <2>1
  <2> QED BY <1>1, <2>2, Zenon
<1>9. Used(map, 1, st, 0, 0)
  <2>1. NODE \in Nat \ {0} /\ PAGE_SIZE \in Nat \ {0}
    BY BootSizes, Zenon
  <2>2. Progress(st, 0 * PAGE_SIZE, 0)
    <3>1. 0 * PAGE_SIZE <= 0 * NODE + 0 /\ st.needed # 0
      BY <1>3, <2>1
    <3> QED BY <1>4, <3>1, Zenon DEF Progress
  <2>3. 1 - 1 = 0 /\ (\A y \in 1..(1 - 1) : FALSE) /\ 0 <= 0 * PAGE_SIZE + 0
    BY <2>1
  <2>4. Sum(map)[0] = 0
    BY <1>1, SumFacts, Zenon
  <2> QED BY <2>2, <2>3, <2>4, Zenon DEF Used
<1>10. ListInv(map, 1, st)
  <2>1. 0 \in Nat
    BY Zenon
  <2> QED BY <1>3, <1>5, <1>6, <1>7, <1>8, <1>9, <2>1, Zenon DEF ListInv
<1>11. zone \in 1..(Len(map.zones) + 1)
  BY <1>1, <1>2
<1> QED BY <1>1, <1>10, <1>11, Zenon DEF BootInv, st

(* What follows from the invariant.                                        *)
LEMMA InvAscends == BootInv => FramesAscend
<1> SUFFICES ASSUME BootInv PROVE FramesAscend
  BY Zenon
<1>1. List \in St /\ Ordered(List)
  BY Zenon DEF BootInv, ListInv
<1>2. List.addr = addr /\ Len(addr) \in Nat
  BY <1>1 DEF List, St
<1>3. /\ \A k \in 1..Len(addr) : addr[k] % PAGE_SIZE = 0
      /\ \A i, j \in 1..Len(addr) : i < j => addr[i] < addr[j]
  BY <1>1, <1>2, Zenon DEF Ordered
<1>4. ASSUME NEW k \in 2..Len(addr) PROVE addr[k - 1] < addr[k]
  <2>1. k \in 1..Len(addr) /\ k - 1 \in 1..Len(addr) /\ k - 1 < k
    BY <1>2
  <2> QED BY <1>3, <2>1, Zenon
<1> QED BY <1>3, <1>4, DoneFacts, Zenon DEF FramesAscend

(* Frames are apart from nodes and from the boot information.              *)
LEMMA InvKeeps == BootInv => DataKept
<1> SUFFICES ASSUME BootInv PROVE DataKept
  BY Zenon
<1>1. List \in St /\ Ordered(List) /\ map \in MemoryMap
  BY Zenon DEF BootInv, ListInv
<1>2. /\ List.addr = addr /\ List.nodes = nodes /\ addr \in Seq(Nat) /\ nodes \in Seq(Nat)
      /\ Len(nodes) \in Nat
  BY <1>1 DEF List, St
<1>3. /\ \A i, j \in 1..Len(nodes) : i < j => nodes[i] + NODE <= nodes[j]
      /\ \A k \in 1..Len(addr) : nodes[Len(nodes)] <= addr[k]
      /\ \A k \in 1..Len(addr) : ~(map.mb_start <= addr[k] /\ addr[k] < map.mb_end)
  BY <1>1, <1>2, Zenon DEF Ordered, BootInv, ListInv
<1>4. /\ map.mb_start \in Nat /\ map.mb_end \in Nat /\ NODE \in Nat \ {0} /\ PAGE_SIZE \in Nat \ {0}
      /\ map.mb_start + NODE <= map.mb_end
  BY <1>1, MapFacts, BootSizes, Zenon
<1>5. ASSUME NEW k \in 1..Len(addr), NEW n \in 1..(Len(nodes) - 1)
      PROVE  ~Overlap(addr[k], PAGE_SIZE, nodes[n], NODE)
  <2>1. n \in 1..Len(nodes) /\ Len(nodes) \in 1..Len(nodes) /\ n < Len(nodes)
    BY <1>2
  <2>2. PICK a \in Nat, i \in Nat, l \in Nat : a = addr[k] /\ i = nodes[n] /\ l = nodes[Len(nodes)]
    BY <1>2, <2>1, ElementOfSeq, Zenon
  <2>3. i + NODE <= l /\ l <= a
    BY <1>3, <2>1, <2>2, Zenon
  <2>4. ~(a < i + NODE)
    BY <1>4, <2>3
  <2> QED BY <2>2, <2>4, Zenon DEF Overlap
<1>6. ASSUME NEW k \in 1..Len(addr),
             Overlap(addr[k], PAGE_SIZE, map.mb_start, map.mb_end - map.mb_start)
      PROVE  addr[k] < map.mb_start
  <2>1. PICK a \in Nat : a = addr[k]
    BY <1>2, ElementOfSeq, Zenon
  <2>2. a < map.mb_start + (map.mb_end - map.mb_start)
    BY <1>6, <2>1, Zenon DEF Overlap
  <2>3. ~(map.mb_start <= a /\ a < map.mb_end)
    BY <1>3, <2>1, Zenon
  <2>4. a < map.mb_start
    BY <1>4, <2>2, <2>3
  <2> QED BY <2>1, <2>4, Zenon
<1> QED BY <1>5, <1>6, Zenon DEF DataKept

-----------------------------------------------------------------------------

LOCAL INSTANCE FiniteSetTheorems

(* A set of naturals that is not empty has a least element.                *)
LEMMA LeastNat ==
    ASSUME NEW T \in SUBSET Nat, T # {}
    PROVE  \E n \in T : \A k \in 0..(n - 1) : k \notin T
<1>1. PICK n \in T : \A y \in T : <<y, n>> \notin OpToRel(<, Nat)
  BY NatLessThanWellFounded, WFMin, Zenon
<1>2. ASSUME NEW k \in 0..(n - 1), k \in T PROVE FALSE
  <2>1. k \in Nat /\ n \in Nat /\ k < n
    OBVIOUS
  <2>2. <<k, n>> \in OpToRel(<, Nat)
    BY <2>1, Zenon DEF OpToRel
  <2> QED BY <1>1, <1>2, <2>2, Zenon
<1> QED BY <1>2, Zenon

(* The function of total_available_mem exists.                             *)
LEMMA SumExists ==
    ASSUME NEW m, Len(m.zones) \in Nat, \A z \in 1..Len(m.zones) : Part(m, z) \in Int
    PROVE  SumsTo(Sum(m), m, Len(m.zones))
<1> DEFINE len == Len(m.zones)
           T == {n \in Nat : n <= len /\ ~\E f : SumsTo(f, m, n)}
<1>1. ASSUME T # {} PROVE FALSE
  <2>1. T \in SUBSET Nat
    BY Zenon
  <2>2. PICK n \in T : \A k \in 0..(n - 1) : k \notin T
    <3> HIDE DEF T
    <3> QED BY <1>1, <2>1, LeastNat, Zenon
  <2>3. n \in Nat /\ n <= len /\ ~\E f : SumsTo(f, m, n)
    BY <2>2, Zenon
  <2>4. CASE n = 0
    <3> DEFINE f == [z \in 0..0 |-> 0]
    <3>1. f \in [0..0 -> Int] /\ f[0] = 0
      OBVIOUS
    <3>2. SumsTo(f, m, 0)
      <4> HIDE DEF f
      <4>1. \A z \in 1..0 : FALSE
        OBVIOUS
      <4> QED BY <3>1, <4>1, Zenon DEF SumsTo
    <3> QED BY <2>3, <2>4, <3>2, Zenon
  <2>5. CASE n # 0
    <3>1. PICK k \in Nat : n = k + 1 /\ k \in 0..(n - 1) /\ k <= len
      <4>1. n - 1 \in Nat /\ n = (n - 1) + 1 /\ n - 1 \in 0..(n - 1) /\ n - 1 <= len
        BY <2>3, <2>5, SMTT(30)
      <4> QED BY <4>1, Zenon
    <3>2. PICK f : SumsTo(f, m, k)
      BY <2>2, <3>1, Zenon
    <3> DEFINE g == [z \in 0..n |-> IF z <= k THEN f[z] ELSE f[k] + Part(m, n)]
    <3>3. f \in [0..k -> Int] /\ f[0] = 0 /\ \A z \in 1..k : f[z] = f[z - 1] + Part(m, z)
      BY <3>2, Zenon DEF SumsTo
    <3>4. Part(m, n) \in Int /\ f[k] \in Int
      <4>1. n \in 1..len
        BY <2>3, <3>1
      <4> QED BY <3>3, <4>1
    <3>5. g \in [0..n -> Int]
      <4>1. ASSUME NEW z \in 0..n PROVE (IF z <= k THEN f[z] ELSE f[k] + Part(m, n)) \in Int
        BY <2>3, <3>1, <3>3, <3>4, SMTT(30)
      <4> QED BY <4>1, Zenon
    <3>6. g[0] = 0
      BY <2>3, <3>3
    <3>7. ASSUME NEW z \in 1..n PROVE g[z] = g[z - 1] + Part(m, z)
      <4>1. z \in 0..n /\ z - 1 \in 0..n /\ z - 1 <= k
        BY <2>3, <3>1
      <4>2. g[z - 1] = f[z - 1]
        BY <4>1, Zenon
      <4>3. CASE z <= k
        <5>1. z \in 1..k /\ g[z] = f[z]
          BY <3>1, <4>1, <4>3, SMTT(30)
        <5> QED BY <3>3, <4>2, <5>1, Zenon
      <4>4. CASE ~(z <= k)
        <5>1. z = n /\ z - 1 = k
          BY <2>3, <3>1, <4>4, SMTT(30)
        <5>2. g[z] = f[k] + Part(m, n)
          BY <4>1, <4>4, Zenon
        <5> QED BY <4>2, <5>1, <5>2, Zenon
      <4> QED BY <4>3, <4>4, Zenon
    <3> HIDE DEF g
    <3>8. SumsTo(g, m, n)
      BY <3>5, <3>6, <3>7, Zenon DEF SumsTo
    <3> QED BY <2>3, <3>8, Zenon
  <2> QED BY <2>4, <2>5
<1>2. PICK f : SumsTo(f, m, len)
  <2>1. len \notin T /\ len <= len
    BY <1>1
  <2> QED BY <2>1, Zenon
<1>3. f = [z \in 0..len |-> IF z = 0 THEN 0 ELSE f[z - 1] + Part(m, z)]
  <2>1. f \in [0..len -> Int] /\ f[0] = 0 /\ \A z \in 1..len : f[z] = f[z - 1] + Part(m, z)
    BY <1>2, Zenon DEF SumsTo
  <2>2. ASSUME NEW z \in 0..len PROVE f[z] = IF z = 0 THEN 0 ELSE f[z - 1] + Part(m, z)
    <3>1. z # 0 => z \in 1..len
      OBVIOUS
    <3> QED BY <2>1, <3>1, Zenon
  <2> QED BY <2>1, <2>2, Zenon
<1>4. Sum(m) = [z \in 0..len |-> IF z = 0 THEN 0 ELSE Sum(m)[z - 1] + Part(m, z)]
  BY <1>3, Zenon DEF Sum, Part
<1> DEFINE s == Sum(m)
<1>5. s = [z \in 0..len |-> IF z = 0 THEN 0 ELSE s[z - 1] + Part(m, z)]
  BY <1>4, Zenon
<1> HIDE DEF s
<1>6. s[0] = 0 /\ \A z \in 1..len : s[z] = s[z - 1] + Part(m, z)
  <2>1. 0 \in 0..len /\ \A z \in 1..len : z \in 0..len /\ z # 0
    OBVIOUS
  <2> QED BY <1>5, <2>1, Zenon
<1>7. ASSUME NEW z \in 0..len PROVE s[z] \in Int
  <2> DEFINE U == {n \in Nat : n <= len /\ s[n] \notin Int}
  <2>1. ASSUME U # {} PROVE FALSE
    <3>1. U \in SUBSET Nat
      BY Zenon
    <3>2. PICK n \in U : \A k \in 0..(n - 1) : k \notin U
      <4> HIDE DEF U
      <4> QED BY <2>1, <3>1, LeastNat, Zenon
    <3>3. n \in Nat /\ n <= len /\ s[n] \notin Int
      BY <3>2, Zenon
    <3>4. CASE n = 0
      BY <1>6, <3>3, <3>4, SMTT(30)
    <3>5. CASE n # 0
      <4>1. n - 1 \in Nat /\ n - 1 \in 0..(n - 1) /\ n - 1 <= len /\ n \in 1..len
        BY <3>3, <3>5, SMTT(30)
      <4>2. s[n - 1] \in Int
        BY <3>2, <4>1, Zenon
      <4>3. s[n] = s[n - 1] + Part(m, n) /\ Part(m, n) \in Int
        BY <1>6, <4>1, Zenon
      <4> QED BY <3>3, <4>2, <4>3, SMTT(30)
    <3> QED BY <3>4, <3>5, Zenon
  <2>2. z \notin U /\ z \in Nat /\ z <= len
    BY <2>1
  <2> QED BY <2>2, Zenon
<1>8. s \in [0..len -> Int]
  BY <1>5, <1>7, Zenon
<1> QED BY <1>6, <1>8, Zenon DEF SumsTo, s

(* The invariant of the list building holds throughout.                    *)
LEMMA BootInvariance == MemorySpec => []BootInv
<1>1. MemoryInit => BootInv
  <2> SUFFICES ASSUME MemoryInit PROVE BootInv
    BY Zenon
  <2>1. Boot!Init /\ map \in MemoryMap
    BY Zenon DEF MemoryInit, Boot!Init
  <2>2. Len(map.zones) \in Nat
    BY <2>1, MapFacts, Zenon
  <2>3. \A z \in 1..Len(map.zones) : Part(map, z) \in Int
    <3>1. \A z \in 1..Len(map.zones) : Part(map, z) \in Nat
      BY <2>1, PartNat, Zenon
    <3> QED BY <3>1
  <2>4. SumOK
    BY <2>2, <2>3, SumExists, Zenon DEF SumOK
  <2> QED BY <2>1, <2>4, BootStart, Zenon
<1>2. BootInv /\ [MemoryNext]_allVars => BootInv'
  <2> SUFFICES ASSUME BootInv, [MemoryNext]_allVars PROVE BootInv'
    BY Zenon
  <2>1. CASE BuildList
    BY <2>1, BootStep, Zenon DEF BuildList
  <2>2. CASE Allocate
    BY <2>2, BootStutter, Zenon DEF Allocate
  <2>3. CASE UNCHANGED allVars
    <3>1. UNCHANGED bootVars
      BY <2>3, Zenon DEF allVars
    <3> QED BY <3>1, BootStutter, Zenon
  <2> QED BY <2>1, <2>2, <2>3, Zenon DEF MemoryNext
<1> QED BY <1>1, <1>2, PTL DEF MemorySpec

(* For every memory map that MapAssumption admits: pmm_add_block enters    *)
(* whole pages, each once and in ascending order, and when kmain is done,  *)
(* all the nodes of pmm_set_total exist and those without a frame are no   *)
(* more than the pages that the boot information fills.                    *)
THEOREM FramesAlwaysAscend == MemorySpec => []FramesAscend
BY BootInvariance, InvAscends, PTL

(* For every memory map that MapAssumption admits: no frame that           *)
(* pmm_add_block enters contains a node of the list other than the last    *)
(* one, or a part of the boot information other than its beginning, so the *)
(* two exceptions of DataKept are the only ones.                           *)
THEOREM DataAlwaysKept == MemorySpec => []DataKept
BY BootInvariance, InvKeeps, PTL
(* The pigeonhole principle for the nodes.                                 *)
LEMMA PigeonHolds == Pigeonhole
<1> SUFFICES ASSUME NEW k \in Nat, NEW f \in [1..k -> Node],
                    \A i, j \in 1..k : f[i] = f[j] => i = j
             PROVE  k <= N
  BY Zenon DEF Pigeonhole
<1>1. f \in Injection(1..k, Node)
  BY Zenon DEF Injection, IsInjective
<1>2. IsFiniteSet(Node) /\ Cardinality(Node) = N
  BY FS_Interval, NAssumption DEF Node
<1>3. Cardinality(1..k) = k
  BY FS_Interval
<1>4. Cardinality(1..k) <= Cardinality(Node)
  BY <1>1, <1>2, FS_Injection, Zenon
<1> QED BY <1>2, <1>3, <1>4, Zenon

(* The invariant of the free lists holds in every reachable state.         *)
LEMMA Invariance == Spec => []IInv
<1>1. IInv /\ [Next]_vars => IInv'
  BY PigeonHolds, StepIInv, Zenon
<1> QED BY <1>1, InitIInv, PTL DEF Spec

(* The manager's state always has its type.                                *)
THEOREM TypeCorrect == Spec => []TypeOK
BY Invariance, PTL DEF IInv

(* In every reachable state the two free lists of pmm.c are finite lists   *)
(* without repetition, sorted by the 2 GiB limit, and every frame is on    *)
(* exactly one of them, with a caller, or reserved.                        *)
THEOREM ListsAlwaysSound == Spec => []FreeListsSound
BY Invariance, PTL DEF IInv

(* pmm.c implements the abstract allocator: pmm_alloc_low and              *)
(* pmm_alloc_high never hand out a frame that somebody holds.              *)
THEOREM Refinement == Spec => ImplementsFrameAllocator
<1>1. Init => Callers!Init
  BY Zenon DEF Init, Callers!Init, Node
<1>2. IInv /\ [Next]_vars => [Callers!Next]_<<holders, reserved>>
  BY StepCallers, Zenon
<1> QED BY <1>1, <1>2, Invariance, PTL DEF Spec, ImplementsFrameAllocator, Callers!Spec

(* From the boot loader's memory map on, the frames go through the steps   *)
(* of Pmm alone, so all this holds of the frames that kmain has entered:   *)
(* the free lists of pmm_init_final stay sound, and pmm_alloc_low,         *)
(* pmm_alloc_high and pmm_free are an allocator of frames.                 *)
THEOREM MemoryAllocates == MemorySpec => Spec /\ []FreeListsSound /\ ImplementsFrameAllocator
<1>1. MemoryInit => Init
  BY DEF MemoryInit
<1>2. [MemoryNext]_allVars => [Next]_vars
  BY DEF MemoryNext, BuildList, Allocate, allVars
<1>3. MemorySpec => Spec
  BY <1>1, <1>2, PTL DEF MemorySpec, Spec
<1> QED BY <1>3, ListsAlwaysSound, Refinement, PTL
=============================================================================
