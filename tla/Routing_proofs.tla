--------------------------- MODULE Routing_proofs ---------------------------
(* TrieFinds and QueryExact for every set of routes, every path and every    *)
(* URL a client may write.  Both stand on what a recursion computes: that    *)
(* the function TrieMatches is defined by exists, and what it gives for a    *)
(* node, by induction from the longest nodes to the root; that the states    *)
(* of a loop exist, and what they are, by induction along the text.          *)
EXTENDS RouteTrie, QueryString, SequenceFacts

-----------------------------------------------------------------------------
(* The nodes are the beginnings of the routes, none longer than some m.      *)
TrieInv ==
  /\ <<>> \in trieNodes
  /\ trieHandlers \subseteq TrieRoutes
  /\ \E m \in Nat : \A node \in trieNodes : node \in Seq(TrieKeys) /\ Len(node) <= m
  /\ \A route \in trieHandlers : \A n \in 0..Len(route.keys) : SubSeq(route.keys, 1, n) \in trieNodes

LEMMA RouteKeys == ASSUME NEW route \in TrieRoutes PROVE route.keys \in Seq(TrieKeys) /\ Len(route.keys) \in Nat
<1>1. route \in [keys : Seq(TrieKeys), method : TrieMethods]
  BY TrieAssumption
<1>2. route.keys \in Seq(TrieKeys)
  BY <1>1
<1>3. QED BY <1>2, LenProperties

LEMMA TrieInitInv == TrieInit => TrieInv
<1> SUFFICES ASSUME TrieInit PROVE TrieInv
  OBVIOUS
<1>1. trieNodes = {<<>>} /\ trieHandlers = {}
  BY DEF TrieInit
<1>2. <<>> \in Seq(TrieKeys) /\ Len(<<>>) = 0
  BY EmptySeq
<1>3. \E m \in Nat : \A node \in trieNodes : node \in Seq(TrieKeys) /\ Len(node) <= m
  BY <1>1, <1>2
<1>4. QED BY <1>1, <1>3 DEF TrieInv

LEMMA TrieAddInv ==
  ASSUME TrieInv, NEW route \in TrieRoutes, TrieAdd(route)
  PROVE  TrieInv'
<1> DEFINE keys == route.keys
           new == {SubSeq(keys, 1, n) : n \in 0..Len(keys)}
<1>1. keys \in Seq(TrieKeys) /\ Len(keys) \in Nat
  BY RouteKeys
<1>2. trieNodes' = trieNodes \cup new /\ trieHandlers' = trieHandlers \cup {route}
  BY DEF TrieAdd
<1>3. ASSUME NEW node \in new PROVE node \in Seq(TrieKeys) /\ Len(node) <= Len(keys)
  <2>1. PICK n \in 0..Len(keys) : node = SubSeq(keys, 1, n)
    OBVIOUS
  <2>2. SubSeq(keys, 1, n) \in Seq(TrieKeys) /\ Len(SubSeq(keys, 1, n)) = n
    BY <1>1, <2>1, Cut
  <2>3. QED BY <2>1, <2>2
<1>4. PICK m \in Nat : \A node \in trieNodes : node \in Seq(TrieKeys) /\ Len(node) <= m
  BY DEF TrieInv
<1> HIDE DEF keys
<1>5. ASSUME NEW node \in trieNodes' PROVE node \in Seq(TrieKeys) /\ Len(node) <= m + Len(keys)
  <2>1. node \in Seq(TrieKeys) /\ (Len(node) <= m \/ Len(node) <= Len(keys))
    BY <1>2, <1>3, <1>4
  <2>2. Len(node) \in Nat
    BY <2>1, LenProperties
  <2>3. QED BY <1>1, <2>1, <2>2
<1>6. \E k \in Nat : \A node \in trieNodes' : node \in Seq(TrieKeys) /\ Len(node) <= k
  <2>1. m + Len(keys) \in Nat
    BY <1>1
  <2>2. QED BY <1>5, <2>1
<1>7. ASSUME NEW other \in trieHandlers', NEW n \in 0..Len(other.keys) PROVE SubSeq(other.keys, 1, n) \in trieNodes'
  BY <1>2 DEF TrieInv, keys
<1>8. <<>> \in trieNodes' /\ trieHandlers' \subseteq TrieRoutes
  BY <1>2 DEF TrieInv
<1>9. QED BY <1>6, <1>7, <1>8 DEF TrieInv

-----------------------------------------------------------------------------
(* The recursion of findMatches ends, as a child is longer than its node:    *)
(* the function TrieMatches is defined by exists.                            *)
Searches(search, path) == search = [node \in trieNodes |-> TrieFrom(search, node, path)]

LEMMA SearchAgrees ==
  ASSUME NEW f, NEW g, NEW node, NEW path,
         \A key : Append(node, key) \in trieNodes => f[Append(node, key)] = g[Append(node, key)]
  PROVE  TrieFrom(f, node, path) = TrieFrom(g, node, path)
<1>1. \A key, i : TrieBelow(f, Append(node, key), i) = TrieBelow(g, Append(node, key), i)
  BY DEF TrieBelow
<1> DEFINE wildF(i) == [n \in 1..Len(path) - i + 1 |-> TrieBelow(f, Append(node, "**"), i + n - 1)]
           wildG(i) == [n \in 1..Len(path) - i + 1 |-> TrieBelow(g, Append(node, "**"), i + n - 1)]
           stepF(i) == IF i = Len(path) THEN IF TrieLeaf(node) THEN <<node>> ELSE <<>>
                       ELSE TrieBelow(f, Append(node, path[i + 1]), i + 1)
                              \o TrieBelow(f, Append(node, "*"), i + 1) \o FlattenSeq(wildF(i))
           stepG(i) == IF i = Len(path) THEN IF TrieLeaf(node) THEN <<node>> ELSE <<>>
                       ELSE TrieBelow(g, Append(node, path[i + 1]), i + 1)
                              \o TrieBelow(g, Append(node, "*"), i + 1) \o FlattenSeq(wildG(i))
<1>2. ASSUME NEW i PROVE wildF(i) = wildG(i)
  BY <1>1, Zenon
<1> HIDE DEF wildF, wildG
<1>3. ASSUME NEW i PROVE stepF(i) = stepG(i)
  BY <1>1, <1>2, Zenon
<1>4. TrieFrom(f, node, path) = [i \in 0..Len(path) |-> stepF(i)]
      /\ TrieFrom(g, node, path) = [i \in 0..Len(path) |-> stepG(i)]
  BY Zenon DEF TrieFrom, wildF, wildG
<1> HIDE DEF stepF, stepG
<1>5. QED BY <1>3, <1>4, Zenon

LEMMA SearchExists ==
  ASSUME TrieInv, NEW path
  PROVE  \E search : Searches(search, path)
<1>1. PICK m \in Nat : \A node \in trieNodes : node \in Seq(TrieKeys) /\ Len(node) <= m
  BY DEF TrieInv
<1>2. ASSUME NEW node \in trieNodes
      PROVE  Len(node) \in Nat /\ \A key : Append(node, key) \in trieNodes => Len(Append(node, key)) = Len(node) + 1
  <2>1. node \in Seq(TrieKeys)
    BY <1>1
  <2>2. ASSUME NEW key, Append(node, key) \in trieNodes PROVE Len(Append(node, key)) = Len(node) + 1
    BY <2>1
  <2>3. QED BY <2>1, <2>2, LenProperties
<1> DEFINE Deep(d) == {node \in trieNodes : Len(node) + d > m}
           K == {d \in Nat : \E f : \A node \in Deep(d) : f[node] = TrieFrom(f, node, path)}
<1>3. 0 \in K
  <2>1. Deep(0) = {}
    BY <1>1, <1>2
  <2> HIDE DEF Deep
  <2>2. QED BY <2>1
<1>4. ASSUME NEW d \in Nat, d \in K PROVE d + 1 \in K
  <2>1. PICK f : \A node \in Deep(d) : f[node] = TrieFrom(f, node, path)
    BY <1>4
  <2> DEFINE g == [node \in trieNodes |-> IF node \in Deep(d) THEN f[node] ELSE TrieFrom(f, node, path)]
  <2>2. ASSUME NEW node \in Deep(d + 1) PROVE g[node] = TrieFrom(g, node, path)
    <3>1. node \in trieNodes
      OBVIOUS
    <3>2. ASSUME NEW key, Append(node, key) \in trieNodes PROVE f[Append(node, key)] = g[Append(node, key)]
      <4>1. Len(Append(node, key)) = Len(node) + 1 /\ Len(node) \in Nat /\ Len(node) + (d + 1) > m
        BY <1>2, <3>1, <3>2
      <4>2. Append(node, key) \in Deep(d)
        BY <3>2, <4>1
      <4> HIDE DEF Deep
      <4>3. QED BY <3>2, <4>2, Zenon
    <3>3. TrieFrom(f, node, path) = TrieFrom(g, node, path)
      <4> HIDE DEF g
      <4>1. QED BY <3>2, SearchAgrees
    <3>4. g[node] = TrieFrom(f, node, path)
      <4> HIDE DEF Deep
      <4>1. g[node] = IF node \in Deep(d) THEN f[node] ELSE TrieFrom(f, node, path)
        BY <3>1, Zenon
      <4> HIDE DEF g
      <4>2. QED BY <2>1, <4>1, Zenon
    <3>5. QED BY <3>3, <3>4
  <2> HIDE DEF g, Deep
  <2>3. QED BY <2>2
<1> HIDE DEF K
<1>5. Nat \subseteq K
  BY <1>3, <1>4, Induction
<1>6. PICK f : \A node \in Deep(m + 1) : f[node] = TrieFrom(f, node, path)
  <2>1. m + 1 \in K
    BY <1>5
  <2>2. QED BY <2>1 DEF K
<1>7. Deep(m + 1) = trieNodes
  BY <1>2
<1> HIDE DEF Deep
<1> DEFINE g == [node \in trieNodes |-> TrieFrom(f, node, path)]
           h == [node \in trieNodes |-> TrieFrom(g, node, path)]
<1>8. \A node \in trieNodes : f[node] = g[node]
  BY <1>6, <1>7, Zenon
<1> HIDE DEF g
<1>9. ASSUME NEW node \in trieNodes PROVE TrieFrom(f, node, path) = TrieFrom(g, node, path)
  BY <1>8, SearchAgrees
<1>10. g = h
  BY <1>9, Zenon DEF g
<1>11. Searches(g, path)
  BY <1>10, Zenon DEF Searches
<1>12. QED BY <1>11

LEMMA MatchesIs ==
  ASSUME TrieInv, NEW path
  PROVE  \E search : Searches(search, path) /\ TrieMatches(path) = search[<<>>][0]
<1> DEFINE g == CHOOSE search : search = [node \in trieNodes |-> TrieFrom(search, node, path)]
<1>1. TrieMatches(path) = g[<<>>][0]
  BY Zenon DEF TrieMatches
<1>2. Searches(g, path)
  <2>1. \E search : search = [node \in trieNodes |-> TrieFrom(search, node, path)]
    BY SearchExists, Zenon DEF Searches
  <2>2. g = [node \in trieNodes |-> TrieFrom(g, node, path)]
    BY <2>1, Zenon
  <2>3. QED BY <2>2, Zenon DEF Searches
<1> HIDE DEF g
<1>3. QED BY <1>1, <1>2

-----------------------------------------------------------------------------
(* Matches in the order of preference: each is of a way in ws, and a way of  *)
(* W is found after none that is not preferred to it.                        *)
Prefers(w, v) == TriePreferred(w.keys, w.cut, v.keys, v.cut)

OrderedBy(m, W, ws) ==
  /\ m \in Seq(Seq(TrieKeys)) /\ ws \in Seq(W) /\ Len(ws) = Len(m)
  /\ \A k \in 1..Len(m) : m[k] = ws[k].keys
  /\ \A w \in W : \E k \in 1..Len(m) : m[k] = w.keys /\ \A l \in 1..k : Prefers(ws[l], w)

Ordered(m, W) == \E ws : OrderedBy(m, W, ws)

LEMMA OrderedNothing == Ordered(<<>>, {})
<1>1. OrderedBy(<<>>, {}, <<>>)
  BY EmptySeq DEF OrderedBy
<1>2. QED BY <1>1 DEF Ordered

LEMMA OrderedConcat ==
  ASSUME NEW m1, NEW m2, NEW W1, NEW W2, Ordered(m1, W1), Ordered(m2, W2),
         \A w \in W1 : \A v \in W2 : v \in W1 \/ Prefers(w, v)
  PROVE  Ordered(m1 \o m2, W1 \cup W2)
<1> DEFINE K == Seq(TrieKeys)
           W == W1 \cup W2
           m == m1 \o m2
           a == Len(m1)
           b == Len(m2)
<1>1. PICK ws1 : OrderedBy(m1, W1, ws1)
  BY DEF Ordered
<1>2. PICK ws2 : OrderedBy(m2, W2, ws2)
  BY DEF Ordered
<1>3. m1 \in Seq(K) /\ m2 \in Seq(K) /\ ws1 \in Seq(W1) /\ ws2 \in Seq(W2) /\ Len(ws1) = a /\ Len(ws2) = b
  BY <1>1, <1>2 DEF OrderedBy
<1>4. ws1 \in Seq(W) /\ ws2 \in Seq(W)
  BY <1>3, SeqMonotonic
<1> DEFINE ws == ws1 \o ws2
<1>5. Joined(K, m1, m2, m)
  BY <1>3, Joins
<1>6. Joined(W, ws1, ws2, ws)
  BY <1>4, Joins
<1> HIDE DEF m, ws
<1>7. a \in Nat /\ b \in Nat /\ Len(m) = a + b /\ Len(ws) = a + b /\ m \in Seq(K) /\ ws \in Seq(W)
  BY <1>3, <1>5, <1>6 DEF Joined
<1>8. (\A k \in 1..a : m[k] = m1[k] /\ ws[k] = ws1[k]) /\ (\A k \in 1..b : m[a + k] = m2[k] /\ ws[a + k] = ws2[k])
  BY <1>3, <1>5, <1>6 DEF Joined
<1>9. \A k \in 1..a : m1[k] = ws1[k].keys /\ ws1[k] \in W1
  BY <1>1, <1>3, ElementOfSeq DEF OrderedBy
<1>10. \A k \in 1..b : m2[k] = ws2[k].keys
  BY <1>2 DEF OrderedBy
<1>11. \A w \in W1 : \E k \in 1..a : m1[k] = w.keys /\ \A l \in 1..k : Prefers(ws1[l], w)
  BY <1>1 DEF OrderedBy
<1>12. \A w \in W2 : \E k \in 1..b : m2[k] = w.keys /\ \A l \in 1..k : Prefers(ws2[l], w)
  BY <1>2 DEF OrderedBy
<1> HIDE DEF a, b
<1>13. \A k \in 1..a + b : k \in 1..a \/ \E j \in 1..b : k = a + j
  <2> TAKE k \in 1..a + b
  <2>1. CASE k > a
    <3>1. k - a \in 1..b /\ k = a + (k - a)
      BY <1>7, <2>1
    <3>2. QED BY <3>1
  <2>2. CASE k <= a
    BY <1>7, <2>2
  <2>3. QED BY <1>7, <2>1, <2>2
<1>14. \A k \in 1..a + b : m[k] = ws[k].keys
  BY <1>8, <1>9, <1>10, <1>13
<1>15. ASSUME NEW w \in W PROVE \E k \in 1..a + b : m[k] = w.keys /\ \A l \in 1..k : Prefers(ws[l], w)
  <2>1. CASE w \in W1
    <3>1. PICK k \in 1..a : m1[k] = w.keys /\ \A l \in 1..k : Prefers(ws1[l], w)
      BY <1>11, <2>1
    <3>2. k \in 1..a + b /\ \A l \in 1..k : l \in 1..a
      BY <1>7
    <3>3. QED BY <1>8, <3>1, <3>2
  <2>2. CASE w \in W2 /\ w \notin W1
    <3>1. PICK k \in 1..b : m2[k] = w.keys /\ \A l \in 1..k : Prefers(ws2[l], w)
      BY <1>12, <2>2
    <3>2. a + k \in 1..a + b /\ m[a + k] = w.keys
      BY <1>7, <1>8, <3>1
    <3>3. ASSUME NEW l \in 1..a + k PROVE Prefers(ws[l], w)
      <4>1. CASE l \in 1..a
        <5>1. ws[l] = ws1[l] /\ ws1[l] \in W1
          BY <1>8, <1>9, <4>1
        <5>2. QED BY <2>2, <5>1
      <4>2. CASE l \notin 1..a
        <5> DEFINE j == l - a
        <5>1. j \in 1..k /\ j \in 1..b /\ l = a + j
          BY <1>7, <4>2
        <5> HIDE DEF j
        <5>2. ws[a + j] = ws2[j] /\ Prefers(ws2[j], w)
          BY <1>8, <3>1, <5>1
        <5>3. QED BY <5>1, <5>2
      <4>3. QED BY <4>1, <4>2
    <3>4. QED BY <3>2, <3>3
  <2>3. QED BY <2>1, <2>2
<1>16. OrderedBy(m, W, ws)
  BY <1>7, <1>14, <1>15 DEF OrderedBy
<1>17. QED BY <1>16 DEF Ordered, m

LEMMA OrderedFlatten ==
  ASSUME NEW C \in Seq(Seq(Seq(TrieKeys))), NEW W, \A i \in 1..Len(C) : Ordered(C[i], W[i]),
         \A i, j \in 1..Len(C) : i < j => \A w \in W[i] : \A v \in W[j] : Prefers(w, v)
  PROVE  Ordered(FlattenSeq(C), UNION {W[i] : i \in 1..Len(C)})
<1> DEFINE n == Len(C)
           First(k) == UNION {W[i] : i \in 1..k}
           K == {k \in Nat : k <= n => Ordered(FlattenSeq(SubSeq(C, 1, k)), First(k))}
<1>1. n \in Nat
  BY LenProperties
<1>2. 0 \in K
  <2>1. SubSeq(C, 1, 0) = <<>>
    BY SubSeqEmpty
  <2>2. First(0) = {}
    OBVIOUS
  <2> HIDE DEF First
  <2>3. Ordered(FlattenSeq(SubSeq(C, 1, 0)), First(0))
    BY <2>1, <2>2, FlattenEmpty, OrderedNothing
  <2>4. QED BY <2>3
<1>3. ASSUME NEW k \in Nat, k \in K PROVE k + 1 \in K
  <2> SUFFICES ASSUME k + 1 <= n PROVE Ordered(FlattenSeq(SubSeq(C, 1, k + 1)), First(k + 1))
    OBVIOUS
  <2>1. k + 1 \in 1..Len(C) /\ (k + 1) - 1 = k /\ k <= n
    BY <1>1
  <2>2. FlattenSeq(SubSeq(C, 1, k + 1)) = FlattenSeq(SubSeq(C, 1, (k + 1) - 1)) \o C[k + 1]
    BY <2>1, FlattenLast
  <2>3. Ordered(FlattenSeq(SubSeq(C, 1, k)), First(k))
    BY <1>3, <2>1
  <2>4. Ordered(C[k + 1], W[k + 1])
    BY <2>1
  <2>5. First(k + 1) = First(k) \cup W[k + 1]
    <3>1. 1..k + 1 = 1..k \cup {k + 1}
      OBVIOUS
    <3>2. QED BY <3>1, Zenon
  <2>6. ASSUME NEW w \in First(k), NEW v \in W[k + 1] PROVE Prefers(w, v)
    <3>1. PICK i \in 1..k : w \in W[i]
      OBVIOUS
    <3>2. i \in 1..Len(C) /\ i < k + 1
      BY <1>1, <2>1
    <3>3. QED BY <2>1, <3>1, <3>2
  <2> HIDE DEF First
  <2>7. Ordered(FlattenSeq(SubSeq(C, 1, k)) \o C[k + 1], First(k) \cup W[k + 1])
    BY <2>3, <2>4, <2>6, OrderedConcat
  <2>8. QED BY <2>1, <2>2, <2>5, <2>7
<1> HIDE DEF K
<1>4. Nat \subseteq K
  BY <1>2, <1>3, Induction
<1>5. Ordered(FlattenSeq(SubSeq(C, 1, n)), First(n))
  <2>1. n \in K
    BY <1>1, <1>4
  <2>2. QED BY <1>1, <2>1 DEF K
<1>6. SubSeq(C, 1, n) = C
  BY SubSeqFull
<1>7. QED BY <1>5, <1>6

-----------------------------------------------------------------------------
(* The ways in which routes fit a path that begin with a node, cut as pre.   *)
FitsAt(keys, cut, path, i) ==
  /\ cut[i - 1] < Len(path)
  /\ IF keys[i] = "**" THEN cut[i] >= cut[i - 1]
     ELSE /\ cut[i] = cut[i - 1] + 1
          /\ keys[i] \in {"*", path[cut[i]]}

LEMMA FitsIs ==
  ASSUME NEW keys, NEW path, NEW cut
  PROVE  cut \in TrieFitsWithin(keys, path) <=>
           /\ cut \in [0..Len(keys) -> 0..Len(path)] /\ cut[0] = 0 /\ cut[Len(keys)] = Len(path)
           /\ \A i \in 1..Len(keys) : FitsAt(keys, cut, path, i)
BY Zenon DEF TrieFits, TrieFitsWithin, FitsAt

Begins(node, pre, path) ==
  /\ node \in Seq(TrieKeys) /\ Len(node) \in Nat
  /\ pre \in [0..Len(node) -> 0..Len(path)] /\ pre[0] = 0
  /\ \A i \in 1..Len(node) : FitsAt(node, pre, path, i)

Agree(w, node, pre) ==
  /\ Len(node) <= Len(w.keys)
  /\ \A j \in 1..Len(node) : w.keys[j] = node[j]
  /\ \A j \in 0..Len(node) : w.cut[j] = pre[j]

LeafKeys == {route.keys : route \in trieHandlers}
AllWays(path) ==
  {w \in [keys : LeafKeys, cut : UNION {TrieFitsWithin(keys, path) : keys \in LeafKeys}] : w.cut \in TrieFitsWithin(w.keys, path)}
Ways(path, node, pre) == {w \in AllWays(path) : Agree(w, node, pre)}

CutOn(pre, n, c) == [j \in 0..n + 1 |-> IF j = n + 1 THEN c ELSE pre[j]]

LEMMA WayIs ==
  ASSUME TrieInv, NEW path, NEW w \in AllWays(path)
  PROVE  /\ w.keys \in LeafKeys /\ w.keys \in Seq(TrieKeys) /\ Len(w.keys) \in Nat
         /\ w.cut \in [0..Len(w.keys) -> 0..Len(path)] /\ w.cut[0] = 0 /\ w.cut[Len(w.keys)] = Len(path)
         /\ \A i \in 1..Len(w.keys) : FitsAt(w.keys, w.cut, path, i)
<1>1. w.keys \in LeafKeys /\ w.cut \in TrieFitsWithin(w.keys, path)
  BY DEF AllWays
<1>2. w.keys \in Seq(TrieKeys) /\ Len(w.keys) \in Nat
  BY <1>1, RouteKeys DEF LeafKeys, TrieInv
<1>3. QED BY <1>1, <1>2, FitsIs

(* Of a child. *)
Childs(path, node, pre, key, c, w) ==
  w \in Ways(path, Append(node, key), CutOn(pre, Len(node), c)) <=>
    /\ w \in Ways(path, node, pre) /\ Len(node) + 1 <= Len(w.keys)
    /\ w.keys[Len(node) + 1] = key /\ w.cut[Len(node) + 1] = c

LEMMA ChildWays ==
  ASSUME TrieInv, NEW path, NEW node \in Seq(TrieKeys), NEW pre, NEW key \in TrieKeys, NEW c, NEW w
  PROVE  Childs(path, node, pre, key, c, w)
<1> DEFINE n == Len(node)
           child == Append(node, key)
           post == CutOn(pre, n, c)
<1>1. n \in Nat
  BY LenProperties
<1>2. Len(child) = n + 1 /\ child[n + 1] = key /\ \A j \in 1..n : child[j] = node[j]
  BY AppendProperties, <1>1
<1>3. post[n + 1] = c /\ \A j \in 0..n : post[j] = pre[j]
  BY <1>1 DEF CutOn
<1> HIDE DEF child, post
<1> SUFFICES ASSUME w \in AllWays(path)
             PROVE  Agree(w, child, post) <=>
                      /\ Agree(w, node, pre) /\ n + 1 <= Len(w.keys)
                      /\ w.keys[n + 1] = key /\ w.cut[n + 1] = c
  BY DEF Childs, Ways, child, post
<1>4. Len(w.keys) \in Nat
  BY WayIs
<1>5. ASSUME Agree(w, child, post)
      PROVE  /\ Agree(w, node, pre) /\ n + 1 <= Len(w.keys)
             /\ w.keys[n + 1] = key /\ w.cut[n + 1] = c
  <2>1. /\ n + 1 <= Len(w.keys)
        /\ \A j \in 1..n + 1 : w.keys[j] = child[j]
        /\ \A j \in 0..n + 1 : w.cut[j] = post[j]
    BY <1>2, <1>5 DEF Agree
  <2>2. w.keys[n + 1] = key /\ w.cut[n + 1] = c
    BY <1>1, <1>2, <1>3, <2>1
  <2>3. n <= Len(w.keys)
    BY <1>1, <1>4, <2>1
  <2>4. \A j \in 1..n : w.keys[j] = node[j]
    BY <1>1, <1>2, <2>1
  <2>5. \A j \in 0..n : w.cut[j] = pre[j]
    BY <1>1, <1>3, <2>1
  <2>6. Agree(w, node, pre)
    BY <2>3, <2>4, <2>5 DEF Agree
  <2>7. QED BY <2>1, <2>2, <2>6
<1>6. ASSUME Agree(w, node, pre), n + 1 <= Len(w.keys), w.keys[n + 1] = key, w.cut[n + 1] = c
      PROVE  Agree(w, child, post)
  <2>1. (\A j \in 1..n : w.keys[j] = node[j]) /\ \A j \in 0..n : w.cut[j] = pre[j]
    BY <1>6 DEF Agree
  <2>2. \A j \in 0..n + 1 : j = n + 1 \/ j \in 0..n
    BY <1>1
  <2>3. \A j \in 1..n + 1 : j = n + 1 \/ j \in 1..n
    BY <1>1
  <2>4. \A j \in 1..n + 1 : w.keys[j] = child[j]
    BY <1>2, <1>6, <2>1, <2>3
  <2>5. \A j \in 0..n + 1 : w.cut[j] = post[j]
    BY <1>3, <1>6, <2>1, <2>2
  <2>6. QED BY <1>2, <1>6, <2>4, <2>5 DEF Agree
<1>7. QED BY <1>5, <1>6

(* A node for which no route goes on has none. *)
LEMMA NoWays ==
  ASSUME TrieInv, NEW path, NEW node \in Seq(TrieKeys), node \notin trieNodes, NEW pre
  PROVE  Ways(path, node, pre) = {}
<1> SUFFICES ASSUME NEW w \in Ways(path, node, pre) PROVE FALSE
  OBVIOUS
<1>1. w \in AllWays(path) /\ Agree(w, node, pre)
  BY DEF Ways
<1>2. PICK route \in trieHandlers : w.keys = route.keys
  BY <1>1, WayIs DEF LeafKeys
<1> DEFINE keys == route.keys
           n == Len(node)
           s == SubSeq(keys, 1, n)
<1>3. keys \in Seq(TrieKeys) /\ Len(keys) \in Nat /\ n \in Nat
  BY RouteKeys, LenProperties DEF TrieInv
<1>4. n <= Len(keys) /\ \A j \in 1..n : keys[j] = node[j]
  BY <1>1, <1>2 DEF Agree
<1>5. s \in trieNodes
  BY <1>3, <1>4 DEF TrieInv
<1>6. s \in Seq(TrieKeys) /\ Len(s) = n /\ \A i \in 1..n : s[i] = keys[i]
  BY <1>3, <1>4, Cut
<1> HIDE DEF s, keys
<1>7. s = node
  BY <1>3, <1>4, <1>6, SeqEqual
<1>8. QED BY <1>5, <1>7

(* Which of two ways that part behind a node is preferred. *)
LEMMA PartingWays ==
  ASSUME NEW node, NEW pre, NEW w, NEW v, Agree(w, node, pre), Agree(v, node, pre),
         Len(node) \in Nat, Len(w.keys) \in Nat, Len(v.keys) \in Nat,
         w.keys \in Seq(TrieKeys), v.keys \in Seq(TrieKeys), \A j \in 0..Len(node) : pre[j] \in Nat,
         \/ TrieRank(w.keys[Len(node) + 1]) < TrieRank(v.keys[Len(node) + 1])
         \/ /\ w.keys[Len(node) + 1] = v.keys[Len(node) + 1]
            /\ w.cut[Len(node) + 1] < v.cut[Len(node) + 1]
            /\ w.cut[Len(node) + 1] \in Nat /\ v.cut[Len(node) + 1] \in Nat
  PROVE  Prefers(w, v)
<1> DEFINE n == Len(node)
           ka == w.keys
           kb == v.keys
           ca == w.cut
           cb == v.cut
<1>1. (\A j \in 1..n : ka[j] = kb[j]) /\ \A j \in 0..n : ca[j] = cb[j]
  BY DEF Agree
<1>2. DOMAIN ka = 1..Len(ka) /\ DOMAIN kb = 1..Len(kb)
  BY LenProperties
<1>3. \/ TrieRank(ka[n + 1]) < TrieRank(kb[n + 1])
      \/ (ka[n + 1] = kb[n + 1] /\ ca[n + 1] < cb[n + 1] /\ ca[n + 1] \in Nat /\ cb[n + 1] \in Nat)
  BY Zenon
<1>4. \A key : TrieRank(key) \in {1, 2, 3}
  BY DEF TrieRank
<1>5. ka[n + 1] = kb[n + 1] => ca[n + 1] # cb[n + 1] /\ ca[n + 1] <= cb[n + 1]
  <2>1. ka[n + 1] = kb[n + 1] => ~(TrieRank(ka[n + 1]) < TrieRank(kb[n + 1]))
    BY <1>4
  <2>2. ASSUME ca[n + 1] < cb[n + 1], ca[n + 1] \in Nat, cb[n + 1] \in Nat
        PROVE  ca[n + 1] # cb[n + 1] /\ ca[n + 1] <= cb[n + 1]
    BY <2>2
  <2>3. QED BY <1>3, <2>1, <2>2
<1>6. n \in Nat /\ Len(ka) \in Nat /\ \A j \in 0..n : ca[j] <= cb[j]
  <2>1. \A j \in 0..n : ca[j] = pre[j] /\ cb[j] = pre[j] /\ pre[j] \in Nat
    BY DEF Agree
  <2> HIDE DEF n, ca, cb
  <2>2. \A j \in 0..n : ca[j] <= cb[j]
    BY <2>1
  <2>3. QED BY <2>2 DEF n
<1> HIDE DEF n, ka, kb, ca, cb
<1>7. ASSUME NEW i \in DOMAIN ka \cap DOMAIN kb,
             \A j \in 1..i - 1 : ka[j] = kb[j] /\ ca[j] = cb[j]
      PROVE  \/ TrieRank(ka[i]) < TrieRank(kb[i])
             \/ TrieRank(ka[i]) = TrieRank(kb[i]) /\ ca[i] <= cb[i]
  <2>1. i \in 1..Len(ka)
    BY <1>2
  <2>2. CASE i <= n
    <3>1. i \in 1..n /\ i \in 0..n
      BY <1>6, <2>1, <2>2
    <3>2. QED BY <1>1, <1>6, <3>1, Zenon
  <2>3. CASE i = n + 1
    BY <1>3, <1>5, <2>3
  <2>4. CASE i > n + 1
    <3>1. n + 1 \in 1..i - 1
      BY <1>6, <2>1, <2>4
    <3>2. ka[n + 1] = kb[n + 1] /\ ca[n + 1] = cb[n + 1]
      BY <1>7, <3>1
    <3>3. QED BY <1>5, <3>2
  <2>5. QED BY <1>6, <2>1, <2>2, <2>3, <2>4
<1>8. TriePreferred(ka, ca, kb, cb)
  BY <1>7, Zenon DEF TriePreferred
<1>9. QED BY <1>8 DEF Prefers, ka, kb, ca, cb

-----------------------------------------------------------------------------
(* The ways that go on to a child with a cut. *)
Through(path, node, pre, key, c) ==
  {w \in Ways(path, node, pre) : /\ Len(node) + 1 <= Len(w.keys)
                                 /\ w.keys[Len(node) + 1] = key /\ w.cut[Len(node) + 1] = c}
Goes(path, i, key, c) ==
  IF key = "**" THEN c \in i..Len(path) ELSE c = i + 1 /\ key \in {"*", path[i + 1]}

LEMMA ThroughChild ==
  ASSUME TrieInv, NEW path, NEW node \in Seq(TrieKeys), NEW pre, NEW key \in TrieKeys, NEW c
  PROVE  Through(path, node, pre, key, c) = Ways(path, Append(node, key), CutOn(pre, Len(node), c))
<1>1. ASSUME NEW w PROVE w \in Ways(path, Append(node, key), CutOn(pre, Len(node), c)) <=> w \in Through(path, node, pre, key, c)
  <2>1. Childs(path, node, pre, key, c, w)
    BY ChildWays
  <2>2. QED BY <2>1 DEF Childs, Through
<1>2. QED BY <1>1

LEMMA ThroughPrefers ==
  ASSUME TrieInv, NEW path, Len(path) \in Nat, NEW node, NEW pre, Begins(node, pre, path),
         NEW key, NEW c \in Nat, NEW key2, NEW c2 \in Nat,
         \/ TrieRank(key) < TrieRank(key2)
         \/ key = key2 /\ c < c2,
         NEW w \in Through(path, node, pre, key, c), NEW v \in Through(path, node, pre, key2, c2)
  PROVE  Prefers(w, v)
<1>1. /\ w \in AllWays(path) /\ Agree(w, node, pre) /\ w.keys[Len(node) + 1] = key /\ w.cut[Len(node) + 1] = c
      /\ v \in AllWays(path) /\ Agree(v, node, pre) /\ v.keys[Len(node) + 1] = key2 /\ v.cut[Len(node) + 1] = c2
  BY DEF Through, Ways
<1>2. w.keys \in Seq(TrieKeys) /\ v.keys \in Seq(TrieKeys) /\ Len(w.keys) \in Nat /\ Len(v.keys) \in Nat
  BY <1>1, WayIs
<1>3. Len(node) \in Nat /\ \A j \in 0..Len(node) : pre[j] \in Nat
  BY DEF Begins
<1>4. \/ TrieRank(w.keys[Len(node) + 1]) < TrieRank(v.keys[Len(node) + 1])
      \/ /\ w.keys[Len(node) + 1] = v.keys[Len(node) + 1]
         /\ w.cut[Len(node) + 1] < v.cut[Len(node) + 1]
         /\ w.cut[Len(node) + 1] \in Nat /\ v.cut[Len(node) + 1] \in Nat
  BY <1>1
<1>5. QED BY <1>1, <1>2, <1>3, <1>4, PartingWays

LEMMA ChildBegins ==
  ASSUME NEW path, Len(path) \in Nat, NEW node, NEW pre, Begins(node, pre, path), pre[Len(node)] < Len(path),
         NEW key \in TrieKeys, NEW c, Goes(path, pre[Len(node)], key, c)
  PROVE  Begins(Append(node, key), CutOn(pre, Len(node), c), path)
<1> DEFINE n == Len(node)
           child == Append(node, key)
           post == CutOn(pre, n, c)
           i == pre[n]
<1>1. n \in Nat /\ node \in Seq(TrieKeys) /\ i \in 0..Len(path) /\ i < Len(path)
      /\ pre \in [0..n -> 0..Len(path)] /\ pre[0] = 0 /\ \A j \in 1..n : FitsAt(node, pre, path, j)
  BY DEF Begins
<1>2. child \in Seq(TrieKeys) /\ Len(child) = n + 1 /\ child[n + 1] = key /\ \A j \in 1..n : child[j] = node[j]
  BY AppendProperties, <1>1
<1>3. c \in 0..Len(path)
  BY <1>1 DEF Goes
<1>4. post \in [0..n + 1 -> 0..Len(path)]
  <2>1. ASSUME NEW j \in 0..n + 1, j # n + 1 PROVE pre[j] \in 0..Len(path)
    <3>1. j \in 0..n
      BY <1>1, <2>1
    <3>2. QED BY <1>1, <3>1
  <2>2. QED BY <1>3, <2>1 DEF CutOn
<1>5. post[n + 1] = c /\ \A j \in 0..n : post[j] = pre[j]
  BY <1>1 DEF CutOn
<1> HIDE DEF child, post, i, n
<1>6. ASSUME NEW j \in 1..n + 1 PROVE FitsAt(child, post, path, j)
  <2>1. CASE j \in 1..n
    <3>1. child[j] = node[j] /\ post[j] = pre[j] /\ post[j - 1] = pre[j - 1] /\ FitsAt(node, pre, path, j)
      <4>1. j \in 0..n /\ j - 1 \in 0..n
        BY <1>1, <2>1
      <4>2. QED BY <1>1, <1>2, <1>5, <2>1, <4>1
    <3>2. QED BY <3>1 DEF FitsAt
  <2>2. CASE j = n + 1
    <3>1. j - 1 = n /\ n \in 0..n
      BY <1>1, <2>2
    <3>2. post[j - 1] = i /\ post[j] = c /\ child[j] = key
      BY <1>2, <1>5, <2>2, <3>1 DEF i, n
    <3>3. Goes(path, i, key, c)
      BY DEF i, n
    <3>4. CASE key = "**"
      <4>1. c >= i
        BY <1>1, <3>3, <3>4 DEF Goes
      <4>2. QED BY <1>1, <3>2, <3>4, <4>1 DEF FitsAt
    <3>5. CASE key # "**"
      <4>1. c = i + 1 /\ key \in {"*", path[c]}
        BY <3>3, <3>5 DEF Goes
      <4>2. QED BY <1>1, <3>2, <3>5, <4>1 DEF FitsAt
    <3>6. QED BY <3>4, <3>5
  <2>3. QED BY <1>1, <2>1, <2>2
<1>7. 0 \in 0..n
  BY <1>1
<1>8. post[0] = 0
  BY <1>1, <1>5, <1>7
<1>9. Begins(child, post, path)
  BY <1>1, <1>2, <1>4, <1>6, <1>8 DEF Begins
<1>10. QED BY <1>9 DEF child, post, n

(* What the search gives for a node, however the path before it is cut. *)
Searched(search, path, node) ==
  \A pre : Begins(node, pre, path) => Ordered(search[node][pre[Len(node)]], Ways(path, node, pre))

LEMMA BelowOrdered ==
  ASSUME TrieInv, NEW path, Len(path) \in Nat, NEW node, NEW pre, Begins(node, pre, path), pre[Len(node)] < Len(path),
         NEW key \in TrieKeys, NEW c, Goes(path, pre[Len(node)], key, c), NEW search,
         Append(node, key) \in trieNodes => Searched(search, path, Append(node, key))
  PROVE  Ordered(TrieBelow(search, Append(node, key), c), Through(path, node, pre, key, c))
<1> DEFINE n == Len(node)
           child == Append(node, key)
           post == CutOn(pre, n, c)
<1>1. n \in Nat /\ node \in Seq(TrieKeys)
  BY DEF Begins
<1>2. child \in Seq(TrieKeys) /\ Len(child) = n + 1
  BY AppendProperties, <1>1
<1>3. post[n + 1] = c
  BY <1>1 DEF CutOn
<1>4. Begins(child, post, path)
  BY ChildBegins
<1>5. Through(path, node, pre, key, c) = Ways(path, child, post)
  BY <1>1, ThroughChild
<1> HIDE DEF child, post, n
<1>6. CASE child \in trieNodes
  <2>1. Searched(search, path, child)
    BY <1>6 DEF child
  <2>2. Ordered(search[child][post[Len(child)]], Ways(path, child, post))
    BY <1>4, <2>1 DEF Searched
  <2>3. TrieBelow(search, child, c) = search[child][post[Len(child)]]
    BY <1>2, <1>3, <1>6 DEF TrieBelow
  <2>4. QED BY <1>5, <2>2, <2>3 DEF child
<1>7. CASE child \notin trieNodes
  <2>1. Ways(path, child, post) = {}
    BY <1>2, <1>7, NoWays
  <2>2. TrieBelow(search, child, c) = <<>>
    BY <1>7 DEF TrieBelow
  <2>3. QED BY <1>5, <2>1, <2>2, OrderedNothing DEF child
<1>8. QED BY <1>6, <1>7

-----------------------------------------------------------------------------
(* The end of the path. *)
LEMMA EndOrdered ==
  ASSUME TrieInv, NEW path, Len(path) \in Nat, NEW node, NEW pre, Begins(node, pre, path), pre[Len(node)] = Len(path)
  PROVE  Ordered(IF TrieLeaf(node) THEN <<node>> ELSE <<>>, Ways(path, node, pre))
<1> DEFINE n == Len(node)
           r == [keys |-> node, cut |-> pre]
           W == Ways(path, node, pre)
<1>1. n \in Nat /\ node \in Seq(TrieKeys) /\ pre \in [0..n -> 0..Len(path)] /\ pre[0] = 0 /\ pre[n] = Len(path)
      /\ \A j \in 1..n : FitsAt(node, pre, path, j)
  BY DEF Begins
<1>2. ASSUME NEW w \in W PROVE w = r /\ TrieLeaf(node)
  <2>1. w \in AllWays(path) /\ Agree(w, node, pre)
    BY DEF Ways
  <2>2. /\ w.keys \in LeafKeys /\ w.keys \in Seq(TrieKeys) /\ Len(w.keys) \in Nat
        /\ w.cut \in [0..Len(w.keys) -> 0..Len(path)] /\ w.cut[Len(w.keys)] = Len(path)
        /\ \A i \in 1..Len(w.keys) : FitsAt(w.keys, w.cut, path, i)
    BY <2>1, WayIs
  <2>3. n <= Len(w.keys) /\ (\A j \in 1..n : w.keys[j] = node[j]) /\ \A j \in 0..n : w.cut[j] = pre[j]
    BY <2>1 DEF Agree
  <2>4. ~(n < Len(w.keys))
    <3> SUFFICES ASSUME n < Len(w.keys) PROVE FALSE
      OBVIOUS
    <3>1. n + 1 \in 1..Len(w.keys) /\ (n + 1) - 1 = n /\ n \in 0..n
      BY <1>1, <2>2
    <3> HIDE DEF n
    <3>2. FitsAt(w.keys, w.cut, path, n + 1)
      BY <2>2, <3>1
    <3>3. w.cut[(n + 1) - 1] < Len(path)
      BY <3>2 DEF FitsAt
    <3>4. w.cut[n] = Len(path)
      BY <1>1, <2>3, <3>1
    <3>5. QED BY <3>1, <3>3, <3>4
  <2>5. Len(w.keys) = n
    BY <1>1, <2>2, <2>3, <2>4
  <2>6. w.keys = node
    BY <1>1, <2>2, <2>3, <2>5, SeqEqual
  <2>7. w.cut = pre
    BY <1>1, <2>2, <2>3, <2>5
  <2>8. w = [keys |-> w.keys, cut |-> w.cut]
    BY <2>1 DEF AllWays
  <2>9. TrieLeaf(node)
    BY <2>2, <2>6 DEF LeafKeys, TrieLeaf
  <2>10. QED BY <2>6, <2>7, <2>8, <2>9
<1>3. CASE TrieLeaf(node)
  <2>1. node \in LeafKeys
    BY <1>3 DEF TrieLeaf, LeafKeys
  <2>2. pre \in TrieFitsWithin(node, path)
    BY <1>1, FitsIs
  <2>3. r \in AllWays(path)
    BY <2>1, <2>2 DEF AllWays
  <2>4. Agree(r, node, pre)
    BY <1>1 DEF Agree
  <2>5. W = {r}
    BY <1>2, <2>3, <2>4 DEF Ways
  <2> HIDE DEF W
  <2>6. Prefers(r, r)
    <3>1. DOMAIN node = 1..n
      BY <1>1, LenProperties
    <3>2. \A i \in DOMAIN node : TrieRank(node[i]) = TrieRank(node[i]) /\ pre[i] <= pre[i]
      <4> TAKE i \in DOMAIN node
      <4>1. pre[i] \in Nat
        BY <1>1, <3>1
      <4>2. QED BY <4>1
    <3>3. TriePreferred(node, pre, node, pre)
      BY <3>2 DEF TriePreferred
    <3>4. QED BY <3>3 DEF Prefers
  <2>7. r.keys = node
    OBVIOUS
  <2> HIDE DEF r
  <2> DEFINE ws == <<r>>
             m == <<node>>
  <2>8. ws \in Seq(W) /\ Len(ws) = 1 /\ ws[1] = r
    BY <2>5
  <2>9. m \in Seq(Seq(TrieKeys)) /\ Len(m) = 1 /\ m[1] = node
    BY <1>1
  <2> HIDE DEF ws, m
  <2>10. \A k \in 1..1 : k = 1
    OBVIOUS
  <2>11. \A w \in W : \E k \in 1..Len(m) : m[k] = w.keys /\ \A l \in 1..k : Prefers(ws[l], w)
    BY <2>5, <2>6, <2>7, <2>8, <2>9, <2>10
  <2>12. OrderedBy(m, W, ws)
    BY <2>7, <2>8, <2>9, <2>10, <2>11 DEF OrderedBy
  <2>13. QED BY <1>3, <2>12 DEF Ordered, m, W
<1>4. CASE ~TrieLeaf(node)
  <2>1. W = {}
    BY <1>2, <1>4
  <2>2. QED BY <1>4, <2>1, OrderedNothing
<1>5. QED BY <1>3, <1>4

(* Every way goes on to the static child, the parameter or the wildcard. *)
Wilds(path, node, pre, i) ==
  [n \in 1..Len(path) - i + 1 |-> Through(path, node, pre, "**", i + n - 1)]

LEMMA WaysGoOn ==
  ASSUME TrieInv, NEW path, Len(path) \in Nat, NEW node, NEW pre, Begins(node, pre, path), NEW i \in 0..Len(path),
         pre[Len(node)] = i, i < Len(path)
  PROVE  Ways(path, node, pre) =
           (Through(path, node, pre, path[i + 1], i + 1) \cup Through(path, node, pre, "*", i + 1))
             \cup UNION {Wilds(path, node, pre, i)[n] : n \in 1..Len(path) - i + 1}
<1> DEFINE A == Through(path, node, pre, path[i + 1], i + 1)
           B == Through(path, node, pre, "*", i + 1)
           C == UNION {Wilds(path, node, pre, i)[n] : n \in 1..Len(path) - i + 1}
           d == Len(node)
<1>1. A \subseteq Ways(path, node, pre) /\ B \subseteq Ways(path, node, pre)
  BY DEF Through
<1>2. C \subseteq Ways(path, node, pre)
  <2>1. \A n \in 1..Len(path) - i + 1 : Wilds(path, node, pre, i)[n] \subseteq Ways(path, node, pre)
    BY DEF Wilds, Through
  <2>2. QED BY <2>1
<1>3. ASSUME NEW w \in Ways(path, node, pre) PROVE w \in A \/ w \in B \/ w \in C
  <2>1. w \in AllWays(path) /\ Agree(w, node, pre) /\ d \in Nat
    BY DEF Ways, Begins
  <2>2. /\ w.keys \in Seq(TrieKeys) /\ Len(w.keys) \in Nat
        /\ w.cut \in [0..Len(w.keys) -> 0..Len(path)] /\ w.cut[Len(w.keys)] = Len(path)
        /\ \A k \in 1..Len(w.keys) : FitsAt(w.keys, w.cut, path, k)
    BY <2>1, WayIs
  <2>3. d <= Len(w.keys) /\ w.cut[d] = i
    <3>1. d \in 0..d
      BY <2>1
    <3>2. QED BY <2>1, <3>1 DEF Agree
  <2>4. d # Len(w.keys)
    BY <2>2, <2>3
  <2> HIDE DEF d
  <2>5. d + 1 \in 1..Len(w.keys) /\ d + 1 \in 0..Len(w.keys) /\ (d + 1) - 1 = d /\ d + 1 <= Len(w.keys)
    BY <2>1, <2>2, <2>3, <2>4
  <2>6. FitsAt(w.keys, w.cut, path, d + 1) /\ w.cut[d + 1] \in 0..Len(path)
    BY <2>2, <2>5
  <2> DEFINE key == w.keys[d + 1]
             c == w.cut[d + 1]
  <2>7. IF key = "**" THEN c >= i ELSE c = i + 1 /\ key \in {"*", path[c]}
    BY <2>3, <2>5, <2>6 DEF FitsAt
  <2>8. w \in Through(path, node, pre, key, c)
    BY <2>5 DEF Through, d
  <2>9. c \in 0..Len(path)
    BY <2>6
  <2> HIDE DEF key, c
  <2>10. CASE key = "**"
    <3> DEFINE n == c - i + 1
    <3>1. n \in 1..Len(path) - i + 1 /\ i + n - 1 = c
      BY <2>7, <2>9, <2>10
    <3> HIDE DEF n
    <3>2. Wilds(path, node, pre, i)[n] = Through(path, node, pre, "**", i + n - 1)
      BY <3>1 DEF Wilds
    <3>3. w \in Wilds(path, node, pre, i)[n]
      BY <2>8, <2>10, <3>1, <3>2
    <3>4. QED BY <3>1, <3>3
  <2>11. CASE key # "**"
    <3>1. c = i + 1 /\ (key = "*" \/ key = path[i + 1])
      BY <2>7, <2>11
    <3>2. QED BY <2>8, <3>1
  <2>12. QED BY <2>10, <2>11
<1> HIDE DEF A, B, C
<1>4. Ways(path, node, pre) = (A \cup B) \cup C
  BY <1>1, <1>2, <1>3
<1>5. QED BY <1>4 DEF A, B, C

(* One node, when the search is right for its children. *)
LEMMA StepOrdered ==
  ASSUME TrieInv, NEW path \in Seq(TrieSegments), NEW node, NEW pre, Begins(node, pre, path),
         NEW i \in 0..Len(path), pre[Len(node)] = i, i < Len(path), NEW search,
         \A key : Append(node, key) \in trieNodes => Searched(search, path, Append(node, key))
  PROVE  Ordered(TrieBelow(search, Append(node, path[i + 1]), i + 1)
                   \o TrieBelow(search, Append(node, "*"), i + 1)
                   \o FlattenSeq([n \in 1..Len(path) - i + 1 |-> TrieBelow(search, Append(node, "**"), i + n - 1)]),
                 Ways(path, node, pre))
<1> DEFINE key == path[i + 1]
           T(x, c) == Through(path, node, pre, x, c)
           W == Wilds(path, node, pre, i)
           a == TrieBelow(search, Append(node, key), i + 1)
           b == TrieBelow(search, Append(node, "*"), i + 1)
           C == [n \in 1..Len(path) - i + 1 |-> TrieBelow(search, Append(node, "**"), i + n - 1)]
           len == Len(path) - i + 1
<1>1. Len(path) \in Nat /\ i + 1 \in 1..Len(path) /\ i + 1 \in Nat /\ key \in TrieSegments
  <2>1. Len(path) \in Nat
    BY LenProperties
  <2>2. i + 1 \in 1..Len(path)
    BY <2>1
  <2>3. QED BY <2>1, <2>2, ElementOfSeq
<1>2. key \in TrieKeys /\ key # "**" /\ "*" \in TrieKeys /\ "**" \in TrieKeys /\ "*" # "**"
  BY <1>1, TrieAssumption DEF TrieKeys
<1>3. TrieRank("*") = 2 /\ TrieRank("**") = 3 /\ (key # "*" => TrieRank(key) = 1) /\ TrieRank(key) < 3
  <2>1. TrieRank("*") = 2 /\ TrieRank("**") = 3
    BY <1>2 DEF TrieRank
  <2>2. key # "*" => TrieRank(key) = 1
    BY <1>2 DEF TrieRank
  <2>3. QED BY <2>1, <2>2
<1> HIDE DEF key
<1>4. Ordered(a, T(key, i + 1))
  <2>1. Goes(path, i, key, i + 1)
    BY <1>2 DEF Goes, key
  <2>2. QED BY <1>1, <1>2, <2>1, BelowOrdered
<1>5. Ordered(b, T("*", i + 1))
  <2>1. Goes(path, i, "*", i + 1)
    BY <1>2 DEF Goes
  <2>2. QED BY <1>1, <1>2, <2>1, BelowOrdered
<1>6. len \in Nat /\ \A n \in 1..len : i + n - 1 \in i..Len(path) /\ i + n - 1 \in Nat
  BY <1>1
<1>7. \A n \in 1..len : C[n] = TrieBelow(search, Append(node, "**"), i + n - 1) /\ W[n] = T("**", i + n - 1)
  BY DEF Wilds
<1> HIDE DEF a, b, C, W, T, len
<1>8. ASSUME NEW n \in 1..len PROVE Ordered(C[n], W[n])
  <2> DEFINE c == i + n - 1
  <2>1. c \in i..Len(path)
    BY <1>6
  <2>2. C[n] = TrieBelow(search, Append(node, "**"), c) /\ W[n] = T("**", c)
    BY <1>7
  <2> HIDE DEF c
  <2>3. Goes(path, i, "**", c)
    BY <2>1 DEF Goes
  <2>4. Ordered(TrieBelow(search, Append(node, "**"), c), T("**", c))
    BY <1>1, <1>2, <2>3, BelowOrdered DEF T
  <2>5. QED BY <2>2, <2>4
<1>9. C \in Seq(Seq(Seq(TrieKeys))) /\ Len(C) = len
  <2>1. \A n \in 1..len : C[n] \in Seq(Seq(TrieKeys))
    BY <1>8 DEF Ordered, OrderedBy
  <2>2. C = [n \in 1..len |-> C[n]]
    BY Zenon DEF C, len
  <2>3. C \in [1..len -> Seq(Seq(TrieKeys))]
    BY <2>1, <2>2
  <2>4. QED BY <1>6, <2>3
<1>10. ASSUME NEW m \in 1..len, NEW n \in 1..len, m < n, NEW w \in W[m], NEW v \in W[n] PROVE Prefers(w, v)
  <2>1. w \in T("**", i + m - 1) /\ v \in T("**", i + n - 1)
    BY <1>7
  <2>2. i + m - 1 < i + n - 1 /\ i + m - 1 \in Nat /\ i + n - 1 \in Nat
    BY <1>6, <1>10
  <2>3. QED BY <1>1, <2>1, <2>2, ThroughPrefers DEF T
<1> DEFINE U == UNION {W[n] : n \in 1..len}
<1>11. Ordered(FlattenSeq(C), U)
  BY <1>8, <1>9, <1>10, OrderedFlatten
<1>12. Ordered(a \o b, T(key, i + 1) \cup T("*", i + 1))
  <2>1. ASSUME NEW w \in T(key, i + 1), NEW v \in T("*", i + 1) PROVE v \in T(key, i + 1) \/ Prefers(w, v)
    <3>1. CASE key = "*"
      BY <3>1
    <3>2. CASE key # "*"
      <4>1. TrieRank(key) < TrieRank("*")
        BY <1>3, <3>2
      <4>2. QED BY <1>1, <2>1, <4>1, ThroughPrefers DEF T
    <3>3. QED BY <3>1, <3>2
  <2>2. QED BY <1>4, <1>5, <2>1, OrderedConcat
<1>13. ASSUME NEW w \in T(key, i + 1) \cup T("*", i + 1), NEW v \in U PROVE Prefers(w, v)
  <2>1. PICK n \in 1..len : v \in W[n]
    OBVIOUS
  <2>2. v \in T("**", i + n - 1) /\ i + n - 1 \in Nat
    BY <1>6, <1>7, <2>1
  <2>3. TrieRank(key) < TrieRank("**") /\ TrieRank("*") < TrieRank("**")
    BY <1>3
  <2>4. CASE w \in T(key, i + 1)
    BY <1>1, <2>2, <2>3, <2>4, ThroughPrefers DEF T
  <2>5. CASE w \in T("*", i + 1)
    BY <1>1, <2>2, <2>3, <2>5, ThroughPrefers DEF T
  <2>6. QED BY <2>4, <2>5
<1> HIDE DEF U
<1>14. Ordered((a \o b) \o FlattenSeq(C), (T(key, i + 1) \cup T("*", i + 1)) \cup U)
  BY <1>11, <1>12, <1>13, OrderedConcat
<1>15. Ways(path, node, pre) = (T(key, i + 1) \cup T("*", i + 1)) \cup U
  BY <1>1, WaysGoOn DEF T, U, W, len, key
<1>16. Ordered((a \o b) \o FlattenSeq(C), Ways(path, node, pre))
  BY <1>14, <1>15
<1>17. QED BY <1>16 DEF a, b, C, key

LEMMA NodeSearched ==
  ASSUME TrieInv, NEW path \in Seq(TrieSegments), NEW search, Searches(search, path), NEW node \in trieNodes,
         \A key : Append(node, key) \in trieNodes => Searched(search, path, Append(node, key))
  PROVE  Searched(search, path, node)
<1> SUFFICES ASSUME NEW pre, Begins(node, pre, path)
             PROVE  Ordered(search[node][pre[Len(node)]], Ways(path, node, pre))
  BY DEF Searched
<1> DEFINE i == pre[Len(node)]
           m == TrieBelow(search, Append(node, path[i + 1]), i + 1)
                  \o TrieBelow(search, Append(node, "*"), i + 1)
                  \o FlattenSeq([n \in 1..Len(path) - i + 1 |-> TrieBelow(search, Append(node, "**"), i + n - 1)])
<1>1. i \in 0..Len(path) /\ Len(path) \in Nat
  BY LenProperties DEF Begins
<1>2. search[node] = TrieFrom(search, node, path)
  <2> DEFINE g == [x \in trieNodes |-> TrieFrom(search, x, path)]
  <2>1. search = g
    BY Zenon DEF Searches
  <2>2. g[node] = TrieFrom(search, node, path)
    BY Zenon
  <2> HIDE DEF g
  <2>3. QED BY <2>1, <2>2, Zenon
<1>3. TrieFrom(search, node, path)[i] = IF i = Len(path) THEN (IF TrieLeaf(node) THEN <<node>> ELSE <<>>) ELSE m
  BY <1>1, Zenon DEF TrieFrom
<1>4. CASE i = Len(path)
  <2>1. Ordered(IF TrieLeaf(node) THEN <<node>> ELSE <<>>, Ways(path, node, pre))
    BY <1>1, <1>4, EndOrdered
  <2>2. QED BY <1>2, <1>3, <1>4, <2>1, Zenon
<1>5. CASE i # Len(path)
  <2>1. i < Len(path)
    BY <1>1, <1>5
  <2>2. Ordered(m, Ways(path, node, pre))
    BY <1>1, <2>1, StepOrdered
  <2> HIDE DEF m
  <2>3. QED BY <1>2, <1>3, <1>5, <2>2, Zenon
<1>6. QED BY <1>4, <1>5

(* From the longest nodes to the root. *)
LEMMA AllSearched ==
  ASSUME TrieInv, NEW path \in Seq(TrieSegments), NEW search, Searches(search, path)
  PROVE  \A node \in trieNodes : Searched(search, path, node)
<1>1. PICK m \in Nat : \A node \in trieNodes : node \in Seq(TrieKeys) /\ Len(node) <= m
  BY DEF TrieInv
<1>2. ASSUME NEW node \in trieNodes
      PROVE  /\ Len(node) \in Nat
             /\ \A key : Append(node, key) \in trieNodes => Len(Append(node, key)) = Len(node) + 1
  <2>1. node \in Seq(TrieKeys)
    BY <1>1
  <2>2. ASSUME NEW key, Append(node, key) \in trieNodes PROVE Len(Append(node, key)) = Len(node) + 1
    BY <2>1
  <2>3. QED BY <2>1, <2>2, LenProperties
<1> DEFINE Deep(d) == {node \in trieNodes : Len(node) + d > m}
           K == {d \in Nat : \A node \in Deep(d) : Searched(search, path, node)}
<1>3. 0 \in K
  <2>1. Deep(0) = {}
    BY <1>1, <1>2
  <2> HIDE DEF Deep
  <2>2. QED BY <2>1
<1>4. ASSUME NEW d \in Nat, d \in K PROVE d + 1 \in K
  <2>1. ASSUME NEW node \in Deep(d + 1) PROVE Searched(search, path, node)
    <3>1. node \in trieNodes
      OBVIOUS
    <3>2. ASSUME NEW key, Append(node, key) \in trieNodes PROVE Searched(search, path, Append(node, key))
      <4>1. Len(Append(node, key)) = Len(node) + 1 /\ Len(node) \in Nat /\ Len(node) + (d + 1) > m
        BY <1>2, <3>1, <3>2
      <4>2. Append(node, key) \in Deep(d)
        BY <3>2, <4>1
      <4> HIDE DEF Deep
      <4>3. QED BY <1>4, <4>2, Zenon
    <3>3. QED BY <3>1, <3>2, NodeSearched
  <2> HIDE DEF Deep
  <2>2. QED BY <2>1
<1> HIDE DEF K
<1>5. Nat \subseteq K
  BY <1>3, <1>4, Induction
<1>6. \A node \in Deep(m + 1) : Searched(search, path, node)
  <2>1. m + 1 \in K
    BY <1>5
  <2>2. QED BY <2>1 DEF K
<1>7. Deep(m + 1) = trieNodes
  BY <1>2
<1> HIDE DEF Deep
<1>8. QED BY <1>6, <1>7

LEMMA MatchesOrdered ==
  ASSUME TrieInv, NEW path \in Seq(TrieSegments)
  PROVE  Ordered(TrieMatches(path), AllWays(path))
<1> DEFINE pre == [j \in 0..0 |-> 0]
<1>1. PICK search : Searches(search, path) /\ TrieMatches(path) = search[<<>>][0]
  BY MatchesIs
<1>2. Searched(search, path, <<>>)
  BY <1>1, AllSearched DEF TrieInv
<1>3. Len(<<>>) = 0 /\ <<>> \in Seq(TrieKeys) /\ Len(path) \in Nat
  BY EmptySeq, LenProperties
<1>4. pre[0] = 0 /\ pre \in [0..0 -> 0..Len(path)]
  BY <1>3
<1> HIDE DEF pre
<1>5. Begins(<<>>, pre, path)
  BY <1>3, <1>4 DEF Begins
<1>6. Ordered(search[<<>>][0], Ways(path, <<>>, pre))
  BY <1>2, <1>3, <1>4, <1>5 DEF Searched
<1>7. ASSUME NEW w \in AllWays(path) PROVE Agree(w, <<>>, pre)
  <2>1. Len(w.keys) \in Nat /\ w.cut[0] = 0
    BY WayIs
  <2>2. QED BY <1>3, <1>4, <2>1 DEF Agree
<1>8. Ways(path, <<>>, pre) = AllWays(path)
  BY <1>7 DEF Ways
<1>9. QED BY <1>1, <1>6, <1>8

(* A request gets a handler exactly when a route fits within its path.       *)
FindsWithin(path, method) ==
  LET fitting == {route \in trieHandlers : route.method = method /\ TrieFitsWithin(route.keys, path) # {}}
      found   == TrieFound(path, method)
  IN IF fitting = {} THEN TrieFind(path, method) = {}
     ELSE /\ TrieFind(path, method) # {}
          /\ \E cut \in TrieFitsWithin(found, path) : \A other \in fitting :
               \A cut2 \in TrieFitsWithin(other.keys, path) : TriePreferred(found, cut, other.keys, cut2)

LEMMA TrieInvWithin ==
  ASSUME TrieInv, NEW path \in TriePaths, NEW method \in TrieMethods
  PROVE  FindsWithin(path, method)
<1> SUFFICES LET fitting == {route \in trieHandlers : route.method = method /\ TrieFitsWithin(route.keys, path) # {}}
                 found   == TrieFound(path, method)
             IN IF fitting = {} THEN TrieFind(path, method) = {}
                ELSE /\ TrieFind(path, method) # {}
                     /\ \E cut \in TrieFitsWithin(found, path) : \A other \in fitting :
                          \A cut2 \in TrieFitsWithin(other.keys, path) : TriePreferred(found, cut, other.keys, cut2)
  BY Zenon DEF FindsWithin
<1> DEFINE m == TrieMatches(path)
           W == AllWays(path)
           fitting == {route \in trieHandlers : route.method = method /\ TrieFitsWithin(route.keys, path) # {}}
           F == {i \in DOMAIN m : [keys |-> m[i], method |-> method] \in trieHandlers}
           f == CHOOSE i \in F : \A j \in F : i <= j
<1>1. path \in Seq(TrieSegments)
  <2>1. PICK n \in 0..TriePath : path \in [1..n -> TrieSegments]
    BY DEF TriePaths
  <2>2. n \in Nat
    BY TrieAssumption
  <2>3. QED BY <2>1, <2>2
<1>2. PICK ws : OrderedBy(m, W, ws)
  BY <1>1, MatchesOrdered DEF Ordered
<1>3. F = TrieFind(path, method)
  BY Zenon DEF TrieFind
<1>4. TrieFound(path, method) = m[f]
  <2>1. TrieFound(path, method) = TrieMatches(path)[CHOOSE i \in TrieFind(path, method) : \A j \in TrieFind(path, method) : i <= j]
    BY Zenon DEF TrieFound
  <2> HIDE DEF F
  <2>2. QED BY <1>3, <2>1, Zenon
<1>5. m \in Seq(Seq(TrieKeys)) /\ ws \in Seq(W) /\ Len(ws) = Len(m) /\ Len(m) \in Nat /\ DOMAIN m = 1..Len(m)
      /\ \A k \in 1..Len(m) : m[k] = ws[k].keys
  BY <1>2, LenProperties DEF OrderedBy
<1>6. \A w \in W : \E k \in 1..Len(m) : m[k] = w.keys /\ \A l \in 1..k : Prefers(ws[l], w)
  BY <1>2 DEF OrderedBy
<1> HIDE DEF m
(* A match with the method comes from a fitting route. *)
<1>7. ASSUME NEW i \in F
      PROVE  /\ i \in 1..Len(m) /\ fitting # {}
             /\ ws[i] \in W /\ ws[i].keys = m[i] /\ ws[i].cut \in TrieFitsWithin(m[i], path)
  <2>1. i \in 1..Len(m) /\ [keys |-> m[i], method |-> method] \in trieHandlers
    BY <1>5
  <2>2. ws[i] \in W /\ ws[i].keys = m[i]
    BY <1>5, <2>1, ElementOfSeq
  <2>3. ws[i].cut \in TrieFitsWithin(m[i], path)
    BY <2>2 DEF AllWays
  <2> DEFINE r == [keys |-> m[i], method |-> method]
  <2>4. r.keys = m[i] /\ r.method = method /\ r \in trieHandlers
    BY <2>1
  <2> HIDE DEF r
  <2>5. r \in fitting
    BY <2>3, <2>4
  <2>6. QED BY <2>1, <2>2, <2>3, <2>5
(* A fitting route is found, and nothing before it that it is preferred to. *)
<1>8. ASSUME NEW route \in fitting, NEW cut \in TrieFitsWithin(route.keys, path)
      PROVE  \E k \in F : \A l \in 1..k : TriePreferred(ws[l].keys, ws[l].cut, route.keys, cut)
  <2> DEFINE w == [keys |-> route.keys, cut |-> cut]
  <2>1. route \in trieHandlers /\ route.method = method /\ route \in [keys : Seq(TrieKeys), method : TrieMethods]
    BY TrieAssumption DEF TrieInv
  <2>2. w \in W /\ w.keys = route.keys /\ w.cut = cut
    BY <2>1 DEF AllWays, LeafKeys
  <2> HIDE DEF w, W
  <2>3. PICK k \in 1..Len(m) : m[k] = w.keys /\ \A l \in 1..k : Prefers(ws[l], w)
    BY <1>6, <2>2
  <2>4. [keys |-> m[k], method |-> method] = route
    BY <2>1, <2>2, <2>3
  <2>5. k \in F
    BY <1>5, <2>1, <2>4
  <2>6. QED BY <2>2, <2>3, <2>5 DEF Prefers
<1> HIDE DEF W
<1>9. CASE fitting = {}
  <2>1. F = {}
    BY <1>7, <1>9
  <2> HIDE DEF F, f
  <2>2. TrieFind(path, method) = {}
    BY <1>3, <2>1
  <2>3. QED BY <1>9, <2>2
<1>10. CASE fitting # {}
  <2>1. F # {}
    <3>1. PICK route \in fitting : TrieFitsWithin(route.keys, path) # {}
      BY <1>10
    <3>2. PICK cut \in TrieFitsWithin(route.keys, path) : TRUE
      BY <3>1
    <3> HIDE DEF F, fitting
    <3>3. QED BY <1>8, <3>1, <3>2
  <2>2. F \subseteq Nat
    BY <1>7
  <2> HIDE DEF F, fitting
  <2>3. f \in F /\ \A j \in F : f <= j
    <3>1. \E x \in F : \A y \in F : x <= y
      BY <2>1, <2>2, Least
    <3>2. QED BY <3>1, Zenon
  <2> HIDE DEF f
  <2>4. f \in 1..Len(m) /\ ws[f].keys = m[f] /\ ws[f].cut \in TrieFitsWithin(m[f], path)
    BY <1>7, <2>3
  <2>5. ASSUME NEW other \in fitting, NEW cut2 \in TrieFitsWithin(other.keys, path)
        PROVE  TriePreferred(m[f], ws[f].cut, other.keys, cut2)
    <3>1. PICK k \in F : \A l \in 1..k : TriePreferred(ws[l].keys, ws[l].cut, other.keys, cut2)
      BY <1>8
    <3>2. f \in 1..k
      BY <2>2, <2>3, <2>4
    <3>3. QED BY <2>4, <3>1, <3>2
  <2>6. \E cut \in TrieFitsWithin(m[f], path) : \A other \in fitting :
          \A cut2 \in TrieFitsWithin(other.keys, path) : TriePreferred(m[f], cut, other.keys, cut2)
    BY <2>4, <2>5
  <2>7. QED BY <1>3, <1>4, <1>10, <2>1, <2>6, Zenon DEF fitting
<1>11. QED BY <1>9, <1>10

LEMMA TrieInvFinds == TrieInv => TrieFinds
<1> SUFFICES ASSUME TrieInv, NEW path \in TriePaths, NEW method \in TrieMethods
             PROVE  LET others == {route \in trieHandlers : route.method = method}
                        found  == TrieFound(path, method)
                    IN IF TrieFind(path, method) = {}
                       THEN \A route \in others : TrieFitsWithin(route.keys, path) = {}
                       ELSE \E cut \in TrieFits(found, path) : \A other \in others :
                              \A cut2 \in TrieFitsWithin(other.keys, path) :
                                TriePreferred(found, cut, other.keys, cut2)
  BY Zenon DEF TrieFinds
<1> DEFINE fitting == {route \in trieHandlers : route.method = method /\ TrieFitsWithin(route.keys, path) # {}}
           found   == TrieFound(path, method)
<1>1. IF fitting = {} THEN TrieFind(path, method) = {}
      ELSE /\ TrieFind(path, method) # {}
           /\ \E cut \in TrieFitsWithin(found, path) : \A other \in fitting :
                \A cut2 \in TrieFitsWithin(other.keys, path) : TriePreferred(found, cut, other.keys, cut2)
  BY TrieInvWithin, Zenon DEF FindsWithin
<1>2. CASE TrieFind(path, method) = {}
  <2>1. fitting = {}
    BY <1>1, <1>2, Zenon
  <2>2. ASSUME NEW route \in trieHandlers, route.method = method PROVE TrieFitsWithin(route.keys, path) = {}
    BY <2>1, <2>2, Zenon
  <2>3. QED BY <1>2, <2>2, Zenon
<1>3. CASE TrieFind(path, method) # {}
  <2>1. PICK cut \in TrieFitsWithin(found, path) : \A other \in fitting :
          \A cut2 \in TrieFitsWithin(other.keys, path) : TriePreferred(found, cut, other.keys, cut2)
    BY <1>1, <1>3, Zenon
  <2>2. cut \in TrieFits(found, path)
    BY Zenon DEF TrieFitsWithin
  <2>3. ASSUME NEW other \in trieHandlers, other.method = method,
               NEW cut2 \in TrieFitsWithin(other.keys, path)
        PROVE  TriePreferred(found, cut, other.keys, cut2)
    <3>1. other \in fitting
      BY <2>3, Zenon
    <3>2. QED BY <2>1, <2>3, <3>1, Zenon
  <2>4. QED BY <1>3, <2>2, <2>3, Zenon
<1>4. QED BY <1>2, <1>3, Zenon

(* Whatever routes are added and in whatever order, findRoute answers a path *)
(* and a method if a route of that method fits within the path, only if one  *)
(* fits it, and with the route and the way that no other one goes before     *)
(* (RouterTrie.cpp:22-129).                                                  *)
THEOREM TrieFindsAlways == TrieSpec => []TrieFinds
<1>1. TrieInv /\ [\E route \in TrieRoutes : TrieAdd(route)]_trieVars => TrieInv'
  <2> SUFFICES ASSUME TrieInv, [\E route \in TrieRoutes : TrieAdd(route)]_trieVars PROVE TrieInv'
    OBVIOUS
  <2>1. CASE \E route \in TrieRoutes : TrieAdd(route)
    BY <2>1, TrieAddInv
  <2>2. CASE UNCHANGED trieVars
    BY <2>2 DEF trieVars, TrieInv
  <2>3. QED BY <2>1, <2>2
<1>2. QED BY <1>1, TrieInitInv, TrieInvFinds, PTL DEF TrieSpec

-----------------------------------------------------------------------------
(* The states of a loop: the function QueryLoop is defined by exists, and    *)
(* there is one.                                                             *)
Loops(f, step, first, n) ==
  f = [k \in 0..n |-> IF k = 0 THEN first ELSE step[f[k - 1]]]

LEMMA LoopAt ==
  ASSUME NEW f, NEW step, NEW first, NEW n, Loops(f, step, first, n), NEW k \in 0..n
  PROVE  f[k] = IF k = 0 THEN first ELSE step[f[k - 1]]
<1> DEFINE g == [j \in 0..n |-> IF j = 0 THEN first ELSE step[f[j - 1]]]
<1>1. f = g
  BY DEF Loops
<1>2. g[k] = IF k = 0 THEN first ELSE step[f[k - 1]]
  OBVIOUS
<1> HIDE DEF g
<1>3. QED BY <1>1, <1>2

(* One more state. *)
LEMMA LoopLonger ==
  ASSUME NEW f, NEW step, NEW first, NEW n \in Nat, Loops(f, step, first, n)
  PROVE  \E g : Loops(g, step, first, n + 1) /\ g[n] = f[n]
<1> DEFINE g == [k \in 0..n + 1 |-> IF k = 0 THEN first ELSE step[f[k - 1]]]
           h == [k \in 0..n + 1 |-> IF k = 0 THEN first ELSE step[g[k - 1]]]
<1>1. ASSUME NEW k \in 0..n PROVE g[k] = f[k]
  <2>1. k \in 0..n + 1
    OBVIOUS
  <2>2. g[k] = IF k = 0 THEN first ELSE step[f[k - 1]]
    BY <2>1
  <2>3. f[k] = IF k = 0 THEN first ELSE step[f[k - 1]]
    BY LoopAt
  <2>4. QED BY <2>2, <2>3, Zenon
<1>2. ASSUME NEW k \in 0..n + 1 PROVE g[k] = h[k]
  <2>1. CASE k = 0
    BY <2>1
  <2>2. CASE k # 0
    <3>1. k - 1 \in 0..n
      BY <2>2
    <3>2. g[k - 1] = f[k - 1]
      BY <3>1, <1>1
    <3>3. g[k] = step[f[k - 1]] /\ h[k] = step[g[k - 1]]
      BY <2>2
    <3>4. QED BY <3>2, <3>3, Zenon
  <2>3. QED BY <2>1, <2>2
<1>3. g = h
  BY <1>2
<1>4. Loops(g, step, first, n + 1)
  BY <1>3, Zenon DEF Loops
<1>5. n \in 0..n
  OBVIOUS
<1>6. QED BY <1>1, <1>4, <1>5

LEMMA LoopExists == ASSUME NEW step, NEW first, NEW n \in Nat PROVE \E f : Loops(f, step, first, n)
<1> DEFINE S == {k \in Nat : \E f : Loops(f, step, first, k)}
<1>1. 0 \in S
  <2> DEFINE f == [k \in 0..0 |-> first]
             h == [k \in 0..0 |-> IF k = 0 THEN first ELSE step[f[k - 1]]]
  <2>1. f = h
    OBVIOUS
  <2>2. Loops(f, step, first, 0)
    BY <2>1, Zenon DEF Loops
  <2>3. QED BY <2>2
<1>2. ASSUME NEW k \in Nat, k \in S PROVE k + 1 \in S
  <2>1. PICK f : Loops(f, step, first, k)
    BY <1>2
  <2>2. \E g : Loops(g, step, first, k + 1)
    BY <2>1, LoopLonger
  <2>3. QED BY <2>2
<1> HIDE DEF S
<1>3. Nat \subseteq S
  BY <1>1, <1>2, Induction
<1>4. QED BY <1>3 DEF S

LEMMA LoopAgree ==
  ASSUME NEW f, NEW g, NEW step, NEW first, NEW n \in Nat, Loops(f, step, first, n), Loops(g, step, first, n)
  PROVE  f[n] = g[n]
<1> DEFINE S == {k \in Nat : k <= n => f[k] = g[k]}
<1>1. 0 \in S
  <2>1. 0 \in 0..n
    OBVIOUS
  <2>2. f[0] = IF 0 = 0 THEN first ELSE step[f[0 - 1]]
    BY <2>1, LoopAt
  <2>3. g[0] = IF 0 = 0 THEN first ELSE step[g[0 - 1]]
    BY <2>1, LoopAt
  <2>4. QED BY <2>2, <2>3
<1>2. ASSUME NEW k \in Nat, k \in S PROVE k + 1 \in S
  <2> SUFFICES ASSUME k + 1 <= n PROVE f[k + 1] = g[k + 1]
    OBVIOUS
  <2>1. k + 1 \in 0..n /\ k + 1 # 0 /\ k + 1 - 1 = k /\ f[k] = g[k]
    BY <1>2
  <2>2. f[k + 1] = IF k + 1 = 0 THEN first ELSE step[f[k + 1 - 1]]
    BY <2>1, LoopAt
  <2>3. g[k + 1] = IF k + 1 = 0 THEN first ELSE step[g[k + 1 - 1]]
    BY <2>1, LoopAt
  <2>4. QED BY <2>1, <2>2, <2>3
<1> HIDE DEF S
<1>3. Nat \subseteq S
  BY <1>1, <1>2, Induction
<1>4. QED BY <1>3 DEF S

LEMMA LoopIs ==
  ASSUME NEW f, NEW step, NEW first, NEW n \in Nat, Loops(f, step, first, n)
  PROVE  QueryLoop(step, first, n) = f[n]
<1> DEFINE g == CHOOSE h : h = [k \in 0..n |-> IF k = 0 THEN first ELSE step[h[k - 1]]]
<1>1. QueryLoop(step, first, n) = g[n]
  BY Zenon DEF QueryLoop
<1>2. Loops(g, step, first, n)
  <2>1. \E h : h = [k \in 0..n |-> IF k = 0 THEN first ELSE step[h[k - 1]]]
    BY Zenon DEF Loops
  <2>2. g = [k \in 0..n |-> IF k = 0 THEN first ELSE step[g[k - 1]]]
    BY Zenon, <2>1
  <2>3. QED BY Zenon, <2>2 DEF Loops
<1> HIDE DEF g
<1>3. QED BY <1>1, <1>2, LoopAgree

LEMMA LoopFirst == ASSUME NEW step, NEW first PROVE QueryLoop(step, first, 0) = first
<1>1. PICK f : Loops(f, step, first, 0)
  BY LoopExists
<1>2. QueryLoop(step, first, 0) = f[0] /\ 0 \in 0..0
  BY <1>1, LoopIs
<1>3. QED BY <1>1, <1>2, LoopAt, Zenon

LEMMA LoopNext ==
  ASSUME NEW step, NEW first, NEW n \in Nat
  PROVE  QueryLoop(step, first, n + 1) = step[QueryLoop(step, first, n)]
<1>1. PICK f : Loops(f, step, first, n)
  BY LoopExists
<1>2. PICK g : Loops(g, step, first, n + 1) /\ g[n] = f[n]
  BY <1>1, LoopLonger
<1>3. QueryLoop(step, first, n) = f[n] /\ QueryLoop(step, first, n + 1) = g[n + 1]
  BY <1>1, <1>2, LoopIs
<1>4. n + 1 \in 0..n + 1 /\ n + 1 # 0 /\ n + 1 - 1 = n
  OBVIOUS
<1>5. g[n + 1] = IF n + 1 = 0 THEN first ELSE step[g[n + 1 - 1]]
  BY <1>2, <1>4, LoopAt
<1>6. QED BY <1>2, <1>3, <1>4, <1>5

(* A loop that has ended stays where it is. *)
LEMMA LoopEnds ==
  ASSUME NEW step, NEW first, NEW m \in Nat, NEW n \in Nat, m <= n, NEW w,
         QueryLoop(step, first, m) = w, step[w] = w
  PROVE  QueryLoop(step, first, n) = w
<1> DEFINE S == {k \in Nat : QueryLoop(step, first, m + k) = w}
<1>1. 0 \in S
  BY m + 0 = m
<1>2. ASSUME NEW k \in Nat, k \in S PROVE k + 1 \in S
  <2>1. m + k \in Nat /\ m + (k + 1) = (m + k) + 1
    OBVIOUS
  <2>2. QueryLoop(step, first, (m + k) + 1) = step[QueryLoop(step, first, m + k)]
    BY <2>1, LoopNext
  <2>3. QED BY <1>2, <2>1, <2>2
<1> HIDE DEF S
<1>3. Nat \subseteq S
  BY <1>1, <1>2, Induction
<1>4. n - m \in Nat /\ m + (n - m) = n
  OBVIOUS
<1>5. QED BY <1>3, <1>4 DEF S

-----------------------------------------------------------------------------
(* The first c of a text from a place on. *)
Finds(s, c, start, n) ==
  /\ n \in start..Len(s) + 1 /\ (n <= Len(s) => s[n] = c)
  /\ \A i \in start..n - 1 : s[i] # c

LEMMA QueryFindIs ==
  ASSUME NEW s \in Seq(Nat), NEW c, NEW start \in 1..Len(s) + 1
  PROVE  Finds(s, c, start, QueryFind(s, c, start))
<1> DEFINE at == {i \in start..Len(s) : s[i] = c}
<1>1. Len(s) \in Nat /\ at \subseteq Nat
  BY LenProperties
<1>2. CASE at = {}
  <2>1. QueryFind(s, c, start) = Len(s) + 1
    BY <1>2 DEF QueryFind
  <2>2. QED BY <1>1, <1>2, <2>1 DEF Finds
<1>3. CASE at # {}
  <2>1. PICK x \in at : \A y \in at : x <= y
    BY <1>1, <1>3, Least
  <2>2. Min(at) \in at /\ \A y \in at : Min(at) <= y
    BY <2>1 DEF Min
  <2>3. QueryFind(s, c, start) = Min(at)
    BY <1>3 DEF QueryFind
  <2> DEFINE n == Min(at)
  <2> HIDE DEF n
  <2>4. n \in start..Len(s) /\ s[n] = c /\ \A y \in start..Len(s) : s[y] = c => n <= y
    BY <2>2 DEF n
  <2>5. n \in start..Len(s) + 1 /\ \A i \in start..n - 1 : s[i] # c
    BY <1>1, <2>4
  <2>6. Finds(s, c, start, n)
    BY <2>4, <2>5 DEF Finds
  <2>7. QED BY <2>3, <2>6 DEF n
<1>4. QED BY <1>2, <1>3

(* There is one. *)
LEMMA FindsOnce ==
  ASSUME NEW s \in Seq(Nat), NEW c, NEW start \in 1..Len(s) + 1, NEW n, Finds(s, c, start, n)
  PROVE  QueryFind(s, c, start) = n
<1> DEFINE m == QueryFind(s, c, start)
<1>0. n \in start..Len(s) + 1 /\ (n <= Len(s) => s[n] = c) /\ \A i \in start..n - 1 : s[i] # c
  BY DEF Finds
<1>1. Finds(s, c, start, m) /\ Len(s) \in Nat
  BY QueryFindIs, LenProperties
<1> HIDE DEF m
<1>2. m \in start..Len(s) + 1 /\ (m <= Len(s) => s[m] = c) /\ \A i \in start..m - 1 : s[i] # c
  BY <1>1 DEF Finds
<1>3. ~(m < n)
  <2> SUFFICES ASSUME m < n PROVE FALSE
    OBVIOUS
  <2>1. m \in start..n - 1 /\ m <= Len(s)
    BY <1>0, <1>1, <1>2
  <2>2. QED BY <1>0, <1>2, <2>1
<1>4. ~(n < m)
  <2> SUFFICES ASSUME n < m PROVE FALSE
    OBVIOUS
  <2>1. n \in start..m - 1 /\ n <= Len(s)
    BY <1>0, <1>1, <1>2
  <2>2. QED BY <1>0, <1>2, <2>1
<1>5. m = n
  BY <1>0, <1>1, <1>2, <1>3, <1>4
<1>6. QED BY <1>5 DEF m

-----------------------------------------------------------------------------
(* What a character is written as. *)
LEMMA DigitHex ==
  ASSUME NEW n \in 0..15, NEW d \in QueryDigit(n)
  PROVE  d \in 48..102 /\ d # Eq /\ QueryHex(d) = n
<1>1. CASE n < 10
  <2>1. d = 48 + n
    BY <1>1 DEF QueryDigit
  <2>2. d \in 48..57 /\ d - 48 = n /\ d \notin 97..102 /\ d \notin 65..70
    BY <1>1, <2>1
  <2>3. QED BY <2>2 DEF QueryHex, Eq
<1>2. CASE n >= 10
  <2>1. d = 55 + n \/ d = 87 + n
    BY <1>2 DEF QueryDigit
  <2>2. CASE d = 55 + n
    <3>1. d \in 65..70 /\ d - 55 = n /\ d \notin 97..102 /\ d \notin 48..57
      BY <1>2, <2>2
    <3>2. QED BY <3>1 DEF QueryHex, Eq
  <2>3. CASE d = 87 + n
    <3>1. d \in 97..102 /\ d - 87 = n /\ d \notin 65..70 /\ d \notin 48..57
      BY <1>2, <2>3
    <3>2. QED BY <3>1 DEF QueryHex, Eq
  <2>4. QED BY <2>1, <2>2, <2>3
<1>3. QED BY <1>1, <1>2

(* An encoding, or one character that stands for itself or for a space. *)
Coded(c, invalue, code) ==
  /\ code \in Seq(Nat)
  /\ \A i \in 1..Len(code) : code[i] # Amp /\ (code[i] = Eq => invalue)
  /\ \/ Len(code) = 3 /\ code[1] = Percent /\ QueryHex(code[2]) < 16 /\ QueryHex(code[3]) < 16
        /\ 16 * QueryHex(code[2]) + QueryHex(code[3]) = c
     \/ Len(code) = 1 /\ code[1] # Percent /\ (IF code[1] = Plus THEN Space ELSE code[1]) = c

LEMMA CodesCoded ==
  ASSUME NEW c \in 0..255, NEW invalue \in BOOLEAN, NEW code \in QueryCodes(c, invalue)
  PROVE  Coded(c, invalue, code)
<1>1. CASE code \in QueryEscapes(c)
  <2>1. PICK h \in QueryDigit(c \div 16), l \in QueryDigit(c % 16) : code = <<Percent, h, l>>
    BY <1>1 DEF QueryEscapes
  <2>2. c \div 16 \in 0..15 /\ c % 16 \in 0..15 /\ 16 * (c \div 16) + (c % 16) = c
    OBVIOUS
  <2>3. h \in 48..102 /\ h # Eq /\ QueryHex(h) = c \div 16
    BY <2>2, DigitHex
  <2>4. l \in 48..102 /\ l # Eq /\ QueryHex(l) = c % 16
    BY <2>2, DigitHex
  <2>5. code \in Seq(Nat) /\ Len(code) = 3 /\ code[1] = Percent /\ code[2] = h /\ code[3] = l
    BY <2>1, <2>3, <2>4 DEF Percent
  <2>6. ASSUME NEW i \in 1..Len(code) PROVE code[i] # Amp /\ (code[i] = Eq => invalue)
    <3>1. i = 1 \/ i = 2 \/ i = 3
      BY <2>5
    <3>2. code[i] = Percent \/ code[i] = h \/ code[i] = l
      BY <2>5, <3>1, Zenon
    <3>3. Percent # Amp /\ h # Amp /\ l # Amp /\ Percent # Eq
      BY <2>3, <2>4 DEF Percent, Amp, Eq
    <3>4. QED BY <2>3, <2>4, <3>2, <3>3, Zenon
  <2>7. QED BY <2>2, <2>3, <2>4, <2>5, <2>6 DEF Coded
<1>2. CASE c = Space /\ code = <<Plus>>
  BY <1>2 DEF Coded, Plus, Percent, Amp, Eq, Space
<1>3. CASE c \notin {Space, Plus, Amp, Percent} /\ ~(c = Eq /\ ~invalue) /\ code = <<c>>
  BY <1>3 DEF Coded, Plus, Percent, Amp, Eq, Space
<1>4. QED BY <1>1, <1>2, <1>3 DEF QueryCodes

-----------------------------------------------------------------------------
(* UrlDecode: s, whatever follows it, gives t.                               *)
DecodesInto(s, t, u) ==
  QueryLoop(DecodeStep(s \o u), DecodeFirst, Len(t)) = [i |-> Len(s) + 1, out |-> t]
Decodes(s, t) ==
  /\ s \in Seq(Nat) /\ t \in Seq(Nat) /\ Len(t) <= Len(s)
  /\ \A u \in Seq(Nat) : DecodesInto(s, t, u)

LEMMA DecodesNothing == Decodes(<<>>, <<>>)
<1>1. <<>> \in Seq(Nat) /\ Len(<<>>) = 0
  BY EmptySeq
<1>2. ASSUME NEW u \in Seq(Nat) PROVE DecodesInto(<<>>, <<>>, u)
  <2>1. QueryLoop(DecodeStep(<<>> \o u), DecodeFirst, 0) = DecodeFirst
    BY LoopFirst
  <2>2. QED BY <1>1, <2>1 DEF DecodesInto, DecodeFirst
<1>3. QED BY <1>1, <1>2 DEF Decodes

(* One character. *)
DecodesOne(c, code, s, u, t) ==
  DecodeStep(s \o (code \o u))[[i |-> Len(s) + 1, out |-> t]]
    = [i |-> Len(s) + Len(code) + 1, out |-> Append(t, c)]

LEMMA DecodeOne ==
  ASSUME NEW c \in Nat, NEW invalue \in BOOLEAN, NEW code, Coded(c, invalue, code),
         NEW s \in Seq(Nat), NEW u \in Seq(Nat), NEW t \in Seq(Nat)
  PROVE  DecodesOne(c, code, s, u, t)
<1> DEFINE v == code \o u
           z == s \o v
           n == Len(s)
           w == [i |-> n + 1, out |-> t]
<1>1. code \in Seq(Nat) /\ Len(code) \in Nat /\ Len(code) >= 1
  BY DEF Coded
<1>2. Joined(Nat, code, u, v)
  BY <1>1, Joins
<1>3. v \in Seq(Nat) /\ Len(v) = Len(code) + Len(u) /\ Len(u) \in Nat /\ \A i \in 1..Len(code) : v[i] = code[i]
  BY <1>2 DEF Joined
<1> HIDE DEF v
<1>4. Joined(Nat, s, v, z)
  BY <1>3, Joins
<1>5. z \in Seq(Nat) /\ Len(z) = n + Len(v) /\ n \in Nat /\ \A i \in 1..Len(v) : z[n + i] = v[i]
  BY <1>4 DEF Joined
<1> HIDE DEF z, n
<1>6. ASSUME NEW i \in 1..Len(code) PROVE z[n + i] = code[i]
  <2>1. i \in 1..Len(v)
    BY <1>1, <1>3
  <2>2. QED BY <1>3, <1>5, <2>1
<1>7. w \in [i : Nat, out : Seq(Nat)] /\ w.i = n + 1 /\ w.out = t
  BY <1>5
<1> HIDE DEF w
<1>8. ~(n + 1 > Len(z))
  BY <1>1, <1>3, <1>5
<1>9. DecodeStep(z)[w] =
        IF QueryEscaped(z, n + 1)
        THEN [i |-> n + 1 + 3, out |-> Append(t, 16 * QueryHex(z[n + 1 + 1]) + QueryHex(z[n + 1 + 2]))]
        ELSE [i |-> n + 1 + 1, out |-> Append(t, IF z[n + 1] = Plus THEN Space ELSE z[n + 1])]
  BY <1>7, <1>8 DEF DecodeStep
<1>10. CASE Len(code) = 3
  <2>1. code[1] = Percent /\ QueryHex(code[2]) < 16 /\ QueryHex(code[3]) < 16
        /\ 16 * QueryHex(code[2]) + QueryHex(code[3]) = c
    BY <1>10 DEF Coded
  <2>2. z[n + 1] = code[1] /\ z[n + 2] = code[2] /\ z[n + 3] = code[3]
    BY <1>6, <1>10
  <2>3. n + 1 + 1 = n + 2 /\ n + 1 + 2 = n + 3 /\ n + 1 + 2 <= Len(z) /\ n + 1 + 3 = n + 3 + 1
    BY <1>3, <1>5, <1>10
  <2>4. QueryEscaped(z, n + 1)
    BY <2>1, <2>2, <2>3 DEF QueryEscaped
  <2>5. 16 * QueryHex(z[n + 1 + 1]) + QueryHex(z[n + 1 + 2]) = c
    BY <2>1, <2>2, <2>3
  <2>6. DecodeStep(z)[w] = [i |-> n + 1 + 3, out |-> Append(t, c)]
    BY <1>9, <2>4, <2>5, Zenon
  <2>7. QED BY <1>10, <2>3, <2>6 DEF w, z, n, v, DecodesOne
<1>11. CASE Len(code) = 1
  <2>1. code[1] # Percent /\ (IF code[1] = Plus THEN Space ELSE code[1]) = c
    BY <1>11 DEF Coded
  <2>2. z[n + 1] = code[1] /\ n + 1 + 1 = n + 1 + 1
    BY <1>6, <1>11
  <2>3. ~QueryEscaped(z, n + 1)
    BY <2>1, <2>2 DEF QueryEscaped
  <2>4. DecodeStep(z)[w] = [i |-> n + 1 + 1, out |-> Append(t, c)]
    BY <1>9, <2>1, <2>2, <2>3, Zenon
  <2>5. QED BY <1>11, <2>4 DEF w, z, n, v, DecodesOne
<1>12. QED BY <1>10, <1>11 DEF Coded

LEMMA DecodesMore ==
  ASSUME NEW c \in Nat, NEW invalue \in BOOLEAN, NEW code, Coded(c, invalue, code),
         NEW s, NEW t, Decodes(s, t)
  PROVE  Decodes(s \o code, Append(t, c))
<1>1. s \in Seq(Nat) /\ t \in Seq(Nat) /\ code \in Seq(Nat) /\ Len(code) >= 1 /\ Len(code) \in Nat /\ Len(s) \in Nat
      /\ Len(t) \in Nat /\ Len(t) <= Len(s)
  BY LenProperties DEF Coded, Decodes
<1>2. s \o code \in Seq(Nat) /\ Len(s \o code) = Len(s) + Len(code)
  BY <1>1, ConcatProperties
<1>3. Append(t, c) \in Seq(Nat) /\ Len(Append(t, c)) = Len(t) + 1
  BY <1>1, AppendProperties
<1>4. ASSUME NEW u \in Seq(Nat) PROVE DecodesInto(s \o code, Append(t, c), u)
  <2>1. code \o u \in Seq(Nat) /\ (s \o code) \o u = s \o (code \o u)
    <3>1. Associates(Nat, s, code, u)
      BY <1>1, Associate
    <3>2. QED BY <3>1 DEF Associates
  <2>2. QueryLoop(DecodeStep(s \o (code \o u)), DecodeFirst, Len(t)) = [i |-> Len(s) + 1, out |-> t]
    BY <2>1 DEF Decodes, DecodesInto
  <2> DEFINE g == DecodeStep(s \o (code \o u))
  <2>3. g[[i |-> Len(s) + 1, out |-> t]] = [i |-> Len(s) + Len(code) + 1, out |-> Append(t, c)]
    <3>1. DecodesOne(c, code, s, u, t)
      BY <1>1, DecodeOne
    <3>2. QED BY <3>1 DEF DecodesOne
  <2>4. QueryLoop(g, DecodeFirst, Len(t) + 1) = g[QueryLoop(g, DecodeFirst, Len(t))]
    BY <1>1, LoopNext
  <2>5. QueryLoop(g, DecodeFirst, Len(t) + 1) = [i |-> Len(s) + Len(code) + 1, out |-> Append(t, c)]
    BY <2>2, <2>3, <2>4, Zenon
  <2>6. QED BY <1>2, <1>3, <2>1, <2>5, Zenon DEF DecodesInto
<1>5. QED BY <1>1, <1>2, <1>3, <1>4 DEF Decodes

(* The whole of s. *)
LEMMA DecodesAll ==
  ASSUME NEW s, NEW t, Decodes(s, t)
  PROVE  UrlDecode(s) = t
<1> DEFINE g == DecodeStep(s)
           w == [i |-> Len(s) + 1, out |-> t]
<1>1. s \in Seq(Nat) /\ t \in Seq(Nat) /\ Len(s) \in Nat /\ Len(t) \in Nat /\ Len(t) <= Len(s)
  BY LenProperties DEF Decodes
<1>2. s \o <<>> = s /\ <<>> \in Seq(Nat)
  BY <1>1, ConcatEmptySeq, EmptySeq
<1>3. QueryLoop(g, DecodeFirst, Len(t)) = w
  BY <1>2 DEF Decodes, DecodesInto
<1>4. g[w] = w
  <2>1. w \in [i : Nat, out : Seq(Nat)] /\ w.i > Len(s)
    BY <1>1
  <2> HIDE DEF w
  <2>2. QED BY <2>1 DEF DecodeStep
<1>5. w.out = t
  OBVIOUS
<1> HIDE DEF g, w
<1>6. QueryLoop(g, DecodeFirst, Len(s)) = w
  BY <1>1, <1>3, <1>4, LoopEnds
<1>7. QED BY <1>5, <1>6 DEF UrlDecode, g

-----------------------------------------------------------------------------
(* ParseQueryString: the text of one parameter.                              *)
Pair == [key : Seq(Nat), value : Seq(Nat), eq : BOOLEAN]
Param == [key : Seq(Nat), value : Seq(Nat)]

Written(k, key, invalue) ==
  /\ Decodes(k, key)
  /\ \A i \in 1..Len(k) : k[i] # Amp /\ (k[i] = Eq => invalue)

PairText(pair, p) ==
  \E k, v :
    /\ Written(k, pair.key, FALSE)
    /\ IF pair.eq THEN Written(v, pair.value, TRUE) /\ p = k \o (<<Eq>> \o v) ELSE p = k /\ pair.value = <<>>

ParamOf(pair) == IF pair.key = <<>> THEN <<>> ELSE <<[key |-> pair.key, value |-> pair.value]>>

LEMMA WrittenNothing == ASSUME NEW invalue PROVE Written(<<>>, <<>>, invalue)
BY DecodesNothing, EmptySeq DEF Written

LEMMA WrittenMore ==
  ASSUME NEW c \in Nat, NEW invalue \in BOOLEAN, NEW code, Coded(c, invalue, code),
         NEW k, NEW key, Written(k, key, invalue)
  PROVE  Written(k \o code, Append(key, c), invalue)
<1>1. Decodes(k \o code, Append(key, c))
  BY DecodesMore DEF Written
<1>2. k \in Seq(Nat) /\ code \in Seq(Nat)
  BY DEF Written, Decodes, Coded
<1> DEFINE j == k \o code
<1>3. Joined(Nat, k, code, j)
  BY <1>2, Joins
<1> HIDE DEF j
<1>4. ASSUME NEW i \in 1..Len(j) PROVE j[i] # Amp /\ (j[i] = Eq => invalue)
  <2>1. Len(j) = Len(k) + Len(code) /\ Len(k) \in Nat /\ Len(code) \in Nat
    BY <1>3 DEF Joined
  <2>2. CASE i <= Len(k)
    <3>1. i \in 1..Len(k)
      BY <2>1, <2>2
    <3>2. j[i] = k[i]
      BY <1>3, <3>1 DEF Joined
    <3>3. QED BY <3>1, <3>2 DEF Written
  <2>3. CASE i > Len(k)
    <3> DEFINE m == i - Len(k)
    <3>1. m \in 1..Len(code) /\ Len(k) + m = i
      BY <2>1, <2>3
    <3> HIDE DEF m
    <3>2. j[Len(k) + m] = code[m]
      BY <1>3, <3>1 DEF Joined
    <3>3. code[m] # Amp /\ (code[m] = Eq => invalue)
      BY <3>1 DEF Coded
    <3>4. QED BY <3>1, <3>2, <3>3
  <2>4. QED BY <2>1, <2>2, <2>3
<1>5. QED BY <1>1, <1>4 DEF Written, j

LEMMA PairParam ==
  ASSUME NEW pair \in Pair, NEW p, PairText(pair, p)
  PROVE  /\ p \in Seq(Nat) /\ QueryParam(p) = ParamOf(pair)
         /\ \A i \in 1..Len(p) : p[i] # Amp
<1>1. PICK k, v :
        /\ Written(k, pair.key, FALSE)
        /\ IF pair.eq THEN Written(v, pair.value, TRUE) /\ p = k \o (<<Eq>> \o v) ELSE p = k /\ pair.value = <<>>
  BY DEF PairText
<1>2. /\ k \in Seq(Nat) /\ Len(k) \in Nat /\ UrlDecode(k) = pair.key
      /\ \A i \in 1..Len(k) : k[i] # Amp /\ k[i] # Eq
  BY <1>1, DecodesAll, LenProperties DEF Written, Decodes
<1>3. CASE ~pair.eq
  <2>1. p = k /\ pair.value = <<>>
    BY <1>1, <1>3
  <2>2. QueryFind(p, Eq, 1) = Len(k) + 1
    <3>1. 1 \in 1..Len(k) + 1 /\ Len(k) + 1 \in 1..Len(k) + 1 /\ ~(Len(k) + 1 <= Len(k))
      BY <1>2
    <3>2. \A i \in 1..Len(k) + 1 - 1 : k[i] # Eq
      BY <1>2
    <3>3. Finds(p, Eq, 1, Len(k) + 1)
      BY <2>1, <3>1, <3>2 DEF Finds
    <3>4. QED BY <1>2, <2>1, <3>1, <3>3, FindsOnce
  <2>3. SubSeq(p, 1, Len(k) + 1 - 1) = k
    <3>1. Len(k) + 1 - 1 = Len(k)
      BY <1>2
    <3>2. QED BY <1>2, <2>1, <3>1, SubSeqFull
  <2>4. SubSeq(p, Len(k) + 1 + 1, Len(p)) = <<>>
    BY <1>2, <2>1, SubSeqEmpty
  <2>5. UrlDecode(<<>>) = <<>>
    BY DecodesNothing, DecodesAll
  <2>6. QueryParam(p) = ParamOf(pair)
    <3> DEFINE at == QueryFind(p, Eq, 1)
               a == UrlDecode(SubSeq(p, 1, at - 1))
               b == UrlDecode(SubSeq(p, at + 1, Len(p)))
    <3>1. QueryParam(p) = IF a = <<>> THEN <<>> ELSE <<[key |-> a, value |-> b]>>
      BY Zenon DEF QueryParam
    <3>2. a = pair.key
      <4>1. SubSeq(p, 1, at - 1) = k
        <5> DEFINE m == at - 1
        <5>1. m = Len(k) + 1 - 1
          BY <2>2
        <5> HIDE DEF m
        <5>2. SubSeq(p, 1, m) = k
          BY <2>3, <5>1, Zenon
        <5>3. QED BY <5>2 DEF m
      <4>2. QED BY <1>2, <4>1
    <3>3. b = pair.value
      BY <2>1, <2>2, <2>4, <2>5, Zenon
    <3> HIDE DEF at, a, b
    <3>4. QED BY <3>1, <3>2, <3>3, Zenon DEF ParamOf
  <2>7. QED BY <1>2, <2>1, <2>6
<1>4. CASE pair.eq
  <2>1. Written(v, pair.value, TRUE) /\ p = k \o (<<Eq>> \o v)
    BY <1>1, <1>4
  <2>2. /\ v \in Seq(Nat) /\ Len(v) \in Nat /\ UrlDecode(v) = pair.value
        /\ \A i \in 1..Len(v) : v[i] # Amp
    BY <2>1, DecodesAll, LenProperties DEF Written, Decodes
  <2> DEFINE e == <<Eq>>
             ev == e \o v
  <2>3. e \in Seq(Nat) /\ Len(e) = 1 /\ e[1] = Eq
    BY DEF Eq
  <2> HIDE DEF e
  <2>4. Joined(Nat, e, v, ev)
    BY <2>2, <2>3, Joins
  <2> HIDE DEF ev
  <2>5. ev \in Seq(Nat) /\ Len(ev) = 1 + Len(v) /\ ev[1] = Eq /\ \A i \in 1..Len(v) : ev[1 + i] = v[i]
    <3>1. /\ ev \in Seq(Nat) /\ Len(ev) = Len(e) + Len(v) /\ (\A i \in 1..Len(e) : ev[i] = e[i])
          /\ \A i \in 1..Len(v) : ev[Len(e) + i] = v[i]
      BY <2>4, Zenon DEF Joined
    <3>2. 1 \in 1..Len(e)
      BY <2>3
    <3>3. QED BY <2>3, <3>1, <3>2, Zenon
  <2>6. p = k \o ev
    BY <2>1 DEF ev, e
  <2>7. Joined(Nat, k, ev, p)
    BY <1>2, <2>5, <2>6, Joins
  <2> DEFINE n == Len(k)
  <2>8. /\ p \in Seq(Nat) /\ Len(p) = n + (1 + Len(v)) /\ n \in Nat /\ \A i \in 1..n : p[i] = k[i]
        /\ \A i \in 1..1 + Len(v) : p[n + i] = ev[i]
    BY <1>2, <2>5, <2>7 DEF Joined
  <2>9. p[n + 1] = Eq /\ Eq \in Nat /\ \A i \in 1..n : p[i] # Eq /\ p[i] # Amp
    <3>1. 1 \in 1..1 + Len(v)
      BY <2>2
    <3>2. p[n + 1] = Eq
      BY <2>5, <2>8, <3>1
    <3>3. QED BY <1>2, <2>8, <3>2 DEF Eq
  <2> HIDE DEF n
  <2>9a. n \in Nat
    BY <2>8
  <2>10. QueryFind(p, Eq, 1) = n + 1
    <3>1. 1 \in 1..Len(p) + 1 /\ n + 1 \in 1..Len(p) + 1
      BY <2>2, <2>8
    <3>2. \A i \in 1..n + 1 - 1 : p[i] # Eq
      BY <2>8, <2>9
    <3>3. n + 1 <= Len(p) => p[n + 1] = Eq
      BY <2>9
    <3>4. p \in Seq(Nat)
      BY <2>8
    <3>5. Finds(p, Eq, 1, n + 1)
      BY <2>9a, <3>1, <3>2, <3>3 DEF Finds
    <3>6. QED BY <3>1, <3>4, <3>5, FindsOnce
  <2>11. SubSeq(p, 1, n + 1 - 1) = k
    <3>1. n <= Len(p) /\ n + 1 - 1 = n
      BY <2>2, <2>8
    <3>2. /\ SubSeq(p, 1, n) \in Seq(Nat) /\ Len(SubSeq(p, 1, n)) = n
          /\ \A i \in 1..n : SubSeq(p, 1, n)[i] = p[i]
      BY <2>8, <3>1, Cut
    <3> DEFINE a == SubSeq(p, 1, n)
    <3> HIDE DEF a
    <3>3. a = k
      <4>1. a \in Seq(Nat) /\ Len(a) = Len(k) /\ \A i \in 1..Len(a) : a[i] = k[i]
        BY <2>8, <3>2 DEF a, n
      <4>2. QED BY <1>2, <4>1, SeqEqual
    <3>4. QED BY <3>1, <3>3 DEF a
  <2>12. SubSeq(p, n + 1 + 1, Len(p)) = v
    <3> DEFINE b == SubSeq(p, n + 1 + 1, Len(p))
    <3>1. n + 1 \in Nat /\ n + 1 <= Len(p) /\ Len(p) - (n + 1) = Len(v)
      BY <2>2, <2>8
    <3>2. b \in Seq(Nat) /\ Len(b) = Len(p) - (n + 1) /\ \A i \in 1..Len(p) - (n + 1) : b[i] = p[n + 1 + i]
      BY <2>8, <3>1, Cut
    <3> HIDE DEF b
    <3>3. ASSUME NEW i \in 1..Len(b) PROVE b[i] = v[i]
      <4>1. i \in 1..Len(v) /\ 1 + i \in 1..1 + Len(v) /\ n + 1 + i = n + (1 + i)
        BY <2>2, <2>8, <3>1, <3>2
      <4>2. b[i] = p[n + 1 + i]
        BY <3>1, <3>2, <4>1
      <4>3. p[n + (1 + i)] = ev[1 + i]
        BY <2>8, <4>1
      <4>4. ev[1 + i] = v[i]
        BY <2>5, <4>1
      <4>5. QED BY <4>1, <4>2, <4>3, <4>4
    <3>4. b = v
      BY <2>2, <3>1, <3>2, <3>3, SeqEqual
    <3>5. QED BY <3>4 DEF b
  <2>13. QueryParam(p) = ParamOf(pair)
    <3> DEFINE at == QueryFind(p, Eq, 1)
               a == UrlDecode(SubSeq(p, 1, at - 1))
               b == UrlDecode(SubSeq(p, at + 1, Len(p)))
    <3>1. QueryParam(p) = IF a = <<>> THEN <<>> ELSE <<[key |-> a, value |-> b]>>
      BY Zenon DEF QueryParam
    <3>2. a = pair.key
      <4>1. SubSeq(p, 1, at - 1) = k
        <5> DEFINE m == at - 1
        <5>1. m = n + 1 - 1
          BY <2>10, <2>9a
        <5> HIDE DEF m
        <5>2. SubSeq(p, 1, m) = k
          BY <2>11, <5>1, Zenon
        <5>3. QED BY <5>2 DEF m
      <4>2. QED BY <1>2, <4>1
    <3>3. b = pair.value
      BY <2>2, <2>10, <2>12, Zenon
    <3> HIDE DEF at, a, b
    <3>4. QED BY <3>1, <3>2, <3>3, Zenon DEF ParamOf
  <2>14. ASSUME NEW i \in 1..Len(p) PROVE p[i] # Amp
    <3>0. i \in 1..n + (1 + Len(v)) /\ n \in Nat /\ Len(v) \in Nat
      BY <2>2, <2>8
    <3>1. CASE i <= n
      BY <2>8, <2>9, <3>1
    <3>2. CASE i = n + 1
      BY <2>9, <3>2 DEF Amp, Eq
    <3>3. CASE i > n + 1
      <4> DEFINE m == i - n - 1
      <4>1. m \in 1..Len(v) /\ 1 + m \in 1..1 + Len(v) /\ n + (1 + m) = i
        BY <3>0, <3>3
      <4> HIDE DEF m
      <4>2. p[n + (1 + m)] = ev[1 + m]
        BY <2>8, <4>1
      <4>3. ev[1 + m] = v[m] /\ v[m] # Amp
        BY <2>2, <2>5, <4>1
      <4>4. QED BY <4>1, <4>2, <4>3
    <3>4. QED BY <2>8, <3>1, <3>2, <3>3
  <2>15. QED BY <2>8, <2>13, <2>14
<1>5. QED BY <1>3, <1>4

-----------------------------------------------------------------------------
(* Which parameters arrive. *)
Named(pairs) == {i \in DOMAIN pairs : pairs[i].key # <<>>}
CarriesAt(query, pairs, at) ==
  /\ at \in [DOMAIN query -> Named(pairs)]
  /\ \A i \in Named(pairs) : \E k \in DOMAIN query : at[k] = i
  /\ \A k, m \in DOMAIN query : k < m => at[k] < at[m]
  /\ \A k \in DOMAIN query : query[k] = [key |-> pairs[at[k]].key, value |-> pairs[at[k]].value]
Carries(query, pairs) ==
  query \in Seq(Param) /\ \E at : CarriesAt(query, pairs, at)

LEMMA CarriesNothing == Carries(<<>>, <<>>)
<1> DEFINE at == [k \in {} |-> 0]
<1>1. <<>> \in Seq(Param) /\ DOMAIN <<>> = {}
  BY EmptySeq
<1>2. Named(<<>>) = {} /\ at \in [{} -> {}]
  BY <1>1 DEF Named
<1>3. CarriesAt(<<>>, <<>>, at)
  BY <1>1, <1>2 DEF CarriesAt
<1>4. QED BY <1>1, <1>3 DEF Carries

LEMMA NamedMore ==
  ASSUME NEW pairs \in Seq(Pair), NEW pair \in Pair
  PROVE  Named(Append(pairs, pair)) = Named(pairs) \cup (IF pair.key = <<>> THEN {} ELSE {Len(pairs) + 1})
<1> DEFINE n == Len(pairs)
           t == Append(pairs, pair)
<1>1. n \in Nat /\ DOMAIN pairs = 1..n
  BY LenProperties
<1>2. t \in Seq(Pair) /\ Len(t) = n + 1 /\ t[n + 1] = pair /\ \A i \in 1..n : t[i] = pairs[i]
  BY AppendProperties, <1>1
<1> HIDE DEF t, n
<1>3. DOMAIN t = 1..n + 1
  BY <1>2, LenProperties
<1>4. QED BY <1>1, <1>2, <1>3 DEF Named, t, n

LEMMA CarriesMore ==
  ASSUME NEW query, NEW pairs \in Seq(Pair), NEW pair \in Pair, Carries(query, pairs)
  PROVE  Carries(query \o ParamOf(pair), Append(pairs, pair))
<1> DEFINE n == Len(pairs)
           t == Append(pairs, pair)
           m == Len(query)
<1>1. n \in Nat /\ DOMAIN pairs = 1..n
  BY LenProperties
<1>2. t \in Seq(Pair) /\ Len(t) = n + 1 /\ t[n + 1] = pair /\ \A i \in 1..n : t[i] = pairs[i]
  BY AppendProperties, <1>1
<1>3. query \in Seq(Param) /\ m \in Nat /\ DOMAIN query = 1..m
  BY LenProperties DEF Carries
<1>4. PICK at : CarriesAt(query, pairs, at)
  BY DEF Carries
<1>5. Named(t) = Named(pairs) \cup (IF pair.key = <<>> THEN {} ELSE {n + 1})
  BY NamedMore
<1> HIDE DEF t, n
<1>6. Named(pairs) \subseteq 1..n
  BY <1>1 DEF Named
<1>7. /\ at \in [1..m -> Named(pairs)]
      /\ \A i \in Named(pairs) : \E k \in 1..m : at[k] = i
      /\ \A k, l \in 1..m : k < l => at[k] < at[l]
      /\ \A k \in 1..m : query[k] = [key |-> pairs[at[k]].key, value |-> pairs[at[k]].value]
  BY <1>3, <1>4 DEF CarriesAt
<1>8. \A k \in 1..m : at[k] \in 1..n /\ t[at[k]] = pairs[at[k]]
  BY <1>2, <1>6, <1>7
<1> HIDE DEF m
<1>9. CASE pair.key = <<>>
  <2>1. Named(t) = Named(pairs) /\ ParamOf(pair) = <<>> /\ query \o <<>> = query
    BY <1>3, <1>5, <1>9, ConcatEmptySeq DEF ParamOf
  <2>2. CarriesAt(query, t, at)
    BY <1>3, <1>7, <1>8, <2>1 DEF CarriesAt
  <2>3. QED BY <1>3, <2>1, <2>2 DEF Carries, t
<1>10. CASE pair.key # <<>>
  <2> DEFINE x == [key |-> pair.key, value |-> pair.value]
             p == <<x>>
             q == query \o p
             to == [k \in 1..m + 1 |-> IF k <= m THEN at[k] ELSE n + 1]
  <2>1. x \in Param /\ p \in Seq(Param) /\ Len(p) = 1 /\ p[1] = x
    BY DEF Param, Pair
  <2> HIDE DEF p, x
  <2>2. Joined(Param, query, p, q)
    BY <1>3, <2>1, Joins
  <2> HIDE DEF q
  <2>3. q \in Seq(Param) /\ Len(q) = m + 1 /\ (\A i \in 1..m : q[i] = query[i]) /\ q[m + 1] = x
    BY <2>1, <2>2 DEF Joined, m
  <2>4. DOMAIN q = 1..m + 1
    BY <2>3, LenProperties
  <2>5. Named(t) = Named(pairs) \cup {n + 1}
    BY <1>5, <1>10
  <2>6. (\A k \in 1..m : to[k] = at[k]) /\ to[m + 1] = n + 1
    BY <1>3
  <2>7. to \in [1..m + 1 -> Named(t)]
    BY <1>7, <2>5
  <2> HIDE DEF to
  <2>8. \A k \in 1..m + 1 : k \in 1..m \/ k = m + 1
    BY <1>3
  <2>9. ASSUME NEW i \in Named(t) PROVE \E k \in 1..m + 1 : to[k] = i
    <3>1. CASE i \in Named(pairs)
      <4>1. PICK k \in 1..m : at[k] = i
        BY <1>7, <3>1
      <4>2. k \in 1..m + 1 /\ to[k] = i
        BY <1>3, <2>6, <4>1
      <4>3. QED BY <4>2
    <3>2. CASE i = n + 1
      BY <1>3, <2>6, <3>2
    <3>3. QED BY <2>5, <3>1, <3>2
  <2>10. ASSUME NEW k \in 1..m + 1, NEW l \in 1..m + 1, k < l PROVE to[k] < to[l]
    <3>1. k \in 1..m
      BY <1>3, <2>10
    <3>2. CASE l \in 1..m
      BY <1>7, <2>6, <2>10, <3>1, <3>2
    <3>3. CASE l = m + 1
      <4>1. at[k] \in 1..n /\ to[k] = at[k] /\ to[l] = n + 1
        BY <1>8, <2>6, <3>1, <3>3
      <4>2. QED BY <1>1, <4>1
    <3>4. QED BY <2>8, <3>2, <3>3
  <2>11. ASSUME NEW k \in 1..m + 1 PROVE q[k] = [key |-> t[to[k]].key, value |-> t[to[k]].value]
    <3>1. CASE k \in 1..m
      <4>1. q[k] = query[k] /\ to[k] = at[k] /\ t[at[k]] = pairs[at[k]]
        BY <1>8, <2>3, <2>6, <3>1
      <4>2. query[k] = [key |-> pairs[at[k]].key, value |-> pairs[at[k]].value]
        BY <1>7, <3>1
      <4>3. QED BY <4>1, <4>2, Zenon
    <3>2. CASE k = m + 1
      <4>1. q[k] = x /\ t[to[k]] = pair
        BY <1>2, <2>3, <2>6, <3>2
      <4>2. QED BY <4>1, Zenon DEF x
    <3>3. QED BY <2>8, <3>1, <3>2
  <2>12. CarriesAt(q, t, to)
    BY <2>4, <2>7, <2>9, <2>10, <2>11 DEF CarriesAt
  <2>13. q = query \o ParamOf(pair)
    BY <1>10 DEF q, p, x, ParamOf
  <2>14. Carries(q, t)
    BY <2>3, <2>12 DEF Carries
  <2>15. QED BY <2>13, <2>14 DEF t
<1>11. QED BY <1>9, <1>10

-----------------------------------------------------------------------------
(* One turn of the loop, for a text p with "&" or nothing behind it. *)
Turns(z, p, u, pair, params) ==
  ParseStep(z \o (p \o u))[[start |-> Len(z) + 1, params |-> params]]
    = [start |-> Len(z) + Len(p) + 2, params |-> params \o ParamOf(pair)]

LEMMA ParseOne ==
  ASSUME NEW z \in Seq(Nat), NEW pair \in Pair, NEW p, PairText(pair, p), NEW u \in Seq(Nat),
         NEW params \in Seq(Param), IF u = <<>> THEN p # <<>> ELSE u[1] = Amp
  PROVE  Turns(z, p, u, pair, params)
<1> DEFINE v == p \o u
           raw == z \o v
           n == Len(z)
           k == Len(p)
           w == [start |-> n + 1, params |-> params]
<1>1. p \in Seq(Nat) /\ QueryParam(p) = ParamOf(pair) /\ \A i \in 1..Len(p) : p[i] # Amp
  BY PairParam
<1>2. Joined(Nat, p, u, v)
  BY <1>1, Joins
<1>3. /\ v \in Seq(Nat) /\ Len(v) = k + Len(u) /\ k \in Nat /\ Len(u) \in Nat
      /\ (\A i \in 1..k : v[i] = p[i]) /\ (\A i \in 1..Len(u) : v[k + i] = u[i])
  BY <1>2 DEF Joined
<1> HIDE DEF v
<1>4. Joined(Nat, z, v, raw)
  BY <1>3, Joins
<1>5. raw \in Seq(Nat) /\ Len(raw) = n + Len(v) /\ n \in Nat /\ \A i \in 1..Len(v) : raw[n + i] = v[i]
  BY <1>4 DEF Joined
<1>6. \A i \in 1..k : p[i] # Amp
  BY <1>1
<1>7. Len(raw) = n + k + Len(u) /\ n \in Nat /\ k \in Nat /\ Len(u) \in Nat /\ (u # <<>> => Len(u) >= 1) /\ (p # <<>> => k >= 1)
  <2>1. (u # <<>> => Len(u) \in Nat \ {0}) /\ (p # <<>> => Len(p) \in Nat \ {0})
    BY <1>1, EmptySeq
  <2>2. QED BY <1>3, <1>5, <2>1
<1> HIDE DEF raw, n, k
<1>8. ASSUME NEW i \in 1..k PROVE raw[n + i] = p[i]
  <2>1. i \in 1..Len(v)
    BY <1>3
  <2>2. QED BY <1>3, <1>5, <2>1
<1>9. ~(n + 1 > Len(raw))
  BY <1>7
<1>10. QueryFind(raw, Amp, n + 1) = n + k + 1
  <2>1. n + 1 \in 1..Len(raw) + 1 /\ n + k + 1 \in n + 1..Len(raw) + 1
    BY <1>7
  <2>2. n + k + 1 <= Len(raw) => raw[n + k + 1] = Amp
    <3> SUFFICES ASSUME n + k + 1 <= Len(raw) PROVE raw[n + k + 1] = Amp
      OBVIOUS
    <3>1. Len(u) >= 1 /\ k + 1 \in 1..Len(v) /\ 1 \in 1..Len(u)
      BY <1>3, <1>7
    <3>2. u # <<>>
      BY <3>1, EmptySeq
    <3>3. v[k + 1] = u[1] /\ u[1] = Amp
      BY <1>3, <3>1, <3>2
    <3>4. raw[n + (k + 1)] = v[k + 1]
      BY <1>5, <3>1
    <3>5. n + (k + 1) = n + k + 1
      BY <1>7
    <3>6. QED BY <3>3, <3>4, <3>5
  <2>3. ASSUME NEW i \in n + 1..(n + k + 1) - 1 PROVE raw[i] # Amp
    <3> DEFINE j == i - n
    <3>1. j \in 1..k /\ n + j = i
      BY <1>7
    <3> HIDE DEF j
    <3>2. raw[n + j] = p[j] /\ p[j] # Amp
      BY <1>6, <1>8, <3>1
    <3>3. QED BY <3>1, <3>2
  <2>4. Finds(raw, Amp, n + 1, n + k + 1)
    BY <2>1, <2>2, <2>3, <1>7 DEF Finds
  <2>5. raw \in Seq(Nat)
    BY <1>5
  <2>6. QED BY <2>1, <2>4, <2>5, FindsOnce
<1>11. SubSeq(raw, n + 1, n + k) = p
  <2> DEFINE b == SubSeq(raw, n + 1, n + k)
  <2>1. n + k \in 0..Len(raw) /\ n \in 0..n + k /\ (n + k) - n = k /\ raw \in Seq(Nat)
    BY <1>5, <1>7
  <2>2. Slice(Nat, raw, n, n + k, b)
    BY <2>1, Slices
  <2> HIDE DEF b
  <2>3. b \in Seq(Nat) /\ Len(b) = (n + k) - n /\ \A i \in 1..(n + k) - n : b[i] = raw[n + i]
    BY <2>2, Zenon DEF Slice
  <2>4. Len(b) = k /\ \A i \in 1..k : b[i] = p[i]
    BY <1>8, <2>1, <2>3
  <2>5. Len(b) = Len(p) /\ \A i \in 1..Len(b) : b[i] = p[i]
    BY <2>4, Zenon DEF k
  <2>6. b = p
    BY <1>1, <2>3, <2>5, SeqEqual
  <2>7. QED BY <2>6 DEF b
<1>12. w \in [start : Nat, params : Seq(Param)] /\ w.start = n + 1 /\ w.params = params
  BY <1>7
<1> HIDE DEF w
<1>13. ParseStep(raw)[w] =
         LET amp == QueryFind(raw, Amp, w.start)
         IN IF w.start > Len(raw) THEN w
            ELSE [start |-> amp + 1, params |-> w.params \o QueryParam(SubSeq(raw, w.start, amp - 1))]
  BY <1>12 DEF ParseStep, Param
<1>14. ParseStep(raw)[w] = [start |-> n + k + 1 + 1, params |-> params \o QueryParam(SubSeq(raw, n + 1, (n + k + 1) - 1))]
  <2> DEFINE amp == QueryFind(raw, Amp, w.start)
  <2>1. amp = n + k + 1
    BY <1>10, <1>12, Zenon
  <2>2. ParseStep(raw)[w] = IF w.start > Len(raw) THEN w
          ELSE [start |-> amp + 1, params |-> w.params \o QueryParam(SubSeq(raw, w.start, amp - 1))]
    BY <1>13, Zenon
  <2> HIDE DEF amp
  <2>3. ~(w.start > Len(raw))
    BY <1>9, <1>12
  <2>4. QED BY <1>12, <2>1, <2>2, <2>3, Zenon
<1>15. (n + k + 1) - 1 = n + k /\ n + k + 1 + 1 = n + k + 2
  BY <1>7
<1>16. ParseStep(raw)[w] = [start |-> n + k + 2, params |-> params \o ParamOf(pair)]
  BY <1>1, <1>11, <1>14, <1>15
<1>17. QED BY <1>16 DEF Turns, raw, v, w, n, k

-----------------------------------------------------------------------------
(* ParseQueryString: z, the text of pairs with an "&" behind each.           *)
ParsesInto(z, pairs, u) ==
  \E params : /\ Carries(params, pairs)
              /\ QueryLoop(ParseStep(z \o u), ParseFirst, Len(pairs)) = [start |-> Len(z) + 1, params |-> params]
Parsed(z, pairs) ==
  z \in Seq(Nat) /\ Len(pairs) <= Len(z) /\ \A u \in Seq(Nat) : ParsesInto(z, pairs, u)

LEMMA ParsedNothing == Parsed(<<>>, <<>>)
<1>1. <<>> \in Seq(Nat) /\ Len(<<>>) = 0
  BY EmptySeq
<1>2. ASSUME NEW u \in Seq(Nat) PROVE ParsesInto(<<>>, <<>>, u)
  <2>1. QueryLoop(ParseStep(<<>> \o u), ParseFirst, 0) = ParseFirst
    BY LoopFirst
  <2>2. QED BY <1>1, <2>1, CarriesNothing DEF ParsesInto, ParseFirst
<1>3. QED BY <1>1, <1>2 DEF Parsed

LEMMA ParsedMore ==
  ASSUME NEW z, NEW pairs \in Seq(Pair), Parsed(z, pairs), NEW pair \in Pair, NEW p, PairText(pair, p)
  PROVE  Parsed(z \o (p \o <<Amp>>), Append(pairs, pair))
<1> DEFINE a == <<Amp>>
           pa == p \o a
           y == z \o pa
           t == Append(pairs, pair)
<1>1. z \in Seq(Nat) /\ p \in Seq(Nat) /\ Len(pairs) \in Nat /\ Len(z) \in Nat /\ Len(p) \in Nat /\ Len(pairs) <= Len(z)
  BY PairParam, LenProperties DEF Parsed
<1>2. a \in Seq(Nat) /\ Len(a) = 1 /\ a[1] = Amp
  BY DEF Amp
<1> HIDE DEF a
<1>3. pa \in Seq(Nat) /\ Len(pa) = Len(p) + 1
  <2>1. Joined(Nat, p, a, pa)
    BY <1>1, <1>2, Joins
  <2>2. QED BY <1>2, <2>1 DEF Joined
<1> HIDE DEF pa
<1>4. y \in Seq(Nat) /\ Len(y) = Len(z) + Len(p) + 1
  <2>1. Joined(Nat, z, pa, y)
    BY <1>1, <1>3, Joins
  <2>2. Len(y) = Len(z) + Len(pa) /\ y \in Seq(Nat)
    BY <2>1, Zenon DEF Joined
  <2>3. QED BY <1>1, <1>3, <2>2
<1> HIDE DEF y
<1>5. Len(t) = Len(pairs) + 1
  BY AppendProperties
<1>6. ASSUME NEW u \in Seq(Nat) PROVE ParsesInto(y, t, u)
  <2> DEFINE au == a \o u
             r == z \o (p \o au)
  <2>1. Joined(Nat, a, u, au)
    BY <1>2, Joins
  <2>2. au \in Seq(Nat) /\ au[1] = Amp /\ au # <<>>
    <3>1. au \in Seq(Nat) /\ au[1] = Amp /\ Len(au) = 1 + Len(u) /\ Len(u) \in Nat
      BY <1>2, <2>1 DEF Joined
    <3>2. Len(au) # 0
      BY <3>1
    <3> HIDE DEF au
    <3>3. QED BY <3>1, <3>2, EmptySeq
  <2>3. y \o u = r
    <3>1. Associates(Nat, z, pa, u)
      BY <1>1, <1>3, Associate
    <3>2. Associates(Nat, p, a, u)
      BY <1>1, <1>2, Associate
    <3>3. y \o u = z \o (pa \o u)
      BY <3>1 DEF Associates, y
    <3>4. pa \o u = p \o au
      BY <3>2 DEF Associates, pa
    <3>5. QED BY <3>3, <3>4, Zenon
  <2> HIDE DEF au
  <2>4. p \o au \in Seq(Nat)
    BY <1>1, <2>2, ConcatProperties
  <2>5. PICK params : /\ Carries(params, pairs)
                      /\ QueryLoop(ParseStep(r), ParseFirst, Len(pairs)) = [start |-> Len(z) + 1, params |-> params]
    BY <2>4 DEF Parsed, ParsesInto
  <2>6. params \in Seq(Param)
    BY <2>5 DEF Carries
  <2>7. Turns(z, p, au, pair, params)
    BY <1>1, <2>2, <2>6, ParseOne
  <2>8. ParseStep(r)[[start |-> Len(z) + 1, params |-> params]]
          = [start |-> Len(z) + Len(p) + 2, params |-> params \o ParamOf(pair)]
    BY <2>7 DEF Turns
  <2> HIDE DEF r
  <2>9. QueryLoop(ParseStep(r), ParseFirst, Len(pairs) + 1) = ParseStep(r)[QueryLoop(ParseStep(r), ParseFirst, Len(pairs))]
    BY <1>1, LoopNext
  <2>10. Len(z) + Len(p) + 2 = Len(y) + 1
    BY <1>1, <1>4
  <2>11. QueryLoop(ParseStep(y \o u), ParseFirst, Len(t)) = [start |-> Len(y) + 1, params |-> params \o ParamOf(pair)]
    BY <1>5, <2>3, <2>5, <2>8, <2>9, <2>10, Zenon
  <2>12. Carries(params \o ParamOf(pair), t)
    BY <2>5, CarriesMore
  <2>13. QED BY <2>11, <2>12 DEF ParsesInto
<1>7. Len(t) <= Len(y)
  BY <1>1, <1>4, <1>5
<1>8. Parsed(y, t)
  BY <1>4, <1>6, <1>7 DEF Parsed
<1>9. QED BY <1>8 DEF y, t, pa, a

(* The text of the last one, which has no "&" behind it. *)
LEMMA ParsesLast ==
  ASSUME NEW z, NEW pairs \in Seq(Pair), Parsed(z, pairs), NEW pair \in Pair, NEW p, PairText(pair, p)
  PROVE  Carries(ParseQueryString(z \o p), Append(pairs, pair))
<1> DEFINE r == z \o p
           g == ParseStep(r)
           n == Len(pairs)
<1>1. z \in Seq(Nat) /\ p \in Seq(Nat) /\ n \in Nat /\ Len(z) \in Nat /\ Len(p) \in Nat /\ n <= Len(z)
  BY PairParam, LenProperties DEF Parsed
<1>2. r \in Seq(Nat) /\ Len(r) = Len(z) + Len(p)
  BY <1>1, ConcatProperties
<1>3. PICK params : /\ Carries(params, pairs)
                    /\ QueryLoop(g, ParseFirst, n) = [start |-> Len(z) + 1, params |-> params]
  BY <1>1 DEF Parsed, ParsesInto
<1>4. params \in Seq(Param)
  BY <1>3 DEF Carries
<1> DEFINE more == params \o ParamOf(pair)
<1>5. Carries(more, Append(pairs, pair))
  BY <1>3, CarriesMore
<1>6. more \in Seq(Param)
  BY <1>5 DEF Carries
<1>7. ASSUME NEW k \in Nat, NEW m \in Nat, m <= Len(r), k > Len(r),
             QueryLoop(g, ParseFirst, m) = [start |-> k, params |-> more]
      PROVE  ParseQueryString(r) = more
  <2> DEFINE w == [start |-> k, params |-> more]
  <2> HIDE DEF more
  <2>1. w \in [start : Nat, params : Seq(Param)] /\ w.start = k /\ w.params = more
    BY <1>6
  <2>2. QueryLoop(g, ParseFirst, m) = w
    BY <1>7
  <2> HIDE DEF w
  <2>3. w.start > Len(r)
    BY <1>7, <2>1
  <2>4. g[w] = w
    BY <2>1, <2>3 DEF ParseStep, Param
  <2> HIDE DEF g
  <2>5. Len(r) \in Nat
    BY <1>2, LenProperties
  <2> HIDE DEF r
  <2>6. QueryLoop(g, ParseFirst, Len(r)) = w
    BY <1>7, <2>2, <2>4, <2>5, LoopEnds
  <2>7. QED BY <2>1, <2>6 DEF ParseQueryString, g
<1>8. CASE p = <<>>
  <2>1. pair.key = <<>>
    <3>1. PICK k : Decodes(k, pair.key) /\ Len(k) = 0
      <4>1. PICK k, v :
              /\ Written(k, pair.key, FALSE)
              /\ IF pair.eq THEN Written(v, pair.value, TRUE) /\ p = k \o (<<Eq>> \o v) ELSE p = k /\ pair.value = <<>>
        BY DEF PairText
      <4>2. CASE pair.eq
        <5>1. Written(v, pair.value, TRUE) /\ p = k \o (<<Eq>> \o v)
          BY <4>1, <4>2
        <5>2. k \in Seq(Nat) /\ v \in Seq(Nat) /\ Len(k) \in Nat /\ Len(v) \in Nat
          BY <4>1, <5>1, LenProperties DEF Written, Decodes
        <5> DEFINE e == <<Eq>>
        <5>3. e \in Seq(Nat) /\ Len(e) = 1
          BY DEF Eq
        <5> HIDE DEF e
        <5> DEFINE ev == e \o v
        <5>4. Joined(Nat, e, v, ev)
          BY <5>2, <5>3, Joins
        <5>5. Len(ev) = 1 + Len(v) /\ ev \in Seq(Nat)
          BY <5>3, <5>4, Zenon DEF Joined
        <5>6. p = k \o ev
          BY <5>1 DEF e
        <5> HIDE DEF ev
        <5>7. Joined(Nat, k, ev, p)
          BY <5>2, <5>5, <5>6, Joins
        <5>8. Len(p) = Len(k) + Len(ev)
          BY <5>7, Zenon DEF Joined
        <5>9. Len(p) = 0
          BY <1>8, EmptySeq
        <5> DEFINE lk == Len(k)
                   lv == Len(v)
        <5>10. lk \in Nat /\ lv \in Nat /\ Len(p) = lk + (1 + lv)
          BY <5>2, <5>5, <5>8
        <5> HIDE DEF lk, lv
        <5>11. FALSE
          BY <5>9, <5>10
        <5>12. QED BY <5>11
      <4>3. CASE ~pair.eq
        BY <1>8, <4>1, <4>3, EmptySeq DEF Written
      <4>4. QED BY <4>2, <4>3
    <3>2. pair.key \in Seq(Nat) /\ Len(pair.key) <= 0
      BY <3>1 DEF Decodes
    <3>3. QED BY <3>2, EmptySeq
  <2>2. more = params
    BY <1>4, <2>1, ConcatEmptySeq DEF ParamOf
  <2>3. Len(p) = 0
    BY <1>8, EmptySeq
  <2>4. Len(z) + 1 \in Nat /\ Len(z) + 1 > Len(r) /\ n <= Len(r)
    BY <1>1, <1>2, <2>3
  <2>5. QueryLoop(g, ParseFirst, n) = [start |-> Len(z) + 1, params |-> more]
    BY <1>3, <2>2
  <2> HIDE DEF g, r, n, more
  <2>6. ParseQueryString(r) = more
    BY <1>1, <1>7, <2>4, <2>5
  <2>7. QED BY <1>5, <2>6 DEF r, more
<1>9. CASE p # <<>>
  <2>1. <<>> \in Seq(Nat) /\ p \o <<>> = p
    BY <1>1, ConcatEmptySeq, EmptySeq
  <2>2. Turns(z, p, <<>>, pair, params)
    BY <1>1, <1>4, <1>9, <2>1, ParseOne
  <2>3. g[[start |-> Len(z) + 1, params |-> params]] = [start |-> Len(z) + Len(p) + 2, params |-> more]
    BY <2>1, <2>2 DEF Turns
  <2>4. Len(p) # 0
    BY <1>1, <1>9, EmptySeq
  <2>5. Len(z) + Len(p) + 2 \in Nat /\ Len(z) + Len(p) + 2 > Len(r) /\ n + 1 <= Len(r) /\ n + 1 \in Nat
    BY <1>1, <1>2, <2>4
  <2> HIDE DEF g, r, n, more
  <2>6. QueryLoop(g, ParseFirst, n + 1) = g[QueryLoop(g, ParseFirst, n)]
    BY <1>1, LoopNext
  <2>7. QueryLoop(g, ParseFirst, n + 1) = [start |-> Len(z) + Len(p) + 2, params |-> more]
    BY <1>3, <2>3, <2>6, Zenon
  <2>8. ParseQueryString(r) = more
    BY <1>7, <2>5, <2>7
  <2>9. QED BY <1>5, <2>8 DEF r, more
<1>10. QED BY <1>8, <1>9

-----------------------------------------------------------------------------
(* The URL is the path, the text of the parameters that an "&" has ended     *)
(* and the text of the one being written.                                    *)
QueryText(front, last, z, p) ==
  /\ front \in Seq(Pair) /\ last \in Pair
  /\ queryPairs = Append(front, last)
  /\ Parsed(z, front) /\ PairText(last, p)
  /\ queryUrl = <<Slash, Mark>> \o (z \o p)

QueryInv == \E front, last, z, p : QueryText(front, last, z, p)

Prefix == <<Slash, Mark>>

LEMMA PrefixIs == Prefix \in Seq(Nat) /\ Len(Prefix) = 2 /\ Prefix[1] = Slash /\ Prefix[2] = Mark
BY DEF Prefix, Slash, Mark

LEMMA QueryInitInv == QueryInit => QueryInv
<1> SUFFICES ASSUME QueryInit PROVE QueryInv
  OBVIOUS
<1> DEFINE last == [key |-> <<>>, value |-> <<>>, eq |-> FALSE]
<1>1. <<>> \in Seq(Pair) /\ <<>> \in Seq(Nat) /\ last \in Pair
  BY EmptySeq DEF Pair
<1>2. queryPairs = Append(<<>>, last)
  BY DEF QueryInit
<1>3. PairText(last, <<>>)
  <2>1. Written(<<>>, last.key, FALSE) /\ last.value = <<>> /\ ~last.eq
    BY WrittenNothing
  <2> HIDE DEF last
  <2>2. QED BY <2>1, Zenon DEF PairText
<1>4. queryUrl = Prefix \o (<<>> \o <<>>)
  <2>1. <<>> \o <<>> = <<>> /\ Prefix \o <<>> = Prefix
    BY <1>1, PrefixIs, ConcatEmptySeq
  <2>2. QED BY <2>1, Zenon DEF QueryInit, Prefix
<1> HIDE DEF last
<1>5. QueryText(<<>>, last, <<>>, <<>>)
  BY <1>1, <1>2, <1>3, <1>4, ParsedNothing DEF QueryText, Prefix
<1>6. QED BY <1>5 DEF QueryInv

(* The last parameter is changed. *)
Replaced(front, last, x) ==
  [Append(front, last) EXCEPT ![Len(Append(front, last))] = x] = Append(front, x)

LEMMA ReplaceLast ==
  ASSUME NEW front \in Seq(Pair), NEW last \in Pair, NEW x \in Pair
  PROVE  Replaced(front, last, x) /\ Last(Append(front, last)) = last
<1> DEFINE n == Len(front)
           t == Append(front, last)
           s == Append(front, x)
           r == [t EXCEPT ![n + 1] = x]
<1>1. n \in Nat
  BY LenProperties
<1>2. t \in Seq(Pair) /\ Len(t) = n + 1 /\ t[n + 1] = last /\ \A i \in 1..n : t[i] = front[i]
  BY <1>1, AppendProperties
<1>3. s \in Seq(Pair) /\ Len(s) = n + 1 /\ s[n + 1] = x /\ \A i \in 1..n : s[i] = front[i]
  BY <1>1, AppendProperties
<1> HIDE DEF s, t, n
<1>4. n + 1 \in 1..Len(t)
  BY <1>1, <1>2
<1>5. r \in Seq(Pair) /\ Len(r) = Len(t) /\ \A i \in 1..Len(t) : r[i] = IF i = n + 1 THEN x ELSE t[i]
  BY <1>2, <1>4, ExceptSeq
<1> HIDE DEF r
<1>6. ASSUME NEW i \in 1..Len(r) PROVE r[i] = s[i]
  <2>1. i \in 1..n \/ i = n + 1
    BY <1>1, <1>2, <1>5
  <2>2. CASE i = n + 1
    BY <1>3, <1>5, <2>2
  <2>3. CASE i \in 1..n
    <3>1. i # n + 1
      BY <1>1, <2>3
    <3>2. QED BY <1>2, <1>3, <1>5, <2>3, <3>1
  <2>4. QED BY <2>1, <2>2, <2>3
<1>7. Len(r) = Len(s)
  BY <1>2, <1>3, <1>5
<1>8. r = s
  BY <1>3, <1>5, <1>6, <1>7, SeqEqual
<1>9. [t EXCEPT ![Len(t)] = x] = s
  BY <1>2, <1>8 DEF r
<1>10. Last(t) = last
  BY <1>2 DEF Last
<1>11. QED BY <1>9, <1>10 DEF Replaced, t, s

(* The text of the last parameter grows by code. *)
LEMMA QueryGrows ==
  ASSUME NEW front \in Seq(Pair), NEW last \in Pair, NEW x \in Pair, NEW z, NEW p, NEW code \in Seq(Nat),
         QueryText(front, last, z, p), PairText(x, p \o code),
         queryPairs' = [queryPairs EXCEPT ![Len(queryPairs)] = x], queryUrl' = queryUrl \o code
  PROVE  QueryInv'
<1>1. queryPairs' = Append(front, x)
  BY ReplaceLast, Zenon DEF QueryText, Replaced
<1>2. z \in Seq(Nat) /\ p \in Seq(Nat)
  BY PairParam DEF QueryText, Parsed
<1>3. queryUrl = Prefix \o (z \o p)
  BY DEF QueryText, Prefix
<1>4. queryUrl' = Prefix \o (z \o (p \o code))
  <2>1. Associates(Nat, z, p, code)
    BY <1>2, Associate
  <2>a. z \o p \in Seq(Nat)
    BY <2>1 DEF Associates
  <2>2. Associates(Nat, Prefix, z \o p, code)
    BY <2>a, PrefixIs, Associate
  <2>3. (Prefix \o (z \o p)) \o code = Prefix \o ((z \o p) \o code)
    BY <2>2 DEF Associates
  <2>4. (z \o p) \o code = z \o (p \o code)
    BY <2>1 DEF Associates
  <2>5. QED BY <1>3, <2>3, <2>4, Zenon
<1>5. Parsed(z, front)
  BY DEF QueryText
<1> DEFINE q == p \o code
<1>6. PairText(x, q) /\ queryUrl' = Prefix \o (z \o q)
  BY <1>4
<1> HIDE DEF q
<1>7. QueryText(front, x, z, q)'
  BY <1>1, <1>5, <1>6 DEF QueryText, Prefix
<1>8. QED BY <1>7 DEF QueryInv

LEMMA QueryCharInv ==
  ASSUME QueryInv, NEW c \in QueryChars, QueryChar(c)
  PROVE  QueryInv'
<1>1. PICK front, last, z, p : QueryText(front, last, z, p)
  BY DEF QueryInv
<1>2. front \in Seq(Pair) /\ last \in Pair /\ PairText(last, p) /\ queryPairs = Append(front, last)
  BY <1>1 DEF QueryText
<1>3. QueryLast = last
  BY <1>2, ReplaceLast DEF QueryLast
<1>4. PICK code \in QueryCodes(c, QueryLast.eq) :
    /\ queryUrl' = queryUrl \o code
    /\ \/ /\ ~QueryLast.eq /\ Len(QueryLast.key) < QueryLen
          /\ QueryChange([QueryLast EXCEPT !.key = Append(@, c)])
       \/ /\ QueryLast.eq /\ Len(QueryLast.value) < QueryLen
          /\ QueryChange([QueryLast EXCEPT !.value = Append(@, c)])
  BY DEF QueryChar
<1>5. last.eq \in BOOLEAN /\ last.key \in Seq(Nat) /\ last.value \in Seq(Nat)
  BY <1>2 DEF Pair
<1>6. c \in 0..255 /\ c \in Nat
  BY QueryAssumption
<1>7. Coded(c, last.eq, code)
  BY <1>3, <1>4, <1>5, <1>6, CodesCoded
<1>8. code \in Seq(Nat)
  BY <1>7 DEF Coded
<1>9. PICK k, v :
        /\ Written(k, last.key, FALSE)
        /\ IF last.eq THEN Written(v, last.value, TRUE) /\ p = k \o (<<Eq>> \o v) ELSE p = k /\ last.value = <<>>
  BY <1>2 DEF PairText
<1>10. k \in Seq(Nat)
  BY <1>9 DEF Written, Decodes
<1>11. CASE ~last.eq
  <2> DEFINE x == [last EXCEPT !.key = Append(@, c)]
             kc == k \o code
  <2>1. Coded(c, FALSE, code)
    BY <1>5, <1>7, <1>11, Zenon
  <2>2. Written(kc, Append(last.key, c), FALSE)
    BY <1>6, <1>9, <2>1, WrittenMore
  <2>3. Append(last.key, c) \in Seq(Nat)
    BY <1>5, <1>6, AppendProperties
  <2>4. x \in Pair /\ x.key = Append(last.key, c) /\ ~x.eq /\ x.value = <<>>
    BY <1>2, <1>9, <1>11, <2>3 DEF Pair
  <2>5. QueryChange(x)
    BY <1>3, <1>4, <1>11
  <2>6. p \o code = kc
    BY <1>9, <1>11
  <2> HIDE DEF x, kc
  <2>7. PairText(x, kc)
    BY <2>2, <2>4, Zenon DEF PairText
  <2>8. PairText(x, p \o code)
    BY <2>6, <2>7
  <2>9. QED BY <1>1, <1>2, <1>4, <1>8, <2>4, <2>5, <2>8, QueryGrows DEF QueryChange
<1>12. CASE last.eq
  <2> DEFINE x == [last EXCEPT !.value = Append(@, c)]
             vc == v \o code
  <2>1. Coded(c, TRUE, code)
    BY <1>5, <1>7, <1>12, Zenon
  <2>2. Written(v, last.value, TRUE) /\ p = k \o (<<Eq>> \o v)
    BY <1>9, <1>12
  <2>3. v \in Seq(Nat)
    BY <2>2 DEF Written, Decodes
  <2>4. Written(vc, Append(last.value, c), TRUE)
    BY <1>6, <2>1, <2>2, WrittenMore
  <2>5. Append(last.value, c) \in Seq(Nat)
    BY <1>5, <1>6, AppendProperties
  <2>6. x \in Pair /\ x.key = last.key /\ x.eq /\ x.value = Append(last.value, c)
    BY <1>2, <1>12, <2>5 DEF Pair
  <2>7. QueryChange(x)
    BY <1>3, <1>4, <1>12
  <2>8. p \o code = k \o (<<Eq>> \o vc)
    <3> DEFINE e == <<Eq>>
    <3>1. e \in Seq(Nat)
      BY DEF Eq
    <3> HIDE DEF e
    <3>2. Associates(Nat, e, v, code)
      BY <1>8, <2>3, <3>1, Associate
    <3>a. e \o v \in Seq(Nat)
      BY <3>2 DEF Associates
    <3>3. Associates(Nat, k, e \o v, code)
      BY <1>8, <1>10, <3>a, Associate
    <3>4. (k \o (e \o v)) \o code = k \o ((e \o v) \o code)
      BY <3>3 DEF Associates
    <3>5. (e \o v) \o code = e \o vc
      BY <3>2 DEF Associates
    <3>6. (k \o (e \o v)) \o code = k \o (e \o vc)
      BY <3>4, <3>5, Zenon
    <3>7. QED BY <2>2, <3>6 DEF e
  <2> HIDE DEF x, vc
  <2>9. PairText(x, k \o (<<Eq>> \o vc))
    BY <1>9, <2>4, <2>6, Zenon DEF PairText
  <2>10. PairText(x, p \o code)
    BY <2>8, <2>9
  <2>11. QED BY <1>1, <1>2, <1>4, <1>8, <2>6, <2>7, <2>10, QueryGrows DEF QueryChange
<1>13. QED BY <1>11, <1>12

LEMMA QueryEqInv ==
  ASSUME QueryInv, QueryEq
  PROVE  QueryInv'
<1>1. PICK front, last, z, p : QueryText(front, last, z, p)
  BY DEF QueryInv
<1>2. front \in Seq(Pair) /\ last \in Pair /\ PairText(last, p) /\ queryPairs = Append(front, last)
  BY <1>1 DEF QueryText
<1>3. QueryLast = last
  BY <1>2, ReplaceLast DEF QueryLast
<1>4. PICK k, v :
        /\ Written(k, last.key, FALSE)
        /\ IF last.eq THEN Written(v, last.value, TRUE) /\ p = k \o (<<Eq>> \o v) ELSE p = k /\ last.value = <<>>
  BY <1>2 DEF PairText
<1>5. ~last.eq /\ p = k /\ last.value = <<>> /\ k \in Seq(Nat)
  BY <1>3, <1>4 DEF QueryEq, Written, Decodes
<1> DEFINE x == [last EXCEPT !.eq = TRUE]
           e == <<Eq>>
<1>6. x \in Pair /\ x.key = last.key /\ x.eq /\ x.value = <<>>
  BY <1>2, <1>5 DEF Pair
<1>7. QueryChange(x)
  BY <1>3 DEF QueryEq
<1> HIDE DEF x
<1>8. e \in Seq(Nat)
  BY DEF Eq
<1>9. Written(<<>>, <<>>, TRUE)
  BY WrittenNothing
<1>10. e \o <<>> = e
  BY <1>8, ConcatEmptySeq
<1>11. PairText(x, k \o (e \o <<>>))
  BY <1>4, <1>6, <1>9, Zenon DEF PairText
<1>12. PairText(x, p \o e)
  BY <1>5, <1>10, <1>11, Zenon
<1>13. queryUrl' = queryUrl \o e
  <2>1. queryUrl \in Seq(Nat)
    <3>1. z \in Seq(Nat) /\ p \in Seq(Nat)
      BY <1>1, <1>5 DEF QueryText, Parsed
    <3>2. z \o p \in Seq(Nat)
      BY <3>1, ConcatProperties
    <3>3. Prefix \o (z \o p) \in Seq(Nat)
      BY <3>2, PrefixIs, ConcatProperties
    <3>4. QED BY <1>1, <3>3 DEF QueryText, Prefix
  <2>2. queryUrl' = Append(queryUrl, Eq) /\ Eq \in Nat
    BY DEF QueryEq, Eq
  <2>3. Append(queryUrl, Eq) = queryUrl \o <<Eq>>
    BY <2>1, <2>2, AppendIsConcat
  <2>4. QED BY <2>2, <2>3
<1> HIDE DEF e
<1>14. QED BY <1>1, <1>2, <1>6, <1>7, <1>8, <1>12, <1>13, QueryGrows DEF QueryChange

LEMMA QueryAmpInv ==
  ASSUME QueryInv, QueryAmp
  PROVE  QueryInv'
<1>1. PICK front, last, z, p : QueryText(front, last, z, p)
  BY DEF QueryInv
<1>2. /\ front \in Seq(Pair) /\ last \in Pair /\ PairText(last, p) /\ queryPairs = Append(front, last)
      /\ Parsed(z, front) /\ queryUrl = Prefix \o (z \o p)
  BY <1>1 DEF QueryText, Prefix
<1>3. z \in Seq(Nat) /\ p \in Seq(Nat)
  BY <1>2, PairParam DEF Parsed
<1> DEFINE x == [key |-> <<>>, value |-> <<>>, eq |-> FALSE]
           a == <<Amp>>
           y == z \o (p \o a)
           t == Append(front, last)
<1>4. x \in Pair /\ Written(<<>>, x.key, FALSE) /\ x.value = <<>> /\ ~x.eq
  BY EmptySeq, WrittenNothing DEF Pair
<1>5. Parsed(y, t)
  BY <1>2, ParsedMore
<1>6. t \in Seq(Pair) /\ queryPairs' = Append(t, x)
  BY <1>2, AppendProperties DEF QueryAmp
<1> HIDE DEF x, t
<1>7. PairText(x, <<>>)
  BY <1>4, Zenon DEF PairText
<1>8. a \in Seq(Nat)
  BY DEF Amp
<1>9. queryUrl \in Seq(Nat) /\ z \o p \in Seq(Nat)
  BY <1>2, <1>3, PrefixIs, ConcatProperties
<1>10. queryUrl' = queryUrl \o a
  BY <1>9, AppendIsConcat DEF QueryAmp, Amp
<1> HIDE DEF a
<1>11. y \in Seq(Nat) /\ (z \o p) \o a = y
  <2>1. Associates(Nat, z, p, a)
    BY <1>3, <1>8, Associate
  <2>2. QED BY <2>1 DEF Associates
<1> HIDE DEF y
<1>12. queryUrl' = Prefix \o (y \o <<>>)
  <2>1. Associates(Nat, Prefix, z \o p, a)
    BY <1>8, <1>9, PrefixIs, Associate
  <2>2. (Prefix \o (z \o p)) \o a = Prefix \o ((z \o p) \o a)
    BY <2>1 DEF Associates
  <2>3. y \o <<>> = y
    BY <1>11, ConcatEmptySeq
  <2>4. QED BY <1>2, <1>10, <1>11, <2>2, <2>3, Zenon
<1>13. QueryText(t, x, y, <<>>)'
  BY <1>4, <1>5, <1>6, <1>7, <1>12 DEF QueryText, Prefix
<1>14. QED BY <1>13 DEF QueryInv

LEMMA QueryInvExact == QueryInv => QueryExact
<1> SUFFICES ASSUME QueryInv PROVE QueryExact
  OBVIOUS
<1>1. PICK front, last, z, p : QueryText(front, last, z, p)
  BY DEF QueryInv
<1>2. /\ front \in Seq(Pair) /\ last \in Pair /\ PairText(last, p) /\ queryPairs = Append(front, last)
      /\ Parsed(z, front) /\ queryUrl = Prefix \o (z \o p)
  BY <1>1 DEF QueryText, Prefix
<1>3. z \in Seq(Nat) /\ p \in Seq(Nat)
  BY <1>2, PairParam DEF Parsed
<1> DEFINE r == z \o p
           u == Prefix \o r
           n == Len(u)
<1>4. r \in Seq(Nat)
  BY <1>3, ConcatProperties
<1>5. Carries(ParseQueryString(r), queryPairs)
  BY <1>2, ParsesLast
<1> HIDE DEF r
<1>6. Joined(Nat, Prefix, r, u)
  BY <1>4, PrefixIs, Joins
<1>7. u \in Seq(Nat) /\ Len(u) = 2 + Len(r) /\ Len(r) \in Nat /\ u[1] = Slash /\ u[2] = Mark
      /\ \A i \in 1..Len(r) : u[2 + i] = r[i]
  <2>1. 1 \in 1..Len(Prefix) /\ 2 \in 1..Len(Prefix)
    BY PrefixIs
  <2>2. QED BY <1>6, <2>1, PrefixIs DEF Joined
<1>8. queryUrl = u
  BY <1>2 DEF r
<1> HIDE DEF u
<1>9. QueryFind(u, Mark, 1) = 2
  <2>1. Finds(u, Mark, 1, 2)
    <3>1. \A i \in 1..2 - 1 : i = 1
      OBVIOUS
    <3>2. 2 \in 1..Len(u) + 1 /\ Slash # Mark
      BY <1>7 DEF Slash, Mark
    <3>3. QED BY <1>7, <3>1, <3>2 DEF Finds
  <2>2. 1 \in 1..Len(u) + 1
    BY <1>7
  <2>3. QED BY <1>7, <2>1, <2>2, FindsOnce
<1>10. SubSeq(u, 1, 2 - 1) = <<Slash>>
  <2> DEFINE s == SubSeq(u, 1, 1)
  <2>1. s \in Seq(Nat) /\ Len(s) = 1 /\ \A i \in 1..1 : s[i] = u[i]
    BY <1>7, Cut
  <2> HIDE DEF s
  <2>2. s[1] = Slash /\ <<Slash>> \in Seq(Nat)
    BY <1>7, <2>1 DEF Slash
  <2>3. s = <<Slash>>
    BY <2>1, <2>2, SeqEqual
  <2>4. 2 - 1 = 1
    OBVIOUS
  <2>5. QED BY <2>3, <2>4 DEF s
<1>11. SubSeq(u, 2 + 1, Len(u)) = r
  <2> DEFINE s == SubSeq(u, 2 + 1, Len(u))
  <2>1. s \in Seq(Nat) /\ Len(s) = Len(u) - 2 /\ \A i \in 1..Len(u) - 2 : s[i] = u[2 + i]
    BY <1>7, Cut
  <2> HIDE DEF s
  <2>a. Len(u) - 2 = Len(r)
    BY <1>7
  <2>2. Len(s) = Len(r) /\ \A i \in 1..Len(s) : s[i] = r[i]
    BY <1>7, <2>1, <2>a, Zenon
  <2>3. s = r
    BY <1>4, <2>1, <2>2, SeqEqual
  <2>4. QED BY <2>3 DEF s
<1>12. SetUrl.path = <<Slash>> /\ SetUrl.query = ParseQueryString(r)
  <2> DEFINE pos == QueryFind(queryUrl, Mark, 1)
  <2>1. pos = 2
    BY <1>8, <1>9
  <2>2. SetUrl.path = SubSeq(queryUrl, 1, pos - 1)
        /\ SetUrl.query = ParseQueryString(SubSeq(queryUrl, pos + 1, Len(queryUrl)))
    BY DEF SetUrl
  <2> HIDE DEF pos
  <2>3. SetUrl.path = SubSeq(u, 1, 2 - 1)
    BY <1>8, <2>1, <2>2, Zenon
  <2>4. SetUrl.query = ParseQueryString(SubSeq(u, 2 + 1, Len(u)))
    BY <1>8, <2>1, <2>2, Zenon
  <2>5. QED BY <1>10, <1>11, <2>3, <2>4, Zenon
<1>13. PICK at : CarriesAt(SetUrl.query, queryPairs, at)
  BY <1>5, <1>12 DEF Carries
<1>14. QED BY <1>12, <1>13, Zenon DEF QueryExact, CarriesAt, Named

(* Whatever parameters the client puts into the URL, with any characters and *)
(* any of the allowed ways to write each, the query holds those with a key,  *)
(* in their order, and no other (HttpRequest.cpp:76-92, 186-240).            *)
THEOREM QueryExactAlways == QuerySpec => []QueryExact
<1>1. QueryInv /\ [QueryStep]_queryVars => QueryInv'
  <2> SUFFICES ASSUME QueryInv, [QueryStep]_queryVars PROVE QueryInv'
    OBVIOUS
  <2>1. CASE QueryEq
    BY <2>1, QueryEqInv
  <2>2. CASE QueryAmp
    BY <2>2, QueryAmpInv
  <2>3. CASE \E c \in QueryChars : QueryChar(c)
    BY <2>3, QueryCharInv
  <2>4. CASE UNCHANGED queryVars
    BY <2>4 DEF queryVars, QueryInv, QueryText
  <2>5. QED BY <2>1, <2>2, <2>3, <2>4 DEF QueryStep
<1>2. QED BY <1>1, QueryInitInv, QueryInvExact, PTL DEF QuerySpec
=============================================================================
