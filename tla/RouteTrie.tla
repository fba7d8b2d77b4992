------------------------------ MODULE RouteTrie ------------------------------
(***************************************************************************)
(* RouteTrie: a trie of path segments whose search prefers a static child  *)
(* to a parameter child and that to a wildcard child, and backtracks.  A   *)
(* node is the sequence of keys that leads to it.                          *)
(***************************************************************************)
EXTENDS Naturals, Sequences, FiniteSets, SequencesExt

CONSTANTS
  TrieRoutes,   (* routes that may be added: [keys, method], a key being a  *)
                (* segment, "*" for a parameter or "**"                     *)
  TrieMethods, TrieSegments,
  TriePath,     (* bound: segments of a request's path                      *)
  TrieMax       (* bound: routes                                            *)

TrieKeys == TrieSegments \cup {"*", "**"}

(* A request's segment "**" would find a wildcard child as a static one. *)
ASSUME TrieAssumption ==
  /\ TrieRoutes \subseteq [keys : Seq(TrieKeys), method : TrieMethods]
  /\ "**" \notin TrieSegments
  /\ TriePath \in Nat /\ TrieMax \in Nat

VARIABLES
  trieNodes,    (* the nodes                                                *)
  trieHandlers  (* the handlers of a node: methods, as added with it        *)

trieVars == <<trieNodes, trieHandlers>>

TrieInit == trieNodes = {<<>>} /\ trieHandlers = {}

(* addRoute.  A node keeps one handler per method, the last added; which of  *)
(* two it is, and the names of parameters, change no search.                 *)
TrieAdd(route) ==
  /\ Cardinality(trieHandlers) < TrieMax
  /\ trieNodes' = trieNodes \cup {SubSeq(route.keys, 1, n) : n \in 0..Len(route.keys)}
  /\ trieHandlers' = trieHandlers \cup {route}

TrieSpec == TrieInit /\ [][\E route \in TrieRoutes : TrieAdd(route)]_trieVars

TrieLeaf(node) == \E route \in trieHandlers : route.keys = node

(* findMatches for the node and the i-th segment on: the leaves that the    *)
(* rest of the path leads to, in the order in which they are found.  search  *)
(* is what it gives for the children.                                        *)
TrieBelow(search, child, i) == IF child \in trieNodes THEN search[child][i] ELSE <<>>
TrieFrom(search, node, path) ==
  [i \in 0..Len(path) |->
    IF i = Len(path) THEN IF TrieLeaf(node) THEN <<node>> ELSE <<>>
    ELSE TrieBelow(search, Append(node, path[i + 1]), i + 1)
           \o TrieBelow(search, Append(node, "*"), i + 1)
           \o FlattenSeq([n \in 1..Len(path) - i + 1 |-> TrieBelow(search, Append(node, "**"), i + n - 1)])]

TrieMatches(path) ==
  LET search[node \in trieNodes] == TrieFrom(search, node, path) IN search[<<>>][0]

(* Mutant: the first match alone is asked for the method. *)
MutantTrieFindFirstOnly(path, method) ==
  LET matches == TrieMatches(path)
  IN {i \in DOMAIN matches : i = 1 /\ [keys |-> matches[i], method |-> method] \in trieHandlers}

(* findRoute: the matches that have a handler for the method. *)
TrieFind(path, method) ==
  LET matches == TrieMatches(path)
  IN {i \in DOMAIN matches : [keys |-> matches[i], method |-> method] \in trieHandlers}

TrieFound(path, method) ==
  LET found == TrieFind(path, method)
  IN TrieMatches(path)[CHOOSE i \in found : \A j \in found : i <= j]

-----------------------------------------------------------------------------
(* A way in which a route fits a path: its keys cut the path into            *)
(* consecutive pieces, one equal segment for a static key, one segment for a *)
(* parameter, any number, none included, for "**" (RouterTrie.cpp:117).      *)
TrieFits(keys, path) ==
  {cut \in [0..Len(keys) -> 0..Len(path)] :
    /\ cut[0] = 0 /\ cut[Len(keys)] = Len(path)
    /\ \A i \in 1..Len(keys) :
         IF keys[i] = "**" THEN cut[i] >= cut[i - 1]
         ELSE /\ cut[i] = cut[i - 1] + 1
              /\ keys[i] \in {"*", path[cut[i]]}}

(* The ways in which every key begins within the path.  The search knows no  *)
(* other: where the path ends it asks for a leaf and for no further key      *)
(* (RouterTrie.cpp:87), so "/a/**" is not found for "/a".                    *)
TrieFitsWithin(keys, path) ==
  {cut \in TrieFits(keys, path) : \A i \in 1..Len(keys) : cut[i - 1] < Len(path)}

TrieRank(key) == CASE key = "**" -> 3 [] key = "*" -> 2 [] OTHER -> 1

(* At the first key where the ways differ, the first way has the more static *)
(* key, or the same one for fewer segments.                                  *)
TriePreferred(keys, cut, keys2, cut2) ==
  \A i \in DOMAIN keys \cap DOMAIN keys2 :
    (\A j \in 1..i - 1 : keys[j] = keys2[j] /\ cut[j] = cut2[j]) =>
      \/ TrieRank(keys[i]) < TrieRank(keys2[i])
      \/ TrieRank(keys[i]) = TrieRank(keys2[i]) /\ cut[i] <= cut2[i]

TriePaths == UNION {[1..n -> TrieSegments] : n \in 0..TriePath}

(* A request gets a handler if a route of its method fits its path with     *)
(* every key in it, and only of a route that fits: of several the one that   *)
(* is static for longest, or takes fewest segments for a wildcard.  However  *)
(* the routes overlap, the search does not stop at a match without the       *)
(* method, and backs out of a static branch that ends nowhere                *)
(* (RouterTrie.cpp:57-129).                                                  *)
TrieFinds ==
  \A path \in TriePaths, method \in TrieMethods :
    LET others == {route \in trieHandlers : route.method = method}
        found  == TrieFound(path, method)
    IN IF TrieFind(path, method) = {}
       THEN \A route \in others : TrieFitsWithin(route.keys, path) = {}
       ELSE \E cut \in TrieFits(found, path) : \A other \in others :
              \A cut2 \in TrieFitsWithin(other.keys, path) :
                TriePreferred(found, cut, other.keys, cut2)
=============================================================================
