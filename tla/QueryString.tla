----------------------------- MODULE QueryString -----------------------------
(***************************************************************************)
(* HttpRequest::SetUrl: the query part of a URL, split at "&" and "=" and  *)
(* percent-decoded.  Characters are their ASCII codes.                     *)
(***************************************************************************)
EXTENDS Naturals, Sequences, SequencesExt

CONSTANTS
  QueryChars,   (* characters of keys and values                            *)
  QueryParams,  (* bound: parameters                                        *)
  QueryLen      (* bound: characters of a key or a value                    *)

ASSUME QueryAssumption == QueryChars \subseteq 0..255 /\ QueryParams \in Nat /\ QueryLen \in Nat

VARIABLES
  queryUrl,     (* the URL                                                  *)
  queryPairs    (* history: the parameters the client put into it           *)

queryVars == <<queryUrl, queryPairs>>

Amp == 38
Eq == 61
Percent == 37
Plus == 43
Space == 32
Mark == 63
Slash == 47

(* The two digits of a percent-encoding, in upper and in lower case. *)
QueryDigit(n) == IF n < 10 THEN {48 + n} ELSE {55 + n, 87 + n}
QueryEscapes(c) == {<<Percent, h, l>> : h \in QueryDigit(c \div 16), l \in QueryDigit(c % 16)}

(* What a client may write for a character: "=" is plain in a value only. *)
QueryCodes(c, invalue) ==
  QueryEscapes(c)
    \cup (IF c = Space THEN {<<Plus>>} ELSE {})
    \cup (IF c \in {Space, Plus, Amp, Percent} \/ (c = Eq /\ ~invalue) THEN {} ELSE {<<c>>})

QueryInit == queryUrl = <<Slash, Mark>> /\ queryPairs = <<[key |-> <<>>, value |-> <<>>, eq |-> FALSE]>>

QueryLast == Last(queryPairs)
QueryChange(pair) == queryPairs' = [queryPairs EXCEPT ![Len(queryPairs)] = pair]

QueryChar(c) ==
  \E code \in QueryCodes(c, QueryLast.eq) :
    /\ queryUrl' = queryUrl \o code
    /\ \/ /\ ~QueryLast.eq /\ Len(QueryLast.key) < QueryLen
          /\ QueryChange([QueryLast EXCEPT !.key = Append(@, c)])
       \/ /\ QueryLast.eq /\ Len(QueryLast.value) < QueryLen
          /\ QueryChange([QueryLast EXCEPT !.value = Append(@, c)])

QueryEq ==
  /\ ~QueryLast.eq
  /\ queryUrl' = Append(queryUrl, Eq)
  /\ QueryChange([QueryLast EXCEPT !.eq = TRUE])

QueryAmp ==
  /\ Len(queryPairs) < QueryParams
  /\ queryUrl' = Append(queryUrl, Amp)
  /\ queryPairs' = Append(queryPairs, [key |-> <<>>, value |-> <<>>, eq |-> FALSE])

QueryStep == QueryEq \/ QueryAmp \/ \E c \in QueryChars : QueryChar(c)

QuerySpec == QueryInit /\ [][QueryStep]_queryVars

-----------------------------------------------------------------------------
QueryHex(c) ==
  CASE c \in 48..57 -> c - 48 [] c \in 97..102 -> c - 87 [] c \in 65..70 -> c - 55 [] OTHER -> 16

(* find(c, start), the end of the text standing for npos. *)
QueryFind(s, c, start) ==
  LET at == {i \in start..Len(s) : s[i] = c} IN IF at = {} THEN Len(s) + 1 ELSE Min(at)

(* The n-th state of a loop, from its first one. *)
QueryLoop(step, first, n) ==
  LET state[k \in 0..n] == IF k = 0 THEN first ELSE step[state[k - 1]] IN state[n]

(* Mutant: an encoding at the end of the text is taken as it is. *)
MutantQueryEscapedShort(s, i) ==
  s[i] = Percent /\ i + 2 < Len(s) /\ QueryHex(s[i + 1]) < 16 /\ QueryHex(s[i + 2]) < 16

QueryEscaped(s, i) ==
  s[i] = Percent /\ i + 2 <= Len(s) /\ QueryHex(s[i + 1]) < 16 /\ QueryHex(s[i + 2]) < 16

(* The loop of UrlDecode: i, the next character, and out. *)
DecodeFirst == [i |-> 1, out |-> <<>>]
DecodeStep(s) ==
  [w \in [i : Nat, out : Seq(Nat)] |->
    IF w.i > Len(s) THEN w
    ELSE IF QueryEscaped(s, w.i)
         THEN [i |-> w.i + 3, out |-> Append(w.out, 16 * QueryHex(s[w.i + 1]) + QueryHex(s[w.i + 2]))]
         ELSE [i |-> w.i + 1, out |-> Append(w.out, IF s[w.i] = Plus THEN Space ELSE s[w.i])]]
UrlDecode(s) == QueryLoop(DecodeStep(s), DecodeFirst, Len(s)).out

(* One pair of ParseQueryString; one with an empty key is dropped. *)
QueryParam(pair) ==
  LET eq  == QueryFind(pair, Eq, 1)
      key == UrlDecode(SubSeq(pair, 1, eq - 1))
  IN IF key = <<>> THEN <<>> ELSE <<[key |-> key, value |-> UrlDecode(SubSeq(pair, eq + 1, Len(pair)))]>>

(* The loop of ParseQueryString: start, and the parameters so far. *)
ParseFirst == [start |-> 1, params |-> <<>>]
ParseStep(raw) ==
  [w \in [start : Nat, params : Seq([key : Seq(Nat), value : Seq(Nat)])] |->
    LET amp == QueryFind(raw, Amp, w.start)
    IN IF w.start > Len(raw) THEN w
       ELSE [start |-> amp + 1, params |-> w.params \o QueryParam(SubSeq(raw, w.start, amp - 1))]]
ParseQueryString(raw) == QueryLoop(ParseStep(raw), ParseFirst, Len(raw)).params

(* SetUrl splits at the first "?". *)
SetUrl ==
  LET pos == QueryFind(queryUrl, Mark, 1)
  IN [path |-> SubSeq(queryUrl, 1, pos - 1), query |-> ParseQueryString(SubSeq(queryUrl, pos + 1, Len(queryUrl)))]

-----------------------------------------------------------------------------
(* Every parameter with a key arrives with the value that the client encoded *)
(* and in its order, in whatever of the allowed forms each character was     *)
(* written, and no other does (HttpRequest.cpp:76-92, 186-240).              *)
QueryExact ==
  LET query == SetUrl.query
      named == {i \in DOMAIN queryPairs : queryPairs[i].key # <<>>}
  IN /\ SetUrl.path = <<Slash>>
     /\ \E at \in [DOMAIN query -> named] :
          /\ \A i \in named : \E k \in DOMAIN query : at[k] = i
          /\ \A k, m \in DOMAIN query : k < m => at[k] < at[m]
          /\ \A k \in DOMAIN query :
               query[k] = [key |-> queryPairs[at[k]].key, value |-> queryPairs[at[k]].value]
=============================================================================
