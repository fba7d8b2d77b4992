----------------------------- MODULE MCRequests -----------------------------
(* What becomes of the bytes of a request: the input of a connection, its    *)
(* Buffer, the query string, the route trie and a download.  They share no   *)
(* state and are checked in one run: a behaviour is of one part.             *)
EXTENDS HttpInput, ByteBuffer, RouteTrie, FileDownload, QueryString

Get(id)            == Request(id, "good", <<>>, "none", <<>>, FALSE, FALSE)
Post(id, body)     == Request(id, "good", <<>>, "length", body, FALSE, FALSE)
Chunky(id, body)   == Request(id, "good", <<1>>, "chunked", body, FALSE, FALSE)
Upload(id, body)   == Request(id, "good", <<>>, "length", body, TRUE, FALSE)
ChunkUp(id, body)  == Request(id, "good", <<>>, "chunked", body, TRUE, FALSE)
Closing(id)        == Request(id, "good", <<>>, "none", <<>>, FALSE, TRUE)
Bad(id, line, heads) == Request(id, line, heads, "none", <<>>, FALSE, FALSE)

Mixture == {<<Post(1, <<1, 2>>), Get(2)>>,
            <<Chunky(1, <<1, 2, 3>>), Post(2, <<4>>)>>,
            <<Upload(1, <<1, 2, 3, 4, 5>>), Get(2)>>,
            <<ChunkUp(1, <<1, 2, 3>>), Get(2)>>,
            <<Closing(1), Get(2)>>,
            <<Get(1), Bad(2, "none", <<>>)>>,
            <<Get(1), Bad(2, "odd", <<1>>)>>,
            <<Bad(1, "odd", <<>>), Get(2)>>,
            <<Request(1, "odd", <<>>, "none", <<>>, FALSE, TRUE), Get(2)>>,
            <<Get(1), Bad(2, "good", <<0>>)>>,
            <<Post(1, <<>>), Bad(2, "good", <<3>>)>>,
            <<Get(1), Get(2), Get(3), Get(4)>>}

MCRoutes ==
  LET keys == UNION {[1..n -> {"a", "*", "**"}] : n \in 0..2}
                \cup {<<"a", "a", "a">>, <<"a", "*", "b">>, <<"**", "a", "b">>, <<"*", "**", "b">>, <<"a", "**", "b">>}
  IN [keys : keys, method : TrieMethods]

VARIABLE part
partVars == <<part, vars, bufVars, trieVars, downVars, queryVars>>

Others(name) ==
  /\ UNCHANGED part
  /\ name # "input" => UNCHANGED vars
  /\ name # "buffer" => UNCHANGED bufVars
  /\ name # "trie" => UNCHANGED trieVars
  /\ name # "down" => UNCHANGED downVars
  /\ name # "query" => UNCHANGED queryVars

(* A part that a behaviour is not of has one initial state.                  *)
PartsInit ==
  /\ part \in {"input", "buffer", "trie", "down", "query"}
  /\ Init /\ (part # "input" => stream = CHOOSE s \in Streams : TRUE)
  /\ BufInit /\ TrieInit /\ QueryInit
  /\ DownInit /\ (part # "down" => downSize = 0 /\ downRange = [kind |-> "other"])

InputPart == part = "input" /\ Loop /\ Others("input")

PartsNext ==
  \/ InputPart
  \/ part = "input" /\ (Fin \/ \E k \in 1..Len(wire) : Arrive(k)) /\ Others("input")
  \/ part = "buffer" /\ BufNext /\ Others("buffer")
  \/ part = "trie" /\ (\E route \in TrieRoutes : TrieAdd(route)) /\ Others("trie")
  \/ part = "down" /\ DownStep /\ Others("down")
  \/ part = "query" /\ QueryStep /\ Others("query")

(* The loop's thread runs on.                                                *)
PartsSpec == PartsInit /\ [][PartsNext]_partVars /\ WF_partVars(InputPart)
=============================================================================
