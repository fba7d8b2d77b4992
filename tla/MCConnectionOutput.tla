------------------------- MODULE MCConnectionOutput -------------------------
(* Instances of ConnectionOutput for TLC. *)
EXTENDS OutputInvariant

Ask(kinds, closes) == [kind : kinds, close : closes]

Pipelined == Ask({"plain", "json"}, BOOLEAN)
Single    == Ask({"json", "file", "range", "download"}, {FALSE})
Mixed     == Ask({"plain", "range", "download"}, {FALSE})

Small == [k \in Kinds |-> IF k = "plain" THEN 2 ELSE 3]
Large == [k \in Kinds |-> IF k = "download" THEN 6 ELSE 4]

=============================================================================
