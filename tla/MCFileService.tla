---------------------------- MODULE MCFileService ----------------------------
(* Small instances of FileService. *)
EXTENDS FileService, TLC

CONSTANTS l1, l2, u1, u2, s1, s2

One  == <<"B", "H", "d", "d", "N", "B", "E", "T">>
Two  == <<"B", "H", "d", "N", "B", "H", "d", "N", "B", "E">>

Mix(ops, bodies, old) == [ops |-> ops, bodies |-> bodies, old |-> old]

Alike == Permutations({l1, l2}) \cup Permutations({s1, s2}) \cup Permutations({u1, u2})

MixesAll == {Mix({"delete"}, {One, Two}, 0),
             Mix({"delete", "download", "list"}, {}, 1),
             Mix({"share", "delete", "private"}, {}, 1),
             Mix({"codeload", "delete"}, {}, 1),
             Mix({"shareload", "private"}, {}, 1),
             Mix({"access", "delete"}, {}, 1),
             Mix({"page", "info", "list"}, {}, 1),
             Mix({"login", "logout", "register", "search"}, {}, 0)}

MixesUpload == {Mix({}, {One}, 0)}

MixesPrivate == {Mix({"private"}, {}, 1)}

=============================================================================
