------------------------------ MODULE FileStore ------------------------------
(***************************************************************************)
(* What the service promises about the files of its users: a stored file   *)
(* is complete from the moment it is stored, keeps its owner and content,  *)
(* and goes only as a whole.  Partly uploaded files are never stored.      *)
(***************************************************************************)
VARIABLE stored     (* set of [name, owner, content] *)

(* The files a former run left have names of their own. *)
StoreInit == \A f, g \in stored : f.name = g.name => f = g

Store(f)  == /\ \A g \in stored : g.name # f.name
             /\ stored' = stored \cup {f}

Remove(f) == f \in stored /\ stored' = stored \ {f}

(* Only files that are there before or after a step can be stored or removed *)
(* by it.                                                                    *)
StoreNext == \/ \E f \in stored : Remove(f)
             \/ \E f \in stored' : Store(f)

StoreSafety == StoreInit /\ [][StoreNext]_stored

=============================================================================
