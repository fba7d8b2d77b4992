----------------------------- MODULE FileService -----------------------------
(***************************************************************************)
(* The handlers of http_upload: several loop threads serve requests over   *)
(* one MYSQL handle, which no lock protects, and one upload directory.  A  *)
(* step is one call of the client library, one access to the directory or  *)
(* one segment of an upload; Resume is the code between two queries.  File *)
(* names stand for row ids too: each upload inserts its own name.          *)
(***************************************************************************)
EXTENDS Naturals, Sequences, FiniteSetsExt

CONSTANTS
  Loops,      (* threads of the loop pool                                   *)
  Users,      (* names accounts may have                                    *)
  Sessions,   (* session ids                                                *)
  Threshold,  (* onMessage hands over a partial body of so many units       *)
  MaxFiles,   (* bound: names in the upload directory                       *)
  MaxShares,  (* bound: shares created                                      *)
  Mixes,      (* [ops, bodies, old]: the requests and multipart bodies the  *)
              (* clients of a behaviour send, and the number of files a     *)
              (* former run of the server left                              *)
  None

Units    == {"B",  (* the boundary                                          *)
             "H",  (* the headers of a part, with the empty line            *)
             "N",  (* a line end, such as the one that begins a delimiter   *)
             "E",  (* the two dashes that make a boundary the last          *)
             "T",  (* the line end after it                                 *)
             "d"}  (* data                                                  *)
Content  == Seq(Units)
Absent   == <<"absent">>
Kinds    == {"public", "protected", "user"}
MustAuth == {"upload", "delete", "list", "share", "private", "search"}
ByCode   == {"codeload", "shareload", "access", "page"}
Loads    == {"download", "codeload", "shareload"}
Ops      == MustAuth \cup ByCode \cup {"download", "info", "login", "logout", "register"}

ASSUME FileServiceAssumption ==
  /\ Threshold \in Nat /\ Threshold > 1
  /\ MaxFiles \in Nat /\ MaxShares \in Nat
  /\ \A m \in Mixes : m.ops \subseteq Ops /\ m.bodies \subseteq Content /\ m.old \in Nat
  /\ None \notin Users \cup Sessions \cup Loops

VARIABLES
  mix,       (* what clients of this behaviour send                         *)
  users,     (* table users                                                 *)
  sessions,  (* table sessions: the user of a session not expired           *)
  files,     (* table files                                                 *)
  shares,    (* table file_shares                                           *)
  made,      (* AUTO_INCREMENT of file_shares                               *)
  disk,      (* the upload directory: content by name                       *)
  handle,    (* the loop whose result the MYSQL handle still holds          *)
  job,       (* the request a loop is handling, or has answered last        *)
  up,        (* the upload of a connection of each loop                     *)
  granted,   (* history: who a loop answers had the right to read, at some  *)
             (* moment since the request came                               *)
  whole      (* history: [name, content] of uploads cut at no bad place     *)

database == <<users, sessions, files, shares, made>>
vars == <<mix, database, disk, handle, job, up, granted, whole>>

NoJob    == [op |-> "none", pc |-> "done", sess |-> None, user |-> None, name |-> 0, share |-> 0,
             kind |-> "none", with |-> None, key |-> FALSE, rows |-> {}, left |-> {}, status |-> 0]
NoUpload == [sess |-> None, sent |-> <<>>, todo |-> <<>>, body |-> <<>>, ctx |-> 0,
             state |-> "headers", torn |-> FALSE]

Idle(l)      == job[l].pc = "done"
At(l, pc)    == job[l].pc = pc
Go(j, pc)    == [j EXCEPT !.pc = pc, !.rows = {}]
Reply(st)     == [NoJob EXCEPT !.status = st]
Become(l, j) == job' = [job EXCEPT ![l] = j]
Only(S)      == CHOOSE x \in S : TRUE

(* Any answer to a complete upload request closes the connection once it is  *)
(* written, and its context goes with it.                                    *)
Continue(l, j) ==
  /\ Become(l, j)
  /\ up' = IF j.pc = "done" /\ job[l].op = "upload" /\ up[l].todo = <<>>
           THEN [up EXCEPT ![l] = NoUpload] ELSE up

UserOf(s) == IF s = None THEN None ELSE sessions[s]

(* The right to read the file asked for, by what the owner has granted. *)
MayRead(l) ==
  LET j   == job[l]
      who == IF j.user # None THEN j.user ELSE UserOf(j.sess)
  IN  \E f \in files :
        /\ f.name = j.name \/ j.op = "access"
        /\ \/ f.owner = who /\ j.op = "download"
           \/ \E c \in shares :
                /\ c.id = j.share /\ c.file = f.name /\ c.live
                /\ \/ who # None /\ who \in {f.owner, c.with}
                   \/ c.kind = "public"
                   \/ c.kind = "protected" /\ j.key

Remember == granted' = [l \in Loops |-> ~Idle(l) /\ (granted[l] \/ MayRead(l))]

(* The tables and files as a former run may have left them. *)
Init ==
  /\ mix \in Mixes
  /\ users \in SUBSET Users
  /\ sessions \in [Sessions -> users \cup {None}]
  /\ IF users = {} THEN files = {}
     ELSE \E o \in [1..mix.old -> users] : files = {[name |-> n, owner |-> o[n]] : n \in 1..mix.old}
  /\ \/ shares = {} /\ made = 0
     \/ \E f \in files, k \in Kinds, w \in users \cup {None} :
          /\ k # "user" => w = None
          /\ shares = {[id |-> 1, file |-> f.name, kind |-> k, with |-> w, live |-> TRUE]} /\ made = 1
  /\ disk = [n \in 1..mix.old |-> <<"d">>]
  /\ handle = None
  /\ job = [l \in Loops |-> NoJob]
  /\ up = [l \in Loops |-> NoUpload]
  /\ granted = [l \in Loops |-> FALSE]
  /\ whole = {}

-----------------------------------------------------------------------------
(* Requests.                                                                 *)

(* The first statement of a handler. *)
Start(op) == CASE op = "info"                  -> "code"
               [] op \in {"login", "register"} -> "account"
               [] op = "logout"                -> "logout"
               [] OTHER                        -> "auth"

Request(op, s, u, n, c, k, w, key) ==
  [NoJob EXCEPT !.op = op, !.pc = Start(op), !.sess = s, !.user = u, !.name = n, !.share = c,
                !.kind = k, !.with = w, !.key = key]

(* What clients send: a session or none, a file name, a share code with or   *)
(* without its extract code.                                                 *)
Ask(l, op) ==
  LET names == 1..Len(disk) codes == 1..made all == Sessions \cup {None} IN
  \/ /\ op \in {"login", "register"}
     /\ \E u \in Users : Become(l, Request(op, None, u, 0, 0, "none", None, FALSE))
  \/ /\ op \in {"logout", "search"}
     /\ \E s \in Sessions : Become(l, Request(op, s, None, 0, 0, "none", None, FALSE))
  \/ /\ op = "list"
     /\ \E s \in Sessions, k \in {"my", "shared", "all"} :
          Become(l, Request(op, s, None, 0, 0, k, None, FALSE))
  \/ /\ op \in {"delete", "private"}
     /\ \E s \in Sessions, n \in names : Become(l, Request(op, s, None, n, 0, "none", None, FALSE))
  \/ /\ op = "download"
     /\ \E s \in all, n \in names : Become(l, Request(op, s, None, n, 0, "none", None, FALSE))
  \/ /\ op = "share"
     /\ \E s \in Sessions, n \in names, k \in Kinds, w \in users \cup {None} :
          /\ k # "user" => w = None
          /\ Become(l, Request(op, s, None, n, 0, k, w, FALSE))
  \/ /\ op = "info"
     /\ \E c \in codes, key \in BOOLEAN : Become(l, Request(op, None, None, 0, c, "none", None, key))
  \/ /\ op \in ByCode
     /\ \E s \in all, n \in names, c \in codes, key \in BOOLEAN :
          Become(l, Request(op, s, None, n, c, "none", None, key))

Arrive(l) ==
  /\ Idle(l)
  /\ \E op \in mix.ops : Ask(l, op)
  /\ UNCHANGED <<mix, database, disk, handle, up, whole>> /\ Remember

(* A client begins an upload on its connection. *)
BeginUpload(l) ==
  /\ up[l] = NoUpload /\ Len(disk) + Cardinality({m \in Loops : up[m] # NoUpload}) < MaxFiles
  /\ \E s \in Sessions, b \in mix.bodies :
       up' = [up EXCEPT ![l].sess = s, ![l].sent = b, ![l].todo = b]
  /\ UNCHANGED <<mix, database, disk, handle, job, whole>> /\ Remember

(* A segment of k units of the body: HttpServer::onMessage calls the handler *)
(* with the complete request, or with a partial one that has grown enough.   *)
Receive(l, k) ==
  LET body == up[l].body \o SubSeq(up[l].todo, 1, k)
      todo == SubSeq(up[l].todo, k + 1, Len(up[l].todo))
  IN  /\ Idle(l) /\ k \in 1..Len(up[l].todo)
      /\ up' = [up EXCEPT ![l].body = body, ![l].todo = todo]
      /\ IF todo = <<>> \/ Len(body) >= Threshold
         THEN Become(l, Request("upload", up[l].sess, None, 0, 0, "none", None, FALSE))
         ELSE UNCHANGED job
      /\ UNCHANGED <<mix, database, disk, handle, whole>> /\ Remember

(* The client goes away: the context goes with the connection, its file stays. *)
Disconnect(l) ==
  /\ Idle(l) /\ up[l] # NoUpload
  /\ up' = [up EXCEPT ![l] = NoUpload]
  /\ UNCHANGED <<mix, database, disk, handle, job, whole>> /\ Remember

ExpireSession(s) ==
  /\ sessions[s] # None
  /\ sessions' = [sessions EXCEPT ![s] = None]
  /\ UNCHANGED <<mix, users, files, shares, made, disk, handle, job, up, whole>> /\ Remember

ExpireShare(c) ==
  /\ c.live
  /\ shares' = (shares \ {c}) \cup {[c EXCEPT !.live = FALSE]}
  /\ UNCHANGED <<mix, users, sessions, files, made, disk, handle, job, up, whole>> /\ Remember

(* The process ends and is started again. *)
Crash ==
  /\ \E l \in Loops : ~Idle(l) \/ up[l] # NoUpload
  /\ handle' = None
  /\ job' = [l \in Loops |-> NoJob]
  /\ up' = [l \in Loops |-> NoUpload]
  /\ UNCHANGED <<mix, database, disk, whole>> /\ Remember

-----------------------------------------------------------------------------
(* Queries: the rows the database answers, and what the handlers do next.    *)

(* validateSession, and the accounts of register and login. *)
AuthRows(j)    == {u \in {UserOf(j.sess)} : u # None}
AccountRows(j) == {u \in users : u = j.user}

(* Mutant: the query forgets the owner. *)
MutantOwnedRowsOfAnyone(j) == {f \in files : f.name = j.name}

(* getOwnedFileIdByServerFilename and isFileOwnedBy; getByServerFilename. *)
OwnedRows(j) == {f \in files : f.name = j.name /\ f.owner = j.user}
FileRows(j)  == {f \in files : f.name = j.name}

(* getByCode joins the share, not expired, with its file. *)
CodeRows(j)  == {[file |-> p[1].name, owner |-> p[1].owner, kind |-> p[2].kind, with |-> p[2].with] :
                   p \in {q \in files \X shares : q[2].id = j.share /\ q[2].file = q[1].name /\ q[2].live}}

(* existsUserShare and getShareInfo: expired shares count. *)
UserShareRows(j) == {c \in shares : c.file = j.name /\ c.kind = "user" /\ c.with = j.with}
InfoRows(j)      == {c \in shares : c.file = Only(j.left)}

(* listMyFiles, listSharedFiles, listAllFiles: expired shares count. *)
ListRows(j) ==
  LET open(f) == \E c \in shares : c.file = f.name /\ (c.with = j.user \/ c.kind = "public")
  IN  CASE j.kind = "my"     -> {f \in files : f.owner = j.user}
        [] j.kind = "shared" -> {f \in files : f.owner # j.user /\ open(f)}
        [] OTHER             -> {f \in files : f.owner = j.user \/ open(f)}

Answer(j) == CASE j.pc = "auth"    -> AuthRows(j)
               [] j.pc = "account" -> AccountRows(j)
               [] j.pc = "owned"   -> OwnedRows(j)
               [] j.pc = "file"    -> FileRows(j)
               [] j.pc = "code"    -> CodeRows(j)
               [] j.pc = "exists"  -> UserShareRows(j)
               [] j.pc = "list"    -> ListRows(j)
               [] OTHER            -> InfoRows(j)

(* After validateSession. *)
Authenticated(j, rows) ==
  IF rows = {} /\ j.op \in MustAuth \cup {"download"} THEN Reply(401)
  ELSE IF j.op = "search" THEN Reply(400)      (* no route has a "keyword" *)
  ELSE Go([j EXCEPT !.user = IF rows = {} THEN None ELSE Only(rows)],
          CASE j.op = "upload"                        -> "chunk"
            [] j.op \in {"delete", "share", "private"} -> "owned"
            [] j.op = "list"                          -> "list"
            [] j.op = "download"                      -> "file"
            [] OTHER                                  -> "code")

AccountKnown(j, rows) ==
  IF j.op = "login" THEN IF rows = {} THEN Reply(401) ELSE Go(j, "saveSession")
  ELSE IF rows = {} THEN Go(j, "insertUser") ELSE Reply(400)

(* Mutant: handleDelete unlinks the file and leaves the row. *)
MutantOwnerKnownUnlinks(j, rows) ==
  IF rows = {} THEN Reply(IF j.op = "delete" THEN 404 ELSE 403)
  ELSE Go(j, CASE j.op = "delete"                        -> "unlink"
               [] j.op = "private"                       -> "setPrivate"
               [] j.kind = "user" /\ j.with # None       -> "exists"
               [] OTHER                                  -> "createShare")

OwnerKnown(j, rows) ==
  IF rows = {} THEN Reply(IF j.op = "delete" THEN 404 ELSE 403)
  ELSE Go(j, CASE j.op = "delete"                        -> "deleteFile"
               [] j.op = "private"                       -> "setPrivate"
               [] j.kind = "user" /\ j.with # None       -> "exists"
               [] OTHER                                  -> "createShare")

FileKnown(j, rows) ==
  IF rows = {} THEN Reply(404)
  ELSE IF Only(rows).owner = j.user THEN Go(j, "open") ELSE Reply(403)

(* Mutant: a share for one user serves whoever has a session. *)
MutantPermittedAnyUser(j, r) ==
  \/ j.op = "page"
  \/ j.op \in {"codeload", "access"} /\ r.owner = j.user
  \/ r.kind = "public"
  \/ r.kind = "protected" /\ j.key /\ j.op # "access"
  \/ r.kind = "user" /\ (j.op = "info" \/ j.user # None)

(* The extract code never reaches handleShareAccess, which looks for it      *)
(* among the path's parameters, and a browser's page needs no permission.    *)
Permitted(j, r) ==
  \/ j.op = "page"
  \/ j.op \in {"codeload", "access"} /\ r.owner = j.user
  \/ r.kind = "public"
  \/ r.kind = "protected" /\ j.key /\ j.op # "access"
  \/ r.kind = "user" /\ (j.op = "info" \/ (j.user # None /\ r.with = j.user))

CodeKnown(j, rows) ==
  IF rows = {} \/ (j.op \in Loads /\ Only(rows).file # j.name) THEN Reply(404)
  ELSE IF ~Permitted(j, Only(rows)) THEN Reply(403)
  ELSE IF j.op \in Loads THEN Go(j, "open")
  ELSE Reply(200)

(* handleListFiles asks for the share of each own file in turn. *)
ListOwn(j, own) == IF own = {} THEN Reply(200) ELSE Go([j EXCEPT !.left = own], "info")
Listed(j, rows) == ListOwn(j, {f.name : f \in {g \in rows : g.owner = j.user}})

Resume(j, rows) ==
  CASE j.pc = "auth"    -> Authenticated(j, rows)
    [] j.pc = "account" -> AccountKnown(j, rows)
    [] j.pc = "owned"   -> OwnerKnown(j, rows)
    [] j.pc = "file"    -> FileKnown(j, rows)
    [] j.pc = "code"    -> CodeKnown(j, rows)
    [] j.pc = "exists"  -> IF rows = {} THEN Go(j, "createShare") ELSE Reply(400)
    [] j.pc = "list"    -> Listed(j, rows)
    [] OTHER            -> ListOwn(j, j.left \ {Only(j.left)})

Queries == {"auth", "account", "owned", "file", "code", "exists", "list", "info"}

(* Db::query up to mysql_query: while another thread's result is unread, the *)
(* library refuses (commands out of sync) and the handler sees no rows.      *)
SendQuery(l) ==
  LET j == job[l] IN
  /\ j.pc \in Queries /\ handle # l
  /\ IF handle # None \/ (j.pc = "auth" /\ j.sess = None)
     THEN Continue(l, Resume(j, {})) /\ UNCHANGED handle
     ELSE /\ handle' = l
          /\ Become(l, [j EXCEPT !.rows = Answer(j)])
          /\ UNCHANGED up
  /\ UNCHANGED <<mix, database, disk, whole>> /\ Remember

(* mysql_store_result, and the handler up to its next statement. *)
StoreResult(l) ==
  /\ handle = l
  /\ handle' = None
  /\ Continue(l, Resume(job[l], job[l].rows))
  /\ UNCHANGED <<mix, database, disk, whole>> /\ Remember

-----------------------------------------------------------------------------
(* Statements without rows: refused as well while a result is unread.        *)

InSync == handle = None

(* The foreign key of file_shares cascades. *)
DeleteFile(l) ==
  /\ At(l, "deleteFile")
  /\ IF InSync
     THEN /\ files' = {f \in files : f.name # job[l].name}
          /\ shares' = {c \in shares : c.file # job[l].name}
          /\ Become(l, Go(job[l], "unlink"))
     ELSE Become(l, Reply(500)) /\ UNCHANGED <<files, shares>>
  /\ UNCHANGED <<mix, users, sessions, made, disk, handle, up, whole>> /\ Remember

(* setPrivate, whose result handleShareFile ignores. *)
SetPrivate(l) ==
  /\ At(l, "setPrivate")
  /\ shares' = IF InSync THEN {c \in shares : c.file # job[l].name} ELSE shares
  /\ Become(l, Reply(200))
  /\ UNCHANGED <<mix, users, sessions, files, made, disk, handle, up, whole>> /\ Remember

(* createShare: the file must still be there, with an expiry or without. *)
CreateShare(l) ==
  LET j == job[l] IN
  /\ At(l, "createShare")
  /\ IF InSync /\ FileRows(j) # {} /\ made < MaxShares
     THEN /\ made' = made + 1
          /\ shares' = shares \cup {[id |-> made + 1, file |-> j.name, kind |-> j.kind,
                                     with |-> j.with, live |-> TRUE]}
          /\ Become(l, Reply(200))
     ELSE Become(l, Reply(500)) /\ UNCHANGED <<shares, made>>
  /\ UNCHANGED <<mix, users, sessions, files, disk, handle, up, whole>> /\ Remember

(* saveSession, whose result handleLogin ignores, with a fresh random id. *)
SaveSession(l) ==
  /\ At(l, "saveSession")
  /\ \E s \in Sessions :
       sessions' = IF InSync /\ sessions[s] = None THEN [sessions EXCEPT ![s] = job[l].user] ELSE sessions
  /\ Become(l, Reply(200))
  /\ UNCHANGED <<mix, users, files, shares, made, disk, handle, up, whole>> /\ Remember

EndSession(l) ==
  /\ At(l, "logout")
  /\ sessions' = IF InSync THEN [sessions EXCEPT ![job[l].sess] = None] ELSE sessions
  /\ Become(l, Reply(200))
  /\ UNCHANGED <<mix, users, files, shares, made, disk, handle, up, whole>> /\ Remember

(* The column username is UNIQUE. *)
InsertUser(l) ==
  LET u == job[l].user IN
  /\ At(l, "insertUser")
  /\ IF InSync /\ u \notin users
     THEN users' = users \cup {u} /\ Become(l, Reply(200))
     ELSE Become(l, Reply(500)) /\ UNCHANGED users
  /\ UNCHANGED <<mix, sessions, files, shares, made, disk, handle, up, whole>> /\ Remember

(* Mutant: the upload context stays on the connection. *)
MutantCreateFileKeepsContext(l) ==
  LET j == job[l] IN
  /\ At(l, "createFile")
  /\ files' = IF InSync THEN files \cup {[name |-> up[l].ctx, owner |-> j.user]} ELSE files
  /\ Become(l, Reply(200))
  /\ up' = IF up[l].todo = <<>> THEN [up EXCEPT ![l] = NoUpload] ELSE [up EXCEPT ![l].state = "boundary"]
  /\ UNCHANGED <<mix, users, sessions, shares, made, disk, handle, whole>> /\ Remember

(* createFile, whose result handleUpload turns into file id 0; then the      *)
(* context goes.                                                             *)
CreateFile(l) ==
  LET j == job[l] IN
  /\ At(l, "createFile")
  /\ files' = IF InSync THEN files \cup {[name |-> up[l].ctx, owner |-> j.user]} ELSE files
  /\ Become(l, Reply(200))
  /\ up' = IF up[l].todo = <<>> THEN [up EXCEPT ![l] = NoUpload]
           ELSE [up EXCEPT ![l].ctx = 0, ![l].state = "headers"]
  /\ UNCHANGED <<mix, users, sessions, shares, made, disk, handle, whole>> /\ Remember

-----------------------------------------------------------------------------
(* The upload directory.                                                     *)

Find(S)   == IF S = {} THEN 0 ELSE Min(S)
EndOf(b)  == Find({i \in 1..Len(b) - 1 : b[i] = "B" /\ b[i + 1] = "E"})
Mark(b)   == Find({i \in 1..Len(b) : b[i] = "B"})
Head4(b)  == Find({i \in 1..Len(b) : b[i] = "H"})
Till(b, i) == SubSeq(b, 1, i - 1)
From(b, i) == SubSeq(b, i, Len(b))

(* What a piece of the body adds to the file, and the state it leads to.  A  *)
(* piece is written up to the boundary, the line end before it included.  If *)
(* the end comes before the part, the length endPos - pos wraps to a         *)
(* negative streamsize: write adds nothing and sets badbit.                  *)
First(b) ==
  IF Head4(b) = 0 THEN [add |-> <<>>, state |-> "headers"]
  ELSE IF EndOf(b) # 0 THEN [add |-> SubSeq(b, Head4(b) + 1, EndOf(b) - 1), state |-> "complete"]
  ELSE [add |-> From(b, Head4(b) + 1), state |-> "boundary"]

(* Mutant: the piece with the last boundary is written as it is. *)
MutantLaterWritesAll(state, b) ==
  CASE state = "boundary" /\ EndOf(b) # 0 -> [add |-> b, state |-> "complete"]
    [] state = "boundary" /\ EndOf(b) = 0 /\ Mark(b) # 0 ->
         IF Head4(From(b, Mark(b))) = 0 THEN [add |-> <<>>, state |-> state]
         ELSE [add |-> Till(b, Mark(b)), state |-> "content"]
    [] state = "content" /\ Mark(b) # 0   -> [add |-> Till(b, Mark(b)), state |-> "boundary"]
    [] state \in {"boundary", "content"} /\ Mark(b) = 0 -> [add |-> b, state |-> state]
    [] OTHER                              -> [add |-> <<>>, state |-> state]

Later(state, b) ==
  CASE state = "boundary" /\ EndOf(b) # 0 -> [add |-> Till(b, EndOf(b)), state |-> "complete"]
    [] state = "boundary" /\ EndOf(b) = 0 /\ Mark(b) # 0 ->
         IF Head4(From(b, Mark(b))) = 0 THEN [add |-> <<>>, state |-> state]
         ELSE [add |-> Till(b, Mark(b)), state |-> "content"]
    [] state = "content" /\ Mark(b) # 0   -> [add |-> Till(b, Mark(b)), state |-> "boundary"]
    [] state \in {"boundary", "content"} /\ Mark(b) = 0 -> [add |-> b, state |-> state]
    [] OTHER                              -> [add |-> <<>>, state |-> state]

(* A complete body with one part: every boundary begins a part or is the     *)
(* last, and that one is preceded by the line end of its delimiter.  The     *)
(* data of the part is what lies between its headers and the delimiter.      *)
OnePart(b) ==
  /\ EndOf(b) # 0
  /\ \E h \in 1..Len(b) : \A i \in 1..Len(b) : b[i] = "H" <=> i = h
  /\ \A i \in 1..Len(b) : b[i] = "B" => i < Len(b) /\ b[i + 1] \in {"H", "E"}
  /\ EndOf(b) > Head4(b) + 1 /\ b[EndOf(b) - 1] = "N"
Data(b) == SubSeq(b, Head4(b) + 1, EndOf(b) - 2)

(* handleUpload once the session is valid.  A partial request not finished   *)
(* gets the answer 404, which is dropped.  The file opens and takes what is  *)
(* written: the code only logs it when one of them fails.                    *)
Chunk(l) ==
  LET u    == up[l]
      new  == u.ctx = 0
      name == IF new THEN Len(disk) + 1 ELSE u.ctx
      p    == IF new THEN First(u.body) ELSE Later(u.state, u.body)
      over == p.state = "complete" \/ u.todo = <<>>
      torn == \/ u.torn \/ ~OnePart(u.sent)
              \/ new /\ Head4(u.body) = 0                       (* began after the end *)
              \/ u.body # <<>> /\ u.body[Len(u.body)] = "B"     (* cut in the delimiter *)
  IN  /\ At(l, "chunk")
      /\ disk' = IF new THEN Append(disk, p.add) ELSE [disk EXCEPT ![name] = @ \o p.add]
      /\ up' = [up EXCEPT ![l].ctx = name, ![l].state = p.state, ![l].body = <<>>, ![l].torn = torn]
      /\ whole' = IF over /\ ~torn THEN whole \cup {[name |-> name, content |-> Data(u.sent)]} ELSE whole
      /\ Become(l, IF over THEN Go(job[l], "createFile") ELSE Reply(0))
      /\ UNCHANGED <<mix, database, handle>> /\ Remember

Unlink(l) ==
  /\ At(l, "unlink")
  /\ disk' = [disk EXCEPT ![job[l].name] = Absent]
  /\ Become(l, Reply(200))
  /\ UNCHANGED <<mix, database, handle, up, whole>> /\ Remember

(* The permission is checked; the file may have gone meanwhile.  One step    *)
(* for exists, file_size and open, which other loops may come between: a     *)
(* file that goes there makes the code throw.                                *)
Open(l) ==
  /\ At(l, "open")
  /\ Become(l, Reply(IF disk[job[l].name] = Absent THEN 404 ELSE 200))
  /\ UNCHANGED <<mix, database, disk, handle, up, whole>> /\ Remember

-----------------------------------------------------------------------------
LoopStep(l) ==
  \/ SendQuery(l)  \/ StoreResult(l)
  \/ DeleteFile(l) \/ SetPrivate(l) \/ CreateShare(l) \/ CreateFile(l)
  \/ SaveSession(l) \/ EndSession(l) \/ InsertUser(l)
  \/ Chunk(l) \/ Unlink(l) \/ Open(l)

Environment ==
  \/ \E l \in Loops : \/ Arrive(l) \/ BeginUpload(l) \/ Disconnect(l)
                      \/ \E k \in 1..Len(up[l].todo) : Receive(l, k)
  \/ \E s \in Sessions : ExpireSession(s)
  \/ \E c \in shares : ExpireShare(c)
  \/ Crash

Next == (\E l \in Loops : LoopStep(l)) \/ Environment

Spec == Init /\ [][Next]_vars

-----------------------------------------------------------------------------
(* Properties.                                                               *)

(* A row of table files names a file that is there, no name twice, and each  *)
(* share is one of a row that is there: an upload, a delete and a share of   *)
(* one file may overlap, fail half way, or end with the process.             *)
RowsHaveFiles ==
  /\ \A f \in files : f.name \in 1..Len(disk) /\ disk[f.name] # Absent /\ f.owner \in users
  /\ \A f, g \in files : f.name = g.name => f = g
  /\ \A c \in shares : \E f \in files : f.name = c.file

(* Stored files are complete, never change, and go as a whole: the row comes *)
(* after the last write of handleUpload and goes before the unlink of        *)
(* handleDelete.                                                             *)
Store == INSTANCE FileStore WITH
  stored <- {[name |-> f.name, owner |-> f.owner, content |-> disk[f.name]] : f \in files}
ImplementsFileStore == Store!StoreSafety

(* A file put together from pieces of any size, none of which ended within   *)
(* the last boundary or began after it, holds the data of its part, whole,   *)
(* once and in order, whatever the other loops did meanwhile; of the         *)
(* delimiter it may hold the line end, and nothing else.                     *)
UploadKeepsData ==
  \A w \in whole : \A f \in files :
    f.name = w.name => disk[f.name] \in {w.content, Append(w.content, "N")}

(* README.md:81 says of the upload form that it is multipart/form-data: its  *)
(* delimiter begins with a line end that is not part of the data, and so a   *)
(* stored file is the data of the part, no more and no less.                 *)
UploadExact == \A w \in whole : \A f \in files : f.name = w.name => disk[f.name] = w.content

(* Content goes only to requests that had the right to it at some moment     *)
(* since they came: sessions and shares may expire, and files and shares go, *)
(* between the queries of one handler.                                       *)
ServedOnlyIfAllowed ==
  [][\A l \in Loops :
       job[l].op \in Loads \cup {"access"} /\ ~Idle(l) /\ job'[l].status = 200
         => granted[l] \/ MayRead(l)]_vars

(* A row goes only when its owner, known by a session, asks for it. *)
RemovedByOwner ==
  [][\A f \in files \ files' :
       \E l \in Loops : job[l].op = "delete" /\ job[l].name = f.name /\ job[l].user = f.owner]_vars

(* ShareRepository.h says of setPrivate that it deletes all shares of the    *)
(* file: the owner told so has none left.                                    *)
PrivateRemovesShares ==
  [][\A l \in Loops :
       job[l].op = "private" /\ ~Idle(l) /\ job'[l].status = 200
         => \A c \in shares' : c.file # job[l].name]_vars

=============================================================================
