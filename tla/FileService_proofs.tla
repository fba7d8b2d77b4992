------------------------- MODULE FileService_proofs -------------------------
(* RowsHaveFiles, RemovedByOwner, ServedOnlyIfAllowed, UploadKeepsData and   *)
(* the refinement of FileStore for every number of loops, users, sessions,   *)
(* files and shares.                                                         *)
EXTENDS FileService, SequenceFacts

(* The fields of the records that matter here. *)
IsJob(j)   == {"op", "pc", "sess", "user", "name", "key", "rows", "left", "status"} \subseteq DOMAIN j
IsShare(c) == {"file", "live"} \subseteq DOMAIN c

(* FileUploadContext::State. *)
States == {"headers", "boundary", "content", "complete"}

Uploads == [sess : Sessions \cup {None}, sent : Content, todo : Content, body : Content,
            ctx : Nat, state : States, torn : BOOLEAN]

TypeInv ==
  /\ mix \in Mixes
  /\ sessions \in [Sessions -> users \cup {None}]
  /\ disk \in Seq(Content \cup {Absent})
  /\ files \subseteq [name : 1..Len(disk), owner : users]
  /\ \A c \in shares : IsShare(c)
  /\ up \in [Loops -> Uploads]
  /\ DOMAIN job = Loops /\ job = [l \in Loops |-> job[l]]
  /\ \A l \in Loops : IsJob(job[l])

(* An upload has a file of its own, without a row. *)
UploadInv ==
  /\ \A l \in Loops : up[l].ctx # 0 =>
       /\ up[l].ctx \in 1..Len(disk) /\ disk[up[l].ctx] \in Content
       /\ \A f \in files : f.name # up[l].ctx
  /\ \A l, m \in Loops : up[l].ctx # 0 /\ up[l].ctx = up[m].ctx => l = m

(* The file that a loop found a row of its user for: no upload writes to it, *)
(* or gives it a row again, and nobody else ever owns it.                    *)
Owned(j, U, F, size) ==
  /\ j.name \in 1..size
  /\ \A m \in Loops : U[m].ctx # j.name
  /\ \A f \in F : f.name = j.name => f.owner = j.user

(* What the handler of loop l has learnt from the rows so far. *)
Right(l, j, us, U, F, size) ==
  /\ j.pc = "auth" => j.rows \subseteq us /\ j.sess \in Sessions \cup {None}
  /\ j.pc = "account" /\ j.rows # {} => j.user \in us
  /\ j.pc \in {"chunk", "createFile", "saveSession"} => j.user \in us
  /\ j.pc = "createFile" => U[l].ctx # 0
  /\ j.pc = "owned" /\ j.rows # {} => Owned(j, U, F, size)
  /\ j.pc = "deleteFile" => j.op = "delete"
  /\ j.pc \in {"deleteFile", "unlink"} => Owned(j, U, F, size)
  /\ j.pc = "unlink" => \A f \in F : f.name # j.name

JobInv(l) == Right(l, job[l], users, up, files, Len(disk))

FileIInv == TypeInv /\ RowsHaveFiles /\ UploadInv /\ \A l \in Loops : JobInv(l)

-----------------------------------------------------------------------------
(* Pieces of a body.                                                         *)

LEMMA AbsentNotContent == Absent \notin Content
<1>1. Absent[1] = "absent" /\ 1 \in 1..Len(Absent)
  BY DEF Absent
<1>2. "absent" \notin Units
  BY DEF Units
<1>3. QED BY <1>1, <1>2, ElementOfSeq DEF Content

(* The first place of a kind is a place, or 0. *)
LEMMA FindOf ==
  ASSUME NEW S, S \subseteq Nat
  PROVE  Find(S) \in S \cup {0}
<1>1. CASE S = {}
  BY <1>1 DEF Find
<1>2. CASE S # {}
  <2> DEFINE less == OpToRel(<, Nat)
  <2>1. PICK x \in S : \A y \in S : ~(<<y, x>> \in less)
    BY <1>2, NatLessThanWellFounded, WFMin
  <2>2. \A y \in S : x <= y
    <3> SUFFICES ASSUME NEW y \in S PROVE x <= y
      OBVIOUS
    <3>1. x \in Nat /\ y \in Nat /\ ~(y < x)
      BY <2>1 DEF OpToRel
    <3>2. QED BY <3>1
  <2>3. Min(S) \in S
    BY <2>2 DEF Min
  <2>4. QED BY <1>2, <2>3 DEF Find
<1>3. QED BY <1>1, <1>2

(* A part of a body is a body. *)
LEMMA Part ==
  ASSUME NEW b \in Content, NEW i \in Nat \ {0}, NEW k \in Int, k <= Len(b)
  PROVE  SubSeq(b, i, k) \in Content
<1>1. \A n \in i..k : b[n] \in Units
  <2> SUFFICES ASSUME NEW n \in i..k PROVE b[n] \in Units
    OBVIOUS
  <2>1. Len(b) \in Nat
    BY DEF Content
  <2>2. n \in 1..Len(b)
    BY <2>1
  <2>3. QED BY <2>2, ElementOfSeq DEF Content
<1>2. QED BY <1>1, SubSeqProperties DEF Content

LEMMA Places ==
  ASSUME NEW b \in Content
  PROVE  /\ Len(b) \in Nat
         /\ EndOf(b) \in 0..Len(b) /\ Mark(b) \in 0..Len(b) /\ Head4(b) \in 0..Len(b)
<1>1. Len(b) \in Nat
  BY DEF Content
<1>2. /\ {i \in 1..Len(b) - 1 : b[i] = "B" /\ b[i + 1] = "E"} \subseteq Nat
      /\ {i \in 1..Len(b) : b[i] = "B"} \subseteq Nat
      /\ {i \in 1..Len(b) : b[i] = "H"} \subseteq Nat
  BY <1>1
<1>3. EndOf(b) \in 0..Len(b)
  BY <1>1, <1>2, FindOf DEF EndOf
<1>4. Mark(b) \in 0..Len(b)
  BY <1>1, <1>2, FindOf DEF Mark
<1>5. Head4(b) \in 0..Len(b)
  BY <1>1, <1>2, FindOf DEF Head4
<1>6. QED BY <1>1, <1>3, <1>4, <1>5

(* What is written of a piece is content, and the state one of the parser's. *)
LEMMA FirstTyped ==
  ASSUME NEW b \in Content
  PROVE  First(b).add \in Content /\ First(b).state \in States
<1>1. Len(b) \in Nat /\ EndOf(b) \in 0..Len(b) /\ Head4(b) \in 0..Len(b)
  BY Places
<1>2. <<>> \in Content
  BY DEF Content
<1>3. SubSeq(b, Head4(b) + 1, EndOf(b) - 1) \in Content /\ SubSeq(b, Head4(b) + 1, Len(b)) \in Content
  BY <1>1, Part
<1>4. CASE Head4(b) = 0
  <2>1. First(b) = [add |-> <<>>, state |-> "headers"]
    BY <1>4 DEF First
  <2>2. QED BY <1>2, <2>1 DEF States
<1>5. CASE Head4(b) # 0 /\ EndOf(b) # 0
  <2>1. First(b) = [add |-> SubSeq(b, Head4(b) + 1, EndOf(b) - 1), state |-> "complete"]
    BY <1>5 DEF First
  <2>2. QED BY <1>3, <2>1 DEF States
<1>6. CASE Head4(b) # 0 /\ EndOf(b) = 0
  <2>1. First(b) = [add |-> SubSeq(b, Head4(b) + 1, Len(b)), state |-> "boundary"]
    BY <1>6 DEF First, From
  <2>2. QED BY <1>3, <2>1 DEF States
<1>7. QED BY <1>4, <1>5, <1>6

LEMMA LaterTyped ==
  ASSUME NEW b \in Content, NEW state \in States
  PROVE  Later(state, b).add \in Content /\ Later(state, b).state \in States
<1>1. Len(b) \in Nat /\ EndOf(b) \in 0..Len(b) /\ Mark(b) \in 0..Len(b)
  BY Places
<1>2. <<>> \in Content
  BY DEF Content
<1>3. Till(b, EndOf(b)) \in Content /\ Till(b, Mark(b)) \in Content
  BY <1>1, Part DEF Till
<1>4. \/ Later(state, b) = [add |-> Till(b, EndOf(b)), state |-> "complete"]
      \/ Later(state, b) = [add |-> <<>>, state |-> state]
      \/ Later(state, b) = [add |-> Till(b, Mark(b)), state |-> "content"]
      \/ Later(state, b) = [add |-> Till(b, Mark(b)), state |-> "boundary"]
      \/ Later(state, b) = [add |-> b, state |-> state]
  BY DEF Later
<1>5. QED BY <1>2, <1>3, <1>4 DEF States

-----------------------------------------------------------------------------
(* Jobs.                                                                     *)

LEMMA GoTyped ==
  ASSUME NEW j, IsJob(j), NEW pc
  PROVE  /\ IsJob(Go(j, pc)) /\ Go(j, pc).pc = pc /\ Go(j, pc).rows = {}
         /\ Go(j, pc).op = j.op /\ Go(j, pc).user = j.user /\ Go(j, pc).name = j.name
         /\ Go(j, pc).sess = j.sess /\ Go(j, pc).status = j.status
BY DEF Go, IsJob

LEMMA ReplyTyped ==
  ASSUME NEW status
  PROVE  /\ IsJob(Reply(status)) /\ Reply(status).pc = "done" /\ Reply(status).op = "none"
         /\ Reply(status).status = status
BY DEF Reply, NoJob, IsJob

LEMMA NoJobTyped == IsJob(NoJob) /\ NoJob.pc = "done" /\ NoJob.op = "none" /\ NoJob.status = 0
BY DEF NoJob, IsJob

(* A job that is done has learnt nothing. *)
LEMMA DoneRight ==
  ASSUME NEW l, NEW j, j.pc = "done", NEW us, NEW U, NEW F, NEW size
  PROVE  Right(l, j, us, U, F, size)
BY DEF Right

LEMMA RequestTyped ==
  ASSUME NEW op, NEW s \in Sessions \cup {None}, NEW u, NEW n, NEW c, NEW k, NEW w, NEW key
  PROVE  LET r == Request(op, s, u, n, c, k, w, key)
         IN  /\ IsJob(r) /\ r.pc \in {"code", "account", "logout", "auth"} /\ r.rows = {}
             /\ r.sess \in Sessions \cup {None}
<1> DEFINE r == Request(op, s, u, n, c, k, w, key)
<1>1. IsJob(r) /\ r.pc = Start(op) /\ r.sess = s /\ r.rows = {}
  BY DEF Request, NoJob, IsJob
<1>2. Start(op) \in {"code", "account", "logout", "auth"}
  BY DEF Start
<1>3. QED BY <1>1, <1>2

(* A new request has learnt nothing either. *)
LEMMA RequestRight ==
  ASSUME NEW l, NEW j, j.pc \in {"code", "account", "logout", "auth"}, j.rows = {},
         j.sess \in Sessions \cup {None}, NEW us, NEW U, NEW F, NEW size
  PROVE  Right(l, j, us, U, F, size)
BY DEF Right

LEMMA AskTyped ==
  ASSUME NEW l, NEW op, Ask(l, op)
  PROVE  \E j : /\ Become(l, j) /\ IsJob(j) /\ j.rows = {}
                /\ j.pc \in {"code", "account", "logout", "auth"} /\ j.sess \in Sessions \cup {None}
<1>1. \E s \in Sessions \cup {None} : \E u, n, c, k, w, key :
        Become(l, Request(op, s, u, n, c, k, w, key))
  BY Zenon DEF Ask
<1>2. PICK s \in Sessions \cup {None} : \E u, n, c, k, w, key :
        Become(l, Request(op, s, u, n, c, k, w, key))
  BY <1>1
<1>3. PICK u, n, c, k, w, key : Become(l, Request(op, s, u, n, c, k, w, key))
  BY <1>2
<1>4. QED BY <1>3, RequestTyped

(* A handler that goes on to a statement that asks nothing of what it knows. *)
LEMMA FreeRight ==
  ASSUME NEW l, NEW j, j.rows = {}, NEW us, NEW U, NEW F, NEW size,
         j.pc \notin {"auth", "chunk", "createFile", "saveSession", "deleteFile", "unlink"}
  PROVE  Right(l, j, us, U, F, size)
BY DEF Right

(* From the rows to the next statement. *)
LEMMA AuthenticatedRight ==
  ASSUME NEW l, NEW j, IsJob(j), NEW rows, NEW us, rows \subseteq us, NEW U, NEW F, NEW size
  PROVE  IsJob(Authenticated(j, rows)) /\ Right(l, Authenticated(j, rows), us, U, F, size)
<1> DEFINE k == Authenticated(j, rows)
           known == [j EXCEPT !.user = IF rows = {} THEN None ELSE Only(rows)]
<1>1. CASE \E status : k = Reply(status)
  BY <1>1, ReplyTyped, DoneRight
<1>2. CASE ~\E status : k = Reply(status)
  <2>1. IsJob(known) /\ known.op = j.op /\ known.user = IF rows = {} THEN None ELSE Only(rows)
    BY DEF IsJob
  <2>2. /\ ~(rows = {} /\ j.op \in MustAuth \cup {"download"})
        /\ \/ j.op = "upload" /\ k = Go(known, "chunk")
           \/ \E pc \in {"owned", "list", "file", "code"} : k = Go(known, pc)
    BY <1>2 DEF Authenticated
  <2>3. CASE j.op = "upload" /\ k = Go(known, "chunk")
    <3>1. rows # {}
      BY <2>2, <2>3 DEF MustAuth
    <3>2. Only(rows) \in us
      BY <3>1 DEF Only
    <3>3. known.user \in us
      BY <2>1, <3>1, <3>2
    <3> HIDE DEF known
    <3>4. /\ IsJob(Go(known, "chunk")) /\ Go(known, "chunk").pc = "chunk"
          /\ Go(known, "chunk").user = known.user
      BY <2>1, GoTyped
    <3>5. QED BY <2>3, <3>3, <3>4 DEF Right
  <2>4. CASE \E pc \in {"owned", "list", "file", "code"} : k = Go(known, pc)
    <3>1. IsJob(k) /\ k.pc \in {"owned", "list", "file", "code"} /\ k.rows = {}
      BY <2>1, <2>4, GoTyped
    <3>2. QED BY <3>1, FreeRight
  <2>5. QED BY <2>2, <2>3, <2>4
<1>3. QED BY <1>1, <1>2

LEMMA AccountKnownRight ==
  ASSUME NEW l, NEW j, IsJob(j), NEW rows, NEW us, rows # {} => j.user \in us, NEW U, NEW F, NEW size
  PROVE  IsJob(AccountKnown(j, rows)) /\ Right(l, AccountKnown(j, rows), us, U, F, size)
<1> DEFINE k == AccountKnown(j, rows)
<1>1. CASE \E status : k = Reply(status)
  BY <1>1, ReplyTyped, DoneRight
<1>2. CASE rows # {} /\ k = Go(j, "saveSession")
  <2>1. IsJob(k) /\ k.pc = "saveSession" /\ k.user \in us
    BY <1>2, GoTyped
  <2>2. QED BY <2>1 DEF Right
<1>3. CASE k = Go(j, "insertUser")
  <2>1. IsJob(k) /\ k.pc = "insertUser" /\ k.rows = {}
    BY <1>3, GoTyped
  <2>2. QED BY <2>1, FreeRight
<1>4. QED BY <1>1, <1>2, <1>3 DEF AccountKnown

LEMMA OwnerKnownRight ==
  ASSUME NEW l, NEW j, IsJob(j), NEW rows, NEW us, NEW U, NEW F, NEW size,
         rows # {} => Owned(j, U, F, size)
  PROVE  IsJob(OwnerKnown(j, rows)) /\ Right(l, OwnerKnown(j, rows), us, U, F, size)
<1> DEFINE k == OwnerKnown(j, rows)
<1>1. CASE \E status : k = Reply(status)
  BY <1>1, ReplyTyped, DoneRight
<1>2. CASE rows # {} /\ j.op = "delete" /\ k = Go(j, "deleteFile")
  <2>1. IsJob(k) /\ k.pc = "deleteFile" /\ k.op = "delete" /\ k.user = j.user /\ k.name = j.name
    BY <1>2, GoTyped
  <2>2. Owned(k, U, F, size)
    BY <1>2, <2>1 DEF Owned
  <2>3. QED BY <2>1, <2>2 DEF Right
<1>3. CASE \E pc \in {"setPrivate", "exists", "createShare"} : k = Go(j, pc)
  <2>1. IsJob(k) /\ k.pc \in {"setPrivate", "exists", "createShare"} /\ k.rows = {}
    BY <1>3, GoTyped
  <2>2. QED BY <2>1, FreeRight
<1>4. QED BY <1>1, <1>2, <1>3 DEF OwnerKnown

LEMMA ListOwnRight ==
  ASSUME NEW l, NEW j, IsJob(j), NEW own, NEW us, NEW U, NEW F, NEW size
  PROVE  IsJob(ListOwn(j, own)) /\ Right(l, ListOwn(j, own), us, U, F, size)
<1> DEFINE k == ListOwn(j, own)
           asked == [j EXCEPT !.left = own]
<1>1. CASE k = Reply(200)
  BY <1>1, ReplyTyped, DoneRight
<1>2. CASE k = Go(asked, "info")
  <2>1. IsJob(asked)
    BY DEF IsJob
  <2>2. IsJob(k) /\ k.pc = "info" /\ k.rows = {}
    BY <1>2, <2>1, GoTyped
  <2>3. QED BY <2>2, FreeRight
<1>3. QED BY <1>1, <1>2 DEF ListOwn

LEMMA ResumeRight ==
  ASSUME NEW l, NEW j, IsJob(j), NEW rows, NEW us, NEW U, NEW F, NEW size,
         j.pc = "auth" => rows \subseteq us,
         j.pc = "account" /\ rows # {} => j.user \in us,
         j.pc = "owned" /\ rows # {} => Owned(j, U, F, size)
  PROVE  IsJob(Resume(j, rows)) /\ Right(l, Resume(j, rows), us, U, F, size)
<1> DEFINE k == Resume(j, rows)
<1>1. CASE j.pc = "auth"
  BY <1>1, AuthenticatedRight DEF Resume
<1>2. CASE j.pc = "account"
  BY <1>2, AccountKnownRight DEF Resume
<1>3. CASE j.pc = "owned"
  BY <1>3, OwnerKnownRight DEF Resume
<1>4. CASE (\E status : k = Reply(status)) \/ \E pc \in {"open", "createShare"} : k = Go(j, pc)
  <2>1. CASE \E status : k = Reply(status)
    BY <2>1, ReplyTyped, DoneRight
  <2>2. CASE \E pc \in {"open", "createShare"} : k = Go(j, pc)
    <3>1. IsJob(k) /\ k.pc \in {"open", "createShare"} /\ k.rows = {}
      BY <2>2, GoTyped
    <3>2. QED BY <3>1, FreeRight
  <2>3. QED BY <1>4, <2>1, <2>2
<1>5. CASE j.pc \in {"file", "code", "exists"}
  BY <1>4, <1>5 DEF Resume, FileKnown, CodeKnown
<1>6. CASE \E own : k = ListOwn(j, own)
  BY <1>6, ListOwnRight
<1>7. CASE j.pc \notin {"auth", "account", "owned", "file", "code", "exists"}
  BY <1>6, <1>7 DEF Resume, Listed
<1>8. QED BY <1>1, <1>2, <1>3, <1>5, <1>7

-----------------------------------------------------------------------------
(* Steps.                                                                    *)

(* What a handler knows outlives a step that takes nothing of it away. *)
LEMMA RightKept ==
  ASSUME NEW l, NEW j, NEW us, NEW vs, us \subseteq vs,
         NEW U, NEW V, NEW F, NEW G, NEW m, NEW n,
         Right(l, j, us, U, F, m),
         j.pc = "createFile" /\ U[l].ctx # 0 => V[l].ctx # 0,
         Owned(j, U, F, m) => Owned(j, V, G, n),
         j.pc = "unlink" /\ Owned(j, U, F, m) /\ (\A f \in F : f.name # j.name)
           => \A f \in G : f.name # j.name
  PROVE  Right(l, j, vs, V, G, n)
BY DEF Right

(* A row of its user gives a loop the file. *)
LEMMA RowOwned ==
  ASSUME FileIInv, NEW j, OwnedRows(j) # {}
  PROVE  Owned(j, up, files, Len(disk))
<1>1. PICK f \in files : f.name = j.name /\ f.owner = j.user
  BY DEF OwnedRows
<1>2. j.name \in 1..Len(disk)
  BY <1>1 DEF FileIInv, RowsHaveFiles
<1>3. ASSUME NEW m \in Loops PROVE up[m].ctx # j.name
  <2>1. CASE up[m].ctx = 0
    BY <1>2, <2>1
  <2>2. CASE up[m].ctx # 0
    BY <1>1, <2>2 DEF FileIInv, UploadInv
  <2>3. QED BY <2>1, <2>2
<1>4. \A g \in files : g.name = j.name => g.owner = j.user
  BY <1>1 DEF FileIInv, RowsHaveFiles
<1>5. QED BY <1>2, <1>3, <1>4 DEF Owned

(* A step that touches neither files nor the directory, and may end uploads. *)
LEMMA Quiet ==
  ASSUME FileIInv, UNCHANGED <<mix, files, disk>>, users \subseteq users',
         sessions' \in [Sessions -> users' \cup {None}],
         up' \in [Loops -> Uploads], \A m \in Loops : up'[m].ctx \in {0, up[m].ctx},
         \A c \in shares' : IsShare(c) /\ \E f \in files : f.name = c.file,
         DOMAIN job' = Loops, job' = [m \in Loops |-> job'[m]],
         \A m \in Loops : IsJob(job'[m]) /\ Right(m, job'[m], users', up', files, Len(disk))
  PROVE  FileIInv'
<1>1. TypeInv'
  BY DEF FileIInv, TypeInv
<1>2. RowsHaveFiles'
  BY DEF FileIInv, RowsHaveFiles
<1>3. UploadInv'
  BY DEF FileIInv, UploadInv
<1>4. \A m \in Loops : JobInv(m)'
  BY DEF JobInv
<1>5. QED BY <1>1, <1>2, <1>3, <1>4 DEF FileIInv

(* The same, of one loop. *)
LEMMA QuietLoop ==
  ASSUME FileIInv, UNCHANGED <<mix, files, disk>>, users \subseteq users',
         sessions' \in [Sessions -> users' \cup {None}],
         NEW l \in Loops, NEW k, Become(l, k), IsJob(k),
         Right(l, k, users', up', files, Len(disk)),
         up' \in [Loops -> Uploads], up'[l].ctx \in {0, up[l].ctx},
         \A m \in Loops \ {l} : up'[m].ctx = up[m].ctx,
         \A c \in shares' : IsShare(c) /\ \E f \in files : f.name = c.file
  PROVE  FileIInv'
<1>1. /\ DOMAIN job = Loops /\ \A m \in Loops : IsJob(job[m])
      /\ \A m \in Loops : Right(m, job[m], users, up, files, Len(disk))
  BY DEF FileIInv, TypeInv, JobInv
<1>2. /\ DOMAIN job' = Loops /\ job' = [m \in Loops |-> job'[m]]
      /\ job'[l] = k /\ \A m \in Loops \ {l} : job'[m] = job[m]
  BY <1>1 DEF Become
<1>3. ASSUME NEW m \in Loops \ {l} PROVE Right(m, job[m], users', up', files, Len(disk))
  <2>1. Owned(job[m], up, files, Len(disk)) => Owned(job[m], up', files, Len(disk))
    BY DEF Owned
  <2>2. QED BY <1>1, <2>1, RightKept
<1>4. QED BY <1>1, <1>2, <1>3, Quiet

LEMMA NoUploadTyped == NoUpload \in Uploads /\ NoUpload.ctx = 0
<1>1. <<>> \in Content
  BY DEF Content
<1>2. QED BY <1>1 DEF NoUpload, Uploads, States

LEMMA ArriveStep == ASSUME FileIInv, NEW l \in Loops, Arrive(l) PROVE FileIInv'
<1>1. PICK op : Ask(l, op)
  BY DEF Arrive
<1>2. PICK j : /\ Become(l, j) /\ IsJob(j) /\ j.rows = {}
               /\ j.pc \in {"code", "account", "logout", "auth"} /\ j.sess \in Sessions \cup {None}
  BY <1>1, AskTyped
<1>3. UNCHANGED <<mix, database, disk, up>>
  BY DEF Arrive
<1>4. Right(l, j, users', up', files, Len(disk))
  BY <1>2, RequestRight
<1>5. QED BY <1>2, <1>3, <1>4, QuietLoop DEF database, FileIInv, TypeInv, RowsHaveFiles

(* A loop whose job stays done. *)
LEMMA SameJob ==
  ASSUME FileIInv, NEW l \in Loops
  PROVE  IsJob(job[l]) /\ (UNCHANGED job => Become(l, job[l]))
BY DEF FileIInv, TypeInv, Become

LEMMA BeginUploadStep == ASSUME FileIInv, NEW l \in Loops, BeginUpload(l) PROVE FileIInv'
<1>1. PICK s \in Sessions, b \in mix.bodies :
        up' = [up EXCEPT ![l].sess = s, ![l].sent = b, ![l].todo = b]
  BY DEF BeginUpload
<1>2. up[l] = NoUpload /\ UNCHANGED <<mix, database, disk, job>>
  BY DEF BeginUpload
<1>3. b \in Content
  BY FileServiceAssumption DEF FileIInv, TypeInv
<1>4. up \in [Loops -> Uploads]
  BY DEF FileIInv, TypeInv
<1>5. up' \in [Loops -> Uploads] /\ \A m \in Loops : up'[m].ctx = up[m].ctx
  BY <1>1, <1>3, <1>4 DEF Uploads
<1>6. IsJob(job[l]) /\ Become(l, job[l])
  BY <1>2, SameJob
<1>7. Right(l, job[l], users', up', files, Len(disk))
  <2>1. Right(l, job[l], users, up, files, Len(disk))
    BY DEF FileIInv, JobInv
  <2>2. Owned(job[l], up, files, Len(disk)) => Owned(job[l], up', files, Len(disk))
    BY <1>5 DEF Owned
  <2>3. users \subseteq users' /\ up'[l].ctx = up[l].ctx
    BY <1>2, <1>5 DEF database
  <2>4. QED BY <2>1, <2>2, <2>3, RightKept
<1>8. QED BY <1>2, <1>5, <1>6, <1>7, QuietLoop DEF database, FileIInv, TypeInv, RowsHaveFiles

LEMMA DisconnectStep == ASSUME FileIInv, NEW l \in Loops, Disconnect(l) PROVE FileIInv'
<1>1. /\ up' = [up EXCEPT ![l] = NoUpload] /\ UNCHANGED <<mix, database, disk, job>>
      /\ job[l].pc = "done"
  BY DEF Disconnect, Idle
<1>2. up \in [Loops -> Uploads]
  BY DEF FileIInv, TypeInv
<1>3. /\ up' \in [Loops -> Uploads] /\ up'[l].ctx = 0
      /\ \A m \in Loops \ {l} : up'[m].ctx = up[m].ctx
  BY <1>1, <1>2, NoUploadTyped
<1>4. IsJob(job[l]) /\ Become(l, job[l])
  BY <1>1, SameJob
<1>5. Right(l, job[l], users', up', files, Len(disk))
  BY <1>1, DoneRight
<1>6. QED BY <1>1, <1>3, <1>4, <1>5, QuietLoop DEF database, FileIInv, TypeInv, RowsHaveFiles

LEMMA ReceiveStep ==
  ASSUME FileIInv, NEW l \in Loops, NEW k \in 1..Len(up[l].todo), Receive(l, k)
  PROVE  FileIInv'
<1> DEFINE body == up[l].body \o SubSeq(up[l].todo, 1, k)
           todo == SubSeq(up[l].todo, k + 1, Len(up[l].todo))
           r    == Request("upload", up[l].sess, None, 0, 0, "none", None, FALSE)
<1>1. up \in [Loops -> Uploads]
  BY DEF FileIInv, TypeInv
<1>2. up[l].body \in Content /\ up[l].todo \in Content /\ up[l].sess \in Sessions \cup {None}
  BY <1>1 DEF Uploads
<1>3. Len(up[l].todo) \in Nat
  BY <1>2 DEF Content
<1>4. SubSeq(up[l].todo, 1, k) \in Content /\ todo \in Content
  BY <1>2, <1>3, Part
<1>5. body \in Content
  BY <1>2, <1>4, ConcatProperties DEF Content
<1> HIDE DEF body, todo
<1>6. /\ up' = [up EXCEPT ![l].body = body, ![l].todo = todo]
      /\ UNCHANGED <<mix, database, disk>> /\ job[l].pc = "done"
      /\ Become(l, r) \/ UNCHANGED job
  BY DEF Receive, Idle, body, todo
<1>7. up' \in [Loops -> Uploads] /\ \A m \in Loops : up'[m].ctx = up[m].ctx
  BY <1>1, <1>4, <1>5, <1>6 DEF Uploads
<1>8. PICK j : Become(l, j) /\ IsJob(j) /\ Right(l, j, users', up', files, Len(disk))
  <2>1. CASE Become(l, r)
    <3>1. /\ IsJob(r) /\ r.rows = {} /\ r.sess \in Sessions \cup {None}
          /\ r.pc \in {"code", "account", "logout", "auth"}
      BY <1>2, RequestTyped
    <3> HIDE DEF r
    <3>2. Right(l, r, users', up', files, Len(disk))
      BY <3>1, RequestRight
    <3>3. QED BY <2>1, <3>1, <3>2
  <2>2. CASE UNCHANGED job
    BY <1>6, <2>2, SameJob, DoneRight
  <2>3. QED BY <1>6, <2>1, <2>2
<1>9. QED BY <1>6, <1>7, <1>8, QuietLoop DEF database, FileIInv, TypeInv, RowsHaveFiles

LEMMA ExpireSessionStep == ASSUME FileIInv, NEW s \in Sessions, ExpireSession(s) PROVE FileIInv'
<1>1. /\ sessions' = [sessions EXCEPT ![s] = None]
      /\ UNCHANGED <<mix, users, files, shares, disk, job, up>>
  BY DEF ExpireSession
<1>2. QED BY <1>1, Quiet DEF FileIInv, TypeInv, JobInv, RowsHaveFiles, Uploads

LEMMA ExpireShareStep == ASSUME FileIInv, NEW c \in shares, ExpireShare(c) PROVE FileIInv'
<1> DEFINE d == [c EXCEPT !.live = FALSE]
<1>1. shares' = (shares \ {c}) \cup {d} /\ UNCHANGED <<mix, users, sessions, files, disk, job, up>>
  BY DEF ExpireShare
<1>2. IsShare(c) /\ \E f \in files : f.name = c.file
  BY DEF FileIInv, TypeInv, RowsHaveFiles
<1>3. IsShare(d) /\ d.file = c.file
  BY <1>2 DEF IsShare
<1>4. \A e \in shares' : IsShare(e) /\ \E f \in files : f.name = e.file
  BY <1>1, <1>2, <1>3 DEF FileIInv, TypeInv, RowsHaveFiles
<1>5. QED BY <1>1, <1>4, Quiet DEF FileIInv, TypeInv, JobInv, Uploads

LEMMA CrashStep == ASSUME FileIInv, Crash PROVE FileIInv'
<1>1. /\ job' = [l \in Loops |-> NoJob] /\ up' = [l \in Loops |-> NoUpload]
      /\ UNCHANGED <<mix, database, disk>>
  BY DEF Crash
<1>2. /\ up' \in [Loops -> Uploads] /\ \A m \in Loops : up'[m].ctx = 0
      /\ \A m \in Loops : IsJob(job'[m]) /\ Right(m, job'[m], users', up', files, Len(disk))
  BY <1>1, NoUploadTyped, NoJobTyped, DoneRight
<1>3. QED BY <1>1, <1>2, Quiet DEF database, FileIInv, TypeInv, RowsHaveFiles

(* What Continue does to the upload of the loop. *)
LEMMA ContinueUploads ==
  ASSUME FileIInv, NEW l \in Loops, NEW k, Continue(l, k)
  PROVE  /\ up' \in [Loops -> Uploads] /\ up'[l].ctx \in {0, up[l].ctx}
         /\ \A m \in Loops \ {l} : up'[m].ctx = up[m].ctx
         /\ k.pc # "done" => up' = up
<1>1. up \in [Loops -> Uploads]
  BY DEF FileIInv, TypeInv
<1>2. up' = up \/ (k.pc = "done" /\ up' = [up EXCEPT ![l] = NoUpload])
  BY DEF Continue
<1>3. QED BY <1>1, <1>2, NoUploadTyped

(* The code after a query, whoever gave it the rows. *)
LEMMA ResumeStep ==
  ASSUME FileIInv, NEW l \in Loops, NEW rows, Continue(l, Resume(job[l], rows)),
         UNCHANGED <<mix, database, disk>>,
         rows = {} \/ rows = job[l].rows
  PROVE  FileIInv'
<1> DEFINE k == Resume(job[l], rows)
<1>1. IsJob(job[l]) /\ Right(l, job[l], users, up, files, Len(disk))
  BY DEF FileIInv, TypeInv, JobInv
<1>2. IsJob(k) /\ Right(l, k, users, up, files, Len(disk))
  <2>1. /\ job[l].pc = "auth" => rows \subseteq users
        /\ job[l].pc = "account" /\ rows # {} => job[l].user \in users
        /\ job[l].pc = "owned" /\ rows # {} => Owned(job[l], up, files, Len(disk))
    BY <1>1 DEF Right
  <2>2. QED BY <1>1, <2>1, ResumeRight
<1> HIDE DEF k
<1>3. Continue(l, k) /\ Become(l, k)
  BY DEF Continue, k
<1>4. /\ up' \in [Loops -> Uploads] /\ up'[l].ctx \in {0, up[l].ctx}
      /\ \A m \in Loops \ {l} : up'[m].ctx = up[m].ctx
      /\ k.pc # "done" => up' = up
  BY <1>3, ContinueUploads
<1>5. Right(l, k, users', up', files, Len(disk))
  <2>1. CASE k.pc = "done"
    BY <2>1, DoneRight
  <2>2. CASE k.pc # "done"
    BY <1>2, <1>4, <2>2 DEF database
  <2>3. QED BY <2>1, <2>2
<1>6. QED BY <1>2, <1>3, <1>4, <1>5, QuietLoop DEF database, FileIInv, TypeInv, RowsHaveFiles

LEMMA SendQueryStep == ASSUME FileIInv, NEW l \in Loops, SendQuery(l) PROVE FileIInv'
<1> DEFINE j == job[l]
           k == [j EXCEPT !.rows = Answer(j)]
<1>1. j.pc \in Queries /\ UNCHANGED <<mix, database, disk>>
  BY DEF SendQuery
<1>2. CASE Continue(l, Resume(j, {}))
  BY <1>1, <1>2, ResumeStep
<1>3. CASE /\ Become(l, k) /\ UNCHANGED up
           /\ ~(handle # None \/ (j.pc = "auth" /\ j.sess = None))
  <2>1. IsJob(j) /\ Right(l, j, users, up, files, Len(disk))
    BY DEF FileIInv, TypeInv, JobInv
  <2>2. /\ IsJob(k) /\ k.pc = j.pc /\ k.rows = Answer(j) /\ k.user = j.user /\ k.name = j.name
        /\ k.sess = j.sess /\ k.op = j.op
    BY <2>1 DEF IsJob
  <2> HIDE DEF k
  <2>3. Right(l, k, users, up, files, Len(disk))
    <3>1. CASE j.pc = "auth"
      <4>1. j.sess \in Sessions \cup {None}
        BY <2>1, <3>1 DEF Right
      <4>2. AuthRows(j) \subseteq users
        BY <4>1 DEF AuthRows, UserOf, FileIInv, TypeInv
      <4>3. k.rows \subseteq users
        BY <2>2, <3>1, <4>2 DEF Answer
      <4>4. QED BY <2>2, <3>1, <4>1, <4>3 DEF Right
    <3>2. CASE j.pc = "account"
      BY <2>2, <3>2 DEF Right, Answer, AccountRows
    <3>3. CASE j.pc = "owned"
      <4>1. k.rows = OwnedRows(j)
        BY <2>2, <3>3 DEF Answer
      <4>2. k.rows # {} => Owned(j, up, files, Len(disk))
        BY <4>1, RowOwned
      <4>3. k.rows # {} => Owned(k, up, files, Len(disk))
        BY <2>2, <4>2 DEF Owned
      <4>4. QED BY <2>2, <3>3, <4>3 DEF Right
    <3>4. CASE j.pc \in {"file", "code", "exists", "list", "info"}
      BY <2>2, <3>4 DEF Right
    <3>5. QED BY <1>1, <3>1, <3>2, <3>3, <3>4 DEF Queries
  <2>4. Become(l, k) /\ UNCHANGED up
    BY <1>3
  <2>5. QED BY <1>1, <2>2, <2>3, <2>4, QuietLoop DEF database, FileIInv, TypeInv, RowsHaveFiles
<1>4. QED BY <1>2, <1>3 DEF SendQuery

LEMMA StoreResultStep == ASSUME FileIInv, NEW l \in Loops, StoreResult(l) PROVE FileIInv'
BY ResumeStep DEF StoreResult

(* The last statement of a handler, when it leaves files and uploads alone. *)
LEMMA AnswerStep ==
  ASSUME FileIInv, NEW l \in Loops, NEW status, Become(l, Reply(status)),
         UNCHANGED <<mix, files, disk, up>>, users \subseteq users',
         sessions' \in [Sessions -> users' \cup {None}],
         \A c \in shares' : IsShare(c) /\ \E f \in files : f.name = c.file
  PROVE  FileIInv'
<1>1. IsJob(Reply(status)) /\ Right(l, Reply(status), users', up', files, Len(disk))
  BY ReplyTyped, DoneRight
<1>2. up' \in [Loops -> Uploads] /\ \A m \in Loops : up'[m].ctx = up[m].ctx
  BY DEF FileIInv, TypeInv
<1>3. QED BY <1>1, <1>2, QuietLoop

LEMMA SharesKept ==
  ASSUME FileIInv
  PROVE  \A c \in shares : IsShare(c) /\ \E f \in files : f.name = c.file
BY DEF FileIInv, TypeInv, RowsHaveFiles

LEMMA SetPrivateStep == ASSUME FileIInv, NEW l \in Loops, SetPrivate(l) PROVE FileIInv'
<1>1. /\ Become(l, Reply(200)) /\ UNCHANGED <<mix, users, sessions, files, disk, up>>
      /\ shares' \subseteq shares
  BY DEF SetPrivate
<1>2. QED BY <1>1, SharesKept, AnswerStep DEF FileIInv, TypeInv

LEMMA CreateShareStep == ASSUME FileIInv, NEW l \in Loops, CreateShare(l) PROVE FileIInv'
<1> DEFINE j == job[l]
           c == [id |-> made + 1, file |-> j.name, kind |-> j.kind, with |-> j.with, live |-> TRUE]
<1>1. UNCHANGED <<mix, users, sessions, files, disk, up>>
  BY DEF CreateShare
<1>2. CASE FileRows(j) # {} /\ shares' = shares \cup {c} /\ Become(l, Reply(200))
  <2>1. IsShare(c) /\ \E f \in files : f.name = c.file
    BY <1>2 DEF IsShare, FileRows
  <2>2. \A d \in shares' : IsShare(d) /\ \E f \in files : f.name = d.file
    BY <1>2, <2>1, SharesKept
  <2>3. QED BY <1>1, <1>2, <2>2, AnswerStep DEF FileIInv, TypeInv
<1>3. CASE UNCHANGED shares /\ Become(l, Reply(500))
  BY <1>1, <1>3, SharesKept, AnswerStep DEF FileIInv, TypeInv
<1>4. QED BY <1>2, <1>3 DEF CreateShare

LEMMA SaveSessionStep == ASSUME FileIInv, NEW l \in Loops, SaveSession(l) PROVE FileIInv'
<1>1. /\ Become(l, Reply(200)) /\ UNCHANGED <<mix, users, files, shares, disk, up>>
      /\ \/ sessions' = sessions
         \/ \E s \in Sessions : sessions' = [sessions EXCEPT ![s] = job[l].user]
  BY DEF SaveSession
<1>2. job[l].user \in users
  BY DEF SaveSession, At, FileIInv, JobInv, Right
<1>3. sessions' \in [Sessions -> users \cup {None}]
  BY <1>1, <1>2 DEF FileIInv, TypeInv
<1>4. QED BY <1>1, <1>3, SharesKept, AnswerStep

LEMMA EndSessionStep == ASSUME FileIInv, NEW l \in Loops, EndSession(l) PROVE FileIInv'
<1>1. /\ Become(l, Reply(200)) /\ UNCHANGED <<mix, users, files, shares, disk, up>>
      /\ sessions' = sessions \/ sessions' = [sessions EXCEPT ![job[l].sess] = None]
  BY DEF EndSession
<1>2. sessions' \in [Sessions -> users \cup {None}]
  BY <1>1 DEF FileIInv, TypeInv
<1>3. QED BY <1>1, <1>2, SharesKept, AnswerStep

LEMMA InsertUserStep == ASSUME FileIInv, NEW l \in Loops, InsertUser(l) PROVE FileIInv'
<1>1. /\ \E status : Become(l, Reply(status))
      /\ UNCHANGED <<mix, sessions, files, shares, disk, up>> /\ users \subseteq users'
  BY DEF InsertUser
<1>2. sessions' \in [Sessions -> users' \cup {None}]
  BY <1>1 DEF FileIInv, TypeInv
<1>3. QED BY <1>1, <1>2, SharesKept, AnswerStep

LEMMA OpenStep == ASSUME FileIInv, NEW l \in Loops, Open(l) PROVE FileIInv'
<1>1. /\ \E status : Become(l, Reply(status))
      /\ UNCHANGED <<mix, users, sessions, files, shares, disk, up>>
  BY DEF Open, database
<1>2. QED BY <1>1, SharesKept, AnswerStep DEF FileIInv, TypeInv

(* The row goes before the file. *)
LEMMA DeleteFileStep == ASSUME FileIInv, NEW l \in Loops, DeleteFile(l) PROVE FileIInv'
<1> DEFINE j == job[l]
<1>1. UNCHANGED <<mix, users, sessions, disk, up>> /\ j.pc = "deleteFile"
  BY DEF DeleteFile, At
<1>2. CASE Become(l, Reply(500)) /\ UNCHANGED <<files, shares>>
  BY <1>1, <1>2, SharesKept, AnswerStep DEF FileIInv, TypeInv
<1>3. CASE /\ files' = {f \in files : f.name # j.name}
           /\ shares' = {c \in shares : c.file # j.name}
           /\ Become(l, Go(j, "unlink"))
  <2>1. /\ DOMAIN job = Loops /\ \A m \in Loops : IsJob(job[m])
        /\ \A m \in Loops : Right(m, job[m], users, up, files, Len(disk))
    BY DEF FileIInv, TypeInv, JobInv
  <2>2. /\ DOMAIN job' = Loops /\ job' = [m \in Loops |-> job'[m]]
        /\ job'[l] = Go(j, "unlink") /\ \A m \in Loops \ {l} : job'[m] = job[m]
    BY <1>3, <2>1 DEF Become
  <2>3. /\ IsJob(job'[l]) /\ job'[l].pc = "unlink" /\ job'[l].name = j.name /\ job'[l].user = j.user
    BY <2>1, <2>2, GoTyped
  <2>4. Owned(j, up, files, Len(disk))
    BY <1>1, <2>1 DEF Right
  <2>5. Right(l, job'[l], users, up, files', Len(disk))
    BY <1>3, <2>3, <2>4 DEF Right, Owned
  <2>6. ASSUME NEW m \in Loops \ {l} PROVE Right(m, job[m], users, up, files', Len(disk))
    <3>1. files' \subseteq files
      BY <1>3
    <3>2. Owned(job[m], up, files, Len(disk)) => Owned(job[m], up, files', Len(disk))
      BY <3>1 DEF Owned
    <3>3. QED BY <2>1, <3>1, <3>2, RightKept
  <2>7. \A m \in Loops : JobInv(m)'
    BY <1>1, <2>2, <2>5, <2>6 DEF JobInv
  <2>8. TypeInv'
    BY <1>1, <1>3, <2>1, <2>2, <2>3 DEF FileIInv, TypeInv
  <2>9. RowsHaveFiles'
    BY <1>1, <1>3 DEF FileIInv, RowsHaveFiles
  <2>10. UploadInv'
    BY <1>1, <1>3 DEF FileIInv, UploadInv
  <2>11. QED BY <2>7, <2>8, <2>9, <2>10 DEF FileIInv
<1>4. QED BY <1>2, <1>3 DEF DeleteFile

(* What is known of the job of a loop that moves on, and of the others. *)
LEMMA Jobs ==
  ASSUME FileIInv, NEW l \in Loops, NEW k, Become(l, k), IsJob(k)
  PROVE  /\ DOMAIN job' = Loops /\ job' = [m \in Loops |-> job'[m]]
         /\ \A m \in Loops : IsJob(job'[m]) /\ Right(m, job[m], users, up, files, Len(disk))
         /\ job'[l] = k /\ \A m \in Loops \ {l} : job'[m] = job[m]
BY DEF FileIInv, TypeInv, JobInv, Become

(* No row names the file that goes. *)
LEMMA UnlinkStep == ASSUME FileIInv, NEW l \in Loops, Unlink(l) PROVE FileIInv'
<1> DEFINE j == job[l]
<1>1. /\ j.pc = "unlink" /\ disk' = [disk EXCEPT ![j.name] = Absent] /\ Become(l, Reply(200))
      /\ UNCHANGED <<mix, users, sessions, files, shares, up>>
  BY DEF Unlink, At, database
<1>2. Owned(j, up, files, Len(disk)) /\ \A f \in files : f.name # j.name
  BY <1>1 DEF FileIInv, JobInv, Right
<1>3. disk \in Seq(Content \cup {Absent}) /\ j.name \in 1..Len(disk)
  BY <1>2 DEF FileIInv, TypeInv, Owned
<1>4. /\ disk' \in Seq(Content \cup {Absent}) /\ Len(disk') = Len(disk)
      /\ \A i \in 1..Len(disk) : disk'[i] = IF i = j.name THEN Absent ELSE disk[i]
  BY <1>1, <1>3, ExceptSeq
<1>5. IsJob(Reply(200)) /\ Right(l, Reply(200), users', up', files', Len(disk)')
  BY ReplyTyped, DoneRight
<1>6. \A m \in Loops : JobInv(m)'
  BY <1>1, <1>4, <1>5, Jobs DEF JobInv
<1>7. TypeInv'
  BY <1>1, <1>4, <1>5, Jobs DEF FileIInv, TypeInv
<1>8. RowsHaveFiles'
  BY <1>1, <1>2, <1>4 DEF FileIInv, RowsHaveFiles
<1>9. UploadInv'
  BY <1>1, <1>2, <1>4 DEF FileIInv, UploadInv, Owned
<1>10. QED BY <1>6, <1>7, <1>8, <1>9 DEF FileIInv

(* The row comes after the last write, and the upload gives the file up. *)
LEMMA CreateFileStep == ASSUME FileIInv, NEW l \in Loops, CreateFile(l) PROVE FileIInv'
<1> DEFINE f0 == [name |-> up[l].ctx, owner |-> job[l].user]
<1>1. /\ job[l].pc = "createFile" /\ Become(l, Reply(200))
      /\ files' = files \cup {f0} \/ files' = files
      /\ \/ up' = [up EXCEPT ![l] = NoUpload]
         \/ up' = [up EXCEPT ![l].ctx = 0, ![l].state = "headers"]
      /\ UNCHANGED <<mix, users, sessions, shares, disk>>
  BY DEF CreateFile, At
<1>2. up[l].ctx # 0 /\ job[l].user \in users
  BY <1>1 DEF FileIInv, JobInv, Right
<1>3. /\ up[l].ctx \in 1..Len(disk) /\ disk[up[l].ctx] \in Content /\ disk[up[l].ctx] # Absent
      /\ \A f \in files : f.name # up[l].ctx
      /\ \A m \in Loops \ {l} : up[m].ctx # up[l].ctx
  BY <1>2, AbsentNotContent DEF FileIInv, UploadInv
<1>4. /\ up' \in [Loops -> Uploads] /\ up'[l].ctx = 0
      /\ \A m \in Loops \ {l} : up'[m].ctx = up[m].ctx
  <2>1. up \in [Loops -> Uploads] /\ "headers" \in States
    BY DEF FileIInv, TypeInv, States
  <2>2. QED BY <1>1, <2>1, NoUploadTyped DEF Uploads
<1>5. IsJob(Reply(200)) /\ Right(l, Reply(200), users', up', files', Len(disk)')
  BY ReplyTyped, DoneRight
<1>6. ASSUME NEW m \in Loops \ {l} PROVE Right(m, job[m], users', up', files', Len(disk)')
  <2>1. Right(m, job[m], users, up, files, Len(disk))
    BY DEF FileIInv, JobInv
  <2>2. Owned(job[m], up, files, Len(disk)) => up[l].ctx # job[m].name
    BY DEF Owned
  <2>3. Owned(job[m], up, files, Len(disk)) => Owned(job[m], up', files', Len(disk)')
    <3>1. SUFFICES ASSUME Owned(job[m], up, files, Len(disk))
                   PROVE  Owned(job[m], up', files', Len(disk)')
      OBVIOUS
    <3>2. \A n \in Loops : up'[n].ctx # job[m].name
      BY <1>4, <3>1 DEF Owned, FileIInv, TypeInv
    <3>3. \A f \in files' : f.name = job[m].name => f.owner = job[m].user
      BY <1>1, <2>2, <3>1 DEF Owned
    <3>4. QED BY <1>1, <3>1, <3>2, <3>3 DEF Owned
  <2>4. Owned(job[m], up, files, Len(disk)) /\ (\A f \in files : f.name # job[m].name)
          => \A f \in files' : f.name # job[m].name
    BY <1>1, <2>2
  <2>5. users \subseteq users' /\ up'[m].ctx = up[m].ctx
    BY <1>1, <1>4
  <2>6. QED BY <2>1, <2>3, <2>4, <2>5, RightKept
<1>7. \A m \in Loops : JobInv(m)'
  BY <1>1, <1>5, <1>6, Jobs DEF JobInv
<1>8. TypeInv'
  BY <1>1, <1>2, <1>3, <1>4, <1>5, Jobs DEF FileIInv, TypeInv
<1>9. RowsHaveFiles'
  BY <1>1, <1>2, <1>3 DEF FileIInv, RowsHaveFiles
<1>10. UploadInv'
  BY <1>1, <1>3, <1>4 DEF FileIInv, UploadInv
<1>11. QED BY <1>7, <1>8, <1>9, <1>10 DEF FileIInv

(* The write of a piece: a file of its own, whatever the piece. *)
LEMMA ChunkWrites ==
  ASSUME FileIInv, NEW l \in Loops, Chunk(l)
  PROVE  /\ up' \in [Loops -> Uploads] /\ up'[l].ctx # 0
         /\ \A m \in Loops \ {l} : up'[m].ctx = up[m].ctx
         /\ up'[l].ctx \in 1..Len(disk') /\ disk'[up'[l].ctx] \in Content
         /\ disk' \in Seq(Content \cup {Absent}) /\ Len(disk) <= Len(disk')
         /\ \A i \in 1..Len(disk) : i # up'[l].ctx => disk'[i] = disk[i]
         /\ up'[l].ctx = up[l].ctx \/ (up[l].ctx = 0 /\ up'[l].ctx = Len(disk) + 1)
<1> DEFINE u    == up[l]
           new  == u.ctx = 0
           name == IF new THEN Len(disk) + 1 ELSE u.ctx
           p    == IF new THEN First(u.body) ELSE Later(u.state, u.body)
<1>1. /\ disk' = IF new THEN Append(disk, p.add) ELSE [disk EXCEPT ![name] = @ \o p.add]
      /\ \E torn \in BOOLEAN :
           up' = [up EXCEPT ![l].ctx = name, ![l].state = p.state, ![l].body = <<>>, ![l].torn = torn]
  BY Zenon DEF Chunk
<1>2. /\ up \in [Loops -> Uploads] /\ u.body \in Content /\ u.state \in States /\ u.ctx \in Nat
      /\ disk \in Seq(Content \cup {Absent}) /\ Len(disk) \in Nat
  BY LenProperties DEF FileIInv, TypeInv, Uploads
<1>3. p.add \in Content /\ p.state \in States
  BY <1>2, FirstTyped, LaterTyped
<1> HIDE DEF p
<1>4. name \in Nat \ {0} /\ <<>> \in Content
  BY <1>2 DEF Content
<1>5. /\ up' \in [Loops -> Uploads] /\ up'[l].ctx = name
      /\ \A m \in Loops \ {l} : up'[m].ctx = up[m].ctx
  <2>1. PICK torn \in BOOLEAN :
          up' = [up EXCEPT ![l].ctx = name, ![l].state = p.state, ![l].body = <<>>, ![l].torn = torn]
    BY <1>1
  <2> DEFINE v == [up[l] EXCEPT !.ctx = name, !.state = p.state, !.body = <<>>, !.torn = torn]
  <2> HIDE DEF name
  <2>2. up[l] \in Uploads /\ name \in Nat
    BY <1>2, <1>4
  <2>3. v \in Uploads /\ v.ctx = name
    BY <1>3, <1>4, <2>2 DEF Uploads
  <2>4. up' = [up EXCEPT ![l] = v]
    BY <1>2, <2>1
  <2> HIDE DEF v
  <2>5. QED BY <1>2, <2>3, <2>4
<1>6. CASE new
  <2>1. disk' = Append(disk, p.add) /\ name = Len(disk) + 1
    BY <1>1, <1>6
  <2>2. p.add \in Content \cup {Absent}
    BY <1>3
  <2>3. /\ disk' \in Seq(Content \cup {Absent}) /\ Len(disk') = Len(disk) + 1
        /\ \A i \in 1..Len(disk) : disk'[i] = disk[i] 
        /\ disk'[Len(disk) + 1] = p.add
    BY <1>2, <2>1, <2>2, AppendProperties
  <2>4. QED BY <1>2, <1>3, <1>5, <1>6, <2>1, <2>3
<1>7. CASE ~new
  <2>1. PICK i \in 1..Len(disk) : i = u.ctx /\ disk[i] \in Content
    BY <1>7 DEF FileIInv, UploadInv
  <2> DEFINE text == disk[i] \o p.add
  <2>2. disk' = [disk EXCEPT ![i] = text]
    BY <1>1, <1>7, <2>1
  <2>3. text \in Content
    BY <1>3, <2>1, ConcatProperties DEF Content
  <2>4. text \in Content \cup {Absent} /\ disk \in Seq(Content \cup {Absent})
    BY <1>2, <2>3
  <2> HIDE DEF text
  <2>5. /\ disk' \in Seq(Content \cup {Absent}) /\ Len(disk') = Len(disk)
        /\ \A k \in 1..Len(disk) : disk'[k] = IF k = i THEN text ELSE disk[k]
    BY <2>2, <2>4, ExceptSeq
  <2>6. up'[l].ctx = i /\ up[l].ctx = i /\ i # 0
    BY <1>4, <1>5, <1>7, <2>1
  <2>7. QED BY <1>2, <1>5, <2>1, <2>3, <2>5, <2>6
<1>8. QED BY <1>6, <1>7

LEMMA ChunkStep == ASSUME FileIInv, NEW l \in Loops, Chunk(l) PROVE FileIInv'
<1>1. /\ up' \in [Loops -> Uploads] /\ up'[l].ctx # 0
      /\ \A m \in Loops \ {l} : up'[m].ctx = up[m].ctx
      /\ up'[l].ctx \in 1..Len(disk') /\ disk'[up'[l].ctx] \in Content
      /\ disk' \in Seq(Content \cup {Absent}) /\ Len(disk) <= Len(disk')
      /\ \A i \in 1..Len(disk) : i # up'[l].ctx => disk'[i] = disk[i]
      /\ up'[l].ctx = up[l].ctx \/ (up[l].ctx = 0 /\ up'[l].ctx = Len(disk) + 1)
  BY ChunkWrites
<1>2. /\ job[l].pc = "chunk" /\ UNCHANGED <<mix, users, sessions, files, shares>>
      /\ Become(l, Go(job[l], "createFile")) \/ Become(l, Reply(0))
  BY Zenon DEF Chunk, At, database
<1>3. /\ Len(disk) \in Nat /\ Len(disk') \in Nat
      /\ \A f \in files : f.name \in 1..Len(disk) /\ f.name # up'[l].ctx
      /\ \A m \in Loops \ {l} : up'[m].ctx # up'[l].ctx
  <2>1. Len(disk) \in Nat /\ Len(disk') \in Nat
    BY <1>1 DEF FileIInv, TypeInv
  <2>2. \A f \in files : f.name \in 1..Len(disk) /\ f.name # up'[l].ctx
    BY <1>1, <2>1 DEF FileIInv, RowsHaveFiles, UploadInv
  <2>3. ASSUME NEW m \in Loops \ {l} PROVE up'[m].ctx # up'[l].ctx
    <3>1. up[m].ctx # 0 => up[m].ctx \in 1..Len(disk)
      BY DEF FileIInv, UploadInv
    <3>2. up[l].ctx # 0 => up[m].ctx # up[l].ctx
      BY DEF FileIInv, UploadInv
    <3>3. QED BY <1>1, <2>1, <3>1, <3>2
  <2>4. QED BY <2>1, <2>2, <2>3
<1>4. PICK k : Become(l, k) /\ IsJob(k) /\ Right(l, k, users', up', files', Len(disk)')
  <2>1. CASE Become(l, Reply(0))
    BY <2>1, ReplyTyped, DoneRight
  <2>2. CASE Become(l, Go(job[l], "createFile"))
    <3>1. IsJob(job[l]) /\ job[l].user \in users
      BY <1>2 DEF FileIInv, TypeInv, JobInv, Right
    <3>2. /\ IsJob(Go(job[l], "createFile")) /\ Go(job[l], "createFile").pc = "createFile"
          /\ Go(job[l], "createFile").user \in users
      BY <3>1, GoTyped
    <3>3. Right(l, Go(job[l], "createFile"), users', up', files', Len(disk)')
      BY <1>1, <1>2, <3>2 DEF Right
    <3>4. QED BY <2>2, <3>2, <3>3
  <2>3. QED BY <1>2, <2>1, <2>2
<1>5. ASSUME NEW m \in Loops \ {l} PROVE Right(m, job[m], users', up', files', Len(disk)')
  <2>1. Right(m, job[m], users, up, files, Len(disk))
    BY DEF FileIInv, JobInv
  <2>2. Owned(job[m], up, files, Len(disk)) => Owned(job[m], up', files', Len(disk)')
    BY <1>1, <1>2, <1>3 DEF Owned
  <2>3. up'[m].ctx = up[m].ctx /\ users \subseteq users' /\ files' = files
    BY <1>1, <1>2
  <2>4. QED BY <2>1, <2>2, <2>3, RightKept
<1>6. \A m \in Loops : JobInv(m)'
  BY <1>4, <1>5, Jobs DEF JobInv
<1>7. TypeInv'
  <2>1. files' \subseteq [name : 1..Len(disk)', owner : users']
    BY <1>1, <1>2, <1>3 DEF FileIInv, TypeInv
  <2>2. QED BY <1>1, <1>2, <1>4, <2>1, Jobs DEF FileIInv, TypeInv
<1>8. RowsHaveFiles'
  BY <1>1, <1>2, <1>3 DEF FileIInv, RowsHaveFiles
<1>9. UploadInv'
  <2>1. ASSUME NEW m \in Loops, up'[m].ctx # 0
        PROVE  /\ up'[m].ctx \in 1..Len(disk') /\ disk'[up'[m].ctx] \in Content
               /\ \A f \in files' : f.name # up'[m].ctx
    <3>1. CASE m = l
      BY <1>1, <1>2, <1>3, <3>1
    <3>2. CASE m # l
      <4>1. /\ up[m].ctx \in 1..Len(disk) /\ disk[up[m].ctx] \in Content
            /\ \A f \in files : f.name # up[m].ctx
        BY <1>1, <2>1, <3>2 DEF FileIInv, UploadInv
      <4>2. QED BY <1>1, <1>2, <1>3, <3>2, <4>1
    <3>3. QED BY <3>1, <3>2
  <2>2. ASSUME NEW m \in Loops, NEW n \in Loops, up'[m].ctx # 0, up'[m].ctx = up'[n].ctx
        PROVE  m = n
    BY <1>1, <1>3, <2>2 DEF FileIInv, UploadInv
  <2>3. QED BY <2>1, <2>2 DEF UploadInv
<1>10. QED BY <1>6, <1>7, <1>8, <1>9 DEF FileIInv

LEMMA InitInvariant == Init => FileIInv
<1> SUFFICES ASSUME Init PROVE FileIInv
  OBVIOUS
<1>1. /\ mix \in Mixes /\ mix.old \in Nat
      /\ sessions \in [Sessions -> users \cup {None}]
      /\ disk = [n \in 1..mix.old |-> <<"d">>]
      /\ job = [l \in Loops |-> NoJob] /\ up = [l \in Loops |-> NoUpload]
  BY FileServiceAssumption DEF Init
<1>2. <<"d">> \in Content /\ <<"d">> # Absent
  <2>1. "d" \in Units
    BY DEF Units
  <2>2. <<"d">> \in Content
    BY <2>1 DEF Content
  <2>3. QED BY <2>2, AbsentNotContent
<1>3. disk \in Seq(Content \cup {Absent}) /\ Len(disk) = mix.old
  <2> DEFINE d == <<"d">>
             C == Content \cup {Absent}
  <2>1. d \in C
    BY <1>2
  <2> HIDE DEF d, C
  <2>2. disk = [n \in 1..mix.old |-> d]
    BY <1>1 DEF d
  <2>3. disk \in Seq(C) /\ Len(disk) = mix.old
    BY <1>1, <2>1, <2>2
  <2>4. QED BY <2>3 DEF C
<1>4. /\ files \subseteq [name : 1..mix.old, owner : users]
      /\ \A f, g \in files : f.name = g.name => f = g
  <2>1. CASE files = {}
    BY <2>1
  <2>2. ASSUME NEW o \in [1..mix.old -> users], files = {[name |-> n, owner |-> o[n]] : n \in 1..mix.old}
        PROVE  /\ files \subseteq [name : 1..mix.old, owner : users]
               /\ \A f, g \in files : f.name = g.name => f = g
    BY <2>2
  <2>3. QED BY <2>1, <2>2 DEF Init
<1>5. \A c \in shares : IsShare(c) /\ \E f \in files : f.name = c.file
  BY DEF Init, IsShare
<1>6. TypeInv
  BY <1>1, <1>3, <1>4, <1>5, NoJobTyped, NoUploadTyped DEF TypeInv
<1>7. RowsHaveFiles
  <2>1. \A f \in files : f.name \in 1..Len(disk) /\ disk[f.name] = <<"d">> /\ f.owner \in users
    BY <1>1, <1>3, <1>4
  <2>2. QED BY <1>2, <1>4, <1>5, <2>1 DEF RowsHaveFiles
<1>8. UploadInv
  BY <1>1, NoUploadTyped DEF UploadInv
<1>9. \A l \in Loops : JobInv(l)
  BY <1>1, NoJobTyped, DoneRight DEF JobInv
<1>10. QED BY <1>6, <1>7, <1>8, <1>9 DEF FileIInv

LEMMA StepInvariant == FileIInv /\ [Next]_vars => FileIInv'
<1> SUFFICES ASSUME FileIInv, [Next]_vars PROVE FileIInv'
  OBVIOUS
<1>1. CASE UNCHANGED vars
  BY <1>1, Quiet DEF vars, database, FileIInv, TypeInv, RowsHaveFiles, JobInv, Uploads
<1>2. ASSUME NEW l \in Loops, LoopStep(l) PROVE FileIInv'
  BY <1>2, SendQueryStep, StoreResultStep, DeleteFileStep, SetPrivateStep, CreateShareStep,
     CreateFileStep, SaveSessionStep, EndSessionStep, InsertUserStep, ChunkStep, UnlinkStep, OpenStep
     DEF LoopStep
<1>3. ASSUME Environment PROVE FileIInv'
  BY <1>3, ArriveStep, BeginUploadStep, DisconnectStep, ReceiveStep, ExpireSessionStep,
     ExpireShareStep, CrashStep DEF Environment
<1>4. QED BY <1>1, <1>2, <1>3 DEF Next

LEMMA FileInvariant == Spec => []FileIInv
BY InitInvariant, StepInvariant, PTL DEF Spec

-----------------------------------------------------------------------------
(* Every row of files has a file and a user, no name has two rows, and every *)
(* share a row, however uploads, deletes and shares of all loops overlap     *)
(* and whenever the process ends (FileHandler.cpp, ShareHandler.cpp).        *)
THEOREM Rows == Spec => []RowsHaveFiles
<1>1. FileIInv => RowsHaveFiles
  BY DEF FileIInv
<1>2. QED BY <1>1, FileInvariant, PTL

(* Only DeleteFile takes rows away, and CreateFile alone adds one. *)
LEMMA RowsChange ==
  ASSUME FileIInv, [Next]_vars
  PROVE  \/ files' = files /\ \A f \in files : disk'[f.name] = disk[f.name]
         \/ \E l \in Loops : DeleteFile(l) \/ CreateFile(l)
<1> DEFINE Still == files' = files /\ \A f \in files : disk'[f.name] = disk[f.name]
<1>1. CASE UNCHANGED <<files, disk>>
  BY <1>1
<1>2. ASSUME NEW l \in Loops, Chunk(l) PROVE Still
  <2>1. /\ \A i \in 1..Len(disk) : i # up'[l].ctx => disk'[i] = disk[i]
        /\ up'[l].ctx = up[l].ctx \/ (up[l].ctx = 0 /\ up'[l].ctx = Len(disk) + 1)
        /\ up'[l].ctx # 0
    BY <1>2, ChunkWrites
  <2>2. Len(disk) \in Nat /\ files' = files
    BY <1>2 DEF FileIInv, TypeInv, Chunk, database
  <2>3. ASSUME NEW f \in files PROVE f.name \in 1..Len(disk) /\ f.name # up'[l].ctx
    BY <2>1, <2>2 DEF FileIInv, RowsHaveFiles, UploadInv
  <2>4. QED BY <2>1, <2>2, <2>3
<1>3. ASSUME NEW l \in Loops, Unlink(l) PROVE Still
  <2>1. files' = files /\ disk' = [disk EXCEPT ![job[l].name] = Absent]
    BY <1>3 DEF Unlink, database
  <2>2. \A f \in files : f.name # job[l].name /\ f.name \in 1..Len(disk)
    BY <1>3 DEF Unlink, At, FileIInv, JobInv, Right, RowsHaveFiles
  <2>3. disk \in Seq(Content \cup {Absent})
    BY DEF FileIInv, TypeInv
  <2>4. QED BY <2>1, <2>2, <2>3
<1>4. ASSUME NEW l \in Loops, LoopStep(l), ~(DeleteFile(l) \/ CreateFile(l)) PROVE Still
  BY <1>1, <1>2, <1>3, <1>4 DEF LoopStep, SendQuery, StoreResult, SetPrivate, CreateShare,
     SaveSession, EndSession, InsertUser, Open, database
<1>5. ASSUME Environment PROVE Still
  BY <1>1, <1>5 DEF Environment, Arrive, BeginUpload, Receive, Disconnect, ExpireSession,
     ExpireShare, Crash, database
<1>6. CASE UNCHANGED vars
  BY <1>1, <1>6 DEF vars, database
<1>7. QED BY <1>4, <1>5, <1>6 DEF Next

(* A row goes only when its owner asks: what getOwnedFileIdByServerFilename  *)
(* found still holds when handleDelete deletes (FileHandler.cpp).            *)
THEOREM Owners == Spec => RemovedByOwner
<1> DEFINE Asked == \A f \in files \ files' :
             \E l \in Loops : job[l].op = "delete" /\ job[l].name = f.name /\ job[l].user = f.owner
<1>1. FileIInv /\ [Next]_vars => Asked
  <2> SUFFICES ASSUME FileIInv, [Next]_vars, NEW f \in files, f \notin files'
               PROVE  \E l \in Loops : job[l].op = "delete" /\ job[l].name = f.name /\ job[l].user = f.owner
    OBVIOUS
  <2>1. PICK l \in Loops : DeleteFile(l)
    BY RowsChange DEF CreateFile
  <2>2. f.name = job[l].name
    BY <2>1 DEF DeleteFile
  <2>3. job[l].op = "delete" /\ Owned(job[l], up, files, Len(disk))
    BY <2>1 DEF DeleteFile, At, FileIInv, JobInv, Right
  <2>4. QED BY <2>2, <2>3 DEF Owned
<1>2. QED BY <1>1, FileInvariant, PTL DEF Spec, RemovedByOwner

-----------------------------------------------------------------------------
(* The refinement of FileStore.                                              *)

Stored == {[name |-> f.name, owner |-> f.owner, content |-> disk[f.name]] : f \in files}

(* Stored files have names of their own. *)
LEMMA StoredOnce == FileIInv => Store!StoreInit
<1> SUFFICES ASSUME FileIInv, NEW r \in Stored, NEW t \in Stored, r.name = t.name PROVE r = t
  BY DEF Store!StoreInit, Stored
<1>1. PICK f \in files : r = [name |-> f.name, owner |-> f.owner, content |-> disk[f.name]]
  BY DEF Stored
<1>2. PICK g \in files : t = [name |-> g.name, owner |-> g.owner, content |-> disk[g.name]]
  BY DEF Stored
<1>3. f = g
  BY <1>1, <1>2 DEF FileIInv, RowsHaveFiles
<1>4. QED BY <1>1, <1>2, <1>3

(* The row of a finished upload stores its file. *)
LEMMA CreateStores ==
  ASSUME FileIInv, NEW l \in Loops, CreateFile(l)
  PROVE  Stored' = Stored \/ \E r \in Stored' : Store!Store(r)
<1> DEFINE f0 == [name |-> up[l].ctx, owner |-> job[l].user]
           r0 == [name |-> up[l].ctx, owner |-> job[l].user, content |-> disk[up[l].ctx]]
<1>1. disk' = disk /\ (files' = files \/ files' = files \cup {f0}) /\ job[l].pc = "createFile"
  BY DEF CreateFile, At
<1>2. \A f \in files : f.name # up[l].ctx
  BY <1>1 DEF FileIInv, JobInv, Right, UploadInv
<1>3. CASE files' = files
  BY <1>1, <1>3 DEF Stored
<1>4. CASE files' = files \cup {f0}
  <2>1. Stored' = Stored \cup {r0}
    <3>1. ASSUME NEW t \in Stored' PROVE t \in Stored \cup {r0}
      <4>1. PICK f \in files' : t = [name |-> f.name, owner |-> f.owner, content |-> disk[f.name]]
        BY <1>1 DEF Stored
      <4>2. CASE f \in files
        BY <4>1, <4>2 DEF Stored
      <4>3. CASE f = f0
        BY <4>1, <4>3
      <4>4. QED BY <1>4, <4>2, <4>3
    <3>2. ASSUME NEW t \in Stored PROVE t \in Stored'
      BY <1>1, <1>4 DEF Stored
    <3>3. r0 \in Stored'
      <4>1. f0 \in files' /\ r0 = [name |-> f0.name, owner |-> f0.owner, content |-> disk'[f0.name]]
        BY <1>1, <1>4
      <4> HIDE DEF f0, r0
      <4>2. QED BY <4>1 DEF Stored
    <3>4. QED BY <3>1, <3>2, <3>3
  <2>2. \A r \in Stored : r.name # r0.name
    BY <1>2 DEF Stored
  <2>3. Store!Store(r0)
    BY <2>1, <2>2 DEF Store!Store, Stored
  <2>4. r0 \in Stored'
    BY <2>1
  <2> HIDE DEF r0
  <2>5. QED BY <2>3, <2>4 DEF Store!Store
<1>5. QED BY <1>1, <1>3, <1>4

(* A delete removes the one file of its name. *)
LEMMA DeleteRemoves ==
  ASSUME FileIInv, NEW l \in Loops, DeleteFile(l)
  PROVE  Stored' = Stored \/ \E r \in Stored : Store!Remove(r)
<1>1. /\ disk' = disk
      /\ files' = files \/ files' = {f \in files : f.name # job[l].name}
  BY DEF DeleteFile
<1>2. CASE files' = files
  BY <1>1, <1>2 DEF Stored
<1>3. CASE files' = {f \in files : f.name # job[l].name} /\ \A f \in files : f.name # job[l].name
  <2>1. files' = files
    BY <1>3
  <2>2. QED BY <1>1, <2>1 DEF Stored
<1>4. ASSUME files' = {f \in files : f.name # job[l].name}, NEW g \in files, g.name = job[l].name
      PROVE  \E r \in Stored : Store!Remove(r)
  <2> DEFINE r == [name |-> g.name, owner |-> g.owner, content |-> disk[g.name]]
  <2>1. \A f \in files : f.name = g.name => f = g
    BY DEF FileIInv, RowsHaveFiles
  <2>2. r \in Stored
    BY DEF Stored
  <2>3. ASSUME NEW t \in Stored' PROVE t \in Stored \ {r}
    BY <1>1, <1>4 DEF Stored
  <2>4. ASSUME NEW t \in Stored \ {r} PROVE t \in Stored'
    BY <1>1, <1>4, <2>1 DEF Stored
  <2>5. Stored' = Stored \ {r}
    BY <2>3, <2>4
  <2>6. QED BY <2>2, <2>5 DEF Store!Remove, Stored
<1>5. QED BY <1>1, <1>2, <1>3, <1>4

(* The handlers implement FileStore: files are stored complete, never change *)
(* and go as a whole (handleUpload, handleDelete, Db.cpp).                   *)
THEOREM Implements == Spec => ImplementsFileStore
<1>1. FileIInv /\ [Next]_vars => [Store!StoreNext]_Stored
  <2> SUFFICES ASSUME FileIInv, [Next]_vars PROVE Store!StoreNext \/ Stored' = Stored
    OBVIOUS
  <2>1. CASE files' = files /\ \A f \in files : disk'[f.name] = disk[f.name]
    BY <2>1 DEF Stored
  <2>2. ASSUME NEW l \in Loops, CreateFile(l) PROVE Store!StoreNext \/ Stored' = Stored
    BY <2>2, CreateStores DEF Store!StoreNext, Stored
  <2>3. ASSUME NEW l \in Loops, DeleteFile(l) PROVE Store!StoreNext \/ Stored' = Stored
    BY <2>3, DeleteRemoves DEF Store!StoreNext, Stored
  <2>4. QED BY <2>1, <2>2, <2>3, RowsChange
<1>2. QED BY <1>1, InitInvariant, FileInvariant, StoredOnce, PTL
          DEF Spec, ImplementsFileStore, Store!StoreSafety, Stored
-----------------------------------------------------------------------------
(* ServedOnlyIfAllowed: the right to read, from the check to the answer. *)
Reading == Loads \cup {"access"}

(* The handler is about to let a request have the file, on these rows. *)
Passes(j, rows) ==
  \/ j.pc = "file" /\ rows # {} /\ Only(rows).owner = j.user
  \/ /\ j.pc = "code" /\ rows # {} /\ (j.op \in Loads => Only(rows).file = j.name)
     /\ Permitted(j, Only(rows))
  \/ j.pc = "open"

(* g: whether the request has had the right to read. *)
Allowed(j, g) ==
  /\ j.pc # "done" => j.status = 0
  /\ j.pc \in {"account", "insertUser"} => j.user # None
  /\ j.op \in Reading => j.pc \in {"auth", "file", "code", "open"}
  /\ j.pc = "file" => j.op = "download"
  /\ j.op \in Reading /\ Passes(j, j.rows) => g

(* Inductive: rows that pass were read while the right was there, and a loop *)
(* that has not stored its result stays at its query.                        *)
AccessIInv ==
  /\ None \notin users
  /\ \A l \in Loops : Allowed(job[l], granted[l])
  /\ \A l \in Loops : handle = l => job[l].pc \in Queries

-----------------------------------------------------------------------------
LEMMA AllowedKept ==
  ASSUME NEW j, NEW g, NEW h, Allowed(j, g), j.pc = "done" \/ (g => h)
  PROVE  Allowed(j, h)
BY DEF Allowed, Passes

LEMMA DoneAllowed ==
  ASSUME NEW j, j.pc = "done", j.op = "none", NEW g
  PROVE  Allowed(j, g)
BY DEF Allowed, Passes, Reading, Loads

LEMMA ReplyAllowed == ASSUME NEW status, NEW g PROVE Allowed(Reply(status), g)
BY ReplyTyped, DoneAllowed

(* A new request has been let nothing. *)
LEMMA RequestAllowed ==
  ASSUME None \notin Users, NEW op, NEW s \in Sessions \cup {None}, NEW u, NEW n, NEW c, NEW k,
         NEW w, NEW key, NEW g,
         op \in {"login", "register"} => u \in Users
  PROVE  Allowed(Request(op, s, u, n, c, k, w, key), g)
<1> DEFINE r == Request(op, s, u, n, c, k, w, key)
<1>1. r.op = op /\ r.pc = Start(op) /\ r.user = u /\ r.rows = {} /\ r.status = 0
  BY DEF Request, NoJob
<1>2. /\ Start(op) \in {"code", "account", "logout", "auth"}
      /\ Start(op) = "account" => op \in {"login", "register"}
      /\ op \in Reading => Start(op) = "auth"
  BY DEF Start, Reading, Loads
<1> HIDE DEF r
<1>3. Allowed(r, g)
  BY <1>1, <1>2 DEF Allowed, Passes
<1>4. QED BY <1>3 DEF r

LEMMA AskAllowed ==
  ASSUME NEW l, NEW op, Ask(l, op), NEW g
  PROVE  \E j : Become(l, j) /\ Allowed(j, g)
<1>1. \E s \in Sessions \cup {None} : \E u, n, c, k, w, key :
        /\ op \in {"login", "register"} => u \in Users
        /\ Become(l, Request(op, s, u, n, c, k, w, key))
  <2>1. CASE op \in {"login", "register"} /\ \E u \in Users : Become(l, Request(op, None, u, 0, 0, "none", None, FALSE))
    BY <2>1
  <2>2. CASE op \notin {"login", "register"}
    BY <2>2, Zenon DEF Ask
  <2>3. QED BY <2>1, <2>2 DEF Ask, ByCode
<1>2. PICK s \in Sessions \cup {None} : \E u, n, c, k, w, key :
        /\ op \in {"login", "register"} => u \in Users
        /\ Become(l, Request(op, s, u, n, c, k, w, key))
  BY <1>1
<1>3. PICK u, n, c, k, w, key :
        /\ op \in {"login", "register"} => u \in Users
        /\ Become(l, Request(op, s, u, n, c, k, w, key))
  BY <1>2
<1>4. Allowed(Request(op, s, u, n, c, k, w, key), g)
  BY <1>3, FileServiceAssumption, RequestAllowed
<1>5. QED BY <1>3, <1>4

-----------------------------------------------------------------------------
(* Going on after the rows asks for nothing that they have not passed. *)
LEMMA GoAllowed ==
  ASSUME NEW j, IsJob(j), NEW pc, NEW g, j.status = 0,
         pc \in {"account", "insertUser"} => j.user # None,
         j.op \in Reading => pc \in {"auth", "file", "code", "open"},
         pc = "file" => j.op = "download",
         j.op \in Reading /\ pc = "open" => g
  PROVE  Allowed(Go(j, pc), g)
<1>1. /\ Go(j, pc).pc = pc /\ Go(j, pc).rows = {} /\ Go(j, pc).op = j.op
      /\ Go(j, pc).user = j.user /\ Go(j, pc).status = j.status
  BY GoTyped
<1>2. QED BY <1>1 DEF Allowed, Passes

LEMMA AuthenticatedAllowed ==
  ASSUME NEW j, IsJob(j), j.status = 0, NEW rows, NEW g
  PROVE  Allowed(Authenticated(j, rows), g)
<1> DEFINE k == Authenticated(j, rows)
           u == IF rows = {} THEN None ELSE Only(rows)
           known == [j EXCEPT !.user = u]
<1> SUFFICES Allowed(k, g)
  OBVIOUS
<1>1. CASE \E status : k = Reply(status)
  BY <1>1, ReplyAllowed
<1>2. CASE ~\E status : k = Reply(status)
  <2>1. IsJob(known) /\ known.op = j.op /\ known.status = 0
    BY DEF IsJob
  <2>2. \/ k = Go(known, "chunk") /\ j.op = "upload"
        \/ k = Go(known, "owned") /\ j.op \in {"delete", "share", "private"}
        \/ k = Go(known, "list") /\ j.op = "list"
        \/ k = Go(known, "file") /\ j.op = "download"
        \/ k = Go(known, "code")
    BY <1>2 DEF Authenticated
  <2> HIDE DEF known, k
  <2>3. QED BY <2>1, <2>2, GoAllowed DEF Reading, Loads
<1>3. QED BY <1>1, <1>2

LEMMA ResumeAllowed ==
  ASSUME NEW j, IsJob(j), NEW g0, Allowed(j, g0), j.pc \in Queries, NEW rows, NEW g,
         j.op \in Reading /\ Passes(j, rows) => g
  PROVE  Allowed(Resume(j, rows), g)
<1> DEFINE k == Resume(j, rows)
<1> SUFFICES Allowed(k, g)
  OBVIOUS
<1>1. j.status = 0
  BY DEF Allowed, Queries
<1>2. CASE \E status : k = Reply(status)
  BY <1>2, ReplyAllowed
<1>3. CASE j.pc = "auth"
  BY <1>1, <1>3, AuthenticatedAllowed DEF Resume
<1>4. CASE j.pc = "account"
  <2>1. j.user # None /\ j.op \notin Reading
    BY <1>4 DEF Allowed
  <2>2. (\E status : k = Reply(status)) \/ \E pc \in {"saveSession", "insertUser"} : k = Go(j, pc)
    BY <1>4 DEF Resume, AccountKnown
  <2> HIDE DEF k
  <2>3. QED BY <1>1, <1>2, <2>1, <2>2, GoAllowed
<1>5. CASE j.pc \in {"owned", "exists"}
  <2>1. j.op \notin Reading
    BY <1>5 DEF Allowed
  <2>2. \/ \E status : k = Reply(status)
        \/ \E pc \in {"deleteFile", "setPrivate", "exists", "createShare"} : k = Go(j, pc)
    BY <1>5 DEF Resume, OwnerKnown
  <2> HIDE DEF k
  <2>3. QED BY <1>1, <1>2, <2>1, <2>2, GoAllowed
<1>6. CASE j.pc \in {"file", "code"}
  <2>1. \/ \E status : k = Reply(status)
        \/ k = Go(j, "open") /\ Passes(j, rows) 
    BY <1>6 DEF Resume, FileKnown, CodeKnown, Passes
  <2> HIDE DEF k
  <2>2. QED BY <1>1, <1>2, <2>1, GoAllowed
<1>7. CASE j.pc \notin {"auth", "account", "owned", "exists", "file", "code"}
  <2>1. (\E status : k = Reply(status)) \/ \E own : k = Go([j EXCEPT !.left = own], "info")
    BY <1>7 DEF Resume, Listed, ListOwn
  <2>2. ASSUME NEW own, k = Go([j EXCEPT !.left = own], "info") PROVE Allowed(k, g)
    <3> DEFINE asked == [j EXCEPT !.left = own]
    <3>1. IsJob(asked) /\ asked.op = j.op /\ asked.status = 0 /\ asked.user = j.user
      BY <1>1 DEF IsJob
    <3>2. j.op \notin Reading
      BY <1>7 DEF Allowed, Queries
    <3> HIDE DEF asked
    <3>3. Allowed(Go(asked, "info"), g)
      BY <3>1, <3>2, GoAllowed
    <3>4. QED BY <2>2, <3>3 DEF asked
  <2>3. QED BY <1>2, <2>1, <2>2
<1>8. QED BY <1>3, <1>4, <1>5, <1>6, <1>7

-----------------------------------------------------------------------------
(* Rows that pass are read while the right is there.                         *)

LEMMA OnlyOne == ASSUME NEW S, S # {} PROVE Only(S) \in S
BY DEF Only

LEMMA FilePasses ==
  ASSUME FileIInv, None \notin users, NEW l, job[l].op = "download",
         NEW r \in FileRows(job[l]), r.owner = job[l].user
  PROVE  MayRead(l)
<1>1. r \in files /\ r.name = job[l].name /\ r.owner \in users
  BY DEF FileRows, FileIInv, RowsHaveFiles
<1>2. job[l].user # None
  BY <1>1
<1>3. QED BY <1>1, <1>2 DEF MayRead

LEMMA CodePasses ==
  ASSUME FileIInv, None \notin users, NEW l, job[l].op \in Reading,
         NEW r \in CodeRows(job[l]), job[l].op \in Loads => r.file = job[l].name,
         Permitted(job[l], r)
  PROVE  MayRead(l)
<1> DEFINE j == job[l]
<1>1. \E f \in files, c \in shares :
        /\ c.id = j.share /\ c.file = f.name /\ c.live
        /\ r = [file |-> f.name, owner |-> f.owner, kind |-> c.kind, with |-> c.with]
  BY DEF CodeRows
<1>2. PICK f \in files, c \in shares :
        /\ c.id = j.share /\ c.file = f.name /\ c.live
        /\ r = [file |-> f.name, owner |-> f.owner, kind |-> c.kind, with |-> c.with]
  BY <1>1
<1>3. f.owner \in users
  BY DEF FileIInv, RowsHaveFiles
<1>4. f.name = j.name \/ j.op = "access"
  BY <1>2 DEF Reading
<1>5. \/ j.user # None /\ j.user \in {f.owner, c.with}
      \/ c.kind = "public"
      \/ c.kind = "protected" /\ j.key
  BY <1>2, <1>3 DEF Permitted, Reading, Loads
<1>6. QED BY <1>2, <1>4, <1>5 DEF MayRead

-----------------------------------------------------------------------------
(* Steps.                                                                    *)

LEMMA Remembered ==
  ASSUME Remember, NEW m \in Loops, job[m].pc # "done", granted[m] \/ MayRead(m)
  PROVE  granted'[m]
<1>1. granted'[m] = (~Idle(m) /\ (granted[m] \/ MayRead(m)))
  BY Zenon DEF Remember
<1>2. ~Idle(m)
  BY DEF Idle
<1>3. QED BY <1>1, <1>2, Zenon

(* A step of one loop. *)
LEMMA LoopAccess ==
  ASSUME FileIInv, AccessIInv, Remember, None \notin users',
         NEW l \in Loops, NEW k, Become(l, k), Allowed(k, granted'[l]),
         handle' = l => k.pc \in Queries, \A m \in Loops \ {l} : handle' = m => handle = m
  PROVE  AccessIInv'
<1>1. /\ job'[l] = k /\ \A m \in Loops \ {l} : job'[m] = job[m]
  BY DEF Become, FileIInv, TypeInv
<1>2. ASSUME NEW m \in Loops \ {l} PROVE Allowed(job'[m], granted'[m])
  <2>1. Allowed(job[m], granted[m])
    BY DEF AccessIInv
  <2>2. job[m].pc = "done" \/ (granted[m] => granted'[m])
    BY Remembered
  <2>3. QED BY <1>1, <2>1, <2>2, AllowedKept
<1>3. \A m \in Loops : handle' = m => job'[m].pc \in Queries
  BY <1>1 DEF AccessIInv
<1>4. QED BY <1>1, <1>2, <1>3 DEF AccessIInv

(* A step that leaves the jobs alone, or makes an idle loop's job a request. *)
LEMMA SameJobsAccess ==
  ASSUME AccessIInv, Remember, UNCHANGED <<users, job, handle>>
  PROVE  AccessIInv'
<1>1. ASSUME NEW m \in Loops PROVE Allowed(job'[m], granted'[m])
  <2>1. Allowed(job[m], granted[m])
    BY DEF AccessIInv
  <2>2. job[m].pc = "done" \/ (granted[m] => granted'[m])
    BY Remembered
  <2>3. QED BY <2>1, <2>2, AllowedKept
<1>2. QED BY <1>1 DEF AccessIInv

(* A loop whose job is done holds no result. *)
LEMMA HolderAtQuery ==
  ASSUME AccessIInv, NEW l \in Loops, job[l].pc \notin Queries
  PROVE  handle # l
BY DEF AccessIInv

(* The last statement of a handler, and the one before it. *)
LEMMA AnswerAccess ==
  ASSUME FileIInv, AccessIInv, Remember, None \notin users', NEW l \in Loops,
         UNCHANGED handle, job[l].pc \notin Queries,
         \/ \E status : Become(l, Reply(status))
         \/ \E pc \in {"unlink", "createFile"} :
              job[l].pc \in {"deleteFile", "chunk"} /\ Become(l, Go(job[l], pc))
  PROVE  AccessIInv'
<1>1. handle' # l
  BY HolderAtQuery
<1>2. CASE \E status : Become(l, Reply(status))
  <2>1. PICK status : Become(l, Reply(status))
    BY <1>2
  <2>2. Allowed(Reply(status), granted'[l])
    BY ReplyAllowed
  <2>3. QED BY <1>1, <2>1, <2>2, LoopAccess
<1>3. CASE \E pc \in {"unlink", "createFile"} :
             job[l].pc \in {"deleteFile", "chunk"} /\ Become(l, Go(job[l], pc))
  <2>1. PICK pc \in {"unlink", "createFile"} :
               job[l].pc \in {"deleteFile", "chunk"} /\ Become(l, Go(job[l], pc))
    BY <1>3
  <2>2. Allowed(job[l], granted[l]) /\ IsJob(job[l])
    BY DEF AccessIInv, FileIInv, TypeInv
  <2>3. job[l].status = 0 /\ job[l].op \notin Reading
    BY <2>1, <2>2 DEF Allowed
  <2>4. Allowed(Go(job[l], pc), granted'[l])
    BY <2>1, <2>2, <2>3, GoAllowed
  <2>5. QED BY <1>1, <2>1, <2>4, LoopAccess
<1>4. QED BY <1>2, <1>3

LEMMA SendQueryAccess == ASSUME FileIInv, AccessIInv, NEW l \in Loops, SendQuery(l) PROVE AccessIInv'
<1> DEFINE j == job[l]
           k == [j EXCEPT !.rows = Answer(j)]
<1>1. j.pc \in Queries /\ handle # l /\ UNCHANGED <<users>> /\ Remember
  BY DEF SendQuery, database
<1>2. IsJob(j) /\ Allowed(j, granted[l]) /\ None \notin users'
  BY <1>1 DEF FileIInv, TypeInv, AccessIInv
<1>3. CASE Continue(l, Resume(j, {})) /\ UNCHANGED handle
  <2>1. Become(l, Resume(j, {}))
    BY <1>3 DEF Continue
  <2>2. ~Passes(j, {})
    BY <1>1 DEF Passes, Queries
  <2>3. Allowed(Resume(j, {}), granted'[l])
    BY <1>1, <1>2, <2>2, ResumeAllowed
  <2>4. QED BY <1>1, <1>2, <1>3, <2>1, <2>3, LoopAccess
<1>4. CASE Become(l, k) /\ handle' = l
  <2>1. /\ k.pc = j.pc /\ k.rows = Answer(j) /\ k.user = j.user /\ k.name = j.name
        /\ k.key = j.key /\ k.op = j.op /\ k.status = j.status
    BY <1>2 DEF IsJob
  <2> HIDE DEF k
  <2>2. ASSUME k.op \in Reading, Passes(k, k.rows) PROVE MayRead(l)
    <3>1. CASE j.pc = "file"
      <4>1. k.rows = FileRows(j) /\ j.op = "download"
        BY <1>2, <2>1, <3>1 DEF Answer, Allowed
      <4>2. Only(FileRows(j)) \in FileRows(j) /\ Only(FileRows(j)).owner = j.user
        BY <2>1, <2>2, <3>1, <4>1, OnlyOne DEF Passes
      <4>3. QED BY <4>1, <4>2, FilePasses DEF AccessIInv
    <3>2. CASE j.pc = "code"
      <4>1. k.rows = CodeRows(j)
        BY <2>1, <3>2 DEF Answer
      <4>2. /\ CodeRows(j) # {} /\ (j.op \in Loads => Only(CodeRows(j)).file = j.name)
            /\ Permitted(j, Only(CodeRows(j)))
        BY <2>1, <2>2, <3>2, <4>1 DEF Passes, Permitted
      <4>3. Only(CodeRows(j)) \in CodeRows(j)
        BY <4>2, OnlyOne
      <4>4. QED BY <2>1, <2>2, <4>2, <4>3, CodePasses DEF AccessIInv
    <3>3. QED BY <1>1, <2>1, <2>2, <3>1, <3>2 DEF Passes, Queries
  <2>3. ASSUME k.op \in Reading, Passes(k, k.rows) PROVE granted'[l]
    BY <1>1, <2>2, <2>3, Remembered DEF Queries
  <2>4. Allowed(k, granted'[l])
    BY <1>2, <2>1, <2>3 DEF Allowed
  <2>5. Become(l, k) /\ handle' = l /\ k.pc \in Queries
    BY <1>1, <1>4, <2>1
  <2>6. \A m \in Loops \ {l} : handle' = m => handle = m
    BY <1>4
  <2>7. QED BY <1>1, <1>2, <2>4, <2>5, <2>6, LoopAccess
<1>5. QED BY <1>3, <1>4 DEF SendQuery

LEMMA StoreResultAccess == ASSUME FileIInv, AccessIInv, NEW l \in Loops, StoreResult(l) PROVE AccessIInv'
<1> DEFINE j == job[l]
           k == Resume(j, j.rows)
<1>1. /\ handle = l /\ handle' = None /\ Become(l, k) /\ UNCHANGED users /\ Remember
  BY DEF StoreResult, Continue, database
<1>2. IsJob(j) /\ Allowed(j, granted[l]) /\ None \notin users' /\ j.pc \in Queries
  BY <1>1 DEF FileIInv, TypeInv, AccessIInv
<1>3. j.op \in Reading /\ Passes(j, j.rows) => granted'[l]
  BY <1>1, <1>2, Remembered DEF Allowed, Queries
<1>4. Allowed(k, granted'[l])
  BY <1>2, <1>3, ResumeAllowed
<1> HIDE DEF k
<1>5. \A m \in Loops : handle' # m
  BY <1>1, FileServiceAssumption
<1>6. QED BY <1>1, <1>2, <1>4, <1>5, LoopAccess

LEMMA InitAccess == Init => AccessIInv
<1> SUFFICES ASSUME Init PROVE AccessIInv
  OBVIOUS
<1>1. /\ users \subseteq Users /\ handle = None /\ job = [l \in Loops |-> NoJob]
      /\ granted = [l \in Loops |-> FALSE]
  BY DEF Init
<1>2. None \notin Users \cup Loops
  BY FileServiceAssumption
<1>3. \A l \in Loops : Allowed(job[l], granted[l])
  BY <1>1, NoJobTyped, DoneAllowed
<1>4. QED BY <1>1, <1>2, <1>3 DEF AccessIInv

LEMMA EnvironmentAccess == ASSUME FileIInv, AccessIInv, Environment PROVE AccessIInv'
<1>1. ASSUME NEW l \in Loops, Arrive(l) PROVE AccessIInv'
  <2>1. PICK op : Ask(l, op)
    BY <1>1 DEF Arrive
  <2>2. PICK j : Become(l, j) /\ Allowed(j, granted'[l])
    BY <2>1, AskAllowed
  <2>3. UNCHANGED <<users, handle>> /\ Remember /\ job[l].pc = "done"
    BY <1>1 DEF Arrive, database, Idle
  <2>4. None \notin users' /\ handle' # l
    BY <2>3, HolderAtQuery DEF AccessIInv, Queries
  <2>5. QED BY <2>2, <2>3, <2>4, LoopAccess
<1>2. ASSUME NEW l \in Loops, NEW k \in 1..Len(up[l].todo), Receive(l, k) PROVE AccessIInv'
  <2> DEFINE r == Request("upload", up[l].sess, None, 0, 0, "none", None, FALSE)
  <2>1. /\ Become(l, r) \/ UNCHANGED job
        /\ UNCHANGED <<users, handle>> /\ Remember /\ job[l].pc = "done"
    BY <1>2 DEF Receive, database, Idle
  <2>2. up[l].sess \in Sessions \cup {None}
    BY DEF FileIInv, TypeInv, Uploads
  <2>3. Allowed(r, granted'[l])
    <3>1. None \notin Users /\ "upload" \notin {"login", "register"}
      BY FileServiceAssumption
    <3>2. QED BY <2>2, <3>1, RequestAllowed
  <2> HIDE DEF r
  <2>4. None \notin users' /\ handle' # l
    BY <2>1, HolderAtQuery DEF AccessIInv, Queries
  <2>5. CASE Become(l, r)
    BY <2>1, <2>3, <2>4, <2>5, LoopAccess
  <2>6. CASE UNCHANGED job
    BY <2>1, <2>6, SameJobsAccess
  <2>7. QED BY <2>1, <2>5, <2>6
<1>3. CASE Crash
  <2>1. /\ job' = [l \in Loops |-> NoJob] /\ handle' = None /\ UNCHANGED users
    BY <1>3 DEF Crash, database
  <2>2. \A l \in Loops : Allowed(job'[l], granted'[l])
    BY <2>1, NoJobTyped, DoneAllowed
  <2>3. QED BY <2>1, <2>2, FileServiceAssumption DEF AccessIInv
<1>4. ASSUME NEW l \in Loops, BeginUpload(l) \/ Disconnect(l) PROVE AccessIInv'
  BY <1>4, SameJobsAccess DEF BeginUpload, Disconnect, database
<1>5. ASSUME NEW s \in Sessions, ExpireSession(s) PROVE AccessIInv'
  BY <1>5, SameJobsAccess DEF ExpireSession
<1>6. ASSUME NEW c \in shares, ExpireShare(c) PROVE AccessIInv'
  BY <1>6, SameJobsAccess DEF ExpireShare
<1>7. QED BY <1>1, <1>2, <1>3, <1>4, <1>5, <1>6 DEF Environment

(* The statements after the queries. *)
LEMMA StatementAccess ==
  ASSUME FileIInv, AccessIInv, NEW l \in Loops, LoopStep(l), ~SendQuery(l), ~StoreResult(l)
  PROVE  AccessIInv'
<1>1. None \notin users
  BY DEF AccessIInv
<1>2. CASE DeleteFile(l)
  BY <1>1, <1>2, AnswerAccess DEF DeleteFile, At, Queries
<1>3. CASE SetPrivate(l)
  BY <1>1, <1>3, AnswerAccess DEF SetPrivate, At, Queries
<1>4. CASE CreateShare(l)
  BY <1>1, <1>4, AnswerAccess DEF CreateShare, At, Queries
<1>5. CASE CreateFile(l)
  BY <1>1, <1>5, AnswerAccess DEF CreateFile, At, Queries
<1>6. CASE SaveSession(l)
  BY <1>1, <1>6, AnswerAccess DEF SaveSession, At, Queries
<1>7. CASE EndSession(l)
  BY <1>1, <1>7, AnswerAccess DEF EndSession, At, Queries
<1>8. CASE InsertUser(l)
  <2>1. /\ job[l].pc = "insertUser" /\ UNCHANGED handle /\ Remember
        /\ \E status : Become(l, Reply(status))
        /\ users' = users \/ users' = users \cup {job[l].user}
    BY <1>8 DEF InsertUser, At
  <2>2. job[l].user # None
    BY <2>1 DEF AccessIInv, Allowed
  <2>3. None \notin users'
    BY <1>1, <2>1, <2>2
  <2>4. QED BY <2>1, <2>3, AnswerAccess DEF Queries
<1>9. CASE Chunk(l)
  <2>1. /\ job[l].pc = "chunk" /\ UNCHANGED <<users, handle>> /\ Remember
        /\ Become(l, Go(job[l], "createFile")) \/ Become(l, Reply(0))
    BY <1>9, Zenon DEF Chunk, At, database
  <2>2. QED BY <1>1, <2>1, AnswerAccess DEF Queries
<1>10. CASE Unlink(l)
  BY <1>1, <1>10, AnswerAccess DEF Unlink, At, Queries, database
<1>11. CASE Open(l)
  BY <1>1, <1>11, AnswerAccess DEF Open, At, Queries, database
<1>12. QED BY <1>2, <1>3, <1>4, <1>5, <1>6, <1>7, <1>8, <1>9, <1>10, <1>11 DEF LoopStep

LEMMA StepAccess == FileIInv /\ AccessIInv /\ [Next]_vars => AccessIInv'
<1> SUFFICES ASSUME FileIInv, AccessIInv, [Next]_vars PROVE AccessIInv'
  OBVIOUS
<1>1. CASE UNCHANGED vars
  BY <1>1 DEF vars, database, AccessIInv
<1>2. ASSUME NEW l \in Loops, LoopStep(l) PROVE AccessIInv'
  BY <1>2, SendQueryAccess, StoreResultAccess, StatementAccess
<1>3. QED BY <1>1, <1>2, EnvironmentAccess DEF Next

LEMMA AccessInvariant == Spec => []AccessIInv
BY InitAccess, StepAccess, FileInvariant, PTL DEF Spec

-----------------------------------------------------------------------------
(* Answers.                                                                  *)

(* Of the handlers that read, only handleShareAccess answers 200 right after *)
(* a query; the loads open the file first.                                   *)
LEMMA ResumeServes ==
  ASSUME NEW j, IsJob(j), NEW g, Allowed(j, g), j.op \in Reading, j.pc \in Queries, NEW rows,
         Resume(j, rows).status = 200
  PROVE  rows # {} /\ Passes(j, rows)
<1> DEFINE k == Resume(j, rows)
<1>1. j.status = 0 /\ j.pc \in {"auth", "file", "code"} /\ j.op \in Ops
  BY DEF Allowed, Queries, Reading, Ops, ByCode, Loads
<1>2. \A pc : Go(j, pc).status = 0
  BY <1>1, GoTyped
<1>3. CASE j.pc = "auth"
  <2> DEFINE u == IF rows = {} THEN None ELSE Only(rows)
             known == [j EXCEPT !.user = u]
  <2>1. IsJob(known) /\ known.status = 0
    BY <1>1 DEF IsJob
  <2>2. k = Reply(401) \/ k = Reply(400) \/ \E pc : k = Go(known, pc)
    BY <1>3 DEF Resume, Authenticated
  <2> HIDE DEF known, k
  <2>3. k.status # 200
    BY <2>1, <2>2, GoTyped, ReplyTyped
  <2>4. QED BY <2>3 DEF k
<1>4. CASE j.pc = "file"
  <2>1. k = Reply(404) \/ k = Reply(403) \/ k = Go(j, "open")
    BY <1>4 DEF Resume, FileKnown
  <2> HIDE DEF k
  <2>2. k.status # 200
    BY <1>2, <2>1, ReplyTyped
  <2>3. QED BY <2>2 DEF k
<1>5. CASE j.pc = "code"
  <2>1. \/ k = Reply(404) \/ k = Reply(403) \/ k = Go(j, "open")
        \/ k = Reply(200) /\ rows # {} /\ Passes(j, rows)
    BY <1>5 DEF Resume, CodeKnown, Passes
  <2>2. QED
    <3> HIDE DEF k
    <3>1. k.status = 200
      BY DEF k
    <3>2. QED BY <1>2, <2>1, <3>1, ReplyTyped
<1>6. QED BY <1>1, <1>3, <1>4, <1>5

(* Every step of a loop gives its job a successor. *)
LEMMA LoopStepBecomes ==
  ASSUME NEW l \in Loops, LoopStep(l)
  PROVE  \E k : Become(l, k)
BY Zenon DEF LoopStep, SendQuery, StoreResult, Continue, DeleteFile, SetPrivate, CreateShare, CreateFile,
   SaveSession, EndSession, InsertUser, Chunk, Unlink, Open

LEMMA ServedStep ==
  ASSUME FileIInv, AccessIInv, Next, NEW l \in Loops,
         job[l].op \in Reading, job[l].pc # "done", job'[l].status = 200
  PROVE  granted[l]
<1> DEFINE j == job[l]
<1>1. IsJob(j) /\ Allowed(j, granted[l]) /\ DOMAIN job = Loops
  BY DEF FileIInv, TypeInv, AccessIInv
<1>2. j.status = 0 /\ j.pc \in {"auth", "file", "code", "open"}
  BY <1>1 DEF Allowed
<1>3. job'[l] # j
  BY <1>2
<1>4. LoopStep(l)
  <2>1. ASSUME NEW m \in Loops, m # l, NEW k, Become(m, k) PROVE FALSE
    BY <1>1, <1>3, <2>1 DEF Become
  <2>2. ASSUME NEW m \in Loops, LoopStep(m), m # l PROVE FALSE
    BY <2>1, <2>2, LoopStepBecomes
  <2>3. ~UNCHANGED job
    BY <1>3
  <2>4. ASSUME NEW m \in Loops, Arrive(m) PROVE FALSE
    <3>1. Idle(m) /\ \E k : Become(m, k)
      BY <2>4, AskTyped DEF Arrive
    <3>2. m # l
      BY <3>1 DEF Idle
    <3>3. QED BY <2>1, <3>1, <3>2
  <2>5. ASSUME NEW m \in Loops, NEW i \in 1..Len(up[m].todo), Receive(m, i) PROVE FALSE
    <3> DEFINE r == Request("upload", up[m].sess, None, 0, 0, "none", None, FALSE)
    <3>1. job[m].pc = "done" /\ (UNCHANGED job \/ Become(m, r))
      BY <2>5 DEF Receive, Idle
    <3> HIDE DEF r
    <3>2. m # l
      BY <3>1
    <3>3. QED BY <2>1, <2>3, <3>1, <3>2
  <2>6. ~Crash
    BY NoJobTyped DEF Crash
  <2>7. ~Environment
    <3>1. \A m \in Loops : ~BeginUpload(m) /\ ~Disconnect(m)
      BY <2>3 DEF BeginUpload, Disconnect
    <3>2. (\A s \in Sessions : ~ExpireSession(s)) /\ \A c \in shares : ~ExpireShare(c)
      BY <2>3 DEF ExpireSession, ExpireShare
    <3>3. QED BY <2>4, <2>5, <2>6, <3>1, <3>2 DEF Environment
  <2>8. QED BY <2>2, <2>7 DEF Next
<1>5. CASE SendQuery(l)
  <2>1. j.pc \in Queries
    BY <1>5 DEF SendQuery
  <2>2. CASE Become(l, Resume(j, {}))
    <3>1. job'[l] = Resume(j, {})
      BY <1>1, <2>2 DEF Become
    <3>2. QED BY <1>1, <2>1, <3>1, ResumeServes
  <2>3. CASE Become(l, [j EXCEPT !.rows = Answer(j)])
    <3>1. job'[l].status = j.status
      BY <1>1, <2>3 DEF Become, IsJob
    <3>2. QED BY <1>2, <3>1
  <2>4. QED BY <1>5, <2>2, <2>3 DEF SendQuery, Continue
<1>6. CASE StoreResult(l)
  <2>1. Become(l, Resume(j, j.rows)) /\ j.pc \in Queries
    BY <1>6 DEF StoreResult, Continue, AccessIInv
  <2>2. job'[l] = Resume(j, j.rows)
    BY <1>1, <2>1 DEF Become
  <2>3. Passes(j, j.rows)
    BY <1>1, <2>1, <2>2, ResumeServes
  <2>4. QED BY <1>1, <2>3 DEF Allowed
<1>7. CASE Open(l)
  BY <1>1, <1>7 DEF Open, At, Allowed, Passes
<1>8. QED BY <1>2, <1>4, <1>5, <1>6, <1>7 DEF LoopStep, DeleteFile, SetPrivate, CreateShare,
          CreateFile, SaveSession, EndSession, InsertUser, Chunk, Unlink, At

(* Content goes only to requests that had the right to it at some moment     *)
(* since they came, whatever expires, is deleted or fails between the        *)
(* queries of the handlers (FileHandler.cpp, ShareHandler.cpp).              *)
THEOREM Served == Spec => ServedOnlyIfAllowed
<1> DEFINE Due == \A l \in Loops :
             job[l].op \in Loads \cup {"access"} /\ ~Idle(l) /\ job'[l].status = 200
               => granted[l] \/ MayRead(l)
<1>1. FileIInv /\ AccessIInv /\ [Next]_vars => [Due]_vars
  <2> SUFFICES ASSUME FileIInv, AccessIInv, Next, NEW l \in Loops,
                      job[l].op \in Loads \cup {"access"}, ~Idle(l), job'[l].status = 200
               PROVE  granted[l] \/ MayRead(l)
    OBVIOUS
  <2>1. granted[l]
    BY ServedStep DEF Idle, Reading
  <2>2. QED BY <2>1
<1>2. QED BY <1>1, FileInvariant, AccessInvariant, PTL DEF Spec, ServedOnlyIfAllowed

-----------------------------------------------------------------------------
(* UploadKeepsData: what the pieces of an upload add up to.                  *)

(* n units of the body are consumed, and they have the file as far.  over:   *)
(* the file is complete, and its row comes next.                             *)
Written(u, over, D) ==
  \E n \in 0..Len(u.sent) :
    /\ u.body \o u.todo = From(u.sent, n + 1)
    /\ ~u.torn /\ u.ctx = 0 => n = 0 \/ \A i \in n + 1..Len(u.sent) : u.sent[i] # "H"
    /\ ~u.torn /\ u.ctx # 0 => OnePart(u.sent) /\ Head4(u.sent) <= n
    /\ ~u.torn /\ u.ctx # 0 /\ ~over =>
         /\ n < EndOf(u.sent) /\ u.state = "boundary"
         /\ D[u.ctx] = SubSeq(u.sent, Head4(u.sent) + 1, n)

(* A complete file stays what it is while a row names it, or may yet do so.  *)
Intact(w) ==
  /\ w.name \in 1..Len(disk)
  /\ disk[w.name] = Append(w.content, "N") \/ \A f \in files : f.name # w.name
  /\ \A l \in Loops : up[l].ctx = w.name => At(l, "createFile") /\ disk[w.name] = Append(w.content, "N")

ContentIInv ==
  /\ \A l \in Loops : Written(up[l], At(l, "createFile"), disk)
  /\ \A w \in whole : Intact(w)

-----------------------------------------------------------------------------
(* Places in a body and in its pieces.                                       *)
FirstOf(S, x) == /\ x \in S \cup {0} /\ (x = 0 => S = {}) /\ (S # {} => x \in S /\ x # 0)
                 /\ \A y \in S : x <= y

LEMMA FindFirst ==
  ASSUME NEW S, S \subseteq Nat \ {0}
  PROVE  FirstOf(S, Find(S))
<1>1. CASE S = {}
  BY <1>1 DEF Find, FirstOf
<1>2. CASE S # {}
  <2>1. PICK x \in S : \A y \in S : x <= y
    BY <1>2, Least
  <2>2. Min(S) \in S /\ \A y \in S : Min(S) <= y
    BY <2>1 DEF Min
  <2>3. Find(S) = Min(S)
    BY <1>2 DEF Find
  <2>4. QED BY <1>2, <2>2, <2>3 DEF FirstOf
<1>3. QED BY <1>1, <1>2

Pair(b, i)  == i \in 1..Len(b) - 1 /\ b[i] = "B" /\ b[i + 1] = "E"
EndAt(b, e) == /\ e \in Nat /\ (e # 0 => Pair(b, e))
               /\ \A i \in 1..Len(b) : Pair(b, i) => e # 0 /\ e <= i
KindAt(b, kind, x) == /\ x \in 0..Len(b) /\ (x # 0 => b[x] = kind)
                      /\ \A i \in 1..Len(b) : b[i] = kind => x # 0 /\ x <= i

LEMMA PlacesAre ==
  ASSUME NEW b \in Content
  PROVE  EndAt(b, EndOf(b)) /\ KindAt(b, "B", Mark(b)) /\ KindAt(b, "H", Head4(b))
<1>1. Len(b) \in Nat
  BY DEF Content
<1>2. EndAt(b, EndOf(b))
  <2> DEFINE S == {i \in 1..Len(b) - 1 : b[i] = "B" /\ b[i + 1] = "E"}
  <2>1. S \subseteq Nat \ {0} /\ \A i : i \in S <=> Pair(b, i)
    BY <1>1 DEF Pair
  <2>2. EndOf(b) = Find(S)
    BY DEF EndOf
  <2> HIDE DEF S
  <2>3. FirstOf(S, EndOf(b))
    BY <2>1, <2>2, FindFirst
  <2> DEFINE e == EndOf(b)
  <2> HIDE DEF e
  <2>4. e \in Nat /\ (e # 0 => e \in S) /\ \A i \in S : e # 0 /\ e <= i
    <3>1. S \subseteq Nat \ {0}
      BY <2>1
    <3>2. FirstOf(S, e)
      BY <2>3 DEF e
    <3>3. QED BY <3>1, <3>2 DEF FirstOf
  <2>5. e # 0 => Pair(b, e)
    BY <2>1, <2>4
  <2>6. \A i \in 1..Len(b) : Pair(b, i) => e # 0 /\ e <= i
    BY <2>1, <2>4
  <2>7. QED BY <2>4, <2>5, <2>6 DEF EndAt, e
<1>3. KindAt(b, "B", Mark(b))
  <2> DEFINE S == {i \in 1..Len(b) : b[i] = "B"}
  <2>1. S \subseteq Nat \ {0} /\ Mark(b) = Find(S)
    BY <1>1 DEF Mark
  <2>2. FirstOf(S, Mark(b))
    BY <2>1, FindFirst
  <2>3. QED BY <1>1, <2>2 DEF FirstOf, KindAt
<1>4. KindAt(b, "H", Head4(b))
  <2> DEFINE S == {i \in 1..Len(b) : b[i] = "H"}
  <2>1. S \subseteq Nat \ {0} /\ Head4(b) = Find(S)
    BY <1>1 DEF Head4
  <2>2. FirstOf(S, Head4(b))
    BY <2>1, FindFirst
  <2>3. QED BY <1>1, <2>2 DEF FirstOf, KindAt
<1>5. QED BY <1>2, <1>3, <1>4

(* A part of a part. *)
LEMMA SliceAgain ==
  ASSUME NEW S, NEW s \in Seq(S), NEW n \in 0..Len(s), NEW m \in 0..n, NEW p, Slice(S, s, m, n, p),
         NEW j \in 0..n - m, NEW i \in 0..j
  PROVE  SubSeq(p, i + 1, j) = SubSeq(s, m + i + 1, m + j)
<1> DEFINE a == SubSeq(p, i + 1, j)
           c == SubSeq(s, m + i + 1, m + j)
<1>1. Len(s) \in Nat /\ p \in Seq(S) /\ Len(p) = n - m /\ \A x \in 1..n - m : p[x] = s[m + x]
  BY LenProperties DEF Slice
<1>2. Slice(S, p, i, j, a)
  <2>1. j \in 0..Len(p)
    BY <1>1
  <2>2. QED BY <1>1, <2>1, Slices
<1>3. Slice(S, s, m + i, m + j, c)
  <2>1. m + j \in 0..Len(s) /\ m + i \in 0..m + j
    BY <1>1
  <2>2. QED BY <2>1, Slices
<1> HIDE DEF a, c
<1>4. a \in Seq(S) /\ Len(a) = j - i /\ \A x \in 1..j - i : a[x] = p[i + x]
  BY <1>2 DEF Slice
<1>5. c \in Seq(S) /\ Len(c) = j - i /\ \A x \in 1..j - i : c[x] = s[m + i + x]
  <2>1. (m + j) - (m + i) = j - i
    BY <1>1
  <2>2. QED BY <1>3, <2>1 DEF Slice
<1>6. ASSUME NEW x \in 1..j - i PROVE a[x] = c[x]
  <2> DEFINE y == i + x
  <2>1. y \in 1..n - m /\ m + y = m + i + x
    BY <1>1
  <2>2. p[y] = s[m + y]
    <3> HIDE DEF y
    <3>1. QED BY <1>1, <2>1
  <2>3. QED BY <1>4, <1>5, <2>1, <2>2
<1>7. a = c
  BY <1>4, <1>5, <1>6, SeqEqual
<1>8. QED BY <1>7 DEF a, c

(* A piece of a body, and what comes after it. *)
PieceOf(b, n, k, body, todo) ==
  /\ k \in n..Len(b) /\ Len(body) = k - n /\ Slice(Units, b, n, k, body)
  /\ todo = From(b, k + 1) /\ <<>> \o todo = todo /\ (todo = <<>> => k = Len(b))

LEMMA Pieces ==
  ASSUME NEW b \in Content, NEW body \in Content, NEW todo \in Content, NEW n \in 0..Len(b),
         body \o todo = From(b, n + 1)
  PROVE  PieceOf(b, n, n + Len(body), body, todo)
<1> DEFINE j == body \o todo
           x == Len(body)
           y == Len(todo)
           z == Len(b)
           k == n + x
           t == SubSeq(b, k + 1, z)
<1>1. b \in Seq(Units) /\ body \in Seq(Units) /\ todo \in Seq(Units)
  BY DEF Content
<1>2. x \in Nat /\ y \in Nat /\ z \in Nat
  BY <1>1, LenProperties
<1>3. /\ Len(j) = x + y
      /\ (\A i \in 1..x : j[i] = body[i]) /\ (\A i \in 1..y : j[x + i] = todo[i])
  <2>1. Joined(Units, body, todo, j)
    BY <1>1, Joins
  <2>2. QED BY <2>1 DEF Joined
<1>4. Len(j) = z - n /\ \A i \in 1..z - n : j[i] = b[n + i]
  <2>1. z \in 0..Len(b) /\ n \in 0..z
    BY <1>2
  <2>2. Slice(Units, b, n, z, SubSeq(b, n + 1, z))
    BY <1>1, <2>1, Slices
  <2>3. j = SubSeq(b, n + 1, z)
    BY DEF From
  <2>4. QED BY <2>2, <2>3 DEF Slice
<1> HIDE DEF j, x, y, z
<1>5. k \in n..z /\ k - n = x /\ z - k = y /\ k \in Nat /\ x + y = z - n
  BY <1>2, <1>3, <1>4
<1>6. \A i \in 1..x : body[i] = b[n + i]
  BY <1>2, <1>3, <1>4, <1>5
<1>7. ASSUME NEW i \in 1..y PROVE todo[i] = b[k + i]
  <2> DEFINE q == x + i
  <2>1. q \in 1..z - n /\ n + q = k + i
    BY <1>2, <1>5
  <2>2. j[q] = b[n + q]
    <3> HIDE DEF q
    <3>1. QED BY <1>4, <2>1
  <2>3. QED BY <1>3, <2>1, <2>2
<1>8. Slice(Units, b, n, k, body)
  BY <1>1, <1>5, <1>6 DEF Slice, x
<1>9. todo = t
  <2>1. z \in 0..Len(b) /\ k \in 0..z
    BY <1>2, <1>5 DEF z
  <2> HIDE DEF k
  <2>2. Slice(Units, b, k, z, SubSeq(b, k + 1, z))
    BY <1>1, <2>1, Slices
  <2> HIDE DEF t
  <2>3. t \in Seq(Units) /\ Len(t) = y /\ \A i \in 1..y : t[i] = b[k + i]
    BY <1>5, <2>2 DEF Slice, t
  <2>4. QED BY <1>1, <1>7, <2>3, SeqEqual DEF y
<1>10. todo = <<>> => k = z
  <2>1. todo = <<>> => y = 0
    BY <1>1, EmptySeq DEF y
  <2>2. QED BY <1>2, <1>5, <2>1
<1>11. <<>> \o todo = todo
  BY <1>1, ConcatEmptySeq
<1> HIDE DEF k
<1>12. PieceOf(b, n, k, body, todo)
  BY <1>5, <1>8, <1>9, <1>10, <1>11 DEF PieceOf, From, x, t, z
<1>13. QED BY <1>12 DEF k, x

-----------------------------------------------------------------------------
(* One piece.                                                                *)
Parted(b, h, e) ==
  /\ e \in Nat \ {0} /\ Pair(b, e) /\ (\A i \in 1..Len(b) : Pair(b, i) => e <= i)
  /\ h \in 1..Len(b) /\ (\A i \in 1..Len(b) : b[i] = "H" <=> i = h)
  /\ \A i \in 1..Len(b) : b[i] = "B" => i < Len(b) /\ b[i + 1] \in {"H", "E"}

LEMMA OnePartIs ==
  ASSUME NEW b \in Content, OnePart(b)
  PROVE  Parted(b, Head4(b), EndOf(b))
<1>1. EndAt(b, EndOf(b)) /\ KindAt(b, "H", Head4(b)) /\ EndOf(b) # 0
  BY PlacesAre DEF OnePart
<1>2. PICK h \in 1..Len(b) : \A i \in 1..Len(b) : b[i] = "H" <=> i = h
  BY DEF OnePart
<1>3. Head4(b) = h
  <2>1. Head4(b) # 0 /\ Head4(b) \in 0..Len(b) /\ b[Head4(b)] = "H"
    BY <1>1, <1>2 DEF KindAt
  <2>2. Head4(b) \in 1..Len(b)
    BY <2>1
  <2>3. QED BY <1>2, <2>1, <2>2
<1>4. \A i \in 1..Len(b) : b[i] = "B" => i < Len(b) /\ b[i + 1] \in {"H", "E"}
  BY DEF OnePart
<1>5. QED BY <1>1, <1>2, <1>3, <1>4 DEF Parted, EndAt

(* The end of the body is the end of the first piece that holds it; there is *)
(* none beyond a piece that was not cut in the delimiter.                    *)
LEMMA EndOfPiece ==
  ASSUME NEW b \in Content, NEW h, NEW e, Parted(b, h, e),
         NEW n \in 0..Len(b), n < e, NEW k \in n..Len(b), NEW p, Slice(Units, b, n, k, p),
         p # <<>> => p[Len(p)] # "B"
  PROVE  /\ EndOf(p) # 0 => EndOf(p) = e - n /\ EndOf(p) \in 1..k - n
         /\ EndOf(p) = 0 => k < e
<1> DEFINE m == k - n
           q == EndOf(p)
<1>1. /\ p \in Content /\ Len(p) = m /\ (\A i \in 1..m : p[i] = b[n + i])
      /\ Len(b) \in Nat /\ m \in Nat /\ e \in 1..Len(b) - 1
  BY DEF Slice, Content, Parted, Pair
<1>2. EndAt(p, q)
  BY <1>1, PlacesAre
<1> HIDE DEF q
<1>3. ASSUME q # 0 PROVE q = e - n /\ q \in 1..m
  <2>1. q \in 1..m - 1 /\ p[q] = "B" /\ p[q + 1] = "E"
    BY <1>1, <1>2, <1>3 DEF EndAt, Pair
  <2>2. b[n + q] = "B" /\ b[n + (q + 1)] = "E" /\ n + (q + 1) = n + q + 1
    <3> DEFINE r == q + 1
    <3>1. m \in Nat /\ q \in 1..m /\ r \in 1..m /\ n + r = n + q + 1
      <4>1. m \in Nat /\ n \in Nat
        BY <1>1
      <4> HIDE DEF m
      <4>2. QED BY <2>1, <4>1
    <3> HIDE DEF r, m
    <3>2. p[q] = b[n + q] /\ p[r] = b[n + r]
      BY <1>1, <3>1
    <3>3. QED BY <2>1, <3>1, <3>2 DEF r
  <2> DEFINE x == n + q
  <2>3. x \in 1..Len(b) - 1 /\ x \in 1..Len(b)
    <3>1. n \in Nat /\ m \in Nat /\ n + m <= Len(b)
      BY <1>1
    <3> HIDE DEF m
    <3>2. QED BY <1>1, <2>1, <3>1
  <2>4. b[x] = "B" /\ b[x + 1] = "E"
    BY <2>2
  <2>5. e <= x
    <3> HIDE DEF x
    <3>1. QED BY <2>3, <2>4 DEF Parted, Pair
  <2>6. e - n \in 1..m - 1 /\ n + (e - n) = e /\ n + (e - n + 1) = e + 1 /\ e - n + 1 \in 1..m
    BY <1>1, <2>1, <2>5
  <2> DEFINE y == e - n
             z == y + 1
  <2>7. y \in 1..m /\ z \in 1..m /\ n + y = e /\ n + z = e + 1
    BY <2>6
  <2>8. p[y] = b[e] /\ p[z] = b[e + 1]
    <3> HIDE DEF y, z
    <3>1. p[y] = b[n + y] /\ p[z] = b[n + z]
      BY <1>1, <2>7
    <3>2. QED BY <2>7, <3>1
  <2>9. Pair(p, y)
    BY <1>1, <2>6, <2>8 DEF Parted, Pair
  <2>10. q <= y
    <3> HIDE DEF y
    <3>1. QED BY <1>1, <1>2, <2>7, <2>9 DEF EndAt
  <2>11. QED BY <1>1, <2>1, <2>5, <2>10
<1>4. ASSUME q = 0 PROVE k < e
  <2>1. SUFFICES ASSUME e <= k PROVE FALSE
    BY <1>1
  <2> DEFINE y == e - n
             z == y + 1
  <2>2. y \in 1..m /\ n + y = e /\ n + z = e + 1
    BY <1>1, <2>1
  <2>3. p[y] = "B"
    <3>1. p[y] = b[n + y]
      <4> HIDE DEF y
      <4>1. QED BY <1>1, <2>2
    <3>2. QED BY <2>2, <3>1 DEF Parted, Pair
  <2>4. CASE y = m
    <3>1. m # 0 /\ p # <<>> /\ p[m] = "B"
      BY <1>1, <2>2, <2>3, <2>4
    <3>2. QED BY <1>1, <3>1
  <2>5. CASE y # m
    <3>1. y \in 1..m - 1 /\ z \in 1..m
      BY <1>1, <2>2, <2>5
    <3>2. p[z] = b[e + 1]
      <4>1. p[z] = b[n + z]
        <5> HIDE DEF z
        <5>1. QED BY <1>1, <3>1
      <4>2. QED BY <2>2, <4>1
    <3>3. Pair(p, y)
      BY <1>1, <2>3, <3>1, <3>2 DEF Parted, Pair
    <3>4. q # 0
      <4> HIDE DEF y
      <4>1. QED BY <1>1, <1>2, <2>2, <3>3 DEF EndAt
    <3>5. QED BY <1>4, <3>4
  <2>6. QED BY <2>4, <2>5
<1>5. QED BY <1>1, <1>3, <1>4 DEF q, m

(* A piece completes the file, or has it as far as the piece goes. *)
Adds(b, h, e, k, r, text) ==
  \/ r.state = "complete" /\ text = SubSeq(b, h + 1, e - 1)
  \/ r.state = "boundary" /\ h <= k /\ k < e /\ text = SubSeq(b, h + 1, k)

LEMMA LaterPiece ==
  ASSUME NEW b \in Content, NEW h, NEW e, Parted(b, h, e),
         NEW n \in 0..Len(b), h <= n, n < e, NEW k \in n..Len(b), NEW p, Slice(Units, b, n, k, p),
         p # <<>> => p[Len(p)] # "B"
  PROVE  Adds(b, h, e, k, Later("boundary", p), SubSeq(b, h + 1, n) \o Later("boundary", p).add)
<1> DEFINE m == k - n
           r == Later("boundary", p)
           old == SubSeq(b, h + 1, n)
<1>1. /\ p \in Content /\ Len(p) = m /\ (\A i \in 1..m : p[i] = b[n + i])
      /\ Len(b) \in Nat /\ m \in Nat /\ e \in 1..Len(b) - 1 /\ h \in 1..Len(b)
      /\ b \in Seq(Units) /\ n \in Nat /\ k \in Nat
  BY DEF Slice, Content, Parted, Pair
<1>2. /\ EndOf(p) # 0 => EndOf(p) = e - n /\ EndOf(p) \in 1..m
      /\ EndOf(p) = 0 => k < e
  BY EndOfPiece
<1>3. \A j \in n..Len(b) : old \o SubSeq(b, n + 1, j) = SubSeq(b, h + 1, j)
  <2> TAKE j \in n..Len(b)
  <2>1. h + 1 \in 1..Len(b) + 1 /\ n \in (h + 1) - 1..Len(b) /\ j \in n..Len(b)
    BY <1>1
  <2>2. QED BY <1>1, <2>1, ConcatAdjacentSubSeq
<1>4. CASE EndOf(p) # 0
  <2>1. r = [add |-> Till(p, EndOf(p)), state |-> "complete"]
    <3>1. Pair(p, EndOf(p)) /\ KindAt(p, "B", Mark(p))
      BY <1>1, <1>4, PlacesAre DEF EndAt
    <3>2. EndOf(p) \in 1..Len(p) /\ p[EndOf(p)] = "B"
      BY <1>1, <3>1 DEF Pair
    <3>3. Mark(p) # 0
      BY <3>1, <3>2 DEF KindAt
    <3>4. QED BY <1>4, <3>3, Zenon DEF Later
  <2> DEFINE j == e - n - 1
  <2>2. j \in 0..m /\ EndOf(p) - 1 = j /\ 0 \in 0..j /\ n + j = e - 1 /\ n + 0 + 1 = n + 1 /\ e - 1 \in n..Len(b)
    BY <1>1, <1>2, <1>4
  <2> HIDE DEF j
  <2>3. SubSeq(p, 0 + 1, j) = SubSeq(b, n + 0 + 1, n + j)
    BY <1>1, <2>2, SliceAgain
  <2>4. Till(p, EndOf(p)) = SubSeq(b, n + 1, e - 1)
    BY <2>2, <2>3 DEF Till
  <2>5. old \o r.add = SubSeq(b, h + 1, e - 1) /\ r.state = "complete"
    <3> HIDE DEF r, old
    <3>1. r.add = SubSeq(b, n + 1, e - 1) /\ r.state = "complete"
      BY <2>1, <2>4
    <3>2. e - 1 \in n..Len(b)
      BY <2>2
    <3>3. old \o SubSeq(b, n + 1, e - 1) = SubSeq(b, h + 1, e - 1)
      BY <1>3, <3>2
    <3>4. QED BY <3>1, <3>3
  <2>6. QED BY <2>5 DEF Adds
<1>5. CASE EndOf(p) = 0
  <2>1. Mark(p) = 0
    <3>1. SUFFICES ASSUME Mark(p) # 0 PROVE FALSE
      OBVIOUS
    <3> DEFINE x == Mark(p)
               y == n + x
    <3>2. x \in 1..m /\ p[x] = "B"
      BY <1>1, <3>1, PlacesAre DEF KindAt
    <3>3. x # m
      <4>1. x = m => p # <<>> /\ p[m] = "B"
        BY <1>1, <3>2
      <4>2. QED BY <1>1, <4>1
    <3> HIDE DEF x
    <3>4. y \in 1..Len(b) /\ x + 1 \in 1..m /\ n + (x + 1) = y + 1 /\ y + 1 # h
      BY <1>1, <3>2, <3>3
    <3>5. b[y] = "B" /\ b[y + 1] = p[x + 1]
      <4> DEFINE z == x + 1
      <4>1. z \in 1..m /\ n + z = y + 1
        BY <3>4
      <4> HIDE DEF z
      <4>2. p[z] = b[n + z]
        BY <1>1, <4>1
      <4>3. b[y + 1] = p[z]
        BY <4>1, <4>2
      <4>4. b[y] = "B"
        BY <1>1, <3>2
      <4>5. QED BY <4>3, <4>4 DEF z
    <3>6. y < Len(b) /\ b[y + 1] \in {"H", "E"}
      <4> HIDE DEF y
      <4>1. QED BY <3>4, <3>5 DEF Parted
    <3>7. b[y + 1] # "H"
      <4> DEFINE z == y + 1
      <4>1. z \in 1..Len(b) /\ z # h
        BY <1>1, <3>4, <3>6
      <4> HIDE DEF z
      <4>2. b[z] # "H"
        BY <4>1 DEF Parted
      <4>3. QED BY <4>2 DEF z
    <3>8. Pair(p, x)
      <4>1. x \in 1..Len(p) - 1
        BY <1>1, <3>2, <3>3
      <4>2. QED BY <3>2, <3>5, <3>6, <3>7, <4>1 DEF Pair
    <3>9. EndAt(p, EndOf(p)) /\ x \in 1..Len(p)
      BY <1>1, <3>2, PlacesAre
    <3>10. QED BY <1>5, <3>8, <3>9 DEF EndAt
  <2>2. r = [add |-> p, state |-> "boundary"]
    BY <1>5, <2>1, Zenon DEF Later
  <2>3. p = SubSeq(b, n + 1, k)
    <3>1. Slice(Units, b, n, k, SubSeq(b, n + 1, k))
      <4>1. k \in 0..Len(b) /\ n \in 0..k
        BY <1>1
      <4>2. QED BY <1>1, <4>1, Slices
    <3> DEFINE q == SubSeq(b, n + 1, k)
    <3> HIDE DEF q
    <3>2. q \in Seq(Units) /\ Len(q) = m /\ \A i \in 1..m : q[i] = b[n + i]
      BY <3>1 DEF Slice, q
    <3>3. p \in Seq(Units)
      BY <1>1 DEF Content
    <3> HIDE DEF m
    <3>4. p = q
      <4>1. Len(p) = Len(q) /\ \A i \in 1..Len(p) : p[i] = q[i]
        BY <1>1, <3>2
      <4>2. q \in Seq(Units)
        BY <3>2
      <4>3. QED BY <3>3, <4>1, <4>2, SeqEqual
    <3>5. QED BY <3>4 DEF q
  <2>4. k \in n..Len(b) /\ h <= k /\ k < e
    BY <1>1, <1>2, <1>5
  <2>5. old \o r.add = SubSeq(b, h + 1, k) /\ r.state = "boundary"
    <3> HIDE DEF r, old
    <3>1. r.add = SubSeq(b, n + 1, k) /\ r.state = "boundary"
      BY <2>2, <2>3
    <3>2. old \o SubSeq(b, n + 1, k) = SubSeq(b, h + 1, k)
      BY <1>3, <2>4
    <3>3. QED BY <3>1, <3>2
  <2>6. QED BY <2>4, <2>5 DEF Adds
<1>6. QED BY <1>4, <1>5

LEMMA FirstPiece ==
  ASSUME NEW b \in Content, NEW h, NEW e, Parted(b, h, e),
         NEW k \in 0..Len(b), NEW p, Slice(Units, b, 0, k, p), Head4(p) # 0,
         p # <<>> => p[Len(p)] # "B"
  PROVE  h <= k /\ Adds(b, h, e, k, First(p), First(p).add)
<1>1. /\ p \in Content /\ p \in Seq(Units) /\ Len(p) = k /\ (\A i \in 1..k : p[i] = b[i])
      /\ Len(b) \in Nat /\ e \in 1..Len(b) - 1 /\ h \in 1..Len(b) /\ b \in Seq(Units) /\ k \in Nat
  <2>1. k - 0 = k /\ Len(b) \in Nat
    BY DEF Content
  <2>2. \A i \in 1..k : 0 + i = i
    BY <2>1
  <2>3. QED BY <2>1, <2>2 DEF Slice, Content, Parted, Pair
<1>2. /\ EndOf(p) # 0 => EndOf(p) = e /\ e \in 1..k
      /\ EndOf(p) = 0 => k < e
  <2>1. 0 \in 0..Len(b) /\ 0 < e /\ k \in 0..Len(b)
    BY <1>1
  <2>2. /\ EndOf(p) # 0 => EndOf(p) = e - 0 /\ EndOf(p) \in 1..k - 0
        /\ EndOf(p) = 0 => k < e
    BY <2>1, EndOfPiece
  <2>3. e - 0 = e /\ k - 0 = k
    BY <1>1
  <2>4. QED BY <2>2, <2>3
<1>3. Head4(p) = h /\ h \in 1..k
  <2> DEFINE x == Head4(p)
  <2>1. KindAt(p, "H", x)
    BY <1>1, PlacesAre
  <2> HIDE DEF x
  <2>2. x \in 1..k /\ p[x] = "H"
    BY <1>1, <2>1 DEF KindAt, x
  <2>3. b[x] = "H" /\ x \in 1..Len(b)
    BY <1>1, <2>2
  <2>4. x = h
    BY <2>3 DEF Parted
  <2>5. QED BY <2>2, <2>4 DEF x
<1>4. ASSUME NEW j \in 0..k PROVE SubSeq(p, h + 1, j) = SubSeq(b, h + 1, j)
  <2>1. CASE h <= j
    <3>1. k \in 0..Len(b) /\ 0 \in 0..k /\ j \in 0..k - 0 /\ h \in 0..j /\ 0 + h + 1 = h + 1 /\ 0 + j = j
      BY <1>1, <1>3, <2>1
    <3>2. SubSeq(p, h + 1, j) = SubSeq(b, 0 + h + 1, 0 + j)
      BY <1>1, <3>1, SliceAgain
    <3>3. QED BY <3>1, <3>2
  <2>2. CASE j < h
    <3>1. h + 1 \in Int /\ j \in Int /\ j < h + 1
      BY <1>1, <1>3, <2>2
    <3>2. QED BY <3>1, SubSeqEmpty
  <2>3. QED BY <1>1, <1>3, <2>1, <2>2
<1>5. CASE EndOf(p) # 0
  <2>1. First(p) = [add |-> SubSeq(p, Head4(p) + 1, EndOf(p) - 1), state |-> "complete"]
    BY <1>5 DEF First
  <2>2. e - 1 \in 0..k
    BY <1>1, <1>2, <1>5
  <2>3. First(p).add = SubSeq(b, h + 1, e - 1) /\ First(p).state = "complete"
    <3>1. First(p).add = SubSeq(p, Head4(p) + 1, EndOf(p) - 1) /\ First(p).state = "complete"
      <4> DEFINE t == SubSeq(p, Head4(p) + 1, EndOf(p) - 1)
      <4> HIDE DEF t
      <4>1. First(p) = [add |-> t, state |-> "complete"]
        BY <2>1 DEF t
      <4>2. First(p).add = t /\ First(p).state = "complete"
        BY <4>1
      <4>3. QED BY <4>2 DEF t
    <3>2. First(p).add = SubSeq(p, h + 1, e - 1)
      BY <1>2, <1>3, <1>5, <3>1
    <3>3. SubSeq(p, h + 1, e - 1) = SubSeq(b, h + 1, e - 1)
      BY <1>4, <2>2
    <3>4. QED BY <3>1, <3>2, <3>3
  <2>4. QED BY <1>3, <2>3 DEF Adds
<1>6. CASE EndOf(p) = 0
  <2>1. First(p) = [add |-> SubSeq(p, Head4(p) + 1, k), state |-> "boundary"]
    BY <1>1, <1>6 DEF First, From
  <2>2. k \in 0..k /\ h <= k /\ k < e
    BY <1>1, <1>2, <1>3, <1>6
  <2>3. First(p).add = SubSeq(b, h + 1, k) /\ First(p).state = "boundary"
    <3>1. First(p).add = SubSeq(p, Head4(p) + 1, k) /\ First(p).state = "boundary"
      <4> DEFINE t == SubSeq(p, Head4(p) + 1, k)
      <4> HIDE DEF t
      <4>1. First(p) = [add |-> t, state |-> "boundary"]
        BY <2>1 DEF t
      <4>2. First(p).add = t /\ First(p).state = "boundary"
        BY <4>1
      <4>3. QED BY <4>2 DEF t
    <3>2. First(p).add = SubSeq(p, h + 1, k)
      BY <1>3, <3>1
    <3>3. SubSeq(p, h + 1, k) = SubSeq(b, h + 1, k)
      BY <1>4, <2>2
    <3>4. QED BY <3>1, <3>2, <3>3
  <2>4. QED BY <2>2, <2>3 DEF Adds
<1>7. QED BY <1>5, <1>6

-----------------------------------------------------------------------------
(* handleUpload on one piece.                                                *)
Piece(u)    == IF u.ctx = 0 THEN First(u.body) ELSE Later(u.state, u.body)
Complete(u) == Piece(u).state = "complete" \/ u.todo = <<>>
Spoils(u)   == \/ u.torn \/ ~OnePart(u.sent)
               \/ u.ctx = 0 /\ Head4(u.body) = 0
               \/ u.body # <<>> /\ u.body[Len(u.body)] = "B"

Follows(u, D, v, E) ==
  /\ v.sent = u.sent /\ v.todo = u.todo /\ v.body = <<>> /\ v.ctx # 0
  /\ v.state = Piece(u).state /\ v.torn = Spoils(u)
  /\ E[v.ctx] = IF u.ctx = 0 THEN Piece(u).add ELSE D[u.ctx] \o Piece(u).add

(* What is kept of a body: everything from the headers to the last boundary. *)
UpToEnd(b) == SubSeq(b, Head4(b) + 1, EndOf(b) - 1)

(* It is the data, and the line end of the delimiter. *)
LEMMA EndsWithLine ==
  ASSUME NEW b \in Content, OnePart(b)
  PROVE  UpToEnd(b) = Append(Data(b), "N")
<1> DEFINE h == Head4(b)
           e == EndOf(b)
           s == UpToEnd(b)
           t == Data(b)
<1>1. /\ b \in Seq(Units) /\ Len(b) \in Nat /\ h \in 1..Len(b) /\ e \in 1..Len(b) - 1
      /\ e > h + 1 /\ b[e - 1] = "N"
  <2>1. Parted(b, h, e)
    BY OnePartIs
  <2>2. h \in 1..Len(b) /\ e \in 1..Len(b) - 1
    BY <2>1 DEF Parted, Pair
  <2>3. QED BY <2>2 DEF Content, OnePart
<1>2. s = SubSeq(b, h + 1, e - 1) /\ t = SubSeq(b, h + 1, e - 2)
  BY DEF UpToEnd, Data
<1> HIDE DEF h, e, s, t
<1>3. s \in Seq(Units) /\ Len(s) = e - 1 - h /\ \A i \in 1..e - 1 - h : s[i] = b[h + i]
  <2>1. h + 1 \in 1..Len(b) + 1 /\ e - 1 \in h..Len(b)
    BY <1>1
  <2>2. QED BY <1>1, <1>2, <2>1, SubSeqProperties
<1>4. t \in Seq(Units) /\ Len(t) = e - 2 - h /\ \A i \in 1..e - 2 - h : t[i] = b[h + i]
  <2>1. h + 1 \in 1..Len(b) + 1 /\ e - 2 \in h..Len(b)
    BY <1>1
  <2>2. QED BY <1>1, <1>2, <2>1, SubSeqProperties
<1>5. "N" \in Units
  BY DEF Units
<1> DEFINE a == Append(t, "N")
<1>6. /\ a \in Seq(Units) /\ Len(a) = e - 1 - h
      /\ \A i \in 1..e - 2 - h : a[i] = t[i]
      /\ a[e - 1 - h] = "N"
  BY <1>1, <1>4, <1>5, AppendProperties
<1> HIDE DEF a
<1>7. ASSUME NEW i \in 1..Len(s) PROVE s[i] = a[i]
  <2>1. CASE i \in 1..e - 2 - h
    BY <1>3, <1>4, <1>6, <2>1
  <2>2. CASE i = e - 1 - h
    <3>1. s[i] = b[h + i]
      BY <1>3, <1>7
    <3>2. h + i = e - 1
      BY <1>1, <2>2
    <3>3. s[i] = "N"
      BY <1>1, <3>1, <3>2
    <3>4. QED BY <1>6, <2>2, <3>3
  <2>3. QED BY <1>1, <1>3, <1>7, <2>1, <2>2
<1>8. s = a
  BY <1>3, <1>6, <1>7, SeqEqual
<1>9. QED BY <1>8 DEF a, s, t

LEMMA PieceWritten ==
  ASSUME NEW u \in Uploads, NEW D, Written(u, FALSE, D),
         NEW E, NEW v, Follows(u, D, v, E)
  PROVE  /\ Written(v, Complete(u), E)
         /\ Complete(u) /\ ~Spoils(u) => E[v.ctx] = UpToEnd(u.sent)
<1> DEFINE b == u.sent
           h == Head4(b)
           e == EndOf(b)
           r == Piece(u)
           text == E[v.ctx]
<1>0. /\ v.sent = u.sent /\ v.todo = u.todo /\ v.body = <<>> /\ v.ctx # 0
      /\ v.state = Piece(u).state /\ v.torn = Spoils(u)
      /\ text = IF u.ctx = 0 THEN Piece(u).add ELSE D[u.ctx] \o Piece(u).add
  BY DEF Follows
<1>1. b \in Content /\ u.body \in Content /\ u.todo \in Content /\ Len(b) \in Nat
  BY DEF Uploads, Content
<1>2. PICK n \in 0..Len(b) :
        /\ u.body \o u.todo = From(b, n + 1)
        /\ ~u.torn /\ u.ctx = 0 => n = 0 \/ \A i \in n + 1..Len(b) : b[i] # "H"
        /\ ~u.torn /\ u.ctx # 0 => OnePart(b) /\ h <= n
        /\ ~u.torn /\ u.ctx # 0 =>
             n < e /\ u.state = "boundary" /\ D[u.ctx] = SubSeq(b, h + 1, n)
  BY Zenon DEF Written
<1>3. PICK k : k = n + Len(u.body) /\ PieceOf(b, n, k, u.body, u.todo)
  BY <1>1, <1>2, Pieces
<1>4. /\ k \in n..Len(b) /\ Slice(Units, b, n, k, u.body) /\ u.todo = From(b, k + 1)
      /\ <<>> \o u.todo = u.todo /\ (u.todo = <<>> => k = Len(b))
  BY <1>3 DEF PieceOf
<1> HIDE DEF b, h, e, r, text
<1>5. ASSUME ~Spoils(u)
      PROVE  OnePart(b) /\ h <= k /\ Adds(b, h, e, k, r, text)
  <2>1. /\ ~u.torn /\ OnePart(b) /\ (u.ctx = 0 => Head4(u.body) # 0)
        /\ u.body # <<>> => u.body[Len(u.body)] # "B"
    BY <1>5 DEF Spoils, b
  <2>2. Parted(b, h, e)
    BY <1>1, <2>1, OnePartIs DEF h, e
  <2>3. CASE u.ctx = 0
    <3>1. n = 0
      <4>1. KindAt(u.body, "H", Head4(u.body)) /\ Head4(u.body) # 0
        BY <1>1, <2>1, <2>3, PlacesAre
      <4> DEFINE x == Head4(u.body)
      <4> HIDE DEF x
      <4>2. x \in 1..Len(u.body) /\ u.body[x] = "H" /\ Len(u.body) = k - n
        BY <1>3, <4>1 DEF KindAt, PieceOf, x
      <4>3. u.body[x] = b[n + x] /\ n + x \in n + 1..Len(b)
        BY <1>1, <1>2, <1>4, <4>2 DEF Slice
      <4>4. QED BY <1>2, <2>1, <2>3, <4>2, <4>3
    <3>2. k \in 0..Len(b) /\ Slice(Units, b, 0, k, u.body)
      BY <1>4, <3>1
    <3>3. h <= k /\ Adds(b, h, e, k, First(u.body), First(u.body).add)
      BY <1>1, <2>1, <2>2, <2>3, <3>2, FirstPiece
    <3>4. r = First(u.body) /\ text = r.add
      BY <1>0, <2>3 DEF r, Piece
    <3>5. QED BY <2>1, <3>3, <3>4
  <2>4. CASE u.ctx # 0
    <3>1. h <= n /\ n < e /\ u.state = "boundary" /\ D[u.ctx] = SubSeq(b, h + 1, n)
      BY <1>2, <2>1, <2>4
    <3>2. Adds(b, h, e, k, Later("boundary", u.body), SubSeq(b, h + 1, n) \o Later("boundary", u.body).add)
      BY <1>1, <1>2, <1>4, <2>1, <2>2, <3>1, LaterPiece
    <3>3. r = Later("boundary", u.body)
      BY <2>4, <3>1 DEF r, Piece
    <3>4. text = SubSeq(b, h + 1, n) \o r.add
      BY <1>0, <2>4, <3>1 DEF r
    <3>5. h \in Nat /\ h <= k
      BY <1>1, <1>2, <1>4, <2>2, <3>1 DEF Parted
    <3>6. QED BY <2>1, <3>2, <3>3, <3>4, <3>5
  <2>5. QED BY <2>3, <2>4
<1>6. ASSUME ~Spoils(u), Complete(u)
      PROVE  r.state = "complete" /\ text = SubSeq(b, h + 1, e - 1)
  <2>1. OnePart(b) /\ Adds(b, h, e, k, r, text) /\ Parted(b, h, e)
    BY <1>1, <1>5, <1>6, OnePartIs DEF h, e
  <2>2. CASE r.state = "complete"
    BY <2>1, <2>2 DEF Adds
  <2>3. CASE u.todo = <<>>
    <3>1. k = Len(b) /\ e \in 1..Len(b) - 1
      BY <1>4, <2>1, <2>3 DEF Parted, Pair
    <3>2. ~(k < e)
      BY <1>1, <3>1
    <3>3. QED BY <2>1, <3>2 DEF Adds
  <2>4. QED BY <1>6, <2>2, <2>3 DEF Complete, r
<1>7. ASSUME ~Spoils(u), ~Complete(u)
      PROVE  k < e /\ r.state = "boundary" /\ text = SubSeq(b, h + 1, k)
  BY <1>5, <1>7 DEF Adds, Complete, r
<1>8. Written(v, Complete(u), E)
  <2>1. k \in 0..Len(v.sent) /\ v.sent = b
    BY <1>0, <1>1, <1>2, <1>4 DEF b
  <2>2. v.body \o v.todo = From(v.sent, k + 1)
    BY <1>0, <1>4, <2>1
  <2>3. ~v.torn /\ v.ctx # 0 => OnePart(v.sent) /\ Head4(v.sent) <= k
    BY <1>0, <1>5, <2>1 DEF h
  <2>4. ~v.torn /\ v.ctx # 0 /\ ~Complete(u) =>
          /\ k < EndOf(v.sent) /\ v.state = "boundary"
          /\ E[v.ctx] = SubSeq(v.sent, Head4(v.sent) + 1, k)
    BY <1>0, <1>7, <2>1 DEF h, e, text, r
  <2>5. QED BY <1>0, <2>1, <2>2, <2>3, <2>4 DEF Written
<1>9. Complete(u) /\ ~Spoils(u) => E[v.ctx] = UpToEnd(u.sent)
  BY <1>6 DEF UpToEnd, text, b, h, e
<1>10. QED BY <1>8, <1>9

-----------------------------------------------------------------------------
(* Steps that write to no file.                                              *)
LEMMA WrittenKept ==
  ASSUME NEW u, NEW over, NEW D, NEW E, Written(u, over, D), u.ctx # 0 => E[u.ctx] = D[u.ctx]
  PROVE  Written(u, over, E)
BY DEF Written

LEMMA NoUploadWritten == ASSUME NEW over, NEW D PROVE Written(NoUpload, over, D)
<1> DEFINE s == <<>>
<1>1. s \in Seq(Units) /\ Len(s) = 0
  OBVIOUS
<1>2. NoUpload.sent = s /\ NoUpload.todo = s /\ NoUpload.body = s /\ NoUpload.ctx = 0
  BY DEF NoUpload
<1>3. s \o s = s /\ From(s, 0 + 1) = s
  <2>1. s \o s = s
    BY <1>1, ConcatEmptySeq
  <2>2. From(s, 0 + 1) = s
    BY <1>1, SubSeqEmpty DEF From
  <2>3. QED BY <2>1, <2>2
<1> HIDE DEF s
<1>4. 0 \in 0..Len(NoUpload.sent) /\ NoUpload.body \o NoUpload.todo = From(NoUpload.sent, 0 + 1)
  BY <1>1, <1>2, <1>3
<1>5. QED BY <1>2, <1>4 DEF Written

(* Only Chunk leads to createFile. *)
LEMMA ResumePc ==
  ASSUME NEW j, IsJob(j), j.pc \in Queries, NEW rows
  PROVE  Resume(j, rows).pc # "createFile"
<1> DEFINE k == Resume(j, rows)
<1> SUFFICES k.pc # "createFile"
  OBVIOUS
<1>1. CASE \E status : k = Reply(status)
  BY <1>1, ReplyTyped
<1>2. CASE \E pc : pc # "createFile" /\ k = Go(j, pc)
  BY <1>2, GoTyped
<1>3. CASE j.pc = "auth"
  <2> DEFINE known == [j EXCEPT !.user = IF rows = {} THEN None ELSE Only(rows)]
  <2>1. \/ \E status : k = Reply(status)
        \/ \E pc \in {"chunk", "owned", "list", "file", "code"} : k = Go(known, pc)
    BY <1>3 DEF Resume, Authenticated
  <2>2. IsJob(known)
    BY DEF IsJob
  <2> HIDE DEF known, k
  <2>3. QED BY <1>1, <2>1, <2>2, GoTyped
<1>4. CASE j.pc = "account"
  <2>1. (\E status : k = Reply(status)) \/ \E pc \in {"saveSession", "insertUser"} : k = Go(j, pc)
    BY <1>4 DEF Resume, AccountKnown
  <2>2. QED BY <1>1, <1>2, <2>1
<1>5. CASE j.pc \in {"owned", "exists"}
  <2>1. \/ \E status : k = Reply(status)
        \/ \E pc \in {"deleteFile", "setPrivate", "exists", "createShare"} : k = Go(j, pc)
    BY <1>5 DEF Resume, OwnerKnown
  <2>2. QED BY <1>1, <1>2, <2>1
<1>6. CASE j.pc \in {"file", "code"}
  <2>1. (\E status : k = Reply(status)) \/ k = Go(j, "open")
    BY <1>6 DEF Resume, FileKnown, CodeKnown
  <2>2. QED BY <1>1, <1>2, <2>1
<1>7. CASE j.pc \notin {"auth", "account", "owned", "exists", "file", "code"}
  <2>1. (\E status : k = Reply(status)) \/ \E own : k = Go([j EXCEPT !.left = own], "info")
    BY <1>7 DEF Resume, Listed, ListOwn
  <2>2. ASSUME NEW own, k = Go([j EXCEPT !.left = own], "info") PROVE k.pc # "createFile"
    <3> DEFINE asked == [j EXCEPT !.left = own]
    <3>1. IsJob(asked)
      BY DEF IsJob
    <3> HIDE DEF asked
    <3>2. Go(asked, "info").pc = "info"
      BY <3>1, GoTyped
    <3>3. QED BY <2>2, <3>2 DEF asked
  <2>3. QED BY <1>1, <2>1, <2>2
<1>8. QED BY <1>3, <1>4, <1>5, <1>6, <1>7

LEMMA ContentQuiet ==
  ASSUME ContentIInv, UNCHANGED <<disk, whole>>, files' \subseteq files,
         \A m \in Loops : \/ up'[m] = NoUpload
                          \/ /\ up'[m] = up[m]
                             /\ job'[m].pc = "createFile" <=> job[m].pc = "createFile"
  PROVE  ContentIInv'
<1>1. ASSUME NEW m \in Loops PROVE Written(up'[m], At(m, "createFile")', disk')
  <2>1. CASE up'[m] = NoUpload
    BY <2>1, NoUploadWritten
  <2>2. CASE up'[m] = up[m] /\ (job'[m].pc = "createFile" <=> job[m].pc = "createFile")
    <3>1. Written(up[m], job[m].pc = "createFile", disk)
      BY DEF ContentIInv, At
    <3>2. (job[m].pc = "createFile") \in BOOLEAN /\ (job'[m].pc = "createFile") \in BOOLEAN
      OBVIOUS
    <3>3. (job'[m].pc = "createFile") = (job[m].pc = "createFile")
      BY <2>2, <3>2, Zenon
    <3>4. QED BY <2>2, <3>1, <3>3 DEF At
  <2>3. QED BY <2>1, <2>2
<1>2. ASSUME NEW w \in whole PROVE Intact(w)'
  <2>1. Intact(w)
    BY DEF ContentIInv
  <2>2. w.name # 0
    BY <2>1 DEF Intact
  <2>3. ASSUME NEW l \in Loops, up'[l].ctx = w.name
        PROVE  job'[l].pc = "createFile" /\ disk[w.name] = Append(w.content, "N")
    <3>1. up'[l] = up[l] /\ (job'[l].pc = "createFile" <=> job[l].pc = "createFile")
      BY <2>2, <2>3, NoUploadTyped
    <3>2. QED BY <2>1, <2>3, <3>1 DEF Intact, At
  <2>4. QED BY <2>1, <2>3 DEF Intact, At
<1>3. QED BY <1>1, <1>2 DEF ContentIInv

(* A step of one loop, at other places of its handler. *)
LEMMA ContentLoop ==
  ASSUME FileIInv, ContentIInv, UNCHANGED <<disk, whole>>, files' \subseteq files,
         NEW l \in Loops, NEW k, Become(l, k), job[l].pc # "createFile", k.pc # "createFile",
         up' \in {up, [up EXCEPT ![l] = NoUpload]}
  PROVE  ContentIInv'
<1>1. DOMAIN job = Loops /\ DOMAIN up = Loops
  BY DEF FileIInv, TypeInv
<1>2. job'[l] = k /\ \A m \in Loops \ {l} : job'[m] = job[m]
  BY <1>1 DEF Become
<1>3. \A m \in Loops : up'[m] \in {NoUpload, up[m]} /\ (m # l => up'[m] = up[m])
  BY <1>1
<1>4. QED BY <1>2, <1>3, ContentQuiet

LEMMA QueryContent ==
  ASSUME FileIInv, AccessIInv, ContentIInv, NEW l \in Loops, SendQuery(l) \/ StoreResult(l)
  PROVE  ContentIInv'
<1> DEFINE j == job[l]
<1>1. UNCHANGED <<disk, whole, files>> /\ j.pc \in Queries /\ IsJob(j)
  BY DEF SendQuery, StoreResult, database, AccessIInv, FileIInv, TypeInv
<1>2. up' \in {up, [up EXCEPT ![l] = NoUpload]}
  BY DEF SendQuery, StoreResult, Continue
<1>3. (\E rows : Become(l, Resume(j, rows))) \/ Become(l, [j EXCEPT !.rows = Answer(j)])
  BY DEF SendQuery, StoreResult, Continue
<1>4. j.pc # "createFile" /\ [j EXCEPT !.rows = Answer(j)].pc = j.pc
  BY <1>1 DEF Queries, IsJob
<1>5. PICK k : Become(l, k) /\ k.pc # "createFile"
  BY <1>1, <1>3, <1>4, ResumePc
<1>6. QED BY <1>1, <1>2, <1>4, <1>5, ContentLoop

(* Statements, but for createFile, and the answer of a download. *)
LEMMA StatementContent ==
  ASSUME FileIInv, ContentIInv, NEW l \in Loops,
         \/ DeleteFile(l) \/ SetPrivate(l) \/ CreateShare(l) \/ SaveSession(l) \/ EndSession(l)
         \/ InsertUser(l) \/ Open(l)
  PROVE  ContentIInv'
<1>1. UNCHANGED <<disk, whole, up>> /\ files' \subseteq files /\ job[l].pc # "createFile"
  BY DEF DeleteFile, SetPrivate, CreateShare, SaveSession, EndSession, InsertUser, Open, At, database
<1>2. (\E status : Become(l, Reply(status))) \/ Become(l, Go(job[l], "unlink"))
  BY DEF DeleteFile, SetPrivate, CreateShare, SaveSession, EndSession, InsertUser, Open
<1>3. IsJob(job[l])
  BY DEF FileIInv, TypeInv
<1>4. PICK k : Become(l, k) /\ k.pc # "createFile"
  BY <1>2, <1>3, ReplyTyped, GoTyped
<1>5. QED BY <1>1, <1>4, ContentLoop

(* Steps of one loop that have to do with its file. *)
LEMMA ContentStep ==
  ASSUME FileIInv, ContentIInv, NEW l \in Loops, NEW k, Become(l, k),
         \A m \in Loops \ {l} : /\ up'[m] = up[m]
                                /\ up[m].ctx # 0 => disk'[up[m].ctx] = disk[up[m].ctx],
         Written(up'[l], k.pc = "createFile", disk'),
         \A w \in whole' : Intact(w)'
  PROVE  ContentIInv'
<1>1. DOMAIN job = Loops
  BY DEF FileIInv, TypeInv
<1>2. job'[l] = k /\ \A m \in Loops \ {l} : job'[m] = job[m]
  BY <1>1 DEF Become
<1>3. ASSUME NEW m \in Loops PROVE Written(up'[m], At(m, "createFile")', disk')
  <2>1. CASE m = l
    BY <1>2, <2>1 DEF At
  <2>2. CASE m # l
    <3>1. Written(up[m], job[m].pc = "createFile", disk)
      BY DEF ContentIInv, At
    <3>2. Written(up[m], job[m].pc = "createFile", disk')
      BY <2>2, <3>1, WrittenKept
    <3>3. up'[m] = up[m] /\ job'[m] = job[m]
      BY <1>2, <2>2
    <3>4. QED BY <3>2, <3>3 DEF At
  <2>3. QED BY <2>1, <2>2
<1>4. QED BY <1>3 DEF ContentIInv

LEMMA UnlinkContent ==
  ASSUME FileIInv, ContentIInv, NEW l \in Loops, Unlink(l)
  PROVE  ContentIInv'
<1> DEFINE j == job[l]
<1>1. /\ j.pc = "unlink" /\ disk' = [disk EXCEPT ![j.name] = Absent] /\ Become(l, Reply(200))
      /\ UNCHANGED <<files, up, whole>>
  BY DEF Unlink, At, database
<1>2. Owned(j, up, files, Len(disk)) /\ \A f \in files : f.name # j.name
  BY <1>1 DEF FileIInv, JobInv, Right
<1>3. disk \in Seq(Content \cup {Absent}) /\ j.name \in 1..Len(disk) /\ DOMAIN job = Loops
  BY <1>2 DEF FileIInv, TypeInv, Owned
<1>4. /\ Len(disk') = Len(disk)
      /\ \A i \in 1..Len(disk) : i # j.name => disk'[i] = disk[i]
  BY <1>1, <1>3, ExceptSeq
<1>5. \A m \in Loops : up[m].ctx # 0 => disk'[up[m].ctx] = disk[up[m].ctx]
  BY <1>2, <1>4 DEF FileIInv, UploadInv, Owned
<1>6. Written(up'[l], Reply(200).pc = "createFile", disk')
  <2>1. Written(up[l], j.pc = "createFile", disk)
    BY DEF ContentIInv, At
  <2>2. Written(up[l], FALSE, disk)
    BY <1>1, <2>1
  <2>3. Written(up[l], FALSE, disk')
    BY <1>5, <2>2, WrittenKept
  <2>4. (Reply(200).pc = "createFile") = FALSE
    BY ReplyTyped
  <2>5. QED BY <1>1, <2>3, <2>4
<1>7. ASSUME NEW w \in whole' PROVE Intact(w)'
  <2>1. Intact(w)
    BY <1>1 DEF ContentIInv
  <2>2. ASSUME NEW m \in Loops, up[m].ctx = w.name
        PROVE  job'[m].pc = "createFile" /\ disk'[w.name] = Append(w.content, "N")
    <3>1. job[m].pc = "createFile" /\ disk[w.name] = Append(w.content, "N") /\ w.name \in 1..Len(disk)
      BY <2>1, <2>2 DEF Intact, At
    <3>2. m # l /\ w.name # j.name
      BY <1>1, <1>2, <2>2, <3>1 DEF Owned
    <3>3. job'[m] = job[m]
      BY <1>1, <1>3, <3>2 DEF Become
    <3>4. QED BY <1>4, <3>1, <3>2, <3>3
  <2>3. disk'[w.name] = Append(w.content, "N") \/ \A f \in files : f.name # w.name
    BY <1>2, <1>4, <2>1 DEF Intact
  <2>4. QED BY <1>1, <1>4, <2>1, <2>2, <2>3 DEF Intact, At
<1>8. QED BY <1>1, <1>5, <1>6, <1>7, ContentStep

(* The row of a file comes when the file is complete, and what is left of    *)
(* the body, if anything, has no part of its own.                            *)
LEMMA CreateFileContent ==
  ASSUME FileIInv, ContentIInv, NEW l \in Loops, CreateFile(l)
  PROVE  ContentIInv'
<1> DEFINE u == up[l]
           f0 == [name |-> u.ctx, owner |-> job[l].user]
           v == [u EXCEPT !.ctx = 0, !.state = "headers"]
<1>1. /\ job[l].pc = "createFile" /\ Become(l, Reply(200))
      /\ files' = files \cup {f0} \/ files' = files
      /\ up' = [up EXCEPT ![l] = NoUpload] \/ up' = [up EXCEPT ![l].ctx = 0, ![l].state = "headers"]
      /\ UNCHANGED <<disk, whole>>
  BY DEF CreateFile, At
<1>2. /\ u.ctx # 0 /\ u \in Uploads /\ up \in [Loops -> Uploads] /\ DOMAIN job = Loops
  BY <1>1 DEF FileIInv, TypeInv, JobInv, Right
<1>3. /\ up'[l] \in {NoUpload, v} /\ up'[l].ctx = 0
      /\ \A m \in Loops \ {l} : up'[m] = up[m]
  <2>1. CASE up' = [up EXCEPT ![l] = NoUpload]
    <3>1. up'[l] = NoUpload /\ NoUpload.ctx = 0
      BY <1>2, <2>1, NoUploadTyped
    <3>2. QED BY <1>2, <2>1, <3>1
  <2>2. CASE up' = [up EXCEPT ![l].ctx = 0, ![l].state = "headers"]
    <3>1. up'[l] = v
      BY <1>2, <2>2
    <3>2. v.ctx = 0
      BY <1>2 DEF Uploads
    <3>3. \A m \in Loops \ {l} : up'[m] = up[m]
      BY <1>2, <2>2
    <3>4. QED BY <3>1, <3>2, <3>3
  <2>3. QED BY <1>1, <2>1, <2>2
<1>4. Written(v, FALSE, disk)
  <2>1. v.sent = u.sent /\ v.body = u.body /\ v.todo = u.todo /\ v.torn = u.torn /\ v.ctx = 0
    BY <1>2 DEF Uploads
  <2> HIDE DEF v
  <2>2. Written(u, TRUE, disk)
    <3>1. Written(u, job[l].pc = "createFile", disk)
      BY DEF ContentIInv, At
    <3>2. QED BY <1>1, <3>1
  <2>3. PICK n \in 0..Len(u.sent) :
          /\ u.body \o u.todo = From(u.sent, n + 1)
          /\ ~u.torn => OnePart(u.sent) /\ Head4(u.sent) <= n
    BY <1>2, <2>2, Zenon DEF Written
  <2>4. ASSUME ~u.torn, NEW i \in n + 1..Len(u.sent) PROVE u.sent[i] # "H"
    <3>1. u.sent \in Content /\ Len(u.sent) \in Nat
      BY <1>2 DEF Uploads, Content
    <3>2. Parted(u.sent, Head4(u.sent), EndOf(u.sent))
      BY <2>3, <2>4, <3>1, OnePartIs
    <3>3. i \in 1..Len(u.sent) /\ Head4(u.sent) \in Nat /\ Head4(u.sent) <= n /\ i > n
      BY <2>3, <2>4, <3>1, <3>2 DEF Parted
    <3>4. i # Head4(u.sent)
      BY <3>3
    <3>5. QED BY <3>2, <3>3, <3>4 DEF Parted
  <2>5. QED BY <2>1, <2>3, <2>4 DEF Written
<1>5. Written(up'[l], Reply(200).pc = "createFile", disk')
  <2>1. (Reply(200).pc = "createFile") = FALSE
    BY ReplyTyped
  <2>2. Written(up'[l], FALSE, disk)
    <3> HIDE DEF v
    <3>1. QED BY <1>3, <1>4, NoUploadWritten
  <2>3. QED BY <1>1, <2>1, <2>2
<1>6. ASSUME NEW w \in whole' PROVE Intact(w)'
  <2>1. Intact(w) /\ w.name # 0
    BY <1>1 DEF ContentIInv, Intact
  <2>2. ASSUME NEW m \in Loops, up'[m].ctx = w.name
        PROVE  job'[m].pc = "createFile" /\ disk[w.name] = Append(w.content, "N")
    <3>1. m # l
      BY <1>3, <2>1, <2>2
    <3>2. job'[m] = job[m] /\ up'[m] = up[m]
      BY <1>1, <1>2, <1>3, <3>1 DEF Become
    <3>3. QED BY <2>1, <2>2, <3>2 DEF Intact, At
  <2>3. disk[w.name] = Append(w.content, "N") \/ \A f \in files' : f.name # w.name
    <3>1. CASE u.ctx = w.name
      BY <2>1, <3>1 DEF Intact
    <3>2. CASE u.ctx # w.name
      BY <1>1, <2>1, <3>2 DEF Intact
    <3>3. QED BY <3>1, <3>2
  <2>4. QED BY <1>1, <2>1, <2>2, <2>3 DEF Intact, At
<1>7. QED BY <1>1, <1>3, <1>5, <1>6, ContentStep

LEMMA ChunkContent ==
  ASSUME FileIInv, ContentIInv, NEW l \in Loops, Chunk(l)
  PROVE  ContentIInv'
<1> DEFINE u    == up[l]
           name == IF u.ctx = 0 THEN Len(disk) + 1 ELSE u.ctx
           p    == Piece(u)
           v    == up'[l]
           new  == [name |-> name, content |-> Data(u.sent)]
           k    == IF Complete(u) THEN Go(job[l], "createFile") ELSE Reply(0)
<1>1. /\ job[l].pc = "chunk" /\ UNCHANGED files
      /\ disk' = IF u.ctx = 0 THEN Append(disk, p.add) ELSE [disk EXCEPT ![name] = @ \o p.add]
      /\ up' = [up EXCEPT ![l].ctx = name, ![l].state = p.state, ![l].body = <<>>, ![l].torn = Spoils(u)]
      /\ whole' = IF Complete(u) /\ ~Spoils(u) THEN whole \cup {new} ELSE whole
      /\ Become(l, k)
  BY Zenon DEF Chunk, At, Piece, Complete, Spoils, database
<1>2. /\ up \in [Loops -> Uploads] /\ u \in Uploads /\ IsJob(job[l]) /\ DOMAIN job = Loops
      /\ disk \in Seq(Content \cup {Absent}) /\ Len(disk) \in Nat
  BY LenProperties DEF FileIInv, TypeInv
<1>3. /\ v.ctx # 0 /\ v.ctx \in 1..Len(disk') /\ Len(disk) <= Len(disk')
      /\ \A i \in 1..Len(disk) : i # v.ctx => disk'[i] = disk[i]
  BY ChunkWrites
<1>4. p.add \in Content
  BY <1>2, FirstTyped, LaterTyped DEF Piece, Uploads
<1> HIDE DEF p, k
<1>5. /\ v.sent = u.sent /\ v.todo = u.todo /\ v.body = <<>> /\ v.ctx = name
      /\ v.state = p.state /\ v.torn = Spoils(u)
      /\ \A m \in Loops \ {l} : up'[m] = up[m]
  <2> HIDE DEF name
  <2>1. QED BY <1>1, <1>2 DEF Uploads
<1>6. disk'[v.ctx] = IF u.ctx = 0 THEN p.add ELSE disk[u.ctx] \o p.add
  <2>1. CASE u.ctx = 0
    <3>1. disk' = Append(disk, p.add) /\ v.ctx = Len(disk) + 1 /\ p.add \in Content \cup {Absent}
      BY <1>1, <1>4, <1>5, <2>1
    <3>2. QED BY <1>2, <2>1, <3>1, AppendProperties
  <2>2. CASE u.ctx # 0
    <3> DEFINE text == disk[u.ctx] \o p.add
    <3>1. u.ctx \in 1..Len(disk) /\ disk[u.ctx] \in Content
      BY <2>2 DEF FileIInv, UploadInv
    <3>2. disk' = [disk EXCEPT ![u.ctx] = text] /\ v.ctx = u.ctx
      BY <1>1, <1>5, <2>2
    <3>3. text \in Content \cup {Absent}
      BY <1>4, <3>1, ConcatProperties DEF Content
    <3> HIDE DEF text
    <3>4. disk'[u.ctx] = text
      BY <1>2, <3>1, <3>2, <3>3, ExceptSeq
    <3>5. QED BY <2>2, <3>2, <3>4 DEF text
  <2>3. QED BY <2>1, <2>2
<1>7. Written(u, FALSE, disk)
  <2>1. Written(u, job[l].pc = "createFile", disk)
    BY DEF ContentIInv, At
  <2>2. QED BY <1>1, <2>1
<1>8. Written(v, Complete(u), disk') /\ (Complete(u) /\ ~Spoils(u) => disk'[v.ctx] = UpToEnd(u.sent))
  <2> HIDE DEF u, v, name
  <2>1. Follows(u, disk, v, disk')
    BY <1>3, <1>5, <1>6 DEF p, Follows
  <2>2. QED BY <1>2, <1>7, <2>1, PieceWritten
<1>9. Written(v, k.pc = "createFile", disk')
  <2>1. Complete(u) \in BOOLEAN /\ (k.pc = "createFile" <=> Complete(u))
    BY <1>2, GoTyped, ReplyTyped DEF k, Complete
  <2>2. (k.pc = "createFile") = Complete(u)
    BY <2>1, Zenon
  <2>3. QED BY <1>8, <2>2
<1>10. \A m \in Loops \ {l} : up[m].ctx # v.ctx
  <2>1. TAKE m \in Loops \ {l}
  <2>2. CASE u.ctx = 0
    <3>1. v.ctx = Len(disk) + 1
      BY <1>5, <2>2
    <3>2. up[m].ctx = 0 \/ up[m].ctx \in 1..Len(disk)
      BY DEF FileIInv, UploadInv
    <3>3. QED BY <1>2, <3>1, <3>2
  <2>3. CASE u.ctx # 0
    BY <1>5, <2>3 DEF FileIInv, UploadInv
  <2>4. QED BY <2>2, <2>3
<1>11. \A m \in Loops \ {l} : up[m].ctx # 0 => disk'[up[m].ctx] = disk[up[m].ctx]
  <2>1. TAKE m \in Loops \ {l}
  <2>2. up[m].ctx # 0 => up[m].ctx \in 1..Len(disk)
    BY DEF FileIInv, UploadInv
  <2>3. QED BY <1>3, <1>10, <2>2
<1>12. job'[l] = k /\ \A m \in Loops \ {l} : job'[m] = job[m]
  BY <1>1, <1>2 DEF Become
<1>13. ASSUME NEW w \in whole PROVE Intact(w)'
  <2>1. Intact(w) /\ w.name \in 1..Len(disk)
    BY DEF ContentIInv, Intact
  <2>2. w.name # v.ctx
    BY <1>1, <1>2, <1>5, <2>1 DEF Intact, At
  <2>3. disk'[w.name] = disk[w.name] /\ w.name \in 1..Len(disk')
    BY <1>2, <1>3, <2>1, <2>2
  <2>4. ASSUME NEW m \in Loops, up'[m].ctx = w.name
        PROVE  job'[m].pc = "createFile" /\ disk[w.name] = Append(w.content, "N")
    <3>1. m # l
      BY <2>2, <2>4
    <3>2. job'[m] = job[m] /\ up'[m] = up[m]
      BY <1>5, <1>12, <3>1
    <3>3. QED BY <2>1, <2>4, <3>2 DEF Intact, At
  <2>5. QED BY <1>1, <2>1, <2>3, <2>4 DEF Intact, At
<1>14. ASSUME NEW w, w = new, Complete(u), ~Spoils(u) PROVE Intact(w)'
  <2>1. w.name = v.ctx /\ UpToEnd(u.sent) = Append(w.content, "N")
    <3>1. w.name = v.ctx /\ w.content = Data(u.sent)
      BY <1>5, <1>14
    <3>2. u.sent \in Content /\ OnePart(u.sent)
      BY <1>2, <1>14 DEF Spoils, Uploads
    <3>3. UpToEnd(u.sent) = Append(Data(u.sent), "N")
      BY <3>2, EndsWithLine
    <3>4. QED BY <3>1, <3>3
  <2>2. disk'[v.ctx] = UpToEnd(u.sent) /\ v.ctx \in 1..Len(disk')
    BY <1>3, <1>8, <1>14
  <2>3. ASSUME NEW m \in Loops, up'[m].ctx = v.ctx PROVE job'[m].pc = "createFile"
    <3>1. m = l
      BY <1>5, <1>10, <2>3
    <3>2. k.pc = "createFile"
      BY <1>2, <1>14, GoTyped DEF k
    <3>3. QED BY <1>12, <3>1, <3>2
  <2> HIDE DEF v
  <2>4. QED BY <2>1, <2>2, <2>3 DEF Intact, At
<1>15. ASSUME NEW w \in whole' PROVE Intact(w)'
  <2>1. w \in whole \/ (Complete(u) /\ ~Spoils(u) /\ w = new)
    BY <1>1
  <2>2. QED BY <1>13, <1>14, <2>1
<1>16. QED BY <1>1, <1>5, <1>9, <1>11, <1>15, ContentStep

LEMMA BeginUploadContent ==
  ASSUME FileIInv, ContentIInv, NEW l \in Loops, BeginUpload(l)
  PROVE  ContentIInv'
<1>1. PICK s \in Sessions, b \in mix.bodies :
        up' = [up EXCEPT ![l].sess = s, ![l].sent = b, ![l].todo = b]
  BY DEF BeginUpload
<1>2. up[l] = NoUpload /\ UNCHANGED <<files, disk, job, whole>>
  BY DEF BeginUpload, database
<1>3. b \in Content /\ b \in Seq(Units) /\ up \in [Loops -> Uploads] /\ DOMAIN job = Loops
  BY FileServiceAssumption DEF FileIInv, TypeInv, Content
<1>4. /\ up'[l].sent = b /\ up'[l].todo = b /\ up'[l].body = <<>> /\ up'[l].ctx = 0
      /\ \A m \in Loops \ {l} : up'[m] = up[m]
  BY <1>1, <1>2, <1>3 DEF NoUpload
<1>5. ASSUME NEW over PROVE Written(up'[l], over, disk')
  <2>1. <<>> \o b = b /\ From(b, 0 + 1) = b /\ 0 \in 0..Len(b)
    <3>1. <<>> \o b = b
      BY <1>3, ConcatEmptySeq
    <3>2. Len(b) \in Nat
      BY <1>3, LenProperties
    <3>3. From(b, 0 + 1) = b
      <4>1. SubSeq(b, 1, Len(b)) = b
        BY <1>3, SubSeqFull
      <4>2. QED BY <4>1 DEF From
    <3>4. QED BY <3>1, <3>2, <3>3
  <2>2. 0 \in 0..Len(up'[l].sent) /\ up'[l].body \o up'[l].todo = From(up'[l].sent, 0 + 1)
    BY <1>4, <2>1
  <2>3. QED BY <1>4, <2>2 DEF Written
<1>6. Become(l, job[l])
  BY <1>2, SameJob
<1>7. ASSUME NEW w \in whole' PROVE Intact(w)'
  <2>1. Intact(w) /\ w.name # 0
    BY <1>2 DEF ContentIInv, Intact
  <2>2. \A m \in Loops : up'[m].ctx = w.name => up[m].ctx = w.name
    BY <1>4, <2>1
  <2>3. QED BY <1>2, <2>1, <2>2 DEF Intact, At
<1>8. Written(up'[l], job[l].pc = "createFile", disk')
  BY <1>5
<1>9. \A m \in Loops \ {l} : up'[m] = up[m] /\ (up[m].ctx # 0 => disk'[up[m].ctx] = disk[up[m].ctx])
  BY <1>2, <1>4
<1>10. QED BY <1>6, <1>7, <1>8, <1>9, ContentStep

(* A segment goes from what is to come to what has come. *)
LEMMA ReceiveContent ==
  ASSUME FileIInv, ContentIInv, NEW l \in Loops, NEW k \in 1..Len(up[l].todo), Receive(l, k)
  PROVE  ContentIInv'
<1> DEFINE u    == up[l]
           head == SubSeq(u.todo, 1, k)
           body == u.body \o head
           todo == SubSeq(u.todo, k + 1, Len(u.todo))
           v    == [u EXCEPT !.body = body, !.todo = todo]
           r    == Request("upload", u.sess, None, 0, 0, "none", None, FALSE)
<1>1. /\ up \in [Loops -> Uploads] /\ u \in Uploads /\ u.body \in Seq(Units) /\ u.todo \in Seq(Units)
      /\ DOMAIN job = Loops /\ u.sess \in Sessions \cup {None}
  BY DEF FileIInv, TypeInv, Uploads, Content
<1>2. /\ up' = [up EXCEPT ![l].body = body, ![l].todo = todo]
      /\ UNCHANGED <<files, disk, whole>> /\ job[l].pc = "done"
      /\ Become(l, r) \/ UNCHANGED job
  BY DEF Receive, Idle, database
<1>3. body \o todo = u.body \o u.todo
  <2>1. Len(u.todo) \in Nat /\ k \in Nat /\ k <= Len(u.todo)
    BY <1>1, LenProperties
  <2>2. head \in Seq(Units) /\ todo \in Seq(Units) /\ head \o todo = u.todo
    BY <1>1, <2>1, Cut
  <2> DEFINE a == u.body
  <2>3. a \in Seq(Units)
    BY <1>1
  <2> HIDE DEF head, todo, a
  <2>4. (a \o head) \o todo = a \o (head \o todo)
    <3>1. head \in Seq(Units) /\ todo \in Seq(Units)
      BY <2>2
    <3>2. Associates(Units, a, head, todo)
      BY <2>3, <3>1, Associate
    <3>3. QED BY <3>2 DEF Associates
  <2>5. QED BY <2>2, <2>4 DEF a
<1> HIDE DEF body, todo
<1>4. /\ up'[l] = v /\ v.sent = u.sent /\ v.body = body /\ v.todo = todo /\ v.ctx = u.ctx
      /\ v.torn = u.torn /\ v.state = u.state
      /\ \A m \in Loops \ {l} : up'[m] = up[m]
  BY <1>1, <1>2 DEF Uploads
<1>5. PICK j : Become(l, j) /\ j.pc # "createFile"
  <2>1. CASE Become(l, r)
    <3>1. r.pc \in {"code", "account", "logout", "auth"}
      BY <1>1, RequestTyped
    <3> HIDE DEF r
    <3>2. QED BY <2>1, <3>1
  <2>2. CASE UNCHANGED job
    BY <1>2, <2>2, SameJob
  <2>3. QED BY <1>2, <2>1, <2>2
<1>6. Written(v, FALSE, disk)
  <2>1. Written(u, job[l].pc = "createFile", disk)
    BY DEF ContentIInv, At
  <2>2. Written(u, FALSE, disk)
    BY <1>2, <2>1
  <2> HIDE DEF u, v
  <2>3. QED BY <1>3, <1>4, <2>2 DEF Written
<1>7. Written(up'[l], j.pc = "createFile", disk')
  <2>1. (j.pc = "createFile") = FALSE
    BY <1>5
  <2> HIDE DEF v
  <2>2. QED BY <1>2, <1>4, <1>6, <2>1
<1>8. ASSUME NEW w \in whole' PROVE Intact(w)'
  <2>1. Intact(w)
    BY <1>2 DEF ContentIInv
  <2>2. ASSUME NEW m \in Loops, up'[m].ctx = w.name
        PROVE  job'[m].pc = "createFile" /\ disk[w.name] = Append(w.content, "N")
    <3>1. up[m].ctx = w.name
      <4> HIDE DEF v
      <4>1. QED BY <1>4, <2>2
    <3>2. job[m].pc = "createFile" /\ disk[w.name] = Append(w.content, "N")
      BY <2>1, <3>1 DEF Intact, At
    <3>3. job'[m] = job[m]
      BY <1>1, <1>2, <1>5, <3>2 DEF Become
    <3>4. QED BY <3>2, <3>3
  <2>3. QED BY <1>2, <2>1, <2>2 DEF Intact, At
<1>9. \A m \in Loops \ {l} : up'[m] = up[m] /\ (up[m].ctx # 0 => disk'[up[m].ctx] = disk[up[m].ctx])
  BY <1>2, <1>4
<1>10. QED BY <1>5, <1>7, <1>8, <1>9, ContentStep

LEMMA EnvironmentContent ==
  ASSUME FileIInv, ContentIInv, Environment
  PROVE  ContentIInv'
<1>1. ASSUME NEW l \in Loops, Arrive(l) PROVE ContentIInv'
  <2>1. PICK op : Ask(l, op)
    BY <1>1 DEF Arrive
  <2>2. PICK j : Become(l, j) /\ j.pc \in {"code", "account", "logout", "auth"}
    BY <2>1, AskTyped
  <2>3. UNCHANGED <<disk, whole, files, up>> /\ job[l].pc = "done"
    BY <1>1 DEF Arrive, Idle, database
  <2>4. j.pc # "createFile" /\ job[l].pc # "createFile" /\ files' \subseteq files
    BY <2>2, <2>3
  <2>5. QED BY <2>2, <2>3, <2>4, ContentLoop
<1>2. ASSUME NEW l \in Loops, Disconnect(l) PROVE ContentIInv'
  <2>1. UNCHANGED <<disk, whole, files, job>> /\ job[l].pc = "done" /\ up' = [up EXCEPT ![l] = NoUpload]
    BY <1>2 DEF Disconnect, Idle, database
  <2>2. Become(l, job[l]) /\ job[l].pc # "createFile"
    BY <2>1, SameJob
  <2>3. QED BY <2>1, <2>2, ContentLoop
<1>3. CASE Crash
  BY <1>3, ContentQuiet DEF Crash, database
<1>4. ASSUME NEW s \in Sessions, ExpireSession(s) PROVE ContentIInv'
  BY <1>4, ContentQuiet DEF ExpireSession
<1>5. ASSUME NEW c \in shares, ExpireShare(c) PROVE ContentIInv'
  BY <1>5, ContentQuiet DEF ExpireShare
<1>6. QED BY <1>1, <1>2, <1>3, <1>4, <1>5, BeginUploadContent, ReceiveContent DEF Environment

LEMMA StepContent == FileIInv /\ AccessIInv /\ ContentIInv /\ [Next]_vars => ContentIInv'
<1> SUFFICES ASSUME FileIInv, AccessIInv, ContentIInv, [Next]_vars PROVE ContentIInv'
  OBVIOUS
<1>1. CASE UNCHANGED vars
  BY <1>1, ContentQuiet DEF vars, database
<1>2. ASSUME NEW l \in Loops, LoopStep(l) PROVE ContentIInv'
  BY <1>2, QueryContent, StatementContent, CreateFileContent, ChunkContent, UnlinkContent DEF LoopStep
<1>3. QED BY <1>1, <1>2, EnvironmentContent DEF Next

LEMMA InitContent == Init => ContentIInv
<1> SUFFICES ASSUME Init PROVE ContentIInv
  OBVIOUS
<1>1. whole = {} /\ \A l \in Loops : up[l] = NoUpload
  BY DEF Init
<1>2. QED BY <1>1, NoUploadWritten DEF ContentIInv

LEMMA ContentInvariant == Spec => []ContentIInv
BY InitContent, StepContent, FileInvariant, AccessInvariant, PTL DEF Spec

(* A file with a row that was put together from pieces of any size, none cut *)
(* in a delimiter, holds the data of the part, and after it at most the line  *)
(* end that begins the delimiter: handleUpload and the states of              *)
(* FileUploadContext (FileHandler.cpp), whatever the other loops do.          *)
THEOREM Uploaded == Spec => []UploadKeepsData
<1>1. ContentIInv => UploadKeepsData
  BY DEF ContentIInv, Intact, UploadKeepsData
<1>2. QED BY <1>1, ContentInvariant, PTL

=============================================================================
