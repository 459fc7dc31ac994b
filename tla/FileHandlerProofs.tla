------------------------- MODULE FileHandlerProofs -------------------------
(***************************************************************************)
(* Proofs, for any goroutines, names and calls and files of any length,    *)
(* that the file handler implements FileStore: every file behaves like a   *)
(* variable that calls read and change at one moment.                      *)
(*                                                                         *)
(* It rests on three facts, which the inductive invariant IInv says: who   *)
(* has a file open that is a name's holds the name's lock, alone or among  *)
(* readers (Exclusion, PlaceOK, OpenOK); an inode never gets another name, *)
(* so that the lock of a name protects what CreateIfNotExists and          *)
(* DeleteAll take away from under it without the lock (OwnInodes); and     *)
(* what a call has written or read so far is a prefix: of its data, behind *)
(* what it found (WriterOK), and of the file (ReaderOK).                   *)
(*                                                                         *)
(* First comes what each call of the file system does to names and inodes, *)
(* then that a goroutine's step leaves the other calls' facts alone        *)
(* (FrameControl, FrameData, CallFrame) and establishes its own            *)
(* (...CallOK), then the refinement: the mapping read name by name         *)
(* (FilesSeen) and call by call, and a lemma per step of the handler       *)
(* (...Steps) which names the step of FileStore that it is, or that it is  *)
(* none (Quiet).                                                           *)
(***************************************************************************)
EXTENDS FileHandler, SequenceTheorems, TLAPS

----------------------------------------------------------------------------
(* The inductive invariant. *)

Shape ==
  /\ DOMAIN call = Procs
  /\ DOMAIN pre = Procs /\ \A p \in Procs : pre[p] \in Seq(Nat) \cup {None}

\* No two names lead to one inode.
OwnInodes == \A n \in Names : node[n] # None => node[n][1] = n

\* The locker at work: who holds the lock of a name, holds it alone, or all read.
Exclusion ==
  \A p, q \in Procs :
    p # q /\ Holds(p) /\ Holds(q) /\ Name(p) = Name(q) => Op(p) \in Readers /\ Op(q) \in Readers

\* Which operations come by a place.
PlaceOK(p) ==
  /\ pc[p] \in {"lock", "open", "close"} => Op(p) \in Locked
  /\ pc[p] \in {"mkdir", "create"} => Op(p) = "copy"
  /\ pc[p] = "io" => Op(p) \in {"write", "append"} \cup Readers
  /\ pc[p] \in {"stat", "excl"} => Op(p) = "create"
  /\ pc[p] \in {"list", "unlink"} => Op(p) = "deleteall"
  /\ pc[p] = "mkbase" => Op(p) = "new"
  /\ pc[p] \in {"close", "done"} => res[p] \in {"ok", "err"}

\* When a call has its file open, and that it is an inode of its name.  Without one only
\* Copy succeeds.
OpenOK(p) ==
  /\ pc[p] \in {"create", "io"} => fd[p] # None
  /\ fd[p] # None => /\ pc[p] \in {"create", "io", "close"}
                     /\ Op(p) \in Writers \cup Readers
                     /\ fd[p][1] = Name(p)
  /\ fd[p] = None => off[p] = 0 /\ (pc[p] # "done" => got[p] = None)
  /\ fd[p] = None /\ pc[p] = "close" /\ res[p] = "ok" => Op(p) = "copy"

\* What a writer has open is what it found and as much of its data as it has written.
WriterOK(p) ==
  fd[p] # None /\ Op(p) \in Writers =>
    /\ pre[p] \in Seq(Nat)
    /\ Op(p) = "clear" => pc[p] = "close" /\ res[p] = "ok" /\ data[fd[p]] = <<>>
    /\ Op(p) # "clear" =>
         /\ off[p] <= Len(call[p].data)
         /\ pc[p] = "io" => off[p] < Len(call[p].data)
         /\ pc[p] = "close" /\ res[p] = "ok" => off[p] = Len(call[p].data)
    /\ Op(p) = "write" => data[fd[p]] = SubSeq(call[p].data, 1, off[p])
    /\ Op(p) = "append" => data[fd[p]] = pre[p] \o SubSeq(call[p].data, 1, off[p])

\* What a reader has read is the beginning of what it has open, in the end all of it.
ReaderOK(p) ==
  fd[p] # None /\ Op(p) \in Readers =>
    /\ got[p] \in Seq(Nat)
    /\ Len(got[p]) <= Len(data[fd[p]])
    /\ \A k \in 1..Len(got[p]) : got[p][k] = data[fd[p]][k]
    /\ pc[p] = "close" /\ res[p] = "ok" => got[p] = data[fd[p]]

CallOK(p) == PlaceOK(p) /\ OpenOK(p) /\ WriterOK(p) /\ ReaderOK(p)

IInv ==
  /\ TypeOK /\ Shape /\ OwnInodes /\ Exclusion
  /\ \A p \in Procs : CallOK(p)

----------------------------------------------------------------------------
(* The file system's calls, name by name and inode by inode. *)

\* There is an inode for a new file.
LEMMA NewInodeExists ==
  ASSUME HandlerAssumption, SparesAssumption, TypeOK, OwnInodes,
         NEW n \in Names, node[n] = None
  PROVE  /\ NewInode(n) \in Inodes /\ NewInode(n)[1] = n
         /\ \A m \in Names : node[m] # NewInode(n)
         /\ \A p \in Procs : fd[p] # NewInode(n)
<1> DEFINE f == [p \in Procs |-> IF fd[p] # None THEN fd[p][2] ELSE None]
<1>1. f \in [Procs -> Spares \cup {None}]
  BY DEF TypeOK, Inodes
<1>2. PICK s \in Spares : \A p \in Procs : f[p] # s
  BY <1>1 DEF SparesAssumption
<1>3. <<n, s>> \in {n} \X Spares /\ <<n, s>> # None
  BY DEF HandlerAssumption
<1>4. ~Linked(<<n, s>>)
  BY <1>3 DEF Linked, OwnInodes, TypeOK
<1>5. ~OpenBy(Procs, <<n, s>>)
  BY <1>2, <1>3 DEF OpenBy
<1>6. /\ NewInode(n) \in {n} \X Spares
      /\ ~Linked(NewInode(n)) /\ ~OpenBy(Procs, NewInode(n))
  BY <1>3, <1>4, <1>5 DEF NewInode
<1> QED
  BY <1>6 DEF Linked, OpenBy, Inodes

\* An open with O_CREATE leaves n with an inode of its own, new to everyone if n had none.
LEMMA OpenOrCreateDoes ==
  ASSUME HandlerAssumption, SparesAssumption, TypeOK, OwnInodes,
         NEW n \in Names, NEW i \in Inodes, NEW trunc,
         OpenOrCreate(n, i, trunc)
  PROVE  /\ dir /\ i # None /\ i[1] = n
         /\ node[n] # None => i = node[n]
         /\ node[n] = None => \A p \in Procs : fd[p] # i
         /\ DOMAIN node' = Names /\ \A m \in Names : node'[m] = IF m = n THEN i ELSE node[m]
         /\ DOMAIN data' = Inodes
         /\ \A j \in Inodes : data'[j] = IF j = i /\ (trunc \/ node[n] = None)
                                         THEN <<>> ELSE data[j]
<1>1. i # None
  BY DEF HandlerAssumption, Inodes
<1>2. i[1] = n /\ (node[n] = None => \A p \in Procs : fd[p] # i)
  BY NewInodeExists DEF OpenOrCreate, OwnInodes
<1> QED
  BY <1>1, <1>2 DEF OpenOrCreate, TypeOK

\* Name n leads to i, an empty inode of its own, new to everyone if n had none.
MadeEmpty(n, i) ==
  /\ dir /\ i # None /\ i[1] = n
  /\ node[n] = None => \A p \in Procs : fd[p] # i
  /\ DOMAIN node' = Names /\ \A m \in Names : node'[m] = IF m = n THEN i ELSE node[m]
  /\ DOMAIN data' = Inodes
  /\ \A j \in Inodes : data'[j] = IF j = i THEN <<>> ELSE data[j]

\* So it does after os.Create, and after CreateIfNotExists has made a file.
LEMMA CreateDoes ==
  ASSUME HandlerAssumption, SparesAssumption, TypeOK, OwnInodes,
         NEW n \in Names, NEW i \in Inodes,
         OpenOrCreate(n, i, TRUE) \/ (OpenOrCreate(n, i, FALSE) /\ node[n] = None)
  PROVE  MadeEmpty(n, i)
<1>1. i # None
  BY DEF HandlerAssumption, Inodes
<1>2. i[1] = n /\ (node[n] = None => \A p \in Procs : fd[p] # i)
  BY NewInodeExists DEF OpenOrCreate, OwnInodes
<1> QED
  BY <1>1, <1>2 DEF OpenOrCreate, TypeOK, MadeEmpty

\* An unlink takes the name away, and the data if nobody has them open.
LEMMA UnlinkDoes ==
  ASSUME TypeOK, NEW n \in Names, Unlink(n)
  PROVE  /\ node[n] # None
         /\ DOMAIN node' = Names /\ \A m \in Names : node'[m] = IF m = n THEN None ELSE node[m]
         /\ DOMAIN data' = Inodes
         /\ \A j \in Inodes : data'[j] = IF j = node[n] /\ ~OpenBy(Procs, j)
                                         THEN <<>> ELSE data[j]
BY DEF Unlink, TypeOK

----------------------------------------------------------------------------
(* What a step of one goroutine leaves alone. *)

\* A call on a file has one.
LEMMA NameIsName ==
  ASSUME HandlerAssumption, TypeOK, NEW p \in Procs,
         pc[p] # "idle", Op(p) \notin {"deleteall", "new"}
  PROVE  Name(p) \in Names
BY DEF HandlerAssumption, TypeOK, Name, Op

\* Nobody reads or writes what is copied to.
LEMMA TargetApart ==
  ASSUME HandlerAssumption, TypeOK, NEW p \in Procs, pc[p] # "idle", Op(p) = "copy",
         NEW q \in Procs, pc[q] # "idle", Op(q) \in Writers \cup Readers
  PROVE  call[p].to \in Names /\ Name(q) # call[p].to
BY DEF HandlerAssumption, TypeOK, Name, Op

\* Its own call apart, no step changes where a call is and what it has.
LEMMA FrameControl ==
  ASSUME TypeOK, Shape,
         NEW p \in Procs, Begin(p) \/ Acquire(p) \/ Step(p), NEW q \in Procs, q # p
  PROVE  /\ pc'[q] = pc[q] /\ call'[q] = call[q] /\ fd'[q] = fd[q] /\ off'[q] = off[q]
         /\ got'[q] = got[q] /\ res'[q] = res[q] /\ pre'[q] = pre[q]
<1> USE DEF TypeOK, Shape, fsVars, ioVars, Goto, Settle, Done
<1>1. CASE Begin(p) \/ Acquire(p) \/ Finish(p) \/ Return(p) \/ Fail(p)
  BY <1>1 DEF Begin, Acquire, Finish, Return, Fail
<1>2. CASE OpenToWrite(p) \/ WriteChunk(p) \/ RemoveFile(p)
  BY <1>2 DEF OpenToWrite, WriteChunk, RemoveFile
<1>3. CASE OpenToRead(p) \/ OpenAbsent(p) \/ ReadChunk(p) \/ EndOfFile(p)
  BY <1>3 DEF OpenToRead, OpenAbsent, ReadChunk, EndOfFile
<1>4. CASE MakeTargetDir(p) \/ CreateTarget(p) \/ StatFile(p) \/ CreateExclusive(p)
  BY <1>4 DEF MakeTargetDir, CreateTarget, StatFile, CreateExclusive
<1>5. CASE ListDir(p) \/ UnlinkNext(p) \/ RemoveDir(p) \/ MakeBase(p)
  BY <1>5 DEF ListDir, UnlinkNext, RemoveDir, MakeBase
<1> QED
  BY <1>1, <1>2, <1>3, <1>4, <1>5 DEF Step

\* Nobody else has the file of a writer's name open.
LEMMA OpenAlone ==
  ASSUME IInv, NEW p \in Procs, Holds(p), Op(p) \notin Readers,
         NEW q \in Procs, q # p, fd[q] # None
  PROVE  fd[q][1] # Name(p)
BY DEF IInv, CallOK, OpenOK, Exclusion, Holds, Locked

\* What one goroutine has open, no other changes.
LEMMA FrameData ==
  ASSUME HandlerAssumption, SparesAssumption, IInv,
         NEW p \in Procs, Begin(p) \/ Acquire(p) \/ Step(p),
         NEW q \in Procs, q # p, fd[q] # None
  PROVE  data'[fd[q]] = data[fd[q]]
<1>1. fd[q] \in Inodes /\ Op(q) \in Writers \cup Readers /\ fd[q][1] = Name(q)
  BY DEF IInv, TypeOK, CallOK, OpenOK
<1>2. CASE UNCHANGED data
  BY <1>2
<1>3. CASE Finish(p)
  BY <1>1, <1>3 DEF Finish, OpenBy
<1>4. CASE OpenToWrite(p)
  <2>1. Holds(p) /\ Op(p) \notin Readers /\ Name(p) \in Names
    BY <1>4, NameIsName DEF OpenToWrite, Holds, Locked, Readers, Writers, IInv
  <2>2. PICK i \in Inodes : OpenOrCreate(Name(p), i, Op(p) # "append")
    BY <1>4 DEF OpenToWrite
  <2>3. i[1] = Name(p)
    BY <2>1, <2>2, OpenOrCreateDoes DEF IInv
  <2>4. fd[q] # i
    BY <2>1, <2>3, OpenAlone
  <2> QED
    BY <1>1, <2>1, <2>2, <2>4, OpenOrCreateDoes DEF IInv
<1>5. CASE WriteChunk(p)
  <2>1. fd[p][1] = Name(p) /\ Holds(p) /\ Op(p) \notin Readers
    BY <1>5 DEF WriteChunk, IInv, CallOK, OpenOK, Holds, Locked, Readers, Writers
  <2>2. fd[q] # fd[p]
    BY <2>1, OpenAlone
  <2> QED
    BY <1>1, <1>5, <2>2 DEF WriteChunk, IInv, TypeOK
<1>6. ASSUME NEW n \in Names, Unlink(n)
      PROVE  data'[fd[q]] = data[fd[q]]
  BY <1>1, <1>6, UnlinkDoes DEF IInv, OpenBy
<1>7. CASE RemoveFile(p)
  <2>1. Name(p) \in Names
    BY <1>7, NameIsName DEF RemoveFile, IInv
  <2> QED
    BY <1>2, <1>6, <1>7, <2>1 DEF RemoveFile
<1>8. CASE CreateTarget(p)
  <2>1. call[p].to \in Names /\ Name(q) # call[p].to
    BY <1>1, <1>8, TargetApart DEF CreateTarget, IInv, CallOK, PlaceOK, OpenOK
  <2>2. PICK i \in Inodes : OpenOrCreate(call[p].to, i, TRUE)
    BY <1>8 DEF CreateTarget
  <2>3. MadeEmpty(call[p].to, i)
    <3>1. TypeOK /\ OwnInodes
      BY DEF IInv
    <3> QED
      BY <2>1, <2>2, <3>1, CreateDoes
  <2> QED
    BY <1>1, <2>1, <2>3 DEF MadeEmpty
<1>9. CASE CreateExclusive(p)
  <2>1. Name(p) \in Names
    BY <1>9, NameIsName DEF CreateExclusive, IInv, CallOK, PlaceOK
  <2>2. ASSUME NEW i \in Inodes, OpenOrCreate(Name(p), i, FALSE), node[Name(p)] = None
        PROVE  data'[fd[q]] = data[fd[q]]
    <3>1. TypeOK /\ OwnInodes
      BY DEF IInv
    <3>2. MadeEmpty(Name(p), i)
      BY <2>1, <2>2, <3>1, CreateDoes
    <3> QED
      BY <1>1, <2>2, <3>2 DEF MadeEmpty
  <2> QED
    BY <1>2, <1>9, <2>2 DEF CreateExclusive
<1>10. CASE UnlinkNext(p)
  BY <1>2, <1>6, <1>10 DEF UnlinkNext, IInv, TypeOK
<1>11. CASE Begin(p) \/ Acquire(p) \/ Return(p) \/ Fail(p) \/ OpenToRead(p) \/ OpenAbsent(p)
  BY <1>11 DEF Begin, Acquire, Return, Fail, OpenToRead, OpenAbsent, fsVars
<1>12. CASE ReadChunk(p) \/ EndOfFile(p) \/ MakeTargetDir(p) \/ StatFile(p)
  BY <1>12 DEF ReadChunk, EndOfFile, MakeTargetDir, StatFile, fsVars
<1>13. CASE ListDir(p) \/ RemoveDir(p) \/ MakeBase(p)
  BY <1>13 DEF ListDir, RemoveDir, MakeBase, fsVars
<1> QED
  BY <1>3, <1>4, <1>5, <1>7, <1>8, <1>9, <1>10, <1>11, <1>12, <1>13 DEF Step

\* So the invariant of the others' calls is kept.
LEMMA CallFrame ==
  ASSUME NEW q \in Procs, CallOK(q),
         pc'[q] = pc[q], call'[q] = call[q], fd'[q] = fd[q], off'[q] = off[q],
         got'[q] = got[q], res'[q] = res[q], pre'[q] = pre[q],
         fd[q] # None => data'[fd[q]] = data[fd[q]]
  PROVE  CallOK(q)'
<1>1. PlaceOK(q)' /\ OpenOK(q)'
  BY DEF CallOK, PlaceOK, OpenOK, Op, Name
<1>2. WriterOK(q)' /\ ReaderOK(q)'
  BY DEF CallOK, WriterOK, ReaderOK, Op
<1> QED
  BY <1>1, <1>2 DEF CallOK

----------------------------------------------------------------------------
(* Writing a chunk. *)

\* A chunk that is appended leaves those before it, and their prefixes, as they are.
LEMMA AppendPrefix ==
  ASSUME NEW s \in Seq(Nat), NEW k \in Nat, k < Len(s)
  PROVE  /\ SubSeq(s, 1, k) \in Seq(Nat) /\ Len(SubSeq(s, 1, k)) = k
         /\ Append(SubSeq(s, 1, k), s[k + 1]) = SubSeq(s, 1, k + 1)
<1>1. \A i \in 1..k : s[i] \in Nat
  BY ElementOfSeq
<1>2. SubSeq(s, 1, k) \in Seq(Nat) /\ Len(SubSeq(s, 1, k)) = k
  BY <1>1, SubSeqProperties
<1>3. s[k + 1] \in Nat
  BY ElementOfSeq
<1>4. Append(SubSeq(s, 1, k), s[k + 1]) = SubSeq(s, 1, k) \o <<s[k + 1]>>
  BY <1>2, <1>3, AppendIsConcat
<1>5. SubSeq(s, 1, k + 1) = SubSeq(s, 1, k) \o <<s[k + 1]>>
  <2>1. 1 \in 1..Len(s) /\ k + 1 \in 1..Len(s) /\ (k + 1) - 1 = k
    OBVIOUS
  <2> QED
    BY <2>1, SubSeqRecursiveSecond
<1> QED
  BY <1>2, <1>4, <1>5

\* What a writer found, and then its data up to and with the next chunk.
LEMMA AppendConcat ==
  ASSUME NEW t \in Seq(Nat), NEW s \in Seq(Nat), NEW x \in Nat
  PROVE  Append(t \o s, x) = t \o Append(s, x)
<1>1. t \o s \in Seq(Nat) /\ <<x>> \in Seq(Nat)
  BY ConcatProperties
<1>2. Append(t \o s, x) = (t \o s) \o <<x>> /\ Append(s, x) = s \o <<x>>
  BY <1>1, AppendIsConcat
<1>3. (t \o s) \o <<x>> = t \o (s \o <<x>>)
  BY <1>1, ConcatAssociative
<1> QED
  BY <1>2, <1>3

\* With or without O_APPEND, a chunk goes to the end of the file.
LEMMA WriteChunkDoes ==
  ASSUME HandlerAssumption, IInv, NEW p \in Procs, WriteChunk(p)
  PROVE  /\ fd[p] \in Inodes /\ off[p] \in Nat
         /\ call[p].data \in Seq(Nat) /\ off[p] < Len(call[p].data)
         /\ call[p].data[off[p] + 1] \in Nat
         /\ data' = [data EXCEPT ![fd[p]] = Append(@, call[p].data[off[p] + 1])]
<1>1. fd[p] \in Inodes /\ off[p] \in Nat /\ fd[p] # None /\ data[fd[p]] \in Seq(Nat)
  BY DEF WriteChunk, IInv, TypeOK, CallOK, OpenOK
<1>2. call[p].data \in Seq(Nat) /\ off[p] < Len(call[p].data)
  BY <1>1 DEF WriteChunk, IInv, TypeOK, CallOK, WriterOK, Writers, HandlerAssumption, Op
<1>3. call[p].data[off[p] + 1] \in Nat
  BY <1>1, <1>2, ElementOfSeq
<1>4. Op(p) # "append" => off[p] = Len(data[fd[p]])
  BY <1>1, <1>2, AppendPrefix DEF WriteChunk, IInv, CallOK, WriterOK, Writers
<1>5. Len(data[fd[p]]) + 1 > Len(data[fd[p]])
  BY <1>1, LenProperties
<1>6. data' = [data EXCEPT ![fd[p]] = PutAt(@, Len(data[fd[p]]) + 1, call[p].data[off[p] + 1])]
  BY <1>1, <1>4 DEF WriteChunk
<1> QED
  BY <1>1, <1>2, <1>3, <1>5, <1>6 DEF PutAt

----------------------------------------------------------------------------
(* The step of a call keeps its own part of the invariant. *)

\* A call begins with nothing open.
LEMMA BeginCallOK ==
  ASSUME HandlerAssumption, IInv, NEW p \in Procs, Begin(p)
  PROVE  CallOK(p)'
<1>1. PICK c \in Calls : call'[p] = c /\ pc'[p] = FirstPlace(c.op)
  BY DEF Begin, Goto, IInv, TypeOK, Shape
<1>2. c.op \in Ops
  BY DEF HandlerAssumption
<1>3. /\ c.op \in Locked => pc'[p] = "lock"
      /\ c.op = "create" => pc'[p] = "stat"
      /\ c.op = "deleteall" => pc'[p] = "list"
      /\ c.op = "new" => pc'[p] = "mkbase"
  BY <1>1 DEF FirstPlace, Locked, Readers, Writers
<1>4. fd'[p] = None /\ off'[p] = 0 /\ got'[p] = None
  BY DEF Begin, ioVars, IInv, CallOK, OpenOK
<1> QED
  BY <1>1, <1>2, <1>3, <1>4
     DEF CallOK, PlaceOK, OpenOK, WriterOK, ReaderOK, Op, Ops, Locked, Readers, Writers

\* It gets its lock, still with nothing open.
LEMMA AcquireCallOK ==
  ASSUME IInv, NEW p \in Procs, Acquire(p)
  PROVE  CallOK(p)'
BY DEF IInv, TypeOK, Acquire, Goto, ioVars, CallOK, PlaceOK, OpenOK, WriterOK, ReaderOK, Op, Name

\* It fails, closes its file, unlinks it, or returns.
LEMMA EndCallOK ==
  ASSUME IInv, NEW p \in Procs, Finish(p) \/ Return(p) \/ Fail(p) \/ RemoveFile(p)
  PROVE  CallOK(p)'
<1> USE DEF IInv, TypeOK, Shape, Goto, Settle, fsVars, ioVars, Op, Name
<1>1. CASE Finish(p)
  BY <1>1 DEF Finish, CallOK, PlaceOK, OpenOK, WriterOK, ReaderOK
<1>2. CASE Return(p)
  BY <1>2 DEF Return, CallOK, PlaceOK, OpenOK, WriterOK, ReaderOK
<1>3. CASE Fail(p)
  <2>1. PlaceOK(p)' /\ OpenOK(p)'
    BY <1>3 DEF Fail, CallOK, PlaceOK, OpenOK, Locked, Readers, Writers
  <2>2. WriterOK(p)'
    BY <1>3 DEF Fail, CallOK, WriterOK, PlaceOK, Readers, Writers
  <2>3. ReaderOK(p)'
    BY <1>3 DEF Fail, CallOK, ReaderOK
  <2> QED
    BY <2>1, <2>2, <2>3 DEF CallOK
<1>4. CASE RemoveFile(p)
  BY <1>4 DEF RemoveFile, CallOK, PlaceOK, OpenOK, WriterOK, ReaderOK, Readers, Writers
<1> QED
  BY <1>1, <1>2, <1>3, <1>4

\* After os.OpenFile the file is empty, or what the call found (file.go:101, 108, 160).
LEMMA OpenToWriteCallOK ==
  ASSUME HandlerAssumption, SparesAssumption, IInv, NEW p \in Procs, OpenToWrite(p)
  PROVE  CallOK(p)'
<1>1. Name(p) \in Names /\ TypeOK /\ OwnInodes /\ CallOK(p)
  BY NameIsName DEF OpenToWrite, Writers, IInv
<1>2. PICK i \in Inodes : OpenOrCreate(Name(p), i, Op(p) # "append") /\ fd'[p] = i
  BY DEF OpenToWrite, IInv, TypeOK
<1>3. /\ i # None /\ i[1] = Name(p)
      /\ node[Name(p)] # None => i = node[Name(p)]
      /\ data'[i] = IF Op(p) # "append" \/ node[Name(p)] = None THEN <<>> ELSE data[i]
  <2>1. /\ i # None /\ i[1] = Name(p)
        /\ node[Name(p)] # None => i = node[Name(p)]
    BY <1>1, <1>2, OpenOrCreateDoes
  <2>2. data'[i] = IF Op(p) # "append" \/ node[Name(p)] = None THEN <<>> ELSE data[i]
    BY <1>1, <1>2 DEF OpenOrCreate, TypeOK
  <2> QED
    BY <2>1, <2>2
<1>4. /\ pre'[p] = IF node[Name(p)] = None THEN <<>> ELSE data[node[Name(p)]]
      /\ pre'[p] \in Seq(Nat)
  BY <1>1 DEF OpenToWrite, IInv, Shape, TypeOK
<1>5. /\ pc[p] = "open" /\ call'[p] = call[p] /\ off'[p] = off[p] /\ got'[p] = got[p]
      /\ Op(p) = "clear" => pc'[p] = "close" /\ res'[p] = "ok"
      /\ Op(p) # "clear" => pc'[p] = "io"
      /\ Op(p) \in Writers
  BY <1>1 DEF OpenToWrite, Settle, Goto, TypeOK
<1>6. off[p] = 0 /\ got[p] = None
  BY <1>1, <1>5 DEF CallOK, OpenOK
<1>7. Op(p) # "clear" => call[p].data \in Seq(Nat) /\ call[p].data # <<>>
  BY <1>1, <1>5 DEF HandlerAssumption, TypeOK, Writers, Op
<1>8. Op(p) # "clear" => Len(call[p].data) > 0 /\ SubSeq(call[p].data, 1, 0) = <<>>
  BY <1>7, EmptySeq, SubSeqEmpty
<1>9. Op(p) = "append" => data'[i] = pre'[p] \o <<>>
  BY <1>3, <1>4, ConcatEmptySeq
<1>10. PlaceOK(p)' /\ OpenOK(p)'
  BY <1>2, <1>3, <1>5 DEF PlaceOK, OpenOK, Op, Name, Locked, Readers, Writers
<1>11. WriterOK(p)' /\ ReaderOK(p)'
  BY <1>2, <1>3, <1>4, <1>5, <1>6, <1>8, <1>9 DEF WriterOK, ReaderOK, Op, Readers, Writers
<1> QED
  BY <1>10, <1>11 DEF CallOK

\* One more chunk of the data is in the file, behind those before it.
LEMMA WriteChunkCallOK ==
  ASSUME HandlerAssumption, IInv, NEW p \in Procs, WriteChunk(p)
  PROVE  CallOK(p)'
<1> DEFINE s == call[p].data
           k == off[p]
<1>1. /\ fd[p] \in Inodes /\ k \in Nat /\ s \in Seq(Nat) /\ k < Len(s) /\ s[k + 1] \in Nat
      /\ data' = [data EXCEPT ![fd[p]] = Append(@, s[k + 1])]
  BY WriteChunkDoes
<1>2. /\ pc[p] = "io" /\ Op(p) \in {"write", "append"} /\ CallOK(p) /\ fd[p] # None
      /\ call' = call /\ fd' = fd /\ pre' = pre /\ got' = got /\ off'[p] = k + 1
      /\ k + 1 = Len(s) => pc'[p] = "close" /\ res'[p] = "ok"
      /\ k + 1 # Len(s) => pc'[p] = "io" /\ res'[p] = res[p]
  BY DEF WriteChunk, Settle, Goto, IInv, TypeOK, CallOK, OpenOK
<1>3. data'[fd[p]] = Append(data[fd[p]], s[k + 1])
  BY <1>1 DEF IInv, TypeOK
<1>4. Op(p) = "write" => data'[fd[p]] = SubSeq(s, 1, k + 1)
  BY <1>1, <1>2, <1>3, AppendPrefix DEF CallOK, WriterOK, Writers
<1>5. Op(p) = "append" => data'[fd[p]] = pre[p] \o SubSeq(s, 1, k + 1)
  <2> SUFFICES ASSUME Op(p) = "append" PROVE data'[fd[p]] = pre[p] \o SubSeq(s, 1, k + 1)
    OBVIOUS
  <2>1. pre[p] \in Seq(Nat) /\ data[fd[p]] = pre[p] \o SubSeq(s, 1, k)
    BY <1>2 DEF CallOK, WriterOK, Writers
  <2>2. SubSeq(s, 1, k) \in Seq(Nat) /\ Append(SubSeq(s, 1, k), s[k + 1]) = SubSeq(s, 1, k + 1)
    BY <1>1, AppendPrefix
  <2>3. Append(pre[p] \o SubSeq(s, 1, k), s[k + 1]) = pre[p] \o Append(SubSeq(s, 1, k), s[k + 1])
    BY <1>1, <2>1, <2>2, AppendConcat
  <2> QED
    BY <1>3, <2>1, <2>2, <2>3
<1>6. PlaceOK(p)' /\ OpenOK(p)'
  BY <1>2 DEF CallOK, PlaceOK, OpenOK, Op, Name, Locked, Readers, Writers
<1>7. ReaderOK(p)'
  BY <1>2 DEF ReaderOK, Op, Readers
<1>8. WriterOK(p)'
  <2>1. pre'[p] \in Seq(Nat) /\ Op(p)' = Op(p) /\ Op(p) # "clear"
    BY <1>2 DEF CallOK, WriterOK, Op, Writers
  <2>2. /\ off'[p] <= Len(s)
        /\ pc'[p] = "io" => off'[p] < Len(s)
        /\ pc'[p] = "close" => off'[p] = Len(s)
    BY <1>1, <1>2
  <2> QED
    BY <1>2, <1>4, <1>5, <2>1, <2>2 DEF WriterOK
<1> QED
  BY <1>6, <1>7, <1>8 DEF CallOK

\* After os.Open a reader has read nothing; an absent file opens nothing.
LEMMA OpenToReadCallOK ==
  ASSUME HandlerAssumption, IInv, NEW p \in Procs, OpenToRead(p) \/ OpenAbsent(p)
  PROVE  CallOK(p)'
<1>1. /\ TypeOK /\ CallOK(p) /\ pc[p] = "open" /\ Op(p) \in Readers
      /\ call'[p] = call[p] /\ off'[p] = off[p] /\ data' = data
  BY DEF OpenToRead, OpenAbsent, fsVars, ioVars, IInv
<1>2. fd[p] = None /\ off[p] = 0
  BY <1>1 DEF CallOK, OpenOK
<1>3. CASE OpenToRead(p)
  <2>1. Name(p) \in Names
    BY <1>1, NameIsName DEF Readers
  <2>2. /\ fd'[p] = node[Name(p)] /\ fd'[p] # None /\ fd'[p] \in Inodes /\ fd'[p][1] = Name(p)
        /\ got'[p] = <<>> /\ pc'[p] = IF Op(p) = "copy" THEN "create" ELSE "io"
    BY <1>1, <1>3, <2>1 DEF OpenToRead, Goto, TypeOK, IInv, OwnInodes
  <2>3. data[fd'[p]] \in Seq(Nat)
    BY <1>1, <2>2 DEF TypeOK
  <2>4. got'[p] \in Seq(Nat) /\ Len(got'[p]) = 0 /\ 0 <= Len(data[fd'[p]])
    BY <2>2, <2>3, EmptySeq, LenProperties
  <2>5. PlaceOK(p)' /\ OpenOK(p)'
    BY <1>1, <1>2, <2>2 DEF PlaceOK, OpenOK, Op, Name, Locked, Readers, Writers
  <2>6. WriterOK(p)' /\ ReaderOK(p)'
    BY <1>1, <2>2, <2>4 DEF WriterOK, ReaderOK, Op, Readers, Writers
  <2> QED
    BY <2>5, <2>6 DEF CallOK
<1>4. CASE OpenAbsent(p)
  BY <1>1, <1>2, <1>4
     DEF OpenAbsent, Settle, Goto, ioVars, TypeOK, CallOK, PlaceOK, OpenOK, WriterOK, ReaderOK,
         Op, Name, Locked, Readers, Writers
<1> QED
  BY <1>3, <1>4

\* A reader has one more chunk of the file, or has come to its end.
LEMMA ReadCallOK ==
  ASSUME IInv, NEW p \in Procs, ReadChunk(p) \/ EndOfFile(p)
  PROVE  CallOK(p)'
<1>1. /\ TypeOK /\ CallOK(p) /\ pc[p] = "io" /\ Op(p) \in Readers
      /\ call' = call /\ off' = off /\ data' = data /\ fd' = fd
  BY DEF ReadChunk, EndOfFile, fsVars, ioVars, IInv
<1>2. /\ fd[p] # None /\ fd[p] \in Inodes
      /\ got[p] \in Seq(Nat) /\ data[fd[p]] \in Seq(Nat)
      /\ Len(got[p]) <= Len(data[fd[p]])
      /\ \A k \in 1..Len(got[p]) : got[p][k] = data[fd[p]][k]
  BY <1>1 DEF CallOK, OpenOK, ReaderOK, TypeOK
<1>3. PlaceOK(p)' /\ OpenOK(p)' /\ WriterOK(p)'
  BY <1>1, <1>2 DEF ReadChunk, EndOfFile, Settle, Goto, fsVars, ioVars, TypeOK,
       CallOK, PlaceOK, OpenOK, WriterOK, Op, Name, Locked, Readers, Writers
<1>4. CASE ReadChunk(p)
  <2> DEFINE c == data[fd[p]][Len(got[p]) + 1]
  <2>1. got'[p] = Append(got[p], c) /\ Len(got[p]) < Len(data[fd[p]]) /\ pc' = pc
    BY <1>1, <1>4 DEF ReadChunk, TypeOK
  <2>2. c \in Nat
    BY <1>2, <2>1, ElementOfSeq
  <2>3. /\ got'[p] \in Seq(Nat) /\ Len(got'[p]) = Len(got[p]) + 1
        /\ \A k \in 1..Len(got[p]) : got'[p][k] = got[p][k]
        /\ got'[p][Len(got[p]) + 1] = c
    BY <1>2, <2>1, <2>2, AppendProperties
  <2>4. \A k \in 1..Len(got'[p]) : got'[p][k] = data[fd[p]][k]
    <3> SUFFICES ASSUME NEW k \in 1..Len(got'[p]) PROVE got'[p][k] = data[fd[p]][k]
      OBVIOUS
    <3>1. Len(got[p]) \in Nat
      BY <1>2, LenProperties
    <3>2. CASE k \in 1..Len(got[p])
      BY <1>2, <2>3, <3>2
    <3>3. CASE k = Len(got[p]) + 1
      BY <2>3, <3>3
    <3> QED
      BY <2>3, <3>1, <3>2, <3>3
  <2>5. ReaderOK(p)'
    BY <1>1, <1>2, <2>1, <2>3, <2>4 DEF ReaderOK, Op
  <2> QED
    BY <1>3, <2>5 DEF CallOK
<1>5. CASE EndOfFile(p)
  <2>1. got'[p] = got[p] /\ Len(got[p]) >= Len(data[fd[p]])
    BY <1>5 DEF EndOfFile, ioVars
  <2>2. got[p] = data[fd[p]]
    <3>1. Len(got[p]) = Len(data[fd[p]])
      BY <1>2, <2>1, LenProperties
    <3> QED
      BY <1>2, <3>1, SeqEqual
  <2>3. ReaderOK(p)'
    BY <1>1, <1>2, <2>1, <2>2 DEF ReaderOK, Op
  <2> QED
    BY <1>3, <2>3 DEF CallOK
<1> QED
  BY <1>4, <1>5

\* Making the destination leaves what Copy has open as it was: it is another file.
LEMMA CopyCallOK ==
  ASSUME HandlerAssumption, SparesAssumption, IInv,
         NEW p \in Procs, MakeTargetDir(p) \/ CreateTarget(p)
  PROVE  CallOK(p)'
<1>1. /\ CallOK(p) /\ pc[p] \in {"mkdir", "create"} /\ Op(p) = "copy"
      /\ call' = call /\ off' = off /\ fd' = fd /\ got' = got /\ res' = res
      /\ pc'[p] = IF pc[p] = "mkdir" THEN "open" ELSE "io"
  BY DEF MakeTargetDir, CreateTarget, Goto, ioVars, IInv, TypeOK, CallOK, PlaceOK
<1>2. fd[p] # None => pc[p] = "create"
  BY <1>1 DEF CallOK, OpenOK
<1>3. ASSUME fd[p] # None PROVE data'[fd[p]] = data[fd[p]]
  <2>1. CreateTarget(p)
    BY <1>1, <1>2, <1>3 DEF MakeTargetDir
  <2>2. PICK i \in Inodes : OpenOrCreate(call[p].to, i, TRUE)
    BY <2>1 DEF CreateTarget
  <2>3. TypeOK /\ OwnInodes /\ fd[p] \in Inodes /\ fd[p][1] = Name(p)
    BY <1>1, <1>3 DEF IInv, TypeOK, CallOK, OpenOK
  <2>4. call[p].to \in Names /\ Name(p) # call[p].to
    BY <1>1, <2>3, TargetApart DEF Readers
  <2>5. MadeEmpty(call[p].to, i)
    BY <2>2, <2>3, <2>4, CreateDoes
  <2> QED
    BY <2>3, <2>4, <2>5 DEF MadeEmpty
<1>4. PlaceOK(p)' /\ OpenOK(p)'
  BY <1>1, <1>2 DEF CallOK, PlaceOK, OpenOK, Op, Name, Locked, Readers, Writers
<1>5. WriterOK(p)' /\ ReaderOK(p)'
  BY <1>1, <1>3 DEF CallOK, WriterOK, ReaderOK, Op, Readers, Writers
<1> QED
  BY <1>4, <1>5 DEF CallOK

\* Whoever takes no lock opens nothing.
LEMMA UnlockedCallOK ==
  ASSUME IInv, NEW p \in Procs,
         StatFile(p) \/ CreateExclusive(p) \/ ListDir(p) \/ UnlinkNext(p) \/ RemoveDir(p)
           \/ MakeBase(p)
  PROVE  CallOK(p)'
<1>1. /\ CallOK(p) /\ pc[p] \in {"stat", "excl", "list", "unlink", "mkbase"}
      /\ call' = call /\ off' = off /\ fd' = fd /\ got' = got
      /\ \/ pc'[p] = "done" /\ res'[p] \in {"ok", "err"}
         \/ pc[p] = "stat" /\ pc'[p] = "excl"
         \/ pc[p] \in {"list", "unlink"} /\ pc'[p] = "unlink"
  BY DEF StatFile, CreateExclusive, ListDir, UnlinkNext, RemoveDir, MakeBase, Done, Goto, ioVars,
     IInv, TypeOK
<1>2. fd[p] = None /\ off[p] = 0
  BY <1>1 DEF CallOK, OpenOK
<1> QED
  BY <1>1, <1>2 DEF CallOK, PlaceOK, OpenOK, WriterOK, ReaderOK, Op, Name

\* Every step, of whomever, keeps what is true of every call.
LEMMA StepCallOK ==
  ASSUME HandlerAssumption, SparesAssumption, IInv,
         NEW p \in Procs, Begin(p) \/ Acquire(p) \/ Step(p),
         NEW q \in Procs
  PROVE  CallOK(q)'
<1>1. CASE q = p
  BY <1>1, BeginCallOK, AcquireCallOK, EndCallOK, OpenToWriteCallOK, WriteChunkCallOK,
     OpenToReadCallOK, ReadCallOK, CopyCallOK, UnlockedCallOK DEF Step
<1>2. CASE q # p
  <2>1. TypeOK /\ Shape /\ CallOK(q)
    BY DEF IInv
  <2> QED
    BY <1>2, <2>1, FrameControl, FrameData, CallFrame
<1> QED
  BY <1>1, <1>2

----------------------------------------------------------------------------
(* The directory, the locker and the types. *)

\* What is true of the directory, whoever uses it.
FilesOK ==
  /\ dir \in BOOLEAN
  /\ node \in [Names -> Inodes \cup {None}]
  /\ DOMAIN data = Inodes /\ \A i \in Inodes : data[i] \in Seq(Nat)
  /\ ~dir => \A n \in Names : node[n] = None
  /\ OwnInodes

\* Making or opening a file keeps the directory well-formed.
LEMMA OpenOrCreateFiles ==
  ASSUME HandlerAssumption, SparesAssumption, FilesOK, TypeOK,
         NEW n \in Names, NEW i \in Inodes, NEW trunc, OpenOrCreate(n, i, trunc), UNCHANGED dir
  PROVE  FilesOK'
<1>1. OwnInodes
  BY DEF FilesOK
<1>2. /\ dir /\ i # None /\ i[1] = n
      /\ DOMAIN node' = Names /\ \A m \in Names : node'[m] = IF m = n THEN i ELSE node[m]
  BY <1>1, OpenOrCreateDoes
<1>3. node' \in [Names -> Inodes \cup {None}] /\ OwnInodes'
  BY <1>2 DEF OpenOrCreate, FilesOK, OwnInodes
<1>4. DOMAIN data' = Inodes /\ \A j \in Inodes : data'[j] \in Seq(Nat)
  BY EmptySeq DEF OpenOrCreate, FilesOK
<1> QED
  BY <1>2, <1>3, <1>4 DEF FilesOK

\* So does unlinking one.
LEMMA UnlinkFiles ==
  ASSUME FilesOK, NEW n \in Names, Unlink(n), UNCHANGED dir
  PROVE  FilesOK'
<1>1. node' \in [Names -> Inodes \cup {None}] /\ OwnInodes' /\ (~dir => \A m \in Names : node'[m] = None)
  BY DEF Unlink, FilesOK, OwnInodes
<1>2. DOMAIN data' = Inodes /\ \A j \in Inodes : data'[j] \in Seq(Nat)
  BY EmptySeq DEF Unlink, FilesOK
<1> QED
  BY <1>1, <1>2 DEF FilesOK

\* Every step keeps the directory well-formed.
LEMMA StepFilesOK ==
  ASSUME HandlerAssumption, SparesAssumption, IInv,
         NEW p \in Procs, Begin(p) \/ Acquire(p) \/ Step(p)
  PROVE  FilesOK'
<1>1. FilesOK /\ TypeOK
  BY DEF IInv, FilesOK, TypeOK
<1>2. CASE UNCHANGED fsVars
  BY <1>1, <1>2 DEF FilesOK, OwnInodes, fsVars
<1>3. CASE Finish(p)
  <2>1. UNCHANGED <<dir, node>> /\ DOMAIN data' = Inodes
    BY <1>3 DEF Finish
  <2>2. \A i \in Inodes : data'[i] \in Seq(Nat)
    BY <1>1, <1>3, EmptySeq DEF Finish, FilesOK
  <2> QED
    BY <1>1, <2>1, <2>2 DEF FilesOK, OwnInodes
<1>4. CASE OpenToWrite(p)
  <2>1. Name(p) \in Names /\ UNCHANGED dir
    BY <1>1, <1>4, NameIsName DEF OpenToWrite, Writers
  <2>2. PICK i \in Inodes : OpenOrCreate(Name(p), i, Op(p) # "append")
    BY <1>4 DEF OpenToWrite
  <2> QED
    BY <1>1, <2>1, <2>2, OpenOrCreateFiles
<1>5. CASE WriteChunk(p)
  <2>1. /\ fd[p] \in Inodes /\ call[p].data[off[p] + 1] \in Nat
        /\ data' = [data EXCEPT ![fd[p]] = Append(@, call[p].data[off[p] + 1])]
    BY <1>5, WriteChunkDoes
  <2>2. Append(data[fd[p]], call[p].data[off[p] + 1]) \in Seq(Nat)
    BY <1>1, <2>1, AppendProperties DEF FilesOK
  <2>3. DOMAIN data' = Inodes /\ \A i \in Inodes : data'[i] \in Seq(Nat)
    BY <1>1, <2>1, <2>2 DEF FilesOK
  <2> QED
    BY <1>1, <1>5, <2>3 DEF WriteChunk, FilesOK, OwnInodes
<1>6. CASE RemoveFile(p)
  <2>1. Name(p) \in Names /\ UNCHANGED dir
    BY <1>1, <1>6, NameIsName DEF RemoveFile
  <2> QED
    BY <1>1, <1>2, <1>6, <2>1, UnlinkFiles DEF RemoveFile, fsVars
<1>7. CASE MakeTargetDir(p) \/ MakeBase(p)
  BY <1>1, <1>7 DEF MakeTargetDir, MakeBase, FilesOK, OwnInodes
<1>8. CASE CreateTarget(p)
  <2>1. call[p].to \in Names /\ UNCHANGED dir
    BY <1>1, <1>8, TargetApart DEF CreateTarget, IInv, CallOK, PlaceOK, Readers
  <2>2. PICK i \in Inodes : OpenOrCreate(call[p].to, i, TRUE)
    BY <1>8 DEF CreateTarget
  <2> QED
    BY <1>1, <2>1, <2>2, OpenOrCreateFiles
<1>9. CASE CreateExclusive(p)
  <2>1. Name(p) \in Names /\ UNCHANGED dir
    BY <1>1, <1>9, NameIsName DEF CreateExclusive, IInv, CallOK, PlaceOK
  <2>2. ASSUME NEW i \in Inodes, OpenOrCreate(Name(p), i, FALSE)
        PROVE  FilesOK'
    BY <1>1, <2>1, <2>2, OpenOrCreateFiles
  <2> QED
    BY <1>2, <1>9, <2>1, <2>2 DEF CreateExclusive, fsVars
<1>10. CASE UnlinkNext(p)
  BY <1>1, <1>2, <1>10, UnlinkFiles DEF UnlinkNext, fsVars, TypeOK
<1>11. CASE RemoveDir(p)
  BY <1>1, <1>11 DEF RemoveDir, FilesOK, OwnInodes
<1>12. CASE Begin(p) \/ Acquire(p) \/ Return(p) \/ Fail(p) \/ OpenToRead(p) \/ OpenAbsent(p)
  BY <1>2, <1>12 DEF Begin, Acquire, Return, Fail, OpenToRead, OpenAbsent
<1>13. CASE ReadChunk(p) \/ EndOfFile(p) \/ StatFile(p) \/ ListDir(p)
  BY <1>2, <1>13 DEF ReadChunk, EndOfFile, StatFile, ListDir
<1> QED
  BY <1>3, <1>4, <1>5, <1>6, <1>7, <1>8, <1>9, <1>10, <1>11, <1>12, <1>13 DEF Step

\* The types of what calls know.
CallsOK ==
  /\ pc \in [Procs -> Places]
  /\ \A p \in Procs : call[p] \in Calls <=> pc[p] # "idle"
  /\ fd \in [Procs -> Inodes \cup {None}]
  /\ off \in [Procs -> Nat]
  /\ DOMAIN got = Procs /\ \A p \in Procs : got[p] \in Seq(Nat) \cup {None}
  /\ todo \in [Procs -> SUBSET Names]
  /\ res \in [Procs -> {None, "ok", "err"}]
  /\ Shape

\* Most steps move on, with the result or without it, and open nothing.
MovesOn(p) ==
  /\ pc[p] # "idle" /\ \E place \in Places \ {"idle"} : pc' = [pc EXCEPT ![p] = place]
  /\ UNCHANGED res \/ \E r \in {"ok", "err"} : res' = [res EXCEPT ![p] = r]
  /\ UNCHANGED <<call, fd, off, got, pre>>

\* A step that moves on keeps the types.
LEMMA MovesOnCallsOK ==
  ASSUME CallsOK, NEW p \in Procs, MovesOn(p), todo' \in [Procs -> SUBSET Names]
  PROVE  CallsOK'
<1> USE DEF CallsOK, Shape, MovesOn
<1>1. pc' \in [Procs -> Places] /\ \A q \in Procs : call'[q] \in Calls <=> pc'[q] # "idle"
  OBVIOUS
<1>2. res' \in [Procs -> {None, "ok", "err"}]
  OBVIOUS
<1> QED
  BY <1>1, <1>2

\* Every step keeps the types of what a call knows.
LEMMA StepCallsOK ==
  ASSUME HandlerAssumption, IInv, NEW p \in Procs, Begin(p) \/ Acquire(p) \/ Step(p)
  PROVE  CallsOK'
<1> SUFFICES ASSUME CallsOK, TypeOK PROVE CallsOK'
  BY DEF IInv, CallsOK, TypeOK
<1> USE DEF CallsOK, Shape, Goto, Settle, Done, ioVars, Places
<1>1. CASE Begin(p)
  <2>1. PICK c \in Calls : call' = [call EXCEPT ![p] = c] /\ pc' = [pc EXCEPT ![p] = FirstPlace(c.op)]
    BY <1>1 DEF Begin
  <2>2. FirstPlace(c.op) \in {"lock", "stat", "list", "mkbase"}
    BY DEF FirstPlace, HandlerAssumption, Ops, Locked, Readers, Writers
  <2> QED
    BY <1>1, <2>1, <2>2 DEF Begin
<1>2. CASE Acquire(p) \/ Fail(p)
  BY <1>2, MovesOnCallsOK DEF MovesOn, Acquire, Fail
<1>3. CASE Finish(p)
  BY <1>3 DEF Finish
<1>4. CASE Return(p)
  BY <1>4 DEF Return, HandlerAssumption
<1>5. CASE OpenToWrite(p)
  <2>1. Name(p) \in Names
    BY <1>5, NameIsName DEF OpenToWrite, Writers
  <2>2. (IF node[Name(p)] = None THEN <<>> ELSE data[node[Name(p)]]) \in Seq(Nat)
    BY <2>1, EmptySeq DEF TypeOK
  <2>3. PICK i \in Inodes : fd' = [fd EXCEPT ![p] = i]
    BY <1>5 DEF OpenToWrite
  <2>4. DOMAIN pre' = Procs /\ \A q \in Procs : pre'[q] \in Seq(Nat) \cup {None}
    BY <1>5, <2>2 DEF OpenToWrite
  <2>5. /\ pc' \in [Procs -> Places] /\ res' \in [Procs -> {None, "ok", "err"}]
        /\ \A q \in Procs : pc'[q] # "idle" <=> pc[q] # "idle"
    <3>1. CASE Op(p) = "clear"
      <4>1. /\ pc[p] = "open" /\ pc' = [pc EXCEPT ![p] = "close"]
            /\ res' = [res EXCEPT ![p] = "ok"]
        BY <1>5, <3>1 DEF OpenToWrite
      <4> QED
        BY <4>1
    <3>2. CASE Op(p) # "clear"
      BY <1>5, <3>2 DEF OpenToWrite
    <3> QED
      BY <3>1, <3>2
  <2> QED
    BY <1>5, <2>3, <2>4, <2>5 DEF OpenToWrite
<1>6. CASE WriteChunk(p)
  <2>1. /\ pc' \in [Procs -> Places] /\ res' \in [Procs -> {None, "ok", "err"}]
        /\ \A q \in Procs : pc'[q] # "idle" <=> pc[q] # "idle"
    BY <1>6 DEF WriteChunk
  <2>2. off' \in [Procs -> Nat]
    BY <1>6 DEF WriteChunk
  <2> QED
    BY <1>6, <2>1, <2>2 DEF WriteChunk
<1>7. CASE RemoveFile(p) \/ EndOfFile(p) \/ OpenAbsent(p)
  BY <1>7, MovesOnCallsOK DEF MovesOn, RemoveFile, EndOfFile, OpenAbsent
<1>8. CASE OpenToRead(p)
  <2>1. Name(p) \in Names
    BY <1>8, NameIsName DEF OpenToRead, Readers
  <2> QED
    BY <1>8, <2>1, EmptySeq DEF OpenToRead, TypeOK
<1>9. CASE ReadChunk(p)
  <2>1. got[p] \in Seq(Nat) /\ fd[p] # None /\ data[fd[p]] \in Seq(Nat)
    BY <1>9 DEF ReadChunk, IInv, CallOK, OpenOK, ReaderOK, TypeOK
  <2>2. data[fd[p]][Len(got[p]) + 1] \in Nat
    BY <1>9, <2>1, ElementOfSeq DEF ReadChunk
  <2>3. Append(got[p], data[fd[p]][Len(got[p]) + 1]) \in Seq(Nat)
    BY <2>1, <2>2, AppendProperties
  <2> QED
    BY <1>9, <2>3 DEF ReadChunk
<1>10. CASE MakeTargetDir(p) \/ CreateTarget(p)
  BY <1>10, MovesOnCallsOK DEF MovesOn, MakeTargetDir, CreateTarget
<1>11. CASE StatFile(p) \/ CreateExclusive(p)
  BY <1>11, MovesOnCallsOK DEF MovesOn, StatFile, CreateExclusive
<1>12. CASE ListDir(p)
  <2>1. todo' \in [Procs -> SUBSET Names]
    BY <1>12 DEF ListDir
  <2> QED
    BY <1>12, <2>1, MovesOnCallsOK DEF MovesOn, ListDir
<1>13. CASE UnlinkNext(p)
  BY <1>13 DEF UnlinkNext
<1>14. CASE RemoveDir(p)
  <2>1. todo' \in [Procs -> SUBSET Names]
    BY <1>14 DEF RemoveDir
  <2> QED
    BY <1>14, <2>1, MovesOnCallsOK DEF MovesOn, RemoveDir
<1>15. CASE MakeBase(p)
  BY <1>15, MovesOnCallsOK DEF MovesOn, MakeBase
<1> QED
  BY <1>1, <1>2, <1>3, <1>4, <1>5, <1>6, <1>7, <1>8, <1>9, <1>10, <1>11, <1>12, <1>13, <1>14,
     <1>15 DEF Step

\* Who gets the lock finds nobody that it excludes.
LEMMA StepExclusion ==
  ASSUME HandlerAssumption, IInv, NEW p \in Procs, Begin(p) \/ Acquire(p) \/ Step(p)
  PROVE  Exclusion'
<1>1. ASSUME NEW q \in Procs, q # p
      PROVE  (Holds(q)' <=> Holds(q)) /\ Name(q)' = Name(q) /\ Op(q)' = Op(q)
  BY <1>1, FrameControl DEF IInv, Holds, Name, Op
<1>2. CASE Acquire(p)
  <2>1. Name(p)' = Name(p) /\ Op(p)' = Op(p)
    BY <1>2 DEF Acquire, Name, Op
  <2>2. ASSUME NEW q \in Procs, q # p, Holds(q), Name(q) = Name(p)
        PROVE  Op(p) \in Readers /\ Op(q) \in Readers
    BY <1>2, <2>2 DEF Acquire, LockFree, Locks!Conflict
  <2> QED
    BY <1>1, <2>1, <2>2 DEF Exclusion, IInv
<1>3. CASE ~Acquire(p)
  <2>1. Holds(p)' => Holds(p) /\ Name(p)' = Name(p) /\ Op(p)' = Op(p)
    <3> USE DEF Holds, Goto, Settle, Done, Name, Op, Locked, IInv, TypeOK, CallOK, PlaceOK
    <3>1. CASE Begin(p)
      <4>1. PICK c \in Calls : call' = [call EXCEPT ![p] = c] /\ pc' = [pc EXCEPT ![p] = FirstPlace(c.op)]
        BY <3>1 DEF Begin
      <4>2. call'[p].op \in Locked => pc'[p] = "lock"
        BY <4>1 DEF Shape, FirstPlace, Readers, Writers
      <4> QED
        BY <4>2
    <3>2. CASE Finish(p) \/ Return(p) \/ Fail(p) \/ OpenToWrite(p) \/ WriteChunk(p) \/ RemoveFile(p)
      BY <3>2 DEF Finish, Return, Fail, OpenToWrite, WriteChunk, RemoveFile
    <3>3. CASE OpenToRead(p) \/ OpenAbsent(p) \/ ReadChunk(p) \/ EndOfFile(p) \/ MakeTargetDir(p)
               \/ CreateTarget(p)
      BY <3>3 DEF OpenToRead, OpenAbsent, ReadChunk, EndOfFile, MakeTargetDir, CreateTarget
    <3>4. CASE StatFile(p) \/ CreateExclusive(p) \/ ListDir(p) \/ UnlinkNext(p) \/ RemoveDir(p)
               \/ MakeBase(p)
      BY <3>4 DEF StatFile, CreateExclusive, ListDir, UnlinkNext, RemoveDir, MakeBase
    <3> QED
      BY <1>3, <3>1, <3>2, <3>3, <3>4 DEF Step
  <2> QED
    BY <1>1, <2>1 DEF Exclusion, IInv
<1> QED
  BY <1>2, <1>3

----------------------------------------------------------------------------
(* The invariant. *)

\* The invariant holds when no call has been made.
LEMMA InitIInv ==
  ASSUME HandlerAssumption, Init
  PROVE  IInv
<1>1. TypeOK /\ Shape /\ OwnInodes
  BY EmptySeq DEF HandlerAssumption, Init, TypeOK, Shape, OwnInodes, Places
<1>2. Exclusion
  BY DEF Init, Exclusion, Holds
<1>3. \A p \in Procs : CallOK(p)
  BY DEF Init, CallOK, PlaceOK, OpenOK, WriterOK, ReaderOK
<1> QED
  BY <1>1, <1>2, <1>3 DEF IInv

\* Every step keeps the invariant.
LEMMA NextIInv ==
  ASSUME HandlerAssumption, SparesAssumption, IInv, [Next]_vars
  PROVE  IInv'
<1>1. ASSUME NEW p \in Procs, Begin(p) \/ Acquire(p) \/ Step(p) PROVE IInv'
  <2>1. FilesOK' /\ CallsOK'
    BY <1>1, StepFilesOK, StepCallsOK
  <2>2. Exclusion' /\ \A q \in Procs : CallOK(q)'
    BY <1>1, StepExclusion, StepCallOK
  <2> QED
    BY <2>1, <2>2 DEF IInv, FilesOK, CallsOK, TypeOK
<1>2. CASE UNCHANGED vars
  <2> USE <1>2 DEF vars, fsVars, ioVars
  <2>1. TypeOK' /\ Shape' /\ OwnInodes'
    BY DEF IInv, TypeOK, Shape, OwnInodes
  <2>2. Exclusion'
    BY DEF IInv, Exclusion, Holds, Name, Op
  <2>3. \A q \in Procs : CallOK(q)'
    BY CallFrame DEF IInv
  <2> QED
    BY <2>1, <2>2, <2>3 DEF IInv
<1> QED
  BY <1>1, <1>2 DEF Next

\* The facts above hold in every state of the handler (file.go:15-170), whatever the locked
\* and the unlocked operations do in between.
THEOREM Invariance == Spec => []IInv
<1>1. Init => IInv
  BY InitIInv, HandlerAssumption, SparesAssumption
<1>2. IInv /\ [Next]_vars => IInv'
  BY NextIInv, HandlerAssumption, SparesAssumption
<1> QED
  BY <1>1, <1>2, PTL DEF Spec

\* The variables keep their types, and an absent directory has no files: os.RemoveAll
\* (file.go:140) takes away an empty one only.
THEOREM TypeCorrect == Spec => []TypeOK
<1>1. IInv => TypeOK
  BY DEF IInv
<1> QED
  BY <1>1, Invariance, PTL

----------------------------------------------------------------------------
(* What the promise sees of the handler. *)

\* The rest of the mapping, call by call.
Asked(p)  == IF Seen(p) THEN call[p] ELSE None
Result(p) == IF Seen(p) /\ pc[p] = "done" THEN res[p] ELSE None
Undone(p) == Writing(p) /\ fd[p] # node[Name(p)]

\* q's call looks the same to the promise.
SameView(q) ==
  /\ StageOf(q)' = StageOf(q) /\ AnswerOf(q)' = AnswerOf(q)
  /\ Asked(q)' = Asked(q) /\ Result(q)' = Result(q)

\* n's inode is in the hands of p, which writes to it.
WritesTo(p, n) == Writing(p) /\ fd[p] = node[n]

\* A file is what its writer found, or what its inode holds.
FilesSeen ==
  \A n \in Names :
    /\ node[n] = None => FileOf(n) = None
    /\ \A p \in Procs : node[n] # None /\ WritesTo(p, n) => FileOf(n) = pre[p]
    /\ node[n] # None /\ (\A p \in Procs : ~WritesTo(p, n)) => FileOf(n) = data[node[n]]

\* A file that is being written has one writer: Lock of file.go:98, 105, 156 excludes others.
LEMMA WriterAlone ==
  ASSUME IInv, NEW n \in Names, node[n] # None,
         NEW p \in Procs, NEW q \in Procs, WritesTo(p, n), WritesTo(q, n)
  PROVE  p = q
BY DEF IInv, CallOK, OpenOK, Exclusion, Holds, Locked, WritesTo, Writing, Writers, Readers

\* What FileOf chooses is determined.
LEMMA FilesSeenNow == IInv => FilesSeen
<1> SUFFICES ASSUME IInv, NEW n \in Names
    PROVE  /\ node[n] = None => FileOf(n) = None
           /\ \A p \in Procs : node[n] # None /\ WritesTo(p, n) => FileOf(n) = pre[p]
           /\ node[n] # None /\ (\A p \in Procs : ~WritesTo(p, n)) => FileOf(n) = data[node[n]]
  BY DEF FilesSeen
<1> DEFINE W == {p \in Procs : Writing(p) /\ fd[p] = node[n]}
<1>1. FileOf(n) = IF node[n] = None THEN None
                  ELSE IF W # {} THEN pre[CHOOSE p \in W : TRUE] ELSE data[node[n]]
  BY DEF FileOf
<1>2. ASSUME NEW p \in Procs, node[n] # None, WritesTo(p, n)
      PROVE  FileOf(n) = pre[p]
  <2>1. p \in W /\ \A q \in W : q = p
    BY <1>2, WriterAlone DEF WritesTo
  <2>2. (CHOOSE q \in W : TRUE) = p
    BY <2>1
  <2> QED
    BY <1>1, <1>2, <2>1, <2>2
<1>3. ASSUME node[n] # None, \A p \in Procs : ~WritesTo(p, n)
      PROVE  FileOf(n) = data[node[n]]
  <2>1. W = {}
    BY <1>3 DEF WritesTo
  <2> QED
    BY <1>1, <1>3, <2>1
<1> QED
  BY <1>1, <1>2, <1>3

\* In the next state as well.
LEMMA FilesSeenNext == IInv' => FilesSeen'
BY FilesSeenNow, PTL

\* A file stays the same if its inode does and its writer, or else its data.
LEMMA FileFrame ==
  ASSUME IInv, IInv', NEW n \in Names, node'[n] = node[n],
         \A q \in Procs : WritesTo(q, n)' <=> WritesTo(q, n),
         \A q \in Procs : WritesTo(q, n) => pre'[q] = pre[q],
         (\A q \in Procs : ~WritesTo(q, n)) /\ node[n] # None => data'[node[n]] = data[node[n]]
  PROVE  FileOf(n)' = FileOf(n)
<1>1. FilesSeen /\ FilesSeen'
  BY FilesSeenNow, FilesSeenNext
<1>2. CASE node[n] = None
  BY <1>1, <1>2 DEF FilesSeen
<1>3. CASE node[n] # None /\ \E q \in Procs : WritesTo(q, n)
  <2>1. PICK q \in Procs : WritesTo(q, n)
    BY <1>3
  <2> QED
    BY <1>1, <1>3, <2>1 DEF FilesSeen
<1>4. CASE node[n] # None /\ ~\E q \in Procs : WritesTo(q, n)
  BY <1>1, <1>4 DEF FilesSeen
<1> QED
  BY <1>2, <1>3, <1>4

\* A call that nothing happens to looks the same.
LEMMA OthersView ==
  ASSUME NEW q \in Procs,
         pc'[q] = pc[q], call'[q] = call[q], fd'[q] = fd[q], got'[q] = got[q], res'[q] = res[q],
         fd[q] # None => data'[fd[q]] = data[fd[q]]
  PROVE  SameView(q) /\ (Seen(q)' <=> Seen(q)) /\ (Writing(q)' <=> Writing(q))
<1>1. Op(q)' = Op(q) /\ Name(q)' = Name(q)
  BY DEF Op, Name
<1>2. Seen(q)' <=> Seen(q)
  BY <1>1 DEF Seen
<1>3. (Writing(q)' <=> Writing(q)) /\ (Looked(q)' <=> Looked(q))
  BY <1>1, <1>2 DEF Writing, Looked
<1> QED
  BY <1>1, <1>2, <1>3 DEF SameView, StageOf, AnswerOf, Asked, Result

----------------------------------------------------------------------------
(* The steps of the promise, from what they do to each call and each file. *)

\* Every file is what it was.
SameFiles == \A n \in Files : FileOf(n)' = FileOf(n)
\* n turns into d, the others are what they were.
FileTurns(n, d) == \A m \in Files : FileOf(m)' = IF m = n THEN d ELSE FileOf(m)
SameUndone == \A q \in Procs : Undone(q)' <=> Undone(q)
\* The other calls look the same.
OthersSame(p) == \A q \in Procs : q # p => SameView(q)
\* p's call comes to look like this, and only p's.
Becomes(p, stage, answer, asked, result) ==
  /\ StageOf(p)' = stage /\ AnswerOf(p)' = answer /\ Asked(p)' = asked /\ Result(p)' = result
  /\ OthersSame(p)

\* Nothing that the promise sees.
LEMMA Stutters ==
  ASSUME NEW p \in Procs, SameView(p), OthersSame(p), SameFiles, SameUndone
  PROVE  UNCHANGED Store!vars
<1>1. \A q \in Procs : SameView(q)
  BY DEF OthersSame
<1> QED
  BY <1>1 DEF SameView, SameFiles, SameUndone, Undone, Store!vars, Asked, Result

\* A call that it sees begins.
LEMMA Begins ==
  ASSUME NEW p \in Procs, NEW c \in Calls, c.op # "new", c.op = "deleteall" \/ c.name \in Files,
         StageOf(p) = "idle", Becomes(p, "called", AnswerOf(p), c, Result(p)),
         SameFiles, SameUndone
  PROVE  Store!Begin(p)
BY DEF Store!Begin, Becomes, OthersSame, SameView, SameFiles, SameUndone, Undone, Asked, Result

\* OpenFile makes an absent file before anything is written to it.
LEMMA Makes ==
  ASSUME NEW p \in Procs, Seen(p), StageOf(p) = "called", Op(p) \in Writers, Name(p) \in Files,
         SameView(p), OthersSame(p),
         FileOf(Name(p)) = None, FileTurns(Name(p), <<>>), SameUndone
  PROVE  Store!Make(p)
<1>1. \A q \in Procs : SameView(q)
  BY DEF OthersSame
<1> QED
  BY <1>1 DEF Store!Make, Store!Writers, Writers, SameView, FileTurns, SameUndone, Undone, Asked,
       Result, Op, Name

\* A reader opens the file: this is the moment it reads.
LEMMA Looks ==
  ASSUME NEW p \in Procs, Seen(p), StageOf(p) = "called", Op(p) \in Readers, Name(p) \in Files,
         Becomes(p, "looked", FileOf(Name(p)), Asked(p), Result(p)), SameFiles, SameUndone
  PROVE  Store!Look(p)
BY DEF Store!Look, Store!Readers, Readers, Becomes, OthersSame, SameView, SameFiles, SameUndone,
       Undone, Asked, Result, Op, Name

\* A call has its result.
LEMMA Ends ==
  ASSUME NEW p \in Procs, NEW r, NEW a, Becomes(p, "done", a, Asked(p), r),
         \A q \in Procs : Undone(q)' <=> Undone(q) /\ q # p
  PROVE  Store!End(p, r)
BY DEF Store!End, Becomes, OthersSame, SameView, Undone, Asked, Result

\* A reader returns what the file was when it looked.
LEMMA Answers ==
  ASSUME NEW p \in Procs, Seen(p), StageOf(p) = "looked", Op(p) = "read" => AnswerOf(p) # None,
         Becomes(p, "done", AnswerOf(p), Asked(p), "ok"), SameFiles, Store!End(p, "ok")
  PROVE  Store!Answer(p)
BY DEF Store!Answer, Becomes, OthersSame, SameView, SameFiles, Asked, Op

\* A reader fails.
LEMMA GivesUp ==
  ASSUME NEW p \in Procs, Seen(p), StageOf(p) \in {"called", "looked"}, Op(p) \in Readers,
         Becomes(p, "done", None, Asked(p), "err"), SameFiles, Store!End(p, "err")
  PROVE  Store!GiveUp(p)
BY DEF Store!GiveUp, Store!Readers, Readers, Becomes, OthersSame, SameView, SameFiles, Asked, Op

\* A writer, Delete or CreateIfNotExists takes effect on its file.
LEMMA Changes ==
  ASSUME NEW p \in Procs, NEW r, Seen(p), StageOf(p) = "called",
         Op(p) \in Writers \cup {"delete", "create"}, Name(p) \in Files,
         Becomes(p, "done", AnswerOf(p), Asked(p), r), Store!End(p, r),
         \/ Undone(p) /\ SameFiles
         \/ ~Undone(p) /\ \E d \in Store!Outcomes(call[p], FileOf(Name(p)), r) :
                            FileTurns(Name(p), d)
  PROVE  Store!Change(p, r)
<1> DEFINE mapped == [q \in Procs |-> IF Seen(q) THEN call[q] ELSE None]
           file == [n \in Files |-> FileOf(n)]
<1>1. mapped[p] = call[p] /\ file[call[p].name] = FileOf(Name(p))
  BY DEF Name
<1>2. CASE Undone(p) /\ SameFiles
  BY <1>2 DEF Store!Change, Store!Writers, Writers, Becomes, OthersSame, SameView, SameFiles,
       Undone, Op
<1>3. CASE ~Undone(p) /\ \E d \in Store!Outcomes(call[p], FileOf(Name(p)), r) :
                           FileTurns(Name(p), d)
  <2>1. PICK d \in Store!Outcomes(mapped[p], file[mapped[p].name], r) : FileTurns(Name(p), d)
    BY <1>1, <1>3
  <2>2. file' = [file EXCEPT ![mapped[p].name] = d]
    BY <1>1, <2>1 DEF FileTurns, Name
  <2>3. p \notin {q \in Procs : Writing(q) /\ fd[q] # node[Name(q)]}
    BY <1>3 DEF Undone
  <2>4. UNCHANGED [q \in Procs |-> AnswerOf(q)]
    BY DEF Becomes, OthersSame, SameView
  <2> QED
    BY <1>1, <2>1, <2>2, <2>3, <2>4 DEF Store!Change, Store!Writers, Writers, Op
<1> QED
  BY <1>2, <1>3

\* DeleteAll takes a file away.
LEMMA Removes ==
  ASSUME NEW p \in Procs, Seen(p), StageOf(p) = "called", Op(p) = "deleteall",
         NEW n \in Files, SameView(p), OthersSame(p), FileTurns(n, None),
         \A q \in Procs : /\ Undone(q) => Undone(q)'
                          /\ Undone(q)' => \/ Undone(q)
                                           \/ /\ Seen(q) /\ StageOf(q) = "called"
                                              /\ Op(q) \in Writers /\ Name(q) = n
  PROVE  Store!Remove(p, n)
<1>1. \A q \in Procs : SameView(q)
  BY DEF OthersSame
<1> DEFINE hit == {q \in Procs : Undone(q)' /\ ~Undone(q)}
           mapped == [q \in Procs |-> IF Seen(q) THEN call[q] ELSE None]
<1>2. hit \in SUBSET {q \in Procs : /\ [o \in Procs |-> StageOf(o)][q] = "called"
                                    /\ mapped[q].op \in Writers /\ mapped[q].name = n}
  BY DEF Op, Name
<1>3. {q \in Procs : Writing(q) /\ fd[q] # node[Name(q)]}'
        = {q \in Procs : Writing(q) /\ fd[q] # node[Name(q)]} \cup hit
  BY DEF Undone
<1> QED
  BY <1>1, <1>2, <1>3 DEF Store!Remove, Store!Writers, Writers, SameView, FileTurns, Asked, Result, Op

\* DeleteAll returns, with nil if it has found the directory empty.
LEMMA AllGones ==
  ASSUME NEW p \in Procs, NEW r, Seen(p), StageOf(p) = "called", Op(p) = "deleteall",
         r = "ok" => \A n \in Files : FileOf(n) = None,
         Becomes(p, "done", AnswerOf(p), Asked(p), r), SameFiles, Store!End(p, r)
  PROVE  Store!AllGone(p, r)
BY DEF Store!AllGone, Becomes, OthersSame, SameView, SameFiles, Asked, Op

\* A call returns.
LEMMA Returns ==
  ASSUME NEW p \in Procs, StageOf(p) = "done", Becomes(p, "idle", None, None, None),
         SameFiles, SameUndone
  PROVE  Store!Return(p)
BY DEF Store!Return, Becomes, OthersSame, SameView, SameFiles, SameUndone, Undone, Asked, Result

----------------------------------------------------------------------------
(* Every step of the handler is a step of the promise, or none. *)

\* What the steps of one goroutine have in common.
Moves(p) ==
  /\ p \in Procs /\ (Begin(p) \/ Acquire(p) \/ Step(p))
  /\ HandlerAssumption /\ SparesAssumption /\ IInv /\ IInv'

\* A step of p leaves the other calls alone.
LEMMA MovesFrame ==
  ASSUME NEW p, Moves(p)
  PROVE  /\ p \in Procs /\ OthersSame(p)
         /\ \A q \in Procs : q # p => /\ (Writing(q)' <=> Writing(q)) /\ (Seen(q)' <=> Seen(q))
                                      /\ fd'[q] = fd[q] /\ Name(q)' = Name(q) /\ pre'[q] = pre[q]
<1>1. p \in Procs /\ HandlerAssumption /\ SparesAssumption /\ IInv /\ TypeOK /\ Shape
  BY DEF Moves, IInv
<1> SUFFICES ASSUME NEW q \in Procs, q # p
    PROVE  /\ SameView(q) /\ (Writing(q)' <=> Writing(q)) /\ (Seen(q)' <=> Seen(q))
           /\ fd'[q] = fd[q] /\ Name(q)' = Name(q) /\ pre'[q] = pre[q]
  BY <1>1 DEF OthersSame
<1>2. /\ pc'[q] = pc[q] /\ call'[q] = call[q] /\ fd'[q] = fd[q] /\ off'[q] = off[q]
      /\ got'[q] = got[q] /\ res'[q] = res[q] /\ pre'[q] = pre[q]
  BY <1>1, FrameControl DEF Moves
<1>3. fd[q] # None => data'[fd[q]] = data[fd[q]]
  BY <1>1, FrameData DEF Moves
<1>4. SameView(q) /\ (Seen(q)' <=> Seen(q)) /\ (Writing(q)' <=> Writing(q))
  BY <1>2, <1>3, OthersView
<1> QED
  BY <1>2, <1>4 DEF Name

\* A file that p does not rename, and that p writes to afterwards if it did before.
LEMMA FileKept ==
  ASSUME NEW p, Moves(p), NEW n \in Names, node'[n] = node[n],
         WritesTo(p, n)' <=> WritesTo(p, n), WritesTo(p, n) => pre'[p] = pre[p],
         (\A q \in Procs : ~WritesTo(q, n)) /\ node[n] # None => data'[node[n]] = data[node[n]]
  PROVE  FileOf(n)' = FileOf(n)
<1>1. \A q \in Procs : WritesTo(q, n)' <=> WritesTo(q, n)
  BY MovesFrame DEF WritesTo
<1>2. \A q \in Procs : WritesTo(q, n) => pre'[q] = pre[q]
  BY MovesFrame
<1> QED
  BY <1>1, <1>2, FileFrame DEF Moves

\* A call whose writing neither begins nor ends counts as undone or not as before.
LEMMA UndoneKept ==
  ASSUME NEW p, Moves(p), NEW q \in Procs, node'[Name(q)] = node[Name(q)],
         q = p => /\ Writing(p)' <=> Writing(p)
                  /\ Writing(p) => fd'[p] = fd[p] /\ Name(p)' = Name(p)
  PROVE  Undone(q)' <=> Undone(q)
BY MovesFrame DEF Undone

\* Who reads or writes is seen, and so is the name.
LEMMA UserSeen ==
  ASSUME HandlerAssumption, IInv, NEW p \in Procs, pc[p] # "idle", Op(p) \in Writers \cup Readers
  PROVE  Seen(p) /\ Name(p) \in Files /\ Name(p) \in Names
<1>1. Name(p) \in Names
  BY NameIsName DEF IInv, Writers, Readers
<1>2. Name(p) \in Files
  BY <1>1, TargetApart DEF IInv, HandlerAssumption, TypeOK, Files, Name, Op
<1> QED
  BY <1>1, <1>2 DEF Seen, Writers, Readers

\* Nobody else writes to a file whose lock is held.
LEMMA NoOtherWriter ==
  ASSUME IInv, NEW p \in Procs, Holds(p), NEW q \in Procs, q # p, Writing(q)
  PROVE  Name(q) # Name(p)
BY DEF IInv, CallOK, OpenOK, Exclusion, Holds, Locked, Writing, Writers, Readers

\* A step that leaves names, views and writers, and the data that nobody writes.
LEMMA Quiet ==
  ASSUME NEW p, Moves(p), SameView(p), \A n \in Files : node'[n] = node[n],
         Writing(p)' <=> Writing(p),
         Writing(p) => fd'[p] = fd[p] /\ pre'[p] = pre[p] /\ Name(p)' = Name(p),
         \A n \in Files : (\A q \in Procs : ~WritesTo(q, n)) /\ node[n] # None
                            => data'[node[n]] = data[node[n]]
  PROVE  UNCHANGED Store!vars
<1>1. OthersSame(p)
  BY MovesFrame
<1>2. ASSUME NEW n \in Files PROVE FileOf(n)' = FileOf(n)
  <2>1. n \in Names
    BY DEF Files
  <2>2. (WritesTo(p, n)' <=> WritesTo(p, n)) /\ (WritesTo(p, n) => pre'[p] = pre[p])
    BY DEF WritesTo
  <2> QED
    BY <2>1, <2>2, FileKept
<1>3. ASSUME NEW q \in Procs PROVE Undone(q)' <=> Undone(q)
  <2>1. CASE Writing(q)
    <3>1. Name(q) \in Files
      BY <2>1, UserSeen DEF Moves, Writing, Seen
    <3> QED
      BY <3>1, UndoneKept
  <2>2. CASE ~Writing(q)
    BY <2>2, MovesFrame DEF Undone
  <2> QED
    BY <2>1, <2>2
<1> QED
  BY <1>1, <1>2, <1>3, Stutters DEF Moves, SameFiles, SameUndone

\* Begin is a call that begins, or NewFileHandler, which the promise does not see.
LEMMA BeginSteps ==
  ASSUME NEW p, Moves(p), Begin(p)
  PROVE  [Store!Next]_(Store!vars)
<1>1. /\ p \in Procs /\ pc[p] = "idle" /\ fd[p] = None /\ UNCHANGED <<fsVars, fd, res, pre>>
      /\ TypeOK /\ Shape
  BY DEF Moves, Begin, ioVars, IInv, CallOK, OpenOK
<1>2. PICK c \in Calls : call'[p] = c /\ pc'[p] = FirstPlace(c.op)
  BY <1>1 DEF Begin, Goto, TypeOK, Shape
<1>3. pc'[p] \notin {"idle", "done", "close"}
  BY <1>2 DEF Moves, HandlerAssumption, FirstPlace, Ops, Locked, Readers, Writers
<1>4. ~Seen(p) /\ ~Writing(p) /\ ~Writing(p)' /\ ~Looked(p)'
  BY <1>1, <1>3 DEF Seen, Writing, Looked
<1>5. CASE Seen(p)'
  <2>1. c.op # "new" /\ (c.op = "deleteall" \/ c.name \in Files)
    BY <1>2, <1>5 DEF Seen, Op, Name
  <2>2. StageOf(p) = "idle" /\ AnswerOf(p) = None /\ Result(p) = None
    BY <1>4 DEF StageOf, AnswerOf, Result
  <2>3. StageOf(p)' = "called" /\ AnswerOf(p)' = None /\ Asked(p)' = c /\ Result(p)' = None
    BY <1>1, <1>2, <1>3, <1>4, <1>5 DEF StageOf, AnswerOf, Asked, Result
  <2>4. Becomes(p, "called", AnswerOf(p), c, Result(p))
    BY <2>2, <2>3, MovesFrame DEF Becomes
  <2>5. SameFiles
    BY <1>1, <1>4, FileKept DEF SameFiles, fsVars, WritesTo, Files
  <2>6. SameUndone
    BY <1>1, <1>4, UndoneKept DEF SameUndone, fsVars
  <2>7. Store!Begin(p)
    BY <1>1, <2>1, <2>2, <2>4, <2>5, <2>6, Begins
  <2> QED
    BY <1>1, <2>7 DEF Store!Next
<1>6. CASE ~Seen(p)'
  <2>1. SameView(p)
    BY <1>4, <1>6 DEF SameView, StageOf, AnswerOf, Asked, Result
  <2> QED
    BY <1>1, <1>4, <2>1, Quiet DEF fsVars
<1> QED
  BY <1>5, <1>6

\* Return is one.
LEMMA ReturnSteps ==
  ASSUME NEW p, Moves(p), Return(p)
  PROVE  [Store!Next]_(Store!vars)
<1>1. /\ p \in Procs /\ pc[p] = "done" /\ pc'[p] = "idle" /\ fd[p] = None
      /\ UNCHANGED <<fsVars, fd, pre>>
  BY DEF Moves, Return, IInv, TypeOK, CallOK, OpenOK, Goto
<1>2. ~Seen(p)' /\ ~Writing(p) /\ ~Writing(p)'
  BY <1>1 DEF Seen, Writing
<1>3. StageOf(p)' = "idle" /\ AnswerOf(p)' = None /\ Asked(p)' = None /\ Result(p)' = None
  BY <1>2 DEF StageOf, AnswerOf, Asked, Result
<1>4. CASE Seen(p)
  <2>1. StageOf(p) = "done"
    BY <1>1, <1>4 DEF StageOf
  <2>2. Becomes(p, "idle", None, None, None)
    BY <1>3, MovesFrame DEF Becomes
  <2>3. SameFiles
    BY <1>1, <1>2, FileKept DEF SameFiles, fsVars, WritesTo, Files
  <2>4. SameUndone
    BY <1>1, <1>2, UndoneKept DEF SameUndone, fsVars
  <2>5. Store!Return(p)
    BY <1>1, <2>1, <2>2, <2>3, <2>4, Returns
  <2> QED
    BY <1>1, <2>5 DEF Store!Next
<1>5. CASE ~Seen(p)
  <2>1. SameView(p)
    BY <1>3, <1>5 DEF SameView, StageOf, AnswerOf, Asked, Result
  <2> QED
    BY <1>1, <1>2, <2>1, Quiet DEF fsVars
<1> QED
  BY <1>4, <1>5

\* Waiting for the lock, failing, reading on and making directories are not seen.
LEMMA QuietSteps ==
  ASSUME NEW p, Moves(p),
         \/ Acquire(p) \/ Fail(p) \/ ReadChunk(p) \/ EndOfFile(p) \/ MakeTargetDir(p)
         \/ ListDir(p) /\ pc'[p] = "unlink"
         \/ StatFile(p) /\ pc'[p] = "excl"
  PROVE  UNCHANGED Store!vars
<1>1. /\ p \in Procs /\ pc[p] \notin {"idle", "done", "close"}
      /\ UNCHANGED <<node, data, call, fd, pre>>
  BY DEF Acquire, Fail, ReadChunk, EndOfFile, MakeTargetDir, ListDir, StatFile, fsVars, ioVars, Moves
<1>2. pc'[p] \notin {"idle", "done"} /\ (pc'[p] = "close" => res'[p] = "err" \/ fd[p] # None)
  <2> USE DEF Moves, IInv, TypeOK, Goto, Settle
  <2>1. CASE Acquire(p) \/ Fail(p) \/ ReadChunk(p)
    BY <1>1, <2>1 DEF Acquire, Fail, ReadChunk
  <2>2. CASE EndOfFile(p)
    BY <2>2 DEF EndOfFile, CallOK, OpenOK
  <2>3. CASE MakeTargetDir(p)
    BY <2>3 DEF MakeTargetDir
  <2> QED
    BY <2>1, <2>2, <2>3
<1>3. /\ Op(p)' = Op(p) /\ Name(p)' = Name(p) /\ (Seen(p)' <=> Seen(p))
  BY <1>1, <1>2 DEF Op, Name, Seen
<1>4. (Writing(p)' <=> Writing(p)) /\ (Looked(p)' <=> Looked(p))
  BY <1>1, <1>2, <1>3 DEF Writing, Looked
<1>5. SameView(p)
  BY <1>1, <1>2, <1>3, <1>4 DEF SameView, StageOf, AnswerOf, Asked, Result
<1> QED
  BY <1>1, <1>3, <1>4, <1>5, Quiet

\* A chunk that is written is not seen: until the writer is done, the file is what it was.
LEMMA WriteSteps ==
  ASSUME NEW p, Moves(p), WriteChunk(p)
  PROVE  UNCHANGED Store!vars
<1>1. /\ p \in Procs /\ pc[p] = "io" /\ Op(p) \in {"write", "append"} /\ fd[p] # None
      /\ UNCHANGED <<node, call, fd, pre>> /\ pc'[p] \in {"io", "close"}
      /\ fd[p] \in Inodes
  BY DEF Moves, WriteChunk, IInv, TypeOK, CallOK, OpenOK, Goto, Settle
<1>2. Seen(p) /\ Seen(p)' /\ Op(p)' = Op(p) /\ Name(p)' = Name(p)
  BY <1>1, UserSeen DEF Moves, Seen, Op, Name, Writers
<1>3. Writing(p) /\ Writing(p)' /\ ~Looked(p) /\ ~Looked(p)'
  BY <1>1, <1>2 DEF Writing, Looked, Readers, Writers
<1>4. SameView(p)
  BY <1>1, <1>2, <1>3 DEF SameView, StageOf, AnswerOf, Asked, Result, Readers
<1>5. ASSUME NEW n \in Files, \A q \in Procs : ~WritesTo(q, n), node[n] # None
      PROVE  data'[node[n]] = data[node[n]]
  <2>1. fd[p] # node[n] /\ node[n] \in Inodes
    BY <1>1, <1>3, <1>5 DEF WritesTo, Moves, IInv, TypeOK, Files
  <2> QED
    BY <1>1, <2>1 DEF WriteChunk, Moves, IInv, TypeOK
<1> QED
  BY <1>1, <1>2, <1>3, <1>4, <1>5, Quiet

\* os.Create of a destination without its lock (file.go:86) touches no file of the promise.
LEMMA CreateTargetSteps ==
  ASSUME NEW p, Moves(p), CreateTarget(p)
  PROVE  UNCHANGED Store!vars
<1>1. /\ p \in Procs /\ pc[p] = "create" /\ pc'[p] = "io" /\ Op(p) = "copy" /\ fd[p] # None
      /\ UNCHANGED <<call, fd, pre, res>> /\ call[p] \in Calls /\ TypeOK /\ OwnInodes
  BY DEF Moves, CreateTarget, ioVars, IInv, TypeOK, CallOK, OpenOK, PlaceOK, Goto
<1>2. call[p].to \in Names \ Files
  BY <1>1 DEF Moves, HandlerAssumption, Files, Op
<1>3. PICK i \in Inodes : OpenOrCreate(call[p].to, i, TRUE)
  BY DEF CreateTarget
<1>4. MadeEmpty(call[p].to, i)
  BY <1>1, <1>2, <1>3, CreateDoes DEF Moves
<1>5. \A n \in Files : node'[n] = node[n]
  BY <1>2, <1>4 DEF MadeEmpty, Files
<1>6. ASSUME NEW j \in Inodes, j[1] # call[p].to PROVE data'[j] = data[j]
  BY <1>4, <1>6 DEF MadeEmpty
<1>7. Seen(p) /\ Seen(p)' /\ Op(p)' = Op(p) /\ Name(p)' = Name(p) /\ Name(p) \in Files
  BY <1>1, UserSeen DEF Moves, Seen, Op, Name, Readers
<1>8. ~Writing(p) /\ ~Writing(p)' /\ Looked(p) /\ Looked(p)'
  BY <1>1, <1>7 DEF Writing, Looked, Readers, Writers
<1>9. data'[fd[p]] = data[fd[p]]
  <2>1. fd[p] \in Inodes /\ fd[p][1] = Name(p)
    BY <1>1 DEF Moves, IInv, CallOK, OpenOK, TypeOK
  <2> QED
    BY <1>2, <1>6, <1>7, <2>1
<1>10. SameView(p)
  BY <1>1, <1>7, <1>8, <1>9 DEF SameView, StageOf, AnswerOf, Asked, Result
<1>11. \A n \in Files : node[n] # None => data'[node[n]] = data[node[n]]
  <2> SUFFICES ASSUME NEW n \in Files, node[n] # None PROVE data'[node[n]] = data[node[n]]
    OBVIOUS
  <2>1. node[n] \in Inodes /\ node[n][1] = n
    BY <1>1 DEF OwnInodes, TypeOK, Files
  <2> QED
    BY <1>2, <1>6, <2>1
<1> QED
  BY <1>5, <1>8, <1>10, <1>11, Quiet

\* Who holds a lock and has nothing open finds no writer at work on the file.
LEMMA NoWriterOn ==
  ASSUME HandlerAssumption, IInv, NEW p \in Procs, Holds(p), fd[p] = None, Name(p) \in Names
  PROVE  /\ node[Name(p)] # None => \A q \in Procs : ~WritesTo(q, Name(p))
         /\ FileOf(Name(p)) = IF node[Name(p)] = None THEN None ELSE data[node[Name(p)]]
<1>1. ASSUME node[Name(p)] # None, NEW q \in Procs, WritesTo(q, Name(p)) PROVE FALSE
  <2>1. q # p /\ Writing(q) /\ fd[q] # None /\ fd[q] = node[Name(p)]
    BY <1>1 DEF WritesTo, Writing
  <2>2. fd[q][1] = Name(q) /\ fd[q][1] = Name(p)
    BY <1>1, <2>1 DEF IInv, CallOK, OpenOK, OwnInodes
  <2> QED
    BY <2>1, <2>2, NoOtherWriter
<1> QED
  BY <1>1, FilesSeenNow DEF FilesSeen

\* OpenFile makes the file, or is not seen; Clear takes effect when it closes.
LEMMA OpenToWriteSteps ==
  ASSUME NEW p, Moves(p), OpenToWrite(p)
  PROVE  [Store!Next]_(Store!vars)
<1>1. /\ p \in Procs /\ HandlerAssumption /\ SparesAssumption /\ IInv /\ TypeOK /\ OwnInodes
      /\ pc[p] = "open" /\ Op(p) \in Writers /\ fd[p] = None
      /\ UNCHANGED call
  BY DEF Moves, OpenToWrite, IInv, CallOK, OpenOK
<1>to. pc'[p] \in {"io", "close"}
  BY <1>1 DEF OpenToWrite, TypeOK, Goto, Settle
<1>n. PICK n \in Names : n = Name(p)
  BY <1>1, UserSeen
<1>2. Seen(p) /\ n = Name(p) /\ n \in Files /\ Holds(p)
  BY <1>1, <1>n, UserSeen DEF Holds, Locked
<1>3. Seen(p)' /\ Op(p)' = Op(p) /\ Name(p)' = n
  BY <1>1, <1>to, <1>2 DEF Seen, Op, Name
<1>4. PICK i \in Inodes : OpenOrCreate(n, i, Op(p) # "append") /\ fd'[p] = i
  BY <1>1, <1>2 DEF OpenToWrite, TypeOK
<1>5. /\ i # None /\ i[1] = n /\ node'[n] = i
      /\ \A m \in Names : m # n => node'[m] = node[m]
      /\ \A j \in Inodes : j # i => data'[j] = data[j]
  BY <1>1, <1>2, <1>4, OpenOrCreateDoes
<1>6. pre'[p] = IF node[n] = None THEN <<>> ELSE data[node[n]]
  BY <1>1, <1>2 DEF OpenToWrite, IInv, Shape
<1>7. Writing(p)' /\ ~Writing(p) /\ ~Looked(p) /\ ~Looked(p)'
  BY <1>1, <1>to, <1>3, <1>4, <1>5 DEF Writing, Looked, Readers, Writers
<1>8. SameView(p) /\ StageOf(p) = "called"
  BY <1>1, <1>to, <1>2, <1>3, <1>7 DEF SameView, StageOf, AnswerOf, Asked, Result, Readers, Writers
<1>9. ASSUME NEW q \in Procs PROVE Undone(q)' <=> Undone(q)
  <2>1. CASE q = p
    BY <1>2, <1>3, <1>4, <1>5, <1>7, <2>1 DEF Undone
  <2>2. CASE q # p /\ Writing(q)
    <3>1. Name(q) # n /\ Name(q) \in Names
      BY <1>1, <1>2, <2>2, NoOtherWriter, UserSeen DEF Writing, Seen
    <3> QED
      BY <1>5, <2>2, <3>1, UndoneKept
  <2>3. CASE q # p /\ ~Writing(q)
    BY <2>3, MovesFrame DEF Undone
  <2> QED
    BY <2>1, <2>2, <2>3
<1>10. ASSUME NEW m \in Names, m # n PROVE FileOf(m)' = FileOf(m)
  <2>1. node'[m] = node[m] /\ node[m] # i
    BY <1>1, <1>5, <1>10 DEF OwnInodes
  <2>2. ~WritesTo(p, m) /\ ~WritesTo(p, m)'
    BY <1>4, <1>7, <2>1 DEF WritesTo
  <2>3. node[m] # None => data'[node[m]] = data[node[m]]
    BY <1>1, <1>5, <2>1 DEF TypeOK
  <2> QED
    BY <2>1, <2>2, <2>3, FileKept
<1>11. FileOf(n)' = pre'[p]
  <2>1. FilesSeen'
    BY FilesSeenNext DEF Moves
  <2>2. WritesTo(p, n)' /\ node'[n] # None
    BY <1>4, <1>5, <1>7 DEF WritesTo
  <2> QED
    BY <1>1, <1>2, <2>1, <2>2 DEF FilesSeen
<1>12. FileOf(n) = IF node[n] = None THEN None ELSE data[node[n]]
  BY <1>1, <1>2, NoWriterOn
<1>13. OthersSame(p) /\ SameUndone
  BY <1>9, MovesFrame DEF SameUndone
<1>14. CASE node[n] = None
  <2>1. FileOf(n) = None /\ FileTurns(n, <<>>)
    BY <1>6, <1>10, <1>11, <1>12, <1>14 DEF FileTurns, Files
  <2>2. Store!Make(p)
    BY <1>1, <1>2, <1>8, <1>13, <2>1, Makes
  <2> QED
    BY <1>1, <2>2 DEF Store!Next
<1>15. CASE node[n] # None
  <2>1. SameFiles
    BY <1>6, <1>10, <1>11, <1>12, <1>15 DEF SameFiles, Files
  <2> QED
    BY <1>1, <1>8, <1>13, <2>1, Stutters
<1> QED
  BY <1>14, <1>15

\* A reader opens its file, or there is none.
LEMMA OpenToReadSteps ==
  ASSUME NEW p, Moves(p), OpenToRead(p) \/ OpenAbsent(p)
  PROVE  [Store!Next]_(Store!vars)
<1> DEFINE n == Name(p)
<1>1. /\ p \in Procs /\ HandlerAssumption /\ IInv /\ TypeOK
      /\ pc[p] = "open" /\ Op(p) \in Readers /\ fd[p] = None
      /\ UNCHANGED <<fsVars, call, pre>>
  BY DEF Moves, OpenToRead, OpenAbsent, IInv, CallOK, OpenOK
<1>to. pc'[p] \in {"create", "io", "close"}
  BY <1>1 DEF OpenToRead, OpenAbsent, TypeOK, Goto, Settle
<1>2. Seen(p) /\ n \in Files /\ n \in Names /\ Holds(p)
  BY <1>1, UserSeen DEF Holds, Locked
<1>3. Seen(p)' /\ Op(p)' = Op(p) /\ Name(p)' = n
  BY <1>1, <1>to, <1>2 DEF Seen, Op, Name
<1>4. ~Writing(p) /\ ~Writing(p)' /\ ~Looked(p)
  BY <1>1, <1>to, <1>3 DEF Writing, Looked, Readers, Writers
<1>5. FileOf(n) = IF node[n] = None THEN None ELSE data[node[n]]
  BY <1>1, <1>2, NoWriterOn
<1>6. StageOf(p) = "called" /\ AnswerOf(p) = None
  BY <1>1, <1>2, <1>4 DEF StageOf, AnswerOf
<1>7. Asked(p)' = Asked(p) /\ Result(p)' = Result(p)
  BY <1>1, <1>to, <1>2, <1>3 DEF Asked, Result
<1>8. CASE Looked(p)'
  <2>1. StageOf(p)' = "looked"
    BY <1>1, <1>to, <1>3, <1>8 DEF StageOf
  <2>2. AnswerOf(p)' = FileOf(n)
    <3>1. CASE OpenToRead(p)
      BY <1>1, <1>to, <1>3, <1>5, <3>1 DEF OpenToRead, AnswerOf, fsVars, TypeOK
    <3>2. CASE OpenAbsent(p)
      BY <1>1, <1>to, <1>3, <1>5, <3>2 DEF OpenAbsent, AnswerOf, ioVars
    <3> QED
      BY <3>1, <3>2
  <2>3. Becomes(p, "looked", FileOf(n), Asked(p), Result(p))
    BY <1>7, <2>1, <2>2, MovesFrame DEF Becomes
  <2>4. SameFiles
    BY <1>1, <1>4, FileKept DEF SameFiles, fsVars, WritesTo, Files
  <2>5. SameUndone
    BY <1>1, <1>4, UndoneKept DEF SameUndone, fsVars
  <2>6. Store!Look(p)
    BY <1>1, <1>2, <1>6, <2>3, <2>4, <2>5, Looks
  <2> QED
    BY <1>1, <2>6 DEF Store!Next
<1>9. CASE ~Looked(p)'
  <2>1. fd'[p] = None
    BY <1>1, <1>to, <1>3, <1>9 DEF Looked
  <2>2. StageOf(p)' = "called" /\ AnswerOf(p)' = None
    BY <1>1, <1>to, <1>3, <1>9, <2>1 DEF StageOf, AnswerOf
  <2>3. SameView(p)
    BY <1>6, <1>7, <2>2 DEF SameView
  <2> QED
    BY <1>1, <1>4, <2>3, Quiet DEF fsVars
<1> QED
  BY <1>8, <1>9

\* What a writer leaves is its data after what it found, as far as it got.
LEMMA WriterOutcome ==
  ASSUME HandlerAssumption, IInv, NEW p \in Procs, pc[p] = "close", Op(p) \in Writers, fd[p] # None
  PROVE  data[fd[p]] \in Store!Outcomes(call[p], pre[p], res[p])
<1>1. /\ WriterOK(p) /\ TypeOK /\ call[p].op = Op(p) /\ off[p] \in Nat
      /\ res[p] \in {"ok", "err"} /\ pre[p] # None
  BY DEF IInv, CallOK, TypeOK, Op, PlaceOK, WriterOK, HandlerAssumption
<1>2. CASE Op(p) = "clear"
  BY <1>1, <1>2 DEF WriterOK, Store!Outcomes
<1>3. CASE Op(p) # "clear"
  <2> DEFINE s == call[p].data
  <2>1. s \in Seq(Nat)
    BY <1>1, <1>3 DEF HandlerAssumption, TypeOK, Writers, Op
  <2>2. off[p] \in 0..Len(s) /\ (res[p] = "ok" => off[p] = Len(s))
    BY <1>1, <1>3, <2>1, LenProperties DEF WriterOK
  <2>3. SubSeq(s, 1, off[p]) \in Store!Prefixes(s) /\ (res[p] = "ok" => SubSeq(s, 1, off[p]) = s)
    BY <2>1, <2>2, SubSeqFull DEF Store!Prefixes
  <2>4. CASE Op(p) = "write"
    <3>1. data[fd[p]] = SubSeq(s, 1, off[p])
      BY <1>1, <2>4 DEF WriterOK
    <3> QED
      BY <1>1, <2>3, <2>4, <3>1 DEF Store!Outcomes
  <2>5. CASE Op(p) = "append"
    <3>1. data[fd[p]] = pre[p] \o SubSeq(s, 1, off[p])
      BY <1>1, <2>5 DEF WriterOK, Writers
    <3> QED
      BY <1>1, <2>3, <2>5, <3>1 DEF Store!Outcomes
  <2> QED
    BY <1>3, <2>4, <2>5 DEF Writers
<1> QED
  BY <1>2, <1>3

\* A call that fails may have changed nothing.
LEMMA NoOutcome ==
  ASSUME NEW c, NEW old, c.op \in Writers \cup {"delete", "create"}
  PROVE  old \in Store!Outcomes(c, old, "err")
BY DEF Store!Outcomes, Writers

\* The unlocking is the moment at which a writer's change is seen, whole or, after an
\* error, in part.
LEMMA FinishSteps ==
  ASSUME NEW p, Moves(p), Finish(p)
  PROVE  [Store!Next]_(Store!vars)
<1>1. /\ p \in Procs /\ HandlerAssumption /\ IInv /\ TypeOK /\ OwnInodes
      /\ pc[p] = "close" /\ pc'[p] = "done" /\ fd'[p] = None
      /\ UNCHANGED <<node, call, got, res>>
      /\ res[p] \in {"ok", "err"} /\ Op(p) \in Locked
  BY DEF Moves, Finish, IInv, TypeOK, CallOK, PlaceOK, Goto
<1>2. \A m \in Names : node[m] # None => data'[node[m]] = data[node[m]]
  BY <1>1 DEF Finish, TypeOK, Linked
<1>3. /\ (Seen(p)' <=> Seen(p)) /\ Op(p)' = Op(p) /\ Name(p)' = Name(p) /\ ~Writing(p)'
  BY <1>1 DEF Seen, Op, Name, Writing
<1>4. CASE ~Seen(p)
  <2>1. ~Writing(p) /\ SameView(p)
    BY <1>3, <1>4 DEF Writing, SameView, StageOf, AnswerOf, Asked, Result
  <2> QED
    BY <1>1, <1>2, <1>3, <2>1, Quiet DEF Files
<1>5. CASE Seen(p)
  <2>n. PICK n \in Names : n = Name(p)
    BY <1>1, NameIsName DEF Locked, Readers, Writers
  <2>1. n = Name(p) /\ n \in Files
    BY <1>1, <1>5, <2>n DEF Seen, Locked, Readers, Writers
  <2>2. StageOf(p)' = "done" /\ Asked(p)' = Asked(p) /\ Result(p)' = res[p] /\ OthersSame(p)
    BY <1>1, <1>3, <1>5, MovesFrame DEF StageOf, Asked, Result
  <2>3. \A q \in Procs : Undone(q)' <=> Undone(q) /\ q # p
    BY <1>1, <1>3, UndoneKept DEF Undone
  <2>4. ASSUME NEW m \in Names, ~WritesTo(p, m) PROVE FileOf(m)' = FileOf(m)
    BY <1>1, <1>2, <1>3, <2>4, FileKept DEF WritesTo
  <2>5. CASE Op(p) \notin Readers
    <3>1. /\ AnswerOf(p) = None /\ AnswerOf(p)' = None /\ StageOf(p) = "called"
          /\ Op(p) \in Writers \cup {"delete", "create"} /\ call[p].op = Op(p)
      BY <1>1, <1>3, <1>5, <2>5 DEF AnswerOf, StageOf, Looked, Locked, Op
    <3>r. PICK r \in {"ok", "err"} : r = res[p]
      BY <1>1
    <3>2. Becomes(p, "done", AnswerOf(p), Asked(p), r)
      BY <2>2, <3>1, <3>r DEF Becomes
    <3>3. Store!End(p, r)
      BY <1>1, <2>3, <3>2, Ends
    <3>4. CASE Undone(p)
      <4>1. \A m \in Names : ~WritesTo(p, m)
        BY <1>1, <3>4 DEF Undone, Writing, WritesTo, IInv, CallOK, OpenOK, OwnInodes
      <4>2. SameFiles
        BY <2>4, <4>1 DEF SameFiles, Files
      <4>3. Store!Change(p, r)
        BY <1>1, <1>5, <2>1, <3>1, <3>2, <3>3, <3>4, <4>2, Changes
      <4> QED
        BY <1>1, <4>3 DEF Store!Next
    <3>5. CASE ~Undone(p) /\ fd[p] = None
      <4>1. \A m \in Names : ~WritesTo(p, m)
        BY <3>5 DEF Writing, WritesTo
      <4>2. SameFiles
        BY <2>4, <4>1 DEF SameFiles, Files
      <4>3. FileTurns(n, FileOf(n))
        BY <4>2 DEF SameFiles, FileTurns
      <4>4. res[p] = "err"
        BY <1>1, <2>5, <3>5 DEF IInv, CallOK, OpenOK, Readers
      <4>5. FileOf(n) \in Store!Outcomes(call[p], FileOf(n), r)
        BY <3>1, <3>r, <4>4, NoOutcome
      <4>6. Store!Change(p, r)
        BY <1>1, <1>5, <2>1, <3>1, <3>2, <3>3, <3>5, <4>3, <4>5, Changes
      <4> QED
        BY <1>1, <4>6 DEF Store!Next
    <3>6. CASE ~Undone(p) /\ fd[p] # None
      <4>1. Op(p) \in Writers /\ Writing(p) /\ WritesTo(p, n) /\ node[n] = fd[p]
        BY <1>1, <1>5, <2>1, <2>5, <3>6 DEF IInv, CallOK, OpenOK, Writing, Undone, WritesTo
      <4>2. FileOf(n) = pre[p]
        BY <1>1, <2>1, <3>6, <4>1, FilesSeenNow DEF FilesSeen
      <4>3. ASSUME NEW q \in Procs PROVE ~WritesTo(q, n)'
        <5>1. CASE q = p
          BY <1>3, <5>1 DEF WritesTo
        <5>2. CASE q # p
          BY <1>1, <3>6, <4>1, <5>2, MovesFrame, WriterAlone DEF WritesTo
        <5> QED
          BY <5>1, <5>2
      <4>4. FileOf(n)' = data[fd[p]]
        <5>1. FilesSeen'
          BY FilesSeenNext DEF Moves
        <5>2. FileOf(n)' = (data[node[n]])'
          BY <1>1, <3>6, <4>1, <4>3, <5>1 DEF FilesSeen
        <5> QED
          BY <1>1, <1>2, <3>6, <4>1, <5>2
      <4>5. \A m \in Names : m # n => ~WritesTo(p, m)
        BY <1>1, <3>6, <4>1 DEF WritesTo, OwnInodes
      <4>6. FileTurns(n, data[fd[p]])
        BY <2>4, <4>4, <4>5 DEF FileTurns, Files
      <4>7. data[fd[p]] \in Store!Outcomes(call[p], FileOf(n), r)
        BY <1>1, <3>6, <4>1, <4>2, <3>r, WriterOutcome
      <4>8. Store!Change(p, r)
        BY <1>1, <1>5, <2>1, <3>1, <3>2, <3>3, <3>6, <4>6, <4>7, Changes
      <4> QED
        BY <1>1, <4>8 DEF Store!Next
    <3> QED
      BY <3>4, <3>5, <3>6
  <2>6. CASE Op(p) \in Readers
    <3>1. ~Writing(p)
      BY <2>6 DEF Writing, Readers, Writers
    <3>2. SameFiles
      BY <2>4, <3>1 DEF SameFiles, WritesTo, Files
    <3>3. CASE res[p] = "ok"
      <4>1. StageOf(p) = "looked"
        BY <1>1, <1>5, <2>6, <3>3 DEF StageOf, Looked
      <4>2. AnswerOf(p)' = got[p]
        BY <1>1, <1>3, <1>5, <2>6, <3>3 DEF AnswerOf
      <4>3. AnswerOf(p) = got[p] /\ (Op(p) = "read" => got[p] # None)
        <5>1. CASE fd[p] # None
          <6>1. got[p] = data[fd[p]] /\ got[p] \in Seq(Nat)
            BY <1>1, <2>6, <3>3, <5>1 DEF IInv, CallOK, ReaderOK
          <6> QED
            BY <1>1, <1>5, <2>6, <5>1, <6>1 DEF AnswerOf, HandlerAssumption
        <5>2. CASE fd[p] = None
          BY <1>1, <1>5, <2>6, <3>3, <5>2 DEF AnswerOf, IInv, CallOK, OpenOK
        <5> QED
          BY <5>1, <5>2
      <4>4. Becomes(p, "done", AnswerOf(p), Asked(p), "ok")
        BY <2>2, <3>3, <4>2, <4>3 DEF Becomes
      <4>5. Store!End(p, "ok")
        BY <1>1, <2>3, <4>4, Ends
      <4>6. Store!Answer(p)
        BY <1>1, <1>5, <3>2, <4>1, <4>3, <4>4, <4>5, Answers
      <4> QED
        BY <1>1, <4>6 DEF Store!Next
    <3>4. CASE res[p] = "err"
      <4>1. StageOf(p) \in {"called", "looked"}
        BY <1>1, <1>5 DEF StageOf
      <4>2. AnswerOf(p)' = None
        BY <1>1, <1>3, <1>5, <2>6, <3>4 DEF AnswerOf
      <4>3. Becomes(p, "done", None, Asked(p), "err")
        BY <2>2, <3>4, <4>2 DEF Becomes
      <4>4. Store!End(p, "err")
        BY <1>1, <2>3, <4>3, Ends
      <4>5. Store!GiveUp(p)
        BY <1>1, <1>5, <2>6, <3>2, <4>1, <4>3, <4>4, GivesUp
      <4> QED
        BY <1>1, <4>5 DEF Store!Next
    <3> QED
      BY <1>1, <3>3, <3>4
  <2> QED
    BY <2>5, <2>6
<1> QED
  BY <1>4, <1>5

\* A call that has nothing open and ends with result r.
LEMMA DoneView ==
  ASSUME NEW p, Moves(p), pc[p] \notin {"idle", "done", "close"}, pc'[p] = "done",
         UNCHANGED <<call, fd>>, fd[p] = None, Op(p) \notin Readers,
         NEW r \in {"ok", "err"}, res'[p] = r
  PROVE  /\ ~Writing(p) /\ ~Writing(p)'
         /\ Seen(p) => StageOf(p) = "called" /\ Becomes(p, "done", AnswerOf(p), Asked(p), r)
         /\ ~Seen(p) => SameView(p)
<1>1. /\ (Seen(p)' <=> Seen(p)) /\ Op(p)' = Op(p) /\ ~Looked(p) /\ ~Looked(p)'
      /\ ~Writing(p) /\ ~Writing(p)'
  BY DEF Seen, Op, Name, Writing, Looked
<1>2. AnswerOf(p) = None /\ AnswerOf(p)' = None /\ Asked(p)' = Asked(p)
  BY <1>1 DEF AnswerOf, Asked
<1>3. Seen(p) => StageOf(p) = "called" /\ StageOf(p)' = "done" /\ Result(p)' = r
  BY <1>1 DEF StageOf, Result
<1>4. ~Seen(p) => SameView(p)
  BY <1>1, <1>2 DEF SameView, StageOf, Result
<1> QED
  BY <1>1, <1>2, <1>3, <1>4, MovesFrame DEF Becomes

\* The files other than the one whose name changes hands.
LEMMA OtherFiles ==
  ASSUME NEW p, Moves(p), ~Writing(p), ~Writing(p)', NEW n \in Names,
         \A m \in Names : m # n => node'[m] = node[m],
         \A j \in Inodes : j[1] # n => data'[j] = data[j],
         NEW m \in Names, m # n
  PROVE  /\ FileOf(m)' = FileOf(m)
         /\ node[m] # None => data'[node[m]] = data[node[m]]
<1>1. node[m] # None => data'[node[m]] = data[node[m]]
  <2>1. node[m] # None => node[m] \in Inodes /\ node[m][1] = m
    BY DEF Moves, IInv, TypeOK, OwnInodes
  <2> QED
    BY <2>1
<1> QED
  BY <1>1, FileKept DEF WritesTo

\* unlink takes one name away and touches the inodes of no other.
LEMMA UnlinkSees ==
  ASSUME HandlerAssumption, IInv, NEW n \in Names, Unlink(n)
  PROVE  /\ node[n] # None /\ node'[n] = None
         /\ \A m \in Names : m # n => node'[m] = node[m]
         /\ \A j \in Inodes : j[1] # n => data'[j] = data[j]
<1>1. TypeOK /\ OwnInodes
  BY DEF IInv
<1> QED
  BY <1>1, UnlinkDoes DEF OwnInodes

\* Delete takes effect when it unlinks (file.go:131).
LEMMA RemoveFileSteps ==
  ASSUME NEW p, Moves(p), RemoveFile(p)
  PROVE  [Store!Next]_(Store!vars)
<1>1. /\ p \in Procs /\ HandlerAssumption /\ IInv /\ TypeOK
      /\ pc[p] = "open" /\ pc'[p] = "done" /\ Op(p) = "delete" /\ fd[p] = None
      /\ UNCHANGED <<call, fd>> /\ res'[p] = "ok"
  BY DEF Moves, RemoveFile, ioVars, IInv, TypeOK, CallOK, OpenOK, Goto, Writers, Readers
<1>n. PICK n \in Names : n = Name(p)
  BY <1>1, NameIsName
<1>2. Holds(p)
  BY <1>1 DEF Holds, Locked
<1>3. /\ node'[n] = None
      /\ \A m \in Names : m # n => node'[m] = node[m]
      /\ \A j \in Inodes : j[1] # n => data'[j] = data[j]
  BY <1>1, <1>n, UnlinkSees DEF RemoveFile
<1>4. /\ ~Writing(p) /\ ~Writing(p)'
      /\ Seen(p) => StageOf(p) = "called" /\ Becomes(p, "done", AnswerOf(p), Asked(p), "ok")
      /\ ~Seen(p) => SameView(p)
  BY <1>1, DoneView DEF Readers
<1>5. \A m \in Names : m # n => /\ FileOf(m)' = FileOf(m)
                                /\ node[m] # None => data'[node[m]] = data[node[m]]
  BY <1>3, <1>4, OtherFiles
<1>6. CASE ~Seen(p)
  <2>1. n \notin Files
    BY <1>1, <1>n, <1>6 DEF Seen
  <2> QED
    BY <1>3, <1>4, <1>5, <1>6, <2>1, Quiet DEF Files
<1>7. CASE Seen(p)
  <2>1. n \in Files
    BY <1>1, <1>n, <1>7 DEF Seen
  <2>2. \A q \in Procs : Undone(q)' <=> Undone(q) /\ q # p
    <3> SUFFICES ASSUME NEW q \in Procs PROVE Undone(q)' <=> Undone(q) /\ q # p
      OBVIOUS
    <3>1. CASE q = p
      BY <1>4, <3>1 DEF Undone
    <3>2. CASE q # p /\ Writing(q)
      <4>1. Name(q) # n /\ Name(q) \in Names
        BY <1>1, <1>2, <1>n, <3>2, NoOtherWriter, UserSeen DEF Writing, Seen
      <4> QED
        BY <1>3, <3>2, <4>1, UndoneKept
    <3>3. CASE q # p /\ ~Writing(q)
      BY <3>3, MovesFrame DEF Undone
    <3> QED
      BY <3>1, <3>2, <3>3
  <2>3. FileOf(n)' = None
    BY <1>3, FilesSeenNext DEF Moves, FilesSeen
  <2>4. FileTurns(n, None)
    BY <1>5, <2>3 DEF FileTurns, Files
  <2>5. Store!End(p, "ok")
    BY <1>1, <1>4, <1>7, <2>2, Ends
  <2>6. None \in Store!Outcomes(call[p], FileOf(n), "ok") /\ ~Undone(p)
    BY <1>1, <1>4 DEF Store!Outcomes, Op, Undone
  <2>7. Store!Change(p, "ok")
    BY <1>1, <1>4, <1>7, <1>n, <2>1, <2>4, <2>5, <2>6, Changes
  <2> QED
    BY <1>1, <2>7 DEF Store!Next
<1> QED
  BY <1>6, <1>7

\* CreateIfNotExists that finds the file, or fails to look, changes nothing.
LEMMA StatSteps ==
  ASSUME NEW p, Moves(p), StatFile(p), pc'[p] = "done"
  PROVE  [Store!Next]_(Store!vars)
<1>1. /\ p \in Procs /\ HandlerAssumption /\ IInv
      /\ pc[p] = "stat" /\ Op(p) = "create" /\ fd[p] = None
      /\ UNCHANGED <<fsVars, call, fd, pre>>
  BY DEF Moves, StatFile, ioVars, IInv, CallOK, PlaceOK, OpenOK
<1>n. PICK n \in Names : n = Name(p)
  BY <1>1, NameIsName DEF IInv
<1>r. PICK r \in {"ok", "err"} : r = res'[p] /\ (r = "ok" => node[n] # None)
  BY <1>1, <1>n DEF StatFile, Goto, Done, IInv, TypeOK
<1>2. /\ ~Writing(p) /\ ~Writing(p)'
      /\ Seen(p) => StageOf(p) = "called" /\ Becomes(p, "done", AnswerOf(p), Asked(p), r)
      /\ ~Seen(p) => SameView(p)
  BY <1>1, <1>r, DoneView DEF Readers
<1>3. CASE ~Seen(p)
  BY <1>1, <1>2, <1>3, Quiet DEF fsVars
<1>4. CASE Seen(p)
  <2>1. n \in Files
    BY <1>1, <1>n, <1>4 DEF Seen
  <2>2. \A q \in Procs : Undone(q)' <=> Undone(q) /\ q # p
    BY <1>1, <1>2, UndoneKept DEF fsVars, Undone
  <2>3. FileTurns(n, FileOf(n))
    BY <1>1, <1>2, FileKept DEF fsVars, WritesTo, FileTurns, Files
  <2>4. r = "ok" => FileOf(n) # None
    <3> SUFFICES ASSUME r = "ok" PROVE FileOf(n) # None
      OBVIOUS
    <3>1. node[n] # None /\ data[node[n]] \in Seq(Nat)
      BY <1>1, <1>r DEF IInv, TypeOK
    <3>2. \A q \in Procs : WritesTo(q, n) => pre[q] \in Seq(Nat)
      BY <1>1 DEF WritesTo, Writing, IInv, CallOK, WriterOK
    <3>3. FileOf(n) \in Seq(Nat)
      BY <1>1, <3>1, <3>2, FilesSeenNow DEF FilesSeen
    <3> QED
      BY <1>1, <3>3 DEF HandlerAssumption
  <2>5. FileOf(n) \in Store!Outcomes(call[p], FileOf(n), r) /\ ~Undone(p)
    BY <1>1, <1>2, <2>4 DEF Store!Outcomes, Op, Undone
  <2>6. Store!End(p, r)
    BY <1>1, <1>2, <1>4, <2>2, Ends
  <2>7. Store!Change(p, r)
    BY <1>1, <1>2, <1>4, <1>n, <2>1, <2>3, <2>5, <2>6, Changes
  <2> QED
    BY <1>1, <2>7 DEF Store!Next
<1> QED
  BY <1>3, <1>4

\* It makes the file where there is none, whoever holds the name's lock.
LEMMA CreateExclusiveSteps ==
  ASSUME NEW p, Moves(p), CreateExclusive(p)
  PROVE  [Store!Next]_(Store!vars)
<1>1. /\ p \in Procs /\ HandlerAssumption /\ SparesAssumption /\ IInv /\ TypeOK /\ OwnInodes
      /\ pc[p] = "excl" /\ pc'[p] = "done" /\ Op(p) = "create" /\ fd[p] = None
      /\ UNCHANGED <<call, fd, pre>>
  BY DEF Moves, CreateExclusive, ioVars, IInv, TypeOK, CallOK, PlaceOK, OpenOK, Goto, Done
<1>n. PICK n \in Names : n = Name(p)
  BY <1>1, NameIsName
<1>2. CASE node[n] = None /\ res'[p] = "ok" /\ \E i \in Inodes : OpenOrCreate(Name(p), i, FALSE)
  <2>1. PICK i \in Inodes : MadeEmpty(n, i)
    BY <1>1, <1>n, <1>2, CreateDoes
  <2>2. /\ i # None /\ i[1] = n /\ node'[n] = i /\ data'[i] = <<>>
        /\ \A q \in Procs : fd[q] # i
        /\ \A m \in Names : m # n => node'[m] = node[m]
        /\ \A j \in Inodes : j[1] # n => data'[j] = data[j]
    BY <1>2, <2>1 DEF MadeEmpty
  <2>3. /\ ~Writing(p) /\ ~Writing(p)'
        /\ Seen(p) => StageOf(p) = "called" /\ Becomes(p, "done", AnswerOf(p), Asked(p), "ok")
        /\ ~Seen(p) => SameView(p)
    BY <1>1, <1>2, DoneView DEF Readers
  <2>4. \A m \in Names : m # n => /\ FileOf(m)' = FileOf(m)
                                  /\ node[m] # None => data'[node[m]] = data[node[m]]
    BY <2>2, <2>3, OtherFiles
  <2>5. CASE ~Seen(p)
    <3>1. n \notin Files
      BY <1>1, <1>n, <2>5 DEF Seen
    <3> QED
      BY <2>2, <2>3, <2>4, <2>5, <3>1, Quiet DEF Files
  <2>6. CASE Seen(p)
    <3>1. n \in Files
      BY <1>1, <1>n, <2>6 DEF Seen
    <3>2. \A q \in Procs : Undone(q)' <=> Undone(q) /\ q # p
      <4> SUFFICES ASSUME NEW q \in Procs PROVE Undone(q)' <=> Undone(q) /\ q # p
        OBVIOUS
      <4>1. CASE q = p
        BY <2>3, <4>1 DEF Undone
      <4>2. CASE q # p /\ ~Writing(q)
        BY <4>2, MovesFrame DEF Undone
      <4>3. CASE q # p /\ Writing(q) /\ Name(q) # n
        <5>1. Name(q) \in Names
          BY <1>1, <4>3, UserSeen DEF Writing, Seen
        <5> QED
          BY <2>2, <4>3, <5>1, UndoneKept
      <4>4. CASE q # p /\ Writing(q) /\ Name(q) = n
        <5>1. fd[q] # None /\ fd'[q] = fd[q] /\ Name(q)' = n /\ Writing(q)'
          BY <4>4, MovesFrame DEF Writing
        <5> QED
          BY <1>2, <2>2, <4>4, <5>1 DEF Undone
      <4> QED
        BY <4>1, <4>2, <4>3, <4>4
    <3>3. FileOf(n) = None
      BY <1>1, <1>2, FilesSeenNow DEF FilesSeen
    <3>4. FileOf(n)' = <<>>
      <4>1. \A q \in Procs : ~WritesTo(q, n)'
        BY <1>1, <2>2 DEF WritesTo
      <4>2. FileOf(n)' = (data[node[n]])'
        BY <2>2, <4>1, FilesSeenNext DEF Moves, FilesSeen
      <4> QED
        BY <2>2, <4>2
    <3>5. FileTurns(n, <<>>)
      BY <2>4, <3>4 DEF FileTurns, Files
    <3>6. <<>> \in Store!Outcomes(call[p], FileOf(n), "ok") /\ ~Undone(p)
      BY <1>1, <2>3, <3>3 DEF Store!Outcomes, Op, Undone
    <3>7. Store!End(p, "ok")
      BY <1>1, <2>3, <2>6, <3>2, Ends
    <3>8. Store!Change(p, "ok")
      BY <1>1, <1>n, <2>3, <2>6, <3>1, <3>5, <3>6, <3>7, Changes
    <3> QED
      BY <1>1, <3>8 DEF Store!Next
  <2> QED
    BY <2>5, <2>6
<1>3. CASE UNCHANGED fsVars /\ res'[p] = "err"
  <2>1. /\ ~Writing(p) /\ ~Writing(p)'
        /\ Seen(p) => StageOf(p) = "called" /\ Becomes(p, "done", AnswerOf(p), Asked(p), "err")
        /\ ~Seen(p) => SameView(p)
    BY <1>1, <1>3, DoneView DEF Readers
  <2>2. CASE ~Seen(p)
    BY <1>1, <1>3, <2>1, <2>2, Quiet DEF fsVars
  <2>3. CASE Seen(p)
    <3>1. n \in Files
      BY <1>1, <1>n, <2>3 DEF Seen
    <3>2. \A q \in Procs : Undone(q)' <=> Undone(q) /\ q # p
      BY <1>1, <1>3, <2>1, UndoneKept DEF fsVars, Undone
    <3>3. FileTurns(n, FileOf(n))
      BY <1>1, <1>3, <2>1, FileKept DEF fsVars, WritesTo, FileTurns, Files
    <3>4. FileOf(n) \in Store!Outcomes(call[p], FileOf(n), "err") /\ ~Undone(p)
      BY <1>1, <2>1, NoOutcome DEF Op, Undone
    <3>5. Store!End(p, "err")
      BY <1>1, <2>1, <2>3, <3>2, Ends
    <3>6. Store!Change(p, "err")
      BY <1>1, <1>n, <2>1, <2>3, <3>1, <3>3, <3>4, <3>5, Changes
    <3> QED
      BY <1>1, <3>6 DEF Store!Next
  <2> QED
    BY <2>2, <2>3
<1> QED
  <2>1. UNCHANGED dir
    BY DEF CreateExclusive
  <2>2. \/ node[n] = None /\ res'[p] = "ok" /\ \E i \in Inodes : OpenOrCreate(Name(p), i, FALSE)
        \/ UNCHANGED <<node, data>> /\ res'[p] = "err"
    BY <1>1, <1>n DEF CreateExclusive, Done, TypeOK
  <2> QED
    BY <1>2, <1>3, <2>1, <2>2 DEF fsVars

\* DeleteAll unlinks a file, and who is writing to it writes to one that nobody sees any more.
LEMMA UnlinkNextSteps ==
  ASSUME NEW p, Moves(p), UnlinkNext(p)
  PROVE  [Store!Next]_(Store!vars)
<1>1. /\ p \in Procs /\ HandlerAssumption /\ IInv /\ TypeOK
      /\ pc[p] = "unlink" /\ Op(p) = "deleteall" /\ fd[p] = None
      /\ UNCHANGED <<pc, call, fd, res, pre>>
  BY DEF Moves, UnlinkNext, IInv, CallOK, PlaceOK, OpenOK
<1>2. /\ Seen(p) /\ Seen(p)' /\ ~Writing(p) /\ ~Writing(p)' /\ ~Looked(p) /\ ~Looked(p)'
      /\ Op(p)' = Op(p)
  BY <1>1 DEF Seen, Writing, Looked, Op, Readers
<1>3. SameView(p) /\ StageOf(p) = "called"
  BY <1>1, <1>2 DEF SameView, StageOf, AnswerOf, Asked, Result, Readers
<1>4. CASE UNCHANGED <<node, data>>
  BY <1>2, <1>3, <1>4, Quiet
<1>5. ASSUME NEW n \in Names, Unlink(n) PROVE [Store!Next]_(Store!vars)
  <2>1. /\ node[n] # None /\ node'[n] = None
        /\ \A m \in Names : m # n => node'[m] = node[m]
        /\ \A j \in Inodes : j[1] # n => data'[j] = data[j]
    BY <1>1, <1>5, UnlinkSees
  <2>2. \A m \in Names : m # n => /\ FileOf(m)' = FileOf(m)
                                  /\ node[m] # None => data'[node[m]] = data[node[m]]
    BY <1>2, <2>1, OtherFiles
  <2>3. CASE n \notin Files
    BY <1>2, <1>3, <2>1, <2>2, <2>3, Quiet DEF Files
  <2>4. CASE n \in Files
    <3>1. FileOf(n)' = None
      BY <2>1, FilesSeenNext DEF Moves, FilesSeen
    <3>2. FileTurns(n, None)
      BY <2>2, <3>1 DEF FileTurns, Files
    <3>3. ASSUME NEW q \in Procs
          PROVE  /\ Undone(q) => Undone(q)'
                 /\ Undone(q)' => \/ Undone(q)
                                  \/ /\ Seen(q) /\ StageOf(q) = "called"
                                     /\ Op(q) \in Writers /\ Name(q) = n
      <4>1. CASE q = p
        BY <1>2, <4>1 DEF Undone
      <4>2. CASE q # p /\ ~Writing(q)
        BY <4>2, MovesFrame DEF Undone
      <4>3. CASE q # p /\ Writing(q) /\ Name(q) # n
        <5>1. Name(q) \in Names
          BY <1>1, <4>3, UserSeen DEF Writing, Seen
        <5> QED
          BY <2>1, <4>3, <5>1, UndoneKept
      <4>4. CASE q # p /\ Writing(q) /\ Name(q) = n
        <5>1. fd[q] # None /\ fd'[q] = fd[q] /\ Name(q)' = n /\ Writing(q)'
          BY <4>4, MovesFrame DEF Writing
        <5>2. Seen(q) /\ Op(q) \in Writers /\ pc[q] # "done" /\ ~Looked(q)
          BY <1>1, <4>4 DEF Writing, IInv, CallOK, OpenOK, Looked, Readers, Writers
        <5>3. StageOf(q) = "called"
          BY <5>2 DEF StageOf
        <5>4. Undone(q)'
          BY <2>1, <5>1 DEF Undone
        <5> QED
          BY <4>4, <5>2, <5>3, <5>4
      <4> QED
        BY <4>1, <4>2, <4>3, <4>4
    <3>4. Store!Remove(p, n)
      BY <1>1, <1>2, <1>3, <2>4, <3>2, <3>3, MovesFrame, Removes
    <3> QED
      BY <1>1, <2>4, <3>4 DEF Store!Next
  <2> QED
    BY <2>3, <2>4
<1> QED
  BY <1>1, <1>4, <1>5 DEF UnlinkNext, TypeOK

\* DeleteAll that ends, with the directory gone or not, and NewFileHandler.
LEMMA DirSteps ==
  ASSUME NEW p, Moves(p), (ListDir(p) /\ pc'[p] = "done") \/ RemoveDir(p) \/ MakeBase(p)
  PROVE  [Store!Next]_(Store!vars)
<1>1. /\ p \in Procs /\ HandlerAssumption /\ IInv /\ TypeOK
      /\ pc[p] \in {"list", "unlink", "mkbase"} /\ pc'[p] = "done" /\ fd[p] = None
      /\ Op(p) = IF pc[p] = "mkbase" THEN "new" ELSE "deleteall"
      /\ UNCHANGED <<node, data, call, fd, pre>>
  BY DEF Moves, ListDir, RemoveDir, MakeBase, fsVars, ioVars, IInv, TypeOK, CallOK, PlaceOK, OpenOK,
     Goto, Done
<1>r. PICK r \in {"ok", "err"} :
        r = res'[p] /\ (r = "ok" => pc[p] = "mkbase" \/ \A n \in Names : node[n] = None)
  BY <1>1 DEF ListDir, RemoveDir, MakeBase, Goto, Done, TypeOK
<1>2. /\ ~Writing(p) /\ ~Writing(p)'
      /\ Seen(p) => StageOf(p) = "called" /\ Becomes(p, "done", AnswerOf(p), Asked(p), r)
      /\ ~Seen(p) => SameView(p)
  BY <1>1, <1>r, DoneView DEF Readers
<1>3. CASE pc[p] = "mkbase"
  <2>1. ~Seen(p)
    BY <1>1, <1>3 DEF Seen
  <2> QED
    BY <1>1, <1>2, <2>1, Quiet
<1>4. CASE pc[p] # "mkbase"
  <2>1. Seen(p) /\ Op(p) = "deleteall"
    BY <1>1, <1>4 DEF Seen
  <2>2. \A q \in Procs : Undone(q)' <=> Undone(q) /\ q # p
    BY <1>1, <1>2, UndoneKept DEF Undone
  <2>3. SameFiles
    BY <1>1, <1>2, FileKept DEF WritesTo, SameFiles, Files
  <2>4. r = "ok" => \A n \in Files : FileOf(n) = None
    BY <1>1, <1>r, <1>4, FilesSeenNow DEF FilesSeen, Files
  <2>5. Store!End(p, r)
    BY <1>1, <1>2, <2>1, <2>2, Ends
  <2>6. Store!AllGone(p, r)
    BY <1>1, <1>2, <2>1, <2>3, <2>4, <2>5, AllGones
  <2> QED
    BY <1>1, <2>6 DEF Store!Next
<1> QED
  BY <1>3, <1>4

----------------------------------------------------------------------------
(* The refinement. *)

\* No file, no call.
LEMMA InitStore ==
  ASSUME Init
  PROVE  Store!Init
<1>1. \A p \in Procs : ~Seen(p)
  BY DEF Init, Seen
<1>2. \A p \in Procs : StageOf(p) = "idle" /\ AnswerOf(p) = None /\ ~Writing(p)
  BY <1>1 DEF StageOf, AnswerOf, Writing
<1>3. \A n \in Files : FileOf(n) = None
  BY DEF Init, FileOf, Files
<1> QED
  BY <1>1, <1>2, <1>3 DEF Store!Init

\* Every step of the handler is one of FileStore, or none that it sees.
LEMMA NextStore ==
  ASSUME HandlerAssumption, SparesAssumption, IInv, IInv', [Next]_vars
  PROVE  [Store!Next]_(Store!vars)
<1>1. ASSUME NEW p \in Procs, Begin(p) \/ Acquire(p) \/ Step(p)
      PROVE  [Store!Next]_(Store!vars)
  <2>1. Moves(p)
    BY <1>1 DEF Moves
  <2>2. ListDir(p) => pc'[p] \in {"unlink", "done"}
    BY DEF ListDir, Goto, Done, IInv, TypeOK
  <2>3. StatFile(p) => pc'[p] \in {"excl", "done"}
    BY DEF StatFile, Goto, Done, IInv, TypeOK
  <2> QED
    BY <1>1, <2>1, <2>2, <2>3, BeginSteps, ReturnSteps, QuietSteps, WriteSteps, CreateTargetSteps,
       OpenToWriteSteps, OpenToReadSteps, FinishSteps, RemoveFileSteps, StatSteps,
       CreateExclusiveSteps, UnlinkNextSteps, DirSteps DEF Step
<1>2. CASE UNCHANGED vars
  BY <1>2 DEF vars, fsVars, ioVars, Store!vars, FileOf, StageOf, AnswerOf, Seen, Writing, Looked,
     Op, Name
<1> QED
  BY <1>1, <1>2 DEF Next

\* What the locks of file.go:61-170 promise: no Read or Copy sees half of a Write, Append
\* or Clear, no Append is lost, whatever CreateIfNotExists, DeleteAll, and Copy with its
\* destination, do without the lock.  For any number of goroutines and data of any length.
THEOREM Refinement == Spec => ImplementsFileStore
<1>1. Init => Store!Init
  BY InitStore, HandlerAssumption, SparesAssumption
<1>2. IInv /\ IInv' /\ [Next]_vars => [Store!Next]_(Store!vars)
  BY NextStore, HandlerAssumption, SparesAssumption
<1> QED
  BY <1>1, <1>2, Invariance, PTL DEF Spec, ImplementsFileStore, Store!Spec
=============================================================================
