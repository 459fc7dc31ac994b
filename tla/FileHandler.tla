---------------------------- MODULE FileHandler ----------------------------
(***************************************************************************)
(* The file handler (src/file/file.go): goroutines that call one Handler,  *)
(* its Locker, and the directory below.  The locker is used by its         *)
(* contract, KeyLock, with one lock per name, as LockerPerFile has it: a   *)
(* LockerStriped, whose names share locks, only takes interleavings away.  *)
(*                                                                         *)
(* The file system is external: a name leads to an inode, an inode that    *)
(* has lost its name lives on for those that have it open, data moves a    *)
(* chunk at a time, every call but the unlocking may fail.                 *)
(***************************************************************************)
EXTENDS Integers, Sequences, FiniteSets

CONSTANTS
  Procs,    \* goroutines
  Names,    \* file names, one spelling each
  Calls,    \* the calls they make: records of op and, where there is one, the file's
            \* name, the data (a sequence of chunks, not empty) and, for Copy, the
            \* destination (in baseDir; no call reads it or writes to it otherwise)
  Spares,   \* how many inodes a name can have had that are linked or open still
  MaxLen,   \* bound: the chunks that the disk has for a file
  None

VARIABLES
  dir,   \* whether baseDir exists
  node,  \* node[n]: the inode of n, or None
  data,  \* data[i]: the chunks of i
  pc,    \* pc[p]: where p is, see Places
  call,  \* call[p]: the operation and its arguments, None when idle
  fd,    \* fd[p]: the open file of the call, or None
  off,   \* off[p]: how many chunks p has written
  got,   \* got[p]: the chunks p has read, None before the file is open
  todo,  \* todo[p]: the names DeleteAll has listed and not unlinked yet
  res,   \* res[p]: the result of the call, once known
  pre    \* pre[p]: (history) the file as it was when p opened it to change it

fsVars == <<dir, node, data>>
ioVars == <<fd, off, got, todo>>
vars == <<fsVars, pc, call, ioVars, res, pre>>

Writers == {"write", "append", "clear"}
Readers == {"read", "copy"}
Locked  == Writers \cup Readers \cup {"delete"}

Ops     == Locked \cup {"create", "deleteall", "new"}

ASSUME HandlerAssumption ==
  /\ \A c \in Calls : c.op \in Ops
  /\ \A c \in Calls : c.op \notin {"deleteall", "new"} => c.name \in Names
  /\ \A c, d \in Calls : c.op = "copy" =>
       c.to \in Names /\ (d.op \in Writers \cup Readers => d.name # c.to)
  /\ \A c \in Calls : c.op \in {"write", "append"} => c.data \in Seq(Nat) \ {<<>>}
  /\ None \notin Names \cup Calls \cup (Names \X Spares) \cup Seq(Nat)

\* The directory does not run out of inodes: whichever of a name's the goroutines have
\* open, there is another.
ASSUME SparesAssumption ==
  \A f \in [Procs -> Spares \cup {None}] : \E s \in Spares : \A p \in Procs : f[p] # s

Inodes == Names \X Spares

Places == {"idle", "lock", "mkdir", "open", "create", "io", "close",
           "stat", "excl", "list", "unlink", "mkbase", "done"}

TypeOK ==
  /\ dir \in BOOLEAN
  /\ node \in [Names -> Inodes \cup {None}]
  /\ DOMAIN data = Inodes /\ \A i \in Inodes : data[i] \in Seq(Nat)
  /\ pc \in [Procs -> Places]
  /\ \A p \in Procs : call[p] \in Calls <=> pc[p] # "idle"
  /\ fd \in [Procs -> Inodes \cup {None}]
  /\ off \in [Procs -> Nat]
  /\ DOMAIN got = Procs /\ \A p \in Procs : got[p] \in Seq(Nat) \cup {None}
  /\ todo \in [Procs -> SUBSET Names]
  /\ res \in [Procs -> {None, "ok", "err"}]
  /\ ~dir => \A n \in Names : node[n] = None

Init ==
  /\ dir = TRUE
  /\ node = [n \in Names |-> None]
  /\ data = [i \in Inodes |-> <<>>]
  /\ pc = [p \in Procs |-> "idle"]
  /\ call = [p \in Procs |-> None]
  /\ fd = [p \in Procs |-> None]
  /\ off = [p \in Procs |-> 0]
  /\ got = [p \in Procs |-> None]
  /\ todo = [p \in Procs |-> {}]
  /\ res = [p \in Procs |-> None]
  /\ pre = [p \in Procs |-> None]

Goto(p, place) == pc' = [pc EXCEPT ![p] = place]
Op(p)   == call[p].op
Name(p) == call[p].name

----------------------------------------------------------------------------
(* The locker, used by its contract. *)

Locks == INSTANCE KeyLock WITH
  Keys  <- Names,
  phase <- [p \in Procs |-> IF pc[p] \in {"idle", "done"} THEN "idle"
                            ELSE IF pc[p] = "lock" THEN "waiting" ELSE "holding"],
  key   <- [p \in Procs |-> Name(p)],
  mode  <- [p \in Procs |-> IF Op(p) \in Readers THEN "r" ELSE "w"]

\* Whether q's call holds its lock: the unlocked operations never do.
Holds(q) == pc[q] \notin {"idle", "lock", "done"} /\ Op(q) \in Locked

----------------------------------------------------------------------------
(* The file system. *)

Linked(i)     == \E n \in Names : node[n] = i
OpenBy(ps, i) == \E p \in ps : fd[p] = i
\* The inode that a new file n gets.
NewInode(n) == CHOOSE i \in {n} \X Spares : ~Linked(i) /\ ~OpenBy(Procs, i)

\* Puts chunk c at position i of s, which has a chunk before it.
PutAt(s, i, c) == IF i > Len(s) THEN Append(s, c) ELSE [s EXCEPT ![i] = c]

\* An open with O_CREATE: makes n, or opens inode i of n and perhaps truncates it.
OpenOrCreate(n, i, trunc) ==
  /\ dir
  /\ i = IF node[n] = None THEN NewInode(n) ELSE node[n]
  /\ node' = [node EXCEPT ![n] = i]
  /\ data' = IF trunc \/ node[n] = None THEN [data EXCEPT ![i] = <<>>] ELSE data

\* unlink: what n led to is freed, unless someone has it open.
Unlink(n) ==
  /\ node[n] # None
  /\ node' = [node EXCEPT ![n] = None]
  /\ data' = IF OpenBy(Procs, node[n]) THEN data ELSE [data EXCEPT ![node[n]] = <<>>]

----------------------------------------------------------------------------
(* Slips that would be easy to make in this code, one for each property the *)
(* run checks.  None is part of the specification.                          *)

\* Append takes the lock for reading.
LockFreeForAppends(p) ==
  \A q \in Procs \ {p} :
    Holds(q) => ~Locks!Conflict(p, q) \/ {Op(p), Op(q)} = {"append"}

\* DeleteAll starts again when the directory is not empty after all.
RemoveDirUntilEmpty(p) ==
  /\ pc[p] = "unlink" /\ todo[p] = {}
  /\ IF \E n \in Names : node[n] # None
     THEN /\ Goto(p, "list")
          /\ UNCHANGED <<dir, res>>
     ELSE /\ dir' = FALSE
          /\ res' = [res EXCEPT ![p] = "ok"]
          /\ Goto(p, "done")
  /\ UNCHANGED <<node, data, call, ioVars, pre>>

\* DeleteAll believes that the directory is as empty as it left it.
RemoveDirForced(p) ==
  /\ pc[p] = "unlink" /\ todo[p] = {}
  /\ dir' = FALSE
  /\ todo' = [q \in Procs |-> {}]
  /\ res' = [res EXCEPT ![p] = "ok"]
  /\ Goto(p, "done")
  /\ UNCHANGED <<node, data, call, fd, off, got, pre>>

----------------------------------------------------------------------------
(* Calls begin, wait for the locker, and end. *)

LockFree(p) == \A q \in Procs \ {p} : Holds(q) => ~Locks!Conflict(p, q)

FirstPlace(op) ==
  CASE op \in Locked -> "lock" [] op = "create" -> "stat"
    [] op = "deleteall" -> "list" [] op = "new" -> "mkbase"

Begin(p) ==
  /\ pc[p] = "idle"
  /\ \E c \in Calls :
       /\ call' = [call EXCEPT ![p] = c]
       /\ Goto(p, FirstPlace(c.op))
  /\ UNCHANGED <<fsVars, ioVars, res, pre>>

\* f.locker.Lock or RLock.
Acquire(p) ==
  /\ pc[p] = "lock"
  /\ LockFree(p)
  /\ Goto(p, IF Op(p) = "copy" THEN "mkdir" ELSE "open")
  /\ UNCHANGED <<fsVars, call, ioVars, res, pre>>

\* The deferred calls: close the files, unlock.
Finish(p) ==
  /\ pc[p] = "close"
  /\ data' = [i \in Inodes |-> IF i = fd[p] /\ ~Linked(i) /\ ~OpenBy(Procs \ {p}, i)
                               THEN <<>> ELSE data[i]]
  /\ fd' = [fd EXCEPT ![p] = None]
  /\ off' = [off EXCEPT ![p] = 0]
  /\ pre' = [pre EXCEPT ![p] = None]
  /\ Goto(p, "done")
  /\ UNCHANGED <<dir, node, call, got, todo, res>>

Return(p) ==
  /\ pc[p] = "done"
  /\ call' = [call EXCEPT ![p] = None]
  /\ got' = [got EXCEPT ![p] = None]
  /\ res' = [res EXCEPT ![p] = None]
  /\ Goto(p, "idle")
  /\ UNCHANGED <<fsVars, fd, off, todo, pre>>

\* The call has its result; what is left is to close and unlock.
Settle(p, r) == res' = [res EXCEPT ![p] = r] /\ Goto(p, "close")

\* Any step on files may fail, and ends the call.
Fail(p) ==
  /\ pc[p] \in {"mkdir", "open", "create", "io"}
  /\ Settle(p, "err")
  /\ UNCHANGED <<fsVars, call, ioVars, pre>>

----------------------------------------------------------------------------
(* Write, Append and Clear. *)

\* OpenFile: Write and Clear truncate.
OpenToWrite(p) ==
  /\ pc[p] = "open" /\ Op(p) \in Writers
  /\ \E i \in Inodes :
       /\ OpenOrCreate(Name(p), i, Op(p) # "append")
       /\ fd' = [fd EXCEPT ![p] = i]
  /\ pre' = [pre EXCEPT ![p] = IF node[Name(p)] = None THEN <<>> ELSE data[node[Name(p)]]]
  /\ IF Op(p) = "clear" THEN Settle(p, "ok") ELSE Goto(p, "io") /\ UNCHANGED res
  /\ UNCHANGED <<dir, call, off, got, todo>>

\* The next chunk goes to p's position in the file, or with O_APPEND to the end.
WriteChunk(p) ==
  /\ pc[p] = "io" /\ Op(p) \in {"write", "append"}
  /\ LET at == IF Op(p) = "append" THEN Len(data[fd[p]]) ELSE off[p] IN
       /\ at < MaxLen
       /\ data' = [data EXCEPT ![fd[p]] = PutAt(@, at + 1, call[p].data[off[p] + 1])]
  /\ off' = [off EXCEPT ![p] = @ + 1]
  /\ IF off[p] + 1 = Len(call[p].data) THEN Settle(p, "ok") ELSE UNCHANGED <<pc, res>>
  /\ UNCHANGED <<dir, node, call, fd, got, todo, pre>>

----------------------------------------------------------------------------
(* Delete. *)

\* os.Remove: a file that does not exist is as good.
RemoveFile(p) ==
  /\ pc[p] = "open" /\ Op(p) = "delete"
  /\ IF node[Name(p)] = None THEN UNCHANGED <<node, data>> ELSE Unlink(Name(p))
  /\ res' = [res EXCEPT ![p] = "ok"]
  /\ Goto(p, "done")
  /\ UNCHANGED <<dir, call, ioVars, pre>>

----------------------------------------------------------------------------
(* Read and Copy. *)

OpenToRead(p) ==
  /\ pc[p] = "open" /\ Op(p) \in Readers
  /\ node[Name(p)] # None
  /\ fd' = [fd EXCEPT ![p] = node[Name(p)]]
  /\ got' = [got EXCEPT ![p] = <<>>]
  /\ Goto(p, IF Op(p) = "copy" THEN "create" ELSE "io")
  /\ UNCHANGED <<fsVars, call, off, todo, res, pre>>

\* An absent file fails Read; Copy returns nil.
OpenAbsent(p) ==
  /\ pc[p] = "open" /\ Op(p) \in Readers
  /\ node[Name(p)] = None
  /\ Settle(p, IF Op(p) = "copy" THEN "ok" ELSE "err")
  /\ UNCHANGED <<fsVars, call, ioVars, pre>>

ReadChunk(p) ==
  /\ pc[p] = "io" /\ Op(p) \in Readers
  /\ Len(got[p]) < Len(data[fd[p]])
  /\ got' = [got EXCEPT ![p] = Append(@, data[fd[p]][Len(@) + 1])]
  /\ UNCHANGED <<fsVars, pc, call, fd, off, todo, res, pre>>

EndOfFile(p) ==
  /\ pc[p] = "io" /\ Op(p) \in Readers
  /\ Len(got[p]) >= Len(data[fd[p]])
  /\ Settle(p, "ok")
  /\ UNCHANGED <<fsVars, call, ioVars, pre>>

\* os.MkdirAll(targetDir): the target of these copies is baseDir.
MakeTargetDir(p) ==
  /\ pc[p] = "mkdir"
  /\ dir' = TRUE
  /\ Goto(p, "open")
  /\ UNCHANGED <<node, data, call, ioVars, res, pre>>

\* os.Create(dstPath), without a lock on the destination; what is written to it is
\* left out, since no call reads it.
CreateTarget(p) ==
  /\ pc[p] = "create"
  /\ \E i \in Inodes : OpenOrCreate(call[p].to, i, TRUE)
  /\ Goto(p, "io")
  /\ UNCHANGED <<dir, call, ioVars, res, pre>>

----------------------------------------------------------------------------
(* CreateIfNotExists, DeleteAll and NewFileHandler, which take no lock. *)

\* An unlocked call ends with result r.
Done(p, r) == res' = [res EXCEPT ![p] = r] /\ Goto(p, "done")

StatFile(p) ==
  /\ pc[p] = "stat"
  /\ \/ node[Name(p)] # None /\ Done(p, "ok")
     \/ node[Name(p)] = None /\ Goto(p, "excl") /\ UNCHANGED res
     \/ Done(p, "err")
  /\ UNCHANGED <<fsVars, call, ioVars, pre>>

\* O_EXCL: a file that was made since Stat fails the call.
CreateExclusive(p) ==
  /\ pc[p] = "excl"
  /\ \/ /\ node[Name(p)] = None
        /\ \E i \in Inodes : OpenOrCreate(Name(p), i, FALSE)
        /\ Done(p, "ok")
     \/ UNCHANGED <<node, data>> /\ Done(p, "err")
  /\ UNCHANGED <<dir, call, ioVars, pre>>

\* os.RemoveAll lists the directory; one that does not exist is as good as removed.
ListDir(p) ==
  /\ pc[p] = "list"
  /\ \/ /\ dir
        /\ todo' = [todo EXCEPT ![p] = {n \in Names : node[n] # None}]
        /\ Goto(p, "unlink")
        /\ UNCHANGED res
     \/ ~dir /\ Done(p, "ok") /\ UNCHANGED todo
     \/ Done(p, "err") /\ UNCHANGED todo
  /\ UNCHANGED <<fsVars, call, fd, off, got, pre>>

\* It unlinks what it has listed, one after the other; some may be gone, or fail.
UnlinkNext(p) ==
  /\ pc[p] = "unlink"
  /\ \E n \in todo[p] :
       /\ todo' = [todo EXCEPT ![p] = @ \ {n}]
       /\ Unlink(n) \/ UNCHANGED <<node, data>>
  /\ UNCHANGED <<dir, pc, call, fd, off, got, res, pre>>

\* It removes the directory, which fails if there is a file in it again.  Who is
\* still unlinking has the old directory open and finds nothing in it.
RemoveDir(p) ==
  /\ pc[p] = "unlink" /\ todo[p] = {}
  /\ \/ /\ \A n \in Names : node[n] = None
        /\ dir' = FALSE
        /\ todo' = [q \in Procs |-> {}]
        /\ Done(p, "ok")
     \/ /\ dir
        /\ Done(p, "err")
        /\ UNCHANGED <<dir, todo>>
  /\ UNCHANGED <<node, data, call, fd, off, got, pre>>

\* Another NewFileHandler for baseDir, with the same locker: os.MkdirAll.
MakeBase(p) ==
  /\ pc[p] = "mkbase"
  /\ \/ dir' = TRUE /\ Done(p, "ok")
     \/ Done(p, "err") /\ UNCHANGED dir
  /\ UNCHANGED <<node, data, call, ioVars, pre>>

----------------------------------------------------------------------------
Step(p) ==
  \/ Finish(p) \/ Return(p) \/ Fail(p)
  \/ OpenToWrite(p) \/ WriteChunk(p)
  \/ RemoveFile(p)
  \/ OpenToRead(p) \/ OpenAbsent(p) \/ ReadChunk(p) \/ EndOfFile(p)
  \/ MakeTargetDir(p) \/ CreateTarget(p)
  \/ StatFile(p) \/ CreateExclusive(p)
  \/ ListDir(p) \/ UnlinkNext(p) \/ RemoveDir(p) \/ MakeBase(p)

Next == \E p \in Procs : Begin(p) \/ Acquire(p) \/ Step(p)

Spec == Init /\ [][Next]_vars

\* A call goes on by itself; both lockers let everyone in who waits (LockerPerFile's
\* NoStarvation, and sync.RWMutex for the striped locks).
Fairness == \A p \in Procs : WF_vars(Step(p)) /\ SF_vars(Acquire(p))

FairSpec == Spec /\ Fairness

----------------------------------------------------------------------------
(* Properties. *)

\* Every call ends, whatever the others do to the file, its name and its directory.
EveryCallReturns == \A p \in Procs : pc[p] # "idle" ~> pc[p] = "idle"

\* The promise below is made for the files that no Copy writes to.
Files == Names \ {c.to : c \in {d \in Calls : d.op = "copy"}}

\* Whether the promise sees p's call.
Seen(p) ==
  pc[p] # "idle" /\ (Op(p) = "deleteall" \/ (Op(p) # "new" /\ Name(p) \in Files))

Writing(p) == Seen(p) /\ Op(p) \in Writers /\ fd[p] # None
Looked(p)  == Seen(p) /\ Op(p) \in Readers
              /\ (fd[p] # None \/ (pc[p] = "close" /\ res[p] = "ok"))

\* What a file is to the callers: until a writer is done, what it was before.
FileOf(n) ==
  LET writing == {p \in Procs : Writing(p) /\ fd[p] = node[n]} IN
  IF node[n] = None THEN None
  ELSE IF writing # {} THEN pre[CHOOSE p \in writing : TRUE]
  ELSE data[node[n]]

StageOf(p) ==
  CASE ~Seen(p) -> "idle"
    [] Seen(p) /\ pc[p] = "done" -> "done"
    [] Seen(p) /\ pc[p] # "done" -> IF Looked(p) THEN "looked" ELSE "called"

AnswerOf(p) ==
  IF ~Seen(p) \/ Op(p) \notin Readers THEN None
  ELSE IF fd[p] # None THEN data[fd[p]]
  ELSE IF pc[p] = "done" /\ res[p] = "ok" THEN got[p] ELSE None

Store == INSTANCE FileStore WITH
  Names  <- Files,
  Calls  <- {c \in Calls : c.op # "new" /\ (c.op = "deleteall" \/ c.name \in Files)},
  file   <- [n \in Files |-> FileOf(n)],
  stage  <- [p \in Procs |-> StageOf(p)],
  call   <- [p \in Procs |-> IF Seen(p) THEN call[p] ELSE None],
  answer <- [p \in Procs |-> AnswerOf(p)],
  result <- [p \in Procs |-> IF Seen(p) /\ pc[p] = "done" THEN res[p] ELSE None],
  undone <- {p \in Procs : Writing(p) /\ fd[p] # node[Name(p)]}

\* Every file behaves like a variable that calls read and change at one moment: no
\* Read or Copy sees half of a Write or Append, no Append is lost, whatever
\* CreateIfNotExists and DeleteAll do without the lock.
ImplementsFileStore == Store!Spec
=============================================================================
