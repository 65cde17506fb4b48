-------------------------- MODULE FileSystemProofs --------------------------
(***************************************************************************)
(* Theorems about FileSystem with one shell, for any number of blocks,     *)
(* entries of the directory, names and nodes.                              *)
(***************************************************************************)
EXTENDS FileSystem, FreeListProofs

Char     == Names \cup {Junk}
Bytes    == [1 .. DISKBLOCKLEN -> Char]
Length   == 0 .. DISKBLOCKLEN
Filenode == [state : SUBSET {"USED", "OPEN", "DIRTY"}, name : Char, length : Length,
             cursor : Length, blocknum : Int, data : Bytes]
Dirent   == [state : SUBSET {"USED"}, name : Char, length : Length, blocknum : Int]
Proc     == [cmd : {"none", "cat", "cat >", "delete"},
             pc : {"idle", "open", "read", "fileSeek", "get", "create", "getblock", "put",
                   "close", "closewrite", "dirwait", "dirseek", "dirwrite", "delete",
                   "freeblock"},
             name : Char, fd : Int, seen : Seq(Char)]

FilesTyped ==
    /\ filetab \in [Fds -> Filenode] /\ ddir \in [Fds -> Dirent]
    /\ dfile \in [Blocks -> Bytes] /\ proc \in [Procs -> Proc]
    /\ \A fd \in Fds : filetab[fd].cursor <= filetab[fd].length

\* The blocks that are neither in the list nor in the hands of a call.
Taken == Blocks \ (InMem \cup {call[p].arg : p \in Procs})

\* Where a command is, and what it has then.
HasEntry == {"read", "fileSeek", "get", "delete", "getblock", "put", "close", "closewrite",
             "dirwait"}
Calling  == {"getblock", "freeblock"}
Writing  == {"put", "close", "closewrite", "dirwait"}
Unsaved  == Writing \cup {"getblock", "dirwrite"}
CommandOK(p) ==
    LET c == proc[p] fd == proc[p].fd e == filetab[proc[p].fd] b == filetab[proc[p].fd].blocknum IN
    /\ c.pc \in HasEntry \cup {"freeblock", "dirseek", "dirwrite"} => fd \in Fds
    /\ c.pc \in HasEntry => Used(fd)
    /\ c.pc \in {"open", "read"} => c.cmd # "none"
    /\ c.pc \in {"delete", "freeblock", "dirseek"} => c.cmd = "delete"
    /\ c.pc \in {"freeblock", "dirseek"} => e.state = {}
    /\ c.pc \in Writing => b \in Blocks
    /\ c.pc = "read" => "OPEN" \notin e.state /\ (b \in Blocks => pos = b)
    /\ c.pc \in {"fileSeek", "get"} => "OPEN" \in e.state
    /\ c.pc = "closewrite" => pos = b
    /\ c.pc = "dirwrite" => pos = DIRBLOCK
    /\ c.pc \notin Calling => call[p].pc = "idle"
    /\ c.pc = "getblock" => call[p].op \in {"none", "get"}
    /\ c.pc = "freeblock" => /\ call[p].op = "free"
                             /\ call[p].arg \in Blocks =>
                                  ddir[fd].state # {} /\ ddir[fd].blocknum = call[p].arg

Making(fd) == \E p \in Procs : MyFd(p) = fd /\ proc[p].pc \in Unsaved

\* A file has a block of its own, and the directory has the files that are ready.
Owning ==
    \A fd \in Owners :
        /\ filetab[fd].blocknum \in Taken
        /\ \A other \in Owners \ {fd} : filetab[other].blocknum # filetab[fd].blocknum
Saved == \A fd \in Owners : ~ Making(fd) => ddir[fd] = Stored[fd]

FilesInv ==
    /\ DiskInv /\ ListInv(Taken)
    /\ FilesTyped /\ (\A p \in Procs : CommandOK(p)) /\ Owning /\ Saved

\* The files whose entry is in the directory on disk as it is in memory.
Ready == {fd \in Owners : ~ Making(fd)}

\* The directory on disk has a file that is being deleted, or one that is gone
\* from memory and whose block nobody has.
Leaving(fd) == \E p \in Procs : /\ proc[p].pc = "freeblock" /\ MyFd(p) = fd
                              /\ call[p].arg = ddir[fd].blocknum
Loose(fd)   == /\ ddir[fd].blocknum \in Taken
               /\ \A other \in Owners : filetab[other].blocknum # ddir[fd].blocknum

\* What a restart would find: files that are ready, leave or are loose, each with
\* a block of its own, and a block that is being freed only once it is linked.
Found ==
    /\ \A fd \in DiskFiles : fd \in Ready \/ Leaving(fd) \/ Loose(fd)
    /\ \A a, b \in DiskFiles : ddir[a].blocknum = ddir[b].blocknum => a = b
    /\ \A p \in Procs : Linking(p) => HalfLinked(p) \/ call[p].arg \notin InDisk

\* One file of a name, in memory and on disk.
Named == /\ \A fd \in Fds : Used(fd) => filetab[fd].name \in Names
         /\ \A a, b \in Fds : Used(a) /\ Used(b) /\ filetab[a].name = filetab[b].name => a = b
NamedOnDisk ==
    /\ \A fd \in Fds : ddir[fd].state # {} => ddir[fd].name \in Names
    /\ \A a, b \in Fds :
          ddir[a].state # {} /\ ddir[b].state # {} /\ ddir[a].name = ddir[b].name => a = b

\* The block and the buffer of a file have what was written to it.
OwnBytes(bytes, e) == \A i \in 1 .. e.length : bytes[i] = e.name
Whole == /\ \A fd \in DiskFiles : OwnBytes(dfile[ddir[fd].blocknum], ddir[fd])
         /\ \A fd \in Ready :
               "OPEN" \in filetab[fd].state => OwnBytes(filetab[fd].data, filetab[fd])

\* What a command knows of its file.
Knows(p) ==
    LET c == proc[p] e == filetab[proc[p].fd] IN
    /\ c.pc # "idle" => c.name \in Names
    /\ c.pc = "create" => Matching(c.name) = {}
    /\ c.pc \in Writing \cup {"create", "getblock"} => c.cmd # "delete"
    /\ c.pc \in HasEntry => e.name = c.name
    /\ c.pc \in {"open", "read", "fileSeek"} => c.seen = <<>>
    /\ c.pc = "get" => /\ Len(c.seen) = e.cursor
                       /\ \A i \in 1 .. e.cursor : c.seen[i] = e.data[i]
    /\ c.pc = "getblock" => e.length = 0 /\ e.cursor = 0
    /\ c.pc = "put" => e.cursor = e.length
    /\ c.pc \in {"put", "close", "closewrite"} =>
          OwnBytes(e.data, e) /\ ("DIRTY" \in e.state \/ e.length = 0)
    /\ c.pc \in {"dirwait", "dirwrite"} /\ Used(c.fd) =>
          /\ c.fd \in Owners /\ "OPEN" \notin e.state
          /\ OwnBytes(dfile[e.blocknum], e)

Reads == Named /\ NamedOnDisk /\ Whole /\ \A p \in Procs : Knows(p)
-----------------------------------------------------------------------------
(* Sets, records and functions.                                            *)

LEMMA LeastIn ==
  ASSUME NEW S \in SUBSET Fds, S # {}
  PROVE  Min(S) \in S
<1>1. S \in SUBSET Nat
  BY DEF Fds
<1>2. \E n \in S : \A m \in S : n <= m
  BY <1>1, LeastMember
<1> QED BY <1>2 DEF Min

LEMMA OneConstant ==
  ASSUME NEW D, NEW x, NEW f \in [D -> {x}], NEW g \in [D -> {x}]
  PROVE  f = g
<1>1. f = [i \in D |-> f[i]] /\ g = [i \in D |-> g[i]]
  OBVIOUS
<1>2. \A i \in D : f[i] = x /\ g[i] = x
  OBVIOUS
<1> QED BY <1>1, <1>2

LEMMA SetEntry ==
  ASSUME filetab \in [Fds -> Filenode], NEW fd \in Fds, NEW e, filetab' = [filetab EXCEPT ![fd] = e]
  PROVE  /\ filetab'[fd] = e /\ \A g \in Fds : g # fd => filetab'[g] = filetab[g]
         /\ e \in Filenode => filetab' \in [Fds -> Filenode]
OBVIOUS

LEMMA SetProc ==
  ASSUME proc \in [Procs -> Proc], NEW p \in Procs, NEW c, proc' = [proc EXCEPT ![p] = c]
  PROVE  proc'[p] = c /\ (c \in Proc => proc' \in [Procs -> Proc])
OBVIOUS

LEMMA NoCommandIs ==
  /\ NoCommand \in Proc /\ NoCommand.pc = "idle"
  /\ JunkBlock \in Bytes /\ FreeEntry \in Filenode
  /\ FreeEntry.state = {} /\ FreeEntry.length = 0 /\ FreeEntry.cursor = 0
<1>1. JunkBlock \in Bytes /\ 0 \in Length
  BY FileAssumption DEF JunkBlock, Bytes, Char, Length
<1>2. <<>> \in Seq(Char)
  BY EmptySeq
<1> HIDE DEF JunkBlock, Bytes
<1> QED BY <1>1, <1>2 DEF NoCommand, Proc, FreeEntry, Filenode, Char

\* Where p goes on.
LEMMA Goes ==
  ASSUME proc \in [Procs -> Proc], NEW p \in Procs, NEW pc, Go(p, pc)
  PROVE  /\ proc'[p].pc = pc /\ proc'[p].fd = proc[p].fd /\ proc'[p].name = proc[p].name
         /\ proc'[p].cmd = proc[p].cmd /\ proc'[p].seen = proc[p].seen
         /\ pc \in {"get", "put", "close", "closewrite", "dirwait", "dirseek", "dirwrite",
                    "freeblock"} => proc' \in [Procs -> Proc]
BY ZenonT(30) DEF Go, Proc

LEMMA Ends ==
  ASSUME proc \in [Procs -> Proc], NEW p \in Procs, End(p)
  PROVE  proc'[p] = NoCommand /\ proc' \in [Procs -> Proc] /\ proc'[p].pc = "idle"
BY NoCommandIs, SetProc DEF End

-----------------------------------------------------------------------------
(* The free list, as its callers leave it.                                 *)

LEMMA UsedIsTaken == ASSUME NEW used, Owned(used) PROVE used = Taken
BY DEF Owned, Taken

LEMMA UsedIsTakenNext == ASSUME NEW used PROVE (Owned(used) => used = Taken)'
<1>1. Owned(used) => used = Taken
  BY UsedIsTaken
<1> QED BY <1>1, PTL

LEMMA ListBefore ==
  ASSUME FilesInv
  PROVE  \E used : used = Taken /\ ListInv(used)
<1>1. PICK used : used = Taken
  OBVIOUS
<1>2. ListInv(used)
  BY <1>1 DEF FilesInv, ListInv, Owned, Counted, Readable
<1> QED BY <1>1, <1>2

LEMMA ListAfter ==
  ASSUME NEW used, ListInv(used)'
  PROVE  ListInv(Taken)' /\ Taken' = used
<1>1. Taken' = used
  BY UsedIsTakenNext DEF ListInv
<1> QED BY <1>1 DEF ListInv, Owned, Counted, Readable

\* Nobody is in the free list: its variables stay, the disk moves or has a block
\* written that is not in the list.
LEMMA QuietKeeps ==
  ASSUME NEW used, ListInv(used), DiskInv, \A q \in Procs : call[q].pc = "idle",
         UNCHANGED <<memvars, freelock, call, dsuper>>, pos' \in 0 .. DISKBLOCKTOTAL - 1,
         \/ UNCHANGED dfbc
         \/ \E b : /\ b \notin InMem \cup InDisk
                   /\ dfbc' = [dfbc EXCEPT ![b] = NoFbc]
  PROVE  ListInv(used)' /\ DiskInv'
<1>1. /\ UNCHANGED <<freelst, node, heap, swz, freelock, call, dsuper>>
      /\ Typed /\ MemGood(Collectors)
  BY DEF memvars, ListInv
<1>2. \A q \in Procs : ~ AtDisk(q) /\ ~ Linking(q)
  BY DEF AtDisk, Linking
<1>3. /\ Collectors' = Collectors /\ InMem' = InMem /\ MemGood(Collectors)'
      /\ \A n : Image(n)' = Image(n) /\ BlockOf(n)' = BlockOf(n)
  BY <1>1, MemStays
<1>4. Readable(used) /\ DiskGood(DiskChain)
  BY <1>2 DEF ListInv, HalfWritten, HalfLinked, Readable
<1>5. Typed'
  <2>1. NoFbc \in Fbc
    BY Numbers, EmptySeq DEF NoFbc, Fbc
  <2>2. dfbc' \in [1 .. DISKBLOCKTOTAL - 1 -> Fbc]
    BY <2>1, <1>1 DEF Typed
  <2> QED BY <2>2, <1>1 DEF Typed
<1>6. /\ DiskChain' = DiskChain /\ DiskGood(DiskChain)' /\ InDisk' = InDisk
      /\ \A n \in Range(Collectors) : dfbc'[node[n].blocknum] = dfbc[node[n].blocknum]
  <2>1. CASE UNCHANGED dfbc
    BY <2>1, <1>1, <1>4, DiskStays
  <2>2. ASSUME NEW b, b \notin InMem \cup InDisk, dfbc' = [dfbc EXCEPT ![b] = NoFbc]
        PROVE  /\ DiskChain' = DiskChain /\ DiskGood(DiskChain)' /\ InDisk' = InDisk
               /\ \A n \in Range(Collectors) : dfbc'[node[n].blocknum] = dfbc[node[n].blocknum]
    <3>1. DOMAIN dfbc = 1 .. DISKBLOCKTOTAL - 1
      BY <1>1 DEF Typed
    <3>2. b \notin InDisk
      BY <2>2
    <3>3. DiskChain' = DiskChain /\ DiskGood(DiskChain)' /\ InDisk' = InDisk
      BY <3>1, <3>2, <2>2, <1>1, <1>4, DiskSpared
    <3>4. \A n \in Range(Collectors) : node[n].blocknum # b /\ node[n].blocknum \in Blocks
      BY <2>2, <1>1 DEF InMem, Group, MemGood, Tidy
    <3>5. \A x \in DOMAIN dfbc : x # b => dfbc'[x] = dfbc[x]
      BY <2>2
    <3>6. \A x \in Blocks : x \in DOMAIN dfbc
      BY <3>1, Numbers
    <3> QED BY <3>3, <3>4, <3>5, <3>6
  <2> QED BY <2>1, <2>2
<1>7. \A q \in Procs : CallOK(q)'
  BY <1>1, <1>2, <1>3 DEF ListInv, CallOK, Getting, Freeing, AtDisk
<1>8. Owned(used)' /\ Counted(used)'
  BY <1>1, <1>3 DEF ListInv, Owned, Counted, Linking, Calls, Busy
<1>9. Due' = Due
  BY <1>1 DEF Due, AtDisk
<1>10. Written'
  BY <1>1, <1>3, <1>6, <1>9 DEF ListInv, Written
<1>11. Settled'
  BY <1>1, <1>3 DEF ListInv, Settled, AtDisk
<1>12. Readable(used)'
  BY <1>1, <1>3, <1>4, <1>6 DEF Readable, AtDisk, Linking
<1>13. ListInv(used)'
  BY <1>3, <1>5, <1>7, <1>8, <1>10, <1>11, <1>12 DEF ListInv
<1>14. DiskInv'
  BY <1>1, <1>2 DEF DiskInv, CallsTyped, Exclusive, AtDisk, WritesOnTarget
<1> QED BY <1>13, <1>14
-----------------------------------------------------------------------------
(* One shell.                                                              *)

LEMMA OneShell ==
  ASSUME Solo, NEW p \in Procs
  PROVE  /\ \A q \in Procs : q = p
         /\ \A fd : Making(fd) <=> proc[p].fd = fd /\ proc[p].pc \in Unsaved
         /\ \A fd : Making(fd)' <=> proc'[p].fd = fd /\ proc'[p].pc \in Unsaved
         /\ \A fd : Creating(fd) <=> proc[p].pc = "getblock" /\ proc[p].fd = fd
         /\ \A fd : Creating(fd)' <=> proc'[p].pc = "getblock" /\ proc'[p].fd = fd
BY DEF Solo, Making, Creating, At, MyFd

LEMMA Alone ==
  ASSUME FilesInv, Solo, NEW p \in Procs
  PROVE  /\ FilesTyped /\ CommandOK(p) /\ Owning /\ Saved /\ DiskInv /\ Typed
         /\ proc[p].pc \notin Calling => (\A q \in Procs : call[q].pc = "idle") /\ swz = {}
<1>1. FilesTyped /\ CommandOK(p) /\ Owning /\ Saved /\ DiskInv /\ Typed /\ Settled
  BY DEF FilesInv, ListInv
<1>2. ASSUME proc[p].pc \notin Calling
      PROVE  (\A q \in Procs : call[q].pc = "idle") /\ swz = {}
  <2>1. \A q \in Procs : call[q].pc = "idle"
    BY <1>1, <1>2, OneShell DEF CommandOK
  <2> QED BY <2>1, <1>1 DEF Settled, AtDisk
<1> QED BY <1>1, <1>2

\* A step of a command outside the free list.
LEMMA ListAside ==
  ASSUME FilesInv, Solo, NEW p \in Procs, proc[p].pc \notin Calling,
         UNCHANGED <<memvars, freelock, call, dsuper>>, pos' \in 0 .. DISKBLOCKTOTAL - 1,
         \/ UNCHANGED dfbc
         \/ /\ pos \in Taken \cup {DIRBLOCK}
            /\ dfbc' = [dfbc EXCEPT ![pos] = NoFbc]
  PROVE  ListInv(Taken)' /\ DiskInv' /\ Taken' = Taken
<1>1. PICK used : used = Taken /\ ListInv(used)
  BY ListBefore
<1>2. DiskInv /\ \A q \in Procs : call[q].pc = "idle"
  BY Alone
<1>3. Readable(used) /\ MemGood(Collectors)
  BY <1>1, <1>2 DEF ListInv, HalfWritten, HalfLinked, Linking
<1>4. InMem \subseteq Blocks /\ InDisk \subseteq Blocks /\ DIRBLOCK \notin Blocks
  BY <1>3, InBlocks DEF Readable, DIRBLOCK, Blocks, SUPERBLOCKNUM
<1>5. pos \in Taken \cup {DIRBLOCK} => pos \notin InMem \cup InDisk
  BY <1>1, <1>3, <1>4 DEF Readable, Taken
<1>6. \/ UNCHANGED dfbc
      \/ \E b : /\ b \notin InMem \cup InDisk
                /\ dfbc' = [dfbc EXCEPT ![b] = NoFbc]
  BY <1>5
<1>7. ListInv(used)' /\ DiskInv'
  BY <1>1, <1>2, <1>6, QuietKeeps
<1> QED BY <1>1, <1>7, ListAfter

-----------------------------------------------------------------------------
(* What a restart would find.                                              *)

LEMMA OnDiskAre ==
  ASSUME FilesTyped, Solo, NEW p \in Procs
  PROVE  DiskFiles = {fd \in Fds : /\ ddir[fd].state # {} /\ ddir[fd].blocknum # SYSERR
                                   /\ ~ (Freed(p) /\ proc[p].fd = fd)}
<1>1. 1 \in Fds /\ 1 \notin DOMAIN <<>>
  BY FileAssumption DEF Fds
<1>2. ddir # <<>>
  BY <1>1 DEF FilesTyped
<1>3. \A fd : (\E q \in Procs : Freed(q) /\ MyFd(q) = fd) <=> (Freed(p) /\ proc[p].fd = fd)
  BY OneShell DEF MyFd
<1> QED BY <1>2, <1>3 DEF DiskFiles

LEMMA OnDiskAreNext ==
  ASSUME FilesTyped', Solo, NEW p \in Procs
  PROVE  DiskFiles' = {fd \in Fds : /\ ddir'[fd].state # {} /\ ddir'[fd].blocknum # SYSERR
                                    /\ ~ (Freed(p)' /\ proc'[p].fd = fd)}
<1>1. 1 \in Fds /\ 1 \notin DOMAIN <<>>
  BY FileAssumption DEF Fds
<1>2. ddir' # <<>>
  BY <1>1 DEF FilesTyped
<1>3. \A fd : (\E q \in Procs : Freed(q) /\ MyFd(q) = fd)' <=> (Freed(p)' /\ proc'[p].fd = fd)
  BY OneShell DEF MyFd
<1> QED BY <1>2, <1>3 DEF DiskFiles

LEMMA OneLeaves ==
  ASSUME Solo, NEW p \in Procs
  PROVE  /\ \A fd : Leaving(fd) <=> /\ proc[p].pc = "freeblock" /\ proc[p].fd = fd
                                    /\ call[p].arg = ddir[fd].blocknum
         /\ \A fd : Leaving(fd)' <=> /\ proc'[p].pc = "freeblock" /\ proc'[p].fd = fd
                                     /\ call'[p].arg = ddir'[fd].blocknum
BY DEF Solo, Leaving, MyFd

\* A step that does not write the directory.
LEMMA FoundStays ==
  ASSUME FilesInv, FilesInv', Found, Solo, NEW p \in Procs, UNCHANGED ddir,
         Freed(p) => Freed(p)' /\ proc'[p].fd = proc[p].fd,
         Linking(p)' => HalfLinked(p)' \/ call'[p].arg \notin InDisk',
         \A fd \in DiskFiles : fd \in Ready \/ Leaving(fd) =>
             \/ fd \in Ready' \/ Leaving(fd)' \/ Loose(fd)'
             \/ Freed(p)' /\ proc'[p].fd = fd,
         \A fd \in DiskFiles : Loose(fd) => Loose(fd)'
  PROVE  Found'
<1>1. /\ DiskFiles = {fd \in Fds : /\ ddir[fd].state # {} /\ ddir[fd].blocknum # SYSERR
                                   /\ ~ (Freed(p) /\ proc[p].fd = fd)}
      /\ DiskFiles' = {fd \in Fds : /\ ddir'[fd].state # {} /\ ddir'[fd].blocknum # SYSERR
                                    /\ ~ (Freed(p)' /\ proc'[p].fd = fd)}
  BY OnDiskAre, OnDiskAreNext DEF FilesInv
<1>2. \A fd \in DiskFiles' : fd \in DiskFiles /\ ~ (Freed(p)' /\ proc'[p].fd = fd)
  BY <1>1
<1>3. \A fd \in DiskFiles : fd \in Ready \/ Leaving(fd) \/ Loose(fd)
  BY DEF Found
<1>4. \A fd \in DiskFiles' : fd \in Ready' \/ Leaving(fd)' \/ Loose(fd)'
  BY <1>2, <1>3
<1>5. \A a, b \in DiskFiles' : ddir'[a].blocknum = ddir'[b].blocknum => a = b
  BY <1>2 DEF Found
<1>6. \A q \in Procs : Linking(q)' => HalfLinked(q)' \/ call'[q].arg \notin InDisk'
  BY OneShell
<1> QED BY <1>4, <1>5, <1>6 DEF Found

LEMMA LooseStays ==
  ASSUME UNCHANGED ddir, Taken \subseteq Taken',
         \A fd \in Owners' : \/ fd \in Owners /\ filetab'[fd].blocknum = filetab[fd].blocknum
                             \/ filetab'[fd].blocknum \notin Taken
  PROVE  \A fd \in DiskFiles : Loose(fd) => Loose(fd)'
BY DEF Loose

\* A command that goes on, in none of the calls, keeps the file it makes.
Passes(p) ==
    /\ proc[p].pc \notin Calling \cup {"dirwrite"} /\ proc'[p].pc \notin Calling
    /\ proc[p].pc \in Unsaved => proc'[p].pc \in Unsaved /\ proc'[p].fd = proc[p].fd
    /\ proc'[p].pc \in Unsaved => proc[p].pc \in Unsaved \cup {"dirseek"}
    /\ proc[p].pc = "dirseek" => /\ proc'[p].pc = "dirwrite"
                                 /\ proc'[p].fd = proc[p].fd /\ proc'[p].cmd = proc[p].cmd

LEMMA FoundAside ==
  ASSUME FilesInv, FilesInv', Found, Solo, NEW p \in Procs, UNCHANGED <<ddir, call>>,
         Taken' = Taken,
         \A x \in Fds : (Used(x)' <=> Used(x)) /\ filetab'[x].blocknum = filetab[x].blocknum,
         Passes(p)
  PROVE  Found'
<1>1. /\ call[p].pc = "idle" /\ call'[p].pc = "idle"
      /\ proc[p].pc = "dirseek" => ~ Used(proc[p].fd)
      /\ proc[p].pc # "wild"
  BY Alone DEF CommandOK, Used, FilesTyped, Proc, Passes
<1>2. Owners' = Owners
  BY OneShell DEF Owners, Calling, Passes
<1>3. \A fd \in Ready : fd \in Ready'
  BY <1>1, <1>2, OneShell DEF Ready, Owners, Passes
<1>4. ~ Linking(p) /\ ~ Linking(p)'
  BY <1>1 DEF Linking
<1>5. Freed(p) => Freed(p)' /\ proc'[p].fd = proc[p].fd
  BY <1>1, <1>4 DEF Freed, HalfLinked, At, Calling, Passes
<1>6. \A fd : ~ Leaving(fd)
  BY OneLeaves DEF Calling, Passes
<1>7. \A fd \in DiskFiles : Loose(fd) => Loose(fd)'
  BY <1>2, LooseStays DEF Owners
<1> QED BY <1>3, <1>4, <1>5, <1>6, <1>7, FoundStays

-----------------------------------------------------------------------------
(* Steps outside the free list.                                            *)

\* The directory in memory and on disk keeps what matters.
Alike == \A fd \in Fds : /\ Used(fd)' <=> Used(fd)
                         /\ filetab'[fd].name = filetab[fd].name
                         /\ filetab'[fd].length = filetab[fd].length
                         /\ filetab'[fd].blocknum = filetab[fd].blocknum

LEMMA OwnersStay ==
  ASSUME Owning, Saved, Taken' = Taken, UNCHANGED ddir,
         \A fd \in Owners' : /\ fd \in Owners /\ filetab'[fd].blocknum = filetab[fd].blocknum
                             /\ ~ Making(fd)' => ~ Making(fd) /\ Stored'[fd] = Stored[fd]
  PROVE  Owning' /\ Saved'
BY DEF Owning, Saved

LEMMA StoredAlike == ASSUME Alike PROVE Stored' = Stored
<1>1. \A fd \in Fds : filetab'[fd].state \cap {"USED"} = filetab[fd].state \cap {"USED"}
  BY DEF Alike, Used
<1> QED BY <1>1 DEF Alike, Stored

LEMMA AlikeKeeps ==
  ASSUME FilesInv, Solo, NEW p \in Procs, Alike, Taken' = Taken, UNCHANGED ddir,
         proc[p].pc # "getblock" /\ proc'[p].pc # "getblock",
         proc[p].pc \in Unsaved => proc'[p].pc \in Unsaved /\ proc'[p].fd = proc[p].fd
  PROVE  Owning' /\ Saved'
<1>1. Owning /\ Saved
  BY DEF FilesInv
<1>2. \A fd \in Owners' : fd \in Owners /\ filetab'[fd].blocknum = filetab[fd].blocknum
  BY OneShell DEF Owners, Alike
<1>3. \A fd \in Owners' : ~ Making(fd)' => ~ Making(fd) /\ Stored'[fd] = Stored[fd]
  BY OneShell, StoredAlike
<1> QED BY <1>1, <1>2, <1>3, OwnersStay

\* The same entry but for its state, its cursor and its bytes.
LEMMA SetAlike ==
  ASSUME filetab \in [Fds -> Filenode], NEW fd \in Fds, NEW e \in Filenode,
         filetab' = [filetab EXCEPT ![fd] = e],
         "USED" \in e.state <=> Used(fd), e.name = filetab[fd].name,
         e.length = filetab[fd].length, e.blocknum = filetab[fd].blocknum
  PROVE  Alike
<1>1. filetab'[fd] = e /\ \A g \in Fds : g # fd => filetab'[g] = filetab[g]
  BY SetEntry
<1> QED BY <1>1 DEF Alike, Used

\* All of it, for a step outside the free list.
LEMMA StepAside ==
  ASSUME FilesInv, Solo, NEW p \in Procs, Passes(p),
         UNCHANGED <<memvars, freelock, call, dsuper>>, pos' \in 0 .. DISKBLOCKTOTAL - 1,
         \/ UNCHANGED dfbc
         \/ pos \in Taken \cup {DIRBLOCK} /\ dfbc' = [dfbc EXCEPT ![pos] = NoFbc],
         UNCHANGED ddir, dfile' \in [Blocks -> Bytes], Alike,
         filetab' \in [Fds -> Filenode], proc' \in [Procs -> Proc],
         \A fd \in Fds : filetab'[fd].cursor <= filetab'[fd].length,
         call'[p].pc = "idle" => CommandOK(p)'
  PROVE  FilesInv' /\ (Found => Found')
<1>0. proc[p].pc \notin Calling
  BY DEF Passes
<1>1. FilesTyped' /\ (\A q \in Procs : call[q].pc = "idle")
  BY <1>0, Alone DEF FilesTyped
<1>2. ListInv(Taken)' /\ DiskInv' /\ Taken' = Taken
  BY <1>0, ListAside
<1>3. \A q \in Procs : CommandOK(q)'
  BY <1>1, OneShell
<1>4. Owning' /\ Saved'
  BY <1>2, AlikeKeeps DEF Calling, Passes
<1>5. FilesInv'
  BY <1>1, <1>2, <1>3, <1>4 DEF FilesInv
<1> QED BY <1>2, <1>5, FoundAside DEF Alike
-----------------------------------------------------------------------------
(* Opening and reading.                                                    *)

LEMMA Opens ==
  ASSUME proc \in [Procs -> Proc], NEW p \in Procs, NEW fd \in Fds \cup {SYSERR},
         Opened_fd(p, fd), proc[p].cmd # "none"
  PROVE  /\ proc' \in [Procs -> Proc]
         /\ \/ proc'[p].pc = "idle"
            \/ /\ proc'[p].name = proc[p].name /\ proc'[p].seen = proc[p].seen
               /\ proc'[p].fd = fd
               /\ \/ fd = SYSERR /\ proc'[p].pc = "create"
                  \/ fd \in Fds /\ proc'[p].pc \in {"fileSeek", "delete"}
               /\ proc'[p].pc = "delete" => proc'[p].cmd = "delete"
               /\ proc'[p].pc = "create" => proc'[p].cmd # "delete"
<1>1. SYSERR \notin Fds /\ SYSERR \in Int /\ Fds \subseteq Int
  BY DEF SYSERR, Fds
<1>2. CASE (proc[p].cmd = "cat >") = (fd # SYSERR)
  BY <1>2, Ends DEF Opened_fd
<1>3. CASE ~ ((proc[p].cmd = "cat >") = (fd # SYSERR))
  <2> DEFINE pc == AfterOpen(proc[p].cmd)
             c  == [proc[p] EXCEPT !.fd = fd, !.pc = pc]
  <2>1. proc' = [proc EXCEPT ![p].fd = fd, ![p].pc = pc]
    BY <1>3 DEF Opened_fd
  <2>2. proc[p] \in Proc /\ proc[p].cmd \in {"cat", "cat >", "delete"}
    BY DEF Proc
  <2>3. /\ fd = SYSERR => pc = "create"
        /\ fd # SYSERR => pc \in {"fileSeek", "delete"}
        /\ pc = "delete" => proc[p].cmd = "delete"
        /\ pc = "create" => proc[p].cmd # "delete"
    BY <1>3, <2>2 DEF AfterOpen
  <2> HIDE DEF pc
  <2>4. proc' = [proc EXCEPT ![p] = c]
    BY <2>1, Zenon
  <2>5. /\ c \in Proc /\ c.pc = pc /\ c.fd = fd /\ c.name = proc[p].name /\ c.seen = proc[p].seen
        /\ c.cmd = proc[p].cmd
    BY <1>1, <2>2, <2>3 DEF Proc
  <2> HIDE DEF c
  <2>6. proc'[p] = c /\ proc' \in [Procs -> Proc]
    BY <2>4, <2>5, SetProc
  <2> QED BY <2>3, <2>5, <2>6
<1> QED BY <1>2, <1>3

LEMMA CommandKeeps ==
  ASSUME FilesInv, Solo, NEW p \in Procs, Command(p)
  PROVE  FilesInv' /\ (Found => Found')
<1>1. proc[p].pc = "idle" /\ FilesTyped /\ Typed /\ CommandOK(p)
  BY Alone DEF Command, At
<1>2. PICK cmd \in {"cat", "cat >", "delete"}, n \in IF Shared THEN Names ELSE {p} :
        proc' = [proc EXCEPT ![p] = [NoCommand EXCEPT !.cmd = cmd, !.pc = "open", !.name = n]]
  BY DEF Command
<1> DEFINE c == [NoCommand EXCEPT !.cmd = cmd, !.pc = "open", !.name = n]
<1>3. n \in Char
  <2>1. n \in IF Shared THEN Names ELSE {p}
    OBVIOUS
  <2>2. CASE Shared
    BY <2>1, <2>2 DEF Char
  <2>3. CASE ~ Shared
    <3>1. Names = Procs
      BY <2>3, FileAssumption
    <3> QED BY <2>1, <2>3, <3>1 DEF Char
  <2> QED BY <2>2, <2>3
<1>4. c \in Proc /\ c.pc = "open" /\ c.cmd # "none"
  BY <1>3, NoCommandIs DEF Proc
<1> HIDE DEF c
<1>5. proc'[p] = c /\ proc' \in [Procs -> Proc]
  BY <1>1, <1>2, <1>4, SetProc DEF c, FilesTyped
<1>6. UNCHANGED <<filetab, ddir, dfile, memvars, freelock, call, dsuper, pos, dfbc>>
  BY DEF Command, dirvars, flvars, memvars
<1>7. Alike /\ call'[p].pc = "idle"
  BY <1>1, <1>6 DEF Alike, Used, CommandOK, Calling
<1>8. CommandOK(p)'
  BY <1>4, <1>5, <1>7 DEF CommandOK, HasEntry, Writing, Calling
<1>9. Passes(p)
  BY <1>1, <1>4, <1>5 DEF Passes, Calling, Unsaved, Writing
<1> QED BY <1>1, <1>5, <1>6, <1>7, <1>8, <1>9, StepAside DEF FilesTyped, Typed

LEMMA OpenKeeps ==
  ASSUME FilesInv, Solo, NEW p \in Procs, fileOpen(p)
  PROVE  FilesInv' /\ (Found => Found')
<1> DEFINE S  == Matching(proc[p].name)
           fd == Min(S)
<1>1. /\ proc[p].pc = "open" /\ FilesTyped /\ Typed /\ CommandOK(p)
      /\ UNCHANGED <<memvars, freelock, dsuper, dfbc, call, dirlock, ddir, dfile>>
  BY Alone DEF fileOpen, At
<1>2. \/ S = {} /\ Opened_fd(p, SYSERR) /\ UNCHANGED <<filetab, pos>>
      \/ S # {} /\ "OPEN" \in filetab[fd].state /\ Opened_fd(p, fd) /\ UNCHANGED <<filetab, pos>>
      \/ /\ S # {} /\ "OPEN" \notin filetab[fd].state
         /\ filetab' = [filetab EXCEPT ![fd].data = JunkBlock]
         /\ \/ Opened_fd(p, SYSERR) /\ UNCHANGED pos
            \/ /\ MoveTo(filetab[fd].blocknum)
               /\ proc' = [proc EXCEPT ![p].fd = fd, ![p].pc = "read"]
  BY DEF fileOpen
<1>3. S # {} => fd \in Fds /\ Used(fd)
  <2>1. S \in SUBSET Fds /\ \A x \in S : Used(x)
    BY DEF Matching
  <2> QED BY <2>1, LeastIn
<1> HIDE DEF S, fd
<1>4. proc[p].cmd # "none" /\ call'[p].pc = "idle" /\ proc \in [Procs -> Proc]
  BY <1>1 DEF CommandOK, Calling, FilesTyped
<1>5. /\ filetab' \in [Fds -> Filenode] /\ Alike
      /\ \A x \in Fds : filetab'[x].cursor <= filetab'[x].length
      /\ \A x \in Fds : filetab'[x].state = filetab[x].state
  <2>1. CASE UNCHANGED filetab
    BY <2>1, <1>1 DEF FilesTyped, Alike, Used
  <2>2. CASE S # {} /\ filetab' = [filetab EXCEPT ![fd].data = JunkBlock]
    <3> DEFINE e == [filetab[fd] EXCEPT !.data = JunkBlock]
    <3>1. filetab[fd] \in Filenode /\ JunkBlock \in Bytes /\ fd \in Fds
      BY <1>1, <1>3, <2>2, NoCommandIs DEF FilesTyped
    <3>2. /\ e \in Filenode /\ e.state = filetab[fd].state /\ e.name = filetab[fd].name
          /\ e.length = filetab[fd].length /\ e.blocknum = filetab[fd].blocknum
          /\ e.cursor = filetab[fd].cursor
      BY <3>1 DEF Filenode
    <3>3. filetab' = [filetab EXCEPT ![fd] = e]
      BY <2>2, Zenon
    <3> HIDE DEF e
    <3>4. filetab'[fd] = e /\ (\A g \in Fds : g # fd => filetab'[g] = filetab[g])
          /\ filetab' \in [Fds -> Filenode]
      BY <1>1, <3>1, <3>2, <3>3, SetEntry DEF FilesTyped
    <3>5. Alike
      BY <1>1, <3>1, <3>2, <3>3, SetAlike DEF FilesTyped, Used
    <3> QED BY <1>1, <3>2, <3>4, <3>5 DEF FilesTyped
  <2> QED BY <1>2, <2>1, <2>2
<1>6. /\ proc' \in [Procs -> Proc] /\ pos' \in 0 .. DISKBLOCKTOTAL - 1
      /\ \/ proc'[p].pc \in {"idle", "create"}
         \/ /\ proc'[p].fd \in Fds /\ Used(proc'[p].fd)
            /\ \/ proc'[p].pc = "delete" /\ proc'[p].cmd = "delete"
               \/ proc'[p].pc = "fileSeek" /\ "OPEN" \in filetab[proc'[p].fd].state
               \/ /\ proc'[p].pc = "read" /\ "OPEN" \notin filetab[proc'[p].fd].state
                  /\ proc'[p].cmd # "none"
                  /\ filetab[proc'[p].fd].blocknum \in Blocks
                       => pos' = filetab[proc'[p].fd].blocknum
  <2>1. pos \in 0 .. DISKBLOCKTOTAL - 1
    BY <1>1 DEF Typed
  <2>2. CASE Opened_fd(p, SYSERR) /\ UNCHANGED pos
    BY <2>1, <2>2, <1>4, Opens DEF Fds, SYSERR
  <2>3. CASE S # {} /\ "OPEN" \in filetab[fd].state /\ Opened_fd(p, fd) /\ UNCHANGED pos
    BY <2>1, <2>3, <1>3, <1>4, Opens DEF Fds, SYSERR
  <2>4. CASE /\ S # {} /\ "OPEN" \notin filetab[fd].state
             /\ MoveTo(filetab[fd].blocknum)
             /\ proc' = [proc EXCEPT ![p].fd = fd, ![p].pc = "read"]
    <3> DEFINE c == [proc[p] EXCEPT !.fd = fd, !.pc = "read"]
    <3>1. fd \in Int /\ proc[p] \in Proc
      BY <1>3, <1>4, <2>4 DEF Fds
    <3>2. c \in Proc /\ c.fd = fd /\ c.pc = "read" /\ c.cmd = proc[p].cmd
      BY <3>1 DEF Proc
    <3>3. proc' = [proc EXCEPT ![p] = c]
      BY <2>4, Zenon
    <3> HIDE DEF c
    <3>4. proc'[p] = c /\ proc' \in [Procs -> Proc]
      BY <1>4, <3>2, <3>3, SetProc
    <3>5. pos' \in 0 .. DISKBLOCKTOTAL - 1
          /\ (filetab[fd].blocknum \in Blocks => pos' = filetab[fd].blocknum)
      BY <2>1, <2>4, Numbers DEF MoveTo
    <3> QED BY <1>3, <1>4, <2>4, <3>2, <3>4, <3>5
  <2> QED BY <1>2, <2>2, <2>3, <2>4
<1>7. CommandOK(p)'
  BY <1>4, <1>5, <1>6 DEF CommandOK, HasEntry, Writing, Calling, Alike, Used
<1>8. Passes(p)
  BY <1>1, <1>6 DEF Passes, Unsaved, Writing, Calling
<1>9. dfile' \in [Blocks -> Bytes]
  BY <1>1 DEF FilesTyped
<1> QED BY <1>1, <1>5, <1>6, <1>7, <1>8, <1>9, StepAside
LEMMA OpenReadKeeps ==
  ASSUME FilesInv, Solo, NEW p \in Procs, fileOpenRead(p)
  PROVE  FilesInv' /\ (Found => Found')
<1> DEFINE fd   == proc[p].fd
           data == IF pos \in Blocks THEN dfile[pos] ELSE JunkBlock
           e    == [filetab[fd] EXCEPT !.data = data, !.state = @ \cup {"OPEN"}, !.cursor = 0]
<1>1. /\ proc[p].pc = "read" /\ FilesTyped /\ Typed /\ CommandOK(p)
      /\ fd \in Fds /\ Used(fd) /\ call[p].pc = "idle" /\ proc[p].cmd # "none"
  BY Alone DEF fileOpenRead, At, CommandOK, HasEntry, Calling
<1>2. /\ filetab' = [filetab EXCEPT ![fd].data = data, ![fd].state = @ \cup {"OPEN"},
                                    ![fd].cursor = 0]
      /\ Opened_fd(p, fd)
      /\ UNCHANGED <<memvars, freelock, call, dsuper, pos, dfbc, ddir, dfile>>
  BY DEF fileOpenRead, flvars, memvars, MyFd
<1>3. data \in Bytes
  BY <1>1, NoCommandIs DEF FilesTyped
<1> HIDE DEF data
<1>4. filetab[fd] \in Filenode /\ 0 \in Length
  BY <1>1, FileAssumption DEF FilesTyped, Length
<1>5. /\ e \in Filenode /\ e.state = filetab[fd].state \cup {"OPEN"} /\ e.name = filetab[fd].name
      /\ e.length = filetab[fd].length /\ e.blocknum = filetab[fd].blocknum
      /\ e.cursor = 0 /\ e.length \in Nat
  <2> DEFINE s == filetab[fd].state \cup {"OPEN"}
  <2>1. s \in SUBSET {"USED", "OPEN", "DIRTY"} /\ e = [filetab[fd] EXCEPT !.data = data, !.state = s, !.cursor = 0]
    BY <1>4 DEF Filenode
  <2> HIDE DEF s, e
  <2>2. /\ e \in Filenode /\ e.state = s /\ e.name = filetab[fd].name
        /\ e.length = filetab[fd].length /\ e.blocknum = filetab[fd].blocknum
        /\ e.cursor = 0 /\ e.length \in Length
    BY <2>1, <1>3, <1>4 DEF Filenode
  <2> QED BY <2>2 DEF s, Length
<1>6. filetab' = [filetab EXCEPT ![fd] = e]
  BY <1>2, Zenon DEF e
<1> HIDE DEF e
<1>7. filetab'[fd] = e /\ (\A g \in Fds : g # fd => filetab'[g] = filetab[g])
      /\ filetab' \in [Fds -> Filenode]
  BY <1>1, <1>5, <1>6, SetEntry DEF FilesTyped
<1>8. Alike
  BY <1>1, <1>5, <1>6, SetAlike DEF FilesTyped, Used
<1>9. /\ proc' \in [Procs -> Proc]
      /\ \/ proc'[p].pc = "idle"
         \/ /\ proc'[p].fd = fd /\ proc'[p].pc \in {"fileSeek", "delete"}
            /\ proc'[p].pc = "delete" => proc'[p].cmd = "delete"
  BY <1>1, <1>2, Opens DEF FilesTyped, Fds, SYSERR
<1>10. \A x \in Fds : filetab'[x].cursor <= filetab'[x].length
  BY <1>1, <1>5, <1>7 DEF FilesTyped
<1>11. CommandOK(p)'
  BY <1>1, <1>2, <1>5, <1>7, <1>8, <1>9 DEF CommandOK, HasEntry, Writing, Calling, Alike, Used
<1>12. Passes(p)
  BY <1>1, <1>9 DEF Passes, Unsaved, Writing, Calling
<1>13. dfile' \in [Blocks -> Bytes] /\ pos' \in 0 .. DISKBLOCKTOTAL - 1
  BY <1>1, <1>2 DEF FilesTyped, Typed
<1> QED BY <1>2, <1>7, <1>8, <1>9, <1>10, <1>11, <1>12, <1>13, StepAside

LEMMA SeekFileKeeps ==
  ASSUME FilesInv, Solo, NEW p \in Procs, fileSeek(p)
  PROVE  FilesInv' /\ (Found => Found')
<1> DEFINE fd == proc[p].fd
           e  == [filetab[fd] EXCEPT !.cursor = 0]
<1>1. /\ proc[p].pc = "fileSeek" /\ FilesTyped /\ Typed /\ CommandOK(p)
      /\ fd \in Fds /\ Used(fd) /\ "OPEN" \in filetab[fd].state /\ call[p].pc = "idle"
  BY Alone DEF fileSeek, At, CommandOK, HasEntry, Calling
<1>2. /\ UNCHANGED filetab \/ filetab' = [filetab EXCEPT ![fd].cursor = 0]
      /\ Go(p, "get")
      /\ UNCHANGED <<memvars, freelock, call, dsuper, pos, dfbc, ddir, dfile>>
  BY DEF fileSeek, flvars, memvars, MyFd
<1>3. filetab[fd] \in Filenode /\ 0 \in Length
  BY <1>1, FileAssumption DEF FilesTyped, Length
<1>4. /\ e \in Filenode /\ e.state = filetab[fd].state /\ e.name = filetab[fd].name
      /\ e.length = filetab[fd].length /\ e.blocknum = filetab[fd].blocknum
      /\ e.cursor = 0 /\ e.length \in Nat
  BY <1>3 DEF Filenode, Length
<1>5. UNCHANGED filetab \/ filetab' = [filetab EXCEPT ![fd] = e]
  BY <1>2, Zenon
<1> HIDE DEF e
<1>6. /\ filetab' \in [Fds -> Filenode] /\ Alike /\ filetab'[fd].state = filetab[fd].state
      /\ \A x \in Fds : filetab'[x].cursor <= filetab'[x].length
  <2>1. CASE UNCHANGED filetab
    BY <2>1, <1>1 DEF FilesTyped, Alike, Used
  <2>2. CASE filetab' = [filetab EXCEPT ![fd] = e]
    <3>1. filetab'[fd] = e /\ (\A g \in Fds : g # fd => filetab'[g] = filetab[g])
          /\ filetab' \in [Fds -> Filenode]
      BY <2>2, <1>1, <1>4, SetEntry DEF FilesTyped
    <3>2. Alike
      BY <2>2, <1>1, <1>4, SetAlike DEF FilesTyped, Used
    <3> QED BY <3>1, <3>2, <1>1, <1>4 DEF FilesTyped
  <2> QED BY <1>5, <2>1, <2>2
<1>7. proc' \in [Procs -> Proc] /\ proc'[p].pc = "get" /\ proc'[p].fd = fd
  BY <1>1, <1>2, Goes DEF FilesTyped
<1>8. CommandOK(p)'
  BY <1>1, <1>2, <1>6, <1>7 DEF CommandOK, HasEntry, Writing, Calling, Alike, Used
<1>9. Passes(p)
  BY <1>1, <1>7 DEF Passes, Unsaved, Writing, Calling
<1>10. dfile' \in [Blocks -> Bytes] /\ pos' \in 0 .. DISKBLOCKTOTAL - 1
  BY <1>1, <1>2 DEF FilesTyped, Typed
<1> QED BY <1>2, <1>6, <1>7, <1>8, <1>9, <1>10, StepAside

LEMMA GetCharKeeps ==
  ASSUME FilesInv, Solo, NEW p \in Procs, fileGetChar(p)
  PROVE  FilesInv' /\ (Found => Found')
<1> DEFINE fd == proc[p].fd
           e  == [filetab[fd] EXCEPT !.cursor = @ + 1]
           c  == [proc[p] EXCEPT !.seen = Append(@, filetab[fd].data[filetab[fd].cursor + 1])]
<1>1. /\ proc[p].pc = "get" /\ FilesTyped /\ Typed /\ CommandOK(p)
      /\ fd \in Fds /\ Used(fd) /\ "OPEN" \in filetab[fd].state /\ call[p].pc = "idle"
  BY Alone DEF fileGetChar, At, CommandOK, HasEntry, Calling
<1>2. /\ \/ End(p) /\ UNCHANGED filetab
         \/ /\ ~ (filetab[fd].cursor >= filetab[fd].length)
            /\ proc' = [proc EXCEPT ![p].seen = Append(@, filetab[fd].data[filetab[fd].cursor + 1])]
            /\ filetab' = [filetab EXCEPT ![fd].cursor = @ + 1]
      /\ UNCHANGED <<memvars, freelock, call, dsuper, pos, dfbc, ddir, dfile>>
  BY DEF fileGetChar, flvars, memvars, MyFd, AtEnd, Entry
<1>3. filetab[fd] \in Filenode /\ proc[p] \in Proc /\ proc[p].pc = "get"
  BY <1>1 DEF FilesTyped
<1>4. /\ filetab' \in [Fds -> Filenode] /\ Alike /\ filetab'[fd].state = filetab[fd].state
      /\ \A x \in Fds : filetab'[x].cursor <= filetab'[x].length
      /\ proc' \in [Procs -> Proc]
      /\ proc'[p].pc = "idle" \/ (proc'[p].pc = "get" /\ proc'[p].fd = fd)
  <2>1. CASE End(p) /\ UNCHANGED filetab
    BY <2>1, <1>1, Ends DEF FilesTyped, Alike, Used
  <2>2. CASE /\ ~ (filetab[fd].cursor >= filetab[fd].length)
             /\ proc' = [proc EXCEPT ![p].seen =
                            Append(@, filetab[fd].data[filetab[fd].cursor + 1])]
             /\ filetab' = [filetab EXCEPT ![fd].cursor = @ + 1]
    <3>1. /\ filetab[fd].cursor \in Nat /\ filetab[fd].length \in Nat
          /\ filetab[fd].length <= DISKBLOCKLEN
          /\ filetab[fd].cursor + 1 \in 1 .. DISKBLOCKLEN
      BY <2>2, <1>3, FileAssumption, SMTT(20) DEF Filenode, Length
    <3>2. filetab[fd].data[filetab[fd].cursor + 1] \in Char
      BY <3>1, <1>3 DEF Filenode, Bytes
    <3>3. /\ e \in Filenode /\ e.state = filetab[fd].state /\ e.name = filetab[fd].name
          /\ e.length = filetab[fd].length /\ e.blocknum = filetab[fd].blocknum
          /\ e.cursor = filetab[fd].cursor + 1 /\ e.cursor <= e.length
      BY <3>1, <2>2, <1>3, SMTT(20) DEF Filenode, Length
    <3>4. c \in Proc /\ c.pc = "get" /\ c.fd = fd
      <4>1. proc[p].seen \in Seq(Char)
        BY <1>3 DEF Proc
      <4>2. Append(proc[p].seen, filetab[fd].data[filetab[fd].cursor + 1]) \in Seq(Char)
        BY <4>1, <3>2, AppendProperties
      <4> QED BY <4>2, <1>3 DEF Proc
    <3>5. filetab' = [filetab EXCEPT ![fd] = e] /\ proc' = [proc EXCEPT ![p] = c]
      BY <2>2, Zenon
    <3> HIDE DEF e, c
    <3>6. filetab'[fd] = e /\ (\A g \in Fds : g # fd => filetab'[g] = filetab[g])
          /\ filetab' \in [Fds -> Filenode]
      BY <3>3, <3>5, <1>1, SetEntry DEF FilesTyped
    <3>7. Alike
      BY <3>3, <3>5, <1>1, SetAlike DEF FilesTyped, Used
    <3>8. proc'[p] = c /\ proc' \in [Procs -> Proc]
      BY <3>4, <3>5, <1>1, SetProc DEF FilesTyped
    <3> QED BY <3>3, <3>4, <3>6, <3>7, <3>8, <1>1 DEF FilesTyped
  <2> QED BY <1>2, <2>1, <2>2
<1>5. CommandOK(p)'
  BY <1>1, <1>2, <1>4 DEF CommandOK, HasEntry, Writing, Calling, Alike, Used
<1>6. Passes(p)
  BY <1>1, <1>4 DEF Passes, Unsaved, Writing, Calling
<1>7. dfile' \in [Blocks -> Bytes] /\ pos' \in 0 .. DISKBLOCKTOTAL - 1
  BY <1>1, <1>2 DEF FilesTyped, Typed
<1> QED BY <1>2, <1>4, <1>5, <1>6, <1>7, StepAside
-----------------------------------------------------------------------------
(* Writing and closing.                                                    *)

\* Whose file is being made.
LEMMA MakingOne ==
  ASSUME FilesInv, Solo, NEW p \in Procs, proc[p].pc \in Writing
  PROVE  /\ FilesTyped /\ Typed /\ CommandOK(p) /\ call[p].pc = "idle"
         /\ proc[p].fd \in Fds /\ Used(proc[p].fd) /\ filetab[proc[p].fd].blocknum \in Blocks
         /\ filetab[proc[p].fd] \in Filenode /\ proc[p].fd \in Owners
         /\ filetab[proc[p].fd].blocknum \in Taken
         /\ proc[p].pc \in Unsaved /\ proc[p].pc \notin Calling
         /\ proc \in [Procs -> Proc] /\ filetab \in [Fds -> Filenode]
<1>1. /\ FilesTyped /\ Typed /\ CommandOK(p) /\ Owning
      /\ proc[p].pc \in HasEntry /\ proc[p].pc \notin Calling /\ proc[p].pc \in Unsaved
  BY Alone DEF HasEntry, Writing, Calling, Unsaved
<1>2. /\ call[p].pc = "idle" /\ proc[p].fd \in Fds /\ Used(proc[p].fd)
      /\ filetab[proc[p].fd].blocknum \in Blocks
  BY <1>1 DEF CommandOK
<1>3. proc[p].fd \in Owners
  BY <1>1, <1>2, OneShell, Numbers DEF Owners, Calling
<1> QED BY <1>1, <1>2, <1>3 DEF FilesTyped, Owning

LEMMA PutCharKeeps ==
  ASSUME FilesInv, Solo, NEW p \in Procs, filePutChar(p)
  PROVE  FilesInv' /\ (Found => Found')
<1> DEFINE fd   == proc[p].fd
           d    == filetab[fd]
           data == [d.data EXCEPT ![d.cursor + 1] = proc[p].name]
           len  == IF d.length = d.cursor THEN d.length + 1 ELSE d.length
           s    == d.state \cup {"DIRTY"}
           e    == [d EXCEPT !.data[d.cursor + 1] = proc[p].name, !.cursor = @ + 1,
                             !.length = IF @ = d.cursor THEN @ + 1 ELSE @,
                             !.state = @ \cup {"DIRTY"}]
<1>1. proc[p].pc = "put" /\ proc[p].pc \in Writing
  BY DEF filePutChar, At, Writing
<1>2. /\ FilesTyped /\ Typed /\ CommandOK(p) /\ call[p].pc = "idle"
      /\ fd \in Fds /\ Used(fd) /\ d.blocknum \in Blocks /\ d \in Filenode
      /\ proc[p].pc \in Unsaved /\ proc[p].pc \notin Calling
      /\ proc \in [Procs -> Proc] /\ filetab \in [Fds -> Filenode] /\ fd \in Owners
  BY <1>1, MakingOne
<1>3. /\ d.cursor <= d.length /\ d.cursor < DISKBLOCKLEN
      /\ UNCHANGED <<memvars, freelock, call, dsuper, pos, dfbc, ddir, dfile, proc>>
  BY DEF filePutChar, flvars, memvars, MyFd, Entry
<1>4. filetab' = [filetab EXCEPT ![fd] = e]
  BY Zenon DEF filePutChar, MyFd, Entry
<1>5. /\ d.cursor + 1 \in Length /\ len \in Length /\ d.cursor + 1 <= len
      /\ data \in Bytes /\ s \in SUBSET {"USED", "OPEN", "DIRTY"}
  <2>1. d.cursor \in Nat /\ d.length \in Nat /\ d.length <= DISKBLOCKLEN
    BY <1>2 DEF Filenode, Length
  <2>2. d.cursor + 1 \in Length /\ len \in Length /\ d.cursor + 1 <= len
    BY <1>3, <2>1, FileAssumption DEF Length
  <2>3. proc[p].name \in Char /\ d.data \in Bytes
    BY <1>2 DEF Proc, Filenode
  <2>4. data \in Bytes
    BY <2>3 DEF Bytes
  <2>5. s \in SUBSET {"USED", "OPEN", "DIRTY"}
    BY <1>2 DEF Filenode
  <2> QED BY <2>2, <2>4, <2>5
<1>6. "USED" \in s
  BY <1>2 DEF Used
<1>5a. e = [d EXCEPT !.data = data, !.cursor = d.cursor + 1, !.length = len, !.state = s]
  BY <1>2 DEF Filenode
<1> HIDE DEF data, len, s, e
<1>7. /\ e \in Filenode /\ e.state = s /\ e.name = d.name /\ e.blocknum = d.blocknum
      /\ e.cursor = d.cursor + 1 /\ e.length = len /\ e.data = data
  BY <1>2, <1>5, <1>5a DEF Filenode
<1>8. filetab'[fd] = e /\ (\A g \in Fds : g # fd => filetab'[g] = filetab[g])
      /\ filetab' \in [Fds -> Filenode]
  BY <1>2, <1>4, <1>7, SetEntry
<1>9. FilesTyped'
  BY <1>2, <1>3, <1>5, <1>7, <1>8 DEF FilesTyped
<1>10. ListInv(Taken)' /\ DiskInv' /\ Taken' = Taken
  BY <1>2, <1>3, ListAside DEF Typed
<1>11. CommandOK(p)'
  BY <1>1, <1>2, <1>3, <1>6, <1>7, <1>8 DEF CommandOK, HasEntry, Writing, Calling, Used
<1>12. \A x \in Fds : Creating(x)' <=> Creating(x)
  BY <1>3, OneShell
<1>13. \A x \in Owners' : x \in Owners /\ filetab'[x].blocknum = filetab[x].blocknum
  BY <1>2, <1>7, <1>8, <1>12 DEF Owners, Used
<1>14. \A x \in Owners' : ~ Making(x)' => ~ Making(x) /\ Stored'[x] = Stored[x]
  <2> SUFFICES ASSUME NEW x \in Owners', ~ Making(x)' PROVE ~ Making(x) /\ Stored'[x] = Stored[x]
    OBVIOUS
  <2>1. x # fd /\ ~ Making(x) /\ x \in Fds
    BY <1>2, <1>3, OneShell DEF Owners
  <2> QED BY <2>1, <1>8 DEF Stored
<1>15. Owning' /\ Saved'
  BY <1>3, <1>10, <1>13, <1>14, OwnersStay DEF FilesInv
<1>16. FilesInv'
  BY <1>9, <1>10, <1>11, <1>15, OneShell DEF FilesInv
<1>17. Passes(p)
  BY <1>1, <1>2, <1>3 DEF Passes, Calling
<1>18. \A x \in Fds : (Used(x)' <=> Used(x)) /\ filetab'[x].blocknum = filetab[x].blocknum
  BY <1>2, <1>6, <1>7, <1>8 DEF Used
<1> QED BY <1>3, <1>10, <1>16, <1>17, <1>18, FoundAside

LEMMA TildeKeeps ==
  ASSUME FilesInv, Solo, NEW p \in Procs, Tilde(p)
  PROVE  FilesInv' /\ (Found => Found')
<1> DEFINE fd == proc[p].fd
<1>1. proc[p].pc = "put" /\ proc[p].pc \in Writing
  BY DEF Tilde, At, Writing
<1>2. /\ FilesTyped /\ Typed /\ CommandOK(p) /\ call[p].pc = "idle"
      /\ fd \in Fds /\ Used(fd) /\ filetab[fd].blocknum \in Blocks
      /\ proc[p].pc \in Unsaved /\ proc[p].pc \notin Calling
      /\ proc \in [Procs -> Proc] /\ filetab \in [Fds -> Filenode]
  BY <1>1, MakingOne
<1>3. /\ Go(p, "close")
      /\ UNCHANGED <<memvars, freelock, call, dsuper, pos, dfbc, ddir, dfile, filetab>>
  BY DEF Tilde, flvars, memvars, dirvars
<1>4. proc' \in [Procs -> Proc] /\ proc'[p].pc = "close" /\ proc'[p].fd = fd
  BY <1>2, <1>3, Goes
<1>5. CommandOK(p)'
  BY <1>2, <1>3, <1>4 DEF CommandOK, HasEntry, Writing, Calling, Used
<1>6. Alike /\ Passes(p)
  BY <1>1, <1>2, <1>3, <1>4 DEF Alike, Used, Passes, Calling, Unsaved, Writing
<1> QED BY <1>2, <1>3, <1>4, <1>5, <1>6, StepAside DEF FilesTyped, Typed

LEMMA CloseKeeps ==
  ASSUME FilesInv, Solo, NEW p \in Procs, fileClose(p)
  PROVE  FilesInv' /\ (Found => Found')
<1> DEFINE fd == proc[p].fd
           s  == filetab[fd].state \ {"OPEN"}
           e  == [filetab[fd] EXCEPT !.state = s]
<1>1. proc[p].pc = "close" /\ proc[p].pc \in Writing
  BY DEF fileClose, At, Writing
<1>2. /\ FilesTyped /\ Typed /\ CommandOK(p) /\ call[p].pc = "idle"
      /\ fd \in Fds /\ Used(fd) /\ filetab[fd].blocknum \in Blocks /\ filetab[fd] \in Filenode
      /\ proc[p].pc \in Unsaved /\ proc[p].pc \notin Calling
      /\ proc \in [Procs -> Proc] /\ filetab \in [Fds -> Filenode]
  BY <1>1, MakingOne
<1>3. /\ \/ MoveTo(filetab[fd].blocknum) /\ Go(p, "closewrite") /\ UNCHANGED filetab
         \/ /\ filetab' = [filetab EXCEPT ![fd].state = @ \ {"OPEN"}]
            /\ Go(p, "dirwait") /\ UNCHANGED pos
      /\ UNCHANGED <<memvars, freelock, call, dsuper, dfbc, ddir, dfile>>
  BY <1>2 DEF fileClose, MyFd, Entry, Vacant, Used
<1>4. CASE MoveTo(filetab[fd].blocknum) /\ Go(p, "closewrite") /\ UNCHANGED filetab
  <2>1. proc' \in [Procs -> Proc] /\ proc'[p].pc = "closewrite" /\ proc'[p].fd = fd
    BY <1>2, <1>4, Goes
  <2>2. pos' = filetab[fd].blocknum /\ pos' \in 0 .. DISKBLOCKTOTAL - 1
    BY <1>2, <1>4, Numbers DEF MoveTo
  <2>3. CommandOK(p)'
    BY <1>2, <1>3, <1>4, <2>1, <2>2 DEF CommandOK, HasEntry, Writing, Calling, Used
  <2>4. Alike /\ Passes(p)
    BY <1>1, <1>2, <1>4, <2>1 DEF Alike, Used, Passes, Calling, Unsaved, Writing
  <2> QED BY <1>2, <1>3, <1>4, <2>1, <2>2, <2>3, <2>4, StepAside DEF FilesTyped
<1>5. CASE /\ filetab' = [filetab EXCEPT ![fd].state = @ \ {"OPEN"}]
           /\ Go(p, "dirwait") /\ UNCHANGED pos
  <2>1. proc' \in [Procs -> Proc] /\ proc'[p].pc = "dirwait" /\ proc'[p].fd = fd
    BY <1>2, <1>5, Goes
  <2>2. s \in SUBSET {"USED", "OPEN", "DIRTY"} /\ "USED" \in s
    BY <1>2 DEF Filenode, Used
  <2>3. filetab' = [filetab EXCEPT ![fd] = e]
    BY <1>5, Zenon
  <2> HIDE DEF s
  <2>4. /\ e \in Filenode /\ e.state = s /\ e.name = filetab[fd].name
        /\ e.length = filetab[fd].length /\ e.blocknum = filetab[fd].blocknum
        /\ e.cursor = filetab[fd].cursor
    BY <1>2, <2>2 DEF Filenode
  <2> HIDE DEF e
  <2>5. filetab'[fd] = e /\ (\A g \in Fds : g # fd => filetab'[g] = filetab[g])
        /\ filetab' \in [Fds -> Filenode]
    BY <1>2, <2>3, <2>4, SetEntry
  <2>6. Alike
    BY <1>2, <2>2, <2>3, <2>4, SetAlike
  <2>7. CommandOK(p)'
    BY <1>2, <1>3, <2>1, <2>2, <2>4, <2>5 DEF CommandOK, HasEntry, Writing, Calling, Used
  <2>8. Passes(p) /\ pos' \in 0 .. DISKBLOCKTOTAL - 1
    BY <1>1, <1>2, <1>5, <2>1 DEF Passes, Calling, Unsaved, Writing, Typed
  <2>9. \A x \in Fds : filetab'[x].cursor <= filetab'[x].length
    BY <1>2, <2>4, <2>5 DEF FilesTyped
  <2> QED BY <1>2, <1>3, <2>1, <2>5, <2>6, <2>7, <2>8, <2>9, StepAside DEF FilesTyped
<1> QED BY <1>3, <1>4, <1>5

LEMMA CloseWriteKeeps ==
  ASSUME FilesInv, Solo, MayFail = FALSE, NEW p \in Procs, fileCloseWrite(p)
  PROVE  FilesInv' /\ (Found => Found')
<1> DEFINE fd == proc[p].fd
           s  == filetab[fd].state \ {"OPEN", "DIRTY"}
           e  == [filetab[fd] EXCEPT !.state = s]
<1>1. proc[p].pc = "closewrite" /\ proc[p].pc \in Writing
  BY DEF fileCloseWrite, At, Writing
<1>2. /\ FilesTyped /\ Typed /\ CommandOK(p) /\ call[p].pc = "idle"
      /\ fd \in Fds /\ Used(fd) /\ filetab[fd].blocknum \in Blocks /\ filetab[fd] \in Filenode
      /\ proc[p].pc \in Unsaved /\ proc[p].pc \notin Calling
      /\ filetab[fd].blocknum \in Taken
      /\ proc \in [Procs -> Proc] /\ filetab \in [Fds -> Filenode]
  BY <1>1, MakingOne
<1>3. pos = filetab[fd].blocknum
  BY <1>1, <1>2 DEF CommandOK
<1>4. /\ Store(filetab[fd].data, <<>>) /\ Go(p, "dirwait")
      /\ filetab' = [filetab EXCEPT ![fd].state = @ \ {"OPEN", "DIRTY"}]
      /\ UNCHANGED <<memvars, freelock, call, pos>>
  BY DEF fileCloseWrite, MyFd, Entry
<1>5. pos \in Blocks /\ pos \in Taken /\ pos # SUPERBLOCKNUM /\ pos # DIRBLOCK /\ pos \in DOMAIN dfbc
  BY <1>2, <1>3, Numbers DEF DIRBLOCK, Blocks, SUPERBLOCKNUM, Typed
<1>6. /\ UNCHANGED <<dsuper, ddir>> /\ dfbc' = [dfbc EXCEPT ![pos] = NoFbc]
      /\ dfile' = [dfile EXCEPT ![pos] = filetab[fd].data]
  BY <1>4, <1>5 DEF Store
<1>7. dfile' \in [Blocks -> Bytes]
  BY <1>2, <1>5, <1>6 DEF FilesTyped, Filenode
<1>8. proc' \in [Procs -> Proc] /\ proc'[p].pc = "dirwait" /\ proc'[p].fd = fd
  BY <1>2, <1>4, Goes
<1>9. s \in SUBSET {"USED", "OPEN", "DIRTY"} /\ "USED" \in s
  BY <1>2 DEF Filenode, Used
<1>10. filetab' = [filetab EXCEPT ![fd] = e]
  BY <1>4, Zenon
<1> HIDE DEF s
<1>11. /\ e \in Filenode /\ e.state = s /\ e.name = filetab[fd].name
       /\ e.length = filetab[fd].length /\ e.blocknum = filetab[fd].blocknum
       /\ e.cursor = filetab[fd].cursor
  BY <1>2, <1>9 DEF Filenode
<1> HIDE DEF e
<1>12. filetab'[fd] = e /\ (\A g \in Fds : g # fd => filetab'[g] = filetab[g])
       /\ filetab' \in [Fds -> Filenode]
  BY <1>2, <1>10, <1>11, SetEntry
<1>13. Alike
  BY <1>2, <1>9, <1>10, <1>11, SetAlike
<1>14. CommandOK(p)'
  BY <1>2, <1>4, <1>8, <1>9, <1>11, <1>12 DEF CommandOK, HasEntry, Writing, Calling, Used
<1>15. Passes(p) /\ pos' \in 0 .. DISKBLOCKTOTAL - 1
  BY <1>1, <1>2, <1>4, <1>8 DEF Passes, Calling, Unsaved, Writing, Typed
<1>16. \A x \in Fds : filetab'[x].cursor <= filetab'[x].length
  BY <1>2, <1>11, <1>12 DEF FilesTyped
<1> QED BY <1>2, <1>4, <1>5, <1>6, <1>7, <1>8, <1>12, <1>13, <1>14, <1>15, <1>16, StepAside

LEMMA DirSeekKeeps ==
  ASSUME FilesInv, Solo, NEW p \in Procs, DirSeek(p)
  PROVE  FilesInv' /\ (Found => Found')
<1> DEFINE fd == proc[p].fd
<1>1. /\ FilesTyped /\ Typed /\ CommandOK(p) /\ proc[p].pc \in {"dirwait", "dirseek"}
      /\ proc[p].pc \notin Calling
  BY Alone DEF DirSeek, At, Calling
<1>2. call[p].pc = "idle" /\ SUPER \notin swz
  BY <1>1, Alone
<1>3. /\ Go(p, "dirwrite") /\ MoveTo(DIRBLOCK)
      /\ UNCHANGED <<memvars, freelock, call, dsuper, dfbc, ddir, dfile, filetab>>
  BY <1>2 DEF DirSeek
<1>4. /\ proc' \in [Procs -> Proc] /\ proc'[p].pc = "dirwrite" /\ proc'[p].fd = fd
      /\ proc'[p].cmd = proc[p].cmd
  BY <1>1, <1>3, Goes DEF FilesTyped
<1>5. pos' = DIRBLOCK /\ pos' \in 0 .. DISKBLOCKTOTAL - 1
  <2>1. DIRBLOCK \in 0 .. DISKBLOCKTOTAL - 1
    BY LayoutAssumption DEF DIRBLOCK, SUPERBLOCKNUM
  <2> QED BY <1>3, <2>1 DEF MoveTo
<1>6. fd \in Fds
  BY <1>1 DEF CommandOK, HasEntry
<1>7. CommandOK(p)'
  BY <1>2, <1>3, <1>4, <1>5, <1>6 DEF CommandOK, HasEntry, Writing, Calling, Used
<1>8. Alike /\ Passes(p)
  BY <1>1, <1>3, <1>4 DEF Alike, Used, Passes, Calling, Unsaved, Writing
<1> QED BY <1>1, <1>3, <1>4, <1>5, <1>7, <1>8, StepAside DEF FilesTyped

LEMMA DirWriteKeeps ==
  ASSUME FilesInv, Solo, MayFail = FALSE, NEW p \in Procs, DirWrite(p)
  PROVE  FilesInv' /\ (Found => Found')
<1>1. /\ FilesTyped /\ Typed /\ CommandOK(p) /\ Owning /\ proc[p].pc = "dirwrite"
      /\ proc[p].pc \notin Calling
  BY Alone DEF DirWrite, At, Calling
<1>2. call[p].pc = "idle" /\ SUPER \notin swz /\ pos = DIRBLOCK
  BY <1>1, Alone DEF CommandOK
<1>3. /\ End(p) /\ Store(JunkBlock, Stored)
      /\ UNCHANGED <<memvars, freelock, call, pos, filetab>>
  BY <1>2 DEF DirWrite
<1>4. /\ UNCHANGED <<dsuper, dfile>> /\ dfbc' = [dfbc EXCEPT ![pos] = NoFbc]
      /\ ddir' = Stored
  <2>1. DIRBLOCK # SUPERBLOCKNUM /\ DIRBLOCK \in 1 .. DISKBLOCKTOTAL - 1 /\ DIRBLOCK \notin Blocks
    BY LayoutAssumption DEF DIRBLOCK, SUPERBLOCKNUM, Blocks
  <2>2. DOMAIN dfbc = 1 .. DISKBLOCKTOTAL - 1
    BY <1>1 DEF Typed
  <2> QED BY <1>2, <1>3, <2>1, <2>2 DEF Store
<1>5. proc' \in [Procs -> Proc] /\ proc'[p].pc = "idle"
  BY <1>1, <1>3, Ends DEF FilesTyped
<1>6. ListInv(Taken)' /\ DiskInv' /\ Taken' = Taken
  BY <1>1, <1>2, <1>3, <1>4, ListAside DEF Typed
<1>7. Stored \in [Fds -> Dirent] /\ Stored' = Stored
  <2>1. \A fd \in Fds : filetab[fd] \in Filenode
    BY <1>1 DEF FilesTyped
  <2>2. \A fd \in Fds : Stored[fd] \in Dirent
    BY <2>1 DEF Stored, Filenode, Dirent
  <2> QED BY <1>3, <2>2 DEF Stored
<1>8. FilesTyped'
  BY <1>1, <1>3, <1>4, <1>5, <1>7 DEF FilesTyped
<1>9. CommandOK(p)'
  BY <1>2, <1>3, <1>5 DEF CommandOK, HasEntry, Writing, Calling
<1>10. \A fd \in Owners' : fd \in Owners
  BY <1>1, <1>3, <1>5, OneShell DEF Owners, Used
<1>11. Owning'
  BY <1>1, <1>3, <1>6, <1>10 DEF Owning
<1>12. Saved'
  BY <1>4, <1>7 DEF Saved
<1>13. FilesInv'
  BY <1>6, <1>8, <1>9, <1>11, <1>12, OneShell DEF FilesInv
<1>14. proc'[p].pc = "idle" /\ call'[p].pc = "idle" /\ ~ Linking(p)'
  BY <1>2, <1>3, <1>5 DEF Linking
<1>15. \A fd \in Fds : /\ ddir'[fd].state # {} <=> Used(fd)'
                       /\ ddir'[fd].blocknum = filetab'[fd].blocknum
  BY <1>3, <1>4 DEF Stored, Used
<1>16. ~ Freed(p)'
  BY <1>14 DEF Freed, HalfLinked, At
<1>17. DiskFiles' = {fd \in Fds : ddir'[fd].state # {} /\ ddir'[fd].blocknum # SYSERR}
  BY <1>8, <1>16, OnDiskAreNext
<1>18. \A fd \in DiskFiles' : fd \in Owners' /\ fd \in Ready'
  BY <1>14, <1>15, <1>17, OneShell DEF Owners, Ready, Unsaved, Writing
<1>19. \A a, b \in DiskFiles' : ddir'[a].blocknum = ddir'[b].blocknum => a = b
  BY <1>11, <1>15, <1>17, <1>18 DEF Owning
<1> QED BY <1>13, <1>14, <1>18, <1>19, OneShell DEF Found
-----------------------------------------------------------------------------
(* Creating.                                                               *)

LEMMA CountedSolo ==
  ASSUME Solo, NEW S
  PROVE  Counted(S) /\ Counted(S)'
BY DEF Counted, Solo

LEMMA CreateKeeps ==
  ASSUME FilesInv, Solo, NEW p \in Procs, fileCreate(p)
  PROVE  FilesInv' /\ (Found => Found')
<1> DEFINE free == {x \in Fds : Vacant(x)}
           fd   == Min(free)
           new  == [filetab[fd] EXCEPT !.name = proc[p].name, !.length = 0, !.cursor = 0,
                                       !.data = JunkBlock]
           both == [new EXCEPT !.state = {"USED", "OPEN"}]
<1>1. /\ proc[p].pc = "create" /\ FilesTyped /\ Typed /\ CommandOK(p) /\ proc[p].pc \notin Calling
  BY Alone DEF fileCreate, At, Calling
<1>2. /\ \/ End(p) /\ UNCHANGED filetab
         \/ free # {} /\ End(p) /\ filetab' = [filetab EXCEPT ![fd] = new]
         \/ /\ free # {} /\ filetab' = [filetab EXCEPT ![fd] = both]
            /\ proc' = [proc EXCEPT ![p].fd = fd, ![p].pc = "getblock"]
      /\ UNCHANGED <<memvars, freelock, call, dsuper, pos, dfbc, ddir, dfile>>
  BY DEF fileCreate, flvars, memvars
<1>3. free # {} => fd \in Fds /\ filetab[fd].state = {}
  <2>1. free \in SUBSET Fds
    OBVIOUS
  <2> HIDE DEF free
  <2>2. free # {} => fd \in free
    BY <2>1, LeastIn
  <2> QED BY <2>2 DEF free, Vacant
<1> HIDE DEF free, fd
<1>4. free # {} => /\ new \in Filenode /\ both \in Filenode
                   /\ new.state = {} /\ both.state = {"USED", "OPEN"}
                   /\ new.cursor = 0 /\ new.length = 0 /\ both.cursor = 0 /\ both.length = 0
  <2> SUFFICES ASSUME free # {}
               PROVE  /\ new \in Filenode /\ both \in Filenode
                      /\ new.state = {} /\ both.state = {"USED", "OPEN"}
                      /\ new.cursor = 0 /\ new.length = 0 /\ both.cursor = 0 /\ both.length = 0
    OBVIOUS
  <2>0. proc[p] \in Proc /\ filetab[fd] \in Filenode
    BY <1>1, <1>3 DEF FilesTyped
  <2>1. 0 \in Length /\ JunkBlock \in Bytes /\ proc[p].name \in Char
    <3>1. 0 \in Length
      BY FileAssumption DEF Length
    <3>2. proc[p].name \in Char
      BY <2>0 DEF Proc
    <3> QED BY <3>1, <3>2, NoCommandIs
  <2>2. /\ new \in Filenode /\ new.state = {} /\ new.cursor = 0 /\ new.length = 0
    BY <2>0, <2>1, <1>3 DEF Filenode
  <2> HIDE DEF new
  <2>3. {"USED", "OPEN"} \in SUBSET {"USED", "OPEN", "DIRTY"}
    OBVIOUS
  <2>4. /\ both \in Filenode /\ both.state = {"USED", "OPEN"}
        /\ both.cursor = new.cursor /\ both.length = new.length
    BY <2>2, <2>3 DEF Filenode
  <2> QED BY <2>2, <2>4
<1> HIDE DEF new, both
<1>5. /\ filetab' \in [Fds -> Filenode]
      /\ \A x \in Fds : filetab'[x].cursor <= filetab'[x].length
      /\ \A x \in Fds : \/ filetab'[x] = filetab[x]
                        \/ /\ x = fd /\ free # {}
                           /\ ~ Used(x)' \/ (proc'[p].pc = "getblock" /\ proc'[p].fd = x)
      /\ proc' \in [Procs -> Proc]
      /\ \/ proc'[p].pc = "idle"
         \/ /\ proc'[p].pc = "getblock" /\ proc'[p].fd = fd /\ proc'[p].fd \in Fds
            /\ free # {} /\ "USED" \in filetab'[proc'[p].fd].state
  <2>1. CASE End(p) /\ UNCHANGED filetab
    BY <2>1, <1>1, Ends DEF FilesTyped
  <2>2. CASE free # {} /\ End(p) /\ filetab' = [filetab EXCEPT ![fd] = new]
    <3>1. filetab'[fd] = new /\ (\A g \in Fds : g # fd => filetab'[g] = filetab[g])
          /\ filetab' \in [Fds -> Filenode]
      BY <2>2, <1>1, <1>3, <1>4, SetEntry DEF FilesTyped
    <3>2. proc' \in [Procs -> Proc] /\ proc'[p].pc = "idle"
      BY <2>2, <1>1, Ends DEF FilesTyped
    <3> QED BY <2>2, <3>1, <3>2, <1>1, <1>4 DEF FilesTyped, Used
  <2>3. CASE /\ free # {} /\ filetab' = [filetab EXCEPT ![fd] = both]
             /\ proc' = [proc EXCEPT ![p].fd = fd, ![p].pc = "getblock"]
    <3> DEFINE c == [proc[p] EXCEPT !.fd = fd, !.pc = "getblock"]
    <3>1. filetab'[fd] = both /\ (\A g \in Fds : g # fd => filetab'[g] = filetab[g])
          /\ filetab' \in [Fds -> Filenode]
      BY <2>3, <1>1, <1>3, <1>4, SetEntry DEF FilesTyped
    <3>2. proc' = [proc EXCEPT ![p] = c]
      BY <2>3, Zenon
    <3>3. c \in Proc /\ c.fd = fd /\ c.pc = "getblock"
      <4>1. proc[p] \in Proc /\ fd \in Int
        BY <1>1, <1>3, <2>3 DEF FilesTyped, Fds
      <4> QED BY <4>1 DEF Proc
    <3> HIDE DEF c
    <3>4. proc'[p] = c /\ proc' \in [Procs -> Proc]
      BY <3>2, <3>3, <1>1, SetProc DEF FilesTyped
    <3>5. "USED" \in filetab'[fd].state
      BY <2>3, <3>1, <1>4
    <3> QED BY <2>3, <3>1, <3>3, <3>4, <3>5, <1>1, <1>3, <1>4 DEF FilesTyped
  <2> QED BY <1>2, <2>1, <2>2, <2>3
<1>6. ListInv(Taken)' /\ DiskInv' /\ Taken' = Taken
  BY <1>1, <1>2, ListAside DEF Typed
<1>7. FilesTyped'
  BY <1>1, <1>2, <1>5 DEF FilesTyped
<1>8. CommandOK(p)'
  <2>1. call[p].pc = "idle" /\ call' = call /\ CallOK(p)
    BY <1>1, <1>2 DEF FilesInv, ListInv, CommandOK
  <2>2. call[p].op = "none"
    BY <2>1 DEF CallOK
  <2> QED BY <2>1, <2>2, <1>5 DEF CommandOK, HasEntry, Writing, Calling, Used
<1>9. \A x \in Owners' : /\ x \in Owners /\ filetab'[x] = filetab[x]
                         /\ ~ Making(x)' => ~ Making(x)
  BY <1>1, <1>5, OneShell DEF Owners, Used, Unsaved, Writing
<1>10. Owning' /\ Saved'
  BY <1>2, <1>6, <1>9, OwnersStay DEF FilesInv, Stored, Owners
<1>11. FilesInv'
  BY <1>6, <1>7, <1>8, <1>10, OneShell DEF FilesInv
<1>12. call[p].pc = "idle" /\ call'[p].pc = "idle" /\ ~ Linking(p) /\ ~ Linking(p)'
  BY <1>1, <1>2 DEF CommandOK, Linking
<1>13. ~ Freed(p) /\ \A x : ~ Leaving(x)
  BY <1>1, <1>12, OneLeaves DEF Freed, HalfLinked, At
<1>14. \A x \in Ready : x \in Ready'
  <2> SUFFICES ASSUME NEW x \in Ready PROVE x \in Ready'
    OBVIOUS
  <2>1. x \in Fds /\ Used(x) /\ filetab[x].blocknum # SYSERR
    BY DEF Ready, Owners
  <2>2. free # {} => x # fd
    BY <1>3, <2>1 DEF Used
  <2>3. filetab'[x] = filetab[x] /\ ~ (proc'[p].pc = "getblock" /\ proc'[p].fd = x)
    BY <1>5, <2>1, <2>2
  <2>4. proc'[p].pc \in {"idle", "getblock"}
    BY <1>5
  <2> QED BY <2>1, <2>3, <2>4, OneShell DEF Ready, Owners, Used, Unsaved, Writing
<1>15. \A x \in DiskFiles : Loose(x) => Loose(x)'
  BY <1>2, <1>6, <1>9, LooseStays
<1> QED BY <1>2, <1>11, <1>12, <1>13, <1>14, <1>15, FoundStays

LEMMA CreateGetKeeps ==
  ASSUME FilesInv, Solo, NEW p \in Procs, fileCreateGet(p)
  PROVE  FilesInv' /\ (Found => Found') /\ Taken' = Taken
<1> DEFINE r == IF ReadHead = NULL
                THEN [Idle EXCEPT !.op = "get", !.pc = "done", !.arg = SYSERR]
                ELSE [Idle EXCEPT !.op = "get", !.pc = "wait", !.fbc = ReadHead]
<1>1. /\ proc[p].pc = "getblock" /\ FilesTyped /\ Typed /\ CommandOK(p) /\ DiskInv
  BY Alone DEF fileCreateGet, At
<1>2. GetCall(p) /\ UNCHANGED <<filetab, ddir, dfile, proc>>
  BY DEF fileCreateGet, dirvars
<1>3. PICK used : used = Taken /\ ListInv(used)
  BY ListBefore
<1>4. ListInv(used)'
  BY <1>2, <1>3, GetKeeps, CountedSolo
<1>5. call' = [call EXCEPT ![p] = r] /\ UNCHANGED <<pos, node, freelock>>
  BY <1>2 DEF GetCall, memvars, diskvars
<1>6. DOMAIN r = CallFields /\ r.pc \in {"done", "wait"} /\ r.op = "get"
  BY DEF Idle, CallFields
<1> HIDE DEF r
<1>7. DiskInv'
  BY <1>1, <1>5, <1>6, BeginKeeps
<1>8. call'[p] = r
  BY <1>1, <1>5 DEF Typed
<1>9. CommandOK(p)'
  BY <1>1, <1>2, <1>6, <1>8 DEF CommandOK, HasEntry, Writing, Calling, Used
<1>10. ListInv(Taken)' /\ Taken' = Taken
  BY <1>3, <1>4, ListAfter
<1>11. \A x \in Owners' : /\ x \in Owners /\ filetab'[x] = filetab[x]
                          /\ ~ Making(x)' => ~ Making(x)
  BY <1>2, OneShell DEF Owners, Used
<1>12. Owning' /\ Saved'
  BY <1>2, <1>10, <1>11, OwnersStay DEF FilesInv, Stored, Owners
<1>13. FilesInv'
  BY <1>1, <1>2, <1>7, <1>9, <1>10, <1>12, OneShell DEF FilesInv, FilesTyped
<1>14. ~ Linking(p) /\ ~ Linking(p)' /\ ~ Freed(p) /\ \A x : ~ Leaving(x)
  BY <1>1, <1>6, <1>8, OneLeaves DEF CommandOK, Linking, Freed, HalfLinked, At
<1>15. Ready' = Ready
  BY <1>2 DEF Ready, Owners, Used, Creating, At, MyFd, Making
<1>16. \A x \in DiskFiles : Loose(x) => Loose(x)'
  BY <1>2, <1>10, <1>11, LooseStays
<1> QED BY <1>2, <1>10, <1>13, <1>14, <1>15, <1>16, FoundStays

\* A call that is over leaves what it has in hand with its caller.
LEMMA CallEnds ==
  ASSUME FilesInv, Solo, NEW p \in Procs, call[p].pc = "done",
         call' = [call EXCEPT ![p] = Idle], UNCHANGED <<memvars, freelock, diskvars>>
  PROVE  /\ ListInv(Taken)' /\ DiskInv' /\ Taken' = Taken \cup ({call[p].arg} \cap Blocks)
         /\ call[p].arg \notin Taken /\ call'[p].pc = "idle"
         /\ call[p].arg \in Blocks \cup {SYSERR} \cup IF call[p].op = "get" THEN {} ELSE {0}
<1> DEFINE c == Idle
<1>1. PICK used, used2 : /\ used = Taken /\ ListInv(used)
                         /\ used2 = used \cup ({call[p].arg} \cap Blocks)
  BY ListBefore
<1>2. ListInv(used2)'
  BY <1>1, ReturnKeeps, CountedSolo DEF diskvars
<1>3. ListInv(Taken)' /\ Taken' = used2
  BY <1>2, ListAfter
<1>4. DOMAIN c = CallFields /\ c.pc = "idle"
  BY IdleCall
<1> HIDE DEF c
<1>5. DiskInv /\ Typed
  BY Alone
<1>6. DiskInv'
  BY <1>4, <1>5, BeginKeeps DEF memvars, diskvars, c
<1>7. call'[p].pc = "idle"
  BY <1>4, <1>5 DEF Typed, c
<1>8. CallOK(p) /\ call[p].arg \notin Taken
  BY <1>1 DEF ListInv, Owned
<1> QED BY <1>1, <1>3, <1>6, <1>7, <1>8 DEF CallOK

LEMMA CreateGotKeeps ==
  ASSUME FilesInv, Solo, NEW p \in Procs, fileCreateGot(p)
  PROVE  FilesInv' /\ (Found => Found')
<1> DEFINE fd == proc[p].fd
           b  == call[p].arg
           e  == [filetab[fd] EXCEPT !.blocknum = b]
<1>1. /\ proc[p].pc = "getblock" /\ call[p].pc = "done" /\ FilesTyped /\ Typed /\ CommandOK(p)
      /\ Owning /\ Saved /\ fd \in Fds /\ Used(fd) /\ filetab[fd] \in Filenode
  BY Alone DEF fileCreateGot, At, CommandOK, HasEntry, FilesTyped
<1>2. call[p].op = "get"
  <2>1. CallOK(p)
    BY DEF FilesInv, ListInv
  <2> QED BY <2>1, <1>1 DEF CallOK, CommandOK
<1>3. /\ filetab' = [filetab EXCEPT ![fd].blocknum = b]
      /\ call' = [call EXCEPT ![p] = Idle]
      /\ IF b = SYSERR THEN End(p) ELSE Go(p, "put")
      /\ UNCHANGED <<memvars, freelock, diskvars, ddir, dfile>>
  BY DEF fileCreateGot, MyFd
<1>4. /\ ListInv(Taken)' /\ DiskInv' /\ Taken' = Taken \cup ({b} \cap Blocks)
      /\ b \notin Taken /\ call'[p].pc = "idle" /\ b \in Blocks \cup {SYSERR}
  BY <1>1, <1>2, <1>3, CallEnds
<1> HIDE DEF b
<1>5. /\ e \in Filenode /\ e.state = filetab[fd].state /\ e.blocknum = b /\ b \in Int
      /\ e.cursor = filetab[fd].cursor /\ e.length = filetab[fd].length
  BY <1>1, <1>4, Numbers DEF Filenode
<1>6. filetab' = [filetab EXCEPT ![fd] = e]
  BY <1>3, Zenon
<1> HIDE DEF e
<1>7. filetab'[fd] = e /\ (\A g \in Fds : g # fd => filetab'[g] = filetab[g])
      /\ filetab' \in [Fds -> Filenode]
  BY <1>1, <1>5, <1>6, SetEntry DEF FilesTyped
<1>8. /\ proc' \in [Procs -> Proc]
      /\ IF b = SYSERR THEN proc'[p].pc = "idle" ELSE proc'[p].pc = "put" /\ proc'[p].fd = fd
  BY <1>1, <1>3, Ends, Goes DEF FilesTyped
<1>9. CommandOK(p)'
  BY <1>1, <1>4, <1>5, <1>7, <1>8 DEF CommandOK, HasEntry, Writing, Calling, Used
<1>10. FilesTyped'
  BY <1>1, <1>3, <1>5, <1>7, <1>8 DEF FilesTyped
<1>11. \A x \in Owners' : /\ x \in Fds
                          /\ x # fd => x \in Owners /\ filetab'[x] = filetab[x]
                          /\ x = fd => b \in Blocks /\ Making(x)'
                          /\ ~ Making(x)' => ~ Making(x)
  BY <1>1, <1>4, <1>5, <1>7, <1>8, OneShell DEF Owners, Used, Unsaved, Writing
<1>12. Owning'
  <2> SUFFICES ASSUME NEW x \in Owners'
               PROVE  /\ filetab'[x].blocknum \in Taken'
                      /\ \A y \in Owners' \ {x} : filetab'[y].blocknum # filetab'[x].blocknum
    BY DEF Owning
  <2>1. \A y \in Owners' : y # fd => /\ filetab'[y].blocknum \in Taken /\ filetab'[y] = filetab[y]
                                     /\ y \in Owners
    BY <1>1, <1>11 DEF Owning
  <2>2. fd \in Owners' => filetab'[fd].blocknum = b /\ b \in Taken' /\ b \notin Taken
    BY <1>4, <1>5, <1>7, <1>11
  <2> QED BY <2>1, <2>2, <1>1, <1>4 DEF Owning
<1>13. Saved'
  <2> SUFFICES ASSUME NEW x \in Owners', ~ Making(x)' PROVE ddir'[x] = Stored'[x]
    BY DEF Saved
  <2>1. x \in Owners /\ ~ Making(x) /\ filetab'[x] = filetab[x] /\ x \in Fds
    BY <1>11 DEF Owners
  <2> QED BY <2>1, <1>1, <1>3 DEF Saved, Stored
<1>14. FilesInv'
  BY <1>4, <1>9, <1>10, <1>12, <1>13, OneShell DEF FilesInv
<1>15. ~ Linking(p) /\ ~ Linking(p)' /\ ~ Freed(p) /\ \A x : ~ Leaving(x)
  BY <1>1, <1>4, OneLeaves DEF Linking, Freed, HalfLinked, At
<1>16. \A x \in Ready : x \in Ready'
  BY <1>1, <1>7, <1>8, OneShell DEF Ready, Owners, Used, Unsaved, Writing
<1>17. \A x \in DiskFiles : Loose(x) => Loose(x)'
  <2>1. \A x \in Owners' : \/ x \in Owners /\ filetab'[x].blocknum = filetab[x].blocknum
                           \/ filetab'[x].blocknum \notin Taken
    BY <1>4, <1>5, <1>7, <1>11
  <2> QED BY <1>3, <1>4, <2>1, LooseStays
<1> QED BY <1>3, <1>14, <1>15, <1>16, <1>17, FoundStays
-----------------------------------------------------------------------------
(* Deleting.                                                               *)

LEMMA DeleteKeeps ==
  ASSUME FilesInv, Solo, NEW p \in Procs, fileDelete(p)
  PROVE  /\ FilesInv' /\ (Found => Found')
         /\ LET b == filetab[proc[p].fd].blocknum IN
            /\ Taken' = Taken \ {b}
            /\ b \in Taken => call'[p].arg = b
            /\ b \notin Taken => b = SYSERR
         /\ ~ Freed(p) /\ ~ Freed(p)'
<1> DEFINE fd == proc[p].fd
           b  == filetab[fd].blocknum
           e  == [FreeEntry EXCEPT !.blocknum = b]
           r  == IF b <= 0 \/ b > DISKBLOCKTOTAL
                 THEN [Idle EXCEPT !.op = "free", !.pc = "done", !.arg = SYSERR]
                 ELSE [Idle EXCEPT !.op = "free", !.pc = "wait", !.arg = b]
<1>1. /\ proc[p].pc = "delete" /\ FilesTyped /\ Typed /\ CommandOK(p) /\ Owning /\ Saved /\ DiskInv
      /\ fd \in Fds /\ Used(fd) /\ filetab[fd] \in Filenode /\ call[p].pc = "idle"
  BY Alone DEF fileDelete, At, CommandOK, HasEntry, FilesTyped, Calling
<1>2. /\ filetab' = [filetab EXCEPT ![fd] = e] /\ FreeCall(p, b) /\ Go(p, "freeblock")
      /\ UNCHANGED <<ddir, dfile>>
  BY DEF fileDelete, MyFd, Entry
<1>3. b \in Int
  BY <1>1 DEF Filenode
<1>4. call' = [call EXCEPT ![p] = r] /\ UNCHANGED <<memvars, freelock, diskvars>>
  BY <1>2 DEF FreeCall
<1>5. PICK used : used = Taken /\ ListInv(used)
  BY ListBefore
<1>6. /\ b \in Taken => b \in Blocks /\ fd \in Owners /\ r.arg = b
      /\ b \notin Taken => b = SYSERR /\ r.arg = SYSERR /\ r.pc = "done"
      /\ r.op = "free" /\ r.pc # "idle" /\ DOMAIN r = CallFields
      /\ r.drop = NULL /\ r.pc \in {"done", "wait"}
  <2>1. fd \in Owners <=> b # SYSERR
    BY <1>1, OneShell DEF Owners
  <2>2. b \in Taken <=> b # SYSERR
    BY <1>1, <2>1, Numbers DEF Owning, Taken
  <2>3. b \in Taken => b \in Blocks
    BY DEF Taken
  <2>4. b \in Taken => ~ (b <= 0 \/ b > DISKBLOCKTOTAL)
    BY <2>3, Numbers
  <2>5. b = SYSERR => b <= 0
    BY DEF SYSERR
  <2> HIDE DEF b
  <2>6. r.op = "free" /\ r.pc # "idle" /\ DOMAIN r = CallFields /\ r.drop = NULL
        /\ r.pc \in {"done", "wait"}
    BY DEF Idle, CallFields
  <2>7. /\ (b <= 0 \/ b > DISKBLOCKTOTAL) => r.arg = SYSERR /\ r.pc = "done"
        /\ ~ (b <= 0 \/ b > DISKBLOCKTOTAL) => r.arg = b
    BY DEF Idle
  <2> QED BY <2>1, <2>2, <2>3, <2>4, <2>5, <2>6, <2>7
<1>7. r \in Call
  <2>1. Idle \in Call /\ SYSERR \in Int
    BY Numbers, EmptySeq DEF Idle, Call
  <2> QED BY <2>1, <1>3 DEF Idle, Call
<1> HIDE DEF r
<1>8. call'[p] = r
  BY <1>1, <1>4 DEF Typed
<1>9. DiskInv'
  BY <1>1, <1>4, <1>6, BeginKeeps DEF memvars, diskvars
<1>10. ListInv(Taken)' /\ Taken' = Taken \ {b}
  <2>1. CASE b \in Taken
    <3>1. PICK used2 : used2 = used \ {b}
      OBVIOUS
    <3>2. ListInv(used2)'
      BY <1>2, <1>5, <2>1, <3>1, FreeKeeps, CountedSolo
    <3> QED BY <1>5, <3>1, <3>2, ListAfter
  <2>2. CASE b \notin Taken
    <3>1. CallOK(p)'
      BY <1>6, <1>8, <2>2 DEF CallOK, Getting, Freeing, AtDisk
    <3>2. CallOK(p) /\ used \subseteq Blocks
      BY <1>5 DEF ListInv, Owned
    <3>3. call[p].arg = 0 /\ ~ AtDisk(p)
      BY <1>1, <3>2 DEF CallOK, AtDisk
    <3>4. r.arg \notin used /\ used \cup ({r.arg} \cap Blocks) = used \cup ({call[p].arg} \cap Blocks)
      BY <1>6, <2>2, <3>2, <3>3, Numbers
    <3>5. ListInv(used)'
      BY <1>4, <1>5, <1>6, <1>7, <3>1, <3>2, <3>3, <3>4, Outside, CountedSolo DEF diskvars
    <3> QED BY <1>5, <2>2, <3>5, ListAfter
  <2> QED BY <2>1, <2>2
<1>11. /\ e \in Filenode /\ e.state = {} /\ e.cursor = 0 /\ e.length = 0
  BY <1>3, NoCommandIs DEF Filenode
<1> HIDE DEF e
<1>12. filetab'[fd] = e /\ (\A g \in Fds : g # fd => filetab'[g] = filetab[g])
      /\ filetab' \in [Fds -> Filenode]
  BY <1>1, <1>2, <1>11, SetEntry DEF FilesTyped
<1>13. /\ proc' \in [Procs -> Proc] /\ proc'[p].pc = "freeblock" /\ proc'[p].fd = fd
       /\ proc'[p].cmd = "delete"
  BY <1>1, <1>2, Goes DEF FilesTyped, CommandOK
<1>14. FilesTyped'
  BY <1>1, <1>2, <1>11, <1>12, <1>13 DEF FilesTyped
<1>15. CommandOK(p)'
  <2>1. r.arg \in Blocks => ddir[fd].state # {} /\ ddir[fd].blocknum = r.arg
    <3> SUFFICES ASSUME r.arg \in Blocks
                 PROVE  ddir[fd].state # {} /\ ddir[fd].blocknum = r.arg
      OBVIOUS
    <3>1. fd \in Owners /\ r.arg = b
      BY <1>6, Numbers
    <3>2. ~ Making(fd)
      BY <1>1, OneShell DEF Unsaved, Writing
    <3>3. ddir[fd] = Stored[fd]
      BY <1>1, <3>1, <3>2 DEF Saved
    <3> QED BY <1>1, <3>1, <3>3 DEF Stored, Used
  <2> QED BY <1>1, <1>2, <1>6, <1>8, <1>11, <1>12, <1>13, <2>1 DEF CommandOK, HasEntry, Writing, Calling
<1>16. \A x \in Owners' : /\ x \in Fds /\ x # fd /\ x \in Owners /\ filetab'[x] = filetab[x]
                          /\ ~ Making(x)
  BY <1>1, <1>11, <1>12, <1>13, OneShell DEF Owners, Used, Unsaved, Writing
<1>17. Owning'
  <2> SUFFICES ASSUME NEW x \in Owners'
               PROVE  /\ filetab'[x].blocknum \in Taken'
                      /\ \A y \in Owners' \ {x} : filetab'[y].blocknum # filetab'[x].blocknum
    BY DEF Owning
  <2>1. b \in Taken => fd \in Owners
    BY <1>6
  <2>2. filetab[x].blocknum \in Taken /\ x # fd /\ (b \in Taken => filetab[x].blocknum # b)
    BY <1>1, <1>16, <2>1 DEF Owning
  <2> QED BY <1>1, <1>10, <1>16, <2>2 DEF Owning
<1>18. Saved'
  BY <1>1, <1>2, <1>16 DEF Saved, Stored
<1>19. FilesInv'
  BY <1>9, <1>10, <1>14, <1>15, <1>17, <1>18, OneShell DEF FilesInv
<1>20. /\ ~ Linking(p) /\ ~ Linking(p)' /\ ~ Freed(p) /\ \A x : ~ Leaving(x)
  BY <1>1, <1>6, <1>8, OneLeaves DEF Linking, Freed, HalfLinked, At
<1>21. \A x \in Ready : x \in Ready' \/ Leaving(x)'
  <2> SUFFICES ASSUME NEW x \in Ready PROVE x \in Ready' \/ Leaving(x)'
    OBVIOUS
  <2>1. x \in Fds /\ x \in Owners /\ ~ Making(x) /\ Used(x) /\ filetab[x].blocknum # SYSERR
    BY DEF Ready, Owners
  <2>2. CASE x = fd
    <3>1. b \in Taken /\ call'[p].arg = b
      BY <1>6, <1>8, <2>1, <2>2
    <3>2. ddir[x] = Stored[x]
      BY <1>1, <2>1 DEF Saved
    <3>3. ddir'[x].blocknum = b
      BY <1>2, <2>1, <2>2, <3>2 DEF Stored
    <3> QED BY <1>13, <2>2, <3>1, <3>3, OneLeaves
  <2>3. CASE x # fd
    BY <1>12, <1>13, <2>1, <2>3, OneShell DEF Ready, Owners, Used, Unsaved, Writing
  <2> QED BY <2>2, <2>3
<1>22. \A x \in Fds : Loose(x) => Loose(x)'
  BY <1>2, <1>6, <1>10, <1>16 DEF Loose
<1>23. Found => Found'
  BY <1>2, <1>19, <1>20, <1>21, <1>22, FoundStays DEF DiskFiles
<1>24. ~ Freed(p)'
  BY <1>6, <1>8, <1>13, <1>20, Numbers DEF Freed, HalfLinked, At, Taken
<1> QED BY <1>6, <1>8, <1>10, <1>19, <1>20, <1>23, <1>24

LEMMA DeleteFreedKeeps ==
  ASSUME FilesInv, Solo, NEW p \in Procs, fileDeleteFreed(p)
  PROVE  FilesInv' /\ (Found => Found')
<1> DEFINE fd == proc[p].fd
<1>1. /\ proc[p].pc = "freeblock" /\ call[p].pc = "done" /\ FilesTyped /\ CommandOK(p)
      /\ Owning /\ Saved
  BY Alone DEF fileDeleteFreed, At
<1>2. /\ call' = [call EXCEPT ![p] = Idle] /\ UNCHANGED <<memvars, freelock, diskvars>>
      /\ IF call[p].arg = 0 THEN Go(p, "dirseek") ELSE End(p)
      /\ UNCHANGED <<filetab, ddir, dfile>>
  BY DEF fileDeleteFreed
<1>3. /\ ListInv(Taken)' /\ DiskInv' /\ Taken' = Taken \cup ({call[p].arg} \cap Blocks)
      /\ call'[p].pc = "idle" /\ call[p].arg \notin Taken
      /\ call[p].arg \in Blocks \cup {SYSERR, 0}
  BY <1>1, <1>2, CallEnds
<1>4. /\ proc' \in [Procs -> Proc]
      /\ \/ proc'[p].pc = "idle" /\ call[p].arg # 0
         \/ proc'[p].pc = "dirseek" /\ proc'[p].fd = fd /\ proc'[p].cmd = "delete"
  BY <1>1, <1>2, Ends, Goes DEF FilesTyped, CommandOK
<1>5. CommandOK(p)'
  BY <1>1, <1>2, <1>3, <1>4 DEF CommandOK, HasEntry, Writing, Calling
<1>6. \A x \in Owners' : x \in Owners /\ ~ Making(x)
  BY <1>1, <1>2, <1>4, OneShell DEF Owners, Used, Unsaved, Writing
<1>7. Owning'
  BY <1>1, <1>2, <1>3, <1>6 DEF Owning
<1>8. Saved'
  BY <1>1, <1>2, <1>6 DEF Saved, Stored
<1>9. FilesInv'
  BY <1>1, <1>2, <1>3, <1>4, <1>5, <1>7, <1>8, OneShell DEF FilesInv, FilesTyped
<1>10. ~ Linking(p) /\ ~ Linking(p)'
  BY <1>1, <1>3 DEF Linking
<1>11. /\ call[p].arg = 0 => Freed(p)' /\ proc'[p].fd = fd
       /\ Freed(p) => call[p].arg = 0
  BY <1>1, <1>4, <1>10 DEF Freed, HalfLinked, At
<1>12. \A x \in Ready : x \in Ready'
  BY <1>1, <1>2, <1>4, OneShell DEF Ready, Owners, Used, Unsaved, Writing
<1>13. \A x \in DiskFiles : Leaving(x) => Loose(x)' \/ (Freed(p)' /\ proc'[p].fd = x)
  <2> SUFFICES ASSUME NEW x \in DiskFiles, Leaving(x)
               PROVE  Loose(x)' \/ (Freed(p)' /\ proc'[p].fd = x)
    OBVIOUS
  <2>1. x = fd /\ call[p].arg = ddir[x].blocknum /\ ddir[x].blocknum # SYSERR
    BY OneLeaves DEF DiskFiles
  <2>2. CASE call[p].arg = 0
    BY <1>11, <2>1, <2>2
  <2>3. CASE call[p].arg \in Blocks
    <3>1. \A other \in Owners' : filetab'[other].blocknum # call[p].arg
      BY <1>1, <1>2, <1>3, <1>6 DEF Owning
    <3> QED BY <1>2, <1>3, <2>1, <2>3, <3>1 DEF Loose
  <2> QED BY <1>3, <2>1, <2>2, <2>3
<1>14. \A x \in DiskFiles : Loose(x) => Loose(x)'
  BY <1>2, <1>3, <1>6, LooseStays
<1> QED BY <1>2, <1>9, <1>10, <1>11, <1>12, <1>13, <1>14, FoundStays
-----------------------------------------------------------------------------
(* A step of the free list.                                                *)

LEMMA LockedOp ==
  ASSUME call \in [Procs -> Call], NEW p \in Procs, NEW rec, DOMAIN rec = CallFields,
         NEW todo, Locked(p, rec, todo)
  PROVE  call'[p].op = rec.op /\ call'[p].arg = rec.arg /\ call'[p].pc = "seek"
<1> DEFINE r == [rec EXCEPT !.pc = "seek", !.todo = todo]
<1>1. call' = [call EXCEPT ![p] = r]
  BY DEF Locked
<1>2. r.op = rec.op /\ r.arg = rec.arg /\ r.pc = "seek"
  BY DEF CallFields
<1> HIDE DEF r
<1>3. call'[p] = r
  BY <1>1
<1> QED BY <1>2, <1>3

LEMMA OpOf ==
  ASSUME NEW rec, DOMAIN rec = CallFields, NEW v, NEW w
  PROVE  /\ [rec EXCEPT !.arg = v].op = rec.op
         /\ [rec EXCEPT !.arg = v, !.drop = w].op = rec.op
BY Zenon DEF CallFields

\* A call stays the call it is, and frees the block it was given or is over.
LEMMA ListCall ==
  ASSUME NEW used, ListInv(used), DiskInv, NEW p \in Procs, Acquire(p) \/ seek(p) \/ write(p)
  PROVE  /\ call[p].pc # "idle" /\ call'[p].op = call[p].op
         /\ call[p].op = "free" => call'[p].arg \in {call[p].arg, 0}
<1>1. Typed /\ call \in [Procs -> Call] /\ call[p] \in Call /\ DOMAIN call[p] = CallFields
  BY DEF ListInv, Typed, DiskInv, CallsTyped
<1>2. CASE GetPop(p) \/ GetLast(p) \/ GetMerge(p)
  <2>1. Getting(p)
    BY <1>2 DEF GetPop, GetLast, GetMerge
  <2>2. \E rec, todo : DOMAIN rec = CallFields /\ rec.op = call[p].op /\ Locked(p, rec, todo)
    <3> DEFINE f == call[p].fbc  g == node[f].next
    <3>1. CASE GetPop(p)
      BY <3>1, <1>1, SetArg, OpOf DEF GetPop
    <3>2. CASE GetLast(p)
      <4> DEFINE rec == [call[p] EXCEPT !.arg = node[f].blocknum, !.drop = f]
      <4>1. DOMAIN rec = CallFields /\ rec.op = call[p].op
        <5> DEFINE c == call[p]  x == node[f].blocknum  y == f
        <5>1. DOMAIN c = CallFields
          BY <1>1
        <5>2. rec = [c EXCEPT !.arg = x, !.drop = y]
          OBVIOUS
        <5> HIDE DEF c, x, y, rec
        <5>3. DOMAIN rec = CallFields /\ rec.op = c.op
          BY <5>1, <5>2, SetArg, OpOf
        <5> QED BY <5>3 DEF c
      <4>2. Locked(p, rec, <<SUPER>>)
        BY <3>2, Zenon DEF GetLast
      <4> HIDE DEF rec
      <4> QED BY <4>1, <4>2
    <3>3. CASE GetMerge(p)
      BY <3>3, <1>1, SetArg, OpOf DEF GetMerge
    <3> QED BY <1>2, <3>1, <3>2, <3>3
  <2>3. call'[p].op = call[p].op
    BY <2>2, <1>1, LockedOp
  <2> QED BY <2>1, <2>3 DEF Getting
<1>3. CASE FreeFirst(p) \/ FreeNew(p) \/ FreeAppend(p)
  <2>1. Freeing(p) /\ \E todo : Locked(p, call[p], todo)
    BY <1>3, Zenon DEF FreeFirst, FreeNew, FreeAppend
  <2>2. call'[p].op = call[p].op /\ call'[p].arg = call[p].arg
    BY <2>1, <1>1, LockedOp
  <2> QED BY <2>1, <2>2 DEF Freeing
<1>4. CASE FreeNoMemory(p)
  <2>1. Freeing(p) /\ call' = [call EXCEPT ![p].pc = "done"]
    BY <1>4 DEF FreeNoMemory
  <2>2. call'[p].arg = call[p].arg /\ call'[p].op = call[p].op
    BY <2>1, <1>1 DEF Typed, Call
  <2> QED BY <2>1, <2>2 DEF Freeing
<1>5. ~ GetStray(p) /\ ~ FreeStray(p)
  BY NobodyStrays
<1>6. CASE seek(p)
  <2>1. call[p].pc = "seek" /\ call' = [call EXCEPT ![p].pc = "write"]
    BY <1>6 DEF seek
  <2>2. call'[p].arg = call[p].arg /\ call'[p].op = call[p].op
    BY <2>1, <1>1 DEF Typed, Call
  <2> QED BY <2>1, <2>2
<1>7. CASE write(p) /\ Tail(call[p].todo) # <<>>
  <2> DEFINE rest == Tail(call[p].todo)
             next == IF Usable(Head(rest)) THEN "seek" ELSE "wild"
  <2>1. call' = [call EXCEPT ![p].todo = rest, ![p].pc = next] /\ call[p].pc = "write"
    BY <1>7 DEF write
  <2> HIDE DEF rest, next
  <2>2. call'[p] = [call[p] EXCEPT !.todo = rest, !.pc = next]
    BY <2>1, <1>1, Zenon
  <2>3. call'[p].arg = call[p].arg /\ call'[p].op = call[p].op
    BY <2>2, <1>1 DEF Call
  <2> QED BY <2>1, <2>3
<1>8. CASE write(p) /\ Tail(call[p].todo) = <<>>
  <2>1. call[p].pc = "write"
    BY <1>8 DEF write
  <2>2. call'[p].op = call[p].op /\ call'[p].arg = (IF call[p].op = "get" THEN call[p].arg ELSE 0)
    BY <1>8, LastWrite
  <2> QED BY <2>1, <2>2
<1> QED BY <1>2, <1>3, <1>4, <1>5, <1>6, <1>7, <1>8 DEF Acquire

\* What the free list writes is its own.
LEMMA WritesOwn ==
  ASSUME NEW used, ListInv(used), DiskInv, NEW p \in Procs, write(p)
  PROVE  pos # DIRBLOCK /\ (pos \in Blocks => pos \notin used)
<1>1. call[p].pc = "write" /\ AtDisk(p)
  BY DEF write, AtDisk
<1>2. pos = Target(Head(call[p].todo))
  BY <1>1 DEF DiskInv, WritesOnTarget
<1>3. Head(call[p].todo) = call[p].todo[1]
  BY <1>1, DiskCall
<1>4. pos = Target(call[p].todo[1])
  BY <1>2, <1>3
<1>5. \/ pos = SUPERBLOCKNUM
      \/ \E t \in Range(Collectors) : pos = node[t].blocknum /\ pos \in Blocks
  BY <1>1, <1>4, Aimed
<1>6. DIRBLOCK # SUPERBLOCKNUM /\ DIRBLOCK \notin Blocks
  BY DEF DIRBLOCK, SUPERBLOCKNUM, Blocks
<1>7. \A t \in Range(Collectors) : node[t].blocknum \in InMem
  BY DEF InMem, Group
<1>8. InMem \cap used = {}
  BY DEF ListInv, Owned
<1> QED BY <1>5, <1>6, <1>7, <1>8, Numbers

\* A block that is being freed comes into the list on disk only with the second
\* of two writes; between them and after it the file is gone.
LEMMA LinksWritten ==
  ASSUME NEW used, ListInv(used), DiskInv, Solo, NEW p \in Procs,
         Acquire(p) \/ seek(p) \/ write(p),
         Linking(p) => HalfLinked(p) \/ call[p].arg \notin InDisk
  PROVE  /\ Linking(p)' => HalfLinked(p)' \/ call'[p].arg \notin InDisk'
         /\ HalfLinked(p) \/ (write(p) /\ call[p].op = "free") =>
               HalfLinked(p)' \/ (call'[p].pc = "done" /\ call'[p].arg = 0)
<1>1. \A q \in Procs : q = p
  BY OneShell
<1>2. CASE Acquire(p)
  <2>1. call[p].pc = "wait" /\ UNCHANGED <<dsuper, dfbc>>
    BY <1>2 DEF Acquire, GetPop, GetLast, GetMerge, GetStray, Getting, FreeFirst, FreeNew,
       FreeNoMemory, FreeAppend, FreeStray, Freeing, diskvars
  <2>2. ~ Linking(p) /\ ~ HalfLinked(p) /\ ~ AtDisk(p)
    BY <2>1 DEF Linking, HalfLinked, AtDisk
  <2>3. Readable(used)
    BY <1>1, <2>2 DEF ListInv, HalfWritten
  <2>4. call[p].arg \notin InDisk /\ InDisk' = InDisk /\ 0 \notin InDisk
    BY <2>1, <2>2, <2>3, DiskStays, InBlocks, Numbers DEF Readable
  <2>5. Linking(p)' => call'[p].arg \in {call[p].arg, 0}
    BY <1>2, ListCall DEF Linking
  <2> QED BY <2>1, <2>2, <2>4, <2>5 DEF write
<1>3. CASE seek(p)
  <2>1. /\ call[p].pc = "seek" /\ call' = [call EXCEPT ![p].pc = "write"]
        /\ UNCHANGED <<node, dsuper, dfbc>>
    BY <1>3 DEF seek
  <2>2. call[p] \in Call /\ DOMAIN call = Procs
    BY DEF ListInv, Typed
  <2>3. /\ call'[p].pc = "write" /\ call'[p].op = call[p].op /\ call'[p].arg = call[p].arg
        /\ call'[p].todo = call[p].todo
    BY <2>1, <2>2 DEF Call
  <2>4. InDisk' = InDisk
    BY <2>1, DiskStays
  <2>5. Linking(p)' <=> Linking(p)
    BY <2>1, <2>3 DEF Linking
  <2>6. HalfLinked(p)' <=> HalfLinked(p)
    BY <2>1, <2>3, <2>5 DEF HalfLinked, Target
  <2> QED BY <2>1, <2>3, <2>4, <2>5, <2>6 DEF write
<1>4. CASE write(p) /\ Tail(call[p].todo) # <<>>
  <2>1. HalfWritten'
    BY <1>4, FirstWriteKeeps
  <2>2. HalfLinked(p)'
    BY <1>1, <2>1 DEF HalfWritten
  <2> QED BY <2>2
<1>5. CASE write(p) /\ Tail(call[p].todo) = <<>>
  <2>1. /\ call'[p].pc = "done"
        /\ call'[p].arg = (IF call[p].op = "get" THEN call[p].arg ELSE 0)
    BY <1>5, LastWrite
  <2> QED BY <2>1 DEF Linking, HalfLinked
<1> QED BY <1>2, <1>3, <1>4, <1>5

LEMMA ListStepKeeps ==
  ASSUME FilesInv, Solo, MayFail = FALSE, DirtyMalloc = FALSE, NEW p \in Procs, ListStep(p)
  PROVE  /\ FilesInv' /\ (Found => Found') /\ Taken' = Taken /\ UNCHANGED ddir
         /\ call[p].pc # "idle"
         /\ call[p].op = "free" => call'[p].arg \in {call[p].arg, 0}
         /\ \A b \in Taken : dfile'[b] = dfile[b]
         /\ Found => /\ Freed(p) => Freed(p)'
                     /\ write(p) /\ call[p].op = "free" => Freed(p)'
<1>1. /\ FilesTyped /\ Typed /\ CommandOK(p) /\ Owning /\ Saved /\ DiskInv /\ Roomy
  BY Alone DEF Roomy
<1>2. PICK used : used = Taken /\ ListInv(used)
  BY ListBefore
<1>3. /\ Acquire(p) \/ seek(p) \/ write(p)
      /\ UNCHANGED <<filetab, proc>>
      /\ \/ UNCHANGED <<ddir, dfile>>
         \/ /\ write(p)
            /\ ddir'  = IF pos = DIRBLOCK THEN <<>> ELSE ddir
            /\ dfile' = IF pos \in Blocks THEN [dfile EXCEPT ![pos] = JunkBlock] ELSE dfile
  BY DEF ListStep, writeFails, dirvars
<1>4. DiskInv'
  BY <1>1, <1>3, AcquireKeeps, SeekKeeps, WriteKeeps
<1>5. ListInv(used)'
  BY <1>1, <1>2, <1>3, <1>4, AcquireKeepsList, SeekKeepsList, WriteKeepsList
<1>6. ListInv(Taken)' /\ Taken' = Taken
  BY <1>2, <1>5, ListAfter
<1>7. /\ call[p].pc # "idle" /\ call'[p].op = call[p].op
      /\ call[p].op = "free" => call'[p].arg \in {call[p].arg, 0}
  BY <1>1, <1>2, <1>3, ListCall
<1>8. ddir' = ddir
  BY <1>1, <1>2, <1>3, WritesOwn
<1>9. dfile' \in [Blocks -> Bytes]
  BY <1>1, <1>3, NoCommandIs DEF FilesTyped
<1>10. CommandOK(p)'
  BY <1>1, <1>3, <1>7, <1>8, Numbers DEF CommandOK, HasEntry, Writing, Calling, Used
<1>11. FilesTyped'
  BY <1>1, <1>3, <1>8, <1>9 DEF FilesTyped
<1>12. \A x \in Owners' : /\ x \in Owners /\ filetab'[x] = filetab[x]
                          /\ ~ Making(x)' => ~ Making(x)
  BY <1>3, OneShell DEF Owners, Used
<1>13. Owning' /\ Saved'
  BY <1>6, <1>8, <1>12, OwnersStay DEF FilesInv, Stored, Owners
<1>14. FilesInv'
  BY <1>4, <1>6, <1>10, <1>11, <1>13, OneShell DEF FilesInv
<1>15. \A b \in Taken : dfile'[b] = dfile[b]
  <2>1. write(p) /\ pos \in Blocks => pos \notin Taken
    BY <1>1, <1>2, WritesOwn
  <2>2. Taken \subseteq Blocks /\ dfile \in [Blocks -> Bytes]
    BY <1>1 DEF Taken, FilesTyped
  <2> QED BY <1>3, <2>1, <2>2
<1>16. ASSUME Found
       PROVE  /\ Found' /\ (Freed(p) => Freed(p)')
              /\ write(p) /\ call[p].op = "free" => Freed(p)'
  <2>1. /\ Linking(p)' => HalfLinked(p)' \/ call'[p].arg \notin InDisk'
        /\ HalfLinked(p) \/ (write(p) /\ call[p].op = "free") =>
              HalfLinked(p)' \/ (call'[p].pc = "done" /\ call'[p].arg = 0)
    BY <1>1, <1>2, <1>3, <1>16, LinksWritten DEF Found
  <2>2. call[p].pc # "done" /\ (call[p].op = "free" => proc[p].pc = "freeblock")
        /\ (proc[p].pc = "freeblock" => proc[p].cmd = "delete" /\ call[p].op = "free")
        /\ proc[p].pc # "wild"
    <3>1. call[p].pc # "done"
      BY <1>3 DEF Acquire, GetPop, GetLast, GetMerge, GetStray, Getting, FreeFirst, FreeNew,
         FreeNoMemory, FreeAppend, FreeStray, Freeing, seek, write
    <3> QED BY <1>1, <1>7, <3>1 DEF CommandOK, Calling, FilesTyped, Proc
  <2>3. (Freed(p) => Freed(p)') /\ (write(p) /\ call[p].op = "free" => Freed(p)')
    <3>1. HalfLinked(p) \/ (write(p) /\ call[p].op = "free") => Freed(p)'
      BY <1>3, <2>1, <2>2 DEF Freed, At, HalfLinked, Linking
    <3> QED BY <1>1, <1>3, <1>7, <2>2, <3>1 DEF Freed, At, CommandOK, Calling
  <2>4. Ready' = Ready
    BY <1>3 DEF Ready, Owners, Used, Creating, At, MyFd, Making
  <2>5. \A x \in DiskFiles : Leaving(x) => Leaving(x)' \/ (Freed(p)' /\ proc'[p].fd = x)
    <3> SUFFICES ASSUME NEW x \in DiskFiles, Leaving(x)
                 PROVE  Leaving(x)' \/ (Freed(p)' /\ proc'[p].fd = x)
      OBVIOUS
    <3>1. /\ proc[p].pc = "freeblock" /\ proc[p].fd = x /\ call[p].arg = ddir[x].blocknum
          /\ proc[p].cmd = "delete" /\ call[p].op = "free"
      BY <2>2, OneLeaves
    <3>2. CASE call'[p].arg = call[p].arg
      BY <1>3, <1>8, <3>1, <3>2, OneLeaves
    <3>3. CASE call'[p].arg = 0
      <4>1. CallOK(p)' /\ call'[p].op = "free" /\ Typed'
        BY <1>5, <1>7, <3>1 DEF ListInv
      <4>2. call'[p].pc = "done"
        BY <3>3, <4>1, Numbers DEF CallOK, Freeing, AtDisk, Typed, Call
      <4> QED BY <1>3, <3>1, <3>3, <4>2 DEF Freed, At
    <3> QED BY <1>7, <3>1, <3>2, <3>3
  <2>6. \A x \in DiskFiles : Loose(x) => Loose(x)'
    BY <1>6, <1>8, <1>12, LooseStays
  <2> QED BY <1>3, <1>8, <1>14, <1>16, <2>1, <2>3, <2>4, <2>5, <2>6, FoundStays
<1> QED BY <1>6, <1>7, <1>8, <1>14, <1>15, <1>16

-----------------------------------------------------------------------------
(* The machine starts.                                                     *)

\* A block that fileDelete() is freeing and that the directory on disk still has.
LEMMA LeavingBlock ==
  ASSUME FilesInv, NEW p \in Procs, NEW fd \in DiskFiles, proc[p].pc = "freeblock",
         MyFd(p) = fd, call[p].arg = ddir[fd].blocknum
  PROVE  call[p].op = "free" /\ call[p].pc # "idle" /\ call[p].arg \in Blocks
<1>1. fd \in Fds /\ ddir[fd].blocknum # SYSERR /\ ~ Freed(p)
  BY DEF DiskFiles
<1>2. CommandOK(p) /\ CallOK(p) /\ Typed
  BY DEF FilesInv, ListInv
<1>3. call[p].op = "free" /\ call[p].pc # "idle" /\ proc[p].cmd = "delete"
  BY <1>2 DEF CommandOK, CallOK
<1>4. call[p].arg \in Blocks
  BY <1>1, <1>2, <1>3 DEF CallOK, Freeing, AtDisk, Freed, At, Typed, Call
<1> QED BY <1>3, <1>4

\* Outside the window in which the list on disk is half written, it can be read,
\* and a restart would find every file with a block of its own.
LEMMA FoundApart ==
  ASSUME FilesInv, Found, Solo, ~ HalfWritten
  PROVE  /\ DiskGood(DiskChain)
         /\ \A fd \in DiskFiles : ddir[fd].blocknum \in Blocks \ InDisk
         /\ \A a, b \in DiskFiles : ddir[a].blocknum = ddir[b].blocknum => a = b
<1>1. PICK used : used = Taken /\ ListInv(used)
  BY ListBefore
<1>2. Readable(used) /\ DiskGood(DiskChain) /\ InDisk \cap Taken = {} /\ Taken \subseteq Blocks
  BY <1>1 DEF ListInv, Readable, Taken
<1>3. ASSUME NEW fd \in DiskFiles PROVE ddir[fd].blocknum \in Blocks \ InDisk
  <2>1. fd \in Fds /\ ddir[fd].blocknum # SYSERR
    BY DEF DiskFiles
  <2>2. CASE fd \in Ready
    <3>1. ddir[fd] = Stored[fd] /\ filetab[fd].blocknum \in Taken
      BY <2>2 DEF FilesInv, Saved, Owning, Ready
    <3>2. ddir[fd].blocknum \in Taken
      BY <2>1, <3>1 DEF Stored
    <3> QED BY <1>2, <3>2
  <2>3. CASE Leaving(fd)
    <3>1. PICK p \in Procs : /\ proc[p].pc = "freeblock" /\ MyFd(p) = fd
                            /\ call[p].arg = ddir[fd].blocknum
      BY <2>3 DEF Leaving
    <3>2. call[p].op = "free" /\ call[p].pc # "idle" /\ call[p].arg \in Blocks
      BY <3>1, LeavingBlock
    <3>3. call[p].arg \notin InDisk
      <4>1. CASE AtDisk(p)
        BY <3>2, <4>1 DEF Found, HalfWritten, Linking, AtDisk
      <4>2. CASE ~ AtDisk(p)
        BY <1>2, <4>2 DEF Readable
      <4> QED BY <4>1, <4>2
    <3> QED BY <3>1, <3>2, <3>3
  <2>4. CASE Loose(fd)
    BY <1>2, <2>4 DEF Loose
  <2> QED BY <2>2, <2>3, <2>4 DEF Found
<1> QED BY <1>2, <1>3 DEF Found

LEMMA NotUnlinking ==
  ASSUME FilesInv, ~ Unlinking
  PROVE  ~ HalfWritten
<1> SUFFICES ASSUME NEW p \in Procs, HalfLinked(p) PROVE FALSE
  BY DEF HalfWritten
<1>1. CommandOK(p) /\ call[p].op = "free" /\ call[p].pc # "idle"
  BY DEF FilesInv, HalfLinked, Linking
<1>2. proc[p].cmd = "delete"
  BY <1>1 DEF CommandOK, Calling
<1> QED BY <1>2 DEF Unlinking, Freed

LEMMA RestartKeepsFiles ==
  ASSUME FilesInv, Found, Solo, Restart
  PROVE  FilesInv' /\ Found' /\ DiskFiles' = DiskFiles /\ Ready' = DiskFiles
<1>1. FilesTyped /\ Typed /\ ~ Unlinking /\ sbOpen /\ ~ HalfWritten
  BY NotUnlinking DEF FilesInv, ListInv, Restart
<1>2. /\ DiskGood(DiskChain)
      /\ \A fd \in DiskFiles : ddir[fd].blocknum \in Blocks \ InDisk
      /\ \A a, b \in DiskFiles : ddir[a].blocknum = ddir[b].blocknum => a = b
  BY <1>1, FoundApart
<1>3. PICK used : used = Blocks \ InDisk
  OBVIOUS
<1>4. ListInv(used)'
  BY <1>1, <1>2, <1>3, OpenKeepsList, CountedSolo
<1>5. ListInv(Taken)' /\ Taken' = used
  BY <1>4, ListAfter
<1>6. /\ call' = [p \in Procs |-> Idle] /\ proc' = [p \in Procs |-> NoCommand]
      /\ filetab' = [fd \in Fds |-> Loaded(ddir[fd])] /\ UNCHANGED <<ddir, dfile>>
  BY DEF Restart, sbOpen
<1>7. DiskInv'
  BY <1>6, FreshCalls DEF DiskInv, CallsTyped, Exclusive, AtDisk, WritesOnTarget
<1>8. \A p \in Procs : call'[p].pc = "idle" /\ proc'[p].pc = "idle"
  BY <1>6, IdleCall, NoCommandIs
<1>9. \A p \in Procs : CommandOK(p)'
  BY <1>8 DEF CommandOK, HasEntry, Writing, Calling
<1>10. \A fd \in Fds : /\ ddir[fd] \in Dirent /\ Loaded(ddir[fd]) \in Filenode
                       /\ Loaded(ddir[fd]).cursor = 0 /\ Loaded(ddir[fd]).length \in Nat
                       /\ Loaded(ddir[fd]).state = ddir[fd].state
                       /\ Loaded(ddir[fd]).name = ddir[fd].name
                       /\ Loaded(ddir[fd]).length = ddir[fd].length
                       /\ Loaded(ddir[fd]).blocknum = ddir[fd].blocknum
  <2> SUFFICES ASSUME NEW d \in Dirent
               PROVE  /\ Loaded(d) \in Filenode
                      /\ Loaded(d).cursor = 0 /\ Loaded(d).length \in Nat
                      /\ Loaded(d).state = d.state /\ Loaded(d).name = d.name
                      /\ Loaded(d).length = d.length /\ Loaded(d).blocknum = d.blocknum
    BY <1>1 DEF FilesTyped
  <2>1. JunkBlock \in Bytes /\ 0 \in Length
    BY NoCommandIs, FileAssumption DEF Length
  <2>2. d.state \in SUBSET {"USED", "OPEN", "DIRTY"}
    BY DEF Dirent
  <2>3. d.length \in Nat /\ d.length \in Length
    BY DEF Dirent, Length
  <2>4. d.name \in Char /\ d.blocknum \in Int
    BY DEF Dirent
  <2> QED BY <2>1, <2>2, <2>3, <2>4 DEF Loaded, Filenode
<1>11. FilesTyped'
  <2>1. filetab' \in [Fds -> Filenode] /\ \A fd \in Fds : filetab'[fd].cursor <= filetab'[fd].length
    BY <1>6, <1>10
  <2>2. proc' \in [Procs -> Proc]
    BY <1>6, NoCommandIs
  <2> QED BY <1>1, <1>6, <2>1, <2>2 DEF FilesTyped
<1>12. /\ \A fd : fd \in Owners' <=> fd \in DiskFiles
       /\ \A fd \in DiskFiles : filetab'[fd].blocknum = ddir[fd].blocknum
  <2>1. \A fd : ~ Creating(fd)'
    BY <1>8 DEF Creating, At
  <2>2. 1 \in Fds /\ 1 \notin DOMAIN <<>>
    BY FileAssumption DEF Fds
  <2>3. DiskFiles = {fd \in Fds : ddir[fd].state # {} /\ ddir[fd].blocknum # SYSERR}
    BY <1>1, <2>2 DEF DiskFiles, Unlinking, FilesTyped
  <2>4. \A fd \in Fds : /\ "USED" \in filetab'[fd].state <=> ddir[fd].state # {}
                        /\ filetab'[fd].blocknum = ddir[fd].blocknum
    BY <1>6, <1>10 DEF Dirent
  <2> QED BY <2>1, <2>3, <2>4 DEF Owners, Used
<1>13. Owning'
  BY <1>2, <1>3, <1>5, <1>12 DEF Owning
<1>14. Saved'
  <2>1. \A fd \in Fds : ddir[fd] = [state |-> ddir[fd].state, name |-> ddir[fd].name,
                                    length |-> ddir[fd].length, blocknum |-> ddir[fd].blocknum]
    BY <1>1 DEF FilesTyped, Dirent
  <2>2. \A fd \in Fds : ddir[fd].state \cap {"USED"} = ddir[fd].state
    BY <1>1 DEF FilesTyped, Dirent
  <2>3. ASSUME NEW fd \in Fds PROVE Stored'[fd] = ddir[fd]
    <3>1. Stored'[fd] = [state |-> filetab'[fd].state \cap {"USED"}, name |-> filetab'[fd].name,
                         length |-> filetab'[fd].length, blocknum |-> filetab'[fd].blocknum]
      BY DEF Stored
    <3>2. /\ filetab'[fd].state \cap {"USED"} = ddir[fd].state
          /\ filetab'[fd].name = ddir[fd].name /\ filetab'[fd].length = ddir[fd].length
          /\ filetab'[fd].blocknum = ddir[fd].blocknum
      BY <1>6, <1>10, <2>2
    <3> QED BY <2>1, <3>1, <3>2
  <2> QED BY <1>6, <2>3 DEF Saved, Owners
<1>15. FilesInv'
  BY <1>5, <1>7, <1>9, <1>11, <1>13, <1>14 DEF FilesInv
<1>16. \A p \in Procs : ~ Freed(p) /\ ~ Freed(p)' /\ ~ Linking(p)'
  BY <1>1, <1>8 DEF Unlinking, Freed, At, HalfLinked, Linking
<1>17. DiskFiles' = DiskFiles
  BY <1>6, <1>16 DEF DiskFiles
<1>18. Ready' = DiskFiles
  <2>1. \A fd : ~ Making(fd)'
    BY <1>8 DEF Making, Unsaved, Writing
  <2>2. \A fd : fd \in Ready' <=> fd \in DiskFiles
    BY <1>12, <2>1 DEF Ready
  <2> QED BY <2>2
<1>19. Found'
  BY <1>2, <1>6, <1>16, <1>17, <1>18 DEF Found
<1> QED BY <1>15, <1>17, <1>18, <1>19

LEMMA FilesStart == ASSUME FInit, Solo PROVE FilesInv /\ Found
<1>1. /\ Typed /\ DiskGood(DiskChain) /\ OpenedList /\ swz = {} /\ InDisk = Blocks
      /\ call = [p \in Procs |-> Idle]
  BY InitListOpened DEF FInit
<1>2. PICK used : used = {}
  OBVIOUS
<1>3. ListInv(used)
  BY <1>1, <1>2, Started, CountedSolo
<1>4. ListInv(Taken)
  <2>1. Taken = used
    BY <1>3, UsedIsTaken DEF ListInv
  <2> QED BY <1>3, <2>1
<1>5. /\ filetab = [fd \in Fds |-> FreeEntry] /\ ddir = Stored
      /\ dfile = [b \in Blocks |-> JunkBlock] /\ proc = [p \in Procs |-> NoCommand]
  BY DEF FInit
<1>6. DiskInv
  BY <1>1, FreshCalls DEF DiskInv, CallsTyped, Exclusive, AtDisk, WritesOnTarget
<1>7. \A p \in Procs : CommandOK(p)
  BY <1>1, <1>5, IdleCall, NoCommandIs DEF CommandOK, HasEntry, Writing, Calling
<1>8. Stored \in [Fds -> Dirent]
  <2>1. \A fd \in Fds : filetab[fd] \in Filenode
    BY <1>5, NoCommandIs
  <2> QED BY <2>1 DEF Stored, Filenode, Dirent
<1>9. FilesTyped
  BY <1>5, <1>8, NoCommandIs DEF FilesTyped
<1>10. Owners = {}
  BY <1>5, NoCommandIs DEF Owners, Used
<1>11. FilesInv
  BY <1>4, <1>6, <1>7, <1>9, <1>10 DEF FilesInv, Owning, Saved
<1>12. DiskFiles = {}
  <2>1. \A fd \in Fds : ddir[fd].state = {}
    BY <1>5, NoCommandIs DEF Stored
  <2> QED BY <2>1 DEF DiskFiles
<1>13. \A p \in Procs : ~ Linking(p)
  BY <1>1, IdleCall DEF Linking
<1> QED BY <1>11, <1>12, <1>13 DEF Found

LEMMA FilesStutter == ASSUME FilesInv, UNCHANGED vars PROVE FilesInv' /\ (Found => Found')
<1>1. /\ UNCHANGED <<freelst, node, heap, swz, freelock, pos, dsuper, dfbc, call>>
      /\ UNCHANGED flvars
      /\ UNCHANGED <<filetab, ddir, dfile, proc>>
  BY DEF vars, flvars
<1>2. PICK used : used = Taken /\ ListInv(used)
  BY ListBefore
<1>3. ListInv(used)'
  BY <1>1, <1>2, StutterKeepsList
<1>4. ListInv(Taken)' /\ Taken' = Taken
  BY <1>2, <1>3, ListAfter
<1>5. DiskInv'
  BY <1>1 DEF FilesInv, DiskInv, CallsTyped, Exclusive, AtDisk, WritesOnTarget, Target
<1>6. FilesTyped' /\ \A p \in Procs : CommandOK(p)'
  BY <1>1 DEF FilesInv, FilesTyped, CommandOK, Used
<1>7. Owning' /\ Saved'
  BY <1>1, <1>4 DEF FilesInv, Owning, Saved, Owners, Used, Creating, At, MyFd, Making, Stored
<1>8. FilesInv'
  BY <1>4, <1>5, <1>6, <1>7 DEF FilesInv
<1>9. /\ Ready' = Ready /\ InDisk' = InDisk /\ DiskFiles' = DiskFiles
      /\ \A p \in Procs : Linking(p)' = Linking(p) /\ HalfLinked(p)' = HalfLinked(p)
      /\ \A fd : Leaving(fd)' = Leaving(fd) /\ Loose(fd)' = Loose(fd)
  <2>1. \A p \in Procs : Linking(p)' = Linking(p) /\ HalfLinked(p)' = HalfLinked(p)
    BY <1>1 DEF Linking, HalfLinked, Target
  <2>2. InDisk' = InDisk
    BY <1>1, DiskStays
  <2>3. \A p \in Procs : Freed(p)' = Freed(p)
    BY <1>1, <2>1 DEF Freed, At
  <2>4. Owners' = Owners /\ Ready' = Ready
    BY <1>1 DEF Ready, Owners, Used, Creating, At, MyFd, Making
  <2>5. DiskFiles' = DiskFiles
    BY <1>1, <2>3 DEF DiskFiles, MyFd
  <2>6. \A fd : Leaving(fd)' = Leaving(fd) /\ Loose(fd)' = Loose(fd)
    BY <1>1, <1>4, <2>4 DEF Leaving, Loose, MyFd
  <2> QED BY <2>1, <2>2, <2>4, <2>5, <2>6
<1>10. Found => Found'
  BY <1>1, <1>9 DEF Found
<1> QED BY <1>8, <1>10

LEMMA FilesNext ==
  ASSUME Solo, MayFail = FALSE, DirtyMalloc = FALSE
  PROVE  FilesInv /\ Found /\ [Next]_vars => FilesInv' /\ Found'
<1> SUFFICES ASSUME FilesInv, Found, [Next]_vars PROVE FilesInv' /\ Found'
  OBVIOUS
<1>1. CASE UNCHANGED vars
  BY <1>1, FilesStutter
<1>2. CASE Restart
  BY <1>2, RestartKeepsFiles
<1>3. ASSUME NEW p \in Procs, Command(p) \/ DiskStep(p) \/ Compute(p) \/ Lock(p) \/ ListStep(p)
      PROVE  FilesInv' /\ Found'
  <2>1. CASE Command(p) \/ ListStep(p)
    BY <2>1, CommandKeeps, ListStepKeeps
  <2>2. CASE DiskStep(p)
    BY <2>2, OpenReadKeeps, CloseWriteKeeps, DirWriteKeeps, DirSeekKeeps DEF DiskStep
  <2>3. CASE Compute(p)
    BY <2>3, OpenKeeps, SeekFileKeeps, GetCharKeeps, PutCharKeeps, TildeKeeps, CreateGetKeeps,
       CreateGotKeeps, CloseKeeps, DeleteFreedKeeps DEF Compute
  <2>4. CASE Lock(p)
    BY <2>4, CreateKeeps, DeleteKeeps, DirSeekKeeps DEF Lock
  <2> QED BY <1>3, <2>1, <2>2, <2>3, <2>4
<1> QED BY <1>1, <1>2, <1>3 DEF Next

\* FilesInv holds in every state, with one shell and a disk that does not fail,
\* and so does Found.
THEOREM FilesInvariance ==
  ASSUME Solo, MayFail = FALSE, DirtyMalloc = FALSE
  PROVE  Spec => [](FilesInv /\ Found)
<1>1. FInit => FilesInv /\ Found
  BY FilesStart
<1>2. FilesInv /\ Found /\ [Next]_vars => FilesInv' /\ Found'
  BY FilesNext
<1> QED BY <1>1, <1>2, PTL DEF Spec
-----------------------------------------------------------------------------
\* A block has one owner, in memory: fileCreate() never gets a block of another
\* file (fileCreate.c:44), and what fileDelete() frees was nobody else's
\* (fileDelete.c:60).
THEOREM BlocksAreOwned ==
  ASSUME Solo, MayFail = FALSE, DirtyMalloc = FALSE
  PROVE  Spec => []OwnBlocks
<1>1. FilesInv => OwnBlocks
  <2> SUFFICES ASSUME FilesInv PROVE OwnBlocks
    OBVIOUS
  <2>1. Range(MemList) = InMem /\ IsInjective(MemList)
    BY MemListHas DEF FilesInv, ListInv
  <2>2. \A fd \in Owners : /\ filetab[fd].blocknum \in Blocks \ InMem
                           /\ \A p \in Procs : call[p].arg # filetab[fd].blocknum
                           /\ \A other \in Owners \ {fd} :
                                 filetab[other].blocknum # filetab[fd].blocknum
    BY DEF FilesInv, Owning, Taken
  <2> QED BY <2>1, <2>2 DEF OwnBlocks
<1> QED BY <1>1, FilesInvariance, PTL

\* And on disk, at every moment but between the two writes with which
\* sbFreeBlock() makes a block a collector: what a restart would find is no block
\* of a file in the free list and no block of two files.  Of a file that
\* fileDelete() has unlinked and not yet taken from the directory on disk nothing
\* is said (fileDelete.c:60 to 68).
THEOREM BlocksAreOwnedOnDisk ==
  ASSUME Solo, MayFail = FALSE, DirtyMalloc = FALSE
  PROVE  Spec => []OwnBlocksOnDisk
<1>1. FilesInv /\ Found => OwnBlocksOnDisk
  <2> SUFFICES ASSUME FilesInv, Found, ~ HalfWritten
               PROVE  \A fd \in DiskFiles :
                         /\ ddir[fd].blocknum \in Blocks \ Range(DiskList)
                         /\ \A other \in DiskFiles \ {fd} :
                               ddir[other].blocknum # ddir[fd].blocknum
    BY DEF OwnBlocksOnDisk
  <2>1. /\ DiskGood(DiskChain)
        /\ \A fd \in DiskFiles : ddir[fd].blocknum \in Blocks \ InDisk
        /\ \A a, b \in DiskFiles : ddir[a].blocknum = ddir[b].blocknum => a = b
    BY FoundApart
  <2>2. Range(DiskList) = InDisk
    BY <2>1, DiskListHas DEF FilesInv, ListInv
  <2> QED BY <2>1, <2>2
<1> QED BY <1>1, FilesInvariance, PTL
-----------------------------------------------------------------------------
(* What the files hold.                                                    *)

\* What a restart would find of the files stays, and which of them are deleted.
StoreStays ==
    /\ UNCHANGED ddir /\ DiskFiles' = DiskFiles /\ Ready' = Ready
    /\ \A fd \in DiskFiles : dfile'[ddir[fd].blocknum] = dfile[ddir[fd].blocknum]

LEMMA ReadyOnDisk ==
  ASSUME FilesInv, Solo, NEW p \in Procs
  PROVE  \A fd \in Ready : /\ fd \in DiskFiles /\ fd \in Owners /\ fd \in Fds /\ Used(fd)
                           /\ ddir[fd].name = filetab[fd].name
                           /\ ddir[fd].length = filetab[fd].length
                           /\ ddir[fd].blocknum = filetab[fd].blocknum
                           /\ ddir[fd].blocknum \in Taken /\ ddir[fd].blocknum \in Blocks
<1> SUFFICES ASSUME NEW fd \in Ready
             PROVE  /\ fd \in DiskFiles /\ fd \in Owners /\ fd \in Fds /\ Used(fd)
                    /\ ddir[fd].name = filetab[fd].name
                    /\ ddir[fd].length = filetab[fd].length
                    /\ ddir[fd].blocknum = filetab[fd].blocknum
                    /\ ddir[fd].blocknum \in Taken /\ ddir[fd].blocknum \in Blocks
  OBVIOUS
<1>1. /\ fd \in Owners /\ ~ Making(fd) /\ fd \in Fds /\ Used(fd)
      /\ filetab[fd].blocknum # SYSERR /\ filetab[fd].blocknum \in Taken
      /\ ddir[fd] = Stored[fd]
  BY DEF FilesInv, Ready, Owners, Saved, Owning
<1>2. /\ ddir[fd].name = filetab[fd].name /\ ddir[fd].length = filetab[fd].length
      /\ ddir[fd].blocknum = filetab[fd].blocknum /\ ddir[fd].state # {}
  BY <1>1 DEF Stored, Used
<1>3. ~ (Freed(p) /\ proc[p].fd = fd)
  <2> SUFFICES ASSUME Freed(p), proc[p].fd = fd PROVE FALSE
    OBVIOUS
  <2>1. CommandOK(p) /\ proc[p].pc # "wild"
    BY DEF FilesInv, FilesTyped, Proc
  <2>2. proc[p].pc \notin {"freeblock", "dirseek", "dirwrite"}
    BY <1>1, <2>1, OneShell DEF CommandOK, Used, Unsaved
  <2> QED BY <2>1, <2>2 DEF Freed, At, HalfLinked, Linking, CommandOK, Calling
<1>4. fd \in DiskFiles
  BY <1>1, <1>2, <1>3, OnDiskAre DEF FilesInv
<1> QED BY <1>1, <1>2, <1>4 DEF Taken

LEMMA DiskFilesStay ==
  ASSUME FilesInv, FilesInv', Solo, NEW p \in Procs, UNCHANGED ddir,
         Freed(p)' <=> Freed(p), Freed(p) => proc'[p].fd = proc[p].fd
  PROVE  DiskFiles' = DiskFiles
<1>1. /\ DiskFiles = {fd \in Fds : /\ ddir[fd].state # {} /\ ddir[fd].blocknum # SYSERR
                                   /\ ~ (Freed(p) /\ proc[p].fd = fd)}
      /\ DiskFiles' = {fd \in Fds : /\ ddir'[fd].state # {} /\ ddir'[fd].blocknum # SYSERR
                                    /\ ~ (Freed(p)' /\ proc'[p].fd = fd)}
  BY OnDiskAre, OnDiskAreNext DEF FilesInv
<1> QED BY <1>1

\* Where a command has a file or a block of a file on its way.
Moving == {"getblock", "freeblock", "dirseek", "dirwrite"}

LEMMA NothingFreed ==
  ASSUME FilesInv, FilesInv', NEW p \in Procs, UNCHANGED call, proc[p].pc \notin Moving,
         proc'[p].pc \notin Moving
  PROVE  ~ Freed(p) /\ ~ Freed(p)'
<1>1. CommandOK(p) /\ proc[p].pc # "wild" /\ proc'[p].pc # "wild"
  BY DEF FilesInv, FilesTyped, Proc
<1>2. call[p].pc = "idle" /\ call'[p].pc = "idle"
  BY <1>1 DEF CommandOK, Calling, Moving
<1> QED BY <1>1, <1>2 DEF Freed, At, HalfLinked, Linking, Moving

LEMMA NamedStays ==
  ASSUME Named, \A fd \in Fds : Used(fd)' => Used(fd) /\ filetab'[fd].name = filetab[fd].name
  PROVE  Named'
BY DEF Named

LEMMA SameBytes ==
  ASSUME NEW bytes, NEW e, NEW f, OwnBytes(bytes, e), f.length = e.length, f.name = e.name
  PROVE  OwnBytes(bytes, f)
BY DEF OwnBytes

LEMMA WholeStays ==
  ASSUME Whole, StoreStays,
         \A fd \in Ready : /\ filetab'[fd].name = filetab[fd].name
                           /\ filetab'[fd].length = filetab[fd].length
                           /\ "OPEN" \in filetab'[fd].state =>
                                 \/ "OPEN" \in filetab[fd].state /\ filetab'[fd].data = filetab[fd].data
                                 \/ OwnBytes(filetab'[fd].data, filetab[fd])
  PROVE  Whole'
<1>1. ASSUME NEW fd \in Ready, "OPEN" \in filetab'[fd].state
      PROVE  OwnBytes(filetab'[fd].data, filetab'[fd])
  <2>1. OwnBytes(filetab'[fd].data, filetab[fd])
    BY <1>1 DEF Whole
  <2> QED BY <2>1, SameBytes
<1>2. \A fd \in DiskFiles : OwnBytes(dfile'[ddir'[fd].blocknum], ddir'[fd])
  BY DEF Whole, StoreStays, OwnBytes
<1> QED BY <1>1, <1>2 DEF Whole, StoreStays, OwnBytes

LEMMA OneReader ==
  ASSUME Solo, NEW p \in Procs
  PROVE  /\ (\A q \in Procs : Knows(q)) <=> Knows(p)
         /\ (\A q \in Procs : Knows(q)') <=> Knows(p)'
BY DEF Solo

\* A step of a command that makes no file and lets none go.
LEMMA ReadsAside ==
  ASSUME FilesInv, FilesInv', Reads, Solo, NEW p \in Procs, UNCHANGED <<call, ddir>>,
         \A fd \in Fds : /\ Used(fd)' <=> Used(fd)
                         /\ filetab'[fd].name = filetab[fd].name
                         /\ filetab'[fd].blocknum = filetab[fd].blocknum,
         proc[p].pc \notin Moving, proc'[p].pc \notin Moving,
         proc[p].pc \in Unsaved <=> proc'[p].pc \in Unsaved,
         proc[p].pc \in Unsaved => proc'[p].fd = proc[p].fd,
         \A fd \in DiskFiles : dfile'[ddir[fd].blocknum] = dfile[ddir[fd].blocknum],
         \A fd \in Ready : /\ filetab'[fd].length = filetab[fd].length
                           /\ "OPEN" \in filetab'[fd].state =>
                                 \/ "OPEN" \in filetab[fd].state /\ filetab'[fd].data = filetab[fd].data
                                 \/ OwnBytes(filetab'[fd].data, filetab[fd]),
         Knows(p)'
  PROVE  Reads' /\ StoreStays
<1>1. Owners' = Owners
  BY OneShell DEF Owners, Moving
<1>2. Ready' = Ready /\ Ready \subseteq Owners /\ Owners \subseteq Fds
  BY <1>1, OneShell DEF Ready, Owners
<1>3. DiskFiles' = DiskFiles
  BY NothingFreed, DiskFilesStay
<1>4. StoreStays
  BY <1>2, <1>3 DEF StoreStays
<1>5. Named /\ NamedOnDisk /\ Whole
  BY DEF Reads
<1>6. Named' /\ NamedOnDisk' /\ Whole'
  BY <1>2, <1>4, <1>5, NamedStays, WholeStays DEF NamedOnDisk
<1> QED BY <1>4, <1>6, OneReader DEF Reads

LEMMA CommandReads ==
  ASSUME FilesInv, FilesInv', Reads, Solo, NEW p \in Procs, Command(p)
  PROVE  Reads' /\ StoreStays
<1>1. proc[p].pc = "idle" /\ proc \in [Procs -> Proc]
  BY Alone DEF Command, At, FilesTyped
<1>2. PICK cmd \in {"cat", "cat >", "delete"}, n \in IF Shared THEN Names ELSE {p} :
        proc' = [proc EXCEPT ![p] = [NoCommand EXCEPT !.cmd = cmd, !.pc = "open", !.name = n]]
  BY DEF Command
<1>3. n \in Names
  <2>1. n \in IF Shared THEN Names ELSE {p}
    OBVIOUS
  <2>2. CASE Shared
    BY <2>1, <2>2
  <2>3. CASE ~ Shared
    <3>1. Names = Procs
      BY <2>3, FileAssumption
    <3> QED BY <2>1, <2>3, <3>1
  <2> QED BY <2>2, <2>3
<1>4. proc'[p].pc = "open" /\ proc'[p].name = n /\ proc'[p].seen = <<>>
  BY <1>1, <1>2 DEF NoCommand
<1>5. UNCHANGED <<call, filetab, ddir, dfile>>
  BY DEF Command, dirvars, flvars, memvars
<1>6. Knows(p)'
  BY <1>3, <1>4 DEF Knows, HasEntry, Writing
<1> QED BY <1>1, <1>4, <1>5, <1>6, ReadsAside DEF Unsaved, Writing, Moving, Used

\* The answer of fileOpen() when there is memory.
LEMMA OpenReads ==
  ASSUME FilesInv, FilesInv', Reads, Solo, MemoryFull = FALSE, NEW p \in Procs, fileOpen(p)
  PROVE  Reads' /\ StoreStays
<1> DEFINE S  == Matching(proc[p].name)
           fd == Min(S)
<1>1. /\ proc[p].pc = "open" /\ FilesTyped /\ CommandOK(p) /\ Knows(p)
      /\ UNCHANGED <<call, ddir, dfile>>
  BY Alone DEF fileOpen, At, Reads, memvars
<1>2. \/ S = {} /\ Opened_fd(p, SYSERR) /\ UNCHANGED filetab
      \/ S # {} /\ "OPEN" \in filetab[fd].state /\ Opened_fd(p, fd) /\ UNCHANGED filetab
      \/ /\ S # {} /\ "OPEN" \notin filetab[fd].state
         /\ filetab' = [filetab EXCEPT ![fd].data = JunkBlock]
         /\ proc' = [proc EXCEPT ![p].fd = fd, ![p].pc = "read"]
  BY DEF fileOpen
<1>3. S # {} => fd \in Fds /\ filetab[fd].name = proc[p].name /\ fd # SYSERR
  <2>1. S \in SUBSET Fds /\ \A x \in S : filetab[x].name = proc[p].name
    BY DEF Matching
  <2>2. \A x \in Fds : x # SYSERR
    BY DEF Fds, SYSERR
  <2> QED BY <2>1, <2>2, LeastIn
<1>4. /\ proc[p].cmd # "none" /\ proc \in [Procs -> Proc] /\ proc[p].seen = <<>>
      /\ proc[p].name \in Names /\ filetab \in [Fds -> Filenode]
  BY <1>1 DEF CommandOK, FilesTyped, Knows
<1>5. proc[p].pc \notin Unsaved \cup Moving
  BY <1>1 DEF Unsaved, Writing, Moving
<1>6. CASE S = {} /\ Opened_fd(p, SYSERR) /\ UNCHANGED filetab
  <2>1. /\ proc'[p].pc \in {"idle", "create"}
        /\ proc'[p].pc = "create" => proc'[p].name = proc[p].name /\ proc'[p].cmd # "delete"
    BY <1>4, <1>6, Opens DEF Fds, SYSERR
  <2>2. {x \in Fds : "USED" \in filetab'[x].state /\ filetab'[x].name = proc[p].name} = {}
    BY <1>6 DEF Matching, Used
  <2>3. Knows(p)'
    BY <1>4, <2>1, <2>2 DEF Knows, HasEntry, Writing, Matching, Used
  <2>4. proc'[p].pc \notin Unsaved \cup Moving
    BY <2>1 DEF Unsaved, Writing, Moving
  <2> QED BY <1>1, <1>5, <1>6, <2>3, <2>4, ReadsAside DEF Used
<1>7. CASE S # {} /\ "OPEN" \in filetab[fd].state /\ Opened_fd(p, fd) /\ UNCHANGED filetab
  <2> HIDE DEF S, fd
  <2>1. \/ proc'[p].pc = "idle"
        \/ /\ proc'[p].pc \in {"fileSeek", "delete"} /\ proc'[p].fd = fd
           /\ proc'[p].name = proc[p].name /\ proc'[p].seen = proc[p].seen
    BY <1>3, <1>4, <1>7, Opens
  <2>2. Knows(p)'
    BY <1>3, <1>4, <1>7, <2>1 DEF Knows, HasEntry, Writing
  <2>3. proc'[p].pc \notin Unsaved \cup Moving
    BY <2>1 DEF Unsaved, Writing, Moving
  <2> QED BY <1>1, <1>5, <1>7, <2>2, <2>3, ReadsAside DEF Used
<1>8. CASE /\ S # {} /\ "OPEN" \notin filetab[fd].state
           /\ filetab' = [filetab EXCEPT ![fd].data = JunkBlock]
           /\ proc' = [proc EXCEPT ![p].fd = fd, ![p].pc = "read"]
  <2> DEFINE e == [filetab[fd] EXCEPT !.data = JunkBlock]
  <2> HIDE DEF S, fd
  <2>1. /\ proc'[p].pc = "read" /\ proc'[p].fd = fd
        /\ proc'[p].name = proc[p].name /\ proc'[p].seen = proc[p].seen
    BY <1>4, <1>8 DEF Proc
  <2>2. /\ e.state = filetab[fd].state /\ e.name = filetab[fd].name
        /\ e.length = filetab[fd].length /\ e.blocknum = filetab[fd].blocknum
    BY <1>3, <1>4, <1>8 DEF Filenode
  <2>3. filetab' = [filetab EXCEPT ![fd] = e]
    BY <1>8, Zenon
  <2> HIDE DEF e
  <2>4. filetab'[fd] = e /\ (\A g \in Fds : g # fd => filetab'[g] = filetab[g])
    BY <1>3, <1>4, <1>8, <2>3, SetEntry
  <2>5. Knows(p)'
    BY <1>3, <1>4, <1>8, <2>1, <2>2, <2>4 DEF Knows, HasEntry, Writing
  <2>6. proc'[p].pc \notin Unsaved \cup Moving
    BY <2>1 DEF Unsaved, Writing, Moving
  <2>7. \A x \in Fds : /\ Used(x)' <=> Used(x)
                       /\ filetab'[x].name = filetab[x].name
                       /\ filetab'[x].blocknum = filetab[x].blocknum
                       /\ filetab'[x].length = filetab[x].length
                       /\ "OPEN" \in filetab'[x].state =>
                             "OPEN" \in filetab[x].state /\ filetab'[x].data = filetab[x].data
    BY <1>8, <2>2, <2>4 DEF Used
  <2>8. Ready \subseteq Fds
    BY DEF Ready, Owners
  <2> QED BY <1>1, <1>5, <2>5, <2>6, <2>7, <2>8, ReadsAside
<1> QED BY <1>2, <1>6, <1>7, <1>8

LEMMA OpenReadReads ==
  ASSUME FilesInv, FilesInv', Reads, Solo, NEW p \in Procs, fileOpenRead(p)
  PROVE  Reads' /\ StoreStays
<1> DEFINE fd   == proc[p].fd
           data == IF pos \in Blocks THEN dfile[pos] ELSE JunkBlock
           e    == [filetab[fd] EXCEPT !.data = data, !.state = @ \cup {"OPEN"}, !.cursor = 0]
<1>1. /\ proc[p].pc = "read" /\ FilesTyped /\ CommandOK(p) /\ Knows(p) /\ Owning
      /\ fd \in Fds /\ Used(fd) /\ proc[p].cmd # "none"
      /\ filetab[fd].blocknum \in Blocks => pos = filetab[fd].blocknum
      /\ filetab \in [Fds -> Filenode] /\ proc \in [Procs -> Proc]
      /\ fd # SYSERR
      /\ \A x \in Ready : /\ x \in DiskFiles /\ ddir[x].name = filetab[x].name
                          /\ ddir[x].length = filetab[x].length
                          /\ ddir[x].blocknum = filetab[x].blocknum
  BY Alone, ReadyOnDisk DEF fileOpenRead, At, CommandOK, HasEntry, Reads, FilesTyped, Fds, SYSERR
<1>2. /\ filetab' = [filetab EXCEPT ![fd].data = data, ![fd].state = @ \cup {"OPEN"},
                                    ![fd].cursor = 0]
      /\ Opened_fd(p, fd)
      /\ UNCHANGED <<call, ddir, dfile>>
  BY DEF fileOpenRead, flvars, memvars, MyFd
<1>3. /\ proc[p].pc \notin Unsaved \cup Moving
      /\ proc[p].seen = <<>> /\ proc[p].name \in Names /\ filetab[fd].name = proc[p].name
  BY <1>1 DEF Knows, HasEntry, Writing, Unsaved, Moving
<1>4. fd \in Ready => OwnBytes(data, filetab[fd])
  <2> SUFFICES ASSUME fd \in Ready PROVE OwnBytes(data, filetab[fd])
    OBVIOUS
  <2>1. filetab[fd].blocknum \in Blocks
    BY <1>1 DEF Ready, Owning, Taken
  <2>2. data = dfile[ddir[fd].blocknum] /\ OwnBytes(data, ddir[fd])
    BY <1>1, <2>1 DEF Reads, Whole
  <2> QED BY <1>1, <2>2, SameBytes
<1> HIDE DEF data
<1>5. /\ e.state = filetab[fd].state \cup {"OPEN"} /\ e.name = filetab[fd].name
      /\ e.length = filetab[fd].length /\ e.blocknum = filetab[fd].blocknum
      /\ e.data = data
  <2>1. filetab[fd] \in Filenode
    BY <1>1
  <2> QED BY <2>1 DEF Filenode
<1>6. filetab' = [filetab EXCEPT ![fd] = e]
  BY <1>2, Zenon DEF e
<1> HIDE DEF e
<1>7. filetab'[fd] = e /\ (\A g \in Fds : g # fd => filetab'[g] = filetab[g])
  BY <1>1, <1>6, SetEntry
<1>8. \/ proc'[p].pc = "idle"
      \/ /\ proc'[p].pc \in {"fileSeek", "delete"} /\ proc'[p].fd = fd
         /\ proc'[p].name = proc[p].name /\ proc'[p].seen = proc[p].seen
  BY <1>1, <1>2, Opens
<1>9. Knows(p)'
  BY <1>3, <1>5, <1>7, <1>8 DEF Knows, HasEntry, Writing
<1>10. proc'[p].pc \notin Unsaved \cup Moving
  BY <1>8 DEF Unsaved, Writing, Moving
<1>11. \A x \in Fds : /\ Used(x)' <=> Used(x)
                      /\ filetab'[x].name = filetab[x].name
                      /\ filetab'[x].blocknum = filetab[x].blocknum
                      /\ filetab'[x].length = filetab[x].length
                      /\ x # fd => filetab'[x] = filetab[x]
  BY <1>1, <1>5, <1>7 DEF Used
<1>12. \A x \in Ready : /\ x \in Fds
                        /\ \/ "OPEN" \in filetab'[x].state => "OPEN" \in filetab[x].state /\ filetab'[x].data = filetab[x].data
                           \/ OwnBytes(filetab'[x].data, filetab[x])
  BY <1>4, <1>5, <1>7, <1>11 DEF Ready, Owners
<1> QED BY <1>2, <1>3, <1>9, <1>10, <1>11, <1>12, ReadsAside

LEMMA SeekFileReads ==
  ASSUME FilesInv, FilesInv', Reads, Solo, NEW p \in Procs, fileSeek(p)
  PROVE  Reads' /\ StoreStays
<1> DEFINE fd == proc[p].fd
           e  == [filetab[fd] EXCEPT !.cursor = 0]
<1>1. /\ proc[p].pc = "fileSeek" /\ FilesTyped /\ CommandOK(p) /\ Knows(p)
      /\ fd \in Fds /\ Used(fd) /\ filetab[fd].cursor <= filetab[fd].length
      /\ filetab \in [Fds -> Filenode] /\ proc \in [Procs -> Proc]
  BY Alone DEF fileSeek, At, CommandOK, HasEntry, Reads, FilesTyped
<1>2. /\ filetab' = [filetab EXCEPT ![fd].cursor = 0] /\ Go(p, "get")
      /\ UNCHANGED <<call, ddir, dfile>>
  BY <1>1 DEF fileSeek, flvars, memvars, MyFd, Entry, Vacant, Used
<1>3. /\ proc[p].pc \notin Unsaved \cup Moving
      /\ proc[p].seen = <<>> /\ proc[p].name \in Names /\ filetab[fd].name = proc[p].name
  BY <1>1 DEF Knows, HasEntry, Writing, Unsaved, Moving
<1>4. /\ e.state = filetab[fd].state /\ e.name = filetab[fd].name /\ e.data = filetab[fd].data
      /\ e.length = filetab[fd].length /\ e.blocknum = filetab[fd].blocknum /\ e.cursor = 0
  BY <1>1 DEF Filenode
<1>5. filetab' = [filetab EXCEPT ![fd] = e]
  BY <1>2, Zenon
<1> HIDE DEF e
<1>6. filetab'[fd] = e /\ (\A g \in Fds : g # fd => filetab'[g] = filetab[g])
  BY <1>1, <1>5, SetEntry
<1>7. /\ proc'[p].pc = "get" /\ proc'[p].fd = fd /\ proc'[p].name = proc[p].name
      /\ proc'[p].seen = <<>>
  BY <1>1, <1>2, <1>3, Goes
<1>8. Knows(p)'
  <2>1. Len(<<>>) = 0 /\ 1 .. 0 = {}
    OBVIOUS
  <2> QED BY <1>3, <1>4, <1>6, <1>7, <2>1 DEF Knows, HasEntry, Writing
<1>9. proc'[p].pc \notin Unsaved \cup Moving
  BY <1>7 DEF Unsaved, Writing, Moving
<1>10. \A x \in Fds : /\ Used(x)' <=> Used(x)
                      /\ filetab'[x].name = filetab[x].name
                      /\ filetab'[x].blocknum = filetab[x].blocknum
                      /\ filetab'[x].length = filetab[x].length
                      /\ filetab'[x].state = filetab[x].state
                      /\ filetab'[x].data = filetab[x].data
  BY <1>4, <1>6 DEF Used
<1>11. Ready \subseteq Fds
  BY DEF Ready, Owners
<1> QED BY <1>2, <1>3, <1>8, <1>9, <1>10, <1>11, ReadsAside

LEMMA GetCharReads ==
  ASSUME FilesInv, FilesInv', Reads, Solo, NEW p \in Procs, fileGetChar(p)
  PROVE  Reads' /\ StoreStays
<1> DEFINE fd == proc[p].fd
           n  == filetab[fd].cursor
           ch == filetab[fd].data[n + 1]
           e  == [filetab[fd] EXCEPT !.cursor = @ + 1]
           c  == [proc[p] EXCEPT !.seen = Append(@, ch)]
<1>1. /\ proc[p].pc = "get" /\ FilesTyped /\ CommandOK(p) /\ Knows(p)
      /\ fd \in Fds /\ filetab \in [Fds -> Filenode] /\ proc \in [Procs -> Proc]
  BY Alone DEF fileGetChar, At, CommandOK, HasEntry, Reads, FilesTyped
<1>2. /\ \/ End(p) /\ UNCHANGED filetab
         \/ /\ proc' = [proc EXCEPT ![p].seen = Append(@, ch)]
            /\ filetab' = [filetab EXCEPT ![fd].cursor = @ + 1]
      /\ UNCHANGED <<call, ddir, dfile>>
  BY DEF fileGetChar, flvars, memvars, MyFd, AtEnd, Entry
<1>3. /\ proc[p].pc \notin Unsaved \cup Moving
      /\ proc[p].name \in Names /\ filetab[fd].name = proc[p].name
      /\ Len(proc[p].seen) = n /\ \A i \in 1 .. n : proc[p].seen[i] = filetab[fd].data[i]
  BY <1>1 DEF Knows, HasEntry, Writing, Unsaved, Moving
<1>4. /\ e.state = filetab[fd].state /\ e.name = filetab[fd].name /\ e.data = filetab[fd].data
      /\ e.length = filetab[fd].length /\ e.blocknum = filetab[fd].blocknum /\ e.cursor = n + 1
  BY <1>1 DEF Filenode
<1>5. c.pc = "get" /\ c.fd = fd /\ c.name = proc[p].name /\ c.seen = Append(proc[p].seen, ch)
  BY <1>1 DEF Proc
<1> HIDE DEF ch
<1>6. CASE End(p) /\ UNCHANGED filetab
  <2>1. proc'[p].pc = "idle"
    BY <1>1, <1>6, Ends
  <2>2. Knows(p)' /\ proc'[p].pc \notin Unsaved \cup Moving
    BY <2>1 DEF Knows, HasEntry, Writing, Unsaved, Moving
  <2> QED BY <1>2, <1>3, <1>6, <2>2, ReadsAside DEF Used
<1>7. CASE /\ proc' = [proc EXCEPT ![p].seen = Append(@, ch)]
           /\ filetab' = [filetab EXCEPT ![fd].cursor = @ + 1]
  <2>1. filetab' = [filetab EXCEPT ![fd] = e] /\ proc' = [proc EXCEPT ![p] = c]
    BY <1>7, Zenon
  <2>2. n \in Nat /\ proc[p].seen \in Seq(Char)
    <3>1. filetab[fd] \in Filenode /\ proc[p] \in Proc
      BY <1>1
    <3>2. n \in Nat
      BY <3>1 DEF Filenode, Length
    <3>3. proc[p].seen \in Seq(Char)
      BY <3>1 DEF Proc
    <3> QED BY <3>2, <3>3
  <2>3. /\ Len(Append(proc[p].seen, ch)) = n + 1
        /\ \A i \in 1 .. n + 1 : Append(proc[p].seen, ch)[i] = filetab[fd].data[i]
    <3> DEFINE w == proc[p].seen  V == Char \cup {ch}
    <3>1. w \in Seq(V) /\ ch \in V /\ Len(w) = n
      BY <1>3, <2>2, SeqMonotonic
    <3> HIDE DEF w, V
    <3>2. /\ Len(Append(w, ch)) = n + 1
          /\ \A i \in 1 .. n : Append(w, ch)[i] = w[i]
          /\ Append(w, ch)[n + 1] = ch
      BY <3>1, <2>2, AppendProperties, SMTT(20)
    <3>3. \A i \in 1 .. n + 1 : i \in 1 .. n \/ i = n + 1
      BY <2>2
    <3>4. ch = filetab[fd].data[n + 1]
      BY DEF ch
    <3> QED BY <1>3, <3>2, <3>3, <3>4 DEF w
  <2> HIDE DEF e, c, n
  <2>4. filetab'[fd] = e /\ (\A g \in Fds : g # fd => filetab'[g] = filetab[g])
    BY <1>1, <2>1, SetEntry
  <2>5. proc'[p] = c
    BY <1>1, <2>1
  <2>6. Knows(p)'
    <3>1. /\ proc'[p].pc = "get" /\ proc'[p].fd = fd /\ proc'[p].name = proc[p].name
          /\ proc'[p].seen = Append(proc[p].seen, ch)
      BY <1>5, <2>5
    <3>2. /\ filetab'[fd].name = proc[p].name /\ filetab'[fd].cursor = n + 1
          /\ filetab'[fd].data = filetab[fd].data
      BY <1>3, <1>4, <2>4
    <3>3. /\ Len(proc'[p].seen) = n + 1
          /\ \A i \in 1 .. n + 1 : proc'[p].seen[i] = filetab[fd].data[i]
      BY <2>3, <3>1
    <3> QED BY <1>3, <3>1, <3>2, <3>3 DEF Knows, HasEntry, Writing
  <2>7. proc'[p].pc \notin Unsaved \cup Moving
    BY <1>5, <2>5 DEF Unsaved, Writing, Moving
  <2>8. \A x \in Fds : /\ Used(x)' <=> Used(x)
                       /\ filetab'[x].name = filetab[x].name
                       /\ filetab'[x].blocknum = filetab[x].blocknum
                       /\ filetab'[x].length = filetab[x].length
                       /\ filetab'[x].state = filetab[x].state
                       /\ filetab'[x].data = filetab[x].data
    BY <1>4, <2>4 DEF Used
  <2>9. Ready \subseteq Fds
    BY DEF Ready, Owners
  <2> QED BY <1>2, <1>3, <2>6, <2>7, <2>8, <2>9, ReadsAside
<1> QED BY <1>2, <1>6, <1>7
\* Whose file is being made, and that it is not Ready.
LEMMA MakingReads ==
  ASSUME FilesInv, FilesInv', Reads, Solo, NEW p \in Procs, proc[p].pc \in Writing
  PROVE  /\ Knows(p) /\ proc[p].fd \notin Ready /\ Ready \subseteq Fds
         /\ proc[p].name \in Names /\ filetab[proc[p].fd].name = proc[p].name
         /\ proc[p].pc \notin Moving /\ proc[p].cmd # "delete"
BY OneShell DEF Reads, Ready, Owners, Unsaved, Writing, Moving, Knows, HasEntry

LEMMA PutCharReads ==
  ASSUME FilesInv, FilesInv', Reads, Solo, NEW p \in Procs, filePutChar(p)
  PROVE  Reads' /\ StoreStays
<1> DEFINE fd   == proc[p].fd
           d    == filetab[fd]
           n    == d.cursor
           data == [d.data EXCEPT ![n + 1] = proc[p].name]
           len  == IF d.length = n THEN d.length + 1 ELSE d.length
           s    == d.state \cup {"DIRTY"}
           e    == [d EXCEPT !.data[d.cursor + 1] = proc[p].name, !.cursor = @ + 1,
                             !.length = IF @ = d.cursor THEN @ + 1 ELSE @,
                             !.state = @ \cup {"DIRTY"}]
<1>1. proc[p].pc = "put" /\ proc[p].pc \in Writing
  BY DEF filePutChar, At, Writing
<1>2. /\ fd \in Fds /\ Used(fd) /\ d \in Filenode /\ proc[p].pc \in Unsaved
      /\ filetab \in [Fds -> Filenode]
      /\ Knows(p) /\ fd \notin Ready /\ Ready \subseteq Fds
      /\ proc[p].name \in Names /\ d.name = proc[p].name
      /\ proc[p].cmd # "delete" /\ proc[p].pc \notin Moving
  BY <1>1, MakingOne, MakingReads
<1>3. /\ n < DISKBLOCKLEN
      /\ UNCHANGED <<call, ddir, dfile, proc>>
  BY DEF filePutChar, flvars, memvars, MyFd, Entry
<1>4. filetab' = [filetab EXCEPT ![fd] = e]
  BY Zenon DEF filePutChar, MyFd, Entry
<1>5. n = d.length /\ OwnBytes(d.data, d)
  BY <1>1, <1>2 DEF Knows
<1>6. n \in Nat /\ d.data \in Bytes
  BY <1>2 DEF Filenode, Length
<1>7. e = [d EXCEPT !.data = data, !.cursor = n + 1, !.length = len, !.state = s]
  BY <1>2 DEF Filenode
<1> HIDE DEF data, len, s, e
<1>8. /\ e.state = s /\ e.name = d.name /\ e.blocknum = d.blocknum
      /\ e.cursor = n + 1 /\ e.length = len /\ e.data = data
  BY <1>2, <1>7 DEF Filenode
<1>9. len = n + 1
  BY <1>5 DEF len
<1>10. OwnBytes(data, e)
  <2> SUFFICES ASSUME NEW i \in 1 .. n + 1 PROVE data[i] = proc[p].name
    BY <1>2, <1>8, <1>9 DEF OwnBytes
  <2>1. i \in 1 .. n \/ i = n + 1
    BY <1>6
  <2>2. n + 1 \in 1 .. DISKBLOCKLEN /\ i \in 1 .. DISKBLOCKLEN
    BY <1>3, <1>6, FileAssumption
  <2>3. data[i] = IF i = n + 1 THEN proc[p].name ELSE d.data[i]
    BY <1>6, <2>2 DEF data, Bytes
  <2> QED BY <1>2, <1>5, <2>1, <2>3 DEF OwnBytes
<1>11. filetab'[fd] = e /\ (\A g \in Fds : g # fd => filetab'[g] = filetab[g])
  BY <1>2, <1>4, SetEntry
<1>12. Knows(p)'
  BY <1>1, <1>2, <1>3, <1>8, <1>9, <1>10, <1>11 DEF Knows, HasEntry, Writing, s
<1>13. \A x \in Fds : /\ Used(x)' <=> Used(x)
                      /\ filetab'[x].name = filetab[x].name
                      /\ filetab'[x].blocknum = filetab[x].blocknum
                      /\ x # fd => filetab'[x] = filetab[x]
  BY <1>2, <1>8, <1>11 DEF Used, s
<1> QED BY <1>1, <1>2, <1>3, <1>12, <1>13, ReadsAside

LEMMA TildeReads ==
  ASSUME FilesInv, FilesInv', Reads, Solo, NEW p \in Procs, Tilde(p)
  PROVE  Reads' /\ StoreStays
<1>1. proc[p].pc = "put" /\ proc[p].pc \in Writing
  BY DEF Tilde, At, Writing
<1>2. /\ proc \in [Procs -> Proc] /\ proc[p].pc \in Unsaved /\ Knows(p)
      /\ proc[p].cmd # "delete" /\ proc[p].pc \notin Moving
  BY <1>1, MakingOne, MakingReads
<1>3. /\ Go(p, "close")
      /\ UNCHANGED <<call, ddir, dfile, filetab>>
  BY DEF Tilde, flvars, memvars, dirvars
<1>4. /\ proc'[p].pc = "close" /\ proc'[p].fd = proc[p].fd /\ proc'[p].name = proc[p].name
      /\ proc'[p].cmd = proc[p].cmd
  BY <1>2, <1>3, Goes
<1>5. Knows(p)'
  BY <1>1, <1>2, <1>3, <1>4 DEF Knows, HasEntry, Writing
<1>6. proc'[p].pc \in Unsaved /\ proc'[p].pc \notin Moving
  BY <1>4 DEF Unsaved, Writing, Moving
<1> QED BY <1>1, <1>2, <1>3, <1>4, <1>5, <1>6, ReadsAside DEF Used

\* A file that is not Ready is closed: its entry keeps all but its state.
LEMMA CloseReads ==
  ASSUME FilesInv, FilesInv', Reads, Solo, NEW p \in Procs, fileClose(p)
  PROVE  Reads' /\ StoreStays
<1> DEFINE fd == proc[p].fd
           s  == filetab[fd].state \ {"OPEN"}
           e  == [filetab[fd] EXCEPT !.state = s]
<1>1. proc[p].pc = "close" /\ proc[p].pc \in Writing
  BY DEF fileClose, At, Writing
<1>2. /\ fd \in Fds /\ Used(fd) /\ filetab[fd] \in Filenode /\ fd \in Owners
      /\ proc \in [Procs -> Proc] /\ filetab \in [Fds -> Filenode] /\ proc[p].pc \in Unsaved
      /\ Knows(p) /\ fd \notin Ready /\ Ready \subseteq Fds
      /\ proc[p].name \in Names /\ filetab[fd].name = proc[p].name
      /\ proc[p].cmd # "delete" /\ proc[p].pc \notin Moving
  BY <1>1, MakingOne, MakingReads
<1>3. /\ \/ Go(p, "closewrite") /\ UNCHANGED filetab
         \/ /\ "DIRTY" \notin filetab[fd].state
            /\ filetab' = [filetab EXCEPT ![fd].state = @ \ {"OPEN"}]
            /\ Go(p, "dirwait")
      /\ UNCHANGED <<call, ddir, dfile>>
  BY <1>2 DEF fileClose, MyFd, Entry, memvars, Vacant, Used
<1>4. CASE Go(p, "closewrite") /\ UNCHANGED filetab
  <2>1. /\ proc'[p].pc = "closewrite" /\ proc'[p].fd = fd /\ proc'[p].name = proc[p].name
        /\ proc'[p].cmd = proc[p].cmd
    BY <1>2, <1>4, Goes
  <2>2. Knows(p)'
    BY <1>1, <1>2, <1>3, <1>4, <2>1 DEF Knows, HasEntry, Writing
  <2>3. proc'[p].pc \in Unsaved /\ proc'[p].pc \notin Moving
    BY <2>1 DEF Unsaved, Writing, Moving
  <2> QED BY <1>1, <1>2, <1>3, <1>4, <2>1, <2>2, <2>3, ReadsAside DEF Used
<1>5. CASE /\ "DIRTY" \notin filetab[fd].state
           /\ filetab' = [filetab EXCEPT ![fd].state = @ \ {"OPEN"}]
           /\ Go(p, "dirwait")
  <2>1. /\ proc'[p].pc = "dirwait" /\ proc'[p].fd = fd /\ proc'[p].name = proc[p].name
        /\ proc'[p].cmd = proc[p].cmd
    BY <1>2, <1>5, Goes
  <2>2. filetab' = [filetab EXCEPT ![fd] = e]
    BY <1>5, Zenon
  <2>3. "USED" \in s /\ "OPEN" \notin s
    BY <1>2 DEF Used
  <2> HIDE DEF s
  <2>4. /\ e.state = s /\ e.name = filetab[fd].name
        /\ e.length = filetab[fd].length /\ e.blocknum = filetab[fd].blocknum
    BY <1>2 DEF Filenode
  <2> HIDE DEF e
  <2>5. filetab'[fd] = e /\ (\A g \in Fds : g # fd => filetab'[g] = filetab[g])
    BY <1>2, <2>2, SetEntry
  <2>6. \A x \in Fds : /\ Used(x)' <=> Used(x)
                       /\ filetab'[x].name = filetab[x].name
                       /\ filetab'[x].blocknum = filetab[x].blocknum
                       /\ x # fd => filetab'[x] = filetab[x]
    BY <1>2, <2>3, <2>4, <2>5 DEF Used
  <2>7. fd \in Owners'
    BY <1>2, <2>1, <2>6, OneShell DEF Owners
  <2>8. e.length = 0
    BY <1>1, <1>2, <1>5, <2>4 DEF Knows
  <2>9. \A bytes : OwnBytes(bytes, e)
    <3>1. 1 .. 0 = {}
      OBVIOUS
    <3> QED BY <2>8, <3>1 DEF OwnBytes
  <2>10. Knows(p)'
    BY <1>2, <2>1, <2>3, <2>4, <2>5, <2>7, <2>9 DEF Knows, HasEntry, Writing
  <2>11. proc'[p].pc \in Unsaved /\ proc'[p].pc \notin Moving
    BY <2>1 DEF Unsaved, Writing, Moving
  <2> QED BY <1>1, <1>2, <1>3, <2>1, <2>6, <2>10, <2>11, ReadsAside
<1> QED BY <1>3, <1>4, <1>5

LEMMA CloseWriteReads ==
  ASSUME FilesInv, FilesInv', Found, Reads, Solo, MayFail = FALSE, NEW p \in Procs,
         fileCloseWrite(p)
  PROVE  Reads' /\ StoreStays
<1> DEFINE fd == proc[p].fd
           b  == filetab[fd].blocknum
           s  == filetab[fd].state \ {"OPEN", "DIRTY"}
           e  == [filetab[fd] EXCEPT !.state = s]
<1>1. proc[p].pc = "closewrite" /\ proc[p].pc \in Writing
  BY DEF fileCloseWrite, At, Writing
<1>2. /\ fd \in Fds /\ Used(fd) /\ filetab[fd] \in Filenode /\ fd \in Owners
      /\ proc \in [Procs -> Proc] /\ filetab \in [Fds -> Filenode] /\ proc[p].pc \in Unsaved
      /\ Knows(p) /\ fd \notin Ready /\ Ready \subseteq Fds
      /\ proc[p].name \in Names /\ filetab[fd].name = proc[p].name
      /\ proc[p].cmd # "delete" /\ proc[p].pc \notin Moving
      /\ b \in Blocks /\ CommandOK(p)
  BY <1>1, MakingOne, MakingReads
<1>3. /\ Store(filetab[fd].data, <<>>) /\ Go(p, "dirwait")
      /\ filetab' = [filetab EXCEPT ![fd].state = @ \ {"OPEN", "DIRTY"}]
      /\ UNCHANGED <<call, freelst, node, heap>>
  BY DEF fileCloseWrite, MyFd, Entry, memvars
<1>4. pos = b /\ pos \in Blocks /\ pos # DIRBLOCK
  BY <1>1, <1>2 DEF CommandOK, DIRBLOCK, Blocks, SUPERBLOCKNUM
<1>5. UNCHANGED ddir /\ dfile' = [dfile EXCEPT ![b] = filetab[fd].data]
  BY <1>3, <1>4 DEF Store
<1>6. /\ proc'[p].pc = "dirwait" /\ proc'[p].fd = fd /\ proc'[p].name = proc[p].name
      /\ proc'[p].cmd = proc[p].cmd
  BY <1>2, <1>3, Goes
<1>7. filetab' = [filetab EXCEPT ![fd] = e]
  BY <1>3, Zenon
<1>8. "USED" \in s /\ "OPEN" \notin s
  BY <1>2 DEF Used
<1> HIDE DEF s
<1>9. /\ e.state = s /\ e.name = filetab[fd].name
       /\ e.length = filetab[fd].length /\ e.blocknum = b
  BY <1>2 DEF Filenode
<1> HIDE DEF e
<1>10. filetab'[fd] = e /\ (\A g \in Fds : g # fd => filetab'[g] = filetab[g])
  BY <1>2, <1>7, SetEntry
<1>11. \A x \in Fds : /\ Used(x)' <=> Used(x)
                      /\ filetab'[x].name = filetab[x].name
                      /\ filetab'[x].blocknum = filetab[x].blocknum
                      /\ x # fd => filetab'[x] = filetab[x]
  BY <1>2, <1>8, <1>9, <1>10 DEF Used
<1>12. fd \in Owners'
  BY <1>2, <1>6, <1>11, OneShell DEF Owners
<1>13. dfile'[b] = filetab[fd].data /\ OwnBytes(dfile'[b], e)
  <2>1. dfile'[b] = filetab[fd].data
    BY <1>2, <1>5 DEF FilesInv, FilesTyped
  <2>2. OwnBytes(filetab[fd].data, filetab[fd])
    BY <1>1, <1>2 DEF Knows
  <2> QED BY <1>9, <2>1, <2>2 DEF OwnBytes
<1>14. Knows(p)'
  BY <1>2, <1>6, <1>8, <1>9, <1>10, <1>12, <1>13 DEF Knows, HasEntry, Writing
<1>15. \A x \in DiskFiles : ddir[x].blocknum # b
  <2> SUFFICES ASSUME NEW x \in DiskFiles PROVE ddir[x].blocknum # b
    OBVIOUS
  <2>1. CASE x \in Ready
    <3>1. x \in Owners /\ x # fd /\ ddir[x].blocknum = filetab[x].blocknum
      BY <1>2, <2>1, ReadyOnDisk
    <3> QED BY <1>2, <3>1 DEF FilesInv, Owning
  <2>2. ~ Leaving(x)
    BY <1>1, OneLeaves DEF Writing
  <2>3. Loose(x) => ddir[x].blocknum # b
    BY <1>2 DEF Loose
  <2> QED BY <2>1, <2>2, <2>3 DEF Found
<1>17. \A x \in DiskFiles : dfile'[ddir[x].blocknum] = dfile[ddir[x].blocknum]
  <2>1. ~ HalfWritten
    BY <1>1, OneShell, Alone DEF HalfWritten, HalfLinked, Linking, Writing, Calling
  <2>2. \A x \in DiskFiles : ddir[x].blocknum \in Blocks
    BY <2>1, FoundApart
  <2> QED BY <1>2, <1>5, <1>15, <2>2 DEF FilesInv, FilesTyped
<1>16. proc'[p].pc \in Unsaved /\ proc'[p].pc \notin Moving
  BY <1>6 DEF Unsaved, Writing, Moving
<1>18. \A x \in Ready : x # fd /\ x \in Fds
  BY <1>2
<1> QED BY <1>1, <1>2, <1>3, <1>5, <1>6, <1>11, <1>14, <1>16, <1>17, <1>18, ReadsAside
LEMMA DirSeekReads ==
  ASSUME FilesInv, FilesInv', Reads, Solo, NEW p \in Procs, DirSeek(p)
  PROVE  Reads' /\ StoreStays
<1> DEFINE fd == proc[p].fd
<1>1. /\ proc[p].pc \in {"dirwait", "dirseek"} /\ proc[p].pc \notin Calling
      /\ proc \in [Procs -> Proc] /\ CommandOK(p) /\ Knows(p)
  BY Alone DEF DirSeek, At, Calling, FilesTyped, Reads
<1>2. SUPER \notin swz /\ call[p].pc = "idle"
  BY <1>1, Alone
<1>3. /\ Go(p, "dirwrite") /\ UNCHANGED <<call, ddir, dfile, filetab>>
  BY <1>2 DEF DirSeek
<1>4. /\ proc'[p].pc = "dirwrite" /\ proc'[p].fd = fd /\ proc'[p].name = proc[p].name
      /\ proc'[p].cmd = proc[p].cmd
  BY <1>1, <1>3, Goes
<1>5. Owners' = Owners
  BY <1>1, <1>3, <1>4, OneShell DEF Owners, Used
<1>6. \A x \in Owners : Making(x)' <=> Making(x)
  <2>1. proc[p].pc = "dirseek" => fd \notin Owners
    BY <1>1 DEF CommandOK, Owners, Used
  <2> QED BY <1>1, <1>4, <2>1, OneShell DEF Unsaved, Writing
<1>7. Ready' = Ready
  BY <1>5, <1>6 DEF Ready
<1>8. Freed(p)' <=> Freed(p)
  <2>1. ~ HalfLinked(p) /\ ~ HalfLinked(p)'
    BY <1>2, <1>3 DEF HalfLinked, Linking
  <2>2. /\ proc[p].pc = "dirseek" => proc[p].cmd = "delete"
        /\ proc[p].pc = "dirwait" => proc[p].cmd # "delete"
    BY <1>1 DEF CommandOK, Knows, Writing
  <2> QED BY <1>1, <1>4, <2>1, <2>2 DEF Freed, At
<1>9. DiskFiles' = DiskFiles
  BY <1>3, <1>4, <1>8, DiskFilesStay
<1>10. StoreStays
  BY <1>3, <1>7, <1>9 DEF StoreStays
<1>11. Named /\ NamedOnDisk /\ Whole
  BY DEF Reads
<1>12. Named' /\ NamedOnDisk' /\ Whole'
  BY <1>3, <1>10, <1>11, NamedStays, WholeStays DEF Used, NamedOnDisk
<1>13. Knows(p)'
  BY <1>1, <1>3, <1>4, <1>5 DEF Knows, HasEntry, Writing, CommandOK, Used
<1> QED BY <1>10, <1>12, <1>13, OneReader DEF Reads

LEMMA CreateReads ==
  ASSUME FilesInv, FilesInv', Reads, Solo, MemoryFull = FALSE, NEW p \in Procs, fileCreate(p)
  PROVE  Reads' /\ StoreStays
<1> DEFINE free == {x \in Fds : Vacant(x)}
           fd   == Min(free)
           new  == [filetab[fd] EXCEPT !.name = proc[p].name, !.length = 0, !.cursor = 0,
                                       !.data = JunkBlock]
           both == [new EXCEPT !.state = {"USED", "OPEN"}]
<1>1. /\ proc[p].pc = "create" /\ proc \in [Procs -> Proc] /\ filetab \in [Fds -> Filenode]
      /\ Knows(p) /\ CommandOK(p)
  BY Alone DEF fileCreate, At, FilesTyped, Reads
<1>2. /\ \/ End(p) /\ UNCHANGED filetab
         \/ /\ free # {} /\ filetab' = [filetab EXCEPT ![fd] = both]
            /\ proc' = [proc EXCEPT ![p].fd = fd, ![p].pc = "getblock"]
      /\ UNCHANGED <<call, ddir, dfile>>
  BY DEF fileCreate, flvars
<1>3. free # {} => fd \in Fds /\ filetab[fd].state = {}
  <2>1. free \in SUBSET Fds
    OBVIOUS
  <2> HIDE DEF free
  <2>2. free # {} => fd \in free
    BY <2>1, LeastIn
  <2> QED BY <2>2 DEF free, Vacant
<1> HIDE DEF free, fd
<1>4. proc[p].name \in Names /\ Matching(proc[p].name) = {} /\ proc[p].cmd # "delete"
  BY <1>1 DEF Knows
<1>5. proc[p].pc \notin Unsaved \cup Moving
  BY <1>1 DEF Unsaved, Writing, Moving
<1>6. CASE End(p) /\ UNCHANGED filetab
  <2>1. proc'[p].pc = "idle"
    BY <1>1, <1>6, Ends
  <2>2. Knows(p)' /\ proc'[p].pc \notin Unsaved \cup Moving
    BY <2>1 DEF Knows, HasEntry, Writing, Unsaved, Moving
  <2> QED BY <1>2, <1>5, <1>6, <2>2, ReadsAside DEF Used
<1>7. CASE /\ free # {} /\ filetab' = [filetab EXCEPT ![fd] = both]
           /\ proc' = [proc EXCEPT ![p].fd = fd, ![p].pc = "getblock"]
  <2>1. fd \in Fds /\ filetab[fd].state = {} /\ filetab[fd] \in Filenode
    BY <1>1, <1>3, <1>7
  <2>2. /\ both.state = {"USED", "OPEN"} /\ both.name = proc[p].name
        /\ both.length = 0 /\ both.cursor = 0
    <3>1. new.name = proc[p].name /\ new.length = 0 /\ new.cursor = 0 /\ DOMAIN new = DOMAIN filetab[fd]
      BY <2>1 DEF Filenode
    <3>2. DOMAIN new = {"state", "name", "length", "cursor", "blocknum", "data"}
      BY <2>1, <3>1 DEF Filenode
    <3> HIDE DEF new
    <3> QED BY <3>1, <3>2
  <2> HIDE DEF both
  <2>3. filetab'[fd] = both /\ (\A g \in Fds : g # fd => filetab'[g] = filetab[g])
    BY <1>1, <1>7, <2>1, SetEntry
  <2>4. /\ proc'[p].pc = "getblock" /\ proc'[p].fd = fd /\ proc'[p].name = proc[p].name
        /\ proc'[p].cmd = proc[p].cmd
    BY <1>1, <1>7 DEF Proc
  <2>5. Owners' = Owners
    <3>1. fd \notin Owners /\ fd \notin Owners'
      BY <2>1, <2>4, OneShell DEF Owners, Used
    <3>2. \A x \in Fds \ {fd} : x \in Owners' <=> x \in Owners
      BY <1>1, <2>3, <2>4, OneShell DEF Owners, Used
    <3> QED BY <3>1, <3>2 DEF Owners
  <2>6. Ready' = Ready /\ fd \notin Ready /\ Ready \subseteq Fds
    <3>1. fd \notin Owners /\ Owners \subseteq Fds
      BY <2>1 DEF Owners, Used
    <3> QED BY <1>1, <2>4, <2>5, <3>1, OneShell DEF Ready, Unsaved, Writing
  <2>7. StoreStays
    <3>1. call[p].pc = "idle"
      BY <1>1 DEF CommandOK, Calling
    <3>2. ~ Freed(p) /\ ~ Freed(p)'
      BY <1>1, <1>2, <2>4, <3>1 DEF Freed, At, HalfLinked, Linking
    <3>3. DiskFiles' = DiskFiles
      BY <1>2, <3>2, DiskFilesStay
    <3> QED BY <1>2, <2>6, <3>3 DEF StoreStays
  <2>8. Named /\ NamedOnDisk /\ Whole
    BY DEF Reads
  <2>9. NamedOnDisk'
    BY <1>2, <2>8 DEF NamedOnDisk
  <2>10. Named'
    <3>1. \A x \in Fds : Used(x) => x # fd /\ filetab[x].name # proc[p].name
      BY <1>4, <2>1 DEF Matching, Used
    <3>2. \A x \in Fds : Used(x)' <=> x = fd \/ Used(x)
      BY <2>1, <2>2, <2>3 DEF Used
    <3> QED BY <1>4, <2>2, <2>3, <2>8, <3>1, <3>2 DEF Named
  <2>11. Whole'
    BY <2>3, <2>6, <2>7, <2>8, WholeStays
  <2>12. Knows(p)'
    BY <1>4, <2>2, <2>3, <2>4 DEF Knows, HasEntry, Writing
  <2> QED BY <2>7, <2>9, <2>10, <2>11, <2>12, OneReader DEF Reads
<1> QED BY <1>2, <1>6, <1>7

LEMMA CreateGetReads ==
  ASSUME FilesInv, FilesInv', Reads, Solo, NEW p \in Procs, fileCreateGet(p)
  PROVE  Reads' /\ StoreStays
<1>1. proc[p].pc = "getblock" /\ UNCHANGED <<filetab, ddir, dfile, proc>>
  BY DEF fileCreateGet, At, dirvars
<1>2. ~ Freed(p) /\ ~ Freed(p)'
  <2>1. (CommandOK(p) /\ CommandOK(p)') /\ Knows(p)
    BY DEF FilesInv, Reads
  <2> QED BY <1>1, <2>1 DEF Freed, At, Knows
<1>3. DiskFiles' = DiskFiles
  BY <1>1, <1>2, DiskFilesStay
<1>4. Ready' = Ready /\ Owners' = Owners
  BY <1>1, OneShell DEF Owners, Used, Ready
<1>5. StoreStays
  BY <1>1, <1>3, <1>4 DEF StoreStays
<1>6. Named /\ NamedOnDisk /\ Whole /\ Knows(p)
  BY DEF Reads
<1>7. Named' /\ NamedOnDisk' /\ Whole'
  BY <1>1, <1>5, <1>6, NamedStays, WholeStays DEF Used, NamedOnDisk
<1>8. Knows(p)'
  BY <1>1, <1>6 DEF Knows, HasEntry
<1> QED BY <1>5, <1>7, <1>8, OneReader DEF Reads

LEMMA CreateGotReads ==
  ASSUME FilesInv, FilesInv', Reads, Solo, NEW p \in Procs, fileCreateGot(p)
  PROVE  Reads' /\ StoreStays
<1> DEFINE fd == proc[p].fd
           b  == call[p].arg
           e  == [filetab[fd] EXCEPT !.blocknum = b]
<1>1. /\ proc[p].pc = "getblock" /\ CommandOK(p) /\ Knows(p)
      /\ fd \in Fds /\ Used(fd) /\ filetab[fd] \in Filenode
      /\ proc \in [Procs -> Proc] /\ filetab \in [Fds -> Filenode]
      /\ proc[p].cmd # "delete"
  BY Alone DEF fileCreateGot, At, CommandOK, HasEntry, FilesTyped, Reads, Knows
<1>2. /\ filetab' = [filetab EXCEPT ![fd].blocknum = b]
      /\ IF b = SYSERR THEN End(p) ELSE Go(p, "put")
      /\ UNCHANGED <<ddir, dfile>>
  BY DEF fileCreateGot, MyFd
<1> HIDE DEF b
<1>3. /\ e.state = filetab[fd].state /\ e.blocknum = b /\ e.name = filetab[fd].name
      /\ e.cursor = filetab[fd].cursor /\ e.length = filetab[fd].length
      /\ e.data = filetab[fd].data
  BY <1>1 DEF Filenode
<1>4. filetab' = [filetab EXCEPT ![fd] = e]
  BY <1>2, Zenon
<1> HIDE DEF e
<1>5. filetab'[fd] = e /\ (\A g \in Fds : g # fd => filetab'[g] = filetab[g])
  BY <1>1, <1>4, SetEntry
<1>6. /\ IF b = SYSERR THEN proc'[p].pc = "idle"
         ELSE proc'[p].pc = "put" /\ proc'[p].fd = fd /\ proc'[p].name = proc[p].name
      /\ proc'[p].cmd # "delete"
  <2>1. NoCommand.cmd # "delete"
    BY DEF NoCommand
  <2> QED BY <1>1, <1>2, <2>1, Ends, Goes
<1>7. /\ \A x \in Fds : x # fd => (x \in Owners' <=> x \in Owners)
      /\ fd \notin Owners /\ (fd \in Owners' <=> b # SYSERR)
  BY <1>1, <1>3, <1>5, <1>6, OneShell DEF Owners, Used
<1>8. Ready' = Ready /\ fd \notin Ready /\ Ready \subseteq Fds
  <2>1. Owners \subseteq Fds /\ Owners' \subseteq Fds
    BY DEF Owners
  <2>2. \A x \in Fds : x \in Ready' <=> x \in Ready
    BY <1>1, <1>6, <1>7, OneShell DEF Ready, Unsaved, Writing
  <2> QED BY <1>7, <2>1, <2>2 DEF Ready
<1>9. StoreStays
  <2>1. ~ Freed(p) /\ ~ Freed(p)'
    BY <1>1, <1>6 DEF Freed
  <2>2. DiskFiles' = DiskFiles
    BY <1>2, <2>1, DiskFilesStay
  <2> QED BY <1>2, <1>8, <2>2 DEF StoreStays
<1>10. Named /\ NamedOnDisk /\ Whole
  BY DEF Reads
<1>11. Named' /\ NamedOnDisk'
  <2>1. \A x \in Fds : Used(x)' => Used(x) /\ filetab'[x].name = filetab[x].name
    BY <1>1, <1>3, <1>5 DEF Used
  <2> QED BY <1>2, <1>10, <2>1, NamedStays DEF NamedOnDisk
<1>12. Whole'
  BY <1>5, <1>8, <1>9, <1>10, WholeStays
<1>13. Knows(p)'
  <2>1. /\ proc[p].name \in Names /\ filetab[fd].name = proc[p].name
        /\ filetab[fd].length = 0 /\ filetab[fd].cursor = 0
    BY <1>1 DEF Knows, HasEntry
  <2>2. \A bytes : OwnBytes(bytes, e)
    <3>1. 1 .. 0 = {}
      OBVIOUS
    <3> QED BY <1>3, <2>1, <3>1 DEF OwnBytes
  <2> QED BY <1>3, <1>5, <1>6, <2>1, <2>2 DEF Knows, HasEntry, Writing
<1> QED BY <1>9, <1>11, <1>12, <1>13, OneReader DEF Reads

\* What fileDelete() does to the files: one is not Ready any more, and a restart
\* would still find it.
LEMMA DeleteReads ==
  ASSUME FilesInv, FilesInv', Reads, Solo, NEW p \in Procs, fileDelete(p)
  PROVE  /\ Reads' /\ Ready' = Ready \ {proc[p].fd} /\ DiskFiles' = DiskFiles
         /\ UNCHANGED <<ddir, dfile>>
<1> DEFINE fd == proc[p].fd
           b  == filetab[fd].blocknum
           e  == [FreeEntry EXCEPT !.blocknum = b]
<1>1. /\ proc[p].pc = "delete" /\ CommandOK(p) /\ Knows(p) /\ fd \in Fds /\ Used(fd)
      /\ proc \in [Procs -> Proc] /\ filetab \in [Fds -> Filenode]
  BY Alone DEF fileDelete, At, CommandOK, HasEntry, FilesTyped, Reads
<1>2. /\ filetab' = [filetab EXCEPT ![fd] = e] /\ Go(p, "freeblock")
      /\ UNCHANGED <<ddir, dfile>>
  BY DEF fileDelete, MyFd, Entry
<1>3. DiskFiles' = DiskFiles
  BY <1>2, DeleteKeeps, DiskFilesStay
<1>4. e.state = {}
  BY NoCommandIs DEF FreeEntry
<1> HIDE DEF e
<1>5. filetab'[fd] = e /\ (\A g \in Fds : g # fd => filetab'[g] = filetab[g])
  BY <1>1, <1>2, SetEntry
<1>6. proc'[p].pc = "freeblock" /\ proc'[p].fd = fd /\ proc'[p].name = proc[p].name
  BY <1>1, <1>2, Goes
<1>7. Owners' = Owners \ {fd}
  <2>1. \A x \in Fds : x \in Owners' <=> x \in Owners /\ x # fd
    BY <1>1, <1>4, <1>5, <1>6, OneShell DEF Owners, Used
  <2>2. Owners \subseteq Fds /\ Owners' \subseteq Fds
    BY DEF Owners
  <2> QED BY <2>1, <2>2
<1>8. Ready' = Ready \ {fd} /\ Ready \subseteq Fds
  <2>1. \A x : ~ Making(x) /\ ~ Making(x)'
    BY <1>1, <1>6, OneShell DEF Unsaved, Writing
  <2>2. Ready = Owners /\ Ready' = Owners' /\ Owners \subseteq Fds
    BY <2>1 DEF Ready, Owners
  <2> QED BY <1>7, <2>2
<1>9. Named /\ NamedOnDisk /\ Whole
  BY DEF Reads
<1>10. Named' /\ NamedOnDisk'
  <2>1. \A x \in Fds : Used(x)' => Used(x) /\ filetab'[x].name = filetab[x].name
    BY <1>4, <1>5 DEF Used
  <2> QED BY <1>2, <1>9, <2>1, NamedStays DEF NamedOnDisk
<1>11. Whole'
  <2>1. \A x \in Ready' : x \in Ready /\ filetab'[x] = filetab[x]
    BY <1>5, <1>8
  <2> QED BY <1>2, <1>3, <1>9, <2>1 DEF Whole, OwnBytes
<1>12. Knows(p)'
  BY <1>1, <1>6 DEF Knows, HasEntry, Writing
<1> QED BY <1>2, <1>3, <1>8, <1>10, <1>11, <1>12, OneReader DEF Reads

\* A block that could not be freed is lost, with what the directory has of it.
LEMMA DeleteFreedReads ==
  ASSUME FilesInv, FilesInv', Reads, Solo, NEW p \in Procs, fileDeleteFreed(p)
  PROVE  Reads' /\ StoreStays
<1> DEFINE fd == proc[p].fd
<1>1. /\ proc[p].pc = "freeblock" /\ call[p].pc = "done" /\ CommandOK(p) /\ Knows(p)
      /\ proc \in [Procs -> Proc] /\ proc[p].cmd = "delete"
  BY Alone DEF fileDeleteFreed, At, FilesTyped, Reads, CommandOK
<1>2. /\ call' = [call EXCEPT ![p] = Idle] /\ UNCHANGED <<memvars, freelock, diskvars>>
      /\ IF call[p].arg = 0 THEN Go(p, "dirseek") ELSE End(p)
      /\ UNCHANGED <<filetab, ddir, dfile>>
  BY DEF fileDeleteFreed
<1>3. call'[p].pc = "idle"
  BY <1>1, <1>2, CallEnds
<1>4. IF call[p].arg = 0
      THEN /\ proc'[p].pc = "dirseek" /\ proc'[p].fd = fd /\ proc'[p].name = proc[p].name
           /\ proc'[p].cmd = "delete"
      ELSE proc'[p].pc = "idle"
  BY <1>1, <1>2, Ends, Goes
<1>5. Owners' = Owners /\ Ready' = Ready
  <2>1. Owners' = Owners
    BY <1>1, <1>2, <1>4, OneShell DEF Owners, Used
  <2>2. \A x : ~ Making(x) /\ ~ Making(x)'
    BY <1>1, <1>4, OneShell DEF Unsaved, Writing
  <2> QED BY <2>1, <2>2 DEF Ready, Owners
<1>6. StoreStays
  <2>1. /\ Freed(p) <=> call[p].arg = 0
        /\ Freed(p)' <=> call[p].arg = 0
    BY <1>1, <1>3, <1>4 DEF Freed, At, HalfLinked, Linking
  <2>2. DiskFiles' = DiskFiles
    BY <1>2, <1>4, <2>1, DiskFilesStay
  <2> QED BY <1>2, <1>5, <2>2 DEF StoreStays
<1>7. Named /\ NamedOnDisk /\ Whole
  BY DEF Reads
<1>8. Named' /\ NamedOnDisk' /\ Whole'
  BY <1>2, <1>6, <1>7, NamedStays, WholeStays DEF Used, NamedOnDisk
<1>9. Knows(p)'
  BY <1>1, <1>4 DEF Knows, HasEntry, Writing
<1> QED BY <1>6, <1>8, <1>9, OneReader DEF Reads

\* What the end of fileClose() and of fileDelete() does to the files: a restart
\* would find those that are in memory, and every one is Ready.
LEMMA DirWriteReads ==
  ASSUME FilesInv, FilesInv', Reads, Solo, MayFail = FALSE, NEW p \in Procs, DirWrite(p)
  PROVE  /\ Reads' /\ Ready' = Owners /\ DiskFiles' = Owners
         /\ Owners \subseteq Ready \cup {proc[p].fd} /\ proc[p].fd \notin Ready
         /\ UNCHANGED <<filetab, dfile>> /\ ddir' = Stored
         /\ proc[p].fd \in Owners =>
               OwnBytes(dfile[filetab[proc[p].fd].blocknum], filetab[proc[p].fd])
<1> DEFINE fd == proc[p].fd
<1>1. /\ proc[p].pc = "dirwrite" /\ proc[p].pc \notin Calling /\ proc \in [Procs -> Proc]
      /\ CommandOK(p) /\ Knows(p) /\ call[p].pc = "idle"
  BY Alone DEF DirWrite, At, Calling, FilesTyped, Reads
<1>2. SUPER \notin swz /\ pos = DIRBLOCK
  BY <1>1, Alone DEF CommandOK
<1>3. End(p) /\ Store(JunkBlock, Stored) /\ UNCHANGED <<filetab, call>>
  BY <1>2 DEF DirWrite
<1>4. ddir' = Stored /\ UNCHANGED dfile
  BY <1>2, <1>3 DEF Store, DIRBLOCK, Blocks, SUPERBLOCKNUM
<1>5. proc'[p].pc = "idle"
  BY <1>1, <1>3, Ends
<1>6. Owners' = Owners
  BY <1>1, <1>3, <1>5, OneShell DEF Owners, Used
<1>7. Ready' = Owners
  <2>1. \A x : ~ Making(x)'
    BY <1>5, OneShell DEF Unsaved, Writing
  <2> QED BY <1>6, <2>1 DEF Ready
<1>8. fd \notin Ready /\ Owners \subseteq Ready \cup {fd}
  <2>1. \A x : Making(x) <=> x = fd
    BY <1>1, OneShell DEF Unsaved, Writing
  <2> QED BY <2>1 DEF Ready
<1>9. fd \in Owners => /\ OwnBytes(dfile[filetab[fd].blocknum], filetab[fd])
                       /\ "OPEN" \notin filetab[fd].state
  BY <1>1 DEF Knows, Owners
<1>10. \A x \in Fds : /\ ddir'[x].state # {} <=> Used(x)
                      /\ ddir'[x].name = filetab[x].name /\ ddir'[x].length = filetab[x].length
                      /\ ddir'[x].blocknum = filetab[x].blocknum
  BY <1>4 DEF Stored, Used
<1>11. DiskFiles' = Owners
  <2>1. ~ Freed(p)'
    BY <1>1, <1>3, <1>5 DEF Freed, At, HalfLinked, Linking
  <2>2. DiskFiles' = {x \in Fds : ddir'[x].state # {} /\ ddir'[x].blocknum # SYSERR}
    BY <2>1, OnDiskAreNext DEF FilesInv
  <2> QED BY <1>1, <1>10, <2>2, OneShell DEF Owners
<1>12. Named' /\ NamedOnDisk'
  BY <1>3, <1>10, NamedStays DEF Used, Reads, Named, NamedOnDisk
<1>13. \A x \in Owners : OwnBytes(dfile'[ddir'[x].blocknum], ddir'[x])
  <2> SUFFICES ASSUME NEW x \in Owners PROVE OwnBytes(dfile[filetab[x].blocknum], filetab[x])
    BY <1>4, <1>10, SameBytes DEF Owners
  <2>1. CASE x \in Ready
    <3>1. /\ x \in DiskFiles /\ filetab[x].name = ddir[x].name
          /\ filetab[x].length = ddir[x].length /\ filetab[x].blocknum = ddir[x].blocknum
      BY <2>1, ReadyOnDisk
    <3>2. OwnBytes(dfile[filetab[x].blocknum], ddir[x])
      BY <3>1 DEF Reads, Whole
    <3> QED BY <3>1, <3>2, SameBytes
  <2> QED BY <1>8, <1>9, <2>1
<1>14. Whole'
  BY <1>3, <1>7, <1>8, <1>9, <1>11, <1>13 DEF Whole, Reads
<1>15. Knows(p)'
  BY <1>5 DEF Knows, HasEntry, Writing
<1> QED BY <1>3, <1>4, <1>7, <1>8, <1>9, <1>11, <1>12, <1>14, <1>15, OneReader DEF Reads

\* A step of the free list leaves the files alone, or links the block of the one
\* that fileDelete() has taken from memory: a restart would not find that any more.
LEMMA ListStepReads ==
  ASSUME FilesInv, FilesInv', Found, Reads, Solo, MayFail = FALSE, DirtyMalloc = FALSE,
         NEW p \in Procs, ListStep(p)
  PROVE  /\ Reads' /\ UNCHANGED ddir /\ Ready' = Ready
         /\ \A x \in DiskFiles' : dfile'[ddir[x].blocknum] = dfile[ddir[x].blocknum]
         /\ \/ DiskFiles' = DiskFiles
            \/ /\ DiskFiles' = DiskFiles \ {proc[p].fd}
               /\ proc[p].fd \in DiskFiles /\ proc[p].fd \notin Ready
<1> DEFINE fd == proc[p].fd
<1>1. /\ UNCHANGED ddir /\ call[p].pc # "idle"
      /\ \A b \in Taken : dfile'[b] = dfile[b]
      /\ Freed(p) => Freed(p)'
      /\ write(p) /\ call[p].op = "free" => Freed(p)'
  BY ListStepKeeps
<1>2. UNCHANGED <<filetab, proc>> /\ (write(p) \/ UNCHANGED dfile)
  BY DEF ListStep, dirvars
<1>3. CommandOK(p) /\ CommandOK(p)' /\ Knows(p)
  BY DEF FilesInv, Reads
<1>4. proc[p].pc \in Calling /\ (proc[p].pc = "freeblock" => call[p].op = "free" /\ ~ Used(fd))
  BY <1>1, <1>3 DEF CommandOK, Used
<1>5. Owners' = Owners /\ Ready' = Ready /\ Ready \subseteq Owners
  BY <1>2, OneShell DEF Owners, Used, Ready
<1>6. /\ DiskFiles = {x \in Fds : /\ ddir[x].state # {} /\ ddir[x].blocknum # SYSERR
                                  /\ ~ (Freed(p) /\ proc[p].fd = x)}
      /\ DiskFiles' = {x \in Fds : /\ ddir'[x].state # {} /\ ddir'[x].blocknum # SYSERR
                                   /\ ~ (Freed(p)' /\ proc'[p].fd = x)}
  BY OnDiskAre, OnDiskAreNext DEF FilesInv
<1>7. \/ DiskFiles' = DiskFiles
      \/ DiskFiles' = DiskFiles \ {fd} /\ fd \in DiskFiles /\ fd \notin Ready
  <2>1. CASE Freed(p)' <=> Freed(p)
    BY <1>1, <1>2, <1>6, <2>1
  <2>2. CASE Freed(p)' /\ ~ Freed(p)
    <3>1. proc[p].cmd = "delete"
      BY <1>2, <2>2 DEF Freed
    <3>2. proc[p].pc = "freeblock"
      BY <1>3, <1>4, <3>1 DEF Knows, Calling
    <3>3. fd \notin Ready
      BY <1>4, <3>2 DEF Ready, Owners
    <3>4. DiskFiles' = DiskFiles \ {fd}
      BY <1>1, <1>2, <1>6, <2>2
    <3> QED BY <3>3, <3>4
  <2> QED BY <1>1, <2>1, <2>2
<1>8. \A x \in DiskFiles' : x \in DiskFiles /\ dfile'[ddir[x].blocknum] = dfile[ddir[x].blocknum]
  <2> SUFFICES ASSUME NEW x \in DiskFiles'
               PROVE  x \in DiskFiles /\ dfile'[ddir[x].blocknum] = dfile[ddir[x].blocknum]
    OBVIOUS
  <2>1. x \in DiskFiles /\ ~ (Freed(p)' /\ fd = x)
    BY <1>2, <1>6, <1>7
  <2>2. CASE x \in Ready \/ Loose(x)
    <3>1. ddir[x].blocknum \in Taken
      BY <2>2, ReadyOnDisk DEF Loose
    <3> QED BY <1>1, <2>1, <3>1
  <2>3. CASE Leaving(x)
    <3>1. proc[p].pc = "freeblock" /\ fd = x
      BY <2>3, OneLeaves
    <3>2. ~ write(p)
      BY <1>1, <1>4, <2>1, <3>1
    <3> QED BY <1>2, <2>1, <3>2
  <2> QED BY <2>1, <2>2, <2>3 DEF Found
<1>9. Named /\ NamedOnDisk /\ Whole
  BY DEF Reads
<1>10. Named' /\ NamedOnDisk'
  BY <1>1, <1>2, <1>9, NamedStays DEF Used, NamedOnDisk
<1>11. Whole'
  BY <1>1, <1>2, <1>5, <1>8, <1>9 DEF Whole, OwnBytes
<1>12. Knows(p)'
  BY <1>2, <1>3, <1>4 DEF Knows, HasEntry, Writing, Calling
<1> QED BY <1>1, <1>5, <1>7, <1>8, <1>10, <1>11, <1>12, OneReader DEF Reads

\* A restart finds what it would have found before, and every file is Ready.
LEMMA RestartReads ==
  ASSUME FilesInv, Found, Reads, Solo, Restart
  PROVE  /\ Reads' /\ UNCHANGED <<ddir, dfile>>
         /\ DiskFiles' = DiskFiles /\ Ready' = DiskFiles
<1>1. FilesTyped /\ NamedOnDisk /\ Whole
  BY DEF FilesInv, Reads
<1>2. DiskFiles' = DiskFiles /\ Ready' = DiskFiles
  BY RestartKeepsFiles
<1>3. /\ proc' = [p \in Procs |-> NoCommand]
      /\ filetab' = [fd \in Fds |-> Loaded(ddir[fd])] /\ UNCHANGED <<ddir, dfile>>
  BY DEF Restart
<1>4. \A p \in Procs : proc'[p].pc = "idle"
  BY <1>3, NoCommandIs
<1>5. \A fd \in Fds : /\ filetab'[fd].state = ddir[fd].state /\ filetab'[fd].name = ddir[fd].name
                      /\ ddir[fd].state \in SUBSET {"USED"}
  BY <1>1, <1>3 DEF Loaded, FilesTyped, Dirent
<1>6. Named' /\ NamedOnDisk'
  BY <1>1, <1>3, <1>5 DEF Named, NamedOnDisk, Used
<1>7. \A fd \in Fds : "OPEN" \notin filetab'[fd].state
  BY <1>5
<1>8. Whole'
  <2>1. DiskFiles \subseteq Fds
    BY DEF DiskFiles
  <2> QED BY <1>1, <1>2, <1>3, <1>7, <2>1 DEF Whole, OwnBytes
<1>9. \A p \in Procs : Knows(p)'
  BY <1>4 DEF Knows, HasEntry, Writing
<1> QED BY <1>2, <1>3, <1>6, <1>8, <1>9 DEF Reads

LEMMA ReadsStart == ASSUME FInit PROVE Reads
<1>1. /\ filetab = [fd \in Fds |-> FreeEntry] /\ ddir = Stored
      /\ proc = [p \in Procs |-> NoCommand]
  BY DEF FInit
<1>2. \A fd \in Fds : ~ Used(fd) /\ ddir[fd].state = {}
  BY <1>1, NoCommandIs DEF Used, Stored
<1>3. Named /\ NamedOnDisk /\ Whole
  BY <1>2 DEF Named, NamedOnDisk, Whole, Ready, Owners, DiskFiles
<1>4. \A p \in Procs : Knows(p)
  BY <1>1, NoCommandIs DEF Knows, HasEntry, Writing
<1> QED BY <1>3, <1>4 DEF Reads

LEMMA ReadsStutter ==
  ASSUME FilesInv, FilesInv', Reads, Solo, UNCHANGED vars
  PROVE  Reads' /\ StoreStays
<1>1. UNCHANGED <<node, call, filetab, ddir, dfile, proc>>
  BY DEF vars, flvars
<1>2. PICK p \in Procs : TRUE
  BY FileAssumption
<1>3. Freed(p)' <=> Freed(p)
  BY <1>1 DEF Freed, At, HalfLinked, Linking, Target
<1>4. DiskFiles' = DiskFiles
  BY <1>1, <1>3, DiskFilesStay
<1>5. Owners' = Owners /\ Ready' = Ready
  BY <1>1 DEF Owners, Used, Creating, At, MyFd, Ready, Making
<1>6. StoreStays
  BY <1>1, <1>4, <1>5 DEF StoreStays
<1>7. Named /\ NamedOnDisk /\ Whole /\ \A q \in Procs : Knows(q)
  BY DEF Reads
<1>8. Named' /\ NamedOnDisk' /\ Whole'
  BY <1>1, <1>6, <1>7, NamedStays, WholeStays DEF Used, NamedOnDisk
<1>9. \A q \in Procs : Knows(q)'
  BY <1>1, <1>5, <1>7 DEF Knows, Used, Matching
<1> QED BY <1>6, <1>8, <1>9 DEF Reads

\* Every step but four leaves alone what a restart would find.
LEMMA ReadsSteps ==
  ASSUME FilesInv, FilesInv', Found, Reads, Solo, MayFail = FALSE, DirtyMalloc = FALSE,
         MemoryFull = FALSE, [Next]_vars
  PROVE  \/ Reads' /\ StoreStays
         \/ Restart \/ \E p \in Procs : fileDelete(p) \/ DirWrite(p) \/ ListStep(p)
<1>1. CASE UNCHANGED vars
  BY <1>1, ReadsStutter
<1>2. ASSUME NEW p \in Procs, Command(p) \/ DiskStep(p) \/ Compute(p) \/ Lock(p)
      PROVE  (Reads' /\ StoreStays) \/ fileDelete(p) \/ DirWrite(p)
  <2>1. CASE Command(p)
    BY <2>1, CommandReads
  <2>2. CASE DiskStep(p)
    BY <2>2, OpenReadReads, CloseWriteReads, DirSeekReads DEF DiskStep
  <2>3. CASE Compute(p)
    BY <2>3, OpenReads, SeekFileReads, GetCharReads, PutCharReads, TildeReads, CreateGetReads,
       CreateGotReads, CloseReads, DeleteFreedReads DEF Compute
  <2>4. CASE Lock(p)
    BY <2>4, CreateReads, DirSeekReads DEF Lock
  <2> QED BY <1>2, <2>1, <2>2, <2>3, <2>4
<1> QED BY <1>1, <1>2 DEF Next

THEOREM ReadsInvariance ==
  ASSUME Solo, MayFail = FALSE, DirtyMalloc = FALSE, MemoryFull = FALSE
  PROVE  Spec => []Reads
<1>1. FInit => Reads
  BY ReadsStart
<1>2. FilesInv /\ FilesInv' /\ Found /\ Reads /\ [Next]_vars => Reads'
  BY ReadsSteps, DeleteReads, DirWriteReads, ListStepReads, RestartReads
<1> QED BY <1>1, <1>2, FilesInvariance, PTL DEF Spec
-----------------------------------------------------------------------------
(* What a restart would find.                                              *)

\* A file on disk is the one in memory exactly when it is Ready.
LEMMA SameIsReady ==
  ASSUME FilesInv, Found, Solo, NEW fd \in DiskFiles
  PROVE  Same(fd) <=> fd \in Ready
<1>1. PICK p \in Procs : TRUE
  BY FileAssumption
<1>2. CASE fd \in Ready
  BY <1>1, <1>2, ReadyOnDisk DEF Same, Owners
<1>3. ASSUME Same(fd) PROVE fd \in Ready
  <2>1. fd \in Fds /\ ddir[fd].blocknum # SYSERR
    BY DEF DiskFiles
  <2>2. Used(fd) /\ ~ Creating(fd) /\ filetab[fd].blocknum = ddir[fd].blocknum
    BY <1>3 DEF Same
  <2>3. fd \in Owners
    BY <2>1, <2>2 DEF Owners
  <2>4. ~ Loose(fd)
    BY <2>2, <2>3 DEF Loose
  <2>5. ~ Leaving(fd)
    <3> SUFFICES ASSUME NEW q \in Procs, proc[q].pc = "freeblock", MyFd(q) = fd PROVE FALSE
      BY DEF Leaving
    <3>1. CommandOK(q)
      BY DEF FilesInv
    <3>2. filetab[fd].state = {}
      BY <3>1 DEF CommandOK, MyFd
    <3> QED BY <2>2, <3>2 DEF Used
  <2> QED BY <2>4, <2>5 DEF Found
<1> QED BY <1>2, <1>3

\* The bytes of a file on disk, as OnDisk() has them.
Content(fd) == SubSeq(dfile[ddir[fd].blocknum], 1, ddir[fd].length)

\* They are what was written to it, and all of it.
LEMMA TheBytes ==
  ASSUME FilesInv, Found, Whole, NEW fd \in DiskFiles
  PROVE  Content(fd) \in [1 .. ddir[fd].length -> {ddir[fd].name}] /\ ddir[fd].length \in Length
<1> DEFINE b == dfile[ddir[fd].blocknum]
           n == ddir[fd].length
<1>1. fd \in Fds /\ FilesTyped
  BY DEF FilesInv, DiskFiles
<1>2. ddir[fd].blocknum \in Blocks
  <2>1. CASE fd \in Ready
    <3>1. ddir[fd] = Stored[fd] /\ filetab[fd].blocknum \in Taken
      BY <2>1 DEF FilesInv, Saved, Owning, Ready
    <3> QED BY <1>1, <3>1 DEF Stored, Taken
  <2>2. CASE Leaving(fd)
    BY <2>2, LeavingBlock DEF Leaving
  <2>3. CASE Loose(fd)
    BY <2>3 DEF Loose, Taken
  <2> QED BY <2>1, <2>2, <2>3 DEF Found
<1>3. b \in Bytes /\ n \in Length
  BY <1>1, <1>2 DEF FilesTyped, Dirent
<1>4. n \in Nat /\ n <= DISKBLOCKLEN
  BY <1>3, FileAssumption DEF Length
<1>5. \A i \in 1 .. n : b[i] \in {ddir[fd].name}
  BY DEF Whole, OwnBytes
<1> HIDE DEF b, n
<1>6. /\ SubSeq(b, 1, n) \in Seq({ddir[fd].name})
      /\ Len(SubSeq(b, 1, n)) = IF 1 <= n THEN n - 1 + 1 ELSE 0
  BY <1>4, <1>5, SubSeqProperties
<1>7. Content(fd) = SubSeq(b, 1, n)
  BY DEF Content, b, n
<1>8. Len(Content(fd)) = n /\ Content(fd) \in Seq({ddir[fd].name})
  BY <1>4, <1>6, <1>7
<1> QED BY <1>3, <1>8 DEF n

\* Everything a restart would find: each file under its name, with its bytes, and
\* those that are deleted.
Shows ==
    /\ \A fd \in DiskFiles : /\ ddir[fd].name \in Names
                             /\ Content(fd) \in Files!Own(ddir[fd].name)
                             /\ OnDisk(ddir[fd].name) = Content(fd)
    /\ \A a, b \in DiskFiles : ddir[a].name = ddir[b].name => a = b
    /\ \A n : (\A fd \in DiskFiles : ddir[fd].name # n) => OnDisk(n) = Absent
    /\ Ready \subseteq DiskFiles
    /\ Deleted = {n \in Names : \E fd \in DiskFiles : ddir[fd].name = n /\ fd \notin Ready}

LEMMA FilesShow ==
  ASSUME FilesInv, Found, Reads, Solo
  PROVE  Shows
<1>1. PICK p \in Procs : TRUE
  BY FileAssumption
<1>2. /\ DiskFiles \subseteq Fds /\ Ready \subseteq DiskFiles
      /\ \A fd \in DiskFiles : ddir[fd].name \in Names
      /\ \A a, b \in DiskFiles : ddir[a].name = ddir[b].name => a = b
  BY <1>1, ReadyOnDisk DEF DiskFiles, Reads, NamedOnDisk
<1>3. ASSUME NEW n, \A fd \in DiskFiles : ddir[fd].name # n
      PROVE  OnDisk(n) = Absent
  <2>1. {fd \in DiskFiles : ddir[fd].name = n} = {}
    BY <1>3
  <2> QED BY <2>1 DEF OnDisk
<1>4. ASSUME NEW fd \in DiskFiles
      PROVE  Content(fd) \in Files!Own(ddir[fd].name) /\ OnDisk(ddir[fd].name) = Content(fd)
  <2> DEFINE fds == {x \in DiskFiles : ddir[x].name = ddir[fd].name}
  <2>1. fds = {fd}
    BY <1>2
  <2>2. Min(fds) = fd /\ fds # {}
    <3>1. fds \in SUBSET Fds
      BY <1>2
    <3> HIDE DEF fds
    <3> QED BY <2>1, <3>1, LeastIn
  <2>3. OnDisk(ddir[fd].name) = Content(fd)
    BY <2>2, Zenon DEF OnDisk, Content
  <2>4. Content(fd) \in [1 .. ddir[fd].length -> {ddir[fd].name}] /\ ddir[fd].length \in Length
    BY TheBytes DEF Reads
  <2> QED BY <2>3, <2>4 DEF Files!Own, Length
<1>5. Deleted = {n \in Names : \E fd \in DiskFiles : ddir[fd].name = n /\ fd \notin Ready}
  BY SameIsReady DEF Deleted
<1> QED BY <1>2, <1>3, <1>4, <1>5 DEF Shows

\* What belongs to a file is something.
LEMMA OwnIsNotAbsent == \A n \in Names : Absent \notin Files!Own(n)
BY JunkAssumption DEF Files!Own, Absent

-----------------------------------------------------------------------------
(* Reading back.                                                           *)

\* At the end of cat: what the disk has of the file is what was read.
LEMMA ReadsAtEnd ==
  ASSUME FilesInv, Found, Reads, Solo
  PROVE  ReadsBack
<1> SUFFICES ASSUME NEW p \in Procs, At(p, "get"), AtEnd(p), MyFd(p) \in DiskFiles, Same(MyFd(p))
             PROVE  proc[p].seen = OnDisk(proc[p].name)
  BY DEF ReadsBack
<1> DEFINE fd   == proc[p].fd
           n    == proc[p].name
           e    == filetab[fd]
           seen == proc[p].seen
<1>1. /\ fd \in Fds /\ Used(fd) /\ "OPEN" \in e.state /\ e.name = n
      /\ Len(seen) = e.cursor /\ \A i \in 1 .. e.cursor : seen[i] = e.data[i]
  BY DEF At, FilesInv, CommandOK, Reads, Knows, HasEntry
<1>2. e.cursor \in Nat /\ e.length \in Nat /\ e.cursor = e.length
  <2>1. e \in Filenode /\ e.cursor <= e.length
    BY <1>1 DEF FilesInv, FilesTyped
  <2>2. e.cursor \in Nat /\ e.length \in Nat
    BY <2>1, FileAssumption DEF Filenode, Length
  <2>3. e.cursor >= e.length
    BY <1>1 DEF AtEnd, MyFd, Entry, Vacant
  <2> QED BY <2>1, <2>2, <2>3
<1>3. fd \in DiskFiles /\ fd \in Ready
  BY SameIsReady DEF MyFd
<1>4. ddir[fd].name = n /\ ddir[fd].length = e.length
  BY <1>1, <1>3, ReadyOnDisk
<1>5. OwnBytes(e.data, e)
  BY <1>1, <1>3 DEF Reads, Whole
<1>6. OnDisk(n) = Content(fd)
  BY <1>3, <1>4, FilesShow DEF Shows
<1>7. Content(fd) \in [1 .. e.length -> {n}]
  BY <1>3, <1>4, TheBytes DEF Reads
<1>8. seen \in Seq(Char)
  <2>1. proc[p] \in Proc
    BY DEF FilesInv, FilesTyped
  <2> QED BY <2>1, Zenon DEF Proc
<1>9. \A i \in 1 .. e.length : seen[i] = n
  BY <1>1, <1>2, <1>5 DEF OwnBytes
<1> HIDE DEF fd, n, e, seen
<1>10. seen \in [1 .. e.length -> {n}]
  BY <1>1, <1>2, <1>8, <1>9
<1>11. seen = Content(fd)
  BY <1>7, <1>10, OneConstant
<1> QED BY <1>6, <1>11 DEF n, seen

\* With one shell, memory for the buffers, a disk that answers and malloc()
\* giving fresh bytes: cat shows what the directory and the blocks on disk have
\* of the file, whether the bytes are in the buffer of an entry that stayed open
\* or were read again after a close or a restart (xsh_cat.c, fileOpen.c,
\* fileGetChar.c, fileClose.c).
THEOREM FilesReadBack ==
  ASSUME Solo, MayFail = FALSE, DirtyMalloc = FALSE, MemoryFull = FALSE
  PROVE  Spec => []ReadsBack
<1>1. FilesInv /\ Found /\ Reads => ReadsBack
  BY ReadsAtEnd
<1> QED BY <1>1, FilesInvariance, ReadsInvariance, PTL

-----------------------------------------------------------------------------
(* The disk is a store of whole files.                                     *)

\* The files on disk, as AbsFiles sees them.
Disk == [n \in Names |-> OnDisk(n)]

LEMMA SameFile ==
  ASSUME Shows, Shows', NEW n,
         \A fd : (fd \in DiskFiles /\ ddir[fd].name = n) <=> (fd \in DiskFiles' /\ ddir'[fd].name = n),
         \A fd \in DiskFiles : ddir[fd].name = n => Content(fd)' = Content(fd)
  PROVE  OnDisk(n)' = OnDisk(n)
<1>1. CASE \A fd \in DiskFiles : ddir[fd].name # n
  <2>1. \A fd \in DiskFiles' : ddir'[fd].name # n
    BY <1>1
  <2>2. OnDisk(n)' = Absent' /\ OnDisk(n) = Absent
    BY <1>1, <2>1 DEF Shows
  <2> QED BY <2>2 DEF Absent
<1>2. ASSUME NEW fd \in DiskFiles, ddir[fd].name = n PROVE OnDisk(n)' = OnDisk(n)
  <2>1. fd \in DiskFiles' /\ ddir'[fd].name = n /\ Content(fd)' = Content(fd)
    BY <1>2
  <2>2. OnDisk(n)' = Content(fd)' /\ OnDisk(n) = Content(fd)
    BY <1>2, <2>1 DEF Shows
  <2> QED BY <2>1, <2>2
<1> QED BY <1>1, <1>2

LEMMA DiskSame == ASSUME \A n \in Names : OnDisk(n)' = OnDisk(n) PROVE Disk' = Disk
BY DEF Disk

\* The same files with the same bytes.
LEMMA AllSame ==
  ASSUME Shows, Shows', UNCHANGED ddir, DiskFiles' = DiskFiles,
         \A fd \in DiskFiles : dfile'[ddir[fd].blocknum] = dfile[ddir[fd].blocknum]
  PROVE  /\ Disk' = Disk
         /\ Deleted' = {n \in Names : \E fd \in DiskFiles : ddir[fd].name = n /\ fd \notin Ready'}
<1>1. \A fd \in DiskFiles : Content(fd)' = Content(fd)
  BY DEF Content
<1>2. \A n \in Names : OnDisk(n)' = OnDisk(n)
  BY <1>1, SameFile
<1> QED BY <1>2, DiskSame DEF Shows

LEMMA StoreIsSame ==
  ASSUME Shows, Shows', StoreStays
  PROVE  Disk' = Disk /\ Deleted' = Deleted
BY AllSame DEF StoreStays, Shows

LEMMA RestartIsStart ==
  ASSUME FilesInv, Found, Reads, Solo, Shows, Shows', Restart
  PROVE  Disk' = Disk /\ Deleted' = {}
BY RestartReads, AllSame

\* A file that is Ready is one that fileDelete() may take; another it takes again.
LEMMA DeleteIsDelete ==
  ASSUME FilesInv, FilesInv', Reads, Solo, Shows, Shows', NEW p \in Procs, fileDelete(p)
  PROVE  /\ Disk' = Disk
         /\ Deleted' = Deleted \/ \E n \in Names : Disk[n] # Absent /\ Deleted' = Deleted \cup {n}
<1>1. PICK fd : fd = proc[p].fd
  OBVIOUS
<1>2. Ready' = Ready \ {fd} /\ DiskFiles' = DiskFiles /\ UNCHANGED <<ddir, dfile>>
  BY <1>1, DeleteReads
<1>3. /\ Disk' = Disk
      /\ Deleted' = {n \in Names : \E x \in DiskFiles : ddir[x].name = n /\ x \notin Ready'}
      /\ Deleted = {n \in Names : \E x \in DiskFiles : ddir[x].name = n /\ x \notin Ready}
  BY <1>2, AllSame DEF Shows
<1>4. CASE fd \notin Ready
  BY <1>2, <1>3, <1>4
<1>5. CASE fd \in Ready
  <2>1. PICK n \in Names : n = ddir[fd].name
    BY <1>5 DEF Shows
  <2>2. Disk[n] # Absent
    BY <1>5, <2>1, OwnIsNotAbsent DEF Shows, Disk
  <2>3. Deleted' = Deleted \cup {n}
    BY <1>2, <1>3, <1>5, <2>1 DEF Shows
  <2> QED BY <1>3, <2>2, <2>3
<1> QED BY <1>3, <1>4, <1>5

\* sbFreeBlock() links the block of a file that fileDelete() took.
LEMMA ListStepIsRemove ==
  ASSUME FilesInv, FilesInv', Found, Reads, Solo, MayFail = FALSE, DirtyMalloc = FALSE,
         Shows, Shows', NEW p \in Procs, ListStep(p)
  PROVE  \/ Disk' = Disk /\ Deleted' = Deleted
         \/ \E n \in Deleted : Disk' = [Disk EXCEPT ![n] = Absent] /\ Deleted' = Deleted \ {n}
<1>1. PICK fd : fd = proc[p].fd
  OBVIOUS
<1>2. /\ UNCHANGED ddir /\ Ready' = Ready
      /\ \A x \in DiskFiles' : dfile'[ddir[x].blocknum] = dfile[ddir[x].blocknum]
      /\ DiskFiles' = DiskFiles \/ (DiskFiles' = DiskFiles \ {fd} /\ fd \in DiskFiles /\ fd \notin Ready)
  BY <1>1, ListStepReads
<1>3. CASE DiskFiles' = DiskFiles
  BY <1>2, <1>3, StoreIsSame DEF StoreStays
<1>4. CASE DiskFiles' = DiskFiles \ {fd} /\ fd \in DiskFiles /\ fd \notin Ready
  <2>1. PICK n \in Names : n = ddir[fd].name
    BY <1>4 DEF Shows
  <2>2. \A x \in DiskFiles : ddir[x].name = n => x = fd
    BY <1>4, <2>1 DEF Shows
  <2>3. n \in Deleted /\ Deleted' = Deleted \ {n}
    BY <1>2, <1>4, <2>1, <2>2 DEF Shows
  <2>4. OnDisk(n)' = Absent
    <3>1. \A x \in DiskFiles' : ddir'[x].name # n
      BY <1>2, <1>4, <2>2
    <3>2. OnDisk(n)' = Absent'
      BY <3>1 DEF Shows
    <3> QED BY <3>2 DEF Absent
  <2>5. ASSUME NEW m \in Names, m # n PROVE OnDisk(m)' = OnDisk(m)
    <3>1. \A x : (x \in DiskFiles /\ ddir[x].name = m) <=> (x \in DiskFiles' /\ ddir'[x].name = m)
      BY <1>2, <1>4, <2>1, <2>5
    <3>2. \A x \in DiskFiles : ddir[x].name = m => Content(x)' = Content(x)
      BY <1>2, <1>4, <2>1, <2>5 DEF Content
    <3> QED BY <3>1, <3>2, SameFile
  <2>6. Disk' = [Disk EXCEPT ![n] = Absent]
    BY <2>4, <2>5 DEF Disk, Absent
  <2> QED BY <2>3, <2>6
<1> QED BY <1>2, <1>3, <1>4

\* Of what is left when all that is deleted is gone.
LEMMA LeftIs ==
  ASSUME Shows
  PROVE  /\ \A n \in Names : (\A fd \in Ready : ddir[fd].name # n) => Files!Left[n] = Absent
         /\ \A n \in Names : \A fd \in Ready : ddir[fd].name = n => Files!Left[n] = Content(fd)
<1>1. \A n \in Names : Files!Left[n] = IF n \in Deleted THEN Absent ELSE OnDisk(n)
  BY DEF Files!Left
<1>2. ASSUME NEW n \in Names, \A fd \in Ready : ddir[fd].name # n
      PROVE  Files!Left[n] = Absent
  <2>1. CASE \E fd \in DiskFiles : ddir[fd].name = n
    BY <1>1, <1>2, <2>1 DEF Shows
  <2>2. CASE \A fd \in DiskFiles : ddir[fd].name # n
    BY <1>1, <2>2 DEF Shows
  <2> QED BY <2>1, <2>2
<1>3. ASSUME NEW n \in Names, NEW fd \in Ready, ddir[fd].name = n
      PROVE  Files!Left[n] = Content(fd)
  <2>1. fd \in DiskFiles /\ n \notin Deleted /\ OnDisk(n) = Content(fd)
    BY <1>3 DEF Shows
  <2> QED BY <1>1, <2>1
<1> QED BY <1>2, <1>3

\* fileClose() puts its file in the directory, whole; fileDelete() writes the
\* directory without the file that is gone from memory.
LEMMA DirWriteIsSave ==
  ASSUME FilesInv, FilesInv', Reads, Solo, MayFail = FALSE, Shows, Shows', NEW p \in Procs,
         DirWrite(p)
  PROVE  Files!Sweep \/ \E n \in Names : Files!Save(n)
<1>1. PICK fd, n : fd = proc[p].fd /\ n = filetab[fd].name
  OBVIOUS
<1>2. /\ Ready' = Owners /\ DiskFiles' = Owners /\ Owners \subseteq Ready \cup {fd}
      /\ fd \notin Ready /\ UNCHANGED dfile /\ ddir' = Stored
  BY <1>1, DirWriteReads
<1>3. \A x \in Ready : /\ x \in Owners /\ ddir[x].name = filetab[x].name
                       /\ ddir[x].length = filetab[x].length
                       /\ ddir[x].blocknum = filetab[x].blocknum
  BY ReadyOnDisk
<1>4. Owners \subseteq Fds /\ \A x \in Owners : Used(x)
  BY DEF Owners
<1>5. \A x \in Owners : /\ ddir'[x].name = filetab[x].name /\ ddir'[x].length = filetab[x].length
                        /\ ddir'[x].blocknum = filetab[x].blocknum
  BY <1>2, <1>4 DEF Stored
<1>6. \A x \in Ready : ddir'[x].name = ddir[x].name /\ Content(x)' = Content(x)
  BY <1>2, <1>3, <1>5 DEF Content
<1>7. Deleted' = {}
  BY <1>2 DEF Shows
<1>8. ASSUME NEW m \in Names, fd \in Owners => m # n PROVE OnDisk(m)' = Files!Left[m]
  <2>1. CASE \A x \in Ready : ddir[x].name # m
    <3>1. \A x \in DiskFiles' : ddir'[x].name # m
      BY <1>1, <1>2, <1>5, <1>6, <1>8, <2>1
    <3>2. OnDisk(m)' = Absent'
      BY <3>1 DEF Shows
    <3> QED BY <2>1, <3>2, LeftIs DEF Absent
  <2>2. ASSUME NEW x \in Ready, ddir[x].name = m PROVE OnDisk(m)' = Files!Left[m]
    <3>1. x \in DiskFiles' /\ ddir'[x].name = m
      BY <1>2, <1>3, <1>6, <2>2
    <3>2. OnDisk(m)' = Content(x)'
      BY <3>1 DEF Shows
    <3> QED BY <1>6, <2>2, <3>2, LeftIs
  <2> QED BY <2>1, <2>2
<1>9. CASE fd \notin Owners
  <2>1. \A m \in Names : OnDisk(m)' = Files!Left[m]
    BY <1>8, <1>9
  <2>2. [m \in Names |-> OnDisk(m)'] = Files!Left
    BY <2>1 DEF Files!Left
  <2> QED BY <1>7, <2>2 DEF Files!Sweep
<1>10. CASE fd \in Owners
  <2>1. n \in Names /\ \A x \in Ready : ddir[x].name # n
    BY <1>1, <1>2, <1>3, <1>4, <1>10 DEF Reads, Named
  <2>2. Files!Left[n] = Absent
    BY <2>1, LeftIs
  <2>3. OnDisk(n)' \in Files!Own(n)
    <3>1. fd \in DiskFiles' /\ ddir'[fd].name = n
      BY <1>1, <1>2, <1>5, <1>10
    <3>2. Content(fd)' \in Files!Own(n)' /\ OnDisk(n)' = Content(fd)'
      BY <3>1 DEF Shows
    <3> QED BY <3>2 DEF Files!Own
  <2>4. [m \in Names |-> OnDisk(m)'] = [Files!Left EXCEPT ![n] = OnDisk(n)']
    BY <1>8, <2>1 DEF Files!Left
  <2> QED BY <1>7, <2>1, <2>2, <2>3, <2>4 DEF Files!Save
<1> QED BY <1>9, <1>10

LEMMA StepOfDisk ==
  ASSUME FilesInv, FilesInv', Found, Reads, Shows, Shows', Solo, MayFail = FALSE,
         DirtyMalloc = FALSE, MemoryFull = FALSE, [Next]_vars
  PROVE  Files!FilesNext \/ (Disk' = Disk /\ Deleted' = Deleted)
<1>1. CASE StoreStays
  BY <1>1, StoreIsSame
<1>2. CASE Restart
  BY <1>2, RestartIsStart DEF Files!FilesNext, Files!Start, Disk
<1>3. ASSUME NEW p \in Procs, fileDelete(p)
      PROVE  Files!FilesNext \/ (Disk' = Disk /\ Deleted' = Deleted)
  <2>1. /\ Disk' = Disk
        /\ Deleted' = Deleted \/ \E n \in Names : Disk[n] # Absent /\ Deleted' = Deleted \cup {n}
    BY <1>3, DeleteIsDelete
  <2>2. ASSUME NEW n \in Names, Disk[n] # Absent, Deleted' = Deleted \cup {n}
        PROVE  Files!Delete(n)
    BY <2>1, <2>2 DEF Files!Delete, Disk
  <2> QED BY <2>1, <2>2 DEF Files!FilesNext
<1>4. ASSUME NEW p \in Procs, DirWrite(p) PROVE Files!FilesNext
  BY <1>4, DirWriteIsSave DEF Files!FilesNext
<1>5. ASSUME NEW p \in Procs, ListStep(p)
      PROVE  Files!FilesNext \/ (Disk' = Disk /\ Deleted' = Deleted)
  <2>1. \/ Disk' = Disk /\ Deleted' = Deleted
        \/ \E n \in Deleted : Disk' = [Disk EXCEPT ![n] = Absent] /\ Deleted' = Deleted \ {n}
    BY <1>5, ListStepIsRemove
  <2>2. ASSUME NEW n \in Deleted, Disk' = [Disk EXCEPT ![n] = Absent], Deleted' = Deleted \ {n}
        PROVE  Files!Remove(n) /\ n \in Names
    BY <2>2 DEF Files!Remove, Disk, Deleted
  <2> QED BY <2>1, <2>2 DEF Files!FilesNext
<1> QED BY <1>1, <1>2, <1>3, <1>4, <1>5, ReadsSteps

LEMMA StartOfDisk == Solo /\ FInit => Disk = [n \in Names |-> Absent] /\ Deleted = {}
<1> SUFFICES ASSUME Solo, FInit PROVE Disk = [n \in Names |-> Absent] /\ Deleted = {}
  OBVIOUS
<1>1. FilesInv /\ Found /\ Reads
  BY FilesStart, ReadsStart
<1>2. Shows
  BY <1>1, FilesShow
<1>3. \A fd \in Fds : ddir[fd].state = {}
  BY NoCommandIs DEF FInit, Stored
<1>4. DiskFiles = {}
  BY <1>3 DEF DiskFiles
<1>5. Deleted = {} /\ \A n : OnDisk(n) = Absent
  BY <1>2, <1>4 DEF Shows
<1> QED BY <1>5 DEF Disk

\* With one shell, memory for the buffers, a disk that answers and malloc()
\* giving fresh bytes: at every moment the disk has of each file all that was
\* written to it or nothing, and one file at a time comes or goes.  A file that
\* is deleted goes when sbFreeBlock() links its block, or with the next directory
\* that is written; when the machine starts before that it is there again, whole
\* (fileClose.c:19-30, fileDelete.c:52-67, sbOpen.c).
THEOREM ImplementsFiles ==
  ASSUME Solo, MayFail = FALSE, DirtyMalloc = FALSE, MemoryFull = FALSE
  PROVE  Spec => FilesSpec
<1>1. FInit => Files!FilesInit
  BY StartOfDisk DEF Files!FilesInit, Disk
<1>2. FilesInv /\ FilesInv' /\ Found /\ Reads /\ Shows /\ Shows' /\ [Next]_vars
         => [Files!FilesNext]_<<[n \in Names |-> OnDisk(n)], Deleted>>
  BY StepOfDisk DEF Disk
<1>3. Spec => []Shows
  <2>1. FilesInv /\ Found /\ Reads => Shows
    BY FilesShow
  <2> QED BY <2>1, FilesInvariance, ReadsInvariance, PTL
<1> QED BY <1>1, <1>2, <1>3, FilesInvariance, ReadsInvariance, PTL
        DEF Spec, FilesSpec, Files!FilesSpec
=============================================================================
