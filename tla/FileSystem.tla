----------------------------- MODULE FileSystem -----------------------------
(***************************************************************************)
(* Directory, files and the shell commands that use them, stage 9          *)
(* (src/xinu-hw9/file/file*.c, the directory part of sbInit.c and sbOpen.c,*)
(* src/xinu-hw9/shell/xsh_cat.c and xsh_delete.c) on top of the free list  *)
(* of FreeList.                                                            *)
(*                                                                         *)
(* Every process runs commands of the shell, one after the other.  They    *)
(* interleave wherever a call can block: at the two semaphores and between *)
(* two requests to the disk.  A byte is the name of the file it was        *)
(* written to, or Junk.  fn_data is the buffer itself: a buffer is only    *)
(* ever reached through its entry.                                         *)
(***************************************************************************)
EXTENDS FreeList

CONSTANTS Names,          \* names of files
          Junk,           \* what a file's block or buffer holds before it is written
          MemoryFull,     \* whether malloc() can return NULL for a buffer
          Shared,         \* every process uses every name, or only its own
          DIRENTRIES,     \* entries of the directory
          DISKBLOCKLEN,   \* bytes of a block
          MaxCommands,    \* bound: commands given to the shells
          MaxRestarts     \* bound: restarts

ASSUME FileAssumption ==
    /\ Procs # {} /\ Junk \notin Names /\ Shared \in BOOLEAN /\ MemoryFull \in BOOLEAN
    /\ ~ Shared => Names = Procs
    /\ DIRENTRIES \in Nat \ {0} /\ DISKBLOCKLEN \in Nat \ {0}
    /\ MaxCommands \in Nat /\ MaxRestarts \in Nat

\* Junk is not what a file holds either.
ASSUME JunkAssumption == \A n \in Names, k \in 0 .. DISKBLOCKLEN : Junk \notin [1 .. k -> {n}]

VARIABLES filetab,        \* the entries of the directory in memory
          dirlock,        \* sb_dirlock
          ddir,           \* the directory on disk
          dfile,          \* the bytes of the other blocks on disk
          proc,           \* how far every process is in its command
          commands, restarts

dirvars == <<filetab, dirlock>>
vars    == <<flvars, filetab, dirlock, ddir, dfile, proc, commands, restarts>>

DIRBLOCK  == SUPERBLOCKNUM + 1
Fds       == 1 .. DIRENTRIES
JunkBlock == [i \in 1 .. DISKBLOCKLEN |-> Junk]
FreeEntry == [state |-> {}, name |-> Junk, length |-> 0, cursor |-> 0,
              blocknum |-> 0, data |-> JunkBlock]
NoCommand == [cmd |-> "none", pc |-> "idle", name |-> Junk, fd |-> 0, seen |-> <<>>]

Used(fd)   == "USED" \in filetab[fd].state
Vacant(fd) == filetab[fd].state = {}            \* FILE_FREE
MyFd(p)   == proc[p].fd
Entry(p)  == filetab[MyFd(p)]
At(p, pc) == proc[p].pc = pc
Go(p, pc) == proc' = [proc EXCEPT ![p].pc = pc]
End(p)    == proc' = [proc EXCEPT ![p] = NoCommand]

\* What a directory on disk keeps of the entries: the rest is masked by
\* sbOpenDirectory() or set anew by fileOpen().
Stored    == [fd \in Fds |-> [state |-> filetab[fd].state \cap {"USED"},
                              name |-> filetab[fd].name, length |-> filetab[fd].length,
                              blocknum |-> filetab[fd].blocknum]]
Loaded(e) == [state |-> e.state, name |-> e.name, length |-> e.length,
              blocknum |-> e.blocknum, cursor |-> 0, data |-> JunkBlock]

FInit == /\ Init
         /\ filetab = [fd \in Fds |-> FreeEntry]
         /\ dirlock = 1 /\ ddir = Stored
         /\ dfile = [b \in Blocks |-> JunkBlock]
         /\ proc = [p \in Procs |-> NoCommand]
         /\ commands = 0 /\ restarts = 0

-----------------------------------------------------------------------------
(* Requests to the disk.                                                   *)

\* A block that is not on the disk leaves the disk where it is.
MoveTo(block) == pos' = IF block \in 0 .. DISKBLOCKTOTAL - 1 THEN block ELSE pos

\* bytes, as a file's, or dir, as the directory, go to wherever the disk is.
Store(bytes, dir) ==
    /\ dsuper' = IF pos = SUPERBLOCKNUM THEN Wild ELSE dsuper
    /\ dfbc'   = IF pos \in DOMAIN dfbc THEN [dfbc EXCEPT ![pos] = NoFbc] ELSE dfbc
    /\ ddir'   = IF pos = DIRBLOCK THEN dir ELSE ddir
    /\ dfile'  = IF pos \in Blocks THEN [dfile EXCEPT ![pos] = bytes] ELSE dfile

\* The free list writes over what was there.
ListStep(p) ==
    /\ \/ (Acquire(p) \/ seek(p) \/ writeFails(p)) /\ UNCHANGED <<ddir, dfile>>
       \/ /\ write(p)
          /\ ddir'  = IF pos = DIRBLOCK THEN <<>> ELSE ddir
          /\ dfile' = IF pos \in Blocks THEN [dfile EXCEPT ![pos] = JunkBlock] ELSE dfile
    /\ UNCHANGED <<dirvars, proc, commands, restarts>>

-----------------------------------------------------------------------------
(* The commands: cat, cat > and delete, each begins with fileOpen().       *)

Command(p) ==
    /\ At(p, "idle") /\ commands < MaxCommands
    /\ commands' = commands + 1
    /\ \E cmd \in {"cat", "cat >", "delete"}, n \in IF Shared THEN Names ELSE {p} :
           proc' = [proc EXCEPT ![p] = [NoCommand EXCEPT !.cmd = cmd, !.pc = "open", !.name = n]]
    /\ UNCHANGED <<flvars, dirvars, ddir, dfile, restarts>>

AfterOpen(cmd) == CASE cmd = "cat" -> "fileSeek" [] cmd = "cat >" -> "create"
                    [] cmd = "delete" -> "delete"

\* What the command does with the answer of fileOpen().
Opened_fd(p, fd) ==
    IF (proc[p].cmd = "cat >") = (fd # SYSERR) THEN End(p)
    ELSE proc' = [proc EXCEPT ![p].fd = fd, ![p].pc = AfterOpen(proc[p].cmd)]

Matching(n) == {fd \in Fds : Used(fd) /\ filetab[fd].name = n}

\* Faulty: the disk is read where it stands.
fileOpen_NoSeek(p) ==
    LET fd == Min(Matching(proc[p].name)) IN
    /\ At(p, "open")
    /\ IF Matching(proc[p].name) = {} \/ "OPEN" \in filetab[fd].state
       THEN /\ Opened_fd(p, IF Matching(proc[p].name) = {} THEN SYSERR ELSE fd)
            /\ UNCHANGED filetab
       ELSE /\ filetab' = [filetab EXCEPT ![fd].data = JunkBlock]
            /\ proc' = [proc EXCEPT ![p].fd = fd, ![p].pc = "read"]
    /\ UNCHANGED <<memvars, freelock, diskvars, call, dirlock, ddir, dfile, commands, restarts>>

\* Takes no lock.  An entry that is not open gets a buffer and the disk is sent
\* to its block, or there is no memory.
fileOpen(p) ==
    LET fd == Min(Matching(proc[p].name)) IN
    /\ At(p, "open")
    /\ \/ /\ Matching(proc[p].name) = {} /\ Opened_fd(p, SYSERR)
          /\ UNCHANGED <<filetab, pos>>
       \/ /\ Matching(proc[p].name) # {} /\ "OPEN" \in filetab[fd].state
          /\ Opened_fd(p, fd) /\ UNCHANGED <<filetab, pos>>
       \/ /\ Matching(proc[p].name) # {} /\ "OPEN" \notin filetab[fd].state
          /\ filetab' = [filetab EXCEPT ![fd].data = JunkBlock]
          /\ \/ MemoryFull /\ Opened_fd(p, SYSERR) /\ UNCHANGED pos
             \/ /\ MoveTo(filetab[fd].blocknum)
                /\ proc' = [proc EXCEPT ![p].fd = fd, ![p].pc = "read"]
    /\ UNCHANGED <<memvars, freelock, dsuper, dfbc, call, dirlock, ddir, dfile, commands, restarts>>

fileOpenRead(p) ==
    /\ At(p, "read")
    /\ filetab' = [filetab EXCEPT ![MyFd(p)].data = IF pos \in Blocks THEN dfile[pos] ELSE JunkBlock,
                                  ![MyFd(p)].state = @ \cup {"OPEN"},
                                  ![MyFd(p)].cursor = 0]
    /\ Opened_fd(p, MyFd(p))
    /\ UNCHANGED <<flvars, dirlock, ddir, dfile, commands, restarts>>

-----------------------------------------------------------------------------
(* Bytes of an open file.                                                  *)

\* fileSeek(fd, 0), whose result cat does not look at.
fileSeek(p) ==
    /\ At(p, "fileSeek") /\ Go(p, "get")
    /\ filetab' = IF ~ Vacant(MyFd(p)) /\ Entry(p).cursor <= Entry(p).length
                  THEN [filetab EXCEPT ![MyFd(p)].cursor = 0] ELSE filetab
    /\ UNCHANGED <<flvars, dirlock, ddir, dfile, commands, restarts>>

AtEnd(p) == Vacant(MyFd(p)) \/ Entry(p).cursor >= Entry(p).length

fileGetChar(p) ==
    /\ At(p, "get")
    /\ IF AtEnd(p) THEN End(p) /\ UNCHANGED filetab
       ELSE /\ proc' = [proc EXCEPT ![p].seen = Append(@, Entry(p).data[Entry(p).cursor + 1])]
            /\ filetab' = [filetab EXCEPT ![MyFd(p)].cursor = @ + 1]
    /\ UNCHANGED <<flvars, dirlock, ddir, dfile, commands, restarts>>

\* A byte is typed; what does not fit is refused.
filePutChar(p) ==
    LET e == Entry(p) IN
    /\ At(p, "put")
    /\ ~ Vacant(MyFd(p)) /\ e.cursor <= e.length /\ e.cursor < DISKBLOCKLEN
    /\ filetab' = [filetab EXCEPT ![MyFd(p)] =
           [e EXCEPT !.data[e.cursor + 1] = proc[p].name, !.cursor = @ + 1,
                     !.length = IF @ = e.cursor THEN @ + 1 ELSE @,
                     !.state = @ \cup {"DIRTY"}]]
    /\ UNCHANGED <<flvars, dirlock, ddir, dfile, proc, commands, restarts>>

\* The user ends the input.
Tilde(p) == /\ At(p, "put") /\ Go(p, "close")
            /\ UNCHANGED <<flvars, dirvars, ddir, dfile, commands, restarts>>

-----------------------------------------------------------------------------
(* fileCreate()                                                            *)

\* With the directory locked: the first free entry, if there is one and memory
\* for its buffer.
fileCreate(p) ==
    LET free == {fd \in Fds : Vacant(fd)}
        fd   == Min(free)
        new  == [filetab[fd] EXCEPT !.name = proc[p].name, !.length = 0, !.cursor = 0,
                                    !.data = JunkBlock]
    IN /\ At(p, "create") /\ dirlock = 1
       /\ \/ free = {} /\ End(p) /\ UNCHANGED filetab
          \/ /\ free # {} /\ MemoryFull /\ End(p)
             /\ filetab' = [filetab EXCEPT ![fd] = new]
          \/ /\ free # {}
             /\ proc' = [proc EXCEPT ![p].fd = fd, ![p].pc = "getblock"]
             /\ filetab' = [filetab EXCEPT ![fd] = [new EXCEPT !.state = {"USED", "OPEN"}]]
       /\ UNCHANGED <<flvars, dirlock, ddir, dfile, commands, restarts>>

\* The directory is unlocked by now.
fileCreateGet(p) ==
    /\ At(p, "getblock") /\ GetCall(p)
    /\ UNCHANGED <<dirvars, ddir, dfile, proc, commands, restarts>>

fileCreateGot(p) ==
    /\ At(p, "getblock") /\ call[p].pc = "done"
    /\ filetab' = [filetab EXCEPT ![MyFd(p)].blocknum = call[p].arg]
    /\ call' = [call EXCEPT ![p] = Idle]
    /\ IF call[p].arg = SYSERR THEN End(p) ELSE Go(p, "put")
    /\ UNCHANGED <<memvars, freelock, diskvars, dirlock, ddir, dfile, commands, restarts>>

-----------------------------------------------------------------------------
(* fileClose()                                                             *)

\* Faulty: forgets the bytes.
fileClose_Clean(p) ==
    /\ At(p, "close") /\ Go(p, "dirwait") /\ UNCHANGED pos
    /\ filetab' = [filetab EXCEPT ![MyFd(p)].state = @ \ {"OPEN", "DIRTY"}]
    /\ UNCHANGED <<memvars, freelock, dsuper, dfbc, call, dirlock, ddir, dfile, commands, restarts>>

fileClose(p) ==
    /\ At(p, "close")
    /\ IF Vacant(MyFd(p)) THEN End(p) /\ UNCHANGED <<filetab, pos>>
       ELSE IF "DIRTY" \in Entry(p).state
       THEN MoveTo(Entry(p).blocknum) /\ Go(p, "closewrite") /\ UNCHANGED filetab
       ELSE /\ filetab' = [filetab EXCEPT ![MyFd(p)].state = @ \ {"OPEN"}]
            /\ Go(p, "dirwait") /\ UNCHANGED pos
    /\ UNCHANGED <<memvars, freelock, dsuper, dfbc, call, dirlock, ddir, dfile, commands, restarts>>

\* The bytes are written under no lock; whether that failed is not looked at.
fileCloseWrite(p) ==
    /\ At(p, "closewrite") /\ Go(p, "dirwait")
    /\ \/ Store(Entry(p).data, <<>>)
       \/ MayFail /\ UNCHANGED <<dsuper, dfbc, ddir, dfile>>
    /\ filetab' = [filetab EXCEPT ![MyFd(p)].state = @ \ {"OPEN", "DIRTY"}]
    /\ UNCHANGED <<memvars, freelock, pos, call, dirlock, commands, restarts>>

-----------------------------------------------------------------------------
(* The directory goes to the disk, at the end of fileClose() and of        *)
(* fileDelete().  swizzleSuperBlock() takes sb_dirlst away meanwhile.      *)

DirSeek(p) ==
    /\ \/ At(p, "dirwait") /\ dirlock = 1 /\ dirlock' = 0
       \/ At(p, "dirseek") /\ UNCHANGED dirlock
    /\ IF SUPER \in swz THEN Go(p, "wild") /\ UNCHANGED pos
                        ELSE Go(p, "dirwrite") /\ MoveTo(DIRBLOCK)
    /\ UNCHANGED <<memvars, freelock, dsuper, dfbc, call, filetab, ddir, dfile, commands, restarts>>

\* Faulty: returns without signal().
DirWrite_KeepsLock(p) ==
    /\ At(p, "dirwrite") /\ End(p) /\ Store(JunkBlock, Stored)
    /\ UNCHANGED <<memvars, freelock, pos, call, dirlock, filetab, commands, restarts>>

DirWrite(p) ==
    /\ At(p, "dirwrite")
    /\ IF SUPER \in swz
       THEN Go(p, "wild") /\ UNCHANGED <<dirlock, dsuper, dfbc, ddir, dfile>>
       ELSE /\ End(p) /\ dirlock' = 1
            /\ \/ Store(JunkBlock, Stored)
               \/ MayFail /\ UNCHANGED <<dsuper, dfbc, ddir, dfile>>
    /\ UNCHANGED <<memvars, freelock, pos, call, filetab, commands, restarts>>

-----------------------------------------------------------------------------
(* fileDelete()                                                            *)

\* Faulty: leaves the entry as it is.
fileDelete_KeepsEntry(p) ==
    /\ At(p, "delete") /\ dirlock = 1 /\ dirlock' = 0
    /\ FreeCall(p, Entry(p).blocknum) /\ Go(p, "freeblock")
    /\ UNCHANGED <<filetab, ddir, dfile, commands, restarts>>

\* With the directory locked; the state of the entry is not looked at.
fileDelete(p) ==
    /\ At(p, "delete") /\ dirlock = 1 /\ dirlock' = 0
    /\ filetab' = [filetab EXCEPT ![MyFd(p)] = [FreeEntry EXCEPT !.blocknum = Entry(p).blocknum]]
    /\ FreeCall(p, Entry(p).blocknum) /\ Go(p, "freeblock")
    /\ UNCHANGED <<ddir, dfile, commands, restarts>>

\* Faulty: brings the entry back when sbFreeBlock() fails.
fileDeleteFreed_Undo(p) ==
    /\ At(p, "freeblock") /\ call[p].pc = "done"
    /\ call' = [call EXCEPT ![p] = Idle]
    /\ IF call[p].arg = 0 THEN Go(p, "dirseek") /\ UNCHANGED <<dirlock, filetab>>
       ELSE /\ End(p) /\ dirlock' = 1
            /\ filetab' = [filetab EXCEPT ![MyFd(p)].state = {"USED"}, ![MyFd(p)].name = proc[p].name]
    /\ UNCHANGED <<memvars, freelock, diskvars, ddir, dfile, commands, restarts>>

fileDeleteFreed(p) ==
    /\ At(p, "freeblock") /\ call[p].pc = "done"
    /\ call' = [call EXCEPT ![p] = Idle]
    /\ IF call[p].arg = 0 THEN Go(p, "dirseek") /\ UNCHANGED dirlock
                          ELSE End(p) /\ dirlock' = 1
    /\ UNCHANGED <<memvars, freelock, diskvars, filetab, ddir, dfile, commands, restarts>>

-----------------------------------------------------------------------------
\* A new entry still has the block number of the file that was there before.
Creating(fd) == \E p \in Procs : At(p, "getblock") /\ MyFd(p) = fd

\* fileDelete() has its block in the free list on disk, and the directory there
\* still has the file.
Freed(p) == /\ proc[p].cmd = "delete"
            /\ \/ HalfLinked(p)
               \/ At(p, "freeblock") /\ call[p].pc = "done" /\ call[p].arg = 0
               \/ proc[p].pc \in {"dirseek", "dirwrite", "wild"}
Unlinking == \E p \in Procs : Freed(p)

\* The machine stops and starts, at any moment but while a file is Unlinking:
\* what a stop there leaves is not followed.
Restart ==
    /\ restarts < MaxRestarts /\ restarts' = restarts + 1
    /\ ~ Unlinking /\ ddir # <<>>
    /\ sbOpen
    /\ filetab' = [fd \in Fds |-> Loaded(ddir[fd])]
    /\ dirlock' = 1
    /\ proc' = [p \in Procs |-> NoCommand]
    /\ UNCHANGED <<ddir, dfile, commands>>

DiskStep(p) == \/ fileOpenRead(p) \/ fileCloseWrite(p) \/ DirWrite(p)
               \/ (At(p, "dirseek") /\ DirSeek(p))
Compute(p)  == \/ fileOpen(p) \/ fileSeek(p) \/ fileGetChar(p) \/ filePutChar(p) \/ Tilde(p)
               \/ fileCreateGet(p) \/ fileCreateGot(p) \/ fileClose(p) \/ fileDeleteFreed(p)
Lock(p)     == fileCreate(p) \/ fileDelete(p) \/ (At(p, "dirwait") /\ DirSeek(p))

Next == Restart \/ \E p \in Procs : \/ Command(p) \/ DiskStep(p) \/ Compute(p)
                                    \/ Lock(p) \/ ListStep(p)

Spec == FInit /\ [][Next]_vars

\* The disk answers, a process that may run runs, semaphores serve their
\* waiters in order, and the user ends the input.
Fairness == \A p \in Procs :
    /\ WF_vars(DiskStep(p)) /\ WF_vars(Compute(p)) /\ SF_vars(Lock(p)) /\ SF_vars(ListStep(p))
FairSpec == Spec /\ Fairness

-----------------------------------------------------------------------------
Owners == {fd \in Fds : Used(fd) /\ ~ Creating(fd) /\ filetab[fd].blocknum # SYSERR}

\* A block has one owner: no two files have the same block, and none has one
\* that the free list gives out or that a call is moving (fileCreate.c:44,
\* fileDelete.c:60).
OwnBlocks ==
    /\ IsInjective(MemList)
    /\ \A fd \in Owners :
          LET b == filetab[fd].blocknum IN
          /\ b \in Blocks \ Range(MemList)
          /\ \A other \in Owners \ {fd} : filetab[other].blocknum # b
          /\ \A p \in Procs : call[p].arg # b

\* The files a restart would find.
DiskFiles == IF ddir = <<>> THEN {}
             ELSE {fd \in Fds : /\ ddir[fd].state # {} /\ ddir[fd].blocknum # SYSERR
                                /\ ~ \E p \in Procs : Freed(p) /\ MyFd(p) = fd}

\* The same on disk: a restart finds neither a file's block in the free list
\* nor a block of two files, whatever a block still holds of an earlier use.
OwnBlocksOnDisk ==
    ~ HalfWritten => \A fd \in DiskFiles :
        /\ ddir[fd].blocknum \in Blocks \ Range(DiskList)
        /\ \A other \in DiskFiles \ {fd} : ddir[other].blocknum # ddir[fd].blocknum

\* A file on disk that is the one in memory, and not one that was deleted there.
Same(fd) == /\ Used(fd) /\ ~ Creating(fd)
            /\ ddir[fd].name = filetab[fd].name /\ ddir[fd].blocknum = filetab[fd].blocknum

Absent == Junk
OnDisk(n) == LET fds == {fd \in DiskFiles : ddir[fd].name = n} IN
             IF fds = {} THEN Absent
             ELSE SubSeq(dfile[ddir[Min(fds)].blocknum], 1, ddir[Min(fds)].length)

\* cat shows what the disk has of the file, whichever way it came there: from
\* the buffer it was written through, or read back after a close or a restart.
ReadsBack ==
    \A p \in Procs : At(p, "get") /\ AtEnd(p) /\ MyFd(p) \in DiskFiles /\ Same(MyFd(p)) =>
                         proc[p].seen = OnDisk(proc[p].name)

\* Every command ends: nobody waits for ever for the directory or the free
\* list, and nobody follows sb_dirlst while it is a block number.
CommandsEnd == \A p \in Procs : ~ At(p, "idle") ~> At(p, "idle")

\* The disk is a store of whole files (AbsFiles): what a restart would find
\* changes by one file, which appears with its own bytes or vanishes.
Deleted == {n \in Names : \E fd \in DiskFiles : ddir[fd].name = n /\ ~ Same(fd)}
Files == INSTANCE AbsFiles WITH store <- [n \in Names |-> OnDisk(n)], going <- Deleted
FilesSpec == Files!FilesSpec
=============================================================================
