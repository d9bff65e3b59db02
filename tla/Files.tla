------------------------------- MODULE Files -------------------------------
(***************************************************************************)
(* fs.c, file.c and the calls of sysfile.c that change the file system:    *)
(* the inode cache, link counts, directories, block allocation, open       *)
(* files, and the transactions around them.                                *)
(*                                                                         *)
(* Everything done under one inode lock without waiting for anything else  *)
(* is one step.  A transaction is atomic on disk (module Log implements    *)
(* that), so disk is what the buffer cache shows and committed what a      *)
(* crash leaves.  A cache entry is named by its inode number, because      *)
(* iget() never caches an inode twice.                                     *)
(***************************************************************************)
EXTENDS Integers, Sequences, FiniteSets, FiniteSetsExt, TLC

CONSTANTS Proc, NoProc,
          InitProc,       \* the process that is there at boot
          Name,           \* names of directory entries other than . and ..
          NINODES,        \* sb.ninodes - 1: inodes on disk
          NBLOCKS,        \* sb.nblocks: data blocks of the image
          SIZE,           \* blocks balloc() looks at, the log's included
          NINODE, NFILE,  \* entries of the inode cache and of ftable
          MaxBlocks,      \* bound: blocks of a file
          Programs,       \* the calls, with arguments, that each process makes
          MaxCrashes      \* bound: number of crashes

ROOTINO == 1
Inum  == 1 .. NINODES
Entry == Name \cup {".", ".."}
File  == 1 .. NFILE

ASSUME FilesAssumption ==
  /\ NoProc \notin Proc /\ InitProc \in Proc
  /\ NINODES \in Nat \ {0} /\ NBLOCKS \in Nat \ {0} /\ SIZE \in Nat /\ SIZE >= NBLOCKS
  /\ NINODE \in Nat \ {0} /\ NFILE \in Nat \ {0}
  /\ \A g \in Programs : DOMAIN g = Proc
  /\ MaxBlocks \in Nat /\ MaxCrashes \in Nat

VARIABLES
  disk,        \* inodes (with the entries of directories) and the bitmap
  committed,   \* disk as of the last commit
  trans,       \* log.busy: the process in a transaction
  icache,      \* ref, I_VALID, I_BUSY and the copy of the inode
  ftable,      \* struct file; offsets count blocks
  proc,        \* cwd, descriptor and, inside a call, registers of a process
  panic,       \* argument of panic(), or "none"
  quirks,      \* what has happened that the properties make exceptions for
  crashes,
  prog         \* which of the Programs

vars == <<disk, committed, trans, icache, ftable, proc, panic, quirks, crashes, prog>>
fs   == <<disk, committed, trans>>
rest == <<panic, quirks, crashes, prog>>

NoEntries == [n \in Entry |-> 0]
Free == [type |-> "none", nlink |-> 0, blks |-> {}, ents |-> NoEntries]

\* The image made by mkfs: a root directory with . and .. in block 1.
Image ==
  [inode |-> [i \in Inum |->
                IF i = ROOTINO
                THEN [type |-> "dir", nlink |-> 1, blks |-> {1},
                      ents |-> [NoEntries EXCEPT !["."] = ROOTINO, ![".."] = ROOTINO]]
                ELSE Free],
   used  |-> {1}]

NoFile == [ref |-> 0, ip |-> 0, off |-> 0, writable |-> FALSE]

Uncached == [ref |-> 0, valid |-> FALSE, busy |-> NoProc,
             type |-> "none", nlink |-> 0, blks |-> {}]

\* pc is "gone" when there is no such process, "idle" in user mode.  ip, dp and
\* old are inodes it holds a reference to, path what namex() has still to look
\* up, put the inodes it is about to iput(), free how far iput() is.
Gone == [pc |-> "gone", cwd |-> 0, fd |-> 0, call |-> <<"none">>, ip |-> 0, dp |-> 0,
         old |-> 0, path |-> <<>>, parent |-> FALSE, next |-> "idle", put |-> <<>>,
         free |-> 0, n |-> 0]

BootProc == [p \in Proc |-> IF p = InitProc THEN [Gone EXCEPT !.pc = "idle", !.cwd = ROOTINO]
                                            ELSE Gone]
BootCache == [i \in Inum |-> IF i = ROOTINO THEN [Uncached EXCEPT !.ref = 1] ELSE Uncached]

Init ==
  /\ disk = Image /\ committed = Image
  /\ trans = NoProc
  /\ icache = BootCache
  /\ ftable = [f \in File |-> NoFile]
  /\ proc = BootProc
  /\ panic = "none" /\ quirks = {} /\ crashes = 0
  /\ prog \in Programs

-----------------------------------------------------------------------------
(* Inodes.                                                                  *)

\* iget() finds the entry, or recycles one of the NINODE that nobody refers to.
HasRoom(i) == icache[i].ref > 0 \/ Cardinality({j \in Inum : icache[j].ref > 0}) < NINODE
Iget(ic, i) ==
  [ic EXCEPT ![i] = IF @.ref > 0 THEN [@ EXCEPT !.ref = @ + 1] ELSE [Uncached EXCEPT !.ref = 1]]

\* ilock() sleeps while I_BUSY is set and reads the inode if it is not valid.
Load(ic, i) ==
  [ic EXCEPT ![i] = IF @.valid THEN @
                    ELSE LET d == disk.inode[i] IN
                         [@ EXCEPT !.valid = TRUE, !.type = d.type, !.nlink = d.nlink,
                                   !.blks = d.blks]]
Ilock(ic, i, p) == [Load(ic, i) EXCEPT ![i].busy = p]
\* Mutant: I_BUSY is not cleared.
Iunlock_Keeps(ic, i) == ic
Iunlock(ic, i) == [ic EXCEPT ![i].busy = NoProc]
Core(i) == Load(icache, i)[i]

NoType(i)  == ~icache[i].valid /\ disk.inode[i].type = "none"

\* iupdate()
Iupdate(d, ic, i) ==
  [d EXCEPT !.inode[i].type = ic[i].type, !.inode[i].nlink = ic[i].nlink,
            !.inode[i].blks = ic[i].blks]

Dirlookup(i, n)     == disk.inode[i].ents[n]
Dirlink(d, i, n, j) == [d EXCEPT !.inode[i].ents[n] = j]

\* balloc() takes the first block whose bit is clear.
FreeBlocks(d) == (1 .. SIZE) \ d.used
Balloc(d) == Min(FreeBlocks(d))
Bfree(d, blks) == [d EXCEPT !.used = @ \ blks]

\* itrunc() leaves neither blocks nor entries.
Itrunc(d, ic, i) ==
  [Iupdate(Bfree(d, icache[i].blks), ic, i) EXCEPT !.inode[i].ents = NoEntries]

-----------------------------------------------------------------------------
(* How steps are put together.                                              *)

Running(p) == panic = "none" /\ proc[p].put = <<>>

\* panic() stops the machine.
Panic(s) ==
  /\ panic' = s
  /\ UNCHANGED <<fs, icache, ftable, proc, quirks, crashes, prog>>

\* A step A that takes the lock of i, and one that calls iget() for i.
WithLock(i, A) ==
  /\ icache[i].busy = NoProc
  /\ IF NoType(i) THEN Panic("ilock: no type") ELSE A
WithIget(i, A) == IF HasRoom(i) THEN A ELSE Panic("iget: no inodes")

\* Go on at label l, with registers r.
Goto(p, l, r) == proc' = [proc EXCEPT ![p] = r @@ [@ EXCEPT !.pc = l]]
\* Go on at label l, with the iput()s of s first; ip and dp are given up.
PutAnd(p, l, s) == Goto(p, l, [put |-> s, ip |-> 0, dp |-> 0])
\* Return to user mode, with the iput()s of s first.
Return(p, s) ==
  proc' = [proc EXCEPT ![p] = [Gone EXCEPT !.pc = "idle", !.cwd = proc[p].cwd,
                                           !.fd = proc[p].fd, !.put = s]]

-----------------------------------------------------------------------------
(* iput(): the last reference to an inode without links frees it.           *)

\* What is left in an entry without references is never looked at again.
Unref(ic, i) == [ic EXCEPT ![i] = IF @.ref = 1 THEN Uncached ELSE [@ EXCEPT !.ref = @ - 1]]

IputEnd(p) ==
  LET i == Head(proc[p].put) IN
  /\ proc[p].free = 2
  /\ icache' = Unref([icache EXCEPT ![i].busy = NoProc, ![i].valid = FALSE], i)
  /\ Goto(p, proc[p].pc, [put |-> Tail(proc[p].put), free |-> 0])
  /\ UNCHANGED <<fs, ftable, rest>>

\* Mutant: the count is compared as if it had been dropped already.
LastRef_Dropped(c) == c.ref = 0 /\ c.valid /\ c.nlink = 0
LastRef(c) == c.ref = 1 /\ c.valid /\ c.nlink = 0

IputStart(p) ==
  LET i == Head(proc[p].put)
      c == icache[i] IN
  /\ proc[p].free = 0
  /\ IF LastRef(c)
     THEN IF c.busy # NoProc THEN Panic("iput busy")
          ELSE /\ icache' = [icache EXCEPT ![i].busy = p]
               /\ Goto(p, proc[p].pc, [free |-> 1])
               /\ UNCHANGED <<fs, ftable, rest>>
     ELSE /\ icache' = Unref(icache, i)
          /\ Goto(p, proc[p].pc, [put |-> Tail(proc[p].put)])
          /\ UNCHANGED <<fs, ftable, rest>>

\* itrunc(), with bfree() of each block, then type = 0 and iupdate().  log_write()
\* panics outside of any transaction, and cannot tell whose transaction it is.
IputFree(p) ==
  LET i  == Head(proc[p].put)
      b  == icache[i].blks
      ic == [icache EXCEPT ![i].blks = {}, ![i].type = "none"] IN
  /\ proc[p].free = 1
  /\ CASE trans = NoProc -> Panic("write outside of trans")
       [] trans # NoProc /\ ~(b \subseteq disk.used) -> Panic("freeing free block")
       [] OTHER ->
          /\ icache' = ic
          /\ disk' = Iupdate(Itrunc(disk, ic, i), ic, i)
          /\ quirks' = IF trans = p THEN quirks ELSE quirks \cup {"stray"}
          /\ Goto(p, proc[p].pc, [free |-> 2])
          /\ UNCHANGED <<committed, trans, ftable, panic, crashes, prog>>

Iput(p) ==
  /\ panic = "none" /\ proc[p].put # <<>>
  /\ IputStart(p) \/ IputFree(p) \/ IputEnd(p)

-----------------------------------------------------------------------------
(* begin_trans() and commit_trans().                                        *)

Begin(p, l) ==
  /\ trans = NoProc
  /\ trans' = p
  /\ Goto(p, l, [put |-> <<>>])
  /\ UNCHANGED <<disk, committed, icache, ftable, rest>>

Commit(p) ==
  /\ Running(p) /\ proc[p].pc = "commit"
  /\ trans' = NoProc
  /\ committed' = disk
  /\ IF proc[p].next = "idle" THEN Return(p, <<>>) ELSE Goto(p, proc[p].next, [next |-> "idle"])
  /\ UNCHANGED <<disk, icache, ftable, rest>>

-----------------------------------------------------------------------------
(* namex(): one directory is locked at a time, and released before the next *)
(* one.  Its result is in ip, 0 if it fails; for nameiparent() the last     *)
(* element stays in path.                                                   *)

Namex(p, path, parent, l, r) ==
  LET i == IF path.abs THEN ROOTINO ELSE proc[p].cwd IN
  WithIget(i,
    /\ icache' = Iget(icache, i)
    /\ Goto(p, "namex", r @@ [ip |-> i, path |-> path.elems, parent |-> parent, next |-> l])
    /\ UNCHANGED <<fs, ftable, rest>>)

NoInode(i) == [ip |-> 0, put |-> <<i>>, next |-> "idle"]

NamexEnd(p) ==
  LET r == proc[p] IN
  /\ Running(p) /\ r.pc = "namex" /\ r.path = <<>>
  /\ Goto(p, r.next, IF r.parent THEN NoInode(r.ip) ELSE [next |-> "idle"])
  /\ UNCHANGED <<fs, icache, ftable, rest>>

NamexStep(p) ==
  LET r    == proc[p]
      next == Dirlookup(r.ip, Head(r.path))
      last == r.parent /\ Len(r.path) = 1
      ic   == Load(icache, r.ip) IN
  /\ Running(p) /\ r.pc = "namex" /\ r.path # <<>>
  /\ WithLock(r.ip,
       IF ic[r.ip].type # "dir" \/ (~last /\ next = 0) \/ last
       THEN /\ icache' = ic
            /\ Goto(p, r.next, IF ic[r.ip].type = "dir" /\ last THEN [next |-> "idle"]
                                                                ELSE NoInode(r.ip))
            /\ UNCHANGED <<fs, ftable, rest>>
       ELSE WithIget(next,
              /\ icache' = Iget(ic, next)
              /\ Goto(p, "namex", [ip |-> next, path |-> Tail(r.path), put |-> <<r.ip>>])
              /\ UNCHANGED <<fs, ftable, rest>>))

-----------------------------------------------------------------------------
(* sys_link                                                                 *)

\* if((ip = namei(old)) == 0) return -1; begin_trans();
LinkBegin(p) ==
  /\ Running(p) /\ proc[p].pc = "link"
  /\ IF proc[p].ip = 0
     THEN Return(p, <<>>) /\ UNCHANGED <<fs, icache, ftable, rest>>
     ELSE Begin(p, "link_ip")

\* nlink++ before the new entry is there; a directory is refused.
LinkIncr(p) ==
  LET r  == proc[p]
      ic == [Load(icache, r.ip) EXCEPT ![r.ip].nlink = @ + 1] IN
  /\ Running(p) /\ r.pc = "link_ip"
  /\ WithLock(r.ip,
       /\ IF Core(r.ip).type = "dir"
          THEN /\ icache' = Load(icache, r.ip)
               /\ PutAnd(p, "commit", <<r.ip>>)
               /\ UNCHANGED disk
          ELSE /\ icache' = ic
               /\ disk' = Iupdate(disk, ic, r.ip)
               /\ Goto(p, "link_new", [old |-> r.ip, ip |-> 0])
       /\ UNCHANGED <<committed, trans, ftable, rest>>)

LinkParent(p) ==
  /\ Running(p) /\ proc[p].pc = "link_new"
  /\ Namex(p, proc[p].call[3], TRUE, "link_dp", [call |-> proc[p].call])

\* A new entry in a directory that has itself been removed.
DeadDir(i) == IF Core(i).nlink = 0 THEN {"deaddir"} ELSE {}

\* dirlink() the new name, or go to bad.  (The reference dirlookup() takes to an
\* inode that has the name already is given back in the same step.)
LinkEntry(p) ==
  LET r  == proc[p]
      n  == Head(r.path) IN
  /\ Running(p) /\ r.pc = "link_dp"
  /\ IF r.ip = 0
     THEN Goto(p, "link_bad", [put |-> <<>>])
          /\ UNCHANGED <<fs, icache, ftable, rest>>
     ELSE WithLock(r.ip,
       /\ icache' = Load(icache, r.ip)
       /\ IF Dirlookup(r.ip, n) # 0
          THEN PutAnd(p, "link_bad", <<r.ip>>) /\ UNCHANGED <<disk, quirks>>
          ELSE /\ disk' = Dirlink(disk, r.ip, n, r.old)
               /\ quirks' = quirks \cup DeadDir(r.ip)
               /\ proc' = [proc EXCEPT ![p] = [@ EXCEPT !.pc = "commit", !.put = <<r.ip, r.old>>,
                                                        !.ip = 0, !.old = 0]]
       /\ UNCHANGED <<committed, trans, ftable, panic, crashes, prog>>)

\* Mutant: the link count that was raised stays.
LinkBad_NoUndo(p) ==
  LET r == proc[p] IN
  /\ Running(p) /\ r.pc = "link_bad"
  /\ Goto(p, "commit", [old |-> 0, put |-> <<r.old>>])
  /\ UNCHANGED <<fs, icache, ftable, rest>>

LinkBad(p) ==
  LET r  == proc[p]
      ic == [Load(icache, r.old) EXCEPT ![r.old].nlink = @ - 1] IN
  /\ Running(p) /\ r.pc = "link_bad"
  /\ WithLock(r.old,
       /\ icache' = ic
       /\ disk' = Iupdate(disk, ic, r.old)
       /\ Goto(p, "commit", [old |-> 0, put |-> <<r.old>>])
       /\ UNCHANGED <<committed, trans, ftable, rest>>)

-----------------------------------------------------------------------------
(* sys_unlink                                                               *)

UnlinkBegin(p) ==
  /\ Running(p) /\ proc[p].pc = "unlink"
  /\ IF proc[p].ip = 0
     THEN Return(p, <<>>) /\ UNCHANGED <<fs, icache, ftable, rest>>
     ELSE Begin(p, "unlink_dp")

\* ilock(dp), and dirlookup() with dp locked.
UnlinkLookup(p) ==
  LET r == proc[p]
      n == Head(r.path)
      i == Dirlookup(r.ip, n) IN
  /\ Running(p) /\ r.pc = "unlink_dp"
  /\ WithLock(r.ip,
       IF n \in {".", ".."} \/ i = 0
       THEN /\ icache' = Load(icache, r.ip)
            /\ PutAnd(p, "commit", <<r.ip>>)
            /\ UNCHANGED <<fs, ftable, rest>>
       ELSE WithIget(i,
              /\ icache' = Iget(Ilock(icache, r.ip, p), i)
              /\ Goto(p, "unlink_ip", [dp |-> r.ip, ip |-> i])
              /\ UNCHANGED <<fs, ftable, rest>>))

isdirempty(i) == \A n \in Name : disk.inode[i].ents[n] = 0

\* The link counts after removing the entry.
Unlinked(r) ==
  LET ic == Load(icache, r.ip) IN
  [ic EXCEPT ![r.ip].nlink = @ - 1,
             ![r.dp].nlink = IF ic[r.ip].type = "dir" THEN @ - 1 ELSE @]

UnlinkEntry(p) ==
  LET r  == proc[p]
      ic == Unlinked(r) IN
  /\ Running(p) /\ r.pc = "unlink_ip"
  /\ WithLock(r.ip,
       CASE Core(r.ip).nlink < 1 -> Panic("unlink: nlink < 1")
         [] Core(r.ip).nlink >= 1 /\ Core(r.ip).type = "dir" /\ ~isdirempty(r.ip) ->
              /\ icache' = Iunlock(Load(icache, r.ip), r.dp)
              /\ PutAnd(p, "commit", <<r.ip, r.dp>>)
              /\ UNCHANGED <<fs, ftable, rest>>
         [] OTHER ->
              /\ icache' = Iunlock(ic, r.dp)
              /\ disk' = Dirlink(Iupdate(Iupdate(disk, ic, r.dp), ic, r.ip), r.dp, Head(r.path), 0)
              /\ PutAnd(p, "commit", <<r.dp, r.ip>>)
              /\ UNCHANGED <<committed, trans, ftable, rest>>)

-----------------------------------------------------------------------------
(* create(), for sys_open, sys_mkdir and sys_mknod; call is <<"create",     *)
(* path, type>>.  The inode comes back locked, with dp put.                 *)

CreateBegin(p) == Running(p) /\ proc[p].pc = "create" /\ Begin(p, "create_path")

CreateParent(p) ==
  /\ Running(p) /\ proc[p].pc = "create_path"
  /\ Namex(p, proc[p].call[2], TRUE, "create_dp", [call |-> proc[p].call])

\* ialloc(): the first inode that is free on disk.
Ialloc(d) == {i \in Inum : d.inode[i].type = "none"}

CreateLookup(p) ==
  LET r   == proc[p]
      old == Dirlookup(r.ip, Head(r.path))
      new == Min(Ialloc(disk)) IN
  /\ Running(p) /\ r.pc = "create_dp"
  /\ IF r.ip = 0
     THEN PutAnd(p, "commit", <<>>)
          /\ UNCHANGED <<fs, icache, ftable, rest>>
     ELSE WithLock(r.ip,
       CASE old # 0 ->
              WithIget(old,
                /\ icache' = Iget(Load(icache, r.ip), old)
                /\ Goto(p, "create_old", [ip |-> old, put |-> <<r.ip>>])
                /\ UNCHANGED <<fs, ftable, rest>>)
         [] old = 0 /\ Ialloc(disk) = {} -> Panic("ialloc: no inodes")
         [] OTHER ->
              WithIget(new,
                /\ disk' = [disk EXCEPT !.inode[new] = [Free EXCEPT !.type = r.call[3]]]
                /\ icache' = Iget(Ilock(icache, r.ip, p), new)
                /\ Goto(p, "create_new", [dp |-> r.ip, ip |-> new])
                /\ UNCHANGED <<committed, trans, ftable, rest>>))

\* The name is there: an existing file is fine for open(), nothing else is.
CreateOld(p) ==
  LET r == proc[p] IN
  /\ Running(p) /\ r.pc = "create_old"
  /\ WithLock(r.ip,
       /\ IF r.call[3] = "file" /\ Core(r.ip).type = "file"
          THEN icache' = Ilock(icache, r.ip, p) /\ Goto(p, "commit", [next |-> "open"])
          ELSE icache' = Load(icache, r.ip) /\ PutAnd(p, "commit", <<r.ip>>)
       /\ UNCHANGED <<fs, ftable, rest>>)

\* Mutant: no dp->nlink++ for "..".
Made_NoParent(r, d) ==
  [Load(icache, r.ip) EXCEPT ![r.ip].nlink = 1,
                             ![r.ip].blks = IF r.call[3] = "dir" THEN {Balloc(d)} ELSE {}]

\* Link counts and blocks of the new inode and of its directory.
Made(r, d) ==
  [Load(icache, r.ip) EXCEPT ![r.ip].nlink = 1,
                             ![r.ip].blks = IF r.call[3] = "dir" THEN {Balloc(d)} ELSE {},
                             ![r.dp].nlink = IF r.call[3] = "dir" THEN @ + 1 ELSE @]

\* Fill in the inode, the entries of a directory, then dirlink(dp, name).
CreateNew(p) ==
  LET r   == proc[p]
      dir == r.call[3] = "dir"
      ic  == Made(r, disk)
      d   == Iupdate(Iupdate(disk, ic, r.dp), ic, r.ip) IN
  /\ Running(p) /\ r.pc = "create_new"
  /\ WithLock(r.ip,
       IF dir /\ FreeBlocks(disk) = {} THEN Panic("balloc: out of blocks")
       ELSE /\ disk' = [Dirlink(d, r.dp, Head(r.path), r.ip) EXCEPT
                 !.inode[r.ip].ents = IF dir THEN [@ EXCEPT !["."] = r.ip, ![".."] = r.dp] ELSE @,
                 !.used = @ \cup ic[r.ip].blks]
            /\ quirks' = quirks \cup DeadDir(r.dp)
                          \cup IF ic[r.ip].blks \subseteq 1 .. NBLOCKS THEN {} ELSE {"logblock"}
            /\ icache' = [Iunlock(ic, r.dp) EXCEPT ![r.ip].busy = IF r.call[3] = "file" THEN p ELSE @]
            /\ IF r.call[3] = "file"
               THEN Goto(p, "commit", [dp |-> 0, put |-> <<r.dp>>, next |-> "open"])
               ELSE PutAnd(p, "commit", <<r.dp, r.ip>>)
            /\ UNCHANGED <<committed, trans, ftable, panic, crashes, prog>>)

-----------------------------------------------------------------------------
(* sys_open, sys_chdir, exec() and reading: without a transaction.          *)

\* After namei(): only reading a directory is allowed.
OpenLookup(p) ==
  LET r == proc[p] IN
  /\ Running(p) /\ r.pc = "open_path"
  /\ IF r.ip = 0
     THEN Return(p, <<>>) /\ UNCHANGED <<fs, icache, ftable, rest>>
     ELSE WithLock(r.ip,
       /\ IF Core(r.ip).type = "dir" /\ r.call[3]
          THEN icache' = Load(icache, r.ip) /\ Return(p, <<r.ip>>)
          ELSE icache' = Ilock(icache, r.ip, p) /\ Goto(p, "open", [next |-> "idle"])
       /\ UNCHANGED <<fs, ftable, rest>>)

\* Mutant: the reference is kept when there is no file or descriptor left.
OpenFails_Leaks(p, i) == Return(p, <<>>)
OpenFails(p, i) == Return(p, <<i>>)

\* filealloc() takes the first entry without references.
FreeFiles == {g \in File : ftable[g].ref = 0}

\* filealloc() and fdalloc(), or iunlockput(ip).
Open(p) ==
  LET r == proc[p]
      f == FreeFiles IN
  /\ Running(p) /\ r.pc = "open"
  /\ icache' = Iunlock(icache, r.ip)
  /\ IF f = {} \/ r.fd # 0
     THEN OpenFails(p, r.ip) /\ UNCHANGED ftable
     ELSE /\ ftable' = [ftable EXCEPT ![Min(f)] = [ref |-> 1, ip |-> r.ip, off |-> 0,
                                          writable |-> r.call[1] = "create" \/ r.call[3]]]
          /\ proc' = [proc EXCEPT ![p] = [Gone EXCEPT !.pc = "idle", !.cwd = r.cwd, !.fd = Min(f)]]
  /\ UNCHANGED <<fs, rest>>

\* The old directory is put without a transaction.
Chdir(p) ==
  LET r == proc[p] IN
  /\ Running(p) /\ r.pc = "chdir"
  /\ IF r.ip = 0
     THEN Return(p, <<>>) /\ UNCHANGED <<fs, icache, ftable, rest>>
     ELSE WithLock(r.ip,
       /\ icache' = Load(icache, r.ip)
       /\ proc' = [proc EXCEPT ![p] =
                     IF Core(r.ip).type # "dir"
                     THEN [Gone EXCEPT !.pc = "idle", !.cwd = r.cwd, !.fd = r.fd, !.put = <<r.ip>>]
                     ELSE [Gone EXCEPT !.pc = "idle", !.cwd = r.ip, !.fd = r.fd, !.put = <<r.cwd>>]]
       /\ UNCHANGED <<fs, ftable, rest>>)

\* exec() reads the file under its lock and puts it, also without one.
Exec(p) ==
  LET r == proc[p] IN
  /\ Running(p) /\ r.pc = "exec"
  /\ IF r.ip = 0
     THEN Return(p, <<>>) /\ UNCHANGED <<fs, icache, ftable, rest>>
     ELSE WithLock(r.ip, /\ icache' = Load(icache, r.ip)
                         /\ Return(p, <<r.ip>>)
                         /\ UNCHANGED <<fs, ftable, rest>>)

-----------------------------------------------------------------------------
(* Open files.                                                              *)

\* readi() of a block at off: how far it gets.  (A device has no offset to speak of.)
Readi(i, off) == IF Core(i).type # "dev" /\ off < Cardinality(Core(i).blks) THEN 1 ELSE 0

\* fileread()
Read(p) ==
  LET f == proc[p].fd
      i == ftable[f].ip IN
  /\ f # 0
  /\ WithLock(i, /\ icache' = Load(icache, i)
                 /\ ftable' = [ftable EXCEPT ![f].off = @ + Readi(i, @)]
                 /\ UNCHANGED <<fs, proc, rest>>)

\* filestat() only makes the inode valid.
Stat(p) ==
  LET i == ftable[proc[p].fd].ip IN
  /\ proc[p].fd # 0
  /\ WithLock(i, icache' = Load(icache, i) /\ UNCHANGED <<fs, ftable, proc, rest>>)

\* filewrite() of n chunks, one transaction for each.
Write(p, n) ==
  /\ proc[p].fd # 0 /\ ftable[proc[p].fd].writable
  /\ Goto(p, "write", [n |-> n])
  /\ UNCHANGED <<fs, icache, ftable, rest>>

WriteBegin(p) ==
  /\ Running(p) /\ proc[p].pc = "write"
  /\ IF proc[p].n = 0
     THEN Return(p, <<>>) /\ UNCHANGED <<fs, icache, ftable, rest>>
     ELSE Begin(p, "write_ip")

\* bmap() allocates a block at the end of the file, where there is none yet.
Bmap(i, bn) ==
  IF bn < Cardinality(Core(i).blks) THEN Load(icache, i)
  ELSE [Load(icache, i) EXCEPT ![i].blks = @ \cup {Balloc(disk)}]

\* writei() of a block; -1 if the file cannot grow any more.  A device takes
\* what it is given.
WriteChunk(p) ==
  LET r    == proc[p]
      f    == ftable[r.fd]
      file == Core(f.ip).type = "file"
      fail == file /\ f.off = MaxBlocks
      grow == file /\ ~fail /\ f.off = Cardinality(Core(f.ip).blks)
      ic   == IF file /\ ~fail THEN Bmap(f.ip, f.off) ELSE Load(icache, f.ip) IN
  /\ Running(p) /\ r.pc = "write_ip"
  /\ WithLock(f.ip,
       IF grow /\ FreeBlocks(disk) = {} THEN Panic("balloc: out of blocks")
       ELSE /\ icache' = ic
            /\ disk' = [Iupdate(disk, ic, f.ip) EXCEPT !.used = @ \cup ic[f.ip].blks]
            /\ quirks' = IF ic[f.ip].blks \subseteq 1 .. NBLOCKS THEN quirks ELSE quirks \cup {"logblock"}
            /\ ftable' = [ftable EXCEPT ![r.fd].off = IF file /\ ~fail THEN @ + 1 ELSE @]
            /\ Goto(p, "commit", [n |-> IF fail THEN 0 ELSE r.n - 1, next |-> "write"])
            /\ UNCHANGED <<committed, trans, panic, crashes, prog>>)

\* fileclose(), on the way to label l.
FileClose(p, l) ==
  LET f == proc[p].fd IN
  /\ f # 0
  /\ IF ftable[f].ref > 1
     THEN /\ ftable' = [ftable EXCEPT ![f].ref = @ - 1]
          /\ Goto(p, l, [fd |-> 0])
     ELSE /\ ftable' = [ftable EXCEPT ![f] = NoFile]
          /\ Goto(p, "close", [fd |-> 0, ip |-> ftable[f].ip, next |-> l])
  /\ UNCHANGED <<fs, icache, rest>>

CloseBegin(p) == Running(p) /\ proc[p].pc = "close" /\ Begin(p, "close_ip")

CloseIput(p) ==
  /\ Running(p) /\ proc[p].pc = "close_ip"
  /\ PutAnd(p, "commit", <<proc[p].ip>>)
  /\ UNCHANGED <<fs, icache, ftable, rest>>

\* The part of exit() and texit() that concerns files: close the descriptors,
\* then iput(proc->cwd), without a transaction.
ExitFiles(p) == IF proc[p].fd # 0 THEN FileClose(p, "exit")
                ELSE Goto(p, "exit", [fd |-> 0])
                     /\ UNCHANGED <<fs, icache, ftable, rest>>
ExitCwd(p) ==
  /\ Running(p) /\ proc[p].pc = "exit"
  /\ proc' = [proc EXCEPT ![p] = [Gone EXCEPT !.put = <<proc[p].cwd>>]]
  /\ UNCHANGED <<fs, icache, ftable, rest>>

Idup(ic, i) == [ic EXCEPT ![i].ref = @ + 1]

Filedup(ft, f) == IF f = 0 THEN ft ELSE [ft EXCEPT ![f].ref = @ + 1]

\* fork(): filedup() and idup().
Fork(p) ==
  \E q \in Proc :
    /\ proc[q] = Gone
    /\ proc' = [proc EXCEPT ![q] = [proc[p] EXCEPT !.call = <<"none">>]]
    /\ ftable' = Filedup(ftable, proc[p].fd)
    /\ icache' = Idup(icache, proc[p].cwd)
    /\ UNCHANGED <<fs, rest>>

-----------------------------------------------------------------------------
\* A system call with its arguments.
Start(p, c) ==
  /\ Running(p) /\ proc[p].pc = "idle"
  /\ CASE c[1] = "link"   -> Namex(p, c[2], FALSE, "link", [call |-> c])
       [] c[1] = "unlink" -> Namex(p, c[2], TRUE, "unlink", [call |-> c])
       [] c[1] = "open"   -> Namex(p, c[2], FALSE, "open_path", [call |-> c])
       [] c[1] = "chdir"  -> Namex(p, c[2], FALSE, "chdir", [call |-> c])
       [] c[1] = "exec"   -> Namex(p, c[2], FALSE, "exec", [call |-> c])
       [] c[1] = "create" -> Goto(p, "create", [call |-> c])
                             /\ UNCHANGED <<fs, icache, ftable, rest>>
       [] c[1] = "read"   -> Read(p)
       [] c[1] = "fstat"  -> Stat(p)
       [] c[1] = "write"  -> Write(p, c[2])
       [] c[1] = "close"  -> FileClose(p, "idle")
       [] c[1] = "fork"   -> Fork(p)
       [] c[1] = "exit"   -> p # InitProc /\ ExitFiles(p)

\* What a process does inside the kernel.
Step(p) ==
  \/ Iput(p) \/ NamexStep(p) \/ NamexEnd(p) \/ Commit(p)
  \/ LinkBegin(p) \/ LinkIncr(p) \/ LinkParent(p) \/ LinkEntry(p) \/ LinkBad(p)
  \/ UnlinkBegin(p) \/ UnlinkLookup(p) \/ UnlinkEntry(p)
  \/ CreateBegin(p) \/ CreateParent(p) \/ CreateLookup(p) \/ CreateOld(p) \/ CreateNew(p)
  \/ OpenLookup(p) \/ Open(p) \/ Chdir(p) \/ Exec(p)
  \/ WriteBegin(p) \/ WriteChunk(p) \/ CloseBegin(p) \/ CloseIput(p) \/ ExitCwd(p)

\* The machine stops, the log is recovered, and init runs again.
Crash ==
  /\ crashes < MaxCrashes
  /\ crashes' = crashes + 1
  /\ disk' = committed
  /\ trans' = NoProc
  /\ icache' = BootCache
  /\ ftable' = [f \in File |-> NoFile]
  /\ proc' = BootProc
  /\ panic' = "none"
  /\ UNCHANGED <<committed, quirks, prog>>

Next ==
  \/ \E p \in Proc : Step(p) \/ \E c \in prog[p] : Start(p, c)
  \/ Crash
  \/ panic # "none" /\ UNCHANGED vars

Spec == Init /\ [][Next]_vars

-----------------------------------------------------------------------------
(* Correctness.                                                             *)

Types == {"none", "dir", "file", "dev"}
DiskType ==
  [inode : [Inum -> [type : Types, nlink : Nat, blks : SUBSET (1 .. SIZE), ents : [Entry -> 0 .. NINODES]]],
   used  : SUBSET (1 .. SIZE)]

TypeOK ==
  /\ disk \in DiskType /\ committed \in DiskType
  /\ trans \in Proc \cup {NoProc}
  /\ icache \in [Inum -> [ref : Nat, valid : BOOLEAN, busy : Proc \cup {NoProc},
                          type : Types, nlink : Nat, blks : SUBSET (1 .. SIZE)]]
  /\ \A f \in File : ftable[f].ref \in Nat /\ ftable[f].ip \in 0 .. NINODES
  /\ \A p \in Proc : LET r == proc[p] IN
       /\ {r.cwd, r.ip, r.dp, r.old} \subseteq 0 .. NINODES
       /\ r.fd \in 0 .. NFILE /\ r.free \in 0 .. 2
  /\ quirks \subseteq {"stray", "deaddir", "logblock"}

\* How many pointers to i process p has.
Pointers(p, i) ==
  LET r == proc[p] IN
  Cardinality({x \in {"cwd", "ip", "dp", "old"} : r[x] = i})
    + Cardinality({k \in DOMAIN r.put : r.put[k] = i})

\* fs.c: "ip->ref tracks the number of in-memory pointers to the entry (open
\* files and current directories)".  No path through the calls, the error paths
\* included, loses a reference or drops one twice, of inodes and of files; and
\* the copy of an inode that is valid and not locked is what the disk has.
CacheRight ==
  /\ TypeOK
  /\ \A i \in Inum :
       icache[i].ref = MapThenSumSet(LAMBDA p : Pointers(p, i), Proc)
                         + Cardinality({f \in File : ftable[f].ref > 0 /\ ftable[f].ip = i})
  /\ \A f \in File : ftable[f].ref = Cardinality({p \in Proc : proc[p].fd = f})
  /\ \A i \in Inum :
       LET c == icache[i]
           d == disk.inode[i] IN
       c.ref > 0 /\ c.valid /\ c.busy = NoProc =>
         c.type = d.type /\ c.nlink = d.nlink /\ c.blks = d.blks

\* Entries that count as links: those of directories that are linked, but not ".".
Links(d, i) ==
  {e \in Inum \X (Name \cup {".."}) :
     LET x == d.inode[e[1]] IN x.type = "dir" /\ x.nlink > 0 /\ x.ents[e[2]] = i}

\* The file system on disk is sound after every commit, and so after every
\* crash: link counts agree with the directories, entries lead to inodes, blocks
\* belong to one inode and the bitmap has exactly those.  An inode without links
\* is on disk only as long as somebody uses it, or a crash left it there.
CommittedSound ==
  quirks = {} =>
    /\ \A i \in Inum :
         /\ committed.inode[i].nlink = Cardinality(Links(committed, i))
         /\ Links(committed, i) # {} => committed.inode[i].type # "none"
         /\ committed.inode[i].type = "none" => committed.inode[i].blks = {}
         /\ \A j \in Inum \ {i} : committed.inode[i].blks \cap committed.inode[j].blks = {}
    /\ committed.used = UNION {committed.inode[i].blks : i \in Inum}
    /\ crashes = 0 /\ panic = "none" =>
         \A i \in Inum : disk.inode[i].type # "none" /\ disk.inode[i].nlink = 0 => icache[i].ref > 0

\* The kernel panics only when a table is full, in iput() outside of a
\* transaction, or on the ".." of a removed directory.
NoPanic ==
  quirks = {} =>
    /\ panic \in {"none", "write outside of trans", "ilock: no type", "iget: no inodes",
                  "ialloc: no inodes", "balloc: out of blocks"}
    /\ panic = "ilock: no type" =>
         \E i \in Inum : LET d == disk.inode[i] IN
           /\ d.type = "dir" /\ d.nlink = 0
           /\ disk.inode[d.ents[".."]].type = "none"

\* log.c: "Each system call that might write the file system should be
\* surrounded with begin_trans() and commit_trans() calls."
InTransaction == panic # "write outside of trans" /\ "stray" \notin quirks

\* Inode locks and the transaction are taken in an order that leaves nobody
\* stuck: as long as processes are in the kernel, one of them can go on.
SomebodyMoves ==
  LET inside == {p \in Proc : proc[p].pc \notin {"idle", "gone"} \/ proc[p].put # <<>>} IN
  panic = "none" /\ inside # {} => \E p \in inside : ENABLED Step(p)
=============================================================================
