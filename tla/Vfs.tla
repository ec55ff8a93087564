-------------------------------- MODULE Vfs --------------------------------
(***************************************************************************)
(* Names: the archive parsed at boot (vfs/initramfs.rs), the directories   *)
(* of rootfs, the devices of devfs, the mount table, path resolution and   *)
(* the calls that take a path or use the vnode it led to (vfs/mod.rs).     *)
(*                                                                         *)
(* A path is the sequence of its tokens.  A token <<s, n>> is the first n  *)
(* bytes of the text s, so that lengths and cut names are those of the     *)
(* code.  There is one process with one descriptor: the calls are atomic,  *)
(* and what the others share with it is the kernel heap (OtherHeap).  The  *)
(* vnodes of archive files come from that heap and are never given back.   *)
(***************************************************************************)
EXTENDS Integers, Sequences, SequencesExt, FiniteSetsExt

CONSTANTS Archives,              \* the archives the kernel may be built with
          Paths,                 \* the paths programs pass
          PATH_MAX,              \* 256 in the code
          VFS_MAX_COMPONENTS,    \* 16
          MAX_INITRAMFS_ENTRIES, \* 128
          USTAR_BLOCK_SIZE,      \* 512
          MAX_MOUNTS,            \* 4
          MAX_CHARDEVS,          \* 8
          HeapVnodes             \* bound: vnodes that fit into the heap

ASSUME VfsAssumption ==
  /\ {PATH_MAX, VFS_MAX_COMPONENTS, MAX_INITRAMFS_ENTRIES, USTAR_BLOCK_SIZE} \subseteq Nat \ {0}
  /\ MAX_MOUNTS \in Nat /\ MAX_CHARDEVS \in Nat
  /\ HeapVnodes \in Nat

Sep == <<"/", 1>>
Dot == <<".", 1>>
DotDot == <<"..", 2>>
Sbin == <<"sbin", 4>>
Bin == <<"bin", 3>>
Etc == <<"etc", 3>>
Dev == <<"dev", 3>>
Null == <<"null", 4>>
Zero == <<"zero", 4>>
TtyS0 == <<"ttyS0", 5>>
InitPath == <<Sep, Sbin, Sep, <<"init", 4>>>>

Bytes(text) ==
  LET sum[i \in 0..Len(text)] == IF i = 0 THEN 0 ELSE sum[i - 1] + text[i][2] IN sum[Len(text)]

\* The first n bytes of a token, and of a text.
Part(t, n) == IF t = DotDot THEN Dot ELSE <<t[1], n>>
Cut(text, n) ==
  LET k == Max({j \in 0..Len(text) : Bytes(SubSeq(text, 1, j)) <= n})
      whole == SubSeq(text, 1, k)
      left == n - Bytes(whole)
  IN IF k = Len(text) \/ left = 0 THEN whole ELSE Append(whole, Part(text[k + 1], left))

VARIABLES members,   \* what was put into the archive, in order
          entries,   \* INITRAMFS_ENTRIES
          mounts,    \* MOUNT_TABLE: <<path, root vnode>>
          devMount,  \* DEV_DIR.mount
          chardevs,  \* CHARDEV_TABLE: names with their vnodes
          proc,      \* "none" before PID 1 exists, "live", or "halted"
          cwd,       \* Process.cwd, up to its NUL
          file,      \* the vnode the descriptor is open on, or NoNode
          vnodes,    \* vnodes built for archive files so far
          others     \* heap space in other use, counted in vnodes

vfsVars == <<members, entries, mounts, devMount, chardevs, proc, cwd, file, vnodes, others>>
bootVars == <<members, entries, mounts, devMount, chardevs>>

-----------------------------------------------------------------------------
(* Vnodes *)

Vnode(fs, mode, ino, data, size) ==
  [fs |-> fs, mode |-> mode, ino |-> ino, data |-> data, size |-> size]

NoNode == Vnode("none", "none", 0, <<>>, 0)
RootDir == Vnode("root", "dir", 0, <<>>, 0)
DevDir == Vnode("root", "dir", 4, <<>>, 0)
StaticDir(name) ==
  CASE name = Sbin -> Vnode("root", "dir", 1, <<Sbin>>, 0)
    [] name = Bin -> Vnode("root", "dir", 2, <<Bin>>, 0)
    [] name = Etc -> Vnode("root", "dir", 3, <<Etc>>, 0)
    [] name = Dev -> DevDir
    [] OTHER -> NoNode
DevRoot == Vnode("dev", "dir", 0, <<>>, 0)
Device(name, ino) == Vnode("dev", "chr", ino, <<name>>, 0)

-----------------------------------------------------------------------------
(* The archive and its entries *)

\* The data blocks of a file, rounded up.
DataBlocks(size) == (size + USTAR_BLOCK_SIZE - 1) \div USTAR_BLOCK_SIZE

\* How tar lays out members: a header each, its data, a zero block at the
\* end.  The data of a file may look like a header.
Layout(ms) ==
  FoldLeft(LAMBDA acc, m : acc \o <<[kind |-> "header", m |-> m]>>
                               \o [i \in 1..DataBlocks(m.size) |-> [kind |-> m.data, m |-> m]],
           <<>>, ms) \o <<[kind |-> "zero"]>>

\* Mutant: a file that ends at a block boundary is skipped one block too far.
Skip_Next(size) == size \div USTAR_BLOCK_SIZE + 1

Skip(size) == IF size > 0 THEN DataBlocks(size) ELSE 0

\* The two passes of initramfs_init walk alike; the first stops at the limit.
InitramfsInit(arc) ==
  LET walk[off \in Nat] ==
        IF off >= Len(arc) \/ arc[off + 1].kind = "zero" THEN <<>>
        ELSE IF arc[off + 1].kind # "header" THEN walk[off + 1]
        ELSE LET m == arc[off + 1].m
             IN <<[name |-> m.name, type |-> m.type, size |-> m.size]>> \o walk[off + 1 + Skip(m.size)]
      all == walk[0]
  IN SubSeq(all, 1, Min({Len(all), MAX_INITRAMFS_ENTRIES}))

\* initramfs_find: the indices of the entries of that name.
InitramfsFind(name) == {i \in DOMAIN entries : entries[i].name = name}

EntryVnode(i) ==
  Vnode("init", IF entries[i].type = "dir" THEN "dir" ELSE "file", 0, entries[i].name, entries[i].size)

\* initramfs_build_vnode, with room for that many vnodes in the heap.
InitramfsBuildVnode(name, room) ==
  IF InitramfsFind(name) = {} \/ room = 0 THEN NoNode ELSE EntryVnode(Min(InitramfsFind(name)))

-----------------------------------------------------------------------------
(* Lookup of one name: a vnode or an error, and the vnodes it took *)

Ok(node, took) == [err |-> "none", node |-> node, took |-> took]
Fail(err, took) == [err |-> err, node |-> NoNode, took |-> took]

ChardevFind(name) == {i \in DOMAIN chardevs : chardevs[i][1] = name}

\* Mutant: a directory is given a vnode, too, while there is room.
RootfsLookup_Builds(dir, name, room) ==
  LET child == Append(IF dir.data = <<>> THEN <<>> ELSE Append(dir.data, Sep), name)
      found == InitramfsFind(child)
  IN CASE dir.ino = 0 /\ StaticDir(name) # NoNode -> Ok(StaticDir(name), Min({room, 1}))
       [] Bytes(child) > PATH_MAX -> Fail("ENAMETOOLONG", 0)
       [] found = {} \/ entries[Min(found)].type = "dir" -> Fail("ENOENT", 0)
       [] room = 0 -> Fail("ENOMEM", 0)
       [] OTHER -> Ok(EntryVnode(Min(found)), 1)

RootfsLookup(dir, name, room) ==
  LET child == Append(IF dir.data = <<>> THEN <<>> ELSE Append(dir.data, Sep), name)
      found == InitramfsFind(child)
      built == InitramfsBuildVnode(child, room)
  IN CASE dir.ino = 0 /\ StaticDir(name) # NoNode -> Ok(StaticDir(name), 0)
       [] Bytes(child) > PATH_MAX -> Fail("ENAMETOOLONG", 0)
       [] found = {} \/ entries[Min(found)].type = "dir" -> Fail("ENOENT", 0)
       [] built = NoNode -> Fail("ENOMEM", 0)
       [] OTHER -> Ok(built, 1)

\* devfs_lookup does not look at the directory; an archive vnode has no names.
VfsLookup(dir, name, room) ==
  CASE dir.fs = "root" -> RootfsLookup(dir, name, room)
    [] dir.fs = "dev" /\ ChardevFind(name) # {} -> Ok(chardevs[Min(ChardevFind(name))][2], 0)
    [] OTHER -> Fail("ENOENT", 0)

-----------------------------------------------------------------------------
(* Resolution of a path *)

\* Pass 1 of vfs_resolve: the positions of the components that are left when
\* "." and ".." are dealt with, and whether there were too many.
Collect(text) ==
  LET upTo[i \in 0..Len(text)] ==
        LET acc == upTo[i - 1] IN
        CASE i = 0 -> [at |-> <<>>, over |-> FALSE]
          [] text[i] = Sep \/ acc.over -> acc
          [] Len(acc.at) >= VFS_MAX_COMPONENTS -> [acc EXCEPT !.over = TRUE]
          [] text[i] = DotDot -> [acc EXCEPT !.at = IF @ = <<>> THEN @ ELSE Front(@)]
          [] text[i] = Dot -> acc
          [] OTHER -> [acc EXCEPT !.at = Append(@, i)]
  IN upTo[Len(text)]

\* Mutant: the mounted root is not followed.
Follow_Ignored(node) == node

\* Only DEV_DIR is a mount point.
Follow(node) == IF node = DevDir /\ devMount # NoNode THEN devMount ELSE node

\* One step of pass 2.  When a name is not found, the text so far is looked up
\* in the archive as it is written, and ends the resolution if it is there.
Step(text, at, room, acc) ==
  LET r == VfsLookup(acc.node, text[at], room - acc.took)
      start == Min({j \in DOMAIN text : text[j] # Sep})
      built == InitramfsBuildVnode(SubSeq(text, start, at), room - acc.took - r.took)
  IN CASE acc.done -> acc
       [] r.err = "none" -> [acc EXCEPT !.node = Follow(r.node), !.took = @ + r.took]
       [] built # NoNode -> [acc EXCEPT !.node = built, !.took = @ + 1, !.done = TRUE]
       [] OTHER -> [acc EXCEPT !.err = r.err, !.node = NoNode, !.done = TRUE]

VfsResolve(text, room) ==
  LET comps == Collect(text)
      after[k \in 0..Len(comps.at)] ==
        IF k = 0 THEN [err |-> "none", node |-> mounts[1][2], took |-> 0, done |-> FALSE]
        ELSE Step(text, comps.at[k], room, after[k - 1])
      last == after[Len(comps.at)]
  IN CASE mounts = <<>> -> Fail("ENODEV", 0)
       [] comps.over -> Fail("ENAMETOOLONG", 0)
       [] OTHER -> [err |-> last.err, node |-> last.node, took |-> last.took]

IsAbsolute(path) == path # <<>> /\ path[1] = Sep

\* The directory with a separator, ready for a relative path.
WithSep(dir) == IF dir = <<>> \/ Last(dir) # Sep THEN Append(dir, Sep) ELSE dir

Full(dir, path) == IF IsAbsolute(path) THEN path ELSE WithSep(dir) \o path

VfsResolveRelative(dir, path, room) ==
  IF ~IsAbsolute(path) /\ (\/ WithSep(dir) # dir /\ Bytes(dir) >= PATH_MAX - 1
                           \/ Bytes(Full(dir, path)) > PATH_MAX)
  THEN Fail("ENAMETOOLONG", 0)
  ELSE VfsResolve(Full(dir, path), room)

-----------------------------------------------------------------------------
(* Boot *)

VfsInitial ==
  /\ members \in Archives
  /\ entries = <<>> /\ mounts = <<>> /\ devMount = NoNode /\ chardevs = <<>>
  /\ proc = "none" /\ cwd = <<>> /\ file = NoNode
  /\ vnodes = 0 /\ others = 0

\* mount_add: a full table refuses.
MountAdd(table, path, root) ==
  IF Len(table) >= MAX_MOUNTS THEN table ELSE Append(table, <<path, root>>)

\* mount_find: the root mounted under exactly that path.
MountFind(table, path) ==
  LET found == {i \in DOMAIN table : table[i][1] = path}
  IN IF found = {} THEN NoNode ELSE table[Min(found)][2]

RegisterChardev(table, name, ino) ==
  IF Len(table) >= MAX_CHARDEVS THEN table ELSE Append(table, <<name, Device(name, ino)>>)

\* Mutant: the terminal is not registered.
DevfsInit_NoTty == RegisterChardev(RegisterChardev(<<>>, Null, 1), Zero, 2)

DevfsInit ==
  RegisterChardev(RegisterChardev(RegisterChardev(<<>>, Null, 1), Zero, 2), TtyS0, 3)

VfsInit ==
  LET table == MountAdd(MountAdd(<<>>, <<Sep>>, RootDir), <<Sep, Dev>>, DevRoot) IN
  /\ mounts = <<>>
  /\ entries' = InitramfsInit(Layout(members))
  /\ chardevs' = DevfsInit
  /\ mounts' = table
  /\ devMount' = MountFind(table, <<Sep, Dev>>)
  /\ UNCHANGED <<members, proc, cwd, file, vnodes, others>>

Room == HeapVnodes - vnodes - others

\* spawn_init: PID 1 comes from /sbin/init and starts in the root directory
\* with the terminal open; without a program there is nothing to run.
SpawnInit ==
  LET r == VfsResolve(InitPath, Room) IN
  /\ mounts # <<>> /\ proc = "none"
  /\ vnodes' = vnodes + r.took
  /\ \/ /\ r.node.size > 0
        /\ proc' = "live" /\ cwd' = <<Sep>>
        /\ file' = Device(TtyS0, 3)
     \/ /\ r.node.size = 0
        /\ proc' = "halted"
        /\ UNCHANGED <<cwd, file>>
  /\ UNCHANGED <<bootVars, others>>

-----------------------------------------------------------------------------
(* System calls.  open() and exec() resolve from the root, stat() and      *)
(* chdir() from the working directory.                                     *)

\* cstr_from_user: the copy of the path and its NUL have PATH_MAX bytes.
TooLong(path) == Bytes(path) >= PATH_MAX

Lookup(path) == IF TooLong(path) THEN Fail("ENAMETOOLONG", 0) ELSE VfsResolve(path, Room)
LookupHere(path) ==
  IF TooLong(path) THEN Fail("ENAMETOOLONG", 0) ELSE VfsResolveRelative(cwd, path, Room)

\* With no descriptor free open() has taken the vnode all the same.
SysOpen(path) ==
  LET r == Lookup(path) IN
  /\ vnodes' = vnodes + r.took
  /\ file' = IF r.err = "none" /\ file = NoNode THEN r.node ELSE file
  /\ UNCHANGED <<bootVars, proc, cwd, others>>

\* The lookups of exec() and stat(): no more than a vnode is left of them.
SysExec(path) ==
  /\ vnodes' = vnodes + Lookup(path).took
  /\ UNCHANGED <<bootVars, proc, cwd, file, others>>

SysStat(path) ==
  /\ vnodes' = vnodes + LookupHere(path).took
  /\ UNCHANGED <<bootVars, proc, cwd, file, others>>

\* Mutant: any vnode will do as a working directory.
SysChdir_AnyNode(path) ==
  LET r == LookupHere(path) IN
  /\ vnodes' = vnodes + r.took
  /\ cwd' = IF r.err = "none" THEN Cut(Full(cwd, path), PATH_MAX - 1) ELSE cwd
  /\ UNCHANGED <<bootVars, proc, file, others>>

\* Mutant: a relative path is stored as if it were relative to the root.
SysChdir_FromRoot(path) ==
  LET r == LookupHere(path) IN
  /\ vnodes' = vnodes + r.took
  /\ cwd' = IF r.err = "none" /\ r.node.mode = "dir"
            THEN Cut(Full(<<Sep>>, path), PATH_MAX - 1) ELSE cwd
  /\ UNCHANGED <<bootVars, proc, file, others>>

\* chdir() stores the joined text, neither normalised nor, at PATH_MAX bytes,
\* complete.
SysChdir(path) ==
  LET r == LookupHere(path) IN
  /\ vnodes' = vnodes + r.took
  /\ cwd' = IF r.err = "none" /\ r.node.mode = "dir"
            THEN Cut(Full(cwd, path), PATH_MAX - 1) ELSE cwd
  /\ UNCHANGED <<bootVars, proc, file, others>>

\* The names getdents() lists: rootfs_readdir has the children of the root only,
\* devfs_readdir a table of its own, and every call begins at the first name.
\* (The type of an entry is truncated to its low byte, which is 0.)
Readdir(node) ==
  CASE node = RootDir -> <<Dot, DotDot, Sbin, Bin, Etc, Dev>>
    [] node = DevRoot -> <<Dot, DotDot, Null, Zero, TtyS0>>
    [] node.fs = "root" /\ node # RootDir -> <<Dot, DotDot>>
    [] OTHER -> <<>>

SysClose ==
  /\ file # NoNode
  /\ file' = NoNode
  /\ UNCHANGED <<bootVars, proc, cwd, vnodes, others>>

\* Pipes of other processes come and go in the same heap.
OtherHeap ==
  /\ others' \in 0..(HeapVnodes - vnodes)
  /\ UNCHANGED <<bootVars, proc, cwd, file, vnodes>>

Syscall ==
  \/ \E path \in Paths : SysOpen(path)
  \/ \E path \in Paths : SysExec(path)
  \/ \E path \in Paths : SysStat(path)
  \/ \E path \in Paths : SysChdir(path)
  \/ SysClose
  \/ OtherHeap

VfsNext == VfsInit \/ SpawnInit \/ (proc = "live" /\ Syscall)

VfsSpec == VfsInitial /\ [][VfsNext]_vfsVars

-----------------------------------------------------------------------------
(* What the names mean, without the tables and buffers of the code *)

\* The components of a text once "." and ".." are taken away.
Normal(text) ==
  FoldLeft(LAMBDA acc, t : CASE t \in {Sep, Dot} -> acc
                             [] t = DotDot -> IF acc = <<>> THEN acc ELSE Front(acc)
                             [] OTHER -> Append(acc, t), <<>>, text)

Devices == <<Null, Zero, TtyS0>>
Joined(comps) ==
  FoldLeft(LAMBDA acc, t : IF acc = <<>> THEN <<t>> ELSE acc \o <<Sep, t>>, <<>>, comps)

\* The members the table has room for.
Kept == SubSeq(members, 1, Min({Len(members), MAX_INITRAMFS_ENTRIES}))
KeptFiles == {m \in Range(Kept) : m.type = "file"}

\* A file of the archive is in the tree if it lies in the root or in one of the
\* three directories.
FilesAt(comps) ==
  {m \in KeptFiles :
     /\ m.name = Joined(comps)
     /\ \/ Len(comps) = 1 /\ StaticDir(comps[1]) = NoNode
        \/ Len(comps) = 2 /\ comps[1] \in {Sbin, Bin, Etc}}

\* The vnode a path names: a directory, a device in /dev, or such a file.
TreeNode(comps) ==
  CASE comps = <<>> -> RootDir
    [] comps = <<Dev>> -> DevRoot
    [] Len(comps) = 1 /\ StaticDir(comps[1]) # NoNode -> StaticDir(comps[1])
    [] \E i \in 1..3 : comps = <<Dev, Devices[i]>> ->
         Device(comps[2], CHOOSE i \in 1..3 : Devices[i] = comps[2])
    [] FilesAt(comps) # {} ->
         LET m == CHOOSE m \in FilesAt(comps) : TRUE IN Vnode("init", "file", 0, m.name, m.size)
    [] OTHER -> NoNode

\* devfs_lookup ignores the directory it is asked about, so that below a device
\* there is /dev again.
Alias(comps) ==
  IF Len(comps) > 2 /\ comps[1] = Dev /\ \A i \in 2..Len(comps) : comps[i] \in Range(Devices)
  THEN <<Dev, Last(comps)>> ELSE comps

\* The path leads to or through a file of the archive.
MeetsFile(comps) == \E k \in 1..Len(comps) : FilesAt(SubSeq(comps, 1, k)) # {}

-----------------------------------------------------------------------------
(* Properties *)

\* Tables and texts stay within the limits of the code.
VfsTypeOK ==
  /\ Len(entries) <= MAX_INITRAMFS_ENTRIES
  /\ Len(mounts) <= MAX_MOUNTS /\ Len(chardevs) <= MAX_CHARDEVS
  /\ proc \in {"none", "live", "halted"}
  /\ Bytes(cwd) <= PATH_MAX - 1
  /\ vnodes + others \in 0..HeapVnodes

\* initramfs_init finds the members that were put into the archive, in order
\* and up to the limit of the table, although the contents of a file may look
\* like a header and files end anywhere in a block.
ArchiveParsed ==
  mounts # <<>> =>
    entries = [i \in DOMAIN Kept |-> [name |-> Kept[i].name, type |-> Kept[i].type, size |-> Kept[i].size]]

\* Whatever was called before, a path call comes to the vnode that the
\* normalised path names in the tree, however it is spelled, and it fails only
\* for a reason: the path names nothing, a file of the archive is met and the
\* heap is full, or the text is longer or deeper than the limits (vfs_resolve,
\* vfs_resolve_relative and the lookups).
ResolvesAsTree ==
  proc = "live" =>
    \A path \in Paths :
      LET r == LookupHere(path)
          text == Full(cwd, path)
          comps == Alias(Normal(text))
      IN CASE r.err = "none" -> r.node = TreeNode(comps)
           [] r.err = "ENOENT" -> TreeNode(comps) = NoNode
           [] r.err = "ENOMEM" -> Room = 0 /\ MeetsFile(comps)
           [] r.err = "ENAMETOOLONG" ->
                \/ Bytes(text) >= PATH_MAX
                \/ Len(SelectSeq(text, LAMBDA t : t # Sep)) > VFS_MAX_COMPONENTS

\* The working directory names a directory at all times, for any sequence of
\* chdir() calls and with an exhausted heap, unless its text has all the
\* PATH_MAX - 1 bytes there are: resolution accepts one byte more than chdir()
\* can store, and the text is then cut.  The text always fits, with its NUL.
CwdNamesDirectory ==
  /\ VfsTypeOK
  /\ proc = "live" =>
       VfsResolve(cwd, 0).node.mode = "dir" \/ Bytes(cwd) = PATH_MAX - 1

\* chdir() ends in the directory it resolved and checked; the exception is the
\* cut text.
ChdirLands ==
  [][proc = "live" /\ cwd' # cwd =>
       \A path \in Paths :
         SysChdir(path) => \/ VfsResolve(cwd', 0).node = LookupHere(path).node
                           \/ Bytes(Full(cwd, path)) = PATH_MAX]_vfsVars

\* What getdents() lists of the open directory can be looked up there without
\* any memory, each name as a vnode of its own.
ListedResolves ==
  LET names == Range(Readdir(file)) \ {Dot, DotDot}
      found == [name \in names |-> VfsLookup(file, name, 0)]
  IN /\ \A name \in names : found[name].err = "none"
     /\ \A m, n \in names : found[m].node = found[n].node => m = n

\* A lookup takes at most one vnode of the heap, and only when its path leads to
\* or through a file of the archive: the vnodes are never given back, but
\* directories and devices can be used when the heap is exhausted.
OnlyFilesTakeVnodes ==
  proc = "live" =>
    \A path \in Paths :
      LookupHere(path).took \in (IF MeetsFile(Normal(Full(cwd, path))) THEN {0, 1} ELSE {0})
=============================================================================
