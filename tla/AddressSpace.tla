---------------------------- MODULE AddressSpace ----------------------------
(***************************************************************************)
(* Physical frames and the page tables that own them: create_pml4,         *)
(* destroy_uncommitted_pml4, the scratch mapping of fork and the mapping   *)
(* functions of paging.rs; the flat loader of process.rs and the ELF       *)
(* loader of elf.rs with their rollbacks; fork, exec, waitpid's reaping,   *)
(* brk and mmap as far as they take and give back frames.                  *)
(*                                                                         *)
(* A system call runs with interrupts off, so nothing interleaves with it; *)
(* it is still a sequence of steps here, one for each pmm.alloc(), because *)
(* any of them may find no frame and start the call's way out.  `op' is    *)
(* the call in progress.                                                   *)
(*                                                                         *)
(* Virtual pages are numbered from 0.  A page table spans PT_PAGES pages   *)
(* (512 in the code) and a page directory PD_PAGES (512 * 512).  The pages *)
(* below USER_CODE are the kernel's identity map: huge pages that every    *)
(* address space shares and nobody frees, so only the tables above them    *)
(* show.  KERNEL_SCRATCH_VA is the first page of the second directory.     *)
(* Modelled are the pages below PML4[1].                                   *)
(***************************************************************************)
EXTENDS Integers, FiniteSets, FiniteSetsExt, Sequences

CONSTANTS NFRAMES,       \* frames of physical memory
          NPROCS,        \* the processes that are modelled
          KSTACK_PAGES,  \* pages of a kernel stack
          PT_PAGES, PD_PAGES,
          USER_CODE,     \* first user page
          UserPages,     \* the user pages that programs map
          Images,        \* the executables: [elf, load, stack], see Exec
          BRK_START, BRK_MAX,
          MmapFixed,     \* pages mapped with MAP_FIXED
          CHUNK_COUNT, CHUNK_CAP  \* ELF provenance arena

Frames == 1..NFRAMES
Procs == 1..NPROCS
KERNEL_SCRATCH == PD_PAGES

Divides(a, b) == b % a = 0

\* A flat image lies below FLAT_USER_LIMIT, which is the start of the heap, and
\* its pages follow one another.
GoodImage(image) ==
  /\ image \in [elf : BOOLEAN, load : Seq(UserPages), stack : Seq(UserPages)]
  /\ ~image.elf =>
       LET pages == image.load \o image.stack
       IN \A i, j \in DOMAIN pages : pages[i] < BRK_START /\ (pages[i] = pages[j] => i = j)

ASSUME SpaceAssumption ==
  /\ NFRAMES \in Nat /\ NPROCS \in Nat \ {0} /\ KSTACK_PAGES \in Nat \ {0}
  /\ PT_PAGES \in Nat \ {0} /\ PD_PAGES \in Nat \ {0} /\ Divides(PT_PAGES, PD_PAGES)
  /\ USER_CODE \in Nat /\ Divides(PT_PAGES, USER_CODE) /\ USER_CODE < PD_PAGES
  /\ UserPages \subseteq Nat /\ \A v \in UserPages : v >= USER_CODE
  /\ KERNEL_SCRATCH \notin UserPages
  /\ BRK_START \in Nat /\ BRK_MAX \in Nat /\ BRK_START <= BRK_MAX /\ BRK_START <= PD_PAGES
  /\ BRK_START..(BRK_MAX - 1) \subseteq UserPages
  /\ MmapFixed \subseteq UserPages \union {KERNEL_SCRATCH}
  /\ CHUNK_COUNT \in Nat /\ CHUNK_CAP \in Nat \ {0}
  /\ \A image \in Images : GoodImage(image)

\* An entry of the tree: <<level, first page it covers>>, with the PML4 at
\* level 0, then PDPT, PD, PT, and the user pages themselves at level 4.
Span(k) == CASE k = 4 -> 1 [] k = 3 -> PT_PAGES [] k = 2 -> PD_PAGES

\* The entry of level k on the walk to page v.
At(k, v) == <<k, IF k < 2 THEN 0 ELSE v - (v % Span(k))>>

Entries == {At(k, v) : k \in 0..4, v \in UserPages \union {USER_CODE}}
             \union {At(k, KERNEL_SCRATCH) : k \in 2..3}

Leaves == {e \in Entries : e[1] = 4}

\* A walk meets the entries in this order.
Rank(e) == 5 * e[2] + e[1]
First(E) == CHOOSE e \in E : \A f \in E : Rank(e) <= Rank(f)

\* f lies in the subtree of table e.
Beneath(e, f) == f[1] > e[1] /\ At(e[1], f[2]) = e

\* An address space: the frame of each entry, 0 where it is not present.
NoSpace == [e \in Entries |-> 0]
Mapped(s) == {e \in Entries : s[e] # 0}
FramesOf(s) == {s[e] : e \in Mapped(s)}

VARIABLES free,    \* frames whose bit of PMM_BITMAP is clear
          space,   \* space[p]: what hangs below pml4_phys of p
          kstack,  \* kernel_stack_base of p, 0 for an empty slot
          brk,     \* the break of p, in pages
          pool,    \* chunks of PROVENANCE_POOL that are free
          op       \* the call in progress

spaceVars == <<free, space, kstack, brk, pool, op>>

\* op.call is the call, op.step its stage; root is the uncommitted address
\* space, page the frame allocated and not yet mapped, todo the pages still to
\* map; tracked, claimed and used are LoadedPages; made the scratch tables that
\* fork added to the parent; before and parent what the call found.
Idle == [call |-> "none", step |-> "none", p |-> 0, root |-> NoSpace, page |-> 0,
         todo |-> <<>>, stack |-> <<>>, tracked |-> {}, claimed |-> 0, used |-> 0,
         kstack |-> 0, made |-> {}, brk |-> 0, before |-> {}, parent |-> NoSpace]

Live(p) == kstack[p] # 0
Run(base) == base..(base + KSTACK_PAGES - 1)

\* What alloc() returns, where it does not fail.
NextFrame == Min(free)

-----------------------------------------------------------------------------
(* paging.rs: tearing down *)

\* The entries destroy_uncommitted_pml4 gets to.
Walk(s) == {e \in Mapped(s) : \A k \in 0..(e[1] - 1) : s[At(k, e[2])] # 0}

\* destroy_uncommitted_pml4: the frames it frees, user leaves included.
Destroyed(s) == {s[e] : e \in Walk(s)}

ScratchTables == {At(2, KERNEL_SCRATCH), At(3, KERNEL_SCRATCH)}

\* Mutant: the scratch tables go, borrowed or not.
ScratchLeft_Borrowed(s, made) == ScratchTables \intersect Mapped(s)

\* cleanup_kernel_scratch: the tables that this fork added, if still empty.
ScratchLeft(s, made) ==
  LET pt == {e \in made : e[1] = 3 /\ ~\E f \in Mapped(s) : Beneath(e, f)}
      pd == {e \in made : e[1] = 2 /\ ~\E f \in Mapped(s) \ pt : Beneath(e, f)}
  IN pt \union pd

\* s without the entries E.
Cleared(s, E) == [e \in Entries |-> IF e \in E THEN 0 ELSE s[e]]

\* LoadedPages::rollback: every tracked page is unmapped and freed, each with
\* the tables that unmap_and_free_empty finds empty.  Whatever the order, a
\* table goes with the last page below it.  The first directory also maps the
\* kernel and stays.
Emptied(s, tracked) ==
  LET u == Cleared(s, {At(4, v) : v \in tracked})
      pt == {e \in {At(3, v) : v \in tracked} : ~\E f \in Mapped(u) : Beneath(e, f)}
      pd == {e \in {At(2, v) : v \in tracked} :
               e[2] # 0 /\ ~\E f \in Mapped(u) \ pt : Beneath(e, f)}
  IN pt \union pd

RolledBack(s, tracked) == Cleared(s, {At(4, v) : v \in tracked} \union Emptied(s, tracked))

-----------------------------------------------------------------------------
(* process.rs: fork *)

ForkBegin(p) ==
  /\ op = Idle /\ Live(p)
  /\ free # {} /\ Run(NextFrame) \subseteq free
  /\ op' = [Idle EXCEPT !.call = "fork", !.step = "scratch", !.p = p,
                        !.kstack = NextFrame, !.before = free, !.parent = space[p]]
  /\ free' = free \ Run(NextFrame)
  /\ UNCHANGED <<space, kstack, brk, pool>>

\* Mutant: the failing ways out leave the scratch tables in the parent.
ForkFail_KeepsScratch ==
  /\ free' = free \union Destroyed(op.root) \union {op.kstack}
  /\ op' = Idle
  /\ UNCHANGED <<space, kstack, brk, pool>>

\* Every failing way out of fork: what create_pml4 built is destroyed, the
\* scratch tables go, and the caller frees child_kstack, which is one page.
ForkFail ==
  LET gone == ScratchLeft(space[op.p], op.made)
  IN /\ free' = free \union Destroyed(op.root) \union {space[op.p][e] : e \in gone}
                     \union {op.kstack}
     /\ space' = [space EXCEPT ![op.p] = Cleared(@, gone)]
     /\ op' = Idle
     /\ UNCHANGED <<kstack, brk, pool>>

\* provision_kernel_scratch: the directory and the table, where missing.
ProvisionScratch ==
  /\ op.step = "scratch"
  /\ LET missing == ScratchTables \ Mapped(space[op.p]) IN
     \/ /\ missing = {}
        /\ op' = [op EXCEPT !.step = "create"]
        /\ UNCHANGED <<free, space, kstack, brk, pool>>
     \/ /\ missing # {} /\ free # {}
        /\ space' = [space EXCEPT ![op.p][First(missing)] = NextFrame]
        /\ free' = free \ {NextFrame}
        /\ op' = [op EXCEPT !.made = @ \union {First(missing)}]
        /\ UNCHANGED <<kstack, brk, pool>>
     \/ missing # {} /\ free = {} /\ ForkFail

\* create_pml4_inner of the active space s: the tables of the new root and, for
\* fork, a private copy of every table and leaf at or above USER_CODE.  The
\* directory that holds the scratch page is passed over.
Wanted(s, copy_user) ==
  {e \in Mapped(s) : /\ e # At(2, KERNEL_SCRATCH)
                     /\ ~Beneath(At(2, KERNEL_SCRATCH), e)
                     /\ copy_user \/ e[1] <= 2}

Missing == Wanted(space[op.p], op.call = "fork") \ Mapped(op.root)

\* Mutant: a leaf is borrowed from the parent.
CreateStep_SharesLeaves ==
  /\ op.step = "create" /\ Missing # {} /\ free # {}
  /\ IF First(Missing)[1] = 4
     THEN /\ op' = [op EXCEPT !.root[First(Missing)] = space[op.p][First(Missing)]]
          /\ UNCHANGED free
     ELSE /\ op' = [op EXCEPT !.root[First(Missing)] = NextFrame]
          /\ free' = free \ {NextFrame}
  /\ UNCHANGED <<space, kstack, brk, pool>>

CreateStep ==
  /\ op.step = "create" /\ Missing # {} /\ free # {}
  /\ op' = [op EXCEPT !.root[First(Missing)] = NextFrame]
  /\ free' = free \ {NextFrame}
  /\ UNCHANGED <<space, kstack, brk, pool>>

\* Mutant: the scratch tables stay in the parent.
ForkCommit_KeepsScratch ==
  /\ op.call = "fork" /\ op.step = "create" /\ Missing = {}
  /\ \E c \in Procs :
       /\ ~Live(c) /\ \A d \in Procs : d < c => Live(d)
       /\ space' = [space EXCEPT ![c] = op.root]
       /\ kstack' = [kstack EXCEPT ![c] = op.kstack]
       /\ brk' = [brk EXCEPT ![c] = brk[op.p]]
       /\ op' = Idle
       /\ UNCHANGED <<free, pool>>

\* The copy is complete: the scratch tables go and the child takes the first
\* empty slot.
ForkCommit ==
  /\ op.call = "fork" /\ op.step = "create" /\ Missing = {}
  /\ \E c \in Procs :
       /\ ~Live(c) /\ \A d \in Procs : d < c => Live(d)
       /\ LET gone == ScratchLeft(space[op.p], op.made)
          IN /\ free' = free \union {space[op.p][e] : e \in gone}
             /\ space' = [space EXCEPT ![op.p] = Cleared(@, gone), ![c] = op.root]
       /\ kstack' = [kstack EXCEPT ![c] = op.kstack]
       /\ brk' = [brk EXCEPT ![c] = brk[op.p]]
       /\ op' = Idle
       /\ UNCHANGED pool

ForkNoFrame == op.call = "fork" /\ op.step = "create" /\ Missing # {} /\ free = {} /\ ForkFail
\* The other slots of the table may be taken by processes outside the model.
ForkNoSlot == op.call = "fork" /\ op.step = "create" /\ Missing = {} /\ ForkFail

-----------------------------------------------------------------------------
(* process.rs and elf.rs: exec *)

\* An image: the pages of its code in the order the loader meets them (those of
\* an ELF segment may repeat pages of an earlier one), then those of its stack.
Exec(p, image) ==
  /\ op = Idle /\ Live(p)
  /\ op' = [Idle EXCEPT !.call = IF image.elf THEN "elf" ELSE "flat",
                        !.step = "create", !.p = p, !.todo = image.load,
                        !.stack = image.stack, !.before = free]
  /\ UNCHANGED <<free, space, kstack, brk, pool>>

Execs == {"flat", "elf"}

\* load_with_injection validates the segments before it maps anything: inside
\* the user range, clear of the scratch page, of the stack and of the page below.
ValidImage ==
  op.call = "elf" =>
    \A v \in Range(op.todo) :
      /\ v >= USER_CODE /\ v # KERNEL_SCRATCH
      /\ v \notin (Min(Range(op.stack)) - 1)..Max(Range(op.stack))

CreateDone ==
  /\ op.call \in Execs /\ op.step = "create" /\ Missing = {} /\ ValidImage
  /\ op' = [op EXCEPT !.step = "load"]
  /\ UNCHANGED <<free, space, kstack, brk, pool>>

\* Mutant: the page in hand is not freed.
ExecFail_KeepsPage ==
  LET left == IF op.step = "load" THEN RolledBack(op.root, op.tracked) ELSE op.root
  IN /\ free' = free \union (FramesOf(op.root) \ FramesOf(left)) \union Destroyed(left)
     /\ pool' = pool + op.claimed
     /\ op' = Idle
     /\ UNCHANGED <<space, kstack, brk>>

\* Mutant: the chunks are not released.
ExecFail_KeepsMetadata ==
  LET left == IF op.step = "load" THEN RolledBack(op.root, op.tracked) ELSE op.root
  IN /\ free' = free \union (FramesOf(op.root) \ FramesOf(left)) \union Destroyed(left)
                     \union ({op.page} \ {0})
     /\ op' = Idle
     /\ UNCHANGED <<space, kstack, brk, pool>>

\* Every failing way out of exec: the page in hand is freed, an ELF load in
\* progress is rolled back and its metadata released, and the root destroyed.
ExecFail ==
  LET left == IF op.step = "load" THEN RolledBack(op.root, op.tracked) ELSE op.root
  IN /\ free' = free \union (FramesOf(op.root) \ FramesOf(left)) \union Destroyed(left)
                     \union ({op.page} \ {0})
     /\ pool' = pool + op.claimed
     /\ op' = Idle
     /\ UNCHANGED <<space, kstack, brk>>

LoadRefused ==
  op.call \in Execs /\ op.step = "create" /\ Missing = {} /\ ~ValidImage /\ ExecFail

ExecNoFrame == op.call \in Execs /\ op.step = "create" /\ Missing # {} /\ free = {} /\ ExecFail

\* The page that is to be mapped next, by a loader, brk or mmap.
Page == Head(op.todo)
Mapping == op.step \in {"load", "stack", "grow"} /\ op.todo # <<>>

\* LoadedPages::reserve claims a chunk when the tail chunk is full.
NeedsChunk == op.call = "elf" /\ op.step = "load" /\ (op.claimed = 0 \/ op.used = CHUNK_CAP)

\* A page of an earlier segment of the same image is used again.
ReusePage ==
  /\ Mapping /\ op.page = 0 /\ Page \in op.tracked
  /\ op' = [op EXCEPT !.todo = Tail(@)]
  /\ UNCHANGED <<free, space, kstack, brk, pool>>

\* The loaders never replace a mapping of the image they build.
Collision == op.call \in Execs /\ op.root[At(4, Page)] # 0

\* LoadedPages::reserve, for an ELF image, and then pmm.alloc().
AllocPage ==
  /\ Mapping /\ op.page = 0 /\ Page \notin op.tracked /\ ~Collision
  /\ free # {} /\ (NeedsChunk => pool > 0)
  /\ free' = free \ {NextFrame}
  /\ pool' = pool - (IF NeedsChunk THEN 1 ELSE 0)
  /\ op' = [op EXCEPT !.page = NextFrame,
                      !.claimed = @ + (IF NeedsChunk THEN 1 ELSE 0),
                      !.used = CASE NeedsChunk -> 1
                                 [] op.call = "elf" /\ op.step = "load" /\ ~NeedsChunk -> @ + 1
                                 [] OTHER -> @]
  /\ UNCHANGED <<space, kstack, brk>>

LoadFails ==
  /\ op.call \in Execs /\ Mapping /\ op.page = 0 /\ Page \notin op.tracked
  /\ Collision \/ free = {} \/ (NeedsChunk /\ pool = 0)
  /\ ExecFail

-----------------------------------------------------------------------------
(* paging.rs: mapping one page *)

Target == IF op.call \in Execs THEN op.root ELSE space[op.p]

\* The tables missing on the walk to the page.
NoTables == {At(k, Page) : k \in 2..3} \ Mapped(Target)

InTarget(e, f) ==
  IF op.call \in Execs
  THEN op' = [op EXCEPT !.root[e] = f] /\ UNCHANGED space
  ELSE space' = [space EXCEPT ![op.p][e] = f] /\ UNCHANGED op

\* map_4k ignores the scratch page and leaves it to the caller to notice.
Refused == Page = KERNEL_SCRATCH

\* get_or_create_table and try_get_or_create_table, where a table is missing.
MapTable ==
  /\ Mapping /\ op.page # 0 /\ ~Refused /\ NoTables # {} /\ free # {}
  /\ InTarget(First(NoTables), NextFrame)
  /\ free' = free \ {NextFrame}
  /\ UNCHANGED <<kstack, brk, pool>>

\* try_map_4k reports that there is no frame for a table.
MapTableFails ==
  /\ op.call \in Execs /\ Mapping /\ op.page # 0 /\ NoTables # {} /\ free = {}
  /\ ExecFail

\* map_4k does not come back from get_or_create_table: the machine halts.
MapTableHalts ==
  /\ op.call \notin Execs /\ Mapping /\ op.page # 0 /\ ~Refused
  /\ NoTables # {} /\ free = {}
  /\ op' = [op EXCEPT !.step = "halted"]
  /\ UNCHANGED <<free, space, kstack, brk, pool>>

\* The leaf is written; the next page follows.
MapLeaf ==
  /\ Mapping /\ op.page # 0 /\ (Refused \/ NoTables = {})
  /\ LET done == [op EXCEPT !.page = 0, !.todo = Tail(@),
                            !.tracked = IF op.call = "elf" /\ op.step = "load"
                                        THEN @ \union {Page} ELSE @]
     IN IF op.call \in Execs
        THEN op' = [done EXCEPT !.root[At(4, Page)] = op.page] /\ UNCHANGED space
        ELSE /\ op' = done
             /\ space' = IF Refused THEN space
                         ELSE [space EXCEPT ![op.p][At(4, Page)] = op.page]
  /\ UNCHANGED <<free, kstack, brk, pool>>

-----------------------------------------------------------------------------
(* exec, continued *)

\* The ELF load returns and its LoadedPages are dropped; stack pages follow.
LoadDone ==
  /\ op.step = "load" /\ op.todo = <<>>
  /\ op' = [op EXCEPT !.step = "stack", !.todo = op.stack, !.stack = <<>>,
                      !.tracked = {}, !.claimed = 0, !.used = 0]
  /\ pool' = pool + op.claimed
  /\ UNCHANGED <<free, space, kstack, brk>>

\* sys_exec publishes the image.  The old root is retained by design.
ExecCommit ==
  /\ op.step = "stack" /\ op.todo = <<>>
  /\ space' = [space EXCEPT ![op.p] = op.root]
  /\ brk' = [brk EXCEPT ![op.p] = BRK_START]
  /\ op' = Idle
  /\ UNCHANGED <<free, kstack, pool>>

-----------------------------------------------------------------------------
(* syscall.rs: brk and mmap;  process.rs: reaping *)

Pages(from, to) == [i \in 1..(to - from) |-> from + i - 1]

SysBrk(p, addr) ==
  /\ op = Idle /\ Live(p)
  /\ addr \in BRK_START..BRK_MAX
  /\ IF addr > brk[p]
     THEN /\ op' = [Idle EXCEPT !.call = "brk", !.step = "grow", !.p = p, !.brk = addr,
                                !.todo = Pages(brk[p], addr)]
          /\ UNCHANGED brk
     ELSE /\ brk' = [brk EXCEPT ![p] = addr]
          /\ UNCHANGED op
  /\ UNCHANGED <<free, space, kstack, pool>>

\* mmap of one page: at the break, which moves at once, or with MAP_FIXED.  The
\* code does not stop the break at BRK_MAX here; that is a bound of the model.
SysMmap(p) ==
  /\ op = Idle /\ Live(p)
  /\ \/ /\ brk[p] < BRK_MAX
        /\ brk' = [brk EXCEPT ![p] = @ + 1]
        /\ op' = [Idle EXCEPT !.call = "mmap", !.step = "grow", !.p = p,
                              !.brk = brk[p] + 1, !.todo = <<brk[p]>>]
     \/ \E v \in MmapFixed :
          /\ op' = [Idle EXCEPT !.call = "mmap", !.step = "grow", !.p = p,
                                !.brk = brk[p], !.todo = <<v>>]
          /\ UNCHANGED brk
  /\ UNCHANGED <<free, space, kstack, pool>>

GrowDone ==
  /\ op.step = "grow" /\ op.todo = <<>>
  /\ brk' = [brk EXCEPT ![op.p] = op.brk]
  /\ op' = Idle
  /\ UNCHANGED <<free, space, kstack, pool>>

\* No frame: the call fails and keeps what it has mapped.
GrowFails ==
  /\ op.step = "grow" /\ op.todo # <<>> /\ op.page = 0 /\ free = {}
  /\ op' = Idle
  /\ UNCHANGED <<free, space, kstack, brk, pool>>

\* Mutant: the first page of the kernel stack only, as where fork fails.
Reap_OnePage(c) ==
  /\ op = Idle /\ Live(c) /\ \E p \in Procs \ {c} : Live(p)
  /\ free' = free \union Destroyed(space[c]) \union {kstack[c]}
  /\ space' = [space EXCEPT ![c] = NoSpace]
  /\ kstack' = [kstack EXCEPT ![c] = 0]
  /\ brk' = [brk EXCEPT ![c] = 0]
  /\ UNCHANGED <<pool, op>>

\* sys_waitpid reaps a child: its address space and its kernel stack.
Reap(c) ==
  /\ op = Idle /\ Live(c) /\ \E p \in Procs \ {c} : Live(p)
  /\ free' = free \union Destroyed(space[c]) \union Run(kstack[c])
  /\ space' = [space EXCEPT ![c] = NoSpace]
  /\ kstack' = [kstack EXCEPT ![c] = 0]
  /\ brk' = [brk EXCEPT ![c] = 0]
  /\ UNCHANGED <<pool, op>>

-----------------------------------------------------------------------------

\* spawn_init has built PID 1 from its flat image and given it a stack, with
\* frames in the order build_flat_image and alloc_pages take them: the root and
\* its two tables, then each page and, where it is the first there, its table.
NewTable(pages, i) == \A j \in 1..(i - 1) : At(3, pages[j]) # At(3, pages[i])
TablesBefore(pages, i) == Cardinality({j \in 1..(i - 1) : NewTable(pages, j)})
FrameOf(pages, i) == 3 + i + TablesBefore(pages, i)

InitSpace(pages) ==
  [e \in Entries |->
     LET I == {i \in 1..Len(pages) : \/ e = At(4, pages[i])
                                     \/ e = At(3, pages[i]) /\ NewTable(pages, i)}
     IN CASE e[1] <= 2 /\ e[2] = 0 -> e[1] + 1
          [] e[1] > 2 /\ I # {} -> FrameOf(pages, Min(I)) + (4 - e[1])
          [] OTHER -> 0]

SpaceInit ==
  /\ \E image \in {i \in Images : ~i.elf} :
       LET pages == image.load \o image.stack
           n == FrameOf(pages, Len(pages) + 1) - 1
       IN /\ n + KSTACK_PAGES <= NFRAMES
          /\ space = [p \in Procs |-> IF p = 1 THEN InitSpace(pages) ELSE NoSpace]
          /\ kstack = [p \in Procs |-> IF p = 1 THEN n + 1 ELSE 0]
          /\ free = Frames \ (1..(n + KSTACK_PAGES))
  /\ brk = [p \in Procs |-> IF p = 1 THEN BRK_START ELSE 0]
  /\ pool = CHUNK_COUNT
  /\ op = Idle

Call ==
  \E p \in Procs :
    \/ ForkBegin(p)
    \/ \E image \in Images : Exec(p, image)
    \/ \E addr \in BRK_START..BRK_MAX : SysBrk(p, addr)
    \/ SysMmap(p)
    \/ Reap(p)

SpaceNext ==
  \/ Call
  \/ ProvisionScratch \/ CreateStep \/ ForkCommit \/ ForkNoFrame \/ ForkNoSlot
  \/ CreateDone \/ LoadRefused \/ ExecNoFrame \/ ReusePage \/ AllocPage \/ LoadFails
  \/ MapTable \/ MapTableFails \/ MapTableHalts \/ MapLeaf
  \/ LoadDone \/ ExecCommit \/ GrowDone \/ GrowFails

SpaceSpec == SpaceInit /\ [][SpaceNext]_spaceVars

-----------------------------------------------------------------------------

\* The frames, address spaces, breaks and counters have their types; the pool
\* never holds more chunks than the arena has.
SpaceTypeOK ==
  /\ free \subseteq Frames
  /\ space \in [Procs -> [Entries -> 0..NFRAMES]]
  /\ kstack \in [Procs -> 0..NFRAMES]
  /\ brk \in [Procs -> 0..BRK_MAX]
  /\ pool \in 0..CHUNK_COUNT
  /\ op.page \in 0..NFRAMES /\ op.root \in [Entries -> 0..NFRAMES]

\* Whatever holds a frame: an entry of a process or of the root under
\* construction, a page of a kernel stack, the page in a loader's hand.
Uses ==
  {<<p, e, space[p][e]>> : p \in Procs, e \in Entries}
    \union {<<0, e, op.root[e]>> : e \in Entries}
    \union {<<p, <<5, i>>, kstack[p] + i>> : p \in {q \in Procs : Live(q)},
                                             i \in 0..(KSTACK_PAGES - 1)}
    \union {<<0, <<5, i>>, op.kstack + i>> : i \in IF op.kstack = 0 THEN {}
                                                   ELSE 0..(KSTACK_PAGES - 1)}
    \union {<<0, <<6, 0>>, op.page>>}

\* No frame has two owners, and no frame in use is free: fork copies instead of
\* sharing, rollbacks free nothing twice, reaping frees nothing that lives.  The
\* variables keep their types.
FramesExclusive ==
  LET used == {u \in Uses : u[3] # 0}
      frames == {u[3] : u \in used}
  IN /\ SpaceTypeOK
     /\ Cardinality(frames) = Cardinality(used)
     /\ frames \intersect free = {}

\* Every present entry hangs below present tables, in every process and in the
\* root under construction, so the walk that destroys it finds every frame.
WalkFindsAll ==
  /\ \A p \in Procs : Walk(space[p]) = Mapped(space[p])
  /\ Walk(op.root) = Mapped(op.root)

\* All chunks of the ELF provenance arena are back when no load is running.
MetadataReturned == op = Idle => pool = CHUNK_COUNT

\* An exec that fails gives back every frame it took, whichever of its
\* allocations failed, and leaves every process as it was.
ExecFailStep ==
  op.call \in Execs /\ op' = Idle /\ space'[op.p] # op.root
    => free' = op.before /\ UNCHANGED <<space, kstack, brk>>

ExecAtomic == [][ExecFailStep]_spaceVars

\* Fork, successful or not, leaves the parent's address space as it found it:
\* the scratch tables it needed are gone, tables it borrowed are still there.
ParentRestoredStep ==
  op.call = "fork" /\ op' = Idle => space'[op.p] = op.parent

ParentRestored == [][ParentRestoredStep]_spaceVars

\* The frames that are neither free nor in use.
Lost == Frames \ (free \union {u[3] : u \in Uses})

(***************************************************************************)
(* Where memory is lost, and nowhere else: exec keeps the image it         *)
(* replaces (by design), a fork that fails frees one page of its kernel    *)
(* stack, and brk or mmap drop the frame of a page they map over, or their *)
(* own frame when map_4k ignores the scratch page.  Every other way out of *)
(* every call, and reaping, accounts for every frame.                      *)
(***************************************************************************)
LossStep ==
  /\ Lost \subseteq Lost'
  /\ Lost' \ Lost \in
       CASE op.call \in Execs /\ space' # space -> {FramesOf(space[op.p])}
         [] op.call = "fork" /\ op' = Idle /\ kstack' = kstack ->
              {Run(op.kstack) \ {op.kstack}}
         [] op.step = "grow" /\ op.page # 0 /\ op'.page = 0 ->
              {{IF Refused THEN op.page ELSE space[op.p][At(4, Page)]} \ {0}}
         [] OTHER -> {{}}

KnownLossesOnly == [][LossStep]_spaceVars
=============================================================================
