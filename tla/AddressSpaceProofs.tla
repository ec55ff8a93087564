------------------------ MODULE AddressSpaceProofs ------------------------
(***************************************************************************)
(* The invariant of FrameProofs holds at first, every step of module       *)
(* AddressSpace keeps it, and what follows from it.                        *)
(***************************************************************************)
EXTENDS FrameProofs

-----------------------------------------------------------------------------
(* Calls that map pages *)

\* A call that maps pages: what it works on.
LEMMA MappingFacts ==
  ASSUME SpaceInv, Mapping
  PROVE  /\ op.call \in Execs \union Grows /\ op.call # "none" /\ op.call # "fork"
         /\ op.p \in Procs /\ Live(op.p) /\ op.step \in {"load", "stack", "grow"}
         /\ op.todo # <<>> /\ op.todo \in Seq(UserPages \union {KERNEL_SCRATCH})
         /\ Page \in UserPages \union {KERNEL_SCRATCH}
         /\ Tail(op.todo) \in Seq(UserPages \union {KERNEL_SCRATCH})
         /\ op.call \in Execs => /\ Page \in UserPages /\ Tail(op.todo) \in Seq(UserPages)
                                 /\ Rooted(op.root) /\ op.call \notin Grows
                                 /\ op.step \in {"load", "stack"}
         /\ op.call \notin Execs => op.call \in Grows /\ op.step = "grow" /\ Rooted(space[op.p])
<1>1. op.step \in {"load", "stack", "grow"} /\ op.todo # <<>>
  BY DEF Mapping
<1>2. /\ op.call \in {"none", "fork"} \union Execs \union Grows
      /\ op.todo \in Seq(UserPages \union {KERNEL_SCRATCH})
  BY DEF SpaceInv, TypeInv, OpType
<1>3. op.call # "none" /\ op.call # "fork"
  BY <1>1 DEF SpaceInv, CallInv, Idle
<1>4. op.p \in Procs /\ Live(op.p)
  BY <1>3 DEF SpaceInv, CallInv
<1>5. /\ Page \in UserPages \union {KERNEL_SCRATCH}
      /\ Tail(op.todo) \in Seq(UserPages \union {KERNEL_SCRATCH})
  BY <1>1, <1>2 DEF Page
<1>6. ASSUME op.call \in Execs
      PROVE  /\ Page \in UserPages /\ Tail(op.todo) \in Seq(UserPages)
             /\ Rooted(op.root) /\ op.call \notin Grows /\ op.step \in {"load", "stack"}
  <2>1. op.todo \in Seq(UserPages) /\ op.step \in {"create", "load", "stack"}
    BY <1>6 DEF SpaceInv, CallInv
  <2>2. Page \in UserPages /\ Tail(op.todo) \in Seq(UserPages)
    BY <1>1, <2>1 DEF Page
  <2>3. Rooted(op.root)
    BY <1>1, <1>6 DEF SpaceInv, TreeInv
  <2>4. op.call \notin Grows
    BY <1>6 DEF Execs, Grows
  <2> QED BY <1>1, <2>1, <2>2, <2>3, <2>4
<1>7. ASSUME op.call \notin Execs
      PROVE  op.call \in Grows /\ op.step = "grow" /\ Rooted(space[op.p])
  <2>1. op.call \in Grows
    BY <1>2, <1>3, <1>7
  <2>2. op.step \in {"grow", "halted"}
    BY <2>1 DEF SpaceInv, CallInv
  <2>3. Rooted(space[op.p])
    BY <1>4 DEF SpaceInv, TreeInv
  <2> QED BY <1>1, <2>1, <2>2, <2>3
<1> QED BY <1>1, <1>2, <1>3, <1>4, <1>5, <1>6, <1>7

\* A page that an earlier segment has mapped.
LEMMA ReusePageKeeps ==
  ASSUME SpaceInv, ReusePage
  PROVE  SpaceInv' /\ op' # Idle
<1>1. /\ Mapping /\ op.page = 0 /\ op' = [op EXCEPT !.todo = Tail(op.todo)]
      /\ UNCHANGED <<free, space, kstack, brk, pool>>
  BY DEF ReusePage
<1>2. free \subseteq Frames /\ op \in OpType /\ Closed(op.root) /\ OwnInv
  BY ProcsBefore
<1>3. /\ op.call # "none" /\ op.call # "fork"
      /\ Tail(op.todo) \in Seq(UserPages \union {KERNEL_SCRATCH})
      /\ op.call \in Execs => Tail(op.todo) \in Seq(UserPages) /\ Rooted(op.root)
  BY <1>1, MappingFacts
<1>4. /\ op'.call = op.call /\ op'.step = op.step /\ op'.p = op.p /\ op'.page = op.page
      /\ op'.kstack = op.kstack /\ op'.claimed = op.claimed /\ op'.todo = Tail(op.todo)
      /\ op'.before = op.before /\ op'.root = op.root /\ op'.brk = op.brk
  BY <1>1, <1>2 DEF OpType
<1>5. op' \in OpType
  BY ZenonT(40), <1>1, <1>2, <1>3 DEF OpType
<1>6. OwnInv'
  BY <1>1, <1>2, <1>4, OwnSame
<1>7. CallInv' /\ ForkInv'
  BY <1>1, <1>3, <1>4 DEF CallInv, ForkInv, SpaceInv, Live
<1>8. PoolInv' /\ pool' \in 0..CHUNK_COUNT
  BY <1>1, <1>4 DEF SpaceInv, TypeInv, PoolInv
<1>9. ExecInv'
  BY <1>1, <1>4 DEF SpaceInv, ExecInv
<1>10. /\ free' \subseteq Frames /\ Closed(op'.root)
       /\ op'.call \in Execs => Rooted(op'.root)
       /\ op'.call \in Grows => op'.brk \in BRK_START..BRK_MAX
  BY <1>1, <1>2, <1>3, <1>4 DEF SpaceInv, TreeInv
<1>11. SpaceInv'
  BY <1>1, <1>5, <1>6, <1>7, <1>8, <1>9, <1>10, ProcsSame, Going
<1> QED BY <1>3, <1>4, <1>11, IdleFacts

\* LoadedPages::reserve and alloc.
LEMMA AllocPageKeeps ==
  ASSUME SpaceInv, Ordered, AllocPage
  PROVE  SpaceInv' /\ op' # Idle
<1> DEFINE f == NextFrame
           n == IF NeedsChunk THEN 1 ELSE 0
           u == CASE NeedsChunk -> 1
                  [] op.call = "elf" /\ op.step = "load" /\ ~NeedsChunk -> op.used + 1
                  [] OTHER -> op.used
<1>1. /\ Mapping /\ op.page = 0 /\ ~Collision /\ free # {} /\ (NeedsChunk => pool > 0)
      /\ free' = free \ {f} /\ pool' = pool - n
      /\ op' = [op EXCEPT !.page = f, !.claimed = op.claimed + n, !.used = u]
      /\ UNCHANGED <<space, kstack, brk>>
  BY DEF AllocPage
<1>2. free \subseteq Frames /\ op \in OpType /\ Closed(op.root) /\ OwnInv
  BY ProcsBefore
<1>3. /\ op.call # "none" /\ op.call # "fork" /\ op.todo # <<>>
      /\ op.step \in {"load", "stack", "grow"}
      /\ op.call \in Execs => Rooted(op.root)
  BY <1>1, MappingFacts
<1>4. f \in free /\ f # 0 /\ f \in 0..NFRAMES
  BY <1>1, <1>2, NextIsFree
<1>5. /\ op.claimed + n \in 0..CHUNK_COUNT /\ pool - n \in 0..CHUNK_COUNT
      /\ (pool - n) + (op.claimed + n) = CHUNK_COUNT
      /\ op.claimed + n # 0 => op.call = "elf" /\ op.step = "load"
  <2>1. /\ pool \in 0..CHUNK_COUNT /\ op.claimed \in 0..CHUNK_COUNT /\ CHUNK_COUNT \in Nat
        /\ pool + op.claimed = CHUNK_COUNT
        /\ op.claimed # 0 => op.call = "elf" /\ op.step = "load"
    BY <1>2, SpaceAssumption DEF SpaceInv, TypeInv, PoolInv, OpType
  <2>2. CASE NeedsChunk
    <3>1. op.call = "elf" /\ op.step = "load"
      BY <2>2 DEF NeedsChunk
    <3> QED BY <1>1, <2>1, <2>2, <3>1
  <2>3. CASE ~NeedsChunk
    BY <2>1, <2>3
  <2> QED BY <2>2, <2>3
<1>6. u \in Nat
  <2>1. op.used \in Nat
    BY <1>2 DEF OpType
  <2> QED BY <2>1
<1> HIDE DEF f, n, u
<1>7. /\ op'.call = op.call /\ op'.step = op.step /\ op'.p = op.p /\ op'.page = f
      /\ op'.kstack = op.kstack /\ op'.claimed = op.claimed + n /\ op'.todo = op.todo
      /\ op'.before = op.before /\ op'.root = op.root /\ op'.brk = op.brk
  BY <1>1, <1>2 DEF OpType
<1>8. op' \in OpType
  BY ZenonT(40), <1>1, <1>2, <1>4, <1>5, <1>6 DEF OpType
<1>9. OwnInv'
  BY <1>1, <1>2, <1>4, <1>7, OwnTakesPage
<1>10. CallInv' /\ ForkInv'
  BY <1>1, <1>3, <1>7 DEF CallInv, ForkInv, SpaceInv, Live
<1>11. PoolInv' /\ pool' \in 0..CHUNK_COUNT
  BY <1>1, <1>5, <1>7 DEF PoolInv
<1>12. ExecInv'
  <2>1. ASSUME op.call \in Execs
        PROVE  op'.before = free' \union FramesOf(op'.root) \union ({op'.page} \ {0})
    <3>1. op.before = free \union FramesOf(op.root) \union ({op.page} \ {0})
      BY <2>1 DEF SpaceInv, ExecInv
    <3>2. free = free' \union {f}
      BY <1>1, <1>4
    <3> QED BY <1>1, <1>4, <1>7, <3>1, <3>2
  <2>2. op.call \in Execs => op'.root[At(4, Page')] = 0
    BY <1>1, <1>7 DEF Collision, Page
  <2> QED BY <1>7, <2>1, <2>2 DEF ExecInv
<1>13. /\ free' \subseteq Frames /\ Closed(op'.root)
       /\ op'.call \in Execs => Rooted(op'.root)
       /\ op'.call \in Grows => op'.brk \in BRK_START..BRK_MAX
  BY <1>1, <1>2, <1>3, <1>7 DEF SpaceInv, TreeInv
<1>14. SpaceInv'
  BY <1>1, <1>8, <1>9, <1>10, <1>11, <1>12, <1>13, ProcsSame, Going
<1> QED BY <1>3, <1>7, <1>14, IdleFacts

\* The address space a page goes into is rooted.
LEMMA TargetRooted ==
  ASSUME SpaceInv, Mapping
  PROVE  Rooted(Target) /\ Target \in Tree
<1>1. /\ op.call \in Execs => Rooted(op.root)
      /\ op.call \notin Execs => Rooted(space[op.p])
      /\ op.p \in Procs
  BY MappingFacts
<1>2. op.root \in Tree /\ space[op.p] \in Tree
  BY <1>1, ProcsBefore
<1> QED BY <1>1, <1>2 DEF Target

\* The table that the walk makes next: it is missing, and the ones above are there.
LEMMA NextTable ==
  ASSUME SpaceInv, Ordered, Mapping, NoTables # {}, NEW e, e = First(NoTables)
  PROVE  /\ e \in Entries /\ Target[e] = 0 /\ e # At(4, Page)
         /\ \A k \in 0..(e[1] - 1) : Target[At(k, e[2])] # 0
<1> DEFINE v == Page
           t == Target
<1>1. v \in UserPages \union {KERNEL_SCRATCH} /\ Rooted(t)
  BY MappingFacts, TargetRooted
<1>2. NoTables = {At(k, v) : k \in 2..3} \ Mapped(t)
  BY DEF NoTables
<1> HIDE DEF v, t
<1>3. Hangs(t, NoTables) /\ NoTables \subseteq Entries
  BY <1>1, <1>2, TablesHang
<1>4. e \in NoTables /\ \A k \in 0..(e[1] - 1) : t[At(k, e[2])] # 0
  BY <1>3, FirstHangs
<1>5. e \in Entries /\ t[e] = 0
  BY <1>2, <1>3, <1>4 DEF Mapped
<1>6. e # At(4, v)
  <2>1. PICK k \in 2..3 : e = At(k, v)
    BY <1>2, <1>4
  <2>2. k \in 0..4 /\ 4 \in 0..4 /\ v \in Nat /\ k # 4
    BY <1>1, PageTypes
  <2>3. At(k, v)[1] = k /\ At(4, v)[1] = 4
    BY Zenon, <2>2, AtType
  <2> QED BY <2>1, <2>2, <2>3
<1> QED BY <1>4, <1>5, <1>6 DEF v, t

\* get_or_create_table, in the image of an exec.
LEMMA MapTableExec ==
  ASSUME SpaceInv, Ordered, MapTable, op.call \in Execs
  PROVE  SpaceInv' /\ op' # Idle
<1> DEFINE e == First(NoTables)
           f == NextFrame
<1>1. /\ Mapping /\ NoTables # {} /\ free # {} /\ op.page # 0
      /\ op' = [op EXCEPT !.root[e] = f] /\ free' = free \ {f}
      /\ UNCHANGED <<space, kstack, brk, pool>>
  BY DEF MapTable, InTarget
<1>2. free \subseteq Frames /\ op \in OpType /\ op.root \in Tree /\ Closed(op.root) /\ OwnInv
  BY ProcsBefore
<1>3. op.call # "none" /\ op.call # "fork" /\ op.call \notin Grows /\ Rooted(op.root)
  BY <1>1, MappingFacts
<1>4. f \in free /\ f # 0 /\ f \in 0..NFRAMES
  BY <1>1, <1>2, NextIsFree
<1>5. Target = op.root
  BY DEF Target
<1>6. /\ e \in Entries /\ op.root[e] = 0 /\ e # At(4, Page)
      /\ \A k \in 0..(e[1] - 1) : op.root[At(k, e[2])] # 0
  BY <1>1, <1>5, NextTable
<1> HIDE DEF e, f
<1>7. /\ op'.call = op.call /\ op'.step = op.step /\ op'.p = op.p /\ op'.page = op.page
      /\ op'.kstack = op.kstack /\ op'.claimed = op.claimed /\ op'.todo = op.todo
      /\ op'.before = op.before /\ RootGets(e, f)
  BY <1>1, <1>2 DEF OpType, RootGets
<1>8. /\ op'.root \in Tree /\ Closed(op'.root) /\ Rooted(op'.root)
      /\ FramesOf(op'.root) = FramesOf(op.root) \union {f}
      /\ \A d \in Entries : d # e => op'.root[d] = op.root[d]
  BY <1>2, <1>3, <1>4, <1>6, <1>7, RootAdds
<1>9. op' \in OpType
  <2>1. op' = [op EXCEPT !.root = op'.root]
    BY <1>1, <1>2 DEF OpType
  <2> QED BY <1>2, <1>8, <2>1 DEF OpType
<1>10. OwnInv'
  BY <1>1, <1>2, <1>4, <1>6, <1>7, OwnTakesRoot
<1>11. CallInv' /\ ForkInv'
  BY <1>1, <1>3, <1>7 DEF CallInv, ForkInv, SpaceInv, Live
<1>12. PoolInv' /\ pool' \in 0..CHUNK_COUNT
  BY <1>1, <1>7 DEF SpaceInv, TypeInv, PoolInv
<1>13. ExecInv'
  <2>1. free = free' \union {f}
    BY <1>1, <1>4
  <2>2. /\ op.before = free \union FramesOf(op.root) \union ({op.page} \ {0})
        /\ op.root[At(4, Page)] = 0
    BY <1>1 DEF SpaceInv, ExecInv
  <2>3. op'.before = free' \union FramesOf(op'.root) \union ({op'.page} \ {0})
    BY <1>7, <1>8, <2>1, <2>2
  <2>4. Page' = Page
    BY <1>7 DEF Page
  <2>5. Page \in UserPages
    BY <1>1, MappingFacts
  <2>6. At(4, Page) \in Entries
    BY <2>5, PageTypes
  <2>7. op'.root[At(4, Page')] = 0
    BY <1>6, <1>8, <2>2, <2>4, <2>6
  <2> QED BY <2>3, <2>7 DEF ExecInv
<1>14. free' \subseteq Frames
  BY <1>1, <1>2
<1>15. SpaceInv'
  BY <1>1, <1>3, <1>7, <1>8, <1>9, <1>10, <1>11, <1>12, <1>13, <1>14, ProcsSame, Going
<1> QED BY <1>3, <1>7, <1>15, IdleFacts

\* What a brk or mmap in progress keeps while it changes its process's tree.
LEMMA GrowGoing ==
  ASSUME SpaceInv, op.call \in Grows, op'.call = op.call, op'.step = "grow", op'.p = op.p,
         op'.kstack = op.kstack, op'.claimed = op.claimed, op'.brk = op.brk,
         op'.root = op.root, op' \in OpType,
         op'.page # 0 => op'.todo # <<>>, OwnInv', free' \subseteq Frames,
         UNCHANGED <<kstack, brk, pool>>, space' \in [Procs -> Tree],
         \A p \in Procs : Closed(space'[p]),
         \A p \in Procs : kstack'[p] # 0 => Rooted(space'[p]) /\ brk'[p] \in BRK_START..BRK_MAX
  PROVE  SpaceInv' /\ op' # Idle
<1>1. op.call # "none" /\ op.call # "fork" /\ op.call \notin Execs
  BY DEF Grows, Execs
<1>2. CallInv' /\ ForkInv' /\ ExecInv'
  BY <1>1 DEF CallInv, ForkInv, ExecInv, SpaceInv, Live
<1>3. PoolInv' /\ pool' \in 0..CHUNK_COUNT
  BY <1>1 DEF SpaceInv, TypeInv, PoolInv, Execs
<1>4. Closed(op'.root) /\ op'.brk \in BRK_START..BRK_MAX
  BY DEF SpaceInv, TreeInv
<1>5. kstack' \in [Procs -> 0..NFRAMES] /\ brk' \in [Procs -> 0..BRK_MAX]
  BY DEF SpaceInv, TypeInv
<1>6. SpaceInv'
  BY <1>1, <1>2, <1>3, <1>4, <1>5, Going
<1> QED BY <1>1, <1>6, IdleFacts

\* get_or_create_table, in the address space of a process.
LEMMA MapTableGrow ==
  ASSUME SpaceInv, Ordered, MapTable, op.call \notin Execs
  PROVE  SpaceInv' /\ op' # Idle
<1> DEFINE q == op.p
           e == First(NoTables)
           f == NextFrame
<1>1. /\ Mapping /\ NoTables # {} /\ free # {} /\ op.page # 0
      /\ SpaceGets(q, e, f) /\ free' = free \ {f} /\ UNCHANGED <<op, kstack, brk, pool>>
  BY DEF MapTable, InTarget, SpaceGets
<1>2. free \subseteq Frames /\ op \in OpType /\ space \in [Procs -> Tree] /\ OwnInv
  BY ProcsBefore
<1>3. op.call \in Grows /\ q \in Procs /\ op.step = "grow" /\ op.todo # <<>>
  BY <1>1, MappingFacts
<1>4. f \in free /\ f # 0 /\ f \in 0..NFRAMES
  BY <1>1, <1>2, NextIsFree
<1>5. Target = space[q]
  BY DEF Target
<1>6. e \in Entries /\ \A k \in 0..(e[1] - 1) : space[q][At(k, e[2])] # 0
  BY <1>1, <1>5, NextTable
<1> HIDE DEF q, e, f
<1>7. OwnInv'
  BY <1>1, <1>2, <1>3, <1>4, <1>6, OwnTakesSpace
<1>8. /\ space' \in [Procs -> Tree] /\ \A p \in Procs : Closed(space'[p])
      /\ \A p \in Procs : kstack'[p] # 0 => Rooted(space'[p]) /\ brk'[p] \in BRK_START..BRK_MAX
  BY <1>1, <1>3, <1>4, <1>6, SpaceAdds
<1>9. free' \subseteq Frames
  BY <1>1, <1>2
<1> QED BY <1>1, <1>2, <1>3, <1>7, <1>8, <1>9, GrowGoing

\* get_or_create_table and try_get_or_create_table.
LEMMA MapTableKeeps ==
  ASSUME SpaceInv, Ordered, MapTable
  PROVE  SpaceInv' /\ op' # Idle
BY MapTableExec, MapTableGrow

\* map_4k does not come back.
LEMMA MapTableHaltsKeeps ==
  ASSUME SpaceInv, MapTableHalts
  PROVE  SpaceInv' /\ op' # Idle
<1>1. /\ Mapping /\ op.call \notin Execs /\ op' = [op EXCEPT !.step = "halted"]
      /\ UNCHANGED <<free, space, kstack, brk, pool>>
  BY DEF MapTableHalts
<1>2. free \subseteq Frames /\ op \in OpType /\ Closed(op.root) /\ OwnInv
  BY ProcsBefore
<1>3. op.call \in Grows /\ op.call # "none" /\ op.call # "fork"
  BY <1>1, MappingFacts
<1>4. /\ op'.call = op.call /\ op'.step = "halted" /\ op'.p = op.p /\ op'.page = op.page
      /\ op'.kstack = op.kstack /\ op'.claimed = op.claimed /\ op'.todo = op.todo
      /\ op'.brk = op.brk /\ op'.root = op.root
  BY <1>1, <1>2 DEF OpType
<1>5. op' \in OpType
  BY <1>1, <1>2 DEF OpType
<1>6. OwnInv'
  BY <1>1, <1>2, <1>4, OwnSame
<1>7. CallInv' /\ ForkInv' /\ ExecInv'
  BY <1>1, <1>3, <1>4 DEF CallInv, ForkInv, ExecInv, SpaceInv, Live
<1>8. PoolInv' /\ pool' \in 0..CHUNK_COUNT
  BY <1>1, <1>3, <1>4 DEF SpaceInv, TypeInv, PoolInv, Grows
<1>9. free' \subseteq Frames /\ Closed(op'.root) /\ op'.brk \in BRK_START..BRK_MAX
  BY <1>1, <1>2, <1>3, <1>4 DEF SpaceInv, TreeInv
<1>10. SpaceInv'
  BY <1>1, <1>4, <1>5, <1>6, <1>7, <1>8, <1>9, ProcsSame, Going
<1> QED BY <1>3, <1>4, <1>10, IdleFacts

\* Where no table is missing the leaf can be written.
LEMMA LeafHangs ==
  ASSUME SpaceInv, Mapping, NoTables = {}, Page \in UserPages
  PROVE  /\ At(4, Page) \in Entries
         /\ \A k \in 0..(At(4, Page)[1] - 1) : Target[At(k, At(4, Page)[2])] # 0
<1> DEFINE v == Page
           t == Target
<1>1. Rooted(t) /\ v \in UserPages
  BY TargetRooted
<1>2. \A k \in 2..3 : At(k, v) \in Mapped(t)
  BY DEF NoTables
<1> HIDE DEF v, t
<1>3. v \in Nat /\ At(4, v) \in Entries
  BY <1>1, PageTypes
<1>4. At(4, v)[1] = 4
  BY <1>3, AtType
<1>5. ASSUME NEW k \in 0..3
      PROVE  t[At(k, At(4, v)[2])] # 0
  <2>1. k \in 0..4 /\ 4 \in 0..4 /\ k <= 4
    OBVIOUS
  <2>2. At(k, At(4, v)[2]) = At(k, v)
    BY <1>3, <2>1, AtAt
  <2>3. CASE k \in 2..3
    BY <1>2, <2>2, <2>3 DEF Mapped
  <2>4. CASE k \in {0, 1}
    <3>1. k < 2
      BY <2>4
    <3>2. At(k, v) = <<k, 0>>
      BY Zenon, <1>3, <2>1, <3>1, AtType
    <3> QED BY <1>1, <2>2, <2>4, <3>2 DEF Rooted
  <2> QED BY <2>3, <2>4
<1> QED BY <1>3, <1>4, <1>5 DEF v, t

\* The leaf is written, in the image of an exec.
LEMMA MapLeafExec ==
  ASSUME SpaceInv, MapLeaf, op.call \in Execs
  PROVE  SpaceInv' /\ op' # Idle
<1> DEFINE e == At(4, Page)
           f == op.page
           tr == IF op.call = "elf" /\ op.step = "load" THEN op.tracked \union {Page}
                 ELSE op.tracked
<1>1. /\ Mapping /\ op.page # 0 /\ (Refused \/ NoTables = {})
      /\ op' = [[op EXCEPT !.page = 0, !.todo = Tail(@), !.tracked = tr] EXCEPT !.root[e] = f]
      /\ UNCHANGED <<space, free, kstack, brk, pool>>
  BY DEF MapLeaf
<1>2. /\ free \subseteq Frames /\ op \in OpType /\ op.root \in Tree /\ Closed(op.root)
      /\ OwnInv /\ f \in 0..NFRAMES
  BY ProcsBefore DEF OpType
<1>3. /\ op.call # "none" /\ op.call # "fork" /\ op.call \notin Grows /\ Rooted(op.root)
      /\ Page \in UserPages /\ Tail(op.todo) \in Seq(UserPages)
      /\ Tail(op.todo) \in Seq(UserPages \union {KERNEL_SCRATCH})
      /\ op.step \in {"load", "stack"}
  BY <1>1, MappingFacts
<1>4. NoTables = {}
  BY <1>1, <1>3, SpaceAssumption DEF Refused
<1>5. e \in Entries /\ \A k \in 0..(e[1] - 1) : op.root[At(k, e[2])] # 0
  BY <1>1, <1>3, <1>4, LeafHangs DEF Target
<1>6. op.root[e] = 0 /\ op.before = free \union FramesOf(op.root) \union ({f} \ {0})
  BY <1>1 DEF SpaceInv, ExecInv
<1>7. tr \in SUBSET UserPages
  BY <1>2, <1>3 DEF OpType
<1> HIDE DEF e, f, tr
<1>8. /\ op'.call = op.call /\ op'.step = op.step /\ op'.p = op.p /\ op'.page = 0
      /\ op'.kstack = op.kstack /\ op'.claimed = op.claimed /\ op'.todo = Tail(op.todo)
      /\ op'.before = op.before /\ RootGets(e, f)
  BY <1>1, <1>2 DEF OpType, RootGets
<1>9. f # 0
  BY <1>1 DEF f
<1>10. /\ op'.root \in Tree /\ Closed(op'.root) /\ Rooted(op'.root)
       /\ FramesOf(op'.root) = FramesOf(op.root) \union {f}
  BY <1>2, <1>3, <1>5, <1>6, <1>8, <1>9, RootAdds
<1>11. op' \in OpType
  <2>1. op' = [op EXCEPT !.page = 0, !.todo = Tail(op.todo), !.tracked = tr, !.root = op'.root]
    BY <1>1, <1>2 DEF OpType
  <2>2. 0 \in 0..NFRAMES
    BY SpaceAssumption
  <2> QED BY ZenonT(40), <1>2, <1>3, <1>7, <1>10, <2>1, <2>2 DEF OpType
<1>12. OwnInv'
  BY <1>1, <1>2, <1>5, <1>8, OwnPlacesRoot DEF f
<1>13. CallInv' /\ ForkInv'
  BY <1>1, <1>3, <1>8 DEF CallInv, ForkInv, SpaceInv, Live
<1>14. PoolInv' /\ pool' \in 0..CHUNK_COUNT
  BY <1>1, <1>8 DEF SpaceInv, TypeInv, PoolInv
<1>15. ExecInv'
  BY <1>1, <1>6, <1>8, <1>9, <1>10 DEF ExecInv
<1>16. SpaceInv'
  BY <1>1, <1>2, <1>3, <1>8, <1>10, <1>11, <1>12, <1>13, <1>14, <1>15, ProcsSame, Going
<1> QED BY <1>3, <1>8, <1>16, IdleFacts

\* The leaf is written, or the scratch page refused, in a process.
LEMMA MapLeafGrow ==
  ASSUME SpaceInv, MapLeaf, op.call \notin Execs
  PROVE  SpaceInv' /\ op' # Idle
<1> DEFINE q == op.p
           e == At(4, Page)
<1>1. op.call \in Grows /\ Mapping /\ op.call # "elf"
  BY MappingFacts DEF MapLeaf, Execs
<1>2. /\ op.page # 0 /\ (Refused \/ NoTables = {})
      /\ op' = [op EXCEPT !.page = 0, !.todo = Tail(op.todo), !.tracked = op.tracked]
      /\ UNCHANGED <<free, kstack, brk, pool>>
      /\ Refused => space' = space
      /\ ~Refused => SpaceGets(q, e, op.page)
  BY <1>1 DEF MapLeaf, SpaceGets
<1>3. /\ free \subseteq Frames /\ op \in OpType /\ space \in [Procs -> Tree] /\ OwnInv
      /\ op.page \in 0..NFRAMES
  BY ProcsBefore DEF OpType
<1>4. /\ q \in Procs /\ op.step = "grow" /\ Page \in UserPages \union {KERNEL_SCRATCH}
      /\ Tail(op.todo) \in Seq(UserPages \union {KERNEL_SCRATCH})
  BY <1>1, MappingFacts
<1>5. /\ op'.call = op.call /\ op'.step = "grow" /\ op'.p = op.p /\ op'.page = 0
      /\ op'.kstack = op.kstack /\ op'.claimed = op.claimed /\ op'.brk = op.brk
      /\ op'.root = op.root
  BY <1>2, <1>3, <1>4 DEF OpType
<1>6. op' \in OpType
  <2>1. 0 \in 0..NFRAMES
    BY SpaceAssumption
  <2> QED BY Zenon, <1>2, <1>3, <1>4, <2>1 DEF OpType
<1>7. /\ OwnInv' /\ space' \in [Procs -> Tree] /\ \A p \in Procs : Closed(space'[p])
      /\ \A p \in Procs : kstack'[p] # 0 => Rooted(space'[p]) /\ brk'[p] \in BRK_START..BRK_MAX
  <2>1. CASE Refused
    <3>1. OwnInv'
      BY <1>2, <1>3, <1>5, <2>1, OwnDropsPage
    <3> QED BY <1>2, <2>1, <3>1, ProcsSame
  <2>2. CASE ~Refused
    <3>1. Page \in UserPages /\ NoTables = {} /\ Target = space[q]
      BY <1>2, <1>4, <2>2 DEF Refused, Target
    <3>2. e \in Entries /\ \A k \in 0..(e[1] - 1) : space[q][At(k, e[2])] # 0
      BY <1>1, <3>1, LeafHangs
    <3> HIDE DEF q, e
    <3>3. OwnInv'
      BY <1>2, <1>3, <1>4, <1>5, <2>2, <3>2, OwnPlacesSpace
    <3>4. /\ space' \in [Procs -> Tree] /\ \A p \in Procs : Closed(space'[p])
          /\ \A p \in Procs : kstack'[p] # 0 => Rooted(space'[p]) /\ brk'[p] \in BRK_START..BRK_MAX
      BY <1>2, <1>3, <1>4, <2>2, <3>2, SpaceAdds
    <3> QED BY <3>3, <3>4
  <2> QED BY <2>1, <2>2
<1> QED BY <1>1, <1>2, <1>3, <1>5, <1>6, <1>7, GrowGoing

\* The leaf is written; the next page follows.
LEMMA MapLeafKeeps ==
  ASSUME SpaceInv, MapLeaf
  PROVE  SpaceInv' /\ op' # Idle
BY MapLeafExec, MapLeafGrow

\* The load is over and its chunks are back; the stack follows.
LEMMA LoadDoneKeeps ==
  ASSUME SpaceInv, LoadDone
  PROVE  SpaceInv' /\ op' # Idle
<1>1. /\ op.step = "load" /\ op.todo = <<>>
      /\ op' = [op EXCEPT !.step = "stack", !.todo = op.stack, !.stack = <<>>,
                          !.tracked = {}, !.claimed = 0, !.used = 0]
      /\ pool' = pool + op.claimed
      /\ UNCHANGED <<free, space, kstack, brk>>
  BY DEF LoadDone
<1>2. free \subseteq Frames /\ op \in OpType /\ Closed(op.root) /\ OwnInv
  BY ProcsBefore
<1>3. op.call \in Execs /\ op.page = 0
  <2>1. op.call \in {"none", "fork"} \union Execs \union Grows
    BY <1>2 DEF OpType
  <2> QED BY <1>1, <2>1 DEF SpaceInv, CallInv, Idle
<1>4. op.call # "none" /\ op.call # "fork" /\ op.call \notin Grows /\ Rooted(op.root)
  BY <1>1, <1>3 DEF Execs, Grows, SpaceInv, TreeInv
<1>5. op.stack \in Seq(UserPages) /\ op.stack \in Seq(UserPages \union {KERNEL_SCRATCH})
  <2>1. op.stack \in Seq(UserPages)
    BY <1>2 DEF OpType
  <2> HIDE DEF Execs
  <2> QED BY <2>1
<1>6. /\ op'.call = op.call /\ op'.step = "stack" /\ op'.p = op.p /\ op'.page = 0
      /\ op'.kstack = op.kstack /\ op'.claimed = 0 /\ op'.todo = op.stack
      /\ op'.before = op.before /\ op'.root = op.root
  BY <1>1, <1>2, <1>3 DEF OpType
<1>7. op' \in OpType
  <2>1. <<>> \in Seq(UserPages) /\ 0 \in 0..CHUNK_COUNT /\ 0 \in Nat
    BY SpaceAssumption
  <2> QED BY Zenon, <1>1, <1>2, <1>5, <2>1 DEF OpType
<1>8. OwnInv'
  BY <1>1, <1>2, <1>3, <1>6, OwnSame
<1>9. CallInv' /\ ForkInv'
  BY <1>1, <1>3, <1>4, <1>5, <1>6 DEF CallInv, ForkInv, SpaceInv, Live
<1>10. PoolInv' /\ pool' \in 0..CHUNK_COUNT
  <2>1. pool + op.claimed = CHUNK_COUNT /\ CHUNK_COUNT \in Nat
    BY SpaceAssumption DEF SpaceInv, PoolInv
  <2> QED BY <1>1, <1>6, <2>1 DEF PoolInv
<1>11. ExecInv'
  BY <1>1, <1>3, <1>6 DEF SpaceInv, ExecInv
<1>12. SpaceInv'
  BY <1>1, <1>2, <1>4, <1>6, <1>7, <1>8, <1>9, <1>10, <1>11, ProcsSame, Going
<1> QED BY <1>4, <1>6, <1>12, IdleFacts

-----------------------------------------------------------------------------
(* Every step *)

\* A step keeps the invariant; an exec that ends without its image gives
\* everything back; a fork that ends leaves its parent as it was.
StepKeeps == SpaceInv' /\ ExecFailStep /\ ParentRestoredStep

\* A call that begins.
LEMMA CallKeeps ==
  ASSUME SpaceInv, Ordered, Call
  PROVE  StepKeeps
<1>1. SpaceInv'
  <2>1. PICK p \in Procs : \/ ForkBegin(p)
                           \/ \E image \in Images : Exec(p, image)
                           \/ \E addr \in BRK_START..BRK_MAX : SysBrk(p, addr)
                           \/ SysMmap(p)
                           \/ Reap(p)
    BY DEF Call
  <2>2. CASE ForkBegin(p)
    BY <2>2, ForkBegins
  <2>3. CASE \E image \in Images : Exec(p, image)
    BY <2>3, ExecBegins
  <2>4. CASE \E addr \in BRK_START..BRK_MAX : SysBrk(p, addr)
    BY <2>4, SysBrkKeeps
  <2>5. CASE SysMmap(p)
    BY <2>5, SysMmapKeeps
  <2>6. CASE Reap(p)
    BY <2>6, ReapKeeps
  <2> QED BY <2>1, <2>2, <2>3, <2>4, <2>5, <2>6
<1>2. op = Idle
  BY Zenon DEF Call, ForkBegin, Exec, SysBrk, SysMmap, Reap
<1>3. op.call = "none"
  BY <1>2, IdleFacts
<1> QED BY <1>1, <1>3 DEF StepKeeps, ExecFailStep, ParentRestoredStep, Execs

\* A step of a fork.
LEMMA ForkStepKeeps ==
  ASSUME SpaceInv, Ordered, ProvisionScratch \/ ForkCommit \/ ForkNoFrame \/ ForkNoSlot
  PROVE  StepKeeps
<1>1. op.call = "fork"
  <2>1. CASE ProvisionScratch
    <3>1. op.step = "scratch"
      BY <2>1 DEF ProvisionScratch
    <3>2. op.call \in {"none", "fork"} \union Execs \union Grows
      BY DEF SpaceInv, TypeInv, OpType
    <3> QED BY <3>1, <3>2 DEF SpaceInv, CallInv, Idle
  <2> QED BY <2>1 DEF ForkCommit, ForkNoFrame, ForkNoSlot
<1>2. SpaceInv' /\ (op' = Idle => space'[op.p] = op.parent)
  <2>1. CASE ProvisionScratch
    BY <2>1, ProvisionKeeps
  <2>2. CASE ForkCommit
    BY <2>2, ForkCommitKeeps
  <2>3. CASE ForkNoFrame \/ ForkNoSlot
    BY <1>1, <2>3, ForkFailKeeps DEF ForkNoFrame, ForkNoSlot
  <2> QED BY <2>1, <2>2, <2>3
<1> QED BY <1>1, <1>2 DEF StepKeeps, ExecFailStep, ParentRestoredStep, Execs

\* An exec that fails, at any of its allocations.
LEMMA ExecFailsKeeps ==
  ASSUME SpaceInv, LoadRefused \/ ExecNoFrame \/ LoadFails \/ MapTableFails
  PROVE  StepKeeps
<1>1. op.call \in Execs /\ ExecFail
  BY DEF LoadRefused, ExecNoFrame, LoadFails, MapTableFails
<1>2. SpaceInv' /\ free' = op.before /\ UNCHANGED <<space, kstack, brk>>
  BY <1>1, ExecFailKeeps
<1> QED BY <1>1, <1>2 DEF StepKeeps, ExecFailStep, ParentRestoredStep, Execs

\* A step that leaves its call in progress.
LEMMA MoreKeeps ==
  ASSUME SpaceInv, Ordered,
         \/ CreateStep \/ CreateDone \/ ReusePage \/ AllocPage
         \/ MapTable \/ MapTableHalts \/ MapLeaf \/ LoadDone
  PROVE  StepKeeps
<1>1. SpaceInv' /\ op' # Idle
  BY CreateStepKeeps, CreateDoneKeeps, ReusePageKeeps, AllocPageKeeps,
     MapTableKeeps, MapTableHaltsKeeps, MapLeafKeeps, LoadDoneKeeps
<1> QED BY <1>1 DEF StepKeeps, ExecFailStep, ParentRestoredStep

\* An exec that is published, and a brk or mmap that ends.
LEMMA EndKeeps ==
  ASSUME SpaceInv, ExecCommit \/ GrowDone \/ GrowFails
  PROVE  StepKeeps
<1>1. CASE ExecCommit
  <2>1. SpaceInv' /\ op.call \in Execs /\ space'[op.p] = op.root
    BY <1>1, ExecCommitKeeps
  <2> QED BY <2>1 DEF StepKeeps, ExecFailStep, ParentRestoredStep, Execs
<1>2. CASE GrowDone \/ GrowFails
  <2>1. SpaceInv'
    BY <1>2, GrowEnds
  <2>2. op.step = "grow"
    BY <1>2 DEF GrowDone, GrowFails
  <2>3. op.call \in Grows
    BY <2>2, GrowFacts
  <2> QED BY <2>1, <2>3 DEF StepKeeps, ExecFailStep, ParentRestoredStep, Execs, Grows
<1> QED BY <1>1, <1>2

\* Every step keeps the invariant.
LEMMA NextKeeps ==
  ASSUME SpaceInv, Ordered, SpaceNext
  PROVE  StepKeeps
BY CallKeeps, ForkStepKeeps, ExecFailsKeeps, MoreKeeps, EndKeeps DEF SpaceNext

\* So does a step that changes nothing.
LEMMA StutterKeeps ==
  ASSUME SpaceInv, UNCHANGED spaceVars
  PROVE  SpaceInv'
<1>1. UNCHANGED <<free, space, kstack, brk, pool, op>>
  BY DEF spaceVars
<1>2. TypeInv' /\ PoolInv' /\ ExecInv' /\ ForkInv'
  BY <1>1 DEF SpaceInv, TypeInv, PoolInv, ExecInv, ForkInv, Page
<1>3. CallInv' /\ TreeInv'
  BY <1>1 DEF SpaceInv, CallInv, TreeInv, Live
<1>4. OwnInv'
  BY <1>1, OwnSame DEF SpaceInv
<1> QED BY <1>2, <1>3, <1>4 DEF SpaceInv

-----------------------------------------------------------------------------
(* The first process *)

INSTANCE FiniteSetTheorems

\* The pages of a flat image: distinct user pages of the first directory.
FlatPages(pages) ==
  /\ pages \in Seq(UserPages)
  /\ \A i, j \in DOMAIN pages : pages[i] < BRK_START /\ (pages[i] = pages[j] => i = j)

\* The page or table e is made with page i of the image.
MadeWith(pages, e, i) ==
  \/ e = At(4, pages[i])
  \/ e = At(3, pages[i]) /\ NewTable(pages, i)

\* The frames that page i of the image takes.
Taken(pages, i) == IF NewTable(pages, i) THEN 2 ELSE 1

\* Every page takes frames above those of the pages before it.
LEMMA FramesGrow ==
  ASSUME NEW pages, NEW i \in Nat \ {0}, NEW j \in Nat \ {0}, i < j
  PROVE  /\ FrameOf(pages, i) \in Nat /\ FrameOf(pages, j) \in Nat /\ FrameOf(pages, i) >= 4
         /\ FrameOf(pages, i) + Taken(pages, i) <= FrameOf(pages, j)
<1> DEFINE S(k) == {x \in 1..(k - 1) : NewTable(pages, x)}
           a == Cardinality(S(i))
           b == Cardinality(S(j))
<1>1. /\ IsFiniteSet(1..(i - 1)) /\ IsFiniteSet(1..(j - 1))
  BY FS_Interval
<1>2. S(i) \subseteq 1..(i - 1) /\ S(j) \subseteq 1..(j - 1)
  OBVIOUS
<1>3. IsFiniteSet(S(i)) /\ IsFiniteSet(S(j))
  <2> HIDE DEF S
  <2> QED BY <1>1, <1>2, FS_Subset
<1>4. S(i) \subseteq S(j) /\ i \notin S(i) /\ (NewTable(pages, i) => S(i) \union {i} \subseteq S(j))
  OBVIOUS
<1>5. a \in Nat /\ b \in Nat
  <2> HIDE DEF S
  <2> QED BY <1>3, FS_CardinalityType
<1>6. a <= b /\ (NewTable(pages, i) => a + 1 <= b)
  <2> HIDE DEF S
  <2>1. a <= b
    BY <1>3, <1>4, FS_Subset
  <2>2. ASSUME NewTable(pages, i) PROVE a + 1 <= b
    <3>1. Cardinality(S(i) \union {i}) = a + 1
      BY Zenon, <1>3, <1>4, FS_AddElement
    <3>2. Cardinality(S(i) \union {i}) <= b
      BY <1>3, <1>4, <2>2, FS_Subset
    <3> QED BY <3>1, <3>2
  <2> QED BY <2>1, <2>2
<1>7. TablesBefore(pages, i) = a /\ TablesBefore(pages, j) = b
  BY DEF TablesBefore
<1> HIDE DEF S, a, b
<1> QED BY <1>5, <1>6, <1>7 DEF FrameOf, Taken

\* Where the pages of the image lie.
LEMMA PagesAre ==
  ASSUME NEW pages, FlatPages(pages), NEW i \in 1..Len(pages)
  PROVE  /\ i \in Nat \ {0} /\ Len(pages) \in Nat
         /\ pages[i] \in UserPages /\ pages[i] \in Nat
         /\ At(2, pages[i]) = <<2, 0>> /\ At(3, pages[i]) \in Entries /\ At(4, pages[i]) \in Entries
         /\ At(3, pages[i])[1] = 3 /\ At(4, pages[i])[1] = 4
         /\ \A j \in 1..Len(pages) : pages[i] = pages[j] => i = j
<1>1. /\ Len(pages) \in Nat /\ pages[i] \in UserPages /\ pages[i] < BRK_START
      /\ \A j \in 1..Len(pages) : pages[i] = pages[j] => i = j
  BY DEF FlatPages
<1>0. 3 \in 0..4 /\ 4 \in 0..4
  OBVIOUS
<1>2. pages[i] \in Nat /\ At(3, pages[i]) \in Entries /\ At(4, pages[i]) \in Entries
  BY Zenon, <1>0, <1>1, PageTypes
<1>3. At(3, pages[i])[1] = 3 /\ At(4, pages[i])[1] = 4
  BY Zenon, <1>0, <1>2, AtType
<1>4. At(2, pages[i]) = <<2, 0>>
  <2> DEFINE v == pages[i]
  <2>1. v \in Nat /\ PD_PAGES \in Nat \ {0} /\ v < PD_PAGES
    BY <1>1, <1>2, SpaceAssumption
  <2> HIDE DEF v
  <2>2. v % PD_PAGES = v
    BY <2>1
  <2> QED BY <2>1, <2>2 DEF At, Span, v
<1> QED BY <1>1, <1>2, <1>3, <1>4

\* A page or table is made with one page.
LEMMA MadeOnce ==
  ASSUME NEW pages, FlatPages(pages), NEW e,
         NEW i \in 1..Len(pages), NEW j \in 1..Len(pages),
         MadeWith(pages, e, i), MadeWith(pages, e, j)
  PROVE  i = j
<1>1. /\ At(3, pages[i])[1] = 3 /\ At(4, pages[i])[1] = 4 /\ pages[i] \in Nat
      /\ pages[i] = pages[j] => i = j
  BY PagesAre
<1>2. At(3, pages[j])[1] = 3 /\ At(4, pages[j])[1] = 4 /\ pages[j] \in Nat
  BY PagesAre
<1>3. CASE e[1] = 4
  <2>1. e = At(4, pages[i]) /\ e = At(4, pages[j])
    BY <1>1, <1>2, <1>3 DEF MadeWith
  <2>2. At(4, pages[i]) = <<4, pages[i]>> /\ At(4, pages[j]) = <<4, pages[j]>>
    <3>1. 4 \in 0..4
      OBVIOUS
    <3> QED BY Zenon, <1>1, <1>2, <3>1, AtType
  <2> QED BY <1>1, <2>1, <2>2
<1>4. CASE e[1] = 3
  <2>1. /\ At(3, pages[i]) = At(3, pages[j])
        /\ NewTable(pages, i) /\ NewTable(pages, j)
    BY <1>1, <1>2, <1>4 DEF MadeWith
  <2>2. ~(i < j) /\ ~(j < i) /\ i \in Int /\ j \in Int
    BY <2>1 DEF NewTable
  <2> QED BY <2>2
<1> QED BY <1>1, <1>2, <1>3, <1>4 DEF MadeWith

\* What InitSpace puts into the entries.
LEMMA InitEntry ==
  ASSUME NEW pages, FlatPages(pages), NEW e \in Entries
  PROVE  /\ e[1] <= 2 /\ e[2] = 0 => InitSpace(pages)[e] = e[1] + 1
         /\ e[1] <= 2 /\ e[2] # 0 => InitSpace(pages)[e] = 0
         /\ \A i \in 1..Len(pages) : MadeWith(pages, e, i) =>
              e[1] > 2 /\ InitSpace(pages)[e] = FrameOf(pages, i) + (4 - e[1])
         /\ e[1] > 2 /\ ~(\E i \in 1..Len(pages) : MadeWith(pages, e, i)) => InitSpace(pages)[e] = 0
<1> DEFINE I == {i \in 1..Len(pages) : MadeWith(pages, e, i)}
<1>1. e[1] \in 0..4
  BY EntryFacts
<1>2. InitSpace(pages)[e] =
        CASE e[1] <= 2 /\ e[2] = 0 -> e[1] + 1
          [] e[1] > 2 /\ I # {} -> FrameOf(pages, Min(I)) + (4 - e[1])
          [] OTHER -> 0
  BY DEF InitSpace, MadeWith
<1>3. ASSUME NEW i \in 1..Len(pages), MadeWith(pages, e, i)
      PROVE  e[1] > 2 /\ InitSpace(pages)[e] = FrameOf(pages, i) + (4 - e[1])
  <2>1. I = {i} /\ I # {}
    BY <1>3, MadeOnce
  <2> HIDE DEF I
  <2>2. Min(I) = i
    BY <2>1 DEF Min
  <2>3. e[1] = 3 \/ e[1] = 4
    BY <1>3, PagesAre DEF MadeWith
  <2> QED BY <1>2, <2>1, <2>2, <2>3
<1>4. e[1] > 2 /\ ~(\E i \in 1..Len(pages) : MadeWith(pages, e, i)) => InitSpace(pages)[e] = 0
  <2>1. ~(\E i \in 1..Len(pages) : MadeWith(pages, e, i)) => I = {}
    OBVIOUS
  <2> HIDE DEF I
  <2> QED BY <1>1, <1>2, <2>1
<1>5. /\ e[1] <= 2 /\ e[2] = 0 => InitSpace(pages)[e] = e[1] + 1
      /\ e[1] <= 2 /\ e[2] # 0 => InitSpace(pages)[e] = 0
  <2> HIDE DEF I
  <2> QED BY <1>1, <1>2
<1> QED BY <1>3, <1>4, <1>5

\* What an entry of the first address space is: one of the root and its tables,
\* or a page or table made with a page of the image, or not present.
LEMMA InitKinds ==
  ASSUME NEW pages, FlatPages(pages), NEW e \in Entries, InitSpace(pages)[e] # 0
  PROVE  \/ e[1] \in 0..2 /\ e[2] = 0 /\ InitSpace(pages)[e] = e[1] + 1
         \/ /\ e[1] \in 3..4
            /\ \E i \in 1..Len(pages) :
                 MadeWith(pages, e, i) /\ InitSpace(pages)[e] = FrameOf(pages, i) + (4 - e[1])
<1>1. e[1] \in 0..4
  BY EntryFacts
<1>2. CASE e[1] <= 2
  BY <1>1, <1>2, InitEntry
<1>3. CASE e[1] > 2
  <2>1. PICK i \in 1..Len(pages) : MadeWith(pages, e, i)
    BY <1>3, InitEntry
  <2>2. InitSpace(pages)[e] = FrameOf(pages, i) + (4 - e[1])
    BY <2>1, InitEntry
  <2> QED BY <1>1, <1>3, <2>1, <2>2
<1> QED BY <1>1, <1>2, <1>3

\* The frames of page i lie between those of the root's tables and those of the
\* pages after it.
LEMMA MadeFrame ==
  ASSUME NEW pages, FlatPages(pages), NEW e, NEW i \in 1..Len(pages), MadeWith(pages, e, i)
  PROVE  /\ FrameOf(pages, i) \in Nat /\ FrameOf(pages, i) >= 4
         /\ 4 - e[1] \in 0..1
         /\ \A j \in 1..(Len(pages) + 1) :
              i < j => FrameOf(pages, i) + (4 - e[1]) < FrameOf(pages, j)
<1>1. /\ At(3, pages[i])[1] = 3 /\ At(4, pages[i])[1] = 4 /\ Len(pages) \in Nat
      /\ i \in Nat \ {0} /\ i + 1 \in Nat \ {0} /\ i < i + 1
  BY PagesAre
<1>2. 4 - e[1] \in 0..1 /\ 4 - e[1] < Taken(pages, i)
  BY <1>1 DEF MadeWith, Taken
<1>3. FrameOf(pages, i) \in Nat /\ FrameOf(pages, i) >= 4
  BY <1>1, FramesGrow
<1>4. ASSUME NEW j \in 1..(Len(pages) + 1), i < j
      PROVE  FrameOf(pages, i) + (4 - e[1]) < FrameOf(pages, j)
  <2>1. j \in Nat \ {0}
    BY <1>1
  <2>2. FrameOf(pages, j) \in Nat /\ FrameOf(pages, i) + Taken(pages, i) <= FrameOf(pages, j)
    BY <1>1, <1>4, <2>1, FramesGrow
  <2>3. Taken(pages, i) \in Nat
    BY DEF Taken
  <2> QED BY <1>2, <1>3, <2>2, <2>3
<1> QED BY <1>2, <1>3, <1>4

\* The last frame that the image takes.
LastFrame(pages) == FrameOf(pages, Len(pages) + 1) - 1

\* The first address space is a tree, with a frame of its own for every entry.
LEMMA InitTree ==
  ASSUME NEW pages, FlatPages(pages)
  PROVE  /\ LastFrame(pages) \in Nat /\ LastFrame(pages) >= 3
         /\ \A e \in Entries : InitSpace(pages)[e] \in 0..LastFrame(pages)
         /\ \A d, e \in Entries :
              InitSpace(pages)[d] # 0 /\ InitSpace(pages)[d] = InitSpace(pages)[e] => d = e
<1> DEFINE s == InitSpace(pages)
           n == LastFrame(pages)
           N == Len(pages)
<1>1. N \in Nat
  BY DEF FlatPages
<1>2. n \in Nat /\ n >= 3 /\ FrameOf(pages, N + 1) = n + 1
  <2>1. N + 1 \in Nat \ {0} /\ N + 2 \in Nat \ {0} /\ N + 1 < N + 2
    BY <1>1
  <2>2. FrameOf(pages, N + 1) \in Nat /\ FrameOf(pages, N + 1) >= 4
    BY <2>1, FramesGrow
  <2> QED BY <2>2 DEF LastFrame
<1> HIDE DEF s, n
<1>3. ASSUME NEW e \in Entries, s[e] # 0
      PROVE  \/ e[1] \in 0..2 /\ e[2] = 0 /\ s[e] = e[1] + 1
             \/ /\ e[1] \in 3..4
                /\ \E i \in 1..N : MadeWith(pages, e, i) /\ s[e] = FrameOf(pages, i) + (4 - e[1])
  BY <1>3, InitKinds DEF s
<1>4. ASSUME NEW e \in Entries
      PROVE  s[e] \in 0..n
  <2>1. CASE s[e] = 0
    BY <1>2, <2>1
  <2>2. CASE s[e] # 0 /\ e[1] \in 0..2
    BY <1>2, <1>3, <2>2
  <2>3. CASE s[e] # 0 /\ e[1] \in 3..4
    <3>1. PICK i \in 1..N : MadeWith(pages, e, i) /\ s[e] = FrameOf(pages, i) + (4 - e[1])
      BY <1>3, <2>3
    <3>2. N + 1 \in 1..(N + 1) /\ i < N + 1
      BY <1>1
    <3>3. /\ FrameOf(pages, i) \in Nat /\ 4 - e[1] \in 0..1
          /\ FrameOf(pages, i) + (4 - e[1]) < FrameOf(pages, N + 1)
      BY <3>1, <3>2, MadeFrame
    <3> QED BY <1>2, <3>1, <3>3
  <2>4. e[1] \in 0..4
    BY EntryFacts
  <2> QED BY <2>1, <2>2, <2>3, <2>4
<1>5. ASSUME NEW d \in Entries, NEW e \in Entries, s[d] # 0, s[d] = s[e]
      PROVE  d = e
  <2>1. d = <<d[1], d[2]>> /\ e = <<e[1], e[2]>> /\ d[1] \in 0..4 /\ e[1] \in 0..4
    BY EntryFacts
  <2>2. ASSUME NEW x \in Entries, s[x] # 0
        PROVE  x[1] \in 0..2 => s[x] \in 1..3 /\ x[2] = 0 /\ s[x] = x[1] + 1
    BY <1>3, <2>2
  <2>3. ASSUME NEW x \in Entries, s[x] # 0, x[1] \in 3..4
        PROVE  \E i \in 1..N :
                 /\ MadeWith(pages, x, i) /\ s[x] = FrameOf(pages, i) + (4 - x[1])
                 /\ FrameOf(pages, i) \in Nat /\ FrameOf(pages, i) >= 4 /\ 4 - x[1] \in 0..1
                 /\ \A j \in 1..(N + 1) : i < j => s[x] < FrameOf(pages, j)
    <3>1. PICK i \in 1..N : MadeWith(pages, x, i) /\ s[x] = FrameOf(pages, i) + (4 - x[1])
      BY <1>3, <2>3
    <3>2. /\ FrameOf(pages, i) \in Nat /\ FrameOf(pages, i) >= 4 /\ 4 - x[1] \in 0..1
          /\ \A j \in 1..(N + 1) : i < j => FrameOf(pages, i) + (4 - x[1]) < FrameOf(pages, j)
      BY <3>1, MadeFrame
    <3> QED BY <3>1, <3>2
  <2>4. CASE d[1] \in 0..2 /\ e[1] \in 0..2
    BY <1>5, <2>1, <2>2, <2>4
  <2>5. CASE d[1] \in 3..4 /\ e[1] \in 3..4
    <3>1. PICK i \in 1..N :
                 /\ MadeWith(pages, d, i) /\ s[d] = FrameOf(pages, i) + (4 - d[1])
                 /\ FrameOf(pages, i) \in Nat /\ FrameOf(pages, i) >= 4 /\ 4 - d[1] \in 0..1
                 /\ \A j \in 1..(N + 1) : i < j => s[d] < FrameOf(pages, j)
      BY Zenon, <1>5, <2>3, <2>5
    <3>2. PICK j \in 1..N :
                 /\ MadeWith(pages, e, j) /\ s[e] = FrameOf(pages, j) + (4 - e[1])
                 /\ FrameOf(pages, j) \in Nat /\ FrameOf(pages, j) >= 4 /\ 4 - e[1] \in 0..1
                 /\ \A k \in 1..(N + 1) : j < k => s[e] < FrameOf(pages, k)
      BY <1>5, <2>3, <2>5
    <3>3. i \in 1..(N + 1) /\ j \in 1..(N + 1) /\ i \in Int /\ j \in Int
      BY <1>1
    <3>4. ~(i < j)
      <4>1. i < j => s[d] < FrameOf(pages, j)
        BY <3>1, <3>3
      <4>2. FrameOf(pages, j) \in Nat /\ 4 - e[1] \in 0..1 /\ s[d] = FrameOf(pages, j) + (4 - e[1])
        BY <1>5, <3>2
      <4> QED BY <4>1, <4>2
    <3>5. ~(j < i)
      <4>1. j < i => s[e] < FrameOf(pages, i)
        BY <3>2, <3>3
      <4>2. FrameOf(pages, i) \in Nat /\ 4 - d[1] \in 0..1 /\ s[e] = FrameOf(pages, i) + (4 - d[1])
        BY <1>5, <3>1
      <4> QED BY <4>1, <4>2
    <3>6. i = j
      BY <3>3, <3>4, <3>5
    <3>7. d[1] = e[1]
      <4>1. FrameOf(pages, i) + (4 - d[1]) = FrameOf(pages, i) + (4 - e[1])
        BY Zenon, <1>5, <3>1, <3>2, <3>6
      <4>2. FrameOf(pages, i) \in Nat
        BY <3>1
      <4> QED BY <2>5, <4>1, <4>2
    <3>8. /\ At(3, pages[i])[1] = 3 /\ At(4, pages[i])[1] = 4
      BY PagesAre
    <3> QED BY <3>1, <3>2, <3>6, <3>7, <3>8 DEF MadeWith
  <2>6. CASE (d[1] \in 0..2 /\ e[1] \in 3..4) \/ (d[1] \in 3..4 /\ e[1] \in 0..2)
    <3>1. ASSUME NEW x \in Entries, s[x] # 0, x[1] \in 3..4
          PROVE  ~(s[x] \in 1..3)
      BY <2>3, <3>1
    <3> QED BY <1>5, <2>2, <2>6, <3>1
  <2>7. \/ (d[1] \in 0..2 /\ e[1] \in 0..2) \/ (d[1] \in 3..4 /\ e[1] \in 3..4)
        \/ (d[1] \in 0..2 /\ e[1] \in 3..4) \/ (d[1] \in 3..4 /\ e[1] \in 0..2)
    BY <2>1
  <2> QED BY <2>4, <2>5, <2>6, <2>7
<1> QED BY <1>2, <1>4, <1>5 DEF s, n

\* Every table of the first address space is there.
LEMMA InitClosed ==
  ASSUME Ordered, NEW pages, FlatPages(pages)
  PROVE  Closed(InitSpace(pages)) /\ Rooted(InitSpace(pages))
<1> DEFINE s == InitSpace(pages)
           N == Len(pages)
<1>1. s[<<0, 0>>] = 1 /\ s[<<1, 0>>] = 2
  <2>1. <<0, 0>> \in Entries /\ <<1, 0>> \in Entries
    BY PageTypes
  <2>2. <<0, 0>>[1] = 0 /\ <<0, 0>>[2] = 0 /\ <<1, 0>>[1] = 1 /\ <<1, 0>>[2] = 0
    OBVIOUS
  <2>3. /\ InitSpace(pages)[<<0, 0>>] = 0 + 1
        /\ InitSpace(pages)[<<1, 0>>] = 1 + 1
    BY <2>1, <2>2, InitEntry
  <2> QED BY <2>3
<1>2. ASSUME NEW i \in 1..N
      PROVE  /\ s[At(2, pages[i])] = 3 /\ s[At(3, pages[i])] # 0
  <2>1. /\ pages[i] \in Nat /\ At(2, pages[i]) = <<2, 0>> /\ At(3, pages[i]) \in Entries
        /\ At(3, pages[i])[1] = 3 /\ N \in Nat
    BY PagesAre
  <2>2. s[At(2, pages[i])] = 3
    <3>1. <<2, 0>> \in Entries
      <4>1. pages[i] \in UserPages /\ 2 \in 0..4
        BY PagesAre
      <4> QED BY <2>1, <4>1, PageTypes
    <3>2. <<2, 0>>[1] = 2 /\ <<2, 0>>[2] = 0
      OBVIOUS
    <3>3. InitSpace(pages)[<<2, 0>>] = 2 + 1
      BY <3>1, <3>2, InitEntry
    <3> QED BY <2>1, <3>3
  <2>3. s[At(3, pages[i])] # 0
    <3> DEFINE e == At(3, pages[i])
               J == {j \in 1..N : At(3, pages[j]) = e}
    <3>1. J \in SUBSET Nat /\ i \in J
      BY <2>1
    <3> HIDE DEF J
    <3>2. PICK j \in J : \A k \in J : j <= k
      BY Zenon, <3>1 DEF Ordered
    <3>3. j \in 1..N /\ At(3, pages[j]) = e
      BY <3>2 DEF J
    <3>4. NewTable(pages, j)
      <4>1. ASSUME NEW k \in 1..(j - 1), At(3, pages[k]) = At(3, pages[j])
            PROVE  FALSE
        <5>1. k \in 1..N /\ ~(j <= k)
          BY <2>1, <3>3
        <5>2. k \in J
          BY <3>3, <4>1, <5>1 DEF J
        <5> QED BY <3>2, <5>1, <5>2
      <4> QED BY <4>1 DEF NewTable
    <3>5. MadeWith(pages, e, j)
      BY <3>3, <3>4 DEF MadeWith
    <3> HIDE DEF e
    <3>6. e \in Entries /\ e[1] = 3
      BY <2>1 DEF e
    <3>7. s[e] = FrameOf(pages, j) + (4 - e[1])
      BY <3>3, <3>5, <3>6, InitEntry
    <3>8. FrameOf(pages, j) \in Nat /\ FrameOf(pages, j) >= 4 /\ 4 - e[1] \in 0..1
      BY <3>3, <3>5, MadeFrame
    <3>9. s[e] # 0
      BY <3>7, <3>8
    <3> QED BY <3>9 DEF e
  <2> QED BY <2>2, <2>3
<1>3. ASSUME NEW e \in Entries, s[e] # 0, NEW k \in 0..(e[1] - 1)
      PROVE  s[At(k, e[2])] # 0
  <2>1. e[1] \in 0..4 /\ e[2] \in Nat /\ k \in 0..4 /\ k < e[1]
    BY EntryFacts
  <2>2. CASE k < 2
    <3>1. At(k, e[2]) = <<k, 0>>
      BY Zenon, <2>1, <2>2, AtType
    <3>2. k = 0 \/ k = 1
      BY <2>1, <2>2
    <3> HIDE DEF s
    <3> QED BY <1>1, <3>1, <3>2
  <2>3. CASE k >= 2
    <3>1. e[1] \in 3..4 /\ (k = 2 \/ (k = 3 /\ e[1] = 4))
      BY <2>1, <2>3
    <3>2. PICK i \in 1..N : MadeWith(pages, e, i)
      BY <1>3, <3>1, InitKinds
    <3>3. /\ At(3, pages[i])[1] = 3 /\ At(4, pages[i])[1] = 4 /\ pages[i] \in Nat
      BY PagesAre
    <3>4. e = At(e[1], pages[i])
      BY <3>1, <3>2, <3>3 DEF MadeWith
    <3>5. At(k, At(e[1], pages[i])[2]) = At(k, pages[i])
      <4>1. k <= e[1] /\ e[1] \in 0..4 /\ k \in 0..4
        BY <2>1
      <4> QED BY Zenon, <3>3, <4>1, AtAt
    <3>6. At(k, e[2]) = At(k, pages[i])
      BY Zenon, <3>4, <3>5
    <3> HIDE DEF s
    <3> QED BY <1>2, <3>1, <3>6
  <2> QED BY <2>1, <2>2, <2>3
<1> HIDE DEF s
<1>4. Closed(s) /\ Rooted(s)
  BY <1>1, <1>3 DEF Closed, Rooted
<1> QED BY <1>4 DEF s

\* The first process owns its frames alone.
LEMMA InitOwns ==
  ASSUME NEW pages, FlatPages(pages), op = Idle,
         LastFrame(pages) + KSTACK_PAGES <= NFRAMES,
         space = [p \in Procs |-> IF p = 1 THEN InitSpace(pages) ELSE NoSpace],
         kstack = [p \in Procs |-> IF p = 1 THEN LastFrame(pages) + 1 ELSE 0],
         free = Frames \ (1..(LastFrame(pages) + KSTACK_PAGES))
  PROVE  OwnInv
<1> DEFINE s == InitSpace(pages)
           n == LastFrame(pages)
<1>1. /\ n \in Nat /\ n >= 3 /\ \A e \in Entries : s[e] \in 0..n
      /\ \A d, e \in Entries : s[d] # 0 /\ s[d] = s[e] => d = e
  BY InitTree
<1> HIDE DEF s, n
<1>2. n + KSTACK_PAGES <= NFRAMES /\ free = Frames \ (1..(n + KSTACK_PAGES))
  BY DEF n
<1>3. NFRAMES \in Nat /\ KSTACK_PAGES \in Nat \ {0} /\ NPROCS \in Nat \ {0}
  BY SpaceAssumption
<1>4. 1 \in Procs /\ space[1] = s /\ kstack[1] = n + 1
  BY <1>3 DEF Procs, s, n
<1>5. \A p \in Procs : p # 1 => space[p] = NoSpace /\ kstack[p] = 0
  OBVIOUS
<1>6. (\A p \in Procs : StackFits(kstack[p])) /\ StackFits(op.kstack)
  <2>1. StackFits(n + 1) /\ StackFits(0)
    BY <1>1, <1>2, <1>3 DEF StackFits
  <2> QED BY <1>4, <1>5, <2>1, IdleFacts
<1>7. ASSUME NEW p \in Owners, p # 1, NEW e \in Spots
      PROVE  Held[p][e] = 0
  <2>1. CASE p = 0
    BY <2>1, HeldBoth, IdleFacts, SpotNone DEF HeldIs
  <2>2. CASE p \in Procs
    BY <1>5, <1>7, <2>2, HeldBoth, SpotNone DEF HeldIs
  <2> QED BY <2>1, <2>2, OwnerKinds
<1>8. ASSUME NEW e \in Spots
      PROVE  /\ e \in Entries => Held[1][e] = s[e]
             /\ \A i \in 0..(KSTACK_PAGES - 1) : e = <<5, i>> => Held[1][e] = n + 1 + i
             /\ e = <<6, 0>> => Held[1][e] = 0
  <2>1. Held[1][e] = Spot(s, n + 1, 0, e)
    BY <1>4, HeldBoth DEF HeldIs
  <2>2. n + 1 # 0
    BY <1>1
  <2>3. /\ e \in Entries => Spot(s, n + 1, 0, e) = s[e]
        /\ e = <<6, 0>> => Spot(s, n + 1, 0, e) = 0
    <3>1. e \in Entries => e[1] <= 4
      BY EntryFacts
    <3> QED BY <3>1 DEF Spot
  <2>4. ASSUME NEW i \in 0..(KSTACK_PAGES - 1), e = <<5, i>>
        PROVE  Spot(s, n + 1, 0, e) = n + 1 + i
    <3>1. Spot(s, n + 1, 0, <<5, i>>) = IF n + 1 = 0 THEN 0 ELSE n + 1 + i
      BY DEF Spot
    <3> QED BY <2>2, <2>4, <3>1
  <2> QED BY <2>1, <2>3, <2>4
<1>9. ASSUME NEW e \in Spots, Held[1][e] # 0
      PROVE  /\ Held[1][e] \in 1..(n + KSTACK_PAGES)
             /\ \/ e \in Entries /\ Held[1][e] = s[e] /\ s[e] <= n
                \/ /\ Held[1][e] > n
                   /\ \E i \in 0..(KSTACK_PAGES - 1) : e = <<5, i>> /\ Held[1][e] = n + 1 + i
  <2>1. CASE e \in Entries
    <3>1. Held[1][e] = s[e] /\ s[e] \in 0..n
      BY <1>1, <1>8, <2>1
    <3> QED BY <1>1, <1>3, <1>9, <2>1, <3>1
  <2>2. CASE \E i \in 0..(KSTACK_PAGES - 1) : e = <<5, i>>
    <3>1. PICK i \in 0..(KSTACK_PAGES - 1) : e = <<5, i>>
      BY <2>2
    <3>2. Held[1][e] = n + 1 + i
      BY <1>8, <3>1
    <3> QED BY <1>1, <1>3, <3>1, <3>2
  <2>3. CASE e = <<6, 0>>
    BY <1>8, <1>9, <2>3
  <2> QED BY <2>1, <2>2, <2>3, SpotKinds
<1>10. ASSUME NEW p \in Owners, NEW q \in Owners, NEW d \in Spots, NEW e \in Spots,
              Held[p][d] # 0
       PROVE  Held[p][d] \notin free /\ (Held[p][d] = Held[q][e] => p = q /\ d = e)
  <2>1. p = 1
    BY <1>7, <1>10
  <2>2. Held[p][d] \notin free
    BY <1>2, <1>9, <1>10, <2>1
  <2>3. ASSUME Held[p][d] = Held[q][e] PROVE p = q /\ d = e
    <3>1. q = 1 /\ Held[1][d] # 0 /\ Held[1][e] # 0 /\ Held[1][d] = Held[1][e]
      BY <1>7, <1>10, <2>1, <2>3
    <3>2. CASE d \in Entries /\ e \in Entries
      <4>1. s[d] # 0 /\ s[d] = s[e]
        BY <1>8, <3>1, <3>2
      <4> QED BY <1>1, <2>1, <3>1, <3>2, <4>1
    <3>3. CASE d \notin Entries /\ e \notin Entries
      <4>1. PICK i \in 0..(KSTACK_PAGES - 1) : d = <<5, i>> /\ Held[1][d] = n + 1 + i
        BY <1>9, <3>1, <3>3
      <4>2. PICK j \in 0..(KSTACK_PAGES - 1) : e = <<5, j>> /\ Held[1][e] = n + 1 + j
        BY <1>9, <3>1, <3>3
      <4>3. i = j
        BY <1>1, <1>3, <3>1, <4>1, <4>2
      <4> QED BY <2>1, <3>1, <4>1, <4>2, <4>3
    <3>4. CASE (d \in Entries /\ e \notin Entries) \/ (d \notin Entries /\ e \in Entries)
      <4>1. ASSUME NEW x \in Spots, NEW y \in Spots, x \in Entries, y \notin Entries,
                   Held[1][x] # 0, Held[1][y] # 0
            PROVE  Held[1][x] # Held[1][y]
        <5>1. Held[1][x] = s[x] /\ s[x] \in 0..n
          BY <1>1, <1>8, <4>1
        <5>2. Held[1][y] > n
          BY <1>9, <4>1
        <5> QED BY <1>1, <5>1, <5>2
      <4> QED BY <3>1, <3>4, <4>1
    <3> QED BY <3>2, <3>3, <3>4
  <2> QED BY <2>2, <2>3
<1>11. Excl(Held, free)
  BY <1>10 DEF Excl
<1> QED BY <1>6, <1>11 DEF OwnInv

\* The invariant holds when spawn_init is done.
LEMMA InitHolds ==
  ASSUME Ordered, SpaceInit
  PROVE  SpaceInv
<1>1. PICK image \in {i \in Images : ~i.elf} :
        LET pages == image.load \o image.stack
            n == FrameOf(pages, Len(pages) + 1) - 1
        IN /\ n + KSTACK_PAGES <= NFRAMES
           /\ space = [p \in Procs |-> IF p = 1 THEN InitSpace(pages) ELSE NoSpace]
           /\ kstack = [p \in Procs |-> IF p = 1 THEN n + 1 ELSE 0]
           /\ free = Frames \ (1..(n + KSTACK_PAGES))
  BY Zenon DEF SpaceInit
<1> DEFINE pages == image.load \o image.stack
           s == InitSpace(pages)
           n == LastFrame(pages)
<1>2. FlatPages(pages)
  <2>1. GoodImage(image) /\ ~image.elf
    BY SpaceAssumption
  <2>2. image.load \in Seq(UserPages) /\ image.stack \in Seq(UserPages)
    BY <2>1 DEF GoodImage
  <2>3. pages \in Seq(UserPages)
    BY <2>2
  <2> QED BY <2>1, <2>3 DEF FlatPages, GoodImage
<1>3. /\ n + KSTACK_PAGES <= NFRAMES
      /\ space = [p \in Procs |-> IF p = 1 THEN s ELSE NoSpace]
      /\ kstack = [p \in Procs |-> IF p = 1 THEN n + 1 ELSE 0]
      /\ free = Frames \ (1..(n + KSTACK_PAGES))
  BY Zenon, <1>1 DEF LastFrame
<1> HIDE DEF pages
<1>4. brk = [p \in Procs |-> IF p = 1 THEN BRK_START ELSE 0] /\ pool = CHUNK_COUNT /\ op = Idle
  BY DEF SpaceInit
<1>5. OwnInv
  BY <1>2, <1>3, <1>4, InitOwns
<1>6. /\ n \in Nat /\ n >= 3 /\ \A e \in Entries : s[e] \in 0..n
      /\ Closed(s) /\ Rooted(s)
  BY <1>2, InitTree, InitClosed
<1>7. s \in Tree
  <2>1. s = [e \in Entries |-> s[e]]
    BY DEF InitSpace
  <2>2. \A e \in Entries : s[e] \in 0..NFRAMES
    BY <1>3, <1>6, SpaceAssumption
  <2> HIDE DEF s
  <2> QED BY <2>1, <2>2 DEF Tree
<1> HIDE DEF s, n
<1>8. /\ free \subseteq Frames /\ space \in [Procs -> Tree]
      /\ kstack \in [Procs -> 0..NFRAMES] /\ brk \in [Procs -> 0..BRK_MAX]
  <2>1. n + 1 \in 0..NFRAMES /\ 0 \in 0..NFRAMES /\ 0 \in 0..BRK_MAX /\ BRK_START \in 0..BRK_MAX
    BY <1>3, <1>6, SpaceAssumption
  <2> QED BY <1>3, <1>4, <1>7, <2>1, IdleFacts
<1>9. \A p \in Procs : Closed(space[p])
  BY <1>3, <1>6, IdleFacts
<1>10. \A p \in Procs : Live(p) => Rooted(space[p]) /\ brk[p] \in BRK_START..BRK_MAX
  <2>1. BRK_START \in BRK_START..BRK_MAX
    BY SpaceAssumption
  <2>2. \A p \in Procs : Live(p) => p = 1
    BY <1>3 DEF Live
  <2>3. 1 \in Procs => space[1] = s /\ brk[1] = BRK_START
    BY <1>3, <1>4
  <2> QED BY <1>6, <2>1, <2>2, <2>3
<1>11. TypeInv
  BY <1>4, <1>8, IdleFacts, SpaceAssumption DEF TypeInv
<1>12. CallInv
  BY <1>4, IdleFacts DEF CallInv, Execs, Grows
<1>13. PoolInv
  BY <1>4, IdleFacts, SpaceAssumption DEF PoolInv
<1>14. TreeInv
  BY <1>4, <1>9, <1>10, IdleFacts DEF TreeInv, Execs, Grows
<1>15. ExecInv /\ ForkInv
  BY <1>4, IdleFacts DEF ExecInv, ForkInv, Execs
<1> QED BY <1>5, <1>11, <1>12, <1>13, <1>14, <1>15 DEF SpaceInv

-----------------------------------------------------------------------------
(* What the invariant says *)

\* Every use of a frame is a spot of an owner that holds it.
LEMMA UsesHeld ==
  ASSUME NEW u \in Uses, u[3] # 0
  PROVE  u[1] \in Owners /\ u[2] \in Spots /\ u[3] = Held[u[1]][u[2]] /\ u = <<u[1], u[2], u[3]>>
<1>1. ASSUME NEW p \in Procs, NEW e \in Entries, u = <<p, e, space[p][e]>>
      PROVE  p \in Owners /\ e \in Spots /\ space[p][e] = Held[p][e]
  BY HeldBoth, OwnerKinds, SpotIs DEF HeldIs
<1>2. ASSUME NEW e \in Entries, u = <<0, e, op.root[e]>>
      PROVE  0 \in Owners /\ e \in Spots /\ op.root[e] = Held[0][e]
  BY HeldBoth, OwnerKinds, SpotIs DEF HeldIs
<1>3. ASSUME NEW p \in Procs, Live(p), NEW i \in 0..(KSTACK_PAGES - 1),
             u = <<p, <<5, i>>, kstack[p] + i>>
      PROVE  p \in Owners /\ <<5, i>> \in Spots /\ kstack[p] + i = Held[p][<<5, i>>]
  <2>1. p \in Owners /\ <<5, i>> \in Spots
    BY OwnerKinds, SpotIs
  <2>2. Held[p][<<5, i>>] = Spot(space[p], kstack[p], 0, <<5, i>>)
    BY <2>1, HeldBoth DEF HeldIs
  <2>3. Spot(space[p], kstack[p], 0, <<5, i>>) = IF kstack[p] = 0 THEN 0 ELSE kstack[p] + i
    BY DEF Spot
  <2> QED BY <1>3, <2>1, <2>2, <2>3 DEF Live
<1>4. ASSUME op.kstack # 0, NEW i \in 0..(KSTACK_PAGES - 1), u = <<0, <<5, i>>, op.kstack + i>>
      PROVE  0 \in Owners /\ <<5, i>> \in Spots /\ op.kstack + i = Held[0][<<5, i>>]
  <2>1. 0 \in Owners /\ <<5, i>> \in Spots
    BY OwnerKinds, SpotIs
  <2>2. Held[0][<<5, i>>] = Spot(op.root, op.kstack, op.page, <<5, i>>)
    BY <2>1, HeldBoth DEF HeldIs
  <2>3. Spot(op.root, op.kstack, op.page, <<5, i>>) = IF op.kstack = 0 THEN 0 ELSE op.kstack + i
    BY DEF Spot
  <2> QED BY <1>4, <2>1, <2>2, <2>3
<1>5. ASSUME u = <<0, <<6, 0>>, op.page>>
      PROVE  0 \in Owners /\ <<6, 0>> \in Spots /\ op.page = Held[0][<<6, 0>>]
  BY HeldBoth, OwnerKinds, SpotIs DEF HeldIs
<1>6. \/ \E p \in Procs, e \in Entries : u = <<p, e, space[p][e]>>
      \/ \E e \in Entries : u = <<0, e, op.root[e]>>
      \/ \E p \in Procs, i \in 0..(KSTACK_PAGES - 1) :
           Live(p) /\ u = <<p, <<5, i>>, kstack[p] + i>>
      \/ op.kstack # 0 /\ \E i \in 0..(KSTACK_PAGES - 1) : u = <<0, <<5, i>>, op.kstack + i>>
      \/ u = <<0, <<6, 0>>, op.page>>
  BY DEF Uses
<1> QED BY <1>1, <1>2, <1>3, <1>4, <1>5, <1>6

\* A frame is in use once, and is a frame that is not free.
LEMMA UseFrames ==
  ASSUME SpaceInv, NEW u \in Uses, u[3] # 0
  PROVE  /\ u[3] \in Frames /\ u[3] \notin free
         /\ \A w \in Uses : w[3] = u[3] => w = u
<1>1. u[1] \in Owners /\ u[2] \in Spots /\ u[3] = Held[u[1]][u[2]] /\ u = <<u[1], u[2], u[3]>>
  BY UsesHeld
<1>2. Excl(Held, free)
  BY DEF SpaceInv, OwnInv
<1>3. u[3] \notin free
  BY <1>1, <1>2 DEF Excl
<1>4. ASSUME NEW w \in Uses, w[3] = u[3] PROVE w = u
  <2>1. w[1] \in Owners /\ w[2] \in Spots /\ w[3] = Held[w[1]][w[2]] /\ w = <<w[1], w[2], w[3]>>
    BY <1>4, UsesHeld
  <2>2. w[1] = u[1] /\ w[2] = u[2]
    <3>1. Held[u[1]][u[2]] # 0 /\ Held[u[1]][u[2]] = Held[w[1]][w[2]]
      BY <1>1, <1>4, <2>1
    <3> QED BY <1>1, <1>2, <2>1, <3>1 DEF Excl
  <2> QED BY <1>1, <1>4, <2>1, <2>2
<1>5. u[3] \in 0..NFRAMES
  <2>1. /\ \A p \in Procs : space[p] \in Tree /\ kstack[p] \in 0..NFRAMES /\ StackFits(kstack[p])
        /\ op.root \in Tree /\ op.page \in 0..NFRAMES /\ op.kstack \in 0..NFRAMES
        /\ StackFits(op.kstack)
    BY DEF SpaceInv, TypeInv, OwnInv, OpType
  <2>2. ASSUME NEW k \in 0..NFRAMES, k # 0, StackFits(k), NEW i \in 0..(KSTACK_PAGES - 1)
        PROVE  k + i \in 0..NFRAMES
    BY <2>2, SpaceAssumption DEF StackFits
  <2>3. \/ \E p \in Procs, e \in Entries : u[3] = space[p][e]
        \/ \E e \in Entries : u[3] = op.root[e]
        \/ \E p \in Procs, i \in 0..(KSTACK_PAGES - 1) : Live(p) /\ u[3] = kstack[p] + i
        \/ op.kstack # 0 /\ \E i \in 0..(KSTACK_PAGES - 1) : u[3] = op.kstack + i
        \/ u[3] = op.page
    BY DEF Uses
  <2>4. \A s \in Tree : \A e \in Entries : s[e] \in 0..NFRAMES
    BY DEF Tree
  <2> QED BY <2>1, <2>2, <2>3, <2>4 DEF Live
<1>6. u[3] \in Frames
  BY <1>5, SpaceAssumption DEF Frames
<1> QED BY <1>3, <1>4, <1>6

\* The uses of frames are as many as the frames in use.
LEMMA ExclusiveHolds ==
  ASSUME SpaceInv
  PROVE  FramesExclusive
<1> DEFINE used == {u \in Uses : u[3] # 0}
           frames == {u[3] : u \in used}
           f == [u \in used |-> u[3]]
<1>1. \A u \in used : u[3] \in Frames /\ u[3] \notin free
  BY UseFrames
<1>2. \A u, w \in used : w[3] = u[3] => w = u
  BY UseFrames
<1>3. frames \subseteq Frames /\ frames \intersect free = {}
  BY <1>1
<1>4. IsFiniteSet(frames)
  <2>1. IsFiniteSet(Frames)
    BY SpaceAssumption, FS_Interval DEF Frames
  <2> HIDE DEF frames
  <2> QED BY <1>3, <2>1, FS_Subset
<1>5. f \in Injection(used, frames) /\ f \in Surjection(used, frames)
  <2>1. f \in [used -> frames] /\ \A u \in used : f[u] = u[3]
    OBVIOUS
  <2>2. \A t \in frames : \E u \in used : f[u] = t
    OBVIOUS
  <2> HIDE DEF f, used, frames
  <2>3. \A u, w \in used : f[u] = f[w] => u = w
    BY <1>2, <2>1
  <2> QED BY <2>1, <2>2, <2>3 DEF Injection, Surjection, IsInjective
<1>6. Cardinality(used) = Cardinality(frames)
  <2> HIDE DEF f, used, frames
  <2> QED BY <1>4, <1>5, FS_Injection
<1>7. SpaceTypeOK
  BY DEF SpaceTypeOK, SpaceInv, TypeInv, OpType, Tree
<1> QED BY <1>3, <1>6, <1>7 DEF FramesExclusive

-----------------------------------------------------------------------------
(* The theorems *)

\* WellFoundedInduction is used in this lemma only.
WF == INSTANCE WellFoundedInduction

\* A nonempty set of naturals has a least element.
LEMMA NatsOrdered == Ordered
<1> SUFFICES ASSUME NEW S \in SUBSET Nat, S # {} PROVE \E x \in S : \A y \in S : x <= y
  BY DEF Ordered
<1> DEFINE R == {ss \in Nat \X Nat : ss[1] < ss[2]}
<1>1. WF!IsWellFoundedOn(R, Nat)
  BY WF!NatLessThanWellFounded DEF WF!OpToRel
<1>2. \A x, y \in Nat : ~(<<y, x>> \in R) => x <= y
  OBVIOUS
<1> HIDE DEF R
<1>3. PICK x \in S : \A y \in S : ~(<<y, x>> \in R)
  BY Zenon, <1>1, WF!WFMin
<1>4. \A y \in S : x <= y
  BY Zenon, <1>2, <1>3
<1> QED BY <1>4

\* The invariant of the address spaces is inductive: the page tables of every
\* process and of the call in progress are trees with a frame of their own for
\* every entry, stacks and the page in hand included.
THEOREM SpaceInvariance == SpaceSpec => []SpaceInv
<1>1. SpaceInit => SpaceInv
  BY InitHolds, NatsOrdered
<1>2. SpaceInv /\ [SpaceNext]_spaceVars => SpaceInv'
  BY NextKeeps, StutterKeeps, NatsOrdered DEF StepKeeps
<1> QED BY <1>1, <1>2, PTL DEF SpaceSpec

\* No frame ever has two owners and no frame in use is free: fork copies, no
\* way out of fork or exec frees a frame twice, and reaping frees nothing that
\* lives, wherever alloc() fails.
THEOREM FramesAreExclusive == SpaceSpec => []FramesExclusive
<1>1. SpaceInv => FramesExclusive
  BY Zenon, ExclusiveHolds
<1> QED BY <1>1, SpaceInvariance, PTL

\* destroy_uncommitted_pml4 always reaches every entry that is present.
THEOREM WalksAreComplete == SpaceSpec => []WalkFindsAll
<1>1. SpaceInv => WalkFindsAll
  BY WalkAll DEF SpaceInv, TreeInv, WalkFindsAll
<1> QED BY <1>1, SpaceInvariance, PTL

\* When no call is in progress the ELF provenance arena has all its chunks.
THEOREM MetadataIsReturned == SpaceSpec => []MetadataReturned
<1>1. SpaceInv => MetadataReturned
  <2>1. Idle.claimed = 0
    BY IdleFacts
  <2> QED BY <2>1 DEF SpaceInv, TypeInv, PoolInv, MetadataReturned
<1> QED BY <1>1, SpaceInvariance, PTL

\* An exec that fails, at whichever allocation, gives back every frame it took
\* and leaves every process as it was.
THEOREM ExecIsAtomic == SpaceSpec => ExecAtomic
<1>1. SpaceInv /\ [SpaceNext]_spaceVars => [ExecFailStep]_spaceVars
  BY NextKeeps, NatsOrdered DEF StepKeeps
<1> QED BY <1>1, SpaceInvariance, PTL DEF SpaceSpec, ExecAtomic

\* A fork that ends, successful or not, leaves the address space of its parent
\* as it found it.
THEOREM ParentsAreRestored == SpaceSpec => ParentRestored
<1>1. SpaceInv /\ [SpaceNext]_spaceVars => [ParentRestoredStep]_spaceVars
  BY NextKeeps, NatsOrdered DEF StepKeeps
<1> QED BY <1>1, SpaceInvariance, PTL DEF SpaceSpec, ParentRestored

=============================================================================
