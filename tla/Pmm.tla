-------------------------------- MODULE Pmm --------------------------------
(***************************************************************************)
(* The physical page allocator (pmm.rs): a bitmap over the pages of the    *)
(* managed range, set up from the Multiboot memory map (multiboot.rs,      *)
(* kernel_main) and then used by alloc, alloc_pages and free.              *)
(*                                                                         *)
(* Addresses are bytes and PAGE is the size of a page, so that regions     *)
(* need not begin or end on a page boundary.                               *)
(***************************************************************************)
EXTENDS Integers, Sequences, FiniteSets, FiniteSetsExt

CONSTANTS PAGE,           \* PMM_PAGE_SIZE
          PMM_MAX_PAGES,
          LowLimit,       \* 1 MB: memory below it is not managed
          MaxEnd,         \* 256 MB: nor is memory from here on
          KernelStart, KernelSize,  \* the whole pages kernel_main reserves
          Maps,           \* memory maps: sequences of [base, length, avail]
          Counts          \* the arguments of alloc_pages

Regions == [base : Nat, length : Nat, avail : BOOLEAN]
Avail(map) == {map[i] : i \in {j \in DOMAIN map : map[j].avail}}

\* What a boot loader hands over: its regions are disjoint, the kernel sits
\* in an available one, and the first of those is not beyond MaxEnd.
GoodMap(map) ==
  /\ map \in Seq(Regions)
  /\ \A i, j \in DOMAIN map : i # j =>
       \/ map[i].base + map[i].length <= map[j].base
       \/ map[j].base + map[j].length <= map[i].base
  /\ \E r \in Avail(map) : /\ r.base <= KernelStart
                           /\ KernelStart + KernelSize <= r.base + r.length
  /\ \A r \in Avail(map) : r.base < MaxEnd

ASSUME PmmAssumption ==
  /\ PAGE \in Nat \ {0} /\ PMM_MAX_PAGES \in Nat /\ PMM_MAX_PAGES >= 4
  /\ LowLimit \in Nat /\ MaxEnd \in Nat /\ LowLimit < MaxEnd
  /\ LowLimit % PAGE = 0 /\ MaxEnd % PAGE = 0
  /\ KernelStart \in Nat /\ KernelStart % PAGE = 0 /\ KernelStart >= LowLimit
  /\ KernelSize \in Nat \ {0} /\ KernelSize % PAGE = 0
  /\ \A map \in Maps : GoodMap(map)
  /\ Counts \subseteq Nat \ {0}

VARIABLES mmap,          \* the map the boot loader passed
          total_pages, memory_start,
          bitmap,        \* the pages whose bit is set
          reserved,      \* the pages whose bit was set when boot was over
          held,          \* the pages handed out and not freed
          stage          \* "mmap", "mapped", "fallback" or "run"

pmmVars == <<mmap, total_pages, memory_start, bitmap, reserved, held, stage>>

Bits == 0..(PMM_MAX_PAGES - 1)
Pages == 0..(total_pages - 1)

\* The pages reserve() and init_region() go through, for a region at or after
\* memory_start.
Span(start, base, size) ==
  LET first == (base - start) \div PAGE
      last == IF size = 0 THEN first
              ELSE Min({(base - start + size - 1) \div PAGE, PMM_MAX_PAGES - 1})
  IN first..last

PmmInit ==
  /\ mmap \in Maps
  /\ total_pages = 0 /\ memory_start = 0
  /\ bitmap = {} /\ reserved = {} /\ held = {}
  /\ stage = "mmap"

\* Mutant: a region that begins below the range is not clipped, and ignored.
Freed_NoClip(r, start, end) ==
  LET top == Min({r.base + r.length, end})
  IN IF r.base >= start /\ top > r.base THEN Span(start, r.base, top - r.base) ELSE {}

\* The pages of one region that apply_mmap_to_pmm frees.
Freed(r, start, end) ==
  LET base == Max({r.base, start})
      top == Min({r.base + r.length, end})
  IN IF top > base THEN Span(start, base, top - base) ELSE {}

\* apply_mmap_to_pmm: everything used, then the available regions freed.
ApplyMmap ==
  LET first == mmap[Min({i \in DOMAIN mmap : mmap[i].avail})]
      start == Max({(first.base \div PAGE) * PAGE, LowLimit})
      end == Min({Max({r.base + r.length : r \in Avail(mmap)}), MaxEnd})
  IN
  /\ stage = "mmap"
  /\ memory_start' = start
  /\ total_pages' = Min({(end - start) \div PAGE, PMM_MAX_PAGES})
  /\ bitmap' = Bits \ UNION {Freed(r, start, end) : r \in Avail(mmap)}
  /\ stage' = "mapped"
  /\ UNCHANGED <<mmap, reserved, held>>

\* kernel_main without a usable map: init over the hard-wired range.
InitFallback ==
  /\ stage = "mmap"
  /\ memory_start' = LowLimit
  /\ total_pages' = Min({(MaxEnd - LowLimit) \div PAGE, PMM_MAX_PAGES})
  /\ bitmap' = 0..3
  /\ stage' = "fallback"
  /\ UNCHANGED <<mmap, reserved, held>>

\* Mutant: the last page of the kernel is not reserved.
ReserveKernel_ShortByOne ==
  /\ stage \in {"mapped", "fallback"}
  /\ bitmap' = IF KernelStart < memory_start THEN bitmap
               ELSE bitmap \union (Span(memory_start, KernelStart, KernelSize)
                                   \ {Max(Span(memory_start, KernelStart, KernelSize))})
  /\ reserved' = bitmap'
  /\ stage' = "run"
  /\ UNCHANGED <<mmap, total_pages, memory_start, held>>

\* kernel_main reserves the kernel image.
ReserveKernel ==
  /\ stage \in {"mapped", "fallback"}
  /\ bitmap' = IF KernelStart < memory_start THEN bitmap
               ELSE bitmap \union Span(memory_start, KernelStart, KernelSize)
  /\ reserved' = bitmap'
  /\ stage' = "run"
  /\ UNCHANGED <<mmap, total_pages, memory_start, held>>

-----------------------------------------------------------------------------

Free(b) == Pages \ b

\* The page alloc() returns when the bitmap is b.
FirstFree(b) == Min(Free(b))

Alloc ==
  /\ stage = "run"
  /\ IF Free(bitmap) = {}
     THEN UNCHANGED <<bitmap, held>>
     ELSE /\ bitmap' = bitmap \union {FirstFree(bitmap)}
          /\ held' = held \union {FirstFree(bitmap)}
  /\ UNCHANGED <<mmap, total_pages, memory_start, reserved, stage>>

\* The loop of alloc_pages(n) gets as far as i pages in a row from first.
RunFrom(first, i) == \A p \in first..(first + i - 1) : p \in Free(bitmap)

\* Mutant: the page that broke the run is not given back.
AllocPagesFails_KeepsBreaker(n) ==
  \E i \in 1..(n - 1) :
    /\ Free(bitmap) # {}
    /\ RunFrom(FirstFree(bitmap), i) /\ ~RunFrom(FirstFree(bitmap), i + 1)
    /\ LET run == FirstFree(bitmap)..(FirstFree(bitmap) + i - 1)
           b == bitmap \union run
           breaker == IF Free(b) = {} THEN {} ELSE {FirstFree(b)}
       IN bitmap' = (b \union breaker) \ run

\* alloc_pages(n) has taken i pages when the next is not the neighbour, or
\* there is none; it gives back that page and the run.
AllocPagesFails(n) ==
  \E i \in 1..(n - 1) :
    /\ Free(bitmap) # {}
    /\ RunFrom(FirstFree(bitmap), i) /\ ~RunFrom(FirstFree(bitmap), i + 1)
    /\ LET run == FirstFree(bitmap)..(FirstFree(bitmap) + i - 1)
           b == bitmap \union run
           breaker == IF Free(b) = {} THEN {} ELSE {FirstFree(b)}
       IN bitmap' = ((b \union breaker) \ breaker) \ run

AllocPages(n) ==
  /\ stage = "run"
  /\ \/ /\ Free(bitmap) = {}
        /\ UNCHANGED <<bitmap, held>>
     \/ /\ AllocPagesFails(n)
        /\ UNCHANGED held
     \/ /\ Free(bitmap) # {}
        /\ RunFrom(FirstFree(bitmap), n)
        /\ LET run == FirstFree(bitmap)..(FirstFree(bitmap) + n - 1)
           IN bitmap' = bitmap \union run /\ held' = held \union run
  /\ UNCHANGED <<mmap, total_pages, memory_start, reserved, stage>>

\* free() of a page by its holder.
FreePage(p) ==
  /\ stage = "run"
  /\ p \in held
  /\ bitmap' = bitmap \ {p}
  /\ held' = held \ {p}
  /\ UNCHANGED <<mmap, total_pages, memory_start, reserved, stage>>

PmmNext ==
  \/ ApplyMmap \/ InitFallback \/ ReserveKernel
  \/ Alloc
  \/ \E n \in Counts : AllocPages(n)
  \/ \E p \in Pages : FreePage(p)

PmmSpec == PmmInit /\ [][PmmNext]_pmmVars

-----------------------------------------------------------------------------
(* Properties *)

\* The bitmap has a bit for every page, and the managed pages fit it.
PmmTypeOK ==
  /\ mmap \in Maps
  /\ total_pages \in 0..PMM_MAX_PAGES /\ memory_start \in Nat
  /\ bitmap \subseteq Bits /\ reserved \subseteq Bits
  /\ held \subseteq Pages
  /\ stage \in {"mmap", "mapped", "fallback", "run"}

\* The set bits are the pages reserved at boot and those handed out, so no page
\* is handed out twice, no reserved page is handed out, freeing gives back
\* exactly one page, and an alloc_pages() that fails half way leaves no trace.  The
\* managed pages fit the bitmap.
BitmapExact ==
  /\ PmmTypeOK
  /\ stage = "run" => bitmap = reserved \union held /\ reserved \intersect held = {}

Bytes(p) == (memory_start + p * PAGE)..(memory_start + (p + 1) * PAGE - 1)
Kernel == KernelStart..(KernelStart + KernelSize - 1)

\* No allocation ever overlaps the kernel image, whichever way the range was
\* found and wherever the map begins ("lets PMM allocations overwrite kernel
\* data", kernel_main).
KernelNotAllocated == \A p \in held : Bytes(p) \intersect Kernel = {}

Available == UNION {r.base..(r.base + r.length - 1) : r \in Avail(mmap)}

\* apply_mmap_to_pmm frees every page that lies in the available regions, in
\* whatever order the map lists them and whether or not they straddle the
\* limits, and no page without an available byte.
AvailableFreed ==
  stage = "mapped" =>
    \A p \in Pages :
      /\ p \notin bitmap => Bytes(p) \intersect Available # {}
      /\ Bytes(p) \subseteq Available => p \notin bitmap
=============================================================================
