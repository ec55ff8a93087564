----------------------------- MODULE KernelMain -----------------------------
(***************************************************************************)
(* kernel_main (lib.rs): the page allocator is set up and tested, then the *)
(* kernel heap, then interrupts are enabled and PID 1 is started.          *)
(*                                                                         *)
(* pmm.test and kmm::test stand for any use of the allocators that gives   *)
(* everything back, so each stage explores all that its module allows.     *)
(* The stages after the page allocator do not depend on the memory map and *)
(* are followed for the memory that begins at BootStart.                   *)
(***************************************************************************)
EXTENDS Pmm, Kmm, Context

CONSTANTS INITIAL_HEAP_PAGES,
          BootStart

VARIABLE boot  \* "pages", "heap" or "cpu"

kernelVars == <<pmmVars, kmmVars, ctxVars, boot>>

KernelInit == PmmInit /\ KmmInit /\ CtxInit /\ boot = "pages"

PageStep ==
  /\ boot = "pages"
  /\ PmmNext
  /\ UNCHANGED <<kmmVars, ctxVars, boot>>

\* kmm::init takes its pages from the page allocator.  Without them the heap
\* stays empty, which is not followed.
HeapStart ==
  /\ boot = "pages" /\ held = {} /\ memory_start = BootStart
  /\ AllocPages(INITIAL_HEAP_PAGES) /\ held' # {}
  /\ boot' = "heap"
  /\ UNCHANGED <<kmmVars, ctxVars>>

HeapStep ==
  /\ boot = "heap"
  /\ KmmNext
  /\ UNCHANGED <<pmmVars, ctxVars, boot>>

CpuStart ==
  /\ boot = "heap" /\ used = {}
  /\ boot' = "cpu"
  /\ UNCHANGED <<pmmVars, kmmVars, ctxVars>>

CpuStep ==
  /\ boot = "cpu"
  /\ CtxNext
  /\ UNCHANGED <<pmmVars, kmmVars, boot>>

KernelNext == PageStep \/ HeapStart \/ HeapStep \/ CpuStart \/ CpuStep

KernelSpec == KernelInit /\ [][KernelNext]_kernelVars
=============================================================================
