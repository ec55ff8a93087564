------------------------------- MODULE MCPmm -------------------------------
(* Pages of four bytes and a bitmap of eight of them; the kernel takes two. *)
EXTENDS Pmm

Region(base, length, avail) == [base |-> base, length |-> length, avail |-> avail]

\* Low memory and one block above it, the layout of a PC.
PcMap == <<Region(0, 7, TRUE), Region(7, 1, FALSE), Region(8, 40, TRUE)>>
\* Out of order, with a hole after the block of the kernel.
HoleMap == <<Region(44, 4, TRUE), Region(36, 8, FALSE), Region(8, 28, TRUE)>>
\* The managed range begins after the kernel.
HighFirstMap == <<Region(24, 28, TRUE), Region(8, 16, TRUE)>>
\* A region that ends inside a page.
RaggedMap == <<Region(0, 30, TRUE), Region(30, 6, FALSE), Region(36, 12, TRUE)>>

MCMaps == {PcMap, HoleMap, HighFirstMap, RaggedMap}
=============================================================================
