--------------------------- MODULE MCAddressSpace ---------------------------
(* Instances of AddressSpace: page tables of two pages, directories of eight. *)
EXTENDS AddressSpace

\* Pages 0 and 1 belong to the kernel; 8 is the scratch page, and 9 and 10 lie
\* in its directory, 9 in its table.
MCUserPages == {2, 3, 4, 6, 7, 9, 10}

Flat == [elf |-> FALSE, load |-> <<2>>, stack |-> <<3>>]

\* Two segments that meet in page 2, and a segment in the second directory.
Elf == [elf |-> TRUE, load |-> <<2, 2, 10>>, stack |-> <<4>>]

\* A segment that reaches the stack is refused.
BadElf == [elf |-> TRUE, load |-> <<2, 4>>, stack |-> <<4>>]

MCImages == {Flat, Elf, BadElf}

=============================================================================
