------------------------------- MODULE MCPmm -------------------------------
(***************************************************************************)
(* Pages of two addresses.  Page 0 is never used, the boot loader is in    *)
(* page 1, the hole is address 7, high memory starts at 8, 4 GiB is 14.    *)
(***************************************************************************)
EXTENDS Pmm

Usable(b, t) == Span(b, t, "usable")

(* A plain map; one unsorted, overlapping, with an unaligned end, an empty *)
(* and a wrapping entry; one without memory for the boot loader; one with  *)
(* an empty entry at 1 MiB                                                 *)
MCE820Maps ==
  {<<Usable(0, 8), Usable(8, 10), Usable(14, 16)>>,
   <<Span(9, 10, "acpi_nvs"), Usable(7, 14), Usable(1, 7), Usable(16, 18), Usable(6, 6)>>,
   <<Usable(8, 12)>>,
   <<Usable(8, 8), Usable(0, 8)>>}

MCAllocTypes == {"kernel"}

MCSizes == {0, 3}

MCAlignments == {2}

MCLimits == {6}

MCFixed == {<<8, 2>>}

MCTables == {<<11, 1, "reserved_mapped">>}
=============================================================================
