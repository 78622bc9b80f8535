------------------------------- MODULE Linux --------------------------------
(* What the loaders of Linux for x86 and for the other machines share:     *)
(* memory as pages, each with its use, addresses in bytes of a small       *)
(* machine (common/mm/pmm.s2.c, common/protos/linux.c)                     *)
EXTENDS Integers, SequencesExt, FiniteSetsExt

CONSTANT Page

None == << >>
AlignUp(n, a) == ((n + a - 1) \div a) * a
AlignDown(n, a) == (n \div a) * a
PagesOf(from, n) == (from \div Page) .. (((from + n + Page - 1) \div Page) - 1)

Held(t, type) == {p \in DOMAIN t : t[p] = type}
Usable(t, from, n) == PagesOf(from, n) \subseteq Held(t, "usable")
Claimed(t, from, n, type) == [p \in DOMAIN t |-> IF p \in PagesOf(from, n) THEN type ELSE t[p]]

Places(t, n, align, limit) == {a \in {k * align : k \in 0 .. (limit \div align)} : a + n <= limit /\ Usable(t, a, n)}
Rounded(n, align) == AlignUp(Max({n, 1}), align)

(* The end of the free run an address is in                                *)
EntryTop(t, a, limit) == Min({limit} \cup {p * Page : p \in {q \in 0 .. (limit \div Page) : q * Page > a /\ q \notin Held(t, "usable")}})

(* Top down below the first of the limits that leaves room; what is above  *)
(* the allocation in its entry goes with it.  -1 is a panic                *)
ext_mem_alloc(t, n, align, limits, type) ==
  LET found == SelectSeq(limits, LAMBDA l : Places(t, Rounded(n, align), align, l) # {})
  IN  IF found = << >> THEN [at |-> -1, types |-> t]
      ELSE LET at == Max(Places(t, Rounded(n, align), align, Head(found)))
           IN  [at |-> at, types |-> Claimed(t, at, EntryTop(t, at, Head(found)) - at, type)]

ext_mem_alloc_below(t, n, align, limit, bottom_up, type) ==
  LET places == Places(t, Rounded(n, align), align, limit)
      at == IF bottom_up THEN Min(places) ELSE Max(places)
  IN  IF places = {} THEN [at |-> -1, types |-> t]
      ELSE [at |-> at, types |-> Claimed(t, at, Rounded(n, align), type)]
-----------------------------------------------------------------------------
(* A cpio archive begins at a multiple of four                             *)
Padded(n) == AlignUp(n, 4)
TotalOf(sizes) == FoldLeft(LAMBDA sum, n : sum + Padded(n), 0, sizes)

(* The table of the TPM's event log, and the pool memory kept for it       *)
linux_install_efi_tpm_event_log(log, allocates, installs) ==
  [table |-> log = "sound" /\ allocates /\ installs, pool |-> IF log = "sound" /\ allocates /\ installs THEN 1 ELSE 0,
   log |-> FALSE]
=============================================================================
