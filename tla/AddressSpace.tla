---------------------------- MODULE AddressSpace ----------------------------
(***************************************************************************)
(* What the physical memory manager promises, address by address: who owns *)
(* it, and which ranges the boot loader has been given.  An address that   *)
(* several firmware entries claim has several owners.                      *)
(***************************************************************************)
EXTENDS Integers

CONSTANTS Addr, Types

VARIABLES
  owner,    \* owner[a]: the memory types that claim address a
  live      \* the ranges handed out and not yet freed: [base, size, type]

vars == <<owner, live>>

Cells(l) == {a \in Addr : l.base <= a /\ a < l.base + l.size}

LiveCells == UNION {Cells(l) : l \in live}

Init ==
  /\ owner \in [Addr -> SUBSET Types]
  /\ live = {}

(* A range of usable memory is handed out; the allocator may take more     *)
(* than it hands out.                                                      *)
Claim(l) ==
  /\ l.type \in Types \ {"usable"}
  /\ live' = live \cup {l}
  /\ \A a \in Cells(l) : owner[a] = {"usable"} /\ owner'[a] = {l.type}
  /\ \A a \in Addr : owner'[a] = owner[a] \/ (owner[a] = {"usable"} /\ owner'[a] = {l.type})

(* The boot loader itself is where it is, whatever firmware says of it     *)
Adopt(l) ==
  /\ l.type \in Types \ {"usable"}
  /\ live' = live \cup {l}
  /\ \A a \in Cells(l) : a \notin LiveCells /\ owner'[a] = {l.type}
  /\ \A a \in Addr \ Cells(l) : owner'[a] = owner[a]

(* A range that nobody was given is set aside, whatever it was             *)
Reserve(type) ==
  /\ type \in Types \ {"usable"}
  /\ UNCHANGED live
  /\ \A a \in Addr : owner'[a] = owner[a] \/ (owner'[a] = {type} /\ a \notin LiveCells)

(* A range, or part of it, is usable again                                 *)
Release(l) ==
  /\ live' = live \ {l}
  /\ \A a \in Addr : owner'[a] = owner[a] \/ (owner'[a] = {"usable"} /\ a \in Cells(l))

(* Usable memory is given up                                               *)
Trim ==
  /\ UNCHANGED live
  /\ \A a \in Addr : owner'[a] = owner[a] \/ (owner[a] = {"usable"} /\ owner'[a] = {})

Next ==
  /\ owner' \in [Addr -> SUBSET Types]
  /\ \/ \E l \in live' \ live : Claim(l) \/ Adopt(l)
     \/ \E type \in Types : Reserve(type)
     \/ \E l \in live : Release(l)
     \/ Trim

Spec == Init /\ [][Next]_vars

(* What was handed out stays owned by its type until it is freed, and no   *)
(* address is in two ranges that were handed out.                          *)
Exclusive ==
  /\ \A l \in live : l.type # "usable" /\ \A a \in Cells(l) : owner[a] = {l.type}
  /\ \A l, k \in live : l # k => Cells(l) \cap Cells(k) = {}
=============================================================================
