------------------------------ MODULE Sanitise ------------------------------
(***************************************************************************)
(* pmm_new_entry() and pmm_sanitise_entries() on a map of any shape, such  *)
(* as firmware hands over: unsorted, overlapping, empty or wrapping        *)
(* entries.  Two passes are made, as by every caller that allocates.       *)
(***************************************************************************)
EXTENDS Memmap

CONSTANTS
  Maps,      \* the maps to start from, of up to MaxEntries entries
  Inserts    \* the entries to put into them, not empty and not wrapping

VARIABLE once    \* history: << >>, then <<the map after the first pass>>

vars == <<mapvars, once>>

Init ==
  /\ memmap \in Maps
  /\ i = 1 /\ j = 1 /\ passes = 1
  /\ \/ phase = "clip" /\ align \in BOOLEAN /\ ins = Entry(0, 0, "usable")
     \/ phase = "insert" /\ align = FALSE /\ ins \in Inserts
  /\ once = << >>

Run ==
  /\ MapStep
  /\ once' = IF phase = "merge" /\ phase' = "clip" THEN <<memmap>> ELSE once

Over == phase \in {"idle", "panic", "insert_panic"}

Next == Run \/ (Over /\ UNCHANGED vars)

Spec == Init /\ [][Next]_vars

(* Nothing but the loops themselves can hold them up *)
FairSpec == Spec /\ WF_vars(Run)
-----------------------------------------------------------------------------
Addresses == 0..(AddrTop - 1)

Clean(e) ==
  /\ e.length > 0
  /\ e.type = "usable" /\ ~Wraps(e) =>
       /\ align => e.base % PageSize = 0 /\ e.length % PageSize = 0
       /\ KeepFirstPage \/ e.base >= PageSize

(* When pmm_sanitise_entries() returns, the map is sorted, usable entries  *)
(* share no address with any other entry, no entry is empty, no neighbours *)
(* are left to merge, and usable entries are whole pages if so asked.  A   *)
(* second pass changes nothing, not even the order of entries with the     *)
(* same base.                                                              *)
SanitisedMap ==
  phase = "idle" =>
    /\ once = <<memmap>>
    /\ Sorted(memmap)
    /\ \A k \in 1..Len(memmap) : Clean(memmap[k])
    /\ \A k, n \in 1..Len(memmap) :
         /\ k # n /\ memmap[k].type = "usable"
         /\ ~Wraps(memmap[k]) /\ ~Wraps(memmap[n])
         => Apart(memmap[k], memmap[n])
    /\ \A k \in 1..(Len(memmap) - 1) : ~Merges(memmap, k)

(* The loops come to an end, though the first one starts over whenever it  *)
(* removes an entry and adds entries as it splits them, and all of them    *)
(* step back.                                                              *)
Settles == <>Over
=============================================================================
