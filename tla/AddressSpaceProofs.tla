-------------------------- MODULE AddressSpaceProofs -------------------------
(***************************************************************************)
(* The promise of the memory manager is what its callers rely on: memory   *)
(* handed out is exclusive.                                                *)
(***************************************************************************)
EXTENDS AddressSpace, TLAPS

(* The owners are known memory types                                       *)
Inv == owner \in [Addr -> SUBSET Types] /\ Exclusive

(* Every change of ownership the promise allows keeps it                   *)
LEMMA InvStep ==
  ASSUME Inv, Next
  PROVE  Inv'
<1> USE DEF Inv
<1>0. owner' \in [Addr -> SUBSET Types] BY DEF Next
<1>1. CASE \E l \in live' \ live : Claim(l)
  <2>1. PICK l \in live' \ live : Claim(l) BY <1>1
  <2>2. \A k \in live : Cells(k) \cap Cells(l) = {}
    <3> SUFFICES ASSUME NEW k \in live, NEW a \in Cells(k), a \in Cells(l) PROVE FALSE
      OBVIOUS
    <3>1. owner[a] = {k.type} /\ k.type # "usable" BY DEF Exclusive
    <3>2. owner[a] = {"usable"} BY <2>1 DEF Claim
    <3> QED BY <3>1, <3>2
  <2>3. \A k \in live, a \in Addr : a \in Cells(k) => owner'[a] = owner[a]
    <3> SUFFICES ASSUME NEW k \in live, NEW a \in Addr, a \in Cells(k) PROVE owner'[a] = owner[a]
      OBVIOUS
    <3>1. owner[a] = {k.type} /\ k.type # "usable" BY DEF Exclusive
    <3>2. owner[a] # {"usable"} BY <3>1
    <3> QED BY <2>1, <3>2 DEF Claim
  <2>4. \A k \in live : Cells(k) \subseteq Addr BY DEF Cells
  <2>5. Exclusive' BY <2>1, <2>2, <2>3, <2>4 DEF Exclusive, Claim, Cells
  <2> QED BY <1>0, <2>5
<1>2. CASE \E l \in live' \ live : Adopt(l)
  <2>1. PICK l \in live' \ live : Adopt(l) BY <1>2
  <2>2. \A k \in live : Cells(k) \cap Cells(l) = {} BY <2>1 DEF Adopt, LiveCells
  <2>3. \A k \in live, a \in Addr : a \in Cells(k) => owner'[a] = owner[a]
    BY <2>1, <2>2 DEF Adopt
  <2>4. \A k \in live : Cells(k) \subseteq Addr BY DEF Cells
  <2>5. Exclusive' BY <2>1, <2>2, <2>3, <2>4 DEF Exclusive, Adopt, Cells
  <2> QED BY <1>0, <2>5
<1>3. CASE \E type \in Types : Reserve(type)
  <2>1. PICK type \in Types : Reserve(type) BY <1>3
  <2>2. \A k \in live : Cells(k) \subseteq Addr BY DEF Cells
  <2>3. \A k \in live, a \in Addr : a \in Cells(k) => owner'[a] = owner[a]
    BY <2>1 DEF Reserve, LiveCells
  <2>4. Exclusive' BY <2>1, <2>2, <2>3 DEF Exclusive, Reserve, Cells
  <2> QED BY <1>0, <2>4
<1>4. CASE \E l \in live : Release(l)
  <2>1. PICK l \in live : Release(l) BY <1>4
  <2>2. \A k \in live : Cells(k) \subseteq Addr BY DEF Cells
  <2>3. \A k \in live \ {l}, a \in Addr : a \in Cells(k) => owner'[a] = owner[a]
    BY <2>1 DEF Release, Exclusive
  <2>4. Exclusive' BY <2>1, <2>2, <2>3 DEF Exclusive, Release, Cells
  <2> QED BY <1>0, <2>4
<1>5. CASE Trim
  <2>2. \A k \in live : Cells(k) \subseteq Addr BY DEF Cells
  <2>3. \A k \in live, a \in Addr : a \in Cells(k) => owner'[a] = owner[a]
    <3> SUFFICES ASSUME NEW k \in live, NEW a \in Addr, a \in Cells(k) PROVE owner'[a] = owner[a]
      OBVIOUS
    <3>1. owner[a] = {k.type} /\ k.type # "usable" BY DEF Exclusive
    <3>2. owner[a] # {"usable"} BY <3>1
    <3> QED BY <1>5, <3>2 DEF Trim
  <2>4. Exclusive' BY <1>5, <2>2, <2>3 DEF Exclusive, Trim, Cells
  <2> QED BY <1>0, <2>4
<1> QED BY <1>1, <1>2, <1>3, <1>4, <1>5 DEF Next

(* Whatever memory manager keeps the promise, a range it hands out belongs *)
(* to nobody else until it is freed: what every caller of ext_mem_alloc()  *)
(* assumes.                                                                *)
THEOREM PromiseIsExclusive == Spec => []Exclusive
<1>1. Init => Inv BY DEF Init, Inv, Exclusive
<1>2. Inv /\ [Next]_vars => Inv'
  <2> SUFFICES ASSUME Inv, [Next]_vars PROVE Inv' OBVIOUS
  <2>1. CASE Next BY <2>1, InvStep
  <2>2. CASE UNCHANGED vars BY <2>2 DEF vars, Inv, Exclusive, Cells
  <2> QED BY <2>1, <2>2
<1>3. Inv => Exclusive BY DEF Inv
<1> QED BY <1>1, <1>2, <1>3, PTL DEF Spec
=============================================================================
