------------------------------ MODULE MemmapProofs ---------------------------
(***************************************************************************)
(* What the loops of pmm_new_entry() and pmm_sanitise_entries() do to the  *)
(* owners of an address.  The last lemma, MapTurn, says it of every turn   *)
(* of every loop: the invariant MapInv stays, and an address keeps its     *)
(* owners or stops being usable.  The lemmas before it follow the actions. *)
(***************************************************************************)
EXTENDS Memmap, SequenceTheorems, TLAPS

\* The usual order of the provers, and then both again with more time.
USE SMT, Zenon, SMTT(60), ZenonT(60)

(* Only usable entries, and entries the sanitiser never looks at, may wrap *)
EntrySet ==
  {e \in [base: Nat, length: Nat, type: MemTypes] : Wraps(e) => e.type \notin Mergeable \ {"usable"}}

(* Entry e gives address a the type t                                      *)
Hit(e, a, t) == Covers(e, a) /\ ~Wraps(e) /\ e.type = t

Has(m, a, t) == \E n \in 1..Len(m) : Hit(m[n], a, t)

(* The same of all entries but the k-th                                    *)
Others(m, k, a, t) == \E n \in 1..Len(m) : n # k /\ Hit(m[n], a, t)

LEMMA HasClaims ==
  ASSUME NEW m, NEW a, NEW t
  PROVE  t \in Claims(m, a) <=> Has(m, a, t)
BY DEF Claims, Has, Hit

LEMMA HasSplit ==
  ASSUME NEW m, NEW k \in 1..Len(m), NEW a, NEW t
  PROVE  Has(m, a, t) <=> Others(m, k, a, t) \/ Hit(m[k], a, t)
BY DEF Has, Others

LEMMA SwapOutSeq ==
  ASSUME NEW m \in Seq(EntrySet), NEW k \in 1..Len(m)
  PROVE  /\ SwapOut(m, k) \in Seq(EntrySet)
         /\ Len(SwapOut(m, k)) = Len(m) - 1
         /\ \A n \in 1..(Len(m) - 1) : SwapOut(m, k)[n] = IF n = k THEN m[Len(m)] ELSE m[n]
<1> DEFINE x == [m EXCEPT ![k] = m[Len(m)]]
<1>1. m[Len(m)] \in EntrySet
  <2>1. Len(m) \in 1..Len(m) BY LenProperties
  <2> QED BY <2>1, ElementOfSeq
<1>2. /\ x \in Seq(EntrySet) /\ Len(x) = Len(m)
      /\ \A n \in 1..Len(m) : x[n] = IF n = k THEN m[Len(m)] ELSE m[n]
  BY <1>1, ExceptSeq
<1>3. Len(m) \in Nat BY LenProperties
<1> HIDE DEF x
<1>4. \A n \in 1..(Len(m) - 1) : x[n] \in EntrySet
  BY <1>2, <1>3, ElementOfSeq
<1>5. /\ SubSeq(x, 1, Len(m) - 1) \in Seq(EntrySet)
      /\ Len(SubSeq(x, 1, Len(m) - 1)) = IF 1 <= Len(m) - 1 THEN (Len(m) - 1) - 1 + 1 ELSE 0
      /\ \A n \in 1..((Len(m) - 1) - 1 + 1) : SubSeq(x, 1, Len(m) - 1)[n] = x[1 + n - 1]
  BY <1>3, <1>4, SubSeqProperties
<1>6. SwapOut(m, k) = SubSeq(x, 1, Len(m) - 1) BY DEF SwapOut, x
<1> QED BY <1>2, <1>3, <1>5, <1>6

LEMMA SwapOutHas ==
  ASSUME NEW m \in Seq(EntrySet), NEW k \in 1..Len(m), NEW a, NEW t
  PROVE  Has(SwapOut(m, k), a, t) <=> Others(m, k, a, t)
<1> DEFINE s == SwapOut(m, k)
<1>1. /\ Len(s) = Len(m) - 1 /\ Len(m) \in Nat
      /\ \A n \in 1..(Len(m) - 1) : s[n] = IF n = k THEN m[Len(m)] ELSE m[n]
  BY SwapOutSeq, LenProperties
<1> HIDE DEF s
<1>2. ASSUME Has(s, a, t) PROVE Others(m, k, a, t)
  <2>1. PICK n \in 1..Len(s) : Hit(s[n], a, t) BY <1>2 DEF Has
  <2>2. CASE n = k
    <3>1. Len(m) \in 1..Len(m) /\ Len(m) # k BY <1>1, <2>1, <2>2
    <3> QED BY <1>1, <2>1, <2>2, <3>1 DEF Others
  <2>3. CASE n # k
    <3>1. n \in 1..Len(m) BY <1>1, <2>1
    <3> QED BY <1>1, <2>1, <2>3, <3>1 DEF Others
  <2> QED BY <2>2, <2>3
<1>3. ASSUME Others(m, k, a, t) PROVE Has(s, a, t)
  <2>1. PICK n \in 1..Len(m) : n # k /\ Hit(m[n], a, t) BY <1>3 DEF Others
  <2>2. CASE n = Len(m)
    <3>1. k \in 1..Len(s) /\ s[k] = m[n] BY <1>1, <2>1, <2>2
    <3> QED BY <2>1, <3>1 DEF Has
  <2>3. CASE n # Len(m)
    <3>1. n \in 1..Len(s) /\ s[n] = m[n] BY <1>1, <2>1, <2>3
    <3> QED BY <2>1, <3>1 DEF Has
  <2> QED BY <2>2, <2>3
<1> QED BY <1>2, <1>3 DEF s

LEMMA ExceptHas ==
  ASSUME NEW m \in Seq(EntrySet), NEW k \in 1..Len(m), NEW e \in EntrySet, NEW a, NEW t
  PROVE  Has([m EXCEPT ![k] = e], a, t) <=> Others(m, k, a, t) \/ Hit(e, a, t)
<1> DEFINE s == [m EXCEPT ![k] = e]
<1>1. /\ Len(s) = Len(m)
      /\ \A n \in 1..Len(m) : s[n] = IF n = k THEN e ELSE m[n]
  BY ExceptSeq
<1> HIDE DEF s
<1>2. Has(s, a, t) <=> Others(m, k, a, t) \/ Hit(e, a, t) BY <1>1 DEF Has, Others
<1> QED BY <1>2 DEF s

LEMMA AppendHas ==
  ASSUME NEW m \in Seq(EntrySet), NEW e \in EntrySet, NEW a, NEW t
  PROVE  Has(Append(m, e), a, t) <=> Has(m, a, t) \/ Hit(e, a, t)
<1> DEFINE s == Append(m, e)
<1>1. /\ Len(s) = Len(m) + 1 /\ Len(m) \in Nat
      /\ \A n \in 1..Len(m) : s[n] = m[n]
      /\ s[Len(m) + 1] = e
  BY AppendProperties, LenProperties
<1> HIDE DEF s
<1>2. ASSUME Has(s, a, t) PROVE Has(m, a, t) \/ Hit(e, a, t)
  <2>1. PICK n \in 1..Len(s) : Hit(s[n], a, t) BY <1>2 DEF Has
  <2>2. CASE n = Len(m) + 1 BY <1>1, <2>1, <2>2
  <2>3. CASE n # Len(m) + 1
    <3>1. n \in 1..Len(m) BY <1>1, <2>1, <2>3
    <3> QED BY <1>1, <2>1, <3>1 DEF Has
  <2> QED BY <2>2, <2>3
<1>3. ASSUME Has(m, a, t) PROVE Has(s, a, t)
  <2>1. PICK n \in 1..Len(m) : Hit(m[n], a, t) BY <1>3 DEF Has
  <2>2. n \in 1..Len(s) BY <1>1, <2>1
  <2> QED BY <1>1, <2>1, <2>2 DEF Has
<1>4. ASSUME Hit(e, a, t) PROVE Has(s, a, t)
  <2>1. Len(m) + 1 \in 1..Len(s) BY <1>1
  <2> QED BY <1>1, <1>4, <2>1 DEF Has
<1> QED BY <1>2, <1>3, <1>4 DEF s

(* Two entries change places                                               *)
LEMMA SwapSeq ==
  ASSUME NEW m \in Seq(EntrySet), NEW p \in 1..Len(m), NEW q \in 1..Len(m)
  PROVE  LET s == [m EXCEPT ![p] = m[q], ![q] = m[p]]
         IN  /\ s \in Seq(EntrySet)
             /\ Len(s) = Len(m)
             /\ \A n \in 1..Len(m) : s[n] = IF n = q THEN m[p] ELSE IF n = p THEN m[q] ELSE m[n]
<1> DEFINE r == [m EXCEPT ![p] = m[q]]
           s == [r EXCEPT ![q] = m[p]]
<1>1. m[p] \in EntrySet /\ m[q] \in EntrySet BY ElementOfSeq
<1>2. /\ r \in Seq(EntrySet) /\ Len(r) = Len(m)
      /\ \A n \in 1..Len(m) : r[n] = IF n = p THEN m[q] ELSE m[n]
  BY <1>1, ExceptSeq
<1> HIDE DEF r
<1>3. /\ s \in Seq(EntrySet) /\ Len(s) = Len(r)
      /\ \A n \in 1..Len(r) : s[n] = IF n = q THEN m[p] ELSE r[n]
  BY <1>1, <1>2, ExceptSeq
<1>4. s = [m EXCEPT ![p] = m[q], ![q] = m[p]] BY DEF r
<1> HIDE DEF s
<1> QED BY <1>2, <1>3, <1>4

LEMMA SwapHas ==
  ASSUME NEW m \in Seq(EntrySet), NEW p \in 1..Len(m), NEW q \in 1..Len(m), NEW a, NEW t
  PROVE  Has([m EXCEPT ![p] = m[q], ![q] = m[p]], a, t) <=> Has(m, a, t)
<1> DEFINE s == [m EXCEPT ![p] = m[q], ![q] = m[p]]
<1>1. /\ Len(s) = Len(m)
      /\ \A n \in 1..Len(m) : s[n] = IF n = q THEN m[p] ELSE IF n = p THEN m[q] ELSE m[n]
  BY SwapSeq
<1> HIDE DEF s
<1>2. ASSUME Has(s, a, t) PROVE Has(m, a, t) BY <1>1, <1>2 DEF Has
<1>3. ASSUME Has(m, a, t) PROVE Has(s, a, t)
  <2>1. PICK n \in 1..Len(m) : Hit(m[n], a, t) BY <1>3 DEF Has
  <2>2. s[IF n = p THEN q ELSE IF n = q THEN p ELSE n] = m[n] BY <1>1
  <2> QED BY <1>1, <2>1, <2>2 DEF Has
<1> QED BY <1>2, <1>3 DEF s

LEMMA MergedSeq ==
  ASSUME NEW m \in Seq(EntrySet), NEW k \in 1..(Len(m) - 1), Joined(m, k) \in EntrySet
  PROVE  /\ Merged(m, k) \in Seq(EntrySet)
         /\ Len(Merged(m, k)) = Len(m) - 1
         /\ \A n \in 1..(Len(m) - 1) :
              Merged(m, k)[n] = IF n < k THEN m[n] ELSE IF n = k THEN Joined(m, k) ELSE m[n + 1]
<1>1. Len(m) \in Nat /\ k \in 1..Len(m) /\ k + 1 \in 1..Len(m) BY LenProperties
<1>2. m[k] \in EntrySet /\ m[k + 1] \in EntrySet BY <1>1, ElementOfSeq
<1> DEFINE x == [m EXCEPT ![k] = Joined(m, k)]
           lo == SubSeq(x, 1, k)
           hi == SubSeq(x, k + 2, Len(m))
<1>4. /\ x \in Seq(EntrySet) /\ Len(x) = Len(m)
      /\ \A n \in 1..Len(m) : x[n] = IF n = k THEN Joined(m, k) ELSE m[n]
  BY <1>1, ExceptSeq
<1>5. Merged(m, k) = lo \o hi BY DEF Merged
<1> HIDE DEF x
<1>6. \A n \in 1..Len(m) : x[n] \in EntrySet BY <1>4, ElementOfSeq
<1>7. /\ lo \in Seq(EntrySet) /\ Len(lo) = k
      /\ \A n \in 1..k : lo[n] = x[n]
  <2>1. \A n \in 1..k : x[n] \in EntrySet BY <1>1, <1>6
  <2>2. /\ lo \in Seq(EntrySet)
        /\ Len(lo) = IF 1 <= k THEN k - 1 + 1 ELSE 0
        /\ \A n \in 1..(k - 1 + 1) : lo[n] = x[1 + n - 1]
    BY <1>1, <2>1, SubSeqProperties
  <2> HIDE DEF lo
  <2> QED BY <1>1, <2>2
<1>8. /\ hi \in Seq(EntrySet) /\ Len(hi) = Len(m) - k - 1
      /\ \A n \in 1..(Len(m) - k - 1) : hi[n] = x[k + 1 + n]
  <2>1. \A n \in (k + 2)..Len(m) : x[n] \in EntrySet BY <1>1, <1>6
  <2>2. /\ hi \in Seq(EntrySet)
        /\ Len(hi) = IF k + 2 <= Len(m) THEN Len(m) - (k + 2) + 1 ELSE 0
        /\ \A n \in 1..(Len(m) - (k + 2) + 1) : hi[n] = x[(k + 2) + n - 1]
    BY <1>1, <2>1, SubSeqProperties
  <2> HIDE DEF hi
  <2>3. Len(m) - (k + 2) + 1 = Len(m) - k - 1 BY <1>1
  <2>4. \A n \in 1..(Len(m) - k - 1) : (k + 2) + n - 1 = k + 1 + n BY <1>1
  <2>5. \A n \in 1..(Len(m) - k - 1) : hi[n] = x[k + 1 + n] BY <2>2, <2>3, <2>4
  <2>6. Len(hi) = Len(m) - k - 1 BY <1>1, <2>2
  <2> QED BY <2>2, <2>5, <2>6
<1> HIDE DEF lo, hi
<1>9. /\ lo \o hi \in Seq(EntrySet) /\ Len(lo \o hi) = Len(lo) + Len(hi)
      /\ \A n \in 1..(Len(lo) + Len(hi)) : (lo \o hi)[n] = IF n <= Len(lo) THEN lo[n] ELSE hi[n - Len(lo)]
  BY <1>7, <1>8, ConcatProperties
<1>10. Len(Merged(m, k)) = Len(m) - 1 BY <1>1, <1>5, <1>7, <1>8, <1>9
<1>11. ASSUME NEW n \in 1..(Len(m) - 1)
       PROVE  Merged(m, k)[n] = IF n < k THEN m[n] ELSE IF n = k THEN Joined(m, k) ELSE m[n + 1]
  <2>1. n \in 1..(Len(lo) + Len(hi)) BY <1>1, <1>7, <1>8
  <2>2. CASE n <= k
    <3>1. n \in 1..Len(m) /\ n \in 1..k BY <1>1, <2>2
    <3>2. Merged(m, k)[n] = x[n] BY <1>5, <1>7, <1>9, <2>1, <2>2, <3>1
    <3> QED BY <1>4, <3>1, <3>2, <2>2
  <2>3. CASE n > k
    <3>1. n - k \in 1..(Len(m) - k - 1) /\ n + 1 \in 1..Len(m) /\ n + 1 # k /\ ~(n < k) /\ n # k
          /\ k + 1 + (n - k) = n + 1
      BY <1>1, <2>3
    <3>2. Merged(m, k)[n] = hi[n - k] BY <1>1, <1>5, <1>7, <1>9, <2>1, <2>3
    <3>3. hi[n - k] = x[n + 1] BY <1>8, <3>1
    <3> QED BY <1>4, <3>1, <3>2, <3>3
  <2> QED BY <1>1, <2>2, <2>3
<1> QED BY <1>5, <1>9, <1>10, <1>11

LEMMA MergedHas ==
  ASSUME NEW m \in Seq(EntrySet), NEW k \in 1..(Len(m) - 1), NEW a, NEW t,
         Joined(m, k) \in EntrySet
  PROVE  /\ (Hit(Joined(m, k), a, t) => Hit(m[k], a, t) \/ Hit(m[k + 1], a, t))
            => (Has(Merged(m, k), a, t) => Has(m, a, t))
         /\ (Hit(m[k], a, t) \/ Hit(m[k + 1], a, t) => Hit(Joined(m, k), a, t))
            => (Has(m, a, t) => Has(Merged(m, k), a, t))
<1> DEFINE s == Merged(m, k)
<1>1. /\ Len(s) = Len(m) - 1 /\ Len(m) \in Nat
      /\ \A n \in 1..(Len(m) - 1) :
           s[n] = IF n < k THEN m[n] ELSE IF n = k THEN Joined(m, k) ELSE m[n + 1]
  BY MergedSeq, LenProperties
<1> HIDE DEF s
<1>2. ASSUME Hit(Joined(m, k), a, t) => Hit(m[k], a, t) \/ Hit(m[k + 1], a, t), Has(s, a, t)
      PROVE  Has(m, a, t)
  <2>1. PICK n \in 1..Len(s) : Hit(s[n], a, t) BY <1>2 DEF Has
  <2>2. n \in 1..Len(m) /\ n + 1 \in 1..Len(m) /\ k \in 1..Len(m) /\ k + 1 \in 1..Len(m) BY <1>1, <2>1
  <2>3. CASE n < k BY <1>1, <2>1, <2>2, <2>3 DEF Has
  <2>4. CASE n = k
    <3>1. Hit(m[k], a, t) \/ Hit(m[k + 1], a, t) BY <1>1, <1>2, <2>1, <2>4
    <3> QED BY <2>2, <3>1 DEF Has
  <2>5. CASE ~(n < k) /\ n # k
    <3>1. Hit(m[n + 1], a, t) BY <1>1, <2>1, <2>5
    <3> QED BY <2>2, <3>1 DEF Has
  <2> QED BY <2>3, <2>4, <2>5
<1>3. ASSUME Hit(m[k], a, t) \/ Hit(m[k + 1], a, t) => Hit(Joined(m, k), a, t), Has(m, a, t)
      PROVE  Has(s, a, t)
  <2>1. PICK n \in 1..Len(m) : Hit(m[n], a, t) BY <1>3 DEF Has
  <2>2. k \in 1..Len(s) /\ s[k] = Joined(m, k) BY <1>1
  <2>3. CASE n = k \/ n = k + 1
    <3>1. Hit(s[k], a, t) BY <1>3, <2>1, <2>2, <2>3
    <3> QED BY <2>2, <3>1 DEF Has
  <2>4. CASE n < k
    <3>1. n \in 1..Len(s) /\ s[n] = m[n] BY <1>1, <2>4
    <3> QED BY <2>1, <3>1 DEF Has
  <2>5. CASE n > k + 1
    <3>1. n - 1 \in 1..Len(s) /\ ~(n - 1 < k) /\ n - 1 # k /\ (n - 1) + 1 = n BY <1>1, <2>5
    <3>2. s[n - 1] = m[n] BY <1>1, <3>1
    <3> QED BY <2>1, <3>1, <3>2 DEF Has
  <2> QED BY <1>1, <2>3, <2>4, <2>5
<1> QED BY <1>2, <1>3 DEF s

-----------------------------------------------------------------------------
(* Entries and the parts they are cut into                                 *)

LEMMA EntryType ==
  ASSUME NEW e \in EntrySet
  PROVE  e.base \in Nat /\ e.length \in Nat /\ e.type \in MemTypes /\ Top(e) \in Nat
BY DEF EntrySet, Top

LEMMA SpanPart ==
  ASSUME NEW e \in EntrySet, NEW lo \in Nat, NEW hi \in Nat, lo <= hi, hi <= Top(e)
  PROVE  /\ Span(lo, hi, e.type) \in EntrySet
         /\ Span(lo, hi, e.type).base = lo /\ Top(Span(lo, hi, e.type)) = hi
         /\ Span(lo, hi, e.type).type = e.type
<1> DEFINE s == [base |-> lo, length |-> hi - lo, type |-> e.type]
<1>1. Span(lo, hi, e.type) = s BY DEF Span, Entry
<1>2. hi - lo \in Nat /\ lo + (hi - lo) = hi OBVIOUS
<1>3. s.base = lo /\ s.length = hi - lo /\ s.type = e.type OBVIOUS
<1>4. Top(s) = hi BY <1>2, <1>3 DEF Top
<1>5. s \in [base: Nat, length: Nat, type: MemTypes] BY <1>2, EntryType
<1>6. Wraps(s) => Wraps(e) BY <1>4, EntryType, MemmapConstants DEF Wraps
<1>7. s \in EntrySet BY <1>3, <1>5, <1>6 DEF EntrySet
<1> QED BY <1>1, <1>3, <1>4, <1>7

LEMMA SpanHit ==
  ASSUME NEW e \in EntrySet, NEW lo \in Nat, NEW hi \in Nat, e.base <= lo, lo <= hi, hi <= Top(e),
         ~Wraps(e), NEW a \in Nat, NEW t
  PROVE  Hit(Span(lo, hi, e.type), a, t) <=> Hit(e, a, t) /\ lo <= a /\ a < hi
<1> DEFINE s == Span(lo, hi, e.type)
<1>1. s \in EntrySet /\ s.base = lo /\ Top(s) = hi /\ s.type = e.type BY SpanPart
<1> HIDE DEF s
<1>2. ~Wraps(s) BY <1>1, EntryType, MemmapConstants DEF Wraps
<1> QED BY <1>1, <1>2, EntryType DEF Hit, Covers, s

-----------------------------------------------------------------------------
(* The invariant of the loops.                                             *)

Phases == {"insert", "insert_panic", "clip", "trim", "sort", "merge", "idle", "panic"}

MapType ==
  /\ memmap \in Seq(EntrySet) /\ ins \in EntrySet
  /\ phase \in Phases
  /\ i \in Nat \ {0} /\ j \in Nat \ {0} /\ align \in BOOLEAN /\ passes \in Nat

(* Both entries count, and for a common address                            *)
Clash(e, f) == \E a \in Nat : Covers(e, a) /\ Covers(f, a) /\ ~Wraps(e) /\ ~Wraps(f)

(* The entries that pmm_new_entry() has passed share nothing with the new  *)
InsertInv ==
  phase = "insert" =>
    ~Wraps(ins) /\ \A n \in 1..Len(memmap) : n < i => ~Clash(memmap[n], ins)

(* The usable entries that the first loop has passed share nothing with    *)
(* one of another type, and the one it is at nothing with those it has met *)
ClipInv ==
  phase = "clip" =>
    \A k, n \in 1..Len(memmap) :
      /\ memmap[k].type = "usable" /\ memmap[n].type # "usable"
      /\ k < i \/ (k = i /\ n < j)
      => ~Clash(memmap[k], memmap[n])

(* No address is usable and something else                                 *)
UsableApart(m) == \A a \in Nat : \A t : Has(m, a, "usable") /\ Has(m, a, t) => t = "usable"

UsableInv == phase \in {"trim", "sort", "merge", "idle"} => UsableApart(memmap)

MapInv == MapType /\ InsertInv /\ ClipInv /\ UsableInv

(* The step leaves every address its owners                                *)
OwnersKept == \A a \in Nat : Owners(a)' = Owners(a)

(* Addresses lose nothing but claims of usable entries                     *)
Shrinks(m, s) ==
  \A a \in Nat : \A t :
    /\ Has(s, a, t) => Has(m, a, t)
    /\ t # "usable" /\ Has(m, a, t) => Has(s, a, t)

LEMMA OwnersShrink ==
  ASSUME Shrinks(memmap, memmap'), phase \notin {"insert", "insert_panic"},
         phase' \notin {"insert", "insert_panic"}, NEW a \in Nat
  PROVE  Owners(a)' = Owners(a) \/ Owners(a)' = Owners(a) \ {"usable"}
<1>1. Owners(a) = Claims(memmap, a) /\ Owners(a)' = Claims(memmap', a) BY DEF Owners, Claims, Covers, Top, Wraps
<1>2. \A t : t \in Claims(memmap, a) <=> Has(memmap, a, t) BY HasClaims
<1>3. \A t : t \in Claims(memmap', a) <=> Has(memmap', a, t) BY HasClaims
<1>4. \A t : t \in Claims(memmap', a) => t \in Claims(memmap, a) BY <1>2, <1>3 DEF Shrinks
<1>5. \A t : t # "usable" /\ t \in Claims(memmap, a) => t \in Claims(memmap', a) BY <1>2, <1>3 DEF Shrinks
<1> QED BY <1>1, <1>4, <1>5

LEMMA ClaimsKept ==
  ASSUME NEW m, NEW s, NEW a, \A t : Has(m, a, t) <=> Has(s, a, t)
  PROVE  Claims(m, a) = Claims(s, a)
<1>1. \A t : t \in Claims(m, a) <=> Has(m, a, t) BY HasClaims
<1>2. \A t : t \in Claims(s, a) <=> Has(s, a, t) BY HasClaims
<1> QED BY <1>1, <1>2

LEMMA AtIndex ==
  ASSUME MapType, i <= Len(memmap)
  PROVE  i \in 1..Len(memmap) /\ memmap[i] \in EntrySet /\ Len(memmap) \in Nat
<1>1. Len(memmap) \in Nat BY LenProperties DEF MapType
<1>2. i \in 1..Len(memmap) BY <1>1 DEF MapType
<1> QED BY <1>1, <1>2, ElementOfSeq DEF MapType

LEMMA AtSecond ==
  ASSUME MapType, j <= Len(memmap)
  PROVE  j \in 1..Len(memmap) /\ memmap[j] \in EntrySet
<1>1. Len(memmap) \in Nat BY LenProperties DEF MapType
<1>2. j \in 1..Len(memmap) BY <1>1 DEF MapType
<1> QED BY <1>2, ElementOfSeq DEF MapType

-----------------------------------------------------------------------------
(* pmm_new_entry()                                                         *)

LEMMA InsertOwners ==
  ASSUME phase = "insert", phase' = "insert", ins' = ins,
         \A a \in Nat : \A t : ~Covers(ins, a) => (Has(memmap, a, t) <=> Has(memmap', a, t))
  PROVE  OwnersKept
<1> SUFFICES ASSUME NEW a \in Nat PROVE Owners(a)' = Owners(a) BY DEF OwnersKept
<1>1. Owners(a) = IF Covers(ins, a) THEN {ins.type} ELSE Claims(memmap, a) BY DEF Owners
<1>2. Owners(a)' = IF Covers(ins, a) THEN {ins.type} ELSE Claims(memmap', a)
  BY DEF Owners, Covers, Top, Claims, Wraps
<1>3. CASE Covers(ins, a) BY <1>1, <1>2, <1>3
<1>4. CASE ~Covers(ins, a)
  <2>1. Claims(memmap, a) = Claims(memmap', a) BY <1>4, ClaimsKept
  <2> QED BY <1>1, <1>2, <1>4, <2>1
<1> QED BY <1>3, <1>4

LEMMA InsertSkipTurn ==
  ASSUME MapInv, InsertSkip
  PROVE  MapInv' /\ OwnersKept
<1>1. i \in 1..Len(memmap) /\ memmap[i] \in EntrySet /\ Len(memmap) \in Nat
  BY AtIndex DEF MapInv, InsertSkip, Inserting
<1>2. ~Clash(memmap[i], ins)
  BY <1>1, EntryType DEF MapInv, MapType, InsertSkip, Clash, Covers
<1>3. MapType' BY DEF MapInv, MapType, InsertSkip, Walk, Phases
<1>4. InsertInv'
  <2> SUFFICES ASSUME NEW n \in 1..Len(memmap), n < i + 1 PROVE ~Clash(memmap[n], ins)
    BY DEF MapInv, InsertInv, InsertSkip, Inserting, Walk, Clash, Covers, Top, Wraps
  <2>1. n < i \/ n = i BY <1>1
  <2> QED BY <1>2, <2>1 DEF MapInv, InsertInv, InsertSkip, Inserting
<1>5. ClipInv' /\ UsableInv' BY DEF InsertSkip, Walk, ClipInv, UsableInv
<1>6. OwnersKept
  <2>1. memmap' = memmap /\ ins' = ins /\ phase = "insert" /\ phase' = "insert"
    BY DEF InsertSkip, Inserting, Walk
  <2> QED BY <2>1, InsertOwners
<1> QED BY <1>3, <1>4, <1>5, <1>6 DEF MapInv

LEMMA InsertCoversTurn ==
  ASSUME MapInv, InsertCovers
  PROVE  MapInv' /\ OwnersKept
<1>1. i \in 1..Len(memmap) /\ memmap[i] \in EntrySet /\ Len(memmap) \in Nat /\ memmap \in Seq(EntrySet)
      /\ ins \in EntrySet
  BY AtIndex DEF MapInv, MapType, InsertCovers, Inserting
<1>2. /\ memmap' \in Seq(EntrySet) /\ Len(memmap') = Len(memmap) - 1
      /\ \A n \in 1..(Len(memmap) - 1) : memmap'[n] = IF n = i THEN memmap[Len(memmap)] ELSE memmap[n]
  BY <1>1, SwapOutSeq DEF InsertCovers
<1>3. MapType' BY <1>2 DEF MapInv, MapType, InsertCovers, Walk, Phases
<1>4. InsertInv'
  <2> SUFFICES ASSUME NEW n \in 1..Len(memmap'), n < i PROVE ~Clash(memmap'[n], ins)
    BY DEF MapInv, InsertInv, InsertCovers, Inserting, Walk, Clash, Covers, Top, Wraps
  <2>1. n \in 1..Len(memmap) /\ memmap'[n] = memmap[n] BY <1>1, <1>2
  <2> QED BY <2>1 DEF MapInv, InsertInv, InsertCovers, Inserting
<1>5. ClipInv' /\ UsableInv' BY DEF InsertCovers, Walk, ClipInv, UsableInv
<1>6. ASSUME NEW a \in Nat, NEW t, ~Covers(ins, a) PROVE Has(memmap, a, t) <=> Has(memmap', a, t)
  <2>1. Has(memmap', a, t) <=> Others(memmap, i, a, t) BY <1>1, SwapOutHas DEF InsertCovers
  <2>2. ~Hit(memmap[i], a, t) BY <1>1, <1>6, EntryType DEF InsertCovers, Covered, Covers, Hit
  <2> QED BY <1>1, <2>1, <2>2, HasSplit
<1>7. OwnersKept BY <1>6, InsertOwners DEF InsertCovers, Inserting, Walk
<1> QED BY <1>3, <1>4, <1>5, <1>7 DEF MapInv

(* What both ways of shaving come to: entry i becomes the part of it from  *)
(* lo to hi, and the rest of it is the new entry's                         *)
LEMMA InsertPart ==
  ASSUME MapInv, phase = "insert", i <= Len(memmap), Walk("insert", i + 1, j), ~Wraps(memmap[i]),
         NEW lo \in Nat, NEW hi \in Nat, memmap[i].base <= lo, lo <= hi, hi <= Top(memmap[i]),
         memmap' = [memmap EXCEPT ![i] = Span(lo, hi, memmap[i].type)],
         \A a \in Nat : ~Covers(ins, a) /\ Covers(memmap[i], a) => lo <= a /\ a < hi,
         \A a \in Nat : Covers(ins, a) => ~(lo <= a /\ a < hi)
  PROVE  MapInv' /\ OwnersKept
<1> DEFINE s == Span(lo, hi, memmap[i].type)
<1>1. i \in 1..Len(memmap) /\ memmap[i] \in EntrySet /\ Len(memmap) \in Nat /\ memmap \in Seq(EntrySet)
  BY AtIndex DEF MapInv, MapType
<1>2. s \in EntrySet /\ s.base = lo /\ Top(s) = hi /\ s.type = memmap[i].type BY <1>1, SpanPart
<1>3. \A a \in Nat : \A t : Hit(s, a, t) <=> Hit(memmap[i], a, t) /\ lo <= a /\ a < hi BY <1>1, SpanHit
<1>4. memmap' = [memmap EXCEPT ![i] = s] OBVIOUS
<1> HIDE DEF s
<1>5. /\ memmap' \in Seq(EntrySet) /\ Len(memmap') = Len(memmap)
      /\ \A n \in 1..Len(memmap) : memmap'[n] = IF n = i THEN s ELSE memmap[n]
  BY <1>1, <1>2, <1>4, ExceptSeq
<1>6. MapType' BY <1>5 DEF MapInv, MapType, Walk, Phases
<1>7. InsertInv'
  <2> SUFFICES ASSUME NEW n \in 1..Len(memmap), n < i + 1 PROVE ~Clash(memmap'[n], ins)
    BY <1>5 DEF MapInv, InsertInv, Walk, Clash, Covers, Top, Wraps
  <2>1. CASE n = i BY <1>2, <1>5, <2>1 DEF Clash, Covers
  <2>2. CASE n # i
    <3>1. n < i /\ memmap'[n] = memmap[n] BY <1>1, <1>5, <2>2
    <3> QED BY <3>1 DEF MapInv, InsertInv
  <2> QED BY <2>1, <2>2
<1>8. ClipInv' /\ UsableInv' BY DEF Walk, ClipInv, UsableInv
<1>9. ASSUME NEW a \in Nat, NEW t, ~Covers(ins, a) PROVE Has(memmap, a, t) <=> Has(memmap', a, t)
  <2>0. Has([memmap EXCEPT ![i] = s], a, t) <=> Others(memmap, i, a, t) \/ Hit(s, a, t)
    BY <1>1, <1>2, ExceptHas
  <2>1. Has(memmap', a, t) <=> Others(memmap, i, a, t) \/ Hit(s, a, t) BY <1>4, <2>0
  <2>2. Hit(s, a, t) <=> Hit(memmap[i], a, t) BY <1>3, <1>9 DEF Hit
  <2> QED BY <1>1, <2>1, <2>2, HasSplit
<1>10. OwnersKept BY <1>9, InsertOwners DEF Walk
<1> QED BY <1>6, <1>7, <1>8, <1>10 DEF MapInv

LEMMA InsertShavesTurn ==
  ASSUME MapInv, InsertShaves
  PROVE  MapInv' /\ OwnersKept
<1> DEFINE e == memmap[i]
<1>1. e \in EntrySet /\ ins \in EntrySet BY AtIndex DEF MapInv, MapType, InsertShaves, Inserting
<1>2. /\ e.base \in Nat /\ Top(e) \in Nat /\ ins.base \in Nat /\ Top(ins) \in Nat
      /\ e.base <= Top(e)
  BY <1>1, EntryType DEF Top
<1>3. phase = "insert" /\ i <= Len(memmap) /\ Walk("insert", i + 1, j) /\ ~Wraps(e)
  BY DEF InsertShaves, Inserting
<1>4. CASE /\ ins.base <= e.base /\ Top(ins) < Top(e) /\ Top(ins) > e.base
           /\ memmap' = [memmap EXCEPT ![i] = Span(Top(ins), Top(e), e.type)]
  <2>1. \A a \in Nat : ~Covers(ins, a) /\ Covers(e, a) => Top(ins) <= a /\ a < Top(e)
    BY <1>2, <1>4 DEF Covers
  <2>2. \A a \in Nat : Covers(ins, a) => ~(Top(ins) <= a /\ a < Top(e)) BY <1>2 DEF Covers
  <2>3. e.base <= Top(ins) /\ Top(ins) <= Top(e) /\ Top(e) <= Top(e) BY <1>2, <1>4
  <2> QED BY <1>2, <1>3, <1>4, <2>1, <2>2, <2>3, InsertPart
<1>5. CASE /\ ins.base > e.base /\ ins.base < Top(e) /\ Top(ins) >= Top(e)
           /\ memmap' = [memmap EXCEPT ![i] = Span(e.base, ins.base, e.type)]
  <2>1. \A a \in Nat : ~Covers(ins, a) /\ Covers(e, a) => e.base <= a /\ a < ins.base
    BY <1>2, <1>5 DEF Covers
  <2>2. \A a \in Nat : Covers(ins, a) => ~(e.base <= a /\ a < ins.base) BY <1>2 DEF Covers
  <2>3. e.base <= e.base /\ e.base <= ins.base /\ ins.base <= Top(e) BY <1>2, <1>5
  <2> QED BY <1>2, <1>3, <1>5, <2>1, <2>2, <2>3, InsertPart
<1> QED BY <1>4, <1>5 DEF InsertShaves

(* An entry becomes its part below a range, and its part above is appended *)
LEMMA SplitMap ==
  ASSUME NEW m \in Seq(EntrySet), NEW k \in 1..Len(m), NEW s \in EntrySet, NEW r \in EntrySet
  PROVE  LET x == Append([m EXCEPT ![k] = s], r)
         IN  /\ x \in Seq(EntrySet) /\ Len(x) = Len(m) + 1
             /\ \A n \in 1..Len(m) : x[n] = IF n = k THEN s ELSE m[n]
             /\ x[Len(m) + 1] = r
             /\ \A a, t : Has(x, a, t) <=> Others(m, k, a, t) \/ Hit(s, a, t) \/ Hit(r, a, t)
<1> DEFINE y == [m EXCEPT ![k] = s]
           x == Append(y, r)
<1>1. /\ y \in Seq(EntrySet) /\ Len(y) = Len(m)
      /\ \A n \in 1..Len(m) : y[n] = IF n = k THEN s ELSE m[n]
  BY ExceptSeq
<1>2. \A a, t : Has(y, a, t) <=> Others(m, k, a, t) \/ Hit(s, a, t) BY ExceptHas
<1> HIDE DEF y
<1>3. /\ x \in Seq(EntrySet) /\ Len(x) = Len(y) + 1
      /\ \A n \in 1..Len(y) : x[n] = y[n]
      /\ x[Len(y) + 1] = r
  BY <1>1, AppendProperties
<1>4. \A a, t : Has(x, a, t) <=> Has(y, a, t) \/ Hit(r, a, t) BY <1>1, AppendHas
<1> HIDE DEF x
<1>5. /\ x \in Seq(EntrySet) /\ Len(x) = Len(m) + 1
      /\ \A n \in 1..Len(m) : x[n] = IF n = k THEN s ELSE m[n]
      /\ x[Len(m) + 1] = r
      /\ \A a, t : Has(x, a, t) <=> Others(m, k, a, t) \/ Hit(s, a, t) \/ Hit(r, a, t)
  BY <1>1, <1>2, <1>3, <1>4
<1> QED BY <1>5 DEF x, y

LEMMA InsertSplitsTurn ==
  ASSUME MapInv, InsertSplits
  PROVE  MapInv' /\ OwnersKept
<1> DEFINE e == memmap[i]
           s == Span(e.base, ins.base, e.type)
           r == Span(Top(ins), Top(e), e.type)
<1>1. /\ i \in 1..Len(memmap) /\ e \in EntrySet /\ Len(memmap) \in Nat /\ memmap \in Seq(EntrySet)
      /\ ins \in EntrySet
  BY AtIndex DEF MapInv, MapType, InsertSplits, Inserting
<1>2. /\ e.base \in Nat /\ Top(e) \in Nat /\ ins.base \in Nat /\ Top(ins) \in Nat
      /\ ins.base <= Top(ins)
  BY <1>1, EntryType DEF Top
<1>3. ~Wraps(e) /\ ins.base > e.base /\ Top(ins) < Top(e)
      /\ memmap' = Append([memmap EXCEPT ![i] = s], r)
  BY DEF InsertSplits, Nested
<1>4. /\ e.base <= e.base /\ e.base <= ins.base /\ ins.base <= Top(e)
      /\ e.base <= Top(ins) /\ Top(ins) <= Top(e) /\ Top(e) <= Top(e)
  BY <1>2, <1>3
<1>5. /\ s \in EntrySet /\ s.base = e.base /\ Top(s) = ins.base
      /\ r \in EntrySet
  BY <1>1, <1>2, <1>4, SpanPart
<1>6. \A a \in Nat : \A t : Hit(s, a, t) <=> Hit(e, a, t) /\ e.base <= a /\ a < ins.base
  BY <1>1, <1>2, <1>3, <1>4, SpanHit
<1>7. \A a \in Nat : \A t : Hit(r, a, t) <=> Hit(e, a, t) /\ Top(ins) <= a /\ a < Top(e)
  BY <1>1, <1>2, <1>3, <1>4, SpanHit
<1> HIDE DEF s, r
<1>8. /\ memmap' \in Seq(EntrySet) /\ Len(memmap') = Len(memmap) + 1
      /\ \A n \in 1..Len(memmap) : memmap'[n] = IF n = i THEN s ELSE memmap[n]
      /\ \A a, t : Has(memmap', a, t) <=> Others(memmap, i, a, t) \/ Hit(s, a, t) \/ Hit(r, a, t)
  BY <1>1, <1>3, <1>5, SplitMap
<1>9. MapType' BY <1>8 DEF MapInv, MapType, InsertSplits, Walk, Phases
<1>10. InsertInv'
  <2> SUFFICES ASSUME NEW n \in 1..Len(memmap'), n < i + 1 PROVE ~Clash(memmap'[n], ins)
    BY DEF MapInv, InsertInv, InsertSplits, Inserting, Walk, Clash, Covers, Top, Wraps
  <2>1. CASE n = i BY <1>1, <1>2, <1>5, <1>8, <2>1 DEF Clash, Covers
  <2>2. CASE n # i
    <3>1. n < i /\ n \in 1..Len(memmap) /\ memmap'[n] = memmap[n] BY <1>1, <1>8, <2>2
    <3> QED BY <3>1 DEF MapInv, InsertInv, InsertSplits, Inserting
  <2> QED BY <2>1, <2>2
<1>11. ClipInv' /\ UsableInv' BY DEF InsertSplits, Walk, ClipInv, UsableInv
<1>12. ASSUME NEW a \in Nat, NEW t, ~Covers(ins, a) PROVE Has(memmap, a, t) <=> Has(memmap', a, t)
  <2>1. Hit(e, a, t) <=> Hit(s, a, t) \/ Hit(r, a, t)
    BY <1>2, <1>6, <1>7, <1>12 DEF Hit, Covers
  <2> QED BY <1>1, <1>8, <2>1, HasSplit
<1>13. OwnersKept BY <1>12, InsertOwners DEF InsertSplits, Inserting, Walk
<1> QED BY <1>9, <1>10, <1>11, <1>13 DEF MapInv

LEMMA InsertExhaustedTurn ==
  ASSUME MapInv, InsertExhausted
  PROVE  MapInv' /\ OwnersKept
<1>1. memmap' = memmap /\ ins' = ins /\ phase = "insert" /\ phase' = "insert_panic"
  BY DEF InsertExhausted
<1>2. MapType' BY <1>1 DEF MapInv, MapType, InsertExhausted, Phases
<1>3. InsertInv' /\ ClipInv' /\ UsableInv' BY <1>1 DEF InsertInv, ClipInv, UsableInv
<1>4. OwnersKept BY <1>1 DEF OwnersKept, Owners, Covers, Top, Claims, Wraps
<1> QED BY <1>2, <1>3, <1>4 DEF MapInv

LEMMA InsertEndTurn ==
  ASSUME MapInv, InsertEnd
  PROVE  MapInv' /\ OwnersKept
<1>1. /\ memmap \in Seq(EntrySet) /\ ins \in EntrySet /\ Len(memmap) \in Nat /\ i \in Nat
      /\ i > Len(memmap) /\ memmap' = Append(memmap, ins)
      /\ phase = "insert" /\ phase' = "clip" /\ i' = 1 /\ j' = 1 /\ ins' = ins
  BY LenProperties DEF MapInv, MapType, InsertEnd, Walk
<1>2. memmap' \in Seq(EntrySet) BY <1>1, AppendProperties
<1>3. MapType' BY <1>1, <1>2 DEF MapInv, MapType, InsertEnd, Walk, Phases
<1>4. InsertInv' /\ UsableInv' BY <1>1 DEF InsertInv, UsableInv
<1>5. ClipInv'
  <2> SUFFICES ASSUME NEW k \in 1..Len(memmap'), NEW n \in 1..Len(memmap'),
                      k < 1 \/ (k = 1 /\ n < 1)
               PROVE  FALSE
    BY <1>1 DEF ClipInv
  <2> QED OBVIOUS
<1>6. ASSUME NEW a \in Nat PROVE Owners(a)' = Owners(a)
  <2>1. Owners(a)' = Claims(memmap', a) BY <1>1 DEF Owners, Claims, Covers, Top, Wraps
  <2>2. Owners(a) = IF Covers(ins, a) THEN {ins.type} ELSE Claims(memmap, a) BY <1>1 DEF Owners
  <2>3. \A t : t \in Claims(memmap', a) <=> Has(memmap, a, t) \/ Hit(ins, a, t)
    <3>1. \A t : t \in Claims(memmap', a) <=> Has(memmap', a, t) BY HasClaims
    <3>2. \A t : Has(memmap', a, t) <=> Has(memmap, a, t) \/ Hit(ins, a, t) BY <1>1, AppendHas
    <3> QED BY <3>1, <3>2
  <2>4. CASE Covers(ins, a)
    <3>1. \A t : ~Has(memmap, a, t)
      <4> SUFFICES ASSUME NEW n \in 1..Len(memmap), Covers(memmap[n], a), ~Wraps(memmap[n]) PROVE FALSE
        BY DEF Has, Hit
      <4>1. n < i BY <1>1
      <4>2. ~Clash(memmap[n], ins) /\ ~Wraps(ins) BY <1>1, <4>1 DEF MapInv, InsertInv
      <4> QED BY <2>4, <4>2 DEF Clash
    <3>2. \A t : Hit(ins, a, t) <=> t = ins.type BY <1>1, <2>4 DEF MapInv, InsertInv, Hit
    <3> QED BY <2>1, <2>2, <2>3, <2>4, <3>1, <3>2
  <2>5. CASE ~Covers(ins, a)
    <3>1. \A t : ~Hit(ins, a, t) BY <2>5 DEF Hit
    <3>2. \A t : t \in Claims(memmap, a) <=> Has(memmap, a, t) BY HasClaims
    <3> QED BY <2>1, <2>2, <2>3, <2>5, <3>1, <3>2
  <2> QED BY <2>4, <2>5
<1> QED BY <1>3, <1>4, <1>5, <1>6 DEF MapInv, OwnersKept

-----------------------------------------------------------------------------
(* pmm_sanitise_entries(), first loop                                      *)

LEMMA ShrinksId == \A m : Shrinks(m, m)
BY DEF Shrinks

LEMMA Restarts ==
  ASSUME MapInv, memmap' \in Seq(EntrySet), Walk("clip", 1, 1)
  PROVE  MapInv'
<1>1. MapType' BY DEF MapInv, MapType, Walk, Phases
<1>2. InsertInv' /\ UsableInv' BY DEF InsertInv, UsableInv, Walk
<1>3. ClipInv'
  <2> SUFFICES ASSUME NEW k \in 1..Len(memmap'), NEW n \in 1..Len(memmap'),
                      k < 1 \/ (k = 1 /\ n < 1)
               PROVE  FALSE
    BY DEF ClipInv, Walk
  <2> QED OBVIOUS
<1> QED BY <1>1, <1>2, <1>3 DEF MapInv

(* A usable entry goes                                                     *)
LEMMA UsableGoes ==
  ASSUME MapInv, i <= Len(memmap), memmap[i].type = "usable", memmap' = SwapOut(memmap, i)
  PROVE  memmap' \in Seq(EntrySet) /\ Shrinks(memmap, memmap')
<1>1. i \in 1..Len(memmap) /\ memmap \in Seq(EntrySet) BY AtIndex DEF MapInv, MapType
<1>2. memmap' \in Seq(EntrySet) BY <1>1, SwapOutSeq
<1>3. ASSUME NEW a \in Nat, NEW t
      PROVE  (Has(memmap', a, t) => Has(memmap, a, t)) /\ (t # "usable" /\ Has(memmap, a, t) => Has(memmap', a, t))
  <2>1. Has(memmap', a, t) <=> Others(memmap, i, a, t) BY <1>1, SwapOutHas
  <2>2. Has(memmap, a, t) <=> Others(memmap, i, a, t) \/ Hit(memmap[i], a, t) BY <1>1, HasSplit
  <2> QED BY <2>1, <2>2 DEF Hit
<1> QED BY <1>2, <1>3 DEF Shrinks

(* A usable entry shrinks, to s                                            *)
LEMMA UsableShrinks ==
  ASSUME MapInv, i <= Len(memmap), memmap[i].type = "usable",
         NEW s \in EntrySet, s.type = "usable", \A a \in Nat : \A t : Hit(s, a, t) => Hit(memmap[i], a, t),
         memmap' = [memmap EXCEPT ![i] = s]
  PROVE  /\ memmap' \in Seq(EntrySet) /\ Len(memmap') = Len(memmap)
         /\ \A n \in 1..Len(memmap) : memmap'[n] = IF n = i THEN s ELSE memmap[n]
         /\ Shrinks(memmap, memmap')
<1>1. i \in 1..Len(memmap) /\ memmap \in Seq(EntrySet) BY AtIndex DEF MapInv, MapType
<1>2. /\ memmap' \in Seq(EntrySet) /\ Len(memmap') = Len(memmap)
      /\ \A n \in 1..Len(memmap) : memmap'[n] = IF n = i THEN s ELSE memmap[n]
  BY <1>1, ExceptSeq
<1>3. ASSUME NEW a \in Nat, NEW t
      PROVE  (Has(memmap', a, t) => Has(memmap, a, t)) /\ (t # "usable" /\ Has(memmap, a, t) => Has(memmap', a, t))
  <2>0. Has([memmap EXCEPT ![i] = s], a, t) <=> Others(memmap, i, a, t) \/ Hit(s, a, t)
    BY <1>1, ExceptHas
  <2>1. Has(memmap', a, t) <=> Others(memmap, i, a, t) \/ Hit(s, a, t) BY <2>0
  <2>2. Has(memmap, a, t) <=> Others(memmap, i, a, t) \/ Hit(memmap[i], a, t) BY <1>1, HasSplit
  <2> QED BY <2>1, <2>2 DEF Hit
<1> QED BY <1>2, <1>3 DEF Shrinks

LEMMA ClipSkipTurn ==
  ASSUME MapInv, ClipSkip
  PROVE  MapInv' /\ Shrinks(memmap, memmap')
<1>1. /\ phase = "clip" /\ phase' = "clip" /\ i' = i + 1 /\ j' = 1 /\ memmap' = memmap
      /\ memmap[i].type # "usable" /\ i \in Nat /\ Len(memmap) \in Nat
  BY LenProperties DEF ClipSkip, Walk, MapInv, MapType
<1>2. MapType' BY <1>1 DEF MapInv, MapType, ClipSkip, Walk, Phases
<1>3. InsertInv' /\ UsableInv' BY <1>1 DEF InsertInv, UsableInv
<1>4. ClipInv'
  <2> SUFFICES ASSUME NEW k \in 1..Len(memmap), NEW n \in 1..Len(memmap),
                      memmap[k].type = "usable", memmap[n].type # "usable",
                      k < i + 1 \/ (k = i + 1 /\ n < 1)
               PROVE  ~Clash(memmap[k], memmap[n])
    BY <1>1 DEF ClipInv, Clash, Covers, Top, Wraps
  <2>1. k < i BY <1>1
  <2> QED BY <1>1, <2>1 DEF MapInv, ClipInv
<1> QED BY <1>1, <1>2, <1>3, <1>4, ShrinksId DEF MapInv

LEMMA ClipRemovesTurn ==
  ASSUME MapInv, ClipRemoves
  PROVE  MapInv' /\ Shrinks(memmap, memmap')
<1>1. /\ i <= Len(memmap) /\ memmap[i].type = "usable" /\ memmap' = SwapOut(memmap, i)
      /\ Walk("clip", 1, 1)
  BY DEF ClipRemoves, Clipping
<1> QED BY <1>1, UsableGoes, Restarts

LEMMA ClipDropsTurn ==
  ASSUME MapInv, ClipDrops
  PROVE  MapInv' /\ Shrinks(memmap, memmap')
<1>1. /\ i <= Len(memmap) /\ memmap[i].type = "usable" /\ memmap' = SwapOut(memmap, i)
      /\ Walk("clip", 1, 1)
  BY DEF ClipDrops, Clipping
<1> QED BY <1>1, UsableGoes, Restarts

LEMMA ClipPassesTurn ==
  ASSUME MapInv, ClipPasses
  PROVE  MapInv' /\ Shrinks(memmap, memmap')
<1> DEFINE e == memmap[i]
           r == memmap[j]
<1>1. /\ phase = "clip" /\ phase' = "clip" /\ i' = i /\ j' = j + 1 /\ memmap' = memmap
      /\ e.type = "usable" /\ i \in Nat /\ j \in Nat /\ i <= Len(memmap) /\ j <= Len(memmap)
  BY DEF ClipPasses, Pair, Clipping, Walk, MapInv, MapType
<1>2. e \in EntrySet /\ r \in EntrySet BY <1>1, AtIndex, AtSecond DEF MapInv
<1>3. r.type # "usable" => ~Clash(e, r)
  <2> SUFFICES ASSUME r.type # "usable", NEW a \in Nat, Covers(e, a), Covers(r, a), ~Wraps(r) PROVE FALSE
    BY DEF Clash
  <2>1. j # i BY <1>1
  <2>2. r.length # 0 BY <1>2, EntryType DEF Covers, Top
  <2>3. ~Ignored BY <2>1, <2>2 DEF Ignored
  <2>4. ~Swallows(r, e) /\ ~BeginsIn(r, e) /\ ~EndsIn(r, e) BY <2>3 DEF ClipPasses
  <2> QED BY <1>2, <2>4, EntryType DEF Swallows, BeginsIn, EndsIn, Covers
<1>4. MapType' BY <1>1 DEF MapInv, MapType, ClipPasses, Walk, Phases
<1>5. InsertInv' /\ UsableInv' BY <1>1 DEF InsertInv, UsableInv
<1>6. ClipInv'
  <2> SUFFICES ASSUME NEW k \in 1..Len(memmap), NEW n \in 1..Len(memmap),
                      memmap[k].type = "usable", memmap[n].type # "usable",
                      k < i \/ (k = i /\ n < j + 1)
               PROVE  ~Clash(memmap[k], memmap[n])
    BY <1>1 DEF ClipInv, Clash, Covers, Top, Wraps
  <2>1. CASE k = i /\ n = j BY <1>3, <2>1
  <2>2. CASE ~(k = i /\ n = j)
    <3>1. k < i \/ (k = i /\ n < j) BY <1>1, <2>2
    <3> QED BY <1>1, <3>1 DEF MapInv, ClipInv
  <2> QED BY <2>1, <2>2
<1> QED BY <1>1, <1>4, <1>5, <1>6, ShrinksId DEF MapInv

(* The usable entry i, cut down to s, is clear of entry j too; what was    *)
(* appended is usable                                                      *)
LEMMA ClipOn ==
  ASSUME MapInv, phase = "clip", i <= Len(memmap), j <= Len(memmap), memmap[i].type = "usable",
         Walk("clip", i, j + 1), memmap' \in Seq(EntrySet), Len(memmap') \in Nat,
         NEW s \in EntrySet, s.type = "usable",
         \A n \in 1..Len(memmap) : memmap'[n] = IF n = i THEN s ELSE memmap[n],
         \A n \in 1..Len(memmap') : n > Len(memmap) => memmap'[n].type = "usable",
         \A a \in Nat : \A t : Hit(s, a, t) => Hit(memmap[i], a, t),
         memmap[j].type # "usable" => ~Clash(s, memmap[j])
  PROVE  MapInv'
<1>1. /\ i \in 1..Len(memmap) /\ j \in 1..Len(memmap) /\ Len(memmap) \in Nat
      /\ i' = i /\ j' = j + 1 /\ phase' = "clip"
  BY AtIndex, AtSecond DEF MapInv, Walk
<1>2. MapType' BY <1>1 DEF MapInv, MapType, Walk, Phases
<1>3. InsertInv' /\ UsableInv' BY <1>1 DEF InsertInv, UsableInv
<1>4. ClipInv'
  <2> SUFFICES ASSUME NEW k \in 1..Len(memmap'), NEW n \in 1..Len(memmap'),
                      memmap'[k].type = "usable", memmap'[n].type # "usable",
                      k < i \/ (k = i /\ n < j + 1)
               PROVE  ~Clash(memmap'[k], memmap'[n])
    BY <1>1 DEF ClipInv, Clash, Covers, Top, Wraps
  <2>1. k \in 1..Len(memmap) BY <1>1
  <2>2. n \in 1..Len(memmap)
    <3>1. ~(n > Len(memmap)) OBVIOUS
    <3> QED BY <1>1, <3>1
  <2>3. n # i /\ memmap'[n] = memmap[n] BY <2>2
  <2>4. CASE k < i
    <3>0. k # i BY <1>1, <2>4
    <3>1. memmap'[k] = memmap[k] BY <2>1, <3>0
    <3> QED BY <2>1, <2>2, <2>3, <2>4, <3>1 DEF MapInv, ClipInv
  <2>5. CASE k = i /\ n = j
    <3>1. memmap'[k] = s BY <2>1, <2>5
    <3> QED BY <2>3, <2>5, <3>1
  <2>6. CASE k = i /\ n < j
    <3>1. memmap'[k] = s BY <2>1, <2>6
    <3>2. ~Clash(memmap[i], memmap[n]) BY <1>1, <2>2, <2>3, <2>6 DEF MapInv, ClipInv
    <3>3. \A a \in Nat : Covers(s, a) /\ ~Wraps(s) => Covers(memmap[i], a) /\ ~Wraps(memmap[i]) BY DEF Hit
    <3>4. ~Clash(s, memmap[n]) BY <3>2, <3>3 DEF Clash
    <3> QED BY <2>3, <3>1, <3>4
  <2> QED BY <1>1, <2>4, <2>5, <2>6
<1> QED BY <1>2, <1>3, <1>4 DEF MapInv

LEMMA ClipCutsTurn ==
  ASSUME MapInv, ClipCuts
  PROVE  MapInv' /\ Shrinks(memmap, memmap')
<1> DEFINE e == memmap[i]
           r == memmap[j]
<1>1. /\ phase = "clip" /\ Walk("clip", i, j + 1) /\ e.type = "usable"
      /\ i <= Len(memmap) /\ j <= Len(memmap) /\ ~Wraps(e) /\ ~Wraps(r) /\ ~Swallows(r, e)
  BY DEF ClipCuts, Pair, Clipping, Ignored
<1>2. e \in EntrySet /\ r \in EntrySet /\ Len(memmap) \in Nat BY <1>1, AtIndex, AtSecond DEF MapInv
<1>3. /\ e.base \in Nat /\ Top(e) \in Nat /\ r.base \in Nat /\ Top(r) \in Nat
      /\ e.base <= Top(e) /\ r.base <= Top(r)
  BY <1>2, EntryType DEF Top
<1>4. ASSUME NEW lo \in Nat, NEW hi \in Nat, e.base <= lo, lo <= hi, hi <= Top(e),
             hi <= r.base \/ Top(r) <= lo,
             memmap' = [memmap EXCEPT ![i] = Span(lo, hi, e.type)]
      PROVE  MapInv' /\ Shrinks(memmap, memmap')
  <2> DEFINE s == Span(lo, hi, e.type)
  <2>1. s \in EntrySet /\ s.base = lo /\ Top(s) = hi /\ s.type = e.type BY <1>2, <1>4, SpanPart
  <2>2. \A a \in Nat : \A t : Hit(s, a, t) <=> Hit(e, a, t) /\ lo <= a /\ a < hi
    BY <1>1, <1>2, <1>4, SpanHit
  <2>3. memmap' = [memmap EXCEPT ![i] = s] BY <1>4
  <2> HIDE DEF s
  <2>4. ~Clash(s, r) BY <1>3, <1>4, <2>1 DEF Clash, Covers
  <2>5. \A a \in Nat : \A t : Hit(s, a, t) => Hit(memmap[i], a, t) BY <2>2
  <2>6. /\ memmap' \in Seq(EntrySet) /\ Len(memmap') = Len(memmap)
        /\ \A n \in 1..Len(memmap) : memmap'[n] = IF n = i THEN s ELSE memmap[n]
        /\ Shrinks(memmap, memmap')
    BY <1>1, <2>1, <2>3, <2>5, UsableShrinks
  <2>7. \A n \in 1..Len(memmap') : n > Len(memmap) => memmap'[n].type = "usable" BY <1>2, <2>6
  <2>8. MapInv' BY <1>1, <1>2, <2>1, <2>4, <2>5, <2>6, <2>7, ClipOn
  <2> QED BY <2>6, <2>8
<1>5. CASE /\ BeginsIn(r, e) /\ ~EndsIn(r, e)
           /\ memmap' = [memmap EXCEPT ![i] = Span(e.base, r.base, e.type)]
  <2>1. e.base <= e.base /\ e.base <= r.base /\ r.base <= Top(e) /\ r.base <= r.base BY <1>3, <1>5 DEF BeginsIn
  <2> QED BY <1>3, <1>4, <1>5, <2>1
<1>6. CASE /\ ~BeginsIn(r, e) /\ EndsIn(r, e)
           /\ memmap' = [memmap EXCEPT ![i] = Span(Top(r), Top(e), e.type)]
  <2>1. e.base <= Top(r) /\ Top(r) <= Top(e) /\ Top(e) <= Top(e) /\ Top(r) <= Top(r) BY <1>3, <1>6 DEF EndsIn
  <2> QED BY <1>3, <1>4, <1>6, <2>1
<1> QED BY <1>5, <1>6 DEF ClipCuts

LEMMA ClipSplitsTurn ==
  ASSUME MapInv, ClipSplits
  PROVE  MapInv' /\ Shrinks(memmap, memmap')
<1> DEFINE e == memmap[i]
           r == memmap[j]
           s == Span(e.base, r.base, e.type)
           u == Span(Top(r), Top(e), e.type)
<1>1. /\ phase = "clip" /\ Walk("clip", i, j + 1) /\ e.type = "usable"
      /\ i <= Len(memmap) /\ j <= Len(memmap) /\ ~Wraps(e) /\ ~Wraps(r)
      /\ BeginsIn(r, e) /\ EndsIn(r, e)
      /\ memmap' = Append([memmap EXCEPT ![i] = s], u)
  BY DEF ClipSplits, Pair, Clipping, Ignored
<1>2. /\ e \in EntrySet /\ r \in EntrySet /\ i \in 1..Len(memmap) /\ Len(memmap) \in Nat
      /\ memmap \in Seq(EntrySet)
  BY <1>1, AtIndex, AtSecond DEF MapInv, MapType
<1> HIDE DEF s, u
<1>3. /\ e.base \in Nat /\ Top(e) \in Nat /\ r.base \in Nat /\ Top(r) \in Nat
      /\ e.base <= Top(e) /\ r.base <= Top(r)
  <2>1. e \in EntrySet /\ r \in EntrySet BY <1>2
  <2> HIDE DEF e, r
  <2> QED BY <2>1, EntryType DEF Top
<1>4. /\ e.base <= e.base /\ e.base <= r.base /\ r.base <= Top(e)
      /\ e.base <= Top(r) /\ Top(r) <= Top(e) /\ Top(e) <= Top(e)
  BY <1>1, <1>3 DEF BeginsIn, EndsIn
<1>5. /\ s \in EntrySet /\ s.base = e.base /\ Top(s) = r.base /\ s.type = e.type
      /\ u \in EntrySet /\ u.type = e.type
  <2>1. s \in EntrySet /\ s.base = e.base /\ Top(s) = r.base /\ s.type = e.type
    BY <1>2, <1>3, <1>4, SpanPart DEF s
  <2>2. u \in EntrySet /\ u.type = e.type BY <1>2, <1>3, <1>4, SpanPart DEF u
  <2> QED BY <2>1, <2>2
<1>6. \A a \in Nat : \A t : Hit(s, a, t) <=> Hit(e, a, t) /\ e.base <= a /\ a < r.base
  BY <1>1, <1>2, <1>3, <1>4, SpanHit DEF s
<1>7. \A a \in Nat : \A t : Hit(u, a, t) <=> Hit(e, a, t) /\ Top(r) <= a /\ a < Top(e)
  BY <1>1, <1>2, <1>3, <1>4, SpanHit DEF u
<1>8. /\ memmap' \in Seq(EntrySet) /\ Len(memmap') = Len(memmap) + 1
      /\ \A n \in 1..Len(memmap) : memmap'[n] = IF n = i THEN s ELSE memmap[n]
      /\ memmap'[Len(memmap) + 1] = u
      /\ \A a, t : Has(memmap', a, t) <=> Others(memmap, i, a, t) \/ Hit(s, a, t) \/ Hit(u, a, t)
  BY <1>1, <1>2, <1>5, SplitMap
<1>9. ~Clash(s, r) BY <1>3, <1>5 DEF Clash, Covers
<1>10. \A n \in 1..Len(memmap') : n > Len(memmap) => memmap'[n].type = "usable"
  <2> SUFFICES ASSUME NEW n \in 1..Len(memmap'), n > Len(memmap) PROVE memmap'[n].type = "usable"
    OBVIOUS
  <2>1. n = Len(memmap) + 1 BY <1>2, <1>8
  <2> QED BY <1>1, <1>5, <1>8, <2>1
<1>11. \A a \in Nat : \A t : Hit(s, a, t) => Hit(memmap[i], a, t) BY <1>6
<1>12. Len(memmap') \in Nat BY <1>2, <1>8
<1>13. MapInv' BY <1>1, <1>5, <1>8, <1>9, <1>10, <1>11, <1>12, ClipOn
<1>14. ASSUME NEW a \in Nat, NEW t
       PROVE  (Has(memmap', a, t) => Has(memmap, a, t)) /\ (t # "usable" /\ Has(memmap, a, t) => Has(memmap', a, t))
  <2>1. Has(memmap, a, t) <=> Others(memmap, i, a, t) \/ Hit(e, a, t) BY <1>2, HasSplit
  <2>2. Hit(e, a, t) => t = "usable" BY <1>1 DEF Hit
  <2> QED BY <1>6, <1>7, <1>8, <2>1, <2>2
<1> QED BY <1>13, <1>14 DEF Shrinks

LEMMA ClipExhaustedTurn ==
  ASSUME MapInv, ClipExhausted
  PROVE  MapInv' /\ Shrinks(memmap, memmap')
<1>1. MapType' BY DEF ClipExhausted, Panic, MapInv, MapType, Phases
<1>2. InsertInv' /\ ClipInv' /\ UsableInv' BY DEF ClipExhausted, Panic, InsertInv, ClipInv, UsableInv
<1> QED BY <1>1, <1>2, ShrinksId DEF MapInv, ClipExhausted, Panic

(* align_entry() gives a part of the entry; an entry that wraps still does *)
LEMMA AlignDownFacts ==
  ASSUME NEW x \in Nat, NEW p \in Nat \ {0}
  PROVE  /\ AlignDown(x, p) \in Nat /\ AlignDown(x, p) <= x /\ x < AlignDown(x, p) + p
         /\ AlignDown(x, p) % p = 0
<1>1. x % p \in 0..(p - 1) /\ x = p * (x \div p) + (x % p) /\ x \div p \in Nat OBVIOUS
<1> DEFINE q == x \div p
           y == x % p
<1>2. AlignDown(x, p) = x - y BY DEF AlignDown
<1> HIDE DEF q, y
<1>3. x - y = p * q BY <1>1 DEF q, y
<1>4. y \in 0..(p - 1) /\ q \in Nat BY <1>1 DEF q, y
<1>5. (p * q) % p = 0 BY <1>4
<1> QED BY <1>1, <1>2, <1>3, <1>4, <1>5

LEMMA TimesLess ==
  ASSUME NEW p \in Nat \ {0}, NEW x \in Nat, NEW y \in Nat, p * x < p * y
  PROVE  x < y
OBVIOUS

LEMMA MultipleBelow ==
  ASSUME NEW p \in Nat \ {0}, NEW x \in Nat, NEW y \in Nat, x % p = 0, y % p = 0, x < y + p
  PROVE  x <= y
<1> DEFINE u == x \div p
           v == y \div p
<1>1. u \in Nat /\ v \in Nat /\ x = p * u /\ y = p * v OBVIOUS
<1> HIDE DEF u, v
<1>2. y + p = p * (v + 1) BY <1>1
<1>3. p * u < p * (v + 1) BY <1>1, <1>2
<1>4. u < v + 1 BY <1>1, <1>3, TimesLess
<1>5. u <= v BY <1>1, <1>4
<1> QED BY <1>1, <1>5

LEMMA MultiplesAdd ==
  ASSUME NEW p \in Nat \ {0}, NEW x \in Nat, NEW y \in Nat, x % p = 0, y % p = 0
  PROVE  (x + y) % p = 0
<1> DEFINE u == x \div p
           v == y \div p
<1>1. u \in Nat /\ v \in Nat /\ x = p * u /\ y = p * v OBVIOUS
<1> HIDE DEF u, v
<1>2. x + y = p * (u + v) BY <1>1
<1>3. (p * (u + v)) % p = 0 BY <1>1
<1> QED BY <1>2, <1>3

LEMMA AlignUpFacts ==
  ASSUME NEW x \in Nat, NEW p \in Nat \ {0}
  PROVE  /\ AlignUp(x, p) \in Nat /\ x <= AlignUp(x, p) /\ AlignUp(x, p) < x + p
         /\ AlignUp(x, p) % p = 0
<1>1. x + (p - 1) \in Nat OBVIOUS
<1> DEFINE w == x + (p - 1)
           z == AlignDown(w, p)
<1>2. AlignUp(x, p) = z BY DEF AlignUp
<1>3. z \in Nat /\ z <= w /\ w < z + p /\ z % p = 0 BY <1>1, AlignDownFacts
<1> HIDE DEF z
<1> QED BY <1>2, <1>3

LEMMA AlignedPart ==
  ASSUME NEW e \in EntrySet, e.type = "usable", e.length >= PageSize
  PROVE  LET s == Entry(AlignedBase(e), AlignedLength(e), e.type)
         IN  /\ s \in EntrySet /\ s.type = "usable"
             /\ \A a \in Nat : \A t : Hit(s, a, t) => Hit(e, a, t)
<1> DEFINE b == e.base
           l == e.length
           x == AlignedBase(e)
           y == AlignedLength(e)
           s == Entry(x, y, e.type)
<1>1. b \in Nat /\ l \in Nat /\ PageSize \in Nat \ {0} /\ AddrTop \in Nat /\ AddrTop % PageSize = 0
  BY EntryType, MemmapConstants
<1>2. x \in Nat /\ b <= x /\ x < b + PageSize /\ x % PageSize = 0 BY <1>1, AlignUpFacts DEF AlignedBase
<1> HIDE DEF x
<1>3. l - (x - b) \in Nat BY <1>1, <1>2
<1>4. /\ y \in Nat /\ y <= l - (x - b) /\ l - (x - b) < y + PageSize /\ y % PageSize = 0
  BY <1>1, <1>3, AlignDownFacts DEF AlignedLength, x
<1> HIDE DEF y
<1>5. /\ s.base = x /\ s.length = y /\ s.type = "usable" /\ Top(s) = x + y /\ Top(e) = b + l
  BY DEF Entry, Top
<1>6. s \in [base: Nat, length: Nat, type: MemTypes] BY <1>2, <1>4, EntryType DEF Entry
<1>7. s \in EntrySet BY <1>5, <1>6 DEF EntrySet
<1> HIDE DEF s, b, l
<1>8. Wraps(e) => Wraps(s)
  <2> SUFFICES ASSUME b + l >= AddrTop PROVE x + y >= AddrTop BY <1>5 DEF Wraps
  <2>1. AddrTop < (x + y) + PageSize BY <1>1, <1>2, <1>3, <1>4
  <2>2. (x + y) % PageSize = 0 /\ x + y \in Nat
    <3>1. x \in Nat /\ y \in Nat /\ x % PageSize = 0 /\ y % PageSize = 0 BY <1>2, <1>4
    <3>2. PageSize \in Nat \ {0} BY <1>1
    <3>3. (x + y) % PageSize = 0 BY <3>1, <3>2, MultiplesAdd, Zenon
    <3>4. x + y \in Nat BY <3>1
    <3> QED BY <3>3, <3>4
  <2>3. AddrTop <= x + y BY <1>1, <2>1, <2>2, MultipleBelow
  <2> QED BY <1>1, <2>2, <2>3
<1>9. ASSUME NEW a \in Nat, Covers(s, a) PROVE Covers(e, a)
  <2>1. x <= a /\ a < x + y BY <1>5, <1>9 DEF Covers
  <2>2. b <= a /\ a < b + l BY <1>1, <1>2, <1>3, <1>4, <2>1
  <2> QED BY <1>5, <2>2 DEF Covers, b
<1>10. \A a \in Nat : \A t : Hit(s, a, t) => Hit(e, a, t) BY <1>5, <1>8, <1>9 DEF Hit
<1> QED BY <1>5, <1>7, <1>10 DEF s, x, y

LEMMA ClipKeepsTurn ==
  ASSUME MapInv, ClipKeeps
  PROVE  MapInv' /\ Shrinks(memmap, memmap')
<1> DEFINE e == memmap[i]
           s == IF align THEN Entry(AlignedBase(e), AlignedLength(e), e.type) ELSE e
<1>1. /\ phase = "clip" /\ phase' = "clip" /\ i' = i + 1 /\ j' = 1 /\ e.type = "usable"
      /\ i <= Len(memmap) /\ j > Len(memmap) /\ i \in Nat /\ j \in Nat
  BY DEF ClipKeeps, Clipping, Walk, MapInv, MapType
<1>2. e \in EntrySet /\ i \in 1..Len(memmap) /\ Len(memmap) \in Nat /\ memmap \in Seq(EntrySet)
  BY <1>1, AtIndex DEF MapInv, MapType
<1>3. s \in EntrySet /\ s.type = "usable" /\ \A a \in Nat : \A t : Hit(s, a, t) => Hit(e, a, t)
  <2>1. CASE align
    <3>1. e.length >= PageSize BY <2>1 DEF ClipKeeps, Alignable
    <3> QED BY <1>1, <1>2, <2>1, <3>1, AlignedPart
  <2>2. CASE ~align BY <1>1, <1>2, <2>2
  <2> QED BY <2>1, <2>2
<1>4. memmap' = [memmap EXCEPT ![i] = s]
  <2>1. CASE align BY <2>1 DEF ClipKeeps
  <2>2. CASE ~align
    <3>1. memmap' = memmap /\ s = memmap[i] BY <2>2 DEF ClipKeeps
    <3>2. memmap = [memmap EXCEPT ![i] = memmap[i]] BY <1>2
    <3> QED BY <3>1, <3>2
  <2> QED BY <2>1, <2>2
<1> HIDE DEF s
<1>5. /\ memmap' \in Seq(EntrySet) /\ Len(memmap') = Len(memmap)
      /\ \A n \in 1..Len(memmap) : memmap'[n] = IF n = i THEN s ELSE memmap[n]
      /\ Shrinks(memmap, memmap')
  BY <1>1, <1>3, <1>4, UsableShrinks
<1>6. MapType' BY <1>1, <1>5 DEF MapInv, MapType, ClipKeeps, Walk, Phases
<1>7. InsertInv' /\ UsableInv' BY <1>1 DEF InsertInv, UsableInv
<1>8. ClipInv'
  <2> SUFFICES ASSUME NEW k \in 1..Len(memmap), NEW n \in 1..Len(memmap),
                      memmap'[k].type = "usable", memmap'[n].type # "usable",
                      k < i + 1 \/ (k = i + 1 /\ n < 1)
               PROVE  ~Clash(memmap'[k], memmap'[n])
    BY <1>1, <1>5 DEF ClipInv, Clash, Covers, Top, Wraps
  <2>1. n # i /\ memmap'[n] = memmap[n] BY <1>3, <1>5
  <2>2. CASE k < i
    <3>1. k # i BY <1>1, <2>2
    <3>2. memmap'[k] = memmap[k] BY <1>5, <3>1
    <3> QED BY <1>1, <2>1, <2>2, <3>2 DEF MapInv, ClipInv
  <2>3. CASE k = i
    <3>1. memmap'[k] = s BY <1>5, <2>3
    <3>2. n < j BY <1>1, <1>2
    <3>3. ~Clash(e, memmap[n]) BY <1>1, <1>2, <2>1, <3>2 DEF MapInv, ClipInv
    <3>4. \A a \in Nat : Covers(s, a) /\ ~Wraps(s) => Covers(e, a) /\ ~Wraps(e) BY <1>3 DEF Hit
    <3>5. ~Clash(s, memmap[n]) BY <3>3, <3>4 DEF Clash
    <3> QED BY <2>1, <3>1, <3>5
  <2> QED BY <1>1, <2>2, <2>3
<1> QED BY <1>5, <1>6, <1>7, <1>8 DEF MapInv

LEMMA ClipEndTurn ==
  ASSUME MapInv, ClipEnd
  PROVE  MapInv' /\ Shrinks(memmap, memmap')
<1>1. /\ phase = "clip" /\ phase' = "trim" /\ memmap' = memmap /\ i > Len(memmap)
      /\ i \in Nat /\ Len(memmap) \in Nat
  BY LenProperties DEF ClipEnd, Walk, MapInv, MapType
<1>2. MapType' BY <1>1 DEF MapInv, MapType, ClipEnd, Walk, Phases
<1>3. InsertInv' /\ ClipInv' BY <1>1 DEF InsertInv, ClipInv
<1>4. UsableApart(memmap)
  <2> SUFFICES ASSUME NEW a \in Nat, NEW t, NEW k \in 1..Len(memmap), NEW n \in 1..Len(memmap),
                      Hit(memmap[k], a, "usable"), Hit(memmap[n], a, t), t # "usable"
               PROVE  FALSE
    BY DEF UsableApart, Has
  <2>1. k < i BY <1>1
  <2>2. ~Clash(memmap[k], memmap[n]) BY <1>1, <2>1 DEF MapInv, ClipInv, Hit
  <2> QED BY <2>2 DEF Clash, Hit
<1>5. UsableInv' BY <1>1, <1>4 DEF UsableInv
<1> QED BY <1>1, <1>2, <1>3, <1>5, ShrinksId DEF MapInv
-----------------------------------------------------------------------------
(* The other loops                                                         *)

LEMMA ShrinksApart ==
  ASSUME NEW m, NEW s, Shrinks(m, s), UsableApart(m)
  PROVE  UsableApart(s)
BY DEF Shrinks, UsableApart

LEMMA LaterLoops ==
  ASSUME MapInv, phase \in {"trim", "sort", "merge"}, memmap' \in Seq(EntrySet),
         Shrinks(memmap, memmap'),
         NEW where \in {"trim", "sort", "merge"}, NEW x \in Nat \ {0}, NEW y \in Nat \ {0}, Walk(where, x, y)
  PROVE  MapInv'
<1>1. MapType' BY DEF MapInv, MapType, Walk, Phases
<1>2. InsertInv' /\ ClipInv' BY DEF InsertInv, ClipInv, Walk
<1>3. UsableApart(memmap') BY ShrinksApart DEF MapInv, UsableInv
<1>4. UsableInv' BY <1>3 DEF UsableInv
<1> QED BY <1>1, <1>2, <1>4 DEF MapInv

LEMMA TrimDropsTurn ==
  ASSUME MapInv, TrimDrops
  PROVE  MapInv' /\ Shrinks(memmap, memmap')
<1>1. /\ phase = "trim" /\ i <= Len(memmap) /\ memmap' = SwapOut(memmap, i) /\ Walk("trim", i, j)
      /\ i \in Nat \ {0} /\ j \in Nat \ {0}
  BY DEF TrimDrops, Trimming, MapInv, MapType
<1>2. memmap' \in Seq(EntrySet) /\ Shrinks(memmap, memmap')
  <2>1. CASE memmap[i].type = "usable" BY <1>1, <2>1, UsableGoes
  <2>2. CASE memmap[i].type # "usable"
    <3>1. i \in 1..Len(memmap) /\ memmap[i] \in EntrySet /\ memmap \in Seq(EntrySet)
      BY <1>1, AtIndex DEF MapInv, MapType
    <3>2. memmap[i].length = 0 BY <2>2 DEF TrimDrops, InFirstPage
    <3>3. memmap' \in Seq(EntrySet) BY <1>1, <3>1, SwapOutSeq
    <3>4. ASSUME NEW a \in Nat, NEW t PROVE Has(memmap', a, t) <=> Has(memmap, a, t)
      <4>1. Has(memmap', a, t) <=> Others(memmap, i, a, t) BY <1>1, <3>1, SwapOutHas
      <4>2. Has(memmap, a, t) <=> Others(memmap, i, a, t) \/ Hit(memmap[i], a, t) BY <3>1, HasSplit
      <4>3. ~Hit(memmap[i], a, t) BY <3>1, <3>2, EntryType DEF Hit, Covers, Top
      <4> QED BY <4>1, <4>2, <4>3
    <3> QED BY <3>3, <3>4 DEF Shrinks
  <2> QED BY <2>1, <2>2
<1> QED BY <1>1, <1>2, LaterLoops

LEMMA TrimKeepsTurn ==
  ASSUME MapInv, TrimKeeps
  PROVE  MapInv' /\ Shrinks(memmap, memmap')
<1> DEFINE e == memmap[i]
<1>1. /\ phase = "trim" /\ i <= Len(memmap) /\ Walk("trim", i + 1, j)
      /\ i \in Nat \ {0} /\ j \in Nat \ {0} /\ memmap \in Seq(EntrySet)
  BY DEF TrimKeeps, Trimming, MapInv, MapType
<1>2. memmap' \in Seq(EntrySet) /\ Shrinks(memmap, memmap')
  <2>1. CASE InFirstPage(e)
    <3> DEFINE s == Span(PageSize, Top(e), e.type)
    <3>1. e \in EntrySet BY <1>1, AtIndex DEF MapInv
    <3>2. /\ e.type = "usable" /\ e.base < PageSize /\ ~Wraps(e) /\ Top(e) > PageSize
          /\ memmap' = [memmap EXCEPT ![i] = s]
      BY <2>1 DEF InFirstPage, TrimKeeps
    <3>3. e.base \in Nat /\ Top(e) \in Nat /\ PageSize \in Nat BY <3>1, EntryType, MemmapConstants
    <3>4. e.base <= PageSize /\ PageSize <= Top(e) /\ Top(e) <= Top(e) BY <3>2, <3>3
    <3>5. s \in EntrySet /\ s.type = "usable" BY <3>1, <3>2, <3>3, <3>4, SpanPart
    <3>6. \A a \in Nat : \A t : Hit(s, a, t) => Hit(e, a, t) BY <3>1, <3>2, <3>3, <3>4, SpanHit
    <3> HIDE DEF s
    <3> QED BY <1>1, <3>2, <3>5, <3>6, UsableShrinks
  <2>2. CASE ~InFirstPage(e) BY <1>1, <2>2, ShrinksId DEF TrimKeeps
  <2> QED BY <2>1, <2>2
<1>3. i + 1 \in Nat \ {0} BY <1>1
<1> QED BY <1>1, <1>2, <1>3, LaterLoops

LEMMA TrimEndTurn ==
  ASSUME MapInv, TrimEnd
  PROVE  MapInv' /\ Shrinks(memmap, memmap')
<1>1. phase = "trim" /\ memmap' = memmap /\ Walk("sort", 1, 1) /\ memmap \in Seq(EntrySet)
  BY DEF TrimEnd, MapInv, MapType
<1>2. Shrinks(memmap, memmap') BY <1>1, ShrinksId
<1> QED BY <1>1, <1>2, LaterLoops

LEMMA SortTurn ==
  ASSUME MapInv, Sort
  PROVE  MapInv' /\ Shrinks(memmap, memmap')
<1>1. /\ phase = "sort" /\ i < Len(memmap) /\ Walk("sort", i + 1, j)
      /\ i \in Nat \ {0} /\ j \in Nat \ {0} /\ memmap \in Seq(EntrySet) /\ Len(memmap) \in Nat
  BY LenProperties DEF Sort, MapInv, MapType
<1>2. PICK k \in i..Len(memmap) : memmap' = [memmap EXCEPT ![i] = memmap[k], ![k] = memmap[i]]
  BY DEF Sort
<1>3. i \in 1..Len(memmap) /\ k \in 1..Len(memmap) /\ i + 1 \in Nat \ {0} BY <1>1
<1>4. memmap' \in Seq(EntrySet) BY <1>1, <1>2, <1>3, SwapSeq
<1>5. \A a \in Nat : \A t : Has(memmap', a, t) <=> Has(memmap, a, t) BY <1>1, <1>2, <1>3, SwapHas
<1>6. Shrinks(memmap, memmap') BY <1>5 DEF Shrinks
<1> QED BY <1>1, <1>3, <1>4, <1>6, LaterLoops

LEMMA SortEndTurn ==
  ASSUME MapInv, SortEnd
  PROVE  MapInv' /\ Shrinks(memmap, memmap')
<1>1. phase = "sort" /\ memmap' = memmap /\ Walk("merge", 1, 1) /\ memmap \in Seq(EntrySet)
  BY DEF SortEnd, MapInv, MapType
<1>2. Shrinks(memmap, memmap') BY <1>1, ShrinksId
<1> QED BY <1>1, <1>2, LaterLoops

LEMMA JoinedEntry ==
  ASSUME NEW m \in Seq(EntrySet), NEW k \in 1..(Len(m) - 1), Merges(m, k)
  PROVE  /\ Joined(m, k) \in EntrySet
         /\ \A a \in Nat : \A t :
              /\ Hit(Joined(m, k), a, t) => Hit(m[k], a, t) \/ Hit(m[k + 1], a, t)
              /\ t # "usable" /\ (Hit(m[k], a, t) \/ Hit(m[k + 1], a, t)) => Hit(Joined(m, k), a, t)
<1> DEFINE e == m[k]
           f == m[k + 1]
           q == Joined(m, k)
<1>1. Len(m) \in Nat /\ k \in 1..Len(m) /\ k + 1 \in 1..Len(m) BY LenProperties
<1>2. e \in EntrySet /\ f \in EntrySet BY <1>1, ElementOfSeq
<1>3. /\ e.type \in Mergeable /\ ~Wraps(e) /\ f.type = e.type /\ f.base = Top(e) BY DEF Merges
<1>4. q.base = e.base /\ q.length = e.length + f.length /\ q.type = e.type
      /\ q = [base |-> e.base, length |-> e.length + f.length, type |-> e.type]
  BY DEF Joined, Entry
<1> HIDE DEF e, f, q
<1>5. /\ e.base \in Nat /\ e.length \in Nat /\ e.type \in MemTypes /\ f.length \in Nat /\ f.base \in Nat
      /\ Top(e) = e.base + e.length /\ Top(f) = f.base + f.length
  BY <1>2, EntryType DEF Top
<1>6. Top(q) = Top(f) BY <1>3, <1>4, <1>5 DEF Top
<1>7. q \in [base: Nat, length: Nat, type: MemTypes]
  <2>1. e.length + f.length \in Nat BY <1>5
  <2> QED BY <1>4, <1>5, <2>1
<1>8. Wraps(q) <=> Wraps(f) BY <1>6 DEF Wraps
<1>9. q \in EntrySet BY <1>2, <1>3, <1>4, <1>7, <1>8 DEF EntrySet
<1>10. ASSUME NEW a \in Nat PROVE Covers(q, a) <=> Covers(e, a) \/ Covers(f, a)
  BY <1>3, <1>4, <1>5, <1>6 DEF Covers
<1>11. ASSUME NEW a \in Nat, NEW t PROVE Hit(q, a, t) => Hit(e, a, t) \/ Hit(f, a, t)
  BY <1>3, <1>4, <1>8, <1>10 DEF Hit
<1>12. ASSUME NEW a \in Nat, NEW t, t # "usable", Hit(e, a, t) \/ Hit(f, a, t) PROVE Hit(q, a, t)
  <2>1. e.type = t BY <1>3, <1>12 DEF Hit
  <2>2. ~Wraps(f) BY <1>2, <1>3, <1>12, <2>1 DEF EntrySet
  <2> QED BY <1>4, <1>8, <1>10, <1>12, <2>1, <2>2 DEF Hit
<1> QED BY <1>9, <1>11, <1>12 DEF e, f, q

LEMMA MergeTurn ==
  ASSUME MapInv, Merge
  PROVE  MapInv' /\ Shrinks(memmap, memmap')
<1>1. /\ phase = "merge" /\ i < Len(memmap)
      /\ i \in Nat \ {0} /\ j \in Nat \ {0} /\ memmap \in Seq(EntrySet) /\ Len(memmap) \in Nat
  BY LenProperties DEF Merge, MapInv, MapType
<1>2. CASE Merges(memmap, i) /\ memmap' = Merged(memmap, i) /\ Walk("merge", i, j)
  <2>1. i \in 1..(Len(memmap) - 1) BY <1>1
  <2>2. /\ Joined(memmap, i) \in EntrySet
        /\ \A a \in Nat : \A t :
             /\ Hit(Joined(memmap, i), a, t) => Hit(memmap[i], a, t) \/ Hit(memmap[i + 1], a, t)
             /\ t # "usable" /\ (Hit(memmap[i], a, t) \/ Hit(memmap[i + 1], a, t))
                  => Hit(Joined(memmap, i), a, t)
    BY <1>1, <1>2, <2>1, JoinedEntry
  <2>3. memmap' \in Seq(EntrySet) BY <1>1, <1>2, <2>1, <2>2, MergedSeq
  <2>4. Shrinks(memmap, memmap')
    <3> SUFFICES ASSUME NEW a \in Nat, NEW t
                 PROVE  /\ Has(Merged(memmap, i), a, t) => Has(memmap, a, t)
                        /\ t # "usable" /\ Has(memmap, a, t) => Has(Merged(memmap, i), a, t)
      BY <1>2 DEF Shrinks
    <3> QED BY <1>1, <2>1, <2>2, MergedHas
  <2> QED BY <1>1, <1>2, <2>3, <2>4, LaterLoops
<1>3. CASE ~Merges(memmap, i) /\ UNCHANGED memmap /\ Walk("merge", i + 1, j)
  <2>1. Shrinks(memmap, memmap') BY <1>3, ShrinksId
  <2>2. i + 1 \in Nat \ {0} BY <1>1
  <2> QED BY <1>1, <1>3, <2>1, <2>2, LaterLoops
<1> QED BY <1>2, <1>3 DEF Merge

LEMMA MergeEndTurn ==
  ASSUME MapInv, MergeEnd
  PROVE  MapInv' /\ Shrinks(memmap, memmap')
<1>1. /\ phase = "merge" /\ memmap' = memmap /\ i' = 1 /\ j' = 1 /\ ins' = ins /\ align' = align
      /\ phase' \in {"idle", "clip"} /\ passes' = IF passes = 0 THEN 0 ELSE passes - 1
  BY DEF MergeEnd
<1>2. MapType' BY <1>1 DEF MapInv, MapType, Phases
<1>3. InsertInv' BY <1>1 DEF InsertInv
<1>4. UsableInv' BY <1>1 DEF MapInv, UsableInv
<1>5. ClipInv'
  <2> SUFFICES ASSUME NEW k \in 1..Len(memmap'), NEW n \in 1..Len(memmap'),
                      k < 1 \/ (k = 1 /\ n < 1)
               PROVE  FALSE
    BY <1>1 DEF ClipInv
  <2> QED OBVIOUS
<1> QED BY <1>1, <1>2, <1>3, <1>4, <1>5, ShrinksId DEF MapInv
-----------------------------------------------------------------------------
(* Every turn of every loop keeps the invariant, and takes no more from an *)
(* address than that it is usable.                                         *)
LEMMA MapTurn ==
  ASSUME MapInv, MapStep
  PROVE  /\ MapInv'
         /\ \A a \in Nat : Owners(a)' = Owners(a) \/ Owners(a)' = Owners(a) \ {"usable"}
<1> DEFINE Kept == \A a \in Nat : Owners(a)' = Owners(a) \/ Owners(a)' = Owners(a) \ {"usable"}
<1>1. CASE \/ InsertSkip \/ InsertCovers \/ InsertShaves \/ InsertSplits
           \/ InsertExhausted \/ InsertEnd
  <2>1. MapInv' /\ OwnersKept
    BY <1>1, InsertSkipTurn, InsertCoversTurn, InsertShavesTurn, InsertSplitsTurn,
       InsertExhaustedTurn, InsertEndTurn
  <2> QED BY <2>1 DEF OwnersKept
<1>2. ASSUME MapInv' /\ Shrinks(memmap, memmap'), phase \notin {"insert", "insert_panic"},
             phase' \notin {"insert", "insert_panic"}
      PROVE  MapInv' /\ Kept
  BY <1>2, OwnersShrink
<1> HIDE DEF Kept
<1>3. CASE \/ ClipSkip \/ ClipRemoves \/ ClipPasses \/ ClipSplits \/ ClipExhausted
           \/ ClipCuts \/ ClipKeeps \/ ClipDrops \/ ClipEnd
  <2>1. MapInv' /\ Shrinks(memmap, memmap')
    BY <1>3, ClipSkipTurn, ClipRemovesTurn, ClipPassesTurn, ClipSplitsTurn, ClipExhaustedTurn,
       ClipCutsTurn, ClipKeepsTurn, ClipDropsTurn, ClipEndTurn
  <2>2. phase = "clip" /\ phase' \in {"clip", "trim", "panic"}
    BY <1>3 DEF ClipSkip, ClipRemoves, ClipPasses, ClipSplits, ClipExhausted, ClipCuts, ClipKeeps,
       ClipDrops, ClipEnd, Clipping, Pair, Walk, Panic
  <2> QED BY <1>2, <2>1, <2>2 DEF Kept
<1>4. CASE TrimDrops \/ TrimKeeps \/ TrimEnd \/ Sort \/ SortEnd \/ Merge \/ MergeEnd
  <2>1. MapInv' /\ Shrinks(memmap, memmap')
    BY <1>4, TrimDropsTurn, TrimKeepsTurn, TrimEndTurn, SortTurn, SortEndTurn, MergeTurn, MergeEndTurn
  <2>2. phase \in {"trim", "sort", "merge"} /\ phase' \in {"trim", "sort", "merge", "idle", "clip"}
    BY <1>4 DEF TrimDrops, TrimKeeps, TrimEnd, Trimming, Sort, SortEnd, Merge, MergeEnd, Walk
  <2> QED BY <1>2, <2>1, <2>2 DEF Kept
<1> QED BY <1>1, <1>3, <1>4 DEF MapStep, Kept
=============================================================================
