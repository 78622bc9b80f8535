---------------------------- MODULE MCMultiboot ----------------------------
(***************************************************************************)
(* Multiboot on fifteen pages of two bytes: firmware maps with and         *)
(* without a hole, terminal buffers at the top or in the middle, images    *)
(* linked at many addresses or relocatable, a section, one to three modules*)
(***************************************************************************)
EXTENDS Multiboot

MapOf(reserved, loader) ==
  [a \in Addr |-> IF a \in reserved THEN "reserved" ELSE IF a \in loader THEN "loader" ELSE "usable"]

(* <<reserved, terminal buffers>> *)
Maps ==
  {<<0..1, 28..29>>,             \* one stretch of memory
   <<(0..1) \cup (8..9), 28..29>>, \* a hole
   <<0..1, 14..15>>,             \* the terminal in the middle
   <<(0..1) \cup (21..29), 19..20>>} \* little memory, not in whole pages

Tags ==
  {[min |-> lo, max |-> hi, align |-> al, highest |-> h] :
     lo \in {0, 5}, hi \in {11, 30}, al \in {0, 2}, h \in BOOLEAN}

Fixed(proto, m, image, target, sections, modules) ==
  [proto |-> proto, mem |-> MapOf(m[1], m[2]), term |-> m[2], image |-> image,
   entry |-> target, target |-> target, reloc |-> << >>, sections |-> sections, modules |-> modules]

Relocatable(m, image, tag, sections, modules) ==
  [proto |-> 2, mem |-> MapOf(m[1], m[2]), term |-> m[2], image |-> image,
   entry |-> 3 + image - 1, target |-> 3, reloc |-> <<tag>>, sections |-> sections,
   modules |-> modules]

Sections == {<< >>, <<[offset |-> 1, size |-> 2]>>}
ModuleLists == {<<0>>, <<3>>, <<2, 3>>, <<3, 0, 1>>}

FixedBoots ==
  {Fixed(2, m, i, t, << >>, ms) : m \in Maps, i \in {2, 3}, t \in 1..27, ms \in ModuleLists}

SomeBoots ==
  {Fixed(p, m, i, t, s, ms) : p \in {1, 2}, m \in Maps, i \in {2, 3}, t \in {1, 2, 3, 6, 7, 10, 12, 15, 16, 18, 19, 21, 22, 23, 24, 26, 27}, s \in Sections,
                              ms \in ModuleLists}
    \cup {Relocatable(m, i, tag, s, ms) : m \in Maps, i \in {2, 3}, tag \in Tags, s \in Sections,
                                          ms \in ModuleLists}
=============================================================================
